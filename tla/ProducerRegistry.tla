----------------------------- MODULE ProducerRegistry -----------------------------
(***************************************************************************)
(* How a thread comes by its sub-queue in moodycamel::ConcurrentQueue      *)
(* (base/concurrentqueue/concurrentqueue.h): a producer token owns one; a  *)
(* thread that enqueues without a token finds its own in a lock-free hash  *)
(* table of thread ids that grows by chaining a larger table in front.     *)
(* When a token dies or a thread exits the sub-queue becomes inactive and  *)
(* is recycled.  Everything a sub-queue does relies on its having one      *)
(* producer at a time.                                                     *)
(*                                                                         *)
(* A search through the list or a table is one action; a thread's own id   *)
(* is only ever written by itself.                                         *)
(***************************************************************************)
EXTENDS Integers, Sequences, FiniteSets

CONSTANTS HashThreads,   \* threads that enqueue without a token, and may exit
          TokenThreads,  \* threads that make and drop a producer token
          HashOf,        \* hash_thread_id
          HashCapacity,  \* INITIAL_IMPLICIT_PRODUCER_HASH_SIZE
          MaxTables,     \* bound: hash tables made
          MaxLives       \* bound: times any thread comes to life

invalid_thread_id == "empty"       \* never used
invalid_thread_id2 == "reusable"   \* of a thread that exited

ASSUME RegistryAssumption ==
  /\ HashCapacity \in Nat \ {0} /\ MaxTables \in Nat \ {0} /\ MaxLives \in Nat
  /\ HashOf \in [HashThreads -> Nat]
  /\ HashThreads \cap TokenThreads = {}
  /\ {invalid_thread_id, invalid_thread_id2} \cap HashThreads = {}

VARIABLES tables,       \* chain of hash tables, the last is the main one
          hashCount,    \* implicitProducerHashCount
          resizing,     \* implicitProducerHashResizeInProgress
          producers,    \* producer list: [explicit, inactive]
          registrant,   \* where each thread is, with its local variables
          lives         \* times a thread came to life

registryVars == <<tables, hashCount, resizing, producers, registrant, lives>>

NoProducer == 0
Unborn == [pc |-> "unborn"]
Table(capacity) == [s \in 0..capacity-1 |-> [key |-> invalid_thread_id, value |-> NoProducer]]
CapacityOf(h) == Cardinality(DOMAIN tables[h])
MainTable == Len(tables)

RegistrantIs(t, pc) == registrant[t].pc = pc
RegistrantTo(t, there) == registrant' = [registrant EXCEPT ![t] = there]

RegistryInit ==
  /\ tables = <<Table(HashCapacity)>>
  /\ hashCount = 0
  /\ resizing = FALSE
  /\ producers = <<>>
  /\ registrant = [t \in HashThreads \cup TokenThreads |-> Unborn]
  /\ lives = 0

Live(t) == /\ RegistrantIs(t, "unborn")
           /\ lives < MaxLives
           /\ lives' = lives + 1
-----------------------------------------------------------------------------
\* recycle_or_create_producer: the newest inactive one of the kind, or a new one
RecycleOrCreate(explicit, p) ==
  LET idle == {r \in DOMAIN producers : producers[r] = [explicit |-> explicit, inactive |-> TRUE]} IN
    IF idle = {}
    THEN /\ p = Len(producers) + 1
         /\ producers' = Append(producers, [explicit |-> explicit, inactive |-> FALSE])
    ELSE /\ p \in idle /\ \A r \in idle : r <= p
         /\ producers' = [producers EXCEPT ![p].inactive = FALSE]

\* ProducerToken's constructor and destructor
MakeToken(t) ==
  /\ Live(t)
  /\ \E p \in 1..Len(producers)+1 :
       RecycleOrCreate(TRUE, p) /\ RegistrantTo(t, [pc |-> "token", producer |-> p])
  /\ UNCHANGED <<tables, hashCount, resizing>>

DropToken(t) ==
  /\ RegistrantIs(t, "token")
  /\ producers' = [producers EXCEPT ![registrant[t].producer].inactive = TRUE]
  /\ RegistrantTo(t, Unborn)
  /\ UNCHANGED <<tables, hashCount, resizing, lives>>
-----------------------------------------------------------------------------
(***************************************************************************)
(* get_or_add_implicit_producer                                            *)
(***************************************************************************)
KeyIn(h, t) == \E s \in DOMAIN tables[h] : tables[h][s].key = t
Producer(h, t) == tables[h][CHOOSE s \in DOMAIN tables[h] : tables[h][s].key = t].value
TablesWith(t) == {h \in DOMAIN tables : KeyIn(h, t)}

\* the slot t takes in table h: the first free one from its hash on; a thread
\* that finds none goes round the table for ever
Free(h) == {s \in DOMAIN tables[h] : tables[h][s].key \in {invalid_thread_id, invalid_thread_id2}}
Distance(h, t, s) == (s - HashOf[t]) % CapacityOf(h)
SlotFor(h, t) == CHOOSE s \in Free(h) : \A r \in Free(h) : Distance(h, t, s) <= Distance(h, t, r)
PutIn(h, t, p) == tables' = [tables EXCEPT ![h][SlotFor(h, t)] = [key |-> t, value |-> p]]

\* a new thread has to be counted; the main table it saw may be replaced meanwhile
FirstEnqueue(t) ==
  /\ Live(t)
  /\ TablesWith(t) = {}
  /\ RegistrantTo(t, [pc |-> "count", main |-> MainTable])
  /\ UNCHANGED <<tables, hashCount, resizing, producers>>

LaterEnqueue(t) ==
  /\ RegistrantIs(t, "registered")
  /\ ~KeyIn(MainTable, t)
  /\ RegistrantTo(t, [pc |-> "copy", main |-> MainTable, producer |-> registrant[t].producer])
  /\ UNCHANGED <<tables, hashCount, resizing, producers, lives>>

\* found in an older table: added to the main one, to shorten the next search
CopyToMain(t) ==
  /\ RegistrantIs(t, "copy")
  /\ Free(registrant[t].main) # {}
  /\ PutIn(registrant[t].main, t, registrant[t].producer)
  /\ RegistrantTo(t, [pc |-> "registered", producer |-> registrant[t].producer])
  /\ UNCHANGED <<hashCount, resizing, producers, lives>>

CountMe(t) ==
  /\ RegistrantIs(t, "count")
  /\ hashCount' = hashCount + 1
  /\ RegistrantTo(t, [pc |-> "room", main |-> registrant[t].main, n |-> hashCount + 1])
  /\ UNCHANGED <<tables, resizing, producers, lives>>

TooFull(n, h) == n >= CapacityOf(h) \div 2
Crowded(n, h) == n >= CapacityOf(h) \div 2 + CapacityOf(h) \div 4

\* the resize lock, and the main table again
LockResize(t) ==
  /\ RegistrantIs(t, "room")
  /\ TooFull(registrant[t].n, registrant[t].main) /\ ~resizing
  /\ resizing' = TRUE
  /\ RegistrantTo(t, [registrant[t] EXCEPT !.pc = "resize", !.main = MainTable])
  /\ UNCHANGED <<tables, hashCount, producers, lives>>

\* doubled until the count is less than half of it
Doubled(h, n, c) == /\ \E k \in 1..n+1 : c = CapacityOf(h) * 2^k
                    /\ n < c \div 2
                    /\ c = 2 * CapacityOf(h) \/ n >= c \div 4

Resize(t) ==
  /\ RegistrantIs(t, "resize")
  /\ LET r == registrant[t] IN
       IF TooFull(r.n, r.main)
       THEN /\ MainTable < MaxTables
            /\ \E c \in 1..4 * (CapacityOf(r.main) + r.n) :
                 Doubled(r.main, r.n, c) /\ tables' = Append(tables, Table(c))
            /\ RegistrantTo(t, [r EXCEPT !.pc = "add", !.main = MainTable + 1])
       ELSE RegistrantTo(t, [r EXCEPT !.pc = "add"]) /\ UNCHANGED tables
  /\ resizing' = FALSE
  /\ UNCHANGED <<hashCount, producers, lives>>

\* malloc fails: the count is taken back and the enqueue fails
FailToResize(t) ==
  /\ RegistrantIs(t, "resize")
  /\ TooFull(registrant[t].n, registrant[t].main)
  /\ hashCount' = hashCount - 1
  /\ resizing' = FALSE
  /\ RegistrantTo(t, Unborn)
  /\ UNCHANGED <<tables, producers, lives>>

\* a table that is not crowded is used although another thread makes a larger one
Recycle(t) ==
  /\ \/ RegistrantIs(t, "add")
     \/ RegistrantIs(t, "room") /\ (resizing \/ ~TooFull(registrant[t].n, registrant[t].main))
  /\ ~Crowded(registrant[t].n, registrant[t].main)
  /\ \E p \in 1..Len(producers)+1 :
       /\ RecycleOrCreate(FALSE, p)
       /\ RegistrantTo(t, [pc |-> "insert", main |-> registrant[t].main, producer |-> p])
  /\ UNCHANGED <<tables, hashCount, resizing, lives>>

ReloadMain(t) ==
  /\ \/ RegistrantIs(t, "add")
     \/ RegistrantIs(t, "room") /\ resizing
  /\ Crowded(registrant[t].n, registrant[t].main)
  /\ RegistrantTo(t, [registrant[t] EXCEPT !.pc = "room", !.main = MainTable])
  /\ UNCHANGED <<tables, hashCount, resizing, producers, lives>>

\* a reused slot had been counted already
InsertMe(t) ==
  /\ RegistrantIs(t, "insert")
  /\ LET r == registrant[t] IN
       /\ Free(r.main) # {}
       /\ hashCount' = IF tables[r.main][SlotFor(r.main, t)].key = invalid_thread_id2
                       THEN hashCount - 1 ELSE hashCount
       /\ PutIn(r.main, t, r.producer)
       /\ RegistrantTo(t, [pc |-> "registered", producer |-> r.producer])
  /\ UNCHANGED <<resizing, producers, lives>>
-----------------------------------------------------------------------------
(***************************************************************************)
(* implicit_producer_thread_exited: the id goes from every table, from the *)
(* main one to the oldest, and then the producer may be recycled.          *)
(***************************************************************************)
ExitThread(t) ==
  /\ RegistrantIs(t, "registered")
  /\ RegistrantTo(t, [pc |-> "exit", table |-> MainTable, producer |-> registrant[t].producer])
  /\ UNCHANGED <<tables, hashCount, resizing, producers, lives>>

\* Slip: the id only goes from the main table.
ReleaseKey_MainOnly(t) ==
  /\ RegistrantIs(t, "exit")
  /\ registrant[t].table > 0
  /\ tables' = [tables EXCEPT ![MainTable] = [s \in DOMAIN @ |->
       IF @[s].key = t THEN [@[s] EXCEPT !.key = invalid_thread_id2] ELSE @[s]]]
  /\ RegistrantTo(t, [registrant[t] EXCEPT !.table = 0])
  /\ UNCHANGED <<hashCount, resizing, producers, lives>>

ReleaseKey(t) ==
  /\ RegistrantIs(t, "exit")
  /\ registrant[t].table > 0
  /\ LET h == registrant[t].table IN
       tables' = [tables EXCEPT ![h] = [s \in DOMAIN @ |->
                    IF @[s].key = t THEN [@[s] EXCEPT !.key = invalid_thread_id2] ELSE @[s]]]
  /\ RegistrantTo(t, [registrant[t] EXCEPT !.table = @ - 1])
  /\ UNCHANGED <<hashCount, resizing, producers, lives>>

DeactivateProducer(t) ==
  /\ RegistrantIs(t, "exit")
  /\ registrant[t].table = 0
  /\ producers' = [producers EXCEPT ![registrant[t].producer].inactive = TRUE]
  /\ RegistrantTo(t, Unborn)
  /\ UNCHANGED <<tables, hashCount, resizing, lives>>

RegistryNext ==
  \/ \E t \in TokenThreads : MakeToken(t) \/ DropToken(t)
  \/ \E t \in HashThreads :
       \/ FirstEnqueue(t) \/ LaterEnqueue(t) \/ CopyToMain(t) \/ CountMe(t) \/ LockResize(t)
       \/ Resize(t) \/ FailToResize(t) \/ Recycle(t) \/ ReloadMain(t) \/ InsertMe(t)
       \/ ExitThread(t) \/ ReleaseKey(t) \/ DeactivateProducer(t)
-----------------------------------------------------------------------------
Has(t) == "producer" \in DOMAIN registrant[t]

\* A sub-queue has one producer at a time: threads and tokens that have one have
\* different ones, of their kind and not up for recycling, wherever the tables
\* name a thread they name the sub-queue it uses.  The hash table under growth,
\* thread exit and recycling.
OneProducerEach ==
  /\ \A t \in HashThreads \cup TokenThreads : Has(t) =>
       /\ producers[registrant[t].producer] = [explicit |-> t \in TokenThreads, inactive |-> FALSE]
       /\ \A u \in HashThreads \cup TokenThreads : u # t /\ Has(u) =>
            registrant[u].producer # registrant[t].producer
  /\ \A t \in HashThreads, h \in DOMAIN tables :
       KeyIn(h, t) => Has(t) /\ Producer(h, t) = registrant[t].producer
=============================================================================
