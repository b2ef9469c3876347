------------------------------ MODULE ProducerBase ------------------------------
(***************************************************************************)
(* What the two kinds of sub-queues of moodycamel::ConcurrentQueue have in *)
(* common (base/concurrentqueue/concurrentqueue.h): one producer writes    *)
(* items into blocks and then moves tailIndex; any number of consumers     *)
(* claim ranges of indices through three counters.  An item is its index,  *)
(* indices are W-valued and wrap.  A single operation is the bulk one with *)
(* a count of 1: the two compute the same.                                 *)
(*                                                                         *)
(* One action is one access to what threads share, the loads that only     *)
(* decide whether to try are one action; memory is sequentially            *)
(* consistent.                                                             *)
(***************************************************************************)
EXTENDS Integers, Sequences, FiniteSets, FiniteSetsExt, TLC

CONSTANTS W,          \* values of index_t
          B,          \* BLOCK_SIZE
          QueueBlocks,\* blocks the sub-queue may get hold of
          Consumers,  \* threads that dequeue
          BulkSizes,  \* counts of the operations
          LastIndex   \* bound: no index beyond this one is enqueued

ASSUME ProducerAssumption ==
  /\ B \in Nat \ {0, 1} /\ W \in Nat /\ W % (2 * B) = 0
  /\ BulkSizes \subseteq 1..W \div 2

VARIABLES tailIndex, headIndex, dequeueOptimisticCount, dequeueOvercommit,
          content,   \* of each slot of each block
          tailBlock,
          prod,      \* where the producer is, with its local variables
          at         \* where each consumer is

counters == <<tailIndex, headIndex, dequeueOptimisticCount, dequeueOvercommit>>
claimVars == <<headIndex, dequeueOptimisticCount, dequeueOvercommit>>

NoItem == -1
None == "none"
Idle == [pc |-> "idle"]

Plus(i, n) == (i + n) % W
Minus(i, j) == (i - j) % W
circular_less_than(a, b) == Minus(a, b) > W \div 2
Base(i) == i - (i % B)
Indices(first, n) == {Plus(first, k) : k \in 0..n-1}
\* the signed quotient that says how many blocks lie between two bases
BlocksFrom(base, headBase) ==
  LET d == Minus(base, headBase) IN (IF d >= W \div 2 THEN d - W ELSE d) \div B
Smaller(a, b) == IF a < b THEN a ELSE b

ConsumerIs(c, pc) == at[c].pc = pc
ConsumerTo(c, there) == at' = [at EXCEPT ![c] = there]

BaseInit ==
  /\ tailIndex = 0 /\ headIndex = 0
  /\ dequeueOptimisticCount = 0 /\ dequeueOvercommit = 0
  /\ content = [b \in QueueBlocks |-> [s \in 0..B-1 |-> NoItem]]
  /\ tailBlock = None
  /\ prod = Idle
  /\ at = [c \in Consumers |-> Idle]

\* blocks that "count" more items make necessary, and the base of the last one
BlocksNeeded(count) == Minus(Base(Plus(tailIndex, count - 1)), Base(Minus(tailIndex, 1))) \div B
LastBase == Base(Minus(tailIndex, 1))
\* not enough leeway: the tail could pass the head before the block is full
NoLeeway(base) == ~circular_less_than(headIndex, Plus(base, B))
-----------------------------------------------------------------------------
(***************************************************************************)
(* dequeue and dequeue_bulk up to the claim.                               *)
(***************************************************************************)
LookForItems(c) ==
  /\ ConsumerIs(c, "idle")
  /\ LET there == Minus(tailIndex, Minus(dequeueOptimisticCount, dequeueOvercommit)) IN
       /\ circular_less_than(0, there)
       /\ \E max \in BulkSizes :
            ConsumerTo(c, [pc |-> "count", desired |-> Smaller(there, max),
                           overcommit |-> dequeueOvercommit])
  /\ UNCHANGED <<counters, content>>

CountOptimistically(c) ==
  /\ ConsumerIs(c, "count")
  /\ dequeueOptimisticCount' = Plus(dequeueOptimisticCount, at[c].desired)
  /\ ConsumerTo(c, [pc |-> "check", desired |-> at[c].desired,
                    mine |-> Minus(dequeueOptimisticCount, at[c].overcommit)])
  /\ UNCHANGED <<tailIndex, headIndex, dequeueOvercommit, content>>

\* the tail again, which may have moved: how many of them are really there
CheckTail(c) ==
  /\ ConsumerIs(c, "check")
  /\ LET there == Minus(tailIndex, at[c].mine)
         actual == IF circular_less_than(0, there) THEN Smaller(at[c].desired, there) ELSE 0 IN
       ConsumerTo(c, IF actual < at[c].desired
                     THEN [pc |-> "overcommit", left |-> actual, over |-> at[c].desired - actual]
                     ELSE [pc |-> "head", left |-> actual])
  /\ UNCHANGED <<counters, content>>

\* Slip: the excess is only counted when something is left to take.
Overcommit_Forgotten(c) ==
  /\ ConsumerIs(c, "overcommit")
  /\ dequeueOvercommit' = IF at[c].left = 0 THEN dequeueOvercommit
                          ELSE Plus(dequeueOvercommit, at[c].over)
  /\ ConsumerTo(c, IF at[c].left = 0 THEN Idle ELSE [pc |-> "head", left |-> at[c].left])
  /\ UNCHANGED <<tailIndex, headIndex, dequeueOptimisticCount, content>>

Overcommit(c) ==
  /\ ConsumerIs(c, "overcommit")
  /\ dequeueOvercommit' = Plus(dequeueOvercommit, at[c].over)
  /\ ConsumerTo(c, IF at[c].left = 0 THEN Idle ELSE [pc |-> "head", left |-> at[c].left])
  /\ UNCHANGED <<tailIndex, headIndex, dequeueOptimisticCount, content>>

ClaimHead(c) ==
  /\ ConsumerIs(c, "head")
  /\ headIndex' = Plus(headIndex, at[c].left)
  /\ ConsumerTo(c, [pc |-> "index", index |-> headIndex, left |-> at[c].left])
  /\ UNCHANGED <<tailIndex, dequeueOptimisticCount, dequeueOvercommit, content>>

Claim(c) == \/ LookForItems(c) \/ CountOptimistically(c)
            \/ CheckTail(c) \/ Overcommit(c) \/ ClaimHead(c)
-----------------------------------------------------------------------------
(***************************************************************************)
(* A claimed range is taken block by block; the kinds differ in how a      *)
(* block is found and in what happens when it has been emptied.            *)
(***************************************************************************)
PartInBlock(c) == Smaller(at[c].left, B - (at[c].index % B))

\* the items leave block b: moved out and destroyed
MoveOut(c, b) ==
  /\ content' = [content EXCEPT ![b] = [s \in 0..B-1 |->
       IF s \in {i % B : i \in Indices(at[c].index, PartInBlock(c))} THEN NoItem ELSE @[s]]]
  /\ UNCHANGED counters

\* the next block of the range, or the end of the operation
NextPart(c, next) ==
  ConsumerTo(c, IF at[c].left = PartInBlock(c) THEN Idle
                ELSE [next EXCEPT !.index = Plus(@, PartInBlock(c)),
                                  !.left = @ - PartInBlock(c)])

size_approx == IF circular_less_than(headIndex, tailIndex) THEN Minus(tailIndex, headIndex) ELSE 0
-----------------------------------------------------------------------------
Claimants == {c \in Consumers : at[c].pc \notin
                {"idle", "count", "check", "overcommit", "head"}}
\* claimed and not yet moved out
Pending(c) == IF c \notin Claimants THEN {}
              ELSE IF at[c].pc \in {"empty", "unlink", "free"}
              THEN Indices(Plus(at[c].index, PartInBlock(c)), at[c].left - PartInBlock(c))
              ELSE Indices(at[c].index, at[c].left)
ItemsLeft == Indices(headIndex, Minus(tailIndex, headIndex))
Constructed == IF prod.pc = "tail" THEN Indices(tailIndex, prod.count) ELSE {}
Stored == (UNION {{content[b][s] : s \in 0..B-1} : b \in QueueBlocks}) \ {NoItem}

\* what the counters are ahead of the head by, because of the thread c
Ahead(c) == CASE at[c].pc = "check" -> at[c].desired
              [] at[c].pc = "overcommit" -> at[c].left + at[c].over
              [] at[c].pc = "head" -> at[c].left
              [] OTHER -> 0

\* The counter that was raised hopefully, corrected by the one that counts the
\* excess, is the head again as soon as nobody is between the two: neither is
\* ever left behind, and the next dequeue sees every item that lies there.
\* dequeueOptimisticCount and dequeueOvercommit, at ranges of several items.
CountersAgree ==
  Minus(Minus(dequeueOptimisticCount, dequeueOvercommit), headIndex)
    = MapThenSumSet(Ahead, Consumers) % W

\* Every item is stored once and is claimed by at most one consumer: no index is
\* claimed twice, no item is overwritten or dropped while its claim is pending.
\* No counter is left behind.  The optimistic claim of
\* dequeue against enqueue, and the reuse of blocks.
ClaimsAreItems ==
  /\ CountersAgree
  /\ Stored = ItemsLeft \cup Constructed \cup UNION {Pending(c) : c \in Consumers}
  /\ \A c, d \in Consumers : c # d => Pending(c) \cap Pending(d) = {}
  /\ \A c \in Consumers : Pending(c) \cap ItemsLeft = {}
  /\ \A b, d \in QueueBlocks, s, r \in 0..B-1 :
       content[b][s] # NoItem /\ <<b, s>> # <<d, r>> => content[b][s] # content[d][r]

Quiescent == prod = Idle /\ \A c \in Consumers : at[c] = Idle
SlotsInUse == {<<b, s>> \in QueueBlocks \X (0..B-1) : content[b][s] # NoItem}
=============================================================================
