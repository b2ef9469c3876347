--------------------------- MODULE CircularQueue ---------------------------
(***************************************************************************)
(* base/circular_queue.h: a ring buffer over std::vector with one slot     *)
(* kept free to tell full from empty.  Indices and sizes are unsigned      *)
(* size_t and wrap modulo SizeMod; a queue object is a record with the     *)
(* fields of the class.                                                    *)
(***************************************************************************)
EXTENDS Fifo

CONSTANTS
    Objects,      \* the circular_queue objects
    Items,        \* the values pushed
    Blank,        \* a value-initialised element of vec_
    Capacities,   \* the max_items a constructor is called with
    SizeMod,      \* 2^64, the range of size_t
    MaxLost       \* bound of the model: override_cnt_ counts up to here

\* A vector of more than PTRDIFF_MAX elements cannot be allocated, so that
\* 2 * max_size_ fits in a size_t; SIZE_MAX itself is a possible argument, and
\* max_items + 1 is then zero.
ASSUME CapacityAssumption ==
    /\ SizeMod \in Nat \ {0, 1}
    /\ Capacities \subseteq
          {n \in Nat : 2 * (n + 1) <= SizeMod} \cup {SizeMod - 1}

ASSUME BoundAssumption == MaxLost \in Nat

VARIABLE rings

Invalid == [max_size |-> 0, head |-> 0, tail |-> 0, override_cnt |-> 0,
            vec |-> [i \in {} |-> Blank]]

Fresh(max_items) ==
    LET max_size == (max_items + 1) % SizeMod
    IN  [max_size |-> max_size, head |-> 0, tail |-> 0, override_cnt |-> 0,
         vec |-> [i \in 0..(max_size - 1) |-> Blank]]

Succ(c, i) == (i + 1) % c.max_size

Size(c) == ((c.tail - c.head + c.max_size) % SizeMod) % c.max_size

Empty(c) == c.head = c.tail

Full(c) == c.max_size > 0 /\ Succ(c, c.tail) = c.head

At(c, i) == c.vec[(c.head + i) % c.max_size]

Front(c) == c.vec[c.head]

\* Slip: overwriting the oldest item counts it but does not move the head past it.
PushBack_KeepHead(c, x) ==
    LET tail == Succ(c, c.tail)
    IN  IF c.max_size = 0 THEN c
        ELSE [c EXCEPT
                !.vec[c.tail]   = x,
                !.tail          = tail,
                !.override_cnt  = IF tail = c.head THEN c.override_cnt + 1
                                                   ELSE c.override_cnt]

PushBack(c, x) ==
    LET tail     == Succ(c, c.tail)
        override == tail = c.head
    IN  IF c.max_size = 0 THEN c
        ELSE [c EXCEPT
                !.vec[c.tail]   = x,
                !.tail          = tail,
                !.head          = IF override THEN Succ(c, c.head) ELSE c.head,
                !.override_cnt  = IF override THEN c.override_cnt + 1
                                              ELSE c.override_cnt]

PopFront(c) ==
    IF c.max_size = 0 THEN c ELSE [c EXCEPT !.head = Succ(c, c.head)]

-----------------------------------------------------------------------------

RingInit == rings = [o \in Objects |-> Invalid]

\* circular_queue(max_items), assigned to the object.
Construct(o, max_items) == rings' = [rings EXCEPT ![o] = Fresh(max_items)]

\* The defaulted copy constructor and assignment.
Copy(from, to) == rings' = [rings EXCEPT ![to] = rings[from]]

\* Move construction and assignment; the source is left invalid.
MoveQueue(from, to) == rings' = [rings EXCEPT ![to] = rings[from], ![from] = Invalid]

PushQueue(o, x) ==
    /\ rings[o].override_cnt < MaxLost      \* bound of the model
    /\ rings' = [rings EXCEPT ![o] = PushBack(rings[o], x)]

\* Every caller in the library pops a queue it has just found not empty.
PopQueue(o) ==
    /\ ~Empty(rings[o])
    /\ rings' = [rings EXCEPT ![o] = PopFront(rings[o])]

Clear(o) == rings' = [rings EXCEPT ![o] = Invalid]

ResetQueueCount(o) == rings' = [rings EXCEPT ![o].override_cnt = 0]

RingNext ==
    \/ \E o \in Objects, n \in Capacities : Construct(o, n)
    \/ \E from, to \in Objects : from # to /\ Copy(from, to)
    \/ \E from, to \in Objects : from # to /\ MoveQueue(from, to)
    \/ \E o \in Objects, x \in Items : PushQueue(o, x)
    \/ \E o \in Objects : PopQueue(o)
    \/ \E o \in Objects : Clear(o)
    \/ \E o \in Objects : ResetQueueCount(o)

RingSpec == RingInit /\ [][RingNext]_rings

-----------------------------------------------------------------------------

(***************************************************************************)
(* The abstract value of an object: the items between head and tail, read  *)
(* around the ring.                                                        *)
(***************************************************************************)
AbsFifo(c) ==
    IF c.max_size = 0
    THEN [items |-> <<>>, cap |-> NoCap, lost |-> c.override_cnt]
    ELSE [items |-> [k \in 1..Size(c) |-> At(c, k - 1)],
          cap   |-> c.max_size - 1,
          lost  |-> c.override_cnt]

F == INSTANCE FifoObjects WITH
        fifo <- [o \in Objects |-> AbsFifo(rings[o])],
        Capacities <- Capacities \ {SizeMod - 1}

\* The queues built with room for n items.
QueueOf(n) ==
    [max_size : {n + 1}, head : 0..n, tail : 0..n, override_cnt : Nat,
     vec : [0..n -> Items \cup {Blank}]]

\* Type correctness: head_ and tail_ stay inside vec_ whatever the sequence of
\* calls, and vec_ has max_size_ elements.
RingTypeOK ==
    /\ DOMAIN rings = Objects
    /\ \A o \in Objects :
          \/ rings[o] = Invalid
          \/ \E n \in Capacities \ {SizeMod - 1} : rings[o] \in QueueOf(n)

\* What full(), empty(), size() and front() report of the two indices agrees
\* with the items the queue is holding: the free slot is what separates
\* "full" from "empty" when head_ and tail_ come round again.
ObserversAgree ==
    \A o \in Objects :
        LET c == rings[o]
            f == AbsFifo(c)
        IN  /\ Full(c) <=> FifoFull(f)
            /\ Empty(c) <=> FifoEmpty(f)
            /\ ~Empty(c) => Front(c) = FifoFront(f)
            /\ c.max_size > 0 => Size(c) \in 0..(c.max_size - 1)

\* Every operation of the ring buffer is the operation of a bounded
\* first-in first-out queue that drops its oldest item when full: items come
\* out in the order they went in, none is lost without being counted, and a
\* copy or a move carries all of it; and the indices stay inside the vector and
\* the observers tell the truth meanwhile.
RefinesFifo == F!Spec /\ [](RingTypeOK /\ ObserversAgree)
=============================================================================
