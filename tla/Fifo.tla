-------------------------------- MODULE Fifo --------------------------------
(***************************************************************************)
(* What base::circular_queue<T> promises, as values and operators on them: *)
(* a bounded first-in first-out queue that drops its oldest item when one  *)
(* is pushed into a full queue, and counts the items so dropped.           *)
(* CircularQueue shows that the ring buffer of the code behaves like this; *)
(* BlockQueue and the modules above it use the operators of this module.   *)
(***************************************************************************)
EXTENDS Integers, Sequences

\* The invalid queue: default constructed, moved from, or cleared.  It holds
\* nothing, accepts nothing and is never full.
NoCap == -1

InvalidFifo == [items |-> <<>>, cap |-> NoCap, lost |-> 0]

NewFifo(n) == [items |-> <<>>, cap |-> n, lost |-> 0]

FifoEmpty(f) == f.items = <<>>

FifoFull(f) == f.cap # NoCap /\ Len(f.items) = f.cap

FifoFront(f) == Head(f.items)

Holding(f, items, lost) == [items |-> items, cap |-> f.cap, lost |-> lost]

FifoPush(f, x) ==
    IF f.cap = NoCap THEN f
    ELSE IF Len(f.items) < f.cap
         THEN Holding(f, Append(f.items, x), f.lost)
         ELSE Holding(f, Tail(Append(f.items, x)), f.lost + 1)

FifoPop(f) == Holding(f, Tail(f.items), f.lost)

FifoResetLost(f) == Holding(f, f.items, 0)
=============================================================================
