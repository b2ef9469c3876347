--------------------------- MODULE BoundedChannel ---------------------------
(***************************************************************************)
(* What base::block_queue<T> promises to the threads that share it: every  *)
(* operation is one indivisible step on a bounded first-in first-out       *)
(* queue.  An enqueue happens only when there is room and a dequeue only   *)
(* when there is an item; the queue's counters account for what it drops.  *)
(***************************************************************************)
EXTENDS Fifo

CONSTANTS
    Values,        \* what is enqueued
    Overwriting,   \* the values whose enqueue may drop the oldest item
    MaxItems

VARIABLES chan, discarded

chanVars == <<chan, discarded>>

Init == chan = NewFifo(MaxItems) /\ discarded = 0

Put(x) ==
    /\ ~FifoFull(chan)
    /\ chan' = FifoPush(chan, x)
    /\ UNCHANGED discarded

Overwrite(x) ==
    /\ FifoFull(chan)
    /\ chan' = FifoPush(chan, x)
    /\ UNCHANGED discarded

Discard ==
    /\ FifoFull(chan)
    /\ discarded' = discarded + 1
    /\ UNCHANGED chan

Take ==
    /\ ~FifoEmpty(chan)
    /\ chan' = FifoPop(chan)
    /\ UNCHANGED discarded

ResetLost == chan' = FifoResetLost(chan) /\ UNCHANGED discarded

\* A discard in progress may be counted before or after the reset.
ResetDiscarded == discarded' \in 0..discarded /\ UNCHANGED chan

Next ==
    \/ \E x \in Values : Put(x)
    \/ \E x \in Overwriting : Overwrite(x)
    \/ Discard
    \/ Take
    \/ ResetLost
    \/ ResetDiscarded

Spec == Init /\ [][Next]_chanVars
=============================================================================
