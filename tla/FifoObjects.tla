---------------------------- MODULE FifoObjects ----------------------------
(***************************************************************************)
(* The abstract specification of base::circular_queue: a set of queue      *)
(* objects, each a value of module Fifo, under the operations of the class *)
(* (construction, copy, move, push, pop, clear, counter reset).            *)
(***************************************************************************)
EXTENDS Fifo

CONSTANTS
    Objects,     \* the circular_queue objects
    Items,       \* the values they hold
    Capacities   \* the max_items they are constructed with

VARIABLE fifo

Init == fifo = [o \in Objects |-> InvalidFifo]

Construct(o, n) == fifo' = [fifo EXCEPT ![o] = NewFifo(n)]

Invalidate(o) == fifo' = [fifo EXCEPT ![o] = InvalidFifo]

Copy(from, to) == fifo' = [fifo EXCEPT ![to] = fifo[from]]

Move(from, to) ==
    fifo' = [fifo EXCEPT ![to] = fifo[from], ![from] = InvalidFifo]

Push(o, x) == fifo' = [fifo EXCEPT ![o] = FifoPush(fifo[o], x)]

Pop(o) ==
    /\ ~FifoEmpty(fifo[o])
    /\ fifo' = [fifo EXCEPT ![o] = FifoPop(fifo[o])]

Reset(o) == fifo' = [fifo EXCEPT ![o] = FifoResetLost(fifo[o])]

Next ==
    \/ \E o \in Objects, n \in Capacities : Construct(o, n)
    \/ \E o \in Objects : Invalidate(o) \/ Pop(o) \/ Reset(o)
    \/ \E o \in Objects, x \in Items : Push(o, x)
    \/ \E from, to \in Objects : from # to /\ (Copy(from, to) \/ Move(from, to))

Spec == Init /\ [][Next]_fifo
=============================================================================
