------------------------------ MODULE MCSubqueues ------------------------------
(***************************************************************************)
(* The data structures under the queues, side by side: a behaviour is one  *)
(* of the ring buffer circular_queue or of one of the four parts of        *)
(* moodycamel::ConcurrentQueue.                                            *)
(*                                                                         *)
(* circular_queue: two objects, so that one can be copied or moved to the  *)
(* other; capacity 0, where the queue is full and empty at once, and 2;    *)
(* size_t of three bits, with SIZE_MAX = 7 as a capacity.  Blocks: three   *)
(* threads, a pool of two blocks and one of the heap.  Sub-queues: blocks  *)
(* of two items, single operations and bulk operations that span two or    *)
(* three blocks, an index of two entries that grows to four once, three    *)
(* blocks to be had and two consumers.  Producers: three threads whose ids *)
(* all hash to the same slot of a table of two, and one token.             *)
(***************************************************************************)
EXTENDS CircularQueue, BlockPool, ExplicitProducer, ImplicitProducer, ProducerRegistry

CONSTANTS o1, o2

MCObjects    == {o1, o2}
MCCapacities == {0, 2, 7}
MCIndexSizes == <<2, 4>>
MCHashOf     == [t \in HashThreads |-> 0]

\* The cfg gives the same three values the part of threads here and of blocks
\* there, and two others that of consumers and of the items of the ring buffer,
\* as no behaviour has more than one of these parts: few permutations do.
Symmetric == Permutations(PoolThreads \cup QueueBlocks \cup HashThreads) \cup Permutations(Consumers)

VARIABLE part    \* which of the five this behaviour is about

subVars == <<explicitVars, implicitVars>>
ownImplicit == <<owned, dequeued, entries, headers>>
ownExplicit == <<emptyFlags, indexes, next, pr_blockIndexSlotsUsed, pr_blockIndexFront>>
allVars == <<part, rings, poolVars, subVars, registryVars>>

MCInit ==
  /\ part \in {"ring", "blocks", "explicit", "implicit", "producers"}
  /\ RingInit /\ PoolInit /\ ExplicitInit /\ ImplicitInit /\ RegistryInit

MCNext ==
  /\ UNCHANGED part
  /\ \/ part = "ring" /\ RingNext /\ UNCHANGED <<poolVars, subVars, registryVars>>
     \/ part = "blocks" /\ PoolNext /\ UNCHANGED <<rings, subVars, registryVars>>
     \/ part = "explicit" /\ ExplicitNext /\ UNCHANGED <<rings, poolVars, ownImplicit, registryVars>>
     \/ part = "implicit" /\ ImplicitNext /\ UNCHANGED <<rings, poolVars, ownExplicit, registryVars>>
     \/ part = "producers" /\ RegistryNext /\ UNCHANGED <<rings, poolVars, subVars>>

MCSpec == MCInit /\ [][MCNext]_allVars

\* The destructors of the two kinds of sub-queues find exactly the items that are
\* left, each once, and the second kind gives back exactly the blocks it holds:
\* the block the head lies in, the last one, and an index that grew or wrapped.
DestructorsFreeAll ==
  Quiescent => /\ part = "explicit" => ExplicitDestroyed = SlotsInUse
               /\ part = "implicit" => ImplicitDestroyed = SlotsInUse /\ ImplicitFreed = owned
=============================================================================
