------------------------------- MODULE BlockPool -------------------------------
(***************************************************************************)
(* Where the blocks of moodycamel::ConcurrentQueue come from and go back   *)
(* to (base/concurrentqueue/concurrentqueue.h): an array of PoolSize       *)
(* blocks made by the constructor and handed out once through              *)
(* initialBlockPoolIndex, then the lock-free free list those blocks return *)
(* to, then the heap.  The free list is a stack of nodes; a node carries a *)
(* reference count, the references of the threads that look at it and one  *)
(* of the list, and a bit that says it should be on the list.              *)
(*                                                                         *)
(* One action is one atomic access.  A load and the compare-and-swap that  *)
(* checks the loaded value are one action where a failed swap only repeats *)
(* the load.  Memory is sequentially consistent.                           *)
(***************************************************************************)
EXTENDS Integers, Sequences, FiniteSets

CONSTANTS PoolThreads,  \* threads that take and give back blocks
          PoolSize,     \* initialBlockPoolSize
          HeapSize      \* bound: blocks alive on the heap at a time

ASSUME PoolAssumption == /\ PoolSize \in Nat
                         /\ HeapSize \in Nat
                         /\ IsFiniteSet(PoolThreads)

InitialBlocks == 1..PoolSize
HeapBlocks == PoolSize+1..PoolSize+HeapSize     \* dynamicallyAllocated
Blocks == InitialBlocks \cup HeapBlocks
NoBlock == 0

VARIABLES poolIndex,    \* initialBlockPoolIndex
          freeListHead,
          freeListNext, \* of each block
          refs,         \* freeListRefs: [count, should]
          inUse,        \* blocks that belong to some sub-queue
          poolAt        \* where each thread is, with its local variables

poolVars == <<poolIndex, freeListHead, freeListNext, refs, inUse, poolAt>>

OutsidePool == [pc |-> "outside"]
Load == [pc |-> "load"]

PoolInit ==
  /\ poolIndex = 0
  /\ freeListHead = NoBlock
  /\ freeListNext = [b \in InitialBlocks |-> NoBlock]
  /\ refs = [b \in InitialBlocks |-> [count |-> 0, should |-> FALSE]]
  /\ inUse = {}
  /\ poolAt = [t \in PoolThreads |-> OutsidePool]

GoTo(t, there) == poolAt' = [poolAt EXCEPT ![t] = there]
Is(t, pc) == poolAt[t].pc = pc
TakeBlock(t, b) == /\ inUse' = inUse \cup {b}
                   /\ GoTo(t, OutsidePool)
-----------------------------------------------------------------------------
(***************************************************************************)
(* requisition_block: the initial pool, the free list, the heap.           *)
(***************************************************************************)
Requisition(t) ==
  /\ Is(t, "outside")
  /\ GoTo(t, IF poolIndex < PoolSize THEN [pc |-> "initial"] ELSE Load)
  /\ UNCHANGED <<poolIndex, freeListHead, freeListNext, refs, inUse>>

\* several threads may have passed the test: the counter overshoots
TryGetFromInitialPool(t) ==
  /\ Is(t, "initial")
  /\ poolIndex' = poolIndex + 1
  /\ IF poolIndex < PoolSize THEN TakeBlock(t, poolIndex + 1)
                             ELSE GoTo(t, Load) /\ UNCHANGED inUse
  /\ UNCHANGED <<freeListHead, freeListNext, refs>>

\* create<Block>; a try_ operation does not allocate, and malloc may fail
Create(t) ==
  /\ Is(t, "create")
  /\ \/ \E b \in HeapBlocks \ inUse : TakeBlock(t, b)
     \/ GoTo(t, OutsidePool) /\ UNCHANGED inUse
  /\ UNCHANGED <<poolIndex, freeListHead, freeListNext, refs>>
-----------------------------------------------------------------------------
(***************************************************************************)
(* FreeList::try_get                                                       *)
(***************************************************************************)
LookAt(h) == IF h = NoBlock THEN [pc |-> "create"] ELSE [pc |-> "reference", head |-> h]

LoadHead(t) ==
  /\ Is(t, "load")
  /\ GoTo(t, LookAt(freeListHead))
  /\ UNCHANGED <<poolIndex, freeListHead, freeListNext, refs, inUse>>

\* Slip: a node is referenced without the test that its count is not zero
Reference_Blind(t) ==
  /\ Is(t, "reference")
  /\ refs' = [refs EXCEPT ![poolAt[t].head].count = @ + 1]
  /\ GoTo(t, [pc |-> "next", head |-> poolAt[t].head])
  /\ UNCHANGED <<poolIndex, freeListHead, freeListNext, inUse>>

\* a node nobody references may be about to change: start again
Reference(t) ==
  /\ Is(t, "reference")
  /\ LET h == poolAt[t].head IN
       IF refs[h].count = 0
       THEN GoTo(t, Load) /\ UNCHANGED refs
       ELSE /\ refs' = [refs EXCEPT ![h].count = @ + 1]
            /\ GoTo(t, [pc |-> "next", head |-> h])
  /\ UNCHANGED <<poolIndex, freeListHead, freeListNext, inUse>>

ReadNext(t) ==
  /\ Is(t, "next")
  /\ GoTo(t, [pc |-> "swap", head |-> poolAt[t].head, next |-> freeListNext[poolAt[t].head]])
  /\ UNCHANGED <<poolIndex, freeListHead, freeListNext, refs, inUse>>

\* the compare-and-swap; a failed one leaves the head it saw in "seen"
SwapHead(t) ==
  /\ Is(t, "swap")
  /\ IF freeListHead = poolAt[t].head
     THEN /\ freeListHead' = poolAt[t].next
          /\ GoTo(t, [pc |-> "taken", head |-> poolAt[t].head])
     ELSE /\ GoTo(t, [pc |-> "unreference", head |-> poolAt[t].head, seen |-> freeListHead])
          /\ UNCHANGED freeListHead
  /\ UNCHANGED <<poolIndex, freeListNext, refs, inUse>>

\* drops the thread's reference and the list's
Taken(t) ==
  /\ Is(t, "taken")
  /\ refs' = [refs EXCEPT ![poolAt[t].head].count = @ - 2]
  /\ TakeBlock(t, poolAt[t].head)
  /\ UNCHANGED <<poolIndex, freeListHead, freeListNext>>

\* the last one to let go of a node that should be on the list puts it there
Unreference(t) ==
  /\ Is(t, "unreference")
  /\ LET b == poolAt[t].head
         again == LookAt(poolAt[t].seen) IN
       /\ refs' = [refs EXCEPT ![b].count = @ - 1]
       /\ GoTo(t, IF refs[b] = [count |-> 1, should |-> TRUE]
                  THEN [pc |-> "link", node |-> b, then |-> again] ELSE again)
  /\ UNCHANGED <<poolIndex, freeListHead, freeListNext, inUse>>
-----------------------------------------------------------------------------
(***************************************************************************)
(* add_block_to_free_list: a block of the heap is freed                    *)
(* (RECYCLE_ALLOCATED_BLOCKS is false), one of the pool goes to            *)
(* FreeList::add.  Whoever empties a block gives it back, not only the     *)
(* thread that took it.                                                    *)
(***************************************************************************)
AddBlock(t, b) ==
  /\ Is(t, "outside")
  /\ b \in inUse
  /\ inUse' = inUse \ {b}
  /\ IF b \in HeapBlocks
     THEN UNCHANGED <<refs, poolAt>>
     ELSE /\ refs' = [refs EXCEPT ![b].should = TRUE]
          /\ GoTo(t, IF refs[b].count = 0
                     THEN [pc |-> "link", node |-> b, then |-> OutsidePool] ELSE OutsidePool)
  /\ UNCHANGED <<poolIndex, freeListHead, freeListNext>>

(***************************************************************************)
(* add_knowing_refcount_is_zero                                            *)
(***************************************************************************)
Link(t) ==
  /\ Is(t, "link")
  /\ GoTo(t, [pc |-> "store", node |-> poolAt[t].node, then |-> poolAt[t].then, seen |-> freeListHead])
  /\ UNCHANGED <<poolIndex, freeListHead, freeListNext, refs, inUse>>

StoreNext(t) ==
  /\ Is(t, "store")
  /\ freeListNext' = [freeListNext EXCEPT ![poolAt[t].node] = poolAt[t].seen]
  /\ GoTo(t, [poolAt[t] EXCEPT !.pc = "publish"])
  /\ UNCHANGED <<poolIndex, freeListHead, refs, inUse>>

\* from here on other threads may reference the node
StoreRefs(t) ==
  /\ Is(t, "publish")
  /\ refs' = [refs EXCEPT ![poolAt[t].node] = [count |-> 1, should |-> FALSE]]
  /\ GoTo(t, [poolAt[t] EXCEPT !.pc = "push"])
  /\ UNCHANGED <<poolIndex, freeListHead, freeListNext, inUse>>

PushHead(t) ==
  /\ Is(t, "push")
  /\ IF freeListHead = poolAt[t].seen
     THEN freeListHead' = poolAt[t].node /\ GoTo(t, poolAt[t].then)
     ELSE /\ GoTo(t, [poolAt[t] EXCEPT !.pc = "retract", !.seen = freeListHead])
          /\ UNCHANGED freeListHead
  /\ UNCHANGED <<poolIndex, freeListNext, refs, inUse>>

\* the swap failed: try again if nobody references the node meanwhile, else
\* leave it to the last one who does
Retract(t) ==
  /\ Is(t, "retract")
  /\ LET b == poolAt[t].node IN
       /\ refs' = [refs EXCEPT ![b] = [count |-> @.count - 1, should |-> TRUE]]
       /\ GoTo(t, IF refs[b] = [count |-> 1, should |-> FALSE]
                  THEN [poolAt[t] EXCEPT !.pc = "store"] ELSE poolAt[t].then)
  /\ UNCHANGED <<poolIndex, freeListHead, freeListNext, inUse>>

PoolStep(t) ==
  \/ Requisition(t) \/ TryGetFromInitialPool(t) \/ Create(t)
  \/ LoadHead(t) \/ Reference(t) \/ ReadNext(t) \/ SwapHead(t)
  \/ Taken(t) \/ Unreference(t)
  \/ \E b \in Blocks : AddBlock(t, b)
  \/ Link(t) \/ StoreNext(t) \/ StoreRefs(t) \/ PushHead(t) \/ Retract(t)

PoolNext == \E t \in PoolThreads : PoolStep(t)
-----------------------------------------------------------------------------
\* the chain of the free list, NoBlock after its end
Chain[n \in 0..PoolSize] ==
  IF n = 0 THEN freeListHead
  ELSE IF Chain[n - 1] \in InitialBlocks THEN freeListNext[Chain[n - 1]] ELSE NoBlock
Listed == {Chain[n] : n \in 0..PoolSize} \ {NoBlock}

Referencing(b) == {t \in PoolThreads : /\ poolAt[t].pc \in {"next", "swap", "unreference", "taken"}
                                       /\ poolAt[t].head = b}
Linking(b) == {t \in PoolThreads : /\ poolAt[t].pc \in {"link", "store", "publish", "push", "retract"}
                                   /\ poolAt[t].node = b}
Pushing(b) == {t \in Linking(b) : poolAt[t].pc \in {"push", "retract"}}
Taking(b) == {t \in PoolThreads : poolAt[t].pc = "taken" /\ poolAt[t].head = b}

\* A block of the initial pool is at every moment in exactly one place: not
\* handed out yet, with a sub-queue, on the list, marked as to be put there, in
\* the hands of the one thread that pushes it or of the one that took it.  The
\* list ends, the count is that of the references, and no marked block is
\* forgotten: somebody references it or is linking it.  FreeList's
\* try_get, add and add_knowing_refcount_is_zero under contention.
BlocksAccounted ==
  /\ Chain[PoolSize] = NoBlock
  /\ \A b \in InitialBlocks :
       /\ \E place \in {"new", "used", "listed", "marked", "pushed", "taken"} :
            /\ b > poolIndex <=> place = "new"
            /\ b \in inUse <=> place = "used"
            /\ b \in Listed <=> place = "listed"
            /\ refs[b].should <=> place = "marked"
            /\ Pushing(b) # {} <=> place = "pushed"
            /\ Taking(b) # {} <=> place = "taken"
       /\ Cardinality(Linking(b)) <= 1 /\ Cardinality(Taking(b)) <= 1
       /\ refs[b].count = Cardinality(Referencing(b)) + Cardinality(Taking(b))
                          + (IF b \in Listed \/ Pushing(b) # {} THEN 1 ELSE 0)
       /\ refs[b].should => Referencing(b) # {} \/ Linking(b) # {}
=============================================================================
