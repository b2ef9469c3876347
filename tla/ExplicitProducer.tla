---------------------------- MODULE ExplicitProducer ----------------------------
(***************************************************************************)
(* ConcurrentQueue::ExplicitProducer, the sub-queue behind a producer      *)
(* token: its blocks stay with it in a ring and are reused when the block  *)
(* ahead is empty; a circular index, which grows, tells consumers which    *)
(* block holds an item.                                                    *)
(***************************************************************************)
EXTENDS ProducerBase

CONSTANTS IndexSizes,      \* sizes of the block index, of the first and of the grown ones
          PartialFailures  \* may a bulk operation fail after it has got some blocks?

ASSUME ExplicitAssumption ==
  IndexSizes \in Seq(Nat \ {0}) /\ PartialFailures \in BOOLEAN

VARIABLES next,          \* the ring of blocks
          emptyFlags,    \* of each block, the slots marked empty
          indexes,       \* all block indices made; the last is the current one
          pr_blockIndexSlotsUsed, pr_blockIndexFront

ringVars == <<tailBlock, next, pr_blockIndexSlotsUsed, pr_blockIndexFront>>
explicitVars == <<counters, content, prod, at, emptyFlags, indexes, ringVars>>

IndexSize == indexes[Len(indexes)].size
NoEntry == [base |-> 0, block |-> None]
IndexOf(size, front, entries) == [size |-> size, front |-> front, entries |-> entries]

ExplicitInit ==
  /\ BaseInit
  /\ next = [b \in QueueBlocks |-> None]
  /\ emptyFlags = [b \in QueueBlocks |-> {}]
  /\ indexes = <<IndexOf(IndexSizes[1], IndexSizes[1] - 1, [i \in 0..IndexSizes[1]-1 |-> NoEntry])>>
  /\ pr_blockIndexSlotsUsed = 0 /\ pr_blockIndexFront = 0

Unringed == {b \in QueueBlocks : next[b] = None}
RoomFor(needed) == /\ needed <= Cardinality(Unringed)
                   /\ ~NoLeeway(Plus(LastBase, needed * B))

is_empty(b) == emptyFlags[b] = 0..B-1
-----------------------------------------------------------------------------
(***************************************************************************)
(* enqueue and enqueue_bulk: first the blocks, then the items, then the    *)
(* tail.                                                                   *)
(***************************************************************************)
StartEnqueue ==
  /\ prod.pc = "idle"
  /\ \E count \in BulkSizes :
       /\ tailIndex + count <= LastIndex
       /\ BlocksNeeded(count) <= 1 \/ RoomFor(BlocksNeeded(count)) \/ PartialFailures
       /\ prod' = IF BlocksNeeded(count) = 0 THEN [pc |-> "construct", count |-> count, first |-> None]
               ELSE [pc |-> "reuse", count |-> count, needed |-> BlocksNeeded(count),
                     base |-> LastBase, first |-> None, start |-> tailBlock,
                     oldFront |-> pr_blockIndexFront, oldUsed |-> pr_blockIndexSlotsUsed]
  /\ UNCHANGED <<counters, content, at, emptyFlags, indexes, ringVars>>

\* one more block is reserved and entered into the block index
Enter(p, b, ixs, slot, phase) ==
  LET base == Plus(p.base, B) IN
    /\ indexes' = [ixs EXCEPT ![Len(ixs)].entries[slot] = [base |-> base, block |-> b]]
    /\ pr_blockIndexFront' = (slot + 1) % ixs[Len(ixs)].size
    /\ prod' = [p EXCEPT !.pc = IF p.needed = 1 THEN "front" ELSE phase,
                         !.needed = @ - 1, !.base = base,
                         !.first = IF @ = None THEN b ELSE @]
    /\ tailBlock' = b

CanReuse == tailBlock # None /\ next[tailBlock] # prod.first /\ is_empty(next[tailBlock])

ReuseAhead ==
  /\ prod.pc = "reuse"
  /\ CanReuse
  /\ Enter(prod, next[tailBlock], indexes, pr_blockIndexFront, "reuse")
  /\ UNCHANGED <<counters, content, at, next, emptyFlags, pr_blockIndexSlotsUsed>>

NoneAhead ==
  /\ prod.pc = "reuse"
  /\ ~CanReuse
  /\ prod' = [prod EXCEPT !.pc = "allocate"]
  /\ UNCHANGED <<counters, content, at, emptyFlags, indexes, ringVars>>

\* new_block_index: a larger one, in order from slot 0
Grown == LET used == pr_blockIndexSlotsUsed
             size == IndexSizes[Len(indexes) + 1] IN
  Append(indexes, IndexOf(size, (prod.oldUsed - 1) % size,
    [i \in 0..size-1 |-> IF i < used
                         THEN indexes[Len(indexes)].entries[(pr_blockIndexFront - used + i) % IndexSize]
                         ELSE NoEntry]))

IndexFull == pr_blockIndexSlotsUsed = IndexSize

\* a block from the pool or the heap, put into the ring after the tail
AddTo(p, ixs, slot) ==
  \E b \in Unringed :
    /\ next' = IF tailBlock = None THEN [next EXCEPT ![b] = b]
               ELSE [next EXCEPT ![b] = next[tailBlock], ![tailBlock] = b]
    /\ emptyFlags' = [emptyFlags EXCEPT ![b] = 0..B-1]
    /\ pr_blockIndexSlotsUsed' = pr_blockIndexSlotsUsed + 1
    /\ Enter(p, b, ixs, slot, "allocate")

\* undo the changes, but keep the injected blocks in the ring
GiveUp(p) ==
  /\ pr_blockIndexFront' = p.oldFront
  /\ pr_blockIndexSlotsUsed' = p.oldUsed
  /\ tailBlock' = IF p.start = None THEN p.first ELSE p.start
  /\ prod' = Idle

AddNewBlock ==
  /\ prod.pc = "allocate"
  /\ ~NoLeeway(Plus(prod.base, B))
  /\ IF IndexFull
     THEN /\ Len(indexes) < Len(IndexSizes)
          /\ AddTo([prod EXCEPT !.oldFront = prod.oldUsed], Grown, pr_blockIndexSlotsUsed)
     ELSE AddTo(prod, indexes, pr_blockIndexFront)
  /\ UNCHANGED <<counters, content, at>>

\* full; an index that may not or cannot grow; no block to be had, after the
\* index has grown where it had to
FailToAdd ==
  /\ prod.pc = "allocate"
  /\ prod.first # None => PartialFailures
  /\ GiveUp(prod)
  /\ UNCHANGED <<counters, content, at, next, emptyFlags, indexes>>

FailAfterGrowth ==
  /\ prod.pc = "allocate"
  /\ prod.first # None => PartialFailures
  /\ ~NoLeeway(Plus(prod.base, B))
  /\ IndexFull /\ Len(indexes) < Len(IndexSizes)
  /\ indexes' = Grown
  /\ GiveUp([prod EXCEPT !.oldFront = prod.oldUsed])
  /\ UNCHANGED <<counters, content, at, next, emptyFlags>>

\* all blocks are there: their flags are reset, the index' front is published
Reserved(from, to) ==
  LET Walk[n \in 0..Cardinality(QueueBlocks)] ==
        IF n = 0 THEN {from} ELSE Walk[n-1] \cup {next[b] : b \in Walk[n-1] \ {to}}
  IN  Walk[Cardinality(QueueBlocks)]

PublishFront ==
  /\ prod.pc = "front"
  /\ emptyFlags' = [b \in QueueBlocks |-> IF b \in Reserved(prod.first, tailBlock) THEN {}
                                          ELSE emptyFlags[b]]
  /\ indexes' = [indexes EXCEPT ![Len(indexes)].front = (pr_blockIndexFront - 1) % IndexSize]
  /\ prod' = [pc |-> "construct", count |-> prod.count,
              first |-> IF tailIndex % B = 0 THEN prod.first ELSE prod.start]
  /\ UNCHANGED <<counters, content, at, ringVars>>

\* the items are written block by block, from the block of the first one
BlockAfter(b, n) == LET Walk[k \in 0..n] == IF k = 0 THEN b ELSE next[Walk[k-1]] IN Walk[n]

ConstructItems ==
  /\ prod.pc = "construct"
  /\ LET from == IF prod.first = None THEN tailBlock ELSE prod.first
         Block(i) == BlockAfter(from, BlocksFrom(Base(i), Base(tailIndex)))
         New(b, s) == {i \in Indices(tailIndex, prod.count) : i % B = s /\ Block(i) = b} IN
       content' = [b \in QueueBlocks |-> [s \in 0..B-1 |->
                     IF New(b, s) = {} THEN content[b][s] ELSE CHOOSE i \in New(b, s) : TRUE]]
  /\ prod' = [pc |-> "tail", count |-> prod.count]
  /\ UNCHANGED <<counters, at, emptyFlags, indexes, ringVars>>

PublishTail ==
  /\ prod.pc = "tail"
  /\ tailIndex' = Plus(tailIndex, prod.count)
  /\ prod' = Idle
  /\ UNCHANGED <<claimVars, content, at, emptyFlags, indexes, ringVars>>
-----------------------------------------------------------------------------
(***************************************************************************)
(* dequeue and dequeue_bulk after the claim: the current block index, its  *)
(* front, the entry that lies as many blocks away as the index says.       *)
(***************************************************************************)
producerUnchanged == UNCHANGED <<prod, indexes, ringVars>>

LoadIndex(c) ==
  /\ ConsumerIs(c, "index")
  /\ ConsumerTo(c, [at[c] EXCEPT !.pc = "front"] @@ [header |-> Len(indexes)])
  /\ UNCHANGED <<counters, content, emptyFlags>> /\ producerUnchanged

LoadFront(c) ==
  /\ ConsumerIs(c, "front")
  /\ LET ix == indexes[at[c].header]
         slot == ix.front + BlocksFrom(Base(at[c].index), ix.entries[ix.front].base) IN
       ConsumerTo(c, [at[c] EXCEPT !.pc = "entry"] @@ [slot |-> slot % ix.size])
  /\ UNCHANGED <<counters, content, emptyFlags>> /\ producerUnchanged

Take(c) ==
  /\ ConsumerIs(c, "entry")
  /\ LET b == indexes[at[c].header].entries[at[c].slot].block IN
       MoveOut(c, b) /\ ConsumerTo(c, [at[c] EXCEPT !.pc = "empty"] @@ [block |-> b])
  /\ UNCHANGED emptyFlags /\ producerUnchanged

set_many_empty(c) ==
  /\ ConsumerIs(c, "empty")
  /\ emptyFlags' = [emptyFlags EXCEPT ![at[c].block] =
                      @ \cup {i % B : i \in Indices(at[c].index, PartInBlock(c))}]
  /\ NextPart(c, [pc |-> "entry", index |-> at[c].index, left |-> at[c].left, header |-> at[c].header,
                  slot |-> (at[c].slot + 1) % indexes[at[c].header].size])
  /\ UNCHANGED <<counters, content>> /\ producerUnchanged

ExplicitNext ==
  \/ StartEnqueue \/ ReuseAhead \/ NoneAhead \/ AddNewBlock \/ FailToAdd \/ FailAfterGrowth
  \/ PublishFront \/ ConstructItems \/ PublishTail
  \/ \E c \in Consumers : \/ Claim(c) /\ UNCHANGED emptyFlags /\ producerUnchanged
                          \/ LoadIndex(c) \/ LoadFront(c) \/ Take(c)
                          \/ set_many_empty(c)
-----------------------------------------------------------------------------
(***************************************************************************)
(* ~ExplicitProducer, when nobody uses the sub-queue any more: the slots   *)
(* whose items it destroys.                                                *)
(***************************************************************************)
\* the block the head lies in, found from the oldest entry of the index
HalfDequeued ==
  LET ix == indexes[Len(indexes)]
      Entry(n) == ix.entries[(pr_blockIndexFront - pr_blockIndexSlotsUsed + n) % IndexSize]
      Before(n) == circular_less_than(Plus(Entry(n).base, B), headIndex) IN
    Entry(CHOOSE n \in 0..IndexSize : ~Before(n) /\ \A m \in 0..n-1 : Before(m)).block

\* Slip: the block the head lies in is destroyed from its beginning.
ExplicitDestroyed_Whole ==
  {<<b, s>> \in (QueueBlocks \ Unringed) \X (0..B-1) : ~is_empty(b) /\
     s < (IF b = tailBlock /\ tailIndex % B # 0 THEN tailIndex % B ELSE B)}

ExplicitDestroyed ==
  LET First(b) == IF headIndex % B # 0 /\ b = HalfDequeued THEN headIndex % B ELSE 0
      Last(b) == IF b = tailBlock /\ tailIndex % B # 0 THEN tailIndex % B ELSE B IN
    {<<b, s>> \in (QueueBlocks \ Unringed) \X (0..B-1) :
       ~is_empty(b) /\ s \in First(b)..Last(b)-1}
=============================================================================
