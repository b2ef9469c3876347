---------------------------- MODULE ImplicitProducer ----------------------------
(***************************************************************************)
(* ConcurrentQueue::ImplicitProducer, the sub-queue of a thread that       *)
(* enqueues without a token: the consumer that empties a block takes it    *)
(* out of the block index and gives it back to the pool.  The entries of   *)
(* the index are shared by an old index and the one that replaced it.      *)
(***************************************************************************)
EXTENDS ProducerBase

CONSTANTS IndexCapacities   \* capacities of the block index, of the first and of the grown ones

ASSUME ImplicitAssumption == IndexCapacities \in Seq(Nat \ {0})

VARIABLES owned,     \* blocks requisitioned and not given back
          dequeued,  \* elementsCompletelyDequeued of each block
          entries,   \* entries of the block indices: [key, value]
          headers    \* all block indices made: [tail, index], the last is the current one

implicitVars == <<counters, content, tailBlock, prod, at, owned, dequeued, entries, headers>>

INVALID_BLOCK_BASE == 1
NewEntries(n) == [i \in 1..n |-> [key |-> INVALID_BLOCK_BASE, value |-> None]]
Capacity(h) == Len(headers[h].index)
Current == Len(headers)
EntryAt(h, slot) == headers[h].index[slot + 1]

ImplicitInit ==
  /\ BaseInit
  /\ owned = {}
  /\ dequeued = [b \in QueueBlocks |-> 0]
  /\ entries = NewEntries(IndexCapacities[1])
  /\ headers = <<[tail |-> IndexCapacities[1] - 1, index |-> [i \in 1..IndexCapacities[1] |-> i]]>>

\* get_block_index_index_for_index
SlotOf(h, i) ==
  LET tail == headers[h].tail IN
    (tail + BlocksFrom(Base(i), entries[EntryAt(h, tail)].key)) % Capacity(h)
-----------------------------------------------------------------------------
(***************************************************************************)
(* enqueue and enqueue_bulk: for each block an entry of the index and then *)
(* a block; then the items; then the tail.                                 *)
(***************************************************************************)
BeginEnqueue ==
  /\ prod.pc = "idle"
  /\ \E count \in BulkSizes :
       /\ tailIndex + count <= LastIndex
       /\ prod' = [pc |-> IF BlocksNeeded(count) = 0 THEN "write" ELSE "insert",
                   count |-> count, needed |-> BlocksNeeded(count), base |-> LastBase, chain |-> <<>>]
  /\ UNCHANGED <<counters, content, tailBlock, at, owned, dequeued, entries, headers>>

NextSlot(h) == (headers[h].tail + 1) % Capacity(h)
Usable(e) == e.key = INVALID_BLOCK_BASE \/ e.value = None

\* new_block_index: the old entries in their order, new ones after them
Enlarged ==
  LET old == Capacity(Current) IN
    Append(headers, [tail |-> old - 1,
                     index |-> [i \in 1..IndexCapacities[Current + 1] |->
                                  IF i > old THEN Len(entries) + i - old
                                  ELSE EntryAt(Current, (headers[Current].tail + i) % old)]])

\* insert_block_index_entry
Insert(hs, es, e) ==
  LET h == Len(hs)
      base == Plus(prod.base, B) IN
    /\ entries' = [es EXCEPT ![e].key = base]
    /\ headers' = [hs EXCEPT ![h].tail = (@ + 1) % Len(hs[h].index)]
    /\ prod' = [prod EXCEPT !.pc = "block", !.base = base]

InsertEntry ==
  /\ prod.pc = "insert"
  /\ ~NoLeeway(Plus(prod.base, B))
  /\ IF Usable(entries[EntryAt(Current, NextSlot(Current))])
     THEN Insert(headers, entries, EntryAt(Current, NextSlot(Current)))
     ELSE /\ Current < Len(IndexCapacities)
          /\ Insert(Enlarged, entries \o NewEntries(IndexCapacities[Current + 1] - Capacity(Current)),
                    Len(entries) + 1)
  /\ UNCHANGED <<counters, content, tailBlock, at, owned, dequeued>>

GetBlock ==
  /\ prod.pc = "block"
  /\ \E b \in QueueBlocks \ owned :
       /\ owned' = owned \cup {b}
       /\ dequeued' = [dequeued EXCEPT ![b] = 0]
       /\ entries' = [entries EXCEPT ![EntryAt(Current, headers[Current].tail)].value = b]
       /\ prod' = [prod EXCEPT !.pc = IF prod.needed = 1 THEN "write" ELSE "insert",
                               !.needed = @ - 1, !.chain = Append(@, b)]
  /\ UNCHANGED <<counters, content, tailBlock, at, headers>>

\* what the operation has got so far goes back: entries, tail of the index, blocks
Undo(inserted) ==
  LET mine == Len(prod.chain) + inserted
      Slot(i) == (headers[Current].tail - i) % Capacity(Current)
      undone == {EntryAt(Current, Slot(i)) : i \in 0..mine-1} IN
    /\ entries' = [e \in DOMAIN entries |->
                     IF e \in undone THEN [entries[e] EXCEPT !.value = None] ELSE entries[e]]
    /\ headers' = [headers EXCEPT ![Current].tail = Slot(mine)]
    /\ owned' = owned \ {prod.chain[i] : i \in DOMAIN prod.chain}
    /\ prod' = Idle
    /\ UNCHANGED <<counters, content, tailBlock, at, dequeued>>

\* full, or no room in an index that may not or cannot grow
FailToInsert ==
  /\ prod.pc = "insert"
  /\ NoLeeway(Plus(prod.base, B)) \/ ~Usable(entries[EntryAt(Current, NextSlot(Current))])
  /\ Undo(0)

FailToGetBlock ==
  /\ prod.pc = "block"
  /\ Undo(1)

\* the blocks the items go to; the old tail block is only still ours if it has room
WriteItems ==
  /\ prod.pc = "write"
  /\ LET blocks == (IF tailIndex % B = 0 THEN <<>> ELSE <<tailBlock>>) \o prod.chain
         Block(i) == blocks[1 + BlocksFrom(Base(i), Base(tailIndex))]
         New(b, s) == {i \in Indices(tailIndex, prod.count) : i % B = s /\ Block(i) = b} IN
       /\ content' = [b \in QueueBlocks |-> [s \in 0..B-1 |->
                        IF New(b, s) = {} THEN content[b][s] ELSE CHOOSE i \in New(b, s) : TRUE]]
       /\ tailBlock' = blocks[Len(blocks)]
  /\ prod' = [pc |-> "tail", count |-> prod.count]
  /\ UNCHANGED <<counters, at, owned, dequeued, entries, headers>>

MoveTail ==
  /\ prod.pc = "tail"
  /\ tailIndex' = Plus(tailIndex, prod.count)
  /\ prod' = Idle
  /\ UNCHANGED <<claimVars, content, tailBlock, at, owned, dequeued, entries, headers>>
-----------------------------------------------------------------------------
(***************************************************************************)
(* dequeue and dequeue_bulk after the claim.                               *)
(***************************************************************************)
indexUnchanged == UNCHANGED <<tailBlock, prod, headers>>

LoadHeader(c) ==
  /\ ConsumerIs(c, "index")
  /\ ConsumerTo(c, [at[c] EXCEPT !.pc = "slot"] @@ [header |-> Current])
  /\ UNCHANGED <<counters, content, owned, dequeued, entries>> /\ indexUnchanged

FindSlot(c) ==
  /\ ConsumerIs(c, "slot")
  /\ ConsumerTo(c, [at[c] EXCEPT !.pc = "value"] @@ [slot |-> SlotOf(at[c].header, at[c].index)])
  /\ UNCHANGED <<counters, content, owned, dequeued, entries>> /\ indexUnchanged

TakeItems(c) ==
  /\ ConsumerIs(c, "value")
  /\ LET b == entries[EntryAt(at[c].header, at[c].slot)].value IN
       MoveOut(c, b) /\ ConsumerTo(c, [at[c] EXCEPT !.pc = "empty"] @@ [block |-> b])
  /\ UNCHANGED <<owned, dequeued, entries>> /\ indexUnchanged

Continue(c) == NextPart(c, [pc |-> "value", index |-> at[c].index, left |-> at[c].left,
                            header |-> at[c].header,
                            slot |-> (at[c].slot + 1) % Capacity(at[c].header)])

\* whoever counts the last item of a block gives the block back
CountDequeued(c) ==
  /\ ConsumerIs(c, "empty")
  /\ LET b == at[c].block
         n == dequeued[b] + PartInBlock(c) IN
       /\ dequeued' = [dequeued EXCEPT ![b] = n]
       /\ IF n = B THEN ConsumerTo(c, [at[c] EXCEPT !.pc = "unlink"]) ELSE Continue(c)
  /\ UNCHANGED <<counters, content, owned, entries>> /\ indexUnchanged

Unlink(c) ==
  /\ ConsumerIs(c, "unlink")
  /\ entries' = [entries EXCEPT ![EntryAt(at[c].header, at[c].slot)].value = None]
  /\ ConsumerTo(c, [at[c] EXCEPT !.pc = "free"])
  /\ UNCHANGED <<counters, content, owned, dequeued>> /\ indexUnchanged

FreeBlock(c) ==
  /\ ConsumerIs(c, "free")
  /\ owned' = owned \ {at[c].block}
  /\ Continue(c)
  /\ UNCHANGED <<counters, content, dequeued, entries>> /\ indexUnchanged

ImplicitNext ==
  \/ BeginEnqueue \/ InsertEntry \/ GetBlock \/ FailToInsert \/ FailToGetBlock
  \/ WriteItems \/ MoveTail
  \/ \E c \in Consumers : \/ Claim(c) /\ UNCHANGED <<owned, dequeued, entries>> /\ indexUnchanged
                          \/ LoadHeader(c) \/ FindSlot(c) \/ TakeItems(c)
                          \/ CountDequeued(c) \/ Unlink(c) \/ FreeBlock(c)
-----------------------------------------------------------------------------
(***************************************************************************)
(* ~ImplicitProducer, when nobody uses the sub-queue any more.             *)
(***************************************************************************)
BlockOf(i) == entries[EntryAt(Current, SlotOf(Current, i))].value
ImplicitDestroyed == {<<BlockOf(i), i % B>> : i \in ItemsLeft}
\* a block is freed when the next one is entered, the tail block at the end, if
\* there were items or it is not full
ImplicitFreed ==
  {BlockOf(i) : i \in {j \in ItemsLeft : Base(j) # Base(Minus(tailIndex, 1))}}
    \cup (IF tailBlock # None /\ (ItemsLeft # {} \/ tailIndex % B # 0) THEN {tailBlock} ELSE {})
=============================================================================
