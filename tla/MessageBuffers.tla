---------------------------- MODULE MessageBuffers -----------------------------
(***************************************************************************)
(* How a message keeps its text when it leaves the call that logged it: a  *)
(* log_msg has two views, on the logger's name and on the text, and        *)
(* log_msg_buf (base/log_msg_buf.h), which the backtracer and the queues   *)
(* hold, puts both into a buffer of its own, fmt's basic_memory_buffer     *)
(* (base/fmt/format.h, over buffer in base/fmt/base.h).  A short text is   *)
(* in the object itself, a longer one on the heap, and queues move the     *)
(* objects about, so that the place the views show to changes.             *)
(***************************************************************************)
EXTENDS Naturals, Sequences, FiniteSets

CONSTANTS
    Objects,       \* the log_msg_bufs
    LoggerNames,   \* texts: sequences of characters
    MessageTexts,
    InlineSize     \* the characters of an object's own store

ASSUME BuffersAssumption ==
    /\ IsFiniteSet(Objects)
    /\ InlineSize \in Nat \ {0}

\* A growing buffer has a new block before it gives back the old one.
HeapBlocks == 1..(Cardinality(Objects) + 1)

\* Where the logging call has its text, and nothing when the message is read.
Caller == 0

VARIABLES
    memory,    \* what an object's own store, or a heap block, holds
    buf,       \* the buffer of an object: where its data are, size and capacity
    views,     \* logger_name and msg: a place and a range of it
    holds      \* the message the object is to have, or what became of the object

buffersVars == <<memory, buf, views, holds>>

NoBuffer(o) == [data |-> o, size |-> 0, capacity |-> InlineSize]
View(place, from, size) == [place |-> place, from |-> from, size |-> size]
NoViews == [logger_name |-> View(Caller, 0, 0), msg |-> View(Caller, 0, 0)]

Without(what) == [is |-> what, name |-> <<>>, text |-> <<>>]
Message(name, text) == [is |-> "message", name |-> name, text |-> text]

BuffersInit ==
    /\ memory = [place \in Objects \cup HeapBlocks \cup {Caller} |-> <<>>]
    /\ buf = [o \in Objects |-> NoBuffer(o)]
    /\ views = [o \in Objects |-> NoViews]
    /\ holds = [o \in Objects |-> Without("no object")]

-----------------------------------------------------------------------------

\* What the buffers' functions work on.
Heap == [memory |-> memory, buf |-> buf]
UpTo(h, o) == SubSeq(h.memory[h.buf[o].data], 1, h.buf[o].size)
FreeBlock(h) == CHOOSE b \in HeapBlocks : h.memory[b] = <<>>

\* What is written over old at from, which keeps what is behind it.
Over(old, from, new) == SubSeq(old, 1, from) \o new \o SubSeq(old, from + Len(new) + 1, Len(old))

Deallocate(h, o) ==
    IF h.buf[o].data = o THEN h ELSE [h EXCEPT !.memory[h.buf[o].data] = <<>>]

\* basic_memory_buffer::grow: half as much again, or what is needed.
Grow(h, o, need) ==
    LET half == h.buf[o].capacity + h.buf[o].capacity \div 2
        new == FreeBlock(h)
    IN  [Deallocate(h, o) EXCEPT
            !.memory[new] = UpTo(h, o),
            !.buf[o].data = new, !.buf[o].capacity = IF need > half THEN need ELSE half]

\* buffer::append
AppendTo(h, o, chars) ==
    LET need == h.buf[o].size + Len(chars)
        g == IF need > h.buf[o].capacity THEN Grow(h, o, need) ELSE h
    IN  [g EXCEPT !.memory[g.buf[o].data] = Over(@, h.buf[o].size, chars), !.buf[o].size = need]

\* basic_memory_buffer::move: a heap block changes hands, a store is copied; who gave
\* its block away is left with a store of which it may use nothing any more.
MoveFrom(h, o, other) ==
    IF h.buf[other].data = other
    THEN [h EXCEPT !.buf[o] = [h.buf[other] EXCEPT !.data = o],
                   !.memory[o] = Over(@, 0, UpTo(h, other))]
    ELSE [h EXCEPT !.buf[o] = h.buf[other], !.buf[other] = [NoBuffer(other) EXCEPT !.capacity = 0]]

New(h, o) == [h EXCEPT !.buf[o] = NoBuffer(o), !.memory[o] = <<>>]

-----------------------------------------------------------------------------

\* Slip: the views of the source.
UpdateStringView_Not(h, o, v) == v

\* update_string_view: the views keep their sizes and show to the buffer.
UpdateStringView(h, o, v) ==
    [logger_name |-> View(h.buf[o].data, 0, v.logger_name.size),
     msg |-> View(h.buf[o].data, v.logger_name.size, v.msg.size)]

ShownBy(v) == SubSeq(memory[v.place], v.from + 1, v.from + v.size)

Becomes(h, o, v, m) ==
    /\ memory' = h.memory /\ buf' = h.buf
    /\ views' = [views EXCEPT ![o] = UpdateStringView(h, o, v)]
    /\ holds' = [holds EXCEPT ![o] = m]

IsThere(o) == holds[o].is # "no object"
HasMessage(o) == holds[o].is = "message"
Shows(v, chars) == v.from + v.size <= Len(memory[v.place]) /\ ShownBy(v) = chars

\* log_msg_buf(const log_msg&): the message of a call, with views on the call's buffer.
OfLogMsg(o, name, text) ==
    /\ ~IsThere(o)
    /\ Becomes(AppendTo(AppendTo(New(Heap, o), o, name), o, text), o,
               [logger_name |-> View(Caller, 0, Len(name)), msg |-> View(Caller, 0, Len(text))],
               Message(name, text))

\* The default object of a queue's slot.
Default(o) ==
    /\ ~IsThere(o)
    /\ LET h == New(Heap, o) IN memory' = h.memory /\ buf' = h.buf
    /\ views' = [views EXCEPT ![o] = NoViews]
    /\ holds' = [holds EXCEPT ![o] = Without("a message")]

\* log_msg_buf(const log_msg_buf&) reads what the other's views show.
CopyConstruct(o, other) ==
    /\ ~IsThere(o) /\ HasMessage(other)
    /\ Becomes(AppendTo(AppendTo(New(Heap, o), o, ShownBy(views[other].logger_name)),
                        o, ShownBy(views[other].msg)),
               o, views[other], holds[other])

\* operator=(const log_msg_buf&) reads the other's buffer.
CopyAssign(o, other) ==
    /\ o # other /\ IsThere(o) /\ HasMessage(other)
    /\ Becomes(AppendTo([Heap EXCEPT !.buf[o].size = 0], o, UpTo(Heap, other)),
               o, views[other], holds[other])

MovedFrom(h, o, other) ==
    /\ memory' = h.memory /\ buf' = h.buf
    /\ views' = [views EXCEPT ![o] = UpdateStringView(h, o, views[other])]
    /\ holds' = [holds EXCEPT ![o] = holds[other], ![other] = Without("a message")]

\* log_msg_buf(log_msg_buf&&)
MoveConstruct(o, other) ==
    /\ ~IsThere(o) /\ HasMessage(other)
    /\ MovedFrom(MoveFrom(New(Heap, o), o, other), o, other)

\* operator=(log_msg_buf&&), of different objects, as the buffer asserts.
MoveAssign(o, other) ==
    /\ o # other /\ IsThere(o) /\ HasMessage(other)
    /\ MovedFrom(MoveFrom(Deallocate(Heap, o), o, other), o, other)

Destroy(o) ==
    /\ IsThere(o)
    /\ LET h == New(Deallocate(Heap, o), o) IN memory' = h.memory /\ buf' = h.buf
    /\ views' = [views EXCEPT ![o] = NoViews]
    /\ holds' = [holds EXCEPT ![o] = Without("no object")]

BuffersNext ==
    \E o \in Objects :
       \/ \E name \in LoggerNames, text \in MessageTexts : OfLogMsg(o, name, text)
       \/ Default(o) \/ Destroy(o)
       \/ \E other \in Objects :
             \/ CopyConstruct(o, other) \/ CopyAssign(o, other)
             \/ MoveConstruct(o, other) \/ MoveAssign(o, other)

-----------------------------------------------------------------------------

\* Whatever is copied, moved and destroyed, and wherever the text is, the views of an
\* object with a message show the name and the text it was made of; its buffer holds
\* just these, within its capacity; and every heap block belongs to one object.
MessagesKeepTheirText ==
    /\ \A o \in Objects : HasMessage(o) =>
          /\ Shows(views[o].logger_name, holds[o].name)
          /\ Shows(views[o].msg, holds[o].text)
          /\ buf[o].size = Len(holds[o].name) + Len(holds[o].text)
    /\ \A o \in Objects : buf[o].size <= buf[o].capacity
    /\ \A b \in HeapBlocks : memory[b] # <<>> => Cardinality({o \in Objects : buf[o].data = b}) = 1
=============================================================================
