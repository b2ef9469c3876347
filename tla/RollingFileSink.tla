-------------------------- MODULE RollingFileSink --------------------------
(***************************************************************************)
(* sinks/rolling_file_sink.h over base/file_base.h: messages go to files   *)
(* numbered from 1, a new file when the next message would not fit; the    *)
(* file with the last number is written over.  The sinks of a program and  *)
(* of the programs after it follow each other on the same files.           *)
(*                                                                         *)
(* A FILE* buffers what is written; the files hold what has reached the    *)
(* operating system, which a crash of the process does not lose.  A step   *)
(* is a call of the sink, under its mutex, or one of the three parts of    *)
(* output_, between which the process may crash.  Every call on a file may *)
(* fail.  Left out: a message that a crash cuts in two.                    *)
(***************************************************************************)
EXTENDS Integers, Sequences, FiniteSets, SequencesExt

CONSTANTS
    Sizes,           \* formatted sizes of messages
    max_file_size_,
    max_file_num_,
    MaxMessages,     \* bounds of the model: messages, failed calls, sinks
    MaxFailures,
    MaxSinks

ASSUME RollingAssumption ==
    /\ Sizes \subseteq Nat \ {0}
    /\ max_file_size_ \in Nat \ {0}         \* checked by the constructor
    /\ max_file_num_ \in Nat                \* 0 gives one file
    /\ {MaxMessages, MaxFailures, MaxSinks} \subseteq Nat

VARIABLES
    disk,            \* the files that exist: number |-> what they hold
    file_,           \* "open", "null", "dangling" (closed but kept), or "none": no sink
    buffer,          \* written to the stream and not to the file
    file_index_,
    cur_file_size_,
    pc,              \* the part of output_ that comes next
    msg,             \* the message in it
    logged,          \* messages so far: a message is its number and its size
    accepted,        \* history: messages written to a stream that a crash has not lost
    flushed,         \* history: those before a flush that returned
    erased,          \* history: messages of the last file when it was written over
    silent,          \* history: bytes this sink dropped without an exception
    failures, sinks  \* failed calls and sinks so far

sinkVars == <<file_, buffer, file_index_, cur_file_size_>>
history  == <<accepted, flushed, erased, silent>>
vars     == <<disk, sinkVars, pc, msg, logged, history, failures, sinks>>

\* The highest number.
LastNumber == IF max_file_num_ = 0 THEN 1 ELSE max_file_num_

\* What is not a whole message has the number 0: contents of before, torn messages.
Other(size) == [id |-> 0, size |-> size]
NoMessage   == Other(0)

\* The places of whole messages among the pieces, their bytes and their numbers.
Wholes(pieces) == {a \in DOMAIN pieces : pieces[a].id # 0}
Bytes(pieces)  == SumFunction([a \in Wholes(pieces) |-> pieces[a].size])
Ids(pieces)    == {pieces[a].id : a \in Wholes(pieces)}

Init ==
    /\ \E numbers \in SUBSET (1..LastNumber) : disk = [i \in numbers |-> <<Other(1)>>]
    /\ file_ = "none" /\ buffer = <<>> /\ file_index_ = 1 /\ cur_file_size_ = 0
    /\ pc = "idle" /\ msg = NoMessage /\ logged = 0
    /\ accepted = {} /\ flushed = {} /\ erased = {} /\ silent = 0
    /\ failures = 0 /\ sinks = 0

Fail == failures < MaxFailures /\ failures' = failures + 1

\* Slip: the first number, whether it is taken or not.
FirstFree_Same(from) == from

\* The loop of the constructor and of roll_file_: the first number that is free, or
\* the last.
FirstFree(from) ==
    CHOOSE i \in from..LastNumber :
        /\ i = LastNumber \/ i \notin DOMAIN disk
        /\ \A j \in from..(i - 1) : j \in DOMAIN disk

\* file_base::open with truncate: the file is emptied ("wb"), then opened ("ab").
Truncate(i) ==
    /\ disk' = [j \in DOMAIN disk \cup {i} |-> IF j = i THEN <<>> ELSE disk[j]]
    /\ erased' = IF i = LastNumber /\ i \in DOMAIN disk THEN erased \cup Ids(disk[i]) ELSE erased

OpenSucceeds(i) ==
    /\ Truncate(i)
    /\ UNCHANGED failures

\* No try opens the file; one of them may have emptied it.
OpenFails(i) ==
    /\ Fail
    /\ Truncate(i) \/ UNCHANGED <<disk, erased>>

\* rolling_file_sink(); if it throws there is no sink.
Construct ==
    /\ file_ = "none" /\ sinks < MaxSinks
    /\ sinks' = sinks + 1
    /\ \/ /\ OpenSucceeds(FirstFree(1))
          /\ file_' = "open"
          /\ file_index_' = FirstFree(1)
       \/ /\ OpenFails(FirstFree(1))
          /\ UNCHANGED <<file_, file_index_>>
    /\ cur_file_size_' = 0 /\ silent' = 0
    /\ UNCHANGED <<buffer, pc, msg, logged, accepted, flushed>>

-----------------------------------------------------------------------------

\* The first n pieces of the buffer reach the file.
WriteOut(n) ==
    /\ disk' = [disk EXCEPT ![file_index_] = @ \o SubSeq(buffer, 1, n)]
    /\ buffer' = SubSeq(buffer, n + 1, Len(buffer))

\* stdio empties a part of the buffer when it likes.
Spill ==
    /\ file_ = "open" /\ buffer # <<>>
    /\ WriteOut(1)
    /\ UNCHANGED <<file_, file_index_, cur_file_size_, pc, msg, logged, history,
                   failures, sinks>>

\* fflush; of a null FILE* it flushes every stream of the program.
FlushSucceeds ==
    /\ IF file_ = "open" THEN WriteOut(Len(buffer)) ELSE UNCHANGED <<disk, buffer>>
    /\ UNCHANGED failures

FlushFails ==
    /\ file_ = "open" /\ buffer # <<>>
    /\ Fail
    /\ \E n \in 0..(Len(buffer) - 1) : WriteOut(n)

\* A message of the size is logged; output_ has formatted it.
NewMessage(size) ==
    /\ file_ \in {"open", "null"} /\ pc = "idle"
    /\ logged < MaxMessages
    /\ logged' = logged + 1
    /\ msg' = [id |-> logged + 1, size |-> size]

\* It fits ...
OutputFits(size) ==
    /\ NewMessage(size)
    /\ cur_file_size_ + size <= max_file_size_
    /\ pc' = "write"
    /\ UNCHANGED <<disk, sinkVars, history, failures, sinks>>

\* Slip: the size of the file is read before the stream is flushed.
OutputRolls_NoFlush(size) ==
    /\ NewMessage(size)
    /\ cur_file_size_ + size > max_file_size_
    /\ file_ = "open"
    /\ IF disk[file_index_] # <<>>
       THEN pc' = "roll" /\ UNCHANGED cur_file_size_
       ELSE pc' = "write" /\ cur_file_size_' = 0
    /\ UNCHANGED <<disk, buffer, file_, file_index_, history, failures, sinks>>

\* ... or the stream is flushed, and the file left if anything is in it ...
OutputRolls(size) ==
    /\ NewMessage(size)
    /\ cur_file_size_ + size > max_file_size_
    /\ file_ = "open"
    /\ FlushSucceeds
    /\ IF disk'[file_index_] # <<>>
       THEN pc' = "roll" /\ UNCHANGED cur_file_size_
       ELSE pc' = "write" /\ cur_file_size_' = 0
    /\ UNCHANGED <<file_, file_index_, history, sinks>>

\* ... or it throws: flush or size fails, or there is no file to take the size of.
OutputThrows(size) ==
    /\ NewMessage(size)
    /\ cur_file_size_ + size > max_file_size_
    /\ \/ FlushFails
       \/ file_ = "null" /\ FlushSucceeds
       \/ /\ file_ = "open"
          /\ WriteOut(Len(buffer))
          /\ Fail
    /\ UNCHANGED <<file_, file_index_, cur_file_size_, pc, history, sinks>>

\* roll_file_: close, which may fail and leave file_ as it was ...
RollCloseFails ==
    /\ pc = "roll"
    /\ Fail
    /\ file_' = "dangling"
    /\ pc' = "idle"
    /\ UNCHANGED <<disk, buffer, file_index_, cur_file_size_, msg, logged, history, sinks>>

\* ... and open the next file; output_ then counts from 0.
RollFile ==
    /\ pc = "roll"
    /\ file_index_' = FirstFree(file_index_)
    /\ \/ /\ OpenSucceeds(FirstFree(file_index_))
          /\ pc' = "write"
          /\ cur_file_size_' = 0
          /\ UNCHANGED file_
       \/ /\ OpenFails(FirstFree(file_index_))
          /\ pc' = "idle"
          /\ file_' = "null"
          /\ UNCHANGED cur_file_size_
    /\ UNCHANGED <<buffer, msg, logged, accepted, flushed, silent, sinks>>

\* Slip: what is not written is not counted.
Write_NotCounted ==
    /\ pc = "write"
    /\ pc' = "idle"
    /\ IF file_ = "null"
       THEN silent' = silent + msg.size /\ UNCHANGED <<buffer, accepted, cur_file_size_>>
       ELSE /\ buffer' = Append(buffer, msg)
            /\ accepted' = accepted \cup {msg.id}
            /\ cur_file_size_' = cur_file_size_ + msg.size
            /\ UNCHANGED silent
    /\ UNCHANGED <<disk, file_, file_index_, msg, logged, flushed, erased, failures, sinks>>

\* file_base::write, which does nothing without a file; the size is counted.
Write ==
    /\ pc = "write"
    /\ pc' = "idle"
    /\ cur_file_size_' = cur_file_size_ + msg.size
    /\ IF file_ = "null"
       THEN silent' = silent + msg.size /\ UNCHANGED <<buffer, accepted>>
       ELSE /\ buffer' = Append(buffer, msg)
            /\ accepted' = accepted \cup {msg.id}
            /\ UNCHANGED silent
    /\ UNCHANGED <<disk, file_, file_index_, msg, logged, flushed, erased, failures, sinks>>

\* fwrite writes a part or nothing.
WriteFails ==
    /\ pc = "write" /\ file_ = "open"
    /\ Fail
    /\ pc' = "idle"
    /\ \E n \in 0..(msg.size - 1) :
          buffer' = IF n = 0 THEN buffer ELSE Append(buffer, Other(n))
    /\ UNCHANGED <<disk, file_, file_index_, cur_file_size_, msg, logged, history, sinks>>

-----------------------------------------------------------------------------

\* Slip: nothing is flushed.
Flush_Not ==
    /\ file_ \in {"open", "null"} /\ pc = "idle"
    /\ flushed' = accepted
    /\ UNCHANGED <<disk, sinkVars, pc, msg, logged, accepted, erased, silent, failures, sinks>>

\* flush(), that returns ...
Flush ==
    /\ file_ \in {"open", "null"} /\ pc = "idle"
    /\ FlushSucceeds
    /\ flushed' = accepted
    /\ UNCHANGED <<file_, file_index_, cur_file_size_, pc, msg, logged, accepted, erased,
                   silent, sinks>>

\* ... or throws.
FlushThrows ==
    /\ pc = "idle"
    /\ FlushFails
    /\ UNCHANGED <<file_, file_index_, cur_file_size_, pc, msg, logged, history, sinks>>

\* ~rolling_file_sink: flush and close.  A failure throws from a destructor, which
\* ends the program: a Crash.
Destroy ==
    /\ file_ \in {"open", "null"} /\ pc = "idle"
    /\ FlushSucceeds
    /\ flushed' = accepted
    /\ file_' = "none"
    /\ UNCHANGED <<file_index_, cur_file_size_, pc, msg, logged, accepted, erased, silent,
                   sinks>>

Crash ==
    /\ file_ # "none"
    /\ file_' = "none"
    /\ buffer' = <<>>
    /\ pc' = "idle"
    /\ accepted' = accepted \ Ids(buffer)
    /\ UNCHANGED <<disk, file_index_, cur_file_size_, msg, logged, flushed, erased, silent,
                   failures, sinks>>

Next ==
    \/ Construct \/ Destroy \/ Crash
    \/ \E size \in Sizes : OutputFits(size) \/ OutputRolls(size) \/ OutputThrows(size)
    \/ RollCloseFails \/ RollFile
    \/ Write \/ WriteFails
    \/ Spill \/ Flush \/ FlushThrows

Spec == Init /\ [][Next]_vars

-----------------------------------------------------------------------------

Pieces == [id : 0..MaxMessages, size : Nat]

\* Types; the numbers of files stay in 1..LastNumber, the sink's file exists, and only an
\* open stream has a buffer.
TypeOK ==
    /\ DOMAIN disk \subseteq 1..LastNumber
    /\ \A i \in DOMAIN disk : disk[i] \in Seq(Pieces)
    /\ file_ \in {"none", "open", "null", "dangling"}
    /\ file_ = "open" => file_index_ \in DOMAIN disk
    /\ buffer \in Seq(Pieces) /\ (file_ # "open" => buffer = <<>>)
    /\ file_index_ \in 1..LastNumber /\ cur_file_size_ \in Nat
    /\ pc \in {"idle", "roll", "write"} /\ msg \in Pieces
    /\ logged \in 0..MaxMessages
    /\ accepted \cup flushed \cup erased \subseteq 1..logged
    /\ silent \in Nat /\ failures \in 0..MaxFailures /\ sinks \in 0..MaxSinks

\* What file i will hold when the stream is flushed.
Content(i) == IF file_ = "open" /\ i = file_index_ THEN disk[i] \o buffer ELSE disk[i]

\* No file gets more than max_file_size_ bytes of messages, except by one message
\* that is alone in it (cur_file_size_ is kept apart from the file's own size, and
\* goes on through failed rolls and failed writes).
FileSizeBounded ==
    \A i \in DOMAIN disk :
        \/ Bytes(Content(i)) <= max_file_size_
        \/ Cardinality(Wholes(Content(i))) = 1

\* The files read by number give the messages in the order of the log, across rolls,
\* restarts, crashes and failures.
FilesInOrder ==
    \A i, j \in DOMAIN disk :
        /\ \A a, b \in Wholes(Content(i)) : a < b => Content(i)[a].id < Content(i)[b].id
        /\ i < j => \A m \in Ids(Content(i)), n \in Ids(Content(j)) : m < n

\* The sink is well formed, and its files are in order and none too large.
FilesSound == TypeOK /\ FilesInOrder /\ FileSizeBounded

\* Only the file with the last number ever loses anything: the others are never
\* reopened, also by a sink of a later program.
OnlyLastFileIsErased ==
    [][\A i \in DOMAIN disk \ {LastNumber} :
            i \in DOMAIN disk' /\ IsPrefix(disk[i], disk'[i])]_vars

\* A message accepted before a flush that returned, or before the sink was destroyed,
\* is in a file whatever crashes or fails after, unless the last file was written over.
FlushedIsKept ==
    flushed \subseteq erased \cup UNION {Ids(disk[i]) : i \in DOMAIN disk}

\* A sink that lost its file in a failed roll drops messages without an exception, but
\* counts them: it throws again before it has dropped one file's worth of them.
SilentLossIsBounded == silent <= max_file_size_
=============================================================================
