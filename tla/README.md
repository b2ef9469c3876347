# learnlog in TLA+

This directory specifies the concurrent and the stateful parts of learnlog, model-checks them with TLC on
small instances and proves twenty-six of the results with TLAPS for instances of any size. Paths below are those of
the repository; `CQ.h` is `base/concurrentqueue/concurrentqueue.h`.

## 1. The system

A program calls the front interface (`include/learnlog.h`), which forwards to a **registry** of **loggers**.
A sync logger writes a message to its **sinks** in the calling thread; an async logger hands it to a
**thread pool**, whose workers write to the sinks. Each pool is built on its own queue. The text of a message
is made by fmt and turned into a line by the **pattern formatter** of each sink.

| component | state | operations | interacts with |
|---|---|---|---|
| `base/circular_queue.h` | ring of `max_items + 1` slots, head, tail, override count | push (drops the oldest), pop, clear, copy, move | used by block_queue, backtracer |
| `base/block_queue.h` | circular queue, mutex, two condition variables, discard count | `enqueue`, `enqueue_if_have_room`, `enqueue_nowait`, `dequeue`, `dequeue_for`, counters | threads block on it and wake one another |
| `base/thread_pool.*`, `include/async_logger.h` | `weak_ptr` to the pool, promises, workers | log, flush, worker loop, destructor | clients, the owner and the workers share the pool's life |
| `base/lock_thread_pool.h` | one block_queue | blocking enqueue and dequeue, terminate messages, join | |
| `base/lockfree_thread_pool.h` | moodycamel blocking queue | spinning `try_enqueue`, `wait_dequeue`, wait for `size_approx() == 0` | vendored queue |
| `base/lockfree_concurrent_thread_pool.h` | a producer token per worker, spin locks, thread-local tokens | token assignment, token lock, dequeue from one producer | vendored queue; static thread-local state outlives a pool |
| `base/concurrentqueue/` | blocks and their free list, sub-queues with block indexes, the hash table of producers, a semaphore | enqueue and dequeue, single and bulk, with tokens and without, timed waits, destructors | producers, consumers and exiting threads, without a lock |
| `base/registry.*`, `include/*_factory.h` | loggers by name, default logger, levels, global pattern and formatter, pool, flusher | create, register, remove, set levels and formats, replace the pool, close | three mutexes in the registry, one per async factory |
| `include/logger.h`, `src/logger.cpp`, `base/backtracer.h` | levels, sinks, last messages | log, flush, enable/disable/dump backtrace, set formats | sinks; several threads |
| `base/log_msg*.h` | views on a name and a text, and a buffer that holds both | construct, copy, move, assign | tracer, queues |
| `sinks/rolling_file_sink.h`, `sinks/basic_file_sink.h`, `base/file_base.h`, `base/os.h` | open file, its number, its counted size; the files and directories | log, flush, roll, construct, destroy, make directories | the file system, which fails, and other sinks and programs |
| `sinks/std_sinks.h`, `ansicolor_sink.h`, `wincolor_sink.h` | a mutex common to all of them, the terminal's colour | write a line, in pieces when coloured | one terminal behind two streams |
| `sinks/formatters/` | the parsed pattern, custom flags, a cached second; the coloured range, kept in the message | parse, format, clone, hand out to the sinks | a message passes from sink to sink while formatters are replaced |
| `base/fmt/`, `base/fmt_base.h`, `base/wchar_support.h` | none across calls | read a format string, write numbers, pad, convert text | every logging call |
| `base/periodic_function.h` | a timer thread | run, stop | calls `registry::flush_all` |
| `base/exception.h` | report count and time | report | every thread |

What is hard: threads that block on each other; a lock-free queue in which blocks, indexes and sub-queues are
reused under the eyes of others; a pool destroyed while clients call it and workers still run; what a flush
covers; terminate messages overtaking others in a queue of several sub-queues; workers that enqueue; a pool
replaced while loggers are created; a timer destroyed while it is anywhere in its loop; formats and levels set
in several sections; a tracer disabled between the test and the push; failed and interrupted file operations; a
size kept apart from the thing it measures; formatters replaced while messages are formatted; text cut,
measured and converted at the limits of its integers. PROJECT.json lists these as hazards, each at its
line, with the properties that speak of it. A hazard without one says why.

## 2. Modules

| module | models | built on |
|---|---|---|
| `Fifo`, `FifoObjects` | abstract bounded queue that drops its oldest item; several such objects with copy and move | |
| `CircularQueue` | `circular_queue`, indices modulo 2^w | implements `FifoObjects` |
| `BoundedChannel` | abstract atomic channel | `Fifo` |
| `BlockQueue` | `block_queue`: one step per critical section or per access outside it | `Fifo`; implements `BoundedChannel` |
| `BlockingConcurrentQueue` | the counter of permits over the system's semaphore; enqueues and timed and untimed waits, single and bulk, on it | |
| `BlockPool` | where blocks come from: initial array, free list, heap | |
| `ProducerBase`, `ExplicitProducer`, `ImplicitProducer` | a sub-queue of each kind with its block index | |
| `ProducerRegistry` | how threads and tokens get, give up and take over sub-queues; the growing hash table | |
| `ConcurrentQueue` | how consumers choose a sub-queue, with a token and without | |
| `AsyncLogging` | what all pools share: calls, `weak_ptr`s, worker loop, promises, who runs the destructor | |
| `LockThreadPool` | the pool over a `BoundedChannel` | `AsyncLogging` |
| `LockfreeThreadPool` | the pool over moodycamel's blocking queue: sub-queues, blocks, a semaphore | `AsyncLogging` |
| `LockfreeConcurrentPool` | tokens, token locks, late start of workers, with TLS and without | `AsyncLogging` |
| `Registry` | registry and factories: names, levels, pool | |
| `GlobalFormats` | global pattern and formatter, and how they reach new and old loggers' sinks | |
| `PeriodicFlusher` | `periodic_function` and `flush_every`, `flush_all`, `exec_all`, `close_registry` | |
| `RollingFileSink` | the rolling sink over buffered files with failures and crashes | |
| `FileSinks` | several file sinks that open files and make directories at once | |
| `Logger` | a sync logger with sinks and backtracer | `Fifo` |
| `MessageBuffers` | `log_msg_buf` over fmt's memory buffer | |
| `StreamSinks` | plain and colour sinks on one terminal, POSIX and Windows | |
| `ErrorReports` | `handle_excpt` | |
| `PatternFormatter` | padding and truncation; the analysis of patterns, the list it makes and what it appends | |
| `PatternMeaning` | what a pattern means: a reader of one character at a time, fields by the place of each character | reference for `PatternFormatter`; `MCMessages` compares them on every short pattern |
| `SinkFormatting` | a plain and a colour sink whose formatters are replaced while they log | `PatternMeaning` |
| `FormatString` | fmt's digits and padded numbers, and its parser of format strings | |
| `FormatMeaning` | a grammar of format strings, the text each stands for, numerals | reference for the two |
| `TextEncoding` | UTF-8 measured, cut, and converted to wide text and back | |
| `DataLemmas` | lemmas about queues, least counterexamples, finite sets and sums | `Fifo` |
| `QueueProofs` | proofs about `BlockQueue`, `BlockingConcurrentQueue`, `BlockPool`, `ProducerRegistry` and `PeriodicFlusher` | `DataLemmas` |
| `LockThreadPoolProofs` | proofs about the module of that name, and about `CircularQueue` | `DataLemmas` |
| `AsyncLoggingProofs` | what holds for every pool whose queue consists of lanes | `AsyncLogging`, `DataLemmas` |
| `LockfreeThreadPoolProofs` | proofs about the module of that name: its sub-queues are lanes | `AsyncLoggingProofs` |
| `LockfreeConcurrentProofs` | proofs about `LockfreeConcurrentPool`: the sub-queues of its tokens are lanes; and about `ConcurrentQueue` | `AsyncLoggingProofs` |
| `RegistryAndFilesProofs` | proofs about `Registry`, `GlobalFormats`, `RollingFileSink` and `FileSinks` | `DataLemmas` |
| `MessageProofs` | proofs about `Logger`, `ErrorReports` and `StreamSinks` | `DataLemmas` |
| `MC*` | instances for TLC | |

The composition is by refinement where an abstraction exists: the ring buffer implements a FIFO, `BlockQueue`
uses that FIFO and implements an atomic channel, and `LockThreadPool` uses the channel. The tracer in `Logger`
uses the FIFO too. moodycamel's queue is cut along its layers: a layer sees the one below as what that layer's
property says of it. `ConcurrentQueue` and `BlockingConcurrentQueue` see a sub-queue as a number of items,
`ImplicitProducer` sees `BlockPool` as a set of free blocks, and the pools see sub-queues as sequences. That a
sub-queue has one producer is `OneProducerEach`; the sub-queue modules start from it.

How state and actions correspond to the code: variables carry the names of the members (`queue_`,
`thread_pool_`, `cur_file_size_`, `dequeueOptimisticCount`); `pc`, `at` or `op` say where a thread is in a call;
variables marked *history* exist only in the model, so that properties can speak of the past. An action is what a
thread does under one lock, or one access outside a lock, and carries the function's name. Operators called
`X_Something` with a comment beginning "Slip" are mutated forms of `X`, which no specification uses: each shows
that some property would notice that mistake.

**`BlockQueue`.** A waiting thread releases the mutex and sleeps in one step, and may wake for no reason. The
notification is a separate step after the unlock, or part of the critical section with `NotifyUnderLock` (the
`__MINGW32__` variant). `discard_count_` is counted outside the lock, in a step of its own.

**The vendored queue.** One action is one atomic access; a load and the compare-and-swap that checks it are one
where a failed swap only repeats the load. A single operation is the bulk one with a count of 1 where the two
compute the same. Indices wrap at `W`. Elements are moved without exceptions, so the branches that catch them are
left out.

**`AsyncLogging`.** `Loggers` hold the pool weakly; a call locks it, enqueues and, for a flush, waits for its
promise. The thread that drops the last `shared_ptr` runs the destructor, be it the owner or a client. When a
worker does, it would join itself: the pool is then `"crashed"` and no property speaks of it.

**`LockfreeThreadPool`.** A sub-queue for each thread that enqueues, a fixed
number of blocks shared by all, a block free again when all its places have been used and emptied, a
semaphore counting the items, and an order of search that nobody promises. A permit and the item it stands
for are two steps in the model; the search itself is one.

**`LockfreeConcurrentPool`.** `UsedBefore` names clients that may come from an earlier pool of this kind with
its token still in the static `token_`.

**`Registry`.** Calls that hold `loggers_mutex_` throughout are one step; creating an async logger, replacing
the pool and closing take several, with `thread_mutex_` and the factory's mutex as variables. `raced` records
that some thread changed the pool while another was creating a logger. No mutex spans that, and the pool
properties are about the rest.

**`GlobalFormats`.** What the registry does under `loggers_mutex_` goes sink by sink, because a user may set the
format of a logger he holds meanwhile. `overlapped` records that two global calls overlapped: nothing is
claimed of what they leave behind.

**`PeriodicFlusher`.** The timer's test of `active_`, its falling asleep, and the destructor's three steps
interleave freely, so that the notification may be lost. `loggers_mutex_` is taken in the order of coming.

**`RollingFileSink`.** A file is a sequence of messages; the stream holds what has been written and not yet
reached the file, and may pass it on at any time. Each of open, close, flush, size and write may fail.
`output_` is three steps, between which the process may crash; a new sink may then start on the files left
behind. Failed opens may have emptied the file.

**`FileSinks`.** A step is one system call of `create_dir` or `open`; any may be denied.

**`Logger`.** A step is one sink's `log` or `flush`, or one call of the backtracer; a dump keeps the
backtracer's mutex from its first message to its last while it writes to the sinks.

**`StreamSinks`.** A step is one write or one change of the console's colour; `writing` says which piece of its
line a thread writes next.

**`SinkFormatting`.** A pattern is a sequence of characters, a line a sequence of cells that say which character of which
text they are. The flags whose text depends on the message alone differ in nothing else, so the model has two of them:
one for text of any length, and `%c`, whose formatter tells its filler 24 characters and writes 25 in September. A step is
one sink's `set_formatter` or `log` under its mutex. A pattern that ends inside a flag makes the analysis read outside the
string; the model stops there.

**`FormatString`, `TextEncoding`.** Texts grow by one character or byte at a time, so that every short text
over an alphabet is a state, and the property compares what the code computes with the reference there. A
number read by `parse_nonnegative_int` is checked against an int of a few bits.

## 3. What the runs check

Modules that do not interact share a run: its MC module composes them side by side, and a variable `part`,
fixed by the initial state or the first step, says which of them the behaviour is about. Each part keeps its own specification and
bounds, and the others stand still.

| run | instance | shows |
|---|---|---|
| `waiting_queues` | block_queue: 2 producers, 2 consumers, 2 places. Semaphore: the same threads, bulks of 2, all timeouts. Consumers: one plain, one with a token, up to 3 sub-queues, quota 2. Flusher: 2 callers, 2 flushers, 4 calls | nothing lost uncounted, no lost wakeup, refinement of `BoundedChannel`; permits add up through timeouts; an answer of "empty" is true; only one flusher runs; under fairness everyone is served |
| `queue_internals` | 2 ring buffers, capacities 0, 2 and SIZE_MAX, size_t of 3 bits; 3 threads on 3 blocks; sub-queues of blocks of 2 with bulks of 3, 2 consumers; 3 threads with one hash | the ring refines `FifoObjects`; each block in one place; each item claimed once; destructors find what is left; one producer to a sub-queue |
| `lock_pool` | 1 worker (the default), clients of three and of two calls, queue of 2 | exactly once, drained before destroyed, order, what flush covers; a dropped pool is destroyed, flush returns, accepted messages are written |
| `lockfree_pool` | 1 worker, 3 blocks of 2, one client of five calls | blocks always suffice to go on, permits have items, exactly once, order, bounded loss at destruction, termination |
| `concurrent_pool` | 2 workers, 2 clients of two calls, messages at the flush level | one producer and one consumer at a time on each sub-queue, no sub-queue without a worker, drained destruction, order and flush with several workers |
| `registry_and_files` | 2 threads, 2 pool types, 2 names; formats over loggers that share a sink; 3 rolling files of 2 bytes, 2 failures, 3 sinks; 2 users opening files below missing directories | default logger and levels agree; no registered async logger without its pool; formats agree between calls; files in order, bounded, kept over crashes; silent loss bounded; sinks get their files |
| `messages` | tracer of 1 or 2 and 2 sinks; 4 patterns to set, all of up to 5 of 8 characters to read; format strings of up to 6 characters; texts of up to 4 bytes; 2 buffers; 3 reporters; 2 writers on one terminal | dumps hold the last n once, log line before dump line, every sink served; patterns and format strings are read as written, lines are those of the sink's own pattern; text survives conversion, copying and moving; reports are ordered; lines are not torn |
| `flush_level_hangs` | 1 worker, a message at the flush level | **violation**: the worker waits for itself |
| `lockfree_loses_message` | 1 worker | **violation**: a message outstanding at destruction may stay in the queue |
| `concurrent_dangling_token` | 1 client from an earlier pool | **violation**: it enqueues through a deleted token and its flush never returns |
| `new_loggers_ignore_the_formatter` | the formats' instance | **violation**: a logger made after `set_global_formatter` does not use that formatter |
| `absolute_directories_are_not_made` | the opening sinks' instance | **violation**: `create_dir` makes no directory of an absolute path |

Properties that belong together are checked as one conjunction, each part defined on its own next to it:
`QueueSafe` is types, conservation and wakeups of block_queue; `DeliveredInOrder`, `Delivered` and
`SubqueuesServed` include that no thread uses a pool whose destructor has begun; `FilesSound` is the rolling
sink's types, the order over its files and their size; `DefaultAndLevels` and `PoolsAgree` are the registry's;
`BacktraceFaithful` is the tracer's. `PoolServes` and `PoolProgress` are the liveness of the pools.

The five violations are real disagreements between the code and its documents or tests; PROJECT.json quotes
both sides under "findings".

**Bounds.** They are chosen so that the cases that matter occur. Two places and two sends each fill, empty and
overwrite a queue while both kinds of waiters sleep. Three threads on a free list let one hold a reference to a
block that the others take, use and return; blocks of two items, an index of two entries and bulks of three
span, fill and grow an index and wrap a ring; three threads with one hash fill two tables. The rotations a token
has missed count up to 6, a multiple of 1, 2 and 3 sub-queues. Five calls of one
client fill more blocks than there are, so that `try_enqueue` fails and spins. Two clients and two workers, which
enqueue their own flushes, share two tokens. Two pools bounded at the start of a create let overlapping creates
make one more. Two flushers and four calls replace, drop and make a flusher while its thread is anywhere. In the
rolling sink a message fits twice, once or not at all, the third roll writes over the last file, and two
failures allow a failed roll after a failed write. Two users with two tries each meet at two missing levels. A
tracer of one or two sees three messages, so that it overwrites. Five characters of a pattern hold a side, a
width of two digits and a flag, a cut field, or two flags with text; a size_t of 7 bits overflows at "131" and an
int of 5 bits is wider than any line and overflows at "19". Four bytes hold a character of any length, or two, and
the surrogates and overlong forms that are none. A heap buffer holds what is longer than three characters. Symmetry
is used over threads, blocks, consumers and objects where the run has no liveness property. A size_t of 3 bits still
has wrap-around at every place the ring computes with it. Item indices do not reach
`W` within six items; the arithmetic that wraps them is in the model.

**Deadlock** is not checked (`CHECK_DEADLOCK FALSE`) where calls are bounded and the instance simply ends.

**Fairness.** Weak fairness of each thread's steps inside a call: a runnable
thread is eventually scheduled. What is not assumed: that clients make calls, that a spurious wakeup or a
timeout comes, that a mutex or a notification picks any particular waiter. Two assumptions are more than that. In
`PeriodicFlusher` intervals end, and who waits for `loggers_mutex_` gets it in turn, which std::mutex does
not promise: a timer leaves it for a whole interval. In `ConcurrentQueue` a consumer with a token calls again and
again, as a worker does. `concurrent_pool` checks safety only: its liveness for several workers is not
claimed.

## 4. What is proved

The proof modules hold for every value of the constants that the named ASSUMEs allow, which TLC evaluates in the runs,
and rest on nothing else.

* **`QueueProofs`**, `block_queue`: for every finite set of threads, any assignment of operations to them, every capacity (0
  included), both variants and any number of calls. `QueueIsSafe`: `Spec => []QueueSafe`, which is types, conservation
  and no forgotten waiter. Types are strengthened with `DiscardIsRefusal` (only a refused item is about to be
  counted). The argument for wakeups counts: if a consumer sleeps, there are no more items than threads that will look
  at the queue again or notify (`Alerted`); a push adds an item and such a thread, a pop removes an item and at most
  one of them, and a notification hands the duty from the notifier to a waiter. Producers are the mirror image with
  free places. `ImplementsChannel`: `Spec => RefinesChannel`; each operation takes effect in exactly one step, and the
  abstract discard count includes the discards that are about to be counted.
* **`LockThreadPoolProofs`**, for any clients, loggers, levels, bounds and workers, and any size of the queue.
  `PoolDeliversInOrder`: `Spec => []DeliveredInOrder`. `PoolInv` follows a message: it is in the queue, in one
  worker's hand, in its sink or failed, and in one of these only (`InOnePlace`); numbers of one thread grow along that
  way (`Numbered`); terminate messages are behind everything else and a worker that got one leaves only such
  (`TerminatesLast`). From the last two the destroyed pool is empty. A thread waits for one flush message, which has
  nothing of that thread behind it (`OneFlushEach`). With one worker this gives the order and the cover of a flush
  (`OneByOne`, `FlushDone`). The `shared_ptr`s are those of the threads inside a call (`LifeOfPool`), so that the
  destructor starts when nobody is.
* **`QueueProofs`**, semaphore and flusher. `PermitsAgree`: `BlockingSpec => []PermitsAccounted`, for any threads, counts and timeouts.
  `PermitsAccounted` is inductive together with the shape of what a thread holds at each place: the counter is items
  less what is signalled too late, held, and waited for. Sums over threads change by what the one thread that moves
  changes (`SumChange`), and `Balanced` says for each step that this is nothing. `AtMostOneFlusher`: `FlusherSpec =>
  []OneFlusher`, for any callers. The invariant adds that one caller at most is inside the section of `flusher_mutex_`
  (`OneInside`), that only such a caller has a flusher in hand (`InHand`), and that a running flusher is the
  registry's or in hand (`Known`). The caller lets go of a flusher only after the join, which returns when the thread
  has, wherever that was when `active_` was cleared.
* **`QueueProofs`**, blocks and producers of the lock-free queue. `BlocksAlwaysAccounted`: `PoolInit /\ [][PoolNext]_poolVars =>
  []BlocksAccounted`, for any finite set of threads and any number of blocks. The invariant (`PoolInductive`) names the
  free list as a sequence without repetition whose links are those of the blocks (`ListFrom`), so that "on the list" does
  not need the chain to be followed; `Account` gives a block its place and its references, one lemma for each way a
  block or a reference moves; and `ReadsHold` is the heart of the free list: as long as a thread holds a reference to the
  head it read, the link it read with it is still that block's, so that its swap cannot lose blocks.
  `OneProducerToASubqueue`: `RegistryInit /\ [][RegistryNext]_registryVars => []OneProducerEach`, for any threads, hash function,
  capacity and number of tables. Who has a producer is the only one, from the moment it is made or taken over on
  (`OwnersTold`); a thread a table names is registered, copying its entry or leaving, and one that leaves has left
  the newer tables first (`KeysTold`).
* **`LockThreadPoolProofs`**, ring buffer. `RingIsFifo`: `RingSpec => RefinesFifo`, for any objects, items and capacities a vector
  can have, SIZE_MAX included, and a `size_t` of any width. The modulo of the indices is read as a step around the
  ring (`Following`, `Around`, `Span`), which holds as twice the slots fit in a `size_t`; then each operation on a ring is the
  operation of `Fifo` on what is between its indices (`RingPush`, `RingPop`), and each step on the objects a step of
  `FifoObjects`.
* **`LockfreeThreadPoolProofs`**, for any finite set of clients, any workers, loggers, levels and bounds, any number and size of
  blocks. `LockfreePoolDelivers`: `Spec => []Delivered`, and `LockfreeOrderKept`: `Spec => []OrderKept`. What does not depend on
  the kind of queue is in `AsyncLoggingProofs`, where a queue is a function `q` from lanes to sequences and a step makes it
  `r`: a message is in one place, its numbers grow along its way, a thread has messages in one lane only, and the flush it
  waits for is behind them (`AsyncInv`); if no two workers work for one thread its order is kept (`Sole`, `OrderStep`). The
  pool shows that each of its steps is such a step (`MoveOf`), which needs that a thread's messages are in its own sub-queue
  (`Own`) and that a worker goes on from a sub-queue in the list (`Known`). Permits and blocks are sums over all threads: an
  item more or less changes one term (`ItemMore`, `ItemLess`), and a sub-queue gets a block when the last is full
  (`NextBlock`). When the destructor has found no permit, every item is one that a worker's permit stands for, so that no
  more items than workers can be left (`FewWithoutPermits`), and nobody enqueues after that (`FewLeft`).
* **`LockfreeConcurrentProofs`**, for any finite set of clients, any workers, loggers, levels and bounds, with TLS or without, and
  with clients that hold a token of an earlier pool. `ConcurrentPoolDelivers`: `Spec => []Delivered`, `SubqueuesAreServed`:
  `Spec => []SubqueuesServed`, `ConcurrentOrderKept`: `Spec => []OrderKept`. The lanes are again those of `AsyncLoggingProofs`;
  the pool adds its tokens. Signals and starts are counted (`Counted`): signals given and workers started are as many as threads
  with a token and terminate messages sent, so that there are no more starts than tokens. Tokens are given in turn (`Given`),
  and a token that is in use has a number that a producer's or a worker's count has reached. From this, and because each item
  is in the sub-queue of its thread's token (`Own`), a sub-queue that holds something is served. Whoever pushes holds the
  lock of its token (`Locks`); the destructor takes none and needs none, as nobody is inside a call then (`LifeOfPool`). One
  worker has all the messages of a thread (`OneWorkerEach`), which is what keeps the order. A worker that is done
  has taken its terminate message, the last item of its sub-queue (`Ends`); when all are done each sub-queue has had its worker,
  and none holds anything (`AllDone`). The proof that a step keeps these has one lemma for each action.
* **`LockfreeConcurrentProofs`**, choice of a sub-queue. `EmptyAnswersHonest`: `QueueInit /\ [][QueueNext]_choiceVars => []EmptyIsHonest`, for any
  consumers and call sizes, any number of sub-queues and any quota. `full` is what held items when a call began and
  has held some ever since. `ChoiceInductive` says for each place of the three algorithms where such a sub-queue can be: among those
  not yet scored, or the score is positive and there is a best; not among those asked (`Asked`), counted from the one the walk began
  at and around the end of a list that may have grown meanwhile. A walk that has come round has asked everyone.
* **`RegistryAndFilesProofs`**, registry and formats, for any threads, names, pool types, loggers and sinks they share. `LoggersAgree`:
  `RegistrySpec => []DefaultAndLevels`, from the types and the two properties themselves. `PoolsOfLoggersAgree`:
  `RegistrySpec => []PoolsAgree`; `PoolsSound` says that a create holds the mutex of its type and, once it has a pool, one of that type,
  and that whoever replaces the pool holds `thread_mutex_` (`InPlace`); unless `raced`, a logger is made with the
  registered pool, and nobody creates one while the pool is replaced (`Calm`, `JoinedOnPool`). `FormatsOfSinksAgree`: `FormatsSpec => []FormatsAgree`;
  whoever holds `loggers_mutex_` hands out the global formats and nobody else does (`CallsInPlace`), and while no call
  is half done each sink has the format it shows or the holder has yet to come to it (`GlobalsInPlace`).
* **`RegistryAndFilesProofs`**, files, for all sizes, bounds, numbers of files, failures and crashes: `FilesAreSound`, `FlushedStays`
  and `OthersAreNotErased` are `Spec => []FilesSound`, `Spec => []FlushedIsKept` and `Spec => OnlyLastFileIsErased`.
  `RollingInductive` says that the files, the open one with its buffer, have the messages in the order of the log,
  that the open file is the last with any, that `cur_file_size_` is no less than it has, and that what was accepted is
  in a file, in the buffer if it was not flushed, or was in the last file when that was written over.
  `SilentLossBounded`: `Spec => []SilentLossIsBounded`; what was dropped is no more than `cur_file_size_` once the
  file is lost, and a message about to be written without a file still fits (`Counted`): nothing else bounds the loss,
  as the code tests the counter and never the file. `SinksGetFiles`: `FilesSpec => []SinksGetTheirFiles`, for any
  paths and users: a sink that goes on has one level more of its path behind it for each try (`GetsOn`), since
  directories are made and never removed.
* **`MessageProofs`**. `ReportsAreOrdered`: `ReportsSpec => []ReportsOrdered`, for any threads; the invariant relates
  each report in hand to the clock, to the count and to what had been printed when it began. `LinesAreNotTorn`:
  `StreamsSpec => []LinesNotTorn`, for any threads and colours; one thread is inside the common mutex, and the
  terminal's colour and the last piece of its stream are tied to the piece that thread writes next.
  `BacktracesAreFaithful` and `SinksAreServed`: `Spec => []BacktraceFaithful` and `Spec => []EverySinkServed`, for any
  threads, sinks, levels and capacities. `LoggerSound` gives each message one place: the thread that logs it, the
  tracer, or the one dump under way (`OnePlace`); what has not left these has not been dumped (`NotYetDumped`); and
  each sink is done with a logged message, or a thread is on its way to it (`SinksServed`). The line of a dump comes
  after the log line because whoever pushes has been to every sink.

What the constants are assumed to be is what the code has: sets of threads and levels are finite, levels are numbers,
a capacity is one the constructor accepts, no thread is the `Nobody` that holds a free mutex, no thread is a token or has
the id 0 or 1 that marks a slot of the hash table as empty or free again. `LagPeriod`, after which the rotations a token has missed
are told apart no more, is a multiple of every number of sub-queues, so that nothing is lost by it: where a token goes
depends on the rotations modulo that number. Induction over data is
done by hand where the proofs need it: the least number that were a counterexample is none (`LeastNumber`), and a set
of subsets closed under adding an element has all finite sets (`SubsetsInduction`). From these `DataLemmas` proves
that sums over finite sets exist, and how they change. Before an invariant was proved TLC checked it on the instance
of its run.

Only model-checked:

* liveness and fairness (`WaitersServed`, `SleepersServed`, `PoolServes`, `FlusherProgress` and the like): TLAPS here
  has no ENABLED.
* what recursive definitions and folds compute over text (`MCMessages`, `SinkFormatting`, `TextEncoding`,
  `FormatMeaning`, `MessageBuffers`): induction over data whose statement is an operator.
* `ClaimsAreItems` and `DestructorsFreeAll`, the counters of a sub-queue. They do not hold for every value of the constants:
  a consumer whose snapshot of `dequeueOvercommit` is old enough that the others have gone round the `W` indices claims
  an item that is not there: with `W = 8`, blocks of two, single operations and three consumers TLC reaches a head of 3 before
  a tail of 2 (the run has `W = 16` and two consumers, where nobody can go round that far). The code relies on 2^64 being out of reach, which is no assumption on a constant of the
  model but on how long a thread may sleep.

## 5. What is not modelled

* **Front interface**: `learnlog.h` forwards to the registry; what it calls is modelled.
* **Formatters**: the durations `%W` to `%Z` and the texts of the fields. **fmt**: floating point, pointers, named arguments,
  the presentations `c`, `?`, upper case and `L`, integers from 10^9 (TLC's integers end at 2^31).
* **Operating system helpers** besides directories and files: time, thread and process ids, the test of the terminal.
* **Logger `swap` and `clone`**: nothing in the repository calls swap on registered loggers, where it would exchange the names
  they are registered under. A clone shares sinks and tracer; loggers that share sinks are in `GlobalFormats`.
* **Callbacks** of `exec_all` that use the registry, and sinks that log to their own logger: they wait for themselves.
* **Two rolling sinks at once** on one base name, and a message cut in two by a crash. After a failed fclose the sink stops.
* **Relaxed memory order**: each access to an atomic is one step in one order that all threads agree on. The spin lock's relaxed
  exchange, which orders nothing around it, is therefore stronger here than in the code.
* **moodycamel's queue**: move and swap of whole queues, statistics, exceptions of the element's constructors, failed
  allocations in the middle of a bulk enqueue. With those (`PartialFailures = TRUE`) `ClaimsAreItems` does not hold: the undo
  keeps the injected blocks and resets `pr_blockIndexSlotsUsed`, against the comment at `CQ.h:1862`. learnlog only enqueues
  single items, so the runs have them off. Two token consumers whose quotas always end together pass over a second
  sub-queue for ever; the run has one.
* **Several workers over a lock pool** have no run: what they share with other pools is in `concurrent_pool`, and several
  consumers of one queue in `waiting_queues`.
* **Variants**: the MinGW variant of block_queue is covered by the proofs and not by a run; the concurrent pool without
  `LEARNLOG_USE_TLS` (`UseTLS = FALSE`) likewise. Windows paths are left out.
* **A worker that runs the pool's destructor**, and data races in the use of a class (levels set while
  logging are single words in the model; `tracer_` is taken to exist) are outside.

Seen while reading and not turned into runs: the lambda in `is_color_terminal` (`base/os.h:101`) is never called, so that every
terminal has colours; `sleep_for_ms` sleeps microseconds on POSIX (`base/os.h:77`) and the `continue` at `base/file_base.h:47`
skips it; `learnlog.h:39` calls the default logger's name empty where `registry.cpp:192` says `default_logger`; reports that
overlap may have numbers and times in different order although `base/exception.h:26` calls them consistent; a line that is no
UTF-8 is dropped without a word on Windows (`base/wchar_support.h:137`); `fill_uint` is not for negative numbers.

One more came out of an attempt to prove it: that a search of the hash of producers ends, because there is "guaranteed to be room"
in the main table (`CQ.h:3419`, and "at least one slot is free" at `CQ.h:3411`). A thread is counted once however many tables
hold it, but when it ends each of its slots becomes one that "had been counted already" for whoever reuses it, and that
is taken off the count again. When threads that are in two tables end and others take over both slots, the count falls below the threads that live, no
table is made, and the main table fills: with 4 slots to begin with and 16 threads that hash alike, `ProducerRegistry` reaches
a main table of 8 slots, all held by living threads, at a count of 1, and the next thread goes round it for ever. In the model
such a thread has no step. `OneProducerEach` is not touched by this. learnlog's first table has 32 slots.

## 6. What is left

1. The pools over the vendored queue's own modules instead of its summary; two rolling sinks at once; logger `clone` and `swap`.
2. Proofs: `ClaimsAreItems` under a bound on how far indices run while a claim is under way; liveness, with a prover that
   has ENABLED.
