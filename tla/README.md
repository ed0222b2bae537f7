# Formal model of frib-e2sar

TLA+ specifications, TLC runs and TLAPS proofs for the `e2sarwf` programs and
scripts that move nuclear-physics data over the EJFAT/E2SAR transport. All
paths below are relative to `src/`.

## The system

A *sender* reads NSCLDAQ ring items, packs them into fixed-size event buffers
and gives those to the E2SAR Segmenter, which sends them as UDP fragments. A
*receiver* reassembles the events with the E2SAR Reassembler in several dequeue
threads and hands them to a sink, which puts them in time order and writes them
to a file or an NSCLDAQ ring buffer. Python scripts start a receiver together
with the programs that consume its output, and stop them all.

| component | state it keeps | operations | talks to |
|---|---|---|---|
| `e2sarwf/BufferedSink` | lock-free input queue, sorted queue, `m_lastEmitted`, `m_shutdown`, window and timeout | `addData`, `poll`, `drainAndSort`, `insertBuffer`, `emitFromWindow`, `outputData`, `stopThreads`, destructor | fed by the receiver's dequeue threads; writes through a `DataSink` |
| `e2sarwf/Receiver` | dequeue threads, statistics thread, `m_threadsRunning` | `operator()`, `prepareToReceive`, `receiveEvents`, `shutdown`, `ctrlCHandler` | E2SAR Reassembler, `BufferedSink`, signals |
| `e2sarwf/Sender` | current and pending ring item, byte and send counts, senders at the load balancer | constructor, `operator()`, `sendBuffer`, `senderCallback`, `shutdown`, `ctrlCHandler` | `DataSource`, `BufferPool`, E2SAR Segmenter and LBManager, signals |
| `e2sarwf/BufferPool` | lock-free queue of free buffers, Boost pool, mutex | `pop`, `push`, destructor | send loop and Segmenter threads |
| `e2sarwf/*DataSource` | the stream read from | `getItem` | the sender |
| `e2sarwf/*DataSink` | file descriptor or ring | `put`, `putV` | `BufferedSink` |
| `e2sarwf/e2sarwf.cpp` | options | `main` | builds a `Sender` or a `Receiver` |
| `utils/evbfilter` | current item, output buffer, item count | `filterItem`, `main` | the event builder's pipe, `stdintoring` |
| `utils/tsvalidate` | last timestamp, counters, limits | `processItem`, `makeExclusionList`, `main` | a data source |
| `scripts/workflows.py`, `scripts/process_runner.py` | child processes, reader threads, events, shutdown lock | `start`, `run`, `shutdown` of four workflow classes | the programs above, signals |

What is hard here: the sink sorts data of several threads with two mutexes, a
condition variable whose notifications can be lost, a time window, a timeout
and a shutdown that works on the same queues from another thread; buffers of
the sender are recycled by callbacks of Segmenter threads while the loop packs
the next one; the receiver's shutdown runs inside a signal handler; the scripts
handle signals, timeouts and children that die on their own.

## Components and the properties that make them right

* **BufferedSink**: no accepted buffer is lost, written twice or freed while it
  is written; the output is in time order wherever the window allows, and every
  step back in time has been reported; data leave when they should, and
  `stopThreads()` returns.
* **Receiver**: the sink is stopped after the last dequeue thread; whatever
  ends the program, what was received and not written is lost in one of a few
  ways that can be named; the load balancer is asked to remove the worker; a
  signal ends the program, a duration ends the run.
* **Command line**: an option that is for the other program is refused.
* **Sender**: what it added to the load balancer it removes; each ring item is
  packed once, in order, into buffers that hold it; what is sent is what was
  packed; with `--useCt` events are numbered without gaps; the loop ends with
  its source and the program with a signal; the pool outlives the last callback.
* **BufferPool**: a buffer has one owner; memory grows with demand only; a full
  queue delays nobody for ever.
* **Workflow scripts**: every child that was started is stopped and reaped,
  once, whatever order failures, signals and exits of children come in.
* **evbfilter, tsvalidate**: what leaves the filter is the fragments that went
  in, whole, in order and once, however the output is cut up, up to an item
  whose header the filter misreads; the validator's summary is right about them;
  both come to an end.

## Modules

| module | models | role |
|---|---|---|
| `BufferedSink` | `e2sarwf/BufferedSink.{h,cpp}`, what `Receiver::shutdown()` and the sink classes do to it | component, properties, mutated forms |
| `OrderedSink` | what a user of the sink may rely on | abstract contract that `BufferedSink` implements |
| `BufferPool` | `e2sarwf/BufferPool.{h,cpp}` | component, also instantiated by `Sender` |
| `CommandLine` | the options and checks of `e2sarwf/e2sarwf.cpp` | operators, used by `Sender` |
| `Sender` | `main()`, `e2sarwf/Sender.{h,cpp}`, the helpers, Segmenter, load balancer and data sources as it uses them | component on top of `BufferPool` and `CommandLine` |
| `Receiver` | `e2sarwf/Receiver.{h,cpp}`, the Reassembler as it uses it | component, with the sink reduced to its queues |
| `ProcessRunner` | `scripts/process_runner.py` | component: a runner thread and its child |
| `Workflow` | `scripts/workflows.py` | the scripts on top of `ProcessRunner` |
| `RingItems` | the layout of ring items | operators, used by the next two |
| `EvbFilter` | `utils/evbfilter/evbfilter.cpp` | component |
| `TsValidate` | `utils/tsvalidate/tsvalidate.cpp` | component |
| `EvbPipe` | the two in a row | composition, properties |
| `MCBufferedSink`, `MCSender`, `MCEvbPipe` | - | symmetry and values for TLC |
| `BufferedSinkProofs` | - | theorems on the order of the output |
| `SinkFateProofs` | - | theorems on what becomes of each buffer, on the window and the stop, and the contract, on top of it |
| `SequenceLemmas` | - | lemmas on sequences put together and taken apart, for `SenderProofs` and `EvbPipeProofs` |
| `BufferPoolProofs`, `SenderProofs` | - | theorems; the second uses the first by INSTANCE |
| `EvbPipeProofs` | - | theorems on the filter and the validator |
| `ReceiverProofs`, `WorkflowProofs` | - | theorems |

Actions carry the names of the functions they model or of the part of them that
other threads cannot interrupt. A function is cut into several actions wherever
another thread can see what is between them. Operators marked "Mutant" are
mutated forms of the definition below them, a plausible mistake each; with one
in place of the definition, the property it belongs to fails in its run.

### BufferedSink and OrderedSink

The state is that of the class plus what its functions keep on the stack while
another thread may run: `batch` (popped, not inserted), `outputBuffers` and
`iov` (taken off the sorted queue, partly written). `pc["poll"]` is the place
of the output thread in `poll()`, `pc["stop"]` that of the thread that calls
`stopThreads()`. Each pop, insertion and write is a step of its own, so every
interleaving with `addData()` is explored; `drainAndSort()` and `outputData()`
are the same actions for both threads. A buffer is its identity and its
`s_time`, an unsigned integer below `TimeMod`: the subtraction of the window
wraps as `uint64_t` does. History variables record what arrived, what the sink
holds and which buffers were reported late.

The environment: dequeue threads end before `stopThreads()` is called
(`Receiver`'s `ProducersEndFirst` is what this rests on); after it the process
exits from the signal handler, or `~BufferedSink()` calls `stopThreads()` again
and frees the queues. The clock is a counter of ticks since data were last
sorted, capped one above the timeout. `putV()` may throw at any buffer, and the
input queue may refuse one.

`OrderedSink` is the sink without threads, queues, windows or time: accepted
buffers are each written or discarded once, buffers of equal time in push
order, and steps back in time lead only to a buffer reported late.
`BufferedSink` refines it, with `deleted` for `discarded` and `open` false once
the destructor has run (`ContractSpec`).

### BufferPool

`queue` is the lock-free queue, `allocated` what the Boost pool has handed out,
`inUse` what callers hold, `call[t]` the place of a thread in `pop()` or
`push()` with the buffer and the attempts so far, `mutex` the holder of
`m_mutex`. `peak` is history: the most buffers that callers held, or were
about to hold, at one time. `Malloc` hands out any free block;
`MallocFails` is `std::bad_alloc`. The lock-free queue is taken as atomic.

### Sender and CommandLine

`Parse` is `main()` up to the choice of the program: `given` is the set of
options on the command line, `OptionsRefused` the conflicts and dependencies as
`main()` lists them, with the options' programs from their descriptions. The
constructor is one step for each thing it may fail at (format version, source,
ini file, URI and optimizations, load balancer, Segmenter); a failure is caught
by `main()` and runs no destructor, so `SendersRemoved` has to leave out the
end between adding the senders and having a Segmenter: they then stay with the
load balancer. SIGINT is handled from the constructor on. With `--recv` the
program goes on as `Receiver`, whose model starts there.

The main thread is at `pc`. In `operator()()` it does this: get a buffer
(`PopRecycled`, `PopMiss`, `LockPool`, `Malloc`, `BadAlloc` are the steps of
`pop()`), pack the pending item and then items of the source, send, check the
limit. The Segmenter
is a bounded queue and threads that send an event and call `senderCallback()`,
which is the `push()` of `BufferPool`. `BufferPool` is instantiated with those
threads and the loop as its callers, on the same variables. The event number is
`sendCount` with `--useCt`, the timestamp of the first physics item otherwise;
no order is claimed of the latter (`NumbersInOrder`), only that it is the one
of the items of its event (`WireIntact`).

SIGINT comes at any place; its handler runs on the main thread, which does
nothing else meanwhile, and joins the Segmenter's threads. Other ends: a failed
start, `std::bad_alloc`, the limit, the end of a file; a read of a ring that
times out sends what is there and ends the loop if anything was sent before.
The Segmenter keeps a block until its callback, may refuse an event although
there is room, and sends nothing more once stopped.

### Receiver

The main thread is at `pc` in the constructor or in `operator()()`. `frames`
are the calls of `shutdown()` on top of it: a signal pushes one, and so does
the destructor when `operator()()` throws or returns; only the last one runs. Each signal is
blocked while its own handler runs, so SIGTERM may interrupt the handler of
SIGINT and the reverse, and the inner call ends the process. `thread`,
`recorded`, `interrupted` and `expired` are the dequeue threads, `m_deqThreads`,
`boost::thread::interrupt()` and the duration. Of the sink there are
`inputQueue`, which may refuse an event (`refused`), and `sortedQueue`, without
their order, and `sortMutex`, the one thing that one call of `shutdown()` can
keep from another. Its output thread moves batches and writes until the sink is
stopped. A frame carries the locals of the flush in `stopThreads()`: `batch`
and `popped` of `drainAndSort()`, one batch and no more, and `taken`, what
`outputData()` is writing. `~Receiver()` ends with the destruction of its sink,
which stops it a second time (`DestroySink`). `worker` is "kept" when
`deregisterWorker()` has failed; `shutdown()` then goes on. A write that throws
ends the process from a handler or destructor ("crash") as well as from the
output thread ("abort"). The statistics thread has no state: it has ended, for
the join at the end of `operator()()`, when `m_threadsRunning` is false.

### ProcessRunner and Workflow

`ProcessRunner` is the `run()` of a thread for each child, from `Popen` to the
end: poll, terminate, wait, kill, read. Its child may exit at any time, also
between the timeout of the wait and `kill()`, may ignore SIGTERM, and may stop
in the middle of a line, which keeps `readline()` and with it the runner.
`Workflow` adds the main thread: `pc` is its place in `run()`, and `frames` the
calls of `shutdown()` on top of it, by `run()` itself or by the handler of
SIGINT, which Python runs on the main thread between any two steps, also inside
a `join()` or another `shutdown()`. The four classes differ in whether the
joins of `shutdown()` are limited (`limited`, as in `ReassembleAndFit`).
`missed` is history: the children whose runner had not reported in when
`shutdown()` looked at it, which it takes for not alive and does not stop. The
interpreter does not exit before the runners; a second Ctrl-C may abandon that
wait (`over = "abandoned"`).

### RingItems, EvbFilter, TsValidate and EvbPipe

A word of a stream is what it is and its value, so that reading in the wrong
place shows. `Items` are what the event builder writes (`ItemAssumption`: a
body header is full, or empty as version 12 or as version 11 has it, a time is
not 0, the fragment's body has at least the five words that `--debug` takes),
and an input is the words of some of them
up to where the stream ends: after an item, its header, or in what the readout
wrote of it (`Losses`, `Stream`). `EvbFilter` has the steps of `filterItem()`: header, body (filled
up with stale words when the input ends), the three parts to skip, and three
`put()`s. When `CBufferedOutput` writes is left open at every `put()`; it
writes the rest when the program exits. The body header's size word says where
the fragment starts: 5 words when full, 1 when empty in version 12. In version
11 the word is 0, and the filter skips nothing for it (`SkipShort`): from there
on it takes the fragment to start a word early and its output depends on what
the misread words say, so the model of the filter ends there ("astray").
`TsValidate` reads items from a stream until it is closed, and
has the options, the skipped and the excluded items, the limit, and every end:
summary, silent exit while skipping, failure. `EvbPipe` puts the second on the
output of the first; the filter's next write fails when the validator is gone.

## Runs

| run | question | bounds |
|---|---|---|
| `sink_safety` | order, steps back reported, one consumer, each buffer written or freed once, what a stop leaves, the contract | 2 producers, 4 buffers, times 0..3, window 1, batch 2, timeout 0, one refused push |
| `sink_live` | every buffer reaches the sink, by the window without a clock or by the timeout with one; `stopThreads()` returns | 3 buffers |
| `sink_flush` | a statement of the source that the code does not keep | 3 buffers |
| `pool` | owners, growth, full queue | 3 threads, 4 blocks, queue of 2, 2 attempts |
| `sender_safety` | command lines, senders at the load balancer, items, buffers, what is on the wire, numbers, ends, callbacks | no program, one or both with any one option more; 4 items of sizes 1, 3 and 4 in buffers of 3, 5 blocks, one Segmenter thread and queue of 1, one refused send; a file without limit and a ring with limit 2 |
| `sender_ends` | the loop ends with its file, SIGINT ends the program | 2 Segmenter threads, queue of 3, files of 0 to 2 items of sizes 1, 3 and 4, one refused send |
| `sender_returned` | a full buffer goes back to the pool, which a refused one does not | as `sender_safety` |
| `receiver` | what is lost at an end, order of the shutdown, ends by signal and duration | 2 dequeue threads, 2 events, batch of 1, both signals |
| `receiver_duration` | the duration ends the run, which it does not | one signal |
| `workflow` | children stopped, reaped and left by no early exit, order of the stop, ends by Ctrl-C and by a child | 2 children, 2 times Ctrl-C, limited and unlimited joins |
| `workflow_again` | Ctrl-C in a shutdown returns, which it does not | once Ctrl-C |
| `tools` | fragments intact, summaries right, the end of the pipe | all inputs of 2 items of five kinds and four of 3, one of these with a header of version 11, cut after the last item, its header or a word before its end; no `--count` and 2; `--debug` on and off; four command lines of the validator |

Why these bounds are enough: the sink compares a buffer with its neighbours in
the queue, with `m_lastEmitted` and with the newest one, so three buffers make
every relation and the fourth gives a batch of two a remainder; times 0..3 and
window 1 hold values inside, on and outside the window and make the
subtraction wrap. Two attempts and a queue of two let three pool threads meet a
full queue, empty it in between and exhaust the memory. Buffers of 3 with items
of 1, 3 and 4 are filled exactly, left partly filled, and refused an item that
fits the next buffer or none; four items need two to four buffers, more than
the queue and the thread of the Segmenter hold. Files of no item and sends
refused are where the loop of the sender does not see the end of its source.
Two dequeue threads give one that is recorded while the other
is being started, and two events with a batch of one a backlog that a stop
leaves behind. The scripts have two children each; two Ctrl-C interrupt
`run()`, a shutdown, and the wait at the end. Three items hold an event on
either side of the begin of a run, and an item beyond the limit of 2.

The pool's queue (10240) is larger than what the Segmenter can have: the runs
of `Sender` keep that relation, so that `push()` meets no full queue. It
matters: with a queue of 1 `InterruptExits` fails, because a callback may then
need `m_mutex`, held by the `pop()` that the handler, waiting for that
callback, interrupted.

Properties leave out the cases the code leaves out, in so many words:

* `WindowAbsorbsSkew` leaves out what follows a forced flush.
* `NumbersInOrder` is about `--useCt` only.
* `SendersRemoved` leaves out the end between adding the senders and having a
  Segmenter.
* `LoopEnds` names two ways in which the loop never ends: the file is at its end
  and no send was accepted (an empty file, or every send refused), and an item
  larger than the buffer is pending.
* `LossesKnown` says what becomes of each event received when the receiver has
  run its shutdown to the end. It is written; or it was taken after the
  duration, one for each thread; or refused by a full queue; or it was with a
  call of `shutdown()` that another signal interrupted; or in the input queue
  beyond the one batch the last flush takes. It says nothing of the events of a
  thread that a signal caught before it was in `m_deqThreads`, nor after a write
  that threw, which ends the process with all that is in the queues.
* `WorkerAskedToLeave` says that deregistration was tried, since
  `deregisterWorker()` may fail, and leaves out an exception in the output
  thread, which ends the process without any shutdown.
* `SignalEnds` leaves out the signal that interrupts the holder of `m_sortMutex`.
* `FragmentsIntact` and `CountedEnds` hold until an event comes with an empty
  outer header of version 11.

### Fairness

* Output thread and caller of `stopThreads()` are scheduled, and the consumer
  of the sink reads (weak fairness of `Poll` and `Stop`). The clock runs only
  in `EveryBufferWritten`, where it is needed; nothing is assumed of producers.
* A thread inside `pop()` or `push()` runs, and gets the mutex in the end
  (strong fairness of `Lock`: a pthread mutex does not starve its waiters
  under a fair scheduler).
* The sender's main thread and the Segmenter's threads run, and the source
  delivers an item or reports its end (a ring by its read timeout).
* The receiver's main thread, with the handler on it, and its dequeue threads
  run, and time passes. Nothing is assumed of the sink's output thread; signals
  are never assumed to come.
* The scripts' main thread and runners are scheduled; of children nothing is
  assumed. `AllEnd` therefore says "or is held for ever" and by what: a second
  call of `shutdown()`, a child whose runner was `missed`, or one that stops in
  the middle of a line.
* The filter and the validator run whenever they have something to read or the
  stream has ended. Without `--count` the filter never ends, and keeps the tail
  of its output until it is killed; nothing is claimed of it then.

## Proofs

Proved by TLAPS for every value of the constants, under the ASSUMEs of the
modules: finite sets of threads and of blocks, natural numbers, sizes that are
not zero, a window below `TimeMod`, and that the send loop is not one of the
Segmenter's threads. Each inductive invariant was checked by TLC first. The
proof modules give each invariant as a conjunction of named parts, then a lemma
for each kind of step.

**The sink.** `BufferedSinkProofs`: `TypeCorrect`, `OneConsumer` (the output
thread and the caller of `stopThreads()` never consume together),
`BackStepsAreReported`, `OutputNeverEmpty`, `QueueStaysOrdered`. The last three
come from one inductive invariant, `OrderInv`, for which none of them is enough
alone. A step back is reported because a buffer is compared with
`m_lastEmitted` when it is inserted, so every queued buffer is on time or
reported (`OnTimeOrReported`); that stays true when `m_lastEmitted` moves
because what is taken is in order and not after what stays
(`OutputBeforeQueue`), and `m_lastEmitted` is the time of the last buffer in
the sink (`LastEmittedWritten`), after a write that failed as well. That nobody
else touches the queue in the middle of it is `SingleConsumer`.
`InsertAtProperties` and `InsertKeepsOrder` say what the insertion does for
every queue.

`SinkFateProofs` follows each buffer. `EqualTimesInPushOrder`: buffers leave
the input queue numbered (`Numbered`), so those of one time are inserted, taken
and written in that order (`EqualsInOrder`, which has to speak of the sorted
queue, of what is being written and of what is written together).
`OnePlaceEach`: every inserted buffer is kept in one of the places
(`NoneForgotten`) and the sizes of the places add up to what arrived
(`Counted`): so none is in two, and none is freed while a place holds it.

In the same module, `StopLeavesBacklog` counts what each call of
`stopThreads()` takes off the input queue, one batch (`StopInv`).
`SkewAbsorbed` needs that what the window let out is a window older than
something inserted (`Overtaken`), and so, as long as the sources are not more
apart than that, not after anything that still comes (`WindowInv`).

`SinkImplementsContract`, there too: every step of `BufferedSink`
is a step of `OrderedSink` or a stutter: moves between queues stutter, the
insertion of a late buffer is `Report`, each write is one buffer of the
contract, and the destructor discards what it frees. It rests on `OrderInv`
and on the invariant behind `OnePlaceEach`.

**The pool.** `BufferPoolProofs`: `TypeCorrect`, `OneOwnerOfABuffer`,
`PoolBoundedByDemand`. `OneOwner` is inductive with the types. The bound needs
it: memory is asked for when the queue is empty, and then, by `OneOwner`, all
of the pool is in the hands of callers (`EmptyQueue`, by counting), so one more
block is within what they hold.

**The sender.** `SenderProofs`: every safety property the runs check of
`Sender`. `SenderUsesPool` shows that the loop and the Segmenter's threads are
callers as `BufferPool` allows them, so `PoolSafe` carries over what is proved
there; that a block a `pop()` returns is nobody else's is what the rest is
built on. The invariant (`SenderInv`) says that the loop holds a buffer exactly
while it packs or sends (`HoldsBuffer`), that the pool outlives the Segmenter's
threads (`PoolOutlives`, true because `~Sender()` joins them before the pool is
destroyed), where the program can be with senders at the load balancer
(`Listed`) and with its limit reached (`Ends`), that each event has the number its buffer gives it (`Numbered`), and that an event is queued, with one thread or sent, its block
holding what was packed until then (`OnePlace`). From it: `TypeCorrect`,
`AllItemsKept`, `CallbackSafe`, `SentAsPacked`, `NumbersOrdered`,
`EndedComplete`, `SendersGone`; `OptionsFit` needs the conflicts only.
`OnePlace` and `CallbackFindsBuffer` hold each other up: the loop overwrites no
block that an event still needs because its buffer is not on the way, and it is
not on the way because the pool gave it out.

The lemmas on `FlattenSeq()` (`SequenceLemmas`) and `Bytes()`, recursive
functions over sequences, are proved without an induction theorem: those of the library take an operator
as a parameter. Instead `Smallest` (every set of numbers has a least element,
from the well-foundedness of <) is applied to the set of counterexamples.

**The receiver.** `ReceiverProofs`: `TypeCorrect`, `ProducersEndBeforeSink`,
`EventsAccountedFor`, `WorkerDeregistered`. What makes these hard is that calls
of `shutdown()` lie on top of each other: `ShutdownInOrder` says for every call,
not only the innermost, which of the effects of the steps before its place are
there, whoever had them, and `FlushInOrder` what its flush may still hold
there, and that its input queue is empty unless it popped a whole batch.
`Accounted` says where each event is, `OneDropEach` counts those dropped by threads whose duration has elapsed, and
`RecordedInTurn` that at most one thread has been started and not recorded.

**The scripts.** `WorkflowProofs`: `TypeCorrect`, `NoOrphans`, `ExitAfterStop`,
`ProducerEndsFirst`, for every number of Ctrl-C. `RunnerOwnsChild` ties the
state of a child to the place of its runner, `StartedInTurn` the runners to
`run()`, and `ShutdownInTurn` says of each call of `shutdown()` which children
it need not wait for any more (`Settled`); `MissedFirst` is the one exception,
the runner that had not reported in.

**The filter and the validator.** `EvbPipeProofs`: `FragmentsLeaveIntact`,
up to an item with a header of version 11, and `SummaryIsRight`. Both programs parse a stream of words that was built from
items, so their invariants tie words to items. `FilterInv`: there is a k such
that the filter has read the words of the first k items (`ReadTo`), has given
the outputter those of the first k (or of k - 1, and of the last what is not in
`hdr` and `p` any more, `GivenTo`), of which what was written and what is
buffered is all (`WrittenTo`, which has to allow for a reader that is gone), and
has counted k, or more at the end of the input (`CountedTo`). A lemma for each
of its actions says which k is next; `InputAt` says what the words of item k are
in a stream that may end in it, `HeaderRead` and `BodyRead` what a read at that
place yields. `ValidatorInv` is the same on the other side: the validator has
read k of the items that are wanted (`ReadingAt`), and its counters are right
about those of them that it did not skip or exclude (`Figures`,
`FiguresNext`). It needs `FilterInv`: that an item is there in whole when its
size says so (`ItemThere`), and that nothing is left when the stream ends
between two items (`NoItemLeft`), follow from what is written being a beginning
of the wanted words. The assumptions are those of `EvbFilter` on items and
inputs, that `--count` of the filter is a natural number (it is a `size_t`) and
those of the validator integers.

**Only model-checked.** All liveness (`EveryBufferWritten`, `StopReturns`,
`PushReturns`, `InterruptExits`, `LoopEnds`, `SignalEnds`, `AllEnd`,
`CountedEnds` and the like): fairness is out of reach of the prover. Every
invariant and every safety property of a step that a run checks is proved.

## Where the code differs from its words

| run | the code | the words |
|---|---|---|
| `sink_flush` | `stopThreads()` sorts one batch; what is beyond it in the input queue is not flushed | "Flushing remaining event buffer data..." |
| `sender_returned` | a full buffer that `addToSendQueue()` refuses is never given back to the pool | "Full buffers are then added to the Segmenter send queue and free'd back to the pool" |
| `workflow_again` | `shutdown()` waits for a lock that the shutdown it interrupted holds on the same thread, before it looks at `is_shutdown` | "Flag to prevent double shutdown on, e.g., Ctrl-C" |
| `receiver_duration` | after the duration the program waits for its statistics thread, which only a signal ends | "run duration in seconds" |

Seen on the way and not made into runs:

* BufferedSink.cpp:363: `m_lastEmitted` goes back with a late buffer, so a later
  buffer behind what was written before is not reported.
* Sender.cpp:313: the end of the source counts only if bytes were accepted for
  sending. An empty file, an item larger than the buffer or a Segmenter that
  refuses everything never end the loop (`LoopEnds`); each round asks for a
  buffer that is not given back (470-472).
* Sender.cpp:243-244 says events are not numbered by timestamp; without
  `--useCt` they are. The check for a clock overrun (339-345) compares a value
  with itself.
* Receiver.cpp:96: with `--useCt` the window is assigned to a local variable
  that hides the one used. Receiver.cpp:218: a signal while the constructor is
  making the sink dereferences a null `m_pSink` (the state "crash" of
  `Receiver`). Its `ctrlCHandler()` exits with 0 where the comment (172-175)
  announces the default signal.
* e2sarwf.cpp:227 compares `--recv` with "src", which is no option: `--recv
  --srcid` is accepted, although `--srcid` is the sender's. The dependencies of
  222-242 are all on options with a default, so none ever fails. `-p` is
  declared twice (122, 138); an ambiguous option is not an `unknown_option` and
  is not caught. Without `--send` and `--recv` the exit status is success.
* evbfilter.cpp:124-126 says an empty body header of version 11 is a word of
  value 0; line 139 then skips no word for it, and every output is one word off
  (`SkipShort`).
  Line 171 assigns where it should compare: harmless while the fragment's body
  has at least five words, with fewer the size left wraps.
* evbfilter.cpp:244: the end of the input is not an end; without `--count` the
  program spins, and what is in its output buffer stays there.
* tsvalidate.cpp:144-173: the counter starts anew with a run, the number of
  timestamps out of order does not, so the summary may find more of them than
  events. Line 312 compares a pointer with a literal, so that the default source
  of the comment above it is hardly ever used.
* Workflow scripts: a Ctrl-C between `start()` and the thread's first step
  leaves its child to itself (`missed`).

## Not modelled

* Second SIGINT on another thread while the first is handled, `m_pInstance`
  after a destructor, and library locks taken in handlers: undefined behaviour.
* Real time: the second of sleep in `shutdown()`, rates and periods; the
  timeouts of the scripts may expire at any time.
* Formats: ring items are their size, type and timestamp; the values of options,
  ini files and URIs, printing, `checkdefaults` and the shell scripts are left
  out, as pure input and output.
* `evbfilter` on input that ends within a header, or within the words that say
  where the fragment is, and after an empty outer header of version 11: it then
  takes what was in memory, or the wrong words, for sizes.
* The library calls: E2SAR's Segmenter, Reassembler and LBManager, NSCLDAQ's
  rings, item factories and buffered output are what the code sees of them.

## Plan

Done, in this order: `BufferedSink` with `OrderedSink` and its theorems,
`BufferPool` with its theorems, `Sender`, `Receiver`, `ProcessRunner` with
`Workflow`, `EvbFilter` and `TsValidate` with `EvbPipe`, the command line and
the constructor in `Sender`, then the proofs of all safety properties, and that
the sink implements its contract. What could follow: the contract of the sink
in `Receiver` in place of its reduced queues.
