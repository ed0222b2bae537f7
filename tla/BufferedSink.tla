---------------------------- MODULE BufferedSink ----------------------------
(***************************************************************************)
(* The receiver's buffered output: BufferedSink of e2sarwf/BufferedSink.   *)
(*                                                                         *)
(* Dequeue threads (Producers) hand event buffers over with addData(); the *)
(* output thread runs poll(): it moves buffers in batches from a lock-free *)
(* queue to a queue sorted by s_time and writes out those that are older   *)
(* than a sliding window, or all of them when no data came for a while.    *)
(* stopThreads() joins the output thread and flushes from its own caller.  *)
(*                                                                         *)
(* The sort mutex and the data a thread keeps on its stack (batch,         *)
(* outputBuffers) are modelled by one location per thread and one copy of  *)
(* that data: SingleConsumer states why one copy is enough.                *)
(***************************************************************************)
EXTENDS Naturals, Sequences, SequencesExt

CONSTANTS
  Producers,   \* threads that call addData()
  TimeMod,     \* s_time is an unsigned integer below TimeMod (2^64 in C++)
  Window,      \* m_window
  BatchSize,   \* BATCH_SIZE
  TimeoutMs,   \* m_timeoutMs, in ticks of the clock
  MaxBuffers,  \* bound: buffers accepted in one behaviour
  MaxRefused   \* bound: failed pushes in one behaviour

ASSUME TimeAssumption    == TimeMod \in Nat \ {0} /\ Window \in 0 .. TimeMod - 1
ASSUME BatchAssumption   == BatchSize \in Nat \ {0}
ASSUME TimeoutAssumption == TimeoutMs \in Nat
ASSUME BoundAssumption   == MaxBuffers \in Nat /\ MaxRefused \in Nat

VARIABLES
  inputQueue,    \* m_inputQueue: pushed, not yet popped
  sortedQueue,   \* m_sortedQueue
  batch,         \* drainAndSort(): popped, not yet inserted
  outputBuffers, \* outputData(): taken off the sorted queue
  iov,           \* putV(): how many of outputBuffers are in the sink
  lastEmitted,   \* m_lastEmitted
  shutdown,      \* m_shutdown
  idle,          \* poll(): clock ticks since lastDataTime, capped
  pc,            \* where the output thread and the caller of stopThreads() are
  notifying,     \* producers between push() and notify_one()
  stops,         \* calls of stopThreads() that have joined
  process,       \* "running", "exited" by std::exit() or "crashed"
  arrived,       \* history: s_time of the buffers accepted, in push order
  refused,       \* history: number of buffers refused by push()
  written,       \* history: what the sink holds
  late,          \* history: ids of the buffers reported late
  deleted,       \* history: ids of the buffers freed without being written
  backlog,       \* history: length of the input queue at the first join
  timedOut       \* history: the idle timeout has flushed the sorted queue

queues  == <<inputQueue, batch, sortedQueue, outputBuffers, iov>>
history == <<arrived, refused, written, late, deleted, backlog, timedOut>>
vars    == <<queues, lastEmitted, shutdown, idle, pc, notifying, stops, process,
             history>>

Times   == 0 .. TimeMod - 1
Buffer  == [id : Nat \ {0}, s_time : Times]
Threads == {"poll", "stop"}

PollLocs == {"loop", "drain", "sort", "check", "write", "wait", "done"}
StopLocs == {"idle", "notify", "join", "drain", "sort", "check", "write",
             "stopped", "destroyed"}

\* uint64_t subtraction.
Sub(a, b) == IF a >= b THEN a - b ELSE a + TimeMod - b

Init ==
  /\ inputQueue = <<>>
  /\ sortedQueue = <<>>
  /\ batch = <<>>
  /\ outputBuffers = <<>>
  /\ iov = 0
  /\ lastEmitted = 0
  /\ shutdown = FALSE
  /\ idle = 0
  /\ pc = [r \in Threads |-> IF r = "poll" THEN "loop" ELSE "idle"]
  /\ notifying = {}
  /\ stops = 0
  /\ process = "running"
  /\ arrived = <<>>
  /\ refused = 0
  /\ written = <<>>
  /\ late = {}
  /\ deleted = {}
  /\ backlog = 0
  /\ timedOut = FALSE

-----------------------------------------------------------------------------
(* addData(), called by the dequeue threads.  Receiver::shutdown() joins   *)
(* those threads before it calls stopThreads().                            *)

CanAdd(p) == p \notin notifying /\ pc["stop"] = "idle"

Push(p) ==
  /\ CanAdd(p)
  /\ Len(arrived) < MaxBuffers
  /\ \E t \in Times :
       /\ inputQueue' = Append(inputQueue, [id |-> Len(arrived) + 1, s_time |-> t])
       /\ arrived' = Append(arrived, t)
  /\ notifying' = notifying \cup {p}
  /\ UNCHANGED <<batch, sortedQueue, outputBuffers, iov, lastEmitted, shutdown,
                 idle, pc, stops, process, refused, written, late, deleted,
                 backlog, timedOut>>

\* The node of the queue cannot be allocated: warn, delete the buffer, return.
PushFails(p) ==
  /\ CanAdd(p)
  /\ refused < MaxRefused
  /\ refused' = refused + 1
  /\ UNCHANGED <<queues, lastEmitted, shutdown, idle, pc, notifying, stops,
                 process, arrived, written, late, deleted, backlog, timedOut>>

\* A notification wakes the output thread when it sleeps and is lost otherwise.
Woken == [pc EXCEPT !["poll"] = IF @ = "wait" THEN "loop" ELSE @]

NotifyOne(p) ==
  /\ p \in notifying
  /\ notifying' = notifying \ {p}
  /\ pc' = Woken
  /\ UNCHANGED <<queues, lastEmitted, shutdown, idle, stops, process, history>>

-----------------------------------------------------------------------------
(* drainAndSort() in thread r.                                             *)

BatchOpen == Len(batch) < BatchSize /\ inputQueue # <<>>

Pop(r) ==
  /\ pc[r] = "drain"
  /\ BatchOpen
  /\ batch' = Append(batch, Head(inputQueue))
  /\ inputQueue' = Tail(inputQueue)
  /\ UNCHANGED <<sortedQueue, outputBuffers, iov, lastEmitted, shutdown, idle,
                 pc, notifying, stops, process, history>>

EndPop(r) ==
  /\ pc[r] = "drain"
  /\ ~BatchOpen
  /\ pc' = [pc EXCEPT ![r] = IF batch = <<>> THEN "check" ELSE "sort"]
  /\ UNCHANGED <<queues, lastEmitted, shutdown, idle, notifying, stops, process,
                 history>>

\* Mutant: the backward scan stops one buffer early, before equal times.
InsertionPointBeforeEqual(q, t, i) ==
  /\ i = 1 \/ q[i - 1].s_time < t
  /\ \A j \in i .. Len(q) : q[j].s_time >= t

\* Mutant: the shortcut for the front of the queue is taken on equal times too,
\* and the one for its back is taken when the queue has a single buffer.
InsertionPointShortcut(q, t, i) ==
  \/ /\ Len(q) <= 1 \/ t >= Last(q).s_time
     /\ i = Len(q) + 1
  \/ /\ Len(q) > 1 /\ t < Last(q).s_time
     /\ \A j \in i .. Len(q) : q[j].s_time > t
     /\ i = 1 \/ q[i - 1].s_time <= t

\* insertBuffer(): where a buffer of time t goes in the sorted queue q.
InsertionPoint(q, t, i) ==
  \/ /\ q = <<>> \/ t >= Last(q).s_time
     /\ i = Len(q) + 1
  \/ /\ q # <<>> /\ t < Last(q).s_time /\ t < Head(q).s_time
     /\ i = 1
  \/ /\ q # <<>> /\ t < Last(q).s_time /\ t >= Head(q).s_time
     /\ i \in 2 .. Len(q)
     /\ q[i - 1].s_time <= t
     /\ \A j \in i .. Len(q) : q[j].s_time > t

\* Mutant: a window of grace before a buffer is reported late.
IsLateAfterGrace(b) == b.s_time + Window < lastEmitted

IsLate(b) == b.s_time < lastEmitted

InsertBuffer(r) ==
  /\ pc[r] = "sort"
  /\ batch # <<>>
  /\ LET b == Head(batch) IN
       /\ \E i \in {n \in 1 .. Len(sortedQueue) + 1 :
                       InsertionPoint(sortedQueue, b.s_time, n)} :
            sortedQueue' = InsertAt(sortedQueue, i, b)
       /\ late' = IF IsLate(b) THEN late \cup {b.id} ELSE late
  /\ batch' = Tail(batch)
  /\ UNCHANGED <<inputQueue, outputBuffers, iov, lastEmitted, shutdown, idle, pc,
                 notifying, stops, process, arrived, refused, written, deleted,
                 backlog, timedOut>>

\* drainAndSort() returns true; only poll() keeps a lastDataTime to renew.
EndSort(r) ==
  /\ pc[r] = "sort"
  /\ batch = <<>>
  /\ pc' = [pc EXCEPT ![r] = "check"]
  /\ idle' = IF r = "poll" THEN 0 ELSE idle
  /\ UNCHANGED <<queues, lastEmitted, shutdown, notifying, stops, process, history>>

-----------------------------------------------------------------------------
(* outputData() in thread r: take the longest prefix that is not after     *)
(* until, write it, remember the time of its last buffer.                  *)

\* Mutant: the buffers taken are not popped off the sorted queue.
TakeWithoutPop(r, until) ==
  /\ \E k \in 0 .. Len(sortedQueue) :
       /\ \A i \in 1 .. k : sortedQueue[i].s_time <= until
       /\ k < Len(sortedQueue) => sortedQueue[k + 1].s_time > until
       /\ outputBuffers' = SubSeq(sortedQueue, 1, k)
       /\ sortedQueue' = SubSeq(sortedQueue, IF k = 0 THEN 1 ELSE k, Len(sortedQueue))
  /\ iov' = 0
  /\ pc' = [pc EXCEPT ![r] = "write"]

Take(r, until) ==
  /\ \E k \in 0 .. Len(sortedQueue) :
       /\ \A i \in 1 .. k : sortedQueue[i].s_time <= until
       /\ k < Len(sortedQueue) => sortedQueue[k + 1].s_time > until
       /\ outputBuffers' = SubSeq(sortedQueue, 1, k)
       /\ sortedQueue' = SubSeq(sortedQueue, k + 1, Len(sortedQueue))
  /\ iov' = 0
  /\ pc' = [pc EXCEPT ![r] = "write"]

\* Mutant: a flush keeps the window.
FlushUntilWindow == Sub(Last(sortedQueue).s_time, Window)

\* outputUntil with flush, and without.
FlushUntil  == Last(sortedQueue).s_time

\* Mutant: the window is not subtracted.
WindowUntilNewest == FlushUntil

WindowUntil == Sub(FlushUntil, Window)

WriteNext(r) ==
  /\ pc[r] = "write"
  /\ iov < Len(outputBuffers)
  /\ written' = Append(written, outputBuffers[iov + 1])
  /\ iov' = iov + 1
  /\ UNCHANGED <<inputQueue, batch, sortedQueue, outputBuffers, lastEmitted,
                 shutdown, idle, pc, notifying, stops, process, arrived, refused,
                 late, deleted, backlog, timedOut>>

\* putV() throws: nothing catches it in the output thread, in the signal
\* handler or in the destructor, so the process ends.
WriteFails(r) ==
  /\ pc[r] = "write"
  /\ iov < Len(outputBuffers)
  /\ process' = "crashed"
  /\ UNCHANGED <<queues, lastEmitted, shutdown, idle, pc, notifying, stops, history>>

\* Mutant: the counter of written buffers is not reset for the next output.
FinishOutputKeepsCount(r) ==
  /\ pc[r] = "write"
  /\ iov = Len(outputBuffers)
  /\ lastEmitted' = Last(outputBuffers).s_time
  /\ outputBuffers' = <<>>
  /\ pc' = [pc EXCEPT ![r] = IF r = "poll" THEN "loop" ELSE "stopped"]
  /\ UNCHANGED <<iov, inputQueue, batch, sortedQueue, shutdown, idle, notifying,
                 stops, process, history>>

\* back() of an empty deque is undefined: any value may be read.
FinishOutput(r) ==
  /\ pc[r] = "write"
  /\ iov = Len(outputBuffers)
  /\ IF outputBuffers = <<>> THEN lastEmitted' \in Times
                             ELSE lastEmitted' = Last(outputBuffers).s_time
  /\ outputBuffers' = <<>>
  /\ iov' = 0
  /\ pc' = [pc EXCEPT ![r] = IF r = "poll" THEN "loop" ELSE "stopped"]
  /\ UNCHANGED <<inputQueue, batch, sortedQueue, shutdown, idle, notifying, stops,
                 process, history>>

-----------------------------------------------------------------------------
(* poll(), the output thread.                                              *)

LoopTop ==
  /\ pc["poll"] = "loop"
  /\ pc' = [pc EXCEPT !["poll"] = IF shutdown THEN "done" ELSE "drain"]
  /\ UNCHANGED <<queues, lastEmitted, shutdown, idle, notifying, stops, process,
                 history>>

\* Mutant: the span of the queue is not compared with the window.
WindowReadyAlways == Len(sortedQueue) >= 2

\* Mutant: the window is checked with three buffers or more.
WindowReadyOfThree ==
  /\ Len(sortedQueue) >= 3
  /\ LET newest == Last(sortedQueue).s_time
         front  == Head(sortedQueue).s_time
     IN  Sub(newest, front) >= Window /\ front < Sub(newest, Window)

\* emitFromWindow()
WindowReady ==
  /\ Len(sortedQueue) >= 2
  /\ LET newest == Last(sortedQueue).s_time
         front  == Head(sortedQueue).s_time
     IN  Sub(newest, front) >= Window /\ front < Sub(newest, Window)

\* Mutant: the timeout flushes only what the window could flush as well.
TimeoutFlushOfTwo == idle > TimeoutMs /\ Len(sortedQueue) >= 2

TimeoutFlush == idle > TimeoutMs /\ sortedQueue # <<>>

OutputWindow ==
  /\ pc["poll"] = "check"
  /\ WindowReady
  /\ Take("poll", WindowUntil)
  /\ UNCHANGED <<inputQueue, batch, lastEmitted, shutdown, idle, notifying, stops,
                 process, history>>

OutputOnTimeout ==
  /\ pc["poll"] = "check"
  /\ ~WindowReady
  /\ TimeoutFlush
  /\ Take("poll", FlushUntil)
  /\ timedOut' = TRUE
  /\ UNCHANGED <<inputQueue, batch, lastEmitted, shutdown, idle, notifying, stops,
                 process, arrived, refused, written, late, deleted, backlog>>

WaitForInput ==
  /\ pc["poll"] = "check"
  /\ ~WindowReady
  /\ ~TimeoutFlush
  /\ pc' = [pc EXCEPT !["poll"] = "wait"]
  /\ UNCHANGED <<queues, lastEmitted, shutdown, idle, notifying, stops, process,
                 history>>

\* Mutant: wait_for() with the predicate "there is input".
WakeOnInput ==
  /\ pc["poll"] = "wait"
  /\ inputQueue # <<>>
  /\ pc' = Woken
  /\ UNCHANGED <<queues, lastEmitted, shutdown, idle, notifying, stops, process,
                 history>>

\* wait_for() returns after 100 ms, or spuriously.
WakeTimeout ==
  /\ pc["poll"] = "wait"
  /\ pc' = Woken
  /\ UNCHANGED <<queues, lastEmitted, shutdown, idle, notifying, stops, process,
                 history>>

Tick ==
  /\ idle <= TimeoutMs
  /\ pc["poll"] # "done"
  /\ idle' = idle + 1
  /\ UNCHANGED <<queues, lastEmitted, shutdown, pc, notifying, stops, process,
                 history>>

-----------------------------------------------------------------------------
(* stopThreads() and what follows: Receiver::shutdown() calls it from the  *)
(* signal handler, which then calls std::exit(), or from ~Receiver(),      *)
(* after which ~BufferedSink() calls it again and frees the queues.        *)

StopThreads ==
  /\ pc["stop"] = "idle" \/ (pc["stop"] = "stopped" /\ stops = 1)
  /\ notifying = {}
  /\ shutdown' = TRUE
  /\ pc' = [pc EXCEPT !["stop"] = "notify"]
  /\ UNCHANGED <<queues, lastEmitted, idle, notifying, stops, process, history>>

NotifyAll ==
  /\ pc["stop"] = "notify"
  /\ pc' = [Woken EXCEPT !["stop"] = "join"]
  /\ UNCHANGED <<queues, lastEmitted, shutdown, idle, notifying, stops, process,
                 history>>

\* Mutant: stopThreads() does not join the output thread.
JoinNothing ==
  /\ pc["stop"] = "join"
  /\ pc' = [pc EXCEPT !["stop"] = "drain"]
  /\ stops' = stops + 1
  /\ backlog' = IF stops = 0 THEN Len(inputQueue) ELSE backlog
  /\ UNCHANGED <<queues, lastEmitted, shutdown, idle, notifying, process, arrived,
                 refused, written, late, deleted, timedOut>>

Join ==
  /\ pc["stop"] = "join"
  /\ pc["poll"] = "done"
  /\ pc' = [pc EXCEPT !["stop"] = "drain"]
  /\ stops' = stops + 1
  /\ backlog' = IF stops = 0 THEN Len(inputQueue) ELSE backlog
  /\ UNCHANGED <<queues, lastEmitted, shutdown, idle, notifying, process, arrived,
                 refused, written, late, deleted, timedOut>>

Flush ==
  /\ pc["stop"] = "check"
  /\ IF sortedQueue = <<>>
       THEN /\ pc' = [pc EXCEPT !["stop"] = "stopped"]
            /\ UNCHANGED <<sortedQueue, outputBuffers, iov>>
       ELSE Take("stop", FlushUntil)
  /\ UNCHANGED <<inputQueue, batch, lastEmitted, shutdown, idle, notifying, stops,
                 process, history>>

\* ctrlCHandler(): no destructor of the receiver runs.
Exit ==
  /\ pc["stop"] = "stopped"
  /\ stops = 1
  /\ process' = "exited"
  /\ UNCHANGED <<queues, lastEmitted, shutdown, idle, pc, notifying, stops, history>>

\* The rest of ~BufferedSink().
DeleteQueues ==
  /\ pc["stop"] = "stopped"
  /\ stops = 2
  /\ deleted' = {b.id : b \in ToSet(inputQueue) \cup ToSet(sortedQueue)}
  /\ inputQueue' = <<>>
  /\ sortedQueue' = <<>>
  /\ pc' = [pc EXCEPT !["stop"] = "destroyed"]
  /\ UNCHANGED <<batch, outputBuffers, iov, lastEmitted, shutdown, idle, notifying,
                 stops, process, arrived, refused, written, late, backlog, timedOut>>

-----------------------------------------------------------------------------
Drain(r)  == Pop(r) \/ EndPop(r) \/ InsertBuffer(r) \/ EndSort(r)
Output(r) == WriteNext(r) \/ FinishOutput(r)
Poll      == LoopTop \/ Drain("poll") \/ OutputWindow \/ OutputOnTimeout
               \/ WaitForInput \/ WakeTimeout \/ Output("poll")
Stop      == NotifyAll \/ Join \/ Drain("stop") \/ Flush \/ Output("stop")

Step ==
  \/ \E p \in Producers : Push(p) \/ PushFails(p) \/ NotifyOne(p)
  \/ Poll
  \/ StopThreads \/ Stop \/ Exit \/ DeleteQueues
  \/ \E r \in Threads : WriteFails(r)
  \/ Tick

Ended == process # "running" \/ pc["stop"] = "destroyed"

Terminated == Ended /\ UNCHANGED vars

Next == (~Ended /\ Step) \/ Terminated

Spec == Init /\ [][Next]_vars

\* The two threads are scheduled and the consumer of the sink keeps reading.
PollRuns == process = "running" /\ Poll
StopRuns == process = "running" /\ Stop
TimeRuns == process = "running" /\ Tick

FairSpec == Spec /\ WF_vars(PollRuns) /\ WF_vars(StopRuns)

-----------------------------------------------------------------------------
(* Invariants.                                                             *)

TypeOK ==
  /\ inputQueue \in Seq(Buffer) /\ sortedQueue \in Seq(Buffer)
  /\ batch \in Seq(Buffer) /\ outputBuffers \in Seq(Buffer)
  /\ iov \in 0 .. Len(outputBuffers)
  /\ lastEmitted \in Times
  /\ shutdown \in BOOLEAN /\ timedOut \in BOOLEAN
  /\ idle \in 0 .. TimeoutMs + 1
  /\ pc \in [Threads -> PollLocs \cup StopLocs]
  /\ pc["poll"] \in PollLocs /\ pc["stop"] \in StopLocs
  /\ notifying \subseteq Producers
  /\ stops \in 0 .. 2
  /\ process \in {"running", "exited", "crashed"}
  /\ arrived \in Seq(Times) /\ written \in Seq(Buffer)
  /\ refused \in Nat /\ backlog \in Nat
  /\ late \subseteq Nat \ {0} /\ deleted \subseteq Nat \ {0}

\* One thread at a time works on the sorted queue, its own batch and its own
\* outputBuffers: the caller of stopThreads() drains after the output thread
\* has ended ("DO NOT call this function from another thread").
Consuming(r) == pc[r] \in {"drain", "sort", "check", "write"}
SingleConsumer == ~(Consuming("poll") /\ Consuming("stop"))

SortedByTime(q) == \A i, j \in 1 .. Len(q) : i < j => q[i].s_time <= q[j].s_time

\* insertBuffer() and the prefixes outputData() takes keep the queue in order.
SortedQueueOrdered == SortedByTime(sortedQueue)

\* outputData() never reaches putV() with nothing to write, whatever the window
\* and the times are: emitFromWindow() rules out the wrapped subtraction, and
\* back() of an empty deque is never read.
NoEmptyOutput == \A r \in Threads : pc[r] = "write" => outputBuffers # <<>>

\* Wherever the sink steps back in time, the buffer it steps back to was
\* reported late when it was inserted.
BackStepsReported ==
  \A i \in 1 .. Len(written) - 1 :
    written[i + 1].s_time < written[i].s_time => written[i + 1].id \in late

\* Buffers of one s_time (two data sources of one event) are written in the
\* order in which addData() queued them.
SameTimeInPushOrder ==
  \A i, j \in 1 .. Len(written) :
    i < j /\ written[i].s_time = written[j].s_time => written[i].id < written[j].id

\* When no buffer arrives more than a window behind an earlier one, and neither
\* the idle timeout nor a first stop has flushed the window, the sink is in order.
Skewed == \E i, j \in 1 .. Len(arrived) : i < j /\ arrived[j] + Window < arrived[i]
WindowAbsorbsSkew == ~Skewed /\ ~timedOut /\ stops < 2 => SortedByTime(written)

\* Every accepted buffer is in exactly one place, so each is written or freed
\* once: the queues, the batch, what is left of the output, the sink, or freed.
Held == inputQueue \o batch \o sortedQueue
          \o SubSeq(outputBuffers, iov + 1, Len(outputBuffers))
Placed == Held \o written
EachBufferOnce ==
  /\ {Placed[i].id : i \in 1 .. Len(Placed)} \cup deleted = 1 .. Len(arrived)
  /\ Len(Placed) + Cardinality(deleted) = Len(arrived)

\* What stopThreads() leaves behind: nothing but the buffers that were still in
\* the input queue at the join, less one batch per call.
StopLeavesOnlyBacklog ==
  pc["stop"] = "stopped" =>
    /\ sortedQueue = <<>> /\ batch = <<>> /\ outputBuffers = <<>>
    /\ Len(inputQueue) =
         IF backlog > stops * BatchSize THEN backlog - stops * BatchSize ELSE 0

-----------------------------------------------------------------------------
(* The inductive invariant behind the order of the sink.                   *)

\* The stopping thread consumes after the output thread has ended.
StopAfterPoll ==
  /\ pc["stop"] \in {"drain", "sort", "check", "write", "stopped", "destroyed"}
       => pc["poll"] = "done"
  /\ pc["stop"] = "idle" => stops = 0
  /\ pc["stop"] \in {"notify", "join"} => stops < 2

\* The data on a thread's stack are gone when no thread is in that function.
StackEmpty ==
  /\ (\A r \in Threads : pc[r] \notin {"drain", "sort"}) => batch = <<>>
  /\ (\A r \in Threads : pc[r] # "write") => outputBuffers = <<>> /\ iov = 0

\* What is being written is in order and not after what stays queued.
OutputBeforeQueue ==
  /\ SortedByTime(outputBuffers)
  /\ \A i \in 1 .. Len(outputBuffers), j \in 1 .. Len(sortedQueue) :
       outputBuffers[i].s_time <= sortedQueue[j].s_time

\* A buffer before lastEmitted has been reported late.
OnTime(b) == lastEmitted <= b.s_time \/ b.id \in late
OnTimeOrReported ==
  /\ \A i \in 1 .. Len(sortedQueue) : OnTime(sortedQueue[i])
  /\ \A i \in 1 .. Len(outputBuffers) : OnTime(outputBuffers[i])

\* lastEmitted is the time of the last buffer in the sink, or will be.
LastEmittedWritten ==
  /\ iov > 0 => written # <<>> /\ Last(written) = outputBuffers[iov]
  /\ iov = 0 /\ written # <<>> => Last(written).s_time = lastEmitted

TypeInv == TypeOK /\ StopAfterPoll

SinkInOrder ==
  /\ StackEmpty
  /\ SortedQueueOrdered
  /\ NoEmptyOutput
  /\ OutputBeforeQueue
  /\ OnTimeOrReported
  /\ LastEmittedWritten
  /\ BackStepsReported

OrderInv == TypeInv /\ SinkInOrder

-----------------------------------------------------------------------------
(* Liveness.                                                               *)

Written(n) == \E i \in 1 .. Len(written) : written[i].id = n
Stopping   == shutdown \/ process # "running"

\* Under FairSpec, and when the clock runs, every accepted buffer reaches the
\* sink unless the process is stopped first: by the window or, when data stop
\* coming, by the idle timeout.
EveryBufferWritten ==
  WF_vars(TimeRuns) =>
    \A n \in 1 .. MaxBuffers : (Len(arrived) >= n) ~> (Written(n) \/ Stopping)

\* Under FairSpec, no clock is needed for a buffer that a later arrival leaves
\* more than a window behind: a notification that comes while the output thread
\* is not yet asleep is lost and only delays it.
OvertakenBufferWritten ==
  \A m, n \in 1 .. MaxBuffers :
    (m < n /\ Len(arrived) >= n /\ arrived[n] > arrived[m] + Window)
      ~> (Written(m) \/ Stopping)

\* Under FairSpec, stopThreads() returns: the output thread sees the flag even
\* if it misses notify_all(), and the flush ends.
StopReturns == [](pc["stop"] = "notify" => <>(pc["stop"] = "stopped" \/ process # "running"))

-----------------------------------------------------------------------------
(* The contract of the sink.                                               *)

Contract == INSTANCE OrderedSink WITH discarded <- deleted,
                                      open <- pc["stop"] # "destroyed"

\* Each step of the two threads and of the producers is a step of the contract
\* or changes nothing in it: no buffer is written twice, with another time, or
\* out of the order of its equals, through crashes, both stops and the teardown.
ContractSpec == Contract!Spec

-----------------------------------------------------------------------------
(* Stated by the repository, and not what the code does.                   *)

\* "Flushing remaining event buffer data..." (BufferedSink.cpp:108): after
\* stopThreads() nothing is left in the queues.
StopFlushesAll == pc["stop"] = "stopped" => inputQueue = <<>> /\ sortedQueue = <<>>
=============================================================================
