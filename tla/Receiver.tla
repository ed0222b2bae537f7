------------------------------- MODULE Receiver -------------------------------
(***************************************************************************)
(* The receiving program, e2sarwf/Receiver: its main thread, the dequeue   *)
(* threads, the statistics thread, and shutdown(), which runs in the       *)
(* handler of SIGINT and SIGTERM and in the destructor.                    *)
(*                                                                         *)
(* The handlers run on the main thread, on top of what it was doing: a     *)
(* signal is blocked while its own handler runs, the other one is not.     *)
(* The sink is reduced to its two queues without their order, its lock and *)
(* its flush; BufferedSink has the rest.  The Reassembler is a library,    *)
(* modelled from how it is used.                                           *)
(***************************************************************************)
EXTENDS Naturals, Sequences, SequencesExt, FiniteSets

CONSTANTS
  DeqThreads, \* the threads to start: m_numDeqThreads of them
  BatchSize,  \* BATCH_SIZE of the sink
  NumSignals, \* bound: signals of different kinds, of SIGINT and SIGTERM
  MaxEvents   \* bound: events the Reassembler delivers

ASSUME ReceiverAssumption ==
  /\ IsFiniteSet(DeqThreads) /\ BatchSize \in Nat \ {0}
  /\ NumSignals \in 0 .. 2 /\ MaxEvents \in Nat

VARIABLES
  duration,       \* m_duration # 0
  pc,             \* where the main thread is
  frames,         \* the calls of shutdown() on top of it, innermost last
  threadsRunning, \* m_threadsRunning
  worker,         \* at the load balancer: "none", "registered", "left", or
                  \* "kept": deregisterWorker() has failed
  thread,         \* the dequeue threads
  recorded,       \* those in m_deqThreads
  interrupted,    \* those boost::thread::interrupt() was called on
  expired,        \* those that have run for m_duration
  holding,        \* the event each is about to hand to the sink, 0: none
  received,       \* number of events getEvent() has returned
  dropped,        \* those taken after the duration and not handed on
  refused,        \* those the sink's input queue had no room for
  inputQueue,     \* m_inputQueue of the sink, without its order
  sortedQueue,    \* m_sortedQueue of the sink, without its order
  sortMutex,      \* which frame holds the sink's m_sortMutex, 0: none
  stopped,        \* m_shutdown of the sink
  written,        \* events in the file or ring
  over            \* how the process ended: "no", by "exit" or "return", by a
                  \* "crash" of the main thread or an "abort" of the output thread

main      == <<duration, pc>>
shutdown  == <<frames, threadsRunning, worker>>
threads   == <<thread, recorded, interrupted, expired>>
data      == <<holding, received, dropped, refused>>
queues    == <<inputQueue, sortedQueue>>
sink      == <<queues, sortMutex, stopped, written>>
vars == <<main, shutdown, threads, data, sink, over>>

Init ==
  /\ duration \in BOOLEAN
  /\ pc = "construct"
  /\ frames = <<>>
  /\ threadsRunning = FALSE
  /\ worker = "none"
  /\ thread = [t \in DeqThreads |-> "none"]
  /\ recorded = {} /\ interrupted = {} /\ expired = {}
  /\ holding = [t \in DeqThreads |-> 0]
  /\ received = 0
  /\ dropped = {} /\ refused = {}
  /\ inputQueue = {} /\ sortedQueue = {} /\ written = {}
  /\ sortMutex = 0
  /\ stopped = FALSE
  /\ over = "no"

Alive == over = "no"
At(p) == Alive /\ pc = p /\ frames = <<>>

-----------------------------------------------------------------------------
(* The main thread.                                                        *)

\* The constructor has set the signal handlers; it makes the sink ("construct"),
\* then the Reassembler ("configure").
Construct ==
  /\ \/ At("construct") /\ pc' = "configure"
     \/ At("configure") /\ pc' = "run"
  /\ UNCHANGED <<duration, shutdown, threads, data, sink, over>>

\* The sink, the ini file, the URI or the Reassembler is refused: no ~Receiver().
ConstructFails ==
  /\ At("construct") \/ At("configure")
  /\ over' = "return"
  /\ UNCHANGED <<main, shutdown, threads, data, sink>>

\* statsThread() is a loop around a sleep that ends with m_threadsRunning; only
\* the join at the end of operator()() looks at it.
StatsEnded == ~threadsRunning

StartStats ==
  /\ At("run")
  /\ threadsRunning' = TRUE
  /\ pc' = "register"
  /\ UNCHANGED <<duration, frames, worker, threads, data, sink, over>>

\* prepareToReceive(): registerWorker(), a second later openAndStart().
Register ==
  /\ At("register")
  /\ worker' = "registered"
  /\ pc' = "open"
  /\ UNCHANGED <<duration, frames, threadsRunning, threads, data, sink, over>>

OpenAndStart ==
  /\ At("open")
  /\ pc' = "spawn"
  /\ UNCHANGED <<duration, shutdown, threads, data, sink, over>>

\* A call of shutdown(): what its flush has popped and not inserted, what it has
\* taken to write, and how many it has popped.
Call(by) == [by |-> by, at |-> "mark", batch |-> {}, taken |-> {}, popped |-> 0]

\* operator()() throws or returns: the receiver is destroyed.
Destroy ==
  /\ frames' = <<Call("destructor")>>
  /\ pc' = "destroy"

PrepareFails ==
  /\ At("register") \/ At("open")
  /\ Destroy
  /\ UNCHANGED <<duration, threadsRunning, worker, threads, data, sink, over>>

\* m_deqThreads.push_back(boost::thread(...)): the thread runs before it is in
\* the vector.
Spawn(t) ==
  /\ At("spawn")
  /\ thread[t] = "none"
  /\ thread' = [thread EXCEPT ![t] = "running"]
  /\ pc' = "record"
  /\ UNCHANGED <<duration, shutdown, recorded, interrupted, expired, data, sink,
                 over>>

Created == {t \in DeqThreads : thread[t] # "none"}

\* Mutant: the vector is made for all threads at once.
RecordAll ==
  /\ At("record")
  /\ recorded' = DeqThreads
  /\ pc' = "spawn"
  /\ UNCHANGED <<duration, shutdown, thread, interrupted, expired, data, sink,
                 over>>

Record ==
  /\ At("record")
  /\ recorded' = Created
  /\ pc' = "spawn"
  /\ UNCHANGED <<duration, shutdown, thread, interrupted, expired, data, sink,
                 over>>

Started ==
  /\ At("spawn")
  /\ Created = DeqThreads
  /\ pc' = "join"
  /\ UNCHANGED <<duration, shutdown, threads, data, sink, over>>

\* operator()() joins the dequeue threads, then the statistics thread.
AllEnded == \A t \in recorded : thread[t] = "ended"

Join ==
  /\ At("join") \/ At("joinStats")
  /\ IF pc = "join" THEN AllEnded ELSE StatsEnded
  /\ IF pc = "join" THEN pc' = "joinStats" /\ UNCHANGED frames ELSE Destroy
  /\ UNCHANGED <<duration, threadsRunning, worker, threads, data, sink, over>>

Main ==
  \/ Construct \/ StartStats \/ Register \/ OpenAndStart
  \/ \E t \in DeqThreads : Spawn(t)
  \/ Record \/ Started \/ Join

-----------------------------------------------------------------------------
(* shutdown(), in a handler or in the destructor.                          *)

\* ctrlCHandler(): a signal whose handler is not running comes.
SignalFrames == {i \in 1 .. Len(frames) : frames[i].by = "signal"}

Signal ==
  /\ Alive
  /\ Cardinality(SignalFrames) < NumSignals
  /\ frames' = Append(frames, Call("signal"))
  /\ UNCHANGED <<main, threadsRunning, worker, threads, data, sink, over>>

Depth == Len(frames)
Top   == frames[Depth]
In(p) == Alive /\ frames # <<>> /\ Top.at = p
Become(call) == frames' = [frames EXCEPT ![Depth] = call]
Goto(p) == Become([Top EXCEPT !.at = p])

\* m_threadsRunning = false, and a second of sleep.
MarkStopped ==
  /\ In("mark")
  /\ threadsRunning' = FALSE
  /\ Goto("deregister")
  /\ UNCHANGED <<main, worker, threads, data, sink, over>>

\* Mutant: the worker is taken for registered once the threads are there.
DeregisterRunning ==
  /\ In("deregister")
  /\ IF worker \in {"registered", "kept"} /\ recorded # {}
       THEN worker' \in {"left", "kept"}
       ELSE UNCHANGED worker
  /\ Goto("interrupt")
  /\ UNCHANGED <<main, threadsRunning, threads, data, sink, over>>

\* deregisterWorker() may fail, and shutdown() goes on; a call under a signal
\* tries again.  Nothing to do as long as there is no m_pReassembler.
Deregister ==
  /\ In("deregister")
  /\ IF worker \in {"registered", "kept"} THEN worker' \in {"left", "kept"}
                                          ELSE UNCHANGED worker
  /\ Goto("interrupt")
  /\ UNCHANGED <<main, threadsRunning, threads, data, sink, over>>

\* Mutant: the threads are joined without being interrupted.
InterruptNone ==
  /\ In("interrupt")
  /\ Goto("join")
  /\ UNCHANGED <<main, threadsRunning, worker, threads, data, sink, over>>

Interrupt ==
  /\ In("interrupt")
  /\ interrupted' = interrupted \cup recorded
  /\ Goto("join")
  /\ UNCHANGED <<main, threadsRunning, worker, thread, recorded, expired, data,
                 sink, over>>

\* Mutant: the dequeue threads are not joined.
JoinNone ==
  /\ In("join")
  /\ Goto("stop")
  /\ UNCHANGED <<main, threadsRunning, worker, threads, data, sink, over>>

JoinThreads ==
  /\ In("join")
  /\ AllEnded
  /\ Goto("stop")
  /\ UNCHANGED <<main, threadsRunning, worker, threads, data, sink, over>>

\* m_pSink->stopThreads(): the output thread ends.  m_pSink is null as long as
\* the constructor has not made the sink.
StopSink ==
  /\ In("stop")
  /\ IF pc = "construct"
       THEN over' = "crash" /\ UNCHANGED <<stopped, frames>>
       ELSE stopped' = TRUE /\ Goto("pop") /\ UNCHANGED over
  /\ UNCHANGED <<main, threadsRunning, worker, threads, data, queues, sortMutex,
                 written>>

\* drainAndSort() of the flush: a batch at most leaves the input queue.
PopBatch ==
  /\ In("pop")
  /\ IF Top.popped < BatchSize /\ inputQueue # {}
       THEN \E e \in inputQueue :
              /\ inputQueue' = inputQueue \ {e}
              /\ Become([Top EXCEPT !.batch = @ \cup {e}, !.popped = @ + 1])
       ELSE /\ Goto(IF Top.batch = {} THEN "lockTake" ELSE "lockInsert")
            /\ UNCHANGED inputQueue
  /\ UNCHANGED <<main, threadsRunning, worker, threads, data, sortedQueue,
                 sortMutex, stopped, written, over>>

LockSort ==
  /\ In("lockInsert") \/ In("lockTake")
  /\ sortMutex = 0
  /\ sortMutex' = Depth
  /\ Goto(IF Top.at = "lockInsert" THEN "insert" ELSE "take")
  /\ UNCHANGED <<main, threadsRunning, worker, threads, data, queues, stopped,
                 written, over>>

InsertBatch ==
  /\ In("insert")
  /\ sortedQueue' = sortedQueue \cup Top.batch
  /\ sortMutex' = 0
  /\ Become([Top EXCEPT !.at = "lockTake", !.batch = {}])
  /\ UNCHANGED <<main, threadsRunning, worker, threads, data, inputQueue, stopped,
                 written, over>>

\* Mutant: the flush keeps what is within the window, as outputData(false) does.
TakeOutsideWindow ==
  /\ In("take")
  /\ \E events \in SUBSET sortedQueue :
       /\ sortedQueue' = sortedQueue \ events
       /\ Become([Top EXCEPT !.at = IF events = {} THEN "exit" ELSE "write",
                             !.taken = events])
  /\ sortMutex' = 0
  /\ UNCHANGED <<main, threadsRunning, worker, threads, data, inputQueue, stopped,
                 written, over>>

\* outputData(true) takes all of the sorted queue, and returns when there is nothing.
Take ==
  /\ In("take")
  /\ sortedQueue' = {}
  /\ sortMutex' = 0
  /\ Become([Top EXCEPT !.at = IF sortedQueue = {} THEN "exit" ELSE "write",
                        !.taken = sortedQueue])
  /\ UNCHANGED <<main, threadsRunning, worker, threads, data, inputQueue, stopped,
                 written, over>>

Write ==
  /\ In("write")
  /\ IF Top.taken = {}
       THEN Goto("exit") /\ UNCHANGED written
       ELSE \E e \in Top.taken :
              /\ written' = written \cup {e}
              /\ Become([Top EXCEPT !.taken = @ \ {e}])
  /\ UNCHANGED <<main, threadsRunning, worker, threads, data, queues, sortMutex,
                 stopped, over>>

\* putV() throws: nothing catches it in a handler or in a destructor.
WriteFails ==
  /\ In("write") /\ Top.taken # {}
  /\ over' = "crash"
  /\ UNCHANGED <<main, shutdown, threads, data, sink>>

\* After ~Receiver() its sink is destroyed: ~BufferedSink() stops it once more.
DestroySink ==
  /\ In("exit") /\ Top.by = "destructor"
  /\ Become([Top EXCEPT !.by = "sink", !.at = "stop", !.popped = 0])
  /\ UNCHANGED <<main, threadsRunning, worker, threads, data, sink, over>>

\* std::exit() in a handler, whatever it interrupted; main() returns when the
\* receiver is gone.
Exit ==
  /\ In("exit") /\ Top.by # "destructor"
  /\ over' = IF Top.by = "signal" THEN "exit" ELSE "return"
  /\ UNCHANGED <<main, shutdown, threads, data, sink>>

Shutdown ==
  \/ MarkStopped \/ Deregister \/ Interrupt \/ JoinThreads
  \/ StopSink \/ PopBatch \/ LockSort \/ InsertBatch \/ Take \/ Write
  \/ DestroySink \/ Exit

-----------------------------------------------------------------------------
(* receiveEvents() and the output thread of the sink.                      *)

\* m_duration has passed; a thread that is interrupted sees that before.
Elapse(t) ==
  /\ Alive /\ duration
  /\ thread[t] = "running" /\ t \notin expired \cup interrupted
  /\ expired' = expired \cup {t}
  /\ UNCHANGED <<main, shutdown, thread, recorded, interrupted, data, sink, over>>

AtLoop(t) == Alive /\ thread[t] = "running" /\ holding[t] = 0
EndThread(t) == thread' = [thread EXCEPT ![t] = "ended"]

\* interruption_point()
SeeInterrupt(t) ==
  /\ AtLoop(t)
  /\ t \in interrupted
  /\ EndThread(t)
  /\ UNCHANGED <<main, shutdown, recorded, interrupted, expired, data, sink, over>>

\* getEvent() returns an event; when the duration has elapsed it goes nowhere.
GetEvent(t) ==
  /\ AtLoop(t)
  /\ t \notin interrupted
  /\ received < MaxEvents
  /\ received' = received + 1
  /\ IF t \in expired
       THEN dropped' = dropped \cup {received'} /\ EndThread(t) /\ UNCHANGED holding
       ELSE holding' = [holding EXCEPT ![t] = received'] /\ UNCHANGED <<thread, dropped>>
  /\ UNCHANGED <<main, shutdown, recorded, interrupted, expired, refused, sink,
                 over>>

\* getEvent() fails, or has no event when the duration has elapsed.
Leave(t) ==
  /\ AtLoop(t)
  /\ t \notin interrupted
  /\ EndThread(t)
  /\ UNCHANGED <<main, shutdown, recorded, interrupted, expired, data, sink, over>>

\* A full input queue refuses the event, which is then freed with a warning.
AddData(t) ==
  /\ Alive /\ holding[t] # 0
  /\ \/ inputQueue' = inputQueue \cup {holding[t]} /\ UNCHANGED refused
     \/ refused' = refused \cup {holding[t]} /\ UNCHANGED inputQueue
  /\ holding' = [holding EXCEPT ![t] = 0]
  /\ UNCHANGED <<main, shutdown, threads, received, dropped, sortedQueue, sortMutex,
                 stopped, written, over>>

\* Mutant: the duration is looked at only when an event has come.
DequeueIdle(t) == SeeInterrupt(t) \/ GetEvent(t) \/ AddData(t)

Dequeue(t) == SeeInterrupt(t) \/ GetEvent(t) \/ AddData(t) \/ (t \in expired /\ Leave(t))

\* The output thread of the sink sorts a batch,
Sort ==
  /\ Alive /\ ~stopped
  /\ \E batch \in SUBSET inputQueue :
       /\ Cardinality(batch) \in 1 .. BatchSize
       /\ inputQueue' = inputQueue \ batch
       /\ sortedQueue' = sortedQueue \cup batch
  /\ UNCHANGED <<main, shutdown, threads, data, sortMutex, stopped, written, over>>

\* writes an event,
Output ==
  /\ Alive /\ ~stopped
  /\ \E e \in sortedQueue :
       /\ sortedQueue' = sortedQueue \ {e}
       /\ written' = written \cup {e}
  /\ UNCHANGED <<main, shutdown, threads, data, inputQueue, sortMutex, stopped,
                 over>>

\* or ends the process by an exception that nothing in it catches.
OutputFails ==
  /\ Alive /\ ~stopped
  /\ sortedQueue # {}
  /\ over' = "abort"
  /\ UNCHANGED <<main, shutdown, threads, data, sink>>

-----------------------------------------------------------------------------
\* The handler waits for m_sortMutex, which the shutdown() it interrupted holds.
Hung == (In("lockInsert") \/ In("lockTake")) /\ sortMutex # 0

Terminated == (~Alive \/ Hung) /\ UNCHANGED vars

Next ==
  \/ Main \/ ConstructFails \/ PrepareFails
  \/ Signal
  \/ Shutdown \/ WriteFails
  \/ \E t \in DeqThreads : Elapse(t) \/ Dequeue(t) \/ Leave(t)
  \/ Sort \/ Output \/ OutputFails
  \/ Terminated

Spec == Init /\ [][Next]_vars

\* Every thread is scheduled, and time passes.
FairSpec ==
  /\ Spec
  /\ WF_vars(Main \/ Shutdown)
  /\ \A t \in DeqThreads : WF_vars(Dequeue(t)) /\ WF_vars(Elapse(t))

-----------------------------------------------------------------------------
Handling == {"mark", "deregister", "interrupt", "join", "stop", "pop", "lockInsert",
             "insert", "lockTake", "take", "write", "exit"}

TypeOK ==
  /\ duration \in BOOLEAN /\ threadsRunning \in BOOLEAN /\ stopped \in BOOLEAN
  /\ pc \in {"construct", "configure", "run", "register", "open", "spawn", "record",
             "join", "joinStats", "destroy"}
  /\ frames \in Seq([by : {"signal", "destructor", "sink"}, at : Handling,
                     batch : SUBSET (1 .. MaxEvents), taken : SUBSET (1 .. MaxEvents),
                     popped : 0 .. BatchSize])
  /\ worker \in {"none", "registered", "left", "kept"}
  /\ thread \in [DeqThreads -> {"none", "running", "ended"}]
  /\ recorded \subseteq Created /\ interrupted \subseteq recorded
  /\ expired \subseteq Created
  /\ holding \in [DeqThreads -> 0 .. MaxEvents]
  /\ received \in 0 .. MaxEvents
  /\ dropped \subseteq 1 .. received /\ refused \subseteq 1 .. received
  /\ inputQueue \subseteq 1 .. received /\ sortedQueue \subseteq 1 .. received
  /\ written \subseteq 1 .. received
  /\ sortMutex \in 0 .. Len(frames)
  /\ over \in {"no", "exit", "return", "crash", "abort"}

\* A thread that a signal caught between its start and its place in the vector.
Orphans == Created \ recorded

\* The sink is stopped after the last addData(), which BufferedSink relies on.
\* At most one thread may be forgotten: the one that was being recorded.
ProducersEndFirst ==
  /\ stopped => AllEnded
  /\ Cardinality(Orphans) <= 1

\* What is lost of the events that came when shutdown() has run to its end, but
\* for those of a thread that was forgotten: those taken after the duration, one
\* for each thread; those a full queue refused; what a call was handling when a
\* signal came on top of it; and, only when the last flush took a whole batch,
\* the rest of the input queue.  An exception of a write ends the process with
\* all that is in the queues.
InFlight == UNION {frames[i].batch \cup frames[i].taken : i \in 1 .. Len(frames)}
LossesKnown ==
  /\ over \in {"exit", "return"} /\ Orphans = {} =>
       /\ 1 .. received = written \cup dropped \cup refused \cup InFlight \cup inputQueue
       /\ InFlight # {} => Depth > 1
       /\ inputQueue # {} => Top.popped = BatchSize
  /\ Cardinality(dropped) <= Cardinality(expired)

\* The load balancer is asked to remove a registered receiver whenever it ends,
\* but for an exception in the output thread.
WorkerAskedToLeave == over \notin {"no", "abort"} => worker # "registered"

-----------------------------------------------------------------------------
\* A signal ends the program, whatever it interrupts, but for another call of
\* shutdown() that holds the sink's lock.
SignalEnds == frames # <<>> ~> ~Alive \/ (Hung /\ Depth > 1)

\* Every dequeue thread ends when the duration has elapsed, without a signal.
DurationEndsThreads ==
  \A t \in DeqThreads :
    (duration /\ thread[t] = "running") ~> (thread[t] = "ended" \/ ~Alive)

-----------------------------------------------------------------------------
(* Stated by the repository, and not what the code does.                   *)

\* "receiver run duration in seconds (defaults to 0 - until Ctrl-C is pressed)"
\* (e2sarwf.cpp:125-128): with a duration the run ends without Ctrl-C.  The main
\* thread waits for the statistics thread, which only shutdown() ends.
DurationEndsRun == (duration /\ pc = "join") ~> (~Alive \/ frames # <<>>)
=============================================================================
