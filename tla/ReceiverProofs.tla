---------------------------- MODULE ReceiverProofs ----------------------------
(***************************************************************************)
(* Theorems about Receiver for every set of dequeue threads, every number  *)
(* of events and up to two signals of different kinds.                     *)
(***************************************************************************)
EXTENDS Receiver, SequenceTheorems, FiniteSetTheorems, TLAPS

-----------------------------------------------------------------------------
(* The inductive invariant.                                                *)

Events == 1 .. received

\* Only a thread that runs has an event in its hands, one that getEvent() returned.
EventsReceived ==
  /\ \A t \in DeqThreads :
       /\ holding[t] \in 0 .. received
       /\ holding[t] # 0 => thread[t] = "running"
  /\ Created = {} => received = 0

\* The main thread records each thread before it starts the next.
RecordedInTurn ==
  /\ pc \in {"construct", "configure", "run", "register", "open"} => Created = {}
  /\ pc # "record" => Orphans = {}
  /\ pc = "record" => \E t \in DeqThreads : Orphans = {t}

BeforeRegister == {"construct", "configure", "run", "register"}
AfterTake == {"write", "exit"}
AfterPop == {"lockInsert", "insert", "lockTake", "take"} \cup AfterTake
AfterStop == {"pop"} \cup AfterPop
AfterJoin == {"stop"} \cup AfterStop
AfterDeregister == {"interrupt", "join"} \cup AfterJoin

\* What a call of shutdown() has done stays done, whatever calls it lies under.
CallInOrder(c) ==
  /\ c.at \in AfterDeregister => worker # "registered"
  /\ c.at \in AfterJoin => AllEnded
  /\ c.at \in AfterStop => stopped
  /\ c.batch # {} => c.at \in {"pop", "lockInsert", "insert"}
  /\ c.taken # {} => c.at = "write"
  /\ c.batch \subseteq Events /\ c.taken \subseteq Events

ShutdownInOrder ==
  /\ pc \in BeforeRegister => worker = "none"
  /\ over \notin {"no", "abort"} => worker # "registered"
  /\ stopped => frames # <<>> /\ AllEnded
  /\ \A i \in 1 .. Len(frames) : CallInOrder(frames[i])

\* The innermost call, which alone goes on, leaves nothing in the sorted queue, and
\* in the input queue only what is beyond a batch.
FlushInOrder ==
  frames # <<>> =>
    /\ Top.at \in AfterTake => sortedQueue = {}
    /\ Top.at \in AfterPop /\ Orphans = {} => inputQueue = {} \/ Top.popped = BatchSize

\* Every event is in the file, dropped, refused, in a queue of the sink, in the
\* hands of a dequeue thread or of a call of shutdown().
Somewhere(e) ==
  \/ e \in written \cup dropped \cup refused \cup inputQueue \cup sortedQueue
  \/ \E i \in 1 .. Len(frames) : e \in frames[i].batch \cup frames[i].taken
  \/ \E t \in DeqThreads : holding[t] = e
Accounted == \A e \in Events : Somewhere(e)

\* A thread drops one event at most, the one it ends with.
EndedLate == {t \in expired : thread[t] = "ended"}
OneDropEach == Cardinality(dropped) <= Cardinality(EndedLate)

\* What an ending has lost.
EndsWhole ==
  over \in {"exit", "return"} /\ Orphans = {} =>
    /\ 1 .. received = written \cup dropped \cup refused \cup InFlight \cup inputQueue
    /\ InFlight # {} => Depth > 1
    /\ inputQueue # {} => Top.popped = BatchSize

ReceiverInv ==
  /\ TypeOK
  /\ EventsReceived
  /\ RecordedInTurn
  /\ ShutdownInOrder
  /\ FlushInOrder
  /\ Accounted
  /\ OneDropEach
  /\ EndsWhole

-----------------------------------------------------------------------------
(* Calls of shutdown().                                                    *)

Frame == [by : {"signal", "destructor", "sink"}, at : Handling,
          batch : SUBSET (1 .. MaxEvents), taken : SUBSET (1 .. MaxEvents),
          popped : 0 .. BatchSize]

\* A call that begins.
LEMMA CallBegins ==
  ASSUME NEW by \in {"signal", "destructor", "sink"}
  PROVE  /\ Call(by) \in Frame /\ Call(by).at = "mark"
         /\ Call(by).batch = {} /\ Call(by).taken = {}
<1>1. 0 \in 0 .. BatchSize
  BY ReceiverAssumption
<1>2. QED
  BY <1>1 DEF Call, Frame, Handling

\* The innermost call changes, those below it do not.
LEMMA BecomeStep ==
  ASSUME TypeOK, frames # <<>>, NEW f \in Frame, Become(f)
  PROVE  /\ frames' \in Seq(Frame) /\ Len(frames') = Len(frames) /\ frames' # <<>>
         /\ Depth \in 1 .. Len(frames) /\ Depth' = Depth /\ Top' = f
         /\ \A i \in 1 .. Len(frames) : frames'[i] = IF i = Depth THEN f ELSE frames[i]
<1>1. frames \in Seq(Frame)
  BY DEF TypeOK, Frame
<1>2. Depth \in 1 .. Len(frames) /\ Depth = Len(frames)
  BY <1>1, EmptySeq DEF Depth
<1>3. frames' = [frames EXCEPT ![Depth] = f]
  BY DEF Become
<1>4. /\ frames' \in Seq(Frame) /\ Len(frames') = Len(frames)
      /\ \A i \in 1 .. Len(frames) : frames'[i] = IF i = Depth THEN f ELSE frames[i]
  BY <1>1, <1>2, <1>3, ExceptSeq
<1>5. QED
  BY <1>1, <1>2, <1>4, EmptySeq DEF Depth, Top

LEMMA TopIsCall ==
  ASSUME TypeOK, frames # <<>>
  PROVE  /\ frames \in Seq(Frame) /\ Len(frames) \in Nat \ {0}
         /\ Depth \in 1 .. Len(frames) /\ Depth = Len(frames) /\ Top \in Frame
<1>1. frames \in Seq(Frame)
  BY DEF TypeOK, Frame
<1>2. QED
  BY <1>1, EmptySeq DEF Depth, Top

-----------------------------------------------------------------------------
(* Invariance.                                                             *)

LEMMA ReceiverInit == Init => ReceiverInv
<1> SUFFICES ASSUME Init PROVE ReceiverInv
  OBVIOUS
<1>1. frames \in Seq(Frame) /\ Len(frames) = 0 /\ frames = <<>>
  BY EmptySeq DEF Init
<1>2. duration \in BOOLEAN /\ threadsRunning \in BOOLEAN /\ stopped \in BOOLEAN
  BY Zenon DEF Init
<1>3. Created = {} /\ Orphans = {}
  BY DEF Init, Created, Orphans
<1>4. TypeOK
  BY <1>1, <1>2, <1>3, ReceiverAssumption DEF Init, TypeOK, Frame
<1>5. Cardinality(dropped) = 0 /\ Cardinality(EndedLate) = 0
  BY FS_EmptySet DEF Init, EndedLate
<1>6. EventsReceived /\ RecordedInTurn /\ ShutdownInOrder /\ FlushInOrder
  BY <1>1, <1>3 DEF Init, EventsReceived, RecordedInTurn, ShutdownInOrder, FlushInOrder
<1>7. Accounted /\ OneDropEach /\ EndsWhole
  BY <1>5 DEF Init, Accounted, Events, OneDropEach, EndsWhole
<1>8. QED
  BY <1>4, <1>6, <1>7 DEF ReceiverInv

\* Steps of the main thread: no call of shutdown() is in progress, and nothing
\* moves but that thread, its list and its worker.
LEMMA MainNext ==
  ASSUME ReceiverInv, Main \/ ConstructFails \/ PrepareFails PROVE ReceiverInv'
<1> USE DEF ReceiverInv, main, shutdown, threads, data, sink, queues
<1>0. frames = <<>> /\ Len(frames) = 0 /\ over = "no"
  BY EmptySeq DEF Main, ConstructFails, PrepareFails, Construct, StartStats, Register,
     OpenAndStart, Spawn, Record, Started, Join, At, Alive
<1>1. UNCHANGED <<duration, interrupted, expired, holding, received, dropped, refused,
                  inputQueue, sortedQueue, sortMutex, stopped, written>>
  BY DEF Main, ConstructFails, PrepareFails, Construct, StartStats, Register,
     OpenAndStart, Spawn, Record, Started, Join
<1>2. stopped = FALSE /\ sortMutex = 0
  BY <1>0 DEF ShutdownInOrder, TypeOK
<1>d. ASSUME Destroy
      PROVE  /\ frames' \in Seq(Frame) /\ Len(frames') = 1 /\ pc' = "destroy"
             /\ frames'[1].at = "mark"
             /\ frames'[1].batch = {} /\ frames'[1].taken = {}
  <2>1. Call("destructor") \in Frame /\ frames' = <<Call("destructor")>>
    BY <1>d, CallBegins DEF Destroy
  <2>2. QED
    BY <1>d, <2>1, CallBegins DEF Destroy
<1>3. CASE Construct \/ StartStats \/ Register \/ OpenAndStart
  <2>1. /\ UNCHANGED <<frames, thread, recorded, over>>
        /\ pc \in {"construct", "configure", "run", "register", "open"}
        /\ pc' \in {"configure", "run", "register", "open", "spawn"}
        /\ pc' \in BeforeRegister => worker' = worker /\ pc \in BeforeRegister
        /\ worker' \in {worker, "registered"}
    BY <1>3 DEF Construct, StartStats, Register, OpenAndStart, At, BeforeRegister
  <2>b. threadsRunning' \in BOOLEAN
    BY <1>3 DEF Construct, StartStats, Register, OpenAndStart, TypeOK
  <2>2. Created' = Created /\ Orphans' = Orphans /\ EndedLate' = EndedLate
    BY <1>1, <2>1 DEF Created, Orphans, EndedLate
  <2>3. TypeOK'
    BY <1>1, <2>1, <2>b, <2>2 DEF TypeOK
  <2>4. RecordedInTurn' /\ ShutdownInOrder' /\ FlushInOrder'
    BY <1>0, <1>1, <1>2, <2>1, <2>2 DEF RecordedInTurn, ShutdownInOrder, FlushInOrder
  <2>5. EventsReceived' /\ Accounted' /\ OneDropEach' /\ EndsWhole'
    BY <1>0, <1>1, <2>1, <2>2
    DEF EventsReceived, Accounted, Somewhere, Events, OneDropEach, EndsWhole
  <2>6. QED
    BY <2>3, <2>4, <2>5
<1>4. CASE Started \/ Join \/ PrepareFails
  <2>1. /\ UNCHANGED <<thread, recorded, over, worker, threadsRunning>>
        /\ pc \in {"register", "open", "spawn", "join", "joinStats"}
        /\ pc' \in {"join", "joinStats", "destroy"}
        /\ frames' = frames \/ Destroy
    BY <1>4 DEF Started, Join, PrepareFails, At, Destroy
  <2>2. Created' = Created /\ Orphans' = Orphans /\ EndedLate' = EndedLate
    BY <1>1, <2>1 DEF Created, Orphans, EndedLate
  <2>3. /\ frames' \in Seq(Frame) /\ sortMutex' \in 0 .. Len(frames')
        /\ \A i \in 1 .. Len(frames') :
             frames'[i].at = "mark" /\ frames'[i].batch = {} /\ frames'[i].taken = {}
    <3>1. frames \in Seq(Frame) /\ sortMutex' = 0
      BY <1>1, <1>2 DEF TypeOK, Frame
    <3>2. CASE frames' = frames
      BY <1>0, <3>1, <3>2
    <3>3. CASE Destroy
      <4>1. Len(frames') = 1 /\ 1 .. 1 = {1} /\ 0 \in 0 .. 1
        BY <1>d, <3>3
      <4>2. QED
        BY <1>d, <3>1, <3>3, <4>1
    <3>4. QED
      BY <2>1, <3>2, <3>3
  <2>4. TypeOK'
    BY <1>1, <2>1, <2>2, <2>3 DEF TypeOK, Frame
  <2>f. FlushInOrder'
    <3>1. CASE frames' = frames
      BY <1>0, <3>1 DEF FlushInOrder
    <3>2. CASE Destroy
      <4>1. Top' = frames'[1] /\ Top'.at = "mark"
        BY <1>d, <3>2 DEF Top, Depth
      <4>2. QED
        BY <4>1 DEF FlushInOrder, AfterPop, AfterTake
    <3>3. QED
      BY <2>1, <3>1, <3>2
  <2>5. RecordedInTurn' /\ ShutdownInOrder'
    BY <1>0, <1>1, <1>2, <2>1, <2>2, <2>3
    DEF RecordedInTurn, ShutdownInOrder, BeforeRegister, CallInOrder, AfterDeregister,
        AfterJoin, AfterStop, AfterPop, AfterTake
  <2>6. EventsReceived' /\ Accounted' /\ OneDropEach' /\ EndsWhole'
    BY <1>0, <1>1, <2>1, <2>2, <2>3
    DEF EventsReceived, Accounted, Somewhere, Events, OneDropEach, EndsWhole
  <2>7. QED
    BY <2>4, <2>f, <2>5, <2>6
<1>5. CASE ConstructFails
  <2>1. /\ UNCHANGED <<pc, frames, thread, recorded, worker, threadsRunning>>
        /\ pc \in {"construct", "configure"} /\ over' = "return"
    BY <1>5 DEF ConstructFails, At
  <2>2. /\ Created = {} /\ Created' = Created /\ Orphans' = Orphans
        /\ EndedLate' = EndedLate
    BY <1>1, <2>1 DEF Created, Orphans, EndedLate, RecordedInTurn
  <2>3. TypeOK'
    BY <1>1, <2>1, <2>2 DEF TypeOK
  <2>4. RecordedInTurn' /\ ShutdownInOrder' /\ FlushInOrder'
    BY <1>0, <1>1, <1>2, <2>1, <2>2 DEF RecordedInTurn, ShutdownInOrder, FlushInOrder, BeforeRegister
  <2>5. EventsReceived' /\ Accounted' /\ OneDropEach'
    BY <1>0, <1>1, <2>1, <2>2
    DEF EventsReceived, Accounted, Somewhere, Events, OneDropEach
  <2>6. EndsWhole'
    <3>1. /\ received' = 0 /\ written' = {} /\ dropped' = {}
          /\ refused' = {} /\ inputQueue' = {}
      BY <1>1, <2>2, <2>3 DEF EventsReceived, TypeOK
    <3>2. InFlight' = {}
      BY <1>0, <2>1 DEF InFlight
    <3>3. QED
      BY <3>1, <3>2 DEF EndsWhole
  <2>7. QED
    BY <2>3, <2>4, <2>5, <2>6
<1>6. ASSUME NEW t \in DeqThreads, Spawn(t) PROVE ReceiverInv'
  <2>1. /\ UNCHANGED <<frames, recorded, worker, threadsRunning, over>>
        /\ pc = "spawn" /\ pc' = "record" /\ thread[t] = "none"
        /\ thread' = [thread EXCEPT ![t] = "running"]
    BY <1>6 DEF Spawn, At
  <2>2. thread' \in [DeqThreads -> {"none", "running", "ended"}]
    BY <2>1 DEF TypeOK
  <2>3. Created' = Created \cup {t} /\ t \notin Created
    BY <2>1 DEF Created, TypeOK
  <2>4. Orphans' = {t}
    BY <2>1, <2>3 DEF Orphans, RecordedInTurn, TypeOK
  <2>5. EndedLate' = EndedLate
    BY <1>1, <2>1 DEF EndedLate, TypeOK
  <2>6. TypeOK'
    BY <1>1, <2>1, <2>2, <2>3 DEF TypeOK
  <2>7. RecordedInTurn' /\ ShutdownInOrder' /\ FlushInOrder'
    BY <1>0, <1>1, <1>2, <2>1, <2>3, <2>4 DEF RecordedInTurn, ShutdownInOrder, FlushInOrder, BeforeRegister
  <2>8. EventsReceived' /\ Accounted' /\ OneDropEach' /\ EndsWhole'
    BY <1>0, <1>1, <2>1, <2>2, <2>3, <2>5
    DEF EventsReceived, Accounted, Somewhere, Events, OneDropEach, EndsWhole, TypeOK
  <2>9. QED
    BY <2>6, <2>7, <2>8
<1>7. CASE Record
  <2>1. /\ UNCHANGED <<frames, thread, worker, threadsRunning, over>>
        /\ pc' = "spawn" /\ recorded' = Created
    BY <1>7 DEF Record, At
  <2>2. Created' = Created /\ Orphans' = {} /\ EndedLate' = EndedLate
    BY <1>1, <2>1 DEF Created, Orphans, EndedLate
  <2>3. TypeOK'
    BY <1>1, <2>1, <2>2 DEF TypeOK
  <2>4. RecordedInTurn' /\ ShutdownInOrder' /\ FlushInOrder'
    BY <1>0, <1>1, <1>2, <2>1, <2>2 DEF RecordedInTurn, ShutdownInOrder, FlushInOrder, BeforeRegister
  <2>5. EventsReceived' /\ Accounted' /\ OneDropEach' /\ EndsWhole'
    BY <1>0, <1>1, <2>1, <2>2
    DEF EventsReceived, Accounted, Somewhere, Events, OneDropEach, EndsWhole
  <2>6. QED
    BY <2>3, <2>4, <2>5
<1>8. QED
  BY <1>3, <1>4, <1>5, <1>6, <1>7 DEF Main

\* The innermost shutdown() becomes f: the threads stay, what was done stays done,
Keeps ==
  /\ UNCHANGED <<duration, pc, thread, recorded, expired, holding, received, dropped,
                 refused, over>>
  /\ interrupted' \subseteq recorded /\ threadsRunning' \in BOOLEAN
  /\ worker' = worker \/ (worker # "none" /\ worker' \in {"left", "kept"})
  /\ inputQueue' \subseteq Events /\ sortedQueue' \subseteq Events
  /\ written \subseteq written' /\ written' \subseteq Events
  /\ sortMutex' \in 0 .. Len(frames)
  /\ stopped' \in BOOLEAN /\ (stopped => stopped') /\ (stopped' => AllEnded)

\* f has done what its place says,
FollowsOrder(f) ==
  /\ f.at \in AfterDeregister => worker' # "registered"
  /\ f.at \in AfterJoin => AllEnded
  /\ f.at \in AfterStop => stopped'
  /\ f.batch # {} => f.at \in {"pop", "lockInsert", "insert"}
  /\ f.taken # {} => f.at = "write"
  /\ f.batch \subseteq Events /\ f.taken \subseteq Events
  /\ f.at \in AfterTake => sortedQueue' = {}
  /\ f.at \in AfterPop /\ Orphans = {} => inputQueue' = {} \/ f.popped = BatchSize

\* and no event has gone.
HandsOn(f) ==
  inputQueue \cup sortedQueue \cup Top.batch \cup Top.taken
    \subseteq inputQueue' \cup sortedQueue' \cup written' \cup f.batch \cup f.taken

MovesTo(f) == Become(f) /\ Keeps /\ FollowsOrder(f) /\ HandsOn(f)

LEMMA CallMoves ==
  ASSUME ReceiverInv, over = "no", frames # <<>>, NEW f \in Frame, MovesTo(f)
  PROVE  ReceiverInv'
<1> USE DEF ReceiverInv
<1>1. /\ UNCHANGED <<duration, pc, thread, recorded, expired, holding>>
      /\ UNCHANGED <<received, dropped, refused, over>>
      /\ Become(f) /\ written \subseteq written'
  BY DEF MovesTo, Keeps
<1>2. /\ Created' = Created /\ Orphans' = Orphans /\ (AllEnded <=> AllEnded')
      /\ EndedLate' = EndedLate /\ Events' = Events
  BY <1>1 DEF Created, Orphans, AllEnded, EndedLate, Events
<1>3. /\ frames' \in Seq(Frame) /\ Len(frames') = Len(frames) /\ frames' # <<>>
      /\ Depth \in 1 .. Len(frames) /\ Depth' = Depth /\ Top' = f
      /\ \A i \in 1 .. Len(frames) : frames'[i] = IF i = Depth THEN f ELSE frames[i]
  BY <1>1, BecomeStep
<1>4. RecordedInTurn' /\ EventsReceived' /\ OneDropEach' /\ EndsWhole'
  BY <1>1, <1>2 DEF RecordedInTurn, EventsReceived, OneDropEach, EndsWhole
<1>5. TypeOK'
  <2>1. /\ frames' \in Seq(Frame) /\ sortMutex' \in 0 .. Len(frames')
        /\ threadsRunning' \in BOOLEAN /\ stopped' \in BOOLEAN
    BY <1>3 DEF MovesTo, Keeps
  <2>2. /\ interrupted' \subseteq recorded' /\ inputQueue' \subseteq Events'
        /\ sortedQueue' \subseteq Events' /\ written' \subseteq Events'
    BY <1>1, <1>2 DEF MovesTo, Keeps
  <2>3. worker' \in {"none", "registered", "left", "kept"}
    BY DEF MovesTo, Keeps, TypeOK
  <2>4. QED
    BY <1>1, <1>2, <2>1, <2>2, <2>3 DEF TypeOK, Frame, Events
<1>6. ShutdownInOrder'
  <2>1. ASSUME NEW i \in 1 .. Len(frames) PROVE CallInOrder(frames[i])'
    <3>1. CASE i = Depth
      BY <1>2, <1>3, <3>1 DEF MovesTo, FollowsOrder, CallInOrder
    <3>2. CASE i # Depth
      <4>1. CallInOrder(frames[i]) /\ frames'[i] = frames[i]
        BY <1>3, <3>2 DEF ShutdownInOrder
      <4>2. worker # "registered" => worker' # "registered"
        BY DEF MovesTo, Keeps
      <4>3. stopped => stopped'
        BY DEF MovesTo, Keeps
      <4>4. QED
        BY <1>2, <4>1, <4>2, <4>3 DEF CallInOrder
    <3>3. QED
      BY <3>1, <3>2
  <2>2. /\ pc' \in BeforeRegister => worker' = "none"
        /\ over' \notin {"no", "abort"} => worker' # "registered"
    BY <1>1 DEF MovesTo, Keeps, ShutdownInOrder
  <2>3. stopped' => frames' # <<>> /\ AllEnded'
    BY <1>2, <1>3 DEF MovesTo, Keeps
  <2>4. QED
    BY <1>3, <2>1, <2>2, <2>3 DEF ShutdownInOrder
<1>7. FlushInOrder'
  BY <1>2, <1>3 DEF MovesTo, FollowsOrder, FlushInOrder
<1>8. Accounted'
  <2>1. ASSUME NEW e \in Events PROVE Somewhere(e)'
    <3>1. Somewhere(e)
      BY DEF Accounted
    <3>2. CASE e \in inputQueue \cup sortedQueue \cup Top.batch \cup Top.taken
      <4>1. e \in inputQueue' \cup sortedQueue' \cup written' \cup f.batch \cup f.taken
        BY <3>2 DEF MovesTo, HandsOn
      <4>2. QED
        BY <1>3, <4>1 DEF Somewhere
    <3>3. CASE e \in written \cup dropped \cup refused \/ \E t \in DeqThreads : holding[t] = e
      BY <1>1, <3>3 DEF Somewhere
    <3>4. ASSUME NEW i \in 1 .. Len(frames), i # Depth,
                 e \in frames[i].batch \cup frames[i].taken
          PROVE  Somewhere(e)'
      <4>1. i \in 1 .. Len(frames') /\ e \in frames'[i].batch \cup frames'[i].taken
        BY <1>3, <3>4
      <4>2. QED
        BY <4>1 DEF Somewhere
    <3>5. QED
      BY <3>1, <3>2, <3>3, <3>4 DEF Somewhere, Top
  <2>2. QED
    BY <1>2, <2>1 DEF Accounted
<1>9. QED
  BY <1>4, <1>5, <1>6, <1>7, <1>8

\* What the steps of a call may count on.
LEMMA TopInOrder ==
  ASSUME ReceiverInv, frames # <<>>
  PROVE  /\ Top \in Frame /\ CallInOrder(Top) /\ FlushInOrder
         /\ Depth \in 0 .. Len(frames) /\ 0 \in 0 .. Len(frames)
         /\ Top.batch \subseteq Events /\ Top.taken \subseteq Events
         /\ inputQueue \subseteq Events /\ sortedQueue \subseteq Events
         /\ written \subseteq Events
         /\ stopped \in BOOLEAN /\ threadsRunning \in BOOLEAN
         /\ interrupted \subseteq recorded /\ sortMutex \in 0 .. Len(frames)
         /\ (stopped => AllEnded)
<1> USE DEF ReceiverInv
<1>1. /\ Depth \in 1 .. Len(frames) /\ Len(frames) \in Nat \ {0} /\ Top \in Frame
  BY TopIsCall
<1>2. CallInOrder(Top)
  BY <1>1 DEF ShutdownInOrder, Top
<1>3. Depth \in 0 .. Len(frames) /\ 0 \in 0 .. Len(frames)
  BY <1>1
<1>4. QED
  BY <1>1, <1>2, <1>3 DEF CallInOrder, TypeOK, ShutdownInOrder, Events

\* The process ends and nothing else changes.
LEMMA ProcessEnds ==
  ASSUME ReceiverInv, UNCHANGED <<main, shutdown, threads, data, sink>>,
         over' \in {"exit", "return", "crash", "abort"},
         over' # "abort" => worker # "registered",
         over' \in {"exit", "return"} /\ Orphans = {} =>
           /\ 1 .. received = written \cup dropped \cup refused \cup InFlight \cup inputQueue
           /\ InFlight # {} => Depth > 1
           /\ inputQueue # {} => Top.popped = BatchSize
  PROVE  ReceiverInv'
<1> USE DEF ReceiverInv, main, shutdown, threads, data, sink, queues
<1>1. /\ UNCHANGED <<duration, pc, frames, threadsRunning, worker, thread, recorded>>
      /\ UNCHANGED <<interrupted, expired, holding, received, dropped, refused>>
      /\ UNCHANGED <<inputQueue, sortedQueue, sortMutex, stopped, written>>
  OBVIOUS
<1>2. /\ Created' = Created /\ Orphans' = Orphans /\ (AllEnded <=> AllEnded')
      /\ EndedLate' = EndedLate /\ Events' = Events /\ InFlight' = InFlight
      /\ Top' = Top /\ Depth' = Depth
  BY <1>1 DEF Created, Orphans, AllEnded, EndedLate, Events, InFlight, Top, Depth
<1> HIDE DEF main, shutdown, threads, data, sink, queues
<1>3. TypeOK' /\ EventsReceived' /\ RecordedInTurn'
  BY <1>1, <1>2 DEF TypeOK, EventsReceived, RecordedInTurn
<1>4. ShutdownInOrder' /\ FlushInOrder'
  BY <1>1, <1>2 DEF ShutdownInOrder, CallInOrder, FlushInOrder
<1>5. Accounted' /\ OneDropEach'
  BY <1>1, <1>2 DEF Accounted, Somewhere, OneDropEach
<1>6. EndsWhole'
  BY <1>1, <1>2 DEF EndsWhole
<1>7. QED
  BY <1>3, <1>4, <1>5, <1>6

\* A call that has come to its end leaves nothing unaccounted for.
LEMMA CallEnds ==
  ASSUME ReceiverInv, frames # <<>>, Top.at = "exit", Orphans = {}
  PROVE  /\ 1 .. received = written \cup dropped \cup refused \cup InFlight \cup inputQueue
         /\ InFlight # {} => Depth > 1
         /\ inputQueue # {} => Top.popped = BatchSize
<1> USE DEF ReceiverInv
<1>1. /\ CallInOrder(Top) /\ FlushInOrder /\ Depth \in 1 .. Len(frames)
      /\ Depth = Len(frames) /\ Len(frames) \in Nat
  BY TopInOrder, TopIsCall
<1>2. AllEnded /\ sortedQueue = {} /\ (inputQueue = {} \/ Top.popped = BatchSize)
  BY <1>1 DEF CallInOrder, FlushInOrder, AfterJoin, AfterStop, AfterPop, AfterTake
<1>3. \A t \in DeqThreads : holding[t] = 0
  BY <1>2 DEF Orphans, Created, AllEnded, EventsReceived
<1>4. Top.batch = {} /\ Top.taken = {}
  BY <1>1 DEF CallInOrder
<1>5. ASSUME NEW e \in Events
      PROVE  e \in written \cup dropped \cup refused \cup InFlight \cup inputQueue
  <2>1. Somewhere(e) /\ e # 0
    BY DEF Accounted, Events
  <2>2. QED
    BY <1>2, <1>3, <2>1 DEF Somewhere, InFlight
<1>6. InFlight \subseteq Events
  BY DEF InFlight, ShutdownInOrder, CallInOrder
<1>7. written \cup dropped \cup refused \cup inputQueue \subseteq Events
  BY DEF TypeOK, Events
<1>8. InFlight # {} => Depth > 1
  <2>1. ASSUME InFlight # {} PROVE \E i \in 1 .. Len(frames) : i # Depth
    <3>1. PICK i \in 1 .. Len(frames) : frames[i].batch \cup frames[i].taken # {}
      BY <2>1 DEF InFlight
    <3>2. i # Depth
      BY <1>4, <3>1 DEF Top
    <3>3. QED
      BY <3>2
  <2>2. QED
    BY <1>1, <2>1
<1>9. QED
  BY <1>2, <1>5, <1>6, <1>7, <1>8 DEF Events

\* Steps of the innermost shutdown(): the dequeue threads and their list stay.
LEMMA ShutdownNext ==
  ASSUME ReceiverInv, Shutdown \/ WriteFails PROVE ReceiverInv'
<1> USE DEF main, shutdown, threads, data, sink, queues
<1>1. over = "no" /\ frames # <<>>
  BY DEF Shutdown, MarkStopped, Deregister, Interrupt, JoinThreads, StopSink, PopBatch,
     LockSort, InsertBatch, Take, Write, WriteFails, DestroySink, Exit, In, Alive
<1>2. /\ Top \in Frame /\ CallInOrder(Top) /\ FlushInOrder
      /\ Depth \in 0 .. Len(frames) /\ 0 \in 0 .. Len(frames)
      /\ Top.batch \subseteq Events /\ Top.taken \subseteq Events
      /\ inputQueue \subseteq Events /\ sortedQueue \subseteq Events
      /\ written \subseteq Events
      /\ stopped \in BOOLEAN /\ threadsRunning \in BOOLEAN
      /\ interrupted \subseteq recorded /\ sortMutex \in 0 .. Len(frames)
      /\ (stopped => AllEnded)
  BY <1>1, TopInOrder
<1>ev. Events \subseteq 1 .. MaxEvents
  BY ReceiverAssumption DEF Events, ReceiverInv, TypeOK
<1>next. ASSUME NEW f \in Frame, MovesTo(f) PROVE ReceiverInv'
  BY <1>1, <1>next, CallMoves
<1> USE DEF CallInOrder, AfterDeregister, AfterJoin, AfterStop, AfterPop, AfterTake
<1>3. CASE MarkStopped
  <2>1. PICK f \in Frame : f = [Top EXCEPT !.at = "deregister"]
    BY <1>2 DEF Frame, Handling
  <2>2. MovesTo(f)
    BY <1>2, <1>3, <2>1 DEF MovesTo, Keeps, FollowsOrder, HandsOn, MarkStopped, Goto, In, Frame
  <2>3. QED
    BY <1>next, <2>2
<1>4. CASE Deregister
  <2>1. PICK f \in Frame : f = [Top EXCEPT !.at = "interrupt"]
    BY <1>2 DEF Frame, Handling
  <2>2. /\ worker' = worker \/ (worker # "none" /\ worker' \in {"left", "kept"})
        /\ worker' # "registered"
    BY <1>4 DEF Deregister
  <2>3. MovesTo(f)
    BY <1>2, <1>4, <2>1, <2>2 DEF MovesTo, Keeps, FollowsOrder, HandsOn, Deregister, Goto, In, Frame
  <2>4. QED
    BY <1>next, <2>3
<1>5. CASE Interrupt
  <2>1. PICK f \in Frame : f = [Top EXCEPT !.at = "join"]
    BY <1>2 DEF Frame, Handling
  <2>2. MovesTo(f)
    BY <1>2, <1>5, <2>1 DEF MovesTo, Keeps, FollowsOrder, HandsOn, Interrupt, Goto, In, Frame
  <2>3. QED
    BY <1>next, <2>2
<1>6. CASE JoinThreads
  <2>1. PICK f \in Frame : f = [Top EXCEPT !.at = "stop"]
    BY <1>2 DEF Frame, Handling
  <2>2. MovesTo(f)
    BY <1>2, <1>6, <2>1 DEF MovesTo, Keeps, FollowsOrder, HandsOn, JoinThreads, Goto, In, Frame
  <2>3. QED
    BY <1>next, <2>2
<1>7. CASE StopSink
  <2>1. CASE pc = "construct"
    <3>1. UNCHANGED <<main, shutdown, threads, data, sink>> /\ over' = "crash"
      BY <1>7, <2>1 DEF StopSink
    <3>2. worker # "registered"
      BY <1>2, <1>7 DEF StopSink, In
    <3>3. QED
      BY <3>1, <3>2, ProcessEnds
  <2>2. CASE pc # "construct"
    <3>1. PICK f \in Frame : f = [Top EXCEPT !.at = "pop"]
      BY <1>2 DEF Frame, Handling
    <3>2. MovesTo(f)
      BY <1>2, <1>7, <2>2, <3>1 DEF MovesTo, Keeps, FollowsOrder, HandsOn, StopSink, Goto, In, Frame
    <3>3. QED
      BY <1>next, <3>2
  <2>3. QED
    BY <2>1, <2>2
<1>8. CASE PopBatch
  <2>1. CASE Top.popped < BatchSize /\ inputQueue # {}
    <3>1. PICK e \in inputQueue :
            /\ inputQueue' = inputQueue \ {e}
            /\ Become([Top EXCEPT !.batch = @ \cup {e}, !.popped = @ + 1])
      BY <1>8, <2>1 DEF PopBatch
    <3>2. PICK f : f = [Top EXCEPT !.batch = @ \cup {e}, !.popped = @ + 1]
      OBVIOUS
    <3>3. /\ f.by = Top.by /\ f.at = Top.at /\ f.taken = Top.taken
          /\ f.batch = Top.batch \cup {e} /\ f.popped = Top.popped + 1
      BY <1>2, <3>2 DEF Frame
    <3>4. Top.popped + 1 \in 0 .. BatchSize
      BY <1>2, <2>1, ReceiverAssumption DEF Frame
    <3>5. f \in Frame
      BY <1>2, <1>ev, <3>1, <3>2, <3>4 DEF Frame
    <3>6. MovesTo(f)
      BY <1>2, <1>8, <2>1, <3>1, <3>2, <3>3 DEF MovesTo, Keeps, FollowsOrder, HandsOn, PopBatch, In
    <3>7. QED
      BY <1>next, <3>5, <3>6
  <2>2. CASE ~(Top.popped < BatchSize /\ inputQueue # {})
    <3>1. PICK p \in {"lockTake", "lockInsert"} :
            Goto(p) /\ (Top.batch # {} => p = "lockInsert")
      BY <1>8, <2>2 DEF PopBatch
    <3>2. PICK f \in Frame : f = [Top EXCEPT !.at = p]
      BY <1>2 DEF Frame, Handling
    <3>3. inputQueue = {} \/ Top.popped = BatchSize
      BY <1>2, <2>2, ReceiverAssumption DEF Frame
    <3>4. MovesTo(f)
      BY <1>2, <1>8, <2>2, <3>1, <3>2, <3>3 DEF MovesTo, Keeps, FollowsOrder, HandsOn, PopBatch, Goto, In, Frame
    <3>5. QED
      BY <1>next, <3>4
  <2>3. QED
    BY <2>1, <2>2
<1>9. CASE LockSort
  <2>1. PICK p \in {"insert", "take"} :
          Goto(p) /\ (p = "insert" <=> Top.at = "lockInsert")
    BY <1>9 DEF LockSort
  <2>2. PICK f \in Frame : f = [Top EXCEPT !.at = p]
    BY <1>2 DEF Frame, Handling
  <2>3. /\ f.at = p /\ f.batch = Top.batch /\ f.taken = Top.taken
        /\ f.popped = Top.popped /\ Become(f)
    BY <1>2, <2>1, <2>2 DEF Frame, Goto
  <2>4. /\ UNCHANGED <<main, threadsRunning, worker, threads, data, queues, stopped>>
        /\ UNCHANGED <<written, over>> /\ sortMutex' = Depth
        /\ Top.at \in {"lockInsert", "lockTake"}
    BY <1>9 DEF LockSort, In
  <2>5. MovesTo(f)
    <3>1. Keeps
      BY <1>2, <2>1, <2>3, <2>4 DEF Keeps
    <3>2. FollowsOrder(f)
      BY <1>1, <1>2, <2>1, <2>3, <2>4 DEF FollowsOrder, FlushInOrder
    <3>3. HandsOn(f)
      BY <1>2, <2>1, <2>3, <2>4 DEF HandsOn
    <3>4. QED
      BY <2>1, <2>3, <2>4, <3>1, <3>2, <3>3 DEF MovesTo
  <2>6. QED
    BY <1>next, <2>5
<1>10. CASE InsertBatch
  <2>1. PICK f \in Frame : f = [Top EXCEPT !.at = "lockTake", !.batch = {}]
    BY <1>2 DEF Frame, Handling
  <2>2. /\ f.at = "lockTake" /\ f.batch = {} /\ f.taken = Top.taken
        /\ f.popped = Top.popped
    BY <1>2, <2>1 DEF Frame
  <2>3. /\ UNCHANGED <<main, threadsRunning, worker, threads, data, inputQueue, stopped>>
        /\ UNCHANGED <<written, over>> /\ sortMutex' = 0 /\ Become(f)
        /\ sortedQueue' = sortedQueue \cup Top.batch /\ Top.at = "insert"
    BY <1>10, <2>1 DEF InsertBatch, In
  <2>4. MovesTo(f)
    <3>1. Keeps
      BY <1>2, <2>2, <2>3 DEF Keeps
    <3>2. FollowsOrder(f)
      BY <1>1, <1>2, <2>2, <2>3 DEF FollowsOrder, FlushInOrder
    <3>3. HandsOn(f)
      BY <1>2, <2>2, <2>3 DEF HandsOn
    <3>4. QED
      BY <2>2, <2>3, <3>1, <3>2, <3>3 DEF MovesTo
  <2>5. QED
    BY <1>next, <2>4
<1>11. CASE Take
  <2>1. PICK p \in {"exit", "write"} :
          /\ Become([Top EXCEPT !.at = p, !.taken = sortedQueue])
          /\ sortedQueue # {} => p = "write"
    BY <1>11 DEF Take
  <2>2. PICK f : f = [Top EXCEPT !.at = p, !.taken = sortedQueue]
    OBVIOUS
  <2>3. f \in Frame
    BY <1>2, <1>ev, <2>2 DEF Frame, Handling
  <2>4. /\ f.at = p /\ f.batch = Top.batch /\ f.taken = sortedQueue
        /\ f.popped = Top.popped /\ Become(f)
    BY <1>2, <2>1, <2>2 DEF Frame
  <2>5. /\ UNCHANGED <<main, threadsRunning, worker, threads, data, inputQueue, stopped>>
        /\ UNCHANGED <<written, over>> /\ sortMutex' = 0 /\ sortedQueue' = {}
        /\ Top.at = "take"
    BY <1>11 DEF Take, In
  <2>6. MovesTo(f)
    <3>1. Keeps
      BY <1>2, <2>1, <2>4, <2>5 DEF Keeps
    <3>2. FollowsOrder(f)
      BY <1>1, <1>2, <2>1, <2>4, <2>5 DEF FollowsOrder, FlushInOrder
    <3>3. HandsOn(f)
      BY <1>2, <2>1, <2>4, <2>5 DEF HandsOn
    <3>4. QED
      BY <2>1, <2>4, <2>5, <3>1, <3>2, <3>3 DEF MovesTo
  <2>7. QED
    BY <1>next, <2>3, <2>6
<1>12. CASE Write
  <2>1. CASE Top.taken = {}
    <3>1. PICK f \in Frame : f = [Top EXCEPT !.at = "exit"]
      BY <1>2 DEF Frame, Handling
    <3>2. /\ f.at = "exit" /\ f.batch = Top.batch /\ f.taken = {}
          /\ f.popped = Top.popped
      BY <1>2, <2>1, <3>1 DEF Frame
    <3>3. /\ UNCHANGED <<main, threadsRunning, worker, threads, data, queues, sortMutex>>
          /\ UNCHANGED <<stopped, written, over>> /\ Become(f) /\ Top.at = "write"
      BY <1>12, <2>1, <3>1 DEF Write, Goto, In
    <3>4. MovesTo(f)
      <4>1. Keeps
        BY <1>2, <2>1, <3>2, <3>3 DEF Keeps
      <4>2. FollowsOrder(f)
        BY <1>1, <1>2, <2>1, <3>2, <3>3 DEF FollowsOrder, FlushInOrder
      <4>3. HandsOn(f)
        BY <1>2, <2>1, <3>2, <3>3 DEF HandsOn
      <4>4. QED
        BY <2>1, <3>2, <3>3, <4>1, <4>2, <4>3 DEF MovesTo
    <3>5. QED
      BY <1>next, <3>4
  <2>2. CASE Top.taken # {}
    <3>1. PICK e \in Top.taken : /\ written' = written \cup {e}
                                 /\ Become([Top EXCEPT !.taken = @ \ {e}])
      BY <1>12, <2>2 DEF Write
    <3>2. PICK f \in Frame : f = [Top EXCEPT !.taken = @ \ {e}]
      BY <1>2 DEF Frame
    <3>3. /\ f.at = "write" /\ f.batch = Top.batch /\ f.taken = Top.taken \ {e}
          /\ f.popped = Top.popped /\ Become(f) /\ Top.at = "write"
      BY <1>2, <1>12, <3>1, <3>2 DEF Frame, Write, In
    <3>4. /\ UNCHANGED <<main, threadsRunning, worker, threads, data, queues, sortMutex>>
          /\ UNCHANGED <<stopped, over>>
      BY <1>12 DEF Write
    <3>5. MovesTo(f)
      <4>1. Keeps
        BY <1>2, <3>1, <3>3, <3>4 DEF Keeps
      <4>2. FollowsOrder(f)
        BY <1>1, <1>2, <3>1, <3>3, <3>4 DEF FollowsOrder, FlushInOrder
      <4>3. HandsOn(f)
        BY <1>2, <3>1, <3>3, <3>4 DEF HandsOn
      <4>4. QED
        BY <3>1, <3>3, <3>4, <4>1, <4>2, <4>3 DEF MovesTo
    <3>6. QED
      BY <1>next, <3>5
  <2>3. QED
    BY <2>1, <2>2
<1>13. CASE DestroySink
  <2>1. PICK f : f = [Top EXCEPT !.by = "sink", !.at = "stop", !.popped = 0]
    OBVIOUS
  <2>2. f \in Frame
    <3>1. 0 \in 0 .. BatchSize
      BY ReceiverAssumption
    <3>2. QED
      BY <1>2, <2>1, <3>1 DEF Frame, Handling
  <2>3. f.at = "stop" /\ f.batch = Top.batch /\ f.taken = Top.taken
    BY <1>2, <2>1 DEF Frame
  <2>4. /\ UNCHANGED <<main, threadsRunning, worker, threads, data, sink, over>>
        /\ Become(f) /\ Top.at = "exit"
    BY <1>13, <2>1 DEF DestroySink, In
  <2>5. MovesTo(f)
    <3>1. Keeps
      BY <1>2, <2>3, <2>4 DEF Keeps
    <3>2. FollowsOrder(f)
      BY <1>1, <1>2, <2>3, <2>4 DEF FollowsOrder, FlushInOrder
    <3>3. HandsOn(f)
      BY <1>2, <2>3, <2>4 DEF HandsOn
    <3>4. QED
      BY <2>3, <2>4, <3>1, <3>2, <3>3 DEF MovesTo
  <2>6. QED
    BY <1>next, <2>2, <2>5
<1>14. CASE Exit \/ WriteFails
  <2>1. /\ UNCHANGED <<main, shutdown, threads, data, sink>>
        /\ over' \in {"exit", "return", "crash"}
        /\ over' \in {"exit", "return"} => Top.at = "exit"
        /\ Top.at \in {"exit", "write"}
    BY <1>14 DEF Exit, WriteFails, In
  <2>2. worker # "registered"
    BY <1>2, <2>1
  <2>3. QED
    BY <1>1, <2>1, <2>2, CallEnds, ProcessEnds
<1>15. QED
  BY <1>3, <1>4, <1>5, <1>6, <1>7, <1>8, <1>9, <1>10, <1>11, <1>12, <1>13, <1>14
  DEF Shutdown

\* A signal puts a call of shutdown() on top of whatever the main thread does.
LEMMA SignalNext ==
  ASSUME ReceiverInv, Signal PROVE ReceiverInv'
<1> USE DEF ReceiverInv, main, threads, data, sink, queues
<1>1. /\ UNCHANGED <<duration, pc, threadsRunning, worker, thread, recorded>>
      /\ UNCHANGED <<interrupted, expired, holding, received, dropped, refused>>
      /\ UNCHANGED <<inputQueue, sortedQueue, sortMutex, stopped, written, over>>
      /\ over = "no"
  BY DEF Signal, Alive
<1>2. /\ Created' = Created /\ Orphans' = Orphans /\ (AllEnded <=> AllEnded')
      /\ EndedLate' = EndedLate /\ Events' = Events
  BY <1>1 DEF Created, Orphans, AllEnded, EndedLate, Events
<1> DEFINE f == Call("signal")
<1>3. /\ f \in Frame /\ f.at = "mark" /\ f.batch = {} /\ f.taken = {}
      /\ frames' = Append(frames, f)
  BY CallBegins DEF Signal
<1>4. frames \in Seq(Frame) /\ Len(frames) \in Nat
  BY DEF TypeOK, Frame
<1> HIDE DEF f
<1>5. /\ frames' \in Seq(Frame) /\ Len(frames') = Len(frames) + 1
      /\ \A i \in 1 .. Len(frames) : frames'[i] = frames[i]
      /\ frames'[Len(frames) + 1] = f /\ frames' # <<>>
  BY <1>3, <1>4, AppendProperties
<1>6. ASSUME NEW i \in 1 .. Len(frames')
      PROVE  \/ i \in 1 .. Len(frames) /\ frames'[i] = frames[i]
             \/ /\ frames'[i].at = "mark"
                /\ frames'[i].batch = {} /\ frames'[i].taken = {}
  BY <1>3, <1>4, <1>5
<1>7. TypeOK'
  BY <1>1, <1>2, <1>4, <1>5 DEF TypeOK, Frame
<1>8. ShutdownInOrder' /\ FlushInOrder'
  <2>1. ASSUME NEW i \in 1 .. Len(frames') PROVE CallInOrder(frames[i])'
    BY <1>1, <1>2, <1>6
    DEF ShutdownInOrder, CallInOrder, AfterDeregister, AfterJoin, AfterStop, AfterPop,
        AfterTake
  <2>2. ShutdownInOrder'
    BY <1>1, <1>2, <1>5, <2>1 DEF ShutdownInOrder
  <2>3. Top'.at = "mark"
    BY <1>3, <1>5 DEF Top, Depth
  <2>4. QED
    BY <2>2, <2>3 DEF FlushInOrder, AfterPop, AfterTake
<1>9. EventsReceived'
  BY <1>1, <1>2 DEF EventsReceived
<1>10. Accounted'
  BY <1>1, <1>2, <1>4, <1>5 DEF Accounted, Somewhere
<1>11. RecordedInTurn' /\ OneDropEach' /\ EndsWhole'
  BY <1>1, <1>2 DEF RecordedInTurn, OneDropEach, EndsWhole
<1>12. QED
  BY <1>7, <1>8, <1>9, <1>10, <1>11

\* Steps of the dequeue threads and of the sink's own thread.
LEMMA ThreadsNext ==
  ASSUME ReceiverInv,
         (\E t \in DeqThreads : Elapse(t) \/ Dequeue(t) \/ Leave(t)) \/ Sort \/ Output
  PROVE  ReceiverInv'
<1> USE DEF ReceiverInv, main, shutdown, threads, data, sink, queues
<1>1. /\ UNCHANGED <<duration, pc, frames, threadsRunning, worker, recorded, interrupted>>
      /\ UNCHANGED <<sortMutex, stopped, over>> /\ over = "no"
  BY DEF Elapse, Dequeue, SeeInterrupt, GetEvent, AddData, Leave, Sort, Output, AtLoop, Alive
<1>2. EndsWhole'
  BY <1>1 DEF EndsWhole
<1>card. /\ IsFiniteSet(EndedLate) /\ Cardinality(EndedLate) \in Nat
         /\ IsFiniteSet(dropped) /\ Cardinality(dropped) \in Nat
  <2>1. EndedLate \in SUBSET DeqThreads /\ dropped \in SUBSET (1 .. received)
    BY DEF EndedLate, TypeOK, Created
  <2>2. received \in Nat
    BY ReceiverAssumption DEF TypeOK
  <2>3. IsFiniteSet(1 .. received)
    BY <2>2, FS_Interval
  <2>4. IsFiniteSet(EndedLate) /\ IsFiniteSet(dropped)
    BY <2>1, <2>3, ReceiverAssumption, FS_Subset
  <2>5. QED
    BY <2>4, FS_CardinalityType
<1>3. \/ thread' = thread
      \/ \E t \in DeqThreads : /\ thread[t] = "running" /\ holding[t] = 0
                               /\ thread' = [thread EXCEPT ![t] = "ended"]
  BY DEF Elapse, Dequeue, SeeInterrupt, GetEvent, AddData, Leave, Sort, Output,
     AtLoop, EndThread
<1>4. /\ thread' \in [DeqThreads -> {"none", "running", "ended"}]
      /\ Created' = Created /\ Orphans' = Orphans /\ (AllEnded => AllEnded')
  BY <1>1, <1>3 DEF Created, Orphans, AllEnded, TypeOK
<1>5. /\ inputQueue' \subseteq inputQueue \/ \E t \in DeqThreads : holding[t] # 0
      /\ sortedQueue' \subseteq sortedQueue \/ ~stopped
  BY DEF Elapse, Dequeue, SeeInterrupt, GetEvent, AddData, Leave, Sort, Output
<1>6. ASSUME Orphans = {}, AllEnded PROVE \A t \in DeqThreads : holding[t] = 0
  BY <1>6 DEF Orphans, Created, AllEnded, EventsReceived
<1>ev. Events \subseteq Events'
  <2>1. received \in Nat /\ received' \in Nat /\ received <= received'
    BY ReceiverAssumption
    DEF TypeOK, Elapse, Dequeue, SeeInterrupt, GetEvent, AddData, Leave, Sort, Output
  <2>2. QED
    BY <2>1 DEF Events
<1>7. RecordedInTurn' /\ ShutdownInOrder' /\ FlushInOrder'
  <2>1. RecordedInTurn'
    BY <1>1, <1>4 DEF RecordedInTurn
  <2>2. ShutdownInOrder'
    <3>1. ASSUME NEW i \in 1 .. Len(frames) PROVE CallInOrder(frames[i])'
      BY <1>1, <1>4, <1>ev DEF ShutdownInOrder, CallInOrder
    <3>2. QED
      BY <1>1, <1>4, <3>1 DEF ShutdownInOrder
  <2>3. FlushInOrder'
    <3>1. Top' = Top
      BY <1>1 DEF Top, Depth
    <3>2. ASSUME frames # <<>> PROVE CallInOrder(Top)
      BY <3>2, TopInOrder
    <3>3. ASSUME frames # <<>>, Top.at \in AfterTake PROVE sortedQueue' = {}
      BY <1>5, <3>2, <3>3 DEF FlushInOrder, CallInOrder, AfterStop, AfterPop
    <3>4. ASSUME frames # <<>>, Top.at \in AfterPop, Orphans = {}
          PROVE  inputQueue' = {} \/ Top.popped = BatchSize
      BY <1>5, <1>6, <3>2, <3>4 DEF FlushInOrder, CallInOrder, AfterStop, AfterJoin
    <3>5. QED
      BY <1>1, <1>4, <3>1, <3>3, <3>4 DEF FlushInOrder
  <2>4. QED
    BY <2>1, <2>2, <2>3
<1>8. frames \in Seq(Frame) /\ Len(frames) \in Nat /\ received \in Nat
  <2>1. frames \in Seq(Frame)
    BY DEF TypeOK, Frame
  <2>2. QED
    BY <2>1, ReceiverAssumption DEF TypeOK
<1> DEFINE Moving == TypeOK /\ EventsReceived /\ Accounted /\ OneDropEach
<1>9. SUFFICES Moving'
  BY <1>2, <1>7
<1> HIDE DEF ReceiverInv
<1> USE DEF EventsReceived
<1>inv. TypeOK /\ EventsReceived /\ Accounted /\ OneDropEach
  BY DEF ReceiverInv
<1>10. ASSUME NEW t \in DeqThreads, Elapse(t) PROVE Moving'
  <2>1. /\ UNCHANGED <<thread, holding, received, dropped, refused, queues, written>>
        /\ expired' = expired \cup {t} /\ thread[t] = "running"
    BY <1>10 DEF Elapse
  <2>2. EndedLate' = EndedLate /\ t \in Created
    BY <2>1 DEF EndedLate, Created
  <2>3. TypeOK'
    BY <1>inv, <1>1, <1>4, <2>1, <2>2 DEF TypeOK
  <2>4. QED
    BY <1>inv, <1>1, <1>4, <2>1, <2>2, <2>3 DEF Accounted, Events, Somewhere, OneDropEach
<1>11. ASSUME NEW t \in DeqThreads, SeeInterrupt(t) \/ Leave(t) PROVE Moving'
  <2>1. /\ UNCHANGED <<expired, holding, received, dropped, refused, queues, written>>
        /\ thread[t] = "running" /\ holding[t] = 0
        /\ thread' = [thread EXCEPT ![t] = "ended"]
    BY <1>11 DEF SeeInterrupt, Leave, AtLoop, EndThread
  <2>2. EndedLate \subseteq EndedLate' /\ EndedLate' \in SUBSET DeqThreads
    BY <1>inv, <1>4, <2>1 DEF EndedLate, TypeOK, Created
  <2>3. IsFiniteSet(EndedLate') /\ Cardinality(EndedLate) <= Cardinality(EndedLate')
        /\ Cardinality(EndedLate') \in Nat
    <3>1. IsFiniteSet(EndedLate')
      BY <2>2, ReceiverAssumption, FS_Subset
    <3>2. QED
      BY <2>2, <3>1, FS_Subset, FS_CardinalityType
  <2>4. OneDropEach'
    BY <1>inv, <1>card, <2>1, <2>3 DEF OneDropEach
  <2>5. TypeOK'
    BY <1>inv, <1>1, <1>4, <2>1 DEF TypeOK
  <2>6. EventsReceived'
    BY <1>inv, <1>1, <1>4, <2>1 DEF Events, TypeOK
  <2>7. Accounted'
    BY <1>inv, <1>1, <2>1 DEF Accounted, Events, Somewhere
  <2>8. QED
    BY <2>4, <2>5, <2>6, <2>7
<1>12. ASSUME NEW t \in DeqThreads, GetEvent(t) PROVE Moving'
  <2> DEFINE n == received + 1
  <2>1. /\ UNCHANGED <<expired, refused, queues, written>>
        /\ thread[t] = "running" /\ holding[t] = 0
        /\ received < MaxEvents /\ received' = n
    BY <1>12 DEF GetEvent, AtLoop
  <2>2. /\ n \in 0 .. MaxEvents /\ n \in Nat \ {0} /\ n \notin Events
        /\ Events' = Events \cup {n} /\ 0 .. received \subseteq 0 .. n
    BY <1>8, <2>1, ReceiverAssumption DEF Events
  <2>3. Created' # {}
    BY <1>4, <2>1 DEF Created
  <2>4. CASE t \in expired
    <3>1. /\ dropped' = dropped \cup {n} /\ holding' = holding
          /\ thread' = [thread EXCEPT ![t] = "ended"]
      BY <1>12, <2>1, <2>4 DEF GetEvent, EndThread
    <3>2. EndedLate' = EndedLate \cup {t} /\ t \notin EndedLate
      BY <1>inv, <2>1, <2>4, <3>1 DEF EndedLate, TypeOK
    <3>3. n \notin dropped
      BY <1>inv, <2>2 DEF TypeOK, Events
    <3>4. /\ Cardinality(EndedLate') = Cardinality(EndedLate) + 1
          /\ Cardinality(dropped') = Cardinality(dropped) + 1
      BY <1>card, <3>1, <3>2, <3>3, FS_AddElement
    <3>5. OneDropEach'
      BY <1>inv, <1>card, <3>4 DEF OneDropEach
    <3>6. TypeOK'
      BY <1>inv, <1>1, <1>4, <2>1, <2>2, <3>1 DEF TypeOK, Events
    <3>7. EventsReceived'
      BY <1>inv, <1>1, <2>1, <2>2, <2>3, <3>1 DEF TypeOK
    <3>8. Accounted'
      BY <1>inv, <1>1, <2>1, <2>2, <3>1 DEF Accounted, Somewhere
    <3>9. QED
      BY <3>5, <3>6, <3>7, <3>8
  <2>5. CASE t \notin expired
    <3>1. /\ holding' = [holding EXCEPT ![t] = n]
          /\ thread' = thread /\ dropped' = dropped
      BY <1>12, <2>1, <2>5 DEF GetEvent
    <3>2. OneDropEach'
      BY <1>inv, <2>1, <3>1 DEF OneDropEach, EndedLate
    <3>3. holding' \in [DeqThreads -> 0 .. MaxEvents]
      BY <1>inv, <2>2, <3>1 DEF TypeOK
    <3>4. TypeOK'
      BY <1>inv, <1>1, <1>4, <2>1, <2>2, <3>1, <3>3 DEF TypeOK, Events
    <3>5. \A u \in DeqThreads : holding'[u] = IF u = t THEN n ELSE holding[u]
      BY <1>inv, <3>1 DEF TypeOK
    <3>6. EventsReceived'
      BY <1>inv, <1>1, <2>1, <2>2, <2>3, <3>1, <3>5
    <3>7. Accounted'
      BY <1>inv, <1>1, <2>1, <2>2, <3>1, <3>5 DEF Accounted, Somewhere, Events
    <3>8. QED
      BY <3>2, <3>4, <3>6, <3>7
  <2>6. QED
    BY <2>4, <2>5
<1>13. ASSUME NEW t \in DeqThreads, AddData(t) PROVE Moving'
  <2>1. /\ UNCHANGED <<thread, expired, received, dropped, sortedQueue, written>>
        /\ holding[t] # 0 /\ holding' = [holding EXCEPT ![t] = 0]
        /\ \/ inputQueue' = inputQueue \cup {holding[t]} /\ refused' = refused
           \/ refused' = refused \cup {holding[t]} /\ inputQueue' = inputQueue
    BY <1>13 DEF AddData
  <2>2. /\ holding' \in [DeqThreads -> 0 .. MaxEvents]
        /\ \A u \in DeqThreads : holding'[u] = IF u = t THEN 0 ELSE holding[u]
    BY <1>inv, <2>1, ReceiverAssumption DEF TypeOK
  <2>3. holding[t] \in Events
    BY <1>inv, <1>8, <2>1 DEF Events
  <2>4. TypeOK'
    <3>1. /\ inputQueue' \subseteq 1 .. received' /\ refused' \subseteq 1 .. received'
          /\ sortedQueue' \subseteq 1 .. received' /\ written' \subseteq 1 .. received'
      BY <1>inv, <2>1, <2>3 DEF TypeOK, Events
    <3>2. received' \in 0 .. MaxEvents /\ dropped' \subseteq 1 .. received'
      BY <1>inv, <2>1 DEF TypeOK
    <3>3. expired' \subseteq Created'
      BY <1>inv, <1>4, <2>1 DEF TypeOK
    <3>4. QED
      BY <1>inv, <1>1, <1>4, <2>2, <3>1, <3>2, <3>3, SMTT(30) DEF TypeOK
  <2>5. EventsReceived'
    BY <1>inv, <1>1, <1>4, <1>8, <2>1, <2>2 DEF Events
  <2>6. Accounted'
    <3>1. ASSUME NEW e \in Events PROVE Somewhere(e)'
      <4>1. Somewhere(e)
        BY <1>inv DEF Accounted
      <4>2. CASE e = holding[t]
        BY <2>1, <4>2 DEF Somewhere
      <4>3. CASE e # holding[t]
        BY <1>1, <2>1, <2>2, <4>1, <4>3 DEF Somewhere
      <4>4. QED
        BY <4>2, <4>3
    <3>2. Events' = Events
      BY <2>1 DEF Events
    <3>3. QED
      BY <3>1, <3>2 DEF Accounted
  <2>7. OneDropEach'
    BY <1>inv, <2>1 DEF OneDropEach, EndedLate
  <2>8. QED
    BY <2>4, <2>5, <2>6, <2>7
<1>14. CASE Sort \/ Output
  <2>1. UNCHANGED <<thread, expired, holding, received, dropped, refused>>
    BY <1>14 DEF Sort, Output
  <2>2. /\ inputQueue \cup sortedQueue \cup written
             \subseteq inputQueue' \cup sortedQueue' \cup written'
        /\ inputQueue' \cup sortedQueue' \cup written'
             \subseteq inputQueue \cup sortedQueue \cup written
    BY <1>14 DEF Sort, Output
  <2>3. TypeOK'
    <3>1. /\ inputQueue' \subseteq 1 .. received /\ sortedQueue' \subseteq 1 .. received
          /\ written' \subseteq 1 .. received
      BY <1>inv, <2>2 DEF TypeOK
    <3>2. QED
      BY <1>inv, <1>1, <1>4, <2>1, <3>1 DEF TypeOK
  <2>4. Accounted'
    BY <1>inv, <1>1, <2>1, <2>2 DEF Accounted, Somewhere, Events
  <2>5. EventsReceived'
    BY <1>inv, <1>1, <1>4, <2>1 DEF Events
  <2>6. OneDropEach'
    BY <1>inv, <2>1 DEF OneDropEach, EndedLate
  <2>7. QED
    BY <2>3, <2>4, <2>5, <2>6
<1>16. QED
  BY <1>10, <1>11, <1>12, <1>13, <1>14 DEF Dequeue

LEMMA ReceiverNext == ReceiverInv /\ [Next]_vars => ReceiverInv'
<1> SUFFICES ASSUME ReceiverInv, [Next]_vars PROVE ReceiverInv'
  OBVIOUS
<1>1. CASE UNCHANGED vars
  <2>1. /\ UNCHANGED <<duration, pc, frames, threadsRunning, worker, thread, recorded>>
        /\ UNCHANGED <<interrupted, expired, holding, received, dropped, refused>>
        /\ UNCHANGED <<inputQueue, sortedQueue, sortMutex, stopped, written, over>>
    BY <1>1 DEF vars, main, shutdown, threads, data, sink, queues
  <2>2. /\ Created' = Created /\ Orphans' = Orphans /\ (AllEnded <=> AllEnded')
        /\ EndedLate' = EndedLate /\ Events' = Events /\ InFlight' = InFlight
        /\ Top' = Top /\ Depth' = Depth
    BY <2>1 DEF Created, Orphans, AllEnded, EndedLate, Events, InFlight, Top, Depth
  <2>3. TypeOK' /\ EventsReceived' /\ RecordedInTurn'
    BY <2>1, <2>2 DEF ReceiverInv, TypeOK, EventsReceived, RecordedInTurn
  <2>4. ShutdownInOrder' /\ FlushInOrder'
    BY <2>1, <2>2 DEF ReceiverInv, ShutdownInOrder, CallInOrder, FlushInOrder
  <2>5. Accounted' /\ OneDropEach' /\ EndsWhole'
    BY <2>1, <2>2 DEF ReceiverInv, Accounted, Somewhere, OneDropEach, EndsWhole
  <2>6. QED
    BY <2>3, <2>4, <2>5 DEF ReceiverInv
<1>2. CASE OutputFails
  <2>1. UNCHANGED <<main, shutdown, threads, data, sink>> /\ over' = "abort"
    BY <1>2 DEF OutputFails
  <2>2. QED
    BY <2>1, ProcessEnds
<1>3. QED
  BY <1>1, <1>2, MainNext, ShutdownNext, SignalNext, ThreadsNext DEF Next, Terminated

-----------------------------------------------------------------------------
(* The theorems.                                                           *)

LEMMA ReceiverSafe == Spec => []ReceiverInv
  BY ReceiverInit, ReceiverNext, PTL DEF Spec

\* Every variable keeps its type: a thread that is interrupted is in the vector
\* and a thread in the vector has been started.
THEOREM TypeCorrect == Spec => []TypeOK
<1>1. ReceiverInv => TypeOK
  BY DEF ReceiverInv
<1>2. QED
  BY <1>1, ReceiverSafe, PTL

\* Whichever calls of shutdown() lie on top of each other, the sink is stopped
\* after the last addData() of the threads in the vector, and one thread at most
\* has not got there.
THEOREM ProducersEndBeforeSink == Spec => []ProducersEndFirst
<1>1. ReceiverInv => ProducersEndFirst
  <2> SUFFICES ASSUME ReceiverInv PROVE ProducersEndFirst
    OBVIOUS
  <2>1. stopped => AllEnded
    BY DEF ReceiverInv, ShutdownInOrder
  <2>2. Orphans = {} \/ \E t \in DeqThreads : Orphans = {t}
    BY DEF ReceiverInv, RecordedInTurn
  <2>3. Cardinality(Orphans) <= 1
    BY <2>2, FS_EmptySet, FS_Singleton
  <2>4. QED
    BY <2>1, <2>3 DEF ProducersEndFirst
<1>2. QED
  BY <1>1, ReceiverSafe, PTL

\* When shutdown() has run to its end, an event of a thread in the vector is in the
\* file or among the losses the property names; one event at most of each thread
\* comes after its duration.
THEOREM EventsAccountedFor == Spec => []LossesKnown
<1>1. ReceiverInv => LossesKnown
  <2> SUFFICES ASSUME ReceiverInv PROVE LossesKnown
    OBVIOUS
  <2>1. expired \in SUBSET DeqThreads /\ EndedLate \in SUBSET expired
    BY DEF ReceiverInv, TypeOK, Created, EndedLate
  <2>2. dropped \in SUBSET (1 .. received) /\ received \in Nat
    BY ReceiverAssumption DEF ReceiverInv, TypeOK
  <2>3. IsFiniteSet(expired) /\ IsFiniteSet(dropped)
    <3>1. IsFiniteSet(1 .. received)
      BY <2>2, FS_Interval
    <3>2. QED
      BY <2>1, <2>2, <3>1, ReceiverAssumption, FS_Subset
  <2>4. /\ Cardinality(EndedLate) <= Cardinality(expired)
        /\ Cardinality(EndedLate) \in Nat /\ Cardinality(expired) \in Nat
        /\ Cardinality(dropped) \in Nat
    BY <2>1, <2>3, FS_Subset, FS_CardinalityType
  <2>5. Cardinality(dropped) <= Cardinality(EndedLate)
    BY DEF ReceiverInv, OneDropEach
  <2>6. Cardinality(dropped) <= Cardinality(expired)
    BY <2>4, <2>5
  <2>7. QED
    BY <2>6 DEF ReceiverInv, EndsWhole, LossesKnown
<1>2. QED
  BY <1>1, ReceiverSafe, PTL

\* However the program ends but by an exception in the output thread, the load
\* balancer has been asked to remove the worker it registered.
THEOREM WorkerDeregistered == Spec => []WorkerAskedToLeave
<1>1. ReceiverInv => WorkerAskedToLeave
  BY DEF ReceiverInv, ShutdownInOrder, WorkerAskedToLeave
<1>2. QED
  BY <1>1, ReceiverSafe, PTL
===============================================================================
