---------------------------- MODULE WorkflowProofs ----------------------------
(***************************************************************************)
(* Theorems about Workflow for every number of times Ctrl-C is pressed.    *)
(***************************************************************************)
EXTENDS Workflow, SequenceTheorems, TLAPS

-----------------------------------------------------------------------------
(* The inductive invariant.                                                *)

\* What a child process can be while its runner is at a place.
RunnerOwnsChild ==
  /\ \A c \in Children :
       /\ runner[c] \in {"new", "limbo", "popen"} => proc[c] = "none"
       /\ runner[c] = "ended" => proc[c] \in {"none", "reaped"}
  /\ over = "ended" => \A c \in Children : runner[c] \in {"new", "ended"}

Started(c) == runner[c] \notin {"new", "limbo"}

\* run() starts the children in turn, the second when the first runs.
StartedInTurn ==
  /\ pc = "startFirst" => runner["first"] = "new"
  /\ pc \in {"startFirst", "joinFirst", "startSecond"} => runner["second"] = "new"
  /\ pc \in {"startSecond", "joinSecond", "watch", "stopFirst"} => Started("first")
  /\ pc = "stopFirst" => runner["second"] = "ended"
  /\ runner["second"] # "new" => Started("first")

\* shutdown() need not wait for the child any more.
Settled(c) ==
  \/ c \in missed
  \/ runner[c] \in {"new", "ended"}
  \/ limited /\ event[c] /\ IsAlive(c)

\* Each call of shutdown() leaves the first child before it looks at the second.
ShutdownInTurn ==
  /\ \A i \in 1 .. Len(frames) :
       /\ frames[i] \in {"second", "joinSecond", "unlock"} => Settled("first")
       /\ frames[i] = "unlock" => Settled("second")
       /\ frames[i] = "joinFirst" => event["first"] /\ Started("first")
       /\ frames[i] = "joinSecond" => event["second"] /\ Started("second")
       /\ frames[i] # "lock" => lock
  /\ isShutdown => lock \/ pc = "exit"
  /\ pc = "exit" => Settled("first") /\ Settled("second")

\* The first child can only be missed before the second is started, and nothing
\* is started after that.
MissedFirst ==
  "first" \in missed => runner["second"] = "new" /\ (frames # <<>> \/ pc = "exit")

\* The consumer is told to end after the producer has ended.
FirstEndsFirst == event["second"] /\ ~limited => runner["first"] = "ended"

WorkflowInv ==
  TypeOK /\ RunnerOwnsChild /\ StartedInTurn /\ ShutdownInTurn /\ MissedFirst /\ FirstEndsFirst

-----------------------------------------------------------------------------
(* What the steps can do.                                                  *)

Places == {"new", "limbo", "popen", "poll", "read", "wait", "kill", "reap", "ended"}
States == {"none", "running", "exited", "reaped"}
Calls  == {"lock", "first", "joinFirst", "second", "joinSecond", "unlock"}

\* A runner and its child move only each other, and only forward.
LEMMA RunnerStep ==
  ASSUME TypeOK, RunnerOwnsChild, NEW c \in Children, Run(c) \/ Child(c)
  PROVE  /\ proc' \in [Children -> States] /\ runner' \in [Children -> Places]
         /\ event' = event
         /\ \A d \in Children \ {c} : runner'[d] = runner[d] /\ proc'[d] = proc[d]
         /\ runner[c] \notin {"new", "ended"}
         /\ runner'[c] \notin {"new", "limbo"}
         /\ IsAlive(c) => IsAlive(c)' \/ runner'[c] = "ended"
         /\ runner'[c] = "popen" => proc'[c] = "none"
         /\ runner'[c] = "ended" => proc'[c] \in {"none", "reaped"}
<1> USE DEF TypeOK, RunnerOwnsChild, GoTo, Becomes, IsAlive, States, Places
<1>1. CASE Begin(c) \/ Popen(c) \/ PopenFails(c)
  BY <1>1 DEF Begin, Popen, PopenFails
<1>2. CASE PollEnds(c) \/ Terminate(c) \/ ReadPartialLine(c)
  BY <1>2 DEF PollEnds, Terminate, ReadPartialLine
<1>3. CASE ReadEnds(c) \/ WaitEnds(c) \/ Expire(c)
  BY <1>3 DEF ReadEnds, WaitEnds, Expire
<1>4. CASE Kill(c) \/ ReapKilled(c)
  BY <1>4 DEF Kill, ReapKilled
<1>5. CASE ChildExits(c) \/ CompleteLine(c)
  BY <1>5 DEF ChildExits, CompleteLine
<1>6. QED
  BY <1>1, <1>2, <1>3, <1>4, <1>5 DEF Run, Child

\* A call of shutdown() is the innermost one, and moves on.
LEMMA ShutdownStep ==
  ASSUME TypeOK, NEW here \in Calls, NEW at \in Calls, Shutting(here), Step(at)
  PROVE  /\ frames' \in Seq(Calls) /\ Len(frames') = Len(frames)
         /\ Len(frames) \in Nat \ {0} /\ frames[Len(frames)] = here
         /\ \A i \in 1 .. Len(frames) :
              frames'[i] = IF i = Len(frames) THEN at ELSE frames[i]
<1>1. frames \in Seq(Calls) /\ frames # <<>>
  BY DEF TypeOK, Calls, Shutting
<1>2. Len(frames) \in Nat \ {0}
  BY <1>1, EmptySeq
<1>3. QED
  BY <1>1, <1>2, ExceptSeq DEF Shutting, Step, Last

-----------------------------------------------------------------------------
(* Invariance.                                                             *)

LEMMA WorkflowInit == WInit => WorkflowInv
<1> SUFFICES ASSUME WInit PROVE WorkflowInv
  OBVIOUS
<1>1. frames \in Seq(Calls) /\ Len(frames) = 0 /\ frames = <<>>
  BY EmptySeq DEF WInit
<1>2. event \in [Children -> BOOLEAN] /\ lock \in BOOLEAN /\ isShutdown \in BOOLEAN
  BY Zenon DEF WInit, Init
<1>3. TypeOK
  <2>1. /\ proc \in [Children -> States] /\ runner \in [Children -> Places]
        /\ signals \in 0 .. NumSignals /\ missed \subseteq Children
        /\ pc = "startFirst" /\ over = "no"
    BY WorkflowAssumption DEF WInit, Init, States, Places
  <2>2. limited \in BOOLEAN
    BY DEF WInit
  <2>3. QED
    BY <1>1, <1>2, <2>1, <2>2 DEF TypeOK, Calls, States, Places
<1>4. /\ \A c \in Children : runner[c] = "new" /\ proc[c] = "none" /\ event[c] = FALSE
      /\ isShutdown = FALSE /\ pc = "startFirst" /\ over = "no" /\ missed = {}
      /\ "first" \in Children /\ "second" \in Children
  BY WorkflowAssumption, Zenon DEF WInit, Init
<1>5. QED
  BY <1>1, <1>3, <1>4
  DEF WorkflowInv, RunnerOwnsChild, StartedInTurn, ShutdownInTurn, MissedFirst,
      FirstEndsFirst, Settled, Started

LEMMA WorkflowNext == WorkflowInv /\ [Next]_wvars => WorkflowInv'
<1> SUFFICES ASSUME WorkflowInv, [Next]_wvars PROVE WorkflowInv'
  OBVIOUS
<1> USE DEF WorkflowInv, control, vars
<1>c. "first" \in Children /\ "second" \in Children /\ Children = {"first", "second"}
  BY WorkflowAssumption
<1>f. frames \in Seq(Calls) /\ Len(frames) \in Nat
  BY DEF TypeOK, Calls
<1>0. ASSUME frames = <<>> PROVE Len(frames) = 0
  BY <1>0, EmptySeq
<1>1. ASSUME NEW c \in Children, Runner(c) \/ Process(c) PROVE WorkflowInv'
  <2>1. Run(c) \/ Child(c)
    BY <1>1 DEF Runner, Process
  <2>2. /\ UNCHANGED <<pc, frames, limited, lock, isShutdown, signals, missed, over>>
        /\ over = "no"
    BY <1>1 DEF Runner, Process
  <2>3. TypeOK'
    BY <2>1, <2>2, RunnerStep DEF TypeOK, States, Places
  <2>4. RunnerOwnsChild'
    BY <2>1, <2>2, RunnerStep DEF RunnerOwnsChild, IsAlive
  <2>5. \A d \in Children :
          /\ runner[d] = "new" <=> runner'[d] = "new"
          /\ runner[d] = "ended" => runner'[d] = "ended"
          /\ Started(d) => Started(d)'
          /\ Settled(d) => Settled(d)'
    BY <2>1, <2>2, RunnerStep DEF Started, Settled, IsAlive, Places, States, TypeOK
  <2>6. event' = event
    BY <2>1, RunnerStep
  <2>7. StartedInTurn' /\ ShutdownInTurn' /\ MissedFirst' /\ FirstEndsFirst'
    BY <1>c, <2>2, <2>5, <2>6
    DEF StartedInTurn, ShutdownInTurn, MissedFirst, FirstEndsFirst
  <2>8. QED
    BY <2>3, <2>4, <2>7
<1>2. CASE Main
  <2> USE <1>c DEF TypeOK, RunnerOwnsChild, StartedInTurn, ShutdownInTurn, MissedFirst,
               FirstEndsFirst, Settled, Started, IsAlive, At, GoTo
  <2>1. CASE Start("first", "startFirst", "joinFirst")
    BY <1>0, <2>1 DEF Start
  <2>2. CASE FirstUp
    BY <1>0, <2>2 DEF FirstUp
  <2>3. CASE Start("second", "startSecond", "joinSecond")
    BY <1>0, <2>3 DEF Start
  <2>4. CASE SecondUp
    BY <1>0, <2>4 DEF SecondUp
  <2>5. CASE SecondFailed
    BY <1>0, <2>5 DEF SecondFailed
  <2>6. CASE FirstStopped
    BY <1>0, <2>6 DEF FirstStopped
  <2>7. CASE Watch
    BY <1>0, <2>7 DEF Watch
  <2>8. CASE Exit
    BY <2>8 DEF Exit
  <2>9. QED
    BY <1>2, <2>1, <2>2, <2>3, <2>4, <2>5, <2>6, <2>7, <2>8 DEF Main
<1>3. CASE Shutdown
  <2> USE <1>c DEF Calls
  <2>u. ASSUME NEW at \in Calls, NEW here \in Calls, Shutting(here), Step(at)
        PROVE  /\ frames' \in Seq(Calls) /\ Len(frames') = Len(frames)
               /\ Len(frames) \in 1 .. Len(frames) /\ frames[Len(frames)] = here
               /\ frames' # <<>> /\ frames # <<>>
               /\ \A i \in 1 .. Len(frames) :
                    frames'[i] = IF i = Len(frames) THEN at ELSE frames[i]
    BY <2>u, ShutdownStep, EmptySeq
  <2>1. CASE Lock
    <3> DEFINE at == IF isShutdown THEN "unlock" ELSE "first"
    <3>1. /\ ~lock /\ lock' = TRUE /\ isShutdown' = TRUE
          /\ Shutting("lock") /\ Step(at)
          /\ UNCHANGED <<vars, pc, limited, signals, missed, over>>
      BY <2>1 DEF Lock
    <3>2. at \in Calls
      OBVIOUS
    <3>3. /\ at = "unlock" => Settled("first") /\ Settled("second")
          /\ at \in {"first", "unlock"}
          /\ \A i \in 1 .. Len(frames) : frames[i] = "lock"
      BY <3>1 DEF ShutdownInTurn
    <3> HIDE DEF at
    <3>4. /\ frames' \in Seq(Calls) /\ Len(frames') = Len(frames) /\ frames' # <<>>
          /\ \A i \in 1 .. Len(frames) : frames'[i] = IF i = Len(frames) THEN at ELSE frames[i]
      BY <2>u, <3>1, <3>2
    <3>5. ShutdownInTurn'
      BY <3>1, <3>3, <3>4 DEF ShutdownInTurn, Settled, Started, IsAlive
    <3>6. QED
      BY <3>1, <3>4, <3>5 DEF TypeOK, RunnerOwnsChild, StartedInTurn, MissedFirst,
         FirstEndsFirst, Started
  <2>2. CASE Stop("first", "joinFirst", "second")
    <3>1. PICK at \in Calls :
            /\ Step(at) /\ Shutting("first")
            /\ at = IF IsAlive("first") THEN "joinFirst" ELSE "second"
      BY <2>2 DEF Stop
    <3>2. /\ event' = [event EXCEPT !["first"] = @ \/ IsAlive("first")]
          /\ missed' = IF runner["first"] = "limbo" THEN missed \cup {"first"} ELSE missed
          /\ UNCHANGED <<proc, runner, pc, limited, lock, isShutdown, signals, over>>
      BY <2>2 DEF Stop
    <3>3. lock
      BY <2>u, <3>1 DEF ShutdownInTurn
    <3>4. /\ event' \in [Children -> BOOLEAN]
          /\ event'["second"] = event["second"]
          /\ event["first"] \/ IsAlive("first") => event'["first"]
      BY <3>2 DEF TypeOK, IsAlive
    <3>5. Settled("first") => Settled("first")'
      BY <3>2, <3>4 DEF Settled, IsAlive
    <3>6. Settled("second") => Settled("second")'
      BY <3>2, <3>4 DEF Settled, IsAlive
    <3>7. /\ at = "second" => Settled("first")'
          /\ at = "joinFirst" => event'["first"] /\ Started("first")
      BY <3>1, <3>2, <3>4 DEF Settled, IsAlive, Started, TypeOK
    <3>8. ShutdownInTurn'
      BY <2>u, <3>1, <3>2, <3>3, <3>4, <3>5, <3>6, <3>7 DEF ShutdownInTurn, Started
    <3>9. MissedFirst' /\ FirstEndsFirst'
      BY <2>u, <3>1, <3>2, <3>4 DEF MissedFirst, FirstEndsFirst, StartedInTurn, Started
    <3>10. QED
      BY <2>u, <3>1, <3>2, <3>4, <3>8, <3>9
      DEF TypeOK, RunnerOwnsChild, StartedInTurn, Started
  <2>3. CASE Stop("second", "joinSecond", "unlock")
    <3>1. PICK at \in Calls :
            /\ Step(at) /\ Shutting("second")
            /\ at = IF IsAlive("second") THEN "joinSecond" ELSE "unlock"
      BY <2>3 DEF Stop
    <3>2. /\ event' = [event EXCEPT !["second"] = @ \/ IsAlive("second")]
          /\ missed' = IF runner["second"] = "limbo" THEN missed \cup {"second"} ELSE missed
          /\ UNCHANGED <<proc, runner, pc, limited, lock, isShutdown, signals, over>>
      BY <2>3 DEF Stop
    <3>3. lock /\ Settled("first")
      BY <2>u, <3>1 DEF ShutdownInTurn
    <3>4. /\ event' \in [Children -> BOOLEAN]
          /\ event'["first"] = event["first"]
          /\ event["second"] \/ IsAlive("second") <=> event'["second"]
      BY <3>2 DEF TypeOK, IsAlive
    <3>5. Settled("first") => Settled("first")'
      BY <3>2, <3>4 DEF Settled, IsAlive
    <3>6. Settled("second") => Settled("second")'
      BY <3>2, <3>4 DEF Settled, IsAlive
    <3>7. /\ at = "unlock" => Settled("second")'
          /\ at = "joinSecond" => event'["second"] /\ Started("second")
      BY <3>1, <3>2, <3>4 DEF Settled, IsAlive, Started, TypeOK
    <3>8. ShutdownInTurn'
      BY <2>u, <3>1, <3>2, <3>3, <3>4, <3>5, <3>6, <3>7 DEF ShutdownInTurn, Started
    <3>9. MissedFirst'
      BY <2>u, <3>1, <3>2 DEF MissedFirst
    <3>10. IsAlive("second") /\ ~limited => runner["first"] = "ended"
      BY <3>3 DEF Settled, MissedFirst, StartedInTurn, Started, IsAlive
    <3>11. FirstEndsFirst'
      BY <3>2, <3>4, <3>10 DEF FirstEndsFirst
    <3>12. QED
      BY <2>u, <3>1, <3>2, <3>4, <3>8, <3>9, <3>11
      DEF TypeOK, RunnerOwnsChild, StartedInTurn, Started
  <2>4. CASE Join("first", "joinFirst", "second")
    <3>1. /\ Shutting("joinFirst") /\ Step("second")
          /\ ~IsAlive("first") \/ limited
          /\ UNCHANGED <<vars, pc, control>>
      BY <2>4 DEF Join
    <3>2. lock /\ event["first"] /\ Started("first")
      BY <2>u, <3>1 DEF ShutdownInTurn
    <3>3. Settled("first")
      BY <3>1, <3>2 DEF Settled, Started, IsAlive
    <3>4. ShutdownInTurn'
      BY <2>u, <3>1, <3>2, <3>3 DEF ShutdownInTurn, Started, Settled, IsAlive
    <3>5. QED
      BY <2>u, <3>1, <3>4
      DEF TypeOK, RunnerOwnsChild, StartedInTurn, MissedFirst, FirstEndsFirst, Started
  <2>5. CASE Join("second", "joinSecond", "unlock")
    <3>1. /\ Shutting("joinSecond") /\ Step("unlock")
          /\ ~IsAlive("second") \/ limited
          /\ UNCHANGED <<vars, pc, control>>
      BY <2>5 DEF Join
    <3>2. lock /\ event["second"] /\ Started("second") /\ Settled("first")
      BY <2>u, <3>1 DEF ShutdownInTurn
    <3>3. Settled("second")
      BY <3>1, <3>2 DEF Settled, Started, IsAlive
    <3>4. ShutdownInTurn'
      BY <2>u, <3>1, <3>2, <3>3 DEF ShutdownInTurn, Started, Settled, IsAlive
    <3>5. QED
      BY <2>u, <3>1, <3>4
      DEF TypeOK, RunnerOwnsChild, StartedInTurn, MissedFirst, FirstEndsFirst, Started
  <2>6. CASE Unlock
    <3>1. /\ Shutting("unlock") /\ lock' = FALSE /\ frames' = <<>> /\ pc' = "exit"
          /\ over' \in {"no", "abandoned"}
          /\ UNCHANGED <<vars, limited, isShutdown, signals, missed>>
      BY <2>6 DEF Unlock
    <3>2. Len(frames) \in 1 .. Len(frames) /\ frames[Len(frames)] = "unlock"
      BY <1>f, <3>1, EmptySeq DEF Shutting, Last
    <3>3. Settled("first") /\ Settled("second") /\ lock
      BY <3>2 DEF ShutdownInTurn
    <3>4. frames' \in Seq(Calls) /\ Len(frames') = 0
      BY <3>1, EmptySeq
    <3>5. ShutdownInTurn'
      BY <3>1, <3>3, <3>4 DEF ShutdownInTurn, Settled, IsAlive
    <3>6. QED
      BY <3>1, <3>4, <3>5
      DEF TypeOK, RunnerOwnsChild, StartedInTurn, MissedFirst, FirstEndsFirst, Started
  <2>7. QED
    BY <1>3, <2>1, <2>2, <2>3, <2>4, <2>5, <2>6 DEF Shutdown
<1>4. CASE Interrupt
  <2>1. /\ signals < NumSignals /\ signals' = signals + 1 /\ frames' = Append(frames, "lock")
        /\ UNCHANGED <<vars, pc, limited, lock, isShutdown, missed, over>>
    BY <1>4 DEF Interrupt
  <2>2. "lock" \in Calls
    BY DEF Calls
  <2>3. /\ frames' \in Seq(Calls) /\ Len(frames') = Len(frames) + 1
        /\ \A i \in 1 .. Len(frames) : frames'[i] = frames[i]
        /\ frames'[Len(frames) + 1] = "lock" /\ frames' # <<>>
    BY <1>f, <2>1, <2>2, AppendProperties
  <2>4. TypeOK'
    BY <2>1, <2>3, WorkflowAssumption DEF TypeOK, Calls
  <2>5. ShutdownInTurn'
    BY <1>f, <2>1, <2>3 DEF ShutdownInTurn, Settled, Started, IsAlive
  <2>6. QED
    BY <2>1, <2>3, <2>4, <2>5
    DEF RunnerOwnsChild, StartedInTurn, MissedFirst, FirstEndsFirst, Started
<1>5. CASE UNCHANGED wvars
  <2>1. /\ UNCHANGED <<proc, runner, event>> /\ UNCHANGED <<pc, frames>>
        /\ UNCHANGED <<limited, lock, isShutdown, signals, missed, over>>
    BY <1>5 DEF wvars
  <2>2. TypeOK'
    BY <2>1 DEF TypeOK
  <2>3. RunnerOwnsChild' /\ StartedInTurn'
    BY <2>1 DEF RunnerOwnsChild, StartedInTurn, Started
  <2>4. ShutdownInTurn' /\ MissedFirst' /\ FirstEndsFirst'
    BY <2>1 DEF ShutdownInTurn, MissedFirst, FirstEndsFirst, Settled, Started, IsAlive
  <2>5. QED
    BY <2>2, <2>3, <2>4
<1>6. QED
  BY <1>1, <1>2, <1>3, <1>4, <1>5 DEF Next, Terminated

-----------------------------------------------------------------------------
(* The theorems.                                                           *)

LEMMA WorkflowSafe == Spec => []WorkflowInv
  BY WorkflowInit, WorkflowNext, PTL DEF Spec

\* Every variable of a script and of its runners keeps its type.
THEOREM TypeCorrect == Spec => []TypeOK
<1>1. WorkflowInv => TypeOK
  BY DEF WorkflowInv
<1>2. QED
  BY <1>1, WorkflowSafe, PTL

\* A script that ends in the ordinary way has reaped every child that it
\* started, whether it ended by itself, on SIGTERM or on SIGKILL.
THEOREM NoOrphans == Spec => []NoneLeftBehind
<1>1. WorkflowInv => NoneLeftBehind
  <2> SUFFICES ASSUME WorkflowInv PROVE NoneLeftBehind
    OBVIOUS
  <2>1. RunnerOwnsChild
    BY DEF WorkflowInv
  <2>2. QED
    BY <2>1 DEF RunnerOwnsChild, NoneLeftBehind
<1>2. QED
  BY <1>1, WorkflowSafe, PTL

\* However run() is left, each child has ended or, with limited joins, has been
\* told to: but for one in limbo when Ctrl-C came.
THEOREM ExitAfterStop == Spec => []StoppedBeforeExit
<1>1. WorkflowInv => StoppedBeforeExit
  BY WorkflowAssumption
  DEF WorkflowInv, ShutdownInTurn, Settled, StoppedBeforeExit, IsAlive
<1>2. QED
  BY <1>1, WorkflowSafe, PTL

\* With joins that wait, the consumer is told to end after the producer ended.
THEOREM ProducerEndsFirst == Spec => []ConsumerLast
<1>1. WorkflowInv => ConsumerLast
  BY DEF WorkflowInv, FirstEndsFirst, ConsumerLast, IsAlive
<1>2. QED
  BY <1>1, WorkflowSafe, PTL
===============================================================================
