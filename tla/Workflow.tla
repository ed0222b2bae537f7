------------------------------- MODULE Workflow -------------------------------
(***************************************************************************)
(* The workflow scripts, scripts/workflows.py: run() and shutdown() of     *)
(* ReassembleAndSort, ReassembleAndLog, ReassembleAndFit and EvbAndLog,    *)
(* with the handler of SIGINT, on top of ProcessRunner.  The four classes  *)
(* differ in their commands and in whether shutdown() limits its joins to  *)
(* five seconds, as that of ReassembleAndFit does.                         *)
(*                                                                         *)
(* Python runs the handler on the main thread between two steps of what    *)
(* that was doing, also of the handler itself, and also in a join().       *)
(***************************************************************************)
EXTENDS Sequences, SequencesExt, ProcessRunner

CONSTANT NumSignals \* bound: times Ctrl-C is pressed

ASSUME WorkflowAssumption == Children = {"first", "second"} /\ NumSignals \in Nat

VARIABLES
  limited,    \* the joins of shutdown() have a timeout
  pc,         \* where the main thread is in run()
  frames,     \* where the calls of shutdown() on top of it are, innermost last
  lock,       \* self.lock
  isShutdown, \* self.is_shutdown
  signals,    \* number of SIGINTs
  missed,     \* history: children in limbo when shutdown() looked at them
  over        \* how the script ended: "no", "ended", "abandoned"

control == <<limited, lock, isShutdown, signals, missed, over>>
wvars   == <<vars, pc, frames, control>>

WInit ==
  /\ Init
  /\ limited \in BOOLEAN
  /\ pc = "startFirst"
  /\ frames = <<>>
  /\ lock = FALSE /\ isShutdown = FALSE
  /\ signals = 0
  /\ missed = {}
  /\ over = "no"

At(p) == over = "no" /\ frames = <<>> /\ pc = p

-----------------------------------------------------------------------------
(* run().                                                                  *)

Start(c, here, next) ==
  /\ At(here)
  /\ GoTo(c, "limbo")
  /\ pc' = next
  /\ UNCHANGED <<proc, event, frames, control>>

\* start() returns when the thread runs, join(timeout=1) when it has ended or
\* after a second: "failed to start" is a runner that is not alive any more.
FirstUp ==
  /\ At("joinFirst")
  /\ runner["first"] # "limbo"
  /\ pc' = IF IsAlive("first") THEN "startSecond" ELSE "exit"
  /\ UNCHANGED <<vars, frames, control>>

SecondUp ==
  /\ At("joinSecond")
  /\ IsAlive("second")
  /\ pc' = "watch"
  /\ UNCHANGED <<vars, frames, control>>

\* Mutant: the first child is left running.
SecondFailedOnly ==
  /\ At("joinSecond")
  /\ runner["second"] = "ended"
  /\ pc' = "exit"
  /\ UNCHANGED <<vars, frames, control>>

SecondFailed ==
  /\ At("joinSecond")
  /\ runner["second"] = "ended"
  /\ event' = [event EXCEPT !["first"] = @ \/ IsAlive("first")]
  /\ pc' = "stopFirst"
  /\ UNCHANGED <<proc, runner, frames, control>>

FirstStopped ==
  /\ At("stopFirst")
  /\ ~IsAlive("first")
  /\ pc' = "exit"
  /\ UNCHANGED <<vars, frames, control>>

\* Mutant: the script goes on until both have ended.
WatchBoth ==
  /\ At("watch")
  /\ \A c \in Children : ~IsAlive(c)
  /\ frames' = <<"lock">>
  /\ UNCHANGED <<vars, pc, control>>

Watch ==
  /\ At("watch")
  /\ \E c \in Children : ~IsAlive(c)
  /\ frames' = <<"lock">>
  /\ UNCHANGED <<vars, pc, control>>

\* The interpreter waits for the runners that were started.
Exit ==
  /\ At("exit")
  /\ \A c \in Children : runner[c] \in {"new", "ended"}
  /\ over' = "ended"
  /\ UNCHANGED <<vars, pc, frames, limited, lock, isShutdown, signals, missed>>

Main ==
  \/ Start("first", "startFirst", "joinFirst") \/ FirstUp
  \/ Start("second", "startSecond", "joinSecond") \/ SecondUp \/ SecondFailed
  \/ FirstStopped \/ Watch \/ Exit

-----------------------------------------------------------------------------
(* shutdown(), and _shutdown_handler() around it.                          *)

Shutting(at) == over = "no" /\ frames # <<>> /\ Last(frames) = at
Step(at)     == frames' = [frames EXCEPT ![Len(frames)] = at]

\* Taking the lock, and the flag that says there was a shutdown before.
Lock ==
  /\ Shutting("lock")
  /\ ~lock
  /\ lock' = TRUE
  /\ isShutdown' = TRUE
  /\ Step(IF isShutdown THEN "unlock" ELSE "first")
  /\ UNCHANGED <<vars, pc, limited, signals, missed, over>>

\* if proc and proc.is_alive(): event.set(); join()
Stop(c, join, next) ==
  /\ Shutting(c)
  /\ event' = [event EXCEPT ![c] = @ \/ IsAlive(c)]
  /\ missed' = IF runner[c] = "limbo" THEN missed \cup {c} ELSE missed
  /\ Step(IF IsAlive(c) THEN join ELSE next)
  /\ UNCHANGED <<proc, runner, pc, limited, lock, isShutdown, signals, over>>

\* Mutant: every class limits its joins.
JoinLimited(c, here, next) ==
  /\ Shutting(here)
  /\ Step(next)
  /\ UNCHANGED <<vars, pc, control>>

Join(c, here, next) ==
  /\ Shutting(here)
  /\ ~IsAlive(c) \/ limited
  /\ Step(next)
  /\ UNCHANGED <<vars, pc, control>>

\* Back in run(), or out of it: _shutdown_handler() raises KeyboardInterrupt,
\* which unwinds everything; the interpreter's wait may be what it unwinds.
Unlock ==
  /\ Shutting("unlock")
  /\ lock' = FALSE
  /\ frames' = <<>>
  /\ pc' = "exit"
  /\ over' \in IF pc = "exit" THEN {"no", "abandoned"} ELSE {"no"}
  /\ UNCHANGED <<vars, limited, isShutdown, signals, missed>>

Shutdown ==
  \/ Lock
  \/ Stop("first", "joinFirst", "second") \/ Join("first", "joinFirst", "second")
  \/ Stop("second", "joinSecond", "unlock") \/ Join("second", "joinSecond", "unlock")
  \/ Unlock

Interrupt ==
  /\ over = "no"
  /\ signals < NumSignals
  /\ signals' = signals + 1
  /\ frames' = Append(frames, "lock")
  /\ UNCHANGED <<vars, pc, limited, lock, isShutdown, missed, over>>

\* The innermost call waits for a lock that the call it interrupted holds.
Hung == Shutting("lock") /\ lock

-----------------------------------------------------------------------------
Runner(c) == over = "no" /\ Run(c) /\ UNCHANGED <<pc, frames, control>>
Process(c) == over = "no" /\ Child(c) /\ UNCHANGED <<pc, frames, control>>

Terminated == (over # "no" \/ Hung) /\ UNCHANGED wvars

Next ==
  \/ Main \/ Shutdown \/ Interrupt
  \/ \E c \in Children : Runner(c) \/ Process(c)
  \/ Terminated

Spec == WInit /\ [][Next]_wvars

\* The threads of the script are scheduled; children and the user are free.
FairSpec ==
  Spec /\ WF_wvars(Main \/ Shutdown) /\ \A c \in Children : WF_wvars(Runner(c))

-----------------------------------------------------------------------------
TypeOK ==
  /\ proc \in [Children -> {"none", "running", "exited", "reaped"}]
  /\ runner \in [Children -> {"new", "limbo", "popen", "poll", "read", "wait",
                             "kill", "reap", "ended"}]
  /\ event \in [Children -> BOOLEAN]
  /\ limited \in BOOLEAN /\ lock \in BOOLEAN /\ isShutdown \in BOOLEAN
  /\ pc \in {"startFirst", "joinFirst", "startSecond", "joinSecond", "watch",
            "stopFirst", "exit"}
  /\ frames \in Seq({"lock", "first", "joinFirst", "second", "joinSecond", "unlock"})
  /\ signals \in 0 .. NumSignals
  /\ missed \subseteq Children
  /\ over \in {"no", "ended", "abandoned"}

\* A runner ends after it has reaped its child, however it came to its end, so
\* a script that ends in the ordinary way leaves no process behind.
NoneLeftBehind ==
  /\ \A c \in Children : runner[c] = "ended" => proc[c] \in {"none", "reaped"}
  /\ over = "ended" => \A c \in Children : proc[c] \in {"none", "reaped"}

\* run() is never left, by an early exit, the end of a child or Ctrl-C, before
\* each child has ended, or with limited joins has been told to; but for a child
\* in limbo when Ctrl-C came.
StoppedBeforeExit ==
  pc = "exit" => \A c \in Children \ missed : IsAlive(c) => limited /\ event[c]

\* The consumer is told to end after the producer has ended, so what the
\* producer wrote last can still be read.
ConsumerLast ==
  event["second"] /\ ~limited => ~IsAlive("first")

-----------------------------------------------------------------------------
\* What keeps a script from ending: a call of shutdown() on top of another, a
\* child whose runner was in limbo, and one that stops in the middle of a line.
Held ==
  \/ Hung
  \/ \E c \in missed : proc[c] = "running"
  \/ \E c \in Children : runner[c] = "read" /\ proc[c] = "running"

\* Under FairSpec, Ctrl-C ends the script and its children, and so does a child
\* that ends, or cannot be started.
AllEnd ==
  (signals > 0 \/ \E c \in Children : runner[c] = "ended") ~> (over # "no" \/ []Held)

-----------------------------------------------------------------------------
(* Stated by the repository, and not what the code does.                   *)

\* "is_shutdown (bool): Flag to prevent double shutdown on, e.g., Ctrl-C"
\* (workflows.py:104): Ctrl-C during a shutdown returns from the second call.
SecondCallReturns == ~Hung
=============================================================================
