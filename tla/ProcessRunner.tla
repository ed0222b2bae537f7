---------------------------- MODULE ProcessRunner ----------------------------
(***************************************************************************)
(* scripts/process_runner.py: a thread for each child process, which       *)
(* starts it, reads its output and reaps it, and which terminates and, five *)
(* seconds later, kills it when its event is set.                          *)
(***************************************************************************)
EXTENDS Naturals

CONSTANT Children

VARIABLES
  proc,   \* the child processes; "exited" ones have not been reaped
  runner, \* where each thread is; "limbo": start() has not seen it run yet
  event   \* term_event of each

vars == <<proc, runner, event>>

Init ==
  /\ proc = [c \in Children |-> "none"]
  /\ runner = [c \in Children |-> "new"]
  /\ event = [c \in Children |-> FALSE]

\* Thread.is_alive(): not before the thread has reported that it runs.
IsAlive(c) == runner[c] \notin {"new", "limbo", "ended"}

GoTo(c, place)    == runner' = [runner EXCEPT ![c] = place]
Becomes(c, state) == proc' = [proc EXCEPT ![c] = state]

-----------------------------------------------------------------------------
(* run().                                                                  *)

Begin(c) ==
  /\ runner[c] = "limbo"
  /\ GoTo(c, "popen")
  /\ UNCHANGED <<proc, event>>

Popen(c) ==
  /\ runner[c] = "popen"
  /\ GoTo(c, "poll") /\ Becomes(c, "running")
  /\ UNCHANGED event

\* There is no such program: the exception ends the thread.
PopenFails(c) ==
  /\ runner[c] = "popen"
  /\ GoTo(c, "ended")
  /\ UNCHANGED <<proc, event>>

\* poll() reaps, or has the return code of an earlier wait().
PollEnds(c) ==
  /\ runner[c] = "poll"
  /\ proc[c] # "running"
  /\ GoTo(c, "ended") /\ Becomes(c, "reaped")
  /\ UNCHANGED event

Terminate(c) ==
  /\ runner[c] = "poll"
  /\ proc[c] = "running"
  /\ event[c]
  /\ GoTo(c, "wait")
  /\ UNCHANGED <<proc, event>>

\* select() and readline(): one that reads a line that is not complete waits for
\* the rest of it, or for the end of the child.
ReadPartialLine(c) ==
  /\ runner[c] = "poll"
  /\ proc[c] = "running"
  /\ ~event[c]
  /\ GoTo(c, "read")
  /\ UNCHANGED <<proc, event>>

ReadEnds(c) ==
  /\ runner[c] = "read"
  /\ proc[c] # "running"
  /\ GoTo(c, "poll")
  /\ UNCHANGED <<proc, event>>

\* wait(timeout=5) returns; the loop goes on, with a line if there is one, before
\* it comes to poll().
WaitEnds(c) ==
  /\ runner[c] = "wait"
  /\ proc[c] = "exited"
  /\ GoTo(c, "read") /\ Becomes(c, "reaped")
  /\ UNCHANGED event

\* wait(timeout=5) expires; the child may still end before it is killed.
Expire(c) ==
  /\ runner[c] = "wait"
  /\ proc[c] = "running"
  /\ GoTo(c, "kill")
  /\ UNCHANGED <<proc, event>>

\* kill() polls first, which reaps a child that has ended, and spares its pid.
Kill(c) ==
  /\ runner[c] = "kill"
  /\ Becomes(c, IF proc[c] = "running" THEN "exited" ELSE "reaped")
  /\ GoTo(c, "reap")
  /\ UNCHANGED event

\* Mutant: nobody waits for a child that was killed.
LeaveKilled(c) ==
  /\ runner[c] = "reap"
  /\ GoTo(c, "ended")
  /\ UNCHANGED <<proc, event>>

ReapKilled(c) ==
  /\ runner[c] = "reap"
  /\ GoTo(c, "ended") /\ Becomes(c, "reaped")
  /\ UNCHANGED event

Run(c) ==
  \/ Begin(c) \/ Popen(c) \/ PopenFails(c)
  \/ PollEnds(c) \/ Terminate(c) \/ ReadPartialLine(c) \/ ReadEnds(c)
  \/ WaitEnds(c) \/ Expire(c) \/ Kill(c) \/ ReapKilled(c)

-----------------------------------------------------------------------------
(* The child: it may end by itself, by the terminal's SIGINT or by the     *)
(* SIGTERM of terminate(), or complete its line.                           *)

ChildExits(c) ==
  /\ proc[c] = "running"
  /\ Becomes(c, "exited")
  /\ UNCHANGED <<runner, event>>

CompleteLine(c) ==
  /\ runner[c] = "read"
  /\ proc[c] = "running"
  /\ GoTo(c, "poll")
  /\ UNCHANGED <<proc, event>>

Child(c) == ChildExits(c) \/ CompleteLine(c)
=============================================================================
