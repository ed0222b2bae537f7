----------------------------- MODULE OrderedSink -----------------------------
(***************************************************************************)
(* What BufferedSink promises to its callers, without threads, queues,     *)
(* windows or time: buffers are accepted, some are reported late, each is  *)
(* written at most once and with the time it came with, and the sink goes  *)
(* back in time only to a buffer that has been reported.                   *)
(***************************************************************************)
EXTENDS Naturals, Sequences, SequencesExt

CONSTANT Times  \* the values of s_time

VARIABLES
  arrived,    \* s_time of the buffers accepted, in the order of addData()
  late,       \* numbers of the buffers reported late
  written,    \* what the sink holds: [id, s_time]
  discarded,  \* numbers of the buffers freed without being written
  open        \* the BufferedSink has not been destroyed

vars == <<arrived, late, written, discarded, open>>

Pending == (1 .. Len(arrived)) \ (discarded \cup {b.id : b \in ToSet(written)})

Init ==
  /\ arrived = <<>>
  /\ late = {}
  /\ written = <<>>
  /\ discarded = {}
  /\ open = TRUE

Accept ==
  /\ open
  /\ \E t \in Times : arrived' = Append(arrived, t)
  /\ UNCHANGED <<late, written, discarded, open>>

Report(n) ==
  /\ written # <<>>
  /\ arrived[n] < Last(written).s_time
  /\ late' = late \cup {n}
  /\ UNCHANGED <<arrived, written, discarded, open>>

\* Of the buffers with one time the first to come is the first to go.
Write(n) ==
  /\ \A m \in Pending : arrived[m] = arrived[n] => n <= m
  /\ written # <<>> /\ Last(written).s_time > arrived[n] => n \in late
  /\ written' = Append(written, [id |-> n, s_time |-> arrived[n]])
  /\ UNCHANGED <<arrived, late, discarded, open>>

Close ==
  /\ open
  /\ discarded' = Pending
  /\ open' = FALSE
  /\ UNCHANGED <<arrived, late, written>>

Next ==
  \/ Accept
  \/ open /\ \E n \in Pending : Report(n) \/ Write(n)
  \/ Close

Spec == Init /\ [][Next]_vars
=============================================================================
