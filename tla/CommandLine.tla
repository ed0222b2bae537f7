------------------------------ MODULE CommandLine -----------------------------
(***************************************************************************)
(* The command line of e2sarwf, e2sarwf/e2sarwf.cpp: the options, and      *)
(* which of them main() accepts together.  A command line is the set of    *)
(* options it gives; their values are the configuration of the program.    *)
(***************************************************************************)

\* The options by the programs their descriptions name, [s] and [r].
SenderOptions ==
  {"bufsize", "num", "srcid", "dataid", "rate", "optimize", "mtu", "source",
   "read-timeout", "ddasraw"}
ReceiverOptions ==
  {"threads", "period", "duration", "port", "dequeue", "proto", "hostname",
   "basepath", "sinkname", "sink-timeout", "sink-window"}
OtherOptions ==
  {"help", "uri", "ini", "ip", "cores", "nscldaq-version", "useCt", "debug"}

WithoutDefault ==
  {"send", "recv", "help", "ini", "cores", "optimize", "mtu", "sink-timeout",
   "sink-window"}

\* conflicting_options(), call by call; "src" is the name of no option.
ConflictsWithSend ==
  {"recv", "threads", "period", "duration", "dequeue", "port", "proto", "hostname",
   "basepath", "sinkname", "sink-timeout", "sink-window"}
ConflictsWithRecv ==
  {"num", "src", "dataid", "rate", "source", "mtu", "bufsize", "optimize",
   "read-timeout", "ddasraw"}

\* Mutant: --sink-window, which came later, is not compared with --send.
ConflictsEarlier ==
  {{"send", o} : o \in ConflictsWithSend \ {"sink-window"}}
    \cup {{"recv", o} : o \in ConflictsWithRecv} \cup {{"cores", "threads"}}

Conflicts ==
  {{"send", o} : o \in ConflictsWithSend} \cup {{"recv", o} : o \in ConflictsWithRecv}
    \cup {{"cores", "threads"}}

\* option_dependency(): <<an option, what it requires>>.
Dependencies ==
  {"send"} \X {"ip", "source", "rate"} \cup
    {"recv"} \X {"ip", "port", "proto", "hostname", "basepath", "sinkname"}

\* vm.count(): an option that is given, or that has a default.
HasValue(given, o) == o \in given \/ o \notin WithoutDefault

OptionsRefused(given) ==
  \/ \E c \in Conflicts : c \subseteq given
  \/ \E d \in Dependencies : d[1] \in given /\ ~HasValue(given, d[2])
===============================================================================
