------------------------------- MODULE MCSender -------------------------------
(* Values for TLC: blocks and the Segmenter's threads are interchangeable.   *)
EXTENDS Sender, TLC

Symmetry == Permutations(SendThreads) \cup Permutations(Blocks)

SendAllOfAFile   == [nEvents |-> 0, useCt |-> TRUE, ring |-> FALSE, useCP |-> TRUE]
SendTwoFromARing == [nEvents |-> 2, useCt |-> FALSE, ring |-> TRUE, useCP |-> FALSE]

Physics(s, t) == [size |-> s, physics |-> TRUE, time |-> t]
OtherItem(s)  == [size |-> s, physics |-> FALSE, time |-> 0]

\* Three sizes to a buffer of three: a part of it, all of it and too much.
MixedItems == {Physics(1, 1), Physics(3, 2), OtherItem(1), Physics(4, 3)}
ThreeSizes == {Physics(1, 1), Physics(3, 1), Physics(4, 1)}

OneCommandLine == {{"send", "useCt"}, {"send", "num"}}

\* No program, one or both, and any one option besides.
AllCommandLines ==
  { p \cup v \cup {o} : p \in SUBSET {"send", "recv"}, v \in {{"useCt"}, {"num"}},
                      o \in SenderOptions \cup ReceiverOptions \cup OtherOptions }

AllConfigs  == {SendAllOfAFile, SendTwoFromARing}
FileConfigs == {SendAllOfAFile}
=============================================================================
