--------------------------- MODULE MCBufferedSink ---------------------------
(* BufferedSink for TLC: the dequeue threads are interchangeable. *)
EXTENDS BufferedSink

Symmetry == Permutations(Producers)
=============================================================================
