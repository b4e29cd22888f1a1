--------------------------- MODULE MCProcessTrack ---------------------------
(* Two threads, which are alike.  The configurations choose which of the    *)
(* process identifiers run when monitoring starts and what may fail.        *)
EXTENDS ProcessTrack, TLC

ThreadSymmetry == Permutations(Threads)

=============================================================================
