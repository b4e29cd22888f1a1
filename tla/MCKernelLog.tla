---------------------------- MODULE MCKernelLog ----------------------------
(* Two intercepted threads; buffers of two records of one unit each, the
   second of which crosses WakeLen; three records and two sessions. *)
EXTENDS KernelLog

CONSTANTS w1, w2

MCWriters == {w1, w2}
=============================================================================
