---------------------------- MODULE MCCorrelator ----------------------------
(* Four operations over three start times, at most one of them staged above
   the cap. *)
EXTENDS CorrelatorStream, TLC
=============================================================================
