----------------------------- MODULE MCPipeline -----------------------------
(* Two operations in messages of at most two records, one batch in flight,
   one network event, two sessions. *)
EXTENDS Pipeline, TLC
=============================================================================
