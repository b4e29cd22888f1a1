------------------------------ MODULE PidScope ------------------------------
(***************************************************************************)
(* Which processes a capture follows (crates/core/src/scope.rs): the named  *)
(* ones, the given identifiers and, when asked, the children of those       *)
(* already followed.                                                        *)
(***************************************************************************)
EXTENDS Analyze

ScopeNew(names, pids, children) ==
  [names |-> {LowerCase(n) : n \in names}, pids |-> pids, seqs |-> {},
   children |-> children, all |-> names = {} /\ pids = {}]

AddPid(scope, pid) == [scope EXCEPT !.pids = @ \union {pid}]

InScope(scope, x) ==
  \/ scope.all
  \/ Pid(x.e, x.row) \in scope.pids
  \/ ProcessSeq(x.e) # 0 /\ ProcessSeq(x.e) \in scope.seqs

ObserveProcess(scope, x) ==
  LET pid == Pid(x.e, x.row)
      nameHit == x.row # NoRow /\ LowerCase(ProcessName(x.row)) \in scope.names
      childHit == /\ scope.children /\ x.row # NoRow
                  /\ ParentPid(x) \in scope.pids /\ pid \notin scope.pids
      seqs == IF ProcessSeq(x.e) = 0 THEN {} ELSE {ProcessSeq(x.e)}
  IN IF scope.all \/ ~(nameHit \/ childHit) THEN scope
     ELSE [scope EXCEPT !.pids = @ \union {pid}, !.seqs = @ \union seqs]
=============================================================================
