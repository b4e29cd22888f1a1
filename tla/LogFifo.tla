------------------------------ MODULE LogFifo ------------------------------
(***************************************************************************)
(* What the driver's log promises its client, abstractly: a first-in       *)
(* first-out queue of records that is emptied in whole prefixes.  Records  *)
(* are named by the order in which they were written, so that the queue is *)
(* a set of names and its prefixes are the oldest of them.  A prefix that  *)
(* was taken may be lost on the way, and the queue may be discarded when   *)
(* monitoring is switched off, but nothing is reordered or delivered       *)
(* twice.  KernelLog (kernel/log.c) implements this specification.         *)
(***************************************************************************)
EXTENDS Naturals, Sequences

VARIABLES
  written,    (* how many records were ever written                       *)
  waiting,    (* written, not yet taken by the sending thread             *)
  sending,    (* the records the sending thread has in its hands          *)
  delivered   (* everything the client has received, in order             *)

fvars == <<written, waiting, sending, delivered>>

Init ==
  /\ written = 0
  /\ waiting = {}
  /\ sending = << >>
  /\ delivered = << >>

Write ==
  /\ written' = written + 1
  /\ waiting' = waiting \union {written + 1}
  /\ UNCHANGED <<sending, delivered>>

\* s is the records of S, in the order in which they were written.
Lists(s, S) ==
  /\ S = {s[i] : i \in 1..Len(s)}
  /\ \A i, j \in 1..Len(s) : i < j => s[i] < s[j]

Take ==
  /\ sending = << >>
  /\ \E newest \in waiting :
       /\ Lists(sending', {r \in waiting : r <= newest})
       /\ waiting' = {r \in waiting : r > newest}
  /\ UNCHANGED <<written, delivered>>

Deliver ==
  /\ sending # << >>
  /\ delivered' = delivered \o sending
  /\ sending' = << >>
  /\ UNCHANGED <<written, waiting>>

Lose ==
  /\ sending # << >>
  /\ sending' = << >>
  /\ UNCHANGED <<written, waiting, delivered>>

Discard ==
  /\ waiting # {}
  /\ waiting' = {}
  /\ UNCHANGED <<written, sending, delivered>>

Next == Write \/ Take \/ Deliver \/ Lose \/ Discard

Spec == Init /\ [][Next]_fvars
=============================================================================
