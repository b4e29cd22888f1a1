-------------------------- MODULE CorrelatorStream --------------------------
(***************************************************************************)
(* The Correlator of one driver session, fed with the record stream the    *)
(* driver log delivers (KernelLog): PRE records carry increasing sequences *)
(* and start times that never decrease, a POST comes after its PRE and at  *)
(* most once, and either may be missing because the log refused it.        *)
(***************************************************************************)
EXTENDS Correlator

CONSTANTS
  MaxOps,     (* bound: operations in the stream                          *)
  MaxTime     (* bound: distinct start times                              *)

ASSUME StreamAssumption == MaxOps \in Nat /\ MaxTime \in Nat

VARIABLES
  clock,      (* start time of the latest record                          *)
  nextSeq,    (* sequence of the latest PRE                               *)
  awaited,    (* pending operations the driver may still complete         *)
  posted,     (* operations whose POST was ingested                       *)
  stray       (* sequences of POSTs whose PRE was never delivered         *)

streamvars == <<clock, nextSeq, awaited, posted, stray>>
vars == <<corrvars, streamvars>>

Init ==
  /\ CorrInit
  /\ clock = 1
  /\ nextSeq = 0
  /\ awaited = {}
  /\ posted = {}
  /\ stray = {}

Times == clock..MaxTime

\* The next record of a batch is a PRE ...
NextOp(t) == [seq |-> nextSeq + 1, time |-> t]

RecordPending ==
  /\ nextSeq < MaxOps
  /\ \E t \in Times : IngestPending(NextOp(t)) /\ clock' = t
  /\ nextSeq' = nextSeq + 1
  /\ awaited' = awaited \union {nextSeq + 1}
  /\ UNCHANGED <<posted, stray>>

\* A load of an image or a thread is over when it is logged.
RecordSync ==
  /\ nextSeq < MaxOps
  /\ \E t \in Times : IngestSync(NextOp(t)) /\ clock' = t
  /\ nextSeq' = nextSeq + 1
  /\ UNCHANGED <<awaited, posted, stray>>

RecordInit ==
  /\ \E t \in Times : IngestInit(t) /\ clock' = t
  /\ UNCHANGED <<nextSeq, awaited, posted, stray>>

\* ... or a POST: of an operation that is open, or of one whose PRE was freed
\* with its buffer when monitoring stopped (EnableLogger) and that ends after
\* monitoring was started again.
RecordPost ==
  /\ \E s \in awaited :
       /\ IngestPost(s)
       /\ awaited' = awaited \ {s}
       /\ posted' = posted \union {s}
  /\ UNCHANGED <<clock, nextSeq, stray>>

RecordStrayPost ==
  /\ nextSeq < MaxOps
  /\ IngestPost(nextSeq + 1)
  /\ nextSeq' = nextSeq + 1
  /\ stray' = stray \union {nextSeq + 1}
  /\ UNCHANGED <<clock, awaited, posted>>

Begin == (BeginBatch \/ BeginFlush) /\ UNCHANGED streamvars

Internal == CorrInternal /\ UNCHANGED streamvars

Next ==
  \/ RecordPending \/ RecordSync \/ RecordInit \/ RecordPost \/ RecordStrayPost
  \/ Begin \/ Internal

Spec == Init /\ [][Next]_vars

-----------------------------------------------------------------------------
(* Properties.                                                             *)

\* Every operation whose PRE was ingested is in exactly one place: pending,
\* staged, or emitted once; and an emitted event carries its completion
\* exactly when the POST was ingested.
Emitted(s) == {i \in 1..Len(out) : out[i].seq = s}

Conserved ==
  /\ \A s \in 1..nextSeq :
       Cardinality({p \in pending : p.seq = s})
         + Cardinality({r \in reorder : r.seq = s})
         + Cardinality(Emitted(s)) = IF s \in stray THEN 0 ELSE 1
  /\ \A i \in 1..Len(out) : out[i].done <=> out[i].seq \in posted

\* Events leave in start-time order.  The one exception is an event that was
\* forced out because the heap was over CAP: an older one may follow it.
InOrder ==
  \A i, j \in 1..Len(out) :
    i < j /\ out[i].time > out[j].time => out[i].seq \in forced

\* Operations that need no completion leave in the order in which they
\* arrived, even when start times are equal or the heap is forced out.
SyncOrder ==
  \A i, j \in 1..Len(out) :
    /\ i < j
    /\ out[i].seq \notin posted \union awaited
    /\ out[j].seq \notin posted \union awaited
    => out[i].seq < out[j].seq

\* The watermark is a promise: it never moves back, and once drain_ready has
\* emitted what it covers, no event that starts before it is emitted.
WatermarkHolds ==
  [][/\ watermark <= watermark'
     /\ phase # "drain" =>
          \A i \in (Len(out) + 1)..Len(out') : out'[i].time >= watermark]_vars

\* Between batches nothing that is settled waits: what is still staged lies
\* above the mark and within CAP, and waits for an operation that is pending.
Settled ==
  phase = "idle" =>
    /\ \A r \in reorder : r.time > watermark
    /\ Cardinality(reorder) <= Cap
    /\ reorder # {} => pending # {}

TypeOK ==
  /\ pending \subseteq Op
  /\ reorder \subseteq StagedType
  /\ ord \in Nat
  /\ \A r \in reorder : r.ord < ord
  /\ maxSeen \in Nat
  /\ watermark \in Nat
  /\ out \in Seq(EventType)
  /\ forced \subseteq Nat
  /\ phase \in {"idle", "ingest", "drain", "stage", "flush", "end"}
  /\ clock \in Nat
  /\ nextSeq \in Nat
  /\ awaited \subseteq 1..nextSeq
  /\ posted \subseteq 1..nextSeq
  /\ stray \subseteq 1..nextSeq

=============================================================================
