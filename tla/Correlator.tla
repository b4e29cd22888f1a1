----------------------------- MODULE Correlator -----------------------------
(***************************************************************************)
(* The Correlator of crates/sdk/src/parse/mod.rs: it pairs PRE records     *)
(* with their POST completions and emits events in start-time order.       *)
(*                                                                         *)
(* An operation that is still open sits in "pending".  A complete event is *)
(* emitted at once when nothing is pending or staged, and is otherwise     *)
(* staged in the min-heap "reorder" until the watermark, recomputed after  *)
(* each batch, passes its start time.  A heap above Cap is forced out.     *)
(*                                                                         *)
(* The module has the state and one action per operation; it is driven by  *)
(* CorrelatorStream (one driver session) and by Pipeline (its threads).    *)
(***************************************************************************)
EXTENDS Naturals, Sequences, FiniteSets

CONSTANT Cap    (* CAP: staged events above it are forced out             *)

ASSUME CapAssumption == Cap \in Nat

Op == [seq : Nat, time : Nat]
EventType == [seq : Nat, time : Nat, done : BOOLEAN]
StagedType == [seq : Nat, time : Nat, done : BOOLEAN, ord : Nat]

VARIABLES
  pending,    (* open operations, [seq, time]                             *)
  reorder,    (* the heap: [seq, time, done, ord]                         *)
  ord,        (* stage counter, the tie-break of the heap                 *)
  maxSeen,    (* max_seen; 0 is i64::MIN                                  *)
  watermark,  (* watermark; 0 is i64::MIN                                 *)
  out,        (* events appended to the caller's vector                   *)
  forced,     (* ghost: events emitted above the watermark, over Cap      *)
  phase       (* idle between batches, ingest, drain, stage, flush, end   *)

corrvars == <<pending, reorder, ord, maxSeen, watermark, out, forced, phase>>

CorrInit ==
  /\ pending = {}
  /\ reorder = {}
  /\ ord = 0
  /\ maxSeen = 0
  /\ watermark = 0
  /\ out = << >>
  /\ forced = {}
  /\ phase = "idle"

Larger(a, b) == IF a < b THEN b ELSE a

\* An event with a completion has done = TRUE.
Event(op, done) == [seq |-> op.seq, time |-> op.time, done |-> done]

\* push_staged.  (PushSameOrd is the slip of a counter that is not advanced.)
PushSameOrd(e) ==
  /\ reorder' = reorder \union
       {[seq |-> e.seq, time |-> e.time, done |-> e.done, ord |-> ord]}
  /\ UNCHANGED ord

PushStaged(e) ==
  /\ reorder' = reorder \union
       {[seq |-> e.seq, time |-> e.time, done |-> e.done, ord |-> ord]}
  /\ ord' = ord + 1

\* emit_or_stage, given what is pending when it runs.
\* (EmitPastStaged is the slip that forgets the events already staged.)
EmitPastStaged(e, open) ==
  IF open = {}
  THEN out' = Append(out, e) /\ UNCHANGED <<reorder, ord>>
  ELSE PushStaged(e) /\ UNCHANGED out

EmitOrStage(e, open) ==
  IF open = {} /\ reorder = {}
  THEN out' = Append(out, e) /\ UNCHANGED <<reorder, ord>>
  ELSE PushStaged(e) /\ UNCHANGED out

BeginBatch ==
  /\ phase = "idle"
  /\ phase' = "ingest"
  /\ UNCHANGED <<pending, reorder, ord, maxSeen, watermark, out, forced>>

\* A PRE of status STATUS_PENDING is held.
IngestPending(op) ==
  /\ phase = "ingest"
  /\ maxSeen' = Larger(maxSeen, op.time)
  /\ pending' = pending \union {op}
  /\ UNCHANGED <<reorder, ord, watermark, out, forced, phase>>

\* A PRE that carries its own result is an event already.
IngestSync(op) ==
  /\ phase = "ingest"
  /\ maxSeen' = Larger(maxSeen, op.time)
  /\ EmitOrStage(Event(op, FALSE), pending)
  /\ UNCHANGED <<pending, watermark, forced, phase>>

\* A process INIT record is not an event, but its time counts as seen.
IngestInit(t) ==
  /\ phase = "ingest"
  /\ maxSeen' = Larger(maxSeen, t)
  /\ UNCHANGED <<pending, reorder, ord, watermark, out, forced, phase>>

\* A POST completes the PRE of its sequence; without one it is skipped.
IngestPost(s) ==
  /\ phase = "ingest"
  /\ \/ \E p \in pending :
          /\ p.seq = s
          /\ pending' = pending \ {p}
          /\ EmitOrStage(Event(p, TRUE), pending \ {p})
     \/ /\ \A p \in pending : p.seq # s
        /\ UNCHANGED <<pending, reorder, ord, out>>
  /\ UNCHANGED <<maxSeen, watermark, forced, phase>>

\* Slip: the mark follows the latest start time whatever is still pending.
MarkIgnoresPending ==
  /\ phase = "ingest"
  /\ watermark' = Larger(watermark, maxSeen)
  /\ phase' = "drain"
  /\ UNCHANGED <<pending, reorder, ord, maxSeen, out, forced>>

\* drain_ready: the mark moves to the oldest pending start time, or to the
\* latest start time seen, and never back.
MarkAfterBatch ==
  /\ phase = "ingest"
  /\ \/ /\ pending = {}
        /\ watermark' = Larger(watermark, maxSeen)
     \/ \E p \in pending :
          /\ \A q \in pending : p.time <= q.time
          /\ watermark' = Larger(watermark, p.time)
  /\ phase' = "drain"
  /\ UNCHANGED <<pending, reorder, ord, maxSeen, out, forced>>

\* The smallest key of the heap.
\* (NewestFirst is the slip of an unreversed tie-break.)
NewestFirst(s) ==
  /\ s \in reorder
  /\ \A r \in reorder : s.time < r.time \/ (s.time = r.time /\ s.ord >= r.ord)

Smallest(s) ==
  /\ s \in reorder
  /\ \A r \in reorder : s.time < r.time \/ (s.time = r.time /\ s.ord <= r.ord)

\* Slip: the comparison that keeps events at the mark.
HoldsAtMark(s) == s.time >= watermark /\ Cardinality(reorder) <= Cap

\* The loop of drain_ready stops at s.
Holds(s) == s.time > watermark /\ Cardinality(reorder) <= Cap

Pop(s) ==
  /\ reorder' = reorder \ {s}
  /\ out' = Append(out, Event(s, s.done))

DrainPop ==
  /\ phase = "drain"
  /\ \E s \in reorder :
       /\ Smallest(s)
       /\ ~Holds(s)
       /\ Pop(s)
       /\ forced' = IF s.time > watermark THEN forced \union {s.seq} ELSE forced
  /\ UNCHANGED <<pending, ord, maxSeen, watermark, phase>>

DrainDone ==
  /\ phase = "drain"
  /\ reorder = {} \/ \E s \in reorder : Smallest(s) /\ Holds(s)
  /\ phase' = "idle"
  /\ UNCHANGED <<pending, reorder, ord, maxSeen, watermark, out, forced>>

BeginFlush ==
  /\ phase = "idle"
  /\ phase' = "stage"
  /\ UNCHANGED <<pending, reorder, ord, maxSeen, watermark, out, forced>>

\* Slip: flush empties the heap only.
FlushForgets ==
  /\ phase = "stage"
  /\ pending' = {}
  /\ phase' = "flush"
  /\ UNCHANGED <<reorder, ord, maxSeen, watermark, out, forced>>

\* flush stages what is still pending, in the order of the hash map, and then
\* empties the heap.
FlushStage ==
  /\ phase = "stage"
  /\ \E p \in pending :
       /\ pending' = pending \ {p}
       /\ PushStaged(Event(p, FALSE))
       /\ phase' = IF pending = {p} THEN "flush" ELSE "stage"
  /\ UNCHANGED <<maxSeen, watermark, out, forced>>

FlushNoPending ==
  /\ phase = "stage"
  /\ pending = {}
  /\ phase' = "flush"
  /\ UNCHANGED <<pending, reorder, ord, maxSeen, watermark, out, forced>>

FlushPop ==
  /\ phase = "flush"
  /\ \E s \in reorder : Smallest(s) /\ Pop(s)
  /\ UNCHANGED <<pending, ord, maxSeen, watermark, forced, phase>>

FlushDone ==
  /\ phase = "flush"
  /\ reorder = {}
  /\ phase' = "end"
  /\ UNCHANGED <<pending, reorder, ord, maxSeen, watermark, out, forced>>

\* The steps that need no input.
CorrInternal ==
  \/ MarkAfterBatch \/ DrainPop \/ DrainDone
  \/ FlushStage \/ FlushNoPending \/ FlushPop \/ FlushDone

=============================================================================
