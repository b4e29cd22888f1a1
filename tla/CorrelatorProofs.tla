-------------------------- MODULE CorrelatorProofs --------------------------
(***************************************************************************)
(* The Correlator emits in start-time order except for what CAP forces     *)
(* out (InOrder), and its watermark keeps its promise (WatermarkHolds),    *)
(* for any cap, number of operations and start times.                      *)
(*                                                                         *)
(* Neither is inductive: both rest on what OrderInv says of the operations *)
(* that are not yet emitted, namely that none of them starts before the    *)
(* watermark, or before anything that was emitted in its turn.             *)
(***************************************************************************)
EXTENDS CorrelatorStream, CorrelatorLemmas, FiniteSetTheorems

\* Nothing that is open, or still to come, starts before the mark.
MarkInv ==
  /\ maxSeen <= clock
  /\ watermark <= clock
  /\ \A p \in pending : watermark <= p.time /\ p.time <= clock
  /\ \A r \in reorder : r.time <= clock
  /\ phase # "drain" => \A r \in reorder : watermark <= r.time
  /\ phase = "flush" => pending = {}

\* What was emitted in its turn starts before everything that is not emitted.
TurnInv ==
  \A i \in 1..Len(out) : out[i].seq \notin forced =>
    /\ out[i].time <= clock
    /\ \A p \in pending : out[i].time <= p.time
    /\ \A r \in reorder : out[i].time <= r.time

OrderInv == MarkInv /\ TurnInv

-----------------------------------------------------------------------------
LEMMA TypeInit == Init => TypeOK
<1>1. << >> \in Seq(EventType)
  OBVIOUS
<1> QED
  BY <1>1 DEF Init, CorrInit, TypeOK

LEMMA TypeCorr == TypeOK => CorrTyped
BY DEF TypeOK, CorrTyped

LEMMA TypeStep == TypeOK /\ [Next]_vars => TypeOK'
<1> SUFFICES ASSUME TypeOK, [Next]_vars PROVE TypeOK'
  OBVIOUS
<1> USE StreamAssumption
<1>0. CorrTyped
  BY TypeCorr
<1>1. CASE RecordPending
  <2>1. PICK t \in Times : IngestPending(NextOp(t)) /\ clock' = t
    BY <1>1 DEF RecordPending
  <2>2. t \in Nat /\ NextOp(t) \in Op
    BY DEF Times, TypeOK, NextOp, Op
  <2>3. CorrTyped'
    BY <1>0, <2>1, <2>2, PendingTyped
  <2> QED
    BY <1>1, <2>1, <2>2, <2>3 DEF RecordPending, CorrTyped, TypeOK
<1>2. CASE RecordSync
  <2>1. PICK t \in Times : IngestSync(NextOp(t)) /\ clock' = t
    BY <1>2 DEF RecordSync
  <2>2. t \in Nat /\ NextOp(t) \in Op
    BY DEF Times, TypeOK, NextOp, Op
  <2>3. CorrTyped'
    BY <1>0, <2>1, <2>2, SyncTyped
  <2> QED
    BY <1>2, <2>1, <2>2, <2>3 DEF RecordSync, CorrTyped, TypeOK
<1>3. CASE RecordInit
  <2>1. PICK t \in Times : IngestInit(t) /\ clock' = t
    BY <1>3 DEF RecordInit
  <2>2. t \in Nat
    BY DEF Times, TypeOK
  <2>3. CorrTyped'
    BY <1>0, <2>1, <2>2, InitTyped
  <2> QED
    BY <1>3, <2>1, <2>2, <2>3 DEF RecordInit, CorrTyped, TypeOK
<1>4. CASE RecordPost
  <2>1. PICK s \in awaited :
          /\ IngestPost(s)
          /\ awaited' = awaited \ {s}
          /\ posted' = posted \union {s}
    BY <1>4 DEF RecordPost
  <2>2. CorrTyped'
    BY <1>0, <2>1, PostTyped
  <2> QED
    BY <1>4, <2>1, <2>2 DEF RecordPost, CorrTyped, TypeOK
<1>5. CASE RecordStrayPost
  <2>1. CorrTyped'
    BY <1>0, <1>5, PostTyped DEF RecordStrayPost
  <2>2. /\ nextSeq' \in Nat
        /\ awaited' \subseteq 1..nextSeq'
        /\ posted' \subseteq 1..nextSeq'
        /\ stray' \subseteq 1..nextSeq'
        /\ clock' \in Nat
    BY <1>5 DEF RecordStrayPost, TypeOK
  <2> QED
    BY <2>1, <2>2 DEF CorrTyped, TypeOK
<1>6. CASE Begin \/ Internal
  <2>1. CorrTyped' /\ UNCHANGED streamvars
    BY <1>0, <1>6, BeginTyped, InternalTyped DEF Begin, Internal
  <2> QED
    BY <2>1 DEF CorrTyped, TypeOK, streamvars
<1>7. CASE UNCHANGED vars
  BY <1>7 DEF vars, corrvars, streamvars, TypeOK
<1> QED
  BY <1>1, <1>2, <1>3, <1>4, <1>5, <1>6, <1>7 DEF Next

\* Type correctness; the tie-break counter of the heap (ord in push_staged) is
\* above every key in the heap, so no two staged events share a key.
THEOREM TypeCorrect == Spec => []TypeOK
BY TypeInit, TypeStep, PTL DEF Spec

-----------------------------------------------------------------------------
\* What emit_or_stage does to the turn order: e takes its turn at once when
\* nothing else waits, and otherwise waits behind everything emitted so far.
LEMMA EmitTurn ==
  ASSUME TypeOK, TurnInv, NEW e \in EventType,
         EmitOrStage(e, pending'), pending' \subseteq pending,
         forced' = forced, clock' \in Nat, clock <= clock', e.time <= clock',
         \A i \in 1..Len(out) : out[i].seq \notin forced => out[i].time <= e.time
  PROVE  /\ TurnInv'
         /\ \A r \in reorder' : r \in reorder \/ r.time = e.time
         /\ \A i \in (Len(out) + 1)..Len(out') : out'[i].time = e.time
<1>1. CASE pending' = {} /\ reorder = {}
  <2>1. out' = Append(out, e) /\ reorder' = {}
    BY <1>1 DEF EmitOrStage
  <2>2. \A i \in 1..Len(out') : i \in 1..Len(out) \/ out'[i] = e
    BY <2>1 DEF TypeOK
  <2>3. \A i \in 1..Len(out) : out'[i] = out[i]
    BY <2>1 DEF TypeOK
  <2>4. ASSUME NEW i \in 1..Len(out'), out'[i].seq \notin forced'
        PROVE  out'[i].time <= clock'
    <3>1. CASE i \in 1..Len(out)
      <4>1. out[i].time <= clock /\ out[i] \in EventType
        BY <2>3, <2>4, <3>1 DEF TurnInv, TypeOK
      <4> QED
        BY <2>3, <3>1, <4>1 DEF EventType, TypeOK
    <3>2. CASE out'[i] = e
      BY <3>2
    <3> QED
      BY <2>2, <3>1, <3>2
  <2>5. TurnInv'
    BY <1>1, <2>1, <2>4 DEF TurnInv
  <2>6. \A i \in (Len(out) + 1)..Len(out') : out'[i].time = e.time
    BY <2>1 DEF TypeOK
  <2> QED
    BY <2>1, <2>5, <2>6
<1>2. CASE ~(pending' = {} /\ reorder = {})
  <2>1. PushStaged(e) /\ out' = out
    BY <1>2 DEF EmitOrStage
  <2>2. \A r \in reorder' : r \in reorder \/ r.time = e.time
    BY <2>1 DEF PushStaged
  <2>3. ASSUME NEW i \in 1..Len(out), out[i].seq \notin forced
        PROVE  /\ out[i].time <= clock'
               /\ \A p \in pending' : out[i].time <= p.time
               /\ \A r \in reorder' : out[i].time <= r.time
    <3>1. out[i] \in EventType
      BY DEF TypeOK
    <3>2. /\ out[i].time <= clock
          /\ \A p \in pending : out[i].time <= p.time
          /\ \A r \in reorder : out[i].time <= r.time
      BY <2>3 DEF TurnInv
    <3>3. out[i].time <= clock'
      BY <3>1, <3>2 DEF EventType, TypeOK
    <3> QED
      BY <2>2, <2>3, <3>2, <3>3
  <2>4. TurnInv'
    BY <2>1, <2>3 DEF TurnInv
  <2>5. \A i \in (Len(out) + 1)..Len(out') : FALSE
    BY <2>1 DEF TypeOK
  <2> QED
    BY <2>2, <2>4, <2>5
<1> QED
  BY <1>1, <1>2

\* A pop keeps the turn order: the smallest key precedes the rest of the heap.
LEMMA PopTurn ==
  ASSUME TypeOK, TurnInv, NEW s \in reorder, Smallest(s), Pop(s),
         pending' = pending, clock' = clock, forced \subseteq forced',
         s.time <= clock,
         s.seq \in forced' \/ \A p \in pending : s.time <= p.time
  PROVE  /\ TurnInv'
         /\ \A i \in (Len(out) + 1)..Len(out') : out'[i].time = s.time
<1> DEFINE e == Event(s, s.done)
<1>1. out' = Append(out, e) /\ reorder' = reorder \ {s}
  BY DEF Pop
<1>2. e.seq = s.seq /\ e.time = s.time
  BY DEF Event
<1> HIDE DEF e
<1>3. \A i \in 1..Len(out') : i \in 1..Len(out) \/ out'[i] = e
  BY <1>1 DEF TypeOK
<1>4. \A i \in 1..Len(out) : out'[i] = out[i]
  BY <1>1 DEF TypeOK
<1>5. \A r \in reorder' : s.time <= r.time
  BY <1>1 DEF Smallest, TypeOK, StagedType
<1>6. ASSUME NEW i \in 1..Len(out'), out'[i].seq \notin forced'
      PROVE  /\ out'[i].time <= clock'
             /\ \A p \in pending' : out'[i].time <= p.time
             /\ \A r \in reorder' : out'[i].time <= r.time
  <2>1. CASE i \in 1..Len(out)
    <3>1. out[i].seq \notin forced
      BY <1>4, <1>6, <2>1
    <3> QED
      BY <1>1, <1>4, <2>1, <3>1 DEF TurnInv
  <2>2. CASE out'[i] = e
    <3>1. s.seq \notin forced' /\ out'[i].time = s.time
      BY <1>2, <1>6, <2>2
    <3>2. \A p \in pending' : s.time <= p.time
      BY <3>1
    <3> QED
      BY <1>5, <3>1, <3>2
  <2> QED
    BY <1>3, <2>1, <2>2
<1>7. TurnInv'
  BY <1>6 DEF TurnInv
<1>8. \A i \in (Len(out) + 1)..Len(out') : out'[i] = e
  BY <1>1 DEF TypeOK
<1> QED
  BY <1>2, <1>7, <1>8

\* What WatermarkHolds says of one step.
Promise ==
  /\ watermark <= watermark'
  /\ phase # "drain" =>
       \A i \in (Len(out) + 1)..Len(out') : out'[i].time >= watermark

\* A step that emits nothing and changes no mark.
LEMMA QuietStep ==
  ASSUME TypeOK, TurnInv, out' = out, forced' = forced, clock' \in Nat,
         clock <= clock',
         \A p \in pending' : p \in pending \/ (p.time \in Nat /\ clock <= p.time),
         reorder' = reorder
  PROVE  TurnInv' /\ \A i \in (Len(out) + 1)..Len(out') : FALSE
<1>1. ASSUME NEW i \in 1..Len(out), out[i].seq \notin forced
      PROVE  /\ out[i].time <= clock'
             /\ \A p \in pending' : out[i].time <= p.time
  <2>0. out[i] \in EventType
    BY DEF TypeOK
  <2>1. out[i].time \in Nat /\ out[i].time <= clock
    BY <1>1, <2>0 DEF TurnInv, EventType
  <2>2. \A p \in pending : out[i].time <= p.time
    BY <1>1 DEF TurnInv
  <2>3. clock \in Nat
    BY DEF TypeOK
  <2>4. out[i].time <= clock'
    BY <2>1, <2>3
  <2>5. ASSUME NEW p \in pending' PROVE out[i].time <= p.time
    BY <2>1, <2>2, <2>3
  <2> QED
    BY <2>4, <2>5
<1>2. TurnInv'
  BY <1>1 DEF TurnInv
<1>3. Len(out) \in Nat
  BY DEF TypeOK
<1> QED
  BY <1>2, <1>3

LEMMA OrderInit == Init => OrderInv
BY DEF Init, CorrInit, OrderInv, MarkInv, TurnInv

LEMMA OrderIngest ==
  ASSUME TypeOK, OrderInv,
         RecordPending \/ RecordSync \/ RecordInit \/ RecordPost
           \/ RecordStrayPost
  PROVE  OrderInv' /\ Promise
<1> USE StreamAssumption
<1>1. CASE RecordPending
  <2>1. PICK t \in Times : IngestPending(NextOp(t)) /\ clock' = t
    BY <1>1 DEF RecordPending
  <2>2. t \in Nat /\ clock <= t /\ NextOp(t).time = t
    BY DEF Times, TypeOK, NextOp
  <2>3. /\ phase = "ingest"
        /\ phase' = "ingest"
        /\ maxSeen' = Larger(maxSeen, t)
        /\ pending' = pending \union {NextOp(t)}
        /\ UNCHANGED <<reorder, watermark, out, forced>>
    BY <2>1, <2>2 DEF IngestPending
  <2>4. MarkInv'
    BY <2>1, <2>2, <2>3
    DEF OrderInv, MarkInv, TypeOK, Op, StagedType, Larger
  <2>5. TurnInv' /\ \A i \in (Len(out) + 1)..Len(out') : FALSE
    BY <2>1, <2>2, <2>3, QuietStep DEF OrderInv
  <2>6. Promise
    BY <2>3, <2>5 DEF Promise, TypeOK
  <2> QED
    BY <2>4, <2>5, <2>6 DEF OrderInv
<1>2. CASE RecordSync
  <2>1. PICK t \in Times : IngestSync(NextOp(t)) /\ clock' = t
    BY <1>2 DEF RecordSync
  <2> DEFINE e == Event(NextOp(t), FALSE)
  <2>2. t \in Nat /\ clock <= t /\ NextOp(t).time = t
    BY DEF Times, TypeOK, NextOp
  <2>3. e \in EventType /\ e.time = t
    BY <2>2 DEF Event, EventType, NextOp, TypeOK
  <2>4. /\ phase = "ingest"
        /\ phase' = "ingest"
        /\ maxSeen' = Larger(maxSeen, t)
        /\ EmitOrStage(e, pending)
        /\ UNCHANGED <<pending, watermark, forced>>
    BY <2>1, <2>2 DEF IngestSync
  <2> HIDE DEF e
  <2>5. ASSUME NEW i \in 1..Len(out), out[i].seq \notin forced
        PROVE  out[i].time <= e.time
    <3>1. out[i] \in EventType /\ out[i].time <= clock
      BY <2>5 DEF OrderInv, TurnInv, TypeOK
    <3> QED
      BY <2>2, <2>3, <3>1 DEF EventType, TypeOK
  <2>6. /\ TurnInv'
        /\ \A r \in reorder' : r \in reorder \/ r.time = e.time
        /\ \A i \in (Len(out) + 1)..Len(out') : out'[i].time = e.time
    BY <2>1, <2>2, <2>3, <2>4, <2>5, EmitTurn DEF OrderInv
  <2>7. MarkInv'
    BY <2>1, <2>2, <2>3, <2>4, <2>6
    DEF OrderInv, MarkInv, TypeOK, Op, StagedType, Larger
  <2>8. Promise
    BY <2>2, <2>3, <2>4, <2>6 DEF Promise, OrderInv, MarkInv, TypeOK
  <2> QED
    BY <2>6, <2>7, <2>8 DEF OrderInv
<1>3. CASE RecordInit
  <2>1. PICK t \in Times : IngestInit(t) /\ clock' = t
    BY <1>3 DEF RecordInit
  <2>2. t \in Nat /\ clock <= t
    BY DEF Times, TypeOK
  <2>3. /\ phase = "ingest"
        /\ phase' = "ingest"
        /\ maxSeen' = Larger(maxSeen, t)
        /\ UNCHANGED <<pending, reorder, watermark, out, forced>>
    BY <2>1 DEF IngestInit
  <2>4. MarkInv'
    BY <2>1, <2>2, <2>3
    DEF OrderInv, MarkInv, TypeOK, Op, StagedType, Larger
  <2>5. TurnInv' /\ \A i \in (Len(out) + 1)..Len(out') : FALSE
    BY <2>1, <2>2, <2>3, QuietStep DEF OrderInv
  <2>6. Promise
    BY <2>3, <2>5 DEF Promise, TypeOK
  <2> QED
    BY <2>4, <2>5, <2>6 DEF OrderInv
<1>4. ASSUME NEW s, IngestPost(s), clock' = clock
      PROVE  OrderInv' /\ Promise
  <2>1. phase = "ingest" /\ UNCHANGED <<maxSeen, watermark, forced, phase>>
    BY <1>4 DEF IngestPost
  <2>2. CASE UNCHANGED <<pending, reorder, out>>
    <3>1. TurnInv' /\ \A i \in (Len(out) + 1)..Len(out') : FALSE
      BY <1>4, <2>1, <2>2, QuietStep DEF OrderInv, TypeOK
    <3>2. MarkInv'
      BY <1>4, <2>1, <2>2 DEF OrderInv, MarkInv
    <3>3. Promise
      BY <2>1, <3>1 DEF Promise, TypeOK
    <3> QED
      BY <3>1, <3>2, <3>3 DEF OrderInv
  <2>3. CASE \E p \in pending : /\ pending' = pending \ {p}
                                /\ EmitOrStage(Event(p, TRUE), pending')
    <3>1. PICK p \in pending : /\ pending' = pending \ {p}
                               /\ EmitOrStage(Event(p, TRUE), pending')
      BY <2>3
    <3> DEFINE e == Event(p, TRUE)
    <3>2. e \in EventType /\ e.time = p.time
      BY DEF Event, EventType, TypeOK, Op
    <3>3. p.time <= clock /\ watermark <= p.time
      BY DEF OrderInv, MarkInv
    <3> HIDE DEF e
    <3>4. \A i \in 1..Len(out) : out[i].seq \notin forced => out[i].time <= e.time
      BY <3>2 DEF OrderInv, TurnInv
    <3>5. EmitOrStage(e, pending')
      BY <3>1 DEF e
    <3>6. /\ TurnInv'
          /\ \A r \in reorder' : r \in reorder \/ r.time = e.time
          /\ \A i \in (Len(out) + 1)..Len(out') : out'[i].time = e.time
      <4>1. clock' \in Nat /\ clock <= clock' /\ e.time <= clock'
        BY <1>4, <3>2, <3>3 DEF TypeOK
      <4>2. pending' \subseteq pending /\ forced' = forced /\ TurnInv
        BY <2>1, <3>1 DEF OrderInv
      <4> QED
        BY <3>2, <3>4, <3>5, <4>1, <4>2, EmitTurn
    <3>7. MarkInv'
      <4>1. \A r \in reorder' : r.time <= clock' /\ watermark' <= r.time
        BY <1>4, <2>1, <3>2, <3>3, <3>6 DEF OrderInv, MarkInv
      <4>2. \A q \in pending' : watermark' <= q.time /\ q.time <= clock'
        BY <1>4, <2>1, <3>1 DEF OrderInv, MarkInv
      <4> QED
        BY <1>4, <2>1, <4>1, <4>2 DEF OrderInv, MarkInv
    <3>8. Promise
      BY <2>1, <3>2, <3>3, <3>6 DEF Promise, TypeOK, EventType
    <3> QED
      BY <3>6, <3>7, <3>8 DEF OrderInv
  <2> QED
    BY <1>4, <2>2, <2>3 DEF IngestPost
<1>5. CASE RecordPost
  <2>1. PICK s \in awaited : IngestPost(s)
    BY <1>5 DEF RecordPost
  <2> QED
    BY <1>4, <1>5, <2>1 DEF RecordPost
<1>6. CASE RecordStrayPost
  BY <1>4, <1>6 DEF RecordStrayPost
<1> QED
  BY <1>1, <1>2, <1>3, <1>5, <1>6

LEMMA OrderInternal ==
  ASSUME TypeOK, OrderInv, Internal
  PROVE  OrderInv' /\ Promise
<1>0. UNCHANGED streamvars /\ clock' = clock /\ clock \in Nat
  BY DEF Internal, streamvars, TypeOK
<1>1. CASE MarkAfterBatch
  <2>1. /\ phase = "ingest"
        /\ phase' = "drain"
        /\ UNCHANGED <<pending, reorder, maxSeen, out, forced>>
    BY <1>1 DEF MarkAfterBatch
  <2>2. /\ watermark <= watermark'
        /\ watermark' <= clock
        /\ \A p \in pending : watermark' <= p.time
    <3>1. CASE pending = {} /\ watermark' = Larger(watermark, maxSeen)
      BY <3>1 DEF OrderInv, MarkInv, TypeOK, Larger
    <3>2. CASE \E p \in pending :
                 /\ \A q \in pending : p.time <= q.time
                 /\ watermark' = Larger(watermark, p.time)
      <4>1. PICK p \in pending :
              /\ \A q \in pending : p.time <= q.time
              /\ watermark' = Larger(watermark, p.time)
        BY <3>2
      <4>2. watermark <= p.time /\ p.time <= clock /\ p.time \in Nat
        BY DEF OrderInv, MarkInv, TypeOK, Op
      <4>3. watermark' = p.time
        BY <4>1, <4>2 DEF Larger, TypeOK
      <4> QED
        BY <4>1, <4>2, <4>3
    <3> QED
      BY <1>1, <3>1, <3>2 DEF MarkAfterBatch
  <2>3. MarkInv'
    BY <1>0, <2>1, <2>2 DEF OrderInv, MarkInv
  <2>4. TurnInv' /\ \A i \in (Len(out) + 1)..Len(out') : FALSE
    BY <1>0, <2>1, QuietStep DEF OrderInv, TypeOK
  <2> QED
    BY <2>2, <2>3, <2>4 DEF OrderInv, Promise
<1>2. CASE DrainPop
  <2>1. PICK s \in reorder :
          /\ Smallest(s)
          /\ Pop(s)
          /\ forced' = IF s.time > watermark
                       THEN forced \union {s.seq} ELSE forced
    BY <1>2 DEF DrainPop
  <2>2. /\ phase = "drain"
        /\ UNCHANGED <<pending, maxSeen, watermark, phase>>
        /\ reorder' \subseteq reorder
    BY <1>2, <2>1 DEF DrainPop, Pop
  <2>3. s.time <= clock /\ s \in StagedType
    BY DEF OrderInv, MarkInv, TypeOK
  <2>4. s.seq \in forced' \/ \A p \in pending : s.time <= p.time
    <3>1. CASE s.time > watermark
      BY <2>1, <3>1
    <3>2. CASE ~(s.time > watermark)
      BY <2>3, <3>2 DEF OrderInv, MarkInv, TypeOK, Op, StagedType
    <3> QED
      BY <3>1, <3>2
  <2>5. forced \subseteq forced'
    BY <2>1
  <2>6. TurnInv'
    BY <1>0, <2>1, <2>2, <2>3, <2>4, <2>5, PopTurn DEF OrderInv
  <2>7. MarkInv'
    BY <1>0, <2>2 DEF OrderInv, MarkInv
  <2> QED
    BY <2>2, <2>6, <2>7 DEF OrderInv, Promise, TypeOK
<1>3. CASE DrainDone
  <2>1. /\ phase' = "idle"
        /\ UNCHANGED <<pending, reorder, maxSeen, watermark, out, forced>>
    BY <1>3 DEF DrainDone
  <2>2. \A r \in reorder : watermark <= r.time
    <3>1. CASE reorder = {}
      BY <3>1
    <3>2. CASE \E s \in reorder : Smallest(s) /\ Holds(s)
      <4>1. PICK s \in reorder : Smallest(s) /\ s.time > watermark
        BY <3>2 DEF Holds
      <4>2. \A r \in reorder : s.time <= r.time
        BY <4>1 DEF Smallest, TypeOK, StagedType
      <4> QED
        BY <4>1, <4>2 DEF TypeOK, StagedType
    <3> QED
      BY <1>3, <3>1, <3>2 DEF DrainDone
  <2>3. MarkInv'
    BY <1>0, <2>1, <2>2 DEF OrderInv, MarkInv
  <2>4. TurnInv' /\ \A i \in (Len(out) + 1)..Len(out') : FALSE
    BY <1>0, <2>1, QuietStep DEF OrderInv, TypeOK
  <2> QED
    BY <2>1, <2>3, <2>4 DEF OrderInv, Promise, TypeOK
<1>4. CASE FlushStage
  <2>1. PICK p \in pending :
          /\ pending' = pending \ {p}
          /\ PushStaged(Event(p, FALSE))
          /\ phase' = IF pending = {p} THEN "flush" ELSE "stage"
    BY <1>4 DEF FlushStage
  <2>2. phase = "stage" /\ UNCHANGED <<maxSeen, watermark, out, forced>>
    BY <1>4 DEF FlushStage
  <2>3. \A r \in reorder' : r \in reorder \/ r.time = p.time
    BY <2>1 DEF PushStaged, Event
  <2>4. /\ watermark <= p.time /\ p.time <= clock
        /\ \A i \in 1..Len(out) : out[i].seq \notin forced => out[i].time <= p.time
    BY DEF OrderInv, MarkInv, TurnInv
  <2>5. phase' = "flush" => pending' = {}
    BY <2>1
  <2>6. MarkInv'
    <3>1. \A r \in reorder' : r.time <= clock' /\ watermark' <= r.time
      BY <1>0, <2>2, <2>3, <2>4 DEF OrderInv, MarkInv
    <3>2. \A q \in pending' : watermark' <= q.time /\ q.time <= clock'
      BY <1>0, <2>1, <2>2 DEF OrderInv, MarkInv
    <3> QED
      BY <1>0, <2>2, <2>5, <3>1, <3>2 DEF OrderInv, MarkInv
  <2>7. TurnInv'
    <3>1. ASSUME NEW i \in 1..Len(out), out[i].seq \notin forced
          PROVE  /\ out[i].time <= clock
                 /\ \A q \in pending' : out[i].time <= q.time
                 /\ \A r \in reorder' : out[i].time <= r.time
      BY <2>1, <2>3, <2>4, <3>1 DEF OrderInv, TurnInv
    <3> QED
      BY <1>0, <2>2, <3>1 DEF TurnInv
  <2> QED
    BY <2>2, <2>6, <2>7 DEF OrderInv, Promise, TypeOK
<1>5. CASE FlushNoPending \/ FlushDone
  <2>1. /\ phase' \in {"flush", "end"} /\ phase \in {"stage", "flush"}
        /\ phase' = "flush" => pending = {}
        /\ UNCHANGED <<pending, reorder, maxSeen, watermark, out, forced>>
    BY <1>5 DEF FlushNoPending, FlushDone
  <2>2. MarkInv'
    BY <1>0, <2>1 DEF OrderInv, MarkInv
  <2>3. TurnInv' /\ \A i \in (Len(out) + 1)..Len(out') : FALSE
    BY <1>0, <2>1, QuietStep DEF OrderInv, TypeOK
  <2> QED
    BY <2>1, <2>2, <2>3 DEF OrderInv, Promise, TypeOK
<1>6. CASE FlushPop
  <2>1. PICK s \in reorder : Smallest(s) /\ Pop(s)
    BY <1>6 DEF FlushPop
  <2>2. /\ phase = "flush"
        /\ pending = {}
        /\ UNCHANGED <<pending, maxSeen, watermark, forced, phase>>
        /\ reorder' \subseteq reorder
    BY <1>6, <2>1 DEF FlushPop, Pop, OrderInv, MarkInv
  <2>3. s.time <= clock /\ watermark <= s.time
    BY <2>2 DEF OrderInv, MarkInv
  <2>4. TurnInv' /\ \A i \in (Len(out) + 1)..Len(out') : out'[i].time = s.time
    BY <1>0, <2>1, <2>2, <2>3, PopTurn DEF OrderInv
  <2>5. MarkInv'
    BY <1>0, <2>2 DEF OrderInv, MarkInv
  <2>6. s.time \in Nat
    BY DEF TypeOK, StagedType
  <2> QED
    BY <2>2, <2>3, <2>4, <2>5, <2>6 DEF OrderInv, Promise, TypeOK
<1> QED
  BY <1>1, <1>2, <1>3, <1>4, <1>5, <1>6 DEF Internal, CorrInternal

LEMMA OrderStep ==
  TypeOK /\ OrderInv /\ [Next]_vars => OrderInv' /\ Promise
<1> SUFFICES ASSUME TypeOK, OrderInv, [Next]_vars PROVE OrderInv' /\ Promise
  OBVIOUS
<1>1. ASSUME UNCHANGED <<pending, reorder, maxSeen, watermark, out, forced, clock>>,
             (phase' = phase) \/ (phase = "idle" /\ phase' \in {"ingest", "stage"})
      PROVE  OrderInv' /\ Promise
  <2>1. TurnInv' /\ \A i \in (Len(out) + 1)..Len(out') : FALSE
    BY <1>1, QuietStep DEF OrderInv, TypeOK
  <2>2. MarkInv'
    BY <1>1 DEF OrderInv, MarkInv
  <2> QED
    BY <1>1, <2>1, <2>2 DEF OrderInv, Promise, TypeOK
<1>2. CASE Begin
  BY <1>1, <1>2 DEF Begin, BeginBatch, BeginFlush, streamvars
<1>3. CASE UNCHANGED vars
  BY <1>1, <1>3 DEF vars, corrvars, streamvars
<1> QED
  BY <1>2, <1>3, OrderIngest, OrderInternal DEF Next

\* The watermark of drain_ready keeps its promise: it never moves back, and no
\* event that starts before it is emitted once the drain is over.
THEOREM MarkKeepsPromise == Spec => WatermarkHolds
<1>1. TypeOK /\ OrderInv /\ [Next]_vars => [Promise]_vars
  BY OrderStep
<1>2. Promise <=> /\ watermark <= watermark'
                  /\ phase # "drain" =>
                       \A i \in (Len(out) + 1)..Len(out') :
                         out'[i].time >= watermark
  BY DEF Promise
<1> QED
  BY <1>1, <1>2, TypeInit, TypeStep, OrderInit, OrderStep, PTL
  DEF Spec, WatermarkHolds

-----------------------------------------------------------------------------
\* An event in its turn: everything emitted before it, unless forced out,
\* starts no later.
InTurn(e) ==
  \A i \in 1..Len(out) : out[i].seq \notin forced => out[i].time <= e.time

\* Every step leaves the emitted events alone or appends one in its turn.
LEMMA OutGrows ==
  ASSUME TypeOK, OrderInv, [Next]_vars
  PROVE  /\ forced \subseteq forced'
         /\ \/ out' = out
            \/ \E e \in EventType : out' = Append(out, e) /\ InTurn(e)
<1>1. CASE RecordPending \/ RecordInit
  BY <1>1 DEF RecordPending, RecordInit, IngestPending, IngestInit
<1>2. CASE RecordSync
  <2>1. PICK t \in Times : IngestSync(NextOp(t))
    BY <1>2 DEF RecordSync
  <2> DEFINE e == Event(NextOp(t), FALSE)
  <2>2. e \in EventType /\ e.time = t /\ clock <= t
    BY StreamAssumption DEF Event, EventType, NextOp, Times, TypeOK
  <2>3. forced' = forced /\ EmitOrStage(e, pending)
    BY <2>1 DEF IngestSync
  <2> HIDE DEF e
  <2>4. out' = out \/ out' = Append(out, e)
    BY <2>3 DEF EmitOrStage
  <2>5. InTurn(e)
    <3>1. ASSUME NEW i \in 1..Len(out), out[i].seq \notin forced
          PROVE  out[i].time <= e.time
      <4>1. out[i] \in EventType /\ out[i].time <= clock
        BY <3>1 DEF OrderInv, TurnInv, TypeOK
      <4> QED
        BY <2>2, <4>1 DEF EventType, TypeOK
    <3> QED
      BY <3>1 DEF InTurn
  <2> QED
    BY <2>2, <2>3, <2>4, <2>5
<1>3. ASSUME NEW s, IngestPost(s)
      PROVE  /\ forced' = forced
             /\ \/ out' = out
                \/ \E e \in EventType : out' = Append(out, e) /\ InTurn(e)
  <2>1. ASSUME NEW p \in pending, EmitOrStage(Event(p, TRUE), pending \ {p})
        PROVE  \/ out' = out
               \/ \E e \in EventType : out' = Append(out, e) /\ InTurn(e)
    <3> DEFINE e == Event(p, TRUE)
    <3>1. e \in EventType /\ e.time = p.time
      BY DEF Event, EventType, TypeOK, Op
    <3>2. out' = out \/ out' = Append(out, e)
      BY <2>1 DEF EmitOrStage
    <3> HIDE DEF e
    <3>3. InTurn(e)
      BY <3>1 DEF InTurn, OrderInv, TurnInv
    <3> QED
      BY <3>1, <3>2, <3>3
  <2> QED
    BY <1>3, <2>1 DEF IngestPost
<1>4. CASE RecordPost \/ RecordStrayPost
  BY <1>3, <1>4 DEF RecordPost, RecordStrayPost
<1>5. CASE Begin
  BY <1>5 DEF Begin, BeginBatch, BeginFlush
<1>6. ASSUME NEW s \in reorder, Pop(s)
      PROVE  \E e \in EventType : out' = Append(out, e) /\ InTurn(e)
  <2> DEFINE e == Event(s, s.done)
  <2>1. e \in EventType /\ e.time = s.time
    BY DEF Event, EventType, TypeOK, StagedType
  <2>2. out' = Append(out, e)
    BY <1>6 DEF Pop
  <2> HIDE DEF e
  <2>3. InTurn(e)
    BY <2>1 DEF InTurn, OrderInv, TurnInv
  <2> QED
    BY <2>1, <2>2, <2>3
<1>7. CASE DrainPop
  <2>1. PICK s \in reorder :
          /\ Pop(s)
          /\ forced' = IF s.time > watermark
                       THEN forced \union {s.seq} ELSE forced
    BY <1>7 DEF DrainPop
  <2>2. forced \subseteq forced'
    BY <2>1
  <2> QED
    BY <1>6, <2>1, <2>2
<1>8. CASE FlushPop
  BY <1>6, <1>8 DEF FlushPop
<1>9. CASE MarkAfterBatch \/ DrainDone \/ FlushStage \/ FlushNoPending \/ FlushDone
  BY <1>9 DEF MarkAfterBatch, DrainDone, FlushStage, FlushNoPending, FlushDone
<1>10. CASE UNCHANGED vars
  BY <1>10 DEF vars, corrvars
<1> QED
  BY <1>1, <1>2, <1>4, <1>5, <1>7, <1>8, <1>9, <1>10
  DEF Next, Internal, CorrInternal

LEMMA InOrderStep ==
  TypeOK /\ OrderInv /\ InOrder /\ [Next]_vars => InOrder'
<1> SUFFICES ASSUME TypeOK, OrderInv, InOrder, [Next]_vars PROVE InOrder'
  OBVIOUS
<1>1. forced \subseteq forced'
  BY OutGrows
<1>2. CASE out' = out
  BY <1>1, <1>2 DEF InOrder
<1>3. CASE \E e \in EventType : out' = Append(out, e) /\ InTurn(e)
  <2>1. PICK e \in EventType : out' = Append(out, e) /\ InTurn(e)
    BY <1>3
  <2>2. \A i \in 1..Len(out') :
          i \in 1..Len(out) \/ (i = Len(out) + 1 /\ out'[i] = e)
    BY <2>1 DEF TypeOK
  <2>3. \A i \in 1..Len(out) : out'[i] = out[i] /\ out[i] \in EventType
    BY <2>1 DEF TypeOK
  <2>4. ASSUME NEW i \in 1..Len(out'), NEW j \in 1..Len(out'),
               i < j, out'[i].time > out'[j].time
        PROVE  out'[i].seq \in forced'
    <3>1. i \in 1..Len(out) /\ out'[i] = out[i]
      BY <2>2, <2>3, <2>4 DEF TypeOK
    <3>2. CASE j \in 1..Len(out)
      BY <1>1, <2>3, <2>4, <3>1, <3>2 DEF InOrder
    <3>3. CASE out'[j] = e
      <4>1. ~(out[i].time <= e.time)
        BY <2>3, <2>4, <3>1, <3>3 DEF EventType
      <4> QED
        BY <1>1, <2>1, <3>1, <4>1 DEF InTurn
    <3> QED
      BY <2>2, <3>2, <3>3
  <2> QED
    BY <2>4 DEF InOrder
<1> QED
  BY <1>2, <1>3, OutGrows

\* Events leave the Correlator in start-time order (emit_or_stage, drain_ready
\* and flush together); only what CAP forces out may precede an older event.
THEOREM OutInOrder == Spec => []InOrder
<1>1. Init => InOrder
  BY DEF Init, CorrInit, InOrder
<1> QED
  BY <1>1, TypeInit, TypeStep, OrderInit, OrderStep, InOrderStep, PTL DEF Spec

-----------------------------------------------------------------------------
\* Everything that is open or staged counts as seen, and a drain with nothing
\* open has its mark above everything staged: what Settled lacks to be
\* inductive.
SeenInv ==
  /\ \A p \in pending : p.time <= maxSeen
  /\ \A r \in reorder : r.time <= maxSeen
  /\ phase = "drain" /\ pending = {} => \A r \in reorder : r.time <= watermark

\* A record that is ingested is seen before it is kept.
LEMMA SeenIngest ==
  ASSUME TypeOK, SeenInv, phase = "ingest", phase' = phase,
         maxSeen' \in Nat, maxSeen <= maxSeen',
         \A p \in pending' : p \in pending \/ p.time <= maxSeen',
         \A r \in reorder' : r \in reorder \/ r.time <= maxSeen'
  PROVE  SeenInv' /\ Settled'
<1>1. maxSeen \in Nat /\ pending \subseteq Op /\ reorder \subseteq StagedType
  BY DEF TypeOK
<1>2. \A p \in pending' : p.time <= maxSeen'
  BY <1>1 DEF SeenInv, Op
<1>3. \A r \in reorder' : r.time <= maxSeen'
  BY <1>1 DEF SeenInv, StagedType
<1> QED
  BY <1>2, <1>3 DEF SeenInv, Settled

\* What emit_or_stage adds to the heap has the start time of its event.
LEMMA StagedTime ==
  ASSUME NEW e, NEW open, EmitOrStage(e, open)
  PROVE  \A r \in reorder' : r \in reorder \/ r.time = e.time
BY DEF EmitOrStage, PushStaged

LEMMA SettledIngest ==
  ASSUME TypeOK, SeenInv,
         RecordPending \/ RecordSync \/ RecordInit \/ RecordPost \/ RecordStrayPost
  PROVE  SeenInv' /\ Settled'
<1>0. maxSeen \in Nat /\ clock \in Nat /\ MaxTime \in Nat
  BY StreamAssumption DEF TypeOK
<1>1. CASE RecordPending
  <2>1. PICK t \in Times : IngestPending(NextOp(t))
    BY <1>1 DEF RecordPending
  <2>2. t \in Nat /\ NextOp(t).time = t
    BY <1>0 DEF Times, NextOp
  <2>3. maxSeen' \in Nat /\ maxSeen <= maxSeen' /\ t <= maxSeen'
    BY <1>0, <2>1, <2>2, LargerType DEF IngestPending
  <2>4. phase = "ingest" /\ UNCHANGED <<phase, reorder>>
        /\ pending' = pending \union {NextOp(t)}
    BY <2>1 DEF IngestPending
  <2> QED
    BY <2>2, <2>3, <2>4, SeenIngest
<1>2. CASE RecordSync
  <2>1. PICK t \in Times : IngestSync(NextOp(t))
    BY <1>2 DEF RecordSync
  <2>2. t \in Nat /\ NextOp(t).time = t /\ Event(NextOp(t), FALSE).time = t
    BY <1>0 DEF Times, NextOp, Event
  <2>3. maxSeen' \in Nat /\ maxSeen <= maxSeen' /\ t <= maxSeen'
    BY <1>0, <2>1, <2>2, LargerType DEF IngestSync
  <2>4. phase = "ingest" /\ UNCHANGED <<phase, pending>>
        /\ EmitOrStage(Event(NextOp(t), FALSE), pending)
    BY <2>1 DEF IngestSync
  <2>5. \A r \in reorder' : r \in reorder \/ r.time = t
    BY <2>2, <2>4, StagedTime
  <2> QED
    BY <2>3, <2>4, <2>5, SeenIngest
<1>3. CASE RecordInit
  <2>1. PICK t \in Times : IngestInit(t)
    BY <1>3 DEF RecordInit
  <2>2. t \in Nat
    BY <1>0 DEF Times
  <2>3. maxSeen' \in Nat /\ maxSeen <= maxSeen'
    BY <1>0, <2>1, <2>2, LargerType DEF IngestInit
  <2> QED
    BY <2>1, <2>3, SeenIngest DEF IngestInit
<1>4. ASSUME NEW s, IngestPost(s) PROVE SeenInv' /\ Settled'
  <2>1. /\ phase = "ingest" /\ UNCHANGED <<phase, maxSeen>>
        /\ maxSeen' \in Nat /\ maxSeen <= maxSeen'
    BY <1>0, <1>4 DEF IngestPost
  <2>2. CASE UNCHANGED <<pending, reorder>>
    BY <2>1, <2>2, SeenIngest
  <2>3. CASE \E p \in pending : /\ pending' = pending \ {p}
                               /\ EmitOrStage(Event(p, TRUE), pending \ {p})
    <3>1. PICK p \in pending : /\ pending' = pending \ {p}
                              /\ EmitOrStage(Event(p, TRUE), pending \ {p})
      BY <2>3
    <3>2. \A r \in reorder' : r \in reorder \/ r.time = p.time
      BY <3>1, StagedTime DEF Event
    <3>3. p.time <= maxSeen'
      BY <2>1 DEF SeenInv
    <3> QED
      BY <2>1, <3>1, <3>2, <3>3, SeenIngest
  <2> QED
    BY <1>4, <2>2, <2>3 DEF IngestPost
<1> QED
  BY <1>1, <1>2, <1>3, <1>4 DEF RecordPost, RecordStrayPost

LEMMA SettledInternal ==
  ASSUME TypeOK, SeenInv, Internal
  PROVE  SeenInv' /\ Settled'
<1>0. /\ maxSeen \in Nat /\ watermark \in Nat
      /\ pending \subseteq Op /\ reorder \subseteq StagedType
  BY DEF TypeOK
<1>1. CASE MarkAfterBatch
  <2>1. phase' = "drain" /\ UNCHANGED <<pending, reorder, maxSeen>>
    BY <1>1 DEF MarkAfterBatch
  <2>2. CASE pending = {}
    <3>1. watermark' = Larger(watermark, maxSeen)
      BY <1>1, <2>2 DEF MarkAfterBatch
    <3>2. watermark' \in Nat /\ maxSeen <= watermark'
      BY <1>0, <3>1, LargerType
    <3>3. \A r \in reorder : r.time <= watermark'
      BY <1>0, <3>2 DEF SeenInv, StagedType
    <3> QED
      BY <2>1, <3>3 DEF SeenInv, Settled
  <2>3. CASE pending # {}
    BY <2>1, <2>3 DEF SeenInv, Settled
  <2> QED
    BY <2>2, <2>3
<1>2. CASE DrainPop
  <2>1. phase = "drain" /\ UNCHANGED <<phase, pending, maxSeen, watermark>>
        /\ reorder' \subseteq reorder
    BY <1>2 DEF DrainPop, Pop
  <2> QED
    BY <2>1 DEF SeenInv, Settled
<1>3. CASE DrainDone
  <2>1. /\ phase = "drain" /\ phase' = "idle"
        /\ UNCHANGED <<pending, reorder, maxSeen, watermark>>
    BY <1>3 DEF DrainDone
  <2>2. CASE reorder = {}
    <3>1. Cardinality(reorder) = 0
      BY <2>2, FS_EmptySet
    <3>2. Cardinality(reorder') <= Cap
      BY <2>1, <3>1, CapAssumption
    <3> QED
      BY <2>1, <2>2, <3>2 DEF SeenInv, Settled
  <2>3. CASE \E s \in reorder : Smallest(s) /\ Holds(s)
    <3>1. PICK s \in reorder : Smallest(s) /\ Holds(s)
      BY <2>3
    <3>2. s.time \in Nat /\ s.time > watermark /\ Cardinality(reorder) <= Cap
      BY <1>0, <3>1 DEF Holds, StagedType
    <3>3. \A r \in reorder : r.time > watermark
      BY <1>0, <3>1, <3>2 DEF Smallest, StagedType
    <3>4. pending # {}
      BY <1>0, <2>1, <3>2 DEF SeenInv
    <3> QED
      BY <2>1, <3>2, <3>3, <3>4 DEF SeenInv, Settled
  <2> QED
    BY <1>3, <2>2, <2>3 DEF DrainDone
<1>4. CASE FlushStage
  <2>1. PICK p \in pending :
          /\ pending' = pending \ {p}
          /\ PushStaged(Event(p, FALSE))
          /\ phase' \in {"flush", "stage"}
    BY <1>4 DEF FlushStage
  <2>2. maxSeen' = maxSeen /\ p.time <= maxSeen
    BY <1>4 DEF FlushStage, SeenInv
  <2>3. \A r \in reorder' : r \in reorder \/ r.time = p.time
    BY <2>1 DEF PushStaged, Event
  <2> QED
    BY <2>1, <2>2, <2>3 DEF SeenInv, Settled
<1>5. CASE FlushNoPending \/ FlushDone \/ FlushPop
  <2>1. /\ phase' \in {"flush", "end"} /\ UNCHANGED <<pending, maxSeen>>
        /\ reorder' \subseteq reorder
    BY <1>5 DEF FlushNoPending, FlushDone, FlushPop, Pop
  <2> QED
    BY <2>1 DEF SeenInv, Settled
<1> QED
  BY <1>1, <1>2, <1>3, <1>4, <1>5 DEF Internal, CorrInternal

LEMMA SettledStep ==
  TypeOK /\ SeenInv /\ Settled /\ [Next]_vars => SeenInv' /\ Settled'
<1> SUFFICES ASSUME TypeOK, SeenInv, Settled, [Next]_vars
             PROVE  SeenInv' /\ Settled'
  OBVIOUS
<1>1. CASE Begin
  BY <1>1 DEF Begin, BeginBatch, BeginFlush, SeenInv, Settled
<1>2. CASE UNCHANGED vars
  BY <1>2 DEF vars, corrvars, SeenInv, Settled
<1> QED
  BY <1>1, <1>2, SettledIngest, SettledInternal DEF Next

\* Between batches drain_ready has left nothing behind that is settled: what
\* is staged starts after the mark, fits CAP, and waits for a pending operation.
THEOREM NothingSettledWaits == Spec => []Settled
<1>1. Init => SeenInv /\ Settled
  <2>1. Cardinality({}) = 0
    BY FS_EmptySet
  <2> QED
    BY <2>1, CapAssumption DEF Init, CorrInit, SeenInv, Settled
<1> QED
  BY <1>1, TypeInit, TypeStep, SettledStep, PTL DEF Spec

-----------------------------------------------------------------------------
\* Every operation whose PRE was ingested is held in one place, with its
\* completion if that was ingested; while batches are ingested, what the driver
\* may still complete is open.
ConsInv ==
  /\ Apart
  /\ \A s : Held(s) <=> s \in 1..nextSeq /\ s \notin stray
  /\ \A p \in pending : p.seq \notin posted
  /\ \A r \in reorder : r.done <=> r.seq \in posted
  /\ \A i \in 1..Len(out) : out[i].done <=> out[i].seq \in posted
  /\ phase \in {"idle", "ingest", "drain"} =>
       \A s \in awaited : \E p \in pending : p.seq = s

\* The operations that need no completion.
Sync(s) == s \notin posted \union awaited

\* They are staged in the order of their keys, behind those that left.
SyncInv ==
  /\ \A p \in pending : ~Sync(p.seq)
  /\ \A r, q \in reorder : Sync(r.seq) /\ Sync(q.seq) /\ r.seq < q.seq =>
                             r.time <= q.time /\ r.ord < q.ord
  /\ \A i \in 1..Len(out) : \A r \in reorder :
       Sync(out[i].seq) /\ Sync(r.seq) => out[i].seq < r.seq

LEMMA ConsInit == Init => ConsInv /\ SyncInv /\ SyncOrder
BY DEF Init, CorrInit, ConsInv, Apart, Held, SyncInv, SyncOrder

\* What is emitted or staged has the completion its event has.
LEMMA DoneEmitted ==
  ASSUME CorrTyped, NEW e \in EventType, NEW open, EmitOrStage(e, open)
  PROVE  /\ \A r \in reorder' : r \in reorder \/ (r.seq = e.seq /\ r.done = e.done)
         /\ \A i \in 1..Len(out') : \/ i \in 1..Len(out) /\ out'[i] = out[i]
                                    \/ out'[i] = e
<1>1. CASE open = {} /\ reorder = {}
  <2>1. out' = Append(out, e) /\ reorder' = reorder
    BY <1>1 DEF EmitOrStage
  <2> QED
    BY <2>1, OutAppended
<1>2. CASE ~(open = {} /\ reorder = {})
  <2>1. PushStaged(e) /\ out' = out
    BY <1>2 DEF EmitOrStage
  <2>2. PICK n \in StagedType : n.seq = e.seq /\ n.done = e.done
                               /\ reorder' = reorder \union {n}
    BY <2>1, Staged
  <2> QED
    BY <2>1, <2>2
<1> QED
  BY <1>1, <1>2

\* A POST of an operation that is pending or of none: nothing moves but the
\* event, which now has its completion.
LEMMA ConsPost ==
  ASSUME TypeOK, ConsInv, NEW s, IngestPost(s)
  PROVE  /\ Apart' /\ \A n : Held(n)' <=> Held(n)
         /\ pending' = {p \in pending : p.seq # s}
         /\ phase = "ingest" /\ phase' = phase
         /\ \A r \in reorder' : r \in reorder \/ (r.seq = s /\ r.done)
         /\ \A i \in 1..Len(out') : \/ i \in 1..Len(out) /\ out'[i] = out[i]
                                    \/ out'[i].seq = s /\ out'[i].done
<1>0. CorrTyped /\ Apart
  BY TypeCorr DEF ConsInv
<1>1. phase = "ingest" /\ phase' = phase
  BY DEF IngestPost
<1>2. CASE UNCHANGED <<pending, reorder, out>> /\ \A p \in pending : p.seq # s
  <2>1. Apart' /\ \A n : Held(n)' <=> Held(n)
    BY <1>0, <1>2 DEF Apart, Held
  <2> QED
    BY <1>1, <1>2, <2>1
<1>3. ASSUME NEW p \in pending, p.seq = s, pending' = pending \ {p},
             EmitOrStage(Event(p, TRUE), pending \ {p})
      PROVE  /\ Apart' /\ \A n : Held(n)' <=> Held(n)
             /\ pending' = {q \in pending : q.seq # s}
             /\ \A r \in reorder' : r \in reorder \/ (r.seq = s /\ r.done)
             /\ \A i \in 1..Len(out') : \/ i \in 1..Len(out) /\ out'[i] = out[i]
                                        \/ out'[i].seq = s /\ out'[i].done
  <2>1. PICK e \in EventType : e = Event(p, TRUE) /\ e.seq = s /\ e.done = TRUE
    BY <1>0, <1>3, EventIs DEF CorrTyped
  <2>2. /\ \A r \in reorder' : r \in reorder \/ (r.seq = e.seq /\ r.done = e.done)
        /\ \A i \in 1..Len(out') : \/ i \in 1..Len(out) /\ out'[i] = out[i]
                                   \/ out'[i] = e
    BY <1>0, <1>3, <2>1, DoneEmitted
  <2>3. Apart' /\ \A n : Held(n)' <=> Held(n)
    BY <1>0, <1>3, ApartCompleted
  <2>4. pending' = {q \in pending : q.seq # s}
    BY <1>0, <1>3 DEF Apart
  <2> QED
    BY <2>1, <2>2, <2>3, <2>4
<1> QED
  BY <1>1, <1>2, <1>3 DEF IngestPost

LEMMA ConsIngest ==
  ASSUME TypeOK, ConsInv,
         RecordPending \/ RecordSync \/ RecordInit \/ RecordPost \/ RecordStrayPost
  PROVE  ConsInv'
<1>0. /\ CorrTyped /\ Apart
      /\ nextSeq \in Nat /\ nextSeq + 1 \in Nat
      /\ awaited \subseteq 1..nextSeq /\ posted \subseteq 1..nextSeq
      /\ stray \subseteq 1..nextSeq
      /\ nextSeq + 1 \notin posted /\ nextSeq + 1 \notin stray
      /\ ~Held(nextSeq + 1)
      /\ \A s : s \in 1..(nextSeq + 1) <=> s \in 1..nextSeq \/ s = nextSeq + 1
  BY TypeCorr DEF ConsInv, TypeOK
<1>1. CASE RecordPending
  <2>1. PICK t \in Times : IngestPending(NextOp(t))
    BY <1>1 DEF RecordPending
  <2> DEFINE n == NextOp(t)
  <2>2. n.seq = nextSeq + 1
    BY DEF NextOp
  <2>3. /\ pending' = pending \union {n} /\ UNCHANGED <<reorder, out, phase>>
        /\ nextSeq' = nextSeq + 1 /\ UNCHANGED <<posted, stray>>
        /\ awaited' = awaited \union {nextSeq + 1} /\ phase = "ingest"
    BY <1>1, <2>1 DEF RecordPending, IngestPending
  <2> HIDE DEF n
  <2>4. Apart' /\ \A s : Held(s)' <=> Held(s) \/ s = nextSeq + 1
    BY <1>0, <2>2, <2>3, ApartOpened
  <2>5. \A s : Held(s)' <=> s \in 1..nextSeq' /\ s \notin stray'
    BY <1>0, <2>3, <2>4 DEF ConsInv
  <2>6. \A p \in pending' : p.seq \notin posted'
    BY <1>0, <2>2, <2>3 DEF ConsInv
  <2>7. \A s \in awaited' : \E p \in pending' : p.seq = s
    BY <2>2, <2>3 DEF ConsInv
  <2> QED
    BY <2>3, <2>4, <2>5, <2>6, <2>7 DEF ConsInv
<1>2. CASE RecordSync
  <2>1. PICK t \in Times : IngestSync(NextOp(t))
    BY <1>2 DEF RecordSync
  <2>2. t \in Nat /\ NextOp(t) \in Op /\ NextOp(t).seq = nextSeq + 1
    BY <1>0, StreamAssumption DEF Times, TypeOK, NextOp, Op
  <2>3. PICK e \in EventType : /\ e = Event(NextOp(t), FALSE)
                               /\ e.seq = nextSeq + 1 /\ e.done = FALSE
    BY <2>2, EventIs
  <2>4. /\ EmitOrStage(e, pending) /\ pending' = pending
        /\ nextSeq' = nextSeq + 1 /\ UNCHANGED <<posted, stray, awaited, phase>>
    BY <1>2, <2>1, <2>3 DEF RecordSync, IngestSync
  <2>5. /\ \A p \in pending : p.seq # e.seq
        /\ \A r \in reorder : r.seq # e.seq
        /\ \A i \in 1..Len(out) : out[i].seq # e.seq
    BY <1>0, <2>3 DEF Held
  <2>6. Apart' /\ \A s : Held(s)' <=> Held(s) \/ s = nextSeq + 1
    BY <1>0, <2>3, <2>4, <2>5, ApartEmitted
  <2>7. /\ \A r \in reorder' : r \in reorder \/ (r.seq = e.seq /\ r.done = e.done)
        /\ \A i \in 1..Len(out') : \/ i \in 1..Len(out) /\ out'[i] = out[i]
                                   \/ out'[i] = e
    BY <1>0, <2>4, DoneEmitted
  <2>8. \A s : Held(s)' <=> s \in 1..nextSeq' /\ s \notin stray'
    BY <1>0, <2>4, <2>6 DEF ConsInv
  <2>9. /\ \A r \in reorder' : r.done <=> r.seq \in posted
        /\ \A i \in 1..Len(out') : out'[i].done <=> out'[i].seq \in posted
    <3>1. ~e.done /\ e.seq \notin posted
      BY <1>0, <2>3
    <3>2. ASSUME NEW r \in reorder' PROVE r.done <=> r.seq \in posted
      <4>1. CASE r \in reorder
        BY <4>1 DEF ConsInv
      <4>2. CASE r.seq = e.seq /\ r.done = e.done
        BY <3>1, <4>2
      <4> QED
        BY <2>7, <4>1, <4>2
    <3>3. ASSUME NEW i \in 1..Len(out')
          PROVE  out'[i].done <=> out'[i].seq \in posted
      <4>1. CASE i \in 1..Len(out) /\ out'[i] = out[i]
        BY <4>1 DEF ConsInv
      <4>2. CASE out'[i] = e
        BY <3>1, <4>2
      <4> QED
        BY <2>7, <4>1, <4>2
    <3> QED
      BY <3>2, <3>3
  <2> QED
    BY <2>4, <2>6, <2>8, <2>9 DEF ConsInv
<1>3. CASE RecordInit
  <2>1. UNCHANGED <<pending, reorder, out, phase, nextSeq, awaited, posted, stray>>
    BY <1>3 DEF RecordInit, IngestInit
  <2> QED
    BY <2>1 DEF ConsInv, Apart, Held
<1>4. CASE RecordPost
  <2>1. PICK s \in awaited : /\ IngestPost(s)
                             /\ awaited' = awaited \ {s}
                             /\ posted' = posted \union {s}
    BY <1>4 DEF RecordPost
  <2>2. UNCHANGED <<nextSeq, stray>>
    BY <1>4 DEF RecordPost
  <2>3. /\ Apart' /\ \A n : Held(n)' <=> Held(n)
        /\ pending' = {p \in pending : p.seq # s}
        /\ phase = "ingest" /\ phase' = phase
        /\ \A r \in reorder' : r \in reorder \/ (r.seq = s /\ r.done)
        /\ \A i \in 1..Len(out') : \/ i \in 1..Len(out) /\ out'[i] = out[i]
                                   \/ out'[i].seq = s /\ out'[i].done
    BY <2>1, ConsPost
  <2>4. PICK p \in pending : p.seq = s
    BY <2>1, <2>3 DEF ConsInv
  <2>5. /\ \A r \in reorder : r.seq # s
        /\ \A i \in 1..Len(out) : out[i].seq # s
    BY <1>0, <2>4 DEF Apart
  <2>6. /\ \A r \in reorder' : r.done <=> r.seq \in posted'
        /\ \A i \in 1..Len(out') : out'[i].done <=> out'[i].seq \in posted'
    BY <2>1, <2>3, <2>5 DEF ConsInv
  <2>7. /\ \A q \in pending' : q.seq \notin posted'
        /\ \A n \in awaited' : \E q \in pending' : q.seq = n
    BY <2>1, <2>3 DEF ConsInv
  <2>8. \A n : Held(n)' <=> n \in 1..nextSeq' /\ n \notin stray'
    BY <2>2, <2>3 DEF ConsInv
  <2> QED
    BY <2>3, <2>6, <2>7, <2>8 DEF ConsInv
<1>5. CASE RecordStrayPost
  <2>1. /\ IngestPost(nextSeq + 1) /\ nextSeq' = nextSeq + 1
        /\ stray' = stray \union {nextSeq + 1} /\ UNCHANGED <<awaited, posted>>
    BY <1>5 DEF RecordStrayPost
  <2>2. \A p \in pending : p.seq # nextSeq + 1
    BY <1>0 DEF Held
  <2>3. UNCHANGED <<pending, reorder, out, phase>>
    BY <2>1, <2>2 DEF IngestPost
  <2>4. Apart' /\ \A s : Held(s)' <=> Held(s)
    BY <1>0, <2>3 DEF Apart, Held
  <2>5. \A s : Held(s)' <=> s \in 1..nextSeq' /\ s \notin stray'
    BY <1>0, <2>1, <2>4 DEF ConsInv
  <2> QED
    BY <2>1, <2>3, <2>4, <2>5 DEF ConsInv
<1> QED
  BY <1>1, <1>2, <1>3, <1>4, <1>5

\* A drain and the flush move events and change none.
LEMMA ConsInternal ==
  ASSUME TypeOK, ConsInv, Internal
  PROVE  ConsInv'
<1>0. CorrTyped /\ Apart /\ UNCHANGED <<nextSeq, awaited, posted, stray>>
  BY TypeCorr DEF ConsInv, Internal, streamvars
<1>1. CASE MarkAfterBatch \/ DrainDone \/ FlushNoPending \/ FlushDone
  <2>1. /\ UNCHANGED <<pending, reorder, out>>
        /\ phase' \in {"idle", "ingest", "drain"} => phase \in {"ingest", "drain"}
    BY <1>1 DEF MarkAfterBatch, DrainDone, FlushNoPending, FlushDone
  <2> QED
    BY <1>0, <2>1 DEF ConsInv, Apart, Held
<1>2. ASSUME NEW s \in reorder, Pop(s), UNCHANGED <<pending, phase>>
      PROVE  ConsInv'
  <2>1. Apart' /\ \A n : Held(n)' <=> Held(n)
    BY <1>0, <1>2, ApartPopped
  <2>2. PICK e \in EventType : /\ e.seq = s.seq /\ e.done = s.done
                               /\ out' = Append(out, e)
                               /\ reorder' = reorder \ {s}
    BY <1>0, <1>2, Popped
  <2>3. \A i \in 1..Len(out') : \/ i \in 1..Len(out) /\ out'[i] = out[i]
                                \/ out'[i] = e
    BY <1>0, <2>2, OutAppended
  <2>4. \A i \in 1..Len(out') : out'[i].done <=> out'[i].seq \in posted
    BY <2>2, <2>3 DEF ConsInv
  <2> QED
    BY <1>0, <1>2, <2>1, <2>2, <2>4 DEF ConsInv
<1>3. CASE DrainPop \/ FlushPop
  BY <1>2, <1>3 DEF DrainPop, FlushPop
<1>4. CASE FlushStage
  <2>1. PICK p \in pending : /\ pending' = pending \ {p}
                             /\ PushStaged(Event(p, FALSE))
                             /\ phase' \in {"flush", "stage"}
    BY <1>4 DEF FlushStage
  <2>2. out' = out
    BY <1>4 DEF FlushStage
  <2>3. Apart' /\ \A n : Held(n)' <=> Held(n)
    BY <1>0, <2>1, <2>2, ApartFlushed
  <2>4. PICK e \in EventType : e = Event(p, FALSE) /\ e.seq = p.seq /\ e.done = FALSE
    BY <1>0, EventIs DEF CorrTyped
  <2>5. PICK r \in StagedType : r.seq = e.seq /\ r.done = e.done
                               /\ reorder' = reorder \union {r}
    BY <1>0, <2>1, <2>4, Staged
  <2>6. \A q \in reorder' : q.done <=> q.seq \in posted
    BY <2>4, <2>5 DEF ConsInv
  <2> QED
    BY <1>0, <2>1, <2>2, <2>3, <2>6 DEF ConsInv
<1> QED
  BY <1>1, <1>3, <1>4 DEF Internal, CorrInternal

LEMMA ConsStep == TypeOK /\ ConsInv /\ [Next]_vars => ConsInv'
<1> SUFFICES ASSUME TypeOK, ConsInv, [Next]_vars PROVE ConsInv'
  OBVIOUS
<1>1. CASE Begin
  BY <1>1 DEF Begin, BeginBatch, BeginFlush, streamvars, ConsInv, Apart, Held
<1>2. CASE UNCHANGED vars
  BY <1>2 DEF vars, corrvars, streamvars, ConsInv, Apart, Held
<1> QED
  BY <1>1, <1>2, ConsIngest, ConsInternal DEF Next

\* At most one element, or exactly one.
LEMMA CardSingle ==
  ASSUME NEW S, \A x, y \in S : x = y
  PROVE  Cardinality(S) = IF S = {} THEN 0 ELSE 1
<1>1. CASE S = {}
  BY <1>1, FS_EmptySet
<1>2. CASE S # {}
  <2>1. PICK x : x \in S
    BY <1>2
  <2>2. S = {x}
    BY <2>1
  <2> QED
    BY <1>2, <2>2, FS_Singleton
<1> QED
  BY <1>1, <1>2

\* No operation is lost or duplicated by the pairing, the direct path, the heap
\* or the flush, and an event has its completion exactly when the POST was
\* ingested, for any cap and any stream of records.
THEOREM NothingIsLost == Spec => []Conserved
<1>1. TypeOK /\ ConsInv => Conserved
  <2> SUFFICES ASSUME TypeOK, ConsInv PROVE Conserved
    OBVIOUS
  <2>1. ASSUME NEW s \in 1..nextSeq
        PROVE  Cardinality({p \in pending : p.seq = s})
                 + Cardinality({r \in reorder : r.seq = s})
                 + Cardinality(Emitted(s)) = IF s \in stray THEN 0 ELSE 1
    <3> DEFINE P == {p \in pending : p.seq = s}
               R == {r \in reorder : r.seq = s}
               E == Emitted(s)
    <3>1. /\ \A x, y \in P : x = y
          /\ \A x, y \in R : x = y
          /\ \A x, y \in E : x = y
      BY DEF ConsInv, Apart, Emitted
    <3>2. /\ P # {} => R = {} /\ E = {}
          /\ R # {} => E = {}
      BY DEF ConsInv, Apart, Emitted
    <3>3. P # {} \/ R # {} \/ E # {} <=> s \notin stray
      BY DEF ConsInv, Held, Emitted
    <3> HIDE DEF P, R, E
    <3>4. /\ Cardinality(P) = IF P = {} THEN 0 ELSE 1
          /\ Cardinality(R) = IF R = {} THEN 0 ELSE 1
          /\ Cardinality(E) = IF E = {} THEN 0 ELSE 1
      BY <3>1, CardSingle
    <3>5. Cardinality(P) + Cardinality(R) + Cardinality(E)
            = IF s \in stray THEN 0 ELSE 1
      BY <3>2, <3>3, <3>4
    <3> QED
      BY <3>5 DEF P, R, E
  <2> QED
    BY <2>1 DEF Conserved, ConsInv
<1> QED
  BY <1>1, TypeInit, TypeStep, ConsInit, ConsStep, PTL DEF Spec

-----------------------------------------------------------------------------
\* What leaves is behind what left, for the operations without completion.
Behind(s) == \A i \in 1..Len(out) : Sync(out[i].seq) /\ Sync(s) => out[i].seq < s

\* The operations without completion stay the same.
SameSync == posted' \union awaited' = posted \union awaited

\* The vector grows by an event that belongs behind the others.
LEMMA SyncAppended ==
  ASSUME CorrTyped, SyncOrder, SameSync,
         NEW e \in EventType, out' = Append(out, e), Behind(e.seq)
  PROVE  SyncOrder'
<1>1. /\ Len(out) \in Nat /\ Len(out') = Len(out) + 1
      /\ \A i \in 1..Len(out) : out'[i] = out[i] /\ i \in 1..Len(out')
      /\ out'[Len(out) + 1] = e /\ Len(out) + 1 \in 1..Len(out')
      /\ \A i \in 1..Len(out') : i \in 1..Len(out) \/ i = Len(out) + 1
  BY OutAppended
<1>2. ASSUME NEW i \in 1..Len(out'), NEW j \in 1..Len(out'), i < j,
             out'[i].seq \notin posted \union awaited,
             out'[j].seq \notin posted \union awaited
      PROVE  out'[i].seq < out'[j].seq
  <2>1. i \in 1..Len(out) /\ out'[i] = out[i]
    BY <1>1, <1>2
  <2>2. CASE j \in 1..Len(out)
    <3>1. out'[j] = out[j]
      BY <1>1, <2>2
    <3> QED
      BY <1>2, <2>1, <2>2, <3>1 DEF SyncOrder
  <2>3. CASE j = Len(out) + 1
    <3>1. out'[j] = e
      BY <1>1, <2>3
    <3> QED
      BY <1>2, <2>1, <3>1 DEF Behind, Sync
  <2> QED
    BY <1>1, <2>2, <2>3
<1> QED
  BY <1>2 DEF SyncOrder, SameSync

\* The pop of the smallest key.
LEMMA SyncPopped ==
  ASSUME CorrTyped, Apart, SyncInv, SyncOrder, NEW s \in reorder, Smallest(s), Pop(s),
         UNCHANGED <<pending, awaited, posted>>
  PROVE  SyncInv' /\ SyncOrder'
<1>1. PICK e \in EventType : /\ e.seq = s.seq /\ out' = Append(out, e)
                             /\ reorder' = reorder \ {s}
  BY Popped
<1>2. Behind(e.seq)
  BY <1>1 DEF Behind, SyncInv
<1>3. \A n : Sync(n)' <=> Sync(n)
  BY DEF Sync
<1>4. SyncOrder'
  BY <1>1, <1>2, SyncAppended DEF SameSync
<1>5. ASSUME NEW r \in reorder', Sync(s.seq), Sync(r.seq)
      PROVE  s.seq < r.seq
  <2>1. r \in reorder /\ r \in StagedType /\ s \in StagedType /\ r.seq # s.seq
    BY <1>1 DEF CorrTyped, Apart
  <2>2. s.time < r.time \/ (s.time = r.time /\ s.ord <= r.ord)
    BY <2>1 DEF Smallest
  <2>3. r.seq < s.seq => r.time <= s.time /\ r.ord < s.ord
    BY <1>5, <2>1 DEF SyncInv
  <2> QED
    BY <2>1, <2>2, <2>3 DEF StagedType
<1>6. \A i \in 1..Len(out') : \/ i \in 1..Len(out) /\ out'[i] = out[i]
                              \/ out'[i].seq = s.seq
  BY <1>1, OutAppended
<1>7. ASSUME NEW i \in 1..Len(out'), NEW r \in reorder',
             Sync(out'[i].seq), Sync(r.seq)
      PROVE  out'[i].seq < r.seq
  BY <1>1, <1>5, <1>6, <1>7 DEF SyncInv
<1>8. SyncInv'
  BY <1>1, <1>3, <1>7 DEF SyncInv, Sync
<1> QED
  BY <1>4, <1>8

\* An event that is emitted or staged, and that is the latest of its kind or
\* needs a completion.
LEMMA SyncEmitted ==
  ASSUME CorrTyped, SyncInv, SyncOrder,
         NEW e \in EventType, EmitOrStage(e, pending'), pending' \subseteq pending,
         SameSync, Behind(e.seq),
         \A r \in reorder : Sync(r.seq) /\ Sync(e.seq) =>
                              r.seq < e.seq /\ r.time <= e.time
  PROVE  SyncInv' /\ SyncOrder'
<1>0. \A n : Sync(n)' <=> Sync(n)
  BY DEF Sync, SameSync
<1>1. \A p \in pending' : ~Sync(p.seq)
  BY DEF SyncInv
<1>2. CASE pending' = {} /\ reorder = {}
  <2>1. out' = Append(out, e) /\ reorder' = reorder
    BY <1>2 DEF EmitOrStage
  <2>2. SyncOrder'
    BY <2>1, SyncAppended
  <2>3. SyncInv'
    BY <1>2, <2>1 DEF SyncInv
  <2> QED
    BY <2>2, <2>3
<1>3. CASE ~(pending' = {} /\ reorder = {})
  <2>1. PushStaged(e) /\ out' = out
    BY <1>3 DEF EmitOrStage
  <2>2. PICK s \in StagedType : /\ s.seq = e.seq /\ s.time = e.time /\ s.ord = ord
                               /\ reorder' = reorder \union {s}
    BY <2>1, Staged
  <2>3. SyncOrder'
    BY <2>1 DEF SyncOrder, SameSync
  <2>4. ASSUME NEW r \in reorder', NEW q \in reorder',
               Sync(r.seq), Sync(q.seq), r.seq < q.seq
        PROVE  r.time <= q.time /\ r.ord < q.ord
    <3>1. CASE r \in reorder /\ q \in reorder
      BY <2>4, <3>1 DEF SyncInv
    <3>2. CASE r \in reorder /\ q = s
      BY <2>2, <2>4, <3>2 DEF CorrTyped
    <3>3. CASE r = s /\ q \in reorder
      <4>1. q.seq < s.seq /\ q.seq \in Nat /\ s.seq \in Nat
        BY <2>2, <2>4, <3>3 DEF CorrTyped, StagedType
      <4> QED
        BY <2>4, <3>3, <4>1
    <3>4. CASE r = s /\ q = s
      <4>1. s.seq \in Nat
        BY <2>2 DEF StagedType
      <4> QED
        BY <2>4, <3>4, <4>1
    <3> QED
      BY <2>2, <3>1, <3>2, <3>3, <3>4
  <2>5. ASSUME NEW i \in 1..Len(out), NEW r \in reorder',
               Sync(out[i].seq), Sync(r.seq)
        PROVE  out[i].seq < r.seq
    BY <2>2, <2>5 DEF SyncInv, Behind
  <2>6. SyncInv'
    BY <1>0, <1>1, <2>1, <2>4, <2>5 DEF SyncInv, Sync, SameSync
  <2> QED
    BY <2>3, <2>6
<1> QED
  BY <1>2, <1>3

LEMMA SyncKept ==
  ASSUME SyncInv, SyncOrder, UNCHANGED <<pending, reorder, out>>,
         awaited' \union posted' = awaited \union posted
  PROVE  SyncInv' /\ SyncOrder'
<1>1. \A s : Sync(s)' <=> Sync(s)
  BY DEF Sync
<1>2. SyncInv'
  BY <1>1 DEF SyncInv
<1>3. SyncOrder'
  BY <1>1 DEF SyncOrder, Sync
<1> QED
  BY <1>2, <1>3

LEMMA SyncPost ==
  ASSUME TypeOK, ConsInv, SyncInv, SyncOrder, NEW s, IngestPost(s),
         awaited' \union posted' = awaited \union posted
  PROVE  SyncInv' /\ SyncOrder'
<1>0. CorrTyped /\ SameSync
  BY TypeCorr DEF SameSync
<1>1. CASE UNCHANGED <<pending, reorder, out>>
  BY <1>1, SyncKept
<1>2. ASSUME NEW p \in pending, pending' = pending \ {p},
             EmitOrStage(Event(p, TRUE), pending \ {p})
      PROVE  SyncInv' /\ SyncOrder'
  <2>1. PICK e \in EventType : e = Event(p, TRUE) /\ e.seq = p.seq
    BY <1>0, <1>2, EventIs DEF CorrTyped
  <2>2. ~Sync(e.seq)
    BY <2>1 DEF SyncInv
  <2>3. Behind(e.seq)
    BY <2>2 DEF Behind
  <2> QED
    BY <1>0, <1>2, <2>1, <2>2, <2>3, SyncEmitted
<1> QED
  BY <1>1, <1>2 DEF IngestPost

LEMMA SyncIngest ==
  ASSUME TypeOK, OrderInv, ConsInv, SyncInv, SyncOrder,
         RecordPending \/ RecordSync \/ RecordInit \/ RecordPost \/ RecordStrayPost
  PROVE  SyncInv' /\ SyncOrder'
<1>0. /\ CorrTyped /\ nextSeq \in Nat /\ ~Held(nextSeq + 1)
      /\ \A r \in reorder : r \in StagedType /\ Held(r.seq)
      /\ \A i \in 1..Len(out) : out[i] \in EventType /\ Held(out[i].seq)
      /\ \A s : Held(s) => s \in Nat /\ s <= nextSeq
  <2>1. CorrTyped /\ nextSeq \in Nat
    BY TypeCorr DEF TypeOK
  <2>2. \A s : Held(s) => s \in 1..nextSeq
    BY DEF ConsInv
  <2>3. /\ \A r \in reorder : r \in StagedType /\ Held(r.seq)
        /\ \A i \in 1..Len(out) : out[i] \in EventType /\ Held(out[i].seq)
    BY <2>1 DEF Held, CorrTyped
  <2> QED
    BY <2>1, <2>2, <2>3
<1>1. CASE RecordPending
  <2>1. PICK t \in Times : IngestPending(NextOp(t))
    BY <1>1 DEF RecordPending
  <2>2. /\ pending' = pending \union {NextOp(t)} /\ UNCHANGED <<reorder, out, posted>>
        /\ awaited' = awaited \union {nextSeq + 1}
    BY <1>1, <2>1 DEF RecordPending, IngestPending
  <2>3. NextOp(t).seq = nextSeq + 1
    BY DEF NextOp
  <2>4. \A s : Sync(s)' => Sync(s)
    BY <2>2 DEF Sync
  <2>5. \A p \in pending' : ~Sync(p.seq)'
    BY <2>2, <2>3, <2>4 DEF SyncInv, Sync
  <2>6. SyncInv'
    BY <2>2, <2>4, <2>5 DEF SyncInv
  <2>7. SyncOrder'
    BY <2>2, <2>4 DEF SyncOrder, Sync
  <2> QED
    BY <2>6, <2>7
<1>2. CASE RecordSync
  <2>1. PICK t \in Times : IngestSync(NextOp(t))
    BY <1>2 DEF RecordSync
  <2>2. t \in Nat /\ clock <= t /\ clock \in Nat
    BY StreamAssumption DEF Times, TypeOK
  <2>3. NextOp(t) \in Op /\ NextOp(t).seq = nextSeq + 1 /\ NextOp(t).time = t
    BY <2>2 DEF TypeOK, NextOp, Op
  <2> DEFINE e == Event(NextOp(t), FALSE)
  <2>4. e \in EventType /\ e.seq = NextOp(t).seq /\ e.time = NextOp(t).time
    BY <2>3, EventIs
  <2>5. e \in EventType /\ e.seq = nextSeq + 1 /\ e.time = t
    BY <2>3, <2>4
  <2>6. EmitOrStage(e, pending') /\ pending' = pending
        /\ UNCHANGED <<posted, awaited>>
    BY <1>2, <2>1 DEF RecordSync, IngestSync
  <2> HIDE DEF e
  <2>7. Behind(e.seq)
    <3>1. ASSUME NEW i \in 1..Len(out) PROVE out[i].seq < e.seq
      <4>1. out[i].seq \in Nat /\ out[i].seq <= nextSeq
        BY <1>0
      <4> QED
        BY <1>0, <2>5, <4>1
    <3> QED
      BY <3>1 DEF Behind
  <2>8. \A r \in reorder : r.seq < e.seq /\ r.time <= e.time
    <3>1. ASSUME NEW r \in reorder PROVE r.seq < e.seq /\ r.time <= e.time
      <4>1. r.seq \in Nat /\ r.seq <= nextSeq /\ r.time \in Nat
        BY <1>0 DEF StagedType
      <4>2. r.time <= clock
        BY DEF OrderInv, MarkInv
      <4> QED
        BY <1>0, <2>2, <2>5, <4>1, <4>2
    <3> QED
      BY <3>1
  <2>9. SameSync
    BY <2>6 DEF SameSync
  <2> QED
    BY <1>0, <2>5, <2>6, <2>7, <2>8, <2>9, SyncEmitted
<1>3. CASE RecordInit
  BY <1>3, SyncKept DEF RecordInit, IngestInit
<1>4. CASE RecordPost
  <2>1. PICK s \in awaited : /\ IngestPost(s)
                             /\ awaited' = awaited \ {s}
                             /\ posted' = posted \union {s}
    BY <1>4 DEF RecordPost
  <2>2. awaited' \union posted' = awaited \union posted
    BY <2>1
  <2> QED
    BY <2>1, <2>2, SyncPost
<1>5. CASE RecordStrayPost
  BY <1>5, SyncPost DEF RecordStrayPost
<1> QED
  BY <1>1, <1>2, <1>3, <1>4, <1>5

LEMMA SyncInternal ==
  ASSUME TypeOK, ConsInv, SyncInv, SyncOrder, Internal
  PROVE  SyncInv' /\ SyncOrder'
<1>0. CorrTyped /\ Apart /\ UNCHANGED <<awaited, posted>>
  BY TypeCorr DEF ConsInv, Internal, streamvars
<1>1. CASE MarkAfterBatch \/ DrainDone \/ FlushNoPending \/ FlushDone
  <2>1. UNCHANGED <<pending, reorder, out>>
    BY <1>1 DEF MarkAfterBatch, DrainDone, FlushNoPending, FlushDone
  <2> QED
    BY <1>0, <2>1, SyncKept
<1>2. CASE DrainPop \/ FlushPop
  <2>1. PICK s \in reorder : Smallest(s) /\ Pop(s)
    BY <1>2 DEF DrainPop, FlushPop
  <2>2. pending' = pending
    BY <1>2 DEF DrainPop, FlushPop
  <2> QED
    BY <1>0, <2>1, <2>2, SyncPopped
<1>3. CASE FlushStage
  <2>1. PICK p \in pending : pending' = pending \ {p} /\ PushStaged(Event(p, FALSE))
    BY <1>3 DEF FlushStage
  <2>2. PICK e \in EventType : e = Event(p, FALSE) /\ e.seq = p.seq
    BY <1>0, EventIs DEF CorrTyped
  <2>3. PICK r \in StagedType : r.seq = e.seq /\ reorder' = reorder \union {r}
    BY <1>0, <2>1, <2>2, Staged
  <2>4. out' = out /\ ~Sync(r.seq)
    BY <1>3, <2>2, <2>3 DEF FlushStage, SyncInv
  <2>5. \A s : Sync(s)' <=> Sync(s)
    BY <1>0 DEF Sync
  <2>6. SyncInv'
    BY <2>1, <2>3, <2>4, <2>5 DEF SyncInv
  <2>7. SyncOrder'
    BY <2>4, <2>5 DEF SyncOrder, Sync
  <2> QED
    BY <2>6, <2>7
<1> QED
  BY <1>1, <1>2, <1>3 DEF Internal, CorrInternal

LEMMA SyncStep ==
  TypeOK /\ OrderInv /\ ConsInv /\ SyncInv /\ SyncOrder /\ [Next]_vars
    => SyncInv' /\ SyncOrder'
<1> SUFFICES ASSUME TypeOK, OrderInv, ConsInv, SyncInv, SyncOrder, [Next]_vars
             PROVE  SyncInv' /\ SyncOrder'
  OBVIOUS
<1>1. CASE Begin
  BY <1>1, SyncKept DEF Begin, BeginBatch, BeginFlush, streamvars
<1>2. CASE UNCHANGED vars
  BY <1>2, SyncKept DEF vars, corrvars, streamvars
<1> QED
  BY <1>1, <1>2, SyncIngest, SyncInternal DEF Next

\* Operations that carry their own result leave in the order in which the
\* driver logged them: the tie-break by ord keeps it among equal start times,
\* and what CAP forces out does not break it.
THEOREM SyncInOrder == Spec => []SyncOrder
BY TypeInit, TypeStep, OrderInit, OrderStep, ConsInit, ConsStep, SyncStep, PTL DEF Spec

=============================================================================
