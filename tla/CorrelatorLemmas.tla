-------------------------- MODULE CorrelatorLemmas --------------------------
(***************************************************************************)
(* What the operations of the Correlator do to its state, whoever feeds    *)
(* it: the types they keep, and that an operation is in one place.         *)
(***************************************************************************)
EXTENDS Correlator, TLAPS

CorrTyped ==
  /\ pending \subseteq Op
  /\ reorder \subseteq StagedType
  /\ ord \in Nat
  /\ \A r \in reorder : r.ord < ord
  /\ maxSeen \in Nat
  /\ watermark \in Nat
  /\ out \in Seq(EventType)
  /\ forced \subseteq Nat
  /\ phase \in {"idle", "ingest", "drain", "stage", "flush", "end"}

\* An operation is open, staged or in the caller's vector, and there once.
Apart ==
  /\ \A p, q \in pending : p.seq = q.seq => p = q
  /\ \A r, s \in reorder : r.seq = s.seq => r = s
  /\ \A i, j \in 1..Len(out) : out[i].seq = out[j].seq => i = j
  /\ \A p \in pending, r \in reorder : p.seq # r.seq
  /\ \A i \in 1..Len(out) : /\ \A p \in pending : out[i].seq # p.seq
                            /\ \A r \in reorder : out[i].seq # r.seq

\* Operation s is open, staged or in the vector.
Held(s) ==
  \/ \E p \in pending : p.seq = s
  \/ \E r \in reorder : r.seq = s
  \/ \E i \in 1..Len(out) : out[i].seq = s

-----------------------------------------------------------------------------
(* Types.                                                                  *)

LEMMA LargerType ==
  ASSUME NEW a \in Nat, NEW b \in Nat
  PROVE  Larger(a, b) \in Nat /\ a <= Larger(a, b) /\ b <= Larger(a, b)
BY DEF Larger

\* A longer vector.
LEMMA OutAppended ==
  ASSUME CorrTyped, NEW e \in EventType, out' = Append(out, e)
  PROVE  /\ out' \in Seq(EventType)
         /\ Len(out) \in Nat /\ Len(out') = Len(out) + 1
         /\ \A i \in 1..Len(out) : out'[i] = out[i] /\ i \in 1..Len(out')
         /\ out'[Len(out) + 1] = e /\ Len(out) + 1 \in 1..Len(out')
         /\ \A i \in 1..Len(out') : i \in 1..Len(out) \/ i = Len(out) + 1
BY DEF CorrTyped

LEMMA Staged ==
  ASSUME CorrTyped, NEW e \in EventType, PushStaged(e)
  PROVE  \E s \in StagedType : /\ s.seq = e.seq /\ s.time = e.time
                               /\ s.done = e.done /\ s.ord = ord
                               /\ reorder' = reorder \union {s}
                               /\ ord' = ord + 1
<1> DEFINE s == [seq |-> e.seq, time |-> e.time, done |-> e.done, ord |-> ord]
<1>1. /\ s \in StagedType /\ s.ord = ord
      /\ s.seq = e.seq /\ s.time = e.time /\ s.done = e.done
  BY DEF CorrTyped, EventType, StagedType
<1>2. reorder' = reorder \union {s} /\ ord' = ord + 1
  BY DEF PushStaged
<1> HIDE DEF s
<1> QED
  BY <1>1, <1>2

LEMMA StageType ==
  ASSUME CorrTyped, NEW e \in EventType, PushStaged(e)
  PROVE  /\ reorder' \subseteq StagedType
         /\ ord' \in Nat
         /\ \A r \in reorder' : r.ord < ord'
<1>1. PICK s \in StagedType : /\ s.ord = ord
                              /\ reorder' = reorder \union {s}
                              /\ ord' = ord + 1
  BY Staged
<1> QED
  BY <1>1 DEF CorrTyped, StagedType

\* The types of what emit_or_stage changes.
LEMMA EmitType ==
  ASSUME CorrTyped, NEW e \in EventType, NEW open, EmitOrStage(e, open)
  PROVE  /\ reorder' \subseteq StagedType
         /\ ord' \in Nat
         /\ \A r \in reorder' : r.ord < ord'
         /\ out' \in Seq(EventType)
<1>1. CASE open = {} /\ reorder = {}
  BY <1>1 DEF EmitOrStage, CorrTyped
<1>2. CASE ~(open = {} /\ reorder = {})
  <2>1. PushStaged(e) /\ out' = out
    BY <1>2 DEF EmitOrStage
  <2> QED
    BY <2>1, StageType DEF CorrTyped
<1> QED
  BY <1>1, <1>2

LEMMA Popped ==
  ASSUME CorrTyped, NEW s \in reorder, Pop(s)
  PROVE  \E e \in EventType : /\ e.seq = s.seq /\ e.time = s.time
                              /\ e.done = s.done
                              /\ out' = Append(out, e)
                              /\ reorder' = reorder \ {s}
<1> DEFINE e == Event(s, s.done)
<1>1. s \in StagedType
  BY DEF CorrTyped
<1>2. e \in EventType /\ e.seq = s.seq /\ e.time = s.time /\ e.done = s.done
  BY <1>1 DEF Event, EventType, StagedType
<1>3. out' = Append(out, e) /\ reorder' = reorder \ {s}
  BY DEF Pop
<1> HIDE DEF e
<1> QED
  BY <1>2, <1>3

LEMMA PopType ==
  ASSUME CorrTyped, NEW s \in reorder, Pop(s)
  PROVE  /\ reorder' \subseteq StagedType
         /\ \A r \in reorder' : r.ord < ord
         /\ out' \in Seq(EventType)
BY Popped DEF CorrTyped

LEMMA EventIs ==
  ASSUME NEW p \in Op, NEW d \in BOOLEAN
  PROVE  /\ Event(p, d) \in EventType
         /\ Event(p, d).seq = p.seq /\ Event(p, d).time = p.time
         /\ Event(p, d).done = d
BY DEF Event, EventType, Op

\* The types of each operation of the Correlator.
LEMMA PendingTyped ==
  ASSUME CorrTyped, NEW op \in Op, IngestPending(op)
  PROVE  CorrTyped'
<1>1. maxSeen' \in Nat
  BY LargerType DEF IngestPending, CorrTyped, Op
<1> QED
  BY <1>1 DEF IngestPending, CorrTyped

LEMMA SyncTyped ==
  ASSUME CorrTyped, NEW op \in Op, IngestSync(op)
  PROVE  CorrTyped'
<1>1. maxSeen' \in Nat
  BY LargerType DEF IngestSync, CorrTyped, Op
<1>2. Event(op, FALSE) \in EventType /\ EmitOrStage(Event(op, FALSE), pending)
  BY EventIs DEF IngestSync
<1>3. /\ reorder' \subseteq StagedType
      /\ ord' \in Nat
      /\ \A r \in reorder' : r.ord < ord'
      /\ out' \in Seq(EventType)
  BY <1>2, EmitType
<1> QED
  BY <1>1, <1>3 DEF IngestSync, CorrTyped

LEMMA InitTyped ==
  ASSUME CorrTyped, NEW t \in Nat, IngestInit(t)
  PROVE  CorrTyped'
<1>1. maxSeen' \in Nat
  BY LargerType DEF IngestInit, CorrTyped
<1> QED
  BY <1>1 DEF IngestInit, CorrTyped

LEMMA PostTyped ==
  ASSUME CorrTyped, NEW s, IngestPost(s)
  PROVE  CorrTyped'
<1>1. UNCHANGED <<maxSeen, watermark, forced, phase>>
  BY DEF IngestPost
<1>2. CASE \E p \in pending :
             /\ pending' = pending \ {p}
             /\ EmitOrStage(Event(p, TRUE), pending \ {p})
  <2>1. PICK p \in pending :
          /\ pending' = pending \ {p}
          /\ EmitOrStage(Event(p, TRUE), pending \ {p})
    BY <1>2
  <2>2. Event(p, TRUE) \in EventType
    BY EventIs DEF CorrTyped
  <2>3. /\ reorder' \subseteq StagedType
        /\ ord' \in Nat
        /\ \A r \in reorder' : r.ord < ord'
        /\ out' \in Seq(EventType)
    BY <2>1, <2>2, EmitType
  <2> QED
    BY <1>1, <2>1, <2>3 DEF CorrTyped
<1>3. CASE UNCHANGED <<pending, reorder, ord, out>>
  BY <1>1, <1>3 DEF CorrTyped
<1> QED
  BY <1>2, <1>3 DEF IngestPost

LEMMA BeginTyped ==
  ASSUME CorrTyped, BeginBatch \/ BeginFlush
  PROVE  CorrTyped'
BY DEF CorrTyped, BeginBatch, BeginFlush

LEMMA InternalTyped ==
  ASSUME CorrTyped, CorrInternal
  PROVE  CorrTyped'
<1>1. CASE MarkAfterBatch
  <2>1. watermark' \in Nat
    <3>1. CASE watermark' = Larger(watermark, maxSeen)
      BY <3>1, LargerType DEF CorrTyped
    <3>2. CASE \E p \in pending : watermark' = Larger(watermark, p.time)
      BY <3>2, LargerType DEF CorrTyped, Op
    <3> QED
      BY <1>1, <3>1, <3>2 DEF MarkAfterBatch
  <2> QED
    BY <1>1, <2>1 DEF MarkAfterBatch, CorrTyped
<1>2. CASE DrainPop
  <2>1. PICK s \in reorder :
          /\ Pop(s)
          /\ forced' = IF s.time > watermark THEN forced \union {s.seq} ELSE forced
    BY <1>2 DEF DrainPop
  <2>2. forced' \subseteq Nat
    BY <2>1 DEF CorrTyped, StagedType
  <2> QED
    BY <1>2, <2>1, <2>2, PopType DEF DrainPop, CorrTyped
<1>3. CASE DrainDone \/ FlushNoPending \/ FlushDone
  BY <1>3 DEF DrainDone, FlushNoPending, FlushDone, CorrTyped
<1>4. CASE FlushStage
  <2>1. PICK p \in pending :
          /\ pending' = pending \ {p}
          /\ PushStaged(Event(p, FALSE))
          /\ phase' = IF pending = {p} THEN "flush" ELSE "stage"
    BY <1>4 DEF FlushStage
  <2>2. Event(p, FALSE) \in EventType
    BY EventIs DEF CorrTyped
  <2>3. /\ reorder' \subseteq StagedType
        /\ ord' \in Nat
        /\ \A r \in reorder' : r.ord < ord'
    BY <2>1, <2>2, StageType
  <2> QED
    BY <1>4, <2>1, <2>3 DEF FlushStage, CorrTyped
<1>5. CASE FlushPop
  <2>1. PICK s \in reorder : Pop(s)
    BY <1>5 DEF FlushPop
  <2> QED
    BY <1>5, <2>1, PopType DEF FlushPop, CorrTyped
<1> QED
  BY <1>1, <1>2, <1>3, <1>4, <1>5 DEF CorrInternal

-----------------------------------------------------------------------------
(* One place.                                                              *)

\* A PRE that is held.
LEMMA ApartOpened ==
  ASSUME Apart, NEW op, ~Held(op.seq), pending' = pending \union {op},
         UNCHANGED <<reorder, out>>
  PROVE  Apart' /\ \A s : Held(s)' <=> Held(s) \/ s = op.seq
BY DEF Apart, Held

\* An event that is appended, and that no longer is anywhere else.
LEMMA ApartAppended ==
  ASSUME CorrTyped, Apart, NEW e \in EventType, out' = Append(out, e),
         pending' \subseteq pending, reorder' \subseteq reorder,
         \A p \in pending : p \in pending' \/ p.seq = e.seq,
         \A r \in reorder : r \in reorder' \/ r.seq = e.seq,
         \A p \in pending' : p.seq # e.seq,
         \A r \in reorder' : r.seq # e.seq,
         \A i \in 1..Len(out) : out[i].seq # e.seq
  PROVE  Apart' /\ \A s : Held(s)' <=> Held(s) \/ s = e.seq
<1>1. /\ Len(out) \in Nat /\ Len(out') = Len(out) + 1
      /\ \A i \in 1..Len(out) : out'[i] = out[i] /\ i \in 1..Len(out')
      /\ out'[Len(out) + 1] = e /\ Len(out) + 1 \in 1..Len(out')
      /\ \A i \in 1..Len(out') : i \in 1..Len(out) \/ i = Len(out) + 1
  BY OutAppended
<1>2. \A i, j \in 1..Len(out') : out'[i].seq = out'[j].seq => i = j
  BY <1>1 DEF Apart
<1>3. \A i \in 1..Len(out') : /\ \A p \in pending' : out'[i].seq # p.seq
                              /\ \A r \in reorder' : out'[i].seq # r.seq
  BY <1>1 DEF Apart
<1>4. Apart'
  BY <1>2, <1>3 DEF Apart
<1>5. ASSUME NEW s PROVE Held(s)' <=> Held(s) \/ s = e.seq
  BY <1>1 DEF Held
<1> QED
  BY <1>4, <1>5

\* An event that is staged, and that no longer is pending.
LEMMA ApartStaged ==
  ASSUME CorrTyped, Apart, NEW e \in EventType, PushStaged(e), out' = out,
         pending' \subseteq pending,
         \A p \in pending : p \in pending' \/ p.seq = e.seq,
         \A p \in pending' : p.seq # e.seq,
         \A r \in reorder : r.seq # e.seq,
         \A i \in 1..Len(out) : out[i].seq # e.seq
  PROVE  Apart' /\ \A s : Held(s)' <=> Held(s) \/ s = e.seq
<1>1. PICK n \in StagedType : n.seq = e.seq /\ reorder' = reorder \union {n}
  BY Staged
<1>2. Apart'
  BY <1>1 DEF Apart
<1>3. ASSUME NEW s PROVE Held(s)' <=> Held(s) \/ s = e.seq
  BY <1>1 DEF Held
<1> QED
  BY <1>2, <1>3

\* emit_or_stage, for an event that is no longer pending.
LEMMA ApartEmitted ==
  ASSUME CorrTyped, Apart, NEW e \in EventType, EmitOrStage(e, pending'),
         pending' \subseteq pending,
         \A p \in pending : p \in pending' \/ p.seq = e.seq,
         \A p \in pending' : p.seq # e.seq,
         \A r \in reorder : r.seq # e.seq,
         \A i \in 1..Len(out) : out[i].seq # e.seq
  PROVE  Apart' /\ \A s : Held(s)' <=> Held(s) \/ s = e.seq
<1>1. CASE pending' = {} /\ reorder = {}
  <2>1. out' = Append(out, e) /\ reorder' = reorder
    BY <1>1 DEF EmitOrStage
  <2> QED
    BY <2>1, ApartAppended
<1>2. CASE ~(pending' = {} /\ reorder = {})
  <2>1. PushStaged(e) /\ out' = out
    BY <1>2 DEF EmitOrStage
  <2> QED
    BY <2>1, ApartStaged
<1> QED
  BY <1>1, <1>2

\* A completion: the event of a pending operation is emitted or staged.
LEMMA ApartCompleted ==
  ASSUME CorrTyped, Apart, NEW p \in pending, pending' = pending \ {p},
         EmitOrStage(Event(p, TRUE), pending')
  PROVE  Apart' /\ \A s : Held(s)' <=> Held(s)
<1>1. PICK e \in EventType : e = Event(p, TRUE) /\ e.seq = p.seq
  BY EventIs DEF CorrTyped
<1>2. /\ \A q \in pending' : q.seq # e.seq
      /\ \A r \in reorder : r.seq # e.seq
      /\ \A i \in 1..Len(out) : out[i].seq # e.seq
  BY <1>1 DEF Apart
<1>3. Apart' /\ \A s : Held(s)' <=> Held(s) \/ s = e.seq
  BY <1>1, <1>2, ApartEmitted
<1>4. Held(e.seq)
  BY <1>1 DEF Held
<1> QED
  BY <1>3, <1>4

\* flush stages what is pending.
LEMMA ApartFlushed ==
  ASSUME CorrTyped, Apart, NEW p \in pending, pending' = pending \ {p},
         PushStaged(Event(p, FALSE)), out' = out
  PROVE  Apart' /\ \A s : Held(s)' <=> Held(s)
<1>1. PICK e \in EventType : e = Event(p, FALSE) /\ e.seq = p.seq
  BY EventIs DEF CorrTyped
<1>2. /\ \A q \in pending' : q.seq # e.seq
      /\ \A r \in reorder : r.seq # e.seq
      /\ \A i \in 1..Len(out) : out[i].seq # e.seq
  BY <1>1 DEF Apart
<1>3. Apart' /\ \A s : Held(s)' <=> Held(s) \/ s = e.seq
  BY <1>1, <1>2, ApartStaged
<1>4. Held(e.seq)
  BY <1>1 DEF Held
<1> QED
  BY <1>3, <1>4

\* The heap gives up an event.
LEMMA ApartPopped ==
  ASSUME CorrTyped, Apart, NEW s \in reorder, Pop(s), pending' = pending
  PROVE  Apart' /\ \A n : Held(n)' <=> Held(n)
<1>1. PICK e \in EventType : /\ e.seq = s.seq /\ out' = Append(out, e)
                             /\ reorder' = reorder \ {s}
  BY Popped
<1>2. /\ \A p \in pending : p.seq # e.seq
      /\ \A r \in reorder' : r.seq # e.seq
      /\ \A i \in 1..Len(out) : out[i].seq # e.seq
  BY <1>1 DEF Apart
<1>3. Apart' /\ \A n : Held(n)' <=> Held(n) \/ n = e.seq
  BY <1>1, <1>2, ApartAppended
<1>4. Held(e.seq)
  BY <1>1 DEF Held
<1> QED
  BY <1>3, <1>4

=============================================================================
