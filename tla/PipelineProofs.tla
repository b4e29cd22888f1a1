--------------------------- MODULE PipelineProofs ---------------------------
(***************************************************************************)
(* A capture session loses nothing and reorders nothing on its way through *)
(* the threads (SessionComplete, StreamInOrder of Pipeline), and after     *)
(* MonitorController::stop has returned no thread of it touches the stream *)
(* any more (QuietAfterStop): for any channel capacity, batch length, CAP  *)
(* and number of operations and sessions.                                  *)
(*                                                                         *)
(* The last rests on the order in which stop joins (JoinInv).  The others  *)
(* follow an operation: in the queues before the Correlator everything is  *)
(* in the driver's order (QueueInv), from there on it is in one place      *)
(* (PlaceInv), it leaves before all that has not left (LeaveInv), and what *)
(* was queued is in one of these places until it is sent (ArriveInv).      *)
(***************************************************************************)
EXTENDS Pipeline, CorrelatorLemmas, FiniteSetTheorems

\* Records, and what channel B carries.
RecType == [kind : {"pending", "sync", "post"}, seq : Nat]
NetType == [net : Nat]

PipeTyped ==
  /\ CorrTyped
  /\ wire \in Seq(RecType)
  /\ held \in Seq(RecType)
  /\ batch \in Seq(RecType)
  /\ chanA \in Seq(Seq(RecType))
  /\ netQueue \in Seq(Nat)
  /\ chanB \in Seq(EventType \union NetType)
  /\ nextSeq \in Nat /\ netSent \in Nat /\ awaited \subseteq Nat

\* The operations that records b begin.
Pre(b) == {b[i].seq : i \in {j \in 1..Len(b) : b[j].kind # "post"}}
Rising(b) ==
  \A i, j \in 1..Len(b) :
    i < j /\ b[i].kind # "post" /\ b[j].kind # "post" => b[i].seq < b[j].seq
Before(S, T) == \A s \in S, t \in T : s < t

\* On their way to the Correlator the operations stay in the order in which the
\* driver numbered them, all behind those it has seen.
QueueInv ==
  /\ Rising(wire) /\ Rising(held) /\ Rising(batch)
  /\ Before({maxSeen}, Pre(batch))
  /\ Before({maxSeen} \union Pre(batch), Pre(held))
  /\ Before({maxSeen} \union Pre(batch) \union Pre(held), Pre(wire))
  /\ \A k \in 1..Len(chanA) :
       /\ Rising(chanA[k])
       /\ Before({maxSeen} \union Pre(batch), Pre(chanA[k]))
       /\ Before(Pre(chanA[k]), Pre(held) \union Pre(wire))
       /\ \A l \in 1..Len(chanA) : k < l => Before(Pre(chanA[k]), Pre(chanA[l]))
  /\ Before({maxSeen} \union Pre(batch) \union Pre(held) \union Pre(wire), {nextSeq + 1})
  /\ \A k \in 1..Len(chanA) : Before(Pre(chanA[k]), {nextSeq + 1})
  /\ recv # "got" => held = << >>

\* Positions of kernel events in channel B.
KernelAt == {i \in 1..Len(chanB) : Kernel(i)}

\* Event x left in its turn: everything that has not left starts later.
InTurn(x) ==
  x.seq \notin forced => /\ \A p \in pending : x.seq < p.seq
                         /\ \A r \in reorder : x.seq < r.seq

\* An operation is in one place, there once, and seen.
PlaceInv ==
  /\ Apart
  /\ \A s : Held(s) => s <= maxSeen
  /\ \A p \in pending : p.time = p.seq
  /\ \A r \in reorder : r.time = r.seq
  /\ \A i \in 1..Len(out) : out[i].time = out[i].seq
  /\ \A i \in KernelAt : /\ chanB[i].time = chanB[i].seq
                         /\ chanB[i].seq <= maxSeen
                         /\ ~Held(chanB[i].seq)
  /\ \A i, j \in KernelAt : chanB[i].seq = chanB[j].seq => i = j

\* What left did so in its turn, unless it was forced out.
LeaveInv ==
  /\ watermark <= maxSeen
  /\ \A p \in pending : watermark <= p.time
  /\ \A i \in 1..Len(out) : InTurn(out[i])
  /\ \A i \in KernelAt : InTurn(chanB[i])
  /\ \A i, j \in 1..Len(out) :
       i < j /\ out[i].seq \notin forced => out[i].seq < out[j].seq
  /\ \A i \in KernelAt, j \in 1..Len(out) :
       chanB[i].seq \notin forced => chanB[i].seq < out[j].seq
  /\ \A i, j \in KernelAt :
       i < j /\ chanB[i].seq \notin forced => chanB[i].seq < chanB[j].seq
  /\ phase \in {"flush", "end"} => pending = {}
  /\ phase = "end" => reorder = {}

\* Queued to the parse thread.
Queued(s) == s \in Pre(batch) \/ \E k \in 1..Len(chanA) : s \in Pre(chanA[k])
Sent(s) == \E i \in KernelAt : chanB[i].seq = s

\* What the receive thread queued is somewhere on the way to channel B, and the
\* parse thread ends with nothing left.
ArriveInv ==
  /\ \A s \in received : Queued(s) \/ Held(s) \/ Sent(s) \/ s \in unknown
  /\ phase \in {"stage", "flush", "end"} => recv = "exit" /\ chanA = << >>
  /\ phase # "ingest" => batch = << >>
  /\ parse = "exit" => phase = "end" /\ out = << >>

PipeInv == PipeTyped /\ QueueInv /\ PlaceInv /\ LeaveInv /\ ArriveInv

\* What stop has joined has ended, and a parse thread that is not running
\* left the Correlator before a batch or after its flush.
JoinInv ==
  /\ ctl \in {"stop_recv", "stop_parse", "off"} => ~netOn
  /\ ctl \in {"stop_parse", "off"} => recv \in {"off", "exit"}
  /\ ctl = "off" => parse # "run"
  /\ parse # "run" => phase \in {"idle", "end"}

\* The Correlator moves by itself only inside a batch or a flush.
LEMMA InternalPhase ==
  ASSUME CorrInternal
  PROVE  phase \notin {"idle", "end"}
BY DEF CorrInternal, MarkAfterBatch, DrainPop, DrainDone, FlushStage,
       FlushNoPending, FlushPop, FlushDone

\* A parse thread that takes a step runs, and stays in its session's threads.
LEMMA ParseRuns ==
  ASSUME JoinInv, ParseStep
  PROVE  /\ parse = "run"
         /\ UNCHANGED <<ctl, recv, netOn>>
         /\ parse' = "run" \/ (parse' = "exit" /\ phase' = "end")
<1>1. CASE SelectBatch \/ SelectNet \/ ParkNet \/ SelectEnd
  BY <1>1 DEF SelectBatch, SelectNet, ParkNet, SelectEnd, Selecting, ctlvars,
     recvvars, netvars, parsevars
<1>2. CASE ParseRecord
  <2>1. phase = "ingest" /\ UNCHANGED <<parse, ctl, recv, netOn>>
    BY <1>2 DEF ParseRecord, ctlvars, recvvars, netvars
  <2>2. parse = "run"
    BY <2>1 DEF JoinInv
  <2> QED
    BY <2>1, <2>2
<1>3. CASE ParseInternal
  <2>1. CorrInternal /\ UNCHANGED <<parse, ctl, recv, netOn>>
    BY <1>3 DEF ParseInternal, ctlvars, recvvars, netvars, parsevars
  <2>2. parse = "run"
    BY <2>1, InternalPhase DEF JoinInv
  <2> QED
    BY <2>1, <2>2
<1>4. CASE Forward \/ ForwardTail \/ ParseEnds
  BY <1>4 DEF Forward, ForwardTail, TakeOut, ParseEnds, ctlvars, recvvars, netvars, corrvars
<1> QED
  BY <1>1, <1>2, <1>3, <1>4 DEF ParseStep

LEMMA JoinStep == JoinInv /\ [Next]_vars => JoinInv'
<1> SUFFICES ASSUME JoinInv, [Next]_vars PROVE JoinInv'
  OBVIOUS
<1>1. CASE Report \/ Complete
  BY <1>1 DEF Report, Complete, JoinInv, ctlvars, recvvars, netvars, parsevars, corrvars
<1>2. CASE StartThreads
  BY <1>2 DEF StartThreads, JoinInv
<1>3. CASE StartControl \/ StopControl \/ StopNetwork
  BY <1>3 DEF StartControl, StopControl, StopNetwork, JoinInv, recvvars, netvars,
     parsevars, corrvars
<1>4. CASE JoinRecv \/ JoinParse
  BY <1>4 DEF JoinRecv, JoinParse, JoinInv, recvvars, netvars, parsevars, corrvars
<1>5. CASE RecvStep
  BY <1>5 DEF RecvStep, RecvMessage, RecvCancel, SendBatch, JoinInv, ctlvars, netvars,
     parsevars, corrvars
<1>6. CASE NetEmit
  BY <1>6 DEF NetEmit, JoinInv, ctlvars, recvvars, parsevars, corrvars
<1>7. CASE ParseStep
  <2>1. /\ parse = "run" /\ UNCHANGED <<ctl, recv, netOn>>
        /\ parse' = "run" \/ (parse' = "exit" /\ phase' = "end")
    BY <1>7, ParseRuns
  <2> QED
    BY <2>1 DEF JoinInv
<1>8. CASE UNCHANGED vars
  BY <1>8 DEF vars, JoinInv, ctlvars, recvvars, netvars, parsevars, corrvars
<1> QED
  BY <1>1, <1>2, <1>3, <1>4, <1>5, <1>6, <1>7, <1>8 DEF Next, ControlStep

Quiet ==
  ctl = "off" /\ ctl' = "off" => UNCHANGED <<chanB, corrvars, recvvars, netvars>>

LEMMA QuietStep == JoinInv /\ [Next]_vars => Quiet
<1> SUFFICES ASSUME JoinInv, [Next]_vars, ctl = "off", ctl' = "off"
             PROVE  UNCHANGED <<chanB, corrvars, recvvars, netvars>>
  BY DEF Quiet
<1>1. ~netOn /\ recv \in {"off", "exit"} /\ parse # "run"
  BY DEF JoinInv
<1>2. ~ParseStep
  BY <1>1, ParseRuns
<1>3. ~NetEmit /\ ~RecvStep
  BY <1>1 DEF NetEmit, RecvStep, RecvMessage, RecvCancel, SendBatch
<1>4. ~ControlStep
  BY DEF ControlStep, StartThreads, StartControl, StopControl, StopNetwork,
     JoinRecv, JoinParse
<1>5. CASE Report \/ Complete
  BY <1>5 DEF Report, Complete, parsevars
<1>6. CASE UNCHANGED vars
  BY <1>6 DEF vars, parsevars
<1> QED
  BY <1>2, <1>3, <1>4, <1>5, <1>6 DEF Next

\* Once MonitorController::stop has returned, nothing is written to channel B,
\* the port's batches, the network channel or the Correlator until the next
\* start, whatever the driver still reports.
THEOREM StoppedIsQuiet == Spec => QuietAfterStop
<1>1. Init => JoinInv
  BY DEF Init, CorrInit, JoinInv
<1>2. JoinInv /\ [Next]_vars => [Quiet]_vars
  BY QuietStep
<1>3. Quiet <=> (ctl = "off" /\ ctl' = "off" =>
                   UNCHANGED <<chanB, corrvars, recvvars, netvars>>)
  BY DEF Quiet
<1> QED
  BY <1>1, <1>2, <1>3, JoinStep, PTL DEF Spec, QuietAfterStop

-----------------------------------------------------------------------------
(* The Correlator's own steps.                                             *)

LEMMA KernelType ==
  /\ \A e \in EventType : "seq" \in DOMAIN e
  /\ \A e \in NetType : "seq" \notin DOMAIN e
BY DEF EventType, NetType

\* A longer sequence.
LEMMA Appended ==
  ASSUME NEW S, NEW q \in Seq(S), NEW e \in S
  PROVE  /\ Append(q, e) \in Seq(S)
         /\ Len(q) \in Nat /\ Len(Append(q, e)) = Len(q) + 1
         /\ \A i \in 1..Len(q) : Append(q, e)[i] = q[i] /\ i \in 1..Len(Append(q, e))
         /\ Append(q, e)[Len(q) + 1] = e /\ Len(q) + 1 \in 1..Len(Append(q, e))
         /\ \A i \in 1..Len(Append(q, e)) : i \in 1..Len(q) \/ i = Len(q) + 1
OBVIOUS

\* A sequence and its tail.
LEMMA Taken ==
  ASSUME NEW S, NEW q \in Seq(S), q # << >>
  PROVE  /\ Tail(q) \in Seq(S)
         /\ Len(q) \in Nat /\ Len(Tail(q)) = Len(q) - 1
         /\ \A i \in 1..Len(Tail(q)) : Tail(q)[i] = q[i + 1] /\ i + 1 \in 2..Len(q)
         /\ \A i \in 1..Len(q) : i = 1 \/ i - 1 \in 1..Len(Tail(q))
         /\ 1 \in 1..Len(q) /\ Head(q) = q[1] /\ Head(q) \in S
OBVIOUS

\* The numbers in the Correlator and in channel B.
LEMMA SeqsTyped ==
  ASSUME PipeTyped
  PROVE  /\ maxSeen \in Nat /\ watermark \in Nat
         /\ \A p \in pending : p \in Op /\ p.seq \in Nat /\ p.time \in Nat
         /\ \A r \in reorder : /\ r \in StagedType
                               /\ r.seq \in Nat /\ r.time \in Nat /\ r.ord \in Nat
         /\ Len(out) \in Nat
         /\ \A i \in 1..Len(out) : out[i] \in EventType /\ out[i].seq \in Nat
         /\ Len(chanB) \in Nat
         /\ \A i \in KernelAt : /\ i \in 1..Len(chanB)
                                /\ chanB[i] \in EventType /\ chanB[i].seq \in Nat
<1>1. \A i \in 1..Len(chanB) : chanB[i] \in EventType \union NetType
  BY DEF PipeTyped
<1>2. \A i \in KernelAt : i \in 1..Len(chanB) /\ chanB[i] \in EventType
  BY <1>1, KernelType DEF KernelAt, Kernel
<1>3. \A p \in pending : p \in Op /\ p.seq \in Nat /\ p.time \in Nat
  BY DEF PipeTyped, CorrTyped, Op
<1>4. \A r \in reorder : /\ r \in StagedType
                        /\ r.seq \in Nat /\ r.time \in Nat /\ r.ord \in Nat
  BY DEF PipeTyped, CorrTyped, StagedType
<1>5. \A i \in 1..Len(out) : out[i] \in EventType /\ out[i].seq \in Nat
  <2>1. \A i \in 1..Len(out) : out[i] \in EventType
    BY DEF PipeTyped, CorrTyped
  <2> QED
    BY <2>1 DEF EventType
<1>6. Len(out) \in Nat /\ Len(chanB) \in Nat /\ maxSeen \in Nat /\ watermark \in Nat
  BY DEF PipeTyped, CorrTyped
<1>7. \A i \in KernelAt : chanB[i].seq \in Nat
  BY <1>2 DEF EventType
<1> QED
  BY <1>2, <1>3, <1>4, <1>5, <1>6, <1>7

\* What is held has been seen.
LEMMA HeldSeen ==
  ASSUME PipeTyped, PlaceInv
  PROVE  \A s : Held(s) => s \in Nat /\ s <= maxSeen
<1>1. ASSUME NEW s, Held(s) PROVE s \in Nat
  BY <1>1, SeqsTyped DEF Held
<1> QED
  BY <1>1 DEF PlaceInv

\* Nothing moves.
LEMMA NothingMoves ==
  ASSUME PipeTyped, PlaceInv, LeaveInv,
         UNCHANGED <<pending, reorder, out, chanB, forced>>,
         maxSeen' \in Nat, maxSeen <= maxSeen', watermark' <= maxSeen',
         \A p \in pending : watermark' <= p.time,
         phase' \in {"flush", "end"} => pending = {},
         phase' = "end" => reorder = {}
  PROVE  PlaceInv' /\ LeaveInv' /\ \A s : Held(s)' <=> Held(s)
<1>1. \A s : Held(s)' <=> Held(s)
  BY DEF Held
<1>2. \A s : Held(s) => s \in Nat /\ s <= maxSeen'
  BY HeldSeen, SeqsTyped
<1>3. KernelAt' = KernelAt /\ \A i \in KernelAt : chanB[i].seq <= maxSeen'
  BY SeqsTyped DEF KernelAt, Kernel, PlaceInv
<1>4. PlaceInv'
  BY <1>1, <1>2, <1>3 DEF PlaceInv, Apart
<1>5. LeaveInv'
  BY <1>3 DEF LeaveInv, InTurn
<1> QED
  BY <1>1, <1>4, <1>5

\* A PRE that is held.
LEMMA OpenMoves ==
  ASSUME PipeTyped, PlaceInv, LeaveInv, NEW op \in Op, op.time = op.seq,
         maxSeen < op.seq, maxSeen' = op.seq, pending' = pending \union {op},
         UNCHANGED <<reorder, out, chanB, forced, watermark, phase>>,
         phase = "ingest"
  PROVE  PlaceInv' /\ LeaveInv' /\ \A s : Held(s)' <=> Held(s) \/ s = op.seq
<1>0. op.seq \in Nat /\ maxSeen \in Nat /\ KernelAt' = KernelAt
  BY SeqsTyped DEF Op, KernelAt, Kernel
<1>1. ~Held(op.seq) /\ \A s : Held(s) => s \in Nat /\ s < op.seq
  BY <1>0, HeldSeen
<1>2. Apart' /\ \A s : Held(s)' <=> Held(s) \/ s = op.seq
  BY <1>1, ApartOpened DEF PlaceInv
<1>3. \A i \in KernelAt : chanB[i].seq \in Nat /\ chanB[i].seq < op.seq
  BY <1>0, SeqsTyped DEF PlaceInv
<1>4. PlaceInv'
  BY <1>0, <1>1, <1>2, <1>3 DEF PlaceInv
<1>5. \A i \in 1..Len(out) : out[i].seq < op.seq
  BY <1>1 DEF Held
<1>6. watermark <= op.seq
  BY <1>0, SeqsTyped DEF LeaveInv
<1>7. LeaveInv'
  BY <1>0, <1>3, <1>5, <1>6 DEF LeaveInv, InTurn
<1> QED
  BY <1>2, <1>4, <1>7

\* An event is emitted or staged: it starts after all that left in its turn.
LEMMA EmitMoves ==
  ASSUME PipeTyped, PlaceInv, LeaveInv,
         NEW e \in EventType, e.time = e.seq, EmitOrStage(e, pending'),
         pending' \subseteq pending,
         \A p \in pending : p \in pending' \/ p.seq = e.seq,
         \A p \in pending' : p.seq # e.seq,
         \A r \in reorder : r.seq # e.seq,
         \A i \in 1..Len(out) :
            out[i].seq # e.seq /\ (out[i].seq \notin forced => out[i].seq < e.seq),
         \A i \in KernelAt :
            chanB[i].seq # e.seq /\ (chanB[i].seq \notin forced => chanB[i].seq < e.seq),
         maxSeen' \in Nat, maxSeen <= maxSeen', e.seq <= maxSeen',
         UNCHANGED <<chanB, forced, watermark, phase>>, phase = "ingest"
  PROVE  PlaceInv' /\ LeaveInv' /\ \A s : Held(s)' <=> Held(s) \/ s = e.seq
<1>0. KernelAt' = KernelAt /\ CorrTyped /\ Apart
  BY DEF KernelAt, Kernel, PipeTyped, PlaceInv
<1>1. Apart' /\ \A s : Held(s)' <=> Held(s) \/ s = e.seq
  BY <1>0, ApartEmitted
<1>2. \A s : Held(s)' => s \in Nat /\ s <= maxSeen'
  <2>1. e.seq \in Nat /\ maxSeen \in Nat
    BY SeqsTyped DEF EventType
  <2> QED
    BY <1>1, <2>1, HeldSeen
<1>3. \A i \in KernelAt : chanB[i].seq <= maxSeen' /\ ~Held(chanB[i].seq)'
  BY <1>1, SeqsTyped DEF PlaceInv
<1>4. watermark' <= maxSeen' /\ \A p \in pending' : watermark' <= p.time
  BY SeqsTyped DEF LeaveInv
<1>5. CASE pending' = {} /\ reorder = {}
  <2>1. out' = Append(out, e) /\ reorder' = reorder
    BY <1>5 DEF EmitOrStage
  <2>2. /\ Len(out) \in Nat /\ Len(out') = Len(out) + 1
        /\ \A i \in 1..Len(out) : out'[i] = out[i] /\ i \in 1..Len(out')
        /\ out'[Len(out) + 1] = e /\ Len(out) + 1 \in 1..Len(out')
        /\ \A i \in 1..Len(out') : i \in 1..Len(out) \/ i = Len(out) + 1
    BY <1>0, <2>1, OutAppended
  <2>3. \A i \in 1..Len(out') : out'[i].time = out'[i].seq
    BY <2>2 DEF PlaceInv
  <2>4. PlaceInv'
    BY <1>0, <1>1, <1>2, <1>3, <1>5, <2>1, <2>3 DEF PlaceInv
  <2>5. \A i, j \in 1..Len(out') :
          i < j /\ out'[i].seq \notin forced => out'[i].seq < out'[j].seq
    <3>1. ASSUME NEW i \in 1..Len(out'), NEW j \in 1..Len(out'),
                 i < j, out'[i].seq \notin forced
          PROVE  out'[i].seq < out'[j].seq
      <4>1. i \in 1..Len(out) /\ out'[i] = out[i]
        BY <2>2, <3>1
      <4>2. CASE j \in 1..Len(out)
        BY <2>2, <3>1, <4>1, <4>2 DEF LeaveInv
      <4>3. CASE j = Len(out) + 1
        BY <2>2, <3>1, <4>1, <4>3
      <4> QED
        BY <2>2, <4>2, <4>3
    <3> QED
      BY <3>1
  <2>6. \A i \in KernelAt, j \in 1..Len(out') :
          chanB[i].seq \notin forced => chanB[i].seq < out'[j].seq
    BY <2>2 DEF LeaveInv
  <2>7. LeaveInv'
    BY <1>0, <1>4, <1>5, <2>1, <2>5, <2>6 DEF LeaveInv, InTurn
  <2> QED
    BY <1>1, <2>4, <2>7
<1>6. CASE ~(pending' = {} /\ reorder = {})
  <2>1. PushStaged(e) /\ out' = out
    BY <1>6 DEF EmitOrStage
  <2>2. PICK n \in StagedType : /\ n.seq = e.seq /\ n.time = e.time
                               /\ reorder' = reorder \union {n}
    BY <1>0, <2>1, Staged
  <2>3. PlaceInv'
    BY <1>0, <1>1, <1>2, <1>3, <2>1, <2>2 DEF PlaceInv
  <2>4. LeaveInv'
    BY <1>0, <1>4, <2>1, <2>2 DEF LeaveInv, InTurn
  <2> QED
    BY <1>1, <2>3, <2>4
<1> QED
  BY <1>5, <1>6

\* The smallest key leaves the heap, in its turn or forced out.
LEMMA PopMoves ==
  ASSUME PipeTyped, PlaceInv, LeaveInv, NEW s \in reorder, Smallest(s), Pop(s),
         UNCHANGED <<pending, maxSeen, watermark, phase, chanB>>, phase # "end",
         forced \subseteq forced',
         s.seq \in forced' \/ \A p \in pending : s.seq < p.seq
  PROVE  PlaceInv' /\ LeaveInv' /\ \A n : Held(n)' <=> Held(n)
<1>0. KernelAt' = KernelAt /\ CorrTyped /\ Apart
  BY DEF KernelAt, Kernel, PipeTyped, PlaceInv
<1>1. Apart' /\ \A n : Held(n)' <=> Held(n)
  BY <1>0, ApartPopped
<1>2. PICK e \in EventType : /\ e.seq = s.seq /\ e.time = s.time
                             /\ out' = Append(out, e)
                             /\ reorder' = reorder \ {s}
  BY <1>0, Popped
<1>3. /\ Len(out) \in Nat /\ Len(out') = Len(out) + 1
      /\ \A i \in 1..Len(out) : out'[i] = out[i] /\ i \in 1..Len(out')
      /\ out'[Len(out) + 1] = e /\ Len(out) + 1 \in 1..Len(out')
      /\ \A i \in 1..Len(out') : i \in 1..Len(out) \/ i = Len(out) + 1
  BY <1>0, <1>2, OutAppended
<1>4. \A i \in 1..Len(out') : out'[i].time = out'[i].seq
  BY <1>2, <1>3 DEF PlaceInv
<1>5. PlaceInv'
  BY <1>0, <1>1, <1>2, <1>4 DEF PlaceInv
<1>6. \A r \in reorder' : s.seq < r.seq
  <2>1. ASSUME NEW r \in reorder' PROVE s.seq < r.seq
    <3>1. r \in reorder /\ r.seq # s.seq
      BY <1>0, <1>2 DEF Apart
    <3>2. s.time <= r.time /\ r.time = r.seq /\ s.time = s.seq
      BY <3>1, SeqsTyped DEF Smallest, PlaceInv
    <3> QED
      BY <3>1, <3>2, SeqsTyped
  <2> QED
    BY <2>1
<1>7. \A i \in 1..Len(out) : out[i].seq \notin forced => out[i].seq < e.seq
  BY <1>2 DEF LeaveInv, InTurn
<1>8. \A i \in KernelAt : chanB[i].seq \notin forced => chanB[i].seq < e.seq
  BY <1>2 DEF LeaveInv, InTurn
<1>9. ASSUME NEW i \in 1..Len(out'), NEW j \in 1..Len(out'),
             i < j, out'[i].seq \notin forced'
      PROVE  out'[i].seq < out'[j].seq
  <2>1. i \in 1..Len(out) /\ out'[i] = out[i] /\ out[i].seq \notin forced
    BY <1>3, <1>9
  <2>2. CASE j \in 1..Len(out)
    BY <1>3, <1>9, <2>1, <2>2 DEF LeaveInv
  <2>3. CASE j = Len(out) + 1
    BY <1>3, <1>7, <2>1, <2>3
  <2> QED
    BY <1>3, <2>2, <2>3
<1>10. ASSUME NEW i \in KernelAt, NEW j \in 1..Len(out'), chanB[i].seq \notin forced'
       PROVE  chanB[i].seq < out'[j].seq
  <2>1. chanB[i].seq \notin forced
    BY <1>10
  <2>2. CASE j \in 1..Len(out)
    BY <1>3, <2>1, <2>2 DEF LeaveInv
  <2>3. CASE j = Len(out) + 1
    BY <1>3, <1>8, <2>1, <2>3
  <2> QED
    BY <1>3, <2>2, <2>3
<1>11. ASSUME NEW i \in 1..Len(out') PROVE InTurn(out[i])'
  <2>1. CASE i \in 1..Len(out)
    BY <1>2, <1>3, <2>1 DEF LeaveInv, InTurn
  <2>2. CASE i = Len(out) + 1
    BY <1>2, <1>3, <1>6, <2>2 DEF InTurn
  <2> QED
    BY <1>3, <2>1, <2>2
<1>12. \A i \in KernelAt : InTurn(chanB[i])'
  BY <1>2 DEF LeaveInv, InTurn
<1>13. \A i, j \in KernelAt :
         i < j /\ chanB[i].seq \notin forced' => chanB[i].seq < chanB[j].seq
  BY DEF LeaveInv
<1>14. /\ watermark <= maxSeen
       /\ \A p \in pending : watermark <= p.time
       /\ phase \in {"flush", "end"} => pending = {}
  BY DEF LeaveInv
<1>15. LeaveInv'
  BY <1>0, <1>9, <1>10, <1>11, <1>12, <1>13, <1>14 DEF LeaveInv
<1> QED
  BY <1>1, <1>5, <1>15

\* flush stages a pending operation.
LEMMA FlushMoves ==
  ASSUME PipeTyped, PlaceInv, LeaveInv, FlushStage, chanB' = chanB
  PROVE  PlaceInv' /\ LeaveInv' /\ \A n : Held(n)' <=> Held(n)
<1>0. KernelAt' = KernelAt /\ CorrTyped /\ Apart
  BY DEF KernelAt, Kernel, PipeTyped, PlaceInv
<1>1. PICK p \in pending : /\ pending' = pending \ {p}
                           /\ PushStaged(Event(p, FALSE))
                           /\ phase' = IF pending = {p} THEN "flush" ELSE "stage"
  BY DEF FlushStage
<1>2. UNCHANGED <<maxSeen, watermark, out, forced>>
  BY DEF FlushStage
<1>3. Apart' /\ \A n : Held(n)' <=> Held(n)
  BY <1>0, <1>1, <1>2, ApartFlushed
<1>4. PICK e \in EventType : e = Event(p, FALSE) /\ e.seq = p.seq /\ e.time = p.time
  BY <1>0, EventIs DEF CorrTyped
<1>5. PICK r \in StagedType : /\ r.seq = p.seq /\ r.time = p.time
                             /\ reorder' = reorder \union {r}
  BY <1>0, <1>1, <1>4, Staged
<1>6. PlaceInv'
  BY <1>0, <1>1, <1>2, <1>3, <1>5 DEF PlaceInv
<1>7. phase' # "end" /\ (phase' = "flush" => pending' = {})
  BY <1>1
<1>8. LeaveInv'
  BY <1>0, <1>1, <1>2, <1>5, <1>7 DEF LeaveInv, InTurn
<1> QED
  BY <1>3, <1>6, <1>8

\* The event at the front leaves for channel B.
LEMMA TakeMoves ==
  ASSUME PipeTyped, PlaceInv, LeaveInv, TakeOut,
         chanB' = chanB \/ chanB' = Append(chanB, Head(out))
  PROVE  /\ PlaceInv' /\ LeaveInv'
         /\ \A s : Held(s) => Held(s)' \/ s = Head(out).seq
         /\ \A s : Sent(s) => Sent(s)'
         /\ chanB' = Append(chanB, Head(out)) =>
              \A s : s = Head(out).seq => Sent(s)'
<1> DEFINE h == Head(out)
<1>0. /\ out # << >> /\ out' = Tail(out)
      /\ UNCHANGED <<pending, reorder, ord, maxSeen, watermark, forced, phase>>
  BY DEF TakeOut
<1>1. /\ out' \in Seq(EventType)
      /\ Len(out) \in Nat /\ Len(out') = Len(out) - 1
      /\ \A i \in 1..Len(out') : out'[i] = out[i + 1] /\ i + 1 \in 2..Len(out)
      /\ \A i \in 1..Len(out) : i = 1 \/ i - 1 \in 1..Len(out')
      /\ 1 \in 1..Len(out) /\ h = out[1] /\ h \in EventType
  BY <1>0, Taken DEF PipeTyped, CorrTyped
<1> HIDE DEF h
<1>2. h.seq \in Nat /\ h.time = h.seq /\ h.seq <= maxSeen /\ Held(h.seq) /\ InTurn(h)
  <2>1. Held(h.seq)
    BY <1>1 DEF Held
  <2> QED
    BY <1>1, <2>1, HeldSeen DEF PlaceInv, LeaveInv
<1>3. \A i \in 1..Len(out') : out'[i].seq # h.seq
  <2>1. ASSUME NEW i \in 1..Len(out') PROVE out'[i].seq # h.seq
    <3>1. out'[i] = out[i + 1] /\ i + 1 \in 1..Len(out) /\ i + 1 # 1
      BY <1>1
    <3> QED
      BY <1>1, <3>1 DEF PlaceInv, Apart
  <2> QED
    BY <2>1
<1>4. \A s : Held(s)' => Held(s) /\ s # h.seq
  <2>1. \A i \in 1..Len(out') : i + 1 \in 1..Len(out) /\ out'[i] = out[i + 1]
    BY <1>1
  <2>2. \A p \in pending : p.seq # h.seq
    BY <1>1 DEF PlaceInv, Apart
  <2>3. \A r \in reorder : r.seq # h.seq
    BY <1>1 DEF PlaceInv, Apart
  <2> QED
    BY <1>0, <1>3, <2>1, <2>2, <2>3 DEF Held
<1>5. \A s : Held(s) => Held(s)' \/ s = h.seq
  <2>1. \A i \in 1..Len(out) : i = 1 \/ (i - 1 \in 1..Len(out') /\ out'[i - 1] = out[i])
    BY <1>1
  <2> QED
    BY <1>0, <1>1, <2>1 DEF Held
<1>6. Apart'
  <2>1. \A i, j \in 1..Len(out') : out'[i].seq = out'[j].seq => i = j
    <3>1. ASSUME NEW i \in 1..Len(out'), NEW j \in 1..Len(out'), out'[i].seq = out'[j].seq
          PROVE  i = j
      <4>1. /\ i + 1 \in 1..Len(out) /\ j + 1 \in 1..Len(out)
            /\ out[i + 1].seq = out[j + 1].seq
        BY <1>1, <3>1
      <4>2. i + 1 = j + 1
        BY <4>1 DEF PlaceInv, Apart
      <4> QED
        BY <1>1, <4>2
    <3> QED
      BY <3>1
  <2>2. \A i \in 1..Len(out') : i + 1 \in 1..Len(out) /\ out'[i] = out[i + 1]
    BY <1>1
  <2> QED
    BY <1>0, <2>1, <2>2 DEF PlaceInv, Apart
<1>7. /\ \A i \in 1..Len(out') : out'[i].time = out'[i].seq
      /\ \A i \in 1..Len(out') : InTurn(out'[i])
  BY <1>1 DEF PlaceInv, LeaveInv
<1>8. \A i, j \in 1..Len(out') :
        i < j /\ out'[i].seq \notin forced => out'[i].seq < out'[j].seq
  <2>1. ASSUME NEW i \in 1..Len(out'), NEW j \in 1..Len(out'),
               i < j, out'[i].seq \notin forced
        PROVE  out'[i].seq < out'[j].seq
    <3>1. /\ i + 1 \in 1..Len(out) /\ j + 1 \in 1..Len(out) /\ i + 1 < j + 1
          /\ out'[i] = out[i + 1] /\ out'[j] = out[j + 1]
      BY <1>1, <2>1
    <3> QED
      BY <2>1, <3>1 DEF LeaveInv
  <2> QED
    BY <2>1
<1>9. \A j \in 1..Len(out') : h.seq \notin forced => h.seq < out'[j].seq
  <2>1. \A j \in 1..Len(out') :
          j + 1 \in 1..Len(out) /\ 1 < j + 1 /\ out'[j] = out[j + 1]
    BY <1>1
  <2> QED
    BY <1>1, <2>1 DEF LeaveInv
<1>10. \A i \in KernelAt, j \in 1..Len(out') :
         chanB[i].seq \notin forced => chanB[i].seq < out'[j].seq
  BY <1>1 DEF LeaveInv
<1>11. \A i \in KernelAt :
         /\ chanB[i].seq # h.seq
         /\ chanB[i].seq \notin forced => chanB[i].seq < h.seq
  BY <1>1, <1>2 DEF PlaceInv, LeaveInv
<1>12. CASE chanB' = chanB
  <2>1. KernelAt' = KernelAt
    BY <1>12 DEF KernelAt, Kernel
  <2>2. PlaceInv'
    BY <1>0, <1>4, <1>6, <1>7, <1>12, <2>1 DEF PlaceInv
  <2>3. LeaveInv'
    BY <1>0, <1>7, <1>8, <1>10, <1>12, <2>1 DEF LeaveInv, InTurn
  <2>4. \A s : Sent(s) => Sent(s)'
    BY <1>12, <2>1 DEF Sent
  <2>5. chanB' # Append(chanB, h)
    <3>1. chanB \in Seq(EventType \union NetType) /\ h \in EventType \union NetType
      BY <1>1 DEF PipeTyped
    <3>2. Len(Append(chanB, h)) = Len(chanB) + 1 /\ Len(chanB) \in Nat
      BY <3>1, Appended
    <3> QED
      BY <1>12, <3>2
  <2> QED
    BY <1>5, <2>2, <2>3, <2>4, <2>5 DEF h
<1>13. CASE chanB' = Append(chanB, h)
  <2>1. /\ \A i \in KernelAt : i < Len(chanB) + 1 /\ chanB'[i] = chanB[i]
        /\ KernelAt' = KernelAt \union {Len(chanB) + 1}
        /\ chanB'[Len(chanB) + 1] = h
    <3>1. /\ Len(chanB') = Len(chanB) + 1 /\ Len(chanB) \in Nat
          /\ \A i \in 1..Len(chanB) : chanB'[i] = chanB[i] /\ i \in 1..Len(chanB')
          /\ chanB'[Len(chanB) + 1] = h
          /\ \A i \in 1..Len(chanB') : i \in 1..Len(chanB) \/ i = Len(chanB) + 1
      <4>1. chanB \in Seq(EventType \union NetType) /\ h \in EventType \union NetType
        BY <1>1 DEF PipeTyped
      <4> QED
        BY <1>13, <4>1, Appended
    <3>2. "seq" \in DOMAIN h
      BY <1>1, KernelType
    <3>3. Len(chanB) + 1 \in 1..Len(chanB')
      BY <3>1
    <3>4. \A i \in 1..Len(chanB) : i < Len(chanB) + 1
      BY <3>1
    <3> QED
      BY <3>1, <3>2, <3>3, <3>4 DEF KernelAt, Kernel
  <2> DEFINE n == Len(chanB) + 1
  <2>2. \A i \in KernelAt' : i = n \/ (i \in KernelAt /\ i < n /\ chanB'[i] = chanB[i])
    BY <2>1
  <2>3. chanB'[n] = h
    BY <2>1
  <2>4. n \in KernelAt' /\ n \in Nat /\ \A i \in KernelAt : i \in KernelAt' /\ i \in Nat
    BY <2>1, SeqsTyped
  <2> HIDE DEF n
  <2>5. \A i, j \in KernelAt' : chanB'[i].seq = chanB'[j].seq => i = j
    BY <1>11, <2>2, <2>3 DEF PlaceInv
  <2>6. \A i \in KernelAt' : /\ chanB'[i].time = chanB'[i].seq
                             /\ chanB'[i].seq <= maxSeen
                             /\ ~Held(chanB[i].seq)'
    <3>1. ASSUME NEW i \in KernelAt', NEW s, s = chanB'[i].seq PROVE ~Held(s)'
      BY <1>4, <2>2, <2>3, <3>1 DEF PlaceInv
    <3>2. \A i \in KernelAt' : ~Held(chanB[i].seq)'
      BY <3>1 DEF Held
    <3> QED
      BY <1>2, <2>2, <2>3, <3>2 DEF PlaceInv
  <2>7. PlaceInv'
    BY <1>0, <1>4, <1>6, <1>7, <2>5, <2>6 DEF PlaceInv
  <2>8. \A i \in KernelAt' : InTurn(chanB'[i])
    BY <1>2, <2>2, <2>3 DEF LeaveInv
  <2>9. \A i \in KernelAt', j \in 1..Len(out') :
          chanB'[i].seq \notin forced => chanB'[i].seq < out'[j].seq
    BY <1>9, <1>10, <2>2, <2>3
  <2>10. \A i, j \in KernelAt' :
           i < j /\ chanB'[i].seq \notin forced => chanB'[i].seq < chanB'[j].seq
    <3>1. ASSUME NEW i \in KernelAt', NEW j \in KernelAt', i < j,
                 chanB'[i].seq \notin forced
          PROVE  chanB'[i].seq < chanB'[j].seq
      <4>1. i \in KernelAt /\ chanB'[i] = chanB[i]
        BY <2>2, <2>4, <3>1
      <4>2. CASE j = n
        BY <1>11, <2>3, <3>1, <4>1, <4>2
      <4>3. CASE j \in KernelAt /\ chanB'[j] = chanB[j]
        BY <3>1, <4>1, <4>3 DEF LeaveInv
      <4> QED
        BY <2>2, <4>2, <4>3
    <3> QED
      BY <3>1
  <2>11. LeaveInv'
    BY <1>0, <1>7, <1>8, <2>8, <2>9, <2>10 DEF LeaveInv, InTurn
  <2>12. \A s : Sent(s) \/ s = h.seq => Sent(s)'
    BY <2>3, <2>4, <2>1 DEF Sent
  <2> QED
    BY <1>5, <2>7, <2>11, <2>12 DEF h
<1> QED
  BY <1>12, <1>13 DEF h

\* The record at the front of the batch.
LEMMA FrontPre ==
  ASSUME PipeTyped, QueueInv, batch # << >>
  PROVE  /\ Head(batch) \in RecType
         /\ Head(batch).kind # "post" => /\ Head(batch).seq \in Pre(batch)
                                         /\ maxSeen < Head(batch).seq
<1>1. Len(batch) \in Nat /\ 1 \in 1..Len(batch) /\ Head(batch) = batch[1] /\ batch[1] \in RecType
  BY DEF PipeTyped
<1>2. batch[1].kind # "post" => batch[1].seq \in Pre(batch)
  BY <1>1 DEF Pre
<1> QED
  BY <1>1, <1>2 DEF QueueInv, Before

\* A record is ingested.
LEMMA RecordMoves ==
  ASSUME PipeTyped, QueueInv, PlaceInv, LeaveInv, ParseRecord
  PROVE  /\ PlaceInv' /\ LeaveInv'
         /\ maxSeen' \in Nat /\ maxSeen <= maxSeen'
         /\ Head(batch).kind # "post" => maxSeen' = Head(batch).seq
         /\ Head(batch).kind = "post" => maxSeen' = maxSeen
         /\ \A s : Held(s) \/ (Head(batch).kind # "post" /\ s = Head(batch).seq) => Held(s)'
<1> DEFINE r == Head(batch)
           op == [seq |-> r.seq, time |-> r.seq]
<1>1. /\ phase = "ingest" /\ batch # << >> /\ chanB' = chanB
      /\ \/ r.kind = "pending" /\ IngestPending(op)
         \/ r.kind = "sync" /\ IngestSync(op)
         \/ r.kind = "post" /\ IngestPost(r.seq)
  BY DEF ParseRecord
<1>2. r \in RecType /\ (r.kind # "post" => maxSeen < r.seq)
  BY <1>1, FrontPre
<1>3. op \in Op /\ op.seq = r.seq /\ op.time = r.seq /\ r.seq \in Nat /\ maxSeen \in Nat
  BY <1>2, SeqsTyped DEF RecType, Op
<1>4. r.kind # "post" => Larger(maxSeen, op.time) = r.seq
  BY <1>2, <1>3 DEF Larger
<1> HIDE DEF r, op
<1>5. CASE r.kind = "pending" /\ IngestPending(op)
  <2>1. /\ maxSeen' = op.seq /\ pending' = pending \union {op} /\ maxSeen < op.seq
        /\ UNCHANGED <<reorder, out, chanB, forced, watermark, phase>>
    BY <1>1, <1>2, <1>3, <1>4, <1>5 DEF IngestPending
  <2>2. PlaceInv' /\ LeaveInv' /\ \A s : Held(s)' <=> Held(s) \/ s = op.seq
    BY <1>1, <1>3, <2>1, OpenMoves
  <2> QED
    BY <1>3, <1>5, <2>1, <2>2 DEF r
<1>6. CASE r.kind = "sync" /\ IngestSync(op)
  <2>1. /\ maxSeen' = r.seq /\ maxSeen < r.seq /\ pending' = pending
        /\ EmitOrStage(Event(op, FALSE), pending)
        /\ UNCHANGED <<chanB, forced, watermark, phase>>
    BY <1>1, <1>2, <1>3, <1>4, <1>6 DEF IngestSync
  <2>2. PICK e \in EventType : e = Event(op, FALSE) /\ e.seq = op.seq /\ e.time = op.time
    BY <1>3, EventIs
  <2>3. EmitOrStage(e, pending')
    BY <2>1, <2>2
  <2>4. e.seq = r.seq /\ e.time = e.seq /\ e.seq \in Nat
    BY <1>3, <2>2
  <2> HIDE <2>2
  <2>5. \A s : Held(s) => s # e.seq /\ s < e.seq
    BY <1>3, <2>1, <2>4, HeldSeen
  <2>6. /\ \A p \in pending' : p.seq # e.seq
        /\ \A q \in reorder : q.seq # e.seq
        /\ \A i \in 1..Len(out) : out[i].seq # e.seq /\ out[i].seq < e.seq
    BY <2>1, <2>5 DEF Held
  <2>7. \A i \in KernelAt : chanB[i].seq # e.seq /\ chanB[i].seq < e.seq
    <3>1. \A i \in KernelAt : chanB[i].seq \in Nat /\ chanB[i].seq <= maxSeen
      BY SeqsTyped DEF PlaceInv
    <3> QED
      BY <1>3, <2>1, <2>4, <3>1
  <2>8. maxSeen' \in Nat /\ maxSeen <= maxSeen' /\ e.seq <= maxSeen'
    BY <1>3, <2>1, <2>4
  <2>9. PlaceInv' /\ LeaveInv' /\ \A s : Held(s)' <=> Held(s) \/ s = e.seq
    BY <1>1, <2>1, <2>3, <2>4, <2>6, <2>7, <2>8, EmitMoves
  <2> QED
    BY <1>6, <2>1, <2>4, <2>8, <2>9 DEF r
<1>7. CASE r.kind = "post" /\ IngestPost(r.seq)
  <2>1. UNCHANGED <<chanB, maxSeen, watermark, forced, phase>>
    BY <1>1, <1>7 DEF IngestPost
  <2>2. CASE \E p \in pending : /\ p.seq = r.seq
                                /\ pending' = pending \ {p}
                                /\ EmitOrStage(Event(p, TRUE), pending \ {p})
    <3>1. PICK p \in pending : /\ pending' = pending \ {p}
                               /\ EmitOrStage(Event(p, TRUE), pending \ {p})
      BY <2>2
    <3>2. PICK e \in EventType : e = Event(p, TRUE) /\ e.seq = p.seq /\ e.time = p.time
      BY SeqsTyped, EventIs
    <3>3. EmitOrStage(e, pending') /\ e.time = e.seq /\ Held(e.seq)
      BY <3>1, <3>2 DEF PlaceInv, Held
    <3>4. /\ \A q \in pending' : q.seq # e.seq
          /\ \A q \in pending : q \in pending' \/ q.seq = e.seq
          /\ \A q \in reorder : q.seq # e.seq
          /\ \A i \in 1..Len(out) : out[i].seq # e.seq
      <4>1. Apart /\ pending' = pending \ {p} /\ e.seq = p.seq
        BY <3>1, <3>2 DEF PlaceInv
      <4> QED
        BY <4>1 DEF Apart
    <3>5. \A i \in 1..Len(out) : out[i].seq \notin forced => out[i].seq < e.seq
      BY <3>2 DEF LeaveInv, InTurn
    <3>6. \A i \in KernelAt :
            chanB[i].seq # e.seq /\ (chanB[i].seq \notin forced => chanB[i].seq < e.seq)
      BY <3>2, <3>3 DEF PlaceInv, LeaveInv, InTurn
    <3>7. maxSeen' \in Nat /\ maxSeen <= maxSeen' /\ e.seq <= maxSeen'
      BY <1>3, <2>1, <3>3, HeldSeen
    <3>8. PlaceInv' /\ LeaveInv' /\ \A s : Held(s)' <=> Held(s) \/ s = e.seq
      BY <1>1, <2>1, <3>1, <3>3, <3>4, <3>5, <3>6, <3>7, EmitMoves
    <3> QED
      BY <1>3, <1>7, <2>1, <3>8 DEF r
  <2>3. CASE UNCHANGED <<pending, reorder, ord, out>>
    <3>1. /\ maxSeen' \in Nat /\ maxSeen <= maxSeen' /\ watermark' <= maxSeen'
          /\ \A p \in pending : watermark' <= p.time
          /\ phase' = "ingest"
      BY <1>1, <1>3, <2>1 DEF LeaveInv
    <3>2. PlaceInv' /\ LeaveInv' /\ \A s : Held(s)' <=> Held(s)
      BY <2>1, <2>3, <3>1, NothingMoves
    <3> QED
      BY <1>3, <1>7, <2>1, <3>2 DEF r
  <2> QED
    BY <1>7, <2>2, <2>3 DEF IngestPost
<1> QED
  BY <1>1, <1>5, <1>6, <1>7

\* The Correlator drains or flushes.
LEMMA InternalMoves ==
  ASSUME PipeTyped, PlaceInv, LeaveInv, CorrInternal, chanB' = chanB
  PROVE  PlaceInv' /\ LeaveInv' /\ maxSeen' = maxSeen /\ \A s : Held(s)' <=> Held(s)
<1>0. /\ maxSeen \in Nat /\ watermark \in Nat /\ watermark <= maxSeen
      /\ \A p \in pending : watermark <= p.time /\ p.time \in Nat
  BY SeqsTyped DEF LeaveInv
<1>1. CASE MarkAfterBatch
  <2>1. /\ UNCHANGED <<pending, reorder, out, chanB, forced, maxSeen>>
        /\ phase' = "drain"
    BY <1>1 DEF MarkAfterBatch
  <2>2. watermark' <= maxSeen /\ \A p \in pending : watermark' <= p.time
    <3>1. CASE pending = {} /\ watermark' = Larger(watermark, maxSeen)
      BY <1>0, <3>1 DEF Larger
    <3>2. CASE \E p \in pending : /\ \A q \in pending : p.time <= q.time
                                  /\ watermark' = Larger(watermark, p.time)
      <4>1. PICK p \in pending : /\ \A q \in pending : p.time <= q.time
                                 /\ watermark' = Larger(watermark, p.time)
        BY <3>2
      <4>2. p.time <= maxSeen
        <5>1. Held(p.seq)
          BY DEF Held
        <5> QED
          BY <5>1, HeldSeen DEF PlaceInv
      <4> QED
        BY <1>0, <4>1, <4>2 DEF Larger
    <3> QED
      BY <1>1, <3>1, <3>2 DEF MarkAfterBatch
  <2> QED
    BY <1>0, <2>1, <2>2, NothingMoves
<1>2. CASE DrainPop
  <2>1. PICK s \in reorder :
          /\ Smallest(s) /\ Pop(s)
          /\ forced' = IF s.time > watermark THEN forced \union {s.seq} ELSE forced
    BY <1>2 DEF DrainPop
  <2>2. UNCHANGED <<pending, maxSeen, watermark, phase, chanB>> /\ phase # "end"
    BY <1>2 DEF DrainPop
  <2>3. s.seq \in forced' \/ \A p \in pending : s.seq < p.seq
    <3>1. CASE s.time > watermark
      BY <2>1, <3>1
    <3>2. ASSUME ~(s.time > watermark), NEW p \in pending PROVE s.seq < p.seq
      <4>1. s.time = s.seq /\ p.time = p.seq /\ p.seq # s.seq
        BY DEF PlaceInv, Apart
      <4>2. s.seq \in Nat /\ p.seq \in Nat
        BY SeqsTyped
      <4> QED
        BY <1>0, <3>2, <4>1, <4>2
    <3> QED
      BY <3>1, <3>2
  <2>4. forced \subseteq forced'
    BY <2>1
  <2> QED
    BY <2>1, <2>2, <2>3, <2>4, PopMoves
<1>3. CASE DrainDone
  <2>1. /\ UNCHANGED <<pending, reorder, out, chanB, forced, maxSeen, watermark>>
        /\ phase' = "idle"
    BY <1>3 DEF DrainDone
  <2> QED
    BY <1>0, <2>1, NothingMoves
<1>4. CASE FlushStage
  BY <1>4, FlushMoves DEF FlushStage
<1>5. CASE FlushNoPending
  <2>1. /\ UNCHANGED <<pending, reorder, out, chanB, forced, maxSeen, watermark>>
        /\ phase' = "flush" /\ pending = {}
    BY <1>5 DEF FlushNoPending
  <2> QED
    BY <1>0, <2>1, NothingMoves
<1>6. CASE FlushPop
  <2>1. PICK s \in reorder : Smallest(s) /\ Pop(s)
    BY <1>6 DEF FlushPop
  <2>2. /\ UNCHANGED <<pending, maxSeen, watermark, forced, phase, chanB>>
        /\ phase = "flush"
    BY <1>6 DEF FlushPop
  <2>3. pending = {}
    BY <2>2 DEF LeaveInv
  <2> QED
    BY <2>1, <2>2, <2>3, PopMoves
<1>7. CASE FlushDone
  <2>1. /\ UNCHANGED <<pending, reorder, out, chanB, forced, maxSeen, watermark>>
        /\ phase' = "end" /\ phase = "flush" /\ reorder = {}
    BY <1>7 DEF FlushDone
  <2>2. pending = {}
    BY <2>1 DEF LeaveInv
  <2> QED
    BY <1>0, <2>1, <2>2, NothingMoves
<1> QED
  BY <1>1, <1>2, <1>3, <1>4, <1>5, <1>6, <1>7 DEF CorrInternal

\* A network event passes.
LEMMA NetMoves ==
  ASSUME PipeTyped, PlaceInv, LeaveInv, UNCHANGED corrvars,
         NEW e \in NetType, chanB' = Append(chanB, e)
  PROVE  /\ PlaceInv' /\ LeaveInv'
         /\ chanB' \in Seq(EventType \union NetType)
         /\ \A s : (Held(s)' <=> Held(s)) /\ (Sent(s)' <=> Sent(s))
<1>1. /\ UNCHANGED <<pending, reorder, out, maxSeen, watermark, forced, phase>>
      /\ \A s : Held(s)' <=> Held(s)
  BY DEF corrvars, Held
<1>2. chanB \in Seq(EventType \union NetType) /\ e \in EventType \union NetType
  BY DEF PipeTyped
<1>3. /\ \A i \in 1..Len(chanB) : chanB'[i] = chanB[i] /\ i \in 1..Len(chanB')
      /\ chanB'[Len(chanB) + 1] = e
      /\ \A i \in 1..Len(chanB') : i \in 1..Len(chanB) \/ i = Len(chanB) + 1
      /\ chanB' \in Seq(EventType \union NetType)
  BY <1>2, Appended
<1>4. KernelAt' = KernelAt /\ \A i \in KernelAt : chanB'[i] = chanB[i]
  BY <1>3, KernelType DEF KernelAt, Kernel
<1>5. \A i \in KernelAt : ~Held(chanB[i].seq)'
  <2>1. ASSUME NEW i \in KernelAt, NEW s, s = chanB'[i].seq PROVE ~Held(s)'
    BY <1>1, <1>4, <2>1 DEF PlaceInv
  <2> QED
    BY <2>1 DEF Held
<1>6. PlaceInv'
  <2>1. Apart'
    BY <1>1 DEF PlaceInv, Apart
  <2>2. \A s : Held(s)' => s <= maxSeen'
    BY <1>1 DEF PlaceInv
  <2>3. /\ \A i \in KernelAt' : chanB'[i].time = chanB'[i].seq /\ chanB'[i].seq <= maxSeen'
        /\ \A i, j \in KernelAt' : chanB'[i].seq = chanB'[j].seq => i = j
    <3>1. /\ \A i \in KernelAt : chanB[i].time = chanB[i].seq /\ chanB[i].seq <= maxSeen
          /\ \A i, j \in KernelAt : chanB[i].seq = chanB[j].seq => i = j
      BY DEF PlaceInv
    <3>2. maxSeen' = maxSeen
      BY <1>1
    <3> QED
      BY ONLY <1>4, <3>1, <3>2
  <2>4. \A i \in KernelAt' : ~Held(chanB[i].seq)'
    BY <1>4, <1>5
  <2> QED
    BY <1>1, <2>1, <2>2, <2>3, <2>4 DEF PlaceInv
<1>7. LeaveInv'
  BY <1>1, <1>4 DEF LeaveInv, InTurn
<1>8. \A s : Sent(s)' <=> Sent(s)
  BY <1>4 DEF Sent
<1> QED
  BY <1>1, <1>3, <1>6, <1>7, <1>8

-----------------------------------------------------------------------------
(* Types, and the queues between the driver and the Correlator.            *)

\* A longer batch.
LEMMA PreAppended ==
  ASSUME NEW b \in Seq(RecType), NEW r \in RecType
  PROVE  /\ Append(b, r) \in Seq(RecType)
         /\ r.kind = "post" => Pre(Append(b, r)) = Pre(b)
         /\ r.kind # "post" => Pre(Append(b, r)) = Pre(b) \union {r.seq}
         /\ Rising(b) /\ (r.kind # "post" => Before(Pre(b), {r.seq})) => Rising(Append(b, r))
<1> DEFINE c == Append(b, r)
           n == Len(b) + 1
<1>1. /\ c \in Seq(RecType) /\ Len(b) \in Nat
      /\ \A i \in 1..Len(b) : c[i] = b[i] /\ i \in 1..Len(c)
      /\ c[n] = r /\ n \in 1..Len(c)
      /\ \A i \in 1..Len(c) : i \in 1..Len(b) \/ i = n
  BY Appended
<1>2. \A i \in 1..Len(b) : i < n
  BY <1>1
<1>3. n \in Nat
  BY <1>1
<1> HIDE DEF c, n
<1>4. r.kind = "post" => Pre(c) = Pre(b)
  BY <1>1 DEF Pre
<1>5. r.kind # "post" => Pre(c) = Pre(b) \union {r.seq}
  BY <1>1 DEF Pre
<1>6. ASSUME Rising(b), r.kind # "post" => Before(Pre(b), {r.seq}),
             NEW i \in 1..Len(c), NEW j \in 1..Len(c),
             i < j, c[i].kind # "post", c[j].kind # "post"
      PROVE  c[i].seq < c[j].seq
  <2>1. i \in 1..Len(b) /\ c[i] = b[i]
    BY <1>1, <1>2, <1>3, <1>6
  <2>2. CASE j \in 1..Len(b)
    BY <1>1, <1>6, <2>1, <2>2 DEF Rising
  <2>3. CASE j = n
    <3>1. b[i].seq \in Pre(b) /\ r.kind # "post"
      BY <1>1, <1>6, <2>1, <2>3 DEF Pre
    <3> QED
      BY <1>1, <1>6, <2>1, <2>3, <3>1 DEF Before
  <2> QED
    BY <1>1, <2>2, <2>3
<1>7. Rising(b) /\ (r.kind # "post" => Before(Pre(b), {r.seq})) => Rising(c)
  BY <1>6 DEF Rising
<1> QED
  BY <1>1, <1>4, <1>5, <1>7 DEF c

\* A shorter batch.
LEMMA PreTaken ==
  ASSUME NEW b \in Seq(RecType), b # << >>
  PROVE  /\ Tail(b) \in Seq(RecType) /\ Head(b) \in RecType
         /\ Head(b).kind = "post" => Pre(b) = Pre(Tail(b))
         /\ Head(b).kind # "post" => Pre(b) = Pre(Tail(b)) \union {Head(b).seq}
         /\ Rising(b) => /\ Rising(Tail(b))
                         /\ Head(b).kind # "post" => Before({Head(b).seq}, Pre(Tail(b)))
<1> DEFINE c == Tail(b)
           h == Head(b)
<1>1. /\ c \in Seq(RecType) /\ Len(c) = Len(b) - 1 /\ Len(b) \in Nat
      /\ \A i \in 1..Len(c) : c[i] = b[i + 1] /\ i + 1 \in 2..Len(b)
      /\ \A i \in 1..Len(b) : i = 1 \/ i - 1 \in 1..Len(c)
      /\ 1 \in 1..Len(b) /\ h = b[1] /\ h \in RecType
  BY Taken
<1>2. \A i \in 1..Len(c) : c[i] = b[i + 1] /\ i + 1 \in 1..Len(b) /\ 1 < i + 1
  BY <1>1
<1>3. \A i \in 1..Len(b) : b[i] = h \/ \E k \in 1..Len(c) : b[i] = c[k]
  <2>1. ASSUME NEW i \in 1..Len(b), i # 1 PROVE \E k \in 1..Len(c) : b[i] = c[k]
    <3>1. i - 1 \in 1..Len(c) /\ c[i - 1] = b[(i - 1) + 1] /\ (i - 1) + 1 = i
      BY <1>1, <2>1
    <3> QED
      BY <3>1
  <2> QED
    BY <1>1, <2>1
<1> HIDE DEF c, h
<1>4. h.kind = "post" => Pre(b) = Pre(c)
  <2>1. h.kind = "post" => \A x : x \in Pre(b) <=> x \in Pre(c)
    BY <1>2, <1>3 DEF Pre
  <2> QED
    BY <2>1
<1>5. h.kind # "post" => Pre(b) = Pre(c) \union {h.seq}
  <2>1. ASSUME NEW x \in Pre(b) PROVE x \in Pre(c) \/ x = h.seq
    BY <1>3 DEF Pre
  <2>2. \A x \in Pre(c) : x \in Pre(b)
    BY <1>2 DEF Pre
  <2>3. h.kind # "post" => h.seq \in Pre(b)
    BY <1>1 DEF Pre
  <2> QED
    BY <2>1, <2>2, <2>3
<1>6. ASSUME Rising(b), NEW i \in 1..Len(c), NEW j \in 1..Len(c),
             i < j, c[i].kind # "post", c[j].kind # "post"
      PROVE  c[i].seq < c[j].seq
  <2>1. i + 1 < j + 1
    BY <1>1, <1>6
  <2> QED
    BY <1>2, <1>6, <2>1 DEF Rising
<1>7. ASSUME Rising(b), h.kind # "post", NEW s \in Pre(c) PROVE h.seq < s
  <2>1. PICK i \in 1..Len(c) : c[i].kind # "post" /\ s = c[i].seq
    BY <1>7 DEF Pre
  <2> QED
    BY <1>1, <1>2, <1>7, <2>1 DEF Rising
<1> QED
  BY <1>1, <1>4, <1>5, <1>6, <1>7 DEF Rising, Before, c, h

LEMMA PreEmpty == << >> \in Seq(RecType) /\ Pre(<< >>) = {} /\ Rising(<< >>)
BY DEF Pre, Rising

LEMMA PreType ==
  ASSUME NEW b \in Seq(RecType)
  PROVE  Pre(b) \subseteq Nat
<1>1. \A i \in 1..Len(b) : b[i] \in RecType
  OBVIOUS
<1> QED
  BY <1>1 DEF Pre, RecType

LEMMA EmptyTyped == ASSUME NEW S PROVE << >> \in Seq(S)
OBVIOUS

LEMMA TypedStep == PipeTyped /\ [Next]_vars => PipeTyped'
<1> SUFFICES ASSUME PipeTyped, [Next]_vars PROVE PipeTyped'
  OBVIOUS
<1>0. /\ CorrTyped
      /\ << >> \in Seq(RecType) /\ << >> \in Seq(Seq(RecType)) /\ << >> \in Seq(Nat)
      /\ << >> \in Seq(EventType) /\ << >> \in Seq(EventType \union NetType)
  BY EmptyTyped DEF PipeTyped
<1>00. ASSUME UNCHANGED corrvars PROVE CorrTyped'
  BY <1>00 DEF PipeTyped, CorrTyped, corrvars
<1>1. ASSUME NEW r \in RecType, Extend(r) PROVE wire' \in Seq(RecType)
  BY <1>1 DEF Extend, PipeTyped
<1>2. CASE Report
  <2>1. PICK kind \in {"pending", "sync"} :
          /\ Extend([kind |-> kind, seq |-> nextSeq + 1])
          /\ awaited' = IF kind = "pending" THEN awaited \union {nextSeq + 1} ELSE awaited
    BY <1>2 DEF Report
  <2>2. [kind |-> kind, seq |-> nextSeq + 1] \in RecType /\ nextSeq + 1 \in Nat
    BY DEF RecType, PipeTyped
  <2>3. wire' \in Seq(RecType) /\ awaited' \subseteq Nat
    BY <1>1, <2>1, <2>2 DEF PipeTyped
  <2> QED
    BY <1>2, <1>00, <2>2, <2>3 DEF Report, PipeTyped, recvvars, netvars, parsevars
<1>3. CASE Complete
  <2>1. PICK s \in awaited : /\ Extend([kind |-> "post", seq |-> s])
                             /\ awaited' = awaited \ {s}
    BY <1>3 DEF Complete
  <2>2. [kind |-> "post", seq |-> s] \in RecType
    BY DEF RecType, PipeTyped
  <2>3. wire' \in Seq(RecType) /\ awaited' \subseteq Nat
    BY <1>1, <2>1, <2>2 DEF PipeTyped
  <2> QED
    BY <1>3, <1>00, <2>3 DEF Complete, PipeTyped, recvvars, netvars, parsevars
<1>4. CASE StartThreads
  <2>1. /\ pending' = {} /\ reorder' = {} /\ ord' = 0 /\ maxSeen' = 0
        /\ watermark' = 0 /\ out' = << >> /\ forced' = {} /\ phase' = "idle"
    BY <1>4 DEF StartThreads
  <2>2. CorrTyped'
    BY <1>0, <2>1 DEF CorrTyped
  <2> QED
    BY <1>0, <1>4, <2>2 DEF StartThreads, PipeTyped, driver
<1>5. CASE StartControl \/ StopControl
  BY <1>5, <1>00 DEF StartControl, StopControl, PipeTyped, recvvars, netvars, parsevars
<1>6. CASE StopNetwork \/ JoinRecv \/ JoinParse
  BY <1>6, <1>00 DEF StopNetwork, JoinRecv, JoinParse, PipeTyped, driver, recvvars,
     netvars, parsevars
<1>7. CASE RecvMessage \/ RecvCancel
  BY <1>0, <1>7, <1>00 DEF RecvMessage, RecvCancel, PipeTyped, netvars, parsevars
<1>8. CASE SendBatch
  <2>1. chanA' \in Seq(Seq(RecType))
    BY <1>8 DEF SendBatch, PipeTyped
  <2> QED
    BY <1>0, <1>8, <1>00, <2>1 DEF SendBatch, PipeTyped, driver, netvars, parsevars
<1>9. CASE NetEmit
  <2>1. netSent' \in Nat /\ netQueue' \in Seq(Nat)
    BY <1>9 DEF NetEmit, PipeTyped
  <2> QED
    BY <1>9, <1>00, <2>1 DEF NetEmit, PipeTyped, driver, recvvars, parsevars
<1>10. CASE SelectBatch
  <2>1. batch' \in Seq(RecType) /\ chanA' \in Seq(Seq(RecType))
    BY <1>10, Taken DEF SelectBatch, PipeTyped
  <2>2. CorrTyped'
    BY <1>0, <1>10, BeginTyped DEF SelectBatch
  <2> QED
    BY <1>10, <2>1, <2>2 DEF SelectBatch, PipeTyped, driver, netvars
<1>11. CASE SelectNet
  <2>1. netQueue' \in Seq(Nat) /\ Head(netQueue) \in Nat
    BY <1>11, Taken DEF SelectNet, PipeTyped
  <2>2. [net |-> Head(netQueue)] \in EventType \union NetType
    BY <2>1 DEF NetType
  <2>3. chanB' \in Seq(EventType \union NetType)
    BY <1>11, <2>2, Appended DEF SelectNet, PipeTyped
  <2> QED
    BY <1>11, <1>00, <2>1, <2>3 DEF SelectNet, PipeTyped, driver, recvvars
<1>12. CASE ParkNet
  BY <1>12, <1>00 DEF ParkNet, PipeTyped, driver, recvvars, parsevars
<1>13. CASE SelectEnd
  <2>1. CorrTyped'
    BY <1>0, <1>13, BeginTyped DEF SelectEnd
  <2> QED
    BY <1>13, <2>1 DEF SelectEnd, PipeTyped, driver, recvvars, netvars, parsevars
<1>14. CASE ParseRecord
  <2>1. batch' \in Seq(RecType) /\ Head(batch) \in RecType
    BY <1>14, Taken DEF ParseRecord, PipeTyped
  <2>2. CorrTyped'
    <3> DEFINE op == [seq |-> Head(batch).seq, time |-> Head(batch).seq]
    <3>1. op \in Op
      BY <2>1 DEF RecType, Op
    <3>2. IngestPending(op) \/ IngestSync(op) \/ IngestPost(Head(batch).seq)
      BY <1>14 DEF ParseRecord
    <3> HIDE DEF op
    <3> QED
      BY <1>0, <3>1, <3>2, PendingTyped, SyncTyped, PostTyped
  <2> QED
    BY <1>14, <2>1, <2>2 DEF ParseRecord, PipeTyped, driver, recvvars, netvars
<1>15. CASE ParseInternal
  <2>1. CorrTyped'
    BY <1>0, <1>15, InternalTyped DEF ParseInternal
  <2> QED
    BY <1>15, <2>1 DEF ParseInternal, PipeTyped, driver, recvvars, netvars, parsevars
<1>16. CASE Forward \/ ForwardTail
  <2>1. /\ TakeOut
        /\ chanB' = chanB \/ chanB' = Append(chanB, Head(out))
        /\ UNCHANGED <<driver, recvvars, netvars, batch>>
    BY <1>16 DEF Forward, ForwardTail
  <2>2. out' \in Seq(EventType) /\ Head(out) \in EventType
    BY <2>1, Taken DEF TakeOut, PipeTyped, CorrTyped
  <2>3. CorrTyped'
    BY <1>0, <2>1, <2>2 DEF TakeOut, CorrTyped
  <2>4. chanB' \in Seq(EventType \union NetType)
    <3>1. chanB \in Seq(EventType \union NetType) /\ Head(out) \in EventType \union NetType
      BY <2>2 DEF PipeTyped
    <3> QED
      BY <2>1, <3>1, Appended
  <2> QED
    BY <2>1, <2>3, <2>4 DEF PipeTyped, driver, recvvars, netvars
<1>17. CASE ParseEnds
  BY <1>17, <1>00 DEF ParseEnds, PipeTyped, driver, recvvars, netvars
<1>18. CASE UNCHANGED vars
  BY <1>18, <1>00 DEF vars, PipeTyped, driver, recvvars, netvars, parsevars
<1> QED
  BY <1>2, <1>3, <1>4, <1>5, <1>6, <1>7, <1>8, <1>9, <1>10, <1>11, <1>12, <1>13,
     <1>14, <1>15, <1>16, <1>17, <1>18 DEF Next, ControlStep, RecvStep, ParseStep

\* What the Correlator has seen grows with the records it ingests alone.
LEMMA SeenSame ==
  ASSUME [Next]_vars, ~StartThreads, ~ParseRecord
  PROVE  maxSeen' = maxSeen
<1>1. CASE ParseInternal
  BY <1>1 DEF ParseInternal, CorrInternal, MarkAfterBatch, DrainPop, DrainDone,
     FlushStage, FlushNoPending, FlushPop, FlushDone
<1>2. CASE SelectBatch \/ SelectEnd
  BY <1>2 DEF SelectBatch, SelectEnd, BeginBatch, BeginFlush
<1>3. CASE Forward \/ ForwardTail
  BY <1>3 DEF Forward, ForwardTail, TakeOut
<1>4. CASE UNCHANGED corrvars
  BY <1>4 DEF corrvars
<1>5. Report \/ Complete \/ RecvStep \/ NetEmit => UNCHANGED corrvars
  BY DEF Report, Complete, RecvStep, RecvMessage, RecvCancel, SendBatch, NetEmit
<1>6. ControlStep => UNCHANGED corrvars
  BY DEF ControlStep, StartControl, StopControl, StopNetwork, JoinRecv, JoinParse
<1>7. SelectNet \/ ParkNet \/ ParseEnds \/ UNCHANGED vars => UNCHANGED corrvars
  BY DEF SelectNet, ParkNet, ParseEnds, vars
<1> QED
  BY <1>1, <1>2, <1>3, <1>4, <1>5, <1>6, <1>7 DEF Next, ParseStep

\* The queues move only by these.
LEMMA QueuesSame ==
  ASSUME [Next]_vars, ~Report, ~Complete, ~StartThreads, ~RecvStep, ~SelectBatch, ~ParseRecord
  PROVE  UNCHANGED <<wire, nextSeq, recv, held, chanA, batch, maxSeen>>
<1>1. maxSeen' = maxSeen
  BY SeenSame
<1>2. CASE ControlStep
  BY <1>1, <1>2 DEF ControlStep, StartControl, StopControl, StopNetwork, JoinRecv,
     JoinParse, driver, recvvars, parsevars
<1>3. CASE NetEmit
  BY <1>1, <1>3 DEF NetEmit, driver, recvvars, parsevars
<1>4. CASE ParseStep
  BY <1>1, <1>4 DEF ParseStep, SelectNet, ParkNet, SelectEnd, ParseInternal, Forward,
     ForwardTail, ParseEnds, driver, recvvars, parsevars
<1>5. CASE UNCHANGED vars
  BY <1>1, <1>5 DEF vars, driver, recvvars, parsevars
<1> QED
  BY <1>2, <1>3, <1>4, <1>5 DEF Next

LEMMA QueueStep ==
  ASSUME PipeTyped, QueueInv, PlaceInv, LeaveInv, ArriveInv, [Next]_vars
  PROVE  QueueInv'
<1>0. /\ maxSeen \in Nat /\ nextSeq \in Nat
      /\ Pre(wire) \subseteq Nat /\ Pre(held) \subseteq Nat /\ Pre(batch) \subseteq Nat
      /\ Len(chanA) \in Nat
      /\ \A k \in 1..Len(chanA) : chanA[k] \in Seq(RecType) /\ Pre(chanA[k]) \subseteq Nat
  BY PreType DEF PipeTyped, CorrTyped
<1>1. CASE Report \/ Complete
  <2>1. /\ UNCHANGED <<recv, held, chanA, batch>>
        /\ maxSeen' = maxSeen
    BY <1>1 DEF Report, Complete, recvvars, parsevars, corrvars
  <2>2. CASE Report
    <3>1. PICK kind \in {"pending", "sync"} : Extend([kind |-> kind, seq |-> nextSeq + 1])
      BY <2>2 DEF Report
    <3>2. PICK r \in RecType : r.kind # "post" /\ r.seq = nextSeq + 1 /\ wire' = Append(wire, r)
      BY <1>0, <3>1 DEF Extend, RecType
    <3>3. nextSeq' = nextSeq + 1
      BY <2>2 DEF Report
    <3>4. Before(Pre(wire), {r.seq}) /\ Rising(wire) /\ wire \in Seq(RecType)
      BY <3>2 DEF QueueInv, PipeTyped, Before
    <3>5. Pre(wire') = Pre(wire) \union {nextSeq + 1} /\ Rising(wire')
      BY <3>2, <3>4, PreAppended
    <3>6. Before({maxSeen} \union Pre(batch) \union Pre(held) \union Pre(wire'),
                 {nextSeq' + 1})
      BY <1>0, <3>3, <3>5 DEF QueueInv, Before
    <3>7. ASSUME NEW k \in 1..Len(chanA) PROVE Before(Pre(chanA[k]), {nextSeq' + 1})
      <4>1. Before(Pre(chanA[k]), {nextSeq + 1}) /\ Pre(chanA[k]) \subseteq Nat
        BY <1>0 DEF QueueInv
      <4> QED
        BY <1>0, <3>3, <4>1 DEF Before
    <3>8. Before({maxSeen} \union Pre(batch) \union Pre(held), Pre(wire'))
      BY <3>5 DEF QueueInv, Before
    <3>9. \A k \in 1..Len(chanA) : Before(Pre(chanA[k]), Pre(held) \union Pre(wire'))
      BY <3>5 DEF QueueInv, Before
    <3> QED
      BY <2>1, <3>5, <3>6, <3>7, <3>8, <3>9 DEF QueueInv
  <2>3. CASE Complete
    <3>1. PICK s \in awaited : Extend([kind |-> "post", seq |-> s])
      BY <2>3 DEF Complete
    <3>2. PICK r \in RecType : r.kind = "post" /\ wire' = Append(wire, r)
      BY <3>1 DEF Extend, RecType, PipeTyped
    <3>3. Pre(wire') = Pre(wire) /\ Rising(wire') /\ nextSeq' = nextSeq
      BY <2>3, <3>2, PreAppended DEF QueueInv, PipeTyped, Complete
    <3> QED
      BY <2>1, <3>3 DEF QueueInv
  <2> QED
    BY <1>1, <2>2, <2>3
<1>2. CASE StartThreads
  <2>1. /\ maxSeen' = 0 /\ held' = << >> /\ batch' = << >> /\ chanA' = << >>
        /\ UNCHANGED <<wire, nextSeq>>
    BY <1>2 DEF StartThreads, driver
  <2>2. /\ Pre(held') = {} /\ Rising(held') /\ Pre(batch') = {} /\ Rising(batch')
        /\ 1..Len(chanA') = {}
    BY <2>1, PreEmpty
  <2>3. Before({0}, Pre(wire)) /\ Before({0} \union Pre(wire), {nextSeq + 1})
    BY <1>0 DEF QueueInv, Before
  <2> QED
    BY <2>1, <2>2, <2>3 DEF QueueInv, Before
<1>3. CASE RecvMessage \/ RecvCancel
  <2>1. /\ UNCHANGED <<nextSeq, chanA, batch>> /\ maxSeen' = maxSeen
        /\ recv = "reading"
    BY <1>3 DEF RecvMessage, RecvCancel, parsevars, corrvars
  <2>2. Pre(held) = {} /\ held = << >>
    BY <2>1, PreEmpty DEF QueueInv
  <2>3. \/ Pre(held') = Pre(wire) /\ Pre(wire') = {} /\ recv' = "got"
        \/ Pre(held') = {} /\ Pre(wire') = Pre(wire) /\ held' = << >>
        \/ Pre(held') = {} /\ Pre(wire') = {} /\ held' = << >>
    BY <1>3, <2>2, PreEmpty DEF RecvMessage, RecvCancel
  <2>4. Rising(held') /\ Rising(wire')
    BY <1>3, PreEmpty DEF RecvMessage, RecvCancel, QueueInv
  <2> QED
    BY <2>1, <2>2, <2>3, <2>4 DEF QueueInv, Before
<1>4. CASE SendBatch
  <2>1. /\ UNCHANGED <<wire, nextSeq, batch>> /\ maxSeen' = maxSeen
        /\ held' = << >> /\ chanA' = Append(chanA, held)
    BY <1>4 DEF SendBatch, driver, parsevars, corrvars
  <2>2. Pre(held') = {} /\ Rising(held')
    BY <2>1, PreEmpty
  <2> DEFINE n == Len(chanA) + 1
  <2>3. /\ \A k \in 1..Len(chanA) : chanA'[k] = chanA[k] /\ k \in 1..Len(chanA')
        /\ chanA'[n] = held /\ n \in 1..Len(chanA')
        /\ \A k \in 1..Len(chanA') : k \in 1..Len(chanA) \/ k = n
    BY <2>1, Appended DEF PipeTyped
  <2>4. n \in Nat /\ \A k \in 1..Len(chanA) : k \in Nat /\ ~(n < k)
    BY <1>0
  <2> HIDE DEF n
  <2>5. \A k \in 1..Len(chanA') :
          /\ Rising(chanA'[k])
          /\ Before({maxSeen} \union Pre(batch), Pre(chanA'[k]))
          /\ Before(Pre(chanA'[k]), Pre(wire))
          /\ Before(Pre(chanA'[k]), {nextSeq + 1})
    BY <2>3 DEF QueueInv, Before
  <2>6. ASSUME NEW k \in 1..Len(chanA'), NEW l \in 1..Len(chanA'), k < l
        PROVE  Before(Pre(chanA'[k]), Pre(chanA'[l]))
    <3>1. k \in 1..Len(chanA)
      <4>1. CASE k = n
        BY <2>3, <2>4, <2>6, <4>1
      <4> QED
        BY <2>3, <4>1
    <3>2. CASE l = n
      BY <2>3, <3>1, <3>2 DEF QueueInv, Before
    <3>3. CASE l \in 1..Len(chanA)
      BY <2>3, <2>6, <3>1, <3>3 DEF QueueInv
    <3> QED
      BY <2>3, <3>2, <3>3
  <2>7. /\ Before({maxSeen}, Pre(batch))
        /\ Before({maxSeen} \union Pre(batch), Pre(wire))
        /\ Before({maxSeen} \union Pre(batch) \union Pre(wire), {nextSeq + 1})
        /\ Rising(wire) /\ Rising(batch)
    BY DEF QueueInv, Before
  <2>8. \A k \in 1..Len(chanA') : Before(Pre(chanA'[k]), Pre(held') \union Pre(wire))
    BY <2>2, <2>5 DEF Before
  <2>9. /\ Before({maxSeen} \union Pre(batch), Pre(held'))
        /\ Before({maxSeen} \union Pre(batch) \union Pre(held'), Pre(wire))
        /\ Before({maxSeen} \union Pre(batch) \union Pre(held') \union Pre(wire), {nextSeq + 1})
    BY <2>2, <2>7 DEF Before
  <2> QED
    BY <2>1, <2>2, <2>5, <2>6, <2>7, <2>8, <2>9 DEF QueueInv
<1>5. CASE SelectBatch
  <2>1. /\ UNCHANGED <<wire, nextSeq, held, recv>> /\ maxSeen' = maxSeen
        /\ chanA # << >> /\ batch' = Head(chanA) /\ chanA' = Tail(chanA)
        /\ Pre(batch) = {}
    BY <1>5, PreEmpty DEF SelectBatch, BeginBatch, Selecting, driver
  <2>2. /\ \A k \in 1..Len(chanA') : chanA'[k] = chanA[k + 1] /\ k + 1 \in 2..Len(chanA)
        /\ 1 \in 1..Len(chanA) /\ batch' = chanA[1] /\ Len(chanA') \in Nat
    BY <2>1, Taken DEF PipeTyped
  <2>3. \A k \in 1..Len(chanA') :
          chanA'[k] = chanA[k + 1] /\ k + 1 \in 1..Len(chanA) /\ 1 < k + 1 /\ k \in Nat
    BY <2>2
  <2>4. \A k \in 1..Len(chanA') :
          /\ Rising(chanA'[k])
          /\ Before({maxSeen} \union Pre(batch'), Pre(chanA'[k]))
          /\ Before(Pre(chanA'[k]), Pre(held) \union Pre(wire))
          /\ Before(Pre(chanA'[k]), {nextSeq + 1})
    BY <2>2, <2>3 DEF QueueInv, Before
  <2>5. ASSUME NEW k \in 1..Len(chanA'), NEW l \in 1..Len(chanA'), k < l
        PROVE  Before(Pre(chanA'[k]), Pre(chanA'[l]))
    <3>1. k + 1 < l + 1
      BY <2>3, <2>5
    <3> QED
      BY <2>3, <3>1 DEF QueueInv
  <2>6. /\ Rising(batch') /\ Before({maxSeen}, Pre(batch'))
        /\ Before({maxSeen} \union Pre(batch'), Pre(held))
        /\ Before({maxSeen} \union Pre(batch') \union Pre(held), Pre(wire))
        /\ Before({maxSeen} \union Pre(batch') \union Pre(held) \union Pre(wire), {nextSeq + 1})
    BY <2>2 DEF QueueInv, Before
  <2> QED
    BY <2>1, <2>4, <2>5, <2>6 DEF QueueInv
<1>6. CASE ParseRecord
  <2>1. /\ UNCHANGED <<wire, nextSeq, held, recv, chanA>>
        /\ batch # << >> /\ batch' = Tail(batch)
    BY <1>6 DEF ParseRecord, driver, recvvars
  <2>2. /\ Rising(batch')
        /\ Head(batch).kind = "post" => Pre(batch) = Pre(batch')
        /\ Head(batch).kind # "post" => /\ Pre(batch) = Pre(batch') \union {Head(batch).seq}
                                        /\ Before({Head(batch).seq}, Pre(batch'))
    BY <2>1, PreTaken DEF QueueInv, PipeTyped
  <2>3. /\ Head(batch).kind = "post" => maxSeen' = maxSeen
        /\ Head(batch).kind # "post" => maxSeen' = Head(batch).seq
    BY <1>6, RecordMoves
  <2>4. /\ Before({maxSeen'}, Pre(batch'))
        /\ {maxSeen'} \union Pre(batch') \subseteq {maxSeen} \union Pre(batch)
    BY <2>2, <2>3 DEF QueueInv
  <2>5. /\ Before({maxSeen'} \union Pre(batch'), Pre(held))
        /\ Before({maxSeen'} \union Pre(batch') \union Pre(held), Pre(wire))
        /\ Before({maxSeen'} \union Pre(batch') \union Pre(held) \union Pre(wire), {nextSeq + 1})
        /\ \A k \in 1..Len(chanA) : Before({maxSeen'} \union Pre(batch'), Pre(chanA[k]))
    BY <2>4 DEF QueueInv, Before
  <2> QED
    BY <2>1, <2>2, <2>4, <2>5 DEF QueueInv
<1>7. CASE UNCHANGED <<wire, nextSeq, recv, held, chanA, batch, maxSeen>>
  BY <1>7 DEF QueueInv
<1> QED
  BY <1>1, <1>2, <1>3, <1>4, <1>5, <1>6, <1>7, QueuesSame DEF RecvStep

-----------------------------------------------------------------------------
(* One place and its turn, on the way to channel B.                        *)

\* What the receive thread and the controller leave alone.
LEMMA CorrSame ==
  ASSUME Report \/ Complete \/ StartControl \/ StopControl \/ StopNetwork \/ JoinRecv
           \/ JoinParse \/ RecvStep \/ NetEmit \/ ParkNet \/ ParseEnds \/ UNCHANGED vars
  PROVE  UNCHANGED <<corrvars, chanB>>
BY DEF Report, Complete, StartControl, StopControl, StopNetwork, JoinRecv, JoinParse,
   RecvStep, RecvMessage, RecvCancel, SendBatch, NetEmit, ParkNet, ParseEnds, vars,
   parsevars

LEMMA MoveStep ==
  ASSUME PipeTyped, QueueInv, PlaceInv, LeaveInv, ArriveInv, [Next]_vars
  PROVE  PlaceInv' /\ LeaveInv'
<1>0. /\ maxSeen \in Nat /\ watermark <= maxSeen
      /\ \A p \in pending : watermark <= p.time
      /\ phase \in {"flush", "end"} => pending = {}
      /\ phase = "end" => reorder = {}
  BY SeqsTyped DEF LeaveInv
<1>1. CASE UNCHANGED <<corrvars, chanB>>
  <2>1. UNCHANGED <<pending, reorder, out, chanB, forced, maxSeen, watermark, phase>>
    BY <1>1 DEF corrvars
  <2>2. maxSeen <= maxSeen
    BY <1>0
  <2> QED
    BY <1>0, <2>1, <2>2, NothingMoves
<1>2. CASE StartThreads
  <2>1. /\ pending' = {} /\ reorder' = {} /\ out' = << >> /\ maxSeen' = 0 /\ watermark' = 0
        /\ phase' = "idle" /\ chanB' = << >>
    BY <1>2 DEF StartThreads
  <2>2. KernelAt' = {} /\ 1..Len(out') = {}
    BY <2>1 DEF KernelAt
  <2> QED
    BY <2>1, <2>2 DEF PlaceInv, LeaveInv, Apart, Held
<1>3. CASE SelectBatch \/ SelectEnd
  <2>1. /\ UNCHANGED <<pending, reorder, out, forced, maxSeen, watermark, chanB>>
        /\ phase' \in {"ingest", "stage"}
    BY <1>3 DEF SelectBatch, SelectEnd, BeginBatch, BeginFlush, parsevars
  <2>2. maxSeen <= maxSeen
    BY <1>0
  <2> QED
    BY <1>0, <2>1, <2>2, NothingMoves
<1>4. CASE SelectNet
  <2>1. Head(netQueue) \in Nat
    BY <1>4, Taken DEF SelectNet, PipeTyped
  <2>2. [net |-> Head(netQueue)] \in NetType
    BY <2>1 DEF NetType
  <2> QED
    BY <1>4, <2>2, NetMoves DEF SelectNet
<1>5. CASE ParseRecord
  BY <1>5, RecordMoves
<1>6. CASE ParseInternal
  BY <1>6, InternalMoves DEF ParseInternal, parsevars
<1>7. CASE Forward \/ ForwardTail
  <2>1. /\ TakeOut
        /\ chanB' = chanB \/ chanB' = Append(chanB, Head(out))
    BY <1>7 DEF Forward, ForwardTail
  <2> QED
    BY <2>1, TakeMoves
<1> QED
  BY <1>1, <1>2, <1>3, <1>4, <1>5, <1>6, <1>7, CorrSame
  DEF Next, ControlStep, ParseStep

-----------------------------------------------------------------------------
(* What the receive thread queued arrives.                                 *)

LEMMA ArriveStep ==
  ASSUME PipeTyped, QueueInv, PlaceInv, LeaveInv, ArriveInv, JoinInv, [Next]_vars
  PROVE  ArriveInv'
<1>1. CASE Report \/ Complete
  <2>1. /\ UNCHANGED <<recv, chanA, received, parse, batch, phase, out, pending, reorder, chanB>>
        /\ unknown \subseteq unknown'
    BY <1>1 DEF Report, Complete, recvvars, parsevars, corrvars
  <2> QED
    BY <2>1 DEF ArriveInv, Queued, Held, Sent, KernelAt, Kernel
<1>2. CASE StartThreads
  <2>1. received' = {} /\ phase' = "idle" /\ batch' = << >> /\ parse' = "run"
    BY <1>2 DEF StartThreads
  <2> QED
    BY <2>1 DEF ArriveInv
<1>3. CASE SendBatch
  <2>1. /\ recv = "got" /\ chanA' = Append(chanA, held)
        /\ received' = received \union Pre(held)
        /\ UNCHANGED <<corrvars, unknown, parse, batch, chanB>>
    BY <1>3 DEF SendBatch, driver, parsevars, Pre
  <2>2. /\ \A k \in 1..Len(chanA) : chanA'[k] = chanA[k] /\ k \in 1..Len(chanA')
        /\ chanA'[Len(chanA) + 1] = held /\ Len(chanA) + 1 \in 1..Len(chanA')
    BY <2>1, Appended DEF PipeTyped
  <2>3. \A s : Queued(s) \/ s \in Pre(held) => Queued(s)'
    BY <2>1, <2>2 DEF Queued
  <2>4. UNCHANGED <<pending, reorder, out, phase>>
    BY <2>1 DEF corrvars
  <2>5. \A s : (Held(s) => Held(s)') /\ (Sent(s) => Sent(s)')
    BY <2>1, <2>4 DEF Held, Sent, KernelAt, Kernel
  <2>6. phase \notin {"stage", "flush", "end"}
    BY <2>1 DEF ArriveInv
  <2> QED
    BY <2>1, <2>3, <2>4, <2>5, <2>6 DEF ArriveInv
<1>4. CASE SelectBatch
  <2>1. /\ phase' = "ingest" /\ parse = "run" /\ parse' = parse /\ batch = << >>
        /\ chanA # << >> /\ batch' = Head(chanA) /\ chanA' = Tail(chanA)
        /\ UNCHANGED <<pending, reorder, out, received, unknown, chanB>>
    BY <1>4 DEF SelectBatch, Selecting, BeginBatch, driver
  <2>2. /\ \A k \in 1..Len(chanA') : chanA'[k] = chanA[k + 1]
        /\ \A k \in 1..Len(chanA) : k = 1 \/ k - 1 \in 1..Len(chanA')
        /\ batch' = chanA[1] /\ Len(chanA) \in Nat
    BY <2>1, Taken DEF PipeTyped
  <2>3. \A k \in 1..Len(chanA) :
          chanA[k] = batch' \/ \E l \in 1..Len(chanA') : chanA[k] = chanA'[l]
    <3>1. ASSUME NEW k \in 1..Len(chanA), k # 1
          PROVE  k - 1 \in 1..Len(chanA') /\ chanA[k] = chanA'[k - 1]
      <4>1. k - 1 \in 1..Len(chanA') /\ (k - 1) + 1 = k
        BY <2>2, <3>1
      <4> QED
        BY <2>2, <4>1
    <3> QED
      BY <2>2, <3>1
  <2>4. \A s : Queued(s) => Queued(s)'
    BY <2>1, <2>3, PreEmpty DEF Queued
  <2>5. \A s : (Held(s) => Held(s)') /\ (Sent(s) => Sent(s)')
    BY <2>1 DEF Held, Sent, KernelAt, Kernel
  <2> QED
    BY <2>1, <2>4, <2>5 DEF ArriveInv
<1>5. CASE SelectNet
  <2>1. Head(netQueue) \in Nat
    BY <1>5, Taken DEF SelectNet, PipeTyped
  <2>2. [net |-> Head(netQueue)] \in NetType
    BY <2>1 DEF NetType
  <2>3. \A s : (Held(s)' <=> Held(s)) /\ (Sent(s)' <=> Sent(s))
    BY <1>5, <2>2, NetMoves DEF SelectNet
  <2>4. UNCHANGED <<received, unknown, batch, chanA, recv, parse, phase, out>>
    BY <1>5 DEF SelectNet, corrvars, driver, recvvars
  <2> QED
    BY <2>3, <2>4 DEF ArriveInv, Queued
<1>6. CASE SelectEnd
  <2>1. /\ phase' = "stage" /\ parse = "run" /\ batch = << >>
        /\ recv = "exit" /\ chanA = << >>
        /\ UNCHANGED <<received, unknown, batch, chanA, recv, parse, out, pending, reorder, chanB>>
    BY <1>6 DEF SelectEnd, Selecting, BeginFlush, driver, recvvars, parsevars
  <2> QED
    BY <2>1 DEF ArriveInv, Queued, Held, Sent, KernelAt, Kernel
<1>7. CASE ParseRecord
  <2>1. /\ phase = "ingest" /\ phase' = "ingest"
        /\ batch # << >> /\ batch' = Tail(batch)
        /\ UNCHANGED <<received, unknown, chanA, recv, parse, chanB>>
    BY <1>7 DEF ParseRecord, IngestPending, IngestSync, IngestPost, driver, recvvars
  <2>2. \A s : Held(s) \/ (Head(batch).kind # "post" /\ s = Head(batch).seq) => Held(s)'
    BY <1>7, RecordMoves
  <2>3. \A s \in Pre(batch) : s \in Pre(batch')
                              \/ (Head(batch).kind # "post" /\ s = Head(batch).seq)
    BY <2>1, PreTaken DEF PipeTyped
  <2>4. \A s : Sent(s) => Sent(s)'
    BY <2>1 DEF Sent, KernelAt, Kernel
  <2>5. \A s : Queued(s) => Queued(s)' \/ Held(s)'
    BY <2>1, <2>2, <2>3 DEF Queued
  <2> QED
    BY <2>1, <2>2, <2>4, <2>5 DEF ArriveInv
<1>8. CASE ParseInternal
  <2>1. /\ CorrInternal /\ batch = << >>
        /\ UNCHANGED <<received, unknown, chanA, recv, parse, batch, chanB>>
    BY <1>8 DEF ParseInternal, driver, recvvars, parsevars
  <2>2. phase \notin {"idle", "end"}
    BY <2>1, InternalPhase
  <2>3. phase' \in {"stage", "flush", "end"} => phase \in {"stage", "flush"}
    BY <2>1 DEF CorrInternal, MarkAfterBatch, DrainPop, DrainDone, FlushStage,
       FlushNoPending, FlushPop, FlushDone
  <2>4. \A s : (Held(s)' <=> Held(s)) /\ (Sent(s) => Sent(s)')
    BY <2>1, InternalMoves DEF Sent, KernelAt, Kernel
  <2>5. \A s : Queued(s) => Queued(s)'
    BY <2>1 DEF Queued
  <2>6. parse # "exit"
    BY <2>2 DEF ArriveInv
  <2> QED
    BY <2>1, <2>3, <2>4, <2>5, <2>6 DEF ArriveInv
<1>9. CASE Forward \/ ForwardTail
  <2>1. /\ TakeOut /\ parse = "run"
        /\ UNCHANGED <<received, unknown, chanA, recv, parse, batch, phase>>
    BY <1>9 DEF Forward, ForwardTail, TakeOut, driver, recvvars
  <2>2. \/ chanB' = Append(chanB, Head(out))
        \/ chanB' = chanB /\ Head(out).seq \in unknown
    BY <1>9 DEF Forward, ForwardTail, Known
  <2>3. /\ \A s : Held(s) => Held(s)' \/ s = Head(out).seq
        /\ \A s : Sent(s) => Sent(s)'
        /\ chanB' = Append(chanB, Head(out)) => \A s : s = Head(out).seq => Sent(s)'
    BY <2>1, <2>2, TakeMoves
  <2>4. \A s : Queued(s) => Queued(s)'
    BY <2>1 DEF Queued
  <2>5. \A s : Held(s) => Held(s)' \/ Sent(s)' \/ s \in unknown
    BY <2>2, <2>3
  <2> QED
    BY <2>1, <2>3, <2>4, <2>5 DEF ArriveInv
<1>10. CASE ParseEnds
  <2>1. /\ phase = "end" /\ out = << >>
        /\ UNCHANGED <<received, unknown, chanA, recv, batch, phase, out, pending, reorder, chanB>>
    BY <1>10 DEF ParseEnds, corrvars, driver, recvvars
  <2> QED
    BY <2>1 DEF ArriveInv, Queued, Held, Sent, KernelAt, Kernel
<1>11. CASE RecvMessage \/ RecvCancel
  <2>1. /\ recv = "reading"
        /\ UNCHANGED <<received, unknown, chanA, batch, parse, phase, out, pending, reorder, chanB>>
    BY <1>11 DEF RecvMessage, RecvCancel, corrvars, parsevars
  <2>2. phase \notin {"stage", "flush", "end"}
    BY <2>1 DEF ArriveInv
  <2> QED
    BY <2>1, <2>2 DEF ArriveInv, Queued, Held, Sent, KernelAt, Kernel
<1>12. CASE UNCHANGED <<corrvars, unknown, recv, chanA, received, parse, batch, chanB>>
  <2>1. UNCHANGED <<pending, reorder, out, phase>>
    BY <1>12 DEF corrvars
  <2> QED
    BY <1>12, <2>1 DEF ArriveInv, Queued, Held, Sent, KernelAt, Kernel
<1>13. StartControl \/ StopControl \/ StopNetwork \/ JoinRecv \/ JoinParse \/ NetEmit
         \/ ParkNet \/ UNCHANGED vars
       => UNCHANGED <<corrvars, unknown, recv, chanA, received, parse, batch, chanB>>
  BY DEF StartControl, StopControl, StopNetwork, JoinRecv, JoinParse, NetEmit, ParkNet,
     vars, driver, recvvars, parsevars
<1> QED
  BY <1>1, <1>2, <1>3, <1>4, <1>5, <1>6, <1>7, <1>8, <1>9, <1>10, <1>11, <1>12, <1>13
  DEF Next, ControlStep, RecvStep, ParseStep

LEMMA PipeInit == Init => PipeInv
<1> SUFFICES ASSUME Init PROVE PipeInv
  OBVIOUS
<1>1. PipeTyped
  BY EmptyTyped DEF Init, CorrInit, PipeTyped, CorrTyped
<1>2. /\ Pre(wire) = {} /\ Pre(held) = {} /\ Pre(batch) = {}
      /\ Rising(wire) /\ Rising(held) /\ Rising(batch)
      /\ 1..Len(chanA) = {} /\ 1..Len(out) = {} /\ KernelAt = {}
  BY PreEmpty DEF Init, CorrInit, KernelAt
<1>3. QueueInv
  BY <1>2 DEF Init, CorrInit, QueueInv, Before
<1>4. PlaceInv /\ LeaveInv
  BY <1>2 DEF Init, CorrInit, PlaceInv, LeaveInv, Apart, Held
<1>5. ArriveInv
  BY DEF Init, CorrInit, ArriveInv
<1> QED
  BY <1>1, <1>3, <1>4, <1>5 DEF PipeInv

LEMMA PipeStep == PipeInv /\ JoinInv /\ [Next]_vars => PipeInv'
BY TypedStep, QueueStep, MoveStep, ArriveStep DEF PipeInv

LEMMA PipeIsComplete == PipeInv => SessionComplete
<1> SUFFICES ASSUME PipeInv, parse = "exit", NEW s \in received, s \notin unknown
             PROVE  Cardinality(At(s)) = 1
  BY DEF SessionComplete
<1>1. phase = "end" /\ out = << >> /\ pending = {} /\ reorder = {}
      /\ batch = << >> /\ chanA = << >>
  BY DEF PipeInv, ArriveInv, LeaveInv
<1>2. ~Queued(s) /\ ~Held(s)
  BY <1>1, PreEmpty DEF Queued, Held
<1>3. PICK i \in KernelAt : chanB[i].seq = s
  BY <1>2 DEF PipeInv, ArriveInv, Sent
<1>4. At(s) = {i}
  BY <1>3 DEF At, KernelAt, PipeInv, PlaceInv
<1> QED
  BY <1>4, FS_Singleton

LEMMA PipeInOrder == PipeInv => StreamInOrder
<1> SUFFICES ASSUME PipeInv, NEW i \in 1..Len(chanB), NEW j \in 1..Len(chanB),
                    i < j, Kernel(i), Kernel(j), chanB[i].time > chanB[j].time,
                    chanB[i].seq \notin forced
             PROVE  FALSE
  BY DEF StreamInOrder
<1>1. i \in KernelAt /\ j \in KernelAt
  BY DEF KernelAt
<1>2. /\ chanB[i].seq < chanB[j].seq
      /\ chanB[i].time = chanB[i].seq /\ chanB[j].time = chanB[j].seq
      /\ chanB[i].seq \in Nat /\ chanB[j].seq \in Nat
  BY <1>1, SeqsTyped DEF PipeInv, LeaveInv, PlaceInv
<1> QED
  BY <1>2

LEMMA SessionInvariance == Spec => [](PipeInv /\ JoinInv)
<1>1. Init => JoinInv
  BY DEF Init, CorrInit, JoinInv
<1> QED
  BY <1>1, PipeInit, PipeStep, JoinStep, PTL DEF Spec

\* When the parse thread has ended, every operation whose PRE record the receive
\* thread handed over is in channel B exactly once, or belongs to a process the
\* table does not know: the batches are drained before the thread looks whether
\* its sender is gone, and flush hands over what has no completion.
THEOREM NothingLostAtStop == Spec => []SessionComplete
BY SessionInvariance, PipeIsComplete, PTL

\* Channel B carries kernel events in the order of their start times, whatever
\* the batches they came in and the network events between them, except for
\* those the heap gave up above CAP.
THEOREM ChannelInOrder == Spec => []StreamInOrder
BY SessionInvariance, PipeInOrder, PTL

=============================================================================
