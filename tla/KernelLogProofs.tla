-------------------------- MODULE KernelLogProofs --------------------------
(***************************************************************************)
(* The driver log never loses a wake-up, a record being filled or a buffer *)
(* limit (NoLostWakeup, WriterOwnsTail, BuffersFit of KernelLog), keeps a  *)
(* POST behind its PRE (PostFollowsPre) and is a first-in first-out queue  *)
(* (ImplementsFifo), for any set of writers, any buffer and record lengths *)
(* and any number of records and sessions.                                 *)
(*                                                                         *)
(* NoLostWakeup is not inductive: when a writer releases the mutex it      *)
(* relies on gbReady, so the argument must also say what gbReady means at  *)
(* every point of the protocol, and that an EnableLogger(TRUE) that met    *)
(* neither records nor a writer leaves none behind it.  The order of the   *)
(* records follows their places: a step adds one behind all others, or     *)
(* moves or drops a whole message or buffer and keeps the rest in order.   *)
(***************************************************************************)
EXTENDS KernelLog, TLAPS

\* The mutex is held exactly from the reservation to the release.
LockInv ==
  /\ lock \in Writers \union {Free}
  /\ wpc \in [Writers -> {"idle", "entered", "filled", "notified"}]
  /\ \A w \in Writers : wpc[w] \in {"filled", "notified"} <=> lock = w

\* gbReady promises a wake-up, records imply gbReady; a writer that has
\* notified has secured the wake-up itself.
WakeInv ==
  /\ lock = Free /\ ctl # "on_ready" /\ ready => WakeupPending
  /\ lock = Free /\ list # << >> => ready
  /\ \A w \in Writers :
       /\ wpc[w] = "filled" /\ ready => WakeupPending
       /\ wpc[w] = "notified" => WakeupPending
  /\ ctl \in {"on_ready", "on_finish"} => list = << >> /\ lock = Free

Inv == LockInv /\ (~torn => WakeInv)

-----------------------------------------------------------------------------
\* A PRE that is being logged carries a sequence that was drawn: what the
\* type invariant lacks to be inductive.
DrawnSeq == \A w \in Writers : wop[w].kind = "pre" => wop[w].seq \in 1..recSeq

TInv == LogType /\ WriterType /\ SenderType /\ ClientType /\ DrawnSeq

\* Reserving room yields a list of buffers, and never an empty one.
LEMMA StoredType ==
  ASSUME list \in Seq(Buffer), NEW rec \in Record, NEW n \in Sizes
  PROVE  Stored(rec, n) \in Seq(Buffer) /\ Stored(rec, n) # << >>
<1>1. n \in Nat
  BY LogAssumption
<1>2. CASE FitsLast(n)
  <2>1. list # << >> /\ Len(list) \in 1..Len(list)
    BY <1>2 DEF FitsLast
  <2>2. list[Len(list)] \in Buffer
    BY <2>1
  <2>3. [recs |-> Append(list[Len(list)].recs, rec),
         len |-> list[Len(list)].len + n] \in Buffer
    BY <1>1, <2>2 DEF Buffer
  <2>4. Stored(rec, n) = [list EXCEPT ![Len(list)] =
          [recs |-> Append(list[Len(list)].recs, rec),
           len |-> list[Len(list)].len + n]]
    BY <1>2 DEF Stored
  <2> QED
    BY <2>1, <2>3, <2>4
<1>3. CASE ~FitsLast(n)
  <2>1. <<rec>> \in Seq(Record)
    OBVIOUS
  <2>2. [recs |-> <<rec>>, len |-> n] \in Buffer
    BY <1>1, <2>1 DEF Buffer
  <2>3. Stored(rec, n) = Append(list, [recs |-> <<rec>>, len |-> n])
    BY <1>3 DEF Stored
  <2> QED
    BY <2>2, <2>3
<1> QED
  BY <1>2, <1>3

\* Reserving room for a record keeps the types, whoever reserves it.
LEMMA ReserveType ==
  ASSUME TInv, NEW w \in Writers, NEW k \in {"pre", "post"}, NEW s \in Nat,
         Reserve(w, k, s)
  PROVE  /\ lock' \in Writers \union {Free}
         /\ list' \in Seq(Buffer)
         /\ list' # << >>
         /\ written' \in Nat
         /\ ready' \in BOOLEAN
         /\ finish' \in BOOLEAN
         /\ wpc' \in [Writers -> {"idle", "entered", "filled", "notified"}]
         /\ wop' \in [Writers -> [kind : {"none", "pre", "post"}, seq : Nat]]
         /\ \A v \in Writers \ {w} : wop'[v] = wop[v]
         /\ wop'[w].seq = s
         /\ SenderType'
         /\ ClientType'
<1> DEFINE rec == [stamp |-> written + 1, kind |-> k, seq |-> s]
<1>1. rec \in Record
  BY DEF TInv, LogType, Record
<1>2. PICK n \in Sizes : list' = Stored(rec, n)
  BY DEF Reserve
<1>3. list' \in Seq(Buffer) /\ list' # << >>
  BY <1>1, <1>2, StoredType DEF TInv, LogType
<1>4. /\ wop' = [wop EXCEPT ![w] = [kind |-> k, seq |-> s]]
      /\ wpc' = [wpc EXCEPT ![w] = "filled"]
      /\ lock' = w
      /\ written' = written + 1
      /\ UNCHANGED <<ready, finish, tvars, cvars, delivered>>
      /\ torn' = (torn \/ Starting)
  BY DEF Reserve
<1>5. SenderType'
  BY <1>4 DEF TInv, SenderType, tvars
<1>6. ClientType'
  BY <1>4 DEF TInv, ClientType, cvars
<1>7. /\ lock' \in Writers \union {Free}
      /\ written' \in Nat
      /\ ready' \in BOOLEAN
      /\ finish' \in BOOLEAN
  BY <1>4 DEF TInv, LogType
<1>8. /\ wpc' \in [Writers -> {"idle", "entered", "filled", "notified"}]
      /\ wop' \in [Writers -> [kind : {"none", "pre", "post"}, seq : Nat]]
      /\ \A v \in Writers \ {w} : wop'[v] = wop[v]
      /\ wop'[w].seq = s
  BY <1>4 DEF TInv, WriterType
<1> QED
  BY <1>3, <1>5, <1>6, <1>7, <1>8

LEMMA TInvWriter ==
  ASSUME TInv, NEW w \in Writers, WriterStep(w)
  PROVE  TInv'
<1>1. CASE EnterPre(w)
  <2>1. UNCHANGED <<lvars, wop, pending, tvars, cvars, delivered, torn>>
    BY <1>1 DEF EnterPre
  <2>2. LogType' /\ SenderType' /\ ClientType' /\ DrawnSeq'
    BY <2>1 DEF TInv, LogType, SenderType, ClientType, DrawnSeq, lvars, tvars, cvars
  <2>3. WriterType'
    BY <1>1 DEF EnterPre, TInv, WriterType, lvars
  <2> QED
    BY <2>2, <2>3 DEF TInv
<1>2. CASE ReservePre(w)
  <2>1. Reserve(w, "pre", recSeq + 1) /\ recSeq + 1 \in Nat
    BY <1>2 DEF ReservePre, TInv, LogType
  <2>2. recSeq' = recSeq + 1 /\ pending' = pending
    BY <1>2 DEF ReservePre
  <2>3. /\ lock' \in Writers \union {Free}
        /\ list' \in Seq(Buffer)
        /\ written' \in Nat
        /\ ready' \in BOOLEAN
        /\ finish' \in BOOLEAN
        /\ wpc' \in [Writers -> {"idle", "entered", "filled", "notified"}]
        /\ wop' \in [Writers -> [kind : {"none", "pre", "post"}, seq : Nat]]
        /\ \A v \in Writers \ {w} : wop'[v] = wop[v]
        /\ wop'[w].seq = recSeq + 1
        /\ SenderType'
        /\ ClientType'
    BY <2>1, ReserveType
  <2>4. LogType'
    BY <2>2, <2>3 DEF TInv, LogType
  <2>5. WriterType'
    BY <2>2, <2>3 DEF TInv, LogType, WriterType
  <2>6. ASSUME NEW v \in Writers, wop'[v].kind = "pre"
        PROVE  wop'[v].seq \in 1..recSeq'
    <3>1. CASE v = w
      BY <2>2, <2>3, <3>1 DEF TInv, LogType
    <3>2. CASE v # w
      <4>1. wop[v].kind = "pre" /\ wop'[v].seq = wop[v].seq
        BY <2>3, <2>6, <3>2
      <4> QED
        BY <2>2, <4>1 DEF TInv, LogType, DrawnSeq
    <3> QED
      BY <3>1, <3>2
  <2>7. DrawnSeq'
    BY <2>6 DEF DrawnSeq
  <2> QED
    BY <2>3, <2>4, <2>5, <2>7 DEF TInv
<1>3. CASE RefusePre(w)
  <2>1. UNCHANGED <<lvars, wop, pending, tvars, cvars, delivered, torn>>
    BY <1>3 DEF RefusePre
  <2>2. LogType' /\ SenderType' /\ ClientType' /\ DrawnSeq'
    BY <2>1 DEF TInv, LogType, SenderType, ClientType, DrawnSeq, lvars, tvars, cvars
  <2>3. WriterType'
    BY <1>3 DEF RefusePre, TInv, WriterType, lvars
  <2> QED
    BY <2>2, <2>3 DEF TInv
<1>4. CASE ReservePost(w)
  <2>1. PICK s \in pending : Reserve(w, "post", s) /\ pending' = pending \ {s}
    BY <1>4 DEF ReservePost
  <2>2. recSeq' = recSeq /\ s \in 1..recSeq /\ s \in Nat
    BY <1>4, <2>1 DEF ReservePost, TInv, LogType, WriterType
  <2>3. /\ lock' \in Writers \union {Free}
        /\ list' \in Seq(Buffer)
        /\ written' \in Nat
        /\ ready' \in BOOLEAN
        /\ finish' \in BOOLEAN
        /\ wpc' \in [Writers -> {"idle", "entered", "filled", "notified"}]
        /\ wop' \in [Writers -> [kind : {"none", "pre", "post"}, seq : Nat]]
        /\ \A v \in Writers \ {w} : wop'[v] = wop[v]
        /\ wop'[w].seq = s
        /\ SenderType'
        /\ ClientType'
    BY <2>1, <2>2, ReserveType
  <2>4. LogType'
    BY <2>2, <2>3 DEF TInv, LogType
  <2>5. WriterType'
    BY <2>1, <2>2, <2>3 DEF TInv, WriterType
  <2>6. DrawnSeq'
    BY <2>2, <2>3 DEF TInv, LogType, DrawnSeq
  <2> QED
    BY <2>3, <2>4, <2>5, <2>6 DEF TInv
<1>5. CASE RefusePost(w)
  <2>1. UNCHANGED <<lvars, wpc, wop, tvars, cvars, delivered, torn>>
    BY <1>5 DEF RefusePost
  <2>2. LogType' /\ SenderType' /\ ClientType' /\ DrawnSeq'
    BY <2>1 DEF TInv, LogType, SenderType, ClientType, DrawnSeq, lvars, tvars, cvars
  <2>3. WriterType'
    BY <1>5 DEF RefusePost, TInv, WriterType, lvars
  <2> QED
    BY <2>2, <2>3 DEF TInv
<1>6. CASE Notify(w)
  <2>1. UNCHANGED <<recSeq, wop, pending, cvars, delivered, torn>>
    BY <1>6 DEF Notify
  <2>2. ClientType' /\ DrawnSeq'
    BY <2>1 DEF TInv, ClientType, DrawnSeq, cvars
  <2>3. LogType'
    BY <1>6 DEF Notify, TInv, LogType
  <2>4. WriterType'
    BY <1>6 DEF Notify, TInv, WriterType
  <2>5. SenderType'
    BY <1>6 DEF Notify, TInv, SenderType
  <2> QED
    BY <2>2, <2>3, <2>4, <2>5 DEF TInv
<1>7. CASE Release(w)
  <2>1. UNCHANGED <<tvars, cvars, delivered, torn>>
    BY <1>7 DEF Release
  <2>2. SenderType' /\ ClientType'
    BY <2>1 DEF TInv, SenderType, ClientType, tvars, cvars
  <2>3. LogType'
    BY <1>7 DEF Release, TInv, LogType
  <2>4. WriterType'
    BY <1>7 DEF Release, NoOp, TInv, WriterType, DrawnSeq
  <2>5. DrawnSeq'
    BY <1>7 DEF Release, NoOp, TInv, WriterType, DrawnSeq
  <2> QED
    BY <2>2, <2>3, <2>4, <2>5 DEF TInv
<1> QED
  BY <1>1, <1>2, <1>3, <1>4, <1>5, <1>6, <1>7 DEF WriterStep

LEMMA TInvSender ==
  ASSUME TInv, SenderStep
  PROVE  TInv'
<1>1. CASE TimerExpires
  <2>1. LogType'
    BY <1>1 DEF TimerExpires, TInv, LogType, lvars
  <2>2. WriterType'
    BY <1>1 DEF TimerExpires, TInv, WriterType, lvars, wvars
  <2>3. SenderType'
    BY <1>1 DEF TimerExpires, TInv, SenderType, tvars
  <2>4. ClientType'
    BY <1>1 DEF TimerExpires, TInv, ClientType, cvars
  <2>5. DrawnSeq'
    BY <1>1 DEF TimerExpires, TInv, DrawnSeq, lvars, wvars
  <2> QED
    BY <2>1, <2>2, <2>3, <2>4, <2>5 DEF TInv
<1>2. CASE DpcRuns
  <2>1. LogType'
    BY <1>2 DEF DpcRuns, TInv, LogType, lvars
  <2>2. WriterType'
    BY <1>2 DEF DpcRuns, TInv, WriterType, lvars, wvars
  <2>3. SenderType'
    BY <1>2 DEF DpcRuns, TInv, SenderType, tvars
  <2>4. ClientType'
    BY <1>2 DEF DpcRuns, TInv, ClientType, cvars
  <2>5. DrawnSeq'
    BY <1>2 DEF DpcRuns, TInv, DrawnSeq, lvars, wvars
  <2> QED
    BY <2>1, <2>2, <2>3, <2>4, <2>5 DEF TInv
<1>3. CASE ThreadWakes
  <2>1. LogType'
    BY <1>3 DEF ThreadWakes, TInv, LogType, lvars
  <2>2. WriterType'
    BY <1>3 DEF ThreadWakes, TInv, WriterType, lvars, wvars
  <2>3. SenderType'
    BY <1>3 DEF ThreadWakes, TInv, SenderType, tvars
  <2>4. ClientType'
    BY <1>3 DEF ThreadWakes, TInv, ClientType, cvars
  <2>5. DrawnSeq'
    BY <1>3 DEF ThreadWakes, TInv, DrawnSeq, lvars, wvars
  <2> QED
    BY <2>1, <2>2, <2>3, <2>4, <2>5 DEF TInv
<1>4. CASE TakeBuffer
  <2>a. Tail(list) \in Seq(Buffer) /\ Head(list) \in Buffer
    BY <1>4 DEF TakeBuffer, TInv, LogType
  <2>b. Head(list).recs \in Seq(Record)
    BY <2>a DEF Buffer
  <2>1. LogType'
    BY <1>4, <2>a DEF TakeBuffer, TInv, LogType
  <2>2. WriterType'
    BY <1>4 DEF TakeBuffer, TInv, WriterType, lvars, wvars
  <2>3. SenderType'
    BY <1>4, <2>b DEF TakeBuffer, TInv, SenderType
  <2>4. ClientType'
    BY <1>4 DEF TakeBuffer, TInv, ClientType, cvars
  <2>5. DrawnSeq'
    BY <1>4 DEF TakeBuffer, TInv, DrawnSeq, lvars, wvars
  <2> QED
    BY <2>1, <2>2, <2>3, <2>4, <2>5 DEF TInv
<1>5. CASE FindEmpty
  <2>1. LogType'
    BY <1>5 DEF FindEmpty, TInv, LogType, lvars
  <2>2. WriterType'
    BY <1>5 DEF FindEmpty, TInv, WriterType, lvars, wvars
  <2>3. SenderType'
    BY <1>5 DEF FindEmpty, TInv, SenderType, tvars
  <2>4. ClientType'
    BY <1>5 DEF FindEmpty, TInv, ClientType, cvars
  <2>5. DrawnSeq'
    BY <1>5 DEF FindEmpty, TInv, DrawnSeq, lvars, wvars
  <2> QED
    BY <2>1, <2>2, <2>3, <2>4, <2>5 DEF TInv
<1>6. CASE SendCompletes
  <2>1. LogType'
    BY <1>6 DEF SendCompletes, AfterSend, TInv, LogType, lvars
  <2>2. WriterType'
    BY <1>6 DEF SendCompletes, AfterSend, TInv, WriterType, lvars, wvars
  <2>3. SenderType'
    BY <1>6 DEF SendCompletes, AfterSend, TInv, SenderType, tvars
  <2>4. ClientType'
    <3>1. delivered \o msg \in Seq(Record)
      BY DEF TInv, ClientType, SenderType
    <3> QED
      BY <1>6, <3>1 DEF SendCompletes, AfterSend, TInv, ClientType, cvars
  <2>5. DrawnSeq'
    BY <1>6 DEF SendCompletes, AfterSend, TInv, DrawnSeq, lvars, wvars
  <2> QED
    BY <2>1, <2>2, <2>3, <2>4, <2>5 DEF TInv
<1>7. CASE SendFails
  <2>1. LogType'
    BY <1>7 DEF SendFails, AfterSend, TInv, LogType, lvars
  <2>2. WriterType'
    BY <1>7 DEF SendFails, AfterSend, TInv, WriterType, lvars, wvars
  <2>3. SenderType'
    BY <1>7 DEF SendFails, AfterSend, TInv, SenderType, tvars
  <2>4. ClientType'
    BY <1>7 DEF SendFails, AfterSend, TInv, ClientType, cvars
  <2>5. DrawnSeq'
    BY <1>7 DEF SendFails, AfterSend, TInv, DrawnSeq, lvars, wvars
  <2> QED
    BY <2>1, <2>2, <2>3, <2>4, <2>5 DEF TInv
<1> QED
  BY <1>1, <1>2, <1>3, <1>4, <1>5, <1>6, <1>7 DEF SenderStep

LEMMA TInvControl ==
  ASSUME TInv, ControlStep
  PROVE  TInv'
<1>1. CASE Connect
  <2>1. LogType'
    BY <1>1 DEF Connect, TInv, LogType, lvars
  <2>2. WriterType'
    BY <1>1 DEF Connect, TInv, WriterType, lvars, wvars
  <2>3. SenderType'
    BY <1>1 DEF Connect, TInv, SenderType, tvars
  <2>4. ClientType'
    BY <1>1 DEF Connect, TInv, ClientType, cvars
  <2>5. DrawnSeq'
    BY <1>1 DEF Connect, TInv, DrawnSeq, lvars, wvars
  <2> QED
    BY <2>1, <2>2, <2>3, <2>4, <2>5 DEF TInv
<1>2. CASE ControlOn
  <2>1. LogType'
    BY <1>2 DEF ControlOn, TInv, LogType, lvars
  <2>2. WriterType'
    BY <1>2 DEF ControlOn, TInv, WriterType, lvars, wvars
  <2>3. SenderType'
    BY <1>2 DEF ControlOn, TInv, SenderType, tvars
  <2>4. ClientType'
    BY <1>2 DEF ControlOn, TInv, ClientType, cvars
  <2>5. DrawnSeq'
    BY <1>2 DEF ControlOn, TInv, DrawnSeq, lvars, wvars
  <2> QED
    BY <2>1, <2>2, <2>3, <2>4, <2>5 DEF TInv
<1>3. CASE StartCancelTimer
  <2>1. LogType'
    BY <1>3 DEF StartCancelTimer, TInv, LogType, lvars
  <2>2. WriterType'
    BY <1>3 DEF StartCancelTimer, TInv, WriterType, lvars, wvars
  <2>3. SenderType'
    BY <1>3 DEF StartCancelTimer, TInv, SenderType, tvars
  <2>4. ClientType'
    BY <1>3 DEF StartCancelTimer, TInv, ClientType, cvars
  <2>5. DrawnSeq'
    BY <1>3 DEF StartCancelTimer, TInv, DrawnSeq, lvars, wvars
  <2> QED
    BY <2>1, <2>2, <2>3, <2>4, <2>5 DEF TInv
<1>4. CASE StartResetReady
  <2>1. LogType'
    BY <1>4 DEF StartResetReady, TInv, LogType, lvars
  <2>2. WriterType'
    BY <1>4 DEF StartResetReady, TInv, WriterType, lvars, wvars
  <2>3. SenderType'
    BY <1>4 DEF StartResetReady, TInv, SenderType, tvars
  <2>4. ClientType'
    BY <1>4 DEF StartResetReady, TInv, ClientType, cvars
  <2>5. DrawnSeq'
    BY <1>4 DEF StartResetReady, TInv, DrawnSeq, lvars, wvars
  <2> QED
    BY <2>1, <2>2, <2>3, <2>4, <2>5 DEF TInv
<1>5. CASE StartResetFinish
  <2>1. LogType'
    BY <1>5 DEF StartResetFinish, TInv, LogType, lvars
  <2>2. WriterType'
    BY <1>5 DEF StartResetFinish, TInv, WriterType, lvars, wvars
  <2>3. SenderType'
    BY <1>5 DEF StartResetFinish, TInv, SenderType, tvars
  <2>4. ClientType'
    BY <1>5 DEF StartResetFinish, TInv, ClientType, cvars
  <2>5. DrawnSeq'
    BY <1>5 DEF StartResetFinish, TInv, DrawnSeq, lvars, wvars
  <2> QED
    BY <2>1, <2>2, <2>3, <2>4, <2>5 DEF TInv
<1>6. CASE ControlOff
  <2>1. LogType'
    BY <1>6 DEF ControlOff, TInv, LogType, lvars
  <2>2. WriterType'
    BY <1>6 DEF ControlOff, TInv, WriterType, lvars, wvars
  <2>3. SenderType'
    BY <1>6 DEF ControlOff, TInv, SenderType, tvars
  <2>4. ClientType'
    BY <1>6 DEF ControlOff, TInv, ClientType, cvars
  <2>5. DrawnSeq'
    BY <1>6 DEF ControlOff, TInv, DrawnSeq, lvars, wvars
  <2> QED
    BY <2>1, <2>2, <2>3, <2>4, <2>5 DEF TInv
<1>7. CASE StopDiscard
  <2>1. LogType'
    BY <1>7 DEF StopDiscard, TInv, LogType, lvars
  <2>2. WriterType'
    BY <1>7 DEF StopDiscard, TInv, WriterType, lvars, wvars
  <2>3. SenderType'
    BY <1>7 DEF StopDiscard, TInv, SenderType, tvars
  <2>4. ClientType'
    BY <1>7 DEF StopDiscard, TInv, ClientType, cvars
  <2>5. DrawnSeq'
    BY <1>7 DEF StopDiscard, TInv, DrawnSeq, lvars, wvars
  <2> QED
    BY <2>1, <2>2, <2>3, <2>4, <2>5 DEF TInv
<1>8. CASE StopFlags
  <2>1. LogType'
    BY <1>8 DEF StopFlags, TInv, LogType, lvars
  <2>2. WriterType'
    BY <1>8 DEF StopFlags, TInv, WriterType, lvars, wvars
  <2>3. SenderType'
    BY <1>8 DEF StopFlags, TInv, SenderType, tvars
  <2>4. ClientType'
    BY <1>8 DEF StopFlags, TInv, ClientType, cvars
  <2>5. DrawnSeq'
    BY <1>8 DEF StopFlags, TInv, DrawnSeq, lvars, wvars
  <2> QED
    BY <2>1, <2>2, <2>3, <2>4, <2>5 DEF TInv
<1>9. CASE ReceiverStops
  <2>1. LogType'
    BY <1>9 DEF ReceiverStops, TInv, LogType, lvars
  <2>2. WriterType'
    BY <1>9 DEF ReceiverStops, TInv, WriterType, lvars, wvars
  <2>3. SenderType'
    BY <1>9 DEF ReceiverStops, TInv, SenderType, tvars
  <2>4. ClientType'
    BY <1>9 DEF ReceiverStops, TInv, ClientType, cvars
  <2>5. DrawnSeq'
    BY <1>9 DEF ReceiverStops, TInv, DrawnSeq, lvars, wvars
  <2> QED
    BY <2>1, <2>2, <2>3, <2>4, <2>5 DEF TInv
<1> QED
  BY <1>1, <1>2, <1>3, <1>4, <1>5, <1>6, <1>7, <1>8, <1>9 DEF ControlStep

LEMMA TInvStep == TInv /\ [Next]_vars => TInv'
<1> SUFFICES ASSUME TInv, [Next]_vars PROVE TInv'
  OBVIOUS
<1>1. CASE UNCHANGED vars
  BY <1>1 DEF vars, lvars, wvars, tvars, cvars, TInv, LogType, WriterType,
              SenderType, ClientType, DrawnSeq
<1>2. CASE Next
  BY <1>2, TInvWriter, TInvSender, TInvControl DEF Next
<1> QED
  BY <1>1, <1>2

LEMMA TInvInit == Init => TInv
<1> SUFFICES ASSUME Init PROVE TInv
  OBVIOUS
<1>1. << >> \in Seq(Buffer) /\ << >> \in Seq(Record)
  OBVIOUS
<1>2. LogType
  BY <1>1 DEF Init, LogType
<1>3. WriterType /\ DrawnSeq
  BY DEF Init, WriterType, DrawnSeq, NoOp
<1>4. SenderType
  BY <1>1 DEF Init, SenderType
<1>5. ClientType
  BY <1>1 DEF Init, ClientType
<1> QED
  BY <1>2, <1>3, <1>4, <1>5 DEF TInv

\* Type correctness: in particular a sequence handed to a post-operation as
\* completion context was drawn by a PRE record (ProcmonGetLogEntryAndInit).
THEOREM TypeCorrect == Spec => []TypeOK
<1>1. TInv => TypeOK
  BY DEF TInv, TypeOK
<1> QED
  BY <1>1, TInvInit, TInvStep, PTL DEF Spec

-----------------------------------------------------------------------------
\* The writers: one reserves under a free mutex and holds it until it has
\* secured the wake-up (Notify) and set gbReady (Release).
LEMMA InvReserve ==
  ASSUME TInv, Inv, NEW w \in Writers, NEW k \in {"pre", "post"},
         NEW s \in Nat, Reserve(w, k, s),
         wpc[w] \in {"idle", "entered"}
  PROVE  Inv'
<1>1. /\ lock = Free
      /\ lock' = w
      /\ wpc' = [wpc EXCEPT ![w] = "filled"]
      /\ torn' = (torn \/ Starting)
      /\ UNCHANGED <<ready, finish, tvars, cvars>>
  BY DEF Reserve
<1>2. lock' # Free
  BY <1>1, LogAssumption
<1>3. LockInv'
  BY <1>1, <1>2, LogAssumption DEF Inv, LockInv
<1>4. ASSUME ~torn' PROVE WakeInv'
  <2>1. ~torn /\ ~Starting
    BY <1>1, <1>4
  <2>2. WakeInv
    BY <2>1 DEF Inv
  <2>3. ctl \notin {"on_ready", "on_finish"} /\ ctl' = ctl
    BY <1>1, <2>1 DEF Starting, cvars
  <2>4. ready => WakeupPending
    BY <1>1, <2>2, <2>3 DEF WakeInv
  <2>5. WakeupPending' = WakeupPending /\ ready' = ready
    BY <1>1 DEF WakeupPending, tvars
  <2>6. \A v \in Writers : wpc[v] \notin {"filled", "notified"}
    BY <1>1, LogAssumption DEF Inv, LockInv
  <2>7. \A v \in Writers : /\ wpc'[v] = "filled" /\ ready' => WakeupPending'
                           /\ wpc'[v] # "notified"
    BY <1>1, <2>4, <2>5, <2>6 DEF Inv, LockInv
  <2> QED
    BY <1>2, <2>3, <2>7 DEF WakeInv
<1> QED
  BY <1>3, <1>4 DEF Inv

LEMMA InvWriter ==
  ASSUME TInv, Inv, NEW w \in Writers, WriterStep(w)
  PROVE  Inv'
<1> USE LogAssumption
<1>1. CASE EnterPre(w)
  <2>1. LockInv'
    BY <1>1 DEF EnterPre, Inv, LockInv, TInv, WriterType, lvars, wvars, tvars, cvars
  <2>2. ASSUME ~torn' PROVE WakeInv'
    BY <1>1, <2>2 DEF EnterPre, Inv, LockInv, TInv, LogType, WriterType, SenderType, WakeInv, WakeupPending, lvars, wvars, tvars, cvars
  <2> QED
    BY <2>1, <2>2 DEF Inv
<1>2. CASE ReservePre(w)
  <2>1. /\ wpc[w] = "entered"
        /\ Reserve(w, "pre", recSeq + 1)
        /\ recSeq + 1 \in Nat
    BY <1>2 DEF ReservePre, TInv, LogType
  <2> QED
    BY <2>1, InvReserve
<1>3. CASE RefusePre(w)
  <2>1. LockInv'
    BY <1>3 DEF RefusePre, Inv, LockInv, TInv, WriterType, lvars, wvars, tvars, cvars
  <2>2. ASSUME ~torn' PROVE WakeInv'
    BY <1>3, <2>2 DEF RefusePre, Inv, LockInv, TInv, LogType, WriterType, SenderType, WakeInv, WakeupPending, lvars, wvars, tvars, cvars
  <2> QED
    BY <2>1, <2>2 DEF Inv
<1>4. CASE ReservePost(w)
  <2>1. wpc[w] = "idle"
    BY <1>4 DEF ReservePost
  <2>2. PICK s \in pending : Reserve(w, "post", s)
    BY <1>4 DEF ReservePost
  <2>3. s \in Nat
    BY <2>2 DEF TInv, LogType, WriterType
  <2> QED
    BY <2>1, <2>2, <2>3, InvReserve
<1>5. CASE RefusePost(w)
  <2>1. LockInv'
    BY <1>5 DEF RefusePost, Inv, LockInv, TInv, WriterType, lvars, wvars, tvars, cvars
  <2>2. ASSUME ~torn' PROVE WakeInv'
    BY <1>5, <2>2 DEF RefusePost, Inv, LockInv, TInv, LogType, WriterType, SenderType, WakeInv, WakeupPending, lvars, wvars, tvars, cvars
  <2> QED
    BY <2>1, <2>2 DEF Inv
<1>6. CASE Notify(w)
  <2>1. LockInv'
    BY <1>6 DEF Notify, Inv, LockInv, TInv, WriterType, lvars, wvars, tvars, cvars
  <2>2. ASSUME ~torn' PROVE WakeInv'
    BY <1>6, <2>2 DEF Notify, Inv, LockInv, TInv, LogType, WriterType, SenderType, WakeInv, WakeupPending, lvars, wvars, tvars, cvars
  <2> QED
    BY <2>1, <2>2 DEF Inv
<1>7. CASE Release(w)
  <2>1. LockInv'
    BY <1>7 DEF Release, Inv, LockInv, TInv, WriterType, lvars, wvars, tvars, cvars
  <2>2. ASSUME ~torn' PROVE WakeInv'
    BY <1>7, <2>2 DEF Release, Inv, LockInv, TInv, LogType, WriterType, SenderType, WakeInv, WakeupPending, lvars, wvars, tvars, cvars
  <2> QED
    BY <2>1, <2>2 DEF Inv
<1> QED
  BY <1>1, <1>2, <1>3, <1>4, <1>5, <1>6, <1>7 DEF WriterStep

\* The sending side: whoever consumes a wake-up passes it on, and the flags
\* are cleared only together with the last buffer.
LEMMA InvSender ==
  ASSUME TInv, Inv, SenderStep
  PROVE  Inv'
<1>1. CASE TimerExpires
  <2>1. LockInv'
    BY <1>1 DEF TimerExpires, Inv, LockInv, TInv, WriterType, lvars, wvars, tvars, cvars
  <2>2. ASSUME ~torn' PROVE WakeInv'
    BY <1>1, <2>2 DEF TimerExpires, Inv, LockInv, TInv, LogType, WriterType, SenderType, WakeInv, WakeupPending, lvars, wvars, tvars, cvars
  <2> QED
    BY <2>1, <2>2 DEF Inv
<1>2. CASE DpcRuns
  <2>1. LockInv'
    BY <1>2 DEF DpcRuns, Inv, LockInv, TInv, WriterType, lvars, wvars, tvars, cvars
  <2>2. ASSUME ~torn' PROVE WakeInv'
    BY <1>2, <2>2 DEF DpcRuns, Inv, LockInv, TInv, LogType, WriterType, SenderType, WakeInv, WakeupPending, lvars, wvars, tvars, cvars
  <2> QED
    BY <2>1, <2>2 DEF Inv
<1>3. CASE ThreadWakes
  <2>1. LockInv'
    BY <1>3 DEF ThreadWakes, Inv, LockInv, TInv, WriterType, lvars, wvars, tvars, cvars
  <2>2. ASSUME ~torn' PROVE WakeInv'
    BY <1>3, <2>2 DEF ThreadWakes, Inv, LockInv, TInv, LogType, WriterType, SenderType, WakeInv, WakeupPending, lvars, wvars, tvars, cvars
  <2> QED
    BY <2>1, <2>2 DEF Inv
<1>4. CASE TakeBuffer
  <2>1. LockInv'
    BY <1>4 DEF TakeBuffer, Inv, LockInv, TInv, WriterType, lvars, wvars, tvars, cvars
  <2>2. ASSUME ~torn' PROVE WakeInv'
    <3>1. /\ lock' = Free
          /\ UNCHANGED <<wpc, ctl, timer, dpc>>
          /\ \A w \in Writers : wpc[w] \notin {"filled", "notified"}
      BY <1>4, LogAssumption DEF TakeBuffer, Inv, LockInv, wvars, cvars
    <3>2. CASE Len(list) = 1
      <4>1. list' = << >> /\ ready' = FALSE
        BY <1>4, <3>2 DEF TakeBuffer, TInv, LogType
      <4> QED
        BY <3>1, <4>1 DEF WakeInv
    <3>3. CASE Len(list) # 1
      <4>1. /\ thread' = "send"
            /\ UNCHANGED <<ready, torn>>
            /\ list # << >>
            /\ lock = Free
        BY <1>4, <3>3 DEF TakeBuffer
      <4>2. WakeupPending' /\ WakeInv
        BY <2>2, <4>1 DEF WakeupPending, Inv
      <4>3. ready' /\ ctl' \notin {"on_ready", "on_finish"}
        BY <3>1, <4>1, <4>2 DEF WakeInv
      <4> QED
        BY <3>1, <4>2, <4>3 DEF WakeInv
    <3> QED
      BY <3>2, <3>3
  <2> QED
    BY <2>1, <2>2 DEF Inv
<1>5. CASE FindEmpty
  <2>1. LockInv'
    BY <1>5 DEF FindEmpty, Inv, LockInv, TInv, WriterType, lvars, wvars, tvars, cvars
  <2>2. ASSUME ~torn' PROVE WakeInv'
    BY <1>5, <2>2, LogAssumption DEF FindEmpty, Inv, LockInv, TInv, LogType, WriterType, SenderType, WakeInv, WakeupPending, lvars, wvars, tvars, cvars
  <2> QED
    BY <2>1, <2>2 DEF Inv
<1>6. CASE SendCompletes
  <2>1. LockInv'
    BY <1>6 DEF SendCompletes, AfterSend, Inv, LockInv, TInv, WriterType, lvars, wvars, tvars, cvars
  <2>2. ASSUME ~torn' PROVE WakeInv'
    BY <1>6, <2>2 DEF SendCompletes, AfterSend, Inv, LockInv, TInv, LogType, WriterType, SenderType, WakeInv, WakeupPending, lvars, wvars, tvars, cvars
  <2> QED
    BY <2>1, <2>2 DEF Inv
<1>7. CASE SendFails
  <2>1. LockInv'
    BY <1>7 DEF SendFails, AfterSend, Inv, LockInv, TInv, WriterType, lvars, wvars, tvars, cvars
  <2>2. ASSUME ~torn' PROVE WakeInv'
    BY <1>7, <2>2 DEF SendFails, AfterSend, Inv, LockInv, TInv, LogType, WriterType, SenderType, WakeInv, WakeupPending, lvars, wvars, tvars, cvars
  <2> QED
    BY <2>1, <2>2 DEF Inv
<1> QED
  BY <1>1, <1>2, <1>3, <1>4, <1>5, <1>6, <1>7 DEF SenderStep

\* The control path: an EnableLogger(TRUE) that meets records or a writer
\* sets torn; one that meets neither leaves the list empty behind it.
LEMMA InvControl ==
  ASSUME TInv, Inv, ControlStep
  PROVE  Inv'
<1>1. CASE Connect
  <2>1. LockInv'
    BY <1>1 DEF Connect, Inv, LockInv, TInv, WriterType, lvars, wvars, tvars, cvars
  <2>2. ASSUME ~torn' PROVE WakeInv'
    BY <1>1, <2>2 DEF Connect, Inv, LockInv, TInv, LogType, WriterType, SenderType, WakeInv, WakeupPending, lvars, wvars, tvars, cvars
  <2> QED
    BY <2>1, <2>2 DEF Inv
<1>2. CASE ControlOn
  <2>1. LockInv'
    BY <1>2 DEF ControlOn, Inv, LockInv, TInv, WriterType, lvars, wvars, tvars, cvars
  <2>2. ASSUME ~torn' PROVE WakeInv'
    BY <1>2, <2>2 DEF ControlOn, Inv, LockInv, TInv, LogType, WriterType, SenderType, WakeInv, WakeupPending, lvars, wvars, tvars, cvars
  <2> QED
    BY <2>1, <2>2 DEF Inv
<1>3. CASE StartCancelTimer
  <2>1. LockInv'
    BY <1>3 DEF StartCancelTimer, Inv, LockInv, TInv, WriterType, lvars, wvars, tvars, cvars, Exposed
  <2>2. ASSUME ~torn' PROVE WakeInv'
    BY <1>3, <2>2, LogAssumption DEF StartCancelTimer, Inv, LockInv, TInv, LogType, WriterType, SenderType, WakeInv, WakeupPending, lvars, wvars, tvars, cvars, Exposed
  <2> QED
    BY <2>1, <2>2 DEF Inv
<1>4. CASE StartResetReady
  <2>1. LockInv'
    BY <1>4 DEF StartResetReady, Inv, LockInv, TInv, WriterType, lvars, wvars, tvars, cvars, Exposed
  <2>2. ASSUME ~torn' PROVE WakeInv'
    BY <1>4, <2>2 DEF StartResetReady, Inv, LockInv, TInv, LogType, WriterType, SenderType, WakeInv, WakeupPending, lvars, wvars, tvars, cvars, Exposed
  <2> QED
    BY <2>1, <2>2 DEF Inv
<1>5. CASE StartResetFinish
  <2>1. LockInv'
    BY <1>5 DEF StartResetFinish, Inv, LockInv, TInv, WriterType, lvars, wvars, tvars, cvars, Exposed
  <2>2. ASSUME ~torn' PROVE WakeInv'
    BY <1>5, <2>2 DEF StartResetFinish, Inv, LockInv, TInv, LogType, WriterType, SenderType, WakeInv, WakeupPending, lvars, wvars, tvars, cvars, Exposed
  <2> QED
    BY <2>1, <2>2 DEF Inv
<1>6. CASE ControlOff
  <2>1. LockInv'
    BY <1>6 DEF ControlOff, Inv, LockInv, TInv, WriterType, lvars, wvars, tvars, cvars
  <2>2. ASSUME ~torn' PROVE WakeInv'
    BY <1>6, <2>2 DEF ControlOff, Inv, LockInv, TInv, LogType, WriterType, SenderType, WakeInv, WakeupPending, lvars, wvars, tvars, cvars
  <2> QED
    BY <2>1, <2>2 DEF Inv
<1>7. CASE StopDiscard
  <2>1. LockInv'
    BY <1>7 DEF StopDiscard, Inv, LockInv, TInv, WriterType, lvars, wvars, tvars, cvars
  <2>2. ASSUME ~torn' PROVE WakeInv'
    BY <1>7, <2>2 DEF StopDiscard, Inv, LockInv, TInv, LogType, WriterType, SenderType, WakeInv, WakeupPending, lvars, wvars, tvars, cvars
  <2> QED
    BY <2>1, <2>2 DEF Inv
<1>8. CASE StopFlags
  <2>1. LockInv'
    BY <1>8 DEF StopFlags, Inv, LockInv, TInv, WriterType, lvars, wvars, tvars, cvars
  <2>2. ASSUME ~torn' PROVE WakeInv'
    BY <1>8, <2>2 DEF StopFlags, Inv, LockInv, TInv, LogType, WriterType, SenderType, WakeInv, WakeupPending, lvars, wvars, tvars, cvars
  <2> QED
    BY <2>1, <2>2 DEF Inv
<1>9. CASE ReceiverStops
  <2>1. LockInv'
    BY <1>9 DEF ReceiverStops, Inv, LockInv, TInv, WriterType, lvars, wvars, tvars, cvars
  <2>2. ASSUME ~torn' PROVE WakeInv'
    BY <1>9, <2>2 DEF ReceiverStops, Inv, LockInv, TInv, LogType, WriterType, SenderType, WakeInv, WakeupPending, lvars, wvars, tvars, cvars
  <2> QED
    BY <2>1, <2>2 DEF Inv
<1> QED
  BY <1>1, <1>2, <1>3, <1>4, <1>5, <1>6, <1>7, <1>8, <1>9 DEF ControlStep

LEMMA InvStep == TInv /\ Inv /\ [Next]_vars => Inv'
<1> SUFFICES ASSUME TInv, Inv, [Next]_vars PROVE Inv'
  OBVIOUS
<1>1. CASE UNCHANGED vars
  BY <1>1 DEF vars, lvars, wvars, tvars, cvars, Inv, LockInv, WakeInv,
              WakeupPending
<1>2. CASE Next
  BY <1>2, InvWriter, InvSender, InvControl DEF Next
<1> QED
  BY <1>1, <1>2

LEMMA InvInit == Init => Inv
BY LogAssumption DEF Init, Inv, LockInv, WakeInv

LEMMA InvHolds == Spec => [](TInv /\ Inv)
BY TInvInit, TInvStep, InvInit, InvStep, PTL DEF Spec

\* Buffered records never lose their wake-up (ProcmonNotifyProcessLog and
\* ProcessLogDataWithCallback), however many writers there are and however
\* buffers, timer, DPC and event interleave; only an EnableLogger(TRUE) that
\* meets records or a writer can tear it.
THEOREM WakeupNeverLost == Spec => []NoLostWakeup
<1>1. TInv /\ Inv => NoLostWakeup
  <2> SUFFICES ASSUME TInv, Inv, list # << >>, lock = Free, ~torn
               PROVE  WakeupPending
    BY DEF NoLostWakeup
  <2>1. WakeInv
    BY DEF Inv
  <2> QED
    BY <2>1 DEF WakeInv
<1> QED
  BY <1>1, InvHolds, PTL

-----------------------------------------------------------------------------
\* The record a writer fills stays where the writer put it: only the holder of
\* the mutex touches the list.
LEMMA LastOfStored ==
  ASSUME list \in Seq(Buffer), NEW rec \in Record, NEW n \in Sizes
  PROVE  Last(Last(Stored(rec, n)).recs) = rec
<1>1. n \in Nat
  BY LogAssumption
<1>2. CASE FitsLast(n)
  <2> DEFINE b == [recs |-> Append(list[Len(list)].recs, rec),
                   len |-> list[Len(list)].len + n]
  <2>1. Len(list) \in 1..Len(list) /\ list[Len(list)] \in Buffer
    BY <1>2 DEF FitsLast
  <2>2. Stored(rec, n) = [list EXCEPT ![Len(list)] = b]
    BY <1>2 DEF Stored
  <2>a. Stored(rec, n)[Len(list)] = b
    <3> HIDE DEF b
    <3> QED
      BY <2>1, <2>2
  <2>b. Len(Stored(rec, n)) = Len(list)
    <3> HIDE DEF b
    <3>1. Len([list EXCEPT ![Len(list)] = b]) = Len(list)
      OBVIOUS
    <3> QED
      BY <2>2, <3>1
  <2>3. Last(Stored(rec, n)) = b
    <3> HIDE DEF b
    <3> QED
      BY <2>a, <2>b DEF Last
  <2>4. list[Len(list)].recs \in Seq(Record)
    BY <2>1 DEF Buffer
  <2>5. Last(Append(list[Len(list)].recs, rec)) = rec
    BY <2>4 DEF Last
  <2> QED
    BY <2>3, <2>5
<1>3. CASE ~FitsLast(n)
  <2>1. Stored(rec, n) = Append(list, [recs |-> <<rec>>, len |-> n])
    BY <1>3 DEF Stored
  <2>2. Stored(rec, n)[Len(Stored(rec, n))] = [recs |-> <<rec>>, len |-> n]
    BY <2>1
  <2>3. Last(Stored(rec, n)).recs = <<rec>>
    BY <2>2 DEF Last
  <2>4. Last(<<rec>>) = rec
    BY DEF Last
  <2> QED
    BY <2>3, <2>4
<1> QED
  BY <1>2, <1>3

\* A held mutex keeps every step but the holder's own away from the list, the
\* holder's operation and its place in the protocol.
LEMMA HeldStep ==
  ASSUME TInv, Inv, [Next]_vars, NEW w \in Writers, lock = w, lock' = w
  PROVE  UNCHANGED <<list, wop, written>>
<1>1. lock # Free
  BY LogAssumption
<1>2. ASSUME NEW v \in Writers, WriterStep(v) PROVE UNCHANGED <<list, wop, written>>
  <2>1. ~Release(v)
    BY LogAssumption DEF Release
  <2>2. ~ReservePre(v) /\ ~ReservePost(v)
    BY <1>1 DEF ReservePre, ReservePost, Reserve
  <2> QED
    BY <1>2, <2>1, <2>2
    DEF WriterStep, EnterPre, RefusePre, RefusePost, Notify, lvars
<1>3. ASSUME SenderStep PROVE UNCHANGED <<list, wop, written>>
  BY <1>1, <1>3 DEF SenderStep, TimerExpires, DpcRuns, ThreadWakes, TakeBuffer,
     FindEmpty, SendCompletes, SendFails, AfterSend, lvars, wvars
<1>4. ASSUME ControlStep PROVE UNCHANGED <<list, wop, written>>
  BY <1>1, <1>4 DEF ControlStep, Connect, ControlOn, StartCancelTimer,
     StartResetReady, StartResetFinish, ControlOff, StopDiscard, StopFlags,
     ReceiverStops, lvars, wvars
<1>5. CASE UNCHANGED vars
  BY <1>5 DEF vars, lvars, wvars
<1> QED
  BY <1>2, <1>3, <1>4, <1>5 DEF Next

\* A mutex that is newly held was taken by a reservation.
LEMMA TakenByReserve ==
  ASSUME TInv, Inv, [Next]_vars, NEW w \in Writers, lock # w, lock' = w
  PROVE  \E k \in {"pre", "post"}, s \in Nat : Reserve(w, k, s)
<1>1. lock' # lock /\ lock' # Free
  BY LogAssumption
<1>2. ~SenderStep
  BY <1>1 DEF SenderStep, TimerExpires, DpcRuns, ThreadWakes, TakeBuffer,
     FindEmpty, SendCompletes, SendFails, AfterSend, lvars
<1>3. ~ControlStep
  BY <1>1 DEF ControlStep, Connect, ControlOn, StartCancelTimer,
     StartResetReady, StartResetFinish, ControlOff, StopDiscard, StopFlags,
     ReceiverStops, lvars
<1>4. ~UNCHANGED vars
  BY <1>1 DEF vars, lvars
<1>5. PICK v \in Writers : WriterStep(v)
  BY <1>2, <1>3, <1>4 DEF Next
<1>6. ReservePre(v) \/ ReservePost(v)
  BY <1>1, <1>5 DEF WriterStep, EnterPre, RefusePre, RefusePost, Notify,
     Release, lvars
<1>7. \E k \in {"pre", "post"}, s \in Nat : Reserve(v, k, s)
  <2>1. CASE ReservePre(v)
    <3>1. Reserve(v, "pre", recSeq + 1) /\ recSeq + 1 \in Nat
      BY <2>1 DEF ReservePre, TInv, LogType
    <3> QED
      BY <3>1
  <2>2. CASE ReservePost(v)
    <3>1. PICK s \in pending : Reserve(v, "post", s)
      BY <2>2 DEF ReservePost
    <3>2. s \in Nat
      BY <3>1 DEF TInv, LogType, WriterType
    <3> QED
      BY <3>1, <3>2
  <2> QED
    BY <1>6, <2>1, <2>2
<1>8. v = w
  BY <1>7 DEF Reserve
<1> QED
  BY <1>7, <1>8

LEMMA OwnStep ==
  TInv /\ Inv /\ WriterOwnsTail /\ TInv' /\ Inv' /\ [Next]_vars
    => WriterOwnsTail'
<1> SUFFICES ASSUME TInv, Inv, WriterOwnsTail, TInv', Inv', [Next]_vars,
                    NEW w \in Writers, wpc'[w] \in {"filled", "notified"}
             PROVE  /\ lock' = w
                    /\ list' # << >>
                    /\ Last(Last(list').recs).seq = wop'[w].seq
                    /\ Last(Last(list').recs).stamp = written'
  BY DEF WriterOwnsTail
<1>1. lock' = w
  BY DEF Inv, LockInv
<1>2. CASE lock = w
  <2>1. UNCHANGED <<list, wop, written>>
    BY <1>1, <1>2, HeldStep
  <2>2. wpc[w] \in {"filled", "notified"}
    BY <1>2 DEF Inv, LockInv
  <2> QED
    BY <1>1, <2>1, <2>2 DEF WriterOwnsTail
<1>3. CASE lock # w
  <2>1. PICK k \in {"pre", "post"}, s \in Nat : Reserve(w, k, s)
    BY <1>1, <1>3, TakenByReserve
  <2> DEFINE rec == [stamp |-> written + 1, kind |-> k, seq |-> s]
  <2>2. PICK n \in Sizes : list' = Stored(rec, n)
    BY <2>1 DEF Reserve
  <2>3. rec \in Record
    BY DEF TInv, LogType, Record
  <2>4. list' # << >> /\ Last(Last(list').recs) = rec
    BY <2>2, <2>3, StoredType, LastOfStored DEF TInv, LogType
  <2>5. written' = written + 1 /\ wop'[w].seq = s
    BY <2>1 DEF Reserve, TInv, WriterType
  <2> QED
    BY <1>1, <2>4, <2>5
<1> QED
  BY <1>2, <1>3

\* From the reservation to the release the record a writer fills is the last
\* one of the last buffer (ProcmonGetLogBufferAndLock to
\* ProcmonNotifyProcessLog): nobody sends, frees or extends that buffer.
THEOREM TailIsOwned == Spec => []WriterOwnsTail
<1>1. Init => WriterOwnsTail
  BY DEF Init, WriterOwnsTail
<1> QED
  BY <1>1, InvHolds, OwnStep, PTL DEF Spec

-----------------------------------------------------------------------------
\* Reserving room fills a buffer to its capacity at most: a record that does
\* not fit what is left goes into a buffer of its own.
LEMMA StoredFits ==
  ASSUME list \in Seq(Buffer), BuffersFit, NEW rec \in Record, NEW n \in Sizes
  PROVE  \A i \in 1..Len(Stored(rec, n)) :
           /\ Stored(rec, n)[i].recs # << >>
           /\ Stored(rec, n)[i].len \in 1..MaxLen
<1>1. n \in 1..MaxLen /\ MaxLen \in Nat
  BY LogAssumption
<1>2. CASE FitsLast(n)
  <2> DEFINE b == [recs |-> Append(list[Len(list)].recs, rec),
                   len |-> list[Len(list)].len + n]
  <2>1. Len(list) \in 1..Len(list) /\ list[Len(list)] \in Buffer
    BY <1>2 DEF FitsLast
  <2>2. b.recs # << >>
    <3>1. list[Len(list)].recs \in Seq(Record)
      BY <2>1 DEF Buffer
    <3> QED
      BY <3>1
  <2>3. b.len \in 1..MaxLen
    <3>1. list[Len(list)].len \in 1..MaxLen
      BY <2>1 DEF BuffersFit
    <3>2. MaxLen - list[Len(list)].len >= n
      BY <1>2 DEF FitsLast, Last
    <3> QED
      BY <1>1, <3>1, <3>2
  <2>4. Stored(rec, n) = [list EXCEPT ![Len(list)] = b]
    BY <1>2 DEF Stored
  <2> HIDE DEF b
  <2>5. Len(Stored(rec, n)) = Len(list)
    BY <2>4
  <2>6. \A i \in 1..Len(list) :
          Stored(rec, n)[i] = IF i = Len(list) THEN b ELSE list[i]
    BY <2>4
  <2> QED
    BY <2>2, <2>3, <2>5, <2>6 DEF BuffersFit
<1>3. CASE ~FitsLast(n)
  <2> DEFINE b == [recs |-> <<rec>>, len |-> n]
  <2>1. b.recs # << >> /\ b.len \in 1..MaxLen
    BY <1>1
  <2>2. Stored(rec, n) = Append(list, b)
    BY <1>3 DEF Stored
  <2> HIDE DEF b
  <2>3. /\ Len(Stored(rec, n)) = Len(list) + 1
        /\ \A i \in 1..Len(list) : Stored(rec, n)[i] = list[i]
        /\ Stored(rec, n)[Len(list) + 1] = b
    BY <2>2
  <2>4. \A i \in 1..Len(list) + 1 : i \in 1..Len(list) \/ i = Len(list) + 1
    OBVIOUS
  <2> QED
    BY <2>1, <2>3, <2>4 DEF BuffersFit
<1> QED
  BY <1>2, <1>3

\* The list changes by a reservation, by the loss of its head or altogether.
LEMMA ListStep ==
  ASSUME TInv, [Next]_vars
  PROVE  \/ list' = list
         \/ list # << >> /\ list' = Tail(list)
         \/ list' = << >>
         \/ \E rec \in Record, n \in Sizes : list' = Stored(rec, n)
<1>1. ASSUME NEW w \in Writers, WriterStep(w)
      PROVE  list' = list \/ \E rec \in Record, n \in Sizes : list' = Stored(rec, n)
  <2>1. ASSUME NEW k \in {"pre", "post"}, NEW s \in Nat, Reserve(w, k, s)
        PROVE  \E rec \in Record, n \in Sizes : list' = Stored(rec, n)
    <3>1. [stamp |-> written + 1, kind |-> k, seq |-> s] \in Record
      BY DEF TInv, LogType, Record
    <3> QED
      BY <2>1, <3>1 DEF Reserve
  <2>2. CASE ReservePre(w)
    <3>1. Reserve(w, "pre", recSeq + 1) /\ recSeq + 1 \in Nat
      BY <2>2 DEF ReservePre, TInv, LogType
    <3> QED
      BY <2>1, <3>1
  <2>3. CASE ReservePost(w)
    <3>1. PICK s \in pending : Reserve(w, "post", s)
      BY <2>3 DEF ReservePost
    <3>2. s \in Nat
      BY <3>1 DEF TInv, LogType, WriterType
    <3> QED
      BY <2>1, <3>1, <3>2
  <2> QED
    BY <1>1, <2>2, <2>3
    DEF WriterStep, EnterPre, RefusePre, RefusePost, Notify, Release, lvars
<1>2. CASE SenderStep
  BY <1>2 DEF SenderStep, TimerExpires, DpcRuns, ThreadWakes, TakeBuffer,
     FindEmpty, SendCompletes, SendFails, AfterSend, lvars
<1>3. CASE ControlStep
  BY <1>3 DEF ControlStep, Connect, ControlOn, StartCancelTimer,
     StartResetReady, StartResetFinish, ControlOff, StopDiscard, StopFlags,
     ReceiverStops, lvars
<1>4. CASE UNCHANGED vars
  BY <1>4 DEF vars, lvars
<1> QED
  BY <1>1, <1>2, <1>3, <1>4 DEF Next

LEMMA FitStep == TInv /\ BuffersFit /\ [Next]_vars => BuffersFit'
<1> SUFFICES ASSUME TInv, BuffersFit, [Next]_vars PROVE BuffersFit'
  OBVIOUS
<1>1. list \in Seq(Buffer)
  BY DEF TInv, LogType
<1>2. CASE list' = list \/ list' = << >>
  BY <1>2 DEF BuffersFit
<1>3. CASE list # << >> /\ list' = Tail(list)
  <2>1. Len(list') = Len(list) - 1 /\ \A i \in 1..Len(list') : list'[i] = list[i + 1]
    BY <1>1, <1>3
  <2>2. \A i \in 1..Len(list') : i + 1 \in 1..Len(list)
    BY <1>1, <2>1
  <2> QED
    BY <2>1, <2>2 DEF BuffersFit
<1>4. CASE \E rec \in Record, n \in Sizes : list' = Stored(rec, n)
  <2>1. PICK rec \in Record, n \in Sizes : list' = Stored(rec, n)
    BY <1>4
  <2>2. \A i \in 1..Len(list') : list'[i].recs # << >> /\ list'[i].len \in 1..MaxLen
    BY <1>1, <2>1, StoredFits
  <2> QED
    BY <2>2 DEF BuffersFit
<1> QED
  BY <1>2, <1>3, <1>4, ListStep

\* A buffer of gLogListHead never outgrows MAX_PROCMON_MESSAGE_LEN, the length
\* of the client's receive buffer, and none is ever linked without a record
\* (ProcmonGetLogBufferAndLock), whatever the record lengths are.
THEOREM BuffersNeverOverflow == Spec => []BuffersFit
<1>1. Init => BuffersFit
  BY DEF Init, BuffersFit
<1> QED
  BY <1>1, InvHolds, FitStep, PTL DEF Spec

-----------------------------------------------------------------------------
(* The order of the records (PostFollowsPre, ImplementsFifo).              *)

\* Operations a POST may still be logged for: their PRE was handed over, or is
\* the record of the writer that holds the mutex.
Open ==
  pending \union {wop[w].seq : w \in {v \in Writers : lock = v /\ wop[v].kind = "pre"}}

\* Records are stamped in the order in which the client receives them.
StampInv ==
  /\ \A x \in Places : At(x).stamp <= written
  /\ \A x, y \in Places : Sooner(x, y) => At(x).stamp < At(y).stamp

\* No record has a sequence that was not drawn, and an open operation no POST.
SeqInv ==
  /\ \A x \in Places : At(x).seq <= recSeq
  /\ \A x \in Places : At(x).seq \in Open => At(x).kind = "pre"

OrderInv == StampInv /\ SeqInv /\ PostFollowsPre

\* A message is on its way exactly while the thread sends.
MsgInv == msg = << >> <=> thread \in {"wait", "loop"}

LEMMA InPlaces ==
  ASSUME NEW x
  PROVE  /\ x \in Places <=> /\ x = <<x[1], x[2]>>
                             /\ x[1] \in 1..Len(list) + 2
                             /\ x[2] \in 1..Len(Batch(x[1]))
         /\ x \in Places' <=> /\ x = <<x[1], x[2]>>
                              /\ x[1] \in 1..Len(list') + 2
                              /\ x[2] \in 1..Len(Batch(x[1])')
BY DEF Places

LEMMA BatchTyped ==
  ASSUME TInv, NEW k \in 1..Len(list) + 2
  PROVE  Batch(k) \in Seq(Record)
<1>1. delivered \in Seq(Record) /\ msg \in Seq(Record)
  BY DEF TInv, SenderType, ClientType
<1>2. ASSUME k # 1, k # 2 PROVE list[k - 2].recs \in Seq(Record)
  <2>1. k - 2 \in 1..Len(list) /\ list \in Seq(Buffer)
    BY <1>2 DEF TInv, LogType
  <2>2. list[k - 2] \in Buffer
    BY <2>1
  <2> QED
    BY <2>2 DEF Buffer
<1> QED
  BY <1>1, <1>2 DEF Batch

LEMMA PlaceTyped ==
  ASSUME TInv, NEW x \in Places
  PROVE  /\ x[1] \in Nat /\ x[2] \in Nat
         /\ At(x) \in Record
         /\ At(x).stamp \in Nat /\ At(x).seq \in Nat
<1>1. x[1] \in 1..Len(list) + 2 /\ x[2] \in 1..Len(Batch(x[1]))
  BY InPlaces
<1>2. Batch(x[1]) \in Seq(Record)
  BY <1>1, BatchTyped
<1>3. At(x) \in Record
  BY <1>1, <1>2 DEF At
<1>4. list \in Seq(Buffer)
  BY DEF TInv, LogType
<1> QED
  BY <1>1, <1>2, <1>3, <1>4 DEF Record

\* A step that draws no sequence and opens no operation keeps the order when
\* the places it leaves keep theirs.
LEMMA Carried ==
  ASSUME OrderInv, written' = written, recSeq' = recSeq, Open' \subseteq Open,
         \A x, y \in Places' : \E u, v \in Places :
           /\ At(x)' = At(u) /\ At(y)' = At(v)
           /\ Sooner(x, y) => Sooner(u, v)
  PROVE  OrderInv'
<1>1. \A x \in Places' : \E u \in Places : At(x)' = At(u)
  OBVIOUS
<1>2. ASSUME NEW x \in Places', NEW y \in Places', Sooner(x, y)
      PROVE  /\ At(x)'.stamp < At(y)'.stamp
             /\ At(x)'.seq = At(y)'.seq => At(x)'.kind = "pre" /\ At(y)'.kind = "post"
  <2>1. PICK u \in Places, v \in Places :
          At(x)' = At(u) /\ At(y)' = At(v) /\ Sooner(u, v)
    BY <1>2
  <2> QED
    BY <2>1 DEF OrderInv, StampInv, PostFollowsPre
<1>3. StampInv'
  <2>1. \A x \in Places' : At(x)'.stamp <= written'
    BY <1>1 DEF OrderInv, StampInv
  <2> QED
    BY <1>2, <2>1 DEF StampInv, Sooner
<1>4. SeqInv'
  <2>1. ASSUME NEW x \in Places' PROVE /\ At(x)'.seq <= recSeq'
                                       /\ At(x)'.seq \in Open' => At(x)'.kind = "pre"
    BY <1>1 DEF OrderInv, SeqInv
  <2> QED
    BY <2>1 DEF SeqInv
<1>5. PostFollowsPre'
  BY <1>2 DEF PostFollowsPre, Sooner
<1> QED
  BY <1>3, <1>4, <1>5 DEF OrderInv

\* A reservation adds one place, behind all others.
LEMMA Added ==
  ASSUME TInv, NEW rec \in Record, NEW n \in Sizes, list' = Stored(rec, n),
         UNCHANGED <<delivered, msg>>
  PROVE  \E z : /\ Places' = Places \union {z}
                /\ At(z)' = rec
                /\ ~Sooner(z, z)
                /\ \A x \in Places : At(x)' = At(x) /\ Sooner(x, z) /\ ~Sooner(z, x)
<1>0. PICK m \in Nat : m = Len(list) /\ list \in Seq(Buffer)
  BY DEF TInv, LogType
<1>1. CASE FitsLast(n)
  <2>0. m \in 1..m
    BY <1>0, <1>1 DEF FitsLast
  <2>1. PICK recs \in Seq(Record) : recs = list[m].recs
    <3>1. list[m] \in Buffer
      BY <1>0, <2>0
    <3> QED
      BY <3>1 DEF Buffer
  <2> DEFINE b == [recs |-> Append(recs, rec), len |-> list[m].len + n]
  <2>2. list' = [list EXCEPT ![m] = b]
    BY <1>0, <1>1, <2>1 DEF Stored
  <2>3. b.recs = Append(recs, rec)
    OBVIOUS
  <2>z. PICK z : z = <<m + 2, Len(recs) + 1>>
    OBVIOUS
  <2> HIDE DEF b
  <2>4. Len(list') = m /\ list'[m] = b /\ \A i \in 1..m : i # m => list'[i] = list[i]
    BY <1>0, <2>0, <2>1, <2>2
  <2>5. Batch(m + 2) = recs /\ Batch(m + 2)' = Append(recs, rec)
    BY <1>0, <2>0, <2>1, <2>3, <2>4 DEF Batch
  <2>6. ASSUME NEW k \in 1..m + 2, k # m + 2 PROVE Batch(k)' = Batch(k)
    <3>1. k = 1 \/ k = 2 \/ (k - 2 \in 1..m /\ k - 2 # m)
      BY <1>0, <2>6
    <3> QED
      BY <2>4, <3>1 DEF Batch
  <2>7. Places' = Places \union {z}
    <3>1. ASSUME NEW x PROVE x \in Places' <=> x \in Places \/ x = z
      <4>1. CASE x[1] = m + 2
        BY <1>0, <2>0, <2>1, <2>z, <2>4, <2>5, <4>1, InPlaces
      <4>2. CASE x[1] # m + 2
        BY <1>0, <2>0, <2>1, <2>z, <2>4, <2>6, <4>2, InPlaces
      <4> QED
        BY <4>1, <4>2
    <3> QED
      BY <3>1
  <2>8. At(z)' = rec
    BY <2>1, <2>z, <2>5 DEF At
  <2>9. ASSUME NEW x \in Places
        PROVE  At(x)' = At(x) /\ Sooner(x, z) /\ ~Sooner(z, x)
    <3>1. x[1] \in 1..m + 2 /\ x[2] \in 1..Len(Batch(x[1]))
      BY <1>0, InPlaces
    <3>2. CASE x[1] = m + 2
      BY <1>0, <2>0, <2>1, <2>z, <2>5, <3>1, <3>2 DEF At, Sooner
    <3>3. CASE x[1] # m + 2
      BY <1>0, <2>0, <2>1, <2>z, <2>6, <3>1, <3>3 DEF At, Sooner
    <3> QED
      BY <3>2, <3>3
  <2>10. ~Sooner(z, z)
    BY <1>0, <2>0, <2>1, <2>z DEF Sooner
  <2> QED
    BY <2>7, <2>8, <2>9, <2>10
<1>2. CASE ~FitsLast(n)
  <2> DEFINE b == [recs |-> <<rec>>, len |-> n]
  <2>1. list' = Append(list, b)
    BY <1>2 DEF Stored
  <2>2. b.recs = <<rec>>
    OBVIOUS
  <2>z. PICK z : z = <<m + 3, 1>>
    OBVIOUS
  <2> HIDE DEF b
  <2>3. Len(list') = m + 1 /\ list'[m + 1] = b /\ \A i \in 1..m : list'[i] = list[i]
    BY <1>0, <2>1
  <2>4. Batch(m + 3)' = <<rec>>
    BY <1>0, <2>2, <2>3 DEF Batch
  <2>5. ASSUME NEW k \in 1..m + 2 PROVE Batch(k)' = Batch(k)
    <3>1. k = 1 \/ k = 2 \/ k - 2 \in 1..m
      BY <1>0
    <3> QED
      BY <2>3, <3>1 DEF Batch
  <2>6. Places' = Places \union {z}
    <3>1. ASSUME NEW x PROVE x \in Places' <=> x \in Places \/ x = z
      <4>1. CASE x[1] = m + 3
        BY <1>0, <2>z, <2>3, <2>4, <4>1, InPlaces
      <4>2. CASE x[1] # m + 3
        BY <1>0, <2>z, <2>3, <2>5, <4>2, InPlaces
      <4> QED
        BY <4>1, <4>2
    <3> QED
      BY <3>1
  <2>7. At(z)' = rec
    BY <2>z, <2>4 DEF At
  <2>8. ASSUME NEW x \in Places
        PROVE  At(x)' = At(x) /\ Sooner(x, z) /\ ~Sooner(z, x)
    <3>1. x[1] \in 1..m + 2 /\ x[2] \in 1..Len(Batch(x[1]))
      BY <1>0, InPlaces
    <3> QED
      BY <1>0, <2>z, <2>5, <3>1 DEF At, Sooner
  <2>9. ~Sooner(z, z)
    BY <1>0, <2>z DEF Sooner
  <2> QED
    BY <2>6, <2>7, <2>8, <2>9
<1> QED
  BY <1>1, <1>2

\* A PRE is the first record of its sequence, a POST the second: the last place
\* has it, with the last stamp.
LEMMA ReserveOrder ==
  ASSUME TInv, OrderInv, NEW w \in Writers, NEW k \in {"pre", "post"}, NEW s \in Nat,
         Reserve(w, k, s), recSeq' \in Nat, recSeq <= recSeq', s <= recSeq',
         Open' \subseteq Open \union {s},
         k = "pre" => s > recSeq,
         k = "post" => s \in Open /\ s \notin Open'
  PROVE  OrderInv'
<1> DEFINE rec == [stamp |-> written + 1, kind |-> k, seq |-> s]
<1>0. written \in Nat /\ recSeq \in Nat /\ written' = written + 1
  BY DEF TInv, LogType, Reserve
<1>1. rec \in Record
  BY <1>0 DEF Record
<1>2. PICK n \in Sizes : list' = Stored(rec, n)
  BY DEF Reserve
<1>3. UNCHANGED <<delivered, msg>>
  BY DEF Reserve, tvars
<1>4. rec.stamp = written + 1 /\ rec.kind = k /\ rec.seq = s
  OBVIOUS
<1> HIDE DEF rec
<1>5. PICK z : /\ Places' = Places \union {z}
               /\ At(z)' = rec
               /\ ~Sooner(z, z)
               /\ \A x \in Places : At(x)' = At(x) /\ Sooner(x, z) /\ ~Sooner(z, x)
  BY <1>1, <1>2, <1>3, Added
<1>6. \A x \in Places : At(x).stamp \in Nat /\ At(x).seq \in Nat
  BY PlaceTyped
<1>7. \A x \in Places : At(x).seq = s => k = "post" /\ At(x).kind = "pre"
  BY <1>0, <1>6 DEF OrderInv, SeqInv
<1>8. StampInv'
  <2>1. \A x \in Places' : At(x)'.stamp <= written'
    BY <1>0, <1>4, <1>5, <1>6 DEF OrderInv, StampInv
  <2>2. ASSUME NEW x \in Places', NEW y \in Places', Sooner(x, y)
        PROVE  At(x)'.stamp < At(y)'.stamp
    <3>1. x \in Places
      BY <1>5, <2>2
    <3>2. CASE y \in Places
      BY <1>5, <2>2, <3>1, <3>2 DEF OrderInv, StampInv
    <3>3. CASE y = z
      BY <1>0, <1>4, <1>5, <1>6, <3>1, <3>3 DEF OrderInv, StampInv
    <3> QED
      BY <1>5, <3>2, <3>3
  <2> QED
    BY <2>1, <2>2 DEF StampInv, Sooner
<1>9. SeqInv'
  <2>1. ASSUME NEW x \in Places'
        PROVE  At(x)'.seq <= recSeq' /\ (At(x)'.seq \in Open' => At(x)'.kind = "pre")
    <3>1. CASE x \in Places
      <4>1. At(x)' = At(x) /\ At(x).seq <= recSeq /\ At(x).seq \in Nat
        BY <1>5, <1>6, <3>1 DEF OrderInv, SeqInv
      <4>2. At(x).seq \in Open' => At(x).kind = "pre"
        BY <1>7, <3>1 DEF OrderInv, SeqInv
      <4> QED
        BY <1>0, <4>1, <4>2
    <3>2. CASE x = z
      BY <1>4, <1>5, <3>2
    <3> QED
      BY <1>5, <3>1, <3>2
  <2> QED
    BY <2>1 DEF SeqInv
<1>10. PostFollowsPre'
  <2>1. ASSUME NEW x \in Places', NEW y \in Places', Sooner(x, y), At(x)'.seq = At(y)'.seq
        PROVE  At(x)'.kind = "pre" /\ At(y)'.kind = "post"
    <3>1. x \in Places /\ At(x)' = At(x)
      BY <1>5, <2>1
    <3>2. CASE y \in Places
      BY <1>5, <2>1, <3>1, <3>2 DEF OrderInv, PostFollowsPre
    <3>3. CASE y = z
      BY <1>4, <1>5, <1>7, <2>1, <3>1, <3>3
    <3> QED
      BY <1>5, <3>2, <3>3
  <2> QED
    BY <2>1 DEF PostFollowsPre, Sooner
<1> QED
  BY <1>8, <1>9, <1>10 DEF OrderInv

\* What is open before and after a step of a writer.
LEMMA OpenStep ==
  ASSUME TInv, Inv, NEW w \in Writers
  PROVE  /\ ReservePre(w) => Open' \subseteq Open \union {recSeq + 1}
         /\ \A s \in pending : Reserve(w, "post", s) /\ pending' = pending \ {s} =>
              s \in Open /\ s \notin Open' /\ Open' \subseteq Open
         /\ EnterPre(w) \/ RefusePre(w) \/ RefusePost(w) \/ Notify(w) \/ Release(w) =>
              Open' \subseteq Open
<1>0. wop \in [Writers -> [kind : {"none", "pre", "post"}, seq : Nat]]
  BY DEF TInv, WriterType
<1>1. ASSUME ReservePre(w) PROVE Open' \subseteq Open \union {recSeq + 1}
  <2>1. /\ pending' = pending /\ lock' = w
        /\ wop' = [wop EXCEPT ![w] = [kind |-> "pre", seq |-> recSeq + 1]]
    BY <1>1 DEF ReservePre, Reserve
  <2>2. wop'[w].seq = recSeq + 1
    BY <1>0, <2>1
  <2> QED
    BY <2>1, <2>2 DEF Open
<1>2. ASSUME NEW s \in pending, Reserve(w, "post", s), pending' = pending \ {s}
      PROVE  s \in Open /\ s \notin Open' /\ Open' \subseteq Open
  <2>1. lock' = w /\ wop' = [wop EXCEPT ![w] = [kind |-> "post", seq |-> s]]
    BY <1>2 DEF Reserve
  <2>2. wop'[w].kind = "post"
    BY <1>0, <2>1
  <2> QED
    BY <1>2, <2>1, <2>2 DEF Open
<1>3. ASSUME EnterPre(w) \/ RefusePre(w) \/ RefusePost(w) \/ Notify(w)
      PROVE  Open' \subseteq Open
  <2>1. lock' = lock /\ wop' = wop /\ pending' \subseteq pending
    BY <1>3 DEF EnterPre, RefusePre, RefusePost, Notify, lvars
  <2> QED
    BY <2>1 DEF Open
<1>4. ASSUME Release(w) PROVE Open' \subseteq Open
  <2>1. lock = w /\ lock' = Free
    BY <1>4 DEF Release, Inv, LockInv
  <2>2. pending' \subseteq pending \union {s \in {wop[w].seq} : wop[w].kind = "pre"}
    BY <1>4 DEF Release
  <2>3. Open' = pending'
    BY <2>1, LogAssumption DEF Open
  <2> QED
    BY <2>1, <2>2, <2>3 DEF Open
<1> QED
  BY <1>1, <1>2, <1>3, <1>4

LEMMA WriterOrder ==
  ASSUME TInv, Inv, OrderInv, NEW w \in Writers, WriterStep(w)
  PROVE  OrderInv'
<1>0. recSeq \in Nat /\ pending \subseteq 1..recSeq
  BY DEF TInv, LogType, WriterType
<1>1. CASE ReservePre(w)
  <2>1. /\ Reserve(w, "pre", recSeq + 1) /\ recSeq' = recSeq + 1 /\ recSeq + 1 \in Nat
        /\ Open' \subseteq Open \union {recSeq + 1}
    BY <1>0, <1>1, OpenStep DEF ReservePre
  <2>2. recSeq' \in Nat /\ recSeq <= recSeq' /\ recSeq + 1 <= recSeq' /\ recSeq + 1 > recSeq
    BY <1>0, <2>1
  <2> QED
    BY <2>1, <2>2, ReserveOrder
<1>2. CASE ReservePost(w)
  <2>1. PICK s \in pending : Reserve(w, "post", s) /\ pending' = pending \ {s}
    BY <1>2 DEF ReservePost
  <2>2. s \in Open /\ s \notin Open' /\ Open' \subseteq Open
    BY <2>1, OpenStep
  <2>3. recSeq' = recSeq /\ s \in Nat /\ s <= recSeq
    BY <1>0, <1>2 DEF ReservePost
  <2> QED
    BY <1>0, <2>1, <2>2, <2>3, ReserveOrder
<1>3. CASE EnterPre(w) \/ RefusePre(w) \/ RefusePost(w) \/ Notify(w) \/ Release(w)
  <2>1. UNCHANGED <<list, msg, delivered, written, recSeq>>
    BY <1>3 DEF EnterPre, RefusePre, RefusePost, Notify, Release, lvars, tvars
  <2>2. Places' = Places /\ \A x : At(x)' = At(x)
    BY <2>1 DEF Places, At, Batch
  <2>3. Open' \subseteq Open
    BY <1>3, OpenStep
  <2> QED
    BY <2>1, <2>2, <2>3, Carried
<1> QED
  BY <1>1, <1>2, <1>3 DEF WriterStep

\* A step that moves records moves a whole message or buffer and keeps the rest.
LEMMA SenderOrder ==
  ASSUME TInv, Inv, MsgInv, OrderInv, SenderStep
  PROVE  OrderInv'
<1>0. list \in Seq(Buffer) /\ delivered \in Seq(Record) /\ msg \in Seq(Record)
  BY DEF TInv, LogType, SenderType, ClientType
<1>1. written' = written /\ recSeq' = recSeq /\ Open' = Open
  <2>1. UNCHANGED <<written, recSeq, lock, wop, pending>>
    BY DEF SenderStep, TimerExpires, DpcRuns, ThreadWakes, TakeBuffer, FindEmpty,
           SendCompletes, SendFails, AfterSend, lvars, wvars
  <2> QED
    BY <2>1 DEF Open
<1>2. CASE TakeBuffer
  <2> DEFINE g(x) == IF x[1] = 1 THEN x ELSE <<x[1] + 1, x[2]>>
  <2>1. /\ list # << >> /\ msg' = Head(list).recs /\ list' = Tail(list)
        /\ delivered' = delivered
    BY <1>2 DEF TakeBuffer
  <2>2. Len(list') = Len(list) - 1 /\ \A i \in 1..Len(list') : list'[i] = list[i + 1]
    BY <1>0, <2>1
  <2>3. Batch(1)' = Batch(1) /\ Batch(2)' = Batch(3)
    BY <1>0, <2>1 DEF Batch
  <2>4. ASSUME NEW k \in 2..Len(list') + 2 PROVE Batch(k)' = Batch(k + 1)
    <3>1. CASE k = 2
      BY <2>3, <3>1
    <3>2. CASE k # 2
      <4>1. k - 2 \in 1..Len(list') /\ k # 1 /\ k + 1 # 1 /\ k + 1 # 2 /\ k + 1 - 2 = k - 2 + 1
        BY <3>2
      <4>2. list'[k - 2] = list[k + 1 - 2]
        BY <2>2, <4>1
      <4> QED
        BY <3>2, <4>1, <4>2 DEF Batch
    <3> QED
      BY <3>1, <3>2
  <2>5. ASSUME NEW x \in Places'
        PROVE  g(x) \in Places /\ At(x)' = At(g(x)) /\ x[1] \in Nat /\ x[2] \in Nat
    <3>1. x = <<x[1], x[2]>> /\ x[1] \in 1..Len(list') + 2 /\ x[2] \in 1..Len(Batch(x[1])')
      BY InPlaces
    <3>2. CASE x[1] = 1
      BY <1>0, <2>2, <2>3, <3>1, <3>2, InPlaces DEF At
    <3>3. CASE x[1] # 1
      <4>1. x[1] \in 2..Len(list') + 2 /\ Len(list') \in Nat
        BY <1>0, <2>2, <3>1, <3>3
      <4>2. Batch(x[1])' = Batch(x[1] + 1) /\ x[1] + 1 \in 1..Len(list) + 2
        BY <1>0, <2>2, <2>4, <4>1
      <4>3. PICK y : y = <<x[1] + 1, x[2]>>
        OBVIOUS
      <4>4. y[1] = x[1] + 1 /\ y[2] = x[2] /\ y = <<y[1], y[2]>>
        BY <4>3
      <4>5. y \in Places /\ At(x)' = At(y)
        BY <3>1, <4>2, <4>4, InPlaces DEF At
      <4> QED
        BY <3>1, <3>3, <4>1, <4>3, <4>5
    <3> QED
      BY <3>2, <3>3
  <2>6. ASSUME NEW x \in Places', NEW y \in Places', Sooner(x, y)
        PROVE  Sooner(g(x), g(y))
    <3>1. x[1] \in Nat /\ x[2] \in Nat /\ y[1] \in Nat /\ y[2] \in Nat
      BY <2>5
    <3>2. x[1] >= 1 /\ y[1] >= 1
      BY <3>1, InPlaces
    <3> QED
      BY <2>6, <3>1, <3>2 DEF Sooner
  <2> HIDE DEF g
  <2>7. \A x, y \in Places' : \E u, v \in Places :
          /\ At(x)' = At(u) /\ At(y)' = At(v)
          /\ Sooner(x, y) => Sooner(u, v)
    BY <2>5, <2>6
  <2> QED
    BY <1>1, <2>7, Carried
<1>3. CASE SendCompletes
  <2>1. delivered' = delivered \o msg /\ msg' = << >> /\ list' = list
    BY <1>3 DEF SendCompletes, AfterSend, lvars
  <2> DEFINE d == Len(delivered)
             g(x) == IF x[1] = 1 /\ x[2] > d THEN <<2, x[2] - d>> ELSE x
  <2>2. /\ d \in Nat /\ Len(msg) \in Nat /\ Len(delivered \o msg) = d + Len(msg)
        /\ \A i \in 1..d : (delivered \o msg)[i] = delivered[i]
        /\ \A i \in 1..Len(msg) : (delivered \o msg)[d + i] = msg[i]
    BY <1>0
  <2>3. /\ Batch(1) = delivered /\ Batch(2) = msg
        /\ Batch(1)' = delivered \o msg /\ Batch(2)' = << >>
    BY <2>1 DEF Batch
  <2>4. ASSUME NEW x \in Places'
        PROVE  /\ g(x) \in Places /\ At(x)' = At(g(x))
               /\ x[1] \in Nat /\ x[2] \in Nat /\ x[1] # 2 /\ x[1] >= 1
    <3>1. x = <<x[1], x[2]>> /\ x[1] \in 1..Len(list) + 2 /\ x[2] \in 1..Len(Batch(x[1])')
      BY <2>1, InPlaces
    <3>2. CASE x[1] = 1
      <4>1. x[2] \in 1..d + Len(msg) /\ At(x)' = (delivered \o msg)[x[2]]
        BY <2>2, <2>3, <3>1, <3>2 DEF At
      <4>2. CASE x[2] > d
        <5>1. PICK y : y = <<2, x[2] - d>>
          OBVIOUS
        <5>2. y[1] = 2 /\ y[2] = x[2] - d /\ y[2] \in 1..Len(msg) /\ x[2] = d + y[2]
          BY <2>2, <4>1, <4>2, <5>1
        <5>3. y \in Places /\ At(y) = msg[y[2]]
          <6>1. y = <<y[1], y[2]>> /\ y[1] \in 1..Len(list) + 2
            BY <1>0, <5>1, <5>2
          <6>2. Batch(y[1]) = msg
            BY <2>3, <5>2
          <6> QED
            BY <5>2, <6>1, <6>2, InPlaces DEF At
        <5>4. (delivered \o msg)[x[2]] = msg[y[2]]
          BY <2>2, <5>2
        <5> QED
          BY <3>1, <3>2, <4>1, <4>2, <5>1, <5>3, <5>4
      <4>3. CASE ~(x[2] > d)
        <5>1. x[2] \in 1..d
          BY <2>2, <4>1, <4>3
        <5> QED
          BY <2>2, <2>3, <3>1, <3>2, <4>1, <4>3, <5>1, InPlaces DEF At
      <4> QED
        BY <4>2, <4>3
    <3>3. CASE x[1] # 1
      <4>1. x[1] # 2
        BY <2>3, <3>1
      <4>2. Batch(x[1])' = Batch(x[1])
        BY <2>1, <3>3, <4>1 DEF Batch
      <4>3. Len(Batch(x[1])) \in Nat
        BY <3>1, BatchTyped
      <4> QED
        BY <3>1, <3>3, <4>1, <4>2, <4>3, InPlaces DEF At
    <3> QED
      BY <3>2, <3>3
  <2>5. ASSUME NEW x \in Places', NEW y \in Places', Sooner(x, y)
        PROVE  Sooner(g(x), g(y))
    <3>1. /\ x[1] \in Nat /\ x[2] \in Nat /\ x[1] # 2 /\ x[1] >= 1
          /\ y[1] \in Nat /\ y[2] \in Nat /\ y[1] # 2 /\ y[1] >= 1
      BY <2>4
    <3> QED
      BY <2>2, <2>5, <3>1 DEF Sooner
  <2> HIDE DEF g
  <2>6. \A x, y \in Places' : \E u, v \in Places :
          /\ At(x)' = At(u) /\ At(y)' = At(v)
          /\ Sooner(x, y) => Sooner(u, v)
    BY <2>4, <2>5
  <2> QED
    BY <1>1, <2>6, Carried
<1>4. CASE SendFails
  <2>1. delivered' = delivered /\ msg' = << >> /\ list' = list
    BY <1>4 DEF SendFails, AfterSend, lvars
  <2>2. ASSUME NEW x \in Places' PROVE x \in Places /\ At(x)' = At(x)
    <3>1. x = <<x[1], x[2]>> /\ x[1] \in 1..Len(list) + 2 /\ x[2] \in 1..Len(Batch(x[1])')
      BY <2>1, InPlaces
    <3>2. x[1] # 2
      BY <2>1, <3>1 DEF Batch
    <3>3. Batch(x[1])' = Batch(x[1])
      BY <2>1, <3>2 DEF Batch
    <3> QED
      BY <3>1, <3>3, InPlaces DEF At
  <2> QED
    BY <1>1, <2>2, Carried
<1>5. CASE TimerExpires \/ DpcRuns \/ ThreadWakes \/ FindEmpty
  <2>1. UNCHANGED <<list, msg, delivered>>
    BY <1>5 DEF TimerExpires, DpcRuns, ThreadWakes, FindEmpty, lvars
  <2>2. Places' = Places /\ \A x : At(x)' = At(x)
    BY <2>1 DEF Places, At, Batch
  <2> QED
    BY <1>1, <2>2, Carried
<1> QED
  BY <1>2, <1>3, <1>4, <1>5 DEF SenderStep

LEMMA ControlOrder ==
  ASSUME TInv, OrderInv, ControlStep \/ UNCHANGED vars
  PROVE  OrderInv'
<1>1. UNCHANGED <<written, recSeq, lock, wop, pending, msg, delivered>>
  BY DEF ControlStep, Connect, ControlOn, StartCancelTimer, StartResetReady,
         StartResetFinish, ControlOff, StopDiscard, StopFlags, ReceiverStops,
         lvars, wvars, tvars, vars
<1>2. Open' = Open
  BY <1>1 DEF Open
<1>3. CASE list' = list
  <2>1. Places' = Places /\ \A x : At(x)' = At(x)
    BY <1>1, <1>3 DEF Places, At, Batch
  <2> QED
    BY <1>1, <1>2, <2>1, Carried
<1>4. CASE list' = << >>
  <2>1. list \in Seq(Buffer)
    BY DEF TInv, LogType
  <2>2. ASSUME NEW x \in Places' PROVE x \in Places /\ At(x)' = At(x)
    <3>1. x = <<x[1], x[2]>> /\ x[1] \in 1..2 /\ x[2] \in 1..Len(Batch(x[1])')
      BY <1>4, InPlaces
    <3>2. Batch(x[1])' = Batch(x[1])
      BY <1>1, <3>1 DEF Batch
    <3> QED
      BY <2>1, <3>1, <3>2, InPlaces DEF At
  <2> QED
    BY <1>1, <1>2, <2>2, Carried
<1> QED
  BY <1>3, <1>4 DEF ControlStep, Connect, ControlOn, StartCancelTimer,
     StartResetReady, StartResetFinish, ControlOff, StopDiscard, StopFlags,
     ReceiverStops, lvars, vars

LEMMA MsgStep == TInv /\ BuffersFit /\ MsgInv /\ [Next]_vars => MsgInv'
<1> SUFFICES ASSUME TInv, BuffersFit, MsgInv, [Next]_vars PROVE MsgInv'
  OBVIOUS
<1>1. ASSUME NEW w \in Writers, WriterStep(w) PROVE UNCHANGED <<msg, thread>>
  BY <1>1 DEF WriterStep, EnterPre, ReservePre, ReservePost, Reserve, RefusePre,
     RefusePost, Notify, Release, tvars
<1>2. CASE TakeBuffer
  <2>1. list \in Seq(Buffer) /\ list # << >> /\ msg' = Head(list).recs
    BY <1>2 DEF TakeBuffer, TInv, LogType
  <2>2. Head(list) = list[1] /\ 1 \in 1..Len(list)
    BY <2>1
  <2>3. msg' # << >>
    BY <2>1, <2>2 DEF BuffersFit
  <2>4. thread' \notin {"wait", "loop"}
    BY <1>2 DEF TakeBuffer
  <2> QED
    BY <2>3, <2>4 DEF MsgInv
<1>3. CASE SenderStep /\ ~TakeBuffer
  BY <1>3 DEF SenderStep, TimerExpires, DpcRuns, ThreadWakes, FindEmpty,
     SendCompletes, SendFails, AfterSend, MsgInv
<1>4. ASSUME ControlStep \/ UNCHANGED vars PROVE UNCHANGED <<msg, thread>>
  BY <1>4 DEF ControlStep, Connect, ControlOn, StartCancelTimer, StartResetReady,
     StartResetFinish, ControlOff, StopDiscard, StopFlags, ReceiverStops, tvars, vars
<1> QED
  BY <1>1, <1>2, <1>3, <1>4 DEF Next, MsgInv

LogInv == TInv /\ Inv /\ BuffersFit /\ MsgInv /\ OrderInv

LEMMA LogInit == Init => LogInv
<1> SUFFICES ASSUME Init PROVE LogInv
  OBVIOUS
<1>1. BuffersFit /\ MsgInv
  BY DEF Init, BuffersFit, MsgInv
<1>2. Places = {}
  <2>1. ASSUME NEW x \in Places PROVE FALSE
    <3>1. x[1] \in 1..2 /\ x[2] \in 1..Len(Batch(x[1]))
      BY InPlaces DEF Init
    <3>2. Batch(x[1]) = << >>
      BY <3>1 DEF Batch, Init
    <3> QED
      BY <3>1, <3>2
  <2> QED
    BY <2>1
<1>3. OrderInv
  BY <1>2 DEF OrderInv, StampInv, SeqInv, PostFollowsPre
<1> QED
  BY <1>1, <1>3, TInvInit, InvInit DEF LogInv

LEMMA LogStep == LogInv /\ [Next]_vars => LogInv'
<1> SUFFICES ASSUME LogInv, [Next]_vars PROVE LogInv'
  OBVIOUS
<1> USE DEF LogInv
<1>1. OrderInv'
  BY WriterOrder, SenderOrder, ControlOrder DEF Next
<1> QED
  BY <1>1, TInvStep, InvStep, FitStep, MsgStep

LEMMA LogHolds == Spec => []LogInv
BY LogInit, LogStep, PTL DEF Spec

\* A POST never overtakes its PRE, and an operation completes at most once in
\* what the client receives (ProcmonGetLogEntryAndSeq draws a sequence,
\* ProcmonGetPostLogEntry repeats it), across buffers, messages and sessions.
THEOREM PostsFollow == Spec => []PostFollowsPre
<1>1. LogInv => PostFollowsPre
  BY DEF LogInv, OrderInv
<1> QED
  BY <1>1, LogHolds, PTL

-----------------------------------------------------------------------------
(* The log is a first-in first-out queue (LogFifo).                        *)

LEMMA WaitingIs ==
  /\ \A r : r \in Waiting <=>
       \E k \in 1..Len(list) : \E i \in 1..Len(list[k].recs) : r = list[k].recs[i].stamp
  /\ \A r : r \in Waiting' <=>
       \E k \in 1..Len(list') : \E i \in 1..Len(list'[k].recs) : r = list'[k].recs[i].stamp
BY DEF Waiting

\* A reserved record waits, behind all others.
LEMMA ReserveWrites ==
  ASSUME TInv, NEW rec \in Record, NEW n \in Sizes, list' = Stored(rec, n)
  PROVE  Waiting' = Waiting \union {rec.stamp}
<1>0. PICK m \in Nat : m = Len(list) /\ list \in Seq(Buffer)
  BY DEF TInv, LogType
<1>1. CASE FitsLast(n)
  <2>0. m \in 1..m
    BY <1>0, <1>1 DEF FitsLast
  <2>1. PICK recs \in Seq(Record) : recs = list[m].recs
    <3>1. list[m] \in Buffer
      BY <1>0, <2>0
    <3> QED
      BY <3>1 DEF Buffer
  <2> DEFINE b == [recs |-> Append(recs, rec), len |-> list[m].len + n]
  <2>2. list' = [list EXCEPT ![m] = b]
    BY <1>0, <1>1, <2>1 DEF Stored
  <2>3. b.recs = Append(recs, rec)
    OBVIOUS
  <2> HIDE DEF b
  <2>4. Len(list') = m /\ list'[m] = b /\ \A i \in 1..m : i # m => list'[i] = list[i]
    BY <1>0, <2>0, <2>1, <2>2
  <2>5. /\ Len(b.recs) = Len(recs) + 1 /\ b.recs[Len(recs) + 1] = rec
        /\ \A i \in 1..Len(recs) : b.recs[i] = recs[i]
    BY <2>1, <2>3
  <2>6. ASSUME NEW r \in Waiting PROVE r \in Waiting'
    <3>0. PICK k \in 1..m :
            \E i \in 1..Len(list[k].recs) : r = list[k].recs[i].stamp
      BY <1>0, WaitingIs
    <3>1. PICK i \in 1..Len(list[k].recs) : r = list[k].recs[i].stamp
      BY <3>0
    <3>2. i \in 1..Len(list'[k].recs) /\ list'[k].recs[i] = list[k].recs[i]
      BY <2>0, <2>1, <2>4, <2>5, <3>1
    <3> QED
      BY <1>0, <2>4, <3>1, <3>2, WaitingIs
  <2>7. rec.stamp \in Waiting'
    <3>1. m \in 1..Len(list') /\ Len(recs) + 1 \in 1..Len(list'[m].recs)
      BY <2>0, <2>1, <2>4, <2>5
    <3>2. list'[m].recs[Len(recs) + 1] = rec
      BY <2>4, <2>5
    <3> QED
      BY <3>1, <3>2, WaitingIs
  <2>8. ASSUME NEW r \in Waiting', r # rec.stamp PROVE r \in Waiting
    <3>0. PICK k \in 1..m :
            \E i \in 1..Len(list'[k].recs) : r = list'[k].recs[i].stamp
      BY <2>4, WaitingIs
    <3>1. PICK i \in 1..Len(list'[k].recs) : r = list'[k].recs[i].stamp
      BY <3>0
    <3>2. i \in 1..Len(list[k].recs) /\ list'[k].recs[i] = list[k].recs[i]
      <4>1. CASE k = m
        <5>1. i # Len(recs) + 1
          BY <2>4, <2>5, <2>8, <3>1, <4>1
        <5> QED
          BY <2>1, <2>4, <2>5, <3>1, <4>1, <5>1
      <4>2. CASE k # m
        BY <2>4, <3>1, <4>2
      <4> QED
        BY <4>1, <4>2
    <3> QED
      BY <1>0, <3>1, <3>2, WaitingIs
  <2> QED
    BY <2>6, <2>7, <2>8
<1>2. CASE ~FitsLast(n)
  <2> DEFINE b == [recs |-> <<rec>>, len |-> n]
  <2>1. list' = Append(list, b)
    BY <1>2 DEF Stored
  <2>2. b.recs = <<rec>>
    OBVIOUS
  <2> HIDE DEF b
  <2>3. Len(list') = m + 1 /\ list'[m + 1] = b /\ \A i \in 1..m : list'[i] = list[i]
    BY <1>0, <2>1
  <2>4. Len(b.recs) = 1 /\ b.recs[1] = rec
    BY <2>2
  <2>5. ASSUME NEW r \in Waiting PROVE r \in Waiting'
    <3>0. PICK k \in 1..m :
            \E i \in 1..Len(list[k].recs) : r = list[k].recs[i].stamp
      BY <1>0, WaitingIs
    <3>1. PICK i \in 1..Len(list[k].recs) : r = list[k].recs[i].stamp
      BY <3>0
    <3> QED
      BY <2>3, <3>1, WaitingIs
  <2>6. rec.stamp \in Waiting'
    <3>1. m + 1 \in 1..Len(list') /\ 1 \in 1..Len(list'[m + 1].recs)
          /\ list'[m + 1].recs[1] = rec
      BY <2>3, <2>4
    <3> QED
      BY <3>1, WaitingIs
  <2>7. ASSUME NEW r \in Waiting', r # rec.stamp PROVE r \in Waiting
    <3>0. PICK k \in 1..m + 1 :
            \E i \in 1..Len(list'[k].recs) : r = list'[k].recs[i].stamp
      BY <2>3, WaitingIs
    <3>1. PICK i \in 1..Len(list'[k].recs) : r = list'[k].recs[i].stamp
      BY <3>0
    <3>2. k # m + 1
      BY <2>3, <2>4, <2>7, <3>1
    <3>3. k \in 1..m /\ list'[k] = list[k]
      BY <2>3, <3>2
    <3> QED
      BY <1>0, <3>1, <3>3, WaitingIs
  <2> QED
    BY <2>5, <2>6, <2>7
<1> QED
  BY <1>1, <1>2

\* What TakeBuffer takes is the oldest of what waits, in order.
LEMMA TakeTakes ==
  ASSUME LogInv, TakeBuffer
  PROVE  Fifo!Take
<1>0. list \in Seq(Buffer) /\ Len(list) \in Nat /\ Len(list) # 0
  BY DEF LogInv, TInv, LogType, TakeBuffer
<1>1. /\ msg' = list[1].recs /\ Len(list') = Len(list) - 1
      /\ \A k \in 1..Len(list') : list'[k] = list[k + 1]
  BY <1>0 DEF TakeBuffer
<1>2. PICK recs \in Seq(Record) : recs = list[1].recs /\ recs # << >>
  <2>1. list[1] \in Buffer /\ 1 \in 1..Len(list)
    BY <1>0
  <2> QED
    BY <2>1 DEF Buffer, LogInv, BuffersFit
<1>3. PICK l \in Nat : l = Len(recs) /\ l >= 1
  BY <1>2
<1>4. ASSUME NEW k \in 1..Len(list), NEW i \in 1..Len(list[k].recs)
      PROVE  /\ <<k + 2, i>> \in Places
             /\ At(<<k + 2, i>>) = list[k].recs[i]
             /\ list[k].recs[i].stamp \in Nat
  <2>1. PICK x : x = <<k + 2, i>>
    OBVIOUS
  <2>2. x[1] = k + 2 /\ x[2] = i /\ x = <<x[1], x[2]>>
    BY <2>1
  <2>3. Batch(k + 2) = list[k].recs
    BY <1>0 DEF Batch
  <2>4. x \in Places /\ At(x) = list[k].recs[i]
    BY <1>0, <2>2, <2>3, InPlaces DEF At
  <2>5. At(x).stamp \in Nat
    BY <2>4, PlaceTyped DEF LogInv
  <2> QED
    BY <2>1, <2>4, <2>5
<1>5. ASSUME NEW k \in 1..Len(list), NEW i \in 1..Len(list[k].recs),
             NEW n \in 1..Len(list), NEW j \in 1..Len(list[n].recs),
             k < n \/ (k = n /\ i < j)
      PROVE  list[k].recs[i].stamp < list[n].recs[j].stamp
  <2>1. PICK x, y : x = <<k + 2, i>> /\ y = <<n + 2, j>>
    OBVIOUS
  <2>2. /\ x \in Places /\ At(x) = list[k].recs[i]
        /\ y \in Places /\ At(y) = list[n].recs[j]
    BY <1>4, <2>1
  <2>3. Sooner(x, y)
    BY <1>0, <1>5, <2>1 DEF Sooner
  <2> QED
    BY <2>2, <2>3 DEF LogInv, OrderInv, StampInv
<1>6. PICK newest : newest = recs[l].stamp
  OBVIOUS
<1>7. newest \in Waiting /\ newest \in Nat
  <2>1. 1 \in 1..Len(list) /\ l \in 1..Len(list[1].recs)
    BY <1>0, <1>2, <1>3
  <2> QED
    BY <1>2, <1>4, <1>6, <2>1, WaitingIs
<1>8. ASSUME NEW i \in 1..l
      PROVE  recs[i].stamp \in Waiting /\ recs[i].stamp <= newest /\ recs[i].stamp \in Nat
  <2>1. /\ 1 \in 1..Len(list) /\ i \in 1..Len(list[1].recs) /\ l \in 1..Len(list[1].recs)
        /\ list[1].recs[i] = recs[i] /\ list[1].recs[l] = recs[l]
    BY <1>0, <1>2, <1>3
  <2>2. recs[i].stamp \in Waiting /\ recs[i].stamp \in Nat
    BY <1>4, <2>1, WaitingIs
  <2>3. i < l => recs[i].stamp < newest
    BY <1>5, <1>6, <2>1
  <2> QED
    BY <1>6, <1>7, <2>2, <2>3
<1>9. \A i, j \in 1..l : i < j => recs[i].stamp < recs[j].stamp
  <2>1. 1 \in 1..Len(list) /\ l = Len(list[1].recs) /\ list[1].recs = recs
    BY <1>0, <1>2, <1>3
  <2> QED
    BY <1>5, <2>1
<1>10. Waiting' = {r \in Waiting : r > newest}
  <2>1. ASSUME NEW r \in Waiting' PROVE r \in Waiting /\ r > newest
    <3>0. PICK k \in 1..Len(list') :
            \E i \in 1..Len(list'[k].recs) : r = list'[k].recs[i].stamp
      BY WaitingIs
    <3>1. PICK i \in 1..Len(list'[k].recs) : r = list'[k].recs[i].stamp
      BY <3>0
    <3>2. k + 1 \in 1..Len(list) /\ list'[k] = list[k + 1] /\ 1 < k + 1
      BY <1>0, <1>1, <3>1
    <3>3. 1 \in 1..Len(list) /\ l \in 1..Len(list[1].recs) /\ list[1].recs[l].stamp = newest
      BY <1>0, <1>2, <1>3, <1>6
    <3>4. newest < r
      BY <1>5, <3>1, <3>2, <3>3
    <3>5. r \in Waiting /\ r \in Nat
      BY <1>4, <3>1, <3>2, WaitingIs
    <3> QED
      BY <1>7, <3>4, <3>5
  <2>2. ASSUME NEW r \in Waiting, r > newest PROVE r \in Waiting'
    <3>0. PICK k \in 1..Len(list) :
            \E i \in 1..Len(list[k].recs) : r = list[k].recs[i].stamp
      BY WaitingIs
    <3>1. PICK i \in 1..Len(list[k].recs) : r = list[k].recs[i].stamp
      BY <3>0
    <3>2. k # 1
      <4>1. ASSUME k = 1 PROVE FALSE
        <5>1. i \in 1..l /\ r = recs[i].stamp
          BY <1>2, <1>3, <3>1, <4>1
        <5> QED
          BY <1>7, <1>8, <2>2, <5>1
      <4> QED
        BY <4>1
    <3>3. k - 1 \in 1..Len(list') /\ list'[k - 1] = list[k]
      <4>1. k - 1 \in 1..Len(list') /\ k - 1 + 1 = k
        BY <1>0, <1>1, <3>2
      <4> QED
        BY <1>1, <4>1
    <3> QED
      BY <3>1, <3>3, WaitingIs
  <2> QED
    BY <2>1, <2>2
<1>11. /\ Len(Stamps(msg)') = l
       /\ \A i \in 1..l : Stamps(msg)'[i] = recs[i].stamp
  BY <1>1, <1>2, <1>3 DEF Stamps
<1>12. {r \in Waiting : r <= newest} = {Stamps(msg)'[i] : i \in 1..l}
  <2>1. ASSUME NEW r \in Waiting, r <= newest PROVE \E i \in 1..l : r = recs[i].stamp
    <3>0. PICK k \in 1..Len(list) :
            \E i \in 1..Len(list[k].recs) : r = list[k].recs[i].stamp
      BY WaitingIs
    <3>1. PICK i \in 1..Len(list[k].recs) : r = list[k].recs[i].stamp
      BY <3>0
    <3>2. CASE k = 1
      BY <1>2, <1>3, <3>1, <3>2
    <3>3. CASE k # 1
      <4>1. 1 \in 1..Len(list) /\ l \in 1..Len(list[1].recs)
            /\ list[1].recs[l].stamp = newest /\ 1 < k
        BY <1>0, <1>2, <1>3, <1>6, <3>3
      <4>2. newest < r /\ r \in Nat
        BY <1>4, <1>5, <3>1, <4>1
      <4> QED
        BY <1>7, <2>1, <4>2
    <3> QED
      BY <3>2, <3>3
  <2> QED
    BY <1>8, <1>11, <2>1
<1>13. Stamps(msg) = << >>
  <2>1. msg = << >>
    BY DEF LogInv, MsgInv, TakeBuffer
  <2> QED
    BY <2>1 DEF Stamps
<1>14. written' = written /\ Stamps(delivered)' = Stamps(delivered)
  BY DEF TakeBuffer, Stamps
<1>15. Fifo!Lists(Stamps(msg)', {r \in Waiting : r <= newest})
  BY <1>9, <1>11, <1>12 DEF Fifo!Lists
<1> QED
  BY <1>7, <1>10, <1>13, <1>14, <1>15 DEF Fifo!Take

\* Every step of the log is a step of the queue, or none it can see.
LEMMA FifoInit == Init => Fifo!Init
<1> SUFFICES ASSUME Init PROVE Fifo!Init
  OBVIOUS
<1>1. Waiting = {} /\ Stamps(msg) = << >> /\ Stamps(delivered) = << >>
  BY DEF Init, Waiting, Stamps
<1> QED
  BY <1>1 DEF Init, Fifo!Init

LEMMA FifoStep ==
  ASSUME LogInv, [Next]_vars
  PROVE  [Fifo!Next]_(Fifo!fvars)
<1>0. /\ TInv /\ list \in Seq(Buffer) /\ written \in Nat
      /\ msg \in Seq(Record) /\ delivered \in Seq(Record)
  BY DEF LogInv, TInv, LogType, SenderType, ClientType
<1>1. ASSUME UNCHANGED <<written, list, msg, delivered>>
      PROVE  UNCHANGED Fifo!fvars
  BY <1>1 DEF Fifo!fvars, Waiting, Stamps
<1>2. ASSUME NEW w \in Writers, NEW k \in {"pre", "post"}, NEW s \in Nat, Reserve(w, k, s)
      PROVE  Fifo!Write
  <2> DEFINE rec == [stamp |-> written + 1, kind |-> k, seq |-> s]
  <2>1. rec \in Record /\ rec.stamp = written + 1
    BY <1>0 DEF Record
  <2>2. PICK n \in Sizes : list' = Stored(rec, n)
    BY <1>2 DEF Reserve
  <2> HIDE DEF rec
  <2>3. Waiting' = Waiting \union {written + 1}
    BY <1>0, <2>1, <2>2, ReserveWrites
  <2>4. written' = written + 1 /\ Stamps(msg)' = Stamps(msg)
        /\ Stamps(delivered)' = Stamps(delivered)
    BY <1>2 DEF Reserve, tvars, Stamps
  <2> QED
    BY <2>3, <2>4 DEF Fifo!Write
<1>3. ASSUME NEW w \in Writers, WriterStep(w)
      PROVE  Fifo!Write \/ UNCHANGED <<written, list, msg, delivered>>
  <2>1. CASE ReservePre(w)
    <3>1. Reserve(w, "pre", recSeq + 1) /\ recSeq + 1 \in Nat
      BY <1>0, <2>1 DEF ReservePre, TInv, LogType
    <3> QED
      BY <1>2, <3>1
  <2>2. CASE ReservePost(w)
    <3>1. PICK s \in pending : Reserve(w, "post", s)
      BY <2>2 DEF ReservePost
    <3>2. s \in Nat
      BY <1>0, <3>1 DEF TInv, LogType, WriterType
    <3> QED
      BY <1>2, <3>1, <3>2
  <2> QED
    BY <1>3, <2>1, <2>2
    DEF WriterStep, EnterPre, RefusePre, RefusePost, Notify, Release, lvars, tvars
<1>4. ASSUME TakeBuffer PROVE Fifo!Take
  BY <1>4, TakeTakes
<1>5. ASSUME SendCompletes \/ SendFails PROVE Fifo!Deliver \/ Fifo!Lose
  <2>1. msg # << >> /\ msg' = << >> /\ list' = list /\ written' = written
    BY <1>5 DEF SendCompletes, SendFails, AfterSend, LogInv, MsgInv, lvars
  <2>2. Stamps(msg) # << >> /\ Stamps(msg)' = << >>
    <3>1. Len(msg) # 0 /\ Len(Stamps(msg)) = Len(msg)
      BY <1>0, <2>1 DEF Stamps
    <3>2. Stamps(msg)' = << >>
      BY <2>1 DEF Stamps
    <3> QED
      BY <3>1, <3>2
  <2>3. Waiting' = Waiting
    BY <2>1 DEF Waiting
  <2>4. CASE delivered' = delivered \o msg
    <3>1. PICK d \in Nat, l \in Nat : d = Len(delivered) /\ l = Len(msg)
      BY <1>0
    <3>2. /\ Len(delivered \o msg) = d + l
          /\ \A i \in 1..d : (delivered \o msg)[i] = delivered[i]
          /\ \A i \in 1..d + l : i > d => (delivered \o msg)[i] = msg[i - d]
      BY <1>0, <3>1
    <3>3. Stamps(delivered)' = Stamps(delivered) \o Stamps(msg)
      <4>1. Stamps(delivered)' = [i \in 1..d + l |-> (delivered \o msg)[i].stamp]
        BY <2>4, <3>2 DEF Stamps
      <4>2. Stamps(delivered) = [i \in 1..d |-> delivered[i].stamp]
        BY <3>1 DEF Stamps
      <4>3. Stamps(msg) = [i \in 1..l |-> msg[i].stamp]
        BY <3>1 DEF Stamps
      <4>4. ASSUME NEW i \in 1..d + l
            PROVE  (delivered \o msg)[i].stamp
                     = (IF i <= d THEN delivered[i].stamp ELSE msg[i - d].stamp)
        BY <3>2
      <4>5. [i \in 1..d |-> delivered[i].stamp] \o [i \in 1..l |-> msg[i].stamp]
              = [i \in 1..d + l |-> IF i <= d THEN delivered[i].stamp ELSE msg[i - d].stamp]
        BY <3>1
      <4> QED
        BY <4>1, <4>2, <4>3, <4>4, <4>5
    <3> QED
      BY <2>1, <2>2, <2>3, <3>3 DEF Fifo!Deliver
  <2>5. CASE delivered' = delivered
    <3>1. Stamps(delivered)' = Stamps(delivered)
      BY <2>5 DEF Stamps
    <3> QED
      BY <2>1, <2>2, <2>3, <3>1 DEF Fifo!Lose
  <2> QED
    BY <1>5, <2>4, <2>5 DEF SendCompletes, SendFails
<1>6. ASSUME StopDiscard PROVE Fifo!Discard \/ UNCHANGED Fifo!fvars
  <2>1. list' = << >> /\ UNCHANGED <<written, msg, delivered>>
    BY <1>6 DEF StopDiscard, tvars
  <2>2. Waiting' = {}
    BY <2>1 DEF Waiting
  <2>3. Stamps(msg)' = Stamps(msg) /\ Stamps(delivered)' = Stamps(delivered)
    BY <2>1 DEF Stamps
  <2>4. CASE Waiting = {}
    BY <2>1, <2>2, <2>3, <2>4 DEF Fifo!fvars
  <2>5. CASE Waiting # {}
    BY <2>1, <2>2, <2>3, <2>5 DEF Fifo!Discard
  <2> QED
    BY <2>4, <2>5
<1>7. ASSUME SenderStep \/ ControlStep \/ UNCHANGED vars,
             ~TakeBuffer, ~SendCompletes, ~SendFails, ~StopDiscard
      PROVE  UNCHANGED <<written, list, msg, delivered>>
  BY <1>7 DEF SenderStep, ControlStep, TimerExpires, DpcRuns, ThreadWakes, FindEmpty,
     Connect, ControlOn, StartCancelTimer, StartResetReady, StartResetFinish,
     ControlOff, StopFlags, ReceiverStops, lvars, tvars, vars
<1> QED
  BY <1>1, <1>3, <1>4, <1>5, <1>6, <1>7 DEF Next, Fifo!Next

\* The log is the queue LogFifo describes: what is written leaves in whole
\* prefixes, in order and at most once, whatever is lost or discarded on the way
\* (ProcessLogDataWithCallback, FltSendMessage, ProcmonCleanupWriteState).
THEOREM LogIsFifo == Spec => ImplementsFifo
<1>1. LogInv /\ [Next]_vars => [Fifo!Next]_(Fifo!fvars)
  BY FifoStep
<1> QED
  BY <1>1, FifoInit, LogHolds, PTL DEF Spec, ImplementsFifo, Fifo!Spec

=============================================================================
