----------------------------- MODULE KernelLog -----------------------------
(***************************************************************************)
(* The log of the driver: kernel/log.c and the control path of             *)
(* kernel/procmon.c.                                                       *)
(*                                                                         *)
(* Intercepted operations run in the threads that issue them (Writers).    *)
(* Each appends a record to the last buffer of gLogListHead while it holds *)
(* gMutexLogList, which ProcmonGetLogBufferAndLock acquires and            *)
(* ProcmonNotifyProcessLog releases.  One system thread takes whole        *)
(* buffers off the head and sends them to the client.  It sleeps on        *)
(* gEventProcessData, which is set by a timer that the first writer arms   *)
(* or directly by the writer that pushes the head buffer past 0x10000.     *)
(* gbReady and gbFinish remember which of the two already happened.        *)
(*                                                                         *)
(* EnableLogger(TRUE) resets the timer and both flags WITHOUT the mutex;   *)
(* its steps and the two halves of ProcmonNotifyProcessLog are therefore   *)
(* separate actions.                                                       *)
(***************************************************************************)
EXTENDS Naturals, Sequences, FiniteSets, SequencesExt

CONSTANTS
  Writers,    (* threads whose operations are intercepted                 *)
  MaxLen,     (* MAX_PROCMON_MESSAGE_LEN: capacity of a buffer            *)
  WakeLen,    (* 0x10000: the head buffer length that wakes the thread    *)
  Sizes,      (* the lengths a record may have                            *)
  MaxRecs,    (* bound: records ever written                              *)
  MaxStarts,  (* bound: times monitoring is switched on                   *)
  Free        (* nobody holds gMutexLogList                               *)

ASSUME LogAssumption ==
  /\ Free \notin Writers
  /\ MaxLen \in Nat \ {0}
  /\ WakeLen \in 1..MaxLen
  /\ Sizes \subseteq 1..MaxLen
  /\ MaxRecs \in Nat
  /\ MaxStarts \in Nat

VARIABLES
  (* gMutexLogList and what it protects *)
  lock,       (* the writer that holds the mutex, or Free                 *)
  list,       (* gLogListHead: buffers [recs, len], oldest first          *)
  ready,      (* gbReady                                                  *)
  finish,     (* gbFinish                                                 *)
  recSeq,     (* gRecordSequence                                          *)
  written,    (* records written so far; its value stamps each record     *)
  (* the writers *)
  wpc,        (* where each writer is in the log entry protocol           *)
  wop,        (* the operation it is logging: [kind, seq]                 *)
  pending,    (* sequences of PRE records whose POST is still to come     *)
  (* timer, DPC, event and the sending thread *)
  timer,      (* gTimerProcessLogData is armed                            *)
  dpc,        (* its DPC is queued                                        *)
  event,      (* gEventProcessData is signalled                           *)
  thread,     (* ProcessDataThread                                        *)
  msg,        (* the records of the buffer in FltSendMessage              *)
  (* the client and the control path *)
  client,     (* gCurrentProcess # NULL                                   *)
  receiving,  (* the client's receive thread waits in FilterGetMessage    *)
  flags,      (* gFlags # 0                                               *)
  ctl,        (* where ProcmonControlProcMonitor is                       *)
  starts,     (* bound counter for MaxStarts                              *)
  delivered,  (* every record the client has received, in order           *)
  torn        (* ghost: the buffered records met an EnableLogger(TRUE)    *)

lvars == <<lock, list, ready, finish, recSeq, written>>
wvars == <<wpc, wop, pending>>
tvars == <<timer, dpc, event, thread, msg>>
cvars == <<client, receiving, flags, ctl, starts>>
vars  == <<lvars, wvars, tvars, cvars, delivered, torn>>

NoOp == [kind |-> "none", seq |-> 0]

\* The sending thread will come back to the list without anybody's help.
WakeupPending == timer \/ dpc \/ event \/ thread \in {"loop", "send"}

\* ProcmonControlProcMonitor is inside EnableLogger(TRUE).
Starting == ctl \in {"on_timer", "on_ready", "on_finish"}

Init ==
  /\ lock = Free
  /\ list = << >>
  /\ ready = FALSE
  /\ finish = FALSE
  /\ recSeq = 0
  /\ written = 0
  /\ wpc = [w \in Writers |-> "idle"]
  /\ wop = [w \in Writers |-> NoOp]
  /\ pending = {}
  /\ timer = FALSE
  /\ dpc = FALSE
  /\ event = FALSE
  /\ thread = "wait"
  /\ msg = << >>
  /\ client = FALSE
  /\ receiving = FALSE
  /\ flags = FALSE
  /\ ctl = "idle"
  /\ starts = 0
  /\ delivered = << >>
  /\ torn = FALSE

-----------------------------------------------------------------------------
(* Writers.                                                                *)

\* A pre-operation callback passes its gFlags check; it collects names and
\* process information before it asks for a log entry.
EnterPre(w) ==
  /\ wpc[w] = "idle"
  /\ flags
  /\ wpc' = [wpc EXCEPT ![w] = "entered"]
  /\ UNCHANGED <<lvars, wop, pending, tvars, cvars, delivered, torn>>

\* The list after a record of n bytes went into its last buffer, or into a
\* new one when it does not fit.
\* (FitsLastSlack is the slip that counts one unit too many.)
FitsLastSlack(n) == list # << >> /\ MaxLen - Last(list).len >= n - 1

FitsLast(n) == list # << >> /\ MaxLen - Last(list).len >= n

Stored(rec, n) ==
  IF FitsLast(n)
  THEN [list EXCEPT ![Len(list)] =
          [recs |-> Append(@.recs, rec), len |-> @.len + n]]
  ELSE Append(list, [recs |-> <<rec>>, len |-> n])

\* ProcmonGetLogEntryAndInit: take the mutex, reserve room, fill the header.
\* The mutex stays held.
Reserve(w, kind, s) ==
  /\ lock = Free
  /\ written < MaxRecs
  /\ lock' = w
  /\ \E n \in Sizes :
       list' = Stored([stamp |-> written + 1, kind |-> kind, seq |-> s], n)
  /\ written' = written + 1
  /\ wop' = [wop EXCEPT ![w] = [kind |-> kind, seq |-> s]]
  /\ wpc' = [wpc EXCEPT ![w] = "filled"]
  /\ torn' = (torn \/ Starting)
  /\ UNCHANGED <<ready, finish, tvars, cvars, delivered>>

\* Slip: the sequence is only read, as NOTIFY_PROCESS_INIT records do.
ReservePreUndrawn(w) ==
  /\ wpc[w] = "entered"
  /\ Reserve(w, "pre", recSeq)
  /\ UNCHANGED <<recSeq, pending>>

\* A PRE record draws the next sequence under the mutex.
ReservePre(w) ==
  /\ wpc[w] = "entered"
  /\ Reserve(w, "pre", recSeq + 1)
  /\ recSeq' = recSeq + 1
  /\ UNCHANGED pending

\* Slip: the completion context survives the completion.
ReservePostAgain(w) ==
  /\ wpc[w] = "idle"
  /\ \E s \in pending : Reserve(w, "post", s)
  /\ UNCHANGED <<recSeq, pending>>

\* A post-operation callback (or its work item) repeats the sequence of its
\* PRE, which it received as completion context.  It does not look at gFlags.
ReservePost(w) ==
  /\ wpc[w] = "idle"
  /\ \E s \in pending :
       /\ Reserve(w, "post", s)
       /\ pending' = pending \ {s}
  /\ UNCHANGED recSeq

\* The entry is refused when a new buffer is needed and the oldest one has
\* waited longer than gWriteFileFrqs, or the allocation fails: the operation
\* leaves no record, and a refused PRE asks for no post-operation.
CanRefuse == lock = Free /\ \E n \in Sizes : ~FitsLast(n)

RefusePre(w) ==
  /\ wpc[w] = "entered"
  /\ CanRefuse
  /\ wpc' = [wpc EXCEPT ![w] = "idle"]
  /\ UNCHANGED <<lvars, wop, pending, tvars, cvars, delivered, torn>>

RefusePost(w) ==
  /\ wpc[w] = "idle"
  /\ CanRefuse
  /\ \E s \in pending : pending' = pending \ {s}
  /\ UNCHANGED <<lvars, wpc, wop, tvars, cvars, delivered, torn>>

\* ProcmonNotifyProcessLog up to the assignment of gbReady.
WakeNow == ~finish /\ Len(list) = 1 /\ list[1].len > WakeLen

\* Slip: the writer that crosses WakeLen cancels the timer and sets gbFinish
\* but does not signal the event.
NotifySilent(w) ==
  /\ wpc[w] = "filled"
  /\ wpc' = [wpc EXCEPT ![w] = "notified"]
  /\ timer' = (ready => timer /\ ~WakeNow)
  /\ finish' = (finish \/ (ready /\ WakeNow))
  /\ UNCHANGED <<lock, list, ready, recSeq, written, wop, pending,
                 dpc, event, thread, msg, cvars, delivered, torn>>

Notify(w) ==
  /\ wpc[w] = "filled"
  /\ wpc' = [wpc EXCEPT ![w] = "notified"]
  /\ \/ /\ ready
        /\ WakeNow
        /\ timer' = FALSE
        /\ event' = TRUE
        /\ finish' = TRUE
     \/ /\ ready
        /\ ~WakeNow
        /\ UNCHANGED <<timer, event, finish>>
     \/ /\ ~ready
        /\ timer' = TRUE
        /\ UNCHANGED <<event, finish>>
  /\ UNCHANGED <<lock, list, ready, recSeq, written, wop, pending,
                 dpc, thread, msg, cvars, delivered, torn>>

\* gbReady = TRUE and the release of the mutex.  A pre-operation then hands
\* its sequence to the post-operation as completion context.
Release(w) ==
  /\ wpc[w] = "notified"
  /\ ready' = TRUE
  /\ lock' = Free
  /\ pending' = IF wop[w].kind = "pre"
                THEN pending \union {wop[w].seq} ELSE pending
  /\ wpc' = [wpc EXCEPT ![w] = "idle"]
  /\ wop' = [wop EXCEPT ![w] = NoOp]
  /\ UNCHANGED <<list, finish, recSeq, written, tvars, cvars, delivered, torn>>

-----------------------------------------------------------------------------
(* Timer, DPC and the sending thread.                                      *)

TimerExpires ==
  /\ timer
  /\ timer' = FALSE
  /\ dpc' = TRUE
  /\ UNCHANGED <<lvars, wvars, event, thread, msg, cvars, delivered, torn>>

\* ProcessDataDpcRoutine
DpcRuns ==
  /\ dpc
  /\ dpc' = FALSE
  /\ event' = TRUE
  /\ UNCHANGED <<lvars, wvars, timer, thread, msg, cvars, delivered, torn>>

\* ProcessDataThread: the synchronisation event resets itself as it wakes.
ThreadWakes ==
  /\ thread = "wait"
  /\ event
  /\ event' = FALSE
  /\ thread' = "loop"
  /\ UNCHANGED <<lvars, wvars, timer, dpc, msg, cvars, delivered, torn>>

\* Slips: the flags are not reset with the last buffer; the head is unlinked
\* without the mutex; the newest buffer goes first.
TakeKeepsReady ==
  /\ thread = "loop"
  /\ lock = Free
  /\ list # << >>
  /\ msg' = Head(list).recs
  /\ list' = Tail(list)
  /\ thread' = IF Len(list) = 1 THEN "send_last" ELSE "send"
  /\ event' = (event /\ Len(list) > 1)
  /\ UNCHANGED <<ready, finish, torn>>
  /\ UNCHANGED <<lock, recSeq, written, wvars, timer, dpc, cvars, delivered>>

TakeUnlocked ==
  /\ thread = "loop"
  /\ list # << >>
  /\ msg' = Head(list).recs
  /\ list' = Tail(list)
  /\ thread' = "send"
  /\ UNCHANGED <<ready, finish, event, torn>>
  /\ UNCHANGED <<lock, recSeq, written, wvars, timer, dpc, cvars, delivered>>

TakeNewest ==
  /\ thread = "loop"
  /\ lock = Free
  /\ list # << >>
  /\ msg' = Last(list).recs
  /\ list' = Front(list)
  /\ thread' = "send"
  /\ UNCHANGED <<ready, finish, event, torn>>
  /\ UNCHANGED <<lock, recSeq, written, wvars, timer, dpc, cvars, delivered>>

\* ProcessLogDataWithCallback up to the release of the mutex: take the head
\* buffer; with nothing behind it, clear the flags and the event and report
\* the end of the list.
TakeBuffer ==
  /\ thread = "loop"
  /\ lock = Free
  /\ list # << >>
  /\ msg' = Head(list).recs
  /\ list' = Tail(list)
  /\ IF Len(list) = 1
     THEN /\ ready' = FALSE
          /\ finish' = FALSE
          /\ event' = FALSE
          /\ torn' = FALSE
          /\ thread' = "send_last"
     ELSE /\ thread' = "send"
          /\ UNCHANGED <<ready, finish, event, torn>>
  /\ UNCHANGED <<lock, recSeq, written, wvars, timer, dpc, cvars, delivered>>

FindEmpty ==
  /\ thread = "loop"
  /\ lock = Free
  /\ list = << >>
  /\ ready' = FALSE
  /\ finish' = FALSE
  /\ event' = FALSE
  /\ torn' = FALSE
  /\ thread' = "wait"
  /\ UNCHANGED <<lock, list, recSeq, written, wvars, timer, dpc, msg, cvars,
                 delivered>>

\* FltSendMessage returns: the client took the message, or its port is gone
\* and the message is lost.  The result is not looked at.
AfterSend ==
  /\ msg' = << >>
  /\ thread' = IF thread = "send" THEN "loop" ELSE "wait"
  /\ UNCHANGED <<lvars, wvars, timer, dpc, event, cvars, torn>>

SendCompletes ==
  /\ thread \in {"send", "send_last"}
  /\ client /\ receiving
  /\ delivered' = delivered \o msg
  /\ AfterSend

SendFails ==
  /\ thread \in {"send", "send_last"}
  /\ ~client
  /\ UNCHANGED delivered
  /\ AfterSend

-----------------------------------------------------------------------------
(* The client and the control path.                                        *)

\* FltConnectNotify for the monitoring port: refused while gCurrentProcess
\* is set.  SetMessageProcessor signals the event.  While gFlags is still set,
\* ProcmonProcessExitOff first waits for the file of the boot log, which is
\* not modelled.
Connect ==
  /\ ~client
  /\ ~flags
  /\ starts < MaxStarts
  /\ client' = TRUE
  /\ event' = TRUE
  /\ UNCHANGED <<lvars, wvars, timer, dpc, thread, msg,
                 receiving, flags, ctl, starts, delivered, torn>>

\* The client starts its receive thread, then sends the control flags.
\* Control messages are handled one after the other.
ControlOn ==
  /\ client
  /\ ~receiving
  /\ ctl = "idle"
  /\ starts < MaxStarts
  /\ starts' = starts + 1
  /\ receiving' = TRUE
  /\ ctl' = "on_timer"
  /\ UNCHANGED <<lvars, wvars, tvars, client, flags, delivered, torn>>

\* EnableLogger(TRUE): KeCancelTimer, gbReady = FALSE, gbFinish = FALSE.
Exposed == list # << >> \/ lock # Free

StartCancelTimer ==
  /\ ctl = "on_timer"
  /\ timer' = FALSE
  /\ ctl' = "on_ready"
  /\ torn' = (torn \/ Exposed)
  /\ UNCHANGED <<lvars, wvars, dpc, event, thread, msg,
                 client, receiving, flags, starts, delivered>>

StartResetReady ==
  /\ ctl = "on_ready"
  /\ ready' = FALSE
  /\ ctl' = "on_finish"
  /\ torn' = (torn \/ Exposed)
  /\ UNCHANGED <<lock, list, finish, recSeq, written, wvars, tvars,
                 client, receiving, flags, starts, delivered>>

\* gbFinish = FALSE, the notify routines are registered, gFlags = Flags.
StartResetFinish ==
  /\ ctl = "on_finish"
  /\ finish' = FALSE
  /\ ctl' = "idle"
  /\ flags' = TRUE
  /\ torn' = (torn \/ Exposed)
  /\ UNCHANGED <<lock, list, ready, recSeq, written, wvars, tvars,
                 client, receiving, starts, delivered>>

\* CTL_MONITOR_ALL_CLOSE from the client, or the client's port closes and
\* FltDisconnectNotify switches monitoring off after clearing gCurrentProcess.
\* Neither asks whether monitoring is on.
ControlOff ==
  /\ client
  /\ ctl = "idle"
  /\ ctl' = "off_discard"
  /\ client' \in BOOLEAN
  /\ receiving' = (receiving /\ client')
  /\ UNCHANGED <<lvars, wvars, tvars, flags, starts, delivered, torn>>

\* EnableLogger(FALSE) frees the buffers under the mutex; the flags, the
\* timer and the event keep their state.
StopDiscard ==
  /\ ctl = "off_discard"
  /\ lock = Free
  /\ list' = << >>
  /\ ctl' = "off_flags"
  /\ UNCHANGED <<lock, ready, finish, recSeq, written, wvars, tvars,
                 client, receiving, flags, starts, delivered, torn>>

\* gFlags = 0 comes last.
StopFlags ==
  /\ ctl = "off_flags"
  /\ flags' = FALSE
  /\ ctl' = "idle"
  /\ UNCHANGED <<lvars, wvars, tvars, client, receiving, starts,
                 delivered, torn>>

\* The client joins its receive thread after the control message returned.
ReceiverStops ==
  /\ receiving
  /\ ~flags
  /\ ctl = "idle"
  /\ receiving' = FALSE
  /\ UNCHANGED <<lvars, wvars, tvars, client, flags, ctl, starts,
                 delivered, torn>>

-----------------------------------------------------------------------------
WriterStep(w) ==
  \/ EnterPre(w) \/ ReservePre(w) \/ RefusePre(w)
  \/ ReservePost(w) \/ RefusePost(w)
  \/ Notify(w) \/ Release(w)

SenderStep ==
  TimerExpires \/ DpcRuns \/ ThreadWakes \/ TakeBuffer \/ FindEmpty
  \/ SendCompletes \/ SendFails

ControlStep ==
  Connect \/ ControlOn \/ StartCancelTimer \/ StartResetReady \/ StartResetFinish
  \/ ControlOff \/ StopDiscard \/ StopFlags \/ ReceiverStops

Next == (\E w \in Writers : WriterStep(w)) \/ SenderStep \/ ControlStep

\* A thread inside the mutex runs on (fast mutexes disable APCs), an armed
\* timer expires, DPCs and the system thread are scheduled, and the message
\* the client waits for arrives.  Control calls are the client's choice.
Fairness ==
  /\ \A w \in Writers : WF_vars(Notify(w) \/ Release(w))
  /\ WF_vars(TimerExpires)
  /\ WF_vars(DpcRuns)
  /\ WF_vars(ThreadWakes)
  /\ SF_vars(TakeBuffer \/ FindEmpty)
  /\ WF_vars(SendCompletes \/ SendFails)

Spec == Init /\ [][Next]_vars /\ Fairness

-----------------------------------------------------------------------------
(* Properties.                                                             *)

\* Once the mutex is free, buffered records are never left without anything
\* that will bring the sending thread back to them: the timer, its DPC, the
\* event, or the thread itself.  The only way to lose the wake-up is an
\* EnableLogger(TRUE) that overlaps records or a writer (gbReady, gbFinish and
\* the timer are reset there without gMutexLogList).
NoLostWakeup ==
  list # << >> /\ lock = Free /\ ~torn => WakeupPending

\* The thread that sends never frees or sends a buffer a writer still fills:
\* from the reservation to the release, the writer's record is the last one
\* of the last buffer of the list.
WriterOwnsTail ==
  \A w \in Writers :
    wpc[w] \in {"filled", "notified"} =>
      /\ lock = w
      /\ list # << >>
      /\ Last(Last(list).recs).seq = wop[w].seq
      /\ Last(Last(list).recs).stamp = written

\* No buffer grows past the length the client's receive buffer has, and the
\* length the message header carries counts only reserved records.
BuffersFit ==
  \A i \in 1..Len(list) : list[i].recs # << >> /\ list[i].len \in 1..MaxLen

\* All records there are, in the order in which the client receives them: those
\* it has, those of the message on its way, those of the buffers.
Batch(k) == CASE k = 1 -> delivered
              [] k = 2 -> msg
              [] OTHER -> list[k - 2].recs

Places == UNION {{k} \X (1..Len(Batch(k))) : k \in 1..Len(list) + 2}
At(x) == Batch(x[1])[x[2]]
Sooner(x, y) == x[1] < y[1] \/ (x[1] = y[1] /\ x[2] < y[2])

\* A POST never overtakes its PRE in what the client receives, and an
\* operation completes at most once: user mode pairs them by sequence.
PostFollowsPre ==
  \A x, y \in Places :
    Sooner(x, y) /\ At(x).seq = At(y).seq => At(x).kind = "pre" /\ At(y).kind = "post"

\* While anything is buffered the sending thread comes back and takes the
\* oldest buffer, unless its wake-up was torn by an EnableLogger(TRUE): a
\* trickle of records too small to fill a buffer is still delivered.
BufferedIsTaken ==
  list # << >> ~> list = << >> \/ thread \in {"send", "send_last"} \/ torn

\* The log implements the first-in first-out queue of LogFifo.
Stamps(recs) == [i \in 1..Len(recs) |-> recs[i].stamp]
Waiting == UNION {{list[k].recs[i].stamp : i \in 1..Len(list[k].recs)} : k \in 1..Len(list)}

Fifo == INSTANCE LogFifo WITH
  waiting   <- Waiting,
  sending   <- Stamps(msg),
  delivered <- Stamps(delivered)

ImplementsFifo == Fifo!Spec

-----------------------------------------------------------------------------
Record == [stamp : Nat, kind : {"pre", "post"}, seq : Nat]
Buffer == [recs : Seq(Record), len : Nat]

LogType ==
  /\ lock \in Writers \union {Free}
  /\ list \in Seq(Buffer)
  /\ ready \in BOOLEAN
  /\ finish \in BOOLEAN
  /\ recSeq \in Nat
  /\ written \in Nat

WriterType ==
  /\ wpc \in [Writers -> {"idle", "entered", "filled", "notified"}]
  /\ wop \in [Writers -> [kind : {"none", "pre", "post"}, seq : Nat]]
  /\ pending \in SUBSET (1..recSeq)

SenderType ==
  /\ timer \in BOOLEAN
  /\ dpc \in BOOLEAN
  /\ event \in BOOLEAN
  /\ thread \in {"wait", "loop", "send", "send_last"}
  /\ msg \in Seq(Record)

ClientType ==
  /\ client \in BOOLEAN
  /\ receiving \in BOOLEAN
  /\ flags \in BOOLEAN
  /\ ctl \in {"idle", "on_timer", "on_ready", "on_finish",
              "off_discard", "off_flags"}
  /\ starts \in Nat
  /\ delivered \in Seq(Record)
  /\ torn \in BOOLEAN

TypeOK == LogType /\ WriterType /\ SenderType /\ ClientType

=============================================================================
