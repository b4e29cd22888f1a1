------------------------------ MODULE Pipeline ------------------------------
(***************************************************************************)
(* A capture session of the SDK: MonitorController::start and stop         *)
(* (crates/sdk/src/monitor.rs), the two threads of Pipeline (pipeline.rs)  *)
(* and the receive of FilterPort (port.rs).                                *)
(*                                                                         *)
(*   driver --wire--> receive thread --channel A--> parse thread --B-->    *)
(*   ETW session ----------- network channel ----------^                   *)
(*                                                                         *)
(* The parse thread runs the Correlator, whose actions this module         *)
(* composes with the threads.  The controller's start and stop are split   *)
(* where they call out: the driver answers the control message, the ETW    *)
(* session is joined, then the receive thread, then the parse thread.      *)
(***************************************************************************)
EXTENDS Correlator

CONSTANTS
  ACap,        (* CHANNEL_A_CAP: batches in flight                        *)
  MaxBatch,    (* bound: records of a driver message                      *)
  MaxOps,      (* bound: operations the driver reports                    *)
  MaxNet,      (* bound: network events                                   *)
  MaxStarts    (* bound: calls of start                                   *)

ASSUME PipelineAssumption ==
  /\ ACap \in Nat \ {0}
  /\ MaxBatch \in Nat \ {0}
  /\ MaxOps \in Nat
  /\ MaxNet \in Nat
  /\ MaxStarts \in Nat

VARIABLES
  (* the driver *)
  enabled,     (* the driver monitors                                     *)
  wire,        (* the message that waits in FltSendMessage, or << >>      *)
  nextSeq,     (* sequence of the latest PRE                              *)
  awaited,     (* operations whose POST is still to come                  *)
  unknown,     (* operations of processes the table does not know         *)
  (* the controller *)
  ctl,         (* where start and stop are                                *)
  stop,        (* the stop flag of the pipeline                           *)
  starts,      (* bound counter for MaxStarts                             *)
  (* the receive thread *)
  recv,        (* off, reading, got, exit                                 *)
  held,        (* the batch it carries                                    *)
  chanA,       (* channel A                                               *)
  received,    (* ghost: operations this session's receive thread queued  *)
  (* the ETW session *)
  netOn,       (* its consumer thread runs                                *)
  netQueue,    (* the network channel                                     *)
  netSent,     (* network events of this session                          *)
  netOpen,     (* the parse thread still selects on the channel           *)
  (* the parse thread *)
  parse,       (* off, run, exit                                          *)
  batch,       (* records of the batch still to be ingested               *)
  chanB        (* channel B, as its receiver sees it                      *)

driver == <<enabled, wire, nextSeq, awaited, unknown>>
ctlvars == <<ctl, stop, starts>>
recvvars == <<recv, held, chanA, received>>
netvars == <<netOn, netQueue, netSent, netOpen>>
parsevars == <<parse, batch, chanB>>
vars == <<corrvars, driver, ctlvars, recvvars, netvars, parsevars>>

Init ==
  /\ CorrInit
  /\ enabled = FALSE /\ wire = << >>
  /\ nextSeq = 0 /\ awaited = {} /\ unknown = {}
  /\ ctl = "off" /\ stop = FALSE /\ starts = 0
  /\ recv = "off" /\ held = << >> /\ chanA = << >> /\ received = {}
  /\ netOn = FALSE /\ netQueue = << >> /\ netSent = 0 /\ netOpen = FALSE
  /\ parse = "off" /\ batch = << >> /\ chanB = << >>

-----------------------------------------------------------------------------
(* The driver (KernelLog): it appends records to the message that waits for *)
(* the client.  Start times grow with the sequence.                         *)

Extend(rec) ==
  /\ enabled
  /\ Len(wire) < MaxBatch
  /\ wire' = Append(wire, rec)

Report ==
  /\ nextSeq < MaxOps
  /\ \E kind \in {"pending", "sync"} :
       /\ Extend([kind |-> kind, seq |-> nextSeq + 1])
       /\ awaited' = IF kind = "pending"
                     THEN awaited \union {nextSeq + 1} ELSE awaited
  /\ unknown' \in {unknown, unknown \union {nextSeq + 1}}
  /\ nextSeq' = nextSeq + 1
  /\ UNCHANGED <<corrvars, enabled, ctlvars, recvvars, netvars, parsevars>>

Complete ==
  /\ \E s \in awaited :
       /\ Extend([kind |-> "post", seq |-> s])
       /\ awaited' = awaited \ {s}
  /\ UNCHANGED <<corrvars, enabled, nextSeq, unknown, ctlvars, recvvars,
                 netvars, parsevars>>

-----------------------------------------------------------------------------
(* MonitorController.                                                      *)

\* start: the ETW session, a new pipeline with a new Correlator, its threads.
StartThreads ==
  /\ ctl = "off"
  /\ starts < MaxStarts
  /\ ctl' = "starting"
  /\ starts' = starts + 1
  /\ stop' = FALSE
  /\ recv' = "reading" /\ held' = << >> /\ chanA' = << >> /\ received' = {}
  /\ netOn' \in BOOLEAN
  /\ netOpen' = netOn'
  /\ netQueue' = << >> /\ netSent' = 0
  /\ parse' = "run" /\ batch' = << >> /\ chanB' = << >>
  /\ pending' = {} /\ reorder' = {} /\ ord' = 0
  /\ maxSeen' = 0 /\ watermark' = 0
  /\ out' = << >> /\ forced' = {} /\ phase' = "idle"
  /\ UNCHANGED driver

\* The control message enables the driver or fails; the threads run on.
StartControl ==
  /\ ctl = "starting"
  /\ ctl' = "on"
  /\ enabled' \in {enabled, TRUE}
  /\ UNCHANGED <<corrvars, wire, nextSeq, awaited, unknown, stop, starts,
                 recvvars, netvars, parsevars>>

\* stop: disable the driver, best effort; it discards what it has buffered,
\* not the message that already waits in FltSendMessage.
StopControl ==
  /\ ctl = "on"
  /\ ctl' = "stop_net"
  /\ enabled' \in {enabled, FALSE}
  /\ UNCHANGED <<corrvars, wire, nextSeq, awaited, unknown, stop, starts,
                 recvvars, netvars, parsevars>>

\* NetworkMonitor::stop joins the consumer; its sender is dropped.
StopNetwork ==
  /\ ctl = "stop_net"
  /\ ctl' = "stop_recv"
  /\ netOn' = FALSE
  /\ stop' = TRUE
  /\ UNCHANGED <<corrvars, driver, starts, recvvars, netQueue, netSent,
                 netOpen, parsevars>>

JoinRecv ==
  /\ ctl = "stop_recv"
  /\ recv = "exit"
  /\ ctl' = "stop_parse"
  /\ UNCHANGED <<corrvars, driver, stop, starts, recvvars, netvars, parsevars>>

\* Slip: stop returns without joining the parse thread.
JoinNothing ==
  /\ ctl = "stop_parse"
  /\ ctl' = "off"
  /\ UNCHANGED <<corrvars, driver, stop, starts, recvvars, netvars, parsevars>>

JoinParse ==
  /\ ctl = "stop_parse"
  /\ parse = "exit"
  /\ ctl' = "off"
  /\ UNCHANGED <<corrvars, driver, stop, starts, recvvars, netvars, parsevars>>

-----------------------------------------------------------------------------
(* The receive thread.                                                     *)

\* The overlapped read completes with the driver's message.
RecvMessage ==
  /\ recv = "reading"
  /\ wire # << >>
  /\ held' = wire
  /\ wire' = << >>
  /\ recv' = "got"
  /\ UNCHANGED <<corrvars, enabled, nextSeq, awaited, unknown, ctlvars, chanA,
                 received, netvars, parsevars>>

\* Slip: the wait slice ends and the stop flag is not looked at.
RecvWaitsOn ==
  /\ recv = "reading"
  /\ stop
  /\ UNCHANGED vars

\* The wait slice ends and stop is set: the read is cancelled.  A message that
\* completed it after the wait is dropped with the buffer.
RecvCancel ==
  /\ recv = "reading"
  /\ stop
  /\ wire' \in {wire, << >>}
  /\ recv' = "exit"
  /\ UNCHANGED <<corrvars, enabled, nextSeq, awaited, unknown, ctlvars, held,
                 chanA, received, netvars, parsevars>>

\* The batch is queued, blocking while the channel is full, and only then does
\* the thread look at the stop flag.
SendBatch ==
  /\ recv = "got"
  /\ Len(chanA) < ACap
  /\ chanA' = Append(chanA, held)
  /\ received' = received \union
       {held[i].seq : i \in {j \in 1..Len(held) : held[j].kind # "post"}}
  /\ held' = << >>
  /\ recv' = IF stop THEN "exit" ELSE "reading"
  /\ UNCHANGED <<corrvars, driver, ctlvars, netvars, parsevars>>

-----------------------------------------------------------------------------
(* The ETW consumer and the parse thread.                                  *)

NetEmit ==
  /\ netOn
  /\ netSent < MaxNet
  /\ netSent' = netSent + 1
  /\ netQueue' = Append(netQueue, netSent + 1)
  /\ UNCHANGED <<corrvars, driver, ctlvars, recvvars, netOn, netOpen, parsevars>>

\* The parse thread is in its select.
Selecting == parse = "run" /\ phase = "idle" /\ batch = << >> /\ out = << >>

SelectBatch ==
  /\ Selecting
  /\ chanA # << >>
  /\ batch' = Head(chanA)
  /\ chanA' = Tail(chanA)
  /\ BeginBatch
  /\ UNCHANGED <<driver, ctlvars, recv, held, received, netvars, parse, chanB>>

SelectNet ==
  /\ Selecting
  /\ netOpen
  /\ netQueue # << >>
  /\ chanB' = Append(chanB, [net |-> Head(netQueue)])
  /\ netQueue' = Tail(netQueue)
  /\ UNCHANGED <<corrvars, driver, ctlvars, recvvars, netOn, netSent, netOpen,
                 parse, batch>>

\* The network channel ended: its branch is parked.
ParkNet ==
  /\ Selecting
  /\ netOpen /\ ~netOn /\ netQueue = << >>
  /\ netOpen' = FALSE
  /\ UNCHANGED <<corrvars, driver, ctlvars, recvvars, netOn, netQueue, netSent,
                 parsevars>>

\* Slip: the loop ends with the sender, batches still queued or not.
EndWithSender ==
  /\ Selecting
  /\ recv = "exit"
  /\ BeginFlush
  /\ UNCHANGED <<driver, ctlvars, recvvars, netvars, parsevars>>

\* Channel A is empty and its sender is gone: the loop ends, whatever the
\* network channel still holds.
SelectEnd ==
  /\ Selecting
  /\ recv = "exit"
  /\ chanA = << >>
  /\ BeginFlush
  /\ UNCHANGED <<driver, ctlvars, recvvars, netvars, parsevars>>

ParseRecord ==
  /\ phase = "ingest"
  /\ batch # << >>
  /\ LET r == Head(batch)
         op == [seq |-> r.seq, time |-> r.seq] IN
     \/ r.kind = "pending" /\ IngestPending(op)
     \/ r.kind = "sync" /\ IngestSync(op)
     \/ r.kind = "post" /\ IngestPost(r.seq)
  /\ batch' = Tail(batch)
  /\ UNCHANGED <<driver, ctlvars, recvvars, netvars, parse, chanB>>

ParseInternal ==
  /\ batch = << >>
  /\ CorrInternal
  /\ UNCHANGED <<driver, ctlvars, recvvars, netvars, parsevars>>

\* The next event of the vector.
TakeOut ==
  /\ out # << >>
  /\ out' = Tail(out)
  /\ UNCHANGED <<pending, reorder, ord, maxSeen, watermark, forced, phase>>

Known(e) == e.seq \notin unknown

\* handle_batch sends the events one by one and drops those of processes the
\* table does not know ...
Forward ==
  /\ parse = "run"
  /\ phase = "idle"
  /\ TakeOut
  /\ chanB' = IF Known(Head(out)) THEN Append(chanB, Head(out)) ELSE chanB
  /\ UNCHANGED <<driver, ctlvars, recvvars, netvars, parse, batch>>

\* ... and the tail of flush is forwarded whole ...
ForwardTail ==
  /\ parse = "run"
  /\ phase = "end"
  /\ TakeOut
  /\ chanB' = Append(chanB, Head(out))
  /\ UNCHANGED <<driver, ctlvars, recvvars, netvars, parse, batch>>

\* ... before the thread ends and drops channel B.
ParseEnds ==
  /\ parse = "run"
  /\ phase = "end"
  /\ out = << >>
  /\ parse' = "exit"
  /\ UNCHANGED <<corrvars, driver, ctlvars, recvvars, netvars, batch, chanB>>

-----------------------------------------------------------------------------
ControlStep ==
  StartThreads \/ StartControl \/ StopControl \/ StopNetwork
  \/ JoinRecv \/ JoinParse

RecvStep == RecvMessage \/ RecvCancel \/ SendBatch

ParseStep ==
  SelectBatch \/ SelectNet \/ ParkNet \/ SelectEnd
  \/ ParseRecord \/ ParseInternal \/ Forward \/ ForwardTail \/ ParseEnds

Next == Report \/ Complete \/ ControlStep \/ RecvStep \/ NetEmit \/ ParseStep

\* The threads are scheduled; a stop that was begun runs on.  Neither the
\* driver nor the caller of start and stop has to do anything.
Fairness ==
  /\ WF_vars(RecvCancel \/ SendBatch)
  /\ WF_vars(ParseStep)
  /\ WF_vars(StopNetwork \/ JoinRecv \/ JoinParse)

Spec == Init /\ [][Next]_vars /\ Fairness

-----------------------------------------------------------------------------
(* Properties.                                                             *)

\* Kernel events of channel B carry a sequence, network events do not.
Kernel(i) == "seq" \in DOMAIN chanB[i]
At(s) == {i \in 1..Len(chanB) : Kernel(i) /\ chanB[i].seq = s}

\* Once the parse thread has ended, every operation that went into channel A
\* is in channel B exactly once, unless its process is unknown: neither the
\* stop flag, nor the queued batches, nor an operation without completion, nor
\* a full channel loses one.
SessionComplete ==
  parse = "exit" => \A s \in received \ unknown : Cardinality(At(s)) = 1

\* The receiver of channel B sees kernel events in start-time order, across
\* batches and network events, but for those CAP forced out.
StreamInOrder ==
  \A i, j \in 1..Len(chanB) :
    i < j /\ Kernel(i) /\ Kernel(j) /\ chanB[i].time > chanB[j].time
      => chanB[i].seq \in forced

\* After stop has returned, nothing touches the stream, the port or the
\* Correlator until the next start: no thread outlives its session.
QuietAfterStop ==
  [][ctl = "off" /\ ctl' = "off" =>
       UNCHANGED <<chanB, corrvars, recvvars, netvars>>]_vars

\* stop returns: the receive thread leaves its read or its full channel, the
\* parse thread drains and ends.
StopReturns == ctl = "stop_net" ~> ctl = "off"

=============================================================================
