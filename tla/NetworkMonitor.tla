--------------------------- MODULE NetworkMonitor ---------------------------
(***************************************************************************)
(* The network events of a live capture (crates/sdk/src/network.rs): what   *)
(* the callback of the ETW session makes of its records.  An event waits in *)
(* a window for its stack, which comes in records of its own, the kernel's  *)
(* part and the user's part in either order, between those of other events. *)
(*                                                                          *)
(* A record is [provider, opcode, time, data].  The data of a TCP or UDP    *)
(* record is the fixed structure and the cells behind it; that of a stack   *)
(* walk the time of the event it belongs to and the frames.                 *)
(***************************************************************************)
EXTENDS Analyze

CONSTANT PendingWindow   \* PENDING_WINDOW

ASSUME WindowAssumption == PendingWindow \in Nat \ {0}

(***************************************************************************)
(* Decoding: the operation and the address family come from the opcode.     *)
(***************************************************************************)
TcpOperation == 10 :> "send" @@ 11 :> "receive" @@ 12 :> "connect"
                @@ 13 :> "disconnect" @@ 15 :> "accept"
UdpOperation == 10 :> "send" @@ 11 :> "receive"
Ipv6Offset == 16

ClassifyEtw(provider, opcode) ==
  LET v6 == opcode \in 10 + Ipv6Offset..15 + Ipv6Offset
      code == IF v6 THEN opcode - Ipv6Offset ELSE opcode
      known == IF provider = "tcp" THEN TcpOperation ELSE UdpOperation
  IN IF code \in DOMAIN known THEN <<[op |-> known[code], v6 |-> v6]>> ELSE None

\* The source of the record is the local end.
ParseGroup1(head, v6) ==
  [local |-> [v4 |-> ~v6, ip |-> head.saddr, port |-> head.sport],
   remote |-> [v4 |-> ~v6, ip |-> head.daddr, port |-> head.dport]]

Group1Extra(tail) ==
  [i \in 1..(IF Len(tail) < 2 THEN Len(tail) ELSE 2) |->
     <<<<IF i = 1 THEN "seqnum" ELSE "connid">>, <<tail[i]>>>>]

DecodeEtw(r) ==
  LET kind == ClassifyEtw(r.provider, r.opcode)
  IN IF kind = None \/ ~HasHead(r.data) THEN None
     ELSE <<[pid |-> r.data.head.pid, tcp |-> r.provider = "tcp", op |-> kind[1].op,
             localName |-> <<>>, remoteName |-> <<>>, length |-> r.data.head.size,
             time |-> r.time, extra |-> Group1Extra(r.data.tail), stack |-> <<>>]
            @@ ParseGroup1(r.data.head, kind[1].v6)>>

(***************************************************************************)
(* The window, oldest first; sent is what it hands to the channel.          *)
(***************************************************************************)
\* The frames of the kernel before those of the user, each as they came.
Finished(net) ==
  LET user(addr) == ~IsKernelAddress(addr)
  IN [net EXCEPT !.stack = SelectSeq(@, IsKernelAddress) \o SelectSeq(@, user)]

PushNetworkEager(pending, net) ==   \* broken: a full window does not hold its last
  LET held == Append(pending, net)
      over == IF Len(held) >= PendingWindow THEN Len(held) - PendingWindow + 1 ELSE 0
  IN [pending |-> SubSeq(held, over + 1, Len(held)),
      sent |-> [i \in 1..over |-> Finished(held[i])]]
PushNetwork(pending, net) ==
  LET held == Append(pending, net)
      over == IF Len(held) > PendingWindow THEN Len(held) - PendingWindow ELSE 0
  IN [pending |-> SubSeq(held, over + 1, Len(held)),
      sent |-> [i \in 1..over |-> Finished(held[i])]]

\* The first event of that time takes the frames; a walk of another event
\* finds none.
AttachStack(pending, time, frames) ==
  LET same == {i \in DOMAIN pending : pending[i].time = time}
  IN IF same = {} THEN pending ELSE [pending EXCEPT ![Min(same)].stack = @ \o frames]

FlushPending(pending) == [i \in DOMAIN pending |-> Finished(pending[i])]

EventCallback(pending, r) ==
  LET net == DecodeEtw(r)
  IN CASE r.provider = "stackwalk" /\ HasHead(r.data) ->
            [pending |-> AttachStack(pending, r.data.head.stamp, r.data.tail), sent |-> <<>>]
       [] r.provider \in {"tcp", "udp"} /\ net # None -> PushNetwork(pending, net[1])
       [] OTHER -> [pending |-> pending, sent |-> <<>>]
=============================================================================
