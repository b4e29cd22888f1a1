------------------------------ MODULE MCInspect ------------------------------
(* The file of a capture of t.exe and its child, with a completed open, a    *)
(* network event, a registry access, a read and a second network event, the  *)
(* last one damaged in the file and the read with an endless duration.       *)
EXTENDS Inspect, MCData

Cached == <<"C:", "bin", "c.exe">> :> MCMeta
Sent == [pid |-> 30, tcp |-> TRUE, op |-> "send",
         local |-> [v4 |-> TRUE, ip |-> "here", port |-> "p1"],
         remote |-> [v4 |-> TRUE, ip |-> "there", port |-> "p2"],
         localName |-> <<>>, remoteName |-> <<>>, length |-> 5, time |-> 2,
         extra |-> <<<<<<"seqnum">>, <<"0">>>>>>, stack |-> <<20>>]
Received == [Sent EXCEPT !.pid = 10, !.op = "receive", !.length = 2, !.time = 8]
Table == FoldLeft(LAMBDA m, r : Track(m, r, Cached, TRUE), ManagerNew,
                  <<InitSystem, InitTarget, InitTool, CreateChild.pre, LoadLibrary.pre>>)
KernelEvent(k) == [e |-> LiveEvent(k.pre, k.post), row |-> BySeq(Table, k.pre.seq)]
MCLiveTable == Table
MCCaptured ==
  <<[e |-> NetworkEvent(Sent), row |-> ByPid(Table, 30)], KernelEvent(CreateChild),
    KernelEvent(StartChild), KernelEvent(LoadLibrary), KernelEvent(OpenData),
    KernelEvent(OpenKey), KernelEvent(ToolReads),
    [e |-> NetworkEvent(Received), row |-> ByPid(Table, 10)]>>
\* The events reach the window in the order of their completion.
Saved == SaveLive(Table, Tail(MCCaptured) \o <<Head(MCCaptured)>>, MCMetaOf)
HeaderOf(i) == OpenFile(Saved).offsets[i] + 1
MCFile == [Saved EXCEPT ![HeaderOf(8)].extra = Len(Saved),
                        ![HeaderOf(7)].duration = MaxTicks]

OfChild == Clause(Column("Pid"), "Is", <<<<"30">>>>)
OpensOrStarts == Clause(Column("Operation"), "Is", <<<<"open">>, <<"create">>, <<"start">>>>)
OnData == Clause(Column("Path"), "EndsWith", <<<<"D:", "data">>>>)
Sends == Clause(Ext("NetBytes"), "MoreThan", <<<<"3">>>>)
MCAtoms == {OfChild, OpensOrStarts, OnData, Sends}
MCLabel == (Column("Pid") :> <<"PID">>) @@ (Column("Operation") :> <<Quote, "op", Quote>>)
           @@ (Column("Path") :> <<"Path">>) @@ (Ext("NetBytes") :> <<"netbytes">>)
=============================================================================
