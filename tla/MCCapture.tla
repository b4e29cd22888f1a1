------------------------------ MODULE MCCapture ------------------------------
(* t.exe is captured with its children: what it and its child do is written, *)
(* what the tool itself and an unknown process do is not.                    *)
EXTENDS Capture, MCData

MCNames == {<<"t.exe">>}
MCMonitors == {"file", "reg", "network", "process"}
MCWanted == <<Not(Clause(Column("Operation"), "Is", <<<<"imageload">>>>))>>
MCSessions == {{CreateChild, StartChild, LoadLibrary, OpenData},
               {CreateChild, LoadLibrary, OpenKey, ExitChild},
               {CreateChild, ToolReads, OpenData, Send, SendUnknown},
               {Send, Retransmit, KernelWalk, UserWalk, SendUnknown, OtherWalk, Receive}}
MCBefore == <<InitTarget, InitTool>>
=============================================================================
