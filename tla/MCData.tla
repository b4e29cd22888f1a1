------------------------------- MODULE MCData -------------------------------
(* A small capture: three processes, their images, and the records of a    *)
(* program t.exe that starts a child, which loads a module, opens a file on *)
(* a volume mounted later, opens a registry key, talks to a peer and exits. *)
EXTENDS Detail, TLC

MCVolumes == {[device |-> <<"Device", "HD1">>, letter |-> "C:"]}
MCMountedLater == {[device |-> <<"Device", "HD2">>, letter |-> "D:"]}
MCSystemRoot == <<"C:", "Windows">>
MCSid == "S1"

\* Images as the driver names them.
Target == <<"Device", "HD1", "t.exe">>
Child == <<"Device", "HD1", "bin", "c.exe">>
Tool == <<"Device", "HD1", "tool.exe">>
Library == <<"SystemRoot", "l.dll">>

NewProcess(monitor, notify, by, seq, pid, parent, time, image) ==
  [monitor |-> monitor, notify |-> notify, seq |-> by, tid |-> 7, time |-> time,
   status |-> 0, frames |-> <<20>>,
   data |-> Blob([sidLen |-> 1, intLen |-> 1, nameLen |-> Len(image), cmdLen |-> 1,
                  seq |-> seq, pid |-> pid, parent |-> parent, isWow64 |-> FALSE,
                  created |-> time],
                 <<"alice", "high">> \o Utf16(image) \o Utf16(<<"-x">>))]
Record(monitor, notify, seq, time, status, data) ==
  [monitor |-> monitor, notify |-> notify, seq |-> seq, tid |-> 8, time |-> time,
   status |-> status, frames |-> <<20, 1010>>, data |-> data]
Completion(time, status, data) ==
  [monitor |-> "post", notify |-> "post", seq |-> 0, tid |-> 8, time |-> time,
   status |-> status, frames |-> <<>>, data |-> data]
NoPost == [none |-> TRUE]
Kernel(pre, post) == [pre |-> pre, post |-> post]

InitTarget == NewProcess("process", "init", 1, 1, 10, 4, 1, Target)
InitTool == NewProcess("process", "init", 2, 2, 20, 4, 1, Tool)
InitSystem == NewProcess("process", "init", 4, 4, 4, 0, 1, <<"System">>)
CreateChild == Kernel(NewProcess("process", "create", 1, 3, 30, 10, 3, Child), NoPost)
StartChild ==
  Kernel(Record("process", "start", 3, 4, 0,
                Blob([parent |-> 10, cmdLen |-> 1, cwdLen |-> 2],
                     Utf16(<<"-x">>) \o Utf16(<<"C:", "bin">>))), NoPost)
LoadLibrary ==
  Kernel(Record("process", "imageload", 3, 5, 0,
                Blob([base |-> 15, size |-> 10, nameLen |-> Len(Library)],
                     Utf16(Library))), NoPost)
OpenData ==
  Kernel(Record("file", "create", 3, 6, 0,
                Blob([params |-> [disposition |-> "Open", options |-> "Sync"], nameLen |-> 3],
                     Utf16(<<"Device", "HD2", "data">>) \o <<"rw">>)),
         Completion(8, 5, Blob([information |-> "Opened"], <<>>)))
OpenKey ==
  Kernel(Record("reg", "open", 1, 7, 0,
                Blob([keyLen |-> 4, desired |-> "read"],
                     Utf16(<<"REGISTRY", "USER", "S1", "Run">>))),
         Completion(7, 0, Blob([granted |-> "read", disposition |-> "opened"], <<>>)))
ToolReads ==
  Kernel(Record("file", "read", 2, 7, 0,
                Blob([params |-> [offset |-> 0, length |-> 4], nameLen |-> 3],
                     Utf16(<<"Device", "HD1", "data">>))), NoPost)
ExitChild ==
  Kernel(Record("process", "exit", 3, 9, 0,
                Blob([status |-> 0, user |-> 1, kernel |-> 1, pagefile |-> 2,
                      working |-> 3], <<>>)), NoPost)
Packet(provider, opcode, time, pid) ==
  [provider |-> provider, opcode |-> opcode, time |-> time,
   data |-> Blob([pid |-> pid, size |-> 5, daddr |-> "there", saddr |-> "here",
                  dport |-> "p2", sport |-> "p1"], <<"0">>)]
Walk(stamp, frames) ==
  [provider |-> "stackwalk", opcode |-> 32, time |-> stamp + 1,
   data |-> Blob([stamp |-> stamp], frames)]
Send == Packet("tcp", 10, 2, 10)
Retransmit == Packet("tcp", 14, 2, 30)
SendUnknown == Packet("udp", 26, 5, 99)
Receive == Packet("tcp", 11, 7, 30)
KernelWalk == Walk(2, <<1010, 1020>>)
UserWalk == Walk(2, <<20>>)
OtherWalk == Walk(5, <<1030>>)

MCNoMeta == [company |-> <<>>, version |-> <<>>, description |-> <<>>,
             small |-> <<>>, large |-> <<>>]
MCMeta == [company |-> <<"Acme">>, version |-> <<"1">>, description |-> <<"T">>,
           small |-> <<"s1">>, large |-> <<"b1", "b2">>]
MCMetaOf == (<<"C:", "t.exe">> :> MCMeta) @@ (<<"C:", "bin", "c.exe">> :> MCMeta)
            @@ (<<"C:", "tool.exe">> :> MCNoMeta) @@ (<<"System">> :> MCNoMeta)
MCVersions == <<"C:", "Windows", "l.dll">> :>
              [company |-> <<"Acme">>, version |-> <<"2">>, description |-> <<"L">>]
MCToolhelp == 10 :> <<[base |-> 18, size |-> 10, path |-> <<"C:", "Windows", "l.dll">>]>>
MCKernelModules == <<[base |-> 1000, size |-> 50, path |-> <<"C:", "Windows", "k.sys">>]>>
MCMapping == (<<"C:", "Windows", "l.dll">> :>
                [base |-> 500, size |-> 10, symbols |-> (1 :> "f") @@ (4 :> "g")])
             @@ (<<"C:", "Windows", "k.sys">> :>
                   [base |-> 510, size |-> 50, symbols |-> 5 :> "k"])
MCHost == [name |-> "host"]
MCDefaultHost == [name |-> ""]

MCNumbers == 0..100
MCLower == [Path |-> "path", PID |-> "pid", AND |-> "and"]
MCCollation == <<"alice", "c.exe", "t.exe", "tool.exe">>
MCColumnOf == [path |-> "Path", pid |-> "Pid", operation |-> "Operation",
               processname |-> "ProcessName", category |-> "Class", result |-> "Result"]
MCAliases == [class |-> "category", op |-> "operation", process |-> "processname"]
MCFieldOf == [netbytes |-> "NetBytes", disposition |-> "Disposition"]
MCSignificant == <<<<"create">>, <<"start">>, <<"exit">>, <<"imageload">>>>
=============================================================================
