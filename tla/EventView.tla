----------------------------- MODULE EventView -----------------------------
(***************************************************************************)
(* An event as its readers see it (crates/sdk/src/event.rs), and the views  *)
(* of registry, process and network operations (parse/reg.rs, proc.rs,      *)
(* network.rs).  An event is                                                *)
(*   [backing, pre, post, net, mode, proc, duration]                        *)
(* where pre and post are kernel records [monitor, notify, seq, tid, time,  *)
(* status, frames, data], net is a decoded network operation, and proc is   *)
(* a live process record or a row of a capture file (absent: NoRow).        *)
(***************************************************************************)
EXTENDS Detail

NoRow == [none |-> TRUE]
NoRecord == [none |-> TRUE]
NoNet == [none |-> TRUE]
NoTicks == -1
Shown(name, text) == <<name, text>>
ShownIf(name, text) == IF text = <<>> THEN <<>> ELSE <<Shown(name, text)>>

(***************************************************************************)
(* Registry (reg.rs): head [op, keyLen, ...], then the key name and, for    *)
(* some operations, a second string or the value.                           *)
(***************************************************************************)
RegNamed == {"open", "create", "queryvalue", "enumvalue", "enumkey", "setinfo",
             "querykey", "setvalue", "load", "rename", "deletevalue", "unload",
             "delete", "flush", "close", "setsecurity", "querysecurity",
             "querymultiple"}

RegName(blob, op, mode) ==
  IF op \in RegNamed /\ HasHead(blob)
  THEN ReadText(blob.tail, 0, blob.head.keyLen, mode) ELSE <<>>

RegShorten(name, mode) ==
  IF mode = "pml" \/ name = <<>> THEN name ELSE RegInternalToNormal(name)
RegPath(blob, op, mode) == RegShorten(RegName(blob, op, mode), mode)

\* The string that follows the key name: its length field is named by the caller.
RegSecond(blob, lenField, mode) ==
  ReadText(blob.tail, StrFieldLen(blob.head.keyLen, mode)[2], blob.head[lenField], mode)

RegFields == [queryvalue |-> <<"length", "class">>, querykey |-> <<"length", "class">>,
              enumvalue |-> <<"index", "length", "class">>,
              enumkey |-> <<"index", "length", "class">>,
              setinfo |-> <<"class", "length">>]

SetValueDetail(blob, mode) ==
  <<Shown("Type", blob.head.type), Shown("Length", blob.head.size),
    Shown("Data", Slice(blob.tail, StrFieldLen(blob.head.keyLen, mode)[2],
                        blob.head.copied))>>

CreateOpenDetail(blob, post) ==
  <<Shown("Desired Access", blob.head.desired)>>
  \o IF ~HasHead(post) THEN <<>>
     ELSE <<Shown("Granted Access", post.head.granted),
            Shown("Disposition", post.head.disposition)>>

RegDetail(op, blob, post, mode) ==
  CASE ~HasHead(blob) -> <<>>
    [] op \in {"create", "open"} -> CreateOpenDetail(blob, post)
    [] op = "setvalue" -> SetValueDetail(blob, mode)
    [] op \in DOMAIN RegFields ->
         [i \in DOMAIN RegFields[op] |->
            Shown(RegFields[op][i], blob.head[RegFields[op][i]])]
    [] op = "load" -> ShownIf("SourceFile", RegSecond(blob, "sourceLen", mode))
    [] op = "rename" -> ShownIf("NewName", RegShorten(RegSecond(blob, "newLen", mode), mode))
    [] OTHER -> <<>>

KeyEdit(blob, name) ==
  Edit("keyLen", 0, blob.head.keyLen, name, RegInternalToNormal(name))
NewNameEdit(blob, name) ==
  Edit("newLen", 2 * blob.head.keyLen, blob.head.newLen, name, RegInternalToNormal(name))
SourceEdit(blob, name) ==
  Edit("sourceLen", 2 * blob.head.keyLen, blob.head.sourceLen, name, NtToDos(name))
RegPmlDetail(op, blob) ==
  IF ~HasHead(blob) THEN NoBlob
  ELSE Splice(blob, KeyEdit(blob, RegName(blob, op, "live"))
                    \o CASE op = "rename" ->
                             NewNameEdit(blob, RegSecond(blob, "newLen", "live"))
                         [] op = "load" ->
                             SourceEdit(blob, RegSecond(blob, "sourceLen", "live"))
                         [] OTHER -> <<>>)

(***************************************************************************)
(* Processes (proc.rs).  A create record: head [.., sidLen, intLen, nameLen, *)
(* cmdLen], then user SID, integrity SID, image name and command line.      *)
(***************************************************************************)
ImageText(cells, off, raw, mode) == Shorten(ReadText(cells, off, raw, mode), mode)

CreateInfo(blob, mode) ==
  LET h == blob.head
      nameOff == h.sidLen + h.intLen
      nameBytes == StrFieldLen(h.nameLen, mode)[2]
  IN IF ~HasHead(blob) \/ nameOff + nameBytes > Len(blob.tail) THEN NoRow
     ELSE [seq |-> h.seq, pid |-> h.pid, parent |-> h.parent, wow |-> ~h.isWow64,
           created |-> h.created, sid |-> Slice(blob.tail, 0, h.sidLen),
           integrity |-> Slice(blob.tail, h.sidLen, h.intLen),
           image |-> ImageText(blob.tail, nameOff, h.nameLen, mode),
           cmd |-> ReadText(blob.tail, nameOff + nameBytes, h.cmdLen, mode)]

ImageModule(blob, mode) ==
  IF ~HasHead(blob) THEN NoRow
  ELSE [base |-> blob.head.base, size |-> blob.head.size,
        path |-> ImageText(blob.tail, 0, blob.head.nameLen, mode)]

ProcPath(op, blob, mode, image) ==
  CASE op \in {"init", "create"} -> (CreateInfo(blob, mode) @@ [image |-> <<>>]).image
    [] op = "imageload" -> (ImageModule(blob, mode) @@ [path |-> <<>>]).path
    [] op = "start" -> image
    [] OTHER -> <<>>

StartDetail(blob, mode) ==
  <<Shown("Parent PID", blob.head.parent),
    Shown("Command line", ReadText(blob.tail, 0, blob.head.cmdLen, mode)),
    Shown("Current directory", ReadText(blob.tail, StrFieldLen(blob.head.cmdLen, mode)[2],
                                        blob.head.cwdLen, mode))>>

ProcFields == [threadcreate |-> <<"thread">>,
               threadexit |-> <<"status", "user", "kernel">>,
               exit |-> <<"status", "user", "kernel", "pagefile", "working">>,
               performance |-> <<"status", "user", "kernel", "pagefile", "working">>]

CreateDetailOf(info) ==
  IF info = NoRow THEN <<>> ELSE <<Shown("PID", info.pid), Shown("Command line", info.cmd)>>
ProcDetail(op, blob, mode) ==
  CASE ~HasHead(blob) -> <<>>
    [] op \in {"init", "create"} ->
         CreateDetailOf(CreateInfo(blob, mode))
    [] op = "imageload" -> <<Shown("Image Base", blob.head.base),
                             Shown("Image Size", blob.head.size)>>
    [] op = "start" -> StartDetail(blob, mode)
    [] op \in DOMAIN ProcFields ->
         [i \in DOMAIN ProcFields[op] |->
            Shown(ProcFields[op][i], blob.head[ProcFields[op][i]])]
    [] OTHER -> <<>>

ProcPmlDetail(op, blob) ==
  LET off == IF op = "imageload" THEN 0 ELSE blob.head.sidLen + blob.head.intLen
  IN CASE ~HasHead(blob) -> NoBlob
       [] op \in {"init", "create", "imageload"} ->
            WithDosName(blob, off, LiveStr(blob.tail, off, blob.head.nameLen))
       [] OTHER -> blob

(***************************************************************************)
(* Network (network.rs): [pid, tcp, op, local, remote, localName,           *)
(* remoteName, length, time, extra, stack], an endpoint being               *)
(* [v4, ip, port] and extra a sequence of pairs of texts.                   *)
(***************************************************************************)
Numeric(addr) == IF addr.v4 THEN <<addr.ip, addr.port>>
                 ELSE <<"[", addr.ip, "]", addr.port>>
Endpoint(name, addr) == IF name = <<>> THEN Numeric(addr) ELSE name
NetPath(net) == Endpoint(net.localName, net.local) \o <<"->">>
                \o Endpoint(net.remoteName, net.remote)
NetDetail(net) == <<Shown("Length", net.length)>> \o net.extra

NetHost(name, addr) == IF name = <<>> THEN addr.ip ELSE name[1]
NetField(net, name) ==
  CASE name = "RemoteAddress" -> <<NetHost(net.remoteName, net.remote)>>
    [] name = "LocalAddress" -> <<NetHost(net.localName, net.local)>>
    [] name = "RemotePort" -> <<net.remote.port>>
    [] name = "LocalPort" -> <<net.local.port>>
    [] name = "NetBytes" -> <<net.length>>
    [] OTHER -> <<>>

Utf16z(text) == Utf16(text) \o <<NUL, HI>>
EncodePml(net) ==
  Blob([srcV4 |-> net.local.v4, dstV4 |-> net.remote.v4, tcp |-> net.tcp,
        length |-> net.length, src |-> net.local.ip, dst |-> net.remote.ip,
        srcPort |-> net.local.port, dstPort |-> net.remote.port],
       FoldLeft(LAMBDA cells, kv : cells \o Utf16z(kv[1]) \o Utf16z(kv[2]),
                <<>>, net.extra) \o Utf16z(<<>>))

\* Offsets just past the terminators: the strings of a run are between them.
ReadUpTo(cells, off, nuls) ==
  IF nuls = {} THEN [found |-> FALSE, text |-> <<>>, next |-> off]
  ELSE [found |-> TRUE, next |-> Min(nuls) + 1,
        text |-> DecodeUtf16(SubSeq(cells, off + 1, Min(nuls) - 1))]
ReadUtf16z(cells, off) ==
  ReadUpTo(cells, off, {i \in off + 1..Len(cells) : cells[i] = NUL /\ (i - off) % 2 = 1})

\* run[off] is the string that starts at off.
PairsOf(run) ==
  LET from[off \in DOMAIN run] ==
        LET key == run[off]
            val == run[key.next]
        IN IF ~key.found \/ key.text = <<>> \/ ~val.found THEN <<>>
           ELSE <<<<key.text, val.text>>>> \o from[val.next]
  IN from[0]
ParseExtra(cells) == PairsOf([off \in 0..Len(cells) |-> ReadUtf16z(cells, off)])

TableHost(hosts, ip) == IF ip \in DOMAIN hosts THEN hosts[ip] ELSE ip
TablePort(ports, port, tcp) ==
  IF <<port, tcp>> \in DOMAIN ports THEN ports[<<port, tcp>>] ELSE port

DecodePml(op, blob, hosts, ports) ==
  LET h == blob.head
  IN [pid |-> 0, tcp |-> h.tcp, op |-> op, length |-> h.length, time |-> 0,
      local |-> [v4 |-> h.srcV4, ip |-> h.src, port |-> h.srcPort],
      remote |-> [v4 |-> h.dstV4, ip |-> h.dst, port |-> h.dstPort],
      localName |-> <<TableHost(hosts, h.src), TablePort(ports, h.srcPort, h.tcp)>>,
      remoteName |-> <<TableHost(hosts, h.dst), TablePort(ports, h.dstPort, h.tcp)>>,
      extra |-> ParseExtra(blob.tail), stack |-> <<>>]

(***************************************************************************)
(* Accessors (event.rs).  row is the process the event refers to, a live    *)
(* record or a row of the file; both carry pid, parent, image and so on.    *)
(***************************************************************************)
IsNet(e) == e.backing = "net"
LiveEvent(pre, post) == [backing |-> "kernel", mode |-> "live", pre |-> pre,
                         post |-> post, net |-> NoNet, duration |-> NoTicks]
NetworkEvent(net) == [backing |-> "net", mode |-> "live", pre |-> NoRecord,
                      post |-> NoRecord, net |-> net, duration |-> NoTicks]
FromPmlRecords(pre, post, duration) ==
  [backing |-> "kernel", mode |-> "pml", pre |-> pre, post |-> post,
   net |-> NoNet, duration |-> duration]

Class(e) ==
  CASE IsNet(e) -> "network"
    [] e.pre.monitor \in {"process", "file", "reg", "profiling"} -> e.pre.monitor
    [] OTHER -> "other"

HasPost(e) == e.post # NoRecord
ProcessSeq(e) == IF IsNet(e) THEN 0 ELSE e.pre.seq
ThreadId(e) == IF IsNet(e) THEN 0 ELSE e.pre.tid
Pid(e, row) == CASE IsNet(e) -> e.net.pid
                 [] row = NoRow -> 0
                 [] OTHER -> row.pid
TimeRaw(e) == IF IsNet(e) THEN e.net.time ELSE e.pre.time
StatusRaw(e) == CASE HasPost(e) -> e.post.status
                  [] IsNet(e) -> 0
                  [] OTHER -> e.pre.status
EndTimeRaw(e) == CASE e.duration # NoTicks -> TimeRaw(e) + e.duration
                   [] HasPost(e) -> e.post.time
                   [] OTHER -> NoTicks
DurationTicks(e) == IF EndTimeRaw(e) = NoTicks THEN NoTicks
                    ELSE EndTimeRaw(e) - TimeRaw(e)
CallStack(e) == IF IsNet(e) THEN e.net.stack ELSE e.pre.frames
PostBlob(e) == IF HasPost(e) THEN e.post.data ELSE NoBlob

\* Header, frames and data; a network event counts as one structure.
RecordSize(r) == 1 + Len(r.frames) + Len(Cells(r.data))
ByteSize(e) == CASE IsNet(e) -> 1
                 [] HasPost(e) -> RecordSize(e.pre) + RecordSize(e.post)
                 [] OTHER -> RecordSize(e.pre)

\* A row of a file never lends its image to a Process Start: event.process()
\* is the live record only.
Path(e, row) ==
  CASE IsNet(e) -> NetPath(e.net)
    [] Class(e) = "file" -> FilePath(e.pre.data, e.mode)
    [] Class(e) = "reg" -> RegPath(e.pre.data, e.pre.notify, e.mode)
    [] Class(e) = "process" ->
         ProcPath(e.pre.notify, e.pre.data, e.mode,
                  IF e.mode = "live" /\ row # NoRow THEN row.image ELSE <<>>)
    [] OTHER -> <<>>

DetailOf(e) ==
  CASE IsNet(e) -> NetDetail(e.net)
    [] Class(e) = "file" -> FileDetail(e.pre.notify, e.pre.data, PostBlob(e), e.mode)
    [] Class(e) = "reg" -> RegDetail(e.pre.notify, e.pre.data, PostBlob(e), e.mode)
    [] Class(e) = "process" -> ProcDetail(e.pre.notify, e.pre.data, e.mode)
    [] OTHER -> <<>>

StructField(e, name) ==
  CASE IsNet(e) -> NetField(e.net, name)
    [] Class(e) = "file" -> FileField(e.pre.notify, e.pre.data, PostBlob(e), name)
    [] OTHER -> <<>>

\* pml_serialize: the operation code and the blob a capture file keeps.
PmlSerialize(e) ==
  CASE IsNet(e) -> <<e.net.op, EncodePml(e.net)>>
    [] Class(e) = "file" -> <<e.pre.notify, FilePmlDetail(e.pre.data)>>
    [] Class(e) = "reg" -> <<e.pre.notify, RegPmlDetail(e.pre.notify, e.pre.data)>>
    [] Class(e) = "process" -> <<e.pre.notify, ProcPmlDetail(e.pre.notify, e.pre.data)>>
    [] OTHER -> <<e.pre.notify, NoBlob>>
=============================================================================
