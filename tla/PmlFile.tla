------------------------------- MODULE PmlFile -------------------------------
(***************************************************************************)
(* The capture file (crates/sdk/src/pml): how PmlWriter lays it out and how *)
(* PmlReader reads it back.  A file is a sequence of cells; a position in   *)
(* it counts the cells before.  A fixed structure, a text and a number take *)
(* one cell each, so every offset and every bound of the code is there.     *)
(***************************************************************************)
EXTENDS ProcessTable

CONSTANTS Host,          \* what the header says of the machine that captures
          DefaultHost,   \* and what it says when nobody stamped it
          Versions       \* image path -> [company, version, description]

(***************************************************************************)
(* The writer: processes (rows), events, icons, procIndex (process sequence *)
(* -> row) and procRecords (row -> process sequence, for finalizing).       *)
(***************************************************************************)
WriterNew == [processes |-> <<>>, events |-> <<>>, icons |-> <<<<>>>>, host |-> DefaultHost,
              procIndex |-> <<>>, procRecords |-> <<>>]
StampHost(w) == [w EXCEPT !.host = Host]
AddProcess(w, p) == [w EXCEPT !.processes = Append(@, p)]

PmlProcessFrom(rec, index) ==
  [index |-> index, pid |-> rec.pid, parent |-> rec.parent, created |-> rec.created,
   ended |-> IF rec.exit = NoTicks THEN 0 ELSE rec.exit, is64 |-> ~rec.wow,
   user |-> rec.user, integrity |-> rec.integrity, name |-> Basename(NtToDos(rec.image)),
   image |-> NtToDos(rec.image), cmd |-> rec.cmd, company |-> <<>>, version |-> <<>>,
   description |-> <<>>, iconSmall |-> 0, iconBig |-> 0, modules |-> <<>>]

InternRecord(w, rec) ==
  LET index == Len(w.processes)
  IN IF rec.seq \in DOMAIN w.procIndex THEN w
     ELSE [w EXCEPT !.procIndex = (rec.seq :> index) @@ @,
                    !.procRecords = (index :> rec.seq) @@ @,
                    !.processes = Append(@, PmlProcessFrom(rec, index))]

\* intern_process: an event without a process takes index 0.
ProcessIndex(w, row) == IF row = NoRow THEN 0 ELSE w.procIndex[row.seq]

\* op is the operation code and the blob the file keeps.
PmlEvent(index, e, op) ==
  [index |-> index, tid |-> ThreadId(e), class |-> Class(e),
   operation |-> op[1], date |-> TimeRaw(e), result |-> StatusRaw(e),
   duration |-> IF DurationTicks(e) > 0 THEN DurationTicks(e) ELSE 0,
   stack |-> CallStack(e), detail |-> Cells(op[2]),
   extra |-> IF HasPost(e) THEN <<Cells(PostBlob(e))>> ELSE <<>>]

AppendEvent(w, e, row) ==
  [w EXCEPT !.events = Append(@, PmlEvent(ProcessIndex(w, row), e, PmlSerialize(e)))]
PushEvent(w, e, row) ==
  AppendEvent(IF row = NoRow THEN w ELSE InternRecord(w, row), e, row)

\* stamp_processes: records is the manager's snapshot, in hash-map order.
StampProcesses(w, records) == FoldLeft(InternRecord, w, records)

VersionOf(path) == IF path \in DOMAIN Versions THEN Versions[path]
                   ELSE [company |-> <<>>, version |-> <<>>, description |-> <<>>]
PmlModuleAt(m, dos) == [base |-> m.base, size |-> m.size, path |-> dos] @@ VersionOf(dos)
PmlModule(m) == PmlModuleAt(m, NtToDos(m.path))
PmlModulesFrom(modules) == [i \in DOMAIN modules |-> PmlModule(modules[i])]

AddSystemProcess(w) ==
  LET kernel == VersionOf(KernelModules[1].path)
  IN [w EXCEPT !.processes = Append(@,
       [index |-> Len(w.processes), pid |-> SystemPid, parent |-> 0, created |-> 0,
        ended |-> 0, is64 |-> TRUE, user |-> <<"SYSTEM">>, integrity |-> <<"System">>,
        name |-> <<"System">>, image |-> <<"System">>, cmd |-> <<>>,
        company |-> kernel.company, version |-> kernel.version,
        description |-> <<"System">>, iconSmall |-> 0, iconBig |-> 0,
        modules |-> PmlModulesFrom(KernelModules)])]

FinishLive(w) ==
  IF KernelModules = <<>> \/ \E i \in DOMAIN w.processes : w.processes[i].pid = SystemPid
  THEN w ELSE AddSystemProcess(w)

(***************************************************************************)
(* Finalizing: each row that has a live record re-reads its modules and its *)
(* metadata; a record still pending is resolved here.  resolve maps an      *)
(* image to its metadata [company, version, description, small, large].     *)
(***************************************************************************)
InternIcon(icons, bytes) ==
  IF bytes = <<>> THEN [icons |-> icons, at |-> 0]
  ELSE [icons |-> Append(icons, bytes), at |-> Len(icons)]

FinalizeFrozen(acc, index) == acc   \* broken: keep what interning copied
Refreshed(p, modules, meta, small, big) ==
  [p EXCEPT !.modules = PmlModulesFrom(modules), !.company = meta.company,
            !.version = meta.version, !.description = meta.description,
            !.iconSmall = small, !.iconBig = big]
FinalizeRow(acc, index) ==
  LET rec == acc.records[acc.w.procRecords[index]]
      meta == IF rec.meta = Pending THEN acc.resolve[rec.image] ELSE rec.meta
      With(small, large) ==
        [acc EXCEPT !.w.icons = large.icons,
                    !.w.processes[index + 1] =
                       Refreshed(@, rec.modules, meta, small.at, large.at)]
      After(small) == With(small, InternIcon(small.icons, meta.large))
  IN After(InternIcon(acc.w.icons, meta.small))

Finalize(w, records, resolve) ==
  FoldLeft(FinalizeRow, [w |-> w, records |-> records, resolve |-> resolve],
           SetToSortSeq(DOMAIN w.procRecords, <)).w

(***************************************************************************)
(* The tables.                                                              *)
(***************************************************************************)
Intern(list, text) == IF Contains(list, text) THEN list ELSE Append(list, text)
IndexOf(list, text) == IF Contains(list, text)
                       THEN (CHOOSE i \in DOMAIN list : list[i] = text) - 1 ELSE 0

ModuleTexts(m) == <<m.path, m.version, m.company, m.description>>
ProcessTexts(p) ==
  <<p.integrity, p.user, p.name, p.image, p.cmd, p.company, p.version, p.description>>
  \o FlattenSeq([i \in DOMAIN p.modules |-> ModuleTexts(p.modules[i])])
StringTable(processes) ==
  FoldLeft(Intern, <<<<>>>>,
           FlattenSeq([i \in DOMAIN processes |-> ProcessTexts(processes[i])]))

TotalLen(chunks) == FoldLeft(LAMBDA n, c : n + Len(c), 0, chunks)
\* Position of each chunk when they follow one another from start.
Offsets(chunks, start) ==
  [i \in DOMAIN chunks |-> start + TotalLen(SubSeq(chunks, 1, i - 1))]

\* A counted table: the count, extra words, one offset per entry, the entries.
CountedTable(words, chunks) ==
  <<Len(chunks)>> \o words
  \o Offsets(chunks, 1 + Len(words) + Len(chunks)) \o FlattenSeq(chunks)

EncodeStrings(list) ==
  CountedTable(<<>>, [i \in DOMAIN list |-> <<Len(list[i]), list[i]>>])
EncodeIcons(icons) ==
  CountedTable(<<>>, [i \in DOMAIN icons |-> <<"dim", Len(icons[i])>> \o icons[i]])

TextFields == {"integrity", "user", "name", "image", "cmd", "company", "version",
               "description"}
ModuleFields == {"path", "version", "company", "description"}
WithIndexes(r, fields, list) ==
  [f \in DOMAIN r |-> IF f \in fields THEN IndexOf(list, r[f]) ELSE r[f]]
EncodeProcess(p, list) ==
  <<WithIndexes([f \in DOMAIN p \ {"modules"} |-> p[f]], TextFields, list),
    Len(p.modules)>>
  \o [i \in DOMAIN p.modules |-> WithIndexes(p.modules[i], ModuleFields, list)]
EncodeProcesses(processes, list) ==
  CountedTable([i \in DOMAIN processes |-> processes[i].index],
               [i \in DOMAIN processes |-> EncodeProcess(processes[i], list)])

EventHeader(e) ==
  [index |-> e.index, tid |-> e.tid, class |-> e.class, operation |-> e.operation,
   duration |-> e.duration, date |-> e.date, result |-> e.result,
   depth |-> Len(e.stack), details |-> Len(e.detail),
   extra |-> IF e.extra = <<>> THEN 0 ELSE 1 + Len(e.stack) + Len(e.detail)]
EncodeEvent(e) ==
  <<EventHeader(e)>> \o e.stack \o e.detail
  \o IF e.extra = <<>> THEN <<>> ELSE <<Len(e.extra[1])>> \o e.extra[1]

\* Events leave in start-time order; equal times keep the order of capture.
EventOrder(events) ==
  SortSeq([i \in DOMAIN events |-> i],
          LAMBDA a, b : \/ events[a].date < events[b].date
                        \/ events[a].date = events[b].date /\ a < b)

\* to_bytes: header, events, their offsets, processes, strings, icons, hosts.
Encoded(events, order) == [i \in DOMAIN order |-> EncodeEvent(events[order[i]])]
Sections(chunks, processes, list, icons) ==
  <<FlattenSeq(chunks), Offsets(chunks, 1), EncodeProcesses(processes, list),
    EncodeStrings(list), EncodeIcons(icons), <<0, 0>>>>
FileHeader(host, count, at) ==
  [magic |-> "PML_", version |-> 9, is64 |-> TRUE, host |-> host, count |-> count,
   offsets |-> at[2], processes |-> at[3], strings |-> at[4], icons |-> at[5],
   hosts |-> at[6]]
Laid(host, count, sections) ==
  <<FileHeader(host, count, Offsets(sections, 1))>> \o FlattenSeq(sections)
FileOf(final, chunks) ==
  Laid(final.host, Len(chunks),
       Sections(chunks, final.processes, StringTable(final.processes), final.icons))
BytesOf(final) == FileOf(final, Encoded(final.events, EventOrder(final.events)))
ToBytes(w, records, resolve) == BytesOf(Finalize(w, records, resolve))
=============================================================================
