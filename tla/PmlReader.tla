----------------------------- MODULE PmlReader -----------------------------
(***************************************************************************)
(* Opening a capture file (crates/sdk/src/pml/reader.rs).  Every read is    *)
(* through a cursor that refuses to pass the end: a file is indexed only    *)
(* when its header and each of its tables fit.                              *)
(***************************************************************************)
EXTENDS PmlFile

NoFile == [none |-> TRUE]
NoEvent == [none |-> TRUE]

At(data, pos) == data[pos + 1]
Fits(data, pos, n) == pos + n <= Len(data)

(***************************************************************************)
(* Tables: a count, words skipped per entry, an offset per entry, then the  *)
(* entries; an entry's second cell says how many cells follow it, or is     *)
(* itself the text of a string.                                             *)
(***************************************************************************)
EntryAt(data, base, words, i) == base + At(data, base + words * At(data, base) + i)
Entries(data, base, words, Read(_)) ==
  [i \in 1..At(data, base) |-> Read(EntryAt(data, base, words, i))]
TableFits(data, base, words, Size(_)) ==
  /\ Fits(data, base, 1)
  /\ Fits(data, base, 1 + (words + 1) * At(data, base))
  /\ \A i \in 1..At(data, base) :
       LET p == EntryAt(data, base, words, i)
       IN Fits(data, p, 2) /\ Fits(data, p, Size(p))

ParseStrings(data, base) == Entries(data, base, 0, LAMBDA p : At(data, p + 1))
StrAt(strings, ix) == IF ix < Len(strings) THEN strings[ix + 1] ELSE <<>>
Resolved(r, fields, strings) ==
  [f \in DOMAIN r |-> IF f \in fields THEN StrAt(strings, r[f]) ELSE r[f]]

ReadProcess(data, p, strings) ==
  Resolved(At(data, p), TextFields, strings)
  @@ [modules |-> [i \in 1..At(data, p + 1) |->
                     Resolved(At(data, p + 1 + i), ModuleFields, strings)]]
\* Of two rows with one index the later one stays.
ByIndex(rows) == [index \in {rows[i].index : i \in DOMAIN rows} |->
                    rows[Max({i \in DOMAIN rows : rows[i].index = index})]]
ParseProcesses(data, base, strings) ==
  ByIndex(Entries(data, base, 1, LAMBDA p : ReadProcess(data, p, strings)))

ParseIcons(data, base) ==
  Entries(data, base, 0, LAMBDA p : SubSeq(data, p + 3, p + 2 + At(data, p + 1)))

(***************************************************************************)
(* open: header, strings, processes, event offsets, hosts and ports, icons. *)
(***************************************************************************)
HeaderOk(data) ==
  /\ Fits(data, 0, 1)
  /\ LET h == At(data, 0)
     IN /\ h.magic = "PML_" /\ h.version = 9 /\ h.is64
        /\ 0 \notin {h.offsets, h.processes, h.strings, h.icons, h.hosts}

\* Broken: the offsets of the events are not checked against the end.
TablesUnchecked(data) ==
  LET h == At(data, 0)
      counted(p) == 2 + At(data, p + 1)
  IN /\ TableFits(data, h.strings, 0, LAMBDA p : 2)
     /\ TableFits(data, h.processes, 1, counted) /\ Fits(data, h.icons, 1)
     /\ TableFits(data, h.icons, 0, counted)
TablesOk(data) ==
  LET h == At(data, 0)
      counted(p) == 2 + At(data, p + 1)
  IN /\ TableFits(data, h.strings, 0, LAMBDA p : 2)
     /\ TableFits(data, h.processes, 1, counted)
     /\ Fits(data, h.offsets, h.count)
     /\ Fits(data, h.hosts, 2)
     /\ TableFits(data, h.icons, 0, counted)

\* The tables of resolved names are written empty; a file of another tool has them.
OpenFile(data) ==
  IF ~HeaderOk(data) \/ ~TablesOk(data) THEN NoFile
  ELSE LET h == At(data, 0)
       IN [data |-> data, host |-> h.host,
           offsets |-> SubSeq(data, h.offsets + 1, h.offsets + h.count),
           processes |-> ParseProcesses(data, h.processes, ParseStrings(data, h.strings)),
           icons |-> ParseIcons(data, h.icons), hosts |-> <<>>, ports |-> <<>>]

ProcessRow(file, index) ==
  IF index \in DOMAIN file.processes THEN file.processes[index] ELSE NoRow
Icon(file, index) == IF index < Len(file.icons) THEN file.icons[index + 1] ELSE <<>>

(***************************************************************************)
(* An event of the file: the record its cells would be in the driver's      *)
(* form, with the completion data as a second record.                       *)
(***************************************************************************)
BlobOf(cells) == IF cells = <<>> THEN NoBlob ELSE Blob(Head(cells), Tail(cells))

SynthRecord(monitor, h, frames, data) ==
  [monitor |-> monitor, notify |-> h.operation, seq |-> 0, tid |-> h.tid,
   time |-> h.date, status |-> h.result, frames |-> frames, data |-> BlobOf(data)]

BodyFits(data, off) ==
  Fits(data, off, 1) /\ Fits(data, off, 1 + At(data, off).depth + At(data, off).details)
ExtraFits(data, off) ==
  LET extra == At(data, off).extra
  IN extra > 0 => /\ Fits(data, off, extra + 1)
                  /\ Fits(data, off, extra + 1 + At(data, off + extra))
\* An operation on the network needs its data and nobody looks for a completion.
EventFits(data, off) ==
  /\ BodyFits(data, off)
  /\ IF At(data, off).class = "network" THEN At(data, off).details > 0
     ELSE ExtraFits(data, off)

\* What an event of the file holds: header, frames, details and completion.
EventInner(file, i) ==
  LET off == file.offsets[i]
      h == At(file.data, off)
      at == off + h.extra
  IN [header |-> h, stack |-> SubSeq(file.data, off + 2, off + 1 + h.depth),
      details |-> SubSeq(file.data, off + 2 + h.depth, off + 1 + h.depth + h.details),
      extra |-> IF h.extra = 0 \/ ~ExtraFits(file.data, off) THEN <<>>
                ELSE <<SubSeq(file.data, at + 2, at + 1 + At(file.data, at))>>]

SynthNet(raw, h, row, net) ==
  [net EXCEPT !.pid = IF row = NoRow THEN 0 ELSE row.pid,
              !.time = h.date, !.stack = raw.stack]
\* A duration that passes the end of time stands for none.
MaxTicks == 255  \* u64::MAX, scaled
SynthDuration(h) == IF h.duration \in 1..MaxTicks - h.date THEN h.duration ELSE NoTicks
SynthEvent(file, raw, h) ==
  IF h.class = "network"
  THEN NetworkEvent(SynthNet(raw, h, ProcessRow(file, h.index),
                      DecodePml(h.operation, BlobOf(raw.details), file.hosts, file.ports)))
  ELSE FromPmlRecords(SynthRecord(h.class, h, raw.stack, raw.details),
                      IF raw.extra = <<>> THEN NoRecord
                      ELSE SynthRecord("none", h, <<>>, raw.extra[1]),
                      SynthDuration(h))
EventAsEvent(file, i) ==
  IF ~EventFits(file.data, file.offsets[i]) THEN NoEvent
  ELSE SynthEvent(file, EventInner(file, i), At(file.data, file.offsets[i]))

RowOf(file, i) == ProcessRow(file, At(file.data, file.offsets[i]).index)
EventsOf(file) ==
  SelectSeq([i \in DOMAIN file.offsets |-> EventAsEvent(file, i)],
            LAMBDA e : e # NoEvent)

(***************************************************************************)
(* write_subset: the events kept, with the header and every process of the  *)
(* file.  The icon and name tables stay behind.  Nothing is written when    *)
(* one of the events kept cannot be copied.                                 *)
(***************************************************************************)
RawEvent(raw, h) ==
  [index |-> h.index, tid |-> h.tid, class |-> h.class, operation |-> h.operation,
   date |-> h.date, result |-> h.result, duration |-> h.duration,
   stack |-> raw.stack, detail |-> raw.details, extra |-> raw.extra]
EventWithoutPost(file, i) ==   \* broken: the completion data is left behind
  RawEvent([EventInner(file, i) EXCEPT !.extra = <<>>], EventInner(file, i).header)
EventWithRaw(file, i) == RawEvent(EventInner(file, i), EventInner(file, i).header)

SubsetWriter(file, kept) ==
  [FoldLeft(AddProcess, [WriterNew EXCEPT !.host = file.host],
            SetToSeq({file.processes[i] : i \in DOMAIN file.processes}))
   EXCEPT !.events =
     FoldLeft(LAMBDA es, i : IF i \in kept THEN Append(es, EventWithRaw(file, i)) ELSE es,
              <<>>, [i \in DOMAIN file.offsets |-> i])]
Copyable(file, i) ==
  BodyFits(file.data, file.offsets[i]) /\ ExtraFits(file.data, file.offsets[i])
WriteSubset(file, kept) ==
  IF \A i \in kept : Copyable(file, i) THEN ToBytes(SubsetWriter(file, kept), <<>>, <<>>)
  ELSE <<>>
=============================================================================
