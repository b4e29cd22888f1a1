------------------------------- MODULE Analyze -------------------------------
(***************************************************************************)
(* What the command line asks of a capture file (crates/core/src): pages of *)
(* matching events, groups, timelines, windows, one event with its process  *)
(* and its stack, the process list and tree, the summary and the exports.   *)
(***************************************************************************)
EXTENDS Query

CONSTANTS Bins,        \* points of a rate series (24 in the code)
          Significant  \* operations a timeline keeps

\* The events of a file in order, each with its process.  The code numbers
\* them in this order.
Events(file) ==
  SelectSeq([i \in DOMAIN file.offsets |-> [e |-> EventAsEvent(file, i), row |-> RowOf(file, i)]],
            LAMBDA x : x.e # NoEvent)

OrEmpty(option) == IF option = None THEN <<>> ELSE option[1]
ParentPid(x) == IF x.row = NoRow THEN 0 ELSE x.row.parent
NameOf(x) == OrEmpty(ProcessColumn(x.row, "ProcessName"))

EventRecord(x, seq, withDetail) ==
  [seq |-> seq, pid |-> Pid(x.e, x.row), parent |-> ParentPid(x), tid |-> ThreadId(x.e),
   category |-> Class(x.e), operation |-> OperationName(x.e), name |-> NameOf(x),
   path |-> Path(x.e, x.row), result |-> ResultText(x.e), time |-> TimeRaw(x.e),
   duration |-> DurationTicks(x.e),
   detail |-> IF withDetail THEN Some(DetailText(x.e)) ELSE None]

Records(xs, withDetail) == [i \in DOMAIN xs |-> EventRecord(xs[i], i, withDetail)]

(***************************************************************************)
(* Queries.  filter is None or one expression; noise a sequence of clauses. *)
(***************************************************************************)
DefaultNoise ==
  [i \in DOMAIN DefaultDisplayFilter |->
     LET r == DefaultDisplayFilter[i] IN Clause(Column(r.column), r.relation, <<r.value>>)]

EventPasses(x, filter, noise) ==
  /\ filter # None => Holds(filter[1], x)
  /\ \A i \in DOMAIN noise : ~ClauseHolds(noise[i], x)

Page(rows, offset, limit) == SubSeq(rows, offset + 1, Min({offset + limit, Len(rows)}))

\* Broken: the event is counted before the offset is compared.
MatchStepLate(acc, x, i, q) ==
  IF ~EventPasses(x, q.filter, q.noise) THEN acc
  ELSE [total |-> acc.total + 1,
        events |-> IF acc.total + 1 >= q.offset /\ Len(acc.events) < q.limit
                   THEN Append(acc.events, EventRecord(x, i, q.withDetail)) ELSE acc.events]
MatchStep(acc, x, i, q) ==
  IF ~EventPasses(x, q.filter, q.noise) THEN acc
  ELSE [total |-> acc.total + 1,
        events |-> IF acc.total >= q.offset /\ Len(acc.events) < q.limit
                   THEN Append(acc.events, EventRecord(x, i, q.withDetail)) ELSE acc.events]

\* q = [filter, noise, groupBy, metric, offset, limit, withDetail]
QueryEvents(xs, q) ==
  LET Answer(end) == [total |-> end.total, truncated |-> end.total > q.offset + q.limit,
                      events |-> end.events, groups |-> <<>>]
  IN Answer(FoldLeft(LAMBDA acc, i : MatchStep(acc, xs[i], i, q),
                     [total |-> 0, events |-> <<>>], Positions(xs)))

GroupStep(acc, x, q) ==
  IF ~EventPasses(x, q.filter, q.noise) THEN acc
  ELSE [total |-> acc.total + 1, buckets |-> Observe(acc.buckets, q.groupBy, q.metric, x)]
GroupPage(total, rows, q) ==
  [total |-> total, truncated |-> Len(rows) > q.offset + q.limit,
   events |-> <<>>, groups |-> Page(rows, q.offset, q.limit)]
GroupsOf(end, q) == GroupPage(end.total, IntoRows(end.buckets), q)
QueryGroups(xs, q) ==
  GroupsOf(FoldLeft(LAMBDA acc, x : GroupStep(acc, x, q), [total |-> 0, buckets |-> <<>>], xs),
           q)

RunQuery(file, q) ==
  IF q.groupBy # <<>> THEN QueryGroups(Events(file), q) ELSE QueryEvents(Events(file), q)

TimelineFilter(pid, includeReads) ==
  LET mine == Clause(Column("Pid"), "Is", <<NumberText(pid)>>)
      network == Clause(Column("Class"), "Is", <<<<"network">>>>)
      changing == Clause(Column("Operation"), "Is", Significant)
  IN IF includeReads THEN mine ELSE And(<<mine, Or(<<network, changing>>)>>)
ProcessTimeline(file, pid, includeReads, limit) ==
  RunQuery(file, [filter |-> <<TimelineFilter(pid, includeReads)>>, noise |-> DefaultNoise,
                  groupBy |-> <<>>, metric |-> NoField, offset |-> 0, limit |-> limit,
                  withDetail |-> FALSE])

(***************************************************************************)
(* A window around one event: the last `before` of its predecessors, itself *)
(* and the first `after` of its successors.                                 *)
(***************************************************************************)
\* Broken: the first of the predecessors are kept.
WindowStepFirst(acc, row, w) ==
  CASE acc.stopped \/ (w.sameProcess /\ row.pid # w.pid) -> acc
    [] row.seq < w.seq -> [acc EXCEPT !.pre = IF Len(@) < w.before THEN Append(@, row) ELSE @]
    [] row.seq = w.seq -> [acc EXCEPT !.center = <<row>>]
    [] row.seq > w.seq -> IF Len(acc.post) >= w.after THEN [acc EXCEPT !.stopped = TRUE]
                          ELSE [acc EXCEPT !.post = Append(@, row)]
WindowStep(acc, row, w) ==
  CASE acc.stopped \/ (w.sameProcess /\ row.pid # w.pid) -> acc
    [] row.seq < w.seq -> [acc EXCEPT !.pre = IF Len(@) < w.before THEN Append(@, row)
                                              ELSE Tail(Append(@, row))]
    [] row.seq = w.seq -> [acc EXCEPT !.center = <<row>>]
    [] row.seq > w.seq -> IF Len(acc.post) >= w.after THEN [acc EXCEPT !.stopped = TRUE]
                          ELSE [acc EXCEPT !.post = Append(@, row)]
EventWindow(file, seq, before, after, sameProcess) ==
  LET Window(rows) ==
        FoldLeft(LAMBDA acc, row :
                   WindowStep(acc, row, [seq |-> seq, before |-> before, after |-> after,
                                         sameProcess |-> sameProcess, pid |-> rows[seq].pid]),
                 [pre |-> <<>>, center |-> <<>>, post |-> <<>>, stopped |-> FALSE], rows)
      Joined(end) == end.pre \o end.center \o end.post
  IN Joined(Window(Records(Events(file), FALSE)))

(***************************************************************************)
(* Stacks (sdk/src/symbols.rs): a frame belongs to the first module that    *)
(* spans it, those of the process before the kernel's.                      *)
(***************************************************************************)
KernelBase == 1000
IsKernelAddress(addr) == addr >= KernelBase
Spans(m, addr) == m.size > 0 /\ addr >= m.base /\ addr < m.base + m.size
ResolveFrame(addr, procMods, kernelMods) ==
  LET mods == procMods \o kernelMods
      hits == {i \in DOMAIN mods : Spans(mods[i], addr)}
      m == mods[CHOOSE i \in hits : \A j \in hits : i <= j]
  IN [kernel |-> IsKernelAddress(addr)]
     @@ IF hits = {} THEN [module |-> <<>>, path |-> <<>>, offset |-> addr]
        ELSE [module |-> Basename(m.path), path |-> m.path, offset |-> addr - m.base]
ResolveStack(e, procMods, kernelMods) ==
  [i \in DOMAIN CallStack(e) |-> ResolveFrame(CallStack(e)[i], procMods, kernelMods)]

(***************************************************************************)
(* Processes.  The table is a hash map: when two rows share a pid, any of   *)
(* them may be found first.                                                 *)
(***************************************************************************)
RowsOf(file) == {file.processes[i] : i \in DOMAIN file.processes}
FoundRows(file, pid) ==
  LET rows == {r \in RowsOf(file) : r.pid = pid} IN IF rows = {} THEN {NoRow} ELSE rows
ModulesOf(row) == IF row = NoRow THEN <<>> ELSE row.modules
ProcessDetail(row) == IF row = NoRow THEN NoRow ELSE [running |-> row.ended = 0] @@ row
ProcessNode(row) == [pid |-> row.pid, parent |-> row.parent, name |-> row.name,
                     running |-> row.ended = 0]

EventAnswers(file, x, seq, parts) ==
  LET want(p) == parts = {} \/ p \in parts
  IN {[event |-> EventRecord(x, seq, TRUE),
       process |-> IF want("process") THEN <<ProcessDetail(row)>> ELSE None,
       stack |-> IF want("stack")
                 THEN <<ResolveStack(x.e, ModulesOf(row), ModulesOf(kernel))>> ELSE None] :
      row \in FoundRows(file, Pid(x.e, x.row)), kernel \in FoundRows(file, SystemPid)}
\* Every answer get_event may give: parts is a set, empty for all.
GetEvent(file, seq, parts) ==
  EventAnswers(file, [e |-> EventAsEvent(file, seq), row |-> RowOf(file, seq)], seq, parts)

ListProcesses(rows) == [i \in DOMAIN rows |-> ProcessNode(rows[i])]
ProcessTree(rows) == BuildForest(ListProcesses(rows))

PmlInfo(file) == [count |-> Len(file.offsets), host |-> file.host,
                  processes |-> Cardinality(DOMAIN file.processes)]

(***************************************************************************)
(* Summary (summary.rs)                                                     *)
(***************************************************************************)
BinIndex(i, total) == IF total = 0 THEN 0 ELSE Min({(i * Bins) \div total, Bins - 1})
Categories == <<"reg", "file", "network", "process", "profiling">>

CountIf(seq, P(_)) == Len(SelectSeq(seq, P))
Rate(cats, Kept(_)) ==
  [b \in 0..Bins - 1 |->
     Cardinality({i \in DOMAIN cats : BinIndex(i - 1, Len(cats)) = b /\ Kept(cats[i])})]
\* How often each of vs occurs in values.
Tally(values, vs) ==
  [i \in DOMAIN vs |-> <<vs[i], CountIf(values, LAMBDA w : w = vs[i])>>]
MostFirst(counts) ==
  SortSeq(counts, LAMBDA a, b : a[2] > b[2] \/ (a[2] = b[2] /\ LexLess(a[1], b[1])))
SummaryOf(cats, names, top) ==
  [total |-> Len(cats),
   byCategory |-> SortSeq(Tally(cats, Categories), LAMBDA a, b : a[2] > b[2]),
   topProcesses |-> Page(MostFirst(Tally(names, SetToSeq(ToSet(names)))), 0, top),
   rate |-> Rate(cats, LAMBDA c : TRUE),
   netRate |-> Rate(cats, LAMBDA c : c = "network")]
EventClasses(xs) == [i \in DOMAIN xs |-> Class(xs[i].e)]
EventNames(xs) == [i \in DOMAIN xs |-> NameOf(xs[i])]
Summary(file, top) ==
  SummaryOf(EventClasses(Events(file)), EventNames(Events(file)), top)

(***************************************************************************)
(* Exports (export.rs)                                                      *)
(***************************************************************************)
ExportPml(file, filter, noise) ==
  WriteSubset(file, {i \in DOMAIN file.offsets :
                       \E e \in {EventAsEvent(file, i)} \ {NoEvent} :
                         EventPasses([e |-> e, row |-> RowOf(file, i)], filter, noise)})

Exported(file, filter, noise) ==
  SelectSeq(Events(file), LAMBDA x : EventPasses(x, filter, noise))
CsvRow(x) == <<TimeRaw(x.e), NameOf(x), Pid(x.e, x.row), OperationName(x.e),
               Path(x.e, x.row), ResultText(x.e), DetailText(x.e),
               OrEmpty(ProcessColumn(x.row, "User"))>>
ExportCsv(xs) == [i \in DOMAIN xs |-> CsvRow(xs[i])]

\* The process list has one entry per pid, from the first event that bears it.
FirstSeen(xs) ==
  FoldLeft(LAMBDA pids, x : IF Contains(pids, Pid(x.e, x.row)) THEN pids
                            ELSE Append(pids, Pid(x.e, x.row)), <<>>, xs)
IndexIn(pids, pid) == IF Contains(pids, pid)
                      THEN CHOOSE i \in DOMAIN pids : pids[i] = pid ELSE 0
Sample(xs, pid) ==
  xs[CHOOSE i \in DOMAIN xs : /\ Pid(xs[i].e, xs[i].row) = pid
                              /\ \A j \in 1..i - 1 : Pid(xs[j].e, xs[j].row) # pid]
XmlProcess(xs, pids, i) ==
  LET x == Sample(xs, pids[i])
  IN [index |-> i, pid |-> pids[i], parent |-> ParentPid(x),
      parentIndex |-> IndexIn(pids, ParentPid(x)), row |-> x.row]
XmlEvent(x, pids, kernelMods, includeStacks) ==
  [index |-> IndexIn(pids, Pid(x.e, x.row)), cells |-> CsvRow(x),
   stack |-> IF includeStacks
             THEN <<ResolveStack(x.e, ModulesOf(x.row), kernelMods)>> ELSE None]
ExportXml(xs, kernelMods, includeStacks) ==
  LET pids == FirstSeen(xs)
  IN [processes |-> [i \in DOMAIN pids |-> XmlProcess(xs, pids, i)],
      events |-> [i \in DOMAIN xs |-> XmlEvent(xs[i], pids, kernelMods, includeStacks)]]
=============================================================================
