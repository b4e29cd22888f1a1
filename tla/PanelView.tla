----------------------------- MODULE PanelView -----------------------------
(***************************************************************************)
(* The detail panel and the process tree dialog of the window, over a live  *)
(* capture or over a file (crates/gui/src/model/sdk_source.rs and           *)
(* dialogs/process_tree.rs), and the file a live session is saved to        *)
(* (app.rs).  A live event carries the shared record of its process, which  *)
(* keeps changing; an event of a file carries a row.                        *)
(***************************************************************************)
EXTENDS Symbols

ModuleRow(m) == [name |-> Basename(m.path), path |-> m.path, base |-> m.base, size |-> m.size]
ModuleRows(row) == [i \in DOMAIN ModulesOf(row) |-> ModuleRow(ModulesOf(row)[i])]

ProcessExited(row) ==
  /\ row # NoRow
  /\ IF IsLive(row) THEN row.exit # NoTicks ELSE row.ended # 0
IconLarge(row, file) ==
  CASE row = NoRow -> <<>>
    [] ~IsLive(row) -> Icon(file, row.iconBig)
    [] row.meta = Pending -> <<>>
    [] OTHER -> row.meta.large

ColumnText(row, column) == OrEmpty(ProcessColumn(row, column))
\* The Process tab: what the accessors of the event give, empty when absent.
SdkProcessNode(x, file) ==
  LET text(column) == ColumnText(x.row, column)
  IN [pid |-> Pid(x.e, x.row), parent |-> ParentPid(x), name |-> NameOf(x),
      company |-> text("Company"), version |-> text("Version"),
      running |-> ~ProcessExited(x.row), integrity |-> text("Integrity"),
      arch |-> IF x.row = NoRow THEN <<"64-bit">> ELSE text("Architecture"),
      user |-> text("User"), image |-> text("ImagePath"), cmd |-> text("CommandLine"),
      icon |-> IconLarge(x.row, file)]

\* The three tabs: frames lie in the process's modules or in System's.
EventDetail(x, kernelRows, file) ==
  LET modules == ModuleRows(x.row)
  IN [event |-> EventRecord(x, 0, TRUE), process |-> SdkProcessNode(x, file),
      modules |-> modules, stack |-> ResolveStack(x.e, modules, kernelRows)]
LiveDetail(mgr, x) == EventDetail(x, ModuleRows(ByPid(mgr, SystemPid)), NoFile)
\* Any row with System's identifier may be the one found.
PmlDetails(file, i) ==
  {EventDetail([e |-> EventAsEvent(file, i), row |-> RowOf(file, i)], ModuleRows(kernel), file) :
     kernel \in FoundRows(file, SystemPid)}

(***************************************************************************)
(* The process tree.  A node of a live process has no integrity and no user *)
(* and its metadata once it is known; a node of a row falls back on the     *)
(* small icon.                                                              *)
(***************************************************************************)
RecordNode(rec) ==
  LET text(column) == ColumnText(rec, column)
  IN [pid |-> rec.pid, parent |-> rec.parent, name |-> Basename(rec.image),
      company |-> text("Company"), version |-> text("Version"), running |-> rec.exit = NoTicks,
      integrity |-> <<>>, arch |-> ArchText(rec), user |-> <<>>, image |-> rec.image,
      cmd |-> rec.cmd, icon |-> IconLarge(rec, NoFile)]
PmlProcessNode(row, file) ==
  [pid |-> row.pid, parent |-> row.parent, name |-> row.name, company |-> row.company,
   version |-> row.version, running |-> row.ended = 0, integrity |-> row.integrity,
   arch |-> ArchText(row), user |-> row.user, image |-> row.image, cmd |-> row.cmd,
   icon |-> IF Icon(file, row.iconBig) # <<>> THEN Icon(file, row.iconBig)
            ELSE Icon(file, row.iconSmall)]

\* Nodes in the order the hash maps give them.
LiveNodes(mgr) == SetToSeq({RecordNode(rec) : rec \in Snapshot(mgr)})
PmlNodes(file) == SetToSeq({PmlProcessNode(row, file) : row \in RowsOf(file)})

RECURSIVE Placed(_)
Placed(nodes) ==
  FlattenSeq([i \in DOMAIN nodes |-> <<nodes[i].item>> \o Placed(nodes[i].children)])
\* Beside a name the dialog shows the company, else the user; of two nodes with
\* one identifier the later one decides.
MetaMap(nodes) ==
  FoldLeft(LAMBDA m, i :
             (nodes[i].pid :> IF nodes[i].company = <<>> THEN nodes[i].user
                              ELSE nodes[i].company) @@ m,
           <<>>, Placed(BuildForest(nodes)))
IconMap(nodes) ==
  FoldLeft(LAMBDA m, i : IF nodes[i].icon = <<>> THEN m ELSE (nodes[i].pid :> nodes[i].icon) @@ m,
           <<>>, Placed(BuildForest(nodes)))
\* "View in Events": a quick filter on the node's name.
ViewSelected(rules, node) ==
  AddFront(rules, Rule("ProcessName", "Is", node.name, "Include"))

(***************************************************************************)
(* Saving a live session: the rows, then every process of the table, then   *)
(* the System process if it is not there.                                   *)
(***************************************************************************)
SaveLive(mgr, xs, resolve) ==
  LET pushed == FoldLeft(LAMBDA w, x : PushEvent(w, x.e, x.row), StampHost(WriterNew), xs)
      stamped == StampProcesses(pushed, SetToSeq(Snapshot(mgr)))
  IN ToBytes(FinishLive(stamped), mgr.bySeq, resolve)
=============================================================================
