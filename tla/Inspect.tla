------------------------------ MODULE Inspect ------------------------------
(***************************************************************************)
(* A user of the command line reads a capture file: composes a filter,      *)
(* switches the noise rules, turns the pages of its matches, exports what   *)
(* matches and looks at the process tree (crates/cli/src/main.rs over       *)
(* crates/core/src).  Every tool is a function of the file and of its       *)
(* arguments; what the run varies is the arguments.                         *)
(***************************************************************************)
EXTENDS Tools, PanelView

CONSTANTS File,       \* the cells of a capture file
          Captured,   \* the events it was saved from, in order, each with its process
          LiveTable,  \* and the process table they were captured with
          Atoms,      \* clauses the user may write
          Label,      \* field -> the text that names it
          MaxParts,   \* clauses and negations in a filter
          Limit,      \* events per page
          Pids, MaxItems \* processes of the tree

VARIABLES
  reader,  \* the open file
  filter,  \* None or one expression
  noise,   \* the noise rules that are on
  pages,   \* pages of the current filter
  more,    \* the last answer was truncated
  items    \* the process list, [pid, parent]
vars == <<reader, filter, noise, pages, more, items>>

Current == [filter |-> filter, noise |-> noise, groupBy |-> <<>>, metric |-> NoField,
            offset |-> Len(FlattenSeq(pages)), limit |-> Limit, withDetail |-> TRUE]

Init == /\ reader = OpenFile(File)
        /\ filter = None /\ noise = <<>> /\ items = <<>>
        /\ pages = <<>> /\ more = TRUE

Write(e) == filter' = Some(e) /\ pages' = <<>> /\ more' = TRUE /\ UNCHANGED <<reader, noise, items>>

RECURSIVE Parts(_)
Parts(e) == IF e.op = "clause" THEN 1
            ELSE FoldLeft(LAMBDA n, a : n + Parts(a), IF e.op = "not" THEN 1 ELSE 0, e.args)
Room == filter # None /\ Parts(filter[1]) < MaxParts

Type(c) == filter = None /\ items = <<>> /\ Write(c)
Negate == Room /\ Write(Not(filter[1]))
JoinLeft(c, Join(_)) == Room /\ Write(Join(<<c, filter[1]>>))
JoinRight(c, Join(_)) == Room /\ Write(Join(<<filter[1], c>>))
Extend(c) == /\ Room /\ filter[1].op \in {"and", "or"}
             /\ Write([filter[1] EXCEPT !.args = Append(@, c)])

SwitchNoise ==
  /\ items = <<>> /\ noise' = IF noise = <<>> THEN DefaultNoise ELSE <<>>
  /\ pages' = <<>> /\ more' = TRUE /\ UNCHANGED <<reader, filter, items>>

\* The next page is asked for while the answers are truncated, from the
\* command line or as a tool call.
NextPage(Ask(_, _)) ==
  /\ more /\ items = <<>>
  /\ \E answer \in {Ask(reader, Current)} :
       pages' = Append(pages, answer.events) /\ more' = answer.truncated
  /\ UNCHANGED <<reader, filter, noise, items>>

\* One more process in the list the tree is made of.
ListOne(pid, parent) ==
  /\ filter = None /\ noise = <<>> /\ pages = <<>> /\ Len(items) < MaxItems
  /\ items' = Append(items, [pid |-> pid, parent |-> parent])
  /\ UNCHANGED <<reader, filter, noise, pages, more>>

Next ==
  \/ \E c \in Atoms : Type(c) \/ JoinLeft(c, And) \/ JoinLeft(c, Or)
                      \/ JoinRight(c, And) \/ JoinRight(c, Or) \/ Extend(c)
  \/ Negate \/ SwitchNoise \/ NextPage(RunQuery) \/ NextPage(QueryTool)
  \/ \E pid \in Pids, parent \in Pids \union {0} : ListOne(pid, parent)
Spec == Init /\ [][Next]_vars

(***************************************************************************)
(* What a user writes for an expression, with symbols or with words, and    *)
(* with the parentheses that are needed.                                    *)
(***************************************************************************)
Symbol == [Is |-> <<"=", "=">>, IsNot |-> <<"!", "=">>, Contains |-> <<"~">>,
           Excludes |-> <<"!", "~">>, BeginsWith |-> <<"^", "=">>,
           EndsWith |-> <<"$", "=">>, LessThan |-> <<"<">>, MoreThan |-> <<">">>]
Quoted(text) == <<Quote>> \o text \o <<Quote>>
SpellList(values) ==
  FlattenSeq([i \in DOMAIN values |->
                (IF i = 1 THEN <<>> ELSE <<",">>) \o Quoted(values[i])])
SpellClause(c, words) ==
  LET value == c.values[1]
  IN Label[c.field] \o
     IF Len(c.values) > 1 THEN <<Blank, "in", "(">> \o SpellList(c.values) \o <<")">>
     ELSE Symbol[c.relation] \o IF words /\ Len(value) = 1 THEN value ELSE Quoted(value)

Level(e) == CASE e.op = "or" -> 0 [] e.op = "and" -> 1 [] OTHER -> 2
Between(op, words) ==
  IF words THEN <<Blank, op, Blank>> ELSE IF op = "and" THEN <<"&", "&">> ELSE <<"|", "|">>

RECURSIVE Spell(_, _, _)
Spell(e, words, above) ==
  LET joined == FlattenSeq([i \in DOMAIN e.args |->
                  (IF i = 1 THEN <<>> ELSE Between(e.op, words))
                  \o Spell(e.args[i], words, Level(e) + 1)])
      plain == CASE e.op = "clause" -> SpellClause(e, words)
                 [] e.op = "not" -> (IF words THEN <<"not", Blank>> ELSE <<"!">>)
                                    \o Spell(e.args[1], words, 2)
                 [] OTHER -> joined
  IN IF Level(e) < above THEN <<"(">> \o plain \o <<")">> ELSE plain

(***************************************************************************)
(* Properties                                                               *)
(***************************************************************************)
\* A filter means what the grammar says: or binds least, then and, then not,
\* whichever way they are written, and a stray parenthesis is refused.
ParsesBack ==
  filter # None /\ pages = <<>> /\ noise = <<>> =>
    \A words \in BOOLEAN :
      \A text \in {Spell(filter[1], words, 0)} :
        /\ ParseFilter(text).ok /\ ParseFilter(text).expr = filter[1]
        /\ ~ParseFilter(text \o <<")">>).ok /\ ~ParseFilter(<<"(">> \o text).ok

\* The pages, put together, are the matching events in order, each once; an
\* answer is truncated exactly when matches remain.
Numbered(xs) == [i \in DOMAIN xs |-> [x |-> xs[i], seq |-> i]]
Clipped(rows) == [i \in DOMAIN rows |-> ClipEvent(rows[i])]
RowsAt(hits) == [i \in DOMAIN hits |-> EventRecord(hits[i].x, hits[i].seq, TRUE)]
Matching ==
  Clipped(RowsAt(SelectSeq(Numbered(Events(reader)),
                           LAMBDA hit : EventPasses(hit.x, filter, noise))))
PrefixOf(all, shown) == shown = SubSeq(all, 1, Len(shown)) /\ more = (Len(shown) < Len(all))
PagesPartition == pages # <<>> => PrefixOf(Matching, Clipped(FlattenSeq(pages)))

\* A file exported from the matching events, read back, has those events with
\* the same columns, stacks and completion data, and every process; when the
\* completion data of one of them is cut off, there is no file (write_subset).
Kept(x) == <<EventRecord(x, 0, TRUE), CallStack(x.e), PostBlob(x.e)>>
AllKept(xs) == [i \in DOMAIN xs |-> Kept(xs[i])]
SameFile(again) == /\ AllKept(Events(again)) = AllKept(Exported(reader, filter, noise))
                   /\ again.processes = reader.processes /\ again.host = reader.host
CutOff(x) == \E i \in DOMAIN reader.offsets :
               /\ ~ExtraFits(reader.data, reader.offsets[i]) /\ x.e = EventAsEvent(reader, i)
SubsetFaithful ==
  filter # None /\ pages = <<>> =>
    \E again \in {OpenFile(ExportPml(reader, filter, noise))} :
      IF \E i \in DOMAIN Exported(reader, filter, noise) :
           CutOff(Exported(reader, filter, noise)[i])
      THEN again = NoFile ELSE again # NoFile /\ SameFile(again)

\* The other views tell the same story.  Groups: their counts add up to the
\* matching events, and each is what the narrower filter finds.
By == Column("Operation")
Narrowed(value) == Some(And(Append(IF filter = None THEN <<>> ELSE filter,
                                   Clause(By, "Is", <<value>>))))
CountWith(expr) == RunQuery(reader, [Current EXCEPT !.filter = expr]).total
GroupsCount(answer, total) ==
  /\ FoldLeft(LAMBDA n, g : n + g.count, 0, answer.groups) = answer.total
  /\ answer.total = total
  /\ \A i \in DOMAIN answer.groups :
       CountWith(Narrowed(answer.groups[i].values[1])) = answer.groups[i].count
GroupsAgree ==
  GroupsCount(RunQuery(reader, [Current EXCEPT !.groupBy = <<By>>, !.metric = Ext("NetBytes"),
                                               !.limit = 100]),
              Len(Matching))

\* The XML has one process per pid and every event, or parent, refers to its own.
RefersToItsOwn(xs, events, entry) ==
  /\ \A i, j \in DOMAIN entry : entry[i].pid = entry[j].pid => i = j
  /\ \A i \in DOMAIN xs : entry[events[i].index].pid = Pid(xs[i].e, xs[i].row)
  /\ \A i \in DOMAIN entry :
       entry[i].parentIndex # 0 => entry[entry[i].parentIndex].pid = entry[i].parent
SameXml(xs, xml) == /\ RefersToItsOwn(xs, xml.events, xml.processes)
                    /\ [i \in DOMAIN xs |-> xml.events[i].cells] = ExportCsv(xs)
XmlFor(xs) == SameXml(xs, ExportXml(xs, KernelModules, TRUE))
XmlAgrees == XmlFor(Exported(reader, filter, noise))

\* A window is a run of consecutive events (of one process, if so asked) around
\* its centre; the summary counts every event once; an event's process has the
\* event's identifier, and a frame lies in the module it is given.
SeqsOf(rows) == [i \in DOMAIN rows |-> rows[i].seq]
RunAround(eligible, at, before, after) ==
  SubSeq(eligible, Max({1, at - before}), Min({Len(eligible), at + after}))
Eligible(rows, i, same) ==
  SelectSeq(Positions(rows), LAMBDA j : same => rows[j].pid = rows[i].pid)
WindowsOver(rows) ==
  \A i \in DOMAIN rows, n \in 0..2, same \in BOOLEAN :
    SeqsOf(WindowTool(reader, i, n, 2 - n, same))
      = RunAround(Eligible(rows, i, same),
                  SelectInSeq(Eligible(rows, i, same), LAMBDA j : j = i), n, 2 - n)
WindowsAgree == WindowsOver(Records(Events(reader), FALSE))
SumRange(f) == FoldFunction(+, 0, f)
CountsEach(s) == /\ SumRange(s.rate) = s.total /\ s.total = PmlInfo(reader).count
                 /\ \A i \in DOMAIN s.byCategory : s.byCategory[i][1] = "network" =>
                      SumRange(s.netRate) = s.byCategory[i][2]
SummaryAgrees == CountsEach(Summary(reader, 2))
DetailAgrees ==
  \A i \in DOMAIN reader.offsets : \A a \in GetEvent(reader, i, {}) :
    /\ a.process[1] # NoRow => a.process[1].pid = a.event.pid
    /\ \A f \in DOMAIN a.stack[1] : LET frame == a.stack[1][f]
         IN frame.module # <<>> /\ frame.kernel =>
              \E m \in DOMAIN KernelModules : frame.offset < KernelModules[m].size
TimelinesOf(pid, all, told, changes) ==
  /\ \A i \in DOMAIN all : all[i].pid = pid
  /\ ToSet(SeqsOf(changes)) \subseteq ToSet(SeqsOf(all))
  /\ IsPrefix(SeqsOf(told.events), SeqsOf(all))
  /\ told.truncated = (Len(told.events) < Len(all))
TimelineAgrees ==
  \A pid \in {10, 20, 30} :
    TimelinesOf(pid, ProcessTimeline(reader, pid, TRUE, 100).events,
                TimelineTool(reader, pid, TRUE, 100),
                ProcessTimeline(reader, pid, FALSE, 100).events)
\* The window shows of the file what it showed of the capture it was saved
\* from, metadata at least once it was resolved, and what get_event answers; the
\* trees have the same processes, and a node leads to the events of its process.
SamePanel(shown, live, answers) ==
  /\ shown.modules = live.modules /\ shown.stack = live.stack
  /\ \A f \in DOMAIN live.process :
       \/ live.process[f] = shown.process[f]
       \/ f \in {"company", "version", "icon"} /\ live.process[f] = <<>>
  /\ \A a \in answers : a.stack[1] = shown.stack /\ a.process[1].name = shown.process.name
PanelAgrees ==
  \A i \in DOMAIN Captured : \A shown \in PmlDetails(reader, i) :
    SamePanel(shown, LiveDetail(LiveTable, Captured[i]), GetEvent(reader, i, {}))
SameTrees(live, saved, xs) ==
  /\ DOMAIN MetaMap(live) = DOMAIN MetaMap(saved)
  /\ \A pid \in DOMAIN IconMap(live) : IconMap(saved)[pid] = IconMap(live)[pid]
  /\ \A n \in DOMAIN saved, i \in DOMAIN xs :
       Pid(xs[i].e, xs[i].row) = saved[n].pid => Matches(ViewSelected(<<>>, saved[n]), xs[i])
TreesAgree == SameTrees(LiveNodes(LiveTable), PmlNodes(reader), Events(reader))

\* One resolver gives each frame of every event the symbol a new one would give,
\* of the module the frame lies in, to the panel and to the export alike.
AskPanel(r, stack, mods, kernel) ==
  ResolveFrames(r, stack, LAMBDA s, addr : ResolveForPanel(s, addr, mods, kernel))
AskExport(r, stack, mods, kernel) ==
  ResolveFrames(r, stack, LAMBDA s, addr : FrameLocation(s, addr, mods, kernel))
AskBoth(acc, panel, stack, mods, kernel) ==
  [acc EXCEPT !.r = AskExport(panel.r, stack, mods, kernel).r,
              !.ok = @ /\ AskExport(panel.r, stack, mods, kernel).names = panel.names,
              !.names = Append(@, panel.names)]
AskEvent(acc, x, kernel) ==
  AskBoth(acc, AskPanel(acc.r, CallStack(x.e), ModulesOf(x.row), kernel),
          CallStack(x.e), ModulesOf(x.row), kernel)
OfItsModule(name, frame) ==
  name # None =>
    /\ <<name[1][1]>> = frame.module
    /\ \E o \in DOMAIN Mapping[frame.path].symbols :
         Mapping[frame.path].symbols[o] = name[1][2] /\ frame.offset = o + name[1][3]
NamesOk(names, stack, frames, mods) ==
  \A f \in DOMAIN stack : /\ names[f] = Resolve(NewResolver, stack[f], mods).name
                          /\ OfItsModule(names[f], frames[f])
ResolvedAlike(xs, all, kernel) ==
  all.ok /\ \A i \in DOMAIN xs :
              NamesOk(all.names[i], CallStack(xs[i].e),
                      ResolveStack(xs[i].e, ModulesOf(xs[i].row), kernel),
                      ModulesOf(xs[i].row) \o kernel)
SymbolsOver(xs, kernel) ==
  ResolvedAlike(xs, FoldLeft(LAMBDA acc, x : AskEvent(acc, x, kernel),
                             [r |-> NewResolver, ok |-> TRUE, names |-> <<>>], xs), kernel)
SymbolsAgree ==
  \A kernel \in FoundRows(reader, SystemPid) : SymbolsOver(Events(reader), kernel.modules)

\* The tree places every process at most once, below a process that has its
\* parent's identifier, and places every one that has a root above it.
RECURSIVE WellPlaced(_)
WellPlaced(node) ==
  \A i \in DOMAIN node.children :
    /\ items[node.children[i].item].parent = items[node.item].pid
    /\ WellPlaced(node.children[i])
Rooted ==
  LET below[n \in 0..Len(items)] ==
        IF n = 0 THEN {i \in DOMAIN items : items[i].parent = items[i].pid
                            \/ items[i].parent \notin {items[j].pid : j \in DOMAIN items}}
        ELSE below[n - 1] \union
             {i \in DOMAIN items : \E j \in below[n - 1] : items[i].parent = items[j].pid}
  IN below[Len(items)]
ForestPlaces ==
  items # <<>> =>
    LET forest == BuildForest(items)
        placed == Placed(forest)
    IN /\ IsInjective(placed)
       /\ {placed[i] : i \in DOMAIN placed} = Rooted
       /\ \A i \in DOMAIN forest : WellPlaced(forest[i])
       /\ CountTree(forest) = Len(placed)
       /\ ListTool(items, 0, Limit).processes \o ListTool(items, Limit, MaxItems).processes
            = items

\* All views of one file agree, and so does the tree with the processes it is
\* built from (analyze.rs, summary.rs, export.rs, process.rs and the panel).
ViewsAgree ==
  /\ pages = <<>> /\ items = <<>> => GroupsAgree /\ XmlAgrees
  /\ pages = <<>> /\ items = <<>> /\ filter = None =>
       /\ WindowsAgree /\ SummaryAgrees /\ DetailAgrees /\ TimelineAgrees
       /\ PanelAgrees /\ TreesAgree /\ SymbolsAgree
  /\ ForestPlaces
=============================================================================
