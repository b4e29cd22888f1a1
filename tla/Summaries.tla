----------------------------- MODULE Summaries -----------------------------
(***************************************************************************)
(* What the dialogs of the Tools and File menus compute from the buffer     *)
(* (crates/gui/src/dialogs): statistics over the visible rows, and the rows *)
(* a save writes.                                                           *)
(***************************************************************************)
EXTENDS EventBuffer

CONSTANTS Bins,     \* points of a rate series (24 in the code)
          TopNames, \* processes the summary lists (6 in the code)
          MaxRows   \* rows a list dialog draws (200 in the code)

SummaryRows(b) == [ix \in DOMAIN b.view |-> Visible(b, ix).ev]
CountOf(rows, Test(_)) == Cardinality({i \in DOMAIN rows : Test(rows[i])})
Names(rows) == {rows[i].name : i \in DOMAIN rows}
\* Highest count first.
ByCount(rows, Count(_)) == SortSeq(rows, LAMBDA a, b : Count(a) > Count(b))

(***************************************************************************)
(* Tools > Summary.                                                         *)
(***************************************************************************)
BinPast(i, total) == ((i + 1) * Bins) \div total   \* broken: rows from one, past the last bin
BinOf(i, total) == Min({(i * Bins) \div total, Bins - 1})
Series(rows, Test(_)) ==
  [bin \in 0..Bins - 1 |->
     Cardinality({i \in DOMAIN rows : BinOf(i - 1, Len(rows)) = bin /\ Test(rows[i])})]
CategoryTotals(rows) ==
  ByCount([i \in 1..5 |->
             LET c == <<"registry", "file", "network", "process", "profiling">>[i]
             IN [category |-> c, n |-> CountOf(rows, LAMBDA r : r.category = c)]],
          LAMBDA t : t.n)
TopProcesses(rows) ==
  LET all == ByCount(SetToSeq({[name |-> p, n |-> CountOf(rows, LAMBDA r : r.name = p)] :
                                 p \in Names(rows)}), LAMBDA t : t.n)
  IN SubSeq(all, 1, Min({TopNames, Len(all)}))
Stats(rows) ==
  [total |-> Len(rows), network |-> CountOf(rows, LAMBDA r : r.category = "network"),
   cats |-> CategoryTotals(rows), top |-> TopProcesses(rows),
   rate |-> Series(rows, LAMBDA r : TRUE),
   net |-> Series(rows, LAMBDA r : r.category = "network")]

(***************************************************************************)
(* Process summary: a row per identifier, under the name its first row has. *)
(***************************************************************************)
ProcessTotals(rows) ==
  LET of(p) == SelectSeq(rows, LAMBDA r : r.pid = p)
      n(p, c) == CountOf(of(p), LAMBDA r : r.category = c)
  IN ByCount(SetToSeq({[pid |-> p, name |-> of(p)[1].name, file |-> n(p, "file"),
                        registry |-> n(p, "registry"), network |-> n(p, "network"),
                        total |-> Len(of(p))] : p \in {rows[i].pid : i \in DOMAIN rows}}),
             LAMBDA t : t.total)

(***************************************************************************)
(* Path summaries: per path of one category, two or three groups of         *)
(* operations; a read or write counts in both groups it belongs to, a       *)
(* registry or network operation in the first.                              *)
(***************************************************************************)
Groups == [file |-> <<{"read"}, {"write"}>>,
           registry |-> <<{"open", "create"}, {"query", "enum"}, {"set", "delete"}>>,
           network |-> <<{"send"}, {"receive"}>>]
\* Where an operation counts: verbs is the set of words its name contains.
Group(kind, verbs) == {g \in DOMAIN Groups[kind] : verbs \cap Groups[kind][g] # {}}
Counted(kind, verbs) ==
  IF kind = "file" THEN Group(kind, verbs)
  ELSE {g \in Group(kind, verbs) : \A h \in Group(kind, verbs) : g <= h}
PathTotals(kind, rows) ==
  LET own == SelectSeq(rows, LAMBDA r : r.category = kind /\ r.path # <<>>)
      of(path) == SelectSeq(own, LAMBDA r : r.path = path)
      n(path, g) == CountOf(of(path), LAMBDA r : g \in Counted(kind, r.verbs))
  IN ByCount(SetToSeq({[path |-> path, a |-> n(path, 1), b |-> n(path, 2),
                        c |-> IF kind = "registry" THEN n(path, 3)
                              ELSE Cardinality(Names(of(path))),
                        total |-> Len(of(path))] :
                         path \in {own[i].path : i \in DOMAIN own}}),
             LAMBDA t : t.total)

\* Cross references: the paths more than one process touched.
CrossRefs(rows) ==
  LET of(path) == SelectSeq(rows, LAMBDA r : r.path = path)
      paths == {rows[i].path : i \in DOMAIN rows} \ {<<>>}
      all == {[path |-> path, procs |-> Names(of(path)), total |-> Len(of(path))] : path \in paths}
  IN SortSeq(SetToSeq({x \in all : Cardinality(x.procs) > 1}),
             LAMBDA x, y : LET m == Cardinality(x.procs)
                               n == Cardinality(y.procs)
                           IN m > n \/ (m = n /\ x.total > y.total))

\* What a list dialog draws of its rows: those whose key holds the query.
Listed(totals, Key(_), text) ==
  LET found == SelectSeq(totals, LAMBDA t : ContainsCi(Key(t), text))
  IN SubSeq(found, 1, Min({MaxRows, Len(found)}))

(***************************************************************************)
(* Save.                                                                    *)
(***************************************************************************)
Scopes == {"all", "filtered", "highlighted"}
SaveCounts(b) == [all |-> Len(b.all), filtered |-> Len(b.view),
                  highlighted |-> Len(Highlighted(b))]
SavedPositions(b, scope, profiling) ==
  CASE scope = "all" -> Positions(b)
    [] scope = "filtered" ->
         Retained(b.view, {i \in DOMAIN b.all :
                             profiling \/ b.all[i].ev.category # "profiling"})
    [] OTHER -> Highlighted(b)
RowsToSave(b, scope, profiling) == RowsAt(b, SavedPositions(b, scope, profiling))
\* Of a session that shows a file: the positions write_subset keeps, from 1.
KeptOfFile(b, scope, profiling) ==
  LET rows == RowsToSave(b, scope, profiling) IN {rows[i].seq : i \in DOMAIN rows}

(***************************************************************************)
(* The summaries say of the visible rows what a reader would count.         *)
(***************************************************************************)
Total(totals, Count(_)) == FoldLeft(LAMBDA n, t : n + Count(t), 0, totals)
SummariesAgree(b) ==
  LET rows == SummaryRows(b)
      stats == Stats(rows)
      perProcess == ProcessTotals(rows)
  IN /\ stats.total = Len(b.view) /\ Total(perProcess, LAMBDA t : t.total) = stats.total
     /\ FoldFunction(+, 0, stats.rate) = stats.total
     /\ FoldFunction(+, 0, stats.net) = stats.network
     /\ Total(perProcess, LAMBDA t : t.network) = stats.network
     /\ \A kind \in DOMAIN Groups :
          LET paths == PathTotals(kind, rows)
          IN /\ Total(paths, LAMBDA t : t.total)
                = CountOf(rows, LAMBDA r : r.category = kind /\ r.path # <<>>)
             /\ kind # "file" => \A i \in DOMAIN paths :
                  paths[i].a + paths[i].b <= paths[i].total
             /\ LET drawn == Listed(paths, LAMBDA t : t.path, b.search)
                IN Len(drawn) < MaxRows =>
                     Total(drawn, LAMBDA t : t.total)
                     = CountOf(rows, LAMBDA r : /\ r.category = kind /\ r.path # <<>>
                                                /\ ContainsCi(r.path, b.search))
     /\ \A i \in DOMAIN CrossRefs(rows) :
          CrossRefs(rows)[i].total >= Cardinality(CrossRefs(rows)[i].procs)
     /\ \A scope \in Scopes : Len(RowsToSave(b, scope, TRUE)) = SaveCounts(b)[scope]
=============================================================================
