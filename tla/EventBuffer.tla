---------------------------- MODULE EventBuffer ----------------------------
(***************************************************************************)
(* The rows a session retains and the view of them the table draws          *)
(* (crates/gui/src/model/buffer.rs, filter.rs and domain.rs).  A row is     *)
(* [ev, seq, marked, noted]: its event, its number, whether the highlight   *)
(* rules mark it and whether it is bookmarked.  Of an event the buffer sees *)
(* [category, time, size, pid, name, operation, path, result, cells],       *)
(* where cells are the texts a search looks into: sequences of units.       *)
(***************************************************************************)
EXTENDS Integers, SequencesExt, TLC

CONSTANTS Fold,         \* unit -> the same unit in lower case
          MinBatch,     \* rows worth a removal from the front (1024 in the code)
          DefaultRules  \* the exclusions of the normal view
ASSUME RulesAssumption ==
  DefaultRules \in Seq({DefaultRules[i] : i \in DOMAIN DefaultRules})

Categories == {"registry", "file", "network", "process", "profiling"}
DefaultToggles == [c \in Categories |-> c # "profiling"]
Unbounded == [max |-> -1, age |-> 0]
CategoryEnabled(category, monitor) == category \in Categories => monitor[category]

(***************************************************************************)
(* Rules over the columns of a row, as module Filter has them: any          *)
(* exclusion hides the row; with inclusions, one of them must match.        *)
(***************************************************************************)
RowRule(column, relation, value, action) ==
  [column |-> column, relation |-> relation, value |-> value, action |-> action,
   enabled |-> TRUE]
Hit(ev, r) == CASE r.relation = "Is" -> ev[r.column] = r.value
                [] r.relation = "LessThan" -> ev[r.column] < r.value
                [] OTHER -> ev[r.column] > r.value
Live(rules, action) == {i \in DOMAIN rules : rules[i].enabled /\ rules[i].action = action}
Excluded(rules, ev) == \E i \in Live(rules, "Exclude") : Hit(ev, rules[i])
Included(rules, ev) == \E i \in Live(rules, "Include") : Hit(ev, rules[i])
RulesMatch(rules, ev) ==
  ~Excluded(rules, ev) /\ (Live(rules, "Include") = {} \/ Included(rules, ev))
RulesMark(rules, ev) == ~Excluded(rules, ev) /\ Included(rules, ev)

\* The elements of a sequence that are in a set, in their order.
Retained(seq, set) ==
  LET upto[n \in 0..Len(seq)] ==
        IF n = 0 THEN <<>>
        ELSE IF seq[n] \in set THEN Append(upto[n - 1], seq[n]) ELSE upto[n - 1]
  IN upto[Len(seq)]

Same(r, s) == [r EXCEPT !.enabled = TRUE] = [s EXCEPT !.enabled = TRUE]
Holds(rules, r) == \E i \in DOMAIN rules : Same(rules[i], r)
AddFirst(rules, r) == IF Holds(rules, r) THEN rules ELSE <<r>> \o rules

\* The default exclusions are stripped, and put back behind the user's rules.
AdvancedOn(rules) == \E i \in DOMAIN DefaultRules : ~Holds(rules, DefaultRules[i])
SetAdvanced(rules, on) ==
  Retained(rules, {rules[i] : i \in {j \in DOMAIN rules : ~Holds(DefaultRules, rules[j])}})
  \o (IF on THEN <<>> ELSE DefaultRules)

(***************************************************************************)
(* The search box: a text found in any of the row's cells, case ignored.    *)
(***************************************************************************)
Folded(text) == [i \in DOMAIN text |-> IF text[i] \in DOMAIN Fold THEN Fold[text[i]] ELSE text[i]]
ContainsCi(cell, text) ==
  \E i \in 0..Len(cell) : IsPrefix(Folded(text), Folded(SubSeq(cell, i + 1, Len(cell))))
SearchMatches(ev, text) == text = <<>> \/ \E cell \in ev.cells : ContainsCi(cell, text)

(***************************************************************************)
(* The buffer.                                                              *)
(***************************************************************************)
NewBuffer == [all |-> <<>>, view |-> <<>>, counts |-> [c \in Categories |-> 0],
              filter |-> <<>>, search |-> <<>>, monitor |-> DefaultToggles,
              highlight |-> <<>>, retention |-> Unbounded, bytes |-> 0]

Row(ev, seq) == [ev |-> ev, seq |-> seq, marked |-> FALSE, noted |-> FALSE]
Passes(b, ev) == /\ CategoryEnabled(ev.category, b.monitor)
                 /\ RulesMatch(b.filter, ev) /\ SearchMatches(ev, b.search)
Positions(b) == [i \in DOMAIN b.all |-> i]
PassingOf(b) == Retained(Positions(b), {i \in DOMAIN b.all : Passes(b, b.all[i].ev)})
RebuildView(b) == [b EXCEPT !.view = PassingOf(b)]

\* The row at a position of the table; positions count from 1.
Visible(b, ix) == b.all[b.view[ix]]
RowsAt(b, positions) == [k \in DOMAIN positions |-> b.all[positions[k]]]
Highlighted(b) == Retained(Positions(b), {i \in DOMAIN b.all : b.all[i].marked})
SizeOf(rows) ==
  LET upto[n \in 0..Len(rows)] == IF n = 0 THEN 0 ELSE upto[n - 1] + rows[n].ev.size
  IN upto[Len(rows)]

(***************************************************************************)
(* trim: the oldest rows outside the age window go, then as many as the     *)
(* byte budget asks, the newest excepted; a small removal waits unless the  *)
(* budget is exceeded by more than a quarter.                               *)
(***************************************************************************)
Outdated(b) ==
  LET n == Len(b.all)
      cutoff == b.all[n].ev.time - b.retention.age
      young == {i \in 1..n : b.all[i].ev.time >= cutoff}
  IN IF b.retention.age = 0 THEN 0 ELSE (CHOOSE i \in young : \A j \in young : i <= j) - 1
Left(b, drop) == b.bytes - SizeOf(SubSeq(b.all, 1, drop))
Surplus(b) ==
  LET n == Len(b.all)
      ok == {d \in Outdated(b)..n - 1 : Left(b, d) <= b.retention.max \/ d + 1 >= n}
  IN CHOOSE d \in ok : \A e \in ok : d <= e
HardOver(b) == b.bytes > b.retention.max + b.retention.max \div 4
Worthwhile(b, drop) == drop >= MinBatch /\ drop >= Len(b.all) \div 16

DrainStale(b, drop) ==   \* broken: the view keeps its old positions
  [b EXCEPT !.all = SubSeq(b.all, drop + 1, Len(b.all)), !.bytes = Left(b, drop),
            !.view = Retained(@, 1..Len(b.all) - drop)]
Drain(b, drop) ==
  LET seen == Retained(b.view, drop + 1..Len(b.all))
  IN [b EXCEPT !.all = SubSeq(b.all, drop + 1, Len(b.all)), !.bytes = Left(b, drop),
               !.view = [ix \in DOMAIN seen |-> seen[ix] - drop]]
Trim(b) ==
  IF b.retention = Unbounded \/ b.all = <<>> THEN b
  ELSE LET drop == Surplus(b)
       IN IF drop = 0 \/ ~(Worthwhile(b, drop) \/ HardOver(b)) THEN b ELSE Drain(b, drop)

Bump(counts, category) ==
  [c \in DOMAIN counts |-> IF c = category THEN counts[c] + 1 ELSE counts[c]]
Push(b, row) ==
  Trim([b EXCEPT !.counts = Bump(@, row.ev.category),
                 !.all = Append(@, [row EXCEPT !.marked = RulesMark(b.highlight, row.ev)]),
                 !.view = IF Passes(b, row.ev) THEN Append(@, Len(b.all) + 1) ELSE @,
                 !.bytes = @ + row.ev.size])

ClearRows(b) == [b EXCEPT !.all = <<>>, !.view = <<>>, !.bytes = 0,
                          !.counts = [c \in Categories |-> 0]]
SetRetention(b, retention) == Trim([b EXCEPT !.retention = retention])
SetRules(b, rules) == RebuildView([b EXCEPT !.filter = rules])
SetToggles(b, monitor) == RebuildView([b EXCEPT !.monitor = monitor])

\* A search that extends the last one narrows the view it finds.
Extends(text, old) ==
  Len(text) >= Len(old) /\ Folded(SubSeq(text, 1, Len(old))) = Folded(old)
SetSearch(b, text) ==
  LET next == [b EXCEPT !.search = text]
  IN IF ~Extends(text, b.search) THEN RebuildView(next)
     ELSE [next EXCEPT !.view =
             Retained(@, {i \in DOMAIN b.all : SearchMatches(b.all[i].ev, text)})]

SetMarks(b, rules) ==
  [b EXCEPT !.highlight = rules,
            !.all = [i \in DOMAIN b.all |->
                       [b.all[i] EXCEPT !.marked = RulesMark(rules, b.all[i].ev)]]]
ToggleRaw(b, ix) ==   \* broken: the table's position is taken for the row's
  IF ix \in DOMAIN b.all THEN [b EXCEPT !.all[ix].noted = ~@] ELSE b
ToggleNote(b, ix) ==
  IF ix \in DOMAIN b.view THEN [b EXCEPT !.all[b.view[ix]].noted = ~@] ELSE b

(***************************************************************************)
(* What the session relies on.                                              *)
(***************************************************************************)
\* The view lists exactly the rows that pass, in order; marks follow the
\* highlight rules; the byte count is that of the rows.
Consistent(b) ==
  /\ b.view = PassingOf(b)
  /\ \A i \in DOMAIN b.all : b.all[i].marked = RulesMark(b.highlight, b.all[i].ev)
  /\ b.bytes = SizeOf(b.all)
\* The limits hold up to what a deferred removal may leave.
WithinLimits(b) ==
  b.retention = Unbounded \/ Len(b.all) <= 1 \/ ~HardOver(b)
=============================================================================
