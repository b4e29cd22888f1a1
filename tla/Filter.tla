------------------------------- MODULE Filter -------------------------------
(***************************************************************************)
(* The filter engine (crates/sdk/src/filter.rs) over the columns of an      *)
(* event: rules compare a column with a value; the display filter shows or  *)
(* hides an event, the highlight filter marks it.  An optional value is a   *)
(* sequence of at most one text.  An event never leaves its process: it is  *)
(* a pair [e, row].                                                         *)
(***************************************************************************)
EXTENDS PmlReader

CONSTANTS Numbers,   \* the integers a text may spell
          Lower,     \* unit -> the same unit in lower case
          Collation  \* the units in lexical order

None == <<>>
Some(text) == <<text>>
NumberText(n) == <<ToString(n)>>
\* str::parse::<i64>
ParseNumber(text) == {n \in Numbers : NumberText(n) = text}

IsLive(row) == "meta" \in DOMAIN row
NonEmpty(text) == IF text = <<>> THEN None ELSE Some(text)

(***************************************************************************)
(* Columns.  A live record lends its metadata once the worker resolved it;  *)
(* a row of a file always has a (possibly empty) text.                      *)
(***************************************************************************)
MetaText(row, field) ==
  CASE ~IsLive(row) -> Some(row[field])
    [] row.meta = Pending \/ row.meta[field] = <<>> -> None
    [] OTHER -> Some(row.meta[field])
ProcessName(row) == IF IsLive(row) THEN Basename(row.image) ELSE row.name
ArchText(row) == IF (IF IsLive(row) THEN row.wow ELSE ~row.is64)
                 THEN <<"32-bit">> ELSE <<"64-bit">>

ProcessColumn(row, column) ==
  CASE row = NoRow -> None
    [] column = "ProcessName" -> Some(ProcessName(row))
    [] column = "ImagePath" -> NonEmpty(row.image)
    [] column = "CommandLine" -> NonEmpty(row.cmd)
    [] column = "ParentPid" -> Some(NumberText(row.parent))
    [] column = "Architecture" -> Some(ArchText(row))
    [] column = "Integrity" -> Some(row.integrity)
    [] column = "User" -> Some(row.user)
    [] column = "Company" -> MetaText(row, "company")
    [] column = "Version" -> MetaText(row, "version")
    [] column = "Description" -> MetaText(row, "description")
    [] OTHER -> None

ResultText(e) == IF IsNet(e) \/ StatusRaw(e) = 0 THEN <<"SUCCESS">>
                 ELSE NumberText(StatusRaw(e))
OperationName(e) == IF IsNet(e) THEN <<e.net.op>> ELSE <<e.pre.notify>>
TicksText(n) == IF n = NoTicks THEN None ELSE Some(NumberText(n))
DetailText(e) ==
  LET Text(detail) == IF detail = <<>> THEN <<>> ELSE <<ToString(detail)>>
  IN Text(DetailOf(e))

FilterField(x, column) ==
  CASE column = "Operation" -> Some(OperationName(x.e))
    [] column = "Path" -> NonEmpty(Path(x.e, x.row))
    [] column = "Result" -> Some(ResultText(x.e))
    [] column = "Detail" -> Some(DetailText(x.e))
    [] column = "Class" -> Some(<<Class(x.e)>>)
    [] column = "Pid" -> Some(NumberText(Pid(x.e, x.row)))
    [] column = "Tid" -> Some(NumberText(ThreadId(x.e)))
    [] column = "Date" -> Some(NumberText(TimeRaw(x.e)))
    [] column = "CompletionTime" -> TicksText(EndTimeRaw(x.e))
    [] column = "Duration" -> TicksText(DurationTicks(x.e))
    [] OTHER -> ProcessColumn(x.row, column)

\* Integer columns also have a number: a set of at most one integer.
FilterNumber(x, column) ==
  CASE column = "Pid" -> {Pid(x.e, x.row)}
    [] column = "Tid" -> {ThreadId(x.e)}
    [] column = "ParentPid" /\ x.row # NoRow -> {x.row.parent}
    [] OTHER -> {}

(***************************************************************************)
(* Relations, without regard to case.                                       *)
(***************************************************************************)
LowerCase(text) ==
  [i \in DOMAIN text |-> IF text[i] \in DOMAIN Lower THEN Lower[text[i]] ELSE text[i]]
Rank(unit) == IF Contains(Collation, unit)
              THEN CHOOSE i \in DOMAIN Collation : Collation[i] = unit ELSE 0
\* Lexical order; a proper prefix comes first.
LexLess(a, b) ==
  \E n \in 0..Len(a) :
    /\ n < Len(b) /\ \A i \in 1..n : Rank(a[i]) = Rank(b[i])
    /\ n < Len(a) => Rank(a[n + 1]) < Rank(b[n + 1])

CompareNumbers(relation, actual, expected) ==
  CASE relation = "Is" -> actual = expected
    [] relation = "IsNot" -> actual # expected
    [] relation = "LessThan" -> actual < expected
    [] OTHER -> actual > expected

NumericLess(a, b) == \E x \in ParseNumber(a), y \in ParseNumber(b) : x < y
BothNumbers(a, b) == ParseNumber(a) # {} /\ ParseNumber(b) # {}
CiLess(a, b) == IF BothNumbers(a, b) THEN NumericLess(a, b) ELSE LexLess(a, b)

RelationMatches(relation, rawActual, rawExpected) ==
  LET Within(a, b) == \E i \in 0..Len(a) : IsPrefix(b, SubSeq(a, i + 1, Len(a)))
      Related(a, b) ==
        CASE relation = "Is" -> a = b
          [] relation = "IsNot" -> a # b
          [] relation = "Contains" -> Within(a, b)
          [] relation = "Excludes" -> ~Within(a, b)
          [] relation = "BeginsWith" -> IsPrefix(b, a)
          [] relation = "EndsWith" -> IsSuffix(b, a)
          [] relation = "LessThan" -> CiLess(a, b)
          [] OTHER -> CiLess(b, a)
  IN Related(LowerCase(rawActual), LowerCase(rawExpected))

\* Equality and order of an integer column compare numbers; everything else,
\* and a value that is no number, compares texts.  No value never matches.
NumericRelations == {"Is", "IsNot", "LessThan", "MoreThan"}
Compare(relation, value, numbers, texts) ==
  IF relation \in NumericRelations /\ numbers # {} /\ ParseNumber(value) # {}
  THEN \E n \in numbers, v \in ParseNumber(value) : CompareNumbers(relation, n, v)
  ELSE texts # None /\ RelationMatches(relation, texts[1], value)

ClauseMatches(x, column, relation, value) ==
  Compare(relation, value, FilterNumber(x, column), FilterField(x, column))

NumericFields == {"NetBytes", "RemotePort", "LocalPort"}
FieldText(value) == IF Len(value) = 0 THEN None ELSE Some(value)
StructNumber(x, name) ==
  IF name \in NumericFields /\ IsNet(x.e)
  THEN UNION {ParseNumber(NumberText(n)) : n \in {StructField(x.e, name)[1]}} ELSE {}
StructText(x, name) ==
  LET Text(value) == IF value = <<>> THEN None ELSE Some(<<ToString(value[1])>>)
  IN Text(StructField(x.e, name))
ClauseMatchesNamed(x, name, relation, value) ==
  Compare(relation, value, StructNumber(x, name), StructText(x, name))

(***************************************************************************)
(* Rules and the sets made of them.                                         *)
(***************************************************************************)
Rule(column, relation, value, action) ==
  [column |-> column, relation |-> relation, value |-> value, action |-> action,
   enabled |-> TRUE]
SameRule(r, s) == /\ r.column = s.column /\ r.relation = s.relation
                  /\ r.action = s.action /\ LowerCase(r.value) = LowerCase(s.value)
HasRule(rules, r) == \E i \in DOMAIN rules : SameRule(rules[i], r)
AddRule(rules, r) == IF HasRule(rules, r) THEN rules ELSE Append(rules, r)
AddFront(rules, r) == IF HasRule(rules, r) THEN rules ELSE <<r>> \o rules
RemoveRule(rules, i) == IF i \in DOMAIN rules THEN RemoveAt(rules, i) ELSE rules

\* One pass in list order: an exclusion that hits ends it.
RuleStep(acc, r, x) ==
  LET Then(hit) == IF r.action = "Exclude" THEN [acc EXCEPT !.done = hit]
                   ELSE [acc EXCEPT !.hasInclude = TRUE, !.includeHit = @ \/ hit]
  IN IF acc.done \/ ~r.enabled THEN acc
     ELSE Then(ClauseMatches(x, r.column, r.relation, r.value))
RunRules(rules, x) ==
  FoldLeft(LAMBDA acc, r : RuleStep(acc, r, x),
           [done |-> FALSE, hasInclude |-> FALSE, includeHit |-> FALSE], rules)

Matches(rules, x) ==
  LET Shows(end) == ~end.done /\ (~end.hasInclude \/ end.includeHit)
  IN Shows(RunRules(rules, x))
Highlights(rules, x) ==
  LET Marks(end) == ~end.done /\ end.includeHit IN Marks(RunRules(rules, x))

\* The exclusions of the normal view; the names stand for the groups of
\* executables, bookkeeping operations and metadata files the code lists.
Exclude(column, relation, value) == Rule(column, relation, value, "Exclude")
DefaultDisplayFilter ==
  <<Exclude("ProcessName", "Is", <<"procmon-cli.exe">>),
    Exclude("ProcessName", "Is", <<"System">>),
    Exclude("Operation", "BeginsWith", <<"fastio">>),
    Exclude("Result", "BeginsWith", <<"fastio">>),
    Exclude("Path", "EndsWith", <<"pagefile.sys">>),
    Exclude("Path", "Contains", <<"$Extend">>)>>
=============================================================================
