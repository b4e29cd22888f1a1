-------------------------------- MODULE Query --------------------------------
(***************************************************************************)
(* The filter language of the command line (crates/core/src/query.rs): a    *)
(* text is a sequence of pieces (a special character, a blank or a word),   *)
(* read into tokens, then into an expression over clauses; and the group-by *)
(* accumulator.                                                             *)
(***************************************************************************)
EXTENDS Filter

CONSTANTS ColumnOf,  \* normalized label -> column
          Aliases,   \* short name -> normalized label
          FieldOf    \* normalized name -> structured field

(***************************************************************************)
(* Expressions                                                              *)
(***************************************************************************)
Column(name) == [ext |-> FALSE, name |-> name]
Ext(name) == [ext |-> TRUE, name |-> name]
Clause(field, relation, values) ==
  [op |-> "clause", field |-> field, relation |-> relation, values |-> values]
Not(e) == [op |-> "not", args |-> <<e>>]
And(args) == [op |-> "and", args |-> args]
Or(args) == [op |-> "or", args |-> args]

ValueText(field, x) ==
  IF field.ext THEN StructText(x, field.name) ELSE FilterField(x, field.name)
ValueNumber(field, x) ==
  IF field.ext THEN StructNumber(x, field.name) ELSE FilterNumber(x, field.name)
FieldMatches(field, x, relation, value) ==
  IF field.ext THEN ClauseMatchesNamed(x, field.name, relation, value)
  ELSE ClauseMatches(x, field.name, relation, value)

\* A clause of several values is a disjunction.
ClauseHolds(c, x) ==
  \E i \in DOMAIN c.values : FieldMatches(c.field, x, c.relation, c.values[i])

RECURSIVE Holds(_, _)
Holds(e, x) ==
  CASE e.op = "clause" -> ClauseHolds(e, x)
    [] e.op = "not" -> ~Holds(e.args[1], x)
    [] e.op = "and" -> \A i \in DOMAIN e.args : Holds(e.args[i], x)
    [] e.op = "or" -> \E i \in DOMAIN e.args : Holds(e.args[i], x)

(***************************************************************************)
(* Tokens                                                                   *)
(***************************************************************************)
Tok(kind, val) == [kind |-> kind, val |-> val]
Blank == " "
Quote == "\""
\* Two pieces that make one token are tried before their first alone.
TwoPieces == [AmpAmp |-> <<"&", "&">>, PipePipe |-> <<"|", "|">>]
TwoRelations == [Excludes |-> <<"!", "~">>, IsNot |-> <<"!", "=">>, Is |-> <<"=", "=">>,
                 Differs |-> <<"<", ">">>, BeginsWith |-> <<"^", "=">>,
                 EndsWith |-> <<"$", "=">>]
OnePiece == [LParen |-> "(", RParen |-> ")", Comma |-> ",", Bang |-> "!"]
OneRelation == [Is |-> "=", LessThan |-> "<", MoreThan |-> ">", Contains |-> "~"]
Alone == {"^", "$", "&", "|"}  \* characters that are no token by themselves
Relations == {"Is", "IsNot", "LessThan", "MoreThan", "BeginsWith", "EndsWith",
              "Contains", "Excludes"}
RelTok(name) == Tok("rel", IF name = "Differs" THEN "IsNot" ELSE name)
Bad == Tok("bad", <<>>)
Named(table, v) == {n \in DOMAIN table : table[n] = v}
The(set) == CHOOSE x \in set : TRUE

\* The token that starts at i and the position after it.
Lex(pieces, i) ==
  LET two == SubSeq(pieces, i, Min({i + 1, Len(pieces)}))
      ends == {j \in i + 1..Len(pieces) : pieces[j] = Quote}
      close == CHOOSE j \in ends : \A k \in ends : j <= k
  IN CASE pieces[i] = Quote /\ ends = {} -> <<Bad, i + 1>>
       [] pieces[i] = Quote /\ ends # {} ->
            <<Tok("quoted", SubSeq(pieces, i + 1, close - 1)), close + 1>>
       [] Named(TwoPieces, two) # {} -> <<Tok(The(Named(TwoPieces, two)), <<>>), i + 2>>
       [] Named(TwoRelations, two) # {} -> <<RelTok(The(Named(TwoRelations, two))), i + 2>>
       [] Named(OnePiece, pieces[i]) # {} ->
            <<Tok(The(Named(OnePiece, pieces[i])), <<>>), i + 1>>
       [] Named(OneRelation, pieces[i]) # {} ->
            <<RelTok(The(Named(OneRelation, pieces[i]))), i + 1>>
       [] pieces[i] \in Alone -> <<Bad, i + 1>>
       [] OTHER -> <<Tok("bare", <<pieces[i]>>), i + 1>>

Tokenize(pieces) ==
  LET from[i \in 1..Len(pieces) + 1] ==
        IF i > Len(pieces) THEN <<>>
        ELSE IF pieces[i] = Blank THEN from[i + 1]
        ELSE <<Lex(pieces, i)[1]>> \o from[Lex(pieces, i)[2]]
  IN from[1]

(***************************************************************************)
(* Names of columns                                                         *)
(***************************************************************************)
NoField == Column("none")
Norm(text) == FoldLeft(LAMBDA name, unit : name \o unit, "",
                       SelectSeq(LowerCase(text), LAMBDA unit : unit # Blank))
Unaliased(name) == IF name \in DOMAIN Aliases THEN Aliases[name] ELSE name
ColumnNamed(name) == IF name \in DOMAIN ColumnOf THEN Column(ColumnOf[name]) ELSE NoField
ParseColumn(text) == ColumnNamed(Unaliased(Norm(text)))
ParseField(text) ==
  LET Else(column, name) == IF column = NoField /\ name \in DOMAIN FieldOf
                            THEN Ext(FieldOf[name]) ELSE column
  IN Else(ParseColumn(text), Norm(text))

(***************************************************************************)
(* The parser: or > and > not > primary.  A result is [ok, expr, pos].      *)
(***************************************************************************)
Fail == [ok |-> FALSE, expr |-> <<>>, pos |-> 0]
Done(expr, pos) == [ok |-> TRUE, expr |-> expr, pos |-> pos]
Peek(toks, pos) == IF pos <= Len(toks) THEN toks[pos] ELSE Tok("end", <<>>)
IsWord(t, word) == t.kind = "bare" /\ LowerCase(t.val) = <<word>>
EatLogical(t, kind, word) == t.kind = kind \/ IsWord(t, word)
IsValue(t) == t.kind \in {"bare", "quoted"}

\* in ( value , value ... ): the values from pos, up to the parenthesis.
ParseList(toks, pos) ==
  LET from[p \in pos..Len(toks) + 1] ==
        IF ~IsValue(Peek(toks, p)) THEN Fail
        ELSE CASE Peek(toks, p + 1).kind = "RParen" -> Done(<<toks[p].val>>, p + 2)
               [] Peek(toks, p + 1).kind = "Comma" /\ from[p + 2].ok ->
                    Done(<<toks[p].val>> \o from[p + 2].expr, from[p + 2].pos)
               [] OTHER -> Fail
  IN from[pos]

OneOf(field, list) == IF list.ok THEN Done(Clause(field, "Is", list.expr), list.pos) ELSE Fail
ParseRelation(toks, pos, field, second) ==
  CASE field = NoField -> Fail
    [] IsWord(second, "in") /\ Peek(toks, pos + 2).kind = "LParen" ->
         OneOf(field, ParseList(toks, pos + 3))
    [] second.kind = "rel" /\ IsValue(Peek(toks, pos + 2)) ->
         Done(Clause(field, second.val, <<toks[pos + 2].val>>), pos + 3)
    [] OTHER -> Fail
ParseClause(toks, pos) ==
  IF IsValue(Peek(toks, pos))
  THEN ParseRelation(toks, pos, ParseField(Peek(toks, pos).val), Peek(toks, pos + 1))
  ELSE Fail

OneOr(Join(_), parts) == IF Len(parts) = 1 THEN parts[1] ELSE Join(parts)

RECURSIVE ParseOr(_, _)
ParsePrimary(toks, pos) ==
  LET Closed(inner) == IF inner.ok /\ Peek(toks, inner.pos).kind = "RParen"
                       THEN Done(inner.expr, inner.pos + 1) ELSE Fail
  IN IF Peek(toks, pos).kind = "LParen" THEN Closed(ParseOr(toks, pos + 1))
     ELSE ParseClause(toks, pos)

Negated(inner) == IF inner.ok THEN Done(Not(inner.expr), inner.pos) ELSE Fail
\* Broken: a negation takes the rest of the expression.
ParseNotWide(toks, pos) ==
  IF EatLogical(Peek(toks, pos), "Bang", "not") THEN Negated(ParseOr(toks, pos + 1))
  ELSE ParsePrimary(toks, pos)
RECURSIVE ParseNot(_, _)
ParseNot(toks, pos) ==
  IF EatLogical(Peek(toks, pos), "Bang", "not") THEN Negated(ParseNot(toks, pos + 1))
  ELSE ParsePrimary(toks, pos)

\* One or more operands separated by an operator: their list.
Preceding(first, rest) ==
  IF rest.ok THEN Done(<<first.expr>> \o rest.expr, rest.pos) ELSE Fail
RECURSIVE ParseAnds(_, _)
ParseAnds(toks, pos) ==
  LET More(first) ==
        CASE ~first.ok -> Fail
          [] EatLogical(Peek(toks, first.pos), "AmpAmp", "and") ->
               Preceding(first, ParseAnds(toks, first.pos + 1))
          [] OTHER -> Done(<<first.expr>>, first.pos)
  IN More(ParseNot(toks, pos))
ParseAnd(toks, pos) ==
  LET Joined(all) == IF all.ok THEN Done(OneOr(And, all.expr), all.pos) ELSE Fail
  IN Joined(ParseAnds(toks, pos))

RECURSIVE ParseOrs(_, _)
ParseOrs(toks, pos) ==
  LET More(first) ==
        CASE ~first.ok -> Fail
          [] EatLogical(Peek(toks, first.pos), "PipePipe", "or") ->
               Preceding(first, ParseOrs(toks, first.pos + 1))
          [] OTHER -> Done(<<first.expr>>, first.pos)
  IN More(ParseAnd(toks, pos))
ParseOr(toks, pos) ==
  LET Joined(all) == IF all.ok THEN Done(OneOr(Or, all.expr), all.pos) ELSE Fail
  IN Joined(ParseOrs(toks, pos))

Whole(toks, end) == IF end.ok /\ end.pos = Len(toks) + 1 THEN end ELSE Fail
ParseTokens(toks) == IF toks = <<>> \/ Contains(toks, Bad) THEN Fail
                     ELSE Whole(toks, ParseOr(toks, 1))
ParseFilter(pieces) ==
  ParseTokens(Tokenize(pieces))

(***************************************************************************)
(* Group-by: one bucket per combination of values, in order of first sight. *)
(***************************************************************************)
NewBucket(values) == [values |-> values, count |-> 0, procs |-> {}, sum |-> 0, n |-> 0,
                      min |-> NoTicks, max |-> NoTicks, first |-> NoTicks, last |-> NoTicks]

AddMetric(b, numbers, time) ==
  LET timed == [b EXCEPT !.first = IF @ = NoTicks THEN time ELSE @, !.last = time]
      n == CHOOSE n \in numbers : TRUE
  IN IF numbers = {} THEN timed
     ELSE [timed EXCEPT !.sum = @ + n, !.n = @ + 1,
                        !.min = IF b.n = 0 \/ n < @ THEN n ELSE @,
                        !.max = IF b.n = 0 \/ n > @ THEN n ELSE @]

\* metric is a field, or NoField.
AddToBucket(b, cols, metric, x) ==
  LET named == IF Column("Path") \in {cols[i] : i \in DOMAIN cols} /\ x.row # NoRow
               THEN {ProcessName(x.row)} ELSE {}
      counted == [b EXCEPT !.count = @ + 1, !.procs = @ \union named]
  IN IF metric = NoField THEN counted
     ELSE AddMetric(counted, ValueNumber(metric, x), TimeRaw(x.e))

\* i is the place of the bucket, or 0 when the combination is new.
WithBucket(buckets, values, i) ==
  IF i # 0 THEN buckets ELSE Append(buckets, NewBucket(values))
ObserveAt(buckets, i, cols, metric, x) ==
  [buckets EXCEPT ![IF i # 0 THEN i ELSE Len(buckets)] = AddToBucket(@, cols, metric, x)]
ObserveValues(buckets, values, cols, metric, x) ==
  LET i == SelectInSeq(buckets, LAMBDA b : b.values = values)
  IN ObserveAt(WithBucket(buckets, values, i), i, cols, metric, x)
ObserveTexts(buckets, texts, cols, metric, x) ==
  IF \E c \in DOMAIN cols : texts[c] = None THEN buckets
  ELSE ObserveValues(buckets, [c \in DOMAIN cols |-> texts[c][1]], cols, metric, x)
Observe(buckets, cols, metric, x) ==
  ObserveTexts(buckets, [c \in DOMAIN cols |-> ValueText(cols[c], x)], cols, metric, x)

ValuesLess(a, b) ==
  \E i \in DOMAIN a : /\ LexLess(a[i], b[i])
                      /\ \A j \in 1..i - 1 : a[j] = b[j]
IntoRows(buckets) ==
  SortSeq(buckets, LAMBDA a, b : \/ a.count > b.count
                                 \/ a.count = b.count /\ ValuesLess(a.values, b.values))
=============================================================================
