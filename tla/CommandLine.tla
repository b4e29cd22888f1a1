---------------------------- MODULE CommandLine ----------------------------
(***************************************************************************)
(* How the arguments of a capture reach the elevated worker: build_worker_ *)
(* args lists them, relaunch_elevated joins them into the one string that  *)
(* ShellExecuteExW takes, the worker's runtime splits that string again.   *)
(* Texts are sequences of characters; of the arguments only the filter is  *)
(* free text, the words stand for the options around it.                   *)
(***************************************************************************)
EXTENDS Integers, Sequences, SequencesExt

Quote == "q"     \* the quotation mark
Slash == "\\"    \* the backslash
Blank == " "     \* white space
Option == "o"    \* an option name, and a value without any of these

\* capture --filter <text> --duration ...; an absent filter is left out
WorkerArgs(t) ==
  IF t = << >> THEN << <<Option>>, <<Option>> >>
  ELSE << <<Option>>, <<Option, Option>>, t, <<Option>> >>

\* format!("\"{}\"", a.replace('"', "\\\""))
Quoted(a) ==
  <<Quote>> \o FlattenSeq([i \in DOMAIN a |-> IF a[i] = Quote
                                              THEN <<Slash, Quote>>
                                              ELSE <<a[i]>>]) \o <<Quote>>

CommandLine(args) ==
  FlattenSeq([i \in DOMAIN args |->
                IF i = 1 THEN Quoted(args[i]) ELSE <<Blank>> \o Quoted(args[i])])

\* The rule of the Windows runtime: 2n backslashes before a quotation mark
\* stand for n of them and the mark toggles quoting, 2n+1 for n and the mark
\* itself; elsewhere a backslash is a backslash; white space outside quotes
\* ends an argument.  Two marks in a row inside quotes stand for one of them.
Slashes(n) == [i \in 1 .. n |-> Slash]

ParseChar(s, ch) ==
  LET even == s.pending % 2 = 0
      half == s.cur \o Slashes(s.pending \div 2)
      all == s.cur \o Slashes(s.pending)
      t == [s EXCEPT !.pending = 0, !.open = TRUE, !.closing = FALSE] IN
  CASE ch = Slash -> [t EXCEPT !.pending = s.pending + 1]
    [] ch = Quote /\ (s.closing \/ ~even) ->
         [t EXCEPT !.cur = Append(half, Quote), !.quoting = s.quoting \/ s.closing]
    [] ch = Quote /\ even /\ ~s.closing ->
         [t EXCEPT !.cur = half, !.quoting = ~@, !.closing = s.quoting]
    [] ch = Blank /\ ~s.quoting ->
         [t EXCEPT !.args = IF s.open THEN Append(@, all) ELSE @,
                   !.cur = << >>, !.open = FALSE]
    [] OTHER -> [t EXCEPT !.cur = Append(all, ch)]

ParseLine(line) ==
  LET s == FoldLeft(ParseChar,
                    [args |-> << >>, cur |-> << >>, pending |-> 0,
                     quoting |-> FALSE, closing |-> FALSE, open |-> FALSE], line)
  IN IF s.open THEN Append(s.args, s.cur \o Slashes(s.pending)) ELSE s.args

\* clap takes the option's next argument as its value and refuses what is
\* left over or missing
Accepted(argv) ==
  /\ Len(argv) \in {2, 4}
  /\ \A i \in DOMAIN argv : i # 3 => argv[i] \in {<<Option>>, <<Option, Option>>}
FilterOf(argv) == IF Len(argv) = 4 THEN argv[3] ELSE << >>

=============================================================================
