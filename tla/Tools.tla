-------------------------------- MODULE Tools --------------------------------
(***************************************************************************)
(* What the MCP server does to an answer before it reaches the model's      *)
(* context (cli/src/mcp.rs): long texts are clipped, and a page that is too *)
(* large loses rows at its end and is marked truncated, so that the client  *)
(* asks for what follows the rows it was given.                             *)
(***************************************************************************)
EXTENDS Analyze

CONSTANTS MaxField,       \* a path, a detail or a group's value
          MaxQueryLimit,  \* rows of one answer
          Budget          \* size of one answer

Clip(text, max) ==
  IF Len(text) <= max THEN text ELSE Append(SubSeq(text, 1, max), "...")
ClipEvent(e) ==
  [e EXCEPT !.path = Clip(@, MaxField),
            !.detail = IF @ = None THEN None ELSE Some(Clip(@[1], MaxField))]
ClipGroup(g) ==
  [g EXCEPT !.values = [i \in DOMAIN @ |-> Clip(@[i], MaxField)]]

\* The serialized length of rows, counted in the cells of their long texts.
RowSize(e) == 1 + Len(e.path) + Len(OrEmpty(e.detail))
GroupSize(g) == 1 + FoldLeft(LAMBDA n, v : n + Len(v), 0, g.values)
AnswerSize(res) ==
  FoldLeft(LAMBDA n, e : n + RowSize(e), 0, res.events)
  + FoldLeft(LAMBDA n, g : n + GroupSize(g), 0, res.groups)

Shorter(res, keep) ==
  [res EXCEPT !.truncated = TRUE,
              !.events = SubSeq(@, 1, Min({keep, Len(@)})),
              !.groups = SubSeq(@, 1, Min({keep, Len(@)}))]
Rows(res) == Max({Len(res.events), Len(res.groups)})

\* Rows are dropped until the answer fits or one is left: nine tenths of the
\* share that would fit, at least one row less each time.
Keep(rows, size) ==
  Max({1, Min({(rows * Budget * 9) \div (size * 10), rows - 1})})
RECURSIVE FitWithin(_)
FitWithin(res) ==
  IF AnswerSize(res) <= Budget \/ Rows(res) <= 1 THEN res
  ELSE FitWithin(Shorter(res, Keep(Rows(res), AnswerSize(res))))

Fitted(res) ==
  FitWithin([res EXCEPT !.events = [i \in DOMAIN @ |-> ClipEvent(@[i])],
                        !.groups = [i \in DOMAIN @ |-> ClipGroup(@[i])]])

QueryTool(file, q) == Fitted(RunQuery(file, [q EXCEPT !.limit = Min({@, MaxQueryLimit})]))
TimelineTool(file, pid, includeReads, limit) ==
  Fitted(ProcessTimeline(file, pid, includeReads, Min({limit, MaxQueryLimit})))

WindowTool(file, seq, before, after, sameProcess) ==
  EventWindow(file, seq, Min({before, MaxQueryLimit}), Min({after, MaxQueryLimit}),
              sameProcess)

\* list_processes turns pages of its own
ListTool(all, offset, limit) ==
  LET page == Page(all, offset, limit)
  IN [total |-> Len(all), offset |-> offset, returned |-> Len(page),
      truncated |-> offset + limit < Len(all), processes |-> page]

\* the tree keeps pid, parent and name; the answer counts its nodes
RECURSIVE CountTree(_)
CountTree(nodes) ==
  FoldLeft(LAMBDA n, node : n + 1 + CountTree(node.children), 0, nodes)
=============================================================================
