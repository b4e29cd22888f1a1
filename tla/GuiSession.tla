----------------------------- MODULE GuiSession -----------------------------
(***************************************************************************)
(* The session behind the window (crates/gui/src/app.rs): the state the UI  *)
(* thread keeps, the event source it owns (model/sdk_source.rs) and the     *)
(* source's relay thread, which feeds a bounded channel that the UI thread  *)
(* drains on a timer.  Handlers of the UI thread run one at a time; joining *)
(* the relay thread is the only place where one of them waits.              *)
(***************************************************************************)
EXTENDS Summaries

CONSTANTS
  ChannelCap,   \* messages the channel holds (8192 in the code)
  DrainMax,     \* messages a tick takes (4096 in the code)
  LiveFeed,     \* the events the driver reports, in order
  Files,        \* name -> [ok, events]: a capture file; NoEvent is undecodable
  FirstConfig,  \* the configuration found at start
  Configs,      \* configurations the user applies or imports
  Images,       \* background images that exist
  Units,        \* units a text is made of
  Searches, DialogRules, QuickActions, \* what the user may enter or pick
  MaxOps        \* handlers of the user that run

VARIABLES
  buf,     \* the retained rows and their view
  app,     \* capturing, selected, advanced, offline, config, image, symbols
  panel,   \* the detail panel: open, ev, gen, and the event its symbols are of
  tasks,   \* symbol resolutions under way: [gen, ev]
  src,     \* the event source and its relay thread
  chan,    \* the channel between them
  fed,     \* reports of the driver that were handed out
  menu,    \* the context menu: position, event and number of the row it was
           \* opened on, and (history) the oldest row's number then
  quota,   \* messages the tick under way may still take; 0 between ticks
  ui,      \* run, what stop was called for (quit or a file's name), or stuck
  shown,   \* history: numbers of the rows drained since the source began
  ops

vars == <<buf, app, panel, tasks, src, chan, fed, menu, quota, ui, shown, ops>>

NoEvent == [none |-> TRUE]
NoRow == [ev |-> NoEvent, seq |-> 0]
NoMenu == [ix |-> 0, ev |-> NoEvent, seq |-> 0, first |-> 0]
None == "none"

\* Events have a size, a time and texts; lists are lists; a file's name is no
\* state of the window; a configuration has these fields.
Reported == {LiveFeed[i] : i \in DOMAIN LiveFeed}
            \union UNION {{Files[f].events[i] : i \in DOMAIN Files[f].events} : f \in DOMAIN Files}
ASSUME EventsAssumption ==
  \A ev \in Reported \ {NoEvent} :
    ev.size \in Nat /\ ev.time \in Int /\ ev.cells \subseteq Seq(Units)
ASSUME InputsAssumption ==
  /\ LiveFeed \in Seq(Reported \ {NoEvent})
  /\ \A f \in DOMAIN Files :
       /\ Files[f].events \in Seq(Reported)
       /\ f \notin {"run", "quit", "closed", "stuck", "live"}
  /\ Searches \subseteq Seq(Units)
ASSUME ConfigAssumption ==
  \A c \in Configs \union {FirstConfig} :
    /\ DOMAIN c = {"boot", "ring", "max", "age", "dbghelp", "image"}
    /\ c.max \in Int /\ c.age \in Int
ASSUME BoundsAssumption == ChannelCap \in Nat \ {0} /\ DrainMax \in Nat \ {0}

(***************************************************************************)
(* Sources                                                                  *)
(***************************************************************************)
IdleRelay == [pc |-> "none", at |-> 1, seq |-> 1, row |-> NoRow]
\* flags_from: profiling has no flag of its own.
FlagsFrom(toggles) == {c \in Categories \ {"profiling"} : toggles[c]}
SdkSource == [kind |-> "live", open |-> FALSE, capturing |-> FALSE, stop |-> FALSE,
              flags |-> FlagsFrom(DefaultToggles), driver |-> {}, relay |-> IdleRelay]
PmlSource(f) == [SdkSource EXCEPT !.kind = f]

RowMessage(row) == [error |-> FALSE, row |-> row]
ErrorMessage == [error |-> TRUE, row |-> NoRow]

\* connect_and_run: the driver is connected and started and the relay thread
\* begins, or the user is told why not.
Connected(s, started) ==
  IF started THEN [s EXCEPT !.open = TRUE, !.driver = s.flags, !.relay.pc = "loop"] ELSE s
ConnectReport(c, started) == IF started THEN c ELSE Append(c, ErrorMessage)

\* set_capturing and start of the live source.
SetCapturing(s, on) == IF s.kind = "live" THEN [s EXCEPT !.capturing = on] ELSE s
NeedsConnect(s) == s.kind = "live" /\ s.capturing /\ ~s.open
\* start of a file source.
Opened(s) ==
  IF Files[s.kind].ok THEN [s EXCEPT !.open = TRUE, !.relay.pc = "loop"] ELSE s

\* The relay thread.  Live: one event, dropped while paused.
Goto(pc) == src' = [src EXCEPT !.relay.pc = pc]
Hold(ev) == src' = [src EXCEPT !.relay.pc = "send", !.relay.seq = @ + 1,
                               !.relay.row = Row(ev, src.relay.seq)]
RelayLive ==
  /\ src.kind = "live" /\ src.relay.pc = "loop"
  /\ IF src.stop THEN Goto("done") /\ UNCHANGED fed
     ELSE /\ fed < Len(LiveFeed)
          /\ fed' = fed + 1
          /\ LET ev == LiveFeed[fed + 1]
             IN IF src.capturing /\ ev.category \in src.driver THEN Hold(ev)
                ELSE UNCHANGED src
  /\ UNCHANGED <<buf, app, panel, tasks, chan, menu, quota, ui, shown, ops>>
\* The pipeline ended: the driver closed its port.
RelayLost == /\ src.kind = "live" /\ src.relay.pc = "loop" /\ Goto("done")
             /\ UNCHANGED <<buf, app, panel, tasks, chan, fed, menu, quota, ui, shown, ops>>
\* File: the next event that decodes, numbered in the order they are found.
RelayFile ==
  /\ src.kind # "live" /\ src.relay.pc = "loop"
  /\ LET events == Files[src.kind].events
         left == {i \in src.relay.at..Len(events) : events[i] # NoEvent}
         next == CHOOSE i \in left : \A j \in left : i <= j
     IN IF left = {} \/ src.stop THEN Goto("done")
        ELSE src' = [src EXCEPT !.relay = [pc |-> "send", at |-> next + 1, seq |-> @.seq + 1,
                                           row |-> Row(events[next], @.seq)]]
  /\ UNCHANGED <<buf, app, panel, tasks, chan, fed, menu, quota, ui, shown, ops>>
RelayTry ==   \* broken: a row that finds the channel full is dropped
  /\ src.relay.pc = "send"
  /\ chan' = IF Len(chan) < ChannelCap THEN Append(chan, RowMessage(src.relay.row)) ELSE chan
  /\ Goto("loop")
  /\ UNCHANGED <<buf, app, panel, tasks, fed, menu, quota, ui, shown, ops>>
RelaySend ==
  /\ src.relay.pc = "send" /\ Len(chan) < ChannelCap
  /\ chan' = Append(chan, RowMessage(src.relay.row)) /\ Goto("loop")
  /\ UNCHANGED <<buf, app, panel, tasks, fed, menu, quota, ui, shown, ops>>

(***************************************************************************)
(* Init: AppState::new with the default exclusions, then start_source.      *)
(***************************************************************************)
RetentionOf(config, offline) ==
  IF ~offline /\ config.ring THEN [max |-> config.max, age |-> config.age] ELSE Unbounded
\* load: history limits of at least one.
Sanitized(config) == [config EXCEPT !.max = IF @ < 1 THEN 1 ELSE @,
                                    !.age = IF @ < 1 THEN 1 ELSE @]
Resolved(config) == [config EXCEPT !.image = IF @ \in Images THEN @ ELSE None]

Init ==
  LET config == Resolved(Sanitized(FirstConfig))
  IN /\ app = [capturing |-> config.boot, selected |-> 0, advanced |-> FALSE, offline |-> FALSE,
               config |-> config, image |-> config.image, symbols |-> None]
     /\ buf = SetRetention(SetRules(NewBuffer, SetAdvanced(<<>>, FALSE)),
                           RetentionOf(config, FALSE))
     /\ panel = [open |-> FALSE, ev |-> NoEvent, gen |-> 0, symbols |-> NoEvent]
     /\ tasks = {} /\ fed = 0 /\ menu = NoMenu /\ quota = 0 /\ ui = "run"
     /\ shown = <<>> /\ ops = 0
     /\ \E started \in BOOLEAN :
          LET s == SetCapturing(SdkSource, config.boot)
          IN IF NeedsConnect(s)
             THEN src = Connected(s, started) /\ chan = ConnectReport(<<>>, started)
             ELSE src = s /\ chan = <<>>

(***************************************************************************)
(* The timer: rows go to the buffer, an error becomes a notice.             *)
(***************************************************************************)
Drained(b, m) == IF m.error THEN b ELSE Push(b, m.row)
\* A tick takes what the channel holds and what comes while it does, up to
\* DrainMax messages; the relay thread runs meanwhile, no handler does.
Tick ==
  /\ ui = "run" /\ chan # <<>>
  /\ chan' = Tail(chan) /\ buf' = Drained(buf, Head(chan))
  /\ shown' = IF Head(chan).error THEN shown ELSE Append(shown, Head(chan).row.seq)
  /\ quota' = (IF quota = 0 THEN DrainMax ELSE quota) - 1
  /\ UNCHANGED <<app, panel, tasks, src, fed, menu, ui, ops>>
TickEnds == /\ quota > 0 /\ chan = <<>> /\ quota' = 0
            /\ UNCHANGED <<buf, app, panel, tasks, src, chan, fed, menu, ui, shown, ops>>

(***************************************************************************)
(* Handlers of the user                                                     *)
(***************************************************************************)
Idle == ui = "run" /\ quota = 0
\* A click closes the context menu, on one of its items or anywhere else.
User == Idle /\ ops < MaxOps /\ ops' = ops + 1 /\ menu' = NoMenu /\ UNCHANGED quota
KeepSource == UNCHANGED <<src, chan, fed, ui, shown>>
KeepPanel == UNCHANGED <<panel, tasks>>

\* The UI thread reports a failed connection on the channel it drains itself:
\* with the channel full it would wait for ever.
ToggleCapture ==
  LET s == SetCapturing(src, ~app.capturing)
  IN /\ User /\ app' = [app EXCEPT !.capturing = ~@]
     /\ \E started \in BOOLEAN :
          IF ~NeedsConnect(s) THEN src' = s /\ UNCHANGED <<chan, ui>>
          ELSE IF started \/ Len(chan) < ChannelCap
          THEN /\ src' = Connected(s, started)
               /\ chan' = ConnectReport(chan, started) /\ UNCHANGED ui
          ELSE src' = s /\ ui' = "stuck" /\ UNCHANGED chan
     /\ UNCHANGED <<buf, fed, shown>> /\ KeepPanel

\* The selection stays; a live source takes the flags at its next start.
ToggleMonitor ==
  \E c \in Categories :
    LET monitor == [buf.monitor EXCEPT ![c] = ~@]
    IN /\ User /\ buf' = SetToggles(buf, monitor)
       /\ src' = IF src.kind = "live" THEN [src EXCEPT !.flags = FlagsFrom(monitor)] ELSE src
       /\ UNCHANGED <<app, chan, fed, ui, shown>> /\ KeepPanel

SetFilter(rules) ==
  /\ buf' = SetRules(buf, rules)
  /\ app' = [app EXCEPT !.advanced = AdvancedOn(rules), !.selected = 0]
  /\ KeepSource /\ KeepPanel

\* The filter dialog: a draft of the rules is edited and applied.
Drafts(rules) ==
  {<<r>> \o rules : r \in DialogRules} \union {<<>>}
  \union {RemoveAt(rules, i) : i \in DOMAIN rules}
  \union {[rules EXCEPT ![i].enabled = ~@] : i \in DOMAIN rules}
ApplyFilter == User /\ \E rules \in Drafts(buf.filter) : SetFilter(rules)
\* A right click opens the context menu on a row, which it does not select.
\* The timer goes on: rows come and go while the menu is open.
OpenMenu ==
  /\ Idle /\ ops < MaxOps
  /\ \E ix \in DOMAIN buf.view :
       menu' = [ix |-> ix, ev |-> Visible(buf, ix).ev, seq |-> Visible(buf, ix).seq,
                first |-> buf.all[1].seq]
  /\ UNCHANGED <<buf, app, quota, ops>> /\ KeepSource /\ KeepPanel
FromMenu == User /\ menu # NoMenu
\* A rule made from the menu's event; it changes nothing when it is listed.
QuickFilter ==
  /\ FromMenu
  /\ \E q \in QuickActions :
       LET r == RowRule(q.column, q.relation, menu.ev[q.column], q.action)
       IN ~Holds(buf.filter, r) /\ SetFilter(AddFirst(buf.filter, r))
ToggleAdvanced ==
  User /\ SetFilter(SetAdvanced(buf.filter, ~AdvancedOn(buf.filter)))

ApplyHighlight ==
  /\ User /\ \E rules \in Drafts(buf.highlight) : buf' = SetMarks(buf, rules)
  /\ UNCHANGED app /\ KeepSource /\ KeepPanel
AddHighlight ==
  LET name == menu.ev.name
      listed == \E i \in DOMAIN buf.highlight : /\ buf.highlight[i].column = "name"
                                                /\ buf.highlight[i].value = name
      r == RowRule("name", "Is", name, "Include")
  IN /\ FromMenu
     /\ buf' = SetMarks(buf, IF listed THEN buf.highlight ELSE Append(buf.highlight, r))
     /\ UNCHANGED app /\ KeepSource /\ KeepPanel

Search ==
  /\ User /\ \E text \in Searches \ {buf.search} : buf' = SetSearch(buf, text)
  /\ app' = [app EXCEPT !.selected = 0] /\ KeepSource /\ KeepPanel
ClearDisplay ==
  /\ User /\ buf' = ClearRows(buf)
  /\ app' = [app EXCEPT !.selected = 0] /\ KeepSource /\ KeepPanel

Bookmark ==
  /\ User /\ app.selected # 0 /\ buf' = ToggleNote(buf, app.selected)
  /\ UNCHANGED app /\ KeepSource /\ KeepPanel
\* The menu's item names the position the menu was opened on.
MenuBookmark ==
  /\ FromMenu /\ buf' = ToggleNote(buf, menu.ix)
  /\ UNCHANGED app /\ KeepSource /\ KeepPanel

(***************************************************************************)
(* The detail panel: the row is copied into it, and its call stack resolved *)
(* by a task that runs beside the UI thread.                                *)
(***************************************************************************)
ShowDetail(ix) ==
  LET ev == Visible(buf, ix).ev
      symbolize == ev.stack /\ app.config.dbghelp # None
      gen == panel.gen + 1
  IN /\ panel' = [open |-> TRUE, ev |-> ev, gen |-> gen, symbols |-> NoEvent]
     /\ tasks' = IF symbolize THEN tasks \union {[gen |-> gen, ev |-> ev]} ELSE tasks
     /\ app' = [app EXCEPT !.selected = ix,
                           !.symbols = IF symbolize /\ @ = None
                                       THEN app.config.dbghelp ELSE @]
\* A double click opens the panel, a click only moves it.
SelectRow == User /\ (\E ix \in DOMAIN buf.view : ShowDetail(ix)) /\ UNCHANGED buf /\ KeepSource
HighlightRow ==
  /\ User
  /\ \E ix \in DOMAIN buf.view :
       IF panel.open THEN ShowDetail(ix)
       ELSE app' = [app EXCEPT !.selected = ix] /\ KeepPanel
  /\ UNCHANGED buf /\ KeepSource
CloseDetail == /\ User /\ panel.open /\ panel' = [panel EXCEPT !.open = FALSE]
               /\ UNCHANGED <<buf, app, tasks>> /\ KeepSource

ApplySymbols(t) == IF t.gen = panel.gen THEN [panel EXCEPT !.symbols = t.ev] ELSE panel
Symbolized ==
  /\ Idle
  /\ \E t \in tasks, found \in BOOLEAN :
       /\ panel' = IF found THEN ApplySymbols(t) ELSE panel
       /\ tasks' = tasks \ {t}
  /\ UNCHANGED <<buf, app, menu, quota, ops>> /\ KeepSource

(***************************************************************************)
(* Settings                                                                 *)
(***************************************************************************)
TakeConfig(config, image) ==
  /\ app' = [app EXCEPT !.config = config, !.image = image, !.symbols = None]
  /\ buf' = SetRetention(buf, RetentionOf(config, app.offline))
  /\ KeepSource /\ KeepPanel
\* The dialog's numbers are at least one; an image that is gone is forgotten.
ApplySettings ==
  User /\ \E c \in Configs \ {app.config} :
            LET config == Resolved(Sanitized(c)) IN TakeConfig(config, config.image)
\* An imported file is read as the saved one is; the image shown stays.
ImportSettings ==
  User /\ \E c \in Configs \ {app.config} : TakeConfig(Sanitized(c), app.image)

(***************************************************************************)
(* Opening a file and closing the window: stop, join, go on.                *)
(***************************************************************************)
StopSource(next) ==
  /\ src' = [src EXCEPT !.stop = TRUE] /\ ui' = next
  /\ UNCHANGED <<buf, app, chan, fed, shown>> /\ KeepPanel
OpenPml == User /\ \E f \in DOMAIN Files : StopSource(f)
Shutdown == Idle /\ StopSource("quit") /\ UNCHANGED <<menu, quota, ops>>
Joined == src.relay.pc \in {"none", "done"}

ShowFile ==
  /\ ui \in DOMAIN Files /\ Joined
  /\ LET s == Opened(PmlSource(ui))
     IN src' = s /\ chan' = ConnectReport(<<>>, s.open)
  /\ app' = [app EXCEPT !.selected = 0, !.offline = TRUE]
  /\ buf' = SetRetention(ClearRows(buf), RetentionOf(app.config, TRUE))
  /\ ui' = "run" /\ shown' = <<>>
  /\ UNCHANGED <<fed, menu, quota, ops>> /\ KeepPanel
Closed == /\ ui = "quit" /\ Joined /\ ui' = "closed"
          /\ UNCHANGED <<buf, app, panel, tasks, src, chan, fed, menu, quota, shown, ops>>

Relay == RelayLive \/ RelayLost \/ RelayFile \/ RelaySend
Next ==
  \/ Relay \/ Tick \/ TickEnds \/ Symbolized
  \/ ToggleCapture \/ ToggleMonitor \/ ApplyFilter \/ QuickFilter \/ ToggleAdvanced
  \/ ApplyHighlight \/ AddHighlight \/ Search \/ ClearDisplay
  \/ OpenMenu \/ Bookmark \/ MenuBookmark \/ SelectRow \/ HighlightRow \/ CloseDetail \/ ApplySettings \/ ImportSettings
  \/ OpenPml \/ Shutdown \/ ShowFile \/ Closed

\* The relay thread runs, the timer fires, and a handler that waits for the
\* relay goes on when it can; each is named by what it does to one variable.
Drains == ui = "run" /\ chan # <<>> /\ chan' = Tail(chan)
GoesOn == ui \notin {"run", "closed", "stuck"} /\ Joined /\ ui' = IF ui = "quit" THEN "closed" ELSE "run"
Fairness == /\ WF_vars(RelayFile \/ RelaySend \/ RelayLive)
            /\ WF_chan(Drains) /\ WF_ui(GoesOn)
Spec == Init /\ [][Next]_vars /\ Fairness

(***************************************************************************)
(* Properties                                                               *)
(***************************************************************************)
NoDamage(f) == \A i \in DOMAIN Files[f].events : Files[f].events[i] # NoEvent
Decoded(f) == SelectSeq(Files[f].events, LAMBDA ev : ev # NoEvent)
Ascending(numbers) == \A i \in DOMAIN numbers : numbers[i] = numbers[1] + i - 1

\* What is retained is a run of what the source produced, without a gap.
RowsInOrder == Ascending([i \in DOMAIN buf.all |-> buf.all[i].seq])
\* Saving from a file that decodes writes the events of the rows it names.
SavesWhatIsShown ==
  src.kind # "live" /\ NoDamage(src.kind) =>
    \A scope \in Scopes, profiling \in BOOLEAN :
      LET rows == RowsToSave(buf, scope, profiling)
          kept == KeptOfFile(buf, scope, profiling)
          events == Files[src.kind].events
          written == Retained([i \in DOMAIN events |-> i], kept)
      IN [i \in DOMAIN written |-> events[written[i]]] = [i \in DOMAIN rows |-> rows[i].ev]
\* The symbols in the panel are of the event it shows; the resolver kept is the
\* configured one; the limits in force are the configured ones.
PanelTrue == panel.symbols \in {NoEvent, panel.ev}
ConfigInForce == /\ app.symbols \in {None, app.config.dbghelp}
                 /\ buf.retention = RetentionOf(app.config, app.offline)
                 /\ app.advanced = AdvancedOn(buf.filter)

\* Whatever the user does while rows arrive, the table, the marks, the limits,
\* a save and the panel agree with the rows retained
\* (EventBuffer, AppState and AppView).
SessionTrue ==
  /\ Consistent(buf) /\ WithinLimits(buf) /\ RowsInOrder /\ ConfigInForce
  /\ SavesWhatIsShown /\ PanelTrue

\* The dialogs count of the visible rows what is there (dialogs).
SummariesTrue == SummariesAgree(buf)

\* A row keeps its bookmark through trims, marks, rules and searches: a step
\* changes it for the row that is selected, or for the row the context menu was
\* opened on (toggle_bookmark).  The menu keeps a position, so that it names
\* its row only as long as no older row was dropped since it was opened.
Selected(i) == app.selected \in DOMAIN buf.view /\ buf.view[app.selected] = i
Dropped == buf.all[1].seq # menu.first
NotesStay ==
  \A i \in DOMAIN buf.all, j \in DOMAIN buf'.all :
    (src'.kind = src.kind /\ buf.all[i].seq = buf'.all[j].seq
      /\ buf.all[i].noted # buf'.all[j].noted) =>
      Selected(i) \/ (menu # NoMenu /\ (buf.all[i].seq = menu.seq \/ Dropped))
BookmarksStay == [][NotesStay]_vars

\* Every event of a file that is opened and decodes reaches the buffer, in
\* order, unless the user leaves the file first (PmlSource, AppState::drain).
FileShown ==
  \A f \in DOMAIN Files :
    (src.kind = f /\ ui = "run") ~>
      (src.kind # f \/ ui # "run" \/ shown = [i \in DOMAIN Decoded(f) |-> i])

\* Stopping a source ends ("Stops production and releases resources").
OpenReturns == (ui # "run") ~> (ui \in {"run", "closed"})
=============================================================================
