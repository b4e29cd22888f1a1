---------------------------- MODULE MCGuiSession ----------------------------
(* Three live events, a file that decodes and one with a damaged event, and  *)
(* a history limit that two live rows exceed.                                *)
EXTENDS GuiSession

Event(category, time, size, pid, name, verbs, path, cells, stack) ==
  [category |-> category, time |-> time, size |-> size, pid |-> pid, name |-> name,
   verbs |-> verbs, path |-> path, cells |-> cells, stack |-> stack]

ReadA == Event("file", 1, 2, 1, "a", {"read"}, <<"D", "x">>, {<<"a">>, <<"D", "x">>}, TRUE)
SetB == Event("registry", 2, 2, 2, "b", {"set"}, <<"K">>, {<<"b">>, <<"K">>}, FALSE)
SendA == Event("network", 1, 3, 1, "a", {"send"}, <<"h">>, {<<"a">>, <<"h">>}, TRUE)
WriteB == Event("file", 4, 2, 2, "b", {"read", "write"}, <<"D", "x">>,
                {<<"b">>, <<"D", "x">>}, TRUE)
Sample == Event("profiling", 5, 1, 1, "a", {}, <<>>, {<<"a">>}, FALSE)

MCLiveFeed == <<ReadA, SetB, SendA>>
MCFiles == [good |-> [ok |-> TRUE, events |-> <<WriteB, Sample, ReadA>>],
            torn |-> [ok |-> TRUE, events |-> <<SetB, NoEvent, WriteB>>],
            bad |-> [ok |-> FALSE, events |-> <<>>]]

Config(boot, ring, max, age, dbghelp, image) ==
  [boot |-> boot, ring |-> ring, max |-> max, age |-> age, dbghelp |-> dbghelp,
   image |-> image]
MCFirst == Config(TRUE, TRUE, 4, 2, "dbghelp", None)
MCConfigs == {Config(TRUE, FALSE, 4, 2, "dbghelp2", "gone"),
              Config(TRUE, TRUE, 0, 0, None, "picture")}
MCImages == {"picture"}
MCUnits == {"a", "b", "D", "d", "x", "X", "K", "h"}

MCFold == [X |-> "x", D |-> "d"]
MCSearches == {<<>>, <<"D">>, <<"d", "X">>, <<"a">>}
HideB == RowRule("name", "Is", "b", "Exclude")
MCDefaultRules == <<RowRule("name", "Is", "tool", "Exclude")>>
MCDialogRules == {HideB, RowRule("pid", "LessThan", 2, "Include")}
MCQuickActions == {[column |-> "name", relation |-> "Is", action |-> "Include"],
                   [column |-> "time", relation |-> "LessThan", action |-> "Exclude"]}
=============================================================================
