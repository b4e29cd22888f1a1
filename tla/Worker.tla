------------------------------- MODULE Worker -------------------------------
(***************************************************************************)
(* The command line and the MCP server over a capture (src/crates/cli): a  *)
(* front end that is elevated captures in its own process; one that is not *)
(* relaunches itself through UAC and drives the elevated worker over a     *)
(* named pipe.  Modelled are the tool calls that may run at the same time, *)
(* the sessions they share, the worker process with its reader thread and  *)
(* its capture thread, the pipe, and the files they leave.                 *)
(*                                                                         *)
(* Nobody but the pipe tells one side about the other: the parent never    *)
(* waits on the process handle, and the worker never looks at the parent's *)
(* identifier.  Either process may be killed at any time (MaxFaults        *)
(* bounds how often), a message may be lost with the process that sent it, *)
(* and the driver may refuse a capture.                                    *)
(***************************************************************************)
EXTENDS Integers, Sequences, FiniteSets, CommandLine

CONSTANTS
  Calls,        \* tool calls that may be in progress at the same time
  MaxJobs,      \* captures launched by one front end
  MaxEvents,    \* events a capture writes
  MaxFaults,    \* processes killed
  Texts         \* filter texts the user passes, as sequences of characters

ASSUME WorkerAssumption == MaxJobs \in Nat /\ MaxEvents \in Nat /\ MaxFaults \in Nat

Jobs == 1 .. MaxJobs

VARIABLES
  front,      \* "cli": one capture and exit; "mcp": the tool server
  elevated,   \* is_elevated() of the front end
  server,     \* its process: "up", "closing" (the client left) or "dead"
  call,       \* per call slot, the tool it runs and where it is
  reply,      \* the last reply the client was given
  sessions,   \* the session map; the position is the session_id
  last,       \* captures launched so far: temp_pml() names one file each
  text,       \* the filter the user gives with a capture
  cap,        \* per job, the CaptureSession and its thread
  file,       \* per job, the PML on disk
  wk,         \* per job, where the elevated worker process is
  signalled,  \* per job, the flag its reader thread sets
  pipe,       \* per job, both ends of the control pipe and what is in it
  faults

vars == <<front, elevated, server, call, reply, sessions, last, text, cap, file, wk, signalled, pipe, faults>>

world == <<front, elevated, text, faults>>

Free == [op |-> "none", pc |-> "idle", job |-> 0, n |-> 0, why |-> "none"]
Refused == [ok |-> FALSE, job |-> 0, n |-> 0, why |-> "error"]
Answer(j, n, why) == [ok |-> TRUE, job |-> j, n |-> n, why |-> why]

Init ==
  /\ front \in {"cli", "mcp"} /\ elevated \in BOOLEAN /\ server = "up"
  /\ call = [c \in Calls |-> Free] /\ reply = Refused
  /\ sessions = << >> /\ last = 0 /\ faults = 0
  /\ text \in Texts
  /\ cap = [j \in Jobs |-> [st |-> "none", limited |-> FALSE, stop |-> FALSE,
                            n |-> 0, why |-> "none"]]
  /\ file = [j \in Jobs |-> [kind |-> "absent", n |-> 0]]
  /\ wk = [j \in Jobs |-> "none"] /\ signalled = [j \in Jobs |-> FALSE]
  /\ pipe = [j \in Jobs |-> [parent |-> "none", worker |-> "none",
                             up |-> << >>, down |-> << >>]]

(***************************************************************************)
(* The capture session                                                     *)
(***************************************************************************)
Capturing == {j \in Jobs : cap[j].st \in {"running", "writing"}}

\* CaptureSession::start: the driver serves one client, and may be refused
\* for reasons of its own (not loaded, another version, access denied)
StartCapture(j, stop) ==
  /\ Capturing = {}
  /\ cap' = [cap EXCEPT ![j] = [@ EXCEPT !.st = "running", !.stop = stop]]

Collect(j) ==
  /\ cap[j].st = "running" /\ cap[j].n < MaxEvents
  /\ cap' = [cap EXCEPT ![j].n = @ + 1]
  /\ UNCHANGED <<world, server, call, reply, sessions, last, file, wk,
                 signalled, pipe>>

LeaveLoop(j, why) ==
  /\ cap[j].st = "running"
  /\ cap' = [cap EXCEPT ![j] = [@ EXCEPT !.st = "writing", !.why = why]]
  /\ file' = [file EXCEPT ![j] = [kind |-> "partial", n |-> 0]]
  /\ UNCHANGED <<world, server, call, reply, sessions, last, wk,
                 signalled, pipe>>

LeaveStopped(j) == cap[j].stop /\ LeaveLoop(j, "Manual")
LeaveDuration(j) == cap[j].limited /\ ~cap[j].stop /\ LeaveLoop(j, "Duration")
LeaveEarly(j) == \E why \in {"SizeLimit", "Disconnected"} : LeaveLoop(j, why)

\* the PML is written as the thread ends; the file system may refuse it
WriteFile(j) ==
  /\ cap[j].st = "writing"
  /\ \/ /\ cap' = [cap EXCEPT ![j].st = "ok"]
        /\ file' = [file EXCEPT ![j] = [kind |-> "complete", n |-> cap[j].n]]
     \/ cap' = [cap EXCEPT ![j].st = "failed"] /\ UNCHANGED file
  /\ UNCHANGED <<world, server, call, reply, sessions, last, wk,
                 signalled, pipe>>

Ended(j) == cap[j].st \in {"ok", "failed", "lost"}
Stop(j) == cap' = [cap EXCEPT ![j].stop = TRUE]

\* open_pml: only a complete file opens (PrefixRefused of the file's model)
Opens(j) == file[j].kind = "complete"

(***************************************************************************)
(* The worker process                                                      *)
(***************************************************************************)
\* the texts with which clap accepts the command line when it is parsed again
Understood == {t \in Texts : Accepted(ParseLine(CommandLine(WorkerArgs(t))))}

\* a command line that is refused, and a capture that does not start, end the
\* worker before it has connected
WorkerStart(j) ==
  /\ wk[j] = "launched"
  /\ \/ /\ text \in Understood /\ StartCapture(j, FALSE)
        /\ wk' = [wk EXCEPT ![j] = "connecting"]
     \/ wk' = [wk EXCEPT ![j] = "gone"] /\ UNCHANGED cap
  /\ UNCHANGED <<world, server, call, reply, sessions, last, file,
                 signalled, pipe>>

\* connect_worker; the parent may have left: the session is dropped, which
\* stops the capture and writes its file
Connect(j) ==
  /\ wk[j] = "connecting"
  /\ \/ /\ pipe[j].parent = "listening"
        /\ pipe' = [pipe EXCEPT ![j].worker = "open"]
        /\ wk' = [wk EXCEPT ![j] = "greeting"] /\ UNCHANGED cap
     \/ /\ pipe[j].parent = "closed"
        /\ wk' = [wk EXCEPT ![j] = "dropping"] /\ Stop(j) /\ UNCHANGED pipe
  /\ UNCHANGED <<world, server, call, reply, sessions, last, file,
                 signalled>>

\* write_msg fails when the other end is closed
Say(j, msg) == pipe' = [pipe EXCEPT ![j].down = Append(@, msg)]
ParentThere(j) == pipe[j].parent \in {"listening", "open"}

SayStarted(j) ==
  /\ wk[j] = "greeting"
  /\ \/ ParentThere(j) /\ Say(j, "Started") /\ wk' = [wk EXCEPT ![j] = "polling"]
        /\ UNCHANGED cap
     \/ ~ParentThere(j) /\ Stop(j) /\ wk' = [wk EXCEPT ![j] = "dropping"]
        /\ UNCHANGED pipe
  /\ UNCHANGED <<world, server, call, reply, sessions, last, file,
                 signalled>>

\* a mistake: only Stop is taken for a signal
SignalStop(j) ==
  /\ wk[j] = "polling" /\ ~signalled[j] /\ pipe[j].up # << >>
  /\ signalled' = [signalled EXCEPT ![j] = TRUE]
  /\ UNCHANGED <<world, server, call, reply, sessions, last, cap, file, wk, pipe>>

\* read_msg of the detached thread: Stop, end of file or an error
Signal(j) ==
  /\ wk[j] = "polling" /\ ~signalled[j]
  /\ pipe[j].up # << >> \/ pipe[j].parent = "closed"
  /\ signalled' = [signalled EXCEPT ![j] = TRUE]
  /\ UNCHANGED <<world, server, call, reply, sessions, last, cap, file,
                 wk, pipe>>

\* a mistake: Done before the file is written
PollReports(j) ==
  /\ wk[j] = "polling" /\ (signalled[j] \/ Ended(j))
  /\ Stop(j) /\ wk' = [wk EXCEPT ![j] = "stopping"]
  /\ pipe' = [pipe EXCEPT ![j].down = Append(@, "Done")]
  /\ UNCHANGED <<world, server, call, reply, sessions, last, file, signalled>>

Poll(j) ==
  /\ wk[j] = "polling" /\ (signalled[j] \/ Ended(j))
  /\ Stop(j) /\ wk' = [wk EXCEPT ![j] = "stopping"]
  /\ UNCHANGED <<world, server, call, reply, sessions, last, file,
                 signalled, pipe>>

Leaves(j) ==
  /\ wk' = [wk EXCEPT ![j] = "gone"]
  /\ UNCHANGED <<world, server, call, reply, sessions, last, cap, file,
                 signalled>>

\* Done carries the count and the reason; it may be lost with the process
Report(j) ==
  /\ wk[j] = "stopping" /\ Ended(j) /\ Leaves(j)
  /\ \/ /\ cap[j].st = "ok" /\ ParentThere(j)
        /\ pipe' = [pipe EXCEPT ![j] = [@ EXCEPT !.worker = "closed",
                                                 !.down = Append(pipe[j].down, "Done")]]
     \/ pipe' = [pipe EXCEPT ![j].worker = "closed"]

Dropped(j) ==
  /\ wk[j] = "dropping" /\ Ended(j) /\ Leaves(j)
  /\ pipe' = [pipe EXCEPT ![j].worker = "closed"]

WorkerStep(j) ==
  WorkerStart(j) \/ Connect(j) \/ SayStarted(j) \/ Poll(j) \/ Report(j)
  \/ Dropped(j)

(***************************************************************************)
(* The tool calls                                                          *)
(***************************************************************************)
Goto(c, pc) == call' = [call EXCEPT ![c].pc = pc]

\* a call returns; the command line then ends, and a server whose client has
\* left drops what the call returns
Return(c, r) ==
  /\ call' = [call EXCEPT ![c] = Free]
  /\ reply' = IF server = "up" THEN r ELSE reply
  /\ server' = IF front = "cli" THEN "closing" ELSE server

Begin(c, op, j) ==
  /\ server = "up" /\ call[c].pc = "idle"
  /\ call' = [call EXCEPT ![c] = [Free EXCEPT !.op = op, !.job = j,
                                              !.pc = "launching"]]
  /\ reply' = Refused

\* capture and start_capture; the filter is parsed before anything is asked
\* of the user, and the two differ in the duration they pass
CaptureTool(c, op) ==
  /\ last < MaxJobs
  /\ front = "mcp" \/ (last = 0 /\ op = "capture")
  /\ last' = last + 1 /\ Begin(c, op, last + 1)
  /\ cap' = [cap EXCEPT ![last + 1].limited = (op = "capture")]
  /\ UNCHANGED <<world, server, sessions, file, wk, signalled,
                 pipe>>

Hold(j, backend) ==
  sessions' = IF server = "up"
              THEN Append(sessions, [job |-> j, backend |-> backend])
              ELSE sessions

LaunchInProcess(c) ==
  LET j == call[c].job IN
  /\ call[c].pc = "launching" /\ elevated
  /\ \/ /\ call[c].op = "capture" /\ StartCapture(j, FALSE)
        /\ Goto(c, "waiting") /\ UNCHANGED <<server, reply, sessions>>
     \/ /\ call[c].op = "start" /\ StartCapture(j, server # "up")
        /\ Hold(j, "inprocess") /\ Return(c, Answer(j, 0, "started"))
     \/ Return(c, Refused) /\ UNCHANGED <<cap, sessions>>
  /\ UNCHANGED <<world, last, file, wk, signalled, pipe>>

\* a pipe name is taken until every server end that bears it is closed, and
\* every caller asks for pipe_name(0)
NameFree == \A j \in Jobs : pipe[j].parent \notin {"listening", "open"}

\* launch_worker: listen first, then the UAC prompt, which may be declined
LaunchWorker(c) ==
  LET j == call[c].job IN
  /\ call[c].pc = "launching" /\ ~elevated
  /\ \/ /\ NameFree
        /\ pipe' = [pipe EXCEPT ![j].parent = "listening"]
        /\ wk' = [wk EXCEPT ![j] = "launched"]
        /\ Goto(c, "accepting") /\ UNCHANGED <<server, reply>>
     \/ Return(c, Refused) /\ UNCHANGED <<pipe, wk>>
  /\ UNCHANGED <<world, sessions, last, cap, file, signalled>>

Accept(c) ==
  LET j == call[c].job IN
  /\ call[c].pc = "accepting" /\ pipe[j].worker # "none"
  /\ pipe' = [pipe EXCEPT ![j].parent = "open"]
  /\ Goto(c, IF call[c].op = "start" THEN "greeting" ELSE "reading")
  /\ UNCHANGED <<world, server, reply, sessions, last, cap, file, wk,
                 signalled>>

\* what a read of the pipe finds: a message, the end of the file, or nothing
Heard(j) == pipe[j].down # << >>
Eof(j) == pipe[j].down = << >> /\ pipe[j].worker = "closed"
Take(j) == [pipe EXCEPT ![j].down = Tail(@)]
Closed(p, j) == [p EXCEPT ![j] = [@ EXCEPT !.parent = "closed", !.up = << >>]]

\* read_started: whatever it finds, the session is stored with its link; a
\* message cut short or a broken pipe is an error, which drops the link
Greet(c) ==
  LET j == call[c].job
      p == IF Heard(j) THEN Take(j) ELSE pipe IN
  /\ call[c].pc = "greeting"
  /\ \/ /\ Heard(j) \/ Eof(j)
        /\ Hold(j, "link") /\ Return(c, Answer(j, 0, "started"))
        /\ pipe' = IF server = "up" THEN p ELSE Closed(p, j)
     \/ /\ Eof(j) /\ Return(c, Refused)
        /\ pipe' = Closed(pipe, j) /\ UNCHANGED sessions
  /\ UNCHANGED <<world, last, cap, file, wk, signalled>>

Result(c, n, why) ==
  call' = [call EXCEPT ![c] = [@ EXCEPT !.pc = "settling", !.n = n, !.why = why]]

\* read_done: skips what is not Done and ends at Done or at end of file; an
\* error of the pipe is the answer of the call
ReadDone(c) ==
  LET j == call[c].job IN
  /\ call[c].pc = "reading"
  /\ \/ /\ Heard(j)
        /\ IF Head(pipe[j].down) = "Done"
           THEN pipe' = Closed(pipe, j) /\ Result(c, cap[j].n, cap[j].why)
           ELSE pipe' = Take(j) /\ UNCHANGED call
        /\ UNCHANGED <<server, reply>>
     \/ /\ Eof(j) /\ pipe' = Closed(pipe, j)
        /\ \/ Goto(c, "counting") /\ UNCHANGED <<server, reply>>
           \/ Return(c, Refused)
  /\ UNCHANGED <<world, sessions, last, cap, file, wk, signalled>>

\* without Done the file is asked, and the reason is a guess
Count(c) ==
  LET j == call[c].job IN
  /\ call[c].pc = "counting"
  /\ \/ /\ Opens(j) /\ UNCHANGED <<server, reply>>
        /\ Result(c, file[j].n,
                  IF call[c].op = "stop" THEN "Manual" ELSE "Duration")
     \/ ~Opens(j) /\ Return(c, Refused)
  /\ UNCHANGED <<world, sessions, last, cap, file, wk, signalled, pipe>>

\* wait() and stop() of a session of this process join its thread
Join(c) ==
  LET j == call[c].job IN
  /\ call[c].pc = "waiting" /\ Ended(j)
  /\ \/ cap[j].st = "ok" /\ Result(c, cap[j].n, cap[j].why)
        /\ UNCHANGED <<server, reply>>
     \/ cap[j].st # "ok" /\ Return(c, Refused)
  /\ UNCHANGED <<world, sessions, last, cap, file, wk, signalled, pipe>>

\* parse_stopped_reason: the command line knows three reasons
Reason(why) ==
  IF front = "mcp" \/ elevated \/ why \in {"Duration", "SizeLimit"}
  THEN why ELSE "Manual"

\* capture stores a finished session and opens the file for its summary;
\* stop_capture answers with what it has
Settle(c) ==
  LET j == call[c].job IN
  /\ call[c].pc = "settling"
  /\ IF call[c].op = "capture"
     THEN /\ IF front = "mcp" THEN Hold(j, "none") ELSE UNCHANGED sessions
          /\ Return(c, IF Opens(j) THEN Answer(j, call[c].n, Reason(call[c].why))
                       ELSE Refused)
     ELSE Return(c, Answer(j, call[c].n, call[c].why)) /\ UNCHANGED sessions
  /\ UNCHANGED <<world, last, cap, file, wk, signalled, pipe>>

\* stop_capture takes the backend out of the session under the lock; who
\* finds none is told that the capture was stopped already
StopTool(c, s) ==
  LET j == sessions[s].job
      b == sessions[s].backend IN
  /\ front = "mcp" /\ b # "none" /\ Begin(c, "stop", j)
  /\ sessions' = [sessions EXCEPT ![s].backend = "none"]
  /\ UNCHANGED <<world, server, last, cap, file, wk, signalled,
                 pipe>>

\* the blocking part: stop the session of this process, or tell the worker
StopBackend(c) ==
  LET j == call[c].job IN
  /\ call[c].op = "stop" /\ call[c].pc = "launching"
  /\ \/ /\ elevated /\ Stop(j) /\ Goto(c, "waiting") /\ UNCHANGED pipe
     \/ /\ ~elevated /\ Goto(c, "reading") /\ UNCHANGED cap
        /\ pipe' = IF pipe[j].worker = "open"
                   THEN [pipe EXCEPT ![j].up = Append(@, "Stop")] ELSE pipe
  /\ UNCHANGED <<world, server, reply, sessions, last, file, wk,
                 signalled>>

\* resolve_source refuses a session that still has its backend; the file is
\* opened later, on another thread
AnalyzeTool(c, s) ==
  /\ front = "mcp" /\ sessions[s].backend = "none"
  /\ Begin(c, "analyze", sessions[s].job)
  /\ UNCHANGED <<world, server, sessions, last, cap, file, wk,
                 signalled, pipe>>

Analyze(c) ==
  LET j == call[c].job IN
  /\ call[c].op = "analyze" /\ call[c].pc = "launching"
  /\ Return(c, IF Opens(j) THEN Answer(j, file[j].n, "analyze") ELSE Refused)
  /\ UNCHANGED <<world, sessions, last, cap, file, wk, signalled, pipe>>

CallStep(c) ==
  \/ call[c].op \in {"capture", "start"} /\ (LaunchInProcess(c) \/ LaunchWorker(c))
  \/ Accept(c) \/ Greet(c) \/ ReadDone(c) \/ Count(c) \/ Join(c) \/ Settle(c)
  \/ StopBackend(c) \/ Analyze(c)

(***************************************************************************)
(* The end of the front end, and faults                                    *)
(***************************************************************************)
Linked(j) == \E s \in DOMAIN sessions :
  sessions[s].job = j /\ sessions[s].backend # "none"

\* the client leaves: the sessions are dropped, which closes their links and
\* stops the captures of this process; blocking calls run to their end
Disconnect ==
  /\ server = "up" /\ front = "mcp" /\ server' = "closing" /\ sessions' = << >>
  /\ cap' = [j \in Jobs |-> IF elevated /\ Linked(j)
                            THEN [cap[j] EXCEPT !.stop = TRUE] ELSE cap[j]]
  /\ pipe' = [j \in Jobs |-> IF ~elevated /\ Linked(j)
                             THEN Closed(pipe, j)[j] ELSE pipe[j]]
  /\ UNCHANGED <<world, call, reply, last, file, wk, signalled>>

CloseAll ==
  pipe' = [j \in Jobs |-> IF pipe[j].parent = "none" THEN pipe[j]
                          ELSE Closed(pipe, j)[j]]

\* the process ends once its blocking calls and its captures have
Exit ==
  /\ server = "closing" /\ \A c \in Calls : call[c].pc = "idle"
  /\ elevated => Capturing = {}
  /\ server' = "dead" /\ CloseAll
  /\ UNCHANGED <<world, call, reply, sessions, last, cap, file, wk,
                 signalled>>

\* A capture that runs is lost with its process.
Lose(S) == [j \in Jobs |-> IF j \in S /\ cap[j].st \in {"running", "writing"}
                           THEN [cap[j] EXCEPT !.st = "lost"] ELSE cap[j]]

Kill ==
  /\ faults < MaxFaults /\ server # "dead" /\ faults' = faults + 1
  /\ server' = "dead" /\ sessions' = << >> /\ CloseAll
  /\ call' = [c \in Calls |-> Free]
  /\ cap' = IF elevated THEN Lose(Jobs) ELSE cap
  /\ UNCHANGED <<front, elevated, text, reply, last, file, wk,
                 signalled>>

KillWorker(j) ==
  /\ faults < MaxFaults /\ wk[j] \notin {"none", "gone"} /\ faults' = faults + 1
  /\ wk' = [wk EXCEPT ![j] = "gone"] /\ cap' = Lose({j})
  /\ pipe' = IF pipe[j].worker = "open"
             THEN [pipe EXCEPT ![j].worker = "closed"] ELSE pipe
  /\ UNCHANGED <<front, elevated, text, server, call, reply, sessions,
                 last, file, signalled>>

Next ==
  \/ \E c \in Calls : \/ \E op \in {"capture", "start"} : CaptureTool(c, op)
                      \/ \E s \in DOMAIN sessions :
                           StopTool(c, s) \/ AnalyzeTool(c, s)
                      \/ CallStep(c)
  \/ \E j \in Jobs : \/ WorkerStep(j) \/ Signal(j)
                     \/ Collect(j) \/ LeaveStopped(j) \/ LeaveDuration(j)
                     \/ LeaveEarly(j) \/ WriteFile(j)
                     \/ KillWorker(j)
  \/ Disconnect \/ Exit \/ Kill

(***************************************************************************)
(* The threads and processes that are not blocked go on; a stop request    *)
(* and the duration of a one-shot capture end its loop (recv_timeout wakes *)
(* it every 100 ms).  Nothing makes the client call, leave or kill.        *)
(***************************************************************************)
Fairness ==
  /\ \A c \in Calls : WF_vars(CallStep(c))
  /\ \A j \in Jobs : /\ WF_vars(WorkerStep(j)) /\ WF_vars(Signal(j))
                     /\ WF_vars(LeaveStopped(j) \/ LeaveDuration(j))
                     /\ WF_vars(WriteFile(j))
  /\ WF_vars(Exit)

Spec == Init /\ [][Next]_vars /\ Fairness

(***************************************************************************)
(* Properties                                                              *)
(***************************************************************************)

\* Whatever a capture, stop_capture or analysis call answered, in whichever
\* order calls, worker, capture thread and deaths interleave: the file it
\* names is on disk, complete, and holds as many events as the answer says.
RepliesTrue ==
  reply.ok /\ reply.why # "started" =>
    file[reply.job] = [kind |-> "complete", n |-> reply.n]

\* A worker whose parent is gone (killed, disconnected, or its call over)
\* finalises its capture and leaves, so that the driver is free again; and a
\* call that has its connection, or needs none, returns: at Done, or at the
\* end of file when the worker died or Done was lost.
EveryoneReturns ==
  /\ \A j \in Jobs : (pipe[j].parent = "closed" /\ wk[j] # "none")
                       ~> (wk[j] = "gone" /\ ~(~elevated /\ j \in Capturing))
  /\ \A c \in Calls : (call[c].pc \notin {"idle", "accepting"})
                        ~> (call[c].pc \in {"idle", "accepting"})

\* "Accept the worker (it connects shortly after launch)" (orchestrate.rs).
WorkerConnects == \A c \in Calls :
  (call[c].pc = "accepting") ~> (call[c].pc # "accepting")

=============================================================================
