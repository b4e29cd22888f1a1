------------------------------- MODULE Capture -------------------------------
(***************************************************************************)
(* A capture of the command line (crates/core/src/capture.rs): the pipeline *)
(* sends events, the capture thread keeps those that are in scope, and on   *)
(* leaving its loop writes them with the process table to a file.           *)
(*                                                                          *)
(* The pipeline is abstracted to what module Pipeline shows of it: a record *)
(* updates the process table before its event is sent, records come in time *)
(* order, network events come when the window of the ETW session lets them  *)
(* go.  A worker reads the metadata of the images behind all this.          *)
(***************************************************************************)
EXTENDS PidScope, NetworkMonitor

CONSTANTS Names, Seeds, Launched, IncludeChildren, \* the target
          Monitors,      \* the classes the user selected
          Wanted,        \* the static filter: None or one expression
          OwnPid,        \* the tool's own process
          MaxBytes, Duration,
          Sessions,      \* what the driver and the ETW session may report: sets of reports
          Before,        \* records parsed before the session looks at the table
          MetaOf         \* metadata of each image when it is read

VARIABLES
  left,      \* reports still to come
  mgr,       \* the process table, shared with the parse thread
  known,     \* the metadata cache: image -> metadata
  jobs,      \* sequences whose metadata the worker is to read
  pending,   \* network events that wait for their stack
  rx,        \* the event channel: [e, seq] with the sequence of the process
  connected, \* the parse thread still holds the sender
  stop,      \* the stop flag
  elapsed,   \* time since the start
  pc,        \* the capture thread: start, check, recv, stopping, finish, done
  scope, writer, bytes, reason, file,
  seeded,    \* history: the identifiers followed from the start
  taken, kept, \* history: events received and written, with their process
  traced     \* history: records of the ETW session, as they came

supply == <<left, traced>>
parsevars == <<mgr, known, jobs, pending, rx>>
clock == <<connected, stop, elapsed>>
result == <<scope, writer, bytes, reason, file, seeded, taken, kept>>
vars == <<supply, parsevars, clock, pc, result>>

InitialTable == FoldLeft(LAMBDA m, r : Track(m, r, <<>>, TRUE), ManagerNew, Before)
InitialJobs == FoldLeft(LAMBDA js, r : js \o Queued(r, <<>>), <<>>, Before)

Init ==
  /\ left \in Sessions /\ traced = <<>>
  /\ mgr = InitialTable /\ known = <<>> /\ jobs = InitialJobs /\ pending = <<>>
  /\ rx = <<>> /\ connected = TRUE
  /\ stop = FALSE /\ elapsed = 0
  /\ pc = "start" /\ scope = ScopeNew({}, {}, FALSE)
  /\ writer = WriterNew /\ bytes = 0 /\ reason = "none" /\ file = <<>>
  /\ seeded = {} /\ taken = <<>> /\ kept = <<>>

(***************************************************************************)
(* The pipeline                                                             *)
(***************************************************************************)
IsTrace(r) == "provider" \in DOMAIN r
IsWalk(r) == IsTrace(r) /\ r.provider = "stackwalk"
\* Kernel records and network records come in order of time, a stack walk
\* after its event.
KernelLeft == {r \in left : ~IsTrace(r)}
TracesLeft == {r \in left : IsTrace(r) /\ ~IsWalk(r)}
InOrder(r) ==
  CASE IsWalk(r) -> \A s \in TracesLeft : s.time # r.data.head.stamp
    [] IsTrace(r) -> \A s \in TracesLeft : r.time <= s.time
    [] OTHER -> \A s \in KernelLeft : r.pre.time <= s.pre.time

DeliverKernel(r) ==
  LET tracks == r.pre.monitor = "process"
      table == IF tracks THEN Track(mgr, r.pre, known, TRUE) ELSE mgr
      sent == r.pre.notify # "init" /\ BySeq(table, r.pre.seq) # NoRow
  IN /\ mgr' = table
     /\ jobs' = IF tracks THEN jobs \o Queued(r.pre, known) ELSE jobs
     /\ rx' = IF sent THEN Append(rx, [e |-> LiveEvent(r.pre, r.post), seq |-> r.pre.seq])
              ELSE rx
     /\ UNCHANGED <<known, pending, traced>>

\* The process of a network event is looked up when the window lets it go.
Forwarded(net) ==
  LET row == ByPid(mgr, net.pid)
  IN [e |-> NetworkEvent(net), seq |-> IF row = NoRow THEN 0 ELSE row.seq]

DeliverTrace(r) ==
  LET next == EventCallback(pending, r)
  IN /\ pending' = next.pending
     /\ rx' = rx \o [i \in DOMAIN next.sent |-> Forwarded(next.sent[i])]
     /\ traced' = Append(traced, r)
     /\ UNCHANGED <<mgr, known, jobs>>

Deliver(r) ==
  /\ connected /\ InOrder(r)
  /\ left' = left \ {r}
  /\ IF IsTrace(r) THEN DeliverTrace(r) ELSE DeliverKernel(r)
  /\ UNCHANGED <<clock, pc, result>>

\* The metadata worker takes its next job; the image is read once.
ResolveNext ==
  /\ pc # "done" /\ jobs # <<>>
  /\ LET rec == BySeq(mgr, Head(jobs))
         meta == IF rec.image \in DOMAIN known THEN known[rec.image] ELSE MetaOf[rec.image]
     IN /\ mgr' = SetMeta(mgr, rec.seq, meta)
        /\ known' = (rec.image :> meta) @@ known
  /\ jobs' = Tail(jobs)
  /\ UNCHANGED <<supply, pending, rx, clock, pc, result>>

\* The driver's port fails: the receive and parse threads end.
Disconnect ==
  /\ connected /\ connected' = FALSE
  /\ UNCHANGED <<supply, parsevars, stop, elapsed, pc, result>>

(***************************************************************************)
(* The session's owner and the clock                                        *)
(***************************************************************************)
RequestStop ==
  /\ ~stop /\ pc # "start" /\ stop' = TRUE
  /\ UNCHANGED <<supply, parsevars, connected, elapsed, pc, result>>

Tick ==
  /\ pc \in {"check", "recv"} /\ elapsed < Duration /\ elapsed' = elapsed + 1
  /\ UNCHANGED <<supply, parsevars, connected, stop, pc, result>>

(***************************************************************************)
(* The capture thread                                                       *)
(***************************************************************************)
NamedPids == {rec.pid : rec \in {r \in Snapshot(mgr) : Basename(r.image) # <<>>
                                   /\ LowerCase(Basename(r.image)) \in {LowerCase(n) : n \in Names}}}
SeedScope == FoldLeft(AddPid, ScopeNew(Names, Seeds, IncludeChildren),
                      SetToSeq(NamedPids \union Launched))

Start ==
  /\ pc = "start" /\ pc' = "check"
  /\ scope' = SeedScope
  /\ seeded' = SeedScope.pids
  /\ writer' = StampHost(WriterNew)
  /\ UNCHANGED <<supply, parsevars, clock, bytes, reason, file, taken, kept>>

Leave(why) == pc' = "stopping" /\ reason' = why
\* Broken: a stop is not seen.
CheckDeaf ==
  /\ pc = "check"
  /\ CASE elapsed >= Duration -> Leave("duration")
       [] elapsed < Duration /\ bytes >= MaxBytes -> Leave("size")
       [] OTHER -> pc' = "recv" /\ UNCHANGED reason
  /\ UNCHANGED <<supply, parsevars, clock, scope, writer, bytes, file, seeded, taken,
                 kept>>
Check ==
  /\ pc = "check"
  /\ CASE stop -> Leave("manual")
       [] ~stop /\ elapsed >= Duration -> Leave("duration")
       [] ~stop /\ elapsed < Duration /\ bytes >= MaxBytes -> Leave("size")
       [] OTHER -> pc' = "recv" /\ UNCHANGED reason
  /\ UNCHANGED <<supply, parsevars, clock, scope, writer, bytes, file, seeded, taken,
                 kept>>

\* Profiling and unknown classes cannot be deselected.
CategorySelected(class) == class \in Monitors \union {"profiling", "other"}
Selected(s, x) ==
  /\ Pid(x.e, x.row) # OwnPid /\ CategorySelected(Class(x.e))
  /\ InScope(s, x) /\ (Wanted # None => Holds(Wanted[1], x))

Keep(s, x) ==
  IF Selected(s, x)
  THEN /\ writer' = PushEvent(writer, x.e, x.row)
       /\ bytes' = bytes + ByteSize(x.e) /\ kept' = Append(kept, x)
  ELSE UNCHANGED <<writer, bytes, kept>>

\* Broken: the event is judged before its process is followed.
RecvLate ==
  /\ pc = "recv" /\ rx # <<>>
  /\ LET x == [e |-> Head(rx).e, row |-> BySeq(mgr, Head(rx).seq)]
     IN scope' = ObserveProcess(scope, x) /\ Keep(scope, x) /\ taken' = Append(taken, x)
  /\ rx' = Tail(rx) /\ pc' = "check"
  /\ UNCHANGED <<supply, mgr, known, jobs, pending, clock, reason, file, seeded>>

\* The scope first learns of the process, then the event is judged.
Recv ==
  /\ pc = "recv" /\ rx # <<>>
  /\ LET x == [e |-> Head(rx).e, row |-> BySeq(mgr, Head(rx).seq)]
         s == ObserveProcess(scope, x)
     IN scope' = s /\ Keep(s, x) /\ taken' = Append(taken, x)
  /\ rx' = Tail(rx) /\ pc' = "check"
  /\ UNCHANGED <<supply, mgr, known, jobs, pending, clock, reason, file, seeded>>

\* 100 ms without an event, or no event and no sender.
RecvTimeout ==
  /\ pc = "recv" /\ rx = <<>>
  /\ IF connected THEN pc' = "check" /\ UNCHANGED reason ELSE Leave("disconnected")
  /\ UNCHANGED <<supply, parsevars, clock, scope, writer, bytes, file, seeded, taken,
                 kept>>

\* controller.stop() joins the threads.  The consumer hands out its window, of
\* which the parse thread forwards what it sees before its loop ends; nobody
\* receives it, nor what is still in rx.
StopController ==
  /\ pc = "stopping" /\ pc' = "finish" /\ connected' = FALSE
  /\ pending' = <<>>
  /\ \E n \in {0, Len(pending)} :
       rx' = rx \o [i \in 1..n |-> Forwarded(FlushPending(pending)[i])]
  /\ UNCHANGED <<supply, mgr, known, jobs, stop, elapsed, result>>

\* The file is written at once; when the file system fails, there is none or
\* one that was cut short, and the outcome is the error.
WriteToPath(w) ==
  \E all \in {ToBytes(w, mgr.bySeq, MetaOf)} :
    \/ file' = all /\ UNCHANGED reason
    \/ \E n \in {0, Len(all) - 1} : file' = SubSeq(all, 1, n) /\ reason' = "error"

\* The thread returns: what it owned, the receiver and the clock, is dropped.
Finish ==
  /\ pc = "finish" /\ pc' = "done"
  /\ LET w == FinishLive(StampProcesses(writer, SetToSeq(Snapshot(mgr))))
     IN writer' = w /\ WriteToPath(w)
  /\ rx' = <<>> /\ left' = {} /\ jobs' = <<>> /\ elapsed' = 0
  /\ UNCHANGED <<mgr, known, pending, connected, stop, scope, bytes, seeded,
                 taken, kept, traced>>

Thread == Start \/ Check \/ Recv \/ RecvTimeout \/ StopController \/ Finish
Next == \/ Thread \/ ResolveNext \/ (\E r \in left : Deliver(r))
        \/ Disconnect \/ RequestStop \/ Tick

\* The thread is a thread of the process.  Every step of Thread, and no other,
\* moves pc, and one is enabled until the thread is done: fairness of Moves is
\* fairness of Thread, without the data that TLC need not look at.
Places == {"start", "check", "recv", "stopping", "finish", "done"}
Moves == pc # "done" /\ pc' \in Places \ {pc}
Fairness == WF_pc(Moves)
Spec == Init /\ [][Next]_vars /\ Fairness

(***************************************************************************)
(* Properties                                                               *)
(***************************************************************************)
\* What a column of the live view becomes in the file.  Known losses: the
\* path of a Process Start, resolved or IPv6 endpoints, and the process and
\* the place of an event whose process the table does not know.
PathSurvives(k) ==
  /\ ~(Class(k.e) = "process" /\ k.e.pre.notify = "start")
  /\ IsNet(k.e) => k.e.net.localName = <<>> /\ k.e.net.local.v4
                   /\ k.e.net.remoteName = <<>> /\ k.e.net.remote.v4
SameEvent(x, k) ==
  LET was == EventRecord(k, 0, TRUE)
      is == EventRecord(x, 0, TRUE)
      fields == {"tid", "category", "operation", "result", "time", "detail"}
                \union (IF PathSurvives(k) THEN {"path"} ELSE {})
                \union (IF k.row = NoRow THEN {} ELSE {"pid", "parent", "name"})
                \union (IF was.duration > 0 THEN {"duration"} ELSE {})
  IN /\ \A f \in fields : is[f] = was[f]
     /\ CallStack(x.e) = CallStack(k.e)
     /\ HasPost(k.e) => PostBlob(x.e) = PostBlob(k.e)

\* The events: exactly those kept, in order of time (those of one time in
\* order of arrival), each with the columns it showed live.
EventsSurvive ==
  LET xs == Events(OpenFile(file))
      before(i, j) == kept[i].e # kept[j].e /\ TimeRaw(kept[i].e) < TimeRaw(kept[j].e)
      place(i) == 1 + Cardinality({j \in DOMAIN kept :
                        before(j, i) \/ (j < i /\ ~before(i, j))})
  IN /\ Len(xs) = Len(kept)
     /\ \A i \in DOMAIN kept : SameEvent(xs[place(i)], kept[i])

\* The processes: every one the table knew has one row, with its parent and
\* all modules it loaded, whether or not it had an event, and with the metadata
\* of its image, however far the worker got; and the event of a process refers
\* to that process's row.
ChainsSurvive ==
  LET rows == OpenFile(file).processes
      mine(rec) == {i \in DOMAIN rows : rows[i].pid = rec.pid /\ rows[i].created = rec.created}
      xs == Events(OpenFile(file))
  IN /\ \A rec \in Snapshot(mgr) :
          /\ Cardinality(mine(rec)) = 1
          /\ \A i \in mine(rec) :
               /\ rows[i].parent = rec.parent
               /\ <<rows[i].company, rows[i].version, rows[i].description>>
                  = <<MetaOf[rec.image].company, MetaOf[rec.image].version,
                      MetaOf[rec.image].description>>
               /\ [m \in DOMAIN rows[i].modules |-> rows[i].modules[m].path]
                  = [m \in DOMAIN rec.modules |-> NtToDos(rec.modules[m].path)]
     /\ \A i \in DOMAIN kept : kept[i].row # NoRow =>
          \E j \in DOMAIN xs : /\ TimeRaw(xs[j].e) = TimeRaw(kept[i].e)
                               /\ xs[j].row.created = kept[i].row.created

\* The file read back is what was captured, its events and its processes,
\* when the capture reports an outcome (run_capture).
Reopened == pc = "done" /\ reason # "error" => EventsSurvive /\ ChainsSurvive

\* A file cut short anywhere, as by an error of the file system, is refused,
\* never opened with part of its data.
PrefixRefused ==
  pc = "done" =>
    /\ \A n \in 0..Len(file) - 1 : OpenFile(SubSeq(file, 1, n)) = NoFile
    /\ reason = "error" => OpenFile(file) = NoFile

\* An event is written exactly when its process was a target from the start,
\* bears a target's name, was followed at an earlier event, or is the child of
\* a process followed at an earlier event (its own first event included).
Followed ==
  LET pid(i) == Pid(taken[i].e, taken[i].row)
      named(i) == taken[i].row # NoRow /\ Basename(taken[i].row.image) \in Names
      earlier[i \in 0..Len(taken)] ==
        IF i = 0 THEN seeded
        ELSE earlier[i - 1] \union
             IF \/ named(i)
                \/ /\ IncludeChildren /\ taken[i].row # NoRow
                   /\ taken[i].row.parent \in earlier[i - 1]
             THEN {pid(i)} ELSE {}
  IN {i \in DOMAIN taken : (Names = {} /\ Seeds = {}) \/ pid(i) \in earlier[i]}
FollowedWritten ==
  kept = SelectSeq(taken, LAMBDA x :
    /\ \E i \in Followed : taken[i] = x
    /\ Pid(x.e, x.row) # OwnPid /\ CategorySelected(Class(x.e))
    /\ Wanted # None => Holds(Wanted[1], x))

\* Network events are received in the order the session reported them, each
\* with the frames of its own stack walks that came before PendingWindow
\* younger events did, those of the kernel first.
StacksOwn ==
  LET mine == SelectSeq(taken, LAMBDA x : IsNet(x.e))
      at == SetToSortSeq({i \in DOMAIN traced : ~IsWalk(traced[i]) /\ DecodeEtw(traced[i]) # None}, <)
      frames(n) ==   \* of the n-th network event
        FoldLeft(LAMBDA fs, r : IF IsWalk(r) /\ r.data.head.stamp = traced[at[n]].time
                                THEN fs \o r.data.tail ELSE fs,
                 <<>>, SubSeq(traced, at[n], at[n + PendingWindow]))
  IN \A n \in DOMAIN mine :
       LET kernelOf == SelectSeq(CallStack(mine[n].e), IsKernelAddress)
       IN /\ n + PendingWindow <= Len(at) /\ mine[n].e.net.time = traced[at[n]].time
          /\ kernelOf = SelectSeq(frames(n), IsKernelAddress)
          /\ CallStack(mine[n].e)
             = kernelOf \o SelectSeq(frames(n), LAMBDA a : ~IsKernelAddress(a))

\* A stop, like the end of the duration, ends the capture, in a file or in an
\* error, whatever the driver still sends and even when it sends nothing more.
StopEnds == (stop \/ elapsed = Duration) ~> (pc = "done")

=============================================================================
