---------------------------- MODULE ProcessTrack ----------------------------
(***************************************************************************)
(* How a process becomes known: the process list of the driver             *)
(* (kernel/process.c) and the process table the client builds from its     *)
(* records (crates/sdk/src/parse/proc.rs, process.rs, Correlator::build).  *)
(*                                                                         *)
(* Every intercepted operation calls RefProcessInfo for the process it     *)
(* runs in.  The first call inserts a PROCESSINFO_LIST entry under a new   *)
(* sequence and, unless asynchronous, logs the INIT record that describes  *)
(* the process.  A process created meanwhile has its details parked in     *)
(* pProcessFullInfo instead, and its next RefProcessInfo logs them as      *)
(* CREATE.  Only the search of the list is under gProcessListMutex: bInit, *)
(* pProcessFullInfo and the reference count are read and written outside.  *)
(*                                                                         *)
(* A thread is a stack of RefProcessInfo calls, because                    *)
(* ProcmonFillProcessInfo calls it again for the parent while it holds the *)
(* mutex of the log.  The client reads records in log order (KernelLog),   *)
(* so its table changes in the step that makes a record visible.           *)
(*                                                                         *)
(* Monitoring is on throughout, with a client connected.                   *)
(***************************************************************************)
EXTENDS Integers, Sequences, FiniteSets, SequencesExt

CONSTANTS
  Threads,     (* threads that run intercepted operations                 *)
  Pids,        (* process identifiers                                     *)
  Started,     (* those in use when monitoring starts                     *)
  Free,        (* nobody holds gMutexLogList                              *)
  Kinds,       (* the operations that arrive: "file", "paging", "image"   *)
  Failures,    (* what may fail: "alloc", "open", "log", "keep"           *)
  MaxOps,      (* bound: operations ever begun                            *)
  MaxLife,     (* bound: processes that run under one identifier          *)
  MaxSeq       (* bound: gGlobalSeq                                       *)

ASSUME ProcessAssumption ==
  /\ Free \notin Threads
  /\ IsFiniteSet(Threads)
  /\ Pids # {}
  /\ Started \subseteq Pids
  /\ Kinds \subseteq {"file", "paging", "image"}
  /\ Failures \subseteq {"alloc", "open", "log", "keep"}
  /\ MaxOps \in Nat
  /\ MaxLife \in Nat \ {0}
  /\ MaxSeq \in Nat

VARIABLES
  (* the system *)
  life,        (* how many processes have run under each identifier       *)
  status,      (* "free", "born", "alive", "exiting", "gone"              *)
  inherited,   (* InheritedFromUniqueProcessId                            *)
  (* the driver *)
  entry,       (* the PROCESSINFO_LIST entries by sequence                *)
  logLock,     (* the holder of gMutexLogList, or Free                    *)
  stack,       (* the RefProcessInfo calls each thread is in              *)
  op,          (* the intercepted operation each thread runs              *)
  freeing,     (* the entry whose count a thread brought to zero, or 0    *)
  begun,       (* bound counter for MaxOps                                *)
  (* the client *)
  table,       (* ProcessManager: the records inserted under a sequence   *)
  cache,       (* Correlator::last_proc                                   *)
  built,       (* the latest event and the process it was built with      *)
  (* history, which no step reads *)
  exits,       (* how many processes ended with each sequence             *)
  failed,      (* the identifiers an allocation, an opening or a log      *)
               (* entry failed for                                        *)
  kept         (* the sequences a reference was not given back for        *)

osvars   == <<life, status, inherited>>
callvars == <<stack, op, freeing>>
uservars == <<table, cache, built>>
history  == <<exits, failed, kept>>
vars     == <<osvars, entry, logLock, callvars, begun, uservars, history>>

Seqs == 1..Len(entry)
\* An operation runs in process pid and calls RefProcessInfo for process about.
Doing(kind, p, q) == [kind |-> kind, pid |-> p, about |-> q, step |-> "ref",
                      parent |-> 0]
AnyPid == CHOOSE p \in Pids : TRUE
Idle == Doing("idle", AnyPid, AnyPid)

\* An entry as RefProcessInfo allocates it, and one that was freed.
NewEntry(p) == [pid |-> p, life |-> life[p], listed |-> FALSE, freed |-> FALSE,
                refs |-> 1, init |-> FALSE, full |-> {}, exit |-> "no"]
Freed == [pid |-> AnyPid, life |-> 0, listed |-> FALSE,
          freed |-> TRUE, refs |-> 0, init |-> FALSE, full |-> {},
          exit |-> "no"]

\* The entries with that of s replaced; a reference more, a reference less.
With(s, e) == [entry EXCEPT ![s] = e]
Held(e) == [e EXCEPT !.refs = @ + 1]
Less(e) == [e EXCEPT !.refs = @ - 1]

\* RefProcessInfo(pid, bNotAsyn).  again: the call that inserted the entry
\* looks at it once more after it filled it.
Call(p, sync) == [pid |-> p, sync |-> sync, pc |-> "find", mine |-> 0, seq |-> 0,
                  full |-> {}, again |-> FALSE]

Init ==
  /\ life = [p \in Pids |-> IF p \in Started THEN 1 ELSE 0]
  /\ status = [p \in Pids |-> IF p \in Started THEN "alive" ELSE "free"]
  /\ inherited \in [Pids -> Pids]
  /\ \A p \in Pids \ Started : inherited[p] = p
  /\ entry = << >>
  /\ logLock = Free
  /\ stack = [t \in Threads |-> << >>]
  /\ op = [t \in Threads |-> Idle]
  /\ freeing = [t \in Threads |-> 0]
  /\ begun = 0
  /\ table = [s \in 1..MaxSeq |-> << >>]
  /\ cache = [seq |-> 0, rec |-> 0]
  /\ built = [kind |-> "none", rec |-> 0, latest |-> 0]
  /\ exits = [s \in 1..MaxSeq |-> 0]
  /\ failed = {}
  /\ kept = {}

-----------------------------------------------------------------------------
(* The client: track, then build, for one record of the log.               *)

\* ProcessManager::insert replaces the record of the sequence; a record is
\* named by its place in the sequence of insertions.
Inserted(s, kind) == [table EXCEPT ![s] = Append(@, kind)]

\* Slip: a miss is cached like a hit.
CachedAlways(tab, s) ==
  IF cache.seq = s /\ s # 0 THEN cache
  ELSE IF s = 0 THEN cache ELSE [seq |-> s, rec |-> Len(tab[s])]

\* last_proc after an event of sequence s: a hit keeps it, a lookup that
\* finds a record replaces it, a miss is not cached.  0 is no process (-1).
Cached(tab, s) ==
  IF cache.seq = s \/ s = 0 \/ tab[s] = << >> THEN cache
  ELSE [seq |-> s, rec |-> Len(tab[s])]

\* An event attributed to s is built with the record the cache now holds.
Emit(kind, s, tab) ==
  /\ cache' = Cached(tab, s)
  /\ built' = [kind |-> kind,
               rec |-> IF s # 0 /\ Cached(tab, s).seq = s
                       THEN Cached(tab, s).rec ELSE 0,
               latest |-> IF s = 0 THEN 0 ELSE Len(tab[s])]

-----------------------------------------------------------------------------
(* RefProcessInfo and ProcmonFillProcessInfo.                              *)

Running(t) == stack[t] # << >> /\ freeing[t] = 0
Top(t) == Last(stack[t])
At(t, pc) == Running(t) /\ Top(t).pc = pc
WithTop(t, f) == [stack EXCEPT ![t] = Append(Front(@), f)]
SetTop(t, f) == stack' = WithTop(t, f)
Goto(t, pc) == SetTop(t, [Top(t) EXCEPT !.pc = pc])

Listed(p) == {s \in Seqs : entry[s].listed /\ entry[s].pid = p}
Found(p) == CHOOSE s \in Listed(p) : TRUE

\* Fill is over: the inserting call looks at the entry again.
Filled(f) == [f EXCEPT !.pc = IF f.again THEN "check" ELSE "return",
                       !.again = FALSE, !.full = {}]

\* The INIT or CREATE record is out or refused: a new process has a START
\* record still to be logged.
Described(f) == IF f.full = {} THEN Filled(f) ELSE [f EXCEPT !.pc = "start"]

\* Slip: FindProcessInfoByProcessId does not count the reference it returns.
FindUncounted(t) ==
  /\ At(t, "find")
  /\ LET p == Top(t).pid IN
     \/ /\ Listed(p) # {}
        /\ SetTop(t, [Top(t) EXCEPT !.pc = "check", !.seq = Found(p)])
        /\ UNCHANGED entry
     \/ /\ Listed(p) = {}
        /\ Len(entry) < MaxSeq
        /\ entry' = Append(entry, NewEntry(p))
        /\ SetTop(t, [Top(t) EXCEPT !.pc = "insert", !.mine = Len(entry) + 1])
  /\ UNCHANGED <<osvars, logLock, op, freeing, uservars>>

\* The first search; without a hit an entry is allocated and numbered.
Find(t) ==
  /\ At(t, "find")
  /\ LET p == Top(t).pid IN
     \/ /\ Listed(p) # {}
        /\ entry' = With(Found(p), Held(entry[Found(p)]))
        /\ SetTop(t, [Top(t) EXCEPT !.pc = "check", !.seq = Found(p)])
     \/ /\ Listed(p) = {}
        /\ Len(entry) < MaxSeq
        /\ entry' = Append(entry, NewEntry(p))
        /\ SetTop(t, [Top(t) EXCEPT !.pc = "insert", !.mine = Len(entry) + 1])
  /\ UNCHANGED <<osvars, logLock, op, freeing, uservars>>

FindFails(t) ==
  /\ At(t, "find")
  /\ Listed(Top(t).pid) = {}
  /\ "alloc" \in Failures
  /\ Goto(t, "return")
  /\ UNCHANGED <<osvars, entry, logLock, op, freeing, uservars>>

\* Slip: the list is not searched again.
InsertBlind(t) ==
  /\ At(t, "insert")
  /\ LET m == Top(t).mine IN
     /\ entry' = With(m, [Held(entry[m]) EXCEPT !.listed = TRUE])
     /\ SetTop(t, [Top(t) EXCEPT !.pc = IF Top(t).sync THEN "fill" ELSE "check",
                                 !.seq = m, !.mine = 0, !.again = Top(t).sync])
  /\ UNCHANGED <<osvars, logLock, op, freeing, uservars>>

\* The second search: the entry of another thread wins, else this one is
\* inserted, and filled at once by a synchronous call.
Insert(t) ==
  /\ At(t, "insert")
  /\ LET p == Top(t).pid
         m == Top(t).mine IN
     \/ /\ Listed(p) # {}
        /\ entry' = [s \in Seqs |-> IF s = m THEN Freed
                                   ELSE IF s = Found(p) THEN Held(entry[s])
                                   ELSE entry[s]]
        /\ SetTop(t, [Top(t) EXCEPT !.pc = "check", !.seq = Found(p),
                                    !.mine = 0])
     \/ /\ Listed(p) = {}
        /\ entry' = With(m, [Held(entry[m]) EXCEPT !.listed = TRUE])
        /\ SetTop(t, [Top(t) EXCEPT !.pc = IF Top(t).sync THEN "fill"
                                          ELSE "check",
                                    !.seq = m, !.mine = 0,
                                    !.again = Top(t).sync])
  /\ UNCHANGED <<osvars, logLock, op, freeing, uservars>>

\* Details to log as CREATE, or nothing logged yet: fill.
Check(t) ==
  /\ At(t, "check")
  /\ LET e == entry[Top(t).seq] IN
     Goto(t, IF e.full # {} \/ (Top(t).sync /\ ~e.init)
             THEN "fill" ELSE "return")
  /\ UNCHANGED <<osvars, entry, logLock, op, freeing, uservars>>

\* ProcmonFillProcessInfo marks the entry before it does anything.
FillStart(t) ==
  /\ At(t, "fill")
  /\ entry' = With(Top(t).seq, [entry[Top(t).seq] EXCEPT !.init = TRUE])
  /\ Goto(t, "query")
  /\ UNCHANGED <<osvars, logLock, op, freeing, uservars>>

\* The process cannot be opened or queried, or has ended.
Ended(p) == status[p] \in {"free", "gone"}

FillFails(t) ==
  /\ At(t, "query")
  /\ "open" \in Failures \/ Ended(Top(t).pid)
  /\ entry' = With(Top(t).seq, [entry[Top(t).seq] EXCEPT !.init = FALSE])
  /\ SetTop(t, Filled(Top(t)))
  /\ UNCHANGED <<osvars, logLock, op, freeing, uservars>>

\* Slip: the details are read and left in place.
FillTakeShared(t) ==
  /\ At(t, "query")
  /\ ~Ended(Top(t).pid)
  /\ SetTop(t, [Top(t) EXCEPT !.pc = "log", !.full = entry[Top(t).seq].full])
  /\ UNCHANGED <<osvars, entry, logLock, op, freeing, uservars>>

\* InterlockedExchangePointer takes the details out of the entry.
FillTake(t) ==
  /\ At(t, "query")
  /\ ~Ended(Top(t).pid)
  /\ SetTop(t, [Top(t) EXCEPT !.pc = "log", !.full = entry[Top(t).seq].full])
  /\ entry' = With(Top(t).seq, [entry[Top(t).seq] EXCEPT !.full = {}])
  /\ UNCHANGED <<osvars, logLock, op, freeing, uservars>>

\* DerefProcessInfo, on the entries of an action that may have changed them:
\* the count is decremented outside the mutex.
Derefs(t, s, ents) ==
  /\ entry' = [r \in Seqs |-> IF r = s THEN Less(ents[r]) ELSE ents[r]]
  /\ freeing' = IF s # 0 /\ ents[s].refs = 1 THEN [freeing EXCEPT ![t] = s]
                ELSE freeing

Deref(t, s) == Derefs(t, s, entry)

\* The rest of DerefProcessInfo: under the mutex the count is looked at again.
FreeEntry(t) ==
  /\ freeing[t] # 0
  /\ entry' = IF entry[freeing[t]].refs = 0
              THEN With(freeing[t], Freed) ELSE entry
  /\ freeing' = [freeing EXCEPT ![t] = 0]
  /\ UNCHANGED <<osvars, logLock, stack, op, uservars>>

\* The sequence of the parent in the details taken: 0 when there is none.
ParentOf(full) == IF full = {} THEN 0 ELSE CHOOSE s \in full : TRUE

\* The log entry is reserved; its mutex stays held over RefProcessInfo of the
\* parent.
FillLog(t) ==
  /\ At(t, "log")
  /\ logLock = Free
  /\ logLock' = t
  /\ Deref(t, ParentOf(Top(t).full))
  /\ stack' = [stack EXCEPT
       ![t] = Append(Append(Front(@), [Top(t) EXCEPT !.pc = "parent"]),
                     Call(inherited[Top(t).pid], FALSE))]
  /\ UNCHANGED <<osvars, op, uservars>>

\* Slip: a refused record leaves the entry marked.
FillRefusedKeeps(t) ==
  /\ At(t, "log")
  /\ "log" \in Failures
  /\ logLock = Free
  /\ Deref(t, ParentOf(Top(t).full))
  /\ SetTop(t, Described(Top(t)))
  /\ UNCHANGED <<osvars, logLock, op, uservars>>

FillRefused(t) ==
  /\ At(t, "log")
  /\ "log" \in Failures
  /\ logLock = Free
  /\ Derefs(t, ParentOf(Top(t).full),
            With(Top(t).seq, [entry[Top(t).seq] EXCEPT !.init = FALSE]))
  /\ SetTop(t, Described(Top(t)))
  /\ UNCHANGED <<osvars, logLock, op, uservars>>

\* The call for the parent returned; its reference is dropped under the mutex.
FillParent(t) ==
  /\ At(t, "return")
  /\ Len(stack[t]) > 1
  /\ LET below == stack[t][Len(stack[t]) - 1] IN
     stack' = [stack EXCEPT
       ![t] = Append(Front(Front(@)), [below EXCEPT !.pc = "release"])]
  /\ Deref(t, Top(t).seq)
  /\ UNCHANGED <<osvars, logLock, op, uservars>>

\* The record is released and the client learns of the process.  CREATE is an
\* event of the parent, INIT is none.
FillRelease(t) ==
  /\ At(t, "release")
  /\ LET f == Top(t)
         tab == Inserted(f.seq, IF f.full = {} THEN "init" ELSE "create") IN
     /\ table' = tab
     /\ IF f.full = {} THEN UNCHANGED <<cache, built>>
        ELSE Emit("create", ParentOf(f.full), tab)
  /\ logLock' = Free
  /\ SetTop(t, Described(Top(t)))
  /\ UNCHANGED <<osvars, entry, op, freeing>>

\* The START record of a new process follows its CREATE record, logged or not.
LogStart(t) ==
  /\ At(t, "start")
  /\ logLock = Free
  /\ \/ Emit("start", Top(t).seq, table)
     \/ "log" \in Failures /\ UNCHANGED <<cache, built>>
  /\ SetTop(t, Filled(Top(t)))
  /\ UNCHANGED <<osvars, entry, logLock, op, freeing, table>>

-----------------------------------------------------------------------------
(* The intercepted operations.  Each begins with RefProcessInfo.           *)

Ready(t) == op[t].kind = "idle" /\ freeing[t] = 0

Begin(t, o, p, sync) ==
  /\ begun < MaxOps
  /\ begun' = begun + 1
  /\ op' = [op EXCEPT ![t] = o]
  /\ stack' = [stack EXCEPT ![t] = <<Call(p, sync)>>]

\* The call of step s of operation k returned.
Returned(t, k, s) ==
  /\ At(t, "return")
  /\ Len(stack[t]) = 1
  /\ op[t].kind \in k
  /\ op[t].step = s

Finish(t) ==
  /\ op' = [op EXCEPT ![t] = Idle]
  /\ stack' = [stack EXCEPT ![t] = << >>]

\* A new process runs once the notification of its initial thread is over.
Runs(t) ==
  /\ status' = IF op[t].kind = "thread"
               THEN [status EXCEPT ![op[t].about] = "alive"] ELSE status
  /\ UNCHANGED <<life, inherited>>

\* A file operation, a paging write or an image load (its APC) of process p.
Enter(t) ==
  /\ Ready(t)
  /\ \E p \in Pids, k \in Kinds :
       /\ status[p] = "alive"
       /\ Begin(t, Doing(k, p, p), p, k # "paging")
  /\ UNCHANGED <<osvars, entry, logLock, freeing, uservars>>

Reports == {"file", "paging", "image", "thread"}
NeedsInit(t) == op[t].kind \in {"file", "paging"}

\* Without an entry nothing is logged; nor when the log refuses.
Skip(t) ==
  /\ Returned(t, Reports, "ref")
  /\ LET s == Top(t).seq IN
     /\ s # 0 => "log" \in Failures /\ (NeedsInit(t) => entry[s].init)
     /\ Deref(t, s)
  /\ Finish(t)
  /\ Runs(t)
  /\ UNCHANGED <<logLock, uservars>>

\* Nor is a file operation without bInit, which keeps its reference.
SkipUnmarked(t) ==
  /\ Returned(t, Reports, "ref")
  /\ Top(t).seq # 0
  /\ NeedsInit(t) /\ ~entry[Top(t).seq].init
  /\ Finish(t)
  /\ UNCHANGED <<osvars, entry, logLock, freeing, uservars>>

\* The entry of a file operation (ProcmonPreOperation), of a thread
\* (CreateThreadNotifyRoutine) or of an image (ProcmonNotifyImageLoad).
Log(t) ==
  /\ Returned(t, Reports, "ref")
  /\ LET s == Top(t).seq IN
     /\ s # 0
     /\ NeedsInit(t) => entry[s].init
     /\ logLock = Free
     /\ Emit(op[t].kind, s, table)
     /\ Deref(t, s)
  /\ Finish(t)
  /\ Runs(t)
  /\ UNCHANGED <<logLock, table>>

\* Process p creates process q; the process notification runs in p's thread.
\* q may take an identifier whose process is gone once no one holds the
\* process object.
Reusable(q) ==
  \/ status[q] = "free"
  \/ /\ status[q] = "gone"
     /\ ~ \E s \in Seqs : entry[s].pid = q /\ entry[s].exit # "no"

Create(t) ==
  /\ Ready(t)
  /\ \E p, q \in Pids :
       /\ status[p] = "alive"
       /\ Reusable(q)
       /\ life[q] < MaxLife
       /\ life' = [life EXCEPT ![q] = @ + 1]
       /\ status' = [status EXCEPT ![q] = "born"]
       /\ inherited' = [inherited EXCEPT ![q] = p]
       /\ Begin(t, Doing("create", p, q), p, TRUE)
  /\ UNCHANGED <<entry, logLock, freeing, uservars>>

\* Slip: the child is referenced like the parent, which describes it at once.
CreateChildSync(t) ==
  /\ Returned(t, {"create"}, "ref")
  /\ op' = [op EXCEPT ![t] = [@ EXCEPT !.step = "child", !.parent = Top(t).seq]]
  /\ stack' = [stack EXCEPT ![t] = <<Call(op[t].about, TRUE)>>]
  /\ UNCHANGED <<osvars, entry, logLock, freeing, uservars>>

\* RefProcessInfo(ParentId, TRUE) returned; the reference goes into the
\* details of the child.
CreateChild(t) ==
  /\ Returned(t, {"create"}, "ref")
  /\ op' = [op EXCEPT ![t] = [@ EXCEPT !.step = "child", !.parent = Top(t).seq]]
  /\ stack' = [stack EXCEPT ![t] = <<Call(op[t].about, FALSE)>>]
  /\ UNCHANGED <<osvars, entry, logLock, freeing, uservars>>

\* The notification of the initial thread follows in the same thread.
ThreadStarts(t) ==
  /\ op' = [op EXCEPT ![t] = [@ EXCEPT !.kind = "thread", !.step = "ref",
                                       !.parent = 0]]
  /\ stack' = [stack EXCEPT ![t] = <<Call(op[t].about, TRUE)>>]
  /\ UNCHANGED <<osvars, logLock, uservars>>

\* The details are parked in the child's entry.
CreatePark(t) ==
  /\ Returned(t, {"create"}, "child")
  /\ LET s == Top(t).seq IN
     \/ s = 0 /\ Deref(t, op[t].parent)
     \/ s # 0 /\ Derefs(t, s, With(s, [entry[s] EXCEPT !.full = {op[t].parent}]))
  /\ ThreadStarts(t)

\* Without memory for them the reference of the parent is not dropped.
ParkFails(t) ==
  /\ Returned(t, {"create"}, "child")
  /\ Top(t).seq # 0
  /\ "alloc" \in Failures
  /\ Deref(t, Top(t).seq)
  /\ ThreadStarts(t)

\* The last thread of p ends: the process notification runs in it.
Busy(p) == \E t \in Threads : op[t].kind # "idle" /\ op[t].pid = p

Exit(t) ==
  /\ Ready(t)
  /\ \E p \in Pids :
       /\ status[p] = "alive"
       /\ ~Busy(p)
       /\ status' = [status EXCEPT ![p] = "exiting"]
       /\ Begin(t, Doing("exit", p, p), p, TRUE)
  /\ UNCHANGED <<life, inherited, entry, logLock, freeing, uservars>>

ExitEnds(t) ==
  /\ status' = [status EXCEPT ![op[t].pid] = "gone"]
  /\ Finish(t)

\* ProcmonQueryProcessExitInfo references the process object, so that its
\* identifier is not reused.
ExitQuery(t) ==
  /\ Returned(t, {"exit"}, "ref")
  /\ Top(t).seq # 0
  /\ \/ entry' = With(Top(t).seq, [entry[Top(t).seq] EXCEPT !.exit = "held"])
     \/ "keep" \in Failures /\ UNCHANGED entry
  /\ op' = [op EXCEPT ![t].step = "log"]
  /\ UNCHANGED <<osvars, logLock, stack, freeing, uservars>>

ExitUnknown(t) ==
  /\ Returned(t, {"exit"}, "ref")
  /\ Top(t).seq = 0
  /\ ExitEnds(t)
  /\ UNCHANGED <<life, inherited, entry, logLock, freeing, uservars>>

\* The EXIT record, or its refusal, and the release of the entry.
ExitLog(t) ==
  /\ Returned(t, {"exit"}, "log")
  /\ logLock = Free
  /\ \/ Emit("exit", Top(t).seq, table)
     \/ "log" \in Failures /\ UNCHANGED <<cache, built>>
  /\ Deref(t, Top(t).seq)
  /\ op' = [op EXCEPT ![t].step = "queue"]
  /\ UNCHANGED <<osvars, logLock, stack, table>>

\* ProcmonAddProcessToWaitExitList.
ExitQueue(t) ==
  /\ Returned(t, {"exit"}, "queue")
  /\ entry' = IF entry[Top(t).seq].exit = "held"
              THEN With(Top(t).seq, [entry[Top(t).seq] EXCEPT !.exit = "queued"])
              ELSE entry
  /\ ExitEnds(t)
  /\ UNCHANGED <<life, inherited, logLock, freeing, uservars>>

\* ProcmonWaitProcessExitWorkRoutine: every queued process that is gone loses
\* the reference of the list; at zero the entry is freed.
Signalled == {s \in Seqs : entry[s].exit = "queued"
                             /\ (status[entry[s].pid] = "gone")}

Dropped(e) ==
  IF e.refs = 1 THEN Freed ELSE [e EXCEPT !.refs = @ - 1, !.exit = "no"]

\* Slip: the reference of the list is kept.
WaitExitKeeps ==
  /\ Signalled # {}
  /\ entry' = [s \in Seqs |->
       IF s \in Signalled THEN [entry[s] EXCEPT !.exit = "no"] ELSE entry[s]]
  /\ UNCHANGED <<osvars, logLock, callvars, begun, uservars, history>>

WaitExit ==
  /\ Signalled # {}
  /\ entry' = [s \in Seqs |->
       IF s \in Signalled THEN Dropped(entry[s]) ELSE entry[s]]
  /\ UNCHANGED <<osvars, logLock, callvars, begun, uservars, history>>

-----------------------------------------------------------------------------
Fill(t) ==
  FillStart(t) \/ FillTake(t) \/ FillLog(t)
  \/ FillParent(t) \/ FillRelease(t) \/ LogStart(t)

Ref(t) ==
  /\ \/ /\ Find(t) \/ Insert(t) \/ Check(t) \/ Fill(t) \/ FreeEntry(t)
        /\ UNCHANGED failed
     \/ /\ FindFails(t) \/ FillRefused(t)
        /\ failed' = failed \union {Top(t).pid}
     \/ /\ FillFails(t)
        /\ failed' = IF Ended(Top(t).pid) THEN failed ELSE failed \union {Top(t).pid}
  /\ UNCHANGED <<begun, exits, kept>>

Operation(t) ==
  /\ \/ /\ Skip(t) \/ Log(t) \/ CreateChild(t) \/ CreatePark(t)
           \/ ExitUnknown(t) \/ ExitLog(t) \/ ExitQueue(t)
        /\ UNCHANGED history
     \/ SkipUnmarked(t) /\ kept' = kept \union {Top(t).seq} /\ UNCHANGED <<exits, failed>>
     \/ /\ ParkFails(t) /\ UNCHANGED exits
        /\ failed' = failed \union {op[t].about} /\ kept' = kept \union {op[t].parent}
     \/ /\ ExitQuery(t) /\ UNCHANGED <<failed, kept>>
        /\ exits' = [exits EXCEPT ![Top(t).seq] = @ + 1]
  /\ UNCHANGED begun

Arrive(t) == (Enter(t) \/ Create(t) \/ Exit(t)) /\ UNCHANGED history

Next == (\E t \in Threads : Arrive(t) \/ Ref(t) \/ Operation(t)) \/ WaitExit

\* A thread inside an operation is scheduled and gets the mutex in its turn;
\* the work item runs.  Nobody has to begin an operation.
Fairness ==
  /\ \A t \in Threads : SF_vars(Ref(t) \/ Operation(t))
  /\ WF_vars(WaitExit)

Spec == Init /\ [][Next]_vars /\ Fairness

-----------------------------------------------------------------------------
(* Properties.                                                             *)

\* The list holds one entry for a process identifier, whatever the order in
\* which threads find none and insert theirs: events of one process never
\* split over two sequences.
OneEntryPerPid == \A p \in Pids : Cardinality(Listed(p)) <= 1

\* A thread is between FillStart and the end of the fill of entry s.
Filling(s) ==
  \E t \in Threads : \E i \in 1..Len(stack[t]) :
    stack[t][i].seq = s /\ stack[t][i].pc \in {"query", "log", "parent", "release"}

\* An entry that says it is described has been: when bInit is set and no
\* thread is still filling, the client has a record for the sequence.  If not,
\* no later operation would log it and all events of the process are dropped.
InitLogged ==
  \A s \in Seqs :
    entry[s].listed /\ entry[s].init /\ ~Filling(s) => table[s] # << >>

\* The details of a new process are logged once: of the threads that see
\* pProcessFullInfo set, one takes it, and no sequence has more CREATE records
\* than processes were created under its identifier.
Creates(s) == {i \in 1..Len(table[s]) : table[s][i] = "create"}
Created(p) == IF p \in Started THEN life[p] - 1 ELSE life[p]

CreateOnce ==
  \A s \in Seqs :
    ~entry[s].freed => Cardinality(Creates(s)) <= Created(entry[s].pid)

\* Sequences whose entry a call or details that it took point to.
Uses(t) ==
  {stack[t][i].seq : i \in 1..Len(stack[t])}
  \union UNION {stack[t][i].full : i \in
     {j \in 1..Len(stack[t]) : stack[t][j].pc = "log"}}

\* No call, and no parked details, point to an entry that was freed: the
\* count of references covers every use, the exit of the process included.
\* That is so until a second process ends with the sequence, which took the
\* identifier while the entry of the first was still in use: the list holds
\* one reference for both, and each exit drops it.  The second look of
\* DerefProcessInfo is no use: it may come after another thread has found the
\* entry, brought it to zero again and freed it.
NoDanglingRef ==
  \A s \in Seqs : entry[s].freed /\ exits[s] <= 1 =>
    /\ \A t \in Threads : s \notin Uses(t)
    /\ \A r \in Seqs : s \notin entry[r].full

\* Correlator: a process that is tracked only after its first events is not
\* masked by a stale miss: no event that follows the INIT or CREATE record of
\* its process is built without it, and so dropped.
KnownAfterInit == built.rec = 0 => built.latest = 0

\* INIT is "a process already running at capture start, whose image-loads
\* predate capture" (track): a process created meanwhile, whose modules would
\* otherwise be taken from a snapshot, is described as CREATE only.  That is
\* so unless something failed for this very process: a refused record or an
\* allocation, for then the details are lost, or the opening of the process,
\* for then one fill unmarks what another logs.  And it is so for an
\* identifier that was not used before: its old entry may be freed with the
\* details of the new process in it.
InitMeansStarted ==
  \A s \in Seqs : \A i \in 1..Len(table[s]) :
    LET p == entry[s].pid IN
    table[s][i] = "init" /\ ~entry[s].freed /\ life[p] = 1 /\ p \notin failed
      => p \in Started

\* RefProcessInfo: "if the I/O is synchronous, fill the ProcessInfo at once"
\* (translated).  The asynchronous call that a fill makes for the parent, with
\* the mutex of the log held, must not fill: a thread does not wait for the
\* mutex of the log while it holds it.
NoSelfLock ==
  \A t \in Threads : logLock = t => ~At(t, "log") /\ ~At(t, "start")

\* An entry whose process is gone and queued leaves the list, so that a new
\* process with its identifier gets a sequence of its own.  Not so when a
\* thread waits for itself, which keeps everybody from the log, or when the
\* process created one under an identifier used before: the details of that
\* one may be freed with the old entry, with the reference in them.  Nor when
\* an operation kept its reference (kept), which an operation of the pager may
\* that comes before the first other one of its process.
OrphanedBy(p) == \E q \in Pids : life[q] > 1 /\ inherited[q] = p

ExitedLeave ==
  \A s \in 1..MaxSeq :
    (s \in Seqs /\ entry[s].exit = "queued")
      ~> (s \in Seqs /\ (entry[s].listed => s \in kept \/ OrphanedBy(entry[s].pid)))
         \/ ~NoSelfLock

\* The model in terms of its bounds; only a call with a fill in progress has
\* another above it, and the cache names an inserted record.
TypeOK ==
  /\ life \in [Pids -> 0..MaxLife]
  /\ status \in [Pids -> {"free", "born", "alive", "exiting", "gone"}]
  /\ inherited \in [Pids -> Pids]
  /\ Len(entry) <= MaxSeq
  /\ \A s \in Seqs :
       /\ entry[s].pid \in Pids
       /\ entry[s].refs \in Int
       /\ entry[s].full \subseteq 0..Len(entry)
       /\ entry[s].freed => ~entry[s].listed
       /\ entry[s].exit \in {"no", "held", "queued"}
  /\ logLock \in Threads \union {Free}
  /\ \A t \in Threads :
       /\ freeing[t] \in 0..Len(entry)
       /\ \A i \in 1..Len(stack[t]) :
            /\ stack[t][i].seq \in 0..Len(entry)
            /\ (i < Len(stack[t])) <=> (stack[t][i].pc = "parent")
       /\ op[t].kind \in {"idle", "create", "exit"} \union Reports
  /\ begun \in 0..MaxOps
  /\ exits \in [1..MaxSeq -> Nat]
  /\ failed \subseteq Pids
  /\ kept \subseteq 0..MaxSeq
  /\ cache.seq \in 0..MaxSeq
  /\ cache.seq # 0 => cache.rec \in 1..Len(table[cache.seq])

=============================================================================
