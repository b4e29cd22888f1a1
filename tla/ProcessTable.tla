---------------------------- MODULE ProcessTable ----------------------------
(***************************************************************************)
(* The process table of a capture (crates/sdk/src/process.rs) and how the   *)
(* parse thread keeps it (parse/proc.rs).  A record is kept after its       *)
(* process exits; it is found by the driver's sequence or, for the newest   *)
(* process of an identifier, by pid.                                        *)
(***************************************************************************)
EXTENDS EventView

CONSTANTS Toolhelp,     \* pid -> modules a snapshot of that process lists
          KernelModules \* the drivers system::kernel_modules lists

SystemPid == 4
Pending == [pending |-> TRUE]  \* metadata the worker has not resolved

ProcessRecord(info) ==
  [seq |-> info.seq, pid |-> info.pid, parent |-> info.parent,
   created |-> info.created, exit |-> NoTicks, wow |-> info.wow, user |-> info.sid,
   integrity |-> info.integrity, image |-> info.image, cmd |-> info.cmd,
   modules |-> <<>>, meta |-> Pending]

MarkRecordExited(rec, time) == [rec EXCEPT !.exit = time]
AddRecordModule(rec, m) ==
  IF \E i \in DOMAIN rec.modules : rec.modules[i].base = m.base THEN rec
  ELSE [rec EXCEPT !.modules = Append(@, m)]
SetRecordMeta(rec, meta) == IF rec.meta = Pending THEN [rec EXCEPT !.meta = meta] ELSE rec

(***************************************************************************)
(* The manager: both indexes.                                               *)
(***************************************************************************)
ManagerNew == [bySeq |-> <<>>, byPid |-> <<>>]
Insert(mgr, rec) == [bySeq |-> (rec.seq :> rec) @@ mgr.bySeq,
                     byPid |-> (rec.pid :> rec.seq) @@ mgr.byPid]
BySeq(mgr, seq) == IF seq \in DOMAIN mgr.bySeq THEN mgr.bySeq[seq] ELSE NoRow
ByPid(mgr, pid) == IF pid \in DOMAIN mgr.byPid THEN BySeq(mgr, mgr.byPid[pid]) ELSE NoRow
Snapshot(mgr) == {mgr.bySeq[s] : s \in DOMAIN mgr.bySeq}
Clear(mgr) == ManagerNew

Update(mgr, seq, rec) == IF seq \in DOMAIN mgr.bySeq
                         THEN [mgr EXCEPT !.bySeq[seq] = rec] ELSE mgr
MarkExited(mgr, seq, time) == Update(mgr, seq, MarkRecordExited(BySeq(mgr, seq), time))
AddModule(mgr, seq, m) == Update(mgr, seq, AddRecordModule(BySeq(mgr, seq), m))
SetMeta(mgr, seq, meta) == Update(mgr, seq, SetRecordMeta(BySeq(mgr, seq), meta))

(***************************************************************************)
(* track: what each process record does to the table.  known maps the       *)
(* images whose metadata is cached to it; live is FALSE for offline replay. *)
(***************************************************************************)
SeedInitModules(rec) ==
  FoldLeft(AddRecordModule, rec,
           IF rec.pid = SystemPid THEN KernelModules
           ELSE IF rec.pid \in DOMAIN Toolhelp THEN Toolhelp[rec.pid] ELSE <<>>)

\* resolve_deferred: what is cached is set at once, the rest is queued.
NoMeta == [company |-> <<>>, version |-> <<>>, description |-> <<>>,
           small |-> <<>>, large |-> <<>>]
ResolveDeferred(rec, known) ==
  CASE rec.image = <<>> -> SetRecordMeta(rec, NoMeta)
    [] rec.image \in DOMAIN known -> SetRecordMeta(rec, known[rec.image])
    [] OTHER -> rec

TrackNew(mgr, info, known, live, init) ==
  LET fresh == ResolveDeferred(ProcessRecord(info), known)
  IN CASE info = NoRow -> mgr
       [] ~live -> Insert(mgr, ProcessRecord(info))
       [] init -> Insert(mgr, SeedInitModules(fresh))
       [] OTHER -> Insert(mgr, fresh)

\* The jobs a process record leaves to the metadata worker.
QueuedFor(info, known) ==
  IF info # NoRow /\ info.image # <<>> /\ info.image \notin DOMAIN known
  THEN <<info.seq>> ELSE <<>>
Queued(r, known) == IF r.notify \in {"init", "create"}
                    THEN QueuedFor(CreateInfo(r.data, "live"), known) ELSE <<>>

Track(mgr, r, known, live) ==
  CASE r.notify \in {"init", "create"} ->
         TrackNew(mgr, CreateInfo(r.data, "live"), known, live, r.notify = "init")
    [] r.notify = "exit" -> MarkExited(mgr, r.seq, r.time)
    [] r.notify = "imageload" /\ ImageModule(r.data, "live") # NoRow ->
         AddModule(mgr, r.seq, ImageModule(r.data, "live"))
    [] OTHER -> mgr

(***************************************************************************)
(* build_forest: items are [pid, parent]; a node is the item's position and *)
(* its children.  An item is placed before its children are looked for.     *)
(***************************************************************************)
Node(i, children) == [item |-> i, children |-> children]
Positions(items) == [i \in DOMAIN items |-> i]

\* A root's parent is not listed, or is itself.
IsRoot(items, i) == \/ \A j \in DOMAIN items : items[j].pid # items[i].parent
                    \/ items[i].parent = items[i].pid
BuildForest(items) ==
  LET pids == {items[i].pid : i \in DOMAIN items}
      childrenOf[parent \in pids, placed \in SUBSET DOMAIN items] ==
        FoldLeft(LAMBDA acc, i :
                   IF \/ i \in acc.placed \/ items[i].parent # parent
                      \/ items[i].pid = parent
                   THEN acc
                   ELSE LET below == childrenOf[items[i].pid, acc.placed \union {i}]
                        IN [placed |-> below.placed,
                            out |-> Append(acc.out, Node(i, below.out))],
                 [placed |-> placed, out |-> <<>>], Positions(items))
  IN FoldLeft(LAMBDA acc, i :
                IF ~IsRoot(items, i) THEN acc
                ELSE LET below == childrenOf[items[i].pid, acc.placed \union {i}]
                     IN [placed |-> below.placed,
                         out |-> Append(acc.out, Node(i, below.out))],
              [placed |-> {}, out |-> <<>>], Positions(items)).out
=============================================================================
