# TLA+ models of openprocmon

openprocmon is a Process Monitor for Windows: a minifilter driver (`src/kernel`)
that logs file, registry, process and image operations, a Rust SDK
(`src/crates/sdk`) that receives the log, turns it into events and keeps them in
capture files, a session and analysis layer (`core`), a command line with an MCP
server and an elevated worker (`cli`), and a window (`gui`). This directory holds
TLA+ models of these parts, the TLC configurations that check them, and TLAPS
proofs of what matters most about the log, the process list, the Correlator, the
threads around it and the answers of the command line.

    driver callbacks --> log (gLogListHead) --> FltSendMessage
        |                                           |
        +-- process list (INIT / CREATE records)    v
                                     receive thread --A--> parse thread --B--> capture loop --> PML file
                                     ETW window ----- network channel --^      window (GUI)        |
                                           parse thread = Correlator + process table      reader, query,
                                                                 metadata worker          export, GUI
    front end (CLI, MCP server) <== pipe ==> elevated worker, which runs the capture loop

- [1. Inventory](#1-inventory)
- [2. Modules and the code](#2-modules-and-the-code)
- [3. Runs](#3-runs)
- [4. Bounds](#4-bounds)
- [5. Fairness](#5-fairness)
- [6. Proofs](#6-proofs)
- [7. Disagreements between code and documentation](#7-disagreements-between-code-and-documentation)
- [8. Not modelled](#8-not-modelled)
- [9. Plan](#9-plan)

## 1. Inventory

### Driver log and control path (`kernel/log.c`, `kernel/procmon.c`)

State: `gLogListHead`, a list of buffers of up to `MAX_PROCMON_MESSAGE_LEN` bytes;
`gMutexLogList`; `gRecordSequence`; `gbReady` and `gbFinish`;
`gTimerProcessLogData` with its DPC; `gEventProcessData`; the system thread
`ProcessDataThread`; `gFlags`; `gCurrentProcess`.

Operations: a callback calls `ProcmonGetLogEntryAndInit`, which acquires the
mutex, reserves room in the tail buffer and *returns with the mutex held*; the
callback fills the record; `ProcmonNotifyProcessLog` decides how the thread is
to wake, sets `gbReady` and releases the mutex. The system thread takes whole
buffers from the head (`ProcessLogDataWithCallback`) and sends each with
`FltSendMessage`. The client connects, sends control flags and disconnects
(`FltConnectNotify`, `FltMessageNotify`, `FltDisconnectNotify`,
`ProcmonControlProcMonitor`, `EnableLogger`).

Hard: the hand-over timer, DPC, event, thread has no retry: one missed step and
buffered records stay until the next large buffer. `EnableLogger(TRUE)` resets
the flags without the mutex. `EnableLogger(FALSE)` keeps the flags and the timer,
and `gFlags = 0` comes last. POST callbacks do not look at `gFlags`.

Correct means: no lost wake-up; the thread never touches a buffer that is being
filled; buffers never overrun; records arrive in the order written, at most
once; a POST after its PRE.

### Driver process tracking (`kernel/process.c`, callers in `kernel/file.c`)

State: the list of `PROCESSINFO_LIST` entries with `gProcessListMutex`,
`gGlobalSeq`, and for each entry `RefCount`, `bInit`, `pProcessFullInfo`; the
list of processes waited for.

Operations: `RefProcessInfo`, `DerefProcessInfo`, `ProcmonFillProcessInfo`
(logs INIT or CREATE), the process, thread and image notifications, the
wait-exit work item.

Hard: only the search of the list is locked; `bInit`, the parked details and the
count are handled outside. A fill calls `RefProcessInfo` for the parent while it
holds the mutex of the log.

Correct means: one entry per process; a described process is known to the client
before its events; details are logged once; entries are freed only when unused,
and are freed in the end.

### Registry and file callbacks (`kernel/reg.c`, `kernel/file.c`, `kernel/utils.c`)

Stateless collectors of names and details. As writers of PRE and POST records they
are the `Writers` of `KernelLog`.

### Correlator (`sdk/src/parse/mod.rs`)

State: `pending` (open PREs by sequence), the min-heap `reorder`, `ord`,
`max_seen`, `watermark`, `last_proc`. Operations: `ingest` per record,
`drain_ready` per batch, `flush` at the end. Hard: the direct path next to the
staged path, ties, the cap, operations without completion. Correct means:
every operation leaves exactly once, in start-time order, with its completion if
there was one, and as early as what is pending allows.

### Capture pipeline (`sdk/src/monitor.rs`, `pipeline.rs`, `port.rs`)

State: the controller's `run`, the stop flag, the receive thread with its
overlapped read, channel A (bounded), the parse thread, channel B. Operations:
`start`, `stop`, `recv`, the two loops. Hard: stop against a blocked send, against
a completing read, against the tail of the network channel; a second session.
Correct means: what was received is forwarded exactly once and in order; `stop`
returns and nothing outlives it.

### Network monitor (`sdk/src/network.rs`, `sdk/src/parse/network.rs`)

State: a window of 32 events that wait for their call stack. Operations: the ETW
callback (decode, hold, attach frames, let the oldest go) and the flush when the
session ends. Hard: the stack comes in two records after the event, in either
order, between those of other events. Correct means: every event leaves in order
with its own frames, the kernel's first.

### Process table and metadata cache (`sdk/src/process.rs`, `parse/proc.rs`, `metadata.rs`)

State: records by sequence, the newest sequence of each identifier, modules, exit
time, metadata; the cache of metadata by image and the worker's queue. Hard:
records are shared and still change while they are written; the worker is
anywhere in its queue when a file is saved; identifiers are reused. Correct
means: an event has the process it ran in, and the file the whole table.

### Events (`sdk/src/event.rs`, `parse/*.rs`, `path.rs`)

Functions from a record, live or from a file, to the columns. Hard: the same
column is computed from the driver's structures live and from transcoded ones
afterwards. Correct means: both say the same.

### Capture files (`sdk/src/pml`)

State of the writer: events, interned strings, icons and processes, live records.
Of the reader: the mapped file and its tables. Hard: every table refers to others
by offset or index; a file may be cut short; a subset is relocated. Correct means:
what is read is what was written, and a damaged file is refused.

### Capture session (`core/src/capture.rs`, `scope.rs`)

State: the loop, its limits, the followed identifiers, the writer. Hard: four
reasons to leave the loop race with the events; a child is followed from its first
event on. Correct means: the file holds exactly the received events of the
followed processes, and a stop always ends in a file.

### Filter, query, analysis, export (`sdk/src/filter.rs`, `core/src`)

Functions of a loaded file and of what the user asks. Hard: a language with
precedence, pages that are cut twice, seven views of the same events. Correct
means: a filter means what its grammar says, pages put together are all matches,
the views agree.

### Command line, MCP server, worker (`cli`)

State: sessions, tool calls on several threads, a worker process with its reader
thread and capture, the pipe. Hard: either side may die, `Done` may be lost, two
calls race for one session. Correct means: an answer is true of the file it
names, and nobody waits on a dead partner.

### Window (`gui`)

State: the retained rows with their visible indices, marks and bookmarks; the
event source with its relay thread and bounded channel; settings, detail panel,
symbol tasks; the context menu with the row it was opened on. Hard: incremental updates
of the view under every handler, stop against a full channel, late symbols, positions
that are kept while rows come and go. Correct means: the view equals a rebuild,
a file is shown whole, stopping returns.

### Registry and file callbacks, driver loader, resolver, formats, drawing

Registry and file callbacks are the `Writers` of `KernelLog`, otherwise collectors
of names. The others are listed under [8](#8-not-modelled).

## 2. Modules and the code

| Module | Models | Extends |
|---|---|---|
| `LogFifo` | what the log promises: a FIFO taken in whole prefixes | |
| `KernelLog` | `log.c` and the control path of `procmon.c` | |
| `KernelLogProofs` | theorems about `KernelLog` | `KernelLog`, `TLAPS` |
| `Correlator` | state and operations of the `Correlator` | |
| `CorrelatorLemmas` | what each operation of it does, for both proofs | `Correlator`, `TLAPS` |
| `CorrelatorStream` | one driver session that feeds it | `Correlator` |
| `CorrelatorProofs` | theorems about `CorrelatorStream` | `CorrelatorStream`, `CorrelatorLemmas` |
| `Pipeline` | controller, threads and channels around the same `Correlator` | `Correlator` |
| `PipelineProofs` | theorems about `Pipeline` | `Pipeline`, `CorrelatorLemmas` |
| `ProcessTrack` | the driver's process list and the client's table and cache | |
| `ProcessTrackProofs` | theorems about its entries and what is logged of them | `ProcessTrack`, `TLAPS` |
| `ProcessCountProofs` | theorems about how often details are logged, about references to entries and about who is described as running already | `ProcessTrackProofs` |
| `Detail` | blobs, paths, file details, transcoding (`parse/mod.rs`, `parse/file.rs`, `path.rs`) | |
| `EventView` | an event's columns, live and reopened (`event.rs`, `parse/reg.rs`, `proc.rs`, `network.rs`) | `Detail` |
| `ProcessTable` | `process.rs`, `parse/proc.rs`, deferred metadata, the forest | `EventView` |
| `PmlFile`, `PmlReader` | `pml/writer.rs`, `pml/reader.rs` | `ProcessTable` |
| `Filter` | `filter.rs` | `PmlReader` |
| `Query` | the filter language and groups of `core/query.rs` | `Filter` |
| `Analyze` | `core/analyze.rs`, `record.rs`, `summary.rs`, `export.rs`, `noise.rs` | `Query` |
| `PidScope` | `core/scope.rs` | `Analyze` |
| `NetworkMonitor` | `network.rs`: decoding, the window and its stacks | `Analyze` |
| `Capture` | `core/capture.rs` with the table, the metadata worker and the window as its sources | `PidScope`, `NetworkMonitor` |
| `Symbols` | `symbols.rs` and its callers | `Analyze` |
| `PanelView` | the window's detail panel, process tree and saved file | `Symbols` |
| `Tools` | what the MCP server cuts from an answer | `Analyze` |
| `Inspect` | a user who reads a file with all of these | `Tools`, `PanelView` |
| `CommandLine` | the worker's arguments, joined and split again (`cli/main.rs`, `elevate.rs`) | |
| `Worker` | tool calls, sessions, worker process, pipe (`cli`) | `CommandLine` |
| `WorkerProofs` | theorems about `Worker` | `Worker`, `TLAPS` |
| `EventBuffer` | `gui/model/buffer.rs`, `filter.rs`, `domain.rs` | |
| `Summaries` | statistics and saves of the window's dialogs | `EventBuffer` |
| `GuiSession` | `app.rs` and `sdk_source.rs`: handlers, relay thread, channel, timer | `Summaries` |
| `GuiSessionProofs` | theorems about `GuiSession` and the operators of `EventBuffer` | `GuiSession`, `TLAPS` |
| `MC...` | instances for TLC; `MCData` is the capture `MCCapture` and `MCInspect` share | |

Definitions marked as a *slip* or as *broken* in a comment are not part of a
specification: each is a definition as a plausible mistake would have left it,
kept to show that a property would notice.

### KernelLog

A buffer is the sequence of its records and its length. A record is a stamp (the
order of writing), PRE or POST, and its sequence number. A writer is `idle`,
`entered` (past the `gFlags` check), `filled` (mutex held, record in the list),
`notified` (everything of `ProcmonNotifyProcessLog` before `gbReady = TRUE`).

| Action | Code |
|---|---|
| `EnterPre`, `ReservePre`, `ReservePost`, `RefusePre`, `RefusePost` | a callback, `ProcmonGetLogEntryAndInit`, `ProcmonGetLogBufferAndLock` |
| `Notify`, `Release` | `ProcmonNotifyProcessLog`, split because `EnableLogger(TRUE)` may run between |
| `TimerExpires`, `DpcRuns`, `ThreadWakes` | timer, `ProcessDataDpcRoutine`, wait of `ProcessDataThread` |
| `TakeBuffer`, `FindEmpty`, `SendCompletes`, `SendFails` | `ProcessLogDataWithCallback` and `FltSendMessage` |
| `Connect`, `ControlOn`, `ControlOff` | port notifications and the control message |
| `StartCancelTimer`, `StartResetReady`, `StartResetFinish` | `EnableLogger(TRUE)`, one store at a time, and `gFlags = Flags` |
| `StopDiscard`, `StopFlags` | `EnableLogger(FALSE)`, then `gFlags = 0` |

`Connect` waits until `gFlags` is 0: with monitoring still on, `FltConnectNotify` goes through
`ProcmonProcessExitOff`, which first waits for the file of the boot log
([8](#8-not-modelled)).

`torn` is a ghost: it is set when the steps of `EnableLogger(TRUE)` overlap
buffered records or a writer, and cleared when the thread empties the list. Those
records really may lose their wake-up, until a later record pushes the head buffer past
0x10000 bytes or another session connects; the properties about wake-ups
hold for all others.

### Correlator, CorrelatorStream, Pipeline

Start times are naturals, 0 standing for `i64::MIN`. The heap is a set of
records whose `ord` makes keys unique, `Smallest` is its top. `drain_ready` is
`MarkAfterBatch`, then `DrainPop` until `DrainDone`; `flush` is `FlushStage` over `pending` in any
order (it is a hash map) and `FlushPop`. `forced` is a ghost: what left above the
watermark because of `CAP`.

`CorrelatorStream` supplies every stream the driver log can deliver: PREs with
increasing sequences and start times that do not decrease (the time is taken
under the log mutex), POSTs after their PRE or without one, or missing.

`Pipeline` puts the same actions into the parse thread. A message waits in `wire`
(`FltSendMessage` blocks); `RecvMessage`, `RecvCancel` and `SendBatch` are the
receive thread, whose stop flag is looked at only after a wait slice and after a
send; `SelectBatch`, `SelectNet`, `ParkNet` and `SelectEnd` are the branches of the
`select`. What the Correlator emits is sent one event at a time: `Forward`, after a
batch, drops events of unknown processes, `ForwardTail`, after the flush, does not;
`ParseEnds` follows when all is sent.
`StartControl` and `StopControl` may fail as the code lets them.

### ProcessTrack

A thread is a stack of `RefProcessInfo` calls, each with its program counter:
`find`, `insert`, `check`, `fill`, `query`, `log`, `parent`, `release`, `start`,
`return`. `entry[s]` is the entry of sequence `s`; `refs` is `RefCount`, `init` is `bInit`,
`full` the parked details (the sequence of the referenced parent).
`DerefProcessInfo` is split at the mutex: `Deref` decrements, `FreeEntry` looks
again. The client reads in log order, so `table`, `cache` (`last_proc`) and `built` (the
latest event and the record it was built with) change in the step that makes a record
visible. `Failures` says what may fail: an allocation (`FindFails`, `ParkFails`), opening the
process, the log entry, keeping the exited process. An operation ends with `Log`, with `Skip`
(no entry, or a refused record) or, when it finds no `bInit`, with `SkipUnmarked`, which
does not give its reference back, as `ProcmonPreOperation` does not.

Three history variables are read by properties and by no step: `exits` counts the processes that
ended with an entry, `failed` has the identifiers something failed for, `kept` the entries a
reference was never given back for.

### Detail, EventView, ProcessTable

A record of the driver is `[monitor, notify, seq, tid, time, status, frames,
data]`, its data a blob: the fixed structure (`head`) and the cells behind it
(`tail`). Text is a sequence of path components, so the NT and the DOS form of one
path have different lengths and a wrong length field reads the wrong cells. The
same operators read live blobs and those that `transcode` wrote, with the mode as a
parameter, as in the code. A record of the table carries modules, exit time and
metadata; the table finds it by sequence or, for the newest bearer, by identifier.

### PmlFile, PmlReader

A file is a sequence of cells; a structure, a text and a number take one cell, so
every offset, index and length of the format is a number of cells and every bounds
check of the reader is there. `ToBytes` finalises the rows (`FinalizeRow` reads
modules and metadata of the live records again), interns strings and icons, lays
out the tables and patches the header last. `OpenFile` checks header and tables
(`TablesOk`), `EventAsEvent` one event, and only what that event needs (`EventFits`: nobody looks
for a completion of a network event); a duration that would run past the last date is none.
`WriteSubset` copies events cell by cell and writes nothing when one of them cannot be
copied (`Copyable`).

### NetworkMonitor, Capture

| Action | Code |
|---|---|
| `Deliver` of a kernel record | the parse thread: `Correlator::build`, `track`, `handle_batch` |
| `Deliver` of an ETW record | `event_callback` on the consumer's thread and `emit_network` for what it lets go |
| `ResolveNext` | one job of the metadata worker |
| `Disconnect` | the driver's port fails |
| `Start`, `Check`, `Recv`, `RecvTimeout` | `CaptureSession::start` and the loop of `run_capture` |
| `StopController`, `Finish` | `controller.stop()`, then `stamp_processes` and `finish_live_to_path`, whose write may fail and leave a prefix (`WriteToPath`) |
| `RequestStop`, `Tick` | the owner's stop flag, the clock |

What module `Pipeline` shows of the pipeline is taken for granted here: records in
order of time, each in the table before its event is sent. `StopController` lets the
consumer flush its window; the parse thread may still forward it or end before,
and nobody receives it.

### Query, Analyze, Symbols, PanelView, Tools, Inspect

Pure operators, one per function of the code. `Inspect` turns them into a run: a
user composes a filter, switches the noise rules, asks for page after page on the
command line or as an MCP tool, and the properties compare what the functions
answer with each other and with definitions by sets. A process list of up to
`MaxItems` entries grows in the same run for the forest.

### CommandLine, Worker

`CommandLine` writes the argument string as `relaunch_elevated` does and splits it
as the C runtime of the worker does. `Worker` has a slot per concurrent tool call
with its program counter, the sessions, per capture its thread and its file, per
worker process where it is and what its reader thread signalled, and per pipe both
ends with the messages in between. `Kill` and `KillWorker` end a process at any
point; a message in the pipe of a dead process may be lost, and a read that fails (`read_started`,
`read_done`) is the answer of its call. All callers ask for the
same pipe name, so a second elevated capture is refused while one runs.

### EventBuffer, Summaries, GuiSession

`EventBuffer` keeps the rows, the positions of the visible ones, rules, search,
classes, marks and limits, with the incremental updates of the code (`Push`,
`SetSearch` narrowing an earlier search, `Drain` rebasing positions);
`Consistent` compares them with a rebuild. What the code filters out of a sequence is
`Retained`, and sizes are `SizeOf`, both recursive functions, so that they can be proved
about. `GuiSession` runs the handlers of the
window's thread one at a time against the relay thread (`RelayLive`, `RelayFile`,
`RelaySend`), the timer (`Tick`, `TickEnds`) and symbol tasks (`Symbolized`). A tick takes
one message of the channel per step, up to `DrainMax`, and no handler runs before it
ends: the relay thread may send more meanwhile. Opening a file and
closing the window split at the join: `StopSource`, then `ShowFile` or `Closed` when
the relay thread is done. `OpenMenu` is a right click, which selects nothing: `menu` has the row's
position, its event and its number. The timer goes on while the menu is open; its items
(`FromMenu`) use the event, but `MenuBookmark` the position. `ToggleCapture` needs room in
the channel, because the source reports there how the connection went, on the
thread that drains it.

## 3. Runs

| Run | Checks | Shows |
|---|---|---|
| `kernel_log` | `NoLostWakeup`, `BufferedIsTaken`, `WriterOwnsTail`, `BuffersFit`, `PostFollowsPre`, `ImplementsFifo` | two writers, the sending thread and a client that starts and stops twice: every order of the hand-over |
| `correlator` | `Conserved`, `InOrder`, `SyncOrder`, `Settled`, `WatermarkHolds` | every stream of four operations over three start times, in every division into batches |
| `pipeline` | `SessionComplete`, `StreamInOrder`, `QuietAfterStop`, `StopReturns` | two sessions, with the stop at every point |
| `process_track` | `OneEntryPerPid`, `InitLogged`, `InitMeansStarted`, `KnownAfterInit` | two threads, four operations, with failures of allocation, opening and the log at every point; image loads; each identifier is used once |
| `process_exit` | `NoDanglingRef`, `CreateOnce`, `ExitedLeave` | identifiers used twice, file and paging operations, exits that cannot keep the process; without the other failures, which break `ExitedLeave`: a fill that fails leaves the details parked, with a reference to the parent that keeps it listed |
| `capture_file` | `FollowedWritten`, `StacksOwn`, `Reopened`, `PrefixRefused`, `StopEnds` | four captures of a program and its child: what is kept, what is in the file when the file system took it, and that every prefix of it is refused |
| `query` | `ParsesBack`, `PagesPartition`, `SubsetFaithful`, `ViewsAgree` | every filter of up to three parts over a file of eight events, one of them damaged and one with an endless duration, every process list of up to four entries |
| `cli_worker` | `RepliesTrue`, `EveryoneReturns` | three concurrent calls, with and without elevation, two deaths |
| `gui_session` | `SessionTrue`, `SummariesTrue`, `BookmarksStay`, `FileShown` | any three handlers, the context menu's among them, between relay thread, timer and symbol tasks, live and over files |
| `self_lock`, `worker_hang`, `gui_hang` | one property each | a violation, see [7](#7-disagreements-between-code-and-documentation) |

The first two runs and `process_track` also check their module's `TypeOK`.

`ImplementsFifo` is refinement: the records of the list, of the message in flight
and what was delivered are what waits, what is sent and the output of
`LogFifo`, which names records by the order of writing, so that a set of names is a
queue. A control step, a wake-up, a refused entry is a stutter; `StopDiscard`
is `Discard`; a send without a client is `Lose`.

`ViewsAgree` gathers, each as a definition of its own, that groups add up to the
narrower filters, the XML refers to its own processes, windows are runs of events,
the summary counts every event once, timelines and details stay with their
process, the window shows of the file what it showed of the capture, one symbol
resolver answers like a new one, and the tree places every process it should
(`ForestPlaces`). `Reopened` has two parts, the events (`EventsSurvive`) and the
processes (`ChainsSurvive`). `SessionTrue` gathers that view, marks, limits, saves and
panel agree with the rows; `SummariesTrue` says the same of the statistics.

Deadlock checking is off where a system may come to rest: the bounds are
used up, and nobody has to begin another operation.

## 4. Bounds

| Module | Bound | Why it is enough |
|---|---|---|
| `KernelLog` | 2 writers, buffers of 2 records, `WakeLen` 1, 3 records, 2 starts | the second record crosses `WakeLen`, the third starts a second buffer; a POST can come from the session before |
| `CorrelatorStream` | 4 operations, 3 times, `Cap` 1 | one pending operation can hold back two staged ones, one over the cap, with a tie; stray POSTs included |
| `Pipeline` | 2 operations, messages of 2, channel A of 1, 1 network event, 2 sessions | the receive thread blocks on a full channel; an operation spans a stop and a start |
| `ProcessTrack` | 2 threads, 2 identifiers, 4 operations; in `process_track` image loads with failures, in `process_exit` file and paging operations and two lives of an identifier | both threads race on one entry, or one describes a child while the other exits the parent; an identifier is reused while its old entry is still held; an operation of the pager comes before its process is described |
| `Capture` | 4 sessions of up to 7 records, 3 processes, window of 1 (32 in the code), `Duration` 1, `MaxBytes` 40 | a child is created, followed, loads a module, opens a path on a volume mounted later and exits; two events compete for the window, one with both parts of its stack; kept events arrive out of time order; all four reasons to leave the loop occur |
| `Inspect` | 4 clauses, 3 parts, pages of 2, answers of 7 units, 4 processes over 3 identifiers, dates up to `MaxTicks` 255 | every pair of operators on either side; pages cut by the limit and by the budget; identifiers reused, parents in a circle |
| `Worker` | 3 calls, 1 capture, 2 events, 2 deaths, 2 filter texts | two stops and an analysis race over one session; both sides die |
| `GuiSession` | 3 handlers, channel of 2, 2 rows per tick, 3 live events, 3 files, 2 rows retained | the channel fills, rows are trimmed while positions are shown, a file is opened during another |

The failures of `process_track` and the reused identifiers of `process_exit` are not combined in
one run, for the number of states; the theorems about `NoDanglingRef`, `InitMeansStarted` and
`CreateOnce` cover both together. `MaxSeq` only bounds the table; it is never
reached with these operations. Symmetry over threads is used only
in `process_track`, which has no liveness property.

## 5. Fairness

- `KernelLog`: a writer that holds the mutex runs on (weak; a fast mutex disables
  APCs), an armed timer expires, the DPC and the woken thread run (weak), the thread gets the
  mutex although writers compete for it (strong: the mutex is handed over in its
  turn), and a message to a waiting client or to a closed port completes (weak). No
  fairness for new operations or for the client's calls.
- `Pipeline`: the receive thread's wait slice ends and its send proceeds when there is
  room; the parse thread runs; a stop that was begun runs on (all weak).
  Neither the driver nor a caller has to do anything, and `RecvMessage` is not
  needed for `stop` to return.
- `ProcessTrack`: a thread inside an operation is scheduled and gets the mutex in
  its turn (strong), the work item runs (weak).
- `Capture`: the capture thread runs (weak). `Moves` names its steps by the one
  variable that no other step changes, so that TLC evaluates fairness cheaply. The driver, the
  worker and the clock owe nothing.
- `Worker`: calls, worker processes, reader and capture threads that are not blocked
  go on; a capture that was told to stop, or whose duration is over, leaves its loop
  (all weak). A client never has to call, leave or be killed.
- `GuiSession`: the relay thread runs, the timer fires, and a handler that waits for
  the join goes on when it can (weak; `Drains` and `GoesOn` name these steps by one
  variable each). The user and the driver owe nothing.
- `CorrelatorStream` and `Inspect` are sequential and have only safety properties.

## 6. Proofs

`tlapm` on `KernelLogProofs.tla`, `ProcessTrackProofs.tla`, `ProcessCountProofs.tla`,
`CorrelatorLemmas.tla`, `CorrelatorProofs.tla`, `PipelineProofs.tla`, `WorkerProofs.tla`
and `GuiSessionProofs.tla` checks them. The theorems hold for every
value of the constants that satisfies `LogAssumption` (`WakeLen` and record sizes
within the buffer length, `Free` no writer), `ProcessAssumption` (finitely many threads,
`Free` none of them; the processes that run at the start are among the identifiers),
`CapAssumption`, `StreamAssumption`, `PipelineAssumption` (capacities and batches hold
something), `WorkerAssumption` and, for the window, `RulesAssumption`, `EventsAssumption`,
`InputsAssumption`, `ConfigAssumption` and `BoundsAssumption` (rules, files and inputs are
sequences, sizes and times are numbers, a channel and a tick hold something); the bounds are arbitrary naturals, so they restrict
nothing.

### The log

**The log does not lose a wake-up** (`WakeupNeverLost`). `NoLostWakeup` speaks of
states in which the mutex is free, but the writer that arrives next trusts `gbReady`, so
the invariant must say what that flag means. `LockInv` ties the mutex to the
writers' program counters. `WakeInv` says: a set `gbReady` means that a wake-up is pending
(except between two stores of `EnableLogger(TRUE)`); records in the list imply
`gbReady` when the mutex is free; a writer that found `gbReady` set, or that has
notified, has a pending wake-up; and an `EnableLogger(TRUE)` that is not torn met an
empty list. `Inv == LockInv /\ (~torn => WakeInv)` is inductive relative to the
type invariant: the delicate step is `TakeBuffer`, which resets the
flags exactly when it leaves the list empty and keeps the thread in the loop otherwise.

**The tail belongs to its writer** (`TailIsOwned`): as no other writer can hold the mutex and
`TakeBuffer` needs it, the list of a writer in `filled` or `notified` changes only by
its own reservation, whose result ends with its record (`LastOfStored`).

**Type correctness** (`TypeCorrect` of `KernelLogProofs`) needs one conjunct more,
`DrawnSeq`: a PRE in the making has a sequence that was drawn, or `pending`
would leave its type on release.

**Buffers never overflow** (`BuffersNeverOverflow`). `BuffersFit` is inductive over the
type invariant once two facts are stated: the list changes only by a reservation, by the
loss of its head or altogether (`ListStep`), and a reservation keeps every buffer within
`MaxLen` and none empty (`StoredFits`: a record that does not fit what is left gets a buffer
of its own, which `LogAssumption` makes long enough).

**A POST follows its PRE** (`PostsFollow`) and **the log is a FIFO** (`LogIsFifo`). Both
speak of all records there are, by their places: delivered, in the message, in the
buffers. `StampInv` says that later places have later stamps, `SeqInv` that no record has
a sequence that was not drawn and that an operation whose POST may still come (`Open`:
handed to the completion, or with the writer that holds the mutex) has none
logged. A reservation adds one place behind all others (`Added`); every other step
leaves the records of the remaining places in their order (`Carried`), so both facts
survive the move of a buffer into the message and of the message to the client. With
`BuffersFit` (no empty buffer) and `MsgInv` (a message is on its way exactly while the
thread sends), each step is then one of `LogFifo` or invisible to it (`FifoStep`): the
buffer taken is the oldest part of what waits (`TakeTakes`).

### The Correlator and the pipeline

**The watermark keeps its promise** (`MarkKeepsPromise`) and **events leave in
order** (`OutInOrder`). Neither is inductive. `MarkInv` says that nothing that is open,
staged (outside a drain) or still to come starts before the watermark; `TurnInv` says that
every event that was emitted without force starts no later than anything that is not
emitted yet. `OrderInv` is their conjunction; a step then appends at most one event,
in its turn (`OutGrows`), and `InOrder` follows by extending the sequence.

**Nothing settled waits** (`NothingSettledWaits`). `Settled` speaks of the end of a batch;
what carries it through one is `SeenInv`: everything open or staged counts in `maxSeen`, and
a drain with nothing open has its mark above everything staged, so `drain_ready`
cannot stop before the heap is empty.

**Nothing is lost** (`NothingIsLost`) and **what needs no completion leaves in the
order of the log** (`SyncInOrder`). `Apart` says that what is pending, staged and
emitted are different operations, without counting; `ConsInv` adds that they
are exactly those whose PRE was ingested, each with its completion if that came, and that
what the driver may still complete is open. `SyncInv` says that operations without
completion are staged with keys that rise with their sequence, behind those that left.

**A stopped session is quiet** (`StoppedIsQuiet`). `JoinInv` says what each point of `stop`
has already joined (the network consumer, then the receive thread, then the parse thread)
and that a parse thread that does not run left the Correlator outside a batch. No step but
the driver's own reports is then enabled until the next start. Nothing is assumed of
capacities or batch lengths.

**A session loses nothing and its events arrive in order** (`NothingLostAtStop`,
`ChannelInOrder`). An operation is followed from the driver to channel B. `QueueInv`: in
the wire, the receive thread, channel A and the batch, operations stay in the driver's
order, behind all the Correlator has seen. `PlaceInv`: from there on each is in one place.
`LeaveInv`: what left, unforced, precedes all that has not left, and the events
on channel B among themselves. `ArriveInv`: what the receive thread queued is on its way,
sent, or was dropped as unknown, and the parse thread ends with nothing left. Both
properties read off these; that they hold for any `Cap`, capacity and batch length shows that none of
these sizes matters for them.

### The process list

**One entry per process** (`OnePerPid`), **described means logged**
(`DescribedIsLogged`), **a process is known before its events** (`KnownIsKnown`). An entry is *known*
once it was inserted; until then it belongs to the call that allocated it. `ListInv`
says so: an unknown entry is as it was allocated, every pointer of a call, an operation or
parked details leads to a known entry, an entry to be inserted belongs to one call, for
its process (`MineOK`), and only a call that fills has another above it. With the type
invariant, `OneOfEach` (the search and the insertion are under the mutex) and the two
properties about records themselves this is inductive (`Inv`). Most steps replace the top of
one stack: `TopStepKeeps` carries what such a step leaves alone.

**Details are logged once** (`DetailsLoggedOnce`). `CountInv` counts what there is of the details of
a process: CREATE records, details taken by a call, details parked, threads about to park
them. Together they never exceed the processes created under that identifier. A fill
takes the details before it logs, so a step moves one of these to the next.

**No reference dangles** (`NothingDangles`), for identifiers that are used again and whatever
fails. `RefInv` says that the count of an entry with which at most one process ended is at least
the number of its holders (calls that return it, details taken, a creation that keeps it,
details parked) plus the reference of the list, which the exit hands to the list of
waited-for processes. That such an entry is freed only unused follows. When a second process ends
with the same entry it is queued twice and the reference of the list dropped twice (section 7);
`exits` says when that is so.

**INIT is a process that ran before** (`InitIsStarted`), for a process under an identifier not used
before for which itself nothing failed (`failed`): TLC finds a counterexample when an allocation,
the opening of this process or a log entry for it fails. Failures for others, and reused
identifiers of others, are covered. `StartInv` follows a created process
under an identifier not used before. Until its details are parked the calls for it are
asynchronous and write nothing; then the call of its initial thread, which runs before any of
its own, finds the details in the entry or their record begun (`BornCall`), so
when the process runs `bInit` is set and no details are left, and nothing
describes it again (`EntryFresh`). Others may meet the entry meanwhile, through
the call for the parent, but never end with `bInit` clear; one that takes the details
under the mutex of the log waits for itself (`Stuck`, the case of `self_lock`), and no record
follows. The entry itself stays, because the count covers its holders and the list
(`HeldOK`, on which `RefInv`'s counting is reused step by step: `Tally`).

### The command line

**Answers are true** (`AnswersAreTrue`). `RepliesTrue` relates a reply to a file that
another process, another thread and an earlier step wrote, so the invariant follows the
outcome of a capture: a file is complete exactly when its thread ended well, with the
thread's count (`OutcomeInv`); no job is captured twice, because one call launches it and
a worker that is still to start has no capture (`FreshInv`), so a complete file stays what
it is; `Done` is on the pipe only once the file is (`DoneInv`); a call that is about
to answer has the file's count, be it from `Done`, from the joined thread or from
the file itself (`ResultInv`). With `ReplyInv`, the property with the job it names, these
are inductive over the type invariant. Steps are proved by what they leave alone:
lemmas `KeptIsInv`, `StepOfJob` and `StepReturns` carry the parts a step does
not touch.

### The window

**What is shown is what is retained** (`SessionAgrees`). `SessionTrue` relates the table,
kept by increments, to a rebuild of it. Most of its parts are inductive together, but a
save from a file is not: it writes by row numbers, which a relay thread gave, through a
channel, possibly before another file was opened. `SessionInv` follows the rows: those in
the channel are numbered on from the last one shown, behind the notices of the
thread (`LineOK`); the retained rows are the last of those shown (`Numbered`); every
row of a file without damage, in the channel, the thread or the buffer, is the event
with its number (`FileOK`). Then the rows to save are found again by position
(`SavedAreShown`). `PanelOK` says that only the youngest symbol task is of the panel's
event, and `AppOK` that limits and the advanced mark follow the settings.

`Retained` and `SizeOf` are recursive functions over the length of a sequence.
The induction they need comes from the well-foundedness of the naturals: a set of
naturals that is not empty has a least element (`NatLeast`), so a set with 0 and with
every successor is all of them (`SetInduction`), and a recursive function is what its
equation says (`Recursion`). What follows is about the code's increments:
a trim's removal and the rebasing of the positions (`DrainKeeps`), the search for the
number of rows to drop (`SurplusFound`), the rows left being within the limits (`TrimKeeps`),
the append to the view (`PushKeeps`), and that narrowing an earlier search
finds what a new one would (`SearchNarrows`).

**Bookmarks stay with their rows** (`BookmarksHold`), an action property from the same
invariant: numbers tell rows apart (`Numbered`), so a row found again after a trim has
its old fields, and only the selected one is toggled, or the one the context menu was opened on.
`MenuOK` is what the menu adds: the position it keeps names the row it was opened on as long as no
older row was dropped, because a handler closes the menu and a tick without a trim only appends to
the view. After a trim (`Dropped`) it need not, and the property says so.

### What the proofs do not reach

The actions of `Worker` and `ProcessTrack` replace a record of a family as a whole
(`[f EXCEPT ![j] = [@ EXCEPT !.a = .., !.b = ..]]`): this version of the prover does not
treat two updates of one index in a single `EXCEPT`, or an `@` inside a nested one, as
TLC does. No proved module contains either. Weakened copies of the modules (`Done` without a
finished file, an analysis of an unfinished file, a wrong count, a capture that goes
on after its end; the newest buffer first, a completion context that survives) no longer prove.

Only model-checked: `SummariesTrue` and the properties of `Capture` and `Inspect`. `Query` and what extends it reach recursive operators, which the
prover excludes; the statistics and the modules of files use `SelectSeq`, `SortSeq` and
`FoldLeft`, whose definitions the provers cannot unfold. Induction over data is possible only
for functions of the project's own, as above. The liveness properties (`BufferedIsTaken`, `StopReturns`, `EveryoneReturns`,
`ExitedLeave`, `StopEnds`, `FileShown`) stay with TLC: the prover handles neither fairness nor `ENABLED`.

## 7. Disagreements between code and documentation

Each of these runs finds what a text of the repository excludes.

| Run | What the text says | What the model does |
|---|---|---|
| `self_lock` | `process.c:817` (comment in Chinese): a synchronous call fills at once, so an asynchronous one does not | the asynchronous call for the parent fills when details are parked, under the log mutex it then waits for; it takes an identifier that was reused |
| `worker_hang` | `orchestrate.rs:140`: the worker connects shortly after launch; `main.rs:478`: nothing is lost on the way to it | `relaunch_elevated` escapes quotes but not the backslashes before them; a filter that ends in `\"` splits into other arguments, clap refuses them, the worker is gone and `accept` waits forever |
| `gui_hang` | `source.rs:36`: stop releases resources; `app.rs:396`: joins its thread | the relay thread waits for room in the channel, which only the joining thread drains |

The models also follow the code where it differs from what a reader may expect. The
properties are stated so that they hold next to these:

- Driver: two threads may both log INIT for one process, and the second record
  replaces the one the Correlator has cached (`process.rs:164`; `parse/mod.rs:169-170`
  says a record never changes). An image load may be logged before its process's INIT
  (`process.c:336`; `pipeline.rs:204-205` says it always carries its process). INIT
  comes with a process's first operation, not the moment monitoring starts
  (`process.c:836`; `monitor.rs:156-157`). The driver port accepts two connections,
  the second start of a thread callback registers it again (`process.c:2427`).
  `DerefProcessInfo` looks at the count again after it dropped it (`process.c:872`),
  maybe at an entry that another thread has found, dropped and freed since;
  `NoDanglingRef` speaks of calls and details, not of this look. When an identifier is
  reused while its old entry is still held, the entry is queued at the exit of
  the new process too and the work item drops the reference of the list twice
  (`process.c:1057`): `NoDanglingRef` holds until a second process ended with the entry. The details of
  the new process may be parked in the old entry (`process.c:1489`) and freed with it
  (`process.c:880`); it is then described by INIT, although `proc.rs:43-46` says that INIT is a
  process that ran before. So is a process whose CREATE was refused or for whose details there was no
  memory: `InitMeansStarted` speaks of identifiers not used before and of processes for which
  nothing failed. Without
  memory for the details of a new process the reference to its parent is never
  dropped (`process.c:1472`). `ProcmonPreOperation` calls `DerefProcessInfo` only inside
  `if (pProcessInfo && pProcessInfo->bInit)` (`procmon.c:2407-2473`): an operation that meets an entry
  that is not described, as one of the pager does before the first other operation of its
  process, keeps its reference for good, and the entry never leaves the list. `ExitedLeave`
  excludes the entries in `kept`.
- Pipeline: the `select` may see channel A end with network events still queued
  (`pipeline.rs:173`; `pipeline.rs:90-91` says both inputs end). The tail flush
  forwards events of unknown processes, a batch does not.
- Capture: `run_capture` does not receive what the pipeline hands over while it stops
  (`capture.rs:311`). That includes everything the network window still holds, up to 32
  events at the end of every capture, which `flush_pending` sends for nobody
  (`network.rs:403`). A network event's process is looked up when the window lets it
  go, which may be after a new process took its identifier. Following is by identifier,
  so a reused one is followed too. `parse_monitors` says that unknown names yield all
  sources; they yield none.
- Capture file: the path of a Process Start and IPv6 or resolved endpoints are not
  what they were live; a zero duration reads back as none; an event without a process
  takes index 0; the end time of a process that had an event before it exited stays
  0 (`writer.rs:301`); a subset has no icons and no tables of resolved names. A network event with a
  damaged completion is shown, but no subset that keeps it can be written (`reader.rs:161`).
- Queries: `IsNot` does not match a missing value. `get_process` takes any row of a
  reused identifier while the window takes the event's own. Processes on a parent
  circle that no root reaches are not in the tree.
- Worker: without `Done` the reason is a guess and the count comes from the file; the
  command line reports a lost driver as a manual stop; an analysis between a
  `stop_capture` and its file gets an error.
- Window: `PmlSource` numbers only the events that decode, and a save takes these
  numbers for positions in the file (`app.rs:284-290`), so a save from a damaged file
  writes other events (`SavesWhatIsShown` is stated for files that decode). The
  selection is a position and is not moved when rows are trimmed or classes are hidden. Neither is
  the context menu's (`event_table.rs:322-328`): its item, "toggle a row's bookmark" (`app.rs:954`),
  toggles another row than the one that was clicked once a trim has dropped rows before it, which
  `BookmarksStay` allows after a trim and never else.
  Rules on columns that are resolved late are judged once, when the row arrives. Class changes
  reach a live source at its next start; its stop flag is never reset. Importing
  settings does not refresh the background image.

## 8. Not modelled

- Formatting, byte layouts below a cell, security descriptors, icons and
  version resources as data, layout and drawing of the window.
- Two clients: `KernelLog` handles control messages and the disconnect one after the other, and the
  next client connects when `gFlags` is 0. In the driver it may connect while the
  disconnect of the first is still under way; then `ProcmonProcessExitOff` (`procmon.c:666`,
  2820-2846) waits for the file of the boot log and switches monitoring off itself. Switching off
  does not fail while the client is connected.
- In the driver: the boot log file (`ProcmonWriteToPbmFile`), thread profiling, the
  second port for image names, registration of callbacks,
  `FreeAllProcessInfo`. `ProcessTrack` keeps monitoring on, with a client connected.
  Registry and file callbacks are writers only.
- In the pipeline: connect errors and a failing receive (which ends the receive loop like a
  stop), invalid message headers (`recv` returns nothing and the loop ends), a receiver of channel B
  that went away (a send that fails ends the loop over a batch).
- The driver loader (`driver.rs`) and the address resolver (`resolver.rs`): the one is
  a sequence of system calls, of the other no reader of names exists in these
  programs. The resolver's `host` serves cached names after it was disabled
  (`resolver.rs:77`), which its comment excludes.
- In the command line: clap's parsing beyond acceptance, text output, the guard that
  replaces a single row over the budget by a notice (`mcp.rs:1028`). A page whose first
  row is too large is therefore larger than the budget in the model.
- In the window: reading and writing the settings file, export formats, column layout.
- Sequence overflow: `gRecordSequence` and `gGlobalSeq` are unbounded in the models.
- Composition: `Capture` relies on what `Pipeline` and `ProcessTrack` show instead of
  containing them; the product is out of TLC's reach.

## 9. Plan

Done: the log, the Correlator, the pipeline, process tracking, events, table, files,
capture, queries, worker and window, each with its run; every safety property of the log with its
refinement, of the Correlator, the pipeline, the process list, the answers of the command line and
the window's session proved.

Next, in this order:

1. Two clients of the driver port, with the callbacks' registration over restarts.
