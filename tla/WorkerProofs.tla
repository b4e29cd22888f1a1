---------------------------- MODULE WorkerProofs ----------------------------
(***************************************************************************)
(* What a tool call answers of a capture is true of the file it names      *)
(* (RepliesTrue of Worker), for any number of calls, captures, events and  *)
(* faults, and whatever texts the user passes.                             *)
(*                                                                         *)
(* The argument follows the outcome of a capture: a file is complete       *)
(* exactly when its thread ended well (OutcomeInv), no capture is begun    *)
(* twice for one job (FreshInv), so that a complete file stays as it is    *)
(* (OutcomeStays), and Done is on the pipe only once it is (DoneInv).      *)
(***************************************************************************)
EXTENDS Worker, TLAPS

\* The states, tools, reasons and messages of the model.
Words ==
  {"idle", "launching", "accepting", "greeting", "reading", "counting", "waiting",
   "settling", "none", "capture", "start", "stop", "analyze", "running", "writing",
   "ok", "failed", "lost", "Manual", "Duration", "SizeLimit", "Disconnected",
   "started", "error", "absent", "partial", "complete", "launched", "connecting",
   "polling", "stopping", "dropping", "gone", "listening", "open", "closed",
   "inprocess", "link", "Started", "Done", "Stop"}

CallType == [op : Words, pc : Words, job : Nat, n : Nat, why : Words]
CapType == [st : Words, limited : BOOLEAN, stop : BOOLEAN, n : Nat, why : Words]
FileType == [kind : Words, n : Nat]
PipeType == [parent : Words, worker : Words, up : Seq(Words), down : Seq(Words)]
ReplyType == [ok : BOOLEAN, job : Nat, n : Nat, why : Words]
SessionType == [job : Jobs, backend : Words]

\* A call that is in progress names a job.
CallsTyped ==
  /\ call \in [Calls -> CallType]
  /\ \A c \in Calls : call[c].pc # "idle" => call[c].job \in Jobs

TypeInv ==
  /\ CallsTyped
  /\ reply \in ReplyType
  /\ sessions \in Seq(SessionType)
  /\ last \in 0 .. MaxJobs
  /\ cap \in [Jobs -> CapType]
  /\ file \in [Jobs -> FileType]
  /\ wk \in [Jobs -> Words]
  /\ pipe \in [Jobs -> PipeType]

\* A call that has its job and not yet launched it.
Launches(c) == call[c].pc = "launching" /\ call[c].op \in {"capture", "start"}

Untouched(j) == cap[j].st = "none" /\ wk[j] = "none"

\* A job that is not launched has no capture, and one call launches it.
FreshInv ==
  /\ \A j \in Jobs : j > last => Untouched(j)
  /\ \A c \in Calls : Launches(c) => call[c].job <= last /\ Untouched(call[c].job)
  /\ \A c, d \in Calls :
       Launches(c) /\ Launches(d) /\ call[c].job = call[d].job => c = d
  /\ \A j \in Jobs : wk[j] = "launched" => cap[j].st = "none"

\* A file is complete exactly when its capture thread ended well.
OutcomeInv ==
  \A j \in Jobs :
    /\ cap[j].st = "ok" <=> file[j].kind = "complete"
    /\ cap[j].st = "ok" => file[j].n = cap[j].n

\* Done follows the file.
DoneInv ==
  \A j \in Jobs : \A i \in 1 .. Len(pipe[j].down) :
    pipe[j].down[i] = "Done" => cap[j].st = "ok"

IsComplete(j, n) == file[j] = [kind |-> "complete", n |-> n]

\* A result that a call is about to answer with is the file's.
ResultInv ==
  \A c \in Calls : call[c].pc = "settling" => IsComplete(call[c].job, call[c].n)

\* An answer names a job.
ReplyInv ==
  reply.ok /\ reply.why # "started" =>
    reply.job \in Jobs /\ IsComplete(reply.job, reply.n)

Inv == FreshInv /\ OutcomeInv /\ DoneInv /\ ResultInv /\ ReplyInv

-----------------------------------------------------------------------------
\* The types are closed under what the actions do to one field or two.
LEMMA CapFields ==
  ASSUME NEW p \in [Jobs -> CapType], NEW j \in Jobs, NEW w \in Words, NEW b \in BOOLEAN
  PROVE  /\ [p EXCEPT ![j].st = w] \in [Jobs -> CapType]
         /\ [p EXCEPT ![j].why = w] \in [Jobs -> CapType]
         /\ [p EXCEPT ![j].stop = b] \in [Jobs -> CapType]
         /\ [p EXCEPT ![j].limited = b] \in [Jobs -> CapType]
         /\ [p EXCEPT ![j].n = @ + 1] \in [Jobs -> CapType]
BY DEF CapType

LEMMA CapPairs ==
  ASSUME NEW f \in CapType, NEW w \in Words, NEW v \in Words, NEW b \in BOOLEAN
  PROVE  /\ [f EXCEPT !.st = w, !.stop = b] \in CapType
         /\ [f EXCEPT !.st = w, !.why = v] \in CapType
<1> DEFINE g == [f EXCEPT !.st = w]
<1>1. g \in CapType
  BY DEF CapType
<1>2. /\ [g EXCEPT !.stop = b] = [f EXCEPT !.st = w, !.stop = b]
      /\ [g EXCEPT !.why = v] = [f EXCEPT !.st = w, !.why = v]
  OBVIOUS
<1> HIDE DEF g
<1>3. [g EXCEPT !.stop = b] \in CapType /\ [g EXCEPT !.why = v] \in CapType
  BY <1>1 DEF CapType
<1> QED
  BY <1>2, <1>3

LEMMA CallFields ==
  ASSUME NEW p \in [Calls -> CallType], NEW c \in Calls, NEW w \in Words, NEW n \in Nat
  PROVE  /\ [p EXCEPT ![c].pc = w] \in [Calls -> CallType]
         /\ [p EXCEPT ![c].why = w] \in [Calls -> CallType]
         /\ [p EXCEPT ![c].n = n] \in [Calls -> CallType]
BY DEF CallType

LEMMA CallResult ==
  ASSUME NEW f \in CallType, NEW w \in Words, NEW v \in Words, NEW n \in Nat
  PROVE  /\ [f EXCEPT !.pc = w, !.n = n, !.why = v] \in CallType
         /\ [f EXCEPT !.pc = w, !.n = n, !.why = v].pc = w
         /\ [f EXCEPT !.pc = w, !.n = n, !.why = v].n = n
         /\ [f EXCEPT !.pc = w, !.n = n, !.why = v].op = f.op
         /\ [f EXCEPT !.pc = w, !.n = n, !.why = v].job = f.job
<1> DEFINE g == [f EXCEPT !.pc = w]
           h == [g EXCEPT !.n = n]
<1>1. g \in CallType /\ g.pc = w /\ g.op = f.op /\ g.job = f.job
  BY DEF CallType
<1>2. [h EXCEPT !.why = v] = [f EXCEPT !.pc = w, !.n = n, !.why = v]
  OBVIOUS
<1> HIDE DEF g
<1>3. h \in CallType /\ h.pc = w /\ h.n = n /\ h.op = f.op /\ h.job = f.job
  BY <1>1 DEF CallType
<1> HIDE DEF h
<1>4. [h EXCEPT !.why = v] \in CallType
  BY <1>3 DEF CallType
<1>5. /\ [h EXCEPT !.why = v].pc = w /\ [h EXCEPT !.why = v].n = n
      /\ [h EXCEPT !.why = v].op = f.op /\ [h EXCEPT !.why = v].job = f.job
  BY <1>3 DEF CallType
<1> QED
  BY <1>2, <1>4, <1>5

LEMMA PipeEnds ==
  ASSUME NEW p \in [Jobs -> PipeType], NEW j \in Jobs, NEW w \in Words
  PROVE  /\ [p EXCEPT ![j].parent = w] \in [Jobs -> PipeType]
         /\ [p EXCEPT ![j].worker = w] \in [Jobs -> PipeType]
         /\ \A i \in Jobs : /\ [p EXCEPT ![j].parent = w][i].down = p[i].down
                            /\ [p EXCEPT ![j].worker = w][i].down = p[i].down
BY DEF PipeType

LEMMA PipeQueues ==
  ASSUME NEW p \in [Jobs -> PipeType], NEW j \in Jobs, NEW q \in Seq(Words)
  PROVE  /\ [p EXCEPT ![j].up = q] \in [Jobs -> PipeType]
         /\ [p EXCEPT ![j].down = q] \in [Jobs -> PipeType]
         /\ \A i \in Jobs : [p EXCEPT ![j].up = q][i].down = p[i].down
         /\ \A i \in Jobs : [p EXCEPT ![j].down = q][i].down =
                              IF i = j THEN q ELSE p[i].down
BY DEF PipeType

LEMMA PipePairs ==
  ASSUME NEW f \in PipeType, NEW w \in Words, NEW q \in Seq(Words)
  PROVE  /\ [f EXCEPT !.worker = w, !.down = q] \in PipeType
         /\ [f EXCEPT !.worker = w, !.down = q].down = q
         /\ [f EXCEPT !.parent = w, !.up = q] \in PipeType
         /\ [f EXCEPT !.parent = w, !.up = q].down = f.down
<1> DEFINE g == [f EXCEPT !.worker = w]
           h == [f EXCEPT !.parent = w]
<1>1. g \in PipeType /\ h \in PipeType /\ h.down = f.down
  BY DEF PipeType
<1>2. /\ [g EXCEPT !.down = q] = [f EXCEPT !.worker = w, !.down = q]
      /\ [h EXCEPT !.up = q] = [f EXCEPT !.parent = w, !.up = q]
  OBVIOUS
<1> HIDE DEF g, h
<1>3. [g EXCEPT !.down = q] \in PipeType /\ [h EXCEPT !.up = q] \in PipeType
  BY <1>1 DEF PipeType
<1>4. [g EXCEPT !.down = q].down = q /\ [h EXCEPT !.up = q].down = f.down
  BY <1>1 DEF PipeType
<1> QED
  BY <1>2, <1>3, <1>4

\* One member of a family of records is replaced.
LEMMA Replaced ==
  ASSUME NEW I, NEW T, NEW p \in [I -> T], NEW i \in I, NEW f \in T
  PROVE  /\ [p EXCEPT ![i] = f] \in [I -> T] /\ [p EXCEPT ![i] = f][i] = f
         /\ \A k \in I \ {i} : [p EXCEPT ![i] = f][k] = p[k]
OBVIOUS

LEMMA WordsAre ==
  /\ {"idle", "launching", "accepting", "greeting", "reading", "counting", "waiting",
      "settling", "none", "capture", "start", "stop", "analyze"} \subseteq Words
  /\ {"running", "writing", "ok", "failed", "lost", "Manual", "Duration", "SizeLimit",
      "Disconnected", "started", "error", "absent", "partial", "complete"} \subseteq Words
  /\ {"launched", "connecting", "polling", "stopping", "dropping", "gone", "listening",
      "open", "closed", "inprocess", "link", "Started", "Done", "Stop"} \subseteq Words
BY DEF Words

LEMMA FreeType == Free \in CallType /\ Refused \in ReplyType
<1>1. "none" \in Words /\ "idle" \in Words /\ "error" \in Words
  BY WordsAre
<1> QED
  BY <1>1 DEF Free, Refused, CallType, ReplyType

-----------------------------------------------------------------------------
(* What the steps of a call do to it: it begins, goes on, has a result or   *)
(* returns, and leaves the other calls alone.                               *)
OthersStay(c) == \A d \in Calls : d # c => call'[d] = call[d]

LEMMA Begins ==
  ASSUME CallsTyped, NEW c \in Calls, NEW w \in Words, NEW j \in Jobs, Begin(c, w, j)
  PROVE  /\ CallsTyped' /\ reply' = Refused /\ reply' \in ReplyType /\ OthersStay(c)
         /\ call'[c].op = w /\ call'[c].job = j /\ call'[c].pc = "launching"
<1> DEFINE f == [Free EXCEPT !.op = w]
           g == [f EXCEPT !.job = j]
           r == [g EXCEPT !.pc = "launching"]
<1>1. j \in Nat /\ "launching" \in Words
  BY WordsAre DEF Jobs
<1>2. f \in CallType /\ f.op = w
  BY FreeType DEF CallType
<1>3. [Free EXCEPT !.op = w, !.job = j, !.pc = "launching"] = r
  OBVIOUS
<1> HIDE DEF f
<1>4. g \in CallType /\ g.op = w /\ g.job = j
  BY <1>1, <1>2 DEF CallType
<1> HIDE DEF g
<1>5. r \in CallType /\ r.op = w /\ r.job = j /\ r.pc = "launching"
  BY <1>1, <1>4 DEF CallType
<1> HIDE DEF r
<1>6. call' = [call EXCEPT ![c] = r] /\ reply' = Refused
  BY <1>3 DEF Begin
<1> QED
  BY <1>5, <1>6, FreeType DEF CallsTyped, OthersStay

LEMMA GoesTo ==
  ASSUME CallsTyped, NEW c \in Calls, call[c].pc # "idle", NEW w \in Words, Goto(c, w)
  PROVE  /\ CallsTyped' /\ OthersStay(c)
         /\ call'[c].pc = w /\ call'[c].op = call[c].op /\ call'[c].job = call[c].job
<1>1. call' \in [Calls -> CallType]
  BY CallFields DEF Goto, CallsTyped
<1>2. call'[c].pc = w /\ call'[c].op = call[c].op /\ call'[c].job = call[c].job
  BY DEF Goto, CallsTyped, CallType
<1>3. OthersStay(c)
  BY DEF Goto, CallsTyped, OthersStay
<1> QED
  BY <1>1, <1>2, <1>3 DEF CallsTyped, OthersStay

LEMMA HasResult ==
  ASSUME CallsTyped, NEW c \in Calls, call[c].pc # "idle", NEW n \in Nat, NEW w \in Words,
         Result(c, n, w)
  PROVE  /\ CallsTyped' /\ OthersStay(c)
         /\ call'[c].pc = "settling" /\ call'[c].op = call[c].op
         /\ call'[c].job = call[c].job /\ call'[c].n = n
<1> DEFINE f == [call[c] EXCEPT !.pc = "settling", !.n = n, !.why = w]
<1>1. call \in [Calls -> CallType] /\ call[c] \in CallType /\ "settling" \in Words
  BY WordsAre DEF CallsTyped
<1>2. f \in CallType /\ f.pc = "settling" /\ f.n = n /\ f.op = call[c].op /\ f.job = call[c].job
  <2>1. f \in CallType
    BY <1>1, CallResult
  <2> QED
    BY <1>1, <2>1 DEF CallType
<1>3. call' = [call EXCEPT ![c] = f]
  BY DEF Result
<1> HIDE DEF f
<1>4. call' \in [Calls -> CallType] /\ call'[c] = f /\ \A d \in Calls \ {c} : call'[d] = call[d]
  BY <1>1, <1>2, <1>3
<1> QED
  BY <1>2, <1>4 DEF CallsTyped, OthersStay

LEMMA Returns ==
  ASSUME CallsTyped, NEW c \in Calls, NEW r, Return(c, r)
  PROVE  /\ CallsTyped' /\ OthersStay(c) /\ call'[c].pc = "idle"
         /\ reply' \in {r, reply}
<1>1. call' \in [Calls -> CallType]
  BY FreeType DEF Return, CallsTyped
<1>2. call'[c].pc = "idle" /\ OthersStay(c)
  BY DEF Return, CallsTyped, Free, OthersStay
<1>3. reply' \in {r, reply}
  BY DEF Return
<1> QED
  BY <1>1, <1>2, <1>3 DEF CallsTyped, OthersStay

LEMMA AnswerType ==
  ASSUME NEW j \in Jobs, NEW n \in Nat, NEW w \in Words
  PROVE  /\ Answer(j, n, w) \in ReplyType
         /\ Answer(j, n, w).job = j /\ Answer(j, n, w).n = n /\ Answer(j, n, w).why = w
<1>1. j \in Nat
  BY DEF Jobs
<1>2. Answer(j, n, w) \in ReplyType
  BY <1>1 DEF Answer, ReplyType
<1>3. Answer(j, n, w).job = j /\ Answer(j, n, w).n = n /\ Answer(j, n, w).why = w
  BY DEF Answer
<1> QED
  BY <1>2, <1>3

LEMMA CloseType ==
  ASSUME NEW p \in [Jobs -> PipeType], NEW j \in Jobs
  PROVE  /\ Closed(p, j) \in [Jobs -> PipeType]
         /\ \A i \in Jobs : Closed(p, j)[i].down = p[i].down
<1>1. "closed" \in Words /\ << >> \in Seq(Words)
  BY WordsAre
<1> DEFINE f == [p[j] EXCEPT !.parent = "closed", !.up = << >>]
<1>2. f \in PipeType /\ f.down = p[j].down
  BY <1>1, PipePairs
<1>3. Closed(p, j) = [p EXCEPT ![j] = f]
  BY DEF Closed
<1> HIDE DEF f
<1>4. Closed(p, j) \in [Jobs -> PipeType]
  BY <1>2, <1>3
<1>5. \A i \in Jobs : Closed(p, j)[i].down = p[i].down
  BY <1>2, <1>3
<1> QED
  BY <1>4, <1>5

-----------------------------------------------------------------------------
(* What keeps the invariant, in terms of what a step changes.               *)
LEMMA FileIs ==
  ASSUME TypeInv, NEW j \in Jobs, NEW n
  PROVE  IsComplete(j, n) <=> file[j].kind = "complete" /\ file[j].n = n
<1>1. file[j] \in FileType
  BY DEF TypeInv
<1> QED
  BY <1>1 DEF IsComplete, FileType

\* A capture that ended well stays so, and its file as it is.
OutcomeKept ==
  \A j \in Jobs : cap[j].st = "ok" => cap'[j].st = "ok" /\ file'[j] = file[j]

\* Done is on the pipe already, or the capture has ended well.
DoneKept ==
  \A j \in Jobs : \A i \in 1 .. Len(pipe'[j].down) :
    \/ pipe'[j].down[i] # "Done"
    \/ \E k \in 1 .. Len(pipe[j].down) : pipe[j].down[k] = "Done"
    \/ cap[j].st = "ok"

\* A call has the result it had, or a true one.
ResultKept ==
  \A c \in Calls : call'[c].pc = "settling" =>
    \/ call'[c] = call[c]
    \/ call'[c].job \in Jobs /\ IsComplete(call'[c].job, call'[c].n)

ReplyKept ==
  \/ reply' = reply
  \/ reply'.ok /\ reply'.why # "started" =>
       reply'.job \in Jobs /\ IsComplete(reply'.job, reply'.n)

\* The outcome of a job whose file is complete does not change.
LEMMA CompleteStays ==
  ASSUME TypeInv, OutcomeInv, OutcomeKept, NEW j \in Jobs, NEW n, IsComplete(j, n)
  PROVE  file'[j] = [kind |-> "complete", n |-> n]
<1>1. file[j].kind = "complete" /\ file[j] = [kind |-> "complete", n |-> n]
  BY FileIs DEF IsComplete
<1> QED
  BY <1>1 DEF OutcomeInv, OutcomeKept

LEMMA KeptIsInv ==
  ASSUME TypeInv, Inv, FreshInv', OutcomeInv', OutcomeKept, DoneKept, ResultKept,
         ReplyKept
  PROVE  Inv'
<1>1. DoneInv'
  BY DEF DoneKept, OutcomeKept, Inv, DoneInv
<1>2. ASSUME NEW c \in Calls, call'[c].pc = "settling"
      PROVE  IsComplete(call[c].job, call[c].n)'
  <2>1. call'[c].job \in Jobs /\ IsComplete(call'[c].job, call'[c].n)
    BY <1>2 DEF ResultKept, Inv, ResultInv, TypeInv, CallsTyped
  <2> QED
    BY <2>1, CompleteStays DEF Inv, IsComplete
<1>3. ReplyInv'
  <2>1. reply'.ok /\ reply'.why # "started" =>
          reply'.job \in Jobs /\ IsComplete(reply'.job, reply'.n)
    BY DEF ReplyKept, Inv, ReplyInv
  <2> QED
    BY <2>1, CompleteStays DEF Inv, IsComplete, ReplyInv
<1> QED
  BY <1>1, <1>2, <1>3 DEF Inv, ResultInv

\* A step of call c that leaves every job alone but the one it launches.
FreshFor(c) ==
  /\ UNCHANGED last /\ OthersStay(c) /\ ~Launches(c)'
  /\ \A j \in Jobs : Untouched(j) /\ ~(Launches(c) /\ call[c].job = j) => Untouched(j)'
  /\ \A j \in Jobs : wk'[j] = "launched" => cap'[j].st = "none"

LEMMA FreshCall ==
  ASSUME TypeInv, FreshInv, NEW c \in Calls, FreshFor(c)
  PROVE  FreshInv'
<1>1. ASSUME NEW j \in Jobs, j > last' PROVE Untouched(j)'
  <2>1. Untouched(j) /\ last' = last
    BY <1>1 DEF FreshFor, FreshInv
  <2>2. ~(Launches(c) /\ call[c].job = j)
    BY <1>1, <2>1 DEF FreshInv, TypeInv, Jobs
  <2> QED
    BY <2>1, <2>2 DEF FreshFor
<1>2. ASSUME NEW d \in Calls, Launches(d)'
      PROVE  d # c /\ call'[d] = call[d] /\ Launches(d)
  BY <1>2 DEF FreshFor, OthersStay, Launches
<1>3. ASSUME NEW d \in Calls, Launches(d)'
      PROVE  call'[d].job <= last' /\ Untouched(call[d].job)'
  <2>1. d # c /\ call'[d] = call[d] /\ Launches(d) /\ last' = last
    BY <1>2, <1>3 DEF FreshFor
  <2>2. call[d].job \in Jobs
    BY <2>1 DEF TypeInv, CallsTyped, Launches
  <2>3. call[d].job <= last /\ Untouched(call[d].job)
    BY <2>1 DEF FreshInv
  <2>4. ~(Launches(c) /\ call[c].job = call[d].job)
    BY <2>1 DEF FreshInv
  <2> QED
    BY <2>1, <2>2, <2>3, <2>4 DEF FreshFor
<1>4. \A d, e \in Calls :
        Launches(d)' /\ Launches(e)' /\ call'[d].job = call'[e].job => d = e
  BY <1>2 DEF FreshInv
<1> QED
  BY <1>1, <1>3, <1>4 DEF FreshInv, FreshFor, Untouched

\* A step of the jobs that does not touch one nobody launched.
LEMMA FreshJob ==
  ASSUME TypeInv, FreshInv, UNCHANGED <<call, last>>,
         \A j \in Jobs : Untouched(j) => Untouched(j)',
         \A j \in Jobs : wk'[j] = "launched" => cap'[j].st = "none"
  PROVE  FreshInv'
<1>1. \A c \in Calls : Launches(c)' <=> Launches(c)
  BY DEF Launches
<1>2. \A c \in Calls : Launches(c) => call[c].job \in Jobs
  BY DEF TypeInv, CallsTyped, Launches
<1> QED
  BY <1>1, <1>2 DEF FreshInv, Untouched

-----------------------------------------------------------------------------
(* The steps of a tool call after it has launched its job.                  *)
SameJobs == UNCHANGED <<last, file, wk>> /\ (cap' = cap \/ \E j \in Jobs : Stop(j))

LEMMA SameCaps ==
  ASSUME TypeInv, cap' = cap \/ \E j \in Jobs : Stop(j)
  PROVE  /\ cap' \in [Jobs -> CapType]
         /\ \A i \in Jobs : cap'[i].st = cap[i].st /\ cap'[i].n = cap[i].n
<1>1. cap \in [Jobs -> CapType]
  BY DEF TypeInv
<1>2. ASSUME NEW j \in Jobs, Stop(j)
      PROVE  /\ cap' \in [Jobs -> CapType]
             /\ \A i \in Jobs : cap'[i].st = cap[i].st /\ cap'[i].n = cap[i].n
  <2>1. cap' = [cap EXCEPT ![j].stop = TRUE] /\ "none" \in Words
    BY <1>2, WordsAre DEF Stop
  <2>2. cap' \in [Jobs -> CapType]
    BY <1>1, <2>1 DEF CapType
  <2>3. \A i \in Jobs : cap'[i].st = cap[i].st /\ cap'[i].n = cap[i].n
    BY <1>1, <2>1 DEF CapType
  <2> QED
    BY <2>2, <2>3
<1> QED
  BY <1>1, <1>2

\* A step that changes no outcome keeps what is said of them.
LEMMA OutcomeSame ==
  ASSUME Inv, file' = file, \A i \in Jobs : cap'[i].st = cap[i].st /\ cap'[i].n = cap[i].n
  PROVE  OutcomeInv' /\ OutcomeKept
BY DEF Inv, OutcomeInv, OutcomeKept

LEMMA FreshSame ==
  ASSUME TypeInv, Inv, NEW c \in Calls, SameJobs, OthersStay(c), ~Launches(c)'
  PROVE  FreshInv' /\ OutcomeInv' /\ OutcomeKept
<1>1. \A i \in Jobs : cap'[i].st = cap[i].st /\ cap'[i].n = cap[i].n
  BY SameCaps DEF SameJobs
<1>2. FreshFor(c)
  BY <1>1 DEF Inv, FreshInv, SameJobs, FreshFor, Untouched
<1> QED
  BY <1>1, <1>2, FreshCall, OutcomeSame DEF Inv, SameJobs

\* An end of the pipe moves, or what the parent says changes.
DownsKept ==
  pipe' \in [Jobs -> PipeType] /\ \A j \in Jobs : pipe'[j].down = pipe[j].down

LEMMA EndMoves ==
  ASSUME TypeInv, NEW j \in Jobs, NEW w \in Words, NEW q \in Seq(Words),
         \/ pipe' = [pipe EXCEPT ![j].parent = w]
         \/ pipe' = [pipe EXCEPT ![j].worker = w]
         \/ pipe' = [pipe EXCEPT ![j].up = q]
         \/ pipe' = Closed(pipe, j)
  PROVE  DownsKept
<1>1. pipe \in [Jobs -> PipeType]
  BY DEF TypeInv
<1>2. CASE pipe' = [pipe EXCEPT ![j].parent = w]
  <2>1. pipe' \in [Jobs -> PipeType]
    BY <1>1, <1>2, PipeEnds
  <2>2. \A i \in Jobs : pipe'[i].down = pipe[i].down
    BY <1>1, <1>2, PipeEnds
  <2> QED
    BY <2>1, <2>2 DEF DownsKept
<1>3. CASE pipe' = [pipe EXCEPT ![j].worker = w]
  <2>1. pipe' \in [Jobs -> PipeType]
    BY <1>1, <1>3, PipeEnds
  <2>2. \A i \in Jobs : pipe'[i].down = pipe[i].down
    BY <1>1, <1>3, PipeEnds
  <2> QED
    BY <2>1, <2>2 DEF DownsKept
<1>4. CASE pipe' = [pipe EXCEPT ![j].up = q]
  <2>1. pipe' \in [Jobs -> PipeType]
    BY <1>1, <1>4, PipeQueues
  <2>2. \A i \in Jobs : pipe'[i].down = pipe[i].down
    BY <1>1, <1>4, PipeQueues
  <2> QED
    BY <2>1, <2>2 DEF DownsKept
<1>5. CASE pipe' = Closed(pipe, j)
  BY <1>1, <1>5, CloseType DEF DownsKept
<1> QED
  BY <1>2, <1>3, <1>4, <1>5

\* The reader takes the first message, or none.
DownsShrink ==
  /\ pipe' \in [Jobs -> PipeType]
  /\ \A j \in Jobs :
       \/ pipe'[j].down = pipe[j].down
       \/ pipe[j].down # << >> /\ pipe'[j].down = Tail(pipe[j].down)

LEMMA ShrinkKept ==
  ASSUME TypeInv, DownsShrink
  PROVE  DoneKept
<1> SUFFICES ASSUME NEW j \in Jobs, NEW i \in 1 .. Len(pipe'[j].down)
             PROVE  \E k \in 1 .. Len(pipe[j].down) : pipe[j].down[k] = pipe'[j].down[i]
  BY DEF DoneKept
<1>1. pipe[j].down \in Seq(Words)
  BY DEF TypeInv, PipeType
<1>2. CASE pipe'[j].down = pipe[j].down
  BY <1>2
<1>3. CASE pipe[j].down # << >> /\ pipe'[j].down = Tail(pipe[j].down)
  <2>1. i + 1 \in 1 .. Len(pipe[j].down) /\ pipe'[j].down[i] = pipe[j].down[i + 1]
    BY <1>1, <1>3
  <2> QED
    BY <2>1
<1> QED
  BY <1>2, <1>3 DEF DownsShrink

LEMMA Takes ==
  ASSUME TypeInv, NEW j \in Jobs, Heard(j)
  PROVE  /\ Take(j) \in [Jobs -> PipeType]
         /\ \A i \in Jobs : \/ Take(j)[i].down = pipe[i].down
                            \/ pipe[i].down # << >> /\ Take(j)[i].down = Tail(pipe[i].down)
<1>1. pipe \in [Jobs -> PipeType]
  BY DEF TypeInv
<1>2. pipe[j].down \in Seq(Words) /\ pipe[j].down # << >>
  BY <1>1 DEF Heard, PipeType
<1>3. Tail(pipe[j].down) \in Seq(Words)
  BY <1>2
<1>4. Take(j) = [pipe EXCEPT ![j].down = Tail(pipe[j].down)]
  BY DEF Take
<1> DEFINE t == Tail(pipe[j].down)
<1>5. t \in Seq(Words)
  BY <1>3
<1>6. Take(j) = [pipe EXCEPT ![j].down = t]
  BY <1>4
<1> HIDE DEF t
<1>7. Take(j) \in [Jobs -> PipeType]
  <2>1. [pipe EXCEPT ![j].down = t] \in [Jobs -> PipeType]
    BY <1>1, <1>5, PipeQueues
  <2> QED
    BY <1>6, <2>1
<1>8. \A i \in Jobs : Take(j)[i].down = IF i = j THEN t ELSE pipe[i].down
  BY <1>1, <1>5, <1>6, PipeQueues
<1>9. Take(j)[j].down = Tail(pipe[j].down) /\ \A i \in Jobs \ {j} : Take(j)[i].down = pipe[i].down
  BY <1>8 DEF t
<1> QED
  BY <1>2, <1>7, <1>9

LEMMA Holds ==
  ASSUME TypeInv, NEW j \in Jobs, NEW w \in Words, Hold(j, w)
  PROVE  sessions' \in Seq(SessionType)
<1>1. [job |-> j, backend |-> w] \in SessionType
  BY DEF SessionType
<1> QED
  BY <1>1 DEF TypeInv, Hold

\* What a returning call may answer.
True(r) ==
  r.ok /\ r.why # "started" => r.job \in Jobs /\ IsComplete(r.job, r.n)

\* A call goes on or returns, and changes no job.
LEMMA StepOfCall ==
  ASSUME TypeInv, Inv, NEW c \in Calls, CallsTyped', OthersStay(c), SameJobs,
         reply' \in ReplyType, ReplyKept, sessions' \in Seq(SessionType), DownsShrink,
         call'[c].pc # "launching" \/ call'[c].op \notin {"capture", "start"},
         call'[c].pc = "settling" =>
           call'[c].job \in Jobs /\ IsComplete(call'[c].job, call'[c].n)
  PROVE  TypeInv' /\ Inv'
<1>1. TypeInv'
  BY SameCaps DEF TypeInv, SameJobs, DownsShrink
<1>2. FreshInv' /\ OutcomeInv' /\ OutcomeKept
  BY FreshSame DEF Launches
<1>3. DoneKept
  BY ShrinkKept
<1>4. ResultKept
  BY DEF ResultKept, OthersStay
<1> QED
  BY <1>1, <1>2, <1>3, <1>4, KeptIsInv

LEMMA StepReturns ==
  ASSUME TypeInv, Inv, NEW c \in Calls, NEW r \in ReplyType, Return(c, r), True(r),
         SameJobs, sessions' \in Seq(SessionType), DownsShrink
  PROVE  TypeInv' /\ Inv'
<1>1. CallsTyped' /\ OthersStay(c) /\ call'[c].pc = "idle" /\ reply' \in {r, reply}
  BY Returns DEF TypeInv
<1>2. reply' \in ReplyType /\ ReplyKept
  BY <1>1 DEF TypeInv, True, ReplyKept
<1> QED
  BY <1>1, <1>2, StepOfCall

\* A step that leaves the pipe as it is.
LEMMA PipeSame ==
  ASSUME TypeInv, pipe' = pipe
  PROVE  DownsShrink
BY DEF TypeInv, DownsShrink

LEMMA DownsAreKept ==
  ASSUME DownsKept
  PROVE  DownsShrink
BY DEF DownsKept, DownsShrink

LEMMA RefusedTrue == True(Refused) /\ Refused \in ReplyType
BY FreeType DEF True, Refused

-----------------------------------------------------------------------------
(* The actions of a call, but for the launch.                               *)
LEMMA AcceptStep ==
  ASSUME TypeInv, Inv, NEW c \in Calls, Accept(c)
  PROVE  TypeInv' /\ Inv'
<1>1. call[c].pc # "idle" /\ call[c].job \in Jobs
  BY DEF Accept, TypeInv, CallsTyped
<1>2. PICK w \in {"greeting", "reading"} : Goto(c, w)
  BY DEF Accept
<1>3. CallsTyped' /\ OthersStay(c) /\ call'[c].pc = w
  BY <1>1, <1>2, GoesTo, WordsAre DEF TypeInv
<1>4. SameJobs /\ UNCHANGED <<reply, sessions>>
  BY DEF Accept, SameJobs
<1>5. DownsKept
  <2>1. pipe' = [pipe EXCEPT ![call[c].job].parent = "open"]
    BY DEF Accept
  <2>2. "open" \in Words /\ << >> \in Seq(Words)
    BY WordsAre
  <2> QED
    BY <1>1, <2>1, <2>2, EndMoves
<1>6. reply' \in ReplyType /\ ReplyKept /\ sessions' \in Seq(SessionType)
  BY <1>4 DEF TypeInv, ReplyKept
<1> QED
  BY <1>3, <1>4, <1>5, <1>6, DownsAreKept, StepOfCall

LEMMA GreetStep ==
  ASSUME TypeInv, Inv, NEW c \in Calls, Greet(c)
  PROVE  TypeInv' /\ Inv'
<1> DEFINE j == call[c].job
           p == IF Heard(j) THEN Take(j) ELSE pipe
<1>1. j \in Jobs /\ "link" \in Words /\ "started" \in Words /\ 0 \in Nat /\ SameJobs
  BY WordsAre DEF Greet, TypeInv, CallsTyped, SameJobs
<1>2. \/ /\ Hold(j, "link") /\ Return(c, Answer(j, 0, "started"))
         /\ pipe' = IF server = "up" THEN p ELSE Closed(p, j)
      \/ Return(c, Refused) /\ pipe' = Closed(pipe, j) /\ UNCHANGED sessions
  BY DEF Greet
<1> HIDE DEF j
<1>a. CASE Return(c, Refused) /\ pipe' = Closed(pipe, j) /\ UNCHANGED sessions
  <2>1. << >> \in Seq(Words)
    BY WordsAre
  <2>2. DownsShrink
    BY <1>1, <1>a, <2>1, EndMoves, DownsAreKept
  <2>3. sessions' \in Seq(SessionType)
    BY <1>a DEF TypeInv
  <2> QED
    BY <1>1, <1>a, <2>2, <2>3, RefusedTrue, StepReturns
<1>b. CASE /\ Hold(j, "link") /\ Return(c, Answer(j, 0, "started"))
           /\ pipe' = IF server = "up" THEN p ELSE Closed(p, j)
  <2>1. Answer(j, 0, "started") \in ReplyType /\ True(Answer(j, 0, "started"))
    BY <1>1, AnswerType DEF True
  <2>2. sessions' \in Seq(SessionType)
    BY <1>1, <1>b, Holds
  <2>3. /\ p \in [Jobs -> PipeType]
        /\ \A i \in Jobs : \/ p[i].down = pipe[i].down
                           \/ pipe[i].down # << >> /\ p[i].down = Tail(pipe[i].down)
    BY <1>1, Takes DEF TypeInv
  <2> HIDE DEF p
  <2>4. /\ Closed(p, j) \in [Jobs -> PipeType]
        /\ \A i \in Jobs : Closed(p, j)[i].down = p[i].down
    BY <1>1, <2>3, CloseType
  <2>5. DownsShrink
    BY <1>b, <2>3, <2>4 DEF DownsShrink
  <2> QED
    BY <1>1, <1>b, <2>1, <2>2, <2>5, StepReturns
<1> QED
  BY <1>2, <1>a, <1>b

LEMMA ReadDoneStep ==
  ASSUME TypeInv, Inv, NEW c \in Calls, ReadDone(c)
  PROVE  TypeInv' /\ Inv'
<1> DEFINE j == call[c].job
<1>1. /\ j \in Jobs /\ call[c].pc = "reading" /\ call[c].pc # "idle"
      /\ sessions' \in Seq(SessionType) /\ SameJobs
  BY DEF ReadDone, TypeInv, CallsTyped, SameJobs
<1>2. ASSUME UNCHANGED reply
      PROVE  reply' \in ReplyType /\ ReplyKept
  BY <1>2 DEF TypeInv, ReplyKept
<1>3. CASE Heard(j) /\ Head(pipe[j].down) = "Done"
  <2>1. pipe' = Closed(pipe, j) /\ Result(c, cap[j].n, cap[j].why) /\ UNCHANGED reply
    BY <1>3, WordsAre DEF ReadDone, Eof, Heard
  <2>2. pipe[j].down \in Seq(Words) /\ cap[j] \in CapType
    BY <1>1 DEF TypeInv, PipeType
  <2>3. 1 \in 1 .. Len(pipe[j].down) /\ pipe[j].down[1] = "Done"
    BY <1>3, <2>2 DEF Heard
  <2>4. cap[j].st = "ok"
    BY <1>1, <2>3 DEF Inv, DoneInv
  <2>5. cap[j].n \in Nat /\ cap[j].why \in Words /\ << >> \in Seq(Words) /\ "idle" \in Words
    BY <2>2, WordsAre DEF CapType
  <2>6. /\ CallsTyped' /\ OthersStay(c) /\ call'[c].pc = "settling"
        /\ call'[c].job = j /\ call'[c].n = cap[j].n
    BY <1>1, <2>1, <2>5, HasResult DEF TypeInv
  <2>7. IsComplete(j, cap[j].n)
    BY <1>1, <2>4, FileIs DEF Inv, OutcomeInv
  <2>8. DownsShrink
    BY <1>1, <2>1, <2>5, EndMoves, DownsAreKept
  <2> QED
    BY <1>1, <1>2, <2>1, <2>6, <2>7, <2>8, StepOfCall
<1>4. CASE Heard(j) /\ Head(pipe[j].down) # "Done"
  <2>1. pipe' = Take(j) /\ call' = call /\ UNCHANGED reply
    BY <1>4 DEF ReadDone, Eof, Heard
  <2>2. DownsShrink
    BY <1>1, <1>4, <2>1, Takes DEF DownsShrink
  <2>3. CallsTyped' /\ OthersStay(c) /\ call'[c].pc = "reading"
    BY <1>1, <2>1 DEF TypeInv, CallsTyped, OthersStay
  <2> QED
    BY <1>1, <1>2, <2>1, <2>2, <2>3, StepOfCall
<1>5. CASE ~Heard(j)
  <2>1. /\ pipe' = Closed(pipe, j)
        /\ (Goto(c, "counting") /\ UNCHANGED reply) \/ Return(c, Refused)
    BY <1>5 DEF ReadDone
  <2>2. << >> \in Seq(Words) /\ "counting" \in Words
    BY WordsAre
  <2>3. DownsShrink
    BY <1>1, <2>1, <2>2, EndMoves, DownsAreKept
  <2>4. CASE Goto(c, "counting") /\ UNCHANGED reply
    <3>1. CallsTyped' /\ OthersStay(c) /\ call'[c].pc = "counting"
      BY <1>1, <2>2, <2>4, GoesTo DEF TypeInv
    <3> QED
      BY <1>1, <1>2, <2>3, <2>4, <3>1, StepOfCall
  <2>5. CASE Return(c, Refused)
    BY <1>1, <2>3, <2>5, RefusedTrue, StepReturns
  <2> QED
    BY <2>1, <2>4, <2>5
<1> QED
  BY <1>3, <1>4, <1>5

LEMMA CountStep ==
  ASSUME TypeInv, Inv, NEW c \in Calls, Count(c)
  PROVE  TypeInv' /\ Inv'
<1> DEFINE j == call[c].job
<1>1. j \in Jobs /\ call[c].pc # "idle" /\ SameJobs /\ UNCHANGED <<sessions, pipe>>
  BY DEF Count, TypeInv, CallsTyped, SameJobs
<1>2. sessions' \in Seq(SessionType) /\ DownsShrink
  BY <1>1, PipeSame DEF TypeInv
<1>3. CASE Opens(j) /\ reply' = reply /\ \E w \in {"Manual", "Duration"} : Result(c, file[j].n, w)
  <2>1. PICK w \in Words : Result(c, file[j].n, w)
    BY <1>3, WordsAre
  <2>2. file[j] \in FileType
    BY <1>1 DEF TypeInv
  <2>3. file[j].n \in Nat
    BY <2>2 DEF FileType
  <2>4. /\ CallsTyped' /\ OthersStay(c) /\ call'[c].pc = "settling"
        /\ call'[c].job = j /\ call'[c].n = file[j].n
    BY <1>1, <2>1, <2>3, HasResult DEF TypeInv
  <2>5. IsComplete(j, file[j].n)
    BY <1>1, <1>3, FileIs DEF Opens
  <2>6. reply' \in ReplyType /\ ReplyKept
    BY <1>3 DEF TypeInv, ReplyKept
  <2> QED
    BY <1>1, <1>2, <2>4, <2>5, <2>6, StepOfCall
<1>4. CASE Return(c, Refused)
  BY <1>1, <1>2, <1>4, RefusedTrue, StepReturns
<1> QED
  BY <1>3, <1>4 DEF Count

LEMMA JoinStep ==
  ASSUME TypeInv, Inv, NEW c \in Calls, Join(c)
  PROVE  TypeInv' /\ Inv'
<1> DEFINE j == call[c].job
<1>1. j \in Jobs /\ call[c].pc # "idle" /\ SameJobs /\ UNCHANGED <<sessions, pipe>>
  BY DEF Join, TypeInv, CallsTyped, SameJobs
<1>2. sessions' \in Seq(SessionType) /\ DownsShrink
  BY <1>1, PipeSame DEF TypeInv
<1>3. CASE cap[j].st = "ok" /\ Result(c, cap[j].n, cap[j].why) /\ reply' = reply
  <2>1. cap[j] \in CapType
    BY <1>1 DEF TypeInv
  <2>2. cap[j].n \in Nat /\ cap[j].why \in Words
    BY <2>1 DEF CapType
  <2>3. /\ CallsTyped' /\ OthersStay(c) /\ call'[c].pc = "settling"
        /\ call'[c].job = j /\ call'[c].n = cap[j].n
    BY <1>1, <1>3, <2>2, HasResult DEF TypeInv
  <2>4. IsComplete(j, cap[j].n)
    BY <1>1, <1>3, FileIs DEF Inv, OutcomeInv
  <2>5. reply' \in ReplyType /\ ReplyKept
    BY <1>3 DEF TypeInv, ReplyKept
  <2> QED
    BY <1>1, <1>2, <2>3, <2>4, <2>5, StepOfCall
<1>4. CASE Return(c, Refused)
  BY <1>1, <1>2, <1>4, RefusedTrue, StepReturns
<1> QED
  BY <1>3, <1>4 DEF Join

LEMMA SettleStep ==
  ASSUME TypeInv, Inv, NEW c \in Calls, Settle(c)
  PROVE  TypeInv' /\ Inv'
<1> DEFINE j == call[c].job
<1>1. j \in Jobs /\ call[c].pc = "settling" /\ SameJobs /\ pipe' = pipe
  BY DEF Settle, TypeInv, CallsTyped, SameJobs
<1>2. IsComplete(j, call[c].n)
  BY <1>1 DEF Inv, ResultInv
<1>3. call[c] \in CallType
  BY DEF TypeInv, CallsTyped
<1>4. call[c].n \in Nat /\ call[c].why \in Words /\ Reason(call[c].why) \in Words
  BY <1>3, WordsAre DEF CallType, Reason
<1>5. \A w \in Words : Answer(j, call[c].n, w) \in ReplyType /\ True(Answer(j, call[c].n, w))
  BY <1>1, <1>2, <1>4, AnswerType DEF True
<1>6. PICK r \in ReplyType : Return(c, r) /\ True(r)
  BY <1>4, <1>5, RefusedTrue DEF Settle
<1>7. sessions' \in Seq(SessionType)
  BY <1>1, Holds, WordsAre DEF Settle, TypeInv
<1> QED
  BY <1>1, <1>6, <1>7, PipeSame, StepReturns

LEMMA AnalyzeStep ==
  ASSUME TypeInv, Inv, NEW c \in Calls, Analyze(c)
  PROVE  TypeInv' /\ Inv'
<1> DEFINE j == call[c].job
<1>1. j \in Jobs /\ SameJobs /\ pipe' = pipe /\ sessions' = sessions
  BY DEF Analyze, TypeInv, CallsTyped, SameJobs
<1>2. file[j] \in FileType
  BY <1>1 DEF TypeInv
<1>3. file[j].n \in Nat /\ "analyze" \in Words
  BY <1>2, WordsAre DEF FileType
<1>4. Opens(j) => IsComplete(j, file[j].n)
  BY <1>1, FileIs DEF Opens
<1>5. /\ Answer(j, file[j].n, "analyze") \in ReplyType
      /\ Opens(j) => True(Answer(j, file[j].n, "analyze"))
  BY <1>1, <1>3, <1>4, AnswerType DEF True
<1>6. PICK r \in ReplyType : Return(c, r) /\ True(r)
  BY <1>5, RefusedTrue DEF Analyze
<1>7. sessions' \in Seq(SessionType)
  BY <1>1 DEF TypeInv
<1> QED
  BY <1>1, <1>6, <1>7, PipeSame, StepReturns

LEMMA StopBackendStep ==
  ASSUME TypeInv, Inv, NEW c \in Calls, StopBackend(c)
  PROVE  TypeInv' /\ Inv'
<1> DEFINE j == call[c].job
<1>1. /\ j \in Jobs /\ call[c].pc # "idle" /\ UNCHANGED <<reply, sessions>> /\ SameJobs
  BY DEF StopBackend, TypeInv, CallsTyped, SameJobs
<1>2. PICK w \in {"waiting", "reading"} : Goto(c, w)
  BY DEF StopBackend
<1>3. CallsTyped' /\ OthersStay(c) /\ call'[c].pc = w
  BY <1>1, <1>2, GoesTo, WordsAre DEF TypeInv
<1>4. DownsShrink
  <2>1. pipe \in [Jobs -> PipeType]
    BY DEF TypeInv
  <2>2. pipe[j].up \in Seq(Words) /\ "Stop" \in Words /\ "idle" \in Words
    BY <1>1, <2>1, WordsAre DEF PipeType
  <2> DEFINE q == Append(pipe[j].up, "Stop")
  <2>3. q \in Seq(Words)
    BY <2>2
  <2>4. pipe' = pipe \/ pipe' = [pipe EXCEPT ![j].up = q]
    BY DEF StopBackend
  <2> HIDE DEF q
  <2> QED
    BY <1>1, <2>2, <2>3, <2>4, EndMoves, DownsAreKept, PipeSame
<1>5. reply' \in ReplyType /\ ReplyKept /\ sessions' \in Seq(SessionType)
  BY <1>1 DEF TypeInv, ReplyKept
<1> QED
  BY <1>1, <1>3, <1>4, <1>5, StepOfCall

\* stop_capture and the analysis calls begin on a session's job.
LEMMA SessionCall ==
  ASSUME TypeInv, Inv, NEW c \in Calls, NEW s \in DOMAIN sessions,
         StopTool(c, s) \/ AnalyzeTool(c, s)
  PROVE  TypeInv' /\ Inv'
<1>1. sessions[s] \in SessionType
  BY DEF TypeInv
<1>2. sessions[s].job \in Jobs /\ SameJobs /\ pipe' = pipe
  BY <1>1 DEF SessionType, StopTool, AnalyzeTool, SameJobs
<1>3. PICK w \in {"stop", "analyze"} : Begin(c, w, sessions[s].job)
  BY DEF StopTool, AnalyzeTool
<1>4. /\ CallsTyped' /\ reply' = Refused /\ reply' \in ReplyType /\ OthersStay(c)
      /\ call'[c].op = w /\ call'[c].pc = "launching"
  BY <1>2, <1>3, Begins, WordsAre DEF TypeInv
<1>5. ReplyKept
  BY <1>4 DEF ReplyKept, Refused
<1>6. sessions' \in Seq(SessionType)
  <2>1. CASE sessions' = sessions
    BY <2>1 DEF TypeInv
  <2>2. CASE sessions' = [sessions EXCEPT ![s].backend = "none"]
    <3> DEFINE r == [sessions[s] EXCEPT !.backend = "none"]
    <3>1. r \in SessionType
      BY <1>1, WordsAre DEF SessionType
    <3>2. sessions' = [sessions EXCEPT ![s] = r] /\ sessions \in Seq(SessionType)
      BY <2>2 DEF TypeInv
    <3> HIDE DEF r
    <3> QED
      BY <3>1, <3>2
  <2> QED
    BY <2>1, <2>2 DEF StopTool, AnalyzeTool
<1> QED
  BY <1>2, <1>4, <1>5, <1>6, PipeSame, StepOfCall

-----------------------------------------------------------------------------
(* The launch of a job.                                                     *)
LEMMA CaptureToolStep ==
  ASSUME TypeInv, Inv, NEW c \in Calls, NEW w \in {"capture", "start"}, CaptureTool(c, w)
  PROVE  TypeInv' /\ Inv'
<1> DEFINE j == last + 1
<1>1. j \in Jobs /\ last' = j /\ j > last /\ last \in Nat
  BY WorkerAssumption DEF CaptureTool, TypeInv, Jobs
<1>2. Begin(c, w, j) /\ UNCHANGED <<sessions, file, wk, pipe>>
  BY DEF CaptureTool
<1>3. \E b \in BOOLEAN : cap' = [cap EXCEPT ![j].limited = b]
  BY DEF CaptureTool
<1> HIDE DEF j
<1>4. /\ CallsTyped' /\ reply' = Refused /\ reply' \in ReplyType /\ OthersStay(c)
      /\ call'[c].op = w /\ call'[c].job = j /\ call'[c].pc = "launching"
  BY <1>1, <1>2, Begins, WordsAre DEF TypeInv
<1>5. cap \in [Jobs -> CapType] /\ "none" \in Words
  BY WordsAre DEF TypeInv
<1>6. PICK b \in BOOLEAN : cap' = [cap EXCEPT ![j].limited = b]
  BY <1>3
<1>7. cap' \in [Jobs -> CapType]
  BY <1>1, <1>5, <1>6 DEF CapType
<1>8. \A i \in Jobs : cap'[i].st = cap[i].st /\ cap'[i].n = cap[i].n
  BY <1>1, <1>5, <1>6 DEF CapType
<1>9. last' \in 0 .. MaxJobs
  BY <1>1 DEF Jobs
<1>10. TypeInv'
  BY <1>2, <1>4, <1>7, <1>9 DEF TypeInv
<1>11. OutcomeInv' /\ OutcomeKept
  BY <1>2, <1>8, OutcomeSame
<1>12. FreshInv'
  <2>1. \A i \in Jobs : Untouched(i)' <=> Untouched(i)
    BY <1>2, <1>8 DEF Untouched
  <2>2. Untouched(j)
    BY <1>1 DEF Inv, FreshInv
  <2>3. \A d \in Calls : Launches(d)' => d = c \/ (call'[d] = call[d] /\ Launches(d))
    BY <1>4 DEF OthersStay, Launches
  <2>4. ASSUME NEW d \in Calls, Launches(d), call'[d] = call[d]
        PROVE  /\ call[d].job \in Jobs /\ call[d].job <= last /\ call[d].job # j
               /\ Untouched(call[d].job)
    <3>1. call[d].job \in Jobs /\ call[d].job <= last /\ Untouched(call[d].job)
      BY <2>4 DEF TypeInv, CallsTyped, Launches, Inv, FreshInv
    <3> QED
      BY <1>1, <3>1 DEF Jobs
  <2>5. \A i \in Jobs : i > last' => Untouched(i)'
    BY <1>1, <2>1 DEF Inv, FreshInv, Jobs
  <2>6. ASSUME NEW d \in Calls, Launches(d)'
        PROVE  call'[d].job <= last' /\ Untouched(call[d].job)'
    <3>1. CASE d = c
      BY <1>1, <1>4, <2>1, <2>2, <3>1 DEF Jobs, Untouched
    <3>2. CASE d # c
      <4>1. /\ call'[d] = call[d] /\ call[d].job \in Jobs /\ call[d].job <= last
            /\ Untouched(call[d].job)
        BY <2>3, <2>4, <2>6, <3>2
      <4> QED
        BY <1>1, <2>1, <4>1 DEF Jobs, Untouched
    <3> QED
      BY <3>1, <3>2
  <2>7. ASSUME NEW d \in Calls, NEW e \in Calls, Launches(d)', Launches(e)',
               call'[d].job = call'[e].job
        PROVE  d = e
    BY <1>4, <2>3, <2>4, <2>7 DEF Inv, FreshInv
  <2>8. \A i \in Jobs : wk'[i] = "launched" => cap'[i].st = "none"
    BY <1>2, <1>8 DEF Inv, FreshInv
  <2> QED
    BY <2>5, <2>6, <2>7, <2>8 DEF FreshInv, Untouched
<1>13. DoneKept
  BY <1>2, PipeSame, ShrinkKept
<1>14. ResultKept /\ ReplyKept
  BY <1>4 DEF ResultKept, ReplyKept, OthersStay, Refused
<1> QED
  BY <1>10, <1>11, <1>12, <1>13, <1>14, KeptIsInv

\* A capture that starts had not, and has no outcome.
LEMMA Starts ==
  ASSUME TypeInv, Inv, NEW j \in Jobs, NEW b \in BOOLEAN, StartCapture(j, b),
         cap[j].st = "none", file' = file
  PROVE  /\ cap' \in [Jobs -> CapType] /\ cap'[j].st = "running"
         /\ \A i \in Jobs \ {j} : cap'[i] = cap[i]
         /\ OutcomeInv' /\ OutcomeKept
<1>1. cap \in [Jobs -> CapType] /\ "running" \in Words
  BY WordsAre DEF TypeInv
<1> DEFINE f == [cap[j] EXCEPT !.st = "running", !.stop = b]
<1>2. cap[j] \in CapType /\ cap' = [cap EXCEPT ![j] = f]
  BY <1>1 DEF StartCapture
<1>3. f \in CapType
  BY <1>1, <1>2, CapPairs
<1>4. f.st = "running"
  BY <1>2 DEF CapType
<1> HIDE DEF f
<1>5. cap' \in [Jobs -> CapType] /\ cap'[j] = f /\ \A i \in Jobs \ {j} : cap'[i] = cap[i]
  BY <1>1, <1>2, <1>3
<1> QED
  BY <1>4, <1>5 DEF Inv, OutcomeInv, OutcomeKept

LEMMA LaunchWorkerStep ==
  ASSUME TypeInv, Inv, NEW c \in Calls, Launches(c), LaunchWorker(c)
  PROVE  TypeInv' /\ Inv'
<1> DEFINE j == call[c].job
<1>1. /\ j \in Jobs /\ call[c].pc # "idle" /\ UNCHANGED <<sessions, last, cap, file>>
      /\ Untouched(j)
  BY DEF LaunchWorker, Launches, TypeInv, CallsTyped, Inv, FreshInv
<1>2. sessions' \in Seq(SessionType)
  BY <1>1 DEF TypeInv
<1>3. CASE Return(c, Refused) /\ UNCHANGED <<pipe, wk>>
  BY <1>1, <1>2, <1>3, RefusedTrue, PipeSame, StepReturns DEF SameJobs
<1>4. CASE /\ pipe' = [pipe EXCEPT ![j].parent = "listening"]
           /\ wk' = [wk EXCEPT ![j] = "launched"]
           /\ Goto(c, "accepting") /\ UNCHANGED reply
  <2>1. "listening" \in Words /\ "launched" \in Words /\ "accepting" \in Words
    BY WordsAre
  <2>2. /\ CallsTyped' /\ OthersStay(c) /\ call'[c].pc = "accepting"
    BY <1>1, <1>4, <2>1, GoesTo DEF TypeInv
  <2>3. << >> \in Seq(Words)
    OBVIOUS
  <2>4. DownsKept
    BY <1>1, <1>4, <2>1, <2>3, EndMoves
  <2>5. TypeInv'
    BY <1>1, <1>2, <1>4, <2>1, <2>2, <2>4 DEF TypeInv, DownsKept
  <2>6. FreshFor(c)
    BY <1>1, <1>4, <2>2 DEF TypeInv, FreshFor, Inv, FreshInv, Untouched, Launches
  <2>7. OutcomeInv' /\ OutcomeKept
    BY <1>1, OutcomeSame
  <2>8. DoneKept
    BY <2>4, DownsAreKept, ShrinkKept
  <2>9. ResultKept /\ ReplyKept
    BY <1>4, <2>2 DEF ResultKept, ReplyKept, OthersStay
  <2> QED
    BY <2>5, <2>6, <2>7, <2>8, <2>9, FreshCall, KeptIsInv DEF Inv
<1> QED
  BY <1>3, <1>4 DEF LaunchWorker

LEMMA LaunchInProcessStep ==
  ASSUME TypeInv, Inv, NEW c \in Calls, Launches(c), LaunchInProcess(c)
  PROVE  TypeInv' /\ Inv'
<1> DEFINE j == call[c].job
<1>1. /\ j \in Jobs /\ call[c].pc # "idle" /\ UNCHANGED <<last, file, wk, pipe>>
      /\ Untouched(j)
  BY DEF LaunchInProcess, Launches, TypeInv, CallsTyped, Inv, FreshInv
<1>2. CASE Return(c, Refused) /\ UNCHANGED <<cap, sessions>>
  <2>1. sessions' \in Seq(SessionType)
    BY <1>2 DEF TypeInv
  <2> QED
    BY <1>1, <1>2, <2>1, RefusedTrue, PipeSame, StepReturns DEF SameJobs
<1>3. ASSUME NEW b \in BOOLEAN, StartCapture(j, b), CallsTyped', OthersStay(c),
             call'[c].pc \in {"waiting", "idle"}, reply' \in ReplyType, ReplyKept,
             sessions' \in Seq(SessionType)
      PROVE  TypeInv' /\ Inv'
  <2>1. /\ cap' \in [Jobs -> CapType] /\ cap'[j].st = "running"
        /\ \A i \in Jobs \ {j} : cap'[i] = cap[i]
        /\ OutcomeInv' /\ OutcomeKept
    BY <1>1, <1>3, Starts DEF Untouched
  <2>2. TypeInv'
    BY <1>1, <1>3, <2>1 DEF TypeInv
  <2>3. \A i \in Jobs : wk'[i] = "launched" => i # j /\ cap'[i].st = "none"
    BY <1>1, <2>1 DEF Untouched, Inv, FreshInv
  <2>4. FreshFor(c)
    BY <1>1, <1>3, <2>1, <2>3 DEF FreshFor, Untouched, Launches
  <2>5. DoneKept
    BY <1>1, PipeSame, ShrinkKept
  <2>6. ResultKept
    BY <1>3 DEF ResultKept, OthersStay
  <2> QED
    BY <1>3, <2>1, <2>2, <2>4, <2>5, <2>6, FreshCall, KeptIsInv DEF Inv
<1>4. CASE /\ StartCapture(j, FALSE) /\ Goto(c, "waiting")
           /\ UNCHANGED <<server, reply, sessions>>
  <2>1. CallsTyped' /\ OthersStay(c) /\ call'[c].pc = "waiting"
    BY <1>1, <1>4, GoesTo, WordsAre DEF TypeInv
  <2>2. reply' \in ReplyType /\ ReplyKept /\ sessions' \in Seq(SessionType)
    BY <1>4 DEF TypeInv, ReplyKept
  <2> QED
    BY <1>3, <1>4, <2>1, <2>2
<1>5. CASE /\ StartCapture(j, server # "up") /\ Hold(j, "inprocess")
           /\ Return(c, Answer(j, 0, "started"))
  <2>1. Answer(j, 0, "started") \in ReplyType /\ True(Answer(j, 0, "started"))
    BY <1>1, AnswerType, WordsAre DEF True
  <2>2. /\ CallsTyped' /\ OthersStay(c) /\ call'[c].pc = "idle"
        /\ reply' \in {Answer(j, 0, "started"), reply}
    BY <1>5, Returns DEF TypeInv
  <2>3. reply' \in ReplyType /\ ReplyKept
    BY <2>1, <2>2 DEF TypeInv, True, ReplyKept
  <2>4. sessions' \in Seq(SessionType)
    BY <1>1, <1>5, Holds, WordsAre
  <2>5. (server # "up") \in BOOLEAN
    OBVIOUS
  <2> QED
    BY <1>3, <1>5, <2>2, <2>3, <2>4, <2>5
<1> QED
  BY <1>2, <1>4, <1>5 DEF LaunchInProcess

-----------------------------------------------------------------------------
(* The steps of a job: its worker and its capture thread.                   *)
LEMMA StepOfJob ==
  ASSUME TypeInv, Inv, UNCHANGED <<call, reply, sessions, last>>,
         cap' \in [Jobs -> CapType], file' \in [Jobs -> FileType],
         wk' \in [Jobs -> Words], pipe' \in [Jobs -> PipeType],
         \A i \in Jobs : Untouched(i) => Untouched(i)',
         \A i \in Jobs : wk'[i] = "launched" => cap'[i].st = "none",
         OutcomeInv', OutcomeKept, DoneKept
  PROVE  TypeInv' /\ Inv'
<1>1. TypeInv'
  BY DEF TypeInv, CallsTyped
<1>2. FreshInv'
  BY FreshJob DEF Inv
<1>3. ResultKept /\ ReplyKept
  BY DEF ResultKept, ReplyKept
<1> QED
  BY <1>1, <1>2, <1>3, KeptIsInv

LEMMA WorkerStartStep ==
  ASSUME TypeInv, Inv, NEW j \in Jobs, WorkerStart(j)
  PROVE  TypeInv' /\ Inv'
<1>1. /\ wk[j] = "launched" /\ cap[j].st = "none" /\ file' = file /\ pipe' = pipe
      /\ UNCHANGED <<call, reply, sessions, last>>
  BY DEF WorkerStart, Inv, FreshInv
<1>2. PICK w \in {"connecting", "gone"} : wk' = [wk EXCEPT ![j] = w]
  BY DEF WorkerStart
<1>3. w \in Words /\ w # "launched" /\ "launched" # "none"
  BY <1>2, WordsAre
<1>4. /\ wk' \in [Jobs -> Words] /\ file' \in [Jobs -> FileType]
      /\ pipe' \in [Jobs -> PipeType] /\ wk'[j] = w
      /\ \A i \in Jobs \ {j} : wk'[i] = wk[i]
  BY <1>1, <1>2, <1>3 DEF TypeInv
<1>5. DoneKept
  BY <1>1, PipeSame, ShrinkKept
<1>6. /\ cap' \in [Jobs -> CapType] /\ \A i \in Jobs \ {j} : cap'[i] = cap[i]
      /\ OutcomeInv' /\ OutcomeKept
  <2>1. CASE StartCapture(j, FALSE)
    BY <1>1, <2>1, Starts
  <2>2. CASE cap' = cap
    BY <1>1, <2>2, OutcomeSame DEF TypeInv
  <2> QED
    BY <2>1, <2>2 DEF WorkerStart
<1>7. \A i \in Jobs : Untouched(i) => i # j
  BY <1>1 DEF Untouched
<1>8. /\ \A i \in Jobs : Untouched(i) => Untouched(i)'
      /\ \A i \in Jobs : wk'[i] = "launched" => cap'[i].st = "none"
  BY <1>3, <1>4, <1>6, <1>7 DEF Untouched, Inv, FreshInv
<1> QED
  BY <1>1, <1>4, <1>5, <1>6, <1>8, StepOfJob

\* The worker goes on; it may ask its capture to stop.
LEMMA WorkerGoes ==
  ASSUME TypeInv, Inv, NEW j \in Jobs, NEW w \in Words, w # "launched",
         wk' = [wk EXCEPT ![j] = w], wk[j] # "none",
         UNCHANGED <<call, reply, sessions, last, file>>,
         cap' = cap \/ Stop(j), pipe' \in [Jobs -> PipeType], DoneKept
  PROVE  TypeInv' /\ Inv'
<1>1. /\ cap' \in [Jobs -> CapType]
      /\ \A i \in Jobs : cap'[i].st = cap[i].st /\ cap'[i].n = cap[i].n
  BY SameCaps
<1>2. OutcomeInv' /\ OutcomeKept
  BY <1>1, OutcomeSame
<1>3. /\ wk' \in [Jobs -> Words] /\ file' \in [Jobs -> FileType]
      /\ wk'[j] = w /\ \A i \in Jobs \ {j} : wk'[i] = wk[i]
  BY DEF TypeInv
<1>4. /\ \A i \in Jobs : Untouched(i) => Untouched(i)'
      /\ \A i \in Jobs : wk'[i] = "launched" => cap'[i].st = "none"
  BY <1>1, <1>3 DEF Untouched, Inv, FreshInv
<1> QED
  BY <1>1, <1>2, <1>3, <1>4, StepOfJob

\* A message from the worker; Done needs a capture that ended well.
LEMMA Says ==
  ASSUME TypeInv, NEW j \in Jobs, NEW m \in {"Started", "Done"},
         m = "Done" => cap[j].st = "ok",
         \/ pipe' = [pipe EXCEPT ![j].down = Append(@, m)]
         \/ pipe' = [pipe EXCEPT ![j] = [@ EXCEPT !.worker = "closed",
                                                   !.down = Append(pipe[j].down, m)]]
  PROVE  pipe' \in [Jobs -> PipeType] /\ DoneKept
<1> DEFINE q == Append(pipe[j].down, m)
           f == [pipe[j] EXCEPT !.worker = "closed", !.down = q]
<1>1. pipe \in [Jobs -> PipeType] /\ m \in Words /\ "closed" \in Words
  BY WordsAre DEF TypeInv
<1>2. pipe[j].down \in Seq(Words)
  BY <1>1 DEF PipeType
<1>3. q \in Seq(Words) /\ Len(q) = Len(pipe[j].down) + 1 /\ q[Len(q)] = m
  BY <1>1, <1>2
<1>4. \A k \in 1 .. Len(q) : k = Len(q) \/ (k \in 1 .. Len(pipe[j].down) /\ q[k] = pipe[j].down[k])
  BY <1>1, <1>2
<1>5. \/ pipe' = [pipe EXCEPT ![j].down = q]
      \/ pipe' = [pipe EXCEPT ![j] = f]
  OBVIOUS
<1> HIDE DEF q
<1>6. /\ [pipe EXCEPT ![j].down = q] \in [Jobs -> PipeType]
      /\ \A i \in Jobs : [pipe EXCEPT ![j].down = q][i].down = IF i = j THEN q ELSE pipe[i].down
  <2>1. [pipe EXCEPT ![j].down = q] \in [Jobs -> PipeType]
    BY <1>1, <1>3, PipeQueues
  <2>2. \A i \in Jobs : [pipe EXCEPT ![j].down = q][i].down = IF i = j THEN q ELSE pipe[i].down
    BY <1>1, <1>3, PipeQueues
  <2> QED
    BY <2>1, <2>2
<1>7. /\ [pipe EXCEPT ![j] = f] \in [Jobs -> PipeType]
      /\ \A i \in Jobs : [pipe EXCEPT ![j] = f][i].down = IF i = j THEN q ELSE pipe[i].down
  <2>1. f \in PipeType
    BY <1>1, <1>3, PipePairs
  <2>2. f.down = q
    BY <1>1 DEF PipeType
  <2> HIDE DEF f
  <2> QED
    BY <1>1, <2>1, <2>2
<1> HIDE DEF f
<1>8. pipe' \in [Jobs -> PipeType]
  BY <1>5, <1>6, <1>7
<1>9. \A i \in Jobs : pipe'[i].down = IF i = j THEN q ELSE pipe[i].down
  BY <1>5, <1>6, <1>7
<1>10. ASSUME NEW i \in Jobs, NEW k \in 1 .. Len(pipe'[i].down), pipe'[i].down[k] = "Done"
       PROVE  cap[i].st = "ok" \/ \E n \in 1 .. Len(pipe[i].down) : pipe[i].down[n] = "Done"
  <2>1. CASE i # j
    BY <1>9, <1>10, <2>1
  <2>2. CASE i = j
    BY <1>3, <1>4, <1>9, <1>10, <2>2
  <2> QED
    BY <2>1, <2>2
<1> QED
  BY <1>8, <1>10 DEF DoneKept

LEMMA WorkerStepKeeps ==
  ASSUME TypeInv, Inv, NEW j \in Jobs, WorkerStep(j)
  PROVE  TypeInv' /\ Inv'
<1>1. pipe \in [Jobs -> PipeType] /\ << >> \in Seq(Words)
  BY DEF TypeInv
<1>2. CASE WorkerStart(j)
  BY <1>2, WorkerStartStep
<1>3. ASSUME NEW w \in {"greeting", "polling", "stopping", "dropping", "gone"},
             wk' = [wk EXCEPT ![j] = w], wk[j] # "none",
             UNCHANGED <<call, reply, sessions, last, file>>, cap' = cap \/ Stop(j),
             pipe' \in [Jobs -> PipeType], DoneKept
      PROVE  TypeInv' /\ Inv'
  <2>1. w \in Words /\ w # "launched"
    BY WordsAre
  <2> QED
    BY <1>3, <2>1, WorkerGoes
<1>4. CASE pipe' = pipe \/ pipe' = [pipe EXCEPT ![j].worker = "open"]
             \/ pipe' = [pipe EXCEPT ![j].worker = "closed"]
  <2>1. "open" \in Words /\ "closed" \in Words
    BY WordsAre
  <2>2. DownsShrink
    BY <1>1, <1>4, <2>1, EndMoves, DownsAreKept, PipeSame
  <2>3. pipe' \in [Jobs -> PipeType] /\ DoneKept
    BY <2>2, ShrinkKept DEF DownsShrink
  <2>4. CASE Connect(j)
    <3>1. PICK w \in {"greeting", "dropping"} : wk' = [wk EXCEPT ![j] = w]
      BY <2>4 DEF Connect
    <3>2. /\ wk[j] # "none" /\ UNCHANGED <<call, reply, sessions, last, file>>
          /\ cap' = cap \/ Stop(j)
      BY <2>4 DEF Connect
    <3> QED
      BY <1>3, <2>3, <3>1, <3>2
  <2>5. CASE SayStarted(j)
    <3>1. PICK w \in {"polling", "dropping"} : wk' = [wk EXCEPT ![j] = w]
      BY <2>5 DEF SayStarted
    <3>2. /\ wk[j] # "none" /\ UNCHANGED <<call, reply, sessions, last, file>>
          /\ cap' = cap \/ Stop(j)
      BY <2>5 DEF SayStarted
    <3> QED
      BY <1>3, <2>3, <3>1, <3>2
  <2>6. CASE Poll(j)
    BY <1>3, <2>3, <2>6 DEF Poll
  <2>7. CASE Report(j) \/ Dropped(j)
    BY <1>3, <2>3, <2>7 DEF Report, Dropped, Leaves
  <2> QED
    BY <1>2, <2>4, <2>5, <2>6, <2>7 DEF WorkerStep
<1>5. CASE SayStarted(j) /\ pipe' = [pipe EXCEPT ![j].down = Append(@, "Started")]
  <2>1. pipe' \in [Jobs -> PipeType] /\ DoneKept
    BY <1>5, Says
  <2>2. PICK w \in {"polling", "dropping"} : wk' = [wk EXCEPT ![j] = w]
    BY <1>5 DEF SayStarted
  <2>3. /\ wk[j] # "none" /\ UNCHANGED <<call, reply, sessions, last, file>>
        /\ cap' = cap \/ Stop(j)
    BY <1>5 DEF SayStarted
  <2> QED
    BY <1>3, <2>1, <2>2, <2>3
<1>6. CASE /\ Report(j) /\ cap[j].st = "ok"
           /\ pipe' = [pipe EXCEPT ![j] = [@ EXCEPT !.worker = "closed",
                                                     !.down = Append(pipe[j].down, "Done")]]
  <2>1. pipe' \in [Jobs -> PipeType] /\ DoneKept
    BY <1>6, Says
  <2> QED
    BY <1>3, <1>6, <2>1 DEF Report, Leaves
<1>7. \/ WorkerStart(j)
      \/ pipe' = pipe \/ pipe' = [pipe EXCEPT ![j].worker = "open"]
      \/ pipe' = [pipe EXCEPT ![j].worker = "closed"]
      \/ SayStarted(j) /\ pipe' = [pipe EXCEPT ![j].down = Append(@, "Started")]
      \/ /\ Report(j) /\ cap[j].st = "ok"
         /\ pipe' = [pipe EXCEPT ![j] = [@ EXCEPT !.worker = "closed",
                                                   !.down = Append(pipe[j].down, "Done")]]
  BY DEF WorkerStep, Connect, SayStarted, Say, Poll, Report, Dropped
<1> QED
  BY <1>2, <1>4, <1>5, <1>6, <1>7

\* A step of the capture thread of a job whose capture is in progress.
LEMMA CaptureGoes ==
  ASSUME TypeInv, Inv, NEW j \in Jobs, cap[j].st \in {"running", "writing"},
         UNCHANGED <<call, reply, sessions, last, pipe, wk>>,
         cap' \in [Jobs -> CapType], file' \in [Jobs -> FileType], cap'[j].st # "none",
         \A i \in Jobs \ {j} : cap'[i] = cap[i] /\ file'[i] = file[i],
         cap'[j].st = "ok" <=> file'[j].kind = "complete",
         cap'[j].st = "ok" => file'[j].n = cap'[j].n
  PROVE  TypeInv' /\ Inv'
<1>1. /\ wk' \in [Jobs -> Words] /\ pipe' \in [Jobs -> PipeType] /\ DoneKept
  BY PipeSame, ShrinkKept DEF TypeInv
<1>2. OutcomeInv' /\ OutcomeKept
  BY DEF Inv, OutcomeInv, OutcomeKept
<1>3. \A i \in Jobs : Untouched(i) => Untouched(i)'
  BY DEF Untouched
<1>4. \A i \in Jobs : wk'[i] = "launched" => cap'[i].st = "none"
  BY DEF Inv, FreshInv
<1> QED
  BY <1>1, <1>2, <1>3, <1>4, StepOfJob

LEMMA CollectStep ==
  ASSUME TypeInv, Inv, NEW j \in Jobs, Collect(j)
  PROVE  TypeInv' /\ Inv'
<1>1. /\ cap[j].st = "running" /\ cap' = [cap EXCEPT ![j].n = @ + 1]
      /\ UNCHANGED <<call, reply, sessions, last, pipe, wk, file>>
  BY DEF Collect
<1>2. cap \in [Jobs -> CapType] /\ file' \in [Jobs -> FileType]
  BY <1>1 DEF TypeInv
<1>3. cap' \in [Jobs -> CapType]
  BY <1>1, <1>2 DEF CapType
<1>4. cap'[j].st = "running" /\ \A i \in Jobs \ {j} : cap'[i] = cap[i]
  BY <1>1, <1>2 DEF CapType
<1> QED
  BY <1>1, <1>2, <1>3, <1>4, CaptureGoes DEF Inv, OutcomeInv

LEMMA LeaveLoopStep ==
  ASSUME TypeInv, Inv, NEW j \in Jobs,
         NEW why \in {"Manual", "Duration", "SizeLimit", "Disconnected"}, LeaveLoop(j, why)
  PROVE  TypeInv' /\ Inv'
<1>1. /\ cap[j].st = "running" /\ UNCHANGED <<call, reply, sessions, last, pipe, wk>>
      /\ cap' = [cap EXCEPT ![j] = [@ EXCEPT !.st = "writing", !.why = why]]
      /\ file' = [file EXCEPT ![j] = [kind |-> "partial", n |-> 0]]
  BY DEF LeaveLoop
<1>2. cap \in [Jobs -> CapType] /\ file \in [Jobs -> FileType]
  BY DEF TypeInv
<1>3. why \in Words /\ "writing" \in Words /\ "partial" \in Words /\ TRUE \in BOOLEAN
  BY WordsAre
<1> DEFINE f == [cap[j] EXCEPT !.st = "writing", !.why = why]
<1>4. f \in CapType /\ f.st = "writing" /\ cap' = [cap EXCEPT ![j] = f]
  <2>1. f \in CapType
    BY <1>2, <1>3, CapPairs
  <2>2. f.st = "writing"
    BY <1>2 DEF CapType
  <2> QED
    BY <1>1, <2>1, <2>2
<1> HIDE DEF f
<1>5. /\ cap' \in [Jobs -> CapType] /\ cap'[j].st = "writing"
      /\ \A i \in Jobs \ {j} : cap'[i] = cap[i]
  BY <1>2, <1>4
<1>6. [kind |-> "partial", n |-> 0] \in FileType
  BY <1>3 DEF FileType
<1>7. /\ file' \in [Jobs -> FileType] /\ file'[j].kind = "partial"
      /\ \A i \in Jobs \ {j} : file'[i] = file[i]
  BY <1>1, <1>2, <1>6
<1> QED
  BY <1>1, <1>5, <1>7, CaptureGoes

LEMMA WriteFileStep ==
  ASSUME TypeInv, Inv, NEW j \in Jobs, WriteFile(j)
  PROVE  TypeInv' /\ Inv'
<1>1. cap[j].st = "writing" /\ UNCHANGED <<call, reply, sessions, last, pipe, wk>>
  BY DEF WriteFile
<1>2. cap \in [Jobs -> CapType] /\ file \in [Jobs -> FileType] /\ cap[j] \in CapType
  BY DEF TypeInv
<1>3. cap[j].n \in Nat /\ "ok" \in Words /\ "failed" \in Words /\ "complete" \in Words
  BY <1>2, WordsAre DEF CapType
<1>4. CASE /\ cap' = [cap EXCEPT ![j].st = "ok"]
           /\ file' = [file EXCEPT ![j] = [kind |-> "complete", n |-> cap[j].n]]
  <2>1. cap' \in [Jobs -> CapType]
    BY <1>2, <1>3, <1>4 DEF CapType
  <2>2. /\ cap'[j].st = "ok" /\ cap'[j].n = cap[j].n
        /\ \A i \in Jobs \ {j} : cap'[i] = cap[i]
    BY <1>2, <1>4 DEF CapType
  <2>3. [kind |-> "complete", n |-> cap[j].n] \in FileType
    BY <1>3 DEF FileType
  <2>4. /\ file' \in [Jobs -> FileType] /\ file'[j] = [kind |-> "complete", n |-> cap[j].n]
        /\ \A i \in Jobs \ {j} : file'[i] = file[i]
    BY <1>2, <1>4, <2>3
  <2> QED
    BY <1>1, <2>1, <2>2, <2>4, CaptureGoes
<1>5. CASE cap' = [cap EXCEPT ![j].st = "failed"] /\ file' = file
  <2>1. cap' \in [Jobs -> CapType]
    BY <1>2, <1>3, <1>5 DEF CapType
  <2>2. /\ cap'[j].st = "failed" /\ \A i \in Jobs \ {j} : cap'[i] = cap[i]
    BY <1>2, <1>5 DEF CapType
  <2> QED
    BY <1>1, <1>2, <1>5, <2>1, <2>2, CaptureGoes DEF Inv, OutcomeInv
<1> QED
  BY <1>4, <1>5 DEF WriteFile

LEMMA SignalStep ==
  ASSUME TypeInv, Inv, NEW j \in Jobs, Signal(j)
  PROVE  TypeInv' /\ Inv'
<1>1. UNCHANGED <<call, reply, sessions, last, cap, file, wk, pipe>>
  BY DEF Signal
<1>2. OutcomeInv' /\ OutcomeKept
  BY <1>1, OutcomeSame
<1>3. DoneKept
  BY <1>1, PipeSame, ShrinkKept
<1> QED
  BY <1>1, <1>2, <1>3, StepOfJob DEF TypeInv, Untouched, Inv, FreshInv

-----------------------------------------------------------------------------
(* The end of the front end, and faults.                                    *)
LEMMA Loses ==
  ASSUME TypeInv, Inv, NEW S, cap' = Lose(S), file' = file
  PROVE  /\ cap' \in [Jobs -> CapType]
         /\ \A i \in Jobs : cap[i].st = "none" => cap'[i].st = "none"
         /\ OutcomeInv' /\ OutcomeKept
<1>1. cap \in [Jobs -> CapType] /\ "lost" \in Words
  BY WordsAre DEF TypeInv
<1>2. ASSUME NEW i \in Jobs
      PROVE  /\ cap'[i] = cap[i] \/ (cap[i].st \in {"running", "writing"}
                                     /\ cap'[i] = [cap[i] EXCEPT !.st = "lost"])
             /\ [cap[i] EXCEPT !.st = "lost"] \in CapType
             /\ [cap[i] EXCEPT !.st = "lost"].st = "lost"
  <2>1. cap[i] \in CapType
    BY <1>1
  <2>2. [cap[i] EXCEPT !.st = "lost"] \in CapType /\ [cap[i] EXCEPT !.st = "lost"].st = "lost"
    BY <1>1, <2>1 DEF CapType
  <2>3. cap'[i] = IF i \in S /\ cap[i].st \in {"running", "writing"}
                  THEN [cap[i] EXCEPT !.st = "lost"] ELSE cap[i]
    BY DEF Lose
  <2> QED
    BY <2>2, <2>3
<1>3. \A i \in Jobs : cap'[i] \in CapType
  BY <1>1, <1>2
<1>4. cap' \in [Jobs -> CapType]
  BY <1>3 DEF Lose
<1>5. \A i \in Jobs : cap'[i] = cap[i] \/
        (cap[i].st \in {"running", "writing"} /\ cap'[i].st = "lost")
  BY <1>2
<1> QED
  BY <1>4, <1>5 DEF Inv, OutcomeInv, OutcomeKept

LEMMA KillWorkerStep ==
  ASSUME TypeInv, Inv, NEW j \in Jobs, KillWorker(j)
  PROVE  TypeInv' /\ Inv'
<1>1. /\ UNCHANGED <<call, reply, sessions, last, file>> /\ wk[j] # "none"
      /\ wk' = [wk EXCEPT ![j] = "gone"] /\ cap' = Lose({j})
      /\ pipe' = pipe \/ pipe' = [pipe EXCEPT ![j].worker = "closed"]
  BY DEF KillWorker
<1>2. "gone" \in Words /\ "closed" \in Words /\ << >> \in Seq(Words)
  BY WordsAre
<1>3. DownsShrink
  BY <1>1, <1>2, EndMoves, DownsAreKept, PipeSame
<1>4. pipe' \in [Jobs -> PipeType] /\ DoneKept
  BY <1>3, ShrinkKept DEF DownsShrink
<1>5. /\ cap' \in [Jobs -> CapType]
      /\ \A i \in Jobs : cap[i].st = "none" => cap'[i].st = "none"
      /\ OutcomeInv' /\ OutcomeKept
  BY <1>1, Loses
<1>6. /\ wk' \in [Jobs -> Words] /\ file' \in [Jobs -> FileType]
      /\ wk'[j] = "gone" /\ \A i \in Jobs \ {j} : wk'[i] = wk[i]
  BY <1>1, <1>2 DEF TypeInv
<1>7. /\ \A i \in Jobs : Untouched(i) => Untouched(i)'
      /\ \A i \in Jobs : wk'[i] = "launched" => cap'[i].st = "none"
  BY <1>1, <1>5, <1>6 DEF Untouched, Inv, FreshInv
<1> QED
  BY <1>1, <1>4, <1>5, <1>6, <1>7, StepOfJob

\* Ends of pipes are closed; what the workers said stays.
LEMMA Closes ==
  ASSUME TypeInv, NEW S, pipe' = [j \in Jobs |-> IF j \in S THEN Closed(pipe, j)[j] ELSE pipe[j]]
  PROVE  pipe' \in [Jobs -> PipeType] /\ DoneKept
<1>1. pipe \in [Jobs -> PipeType]
  BY DEF TypeInv
<1>2. ASSUME NEW j \in Jobs
      PROVE  pipe'[j] \in PipeType /\ pipe'[j].down = pipe[j].down
  <2>1. Closed(pipe, j) \in [Jobs -> PipeType] /\ Closed(pipe, j)[j].down = pipe[j].down
    BY <1>1, CloseType
  <2>2. pipe'[j] = IF j \in S THEN Closed(pipe, j)[j] ELSE pipe[j]
    OBVIOUS
  <2> QED
    BY <1>1, <2>1, <2>2
<1>3. DownsKept
  BY <1>2 DEF DownsKept
<1> QED
  BY <1>3, DownsAreKept, ShrinkKept DEF DownsKept

LEMMA CloseAllKeeps ==
  ASSUME TypeInv, CloseAll
  PROVE  pipe' \in [Jobs -> PipeType] /\ DoneKept
<1> DEFINE S == {j \in Jobs : pipe[j].parent # "none"}
<1>1. pipe' = [j \in Jobs |-> IF j \in S THEN Closed(pipe, j)[j] ELSE pipe[j]]
  <2>1. \A j \in Jobs : (IF pipe[j].parent = "none" THEN pipe[j] ELSE Closed(pipe, j)[j]) =
                        (IF j \in S THEN Closed(pipe, j)[j] ELSE pipe[j])
    OBVIOUS
  <2> QED
    BY <2>1 DEF CloseAll
<1> HIDE DEF S
<1> QED
  BY <1>1, Closes

LEMMA DisconnectStep ==
  ASSUME TypeInv, Inv, Disconnect
  PROVE  TypeInv' /\ Inv'
<1>1. UNCHANGED <<call, reply, last, file, wk>> /\ sessions' = << >>
  BY DEF Disconnect
<1>2. pipe' \in [Jobs -> PipeType] /\ DoneKept
  <2> DEFINE S == {j \in Jobs : ~elevated /\ Linked(j)}
  <2>1. pipe' = [j \in Jobs |-> IF j \in S THEN Closed(pipe, j)[j] ELSE pipe[j]]
    BY DEF Disconnect
  <2> HIDE DEF S
  <2> QED
    BY <2>1, Closes
<1>3. cap \in [Jobs -> CapType] /\ file \in [Jobs -> FileType]
  BY DEF TypeInv
<1>4. \A i \in Jobs : /\ cap'[i] \in CapType
                      /\ cap'[i].st = cap[i].st /\ cap'[i].n = cap[i].n
  <2> SUFFICES ASSUME NEW i \in Jobs
               PROVE  cap'[i] \in CapType /\ cap'[i].st = cap[i].st /\ cap'[i].n = cap[i].n
    OBVIOUS
  <2>1. cap[i] \in CapType
    BY <1>3
  <2>2. /\ [cap[i] EXCEPT !.stop = TRUE] \in CapType
        /\ [cap[i] EXCEPT !.stop = TRUE].st = cap[i].st
        /\ [cap[i] EXCEPT !.stop = TRUE].n = cap[i].n
    BY <2>1 DEF CapType
  <2>3. cap'[i] = IF elevated /\ Linked(i) THEN [cap[i] EXCEPT !.stop = TRUE] ELSE cap[i]
    BY DEF Disconnect
  <2> QED
    BY <2>1, <2>2, <2>3
<1>5. cap' \in [Jobs -> CapType]
  BY <1>4 DEF Disconnect
<1>6. OutcomeInv' /\ OutcomeKept
  BY <1>1, <1>4, OutcomeSame
<1>7. << >> \in Seq(SessionType)
  OBVIOUS
<1>8. TypeInv'
  BY <1>1, <1>2, <1>5, <1>7 DEF TypeInv, CallsTyped
<1>9. /\ \A i \in Jobs : Untouched(i) => Untouched(i)'
      /\ \A i \in Jobs : wk'[i] = "launched" => cap'[i].st = "none"
  BY <1>1, <1>4 DEF Untouched, Inv, FreshInv
<1>10. FreshInv'
  BY <1>1, <1>9, FreshJob DEF Inv
<1>11. ResultKept /\ ReplyKept
  BY <1>1 DEF ResultKept, ReplyKept
<1> QED
  BY <1>2, <1>6, <1>8, <1>10, <1>11, KeptIsInv

LEMMA ExitStep ==
  ASSUME TypeInv, Inv, Exit
  PROVE  TypeInv' /\ Inv'
<1>1. UNCHANGED <<call, reply, sessions, last, cap, file, wk>>
  BY DEF Exit
<1>2. pipe' \in [Jobs -> PipeType] /\ DoneKept
  BY CloseAllKeeps DEF Exit
<1>3. OutcomeInv' /\ OutcomeKept
  BY <1>1, OutcomeSame
<1> QED
  BY <1>1, <1>2, <1>3, StepOfJob DEF TypeInv, Untouched, Inv, FreshInv

\* The front end dies with its calls, and its captures with it.
LEMMA KillStep ==
  ASSUME TypeInv, Inv, Kill
  PROVE  TypeInv' /\ Inv'
<1>1. /\ UNCHANGED <<reply, last, file, wk>> /\ sessions' = << >>
      /\ call' = [c \in Calls |-> Free]
      /\ cap' = cap \/ cap' = Lose(Jobs)
  BY DEF Kill
<1>2. pipe' \in [Jobs -> PipeType] /\ DoneKept
  BY CloseAllKeeps DEF Kill
<1>3. /\ cap' \in [Jobs -> CapType]
      /\ \A i \in Jobs : cap[i].st = "none" => cap'[i].st = "none"
      /\ OutcomeInv' /\ OutcomeKept
  <2>1. CASE cap' = cap
    BY <1>1, <2>1, OutcomeSame DEF TypeInv
  <2>2. CASE cap' = Lose(Jobs)
    BY <1>1, <2>2, Loses
  <2> QED
    BY <1>1, <2>1, <2>2
<1>4. << >> \in Seq(SessionType)
  OBVIOUS
<1>5. CallsTyped' /\ \A c \in Calls : call'[c].pc = "idle"
  <2>1. Free \in CallType /\ Free.pc = "idle"
    BY FreeType DEF Free
  <2>2. call' = [c \in Calls |-> Free]
    BY DEF Kill
  <2> HIDE DEF Free
  <2>3. call' \in [Calls -> CallType]
    BY <2>1, <2>2
  <2>4. \A c \in Calls : call'[c].pc = "idle"
    BY <2>1, <2>2
  <2> QED
    BY <2>3, <2>4 DEF CallsTyped
<1>6. TypeInv'
  BY <1>1, <1>2, <1>3, <1>4, <1>5 DEF TypeInv
<1>7. FreshInv'
  <2>1. \A c \in Calls : ~Launches(c)'
    BY <1>5 DEF Launches
  <2> QED
    BY <1>1, <1>3, <2>1 DEF Inv, FreshInv, Untouched
<1>8. ResultKept /\ ReplyKept
  BY <1>1, <1>5 DEF ResultKept, ReplyKept
<1> QED
  BY <1>2, <1>3, <1>6, <1>7, <1>8, KeptIsInv

-----------------------------------------------------------------------------
LEMMA InvInit == Init => TypeInv /\ Inv
<1> SUFFICES ASSUME Init PROVE TypeInv /\ Inv
  OBVIOUS
<1>1. CallsTyped /\ \A c \in Calls : call[c].pc = "idle"
  <2>1. Free \in CallType /\ Free.pc = "idle"
    BY FreeType DEF Free
  <2> QED
    BY <2>1 DEF CallsTyped, Init
<1>2. "none" \in Words /\ "absent" \in Words /\ << >> \in Seq(Words) /\ << >> \in Seq(SessionType)
  BY WordsAre
<1>3. /\ cap \in [Jobs -> CapType] /\ \A j \in Jobs : cap[j].st = "none"
  BY <1>2 DEF Init, CapType
<1>4. file \in [Jobs -> FileType] /\ \A j \in Jobs : file[j].kind = "absent"
  BY <1>2 DEF Init, FileType
<1>5. pipe \in [Jobs -> PipeType] /\ \A j \in Jobs : pipe[j].down = << >>
  BY <1>2 DEF Init, PipeType
<1>6. /\ wk \in [Jobs -> Words] /\ \A j \in Jobs : wk[j] = "none"
  BY <1>2 DEF Init
<1>7. reply \in ReplyType /\ ~reply.ok
  BY FreeType DEF Init, Refused
<1>8. last \in 0 .. MaxJobs /\ sessions \in Seq(SessionType)
  BY <1>2, WorkerAssumption DEF Init
<1>9. TypeInv
  BY <1>1, <1>3, <1>4, <1>5, <1>6, <1>7, <1>8 DEF TypeInv
<1>10. FreshInv
  BY <1>1, <1>3, <1>6 DEF FreshInv, Untouched, Launches
<1>11. OutcomeInv /\ DoneInv /\ ResultInv /\ ReplyInv
  BY <1>1, <1>3, <1>4, <1>5, <1>7 DEF OutcomeInv, DoneInv, ResultInv, ReplyInv
<1> QED
  BY <1>9, <1>10, <1>11 DEF Inv

LEMMA InvStep == TypeInv /\ Inv /\ [Next]_vars => TypeInv' /\ Inv'
<1> SUFFICES ASSUME TypeInv, Inv, [Next]_vars PROVE TypeInv' /\ Inv'
  OBVIOUS
<1>1. ASSUME NEW c \in Calls, CallStep(c) PROVE TypeInv' /\ Inv'
  <2>1. CASE call[c].op \in {"capture", "start"} /\ (LaunchInProcess(c) \/ LaunchWorker(c))
    <3>1. Launches(c)
      BY <2>1 DEF Launches, LaunchInProcess, LaunchWorker
    <3> QED
      BY <2>1, <3>1, LaunchInProcessStep, LaunchWorkerStep
  <2>2. CASE Accept(c) \/ Greet(c) \/ ReadDone(c)
    BY <2>2, AcceptStep, GreetStep, ReadDoneStep
  <2>3. CASE Count(c) \/ Join(c) \/ Settle(c)
    BY <2>3, CountStep, JoinStep, SettleStep
  <2>4. CASE StopBackend(c) \/ Analyze(c)
    BY <2>4, StopBackendStep, AnalyzeStep
  <2> QED
    BY <1>1, <2>1, <2>2, <2>3, <2>4 DEF CallStep
<1>2. ASSUME NEW j \in Jobs, LeaveStopped(j) \/ LeaveDuration(j) \/ LeaveEarly(j)
      PROVE  TypeInv' /\ Inv'
  <2>1. PICK why \in {"Manual", "Duration", "SizeLimit", "Disconnected"} : LeaveLoop(j, why)
    BY <1>2 DEF LeaveStopped, LeaveDuration, LeaveEarly
  <2> QED
    BY <2>1, LeaveLoopStep
<1>3. CASE UNCHANGED vars
  <2>1. UNCHANGED <<call, reply, sessions, last, cap, file, wk, pipe>>
    BY <1>3 DEF vars
  <2>2. OutcomeInv' /\ OutcomeKept /\ DoneKept
    BY <2>1, OutcomeSame, PipeSame, ShrinkKept
  <2> QED
    BY <2>1, <2>2, StepOfJob DEF TypeInv, Untouched, Inv, FreshInv
<1> QED
  BY <1>1, <1>2, <1>3, CaptureToolStep, SessionCall, WorkerStepKeeps, SignalStep,
     CollectStep, WriteFileStep, KillWorkerStep, DisconnectStep, ExitStep, KillStep
     DEF Next

\* Whatever a capture, stop_capture or analysis call answered (Settle, Analyze,
\* ReadDone, Count, Join), the file it names is on disk, complete, and holds as
\* many events as the answer says, for any number of calls, jobs and deaths.
THEOREM AnswersAreTrue == Spec => []RepliesTrue
<1>1. ReplyInv => RepliesTrue
  BY DEF ReplyInv, RepliesTrue, IsComplete
<1> QED
  BY <1>1, InvInit, InvStep, PTL DEF Spec, Inv

=============================================================================
