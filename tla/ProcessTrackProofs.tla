------------------------- MODULE ProcessTrackProofs -------------------------
(***************************************************************************)
(* What the process list of the driver keeps, for any threads, process     *)
(* identifiers and bounds.                                                 *)
(***************************************************************************)
EXTENDS ProcessTrack, TLAPS, FiniteSetTheorems, SequenceTheorems

PCs == {"find", "insert", "check", "fill", "query", "log", "parent", "release",
        "start", "return"}
OpKinds == {"idle", "create", "exit", "file", "paging", "image", "thread"}

\* Details are none, or name the entry of the parent.
Details == {{}} \union {{s} : s \in Nat}

EntryType == [pid : Pids, life : Nat, listed : BOOLEAN, freed : BOOLEAN,
              refs : Int, init : BOOLEAN, full : Details,
              exit : {"no", "held", "queued"}]
FrameType == [pid : Pids, sync : BOOLEAN, pc : PCs, mine : Nat, seq : Nat,
              full : Details, again : BOOLEAN]
OpType == [kind : OpKinds, pid : Pids, about : Pids,
           step : {"ref", "child", "log", "queue"}, parent : Nat]

SystemTyped ==
  /\ life \in [Pids -> 0 .. MaxLife]
  /\ status \in [Pids -> {"free", "born", "alive", "exiting", "gone"}]
  /\ inherited \in [Pids -> Pids]

DriverTyped ==
  /\ entry \in Seq(EntryType)
  /\ Len(entry) <= MaxSeq
  /\ logLock \in Threads \union {Free}
  /\ op \in [Threads -> OpType]
  /\ freeing \in [Threads -> Nat]
  /\ begun \in 0 .. MaxOps

StacksTyped == stack \in [Threads -> Seq(FrameType)]

ClientTyped ==
  /\ table \in [1 .. MaxSeq -> Seq({"init", "create"})]
  /\ cache \in [seq : 0 .. MaxSeq, rec : Nat]
  /\ cache.seq # 0 => cache.rec \in 1 .. Len(table[cache.seq])

TypeInv == SystemTyped /\ DriverTyped /\ StacksTyped /\ ClientTyped

HistoryTyped ==
  exits \in [1 .. MaxSeq -> Nat] /\ failed \subseteq Pids /\ kept \subseteq 0 .. MaxSeq

\* The entries that other threads can have seen.  One that is allocated and
\* neither inserted nor freed is known to its thread only.
Known == {s \in Seqs : entry[s].listed \/ entry[s].freed}

EntriesOK ==
  \A s \in Seqs :
    /\ ~(entry[s].listed /\ entry[s].freed)
    /\ entry[s].full \subseteq Known \union {0}
    /\ s \notin Known => /\ entry[s].refs = 1
                         /\ ~entry[s].init
                         /\ entry[s].full = {}
                         /\ entry[s].exit = "no"

\* What a call points to is in K, and its fields fit where it is.
FrameOK(f, K) ==
  /\ f.seq \in K \union {0}
  /\ f.full \subseteq K \union {0}
  /\ f.pc \notin {"find", "insert", "return"} => f.seq # 0
  /\ f.pc = "insert" <=> f.mine # 0

\* Only a call with a fill in progress has another above it.
FramesOK ==
  \A t \in Threads : \A i \in 1 .. Len(stack[t]) :
    /\ FrameOK(stack[t][i], Known)
    /\ stack[t][i].pc = "parent" <=> i < Len(stack[t])

\* An entry that is to be inserted is that of one call, for its process.
MineOK ==
  \A t \in Threads : \A i \in 1 .. Len(stack[t]) :
    stack[t][i].mine # 0 =>
      /\ stack[t][i].mine \in Seqs \ Known
      /\ entry[stack[t][i].mine].pid = stack[t][i].pid
      /\ \A u \in Threads : \A j \in 1 .. Len(stack[u]) :
           stack[u][j].mine = stack[t][i].mine => u = t /\ j = i

OpsOK ==
  \A t \in Threads :
    /\ op[t].kind = "idle" <=> stack[t] = << >>
    /\ op[t].parent \in Known \union {0}
    /\ freeing[t] \in Known \union {0}
    /\ op[t].kind = "exit" /\ op[t].step # "ref" =>
         /\ Len(stack[t]) = 1
         /\ stack[t][1].pc = "return"
         /\ stack[t][1].seq # 0

ListInv == EntriesOK /\ FramesOK /\ MineOK /\ OpsOK

\* OneEntryPerPid without the count.
OneOfEach ==
  \A s, r \in Seqs :
    entry[s].listed /\ entry[r].listed /\ entry[s].pid = entry[r].pid => s = r

Inv == TypeInv /\ ListInv /\ OneOfEach /\ InitLogged /\ KnownAfterInit

FillPcs == {"query", "log", "parent", "release"}

\* The first search of a call, and the parking of the details, whether there
\* is memory or not.
Finds(t) == Find(t) \/ FindFails(t)
Parks(t) == CreatePark(t) \/ ParkFails(t)

\* An operation that logs nothing, whether it gives its reference back or not.
Skips(t) == Skip(t) \/ SkipUnmarked(t)

-----------------------------------------------------------------------------
(* Stacks.                                                                 *)

\* Front and Last as this module needs them.
LEMMA FrontLast ==
  ASSUME NEW T, NEW S \in Seq(T), S # << >>
  PROVE  /\ Len(S) \in Nat \ {0}
         /\ Last(S) = S[Len(S)] /\ Last(S) \in T
         /\ Front(S) \in Seq(T)
         /\ Len(Front(S)) = Len(S) - 1
         /\ \A i \in 1 .. Len(S) - 1 : Front(S)[i] = S[i]
<1>1. Len(S) \in Nat \ {0}
  BY EmptySeq
<1>2. Last(S) = S[Len(S)] /\ Last(S) \in T
  BY <1>1, LenProperties DEF Last
<1>3. \A i \in 1 .. Len(S) - 1 : S[i] \in T
  BY <1>1, ElementOfSeq
<1>4. /\ Front(S) \in Seq(T)
      /\ Len(Front(S)) = IF 1 <= Len(S) - 1 THEN Len(S) - 1 - 1 + 1 ELSE 0
      /\ \A i \in 1 .. Len(S) - 1 - 1 + 1 : Front(S)[i] = S[1 + i - 1]
  BY <1>1, <1>3, SubSeqProperties DEF Front
<1>5. Len(Front(S)) = Len(S) - 1
  <2>1. ASSUME NEW n \in Nat \ {0}
        PROVE  (IF 1 <= n - 1 THEN n - 1 - 1 + 1 ELSE 0) = n - 1
    OBVIOUS
  <2> QED
    BY <2>1, <1>1, <1>4, Zenon
<1>6. ASSUME NEW i \in 1 .. Len(S) - 1 PROVE Front(S)[i] = S[i]
  <2>1. i \in 1 .. Len(S) - 1 - 1 + 1 /\ 1 + i - 1 = i
    BY <1>1
  <2> QED
    BY <2>1, <1>4
<1> QED
  BY <1>1, <1>2, <1>4, <1>5, <1>6

LEMMA TopReplaced ==
  ASSUME NEW T, NEW S \in Seq(T), S # << >>, NEW f \in T
  PROVE  /\ Append(Front(S), f) \in Seq(T)
         /\ Len(Append(Front(S), f)) = Len(S)
         /\ Append(Front(S), f)[Len(S)] = f
         /\ \A i \in 1 .. Len(S) - 1 : Append(Front(S), f)[i] = S[i]
<1> DEFINE R == Append(Front(S), f)
<1>1. /\ Len(S) \in Nat \ {0}
      /\ Front(S) \in Seq(T)
      /\ Len(Front(S)) = Len(S) - 1
      /\ \A i \in 1 .. Len(S) - 1 : Front(S)[i] = S[i]
  BY FrontLast
<1>2. /\ R \in Seq(T)
      /\ Len(R) = Len(Front(S)) + 1
      /\ \A i \in 1 .. Len(Front(S)) : R[i] = Front(S)[i]
      /\ R[Len(Front(S)) + 1] = f
  BY <1>1, AppendProperties
<1>3. Len(Front(S)) + 1 = Len(S)
  BY <1>1
<1> HIDE DEF R
<1>4. /\ R \in Seq(T)
      /\ Len(R) = Len(S)
      /\ R[Len(S)] = f
      /\ \A i \in 1 .. Len(S) - 1 : R[i] = S[i]
  BY <1>1, <1>2, <1>3
<1> QED
  BY <1>4 DEF R

\* A step of thread t keeps the first n calls of its stack and puts those of S
\* in the place of the others.
Restacked(t, n, S) ==
  /\ stack' \in [Threads -> Seq(FrameType)]
  /\ \A u \in Threads : u # t => stack'[u] = stack[u]
  /\ n \in Nat
  /\ n # 0 => n < Len(stack[t]) /\ S # << >>
  /\ Len(stack'[t]) = n + Len(S)
  /\ \A i \in 1 .. n : stack'[t][i] = stack[t][i]
  /\ \A i \in 1 .. Len(S) : stack'[t][n + i] = S[i]

\* Where a call of the new stacks comes from.
LEMMA FrameOfStep ==
  ASSUME StacksTyped, NEW t \in Threads, NEW n, NEW S \in Seq(FrameType),
         Restacked(t, n, S),
         NEW u \in Threads, NEW i \in 1 .. Len(stack'[u])
  PROVE  \/ /\ i \in 1 .. Len(stack[u])
            /\ stack'[u][i] = stack[u][i]
            /\ u = t => i <= n /\ n < Len(stack[t])
         \/ u = t /\ \E k \in 1 .. Len(S) : i = n + k /\ stack'[u][i] = S[k]
<1>1. Len(stack[u]) \in Nat /\ Len(stack[t]) \in Nat /\ Len(S) \in Nat /\ n \in Nat
  BY LenProperties DEF StacksTyped, Restacked
<1>2. CASE u # t
  BY <1>1, <1>2 DEF Restacked
<1>3. CASE u = t /\ i <= n
  BY <1>1, <1>3 DEF Restacked
<1>4. CASE u = t /\ ~(i <= n)
  <2>1. i - n \in 1 .. Len(S) /\ i = n + (i - n)
    BY <1>1, <1>4 DEF Restacked
  <2> QED
    BY <2>1, <1>4 DEF Restacked
<1> QED
  BY <1>2, <1>3, <1>4

LEMMA Topped ==
  ASSUME StacksTyped, NEW t \in Threads, stack[t] # << >>,
         NEW g \in FrameType, SetTop(t, g)
  PROVE  Restacked(t, Len(stack[t]) - 1, <<g>>)
<1> DEFINE R == Append(Front(stack[t]), g)
<1>1. stack' = [stack EXCEPT ![t] = R]
  BY DEF SetTop, WithTop
<1>2. stack[t] \in Seq(FrameType) /\ Len(stack[t]) \in Nat \ {0}
  BY EmptySeq DEF StacksTyped
<1>3. /\ R \in Seq(FrameType)
      /\ Len(R) = Len(stack[t])
      /\ R[Len(stack[t])] = g
      /\ \A i \in 1 .. Len(stack[t]) - 1 : R[i] = stack[t][i]
  BY <1>2, TopReplaced
<1> HIDE DEF R
<1>4. stack'[t] = R /\ \A u \in Threads : u # t => stack'[u] = stack[u]
  BY <1>1 DEF StacksTyped
<1>5. stack' \in [Threads -> Seq(FrameType)]
  BY <1>1, <1>3 DEF StacksTyped
<1>6. <<g>> # << >> /\ Len(<<g>>) = 1 /\ \A i \in 1 .. 1 : <<g>>[i] = g /\ i = 1
  OBVIOUS
<1>7. Len(stack[t]) - 1 + 1 = Len(stack[t])
  BY <1>2
<1> QED
  BY <1>2, <1>3, <1>4, <1>5, <1>6, <1>7 DEF Restacked

LEMMA PushedOn ==
  ASSUME StacksTyped, NEW t \in Threads, stack[t] # << >>,
         NEW g \in FrameType, NEW c \in FrameType,
         stack' = [stack EXCEPT ![t] = Append(Append(Front(@), g), c)]
  PROVE  Restacked(t, Len(stack[t]) - 1, <<g, c>>)
<1> DEFINE R == Append(Front(stack[t]), g)
           Q == Append(R, c)
<1>1. stack' = [stack EXCEPT ![t] = Q]
  OBVIOUS
<1>2. stack[t] \in Seq(FrameType) /\ Len(stack[t]) \in Nat \ {0}
  BY EmptySeq DEF StacksTyped
<1>3. /\ R \in Seq(FrameType)
      /\ Len(R) = Len(stack[t])
      /\ R[Len(stack[t])] = g
      /\ \A i \in 1 .. Len(stack[t]) - 1 : R[i] = stack[t][i]
  BY <1>2, TopReplaced
<1> HIDE DEF R
<1>4. /\ Q \in Seq(FrameType)
      /\ Len(Q) = Len(R) + 1
      /\ \A i \in 1 .. Len(R) : Q[i] = R[i]
      /\ Q[Len(R) + 1] = c
  BY <1>3, AppendProperties
<1> HIDE DEF Q
<1>5. stack'[t] = Q /\ \A u \in Threads : u # t => stack'[u] = stack[u]
  BY <1>1 DEF StacksTyped
<1>6. stack' \in [Threads -> Seq(FrameType)]
  BY <1>1, <1>4 DEF StacksTyped
<1>7. /\ <<g, c>> # << >>
      /\ Len(<<g, c>>) = 2
      /\ <<g, c>>[1] = g /\ <<g, c>>[2] = c
      /\ \A i \in 1 .. 2 : i = 1 \/ i = 2
  OBVIOUS
<1>8. /\ Len(stack[t]) - 1 \in Nat
      /\ Len(stack[t]) - 1 < Len(stack[t])
      /\ Len(stack'[t]) = Len(stack[t]) - 1 + 2
  BY <1>2, <1>3, <1>4, <1>5
<1>9. ASSUME NEW i \in 1 .. Len(stack[t]) - 1
      PROVE  stack'[t][i] = stack[t][i]
  <2>1. i \in 1 .. Len(R)
    BY <1>2, <1>3
  <2> QED
    BY <2>1, <1>3, <1>4, <1>5
<1>10. /\ stack'[t][Len(stack[t]) - 1 + 1] = g
       /\ stack'[t][Len(stack[t]) - 1 + 2] = c
  <2>1. /\ Len(stack[t]) - 1 + 1 = Len(R) /\ Len(R) \in 1 .. Len(R)
        /\ Len(stack[t]) - 1 + 2 = Len(R) + 1
    BY <1>2, <1>3
  <2> QED
    BY <2>1, <1>3, <1>4, <1>5
<1> QED
  BY <1>5, <1>6, <1>7, <1>8, <1>9, <1>10 DEF Restacked

LEMMA PoppedTo ==
  ASSUME StacksTyped, NEW t \in Threads, Len(stack[t]) > 1,
         NEW g \in FrameType,
         stack' = [stack EXCEPT ![t] = Append(Front(Front(@)), g)]
  PROVE  Restacked(t, Len(stack[t]) - 2, <<g>>)
<1> DEFINE S == Front(stack[t])
           R == Append(Front(S), g)
<1>1. stack' = [stack EXCEPT ![t] = R]
  OBVIOUS
<1>2. stack[t] \in Seq(FrameType) /\ stack[t] # << >>
  BY EmptySeq DEF StacksTyped
<1>3. /\ Len(stack[t]) \in Nat
      /\ S \in Seq(FrameType)
      /\ Len(S) = Len(stack[t]) - 1
      /\ \A i \in 1 .. Len(stack[t]) - 1 : S[i] = stack[t][i]
  BY <1>2, FrontLast
<1>4. S # << >>
  BY <1>3, EmptySeq
<1>5. /\ R \in Seq(FrameType)
      /\ Len(R) = Len(S)
      /\ R[Len(S)] = g
      /\ \A i \in 1 .. Len(S) - 1 : R[i] = S[i]
  BY <1>3, <1>4, TopReplaced, SMTT(30)
<1> HIDE DEF R, S
<1>6. stack'[t] = R /\ \A u \in Threads : u # t => stack'[u] = stack[u]
  BY <1>1 DEF StacksTyped
<1>7. stack' \in [Threads -> Seq(FrameType)]
  BY <1>1, <1>5 DEF StacksTyped
<1>8. /\ Len(stack[t]) - 2 \in Nat
      /\ Len(stack[t]) - 2 < Len(stack[t])
      /\ Len(stack'[t]) = Len(stack[t]) - 2 + 1
  BY <1>3, <1>5, <1>6
<1>9. ASSUME NEW i \in 1 .. Len(stack[t]) - 2
      PROVE  stack'[t][i] = stack[t][i]
  <2>1. i \in 1 .. Len(stack[t]) - 1 /\ i \in 1 .. Len(S) - 1
    BY <1>3
  <2> QED
    BY <2>1, <1>3, <1>5, <1>6
<1>10. stack'[t][Len(stack[t]) - 2 + 1] = g
  <2>1. Len(stack[t]) - 2 + 1 = Len(S)
    BY <1>3
  <2> QED
    BY <2>1, <1>5, <1>6
<1>11. <<g>> # << >> /\ Len(<<g>>) = 1 /\ \A i \in 1 .. 1 : <<g>>[i] = g /\ i = 1
  OBVIOUS
<1> QED
  BY <1>6, <1>7, <1>8, <1>9, <1>10, <1>11 DEF Restacked

LEMMA Restarted ==
  ASSUME StacksTyped, NEW t \in Threads, NEW S \in Seq(FrameType),
         stack' = [stack EXCEPT ![t] = S]
  PROVE  Restacked(t, 0, S)
<1>1. stack'[t] = S /\ \A u \in Threads : u # t => stack'[u] = stack[u]
  BY DEF StacksTyped
<1>2. stack' \in [Threads -> Seq(FrameType)]
  BY DEF StacksTyped
<1>3. Len(S) \in Nat
  BY LenProperties
<1> QED
  BY <1>1, <1>2, <1>3 DEF Restacked

-----------------------------------------------------------------------------
(* Steps on frames, whatever they do to the list.                          *)

LEMMA FramesKept ==
  ASSUME StacksTyped, FramesOK, NEW t \in Threads, NEW n, NEW S \in Seq(FrameType),
         Restacked(t, n, S), Known \subseteq Known',
         \A k \in 1 .. Len(S) : FrameOK(S[k], Known') /\ (S[k].pc = "parent" <=> k < Len(S))
  PROVE  FramesOK'
<1> SUFFICES ASSUME NEW u \in Threads, NEW i \in 1 .. Len(stack'[u])
             PROVE  /\ FrameOK(stack'[u][i], Known')
                    /\ stack'[u][i].pc = "parent" <=> i < Len(stack'[u])
  BY DEF FramesOK
<1>1. CASE /\ i \in 1 .. Len(stack[u])
           /\ stack'[u][i] = stack[u][i]
           /\ u = t => i <= n /\ n < Len(stack[t])
  <2>1. /\ FrameOK(stack[u][i], Known)
        /\ stack[u][i].pc = "parent" <=> i < Len(stack[u])
    BY <1>1 DEF FramesOK
  <2>2. FrameOK(stack'[u][i], Known')
    BY <1>1, <2>1 DEF FrameOK
  <2>3. i < Len(stack'[u]) <=> i < Len(stack[u])
    <3>1. CASE u # t
      BY <3>1 DEF Restacked
    <3>2. CASE u = t
      <4>1. Len(S) \in Nat \ {0} /\ n \in Nat /\ Len(stack[t]) \in Nat
        BY <1>1, <3>2, EmptySeq, LenProperties DEF Restacked, StacksTyped
      <4> QED
        BY <4>1, <1>1, <3>2 DEF Restacked
    <3> QED
      BY <3>1, <3>2
  <2> QED
    BY <1>1, <2>1, <2>2, <2>3
<1>2. CASE u = t /\ \E k \in 1 .. Len(S) : i = n + k /\ stack'[u][i] = S[k]
  <2>1. PICK k \in 1 .. Len(S) : i = n + k /\ stack'[u][i] = S[k]
    BY <1>2
  <2>2. Len(S) \in Nat /\ n \in Nat /\ Len(stack'[t]) = n + Len(S)
    BY LenProperties DEF Restacked
  <2>3. i < Len(stack'[u]) <=> k < Len(S)
    BY <1>2, <2>1, <2>2
  <2> QED
    BY <2>1, <2>3
<1> QED
  BY <1>1, <1>2, FrameOfStep

\* The entries to be inserted stay so, but for that of the call at the top.
LEMMA MineKept ==
  ASSUME StacksTyped, MineOK, NEW t \in Threads, NEW n, NEW S \in Seq(FrameType),
         Restacked(t, n, S),
         \A k \in 1 .. Len(S) : S[k].mine = 0,
         \A s \in Seqs \ Known :
           \/ s \in Seqs' \ Known' /\ entry'[s].pid = entry[s].pid
           \/ stack[t] # << >> /\ Top(t).mine = s
  PROVE  MineOK'
<1>1. ASSUME NEW u \in Threads, NEW i \in 1 .. Len(stack'[u]),
             stack'[u][i].mine # 0
      PROVE  /\ i \in 1 .. Len(stack[u])
             /\ stack'[u][i] = stack[u][i]
             /\ stack[u][i].mine \in Seqs' \ Known'
             /\ entry'[stack[u][i].mine].pid = entry[stack[u][i].mine].pid
  <2>1. /\ i \in 1 .. Len(stack[u])
        /\ stack'[u][i] = stack[u][i]
        /\ u = t => i <= n /\ n < Len(stack[t])
    BY <1>1, FrameOfStep
  <2>2. stack[u][i].mine \in Seqs \ Known
    BY <1>1, <2>1 DEF MineOK
  <2>3. ASSUME stack[t] # << >>, Top(t).mine = stack[u][i].mine
        PROVE  FALSE
    <3>1. Len(stack[t]) \in Nat \ {0} /\ Top(t) = stack[t][Len(stack[t])]
      BY <2>3, FrontLast DEF Top, StacksTyped
    <3>2. n \in Nat
      BY DEF Restacked
    <3>3. t = u /\ Len(stack[t]) = i
      BY <1>1, <2>1, <2>3, <3>1 DEF MineOK
    <3> QED
      BY <2>1, <3>1, <3>2, <3>3
  <2> QED
    BY <2>1, <2>2, <2>3
<1> SUFFICES ASSUME NEW u \in Threads, NEW i \in 1 .. Len(stack'[u]),
                    stack'[u][i].mine # 0
             PROVE  /\ stack'[u][i].mine \in Seqs' \ Known'
                    /\ entry'[stack'[u][i].mine].pid = stack'[u][i].pid
                    /\ \A v \in Threads : \A j \in 1 .. Len(stack'[v]) :
                         stack'[v][j].mine = stack'[u][i].mine => v = u /\ j = i
  BY DEF MineOK
<1>2. /\ i \in 1 .. Len(stack[u])
      /\ stack'[u][i] = stack[u][i]
      /\ stack[u][i].mine \in Seqs' \ Known'
      /\ entry'[stack[u][i].mine].pid = entry[stack[u][i].mine].pid
  BY <1>1
<1>3. /\ entry[stack[u][i].mine].pid = stack[u][i].pid
      /\ \A v \in Threads : \A j \in 1 .. Len(stack[v]) :
           stack[v][j].mine = stack[u][i].mine => v = u /\ j = i
  BY <1>2 DEF MineOK
<1>4. ASSUME NEW v \in Threads, NEW j \in 1 .. Len(stack'[v]),
             stack'[v][j].mine = stack'[u][i].mine
      PROVE  v = u /\ j = i
  <2>1. j \in 1 .. Len(stack[v]) /\ stack'[v][j] = stack[v][j]
    BY <1>1, <1>4
  <2> QED
    BY <2>1, <1>2, <1>3, <1>4
<1> QED
  BY <1>2, <1>3, <1>4

\* The step of a thread that changes its own operation only.
LEMMA OpsKept ==
  ASSUME OpsOK, Known \subseteq Known', NEW t \in Threads,
         \A u \in Threads :
           /\ u # t => stack'[u] = stack[u] /\ op'[u] = op[u]
           /\ freeing'[u] \in Known' \union {0},
         op'[t].kind = "idle" <=> stack'[t] = << >>,
         op'[t].parent \in Known' \union {0},
         op'[t].kind = "exit" /\ op'[t].step # "ref" =>
           /\ Len(stack'[t]) = 1
           /\ stack'[t][1].pc = "return"
           /\ stack'[t][1].seq # 0
  PROVE  OpsOK'
BY DEF OpsOK

-----------------------------------------------------------------------------
(* Steps on the list.                                                      *)

LEMMA FunctionIsSeq ==
  ASSUME NEW T, NEW n \in Nat, NEW f \in [1 .. n -> T]
  PROVE  f \in Seq(T) /\ Len(f) = n
OBVIOUS

LEMMA EntryTyped ==
  ASSUME DriverTyped, NEW s \in Seqs
  PROVE  entry[s] \in EntryType /\ s \in Nat \ {0} /\ Len(entry) \in Nat
BY ElementOfSeq, LenProperties DEF DriverTyped, Seqs

LEMMA CountFields ==
  ASSUME NEW e \in EntryType
  PROVE  /\ Held(e) \in EntryType /\ Less(e) \in EntryType
         /\ Held(e).refs = e.refs + 1 /\ Less(e).refs = e.refs - 1
         /\ Held(e).pid = e.pid /\ Less(e).pid = e.pid
         /\ Held(e).life = e.life /\ Less(e).life = e.life
         /\ Held(e).listed = e.listed /\ Less(e).listed = e.listed
         /\ Held(e).freed = e.freed /\ Less(e).freed = e.freed
         /\ Held(e).init = e.init /\ Less(e).init = e.init
         /\ Held(e).full = e.full /\ Less(e).full = e.full
         /\ Held(e).exit = e.exit /\ Less(e).exit = e.exit
<1>1. Held(e) \in EntryType /\ Less(e) \in EntryType
  BY DEF Held, Less, EntryType
<1> QED
  BY <1>1 DEF Held, Less, EntryType

LEMMA WithDoes ==
  ASSUME DriverTyped, NEW s \in Seqs, NEW e \in EntryType
  PROVE  /\ With(s, e) \in Seq(EntryType)
         /\ Len(With(s, e)) = Len(entry)
         /\ With(s, e)[s] = e
         /\ \A r \in Seqs : r # s => With(s, e)[r] = entry[r]
<1>1. s \in 1 .. Len(entry) /\ entry \in Seq(EntryType)
  BY DEF Seqs, DriverTyped
<1> QED
  BY <1>1, ExceptSeq DEF With, Seqs

LEMMA DerefsDoes ==
  ASSUME DriverTyped, NEW t \in Threads, NEW s \in Seqs \union {0},
         NEW ents \in Seq(EntryType), Len(ents) = Len(entry),
         Derefs(t, s, ents)
  PROVE  /\ entry' \in Seq(EntryType)
         /\ Len(entry') = Len(entry)
         /\ \A r \in Seqs : entry'[r] = IF r = s THEN Less(ents[r]) ELSE ents[r]
         /\ freeing' \in [Threads -> Nat]
         /\ \A u \in Threads : freeing'[u] \in {freeing[u], s}
         /\ \A u \in Threads : freeing'[u] # freeing[u] =>
              u = t /\ s # 0 /\ ents[s].refs = 1
<1>1. Len(entry) \in Nat /\ Seqs = 1 .. Len(entry)
  BY LenProperties DEF DriverTyped, Seqs
<1>2. \A r \in Seqs : ents[r] \in EntryType
  BY <1>1, ElementOfSeq
<1>3. \A r \in Seqs : Less(ents[r]) \in EntryType
  BY <1>2, CountFields
<1> DEFINE F == [r \in Seqs |-> IF r = s THEN Less(ents[r]) ELSE ents[r]]
<1>4. F \in [1 .. Len(entry) -> EntryType]
  BY <1>1, <1>2, <1>3
<1>5. entry' = F
  BY DEF Derefs
<1>6. \A r \in Seqs : F[r] = IF r = s THEN Less(ents[r]) ELSE ents[r]
  OBVIOUS
<1> HIDE DEF F
<1>7. F \in Seq(EntryType) /\ Len(F) = Len(entry)
  BY <1>1, <1>4, FunctionIsSeq
<1>8. s \in Nat
  BY <1>1
<1>9. /\ freeing' \in [Threads -> Nat]
      /\ \A u \in Threads : freeing'[u] \in {freeing[u], s}
      /\ \A u \in Threads : freeing'[u] # freeing[u] =>
              u = t /\ s # 0 /\ ents[s].refs = 1
  <2>1. CASE s # 0 /\ ents[s].refs = 1
    BY <1>8, <2>1 DEF Derefs, DriverTyped
  <2>2. CASE ~(s # 0 /\ ents[s].refs = 1)
    BY <2>2 DEF Derefs, DriverTyped
  <2> QED
    BY <2>1, <2>2
<1> QED
  BY <1>5, <1>6, <1>7, <1>9

\* A step that leaves the list with the same entries, of the same processes.
Touched ==
  /\ entry' \in Seq(EntryType)
  /\ Len(entry') = Len(entry)
  /\ \A s \in Seqs :
       /\ entry'[s].pid = entry[s].pid
       /\ entry'[s].life = entry[s].life
       /\ entry'[s].listed = entry[s].listed
       /\ entry'[s].freed = entry[s].freed
       /\ entry'[s].full \subseteq Known \union {0}
       /\ s \notin Known => entry'[s] = entry[s]

LEMMA TouchedKeeps ==
  ASSUME Touched
  PROVE  /\ Seqs' = Seqs
         /\ Known' = Known
         /\ EntriesOK => EntriesOK'
         /\ \A p : Listed(p)' = Listed(p)
         /\ \A s \in Seqs \ Known :
              s \in Seqs' \ Known' /\ entry'[s].pid = entry[s].pid
<1>1. Seqs' = Seqs
  BY DEF Touched, Seqs
<1>2. Known' = Known
  BY <1>1 DEF Touched, Known
<1>3. EntriesOK => EntriesOK'
  BY <1>1, <1>2 DEF Touched, EntriesOK
<1>4. \A p : Listed(p)' = Listed(p)
  BY <1>1 DEF Touched, Listed
<1>5. \A s \in Seqs \ Known :
              s \in Seqs' \ Known' /\ entry'[s].pid = entry[s].pid
  BY <1>1, <1>2 DEF Touched
<1> QED
  BY <1>1, <1>2, <1>3, <1>4, <1>5

LEMMA UnchangedTouches ==
  ASSUME DriverTyped, EntriesOK, UNCHANGED entry
  PROVE  Touched
BY DEF DriverTyped, EntriesOK, Touched

LEMMA WithTouches ==
  ASSUME DriverTyped, EntriesOK, NEW s \in Known, NEW e \in EntryType,
         e.pid = entry[s].pid, e.life = entry[s].life,
         e.listed = entry[s].listed, e.freed = entry[s].freed,
         e.full \subseteq Known \union {0},
         entry' = With(s, e)
  PROVE  Touched
<1>1. s \in Seqs
  BY DEF Known
<1>2. /\ entry' \in Seq(EntryType)
      /\ Len(entry') = Len(entry)
      /\ entry'[s] = e
      /\ \A r \in Seqs : r # s => entry'[r] = entry[r]
  BY <1>1, WithDoes
<1> QED
  BY <1>2 DEF EntriesOK, Touched

LEMMA DerefsTouch ==
  ASSUME DriverTyped, EntriesOK, NEW t \in Threads, NEW s \in Known \union {0},
         NEW ents \in Seq(EntryType), Len(ents) = Len(entry),
         \A r \in Seqs :
           /\ ents[r].pid = entry[r].pid
           /\ ents[r].life = entry[r].life
           /\ ents[r].listed = entry[r].listed
           /\ ents[r].freed = entry[r].freed
           /\ ents[r].full \subseteq Known \union {0}
           /\ r \notin Known => ents[r] = entry[r],
         Derefs(t, s, ents)
  PROVE  /\ Touched
         /\ freeing' \in [Threads -> Nat]
         /\ \A u \in Threads : freeing'[u] \in {freeing[u], s}
<1>1. s \in Seqs \union {0}
  BY DEF Known
<1>2. /\ entry' \in Seq(EntryType)
      /\ Len(entry') = Len(entry)
      /\ \A r \in Seqs : entry'[r] = IF r = s THEN Less(ents[r]) ELSE ents[r]
      /\ freeing' \in [Threads -> Nat]
      /\ \A u \in Threads : freeing'[u] \in {freeing[u], s}
  BY <1>1, DerefsDoes
<1>3. ASSUME NEW r \in Seqs
      PROVE  /\ entry'[r].pid = entry[r].pid
             /\ entry'[r].life = entry[r].life
             /\ entry'[r].listed = entry[r].listed
             /\ entry'[r].freed = entry[r].freed
             /\ entry'[r].full \subseteq Known \union {0}
             /\ r \notin Known => entry'[r] = entry[r]
  <2>1. ents[r] \in EntryType
    BY ElementOfSeq, LenProperties DEF DriverTyped, Seqs
  <2>2. r = s => r \in Known
    BY EntryTyped
  <2> QED
    BY <1>2, <2>1, <2>2, CountFields
<1> QED
  BY <1>2, <1>3 DEF Touched

LEMMA DerefTouches ==
  ASSUME DriverTyped, EntriesOK, NEW t \in Threads, NEW s \in Known \union {0},
         Deref(t, s)
  PROVE  /\ Touched
         /\ freeing' \in [Threads -> Nat]
         /\ \A u \in Threads : freeing'[u] \in {freeing[u], s}
         /\ \A r \in Seqs : entry'[r] = IF r = s THEN Less(entry[r]) ELSE entry[r]
         /\ \A r \in Seqs : entry'[r].init = entry[r].init
<1>1. Derefs(t, s, entry) /\ entry \in Seq(EntryType) /\ s \in Seqs \union {0}
  BY DEF Deref, DriverTyped, Known
<1>2. \A r \in Seqs : entry[r].full \subseteq Known \union {0}
  BY DEF EntriesOK
<1>3. \A r \in Seqs : entry'[r] = IF r = s THEN Less(entry[r]) ELSE entry[r]
  BY <1>1 DEF Derefs
<1>4. \A r \in Seqs : entry'[r].init = entry[r].init
  BY <1>3, EntryTyped, CountFields
<1> QED
  BY <1>1, <1>2, <1>3, <1>4, DerefsTouch

\* What the guard At says of the call at the top.
LEMMA AtTop ==
  ASSUME Inv, NEW t \in Threads, NEW pc, At(t, pc)
  PROVE  /\ stack[t] # << >>
         /\ Len(stack[t]) \in Nat \ {0}
         /\ Top(t) = stack[t][Len(stack[t])]
         /\ Top(t) \in FrameType
         /\ Top(t).pc = pc
         /\ FrameOK(Top(t), Known)
         /\ pc \notin {"find", "insert", "return"} =>
              Top(t).seq \in Known /\ Top(t).seq \in Seqs
         /\ freeing[t] = 0
<1>1. stack[t] # << >> /\ Top(t).pc = pc /\ freeing[t] = 0
  BY DEF At, Running
<1>2. /\ Len(stack[t]) \in Nat \ {0}
      /\ Top(t) = stack[t][Len(stack[t])]
      /\ Top(t) \in FrameType
  BY <1>1, FrontLast DEF Inv, TypeInv, StacksTyped, Top
<1>3. FrameOK(Top(t), Known)
  BY <1>2 DEF Inv, ListInv, FramesOK
<1> QED
  BY <1>1, <1>2, <1>3 DEF FrameOK, Known

\* InitLogged over any step: what is new is being filled, and what is no longer
\* being filled is logged or not marked.
LEMMA LoggedKept ==
  ASSUME StacksTyped, InitLogged, NEW t \in Threads, NEW n, NEW S \in Seq(FrameType),
         Restacked(t, n, S),
         \A s \in Seqs' : entry'[s].listed /\ entry'[s].init =>
           \/ s \in Seqs /\ entry[s].listed /\ entry[s].init
           \/ \E k \in 1 .. Len(S) : S[k].pc \in FillPcs /\ S[k].seq = s,
         \A i \in 1 .. Len(stack[t]) : stack[t][i].pc \in FillPcs =>
           \/ i <= n
           \/ \E k \in 1 .. Len(S) : S[k].pc \in FillPcs /\ S[k].seq = stack[t][i].seq
           \/ ~entry'[stack[t][i].seq].init
           \/ table'[stack[t][i].seq] # << >>,
         \A s \in Seqs : table[s] # << >> => table'[s] # << >>
  PROVE  InitLogged'
<1> SUFFICES ASSUME NEW s \in Seqs', entry'[s].listed, entry'[s].init,
                    table'[s] = << >>
             PROVE  Filling(s)'
  BY DEF InitLogged
<1>1. ASSUME NEW k \in 1 .. Len(S), S[k].pc \in FillPcs, S[k].seq = s
      PROVE  Filling(s)'
  <2>1. n + k \in 1 .. Len(stack'[t]) /\ stack'[t][n + k] = S[k]
    BY LenProperties DEF Restacked
  <2> QED
    BY <2>1, <1>1 DEF Filling, FillPcs
<1>2. CASE s \in Seqs /\ entry[s].listed /\ entry[s].init
  <2>1. Filling(s)
    BY <1>2 DEF InitLogged
  <2>0. PICK u \in Threads : \E i \in 1 .. Len(stack[u]) :
          stack[u][i].seq = s /\ stack[u][i].pc \in FillPcs
    BY <2>1 DEF Filling, FillPcs
  <2>2. PICK i \in 1 .. Len(stack[u]) :
          stack[u][i].seq = s /\ stack[u][i].pc \in FillPcs
    BY <2>0
  <2>3. CASE u # t
    BY <2>2, <2>3 DEF Restacked, Filling, FillPcs
  <2>4. CASE u = t /\ i <= n
    <3>1. i \in 1 .. Len(stack'[t]) /\ stack'[t][i] = stack[t][i]
      BY <2>4, LenProperties DEF Restacked
    <3> QED
      BY <2>2, <2>4, <3>1 DEF Filling, FillPcs
  <2>5. CASE u = t /\ ~(i <= n)
    BY <1>1, <2>2, <2>5
  <2> QED
    BY <2>3, <2>4, <2>5
<1> QED
  BY <1>1, <1>2

\* A list that keeps its entries keeps one for each process.
LEMMA OneKept ==
  ASSUME Touched, OneOfEach
  PROVE  OneOfEach'
BY TouchedKeeps DEF Touched, OneOfEach

\* The step of a call that goes on, in a list that keeps its entries.
LEMMA TopStepKeeps ==
  ASSUME Inv, NEW t \in Threads, stack[t] # << >>, Top(t).pc # "return",
         NEW g \in FrameType, SetTop(t, g),
         FrameOK(g, Known), g.pc # "parent", g.mine = 0,
         Touched, op' = op,
         \A u \in Threads : freeing'[u] \in Known \union {0},
         \A s \in Seqs : entry'[s].init =>
           entry[s].init \/ (g.pc = "query" /\ g.seq = s),
         Top(t).pc \in FillPcs =>
           \/ (g.pc \in FillPcs /\ g.seq = Top(t).seq)
           \/ ~entry'[Top(t).seq].init
           \/ table'[Top(t).seq] # << >>,
         \A s \in Seqs : table[s] # << >> => table'[s] # << >>
  PROVE  ListInv' /\ OneOfEach' /\ InitLogged' /\ StacksTyped'
<1> DEFINE n == Len(stack[t]) - 1
           S == <<g>>
<1>1. /\ Len(stack[t]) \in Nat \ {0}
      /\ Top(t) = stack[t][Len(stack[t])]
  BY FrontLast DEF Inv, TypeInv, StacksTyped, Top
<1>2. Restacked(t, n, S)
  BY Topped DEF Inv, TypeInv
<1>3. S \in Seq(FrameType) /\ Len(S) = 1 /\ \A k \in 1 .. Len(S) : k = 1 /\ S[k] = g
  OBVIOUS
<1>4. /\ Seqs' = Seqs
      /\ Known' = Known
      /\ EntriesOK'
      /\ \A s \in Seqs \ Known :
           s \in Seqs' \ Known' /\ entry'[s].pid = entry[s].pid
  BY TouchedKeeps DEF Inv, ListInv
<1> HIDE DEF S
<1>5. FramesOK'
  <2>1. \A k \in 1 .. Len(S) : FrameOK(S[k], Known') /\ (S[k].pc = "parent" <=> k < Len(S))
    BY <1>3, <1>4
  <2> QED
    BY <1>2, <1>3, <1>4, <2>1, FramesKept DEF Inv, ListInv, TypeInv
<1>6. MineOK'
  <2>1. \A s \in Seqs \ Known : s \in Seqs' \ Known' /\ entry'[s].pid = entry[s].pid
    BY <1>4
  <2>2. \A k \in 1 .. Len(S) : S[k].mine = 0
    BY <1>3
  <2> QED
    BY <1>2, <1>3, <2>1, <2>2, MineKept DEF Inv, ListInv, TypeInv
<1>7. OpsOK'
  <2>1. stack'[t] # << >>
    BY <1>1, <1>2, <1>3 DEF Restacked
  <2>2. op[t].kind # "idle" /\ op[t].parent \in Known \union {0}
    BY DEF Inv, ListInv, OpsOK
  <2>3. ~(op[t].kind = "exit" /\ op[t].step # "ref")
    BY <1>1 DEF Inv, ListInv, OpsOK
  <2>4. \A u \in Threads : u # t => stack'[u] = stack[u]
    BY <1>2 DEF Restacked
  <2> QED
    BY <1>4, <2>1, <2>2, <2>3, <2>4, OpsKept DEF Inv, ListInv
<1>8. StacksTyped'
  BY <1>2 DEF Restacked, StacksTyped
<1>9. InitLogged'
  <2>1. 1 \in 1 .. Len(S) /\ S[1] = g
    BY <1>3
  <2>2. ASSUME NEW s \in Seqs', entry'[s].listed, entry'[s].init
        PROVE  \/ s \in Seqs /\ entry[s].listed /\ entry[s].init
               \/ \E k \in 1 .. Len(S) : S[k].pc \in FillPcs /\ S[k].seq = s
    BY <1>4, <2>1, <2>2 DEF Touched, FillPcs
  <2>3. ASSUME NEW i \in 1 .. Len(stack[t]), stack[t][i].pc \in FillPcs
        PROVE  \/ i <= n
               \/ \E k \in 1 .. Len(S) : S[k].pc \in FillPcs /\ S[k].seq = stack[t][i].seq
               \/ ~entry'[stack[t][i].seq].init
               \/ table'[stack[t][i].seq] # << >>
    <3>1. i <= n \/ i = Len(stack[t])
      BY <1>1
    <3> QED
      BY <1>1, <2>1, <2>3, <3>1
  <2> HIDE DEF n
  <2> QED
    BY <1>2, <1>3, <2>2, <2>3, LoggedKept DEF Inv, TypeInv
<1> QED
  BY <1>4, <1>5, <1>6, <1>7, <1>8, <1>9, OneKept DEF ListInv, Inv

-----------------------------------------------------------------------------
(* What each action makes of the call at the top.                          *)

LEMMA PcFields ==
  ASSUME NEW f \in FrameType, NEW x \in PCs
  PROVE  LET g == [f EXCEPT !.pc = x] IN
         /\ g \in FrameType
         /\ g.pc = x /\ g.pid = f.pid /\ g.sync = f.sync /\ g.mine = f.mine
         /\ g.seq = f.seq /\ g.full = f.full /\ g.again = f.again
BY DEF FrameType

LEMMA FullFields ==
  ASSUME NEW f \in FrameType, NEW x \in PCs, NEW d \in Details
  PROVE  LET g == [f EXCEPT !.pc = x, !.full = d] IN
         /\ g \in FrameType
         /\ g.pc = x /\ g.pid = f.pid /\ g.sync = f.sync /\ g.mine = f.mine
         /\ g.seq = f.seq /\ g.full = d /\ g.again = f.again
BY DEF FrameType

LEMMA FilledFields ==
  ASSUME NEW f \in FrameType
  PROVE  /\ Filled(f) \in FrameType
         /\ Filled(f).pc = IF f.again THEN "check" ELSE "return"
         /\ Filled(f).pid = f.pid /\ Filled(f).sync = f.sync
         /\ Filled(f).mine = f.mine /\ Filled(f).seq = f.seq
         /\ Filled(f).full = {} /\ Filled(f).again = FALSE
<1>1. {} \in Details /\ "check" \in PCs /\ "return" \in PCs
  BY DEF Details, PCs
<1> QED
  BY <1>1 DEF Filled, FrameType

LEMMA DescribedFields ==
  ASSUME NEW f \in FrameType
  PROVE  /\ Described(f) \in FrameType
         /\ Described(f).pc \in {"start", "check", "return"}
         /\ Described(f).pc = "start" => f.full # {}
         /\ Described(f).pid = f.pid /\ Described(f).sync = f.sync
         /\ Described(f).mine = f.mine /\ Described(f).seq = f.seq
         /\ Described(f).full \in {{}, f.full}
<1>1. CASE f.full = {}
  BY <1>1, FilledFields DEF Described
<1>2. CASE f.full # {}
  <2>1. "start" \in PCs
    BY DEF PCs
  <2> QED
    BY <1>2, <2>1, PcFields DEF Described
<1> QED
  BY <1>1, <1>2

LEMMA CallFields ==
  ASSUME NEW p \in Pids, NEW b \in BOOLEAN
  PROVE  /\ Call(p, b) \in FrameType
         /\ Call(p, b).pid = p /\ Call(p, b).pc = "find"
         /\ Call(p, b).mine = 0 /\ Call(p, b).seq = 0
         /\ Call(p, b).full = {} /\ Call(p, b).sync = b
<1>1. {} \in Details /\ "find" \in PCs
  BY DEF Details, PCs
<1> QED
  BY <1>1 DEF Call, FrameType

LEMMA ParentOfDetails ==
  ASSUME NEW d \in Details
  PROVE  /\ d = {} => ParentOf(d) = 0
         /\ d # {} => d = {ParentOf(d)}
         /\ ParentOf(d) \in Nat
BY DEF Details, ParentOf

-----------------------------------------------------------------------------
(* The actions of a call.                                                  *)

LEMMA ClientStays ==
  ASSUME ClientTyped, KnownAfterInit, UNCHANGED uservars
  PROVE  ClientTyped' /\ KnownAfterInit'
BY DEF ClientTyped, KnownAfterInit, uservars

LEMMA CheckKeeps ==
  ASSUME Inv, NEW t \in Threads, Check(t), UNCHANGED begun
  PROVE  Inv'
<1> DEFINE f == Top(t)
           x == IF entry[f.seq].full # {} \/ (f.sync /\ ~entry[f.seq].init)
                THEN "fill" ELSE "return"
           g == [f EXCEPT !.pc = x]
<1>1. /\ stack[t] # << >> /\ f \in FrameType /\ f.pc = "check"
      /\ FrameOK(f, Known)
  BY AtTop DEF Check
<1>2. SetTop(t, g)
  BY DEF Check, Goto
<1>3. x \in PCs /\ x \in {"fill", "return"}
  BY DEF PCs
<1> HIDE DEF x
<1>4. /\ g \in FrameType
      /\ g.pc = x /\ g.pid = f.pid /\ g.sync = f.sync /\ g.mine = f.mine
      /\ g.seq = f.seq /\ g.full = f.full
  BY <1>1, <1>3, PcFields
<1> HIDE DEF g, f
<1>5. FrameOK(g, Known) /\ g.mine = 0
  BY <1>1, <1>3, <1>4 DEF FrameOK
<1>6. Touched
  BY UnchangedTouches DEF Check, Inv, TypeInv, ListInv
<1>7. UNCHANGED <<osvars, entry, logLock, op, freeing, begun, uservars>>
  BY DEF Check
<1>8. \A u \in Threads : freeing'[u] \in Known \union {0}
  BY <1>7 DEF Inv, ListInv, OpsOK
<1>9. ListInv' /\ OneOfEach' /\ InitLogged' /\ StacksTyped'
  BY <1>1, <1>2, <1>3, <1>4, <1>5, <1>6, <1>7, <1>8, TopStepKeeps
     DEF f, FillPcs, uservars
<1> QED
  BY <1>7, <1>9, ClientStays
     DEF Inv, TypeInv, SystemTyped, DriverTyped, osvars

LEMMA FillStartKeeps ==
  ASSUME Inv, NEW t \in Threads, FillStart(t), UNCHANGED begun
  PROVE  Inv'
<1> DEFINE f == Top(t)
           g == [f EXCEPT !.pc = "query"]
           e == [entry[f.seq] EXCEPT !.init = TRUE]
<1>1. /\ stack[t] # << >> /\ f \in FrameType /\ f.pc = "fill"
      /\ FrameOK(f, Known) /\ f.seq \in Known /\ f.seq \in Seqs
  BY AtTop DEF FillStart
<1>2. SetTop(t, g)
  BY DEF FillStart, Goto
<1>3. /\ g \in FrameType
      /\ g.pc = "query" /\ g.pid = f.pid /\ g.sync = f.sync /\ g.mine = f.mine
      /\ g.seq = f.seq /\ g.full = f.full
  BY <1>1, PcFields DEF PCs
<1>4. entry' = With(f.seq, e)
  BY DEF FillStart
<1>5. /\ e \in EntryType
      /\ e.pid = entry[f.seq].pid /\ e.life = entry[f.seq].life
      /\ e.listed = entry[f.seq].listed /\ e.freed = entry[f.seq].freed
      /\ e.full = entry[f.seq].full
  <2>1. entry[f.seq] \in EntryType
    BY <1>1, EntryTyped DEF Inv, TypeInv
  <2> QED
    BY <2>1 DEF EntryType
<1> HIDE DEF g, f, e
<1>6. FrameOK(g, Known) /\ g.mine = 0
  BY <1>1, <1>3 DEF FrameOK
<1>7. Touched
  <2>1. e.full \subseteq Known \union {0}
    BY <1>1, <1>5 DEF Inv, ListInv, EntriesOK
  <2> QED
    BY <1>1, <1>4, <1>5, <2>1, WithTouches DEF Inv, TypeInv, ListInv
<1>8. UNCHANGED <<osvars, logLock, op, freeing, begun, uservars>>
  BY DEF FillStart
<1>9. \A u \in Threads : freeing'[u] \in Known \union {0}
  BY <1>8 DEF Inv, ListInv, OpsOK
<1>10. \A s \in Seqs : s # f.seq => entry'[s] = entry[s]
  BY <1>1, <1>4, <1>5, WithDoes DEF Inv, TypeInv
<1>11. ListInv' /\ OneOfEach' /\ InitLogged' /\ StacksTyped'
  <2>1. \A s \in Seqs : entry'[s].init =>
          entry[s].init \/ (g.pc = "query" /\ g.seq = s)
    BY <1>3, <1>10
  <2>2. \A s \in Seqs : table[s] # << >> => table'[s] # << >>
    BY <1>8 DEF uservars
  <2>3. Top(t).pc \notin FillPcs /\ Top(t).pc # "return"
    BY <1>1 DEF f, FillPcs
  <2> QED
    BY <1>1, <1>2, <1>3, <1>6, <1>7, <1>8, <1>9, <2>1, <2>2, <2>3, TopStepKeeps
<1> QED
  BY <1>7, <1>8, <1>11, ClientStays
     DEF Inv, TypeInv, SystemTyped, DriverTyped, Touched, osvars

LEMMA FillFailsKeeps ==
  ASSUME Inv, NEW t \in Threads, FillFails(t), UNCHANGED begun
  PROVE  Inv'
<1> DEFINE f == Top(t)
           g == Filled(f)
           e == [entry[f.seq] EXCEPT !.init = FALSE]
<1>1. /\ stack[t] # << >> /\ f \in FrameType /\ f.pc = "query"
      /\ FrameOK(f, Known) /\ f.seq \in Known /\ f.seq \in Seqs
  BY AtTop DEF FillFails
<1>2. SetTop(t, g)
  BY DEF FillFails
<1>3. /\ g \in FrameType /\ g.pc \in {"check", "return"}
      /\ g.mine = f.mine /\ g.seq = f.seq /\ g.full = {}
  BY <1>1, FilledFields
<1>4. entry' = With(f.seq, e)
  BY DEF FillFails
<1>5. /\ e \in EntryType /\ e.init = FALSE
      /\ e.pid = entry[f.seq].pid /\ e.life = entry[f.seq].life
      /\ e.listed = entry[f.seq].listed /\ e.freed = entry[f.seq].freed
      /\ e.full = entry[f.seq].full
  <2>1. entry[f.seq] \in EntryType
    BY <1>1, EntryTyped DEF Inv, TypeInv
  <2> QED
    BY <2>1 DEF EntryType
<1> HIDE DEF g, f, e
<1>6. FrameOK(g, Known) /\ g.mine = 0
  BY <1>1, <1>3 DEF FrameOK
<1>7. Touched
  <2>1. e.full \subseteq Known \union {0}
    BY <1>1, <1>5 DEF Inv, ListInv, EntriesOK
  <2> QED
    BY <1>1, <1>4, <1>5, <2>1, WithTouches DEF Inv, TypeInv, ListInv
<1>8. UNCHANGED <<osvars, logLock, op, freeing, begun, uservars>>
  BY DEF FillFails
<1>9. \A u \in Threads : freeing'[u] \in Known \union {0}
  BY <1>8 DEF Inv, ListInv, OpsOK
<1>10. /\ entry'[f.seq] = e
       /\ \A s \in Seqs : s # f.seq => entry'[s] = entry[s]
  BY <1>1, <1>4, <1>5, WithDoes DEF Inv, TypeInv
<1>11. ListInv' /\ OneOfEach' /\ InitLogged' /\ StacksTyped'
  <2>1. \A s \in Seqs : entry'[s].init => entry[s].init
    BY <1>5, <1>10
  <2>2. \A s \in Seqs : table[s] # << >> => table'[s] # << >>
    BY <1>8 DEF uservars
  <2>3. ~entry'[Top(t).seq].init /\ Top(t).pc # "return"
    BY <1>1, <1>5, <1>10 DEF f
  <2> QED
    BY <1>1, <1>2, <1>3, <1>6, <1>7, <1>8, <1>9, <2>1, <2>2, <2>3, TopStepKeeps
<1> QED
  BY <1>7, <1>8, <1>11, ClientStays
     DEF Inv, TypeInv, SystemTyped, DriverTyped, Touched, osvars

LEMMA FillTakeKeeps ==
  ASSUME Inv, NEW t \in Threads, FillTake(t), UNCHANGED begun
  PROVE  Inv'
<1> DEFINE f == Top(t)
           d == entry[f.seq].full
           g == [f EXCEPT !.pc = "log", !.full = d]
           e == [entry[f.seq] EXCEPT !.full = {}]
<1>1. /\ stack[t] # << >> /\ f \in FrameType /\ f.pc = "query"
      /\ FrameOK(f, Known) /\ f.seq \in Known /\ f.seq \in Seqs
  BY AtTop DEF FillTake
<1>2. SetTop(t, g)
  BY DEF FillTake
<1>3. entry[f.seq] \in EntryType
  BY <1>1, EntryTyped DEF Inv, TypeInv
<1>4. d \in Details /\ "log" \in PCs /\ {} \in Details
  BY <1>3 DEF EntryType, PCs, Details
<1>6. entry' = With(f.seq, e)
  BY DEF FillTake
<1>8. d \subseteq Known \union {0}
  BY <1>1 DEF Inv, ListInv, EntriesOK
<1> HIDE DEF f, d
<1>5. /\ g \in FrameType /\ g.pc = "log"
      /\ g.mine = f.mine /\ g.seq = f.seq /\ g.full = d
  BY <1>1, <1>4, FullFields, ZenonT(40)
<1>7. /\ e \in EntryType /\ e.init = entry[f.seq].init
      /\ e.pid = entry[f.seq].pid /\ e.life = entry[f.seq].life
      /\ e.listed = entry[f.seq].listed /\ e.freed = entry[f.seq].freed
      /\ e.full = {}
  BY <1>3, <1>4 DEF EntryType
<1> HIDE DEF g, e
<1>9. FrameOK(g, Known) /\ g.mine = 0
  BY <1>1, <1>5, <1>8 DEF FrameOK
<1>10. Touched
  BY <1>1, <1>6, <1>7, WithTouches DEF Inv, TypeInv, ListInv
<1>11. UNCHANGED <<osvars, logLock, op, freeing, begun, uservars>>
  BY DEF FillTake
<1>12. \A u \in Threads : freeing'[u] \in Known \union {0}
  BY <1>11 DEF Inv, ListInv, OpsOK
<1>13. /\ entry'[f.seq] = e
       /\ \A s \in Seqs : s # f.seq => entry'[s] = entry[s]
  BY <1>1, <1>6, <1>7, WithDoes DEF Inv, TypeInv
<1>14. ListInv' /\ OneOfEach' /\ InitLogged' /\ StacksTyped'
  <2>1. \A s \in Seqs : entry'[s].init => entry[s].init
    BY <1>7, <1>13
  <2>2. \A s \in Seqs : table[s] # << >> => table'[s] # << >>
    BY <1>11 DEF uservars
  <2>3. g.pc \in FillPcs /\ g.seq = Top(t).seq /\ Top(t).pc # "return" /\ g.pc # "parent"
    BY <1>1, <1>5 DEF f, FillPcs
  <2> QED
    BY <1>1, <1>2, <1>5, <1>9, <1>10, <1>11, <1>12, <2>1, <2>2, <2>3, TopStepKeeps
<1> QED
  BY <1>10, <1>11, <1>14, ClientStays
     DEF Inv, TypeInv, SystemTyped, DriverTyped, Touched, osvars

\* An event that is built keeps the cache within the table; one whose process
\* has a record is built with one.
LEMMA EmitKeeps ==
  ASSUME ClientTyped, NEW kind, NEW s \in 0 .. MaxSeq,
         NEW tab \in [1 .. MaxSeq -> Seq({"init", "create"})],
         \A r \in 1 .. MaxSeq : Len(table[r]) <= Len(tab[r]),
         Emit(kind, s, tab), table' = tab
  PROVE  ClientTyped' /\ KnownAfterInit'
<1> DEFINE c == Cached(tab, s)
<1>1. \A r \in 1 .. MaxSeq : Len(tab[r]) \in Nat /\ Len(table[r]) \in Nat
  BY LenProperties DEF ClientTyped
<1>2. cache' = c
  BY DEF Emit
<1>3. CASE cache.seq = s \/ s = 0 \/ tab[s] = << >>
  <2>1. c = cache
    BY <1>3 DEF Cached
  <2>2. ClientTyped'
    <3>1. cache.seq # 0 => cache.rec \in 1 .. Len(tab[cache.seq])
      BY <1>1 DEF ClientTyped
    <3> QED
      BY <1>2, <2>1, <3>1 DEF ClientTyped
  <2>3. KnownAfterInit'
    <3>1. CASE s # 0 /\ cache.seq = s
      <4>1. built'.rec = cache.rec /\ cache.rec # 0
        BY <2>1, <3>1 DEF Emit, ClientTyped
      <4> QED
        BY <4>1 DEF KnownAfterInit
    <3>2. CASE s = 0
      BY <3>2 DEF Emit, KnownAfterInit
    <3>3. CASE s # 0 /\ tab[s] = << >>
      BY <3>3 DEF Emit, KnownAfterInit
    <3> QED
      BY <1>3, <3>1, <3>2, <3>3
  <2> QED
    BY <2>2, <2>3
<1>4. CASE ~(cache.seq = s \/ s = 0 \/ tab[s] = << >>)
  <2>1. c = [seq |-> s, rec |-> Len(tab[s])] /\ s \in 1 .. MaxSeq
    BY <1>4 DEF Cached
  <2>2. Len(tab[s]) \in Nat \ {0}
    BY <1>4, <2>1, EmptySeq
  <2>3. ClientTyped'
    BY <1>2, <2>1, <2>2 DEF ClientTyped
  <2>4. built'.rec = Len(tab[s])
    BY <1>4, <2>1 DEF Emit
  <2> QED
    BY <2>2, <2>3, <2>4 DEF KnownAfterInit
<1> QED
  BY <1>3, <1>4

\* The parent in the details that a call took.
LEMMA ParentKnown ==
  ASSUME NEW f \in FrameType, NEW K, f.full \subseteq K \union {0}
  PROVE  ParentOf(f.full) \in K \union {0}
<1>1. f.full \in Details
  BY DEF FrameType
<1> QED
  BY <1>1, ParentOfDetails

LEMMA RefusedKeeps ==
  ASSUME Inv, NEW t \in Threads, FillRefused(t), UNCHANGED begun
  PROVE  Inv'
<1> DEFINE f == Top(t)
           g == Described(f)
           e == [entry[f.seq] EXCEPT !.init = FALSE]
           ents == With(f.seq, e)
           p == ParentOf(f.full)
<1>1. /\ stack[t] # << >> /\ f \in FrameType /\ f.pc = "log"
      /\ FrameOK(f, Known) /\ f.seq \in Known /\ f.seq \in Seqs
  BY AtTop DEF FillRefused
<1>2. SetTop(t, g)
  BY DEF FillRefused
<1>3. /\ g \in FrameType /\ g.pc \in {"start", "check", "return"}
      /\ g.mine = f.mine /\ g.seq = f.seq /\ g.full \subseteq f.full
  BY <1>1, DescribedFields
<1>4. Derefs(t, p, ents)
  BY DEF FillRefused
<1>5. /\ e \in EntryType /\ e.init = FALSE
      /\ e.pid = entry[f.seq].pid /\ e.life = entry[f.seq].life
      /\ e.listed = entry[f.seq].listed /\ e.freed = entry[f.seq].freed
      /\ e.full = entry[f.seq].full
  <2>1. entry[f.seq] \in EntryType
    BY <1>1, EntryTyped DEF Inv, TypeInv
  <2> QED
    BY <2>1 DEF EntryType
<1>6. p \in Known \union {0} /\ p \in Seqs \union {0}
  BY <1>1, ParentKnown DEF FrameOK, Known
<1> HIDE DEF g, f, e, p
<1>7. FrameOK(g, Known) /\ g.mine = 0
  BY <1>1, <1>3 DEF FrameOK
<1>8. /\ ents \in Seq(EntryType) /\ Len(ents) = Len(entry)
      /\ ents[f.seq] = e
      /\ \A s \in Seqs : s # f.seq => ents[s] = entry[s]
  BY <1>1, <1>5, WithDoes DEF Inv, TypeInv
<1> HIDE DEF ents
<1>9. /\ Touched
      /\ freeing' \in [Threads -> Nat]
      /\ \A u \in Threads : freeing'[u] \in {freeing[u], p}
  <2>1. ASSUME NEW r \in Seqs
        PROVE  /\ ents[r].pid = entry[r].pid
               /\ ents[r].life = entry[r].life
               /\ ents[r].listed = entry[r].listed
               /\ ents[r].freed = entry[r].freed
               /\ ents[r].full \subseteq Known \union {0}
               /\ r \notin Known => ents[r] = entry[r]
    BY <1>1, <1>5, <1>8 DEF Inv, ListInv, EntriesOK
  <2> QED
    BY <1>4, <1>6, <1>8, <2>1, DerefsTouch DEF Inv, TypeInv, ListInv
<1>10. \A r \in Seqs : entry'[r].init = ents[r].init
  <2>1. \A r \in Seqs : entry'[r] = IF r = p THEN Less(ents[r]) ELSE ents[r]
    BY <1>4, <1>6, <1>8, DerefsDoes DEF Inv, TypeInv
  <2>2. \A r \in Seqs : ents[r] \in EntryType
    BY <1>8, ElementOfSeq DEF Seqs
  <2> QED
    BY <2>1, <2>2, CountFields
<1>11. UNCHANGED <<osvars, logLock, op, begun, uservars>>
  BY DEF FillRefused
<1>12. \A u \in Threads : freeing'[u] \in Known \union {0}
  BY <1>6, <1>9 DEF Inv, ListInv, OpsOK
<1>13. ListInv' /\ OneOfEach' /\ InitLogged' /\ StacksTyped'
  <2>1. \A s \in Seqs : entry'[s].init => entry[s].init
    BY <1>5, <1>8, <1>10
  <2>2. \A s \in Seqs : table[s] # << >> => table'[s] # << >>
    BY <1>11 DEF uservars
  <2>3. ~entry'[Top(t).seq].init /\ Top(t).pc # "return"
    BY <1>1, <1>5, <1>8, <1>10 DEF f
  <2> QED
    BY <1>1, <1>2, <1>3, <1>7, <1>9, <1>11, <1>12, <2>1, <2>2, <2>3, TopStepKeeps
<1> QED
  BY <1>9, <1>11, <1>13, ClientStays
     DEF Inv, TypeInv, SystemTyped, DriverTyped, Touched, osvars

LEMMA InsertedDoes ==
  ASSUME ClientTyped, NEW s \in 1 .. MaxSeq, NEW k \in {"init", "create"}
  PROVE  /\ Inserted(s, k) \in [1 .. MaxSeq -> Seq({"init", "create"})]
         /\ \A r \in 1 .. MaxSeq : r # s => Inserted(s, k)[r] = table[r]
         /\ Inserted(s, k)[s] = Append(table[s], k)
         /\ Inserted(s, k)[s] # << >>
         /\ \A r \in 1 .. MaxSeq : Len(table[r]) <= Len(Inserted(s, k)[r])
<1>1. table \in [1 .. MaxSeq -> Seq({"init", "create"})]
  BY DEF ClientTyped
<1>2. /\ Append(table[s], k) \in Seq({"init", "create"})
      /\ Append(table[s], k) # << >>
      /\ Len(Append(table[s], k)) = Len(table[s]) + 1
  BY <1>1, AppendProperties
<1>3. \A r \in 1 .. MaxSeq : Len(table[r]) \in Nat
  BY <1>1, LenProperties
<1>4. /\ Inserted(s, k) \in [1 .. MaxSeq -> Seq({"init", "create"})]
      /\ \A r \in 1 .. MaxSeq : r # s => Inserted(s, k)[r] = table[r]
      /\ Inserted(s, k)[s] = Append(table[s], k)
  BY <1>1, <1>2 DEF Inserted
<1> QED
  BY <1>2, <1>3, <1>4

LEMMA FillReleaseKeeps ==
  ASSUME Inv, NEW t \in Threads, FillRelease(t), UNCHANGED begun
  PROVE  Inv'
<1> DEFINE f == Top(t)
           g == Described(f)
           k == IF f.full = {} THEN "init" ELSE "create"
           tab == Inserted(f.seq, k)
           p == ParentOf(f.full)
<1>1. /\ stack[t] # << >> /\ f \in FrameType /\ f.pc = "release"
      /\ FrameOK(f, Known) /\ f.seq \in Known /\ f.seq \in Seqs
  BY AtTop DEF FillRelease
<1>2. /\ SetTop(t, g) /\ table' = tab /\ logLock' = Free
      /\ \/ UNCHANGED <<cache, built>>
         \/ Emit("create", p, tab)
  BY DEF FillRelease
<1>3. /\ g \in FrameType /\ g.pc \in {"start", "check", "return"}
      /\ g.mine = f.mine /\ g.seq = f.seq /\ g.full \subseteq f.full
  BY <1>1, DescribedFields
<1>4. p \in Known \union {0}
  BY <1>1, ParentKnown DEF FrameOK
<1>5. f.seq \in 1 .. MaxSeq /\ p \in 0 .. MaxSeq /\ Seqs \subseteq 1 .. MaxSeq
  BY <1>1, <1>4, LenProperties, ProcessAssumption
     DEF Inv, TypeInv, DriverTyped, Seqs, Known
<1>6. k \in {"init", "create"}
  OBVIOUS
<1> HIDE DEF g, f, k, p
<1>7. /\ tab \in [1 .. MaxSeq -> Seq({"init", "create"})]
      /\ \A r \in 1 .. MaxSeq : r # f.seq => tab[r] = table[r]
      /\ tab[f.seq] # << >>
      /\ \A r \in 1 .. MaxSeq : Len(table[r]) <= Len(tab[r])
  BY <1>5, <1>6, InsertedDoes DEF Inv, TypeInv
<1> HIDE DEF tab
<1>8. ClientTyped' /\ KnownAfterInit'
  <2>1. CASE Emit("create", p, tab)
    BY <1>2, <1>5, <1>7, <2>1, EmitKeeps DEF Inv, TypeInv
  <2>2. CASE UNCHANGED <<cache, built>>
    <3>1. \A r \in 1 .. MaxSeq : Len(tab[r]) \in Nat /\ Len(table[r]) \in Nat
      BY <1>7, LenProperties DEF Inv, TypeInv, ClientTyped
    <3>2. cache.seq # 0 => cache.rec \in 1 .. Len(tab[cache.seq])
      BY <1>7, <3>1 DEF Inv, TypeInv, ClientTyped
    <3> QED
      BY <1>2, <1>7, <2>2, <3>2 DEF Inv, TypeInv, ClientTyped, KnownAfterInit
  <2> QED
    BY <1>2, <2>1, <2>2
<1>9. FrameOK(g, Known) /\ g.mine = 0
  BY <1>1, <1>3 DEF FrameOK
<1>10. UNCHANGED <<osvars, entry, op, freeing, begun>>
  BY DEF FillRelease
<1>11. Touched
  BY <1>10, UnchangedTouches DEF Inv, TypeInv, ListInv
<1>12. \A u \in Threads : freeing'[u] \in Known \union {0}
  BY <1>10 DEF Inv, ListInv, OpsOK
<1>13. ListInv' /\ OneOfEach' /\ InitLogged' /\ StacksTyped'
  <2>1. \A s \in Seqs : entry'[s].init => entry[s].init
    BY <1>10
  <2>2. \A s \in Seqs : table[s] # << >> => table'[s] # << >>
    BY <1>2, <1>5, <1>7
  <2>3. table'[Top(t).seq] # << >> /\ Top(t).pc # "return"
    BY <1>1, <1>2, <1>7 DEF f
  <2> QED
    BY <1>1, <1>2, <1>3, <1>9, <1>10, <1>11, <1>12, <2>1, <2>2, <2>3, TopStepKeeps
<1> QED
  BY <1>2, <1>8, <1>10, <1>11, <1>13
     DEF Inv, TypeInv, SystemTyped, DriverTyped, Touched, osvars

LEMMA LogStartKeeps ==
  ASSUME Inv, NEW t \in Threads, LogStart(t), UNCHANGED begun
  PROVE  Inv'
<1> DEFINE f == Top(t)
           g == Filled(f)
<1>1. /\ stack[t] # << >> /\ f \in FrameType /\ f.pc = "start"
      /\ FrameOK(f, Known) /\ f.seq \in Known /\ f.seq \in Seqs
  BY AtTop DEF LogStart
<1>2. /\ SetTop(t, g)
      /\ Emit("start", f.seq, table) \/ UNCHANGED <<cache, built>>
  BY DEF LogStart
<1>3. /\ g \in FrameType /\ g.pc \in {"check", "return"}
      /\ g.mine = f.mine /\ g.seq = f.seq /\ g.full = {}
  BY <1>1, FilledFields
<1>4. f.seq \in 0 .. MaxSeq
  BY <1>1, LenProperties, ProcessAssumption DEF Inv, TypeInv, DriverTyped, Seqs
<1>5. UNCHANGED <<osvars, entry, logLock, op, freeing, table, begun>>
  BY DEF LogStart
<1> HIDE DEF g, f
<1>6. ClientTyped' /\ KnownAfterInit'
  <2>1. CASE Emit("start", f.seq, table)
    <3>1. /\ table \in [1 .. MaxSeq -> Seq({"init", "create"})]
          /\ \A r \in 1 .. MaxSeq : Len(table[r]) <= Len(table[r])
      BY LenProperties DEF Inv, TypeInv, ClientTyped
    <3> QED
      BY <1>4, <1>5, <2>1, <3>1, EmitKeeps DEF Inv, TypeInv
  <2>2. CASE UNCHANGED <<cache, built>>
    BY <1>5, <2>2, ClientStays DEF Inv, TypeInv, uservars
  <2> QED
    BY <1>2, <2>1, <2>2
<1>7. FrameOK(g, Known) /\ g.mine = 0
  BY <1>1, <1>3 DEF FrameOK
<1>8. Touched
  BY <1>5, UnchangedTouches DEF Inv, TypeInv, ListInv
<1>9. \A u \in Threads : freeing'[u] \in Known \union {0}
  BY <1>5 DEF Inv, ListInv, OpsOK
<1>10. ListInv' /\ OneOfEach' /\ InitLogged' /\ StacksTyped'
  <2>1. Top(t).pc \notin FillPcs /\ Top(t).pc # "return"
    BY <1>1 DEF f, FillPcs
  <2> QED
    BY <1>1, <1>2, <1>3, <1>5, <1>7, <1>8, <1>9, <2>1, TopStepKeeps
<1> QED
  BY <1>5, <1>6, <1>8, <1>10
     DEF Inv, TypeInv, SystemTyped, DriverTyped, Touched, osvars

\* Any step of a thread in a list that keeps its entries.
LEMMA StepKeeps ==
  ASSUME Inv, NEW t \in Threads, NEW n, NEW S \in Seq(FrameType),
         Restacked(t, n, S),
         \A k \in 1 .. Len(S) :
           /\ FrameOK(S[k], Known)
           /\ S[k].pc = "parent" <=> k < Len(S)
           /\ S[k].mine = 0,
         Touched,
         \A u \in Threads :
           /\ u # t => op'[u] = op[u]
           /\ freeing'[u] \in Known \union {0},
         op'[t].kind = "idle" <=> stack'[t] = << >>,
         op'[t].parent \in Known \union {0},
         op'[t].kind = "exit" /\ op'[t].step # "ref" =>
           /\ Len(stack'[t]) = 1
           /\ stack'[t][1].pc = "return"
           /\ stack'[t][1].seq # 0,
         \A s \in Seqs : entry'[s].init => entry[s].init,
         \A i \in 1 .. Len(stack[t]) : stack[t][i].pc \in FillPcs =>
           \/ i <= n
           \/ \E k \in 1 .. Len(S) : S[k].pc \in FillPcs /\ S[k].seq = stack[t][i].seq,
         \A s \in Seqs : table[s] # << >> => table'[s] # << >>
  PROVE  ListInv' /\ OneOfEach' /\ InitLogged' /\ StacksTyped'
<1>1. /\ Seqs' = Seqs
      /\ Known' = Known
      /\ EntriesOK'
      /\ \A s \in Seqs \ Known :
           s \in Seqs' \ Known' /\ entry'[s].pid = entry[s].pid
  BY TouchedKeeps DEF Inv, ListInv
<1>2. FramesOK'
  BY <1>1, FramesKept DEF Inv, ListInv, TypeInv
<1>3. MineOK'
  <2>1. \A s \in Seqs \ Known : s \in Seqs' \ Known' /\ entry'[s].pid = entry[s].pid
    BY <1>1
  <2> QED
    BY <2>1, MineKept DEF Inv, ListInv, TypeInv
<1>4. OpsOK'
  <2>1. \A u \in Threads : u # t => stack'[u] = stack[u]
    BY DEF Restacked
  <2> QED
    BY <1>1, <2>1, OpsKept DEF Inv, ListInv
<1>5. StacksTyped'
  BY DEF Restacked, StacksTyped
<1>6. InitLogged'
  <2>1. ASSUME NEW s \in Seqs', entry'[s].listed, entry'[s].init
        PROVE  s \in Seqs /\ entry[s].listed /\ entry[s].init
    BY <1>1, <2>1 DEF Touched
  <2> QED
    BY <2>1, LoggedKept DEF Inv, TypeInv
<1> QED
  BY <1>1, <1>2, <1>3, <1>4, <1>5, <1>6, OneKept DEF ListInv, Inv

LEMMA FillLogKeeps ==
  ASSUME Inv, NEW t \in Threads, FillLog(t), UNCHANGED begun
  PROVE  Inv'
<1> DEFINE f == Top(t)
           g == [f EXCEPT !.pc = "parent"]
           c == Call(inherited[f.pid], FALSE)
           p == ParentOf(f.full)
           n == Len(stack[t]) - 1
           S == <<g, c>>
<1>1. /\ stack[t] # << >> /\ f \in FrameType /\ f.pc = "log"
      /\ FrameOK(f, Known) /\ f.seq \in Known
      /\ Len(stack[t]) \in Nat \ {0} /\ f = stack[t][Len(stack[t])]
  BY AtTop DEF FillLog
<1>2. stack' = [stack EXCEPT ![t] = Append(Append(Front(@), g), c)]
  BY DEF FillLog
<1>3. /\ g \in FrameType /\ g.pc = "parent"
      /\ g.mine = f.mine /\ g.seq = f.seq /\ g.full = f.full
  BY <1>1, PcFields DEF PCs
<1>4. /\ c \in FrameType /\ c.pc = "find" /\ c.mine = 0 /\ c.seq = 0 /\ c.full = {}
  <2>1. inherited[f.pid] \in Pids
    BY <1>1 DEF Inv, TypeInv, SystemTyped, FrameType
  <2> QED
    BY <2>1, CallFields
<1>5. Deref(t, p) /\ logLock' = t
  BY DEF FillLog
<1>6. p \in Known \union {0}
  BY <1>1, ParentKnown DEF FrameOK
<1> HIDE DEF g, c, f, p
<1>7. Restacked(t, n, S)
  BY <1>1, <1>2, <1>3, <1>4, PushedOn DEF Inv, TypeInv
<1>8. /\ S \in Seq(FrameType) /\ Len(S) = 2
      /\ S[1] = g /\ S[2] = c
  BY <1>3, <1>4
<1>9. \A k \in 1 .. Len(S) : k = 1 \/ k = 2
  BY <1>8
<1> HIDE DEF S
<1>10. \A k \in 1 .. Len(S) :
           /\ FrameOK(S[k], Known)
           /\ S[k].pc = "parent" <=> k < Len(S)
           /\ S[k].mine = 0
  <2>1. FrameOK(g, Known) /\ g.mine = 0
    BY <1>1, <1>3 DEF FrameOK
  <2>2. FrameOK(c, Known)
    BY <1>4 DEF FrameOK
  <2> QED
    BY <1>3, <1>4, <1>8, <1>9, <2>1, <2>2
<1>11. /\ Touched
       /\ freeing' \in [Threads -> Nat]
       /\ \A u \in Threads : freeing'[u] \in {freeing[u], p}
  BY <1>5, <1>6, DerefTouches DEF Inv, TypeInv, ListInv
<1>12. UNCHANGED <<osvars, op, begun, uservars>>
  BY DEF FillLog
<1>13. \A u \in Threads : freeing'[u] \in Known \union {0}
  BY <1>6, <1>11 DEF Inv, ListInv, OpsOK
<1>14. ListInv' /\ OneOfEach' /\ InitLogged' /\ StacksTyped'
  <2>1. \A s \in Seqs : entry'[s].init => entry[s].init
    BY <1>5, <1>6, DerefTouches DEF Inv, TypeInv, ListInv
  <2>2. \A s \in Seqs : table[s] # << >> => table'[s] # << >>
    BY <1>12 DEF uservars
  <2>3. op[t].kind # "idle" /\ op[t].parent \in Known \union {0}
    BY <1>1 DEF Inv, ListInv, OpsOK
  <2>4. ~(op[t].kind = "exit" /\ op[t].step # "ref")
    BY <1>1 DEF Inv, ListInv, OpsOK
  <2>5. stack'[t] # << >>
    BY <1>1, <1>7, <1>8 DEF Restacked
  <2>6. \A i \in 1 .. Len(stack[t]) : stack[t][i].pc \in FillPcs =>
           \/ i <= n
           \/ \E k \in 1 .. Len(S) : S[k].pc \in FillPcs /\ S[k].seq = stack[t][i].seq
    <3>1. \A i \in 1 .. Len(stack[t]) : i <= n \/ i = Len(stack[t])
      BY <1>1
    <3>2. 1 \in 1 .. Len(S) /\ g.pc \in FillPcs /\ g.seq = stack[t][Len(stack[t])].seq
      BY <1>1, <1>3, <1>8 DEF FillPcs
    <3> QED
      BY <1>8, <3>1, <3>2
  <2> HIDE DEF n
  <2> QED
    BY <1>7, <1>8, <1>10, <1>11, <1>12, <1>13, <2>1, <2>2, <2>3, <2>4, <2>5, <2>6,
       StepKeeps
<1> QED
  BY <1>5, <1>11, <1>12, <1>14, ClientStays
     DEF Inv, TypeInv, SystemTyped, DriverTyped, Touched, osvars

LEMMA FillParentKeeps ==
  ASSUME Inv, NEW t \in Threads, FillParent(t), UNCHANGED begun
  PROVE  Inv'
<1> DEFINE f == Top(t)
           b == stack[t][Len(stack[t]) - 1]
           g == [b EXCEPT !.pc = "release"]
           n == Len(stack[t]) - 2
           S == <<g>>
<1>1. /\ stack[t] # << >> /\ f \in FrameType /\ f.pc = "return"
      /\ FrameOK(f, Known)
      /\ Len(stack[t]) \in Nat \ {0} /\ f = stack[t][Len(stack[t])]
      /\ Len(stack[t]) > 1
  BY AtTop DEF FillParent
<1>2. stack' = [stack EXCEPT ![t] = Append(Front(Front(@)), g)]
  BY DEF FillParent
<1>3. Deref(t, f.seq)
  BY DEF FillParent
<1>4. /\ b \in FrameType /\ FrameOK(b, Known) /\ b.pc = "parent"
  <2>1. Len(stack[t]) - 1 \in 1 .. Len(stack[t]) /\ Len(stack[t]) - 1 < Len(stack[t])
    BY <1>1
  <2>2. b \in FrameType
    BY <2>1, ElementOfSeq DEF Inv, TypeInv, StacksTyped
  <2> QED
    BY <2>1, <2>2 DEF Inv, ListInv, FramesOK
<1> HIDE DEF b, f
<1>5. /\ g \in FrameType /\ g.pc = "release"
      /\ g.mine = b.mine /\ g.seq = b.seq /\ g.full = b.full
  BY <1>4, PcFields DEF PCs
<1> HIDE DEF g
<1>6. Restacked(t, n, S)
  BY <1>1, <1>2, <1>5, PoppedTo DEF Inv, TypeInv
<1>7. S \in Seq(FrameType) /\ Len(S) = 1 /\ \A k \in 1 .. Len(S) : k = 1 /\ S[k] = g
  BY <1>5
<1> HIDE DEF S
<1>8. \A k \in 1 .. Len(S) :
           /\ FrameOK(S[k], Known)
           /\ S[k].pc = "parent" <=> k < Len(S)
           /\ S[k].mine = 0
  <2>1. FrameOK(g, Known) /\ g.mine = 0
    BY <1>4, <1>5 DEF FrameOK
  <2> QED
    BY <1>5, <1>7, <2>1
<1>9. f.seq \in Known \union {0}
  BY <1>1 DEF FrameOK
<1>10. /\ Touched
       /\ freeing' \in [Threads -> Nat]
       /\ \A u \in Threads : freeing'[u] \in {freeing[u], f.seq}
  BY <1>3, <1>9, DerefTouches DEF Inv, TypeInv, ListInv
<1>11. UNCHANGED <<osvars, logLock, op, begun, uservars>>
  BY DEF FillParent
<1>12. \A u \in Threads : freeing'[u] \in Known \union {0}
  BY <1>9, <1>10 DEF Inv, ListInv, OpsOK
<1>13. ListInv' /\ OneOfEach' /\ InitLogged' /\ StacksTyped'
  <2>1. \A s \in Seqs : entry'[s].init => entry[s].init
    BY <1>3, <1>9, DerefTouches DEF Inv, TypeInv, ListInv
  <2>2. \A s \in Seqs : table[s] # << >> => table'[s] # << >>
    BY <1>11 DEF uservars
  <2>3. op[t].kind # "idle" /\ op[t].parent \in Known \union {0}
    BY <1>1 DEF Inv, ListInv, OpsOK
  <2>4. ~(op[t].kind = "exit" /\ op[t].step # "ref")
    BY <1>1 DEF Inv, ListInv, OpsOK
  <2>5. stack'[t] # << >>
    BY <1>1, <1>6, <1>7 DEF Restacked
  <2>6. \A i \in 1 .. Len(stack[t]) : stack[t][i].pc \in FillPcs =>
           \/ i <= n
           \/ \E k \in 1 .. Len(S) : S[k].pc \in FillPcs /\ S[k].seq = stack[t][i].seq
    <3>1. \A i \in 1 .. Len(stack[t]) :
            i <= n \/ i = Len(stack[t]) - 1 \/ i = Len(stack[t])
      BY <1>1
    <3>2. 1 \in 1 .. Len(S) /\ g.pc \in FillPcs /\ g.seq = stack[t][Len(stack[t]) - 1].seq
      BY <1>5, <1>7 DEF FillPcs, b
    <3>3. stack[t][Len(stack[t])].pc \notin FillPcs
      BY <1>1 DEF FillPcs
    <3> QED
      BY <1>7, <3>1, <3>2, <3>3
  <2> HIDE DEF n
  <2> QED
    BY <1>6, <1>7, <1>8, <1>10, <1>11, <1>12, <2>1, <2>2, <2>3, <2>4, <2>5, <2>6,
       StepKeeps
<1> QED
  BY <1>10, <1>11, <1>13, ClientStays
     DEF Inv, TypeInv, SystemTyped, DriverTyped, Touched, osvars

LEMMA FoundIsListed ==
  ASSUME NEW p, Listed(p) # {}
  PROVE  /\ Found(p) \in Listed(p) /\ Found(p) \in Known /\ Found(p) \in Seqs
         /\ entry[Found(p)].listed /\ entry[Found(p)].pid = p
<1>1. Found(p) \in Listed(p)
  BY DEF Found
<1> QED
  BY <1>1 DEF Listed, Known

LEMMA NewEntryFields ==
  ASSUME TypeInv, NEW p \in Pids
  PROVE  /\ NewEntry(p) \in EntryType
         /\ NewEntry(p).pid = p /\ NewEntry(p).refs = 1
         /\ ~NewEntry(p).listed /\ ~NewEntry(p).freed /\ ~NewEntry(p).init
         /\ NewEntry(p).full = {} /\ NewEntry(p).exit = "no"
<1>1. life[p] \in Nat
  BY ProcessAssumption DEF TypeInv, SystemTyped
<1>2. {} \in Details
  BY DEF Details
<1> QED
  BY <1>1, <1>2 DEF NewEntry, EntryType

LEMMA FreedFields ==
  /\ Freed \in EntryType
  /\ ~Freed.listed /\ Freed.freed /\ ~Freed.init
  /\ Freed.full = {} /\ Freed.exit = "no" /\ Freed.refs = 0
<1>1. AnyPid \in Pids
  BY ProcessAssumption DEF AnyPid
<1>2. {} \in Details
  BY DEF Details
<1> QED
  BY <1>1, <1>2 DEF Freed, EntryType

LEMMA FindKeeps ==
  ASSUME Inv, NEW t \in Threads, Finds(t), UNCHANGED begun
  PROVE  Inv'
<1> DEFINE f == Top(t)
           p == f.pid
<1>1. /\ stack[t] # << >> /\ f \in FrameType /\ f.pc = "find"
      /\ FrameOK(f, Known)
      /\ Len(stack[t]) \in Nat \ {0} /\ f = stack[t][Len(stack[t])]
  BY AtTop DEF Finds, Find, FindFails
<1>2. f.mine = 0 /\ p \in Pids
  BY <1>1 DEF FrameOK, FrameType
<1>3. UNCHANGED <<osvars, logLock, op, freeing, uservars, begun>>
  BY DEF Finds, Find, FindFails
<1>4. \A u \in Threads : freeing'[u] \in Known \union {0}
  BY <1>3 DEF Inv, ListInv, OpsOK
<1>5. \A s \in Seqs : table[s] # << >> => table'[s] # << >>
  BY <1>3 DEF uservars
<1>6. f.pc \notin FillPcs /\ f.pc # "return"
  BY <1>1 DEF FillPcs
<1>7. CASE Listed(p) # {} /\ entry' = With(Found(p), Held(entry[Found(p)]))
             /\ SetTop(t, [f EXCEPT !.pc = "check", !.seq = Found(p)])
  <2> DEFINE s == Found(p)
             g == [f EXCEPT !.pc = "check", !.seq = s]
  <2>1. /\ s \in Known /\ s \in Seqs
    BY <1>7, FoundIsListed
  <2>2. entry[s] \in EntryType /\ s \in Nat \ {0}
    BY <2>1, EntryTyped DEF Inv, TypeInv
  <2>4. SetTop(t, g)
    BY <1>7
  <2>6. entry' = With(s, Held(entry[s]))
    BY <1>7
  <2>10. "check" \in PCs
    BY DEF PCs
  <2> HIDE DEF s, f
  <2>3. /\ g \in FrameType /\ g.pc = "check" /\ g.mine = f.mine /\ g.seq = s
        /\ g.full = f.full
    BY <1>1, <2>2, <2>10 DEF FrameType
  <2> HIDE DEF g
  <2>5. FrameOK(g, Known) /\ g.mine = 0
    BY <1>1, <1>2, <2>1, <2>2, <2>3 DEF FrameOK
  <2>7. Touched
    <3>1. entry[s].full \subseteq Known \union {0}
      BY <2>1 DEF Inv, ListInv, EntriesOK
    <3> QED
      BY <2>1, <2>2, <2>6, <3>1, CountFields, WithTouches DEF Inv, TypeInv, ListInv
  <2>11. Held(entry[s]) \in EntryType /\ Held(entry[s]).init = entry[s].init
    BY <2>2, CountFields
  <2>12. entry'[s] = Held(entry[s]) /\ \A r \in Seqs : r # s => entry'[r] = entry[r]
    BY <2>1, <2>6, <2>11, WithDoes DEF Inv, TypeInv
  <2>8. \A r \in Seqs : entry'[r].init => entry[r].init
    BY <2>11, <2>12
  <2>9. ListInv' /\ OneOfEach' /\ InitLogged' /\ StacksTyped'
    BY <1>1, <1>3, <1>4, <1>5, <1>6, <2>3, <2>4, <2>5, <2>7, <2>8, TopStepKeeps DEF f
  <2> QED
    BY <1>3, <2>7, <2>9, ClientStays
       DEF Inv, TypeInv, SystemTyped, DriverTyped, Touched, osvars
<1>8. CASE Goto(t, "return") /\ UNCHANGED entry
  <2> DEFINE g == [f EXCEPT !.pc = "return"]
  <2>1. /\ g \in FrameType /\ g.pc = "return" /\ g.mine = f.mine /\ g.seq = f.seq
        /\ g.full = f.full
    BY <1>1, PcFields DEF PCs
  <2>2. SetTop(t, g)
    BY <1>8 DEF Goto
  <2> HIDE DEF g, f
  <2>3. FrameOK(g, Known) /\ g.mine = 0
    BY <1>1, <1>2, <2>1 DEF FrameOK
  <2>4. Touched
    BY <1>8, UnchangedTouches DEF Inv, TypeInv, ListInv
  <2>5. ListInv' /\ OneOfEach' /\ InitLogged' /\ StacksTyped'
    BY <1>1, <1>3, <1>4, <1>5, <1>6, <1>8, <2>1, <2>2, <2>3, <2>4, TopStepKeeps DEF f
  <2> QED
    BY <1>3, <2>4, <2>5, ClientStays
       DEF Inv, TypeInv, SystemTyped, DriverTyped, Touched, osvars
<1>9. CASE /\ Len(entry) < MaxSeq
           /\ entry' = Append(entry, NewEntry(p))
           /\ SetTop(t, [f EXCEPT !.pc = "insert", !.mine = Len(entry) + 1])
  <2> DEFINE m == Len(entry) + 1
             g == [f EXCEPT !.pc = "insert", !.mine = m]
             n == Len(stack[t]) - 1
             S == <<g>>
  <2>1. entry \in Seq(EntryType) /\ Len(entry) \in Nat /\ m \in Nat /\ m \notin Seqs /\ m # 0
    BY LenProperties DEF Inv, TypeInv, DriverTyped, Seqs
  <2>2. /\ NewEntry(p) \in EntryType
        /\ NewEntry(p).pid = p /\ NewEntry(p).refs = 1
        /\ ~NewEntry(p).listed /\ ~NewEntry(p).freed /\ ~NewEntry(p).init
        /\ NewEntry(p).full = {} /\ NewEntry(p).exit = "no"
    BY <1>2, NewEntryFields DEF Inv
  <2>3. /\ entry' \in Seq(EntryType) /\ Len(entry') = m
        /\ \A s \in Seqs : entry'[s] = entry[s]
        /\ entry'[m] = NewEntry(p)
    BY <1>9, <2>1, <2>2, AppendProperties DEF Seqs
  <2>4. Seqs' = Seqs \union {m}
    BY <2>1, <2>3 DEF Seqs
  <2>17. "insert" \in PCs
    BY DEF PCs
  <2> HIDE DEF m, f
  <2>5. /\ g \in FrameType /\ g.pc = "insert" /\ g.mine = m /\ g.seq = f.seq
        /\ g.full = f.full /\ g.pid = f.pid
    BY <1>1, <2>1, <2>17 DEF FrameType
  <2>6. Restacked(t, n, S)
    BY <1>1, <1>9, <2>5, Topped DEF Inv, TypeInv, m, f
  <2> HIDE DEF g
  <2>7. S \in Seq(FrameType) /\ Len(S) = 1 /\ \A k \in 1 .. Len(S) : k = 1 /\ S[k] = g
    BY <2>5
  <2> HIDE DEF S
  <2>8. Known' = Known
    BY <2>2, <2>3, <2>4 DEF Known
  <2>9. EntriesOK'
    BY <2>2, <2>3, <2>4, <2>8 DEF EntriesOK, Inv, ListInv
  <2>10. FramesOK'
    <3>1. FrameOK(g, Known)
      BY <1>1, <2>1, <2>5 DEF FrameOK, m
    <3>2. \A k \in 1 .. Len(S) : FrameOK(S[k], Known') /\ (S[k].pc = "parent" <=> k < Len(S))
      BY <2>5, <2>7, <2>8, <3>1
    <3> QED
      BY <2>6, <2>7, <2>8, <3>2, FramesKept DEF Inv, ListInv, TypeInv
  <2>11. MineOK'
    <3> HIDE DEF n
    <3>1. ASSUME NEW u \in Threads, NEW i \in 1 .. Len(stack'[u])
          PROVE  \/ /\ i \in 1 .. Len(stack[u]) /\ stack'[u][i] = stack[u][i]
                    /\ stack'[u][i].mine # m
                 \/ /\ stack'[u][i] = g /\ u = t /\ i = n + 1
      <4>1. CASE i \in 1 .. Len(stack[u]) /\ stack'[u][i] = stack[u][i]
        BY <2>1, <4>1 DEF Inv, ListInv, MineOK
      <4>2. CASE u = t /\ \E k \in 1 .. Len(S) : i = n + k /\ stack'[u][i] = S[k]
        BY <2>7, <4>2
      <4> QED
        BY <4>1, <4>2, <2>6, <2>7, FrameOfStep DEF Inv, TypeInv
    <3> SUFFICES ASSUME NEW u \in Threads, NEW i \in 1 .. Len(stack'[u]),
                        stack'[u][i].mine # 0
                 PROVE  /\ stack'[u][i].mine \in Seqs' \ Known'
                        /\ entry'[stack'[u][i].mine].pid = stack'[u][i].pid
                        /\ \A v \in Threads : \A j \in 1 .. Len(stack'[v]) :
                             stack'[v][j].mine = stack'[u][i].mine => v = u /\ j = i
      BY DEF MineOK
    <3>2. CASE /\ i \in 1 .. Len(stack[u]) /\ stack'[u][i] = stack[u][i]
               /\ stack'[u][i].mine # m
      <4>1. /\ stack[u][i].mine \in Seqs \ Known
            /\ entry[stack[u][i].mine].pid = stack[u][i].pid
            /\ \A v \in Threads : \A j \in 1 .. Len(stack[v]) :
                 stack[v][j].mine = stack[u][i].mine => v = u /\ j = i
        BY <3>2 DEF Inv, ListInv, MineOK
      <4>2. ASSUME NEW v \in Threads, NEW j \in 1 .. Len(stack'[v]),
                   stack'[v][j].mine = stack'[u][i].mine
            PROVE  v = u /\ j = i
        <5>1. j \in 1 .. Len(stack[v]) /\ stack'[v][j] = stack[v][j]
          BY <2>5, <3>1, <3>2, <4>2
        <5> QED
          BY <3>2, <4>1, <4>2, <5>1
      <4> QED
        BY <2>3, <2>4, <2>8, <3>2, <4>1, <4>2
    <3>3. CASE stack'[u][i] = g /\ u = t /\ i = n + 1
      <4>1. /\ g.mine = m /\ m \in Seqs' \ Known' /\ entry'[m].pid = g.pid
        BY <2>1, <2>2, <2>3, <2>4, <2>5, <2>8 DEF Known
      <4>2. ASSUME NEW v \in Threads, NEW j \in 1 .. Len(stack'[v]),
                   stack'[v][j].mine = m
            PROVE  v = t /\ j = n + 1
        BY <3>1, <4>2
      <4> QED
        BY <3>3, <4>1, <4>2
    <3> QED
      BY <3>1, <3>2, <3>3
  <2>12. OpsOK'
    <3>1. stack'[t] # << >>
      BY <1>1, <2>6, <2>7 DEF Restacked
    <3>2. op[t].kind # "idle" /\ op[t].parent \in Known \union {0}
      BY <1>1 DEF Inv, ListInv, OpsOK
    <3>3. ~(op[t].kind = "exit" /\ op[t].step # "ref")
      BY <1>1 DEF Inv, ListInv, OpsOK
    <3>4. \A u \in Threads : u # t => stack'[u] = stack[u]
      BY <2>6 DEF Restacked
    <3>5. op' = op
      BY <1>3
    <3> QED
      BY <1>4, <2>8, <3>1, <3>2, <3>3, <3>4, <3>5, OpsKept DEF Inv, ListInv
  <2>13. InitLogged'
    <3>1. ASSUME NEW s \in Seqs', entry'[s].listed, entry'[s].init
          PROVE  s \in Seqs /\ entry[s].listed /\ entry[s].init
      BY <2>2, <2>3, <2>4, <3>1
    <3>2. \A i \in 1 .. Len(stack[t]) : stack[t][i].pc \in FillPcs => i <= n
      BY <1>1, <1>6
    <3> HIDE DEF n
    <3> QED
      BY <1>5, <2>6, <2>7, <3>1, <3>2, LoggedKept DEF Inv, TypeInv
  <2>14. OneOfEach'
    BY <2>2, <2>3, <2>4 DEF OneOfEach, Inv
  <2>15. StacksTyped'
    BY <2>6 DEF Restacked, StacksTyped
  <2>16. Len(entry') <= MaxSeq
    BY <1>9, <2>1, <2>3, ProcessAssumption DEF m
  <2> QED
    BY <1>3, <2>3, <2>9, <2>10, <2>11, <2>12, <2>13, <2>14, <2>15, <2>16, ClientStays
       DEF Inv, TypeInv, ListInv, SystemTyped, DriverTyped, osvars
<1> QED
  BY <1>7, <1>8, <1>9 DEF Finds, Find, FindFails

\* The entry that a call allocated becomes known: listed, or freed when another
\* thread was faster.
LEMMA InsertionKeeps ==
  ASSUME Inv, NEW t \in Threads, At(t, "insert"),
         NEW m, m = Top(t).mine,
         NEW g \in FrameType, SetTop(t, g),
         g.mine = 0, g.pc \in {"check", "fill"}, g.full = Top(t).full,
         g.seq \in Known \union {m}, g.seq # 0,
         entry' \in Seq(EntryType), Len(entry') = Len(entry),
         \A s \in Seqs : s # m =>
           /\ entry'[s].pid = entry[s].pid
           /\ entry'[s].listed = entry[s].listed
           /\ entry'[s].freed = entry[s].freed
           /\ entry'[s].init = entry[s].init
           /\ entry'[s].full = entry[s].full
           /\ s \notin Known => entry'[s] = entry[s],
         entry'[m].listed \/ entry'[m].freed,
         ~(entry'[m].listed /\ entry'[m].freed),
         ~entry'[m].init, entry'[m].full = {},
         OneOfEach',
         UNCHANGED <<osvars, logLock, op, freeing, uservars, begun>>
  PROVE  Inv'
<1> DEFINE f == Top(t)
           n == Len(stack[t]) - 1
           S == <<g>>
<1>1. /\ stack[t] # << >> /\ f \in FrameType /\ f.pc = "insert"
      /\ FrameOK(f, Known)
      /\ Len(stack[t]) \in Nat \ {0} /\ f = stack[t][Len(stack[t])]
  BY AtTop
<1>2. m # 0 /\ m \in Seqs \ Known
  <2>1. Len(stack[t]) \in 1 .. Len(stack[t])
    BY <1>1
  <2>2. m # 0
    BY <1>1 DEF FrameOK
  <2> QED
    BY <1>1, <2>1, <2>2 DEF Inv, ListInv, MineOK
<1>3. Seqs' = Seqs
  BY DEF Seqs
<1>4. Known' = Known \union {m}
  BY <1>2, <1>3 DEF Known
<1>5. Restacked(t, n, S)
  BY <1>1, Topped DEF Inv, TypeInv
<1>6. S \in Seq(FrameType) /\ Len(S) = 1 /\ \A k \in 1 .. Len(S) : k = 1 /\ S[k] = g
  OBVIOUS
<1> HIDE DEF S
<1>7. EntriesOK'
  <2>1. ASSUME NEW s \in Seqs
        PROVE  /\ ~(entry'[s].listed /\ entry'[s].freed)
               /\ entry'[s].full \subseteq Known' \union {0}
               /\ s \notin Known' => /\ entry'[s].refs = 1
                                     /\ ~entry'[s].init
                                     /\ entry'[s].full = {}
                                     /\ entry'[s].exit = "no"
    <3>1. CASE s = m
      BY <1>4, <3>1
    <3>2. CASE s # m
      BY <1>4, <3>2 DEF Inv, ListInv, EntriesOK
    <3> QED
      BY <3>1, <3>2
  <2> QED
    BY <1>3, <2>1 DEF EntriesOK
<1>8. FramesOK'
  <2>1. FrameOK(g, Known')
    BY <1>1, <1>4 DEF FrameOK
  <2>2. \A k \in 1 .. Len(S) : FrameOK(S[k], Known') /\ (S[k].pc = "parent" <=> k < Len(S))
    BY <1>6, <2>1
  <2> QED
    BY <1>4, <1>5, <1>6, <2>2, FramesKept DEF Inv, ListInv, TypeInv
<1>9. MineOK'
  <2>1. \A s \in Seqs \ Known :
           \/ s \in Seqs' \ Known' /\ entry'[s].pid = entry[s].pid
           \/ stack[t] # << >> /\ Top(t).mine = s
    BY <1>1, <1>3, <1>4
  <2>2. \A k \in 1 .. Len(S) : S[k].mine = 0
    BY <1>6
  <2>4. StacksTyped /\ MineOK
    BY DEF Inv, ListInv, TypeInv
  <2> HIDE DEF f, n
  <2> QED
    BY <1>5, <1>6, <2>1, <2>2, <2>4, MineKept
<1>10. OpsOK'
  <2>1. stack'[t] # << >>
    BY <1>1, <1>5, <1>6 DEF Restacked
  <2>2. op[t].kind # "idle" /\ op[t].parent \in Known \union {0}
    BY <1>1 DEF Inv, ListInv, OpsOK
  <2>3. ~(op[t].kind = "exit" /\ op[t].step # "ref")
    BY <1>1 DEF Inv, ListInv, OpsOK
  <2>4. \A u \in Threads : /\ u # t => stack'[u] = stack[u] /\ op'[u] = op[u]
                           /\ freeing'[u] \in Known' \union {0}
    BY <1>4, <1>5 DEF Restacked, Inv, ListInv, OpsOK
  <2> QED
    BY <1>4, <2>1, <2>2, <2>3, <2>4, OpsKept DEF Inv, ListInv
<1>11. InitLogged'
  <2>1. \A s \in Seqs' : entry'[s].listed /\ entry'[s].init =>
          s \in Seqs /\ entry[s].listed /\ entry[s].init
    BY <1>3
  <2>2. \A i \in 1 .. Len(stack[t]) : stack[t][i].pc \in FillPcs => i <= n
    BY <1>1 DEF FillPcs
  <2>3. \A s \in Seqs : table[s] # << >> => table'[s] # << >>
    BY DEF uservars
  <2> HIDE DEF n
  <2> QED
    BY <1>5, <1>6, <2>1, <2>2, <2>3, LoggedKept DEF Inv, TypeInv
<1>12. StacksTyped'
  BY <1>5 DEF Restacked, StacksTyped
<1> QED
  BY <1>7, <1>8, <1>9, <1>10, <1>11, <1>12, ClientStays
     DEF Inv, TypeInv, ListInv, SystemTyped, DriverTyped, osvars

LEMMA InsertKeeps ==
  ASSUME Inv, NEW t \in Threads, Insert(t), UNCHANGED begun
  PROVE  Inv'
<1> DEFINE f == Top(t)
           p == f.pid
           m == f.mine
<1>1. /\ stack[t] # << >> /\ f \in FrameType /\ f.pc = "insert"
      /\ FrameOK(f, Known)
      /\ Len(stack[t]) \in Nat \ {0} /\ f = stack[t][Len(stack[t])]
  BY AtTop DEF Insert
<1>2. /\ m \in Seqs \ Known /\ m # 0 /\ m \in Nat
      /\ entry[m].pid = p /\ entry[m] \in EntryType
      /\ ~entry[m].listed /\ ~entry[m].freed /\ ~entry[m].init /\ entry[m].full = {}
  <2>1. Len(stack[t]) \in 1 .. Len(stack[t])
    BY <1>1
  <2>2. m # 0
    BY <1>1 DEF FrameOK
  <2>3. m \in Seqs \ Known /\ entry[m].pid = p
    BY <1>1, <2>1, <2>2 DEF Inv, ListInv, MineOK
  <2> QED
    BY <1>1, <2>2, <2>3, EntryTyped DEF Inv, TypeInv, ListInv, EntriesOK, Known
<1>3. /\ At(t, "insert")
      /\ UNCHANGED <<osvars, logLock, op, freeing, uservars, begun>>
  BY DEF Insert
<1>4. CASE /\ Listed(p) # {}
           /\ entry' = [s \in Seqs |-> IF s = m THEN Freed
                                       ELSE IF s = Found(p) THEN Held(entry[s])
                                       ELSE entry[s]]
           /\ SetTop(t, [f EXCEPT !.pc = "check", !.seq = Found(p), !.mine = 0])
  <2> DEFINE s == Found(p)
             g == [f EXCEPT !.pc = "check", !.seq = s, !.mine = 0]
  <2>1. s \in Known /\ s \in Seqs /\ s # 0 /\ s \in Nat /\ entry[s] \in EntryType
    BY <1>4, FoundIsListed, EntryTyped DEF Inv, TypeInv
  <2>2. SetTop(t, g)
    BY <1>4
  <2>3. entry' = [r \in Seqs |-> IF r = m THEN Freed
                                 ELSE IF r = s THEN Held(entry[r]) ELSE entry[r]]
    BY <1>4
  <2>4. "check" \in PCs
    BY DEF PCs
  <2> HIDE DEF s, f
  <2>5. /\ g \in FrameType /\ g.pc = "check" /\ g.mine = 0 /\ g.seq = s
        /\ g.full = f.full
    BY <1>1, <2>1, <2>4 DEF FrameType
  <2> HIDE DEF g
  <2>6. \A r \in Seqs : entry'[r] = IF r = m THEN Freed
                                    ELSE IF r = s THEN Held(entry[r]) ELSE entry[r]
    BY <2>3
  <2>7. /\ entry' \in Seq(EntryType) /\ Len(entry') = Len(entry)
        /\ Seqs = 1 .. Len(entry) /\ Len(entry) \in Nat
    <3>1. Seqs = 1 .. Len(entry) /\ Len(entry) \in Nat
      BY LenProperties DEF Seqs, Inv, TypeInv, DriverTyped
    <3>2. \A r \in Seqs : entry[r] \in EntryType /\ Held(entry[r]) \in EntryType
      BY EntryTyped, CountFields DEF Inv, TypeInv
    <3>3. entry' \in [Seqs -> EntryType]
      BY <2>3, <3>2, FreedFields
    <3> QED
      BY <3>1, <3>3, FunctionIsSeq
  <2>8. \A r \in Seqs : r # m =>
           /\ entry'[r].pid = entry[r].pid
           /\ entry'[r].listed = entry[r].listed
           /\ entry'[r].freed = entry[r].freed
           /\ entry'[r].init = entry[r].init
           /\ entry'[r].full = entry[r].full
           /\ r \notin Known => entry'[r] = entry[r]
    BY <2>1, <2>6, CountFields
  <2>9. entry'[m] = Freed
    BY <1>2, <2>6
  <2>10. OneOfEach'
    BY <2>7, <2>8, <2>9, FreedFields DEF OneOfEach, Seqs, Inv
  <2> QED
    BY <1>2, <1>3, <2>1, <2>2, <2>5, <2>7, <2>8, <2>9, <2>10, FreedFields, InsertionKeeps
       DEF f
<1>5. CASE /\ Listed(p) = {}
           /\ entry' = With(m, [Held(entry[m]) EXCEPT !.listed = TRUE])
           /\ SetTop(t, [f EXCEPT !.pc = IF f.sync THEN "fill" ELSE "check",
                                  !.seq = m, !.mine = 0, !.again = f.sync])
  <2> DEFINE x == IF f.sync THEN "fill" ELSE "check"
             b == f.sync
             h == Held(entry[m])
             e == [h EXCEPT !.listed = TRUE]
             g == [f EXCEPT !.pc = x, !.seq = m, !.mine = 0, !.again = b]
  <2>1. SetTop(t, g) /\ entry' = With(m, e)
    BY <1>5
  <2>2. x \in PCs /\ x \in {"fill", "check"} /\ b \in BOOLEAN
    BY <1>1 DEF PCs, FrameType
  <2>3. /\ h \in EntryType /\ h.pid = p /\ ~h.freed /\ ~h.init /\ h.full = {}
    BY <1>2, CountFields
  <2> HIDE DEF x, b, h
  <2>4. /\ e \in EntryType /\ e.pid = p /\ e.listed /\ ~e.freed /\ ~e.init
        /\ e.full = {}
    BY <2>3 DEF EntryType
  <2> HIDE DEF e, m, f, p
  <2>5. /\ g \in FrameType /\ g.pc = x /\ g.mine = 0 /\ g.seq = m
        /\ g.full = f.full
    BY <1>1, <1>2, <2>2 DEF FrameType
  <2> HIDE DEF g
  <2>6. /\ entry' \in Seq(EntryType) /\ Len(entry') = Len(entry)
        /\ entry'[m] = e
        /\ \A r \in Seqs : r # m => entry'[r] = entry[r]
    BY <1>2, <2>1, <2>4, WithDoes DEF Inv, TypeInv
  <2>7. OneOfEach'
    <3>1. \A r \in Seqs : entry[r].listed => entry[r].pid # p
      BY <1>5 DEF Listed
    <3> QED
      BY <2>4, <2>6, <3>1 DEF OneOfEach, Seqs, Inv
  <2> QED
    BY <1>2, <1>3, <2>1, <2>2, <2>4, <2>5, <2>6, <2>7, InsertionKeeps DEF f, m
<1> QED
  BY <1>4, <1>5 DEF Insert

\* Entries that others can see are freed, or lose a count; no call takes part.
LEMMA FreeingKeeps ==
  ASSUME Inv,
         entry' \in Seq(EntryType), Len(entry') = Len(entry),
         \A s \in Seqs :
           \/ s \in Known /\ entry'[s] = Freed
           \/ /\ entry'[s].pid = entry[s].pid
              /\ entry'[s].listed = entry[s].listed
              /\ entry'[s].freed = entry[s].freed
              /\ entry'[s].init = entry[s].init
              /\ entry'[s].full = entry[s].full
              /\ s \notin Known => entry'[s] = entry[s],
         freeing' \in [Threads -> Nat],
         \A u \in Threads : freeing'[u] \in Known \union {0},
         UNCHANGED <<osvars, logLock, stack, op, uservars, begun>>
  PROVE  Inv'
<1>1. Seqs' = Seqs
  BY DEF Seqs
<1>2. Known' = Known
  BY <1>1, FreedFields DEF Known
<1>3. EntriesOK'
  BY <1>1, <1>2, FreedFields DEF EntriesOK, Inv, ListInv
<1>4. FramesOK'
  BY <1>2 DEF FramesOK, Inv, ListInv
<1>5. MineOK'
  BY <1>1, <1>2 DEF MineOK, Inv, ListInv
<1>6. OpsOK'
  BY <1>2 DEF OpsOK, Inv, ListInv
<1>7. OneOfEach'
  BY <1>1, FreedFields DEF OneOfEach, Inv
<1>8. InitLogged'
  <2>1. \A s : Filling(s)' <=> Filling(s)
    BY DEF Filling
  <2>2. table' = table
    BY DEF uservars
  <2> QED
    BY <1>1, <2>1, <2>2, FreedFields DEF InitLogged, Inv
<1> QED
  BY <1>3, <1>4, <1>5, <1>6, <1>7, <1>8, ClientStays
     DEF Inv, TypeInv, ListInv, SystemTyped, DriverTyped, StacksTyped, osvars

LEMMA FreeEntryKeeps ==
  ASSUME Inv, NEW t \in Threads, FreeEntry(t), UNCHANGED begun
  PROVE  Inv'
<1> DEFINE s == freeing[t]
<1>1. s \in Known /\ s \in Seqs
  BY DEF FreeEntry, Inv, ListInv, OpsOK, Known
<1>2. freeing' = [freeing EXCEPT ![t] = 0]
  BY DEF FreeEntry
<1>3. /\ freeing' \in [Threads -> Nat]
      /\ \A u \in Threads : freeing'[u] \in Known \union {0}
  BY <1>2 DEF Inv, TypeInv, DriverTyped, ListInv, OpsOK
<1>4. UNCHANGED <<osvars, logLock, stack, op, uservars, begun>>
  BY DEF FreeEntry
<1>5. entry' = With(s, Freed) \/ entry' = entry
  BY DEF FreeEntry
<1> HIDE DEF s
<1>6. CASE entry' = With(s, Freed)
  <2>1. /\ entry' \in Seq(EntryType) /\ Len(entry') = Len(entry)
        /\ entry'[s] = Freed
        /\ \A r \in Seqs : r # s => entry'[r] = entry[r]
    BY <1>1, <1>6, WithDoes, FreedFields DEF Inv, TypeInv
  <2> QED
    BY <1>1, <1>3, <1>4, <2>1, FreeingKeeps
<1>7. CASE entry' = entry
  <2>1. entry' \in Seq(EntryType) /\ Len(entry') = Len(entry)
    BY <1>7 DEF Inv, TypeInv, DriverTyped
  <2> QED
    BY <1>3, <1>4, <1>7, <2>1, FreeingKeeps
<1> QED
  BY <1>5, <1>6, <1>7

LEMMA DroppedFields ==
  ASSUME NEW e \in EntryType
  PROVE  /\ Dropped(e) \in EntryType
         /\ \/ Dropped(e) = Freed /\ e.refs = 1
            \/ /\ Dropped(e).pid = e.pid /\ Dropped(e).life = e.life
               /\ Dropped(e).listed = e.listed /\ Dropped(e).freed = e.freed
               /\ Dropped(e).init = e.init /\ Dropped(e).full = e.full
               /\ Dropped(e).refs = e.refs - 1 /\ Dropped(e).exit = "no"
               /\ e.refs # 1
<1>1. CASE e.refs = 1
  BY <1>1, FreedFields DEF Dropped
<1>2. CASE e.refs # 1
  <2>1. Dropped(e) = [e EXCEPT !.refs = e.refs - 1, !.exit = "no"]
    BY <1>2 DEF Dropped
  <2>2. e.refs - 1 \in Int
    BY DEF EntryType
  <2> DEFINE r == e.refs - 1
  <2> HIDE DEF r
  <2>3. r \in Int /\ Dropped(e) = [e EXCEPT !.refs = r, !.exit = "no"]
    BY <2>1, <2>2 DEF r
  <2>4. /\ Dropped(e) \in EntryType
        /\ Dropped(e).pid = e.pid /\ Dropped(e).life = e.life
        /\ Dropped(e).listed = e.listed /\ Dropped(e).freed = e.freed
        /\ Dropped(e).init = e.init /\ Dropped(e).full = e.full
        /\ Dropped(e).refs = r /\ Dropped(e).exit = "no"
    BY <2>3 DEF EntryType
  <2> QED
    BY <1>2, <2>4 DEF r
<1> QED
  BY <1>1, <1>2

LEMMA WaitExitStep ==
  ASSUME Inv, WaitExit
  PROVE  Inv'
<1>1. entry' = [s \in Seqs |->
         IF s \in Signalled THEN Dropped(entry[s]) ELSE entry[s]]
  BY DEF WaitExit
<1>2. UNCHANGED <<osvars, logLock, stack, op, freeing, uservars, begun>>
  BY DEF WaitExit, callvars
<1>3. Signalled \subseteq Known
  BY DEF Signalled, Inv, ListInv, EntriesOK
<1>4. \A s \in Seqs : entry[s] \in EntryType
  BY EntryTyped DEF Inv, TypeInv
<1>5. Seqs = 1 .. Len(entry) /\ Len(entry) \in Nat
  BY LenProperties DEF Seqs, Inv, TypeInv, DriverTyped
<1>6. entry' \in Seq(EntryType) /\ Len(entry') = Len(entry)
  <2>1. entry' \in [Seqs -> EntryType]
    BY <1>1, <1>4, DroppedFields
  <2> QED
    BY <1>5, <2>1, FunctionIsSeq
<1>7. ASSUME NEW s \in Seqs
      PROVE  \/ s \in Known /\ entry'[s] = Freed
             \/ /\ entry'[s].pid = entry[s].pid
                /\ entry'[s].listed = entry[s].listed
                /\ entry'[s].freed = entry[s].freed
                /\ entry'[s].init = entry[s].init
                /\ entry'[s].full = entry[s].full
                /\ s \notin Known => entry'[s] = entry[s]
  <2>1. entry'[s] = IF s \in Signalled THEN Dropped(entry[s]) ELSE entry[s]
    BY <1>1
  <2> QED
    BY <1>3, <1>4, <2>1, DroppedFields
<1>8. /\ freeing' \in [Threads -> Nat]
      /\ \A u \in Threads : freeing'[u] \in Known \union {0}
  BY <1>2 DEF Inv, TypeInv, DriverTyped, ListInv, OpsOK
<1> QED
  BY <1>2, <1>6, <1>7, <1>8, FreeingKeeps

-----------------------------------------------------------------------------
(* The intercepted operations.                                             *)

\* A thread starts a call, or has none left, in a list that keeps its entries.
LEMMA RestartKeeps ==
  ASSUME Inv, NEW t \in Threads, NEW S \in Seq(FrameType),
         stack' = [stack EXCEPT ![t] = S],
         \/ S = << >>
         \/ \E p \in Pids, b \in BOOLEAN : S = <<Call(p, b)>>,
         NEW o \in OpType, op' = [op EXCEPT ![t] = o],
         o.kind = "idle" <=> S = << >>,
         o.kind = "exit" => o.step = "ref",
         o.parent \in Known \union {0},
         \A i \in 1 .. Len(stack[t]) : stack[t][i].pc \notin FillPcs,
         Touched,
         \A u \in Threads : freeing'[u] \in Known \union {0},
         \A s \in Seqs : entry'[s].init => entry[s].init,
         table' = table
  PROVE  ListInv' /\ OneOfEach' /\ InitLogged' /\ StacksTyped'
<1>1. Restacked(t, 0, S)
  BY Restarted DEF Inv, TypeInv
<1>2. stack'[t] = S
  BY DEF Inv, TypeInv, StacksTyped
<1>3. op'[t] = o /\ \A u \in Threads : u # t => op'[u] = op[u]
  BY DEF Inv, TypeInv, DriverTyped
<1>4. \A k \in 1 .. Len(S) :
        /\ FrameOK(S[k], Known)
        /\ S[k].pc = "parent" <=> k < Len(S)
        /\ S[k].mine = 0
  <2>1. CASE S = << >>
    BY <2>1
  <2>2. ASSUME NEW p \in Pids, NEW b \in BOOLEAN, S = <<Call(p, b)>>
        PROVE  \A k \in 1 .. Len(S) :
                 /\ FrameOK(S[k], Known)
                 /\ S[k].pc = "parent" <=> k < Len(S)
                 /\ S[k].mine = 0
    <3> DEFINE c == Call(p, b)
    <3>1. /\ c.pc = "find" /\ c.mine = 0 /\ c.seq = 0 /\ c.full = {}
      BY CallFields
    <3>2. S = <<c>>
      BY <2>2
    <3> HIDE DEF c
    <3>3. Len(S) = 1 /\ \A k \in 1 .. Len(S) : k = 1 /\ S[k] = c
      BY <3>2
    <3>4. FrameOK(c, Known)
      BY <3>1 DEF FrameOK
    <3> QED
      BY <3>1, <3>3, <3>4
  <2> QED
    BY <2>1, <2>2
<1>5. o.kind = "exit" /\ o.step # "ref" => FALSE
  OBVIOUS
<1>6. \A s \in Seqs : table[s] # << >> => table'[s] # << >>
  OBVIOUS
<1>7. op'[t].kind = "idle" <=> stack'[t] = << >>
  BY <1>2, <1>3
<1> QED
  BY <1>1, <1>3, <1>4, <1>5, <1>6, <1>7, StepKeeps

LEMMA DoingFields ==
  ASSUME NEW k \in OpKinds, NEW p \in Pids, NEW q \in Pids
  PROVE  /\ Doing(k, p, q) \in OpType
         /\ Doing(k, p, q).kind = k /\ Doing(k, p, q).step = "ref"
         /\ Doing(k, p, q).pid = p /\ Doing(k, p, q).about = q
         /\ Doing(k, p, q).parent = 0
BY DEF Doing, OpType

\* An operation arrives: the thread had none, and the list is left alone.
LEMMA BeginKeeps ==
  ASSUME Inv, NEW t \in Threads, Ready(t),
         NEW k \in OpKinds \ {"idle"}, NEW p \in Pids, NEW q \in Pids,
         NEW b \in BOOLEAN,
         Begin(t, Doing(k, p, q), p, b),
         UNCHANGED <<entry, logLock, freeing, uservars>>,
         SystemTyped'
  PROVE  Inv'
<1> DEFINE S == <<Call(p, b)>>
           o == Doing(k, p, q)
<1>1. /\ begun' \in 0 .. MaxOps
      /\ op' = [op EXCEPT ![t] = o]
      /\ stack' = [stack EXCEPT ![t] = S]
  BY ProcessAssumption DEF Begin, Inv, TypeInv, DriverTyped
<1>2. stack[t] = << >>
  BY DEF Ready, Inv, ListInv, OpsOK
<1>3. S \in Seq(FrameType) /\ S # << >>
  BY CallFields
<1>4. /\ o \in OpType /\ o.kind = k /\ o.step = "ref" /\ o.parent = 0
  BY DoingFields
<1>5. Touched
  BY UnchangedTouches DEF Inv, TypeInv, ListInv
<1>6. \E x \in Pids, y \in BOOLEAN : S = <<Call(x, y)>>
  OBVIOUS
<1> HIDE DEF S, o
<1>7. ListInv' /\ OneOfEach' /\ InitLogged' /\ StacksTyped'
  <2>1. \A u \in Threads : freeing'[u] \in Known \union {0}
    BY DEF Inv, ListInv, OpsOK
  <2>2. table' = table
    BY DEF uservars
  <2>3. \A i \in 1 .. Len(stack[t]) : stack[t][i].pc \notin FillPcs
    BY <1>2
  <2> QED
    BY <1>1, <1>3, <1>4, <1>5, <1>6, <2>1, <2>2, <2>3, RestartKeeps
<1>8. op' \in [Threads -> OpType]
  BY <1>1, <1>4 DEF Inv, TypeInv, DriverTyped
<1> QED
  BY <1>1, <1>5, <1>7, <1>8, ClientStays
     DEF Inv, TypeInv, DriverTyped, Touched

LEMMA EnterKeeps ==
  ASSUME Inv, NEW t \in Threads, Enter(t)
  PROVE  Inv'
<1>1. PICK p \in Pids, k \in Kinds :
        status[p] = "alive" /\ Begin(t, Doing(k, p, p), p, k # "paging")
  BY DEF Enter
<1>2. k \in OpKinds \ {"idle"} /\ (k # "paging") \in BOOLEAN
  BY ProcessAssumption DEF OpKinds
<1>3. /\ Ready(t) /\ UNCHANGED <<osvars, entry, logLock, freeing, uservars>>
  BY DEF Enter
<1>4. SystemTyped'
  BY <1>3 DEF SystemTyped, osvars, Inv, TypeInv
<1> QED
  BY <1>1, <1>2, <1>3, <1>4, BeginKeeps

LEMMA CreateKeeps ==
  ASSUME Inv, NEW t \in Threads, Create(t)
  PROVE  Inv'
<1>1. PICK p \in Pids, q \in Pids :
        /\ life[q] < MaxLife
        /\ life' = [life EXCEPT ![q] = @ + 1]
        /\ status' = [status EXCEPT ![q] = "born"]
        /\ inherited' = [inherited EXCEPT ![q] = p]
        /\ Begin(t, Doing("create", p, q), p, TRUE)
  BY DEF Create
<1>2. Ready(t) /\ UNCHANGED <<entry, logLock, freeing, uservars>>
  BY DEF Create
<1>3. SystemTyped'
  BY <1>1, ProcessAssumption DEF SystemTyped, Inv, TypeInv
<1>4. "create" \in OpKinds \ {"idle"}
  BY DEF OpKinds
<1> QED
  BY <1>1, <1>2, <1>3, <1>4, BeginKeeps

LEMMA ExitKeeps ==
  ASSUME Inv, NEW t \in Threads, Exit(t)
  PROVE  Inv'
<1>1. PICK p \in Pids :
        /\ status' = [status EXCEPT ![p] = "exiting"]
        /\ Begin(t, Doing("exit", p, p), p, TRUE)
  BY DEF Exit
<1>2. Ready(t) /\ UNCHANGED <<life, inherited, entry, logLock, freeing, uservars>>
  BY DEF Exit
<1>3. SystemTyped'
  BY <1>1, <1>2 DEF SystemTyped, Inv, TypeInv
<1>4. "exit" \in OpKinds \ {"idle"}
  BY DEF OpKinds
<1> QED
  BY <1>1, <1>2, <1>3, <1>4, BeginKeeps

\* What the guard Returned says of the only call of the thread.
LEMMA AtReturn ==
  ASSUME Inv, NEW t \in Threads, NEW k, NEW s, Returned(t, k, s)
  PROVE  /\ Len(stack[t]) = 1
         /\ Top(t) = stack[t][1]
         /\ Top(t) \in FrameType
         /\ Top(t).pc = "return"
         /\ Top(t).seq \in Known \union {0}
         /\ Top(t).seq \in Seqs \union {0}
         /\ Top(t).seq \in 0 .. MaxSeq
         /\ \A i \in 1 .. Len(stack[t]) : stack[t][i].pc \notin FillPcs
         /\ op[t] \in OpType /\ op[t].kind \in k /\ op[t].step = s
         /\ op[t].parent \in Known \union {0}
         /\ freeing[t] = 0
<1>1. At(t, "return") /\ Len(stack[t]) = 1 /\ op[t].kind \in k /\ op[t].step = s
  BY DEF Returned
<1>2. /\ Top(t) = stack[t][1] /\ Top(t) \in FrameType /\ Top(t).pc = "return"
      /\ FrameOK(Top(t), Known) /\ freeing[t] = 0
  BY <1>1, AtTop
<1>3. /\ Top(t).seq \in Known \union {0}
      /\ Top(t).seq \in Seqs \union {0}
  BY <1>2 DEF FrameOK, Known
<1>4. Top(t).seq \in 0 .. MaxSeq
  BY <1>3, LenProperties, ProcessAssumption DEF Seqs, Inv, TypeInv, DriverTyped
<1>5. op[t] \in OpType /\ op[t].parent \in Known \union {0}
  BY DEF Inv, TypeInv, DriverTyped, ListInv, OpsOK
<1> QED
  BY <1>1, <1>2, <1>3, <1>4, <1>5 DEF FillPcs

\* The operation is over.
LEMMA FinishKeeps ==
  ASSUME Inv, NEW t \in Threads, NEW k, NEW s, Returned(t, k, s), Finish(t),
         Touched,
         \A u \in Threads : freeing'[u] \in Known \union {0},
         \A r \in Seqs : entry'[r].init => entry[r].init,
         table' = table
  PROVE  ListInv' /\ OneOfEach' /\ InitLogged' /\ StacksTyped'
         /\ op' \in [Threads -> OpType]
<1>1. /\ op' = [op EXCEPT ![t] = Idle]
      /\ stack' = [stack EXCEPT ![t] = << >>]
  BY DEF Finish
<1>2. /\ Idle \in OpType /\ Idle.kind = "idle" /\ Idle.parent = 0
  <2>1. AnyPid \in Pids /\ "idle" \in OpKinds
    BY ProcessAssumption DEF AnyPid, OpKinds
  <2> QED
    BY <2>1, DoingFields DEF Idle
<1>3. \A i \in 1 .. Len(stack[t]) : stack[t][i].pc \notin FillPcs
  BY AtReturn
<1>4. << >> \in Seq(FrameType)
  OBVIOUS
<1>5. op' \in [Threads -> OpType]
  BY <1>1, <1>2 DEF Inv, TypeInv, DriverTyped
<1> QED
  BY <1>1, <1>2, <1>3, <1>4, <1>5, RestartKeeps

\* An operation calls RefProcessInfo once more.
LEMMA CallAgainKeeps ==
  ASSUME Inv, NEW t \in Threads, NEW k, NEW s, Returned(t, k, s),
         NEW p \in Pids, NEW b \in BOOLEAN,
         stack' = [stack EXCEPT ![t] = <<Call(p, b)>>],
         NEW o \in OpType, op' = [op EXCEPT ![t] = o],
         o.kind \notin {"idle", "exit"}, o.parent \in Known \union {0},
         Touched,
         \A u \in Threads : freeing'[u] \in Known \union {0},
         \A r \in Seqs : entry'[r].init => entry[r].init,
         table' = table
  PROVE  ListInv' /\ OneOfEach' /\ InitLogged' /\ StacksTyped'
         /\ op' \in [Threads -> OpType]
<1> DEFINE S == <<Call(p, b)>>
<1>1. S \in Seq(FrameType) /\ S # << >>
  BY CallFields
<1>2. stack' = [stack EXCEPT ![t] = S] /\ \E x \in Pids, y \in BOOLEAN : S = <<Call(x, y)>>
  OBVIOUS
<1>3. \A i \in 1 .. Len(stack[t]) : stack[t][i].pc \notin FillPcs
  BY AtReturn
<1>4. op' \in [Threads -> OpType]
  BY DEF Inv, TypeInv, DriverTyped
<1> HIDE DEF S
<1> QED
  BY <1>1, <1>2, <1>3, <1>4, RestartKeeps

\* Only the step of the exit changes.
LEMMA ExitStepKeeps ==
  ASSUME Inv, NEW t \in Threads, NEW s, Returned(t, {"exit"}, s),
         Top(t).seq # 0,
         NEW x \in {"log", "queue"}, op' = [op EXCEPT ![t].step = x],
         stack' = stack,
         Touched,
         \A u \in Threads : freeing'[u] \in Known \union {0},
         \A r \in Seqs : entry'[r].init => entry[r].init,
         table' = table
  PROVE  ListInv' /\ OneOfEach' /\ InitLogged' /\ StacksTyped'
         /\ op' \in [Threads -> OpType]
<1>1. /\ Len(stack[t]) = 1 /\ Top(t) = stack[t][1] /\ Top(t).pc = "return"
      /\ op[t] \in OpType /\ op[t].kind = "exit" /\ op[t].parent \in Known \union {0}
      /\ Top(t) \in FrameType
  BY AtReturn
<1> DEFINE o == [op[t] EXCEPT !.step = x]
<1>2. op' = [op EXCEPT ![t] = o]
  BY DEF Inv, TypeInv, DriverTyped
<1>3. o \in OpType /\ o.kind = "exit" /\ o.parent \in Known \union {0}
  BY <1>1 DEF OpType
<1> HIDE DEF o
<1>4. /\ op' \in [Threads -> OpType]
      /\ op'[t] = o /\ \A u \in Threads : u # t => op'[u] = op[u]
  BY <1>2, <1>3 DEF Inv, TypeInv, DriverTyped
<1>5. /\ Seqs' = Seqs
      /\ Known' = Known
      /\ EntriesOK'
      /\ \A r \in Seqs \ Known :
           r \in Seqs' \ Known' /\ entry'[r].pid = entry[r].pid
  BY TouchedKeeps DEF Inv, ListInv
<1>6. FramesOK'
  BY <1>5 DEF FramesOK, Inv, ListInv
<1>7. MineOK'
  BY <1>5 DEF MineOK, Inv, ListInv
<1>8. OpsOK'
  <2>1. stack[t] # << >>
    BY <1>1, EmptySeq
  <2> QED
    BY <1>1, <1>3, <1>4, <1>5, <2>1, OpsKept DEF Inv, ListInv
<1>9. InitLogged'
  <2>1. \A r : Filling(r)' <=> Filling(r)
    BY DEF Filling
  <2> QED
    BY <1>5, <2>1 DEF InitLogged, Inv, Touched
<1>10. StacksTyped'
  BY DEF StacksTyped, Inv, TypeInv
<1> QED
  BY <1>4, <1>5, <1>6, <1>7, <1>8, <1>9, <1>10, OneKept DEF ListInv, Inv

\* The references a thread drops are of entries that others can see.
LEMMA FreeingKnown ==
  ASSUME Inv, NEW s \in Known \union {0},
         \A u \in Threads : freeing'[u] \in {freeing[u], s}
  PROVE  \A u \in Threads : freeing'[u] \in Known \union {0}
BY DEF Inv, ListInv, OpsOK

LEMMA RunsTyped ==
  ASSUME SystemTyped, NEW t \in Threads, Runs(t)
  PROVE  SystemTyped'
BY DEF SystemTyped, Runs

\* A reference that is kept is one to no entry given back.
LEMMA SkipsDo ==
  ASSUME Inv, NEW t \in Threads, Skips(t)
  PROVE  /\ Returned(t, Reports, "ref") /\ Finish(t) /\ Runs(t)
         /\ UNCHANGED <<logLock, uservars>>
         /\ \E s \in Known \union {0} : s \in {0, Top(t).seq} /\ Deref(t, s)
<1>1. CASE Skip(t)
  BY <1>1, AtReturn DEF Skip
<1>2. CASE SkipUnmarked(t)
  <2>1. /\ Returned(t, Reports, "ref") /\ Finish(t) /\ Runs(t)
        /\ UNCHANGED <<logLock, uservars>>
    BY <1>2 DEF SkipUnmarked, NeedsInit, Runs, osvars
  <2>2. entry' = entry /\ freeing' = freeing
    BY <1>2 DEF SkipUnmarked
  <2>3. entry = [r \in Seqs |-> entry[r]]
    BY DEF Inv, TypeInv, DriverTyped, Seqs
  <2>4. 0 \notin Seqs
    BY DEF Seqs
  <2>5. Deref(t, 0)
    BY <2>2, <2>3, <2>4 DEF Deref, Derefs
  <2> QED
    BY <2>1, <2>5
<1> QED
  BY <1>1, <1>2 DEF Skips

LEMMA SkipKeeps ==
  ASSUME Inv, NEW t \in Threads, Skips(t), UNCHANGED begun
  PROVE  Inv'
<1>1. /\ Returned(t, Reports, "ref") /\ Finish(t) /\ Runs(t)
      /\ UNCHANGED <<logLock, uservars>>
  BY SkipsDo
<1>2. PICK s \in Known \union {0} : Deref(t, s)
  BY SkipsDo
<1>3. /\ Touched /\ freeing' \in [Threads -> Nat]
      /\ \A u \in Threads : freeing'[u] \in {freeing[u], s}
      /\ \A r \in Seqs : entry'[r].init = entry[r].init
  BY <1>1, <1>2, DerefTouches DEF Inv, TypeInv, ListInv
<1>4. \A u \in Threads : freeing'[u] \in Known \union {0}
  BY <1>2, <1>3, FreeingKnown
<1>5. /\ ListInv' /\ OneOfEach' /\ InitLogged' /\ StacksTyped'
      /\ op' \in [Threads -> OpType]
  BY <1>1, <1>3, <1>4, FinishKeeps DEF uservars
<1>6. SystemTyped'
  BY <1>1, RunsTyped DEF Inv, TypeInv
<1> QED
  BY <1>1, <1>3, <1>5, <1>6, ClientStays DEF Inv, TypeInv, DriverTyped, Touched

\* An event with the table as it is.
LEMMA EventKeeps ==
  ASSUME Inv, NEW kind, NEW s \in 0 .. MaxSeq,
         Emit(kind, s, table) \/ UNCHANGED <<cache, built>>, table' = table
  PROVE  ClientTyped' /\ KnownAfterInit'
<1>1. CASE Emit(kind, s, table)
  <2>1. /\ table \in [1 .. MaxSeq -> Seq({"init", "create"})]
        /\ \A r \in 1 .. MaxSeq : Len(table[r]) <= Len(table[r])
    BY LenProperties DEF Inv, TypeInv, ClientTyped
  <2> QED
    BY <1>1, <2>1, EmitKeeps DEF Inv, TypeInv
<1>2. CASE UNCHANGED <<cache, built>>
  BY <1>2, ClientStays DEF Inv, TypeInv, uservars
<1> QED
  BY <1>1, <1>2

LEMMA LogKeeps ==
  ASSUME Inv, NEW t \in Threads, Log(t), UNCHANGED begun
  PROVE  Inv'
<1> DEFINE s == Top(t).seq
           k == op[t].kind
<1>1. /\ Returned(t, Reports, "ref") /\ Finish(t) /\ Runs(t) /\ Deref(t, s)
      /\ Emit(k, s, table)
      /\ UNCHANGED <<logLock, table>>
  BY DEF Log
<1>2. s \in Known \union {0} /\ s \in 0 .. MaxSeq
  BY <1>1, AtReturn
<1> HIDE DEF s, k
<1>3. /\ Touched /\ freeing' \in [Threads -> Nat]
      /\ \A u \in Threads : freeing'[u] \in {freeing[u], s}
      /\ \A r \in Seqs : entry'[r].init = entry[r].init
  BY <1>1, <1>2, DerefTouches DEF Inv, TypeInv, ListInv
<1>4. \A u \in Threads : freeing'[u] \in Known \union {0}
  BY <1>2, <1>3, FreeingKnown
<1>5. /\ ListInv' /\ OneOfEach' /\ InitLogged' /\ StacksTyped'
      /\ op' \in [Threads -> OpType]
  BY <1>1, <1>3, <1>4, FinishKeeps
<1>6. SystemTyped'
  BY <1>1, RunsTyped DEF Inv, TypeInv
<1>7. ClientTyped' /\ KnownAfterInit'
  BY <1>1, <1>2, EventKeeps
<1> QED
  BY <1>1, <1>3, <1>5, <1>6, <1>7 DEF Inv, TypeInv, DriverTyped, Touched

LEMMA CreateChildKeeps ==
  ASSUME Inv, NEW t \in Threads, CreateChild(t), UNCHANGED begun
  PROVE  Inv'
<1> DEFINE s == Top(t).seq
           p == op[t].about
           w == op[t]
           o == [w EXCEPT !.step = "child", !.parent = s]
<1>1. /\ Returned(t, {"create"}, "ref")
      /\ stack' = [stack EXCEPT ![t] = <<Call(p, FALSE)>>]
      /\ UNCHANGED <<osvars, entry, logLock, freeing, uservars>>
  BY DEF CreateChild
<1>2. op' = [op EXCEPT ![t] = o]
  BY DEF CreateChild, Inv, TypeInv, DriverTyped
<1>3. s \in Known \union {0} /\ w \in OpType /\ w.kind = "create" /\ s \in Nat
  BY <1>1, AtReturn DEF FrameType
<1>4. p \in Pids
  BY <1>3 DEF OpType
<1> HIDE DEF s, w, p
<1>5. o \in OpType /\ o.kind = "create" /\ o.parent = s
  BY <1>3 DEF OpType
<1> HIDE DEF o
<1>6. Touched
  BY <1>1, UnchangedTouches DEF Inv, TypeInv, ListInv
<1>7. /\ ListInv' /\ OneOfEach' /\ InitLogged' /\ StacksTyped'
      /\ op' \in [Threads -> OpType]
  <2>1. \A u \in Threads : freeing'[u] \in Known \union {0}
    BY <1>1 DEF Inv, ListInv, OpsOK
  <2> QED
    BY <1>1, <1>2, <1>3, <1>4, <1>5, <1>6, <2>1, CallAgainKeeps DEF uservars
<1> QED
  BY <1>1, <1>6, <1>7, ClientStays
     DEF Inv, TypeInv, SystemTyped, DriverTyped, Touched, osvars

LEMMA CreateParkKeeps ==
  ASSUME Inv, NEW t \in Threads, Parks(t), UNCHANGED begun
  PROVE  Inv'
<1> DEFINE s == Top(t).seq
           d == op[t].parent
           w == op[t]
           p == op[t].about
           o == [w EXCEPT !.kind = "thread", !.step = "ref", !.parent = 0]
           e == [entry[s] EXCEPT !.full = {d}]
           ents == With(s, e)
<1>1. /\ Returned(t, {"create"}, "child")
      /\ stack' = [stack EXCEPT ![t] = <<Call(p, TRUE)>>]
      /\ UNCHANGED <<osvars, logLock, begun, uservars>>
      /\ \/ Deref(t, d)
         \/ s # 0 /\ Derefs(t, s, ents)
         \/ Deref(t, s)
  BY DEF Parks, CreatePark, ParkFails, ThreadStarts
<1>2. op' = [op EXCEPT ![t] = o]
  BY DEF Parks, CreatePark, ParkFails, ThreadStarts, Inv, TypeInv, DriverTyped
<1>3. /\ s \in Known \union {0} /\ d \in Known \union {0}
      /\ w \in OpType /\ p \in Pids
  BY <1>1, AtReturn DEF OpType
<1>4. o \in OpType /\ o.kind = "thread" /\ o.parent = 0
  BY <1>3 DEF OpType, OpKinds
<1> HIDE DEF s, d, w, p, o
<1>5. /\ Touched /\ freeing' \in [Threads -> Nat]
      /\ \A u \in Threads : freeing'[u] \in Known \union {0}
      /\ \A r \in Seqs : entry'[r].init = entry[r].init
  <2>1. CASE Deref(t, d)
    <3>1. \A u \in Threads : freeing'[u] \in {freeing[u], d}
      BY <1>3, <2>1, DerefTouches DEF Inv, TypeInv, ListInv
    <3>2. \A u \in Threads : freeing'[u] \in Known \union {0}
      BY <1>3, <3>1, FreeingKnown
    <3> QED
      BY <1>3, <2>1, <3>2, DerefTouches DEF Inv, TypeInv, ListInv
  <2>2. CASE Deref(t, s)
    <3>1. \A u \in Threads : freeing'[u] \in {freeing[u], s}
      BY <1>3, <2>2, DerefTouches DEF Inv, TypeInv, ListInv
    <3>2. \A u \in Threads : freeing'[u] \in Known \union {0}
      BY <1>3, <3>1, FreeingKnown
    <3> QED
      BY <1>3, <2>2, <3>2, DerefTouches DEF Inv, TypeInv, ListInv
  <2>3. CASE s # 0 /\ Derefs(t, s, ents)
    <3>1. s \in Known /\ s \in Seqs /\ entry[s] \in EntryType
      BY <1>3, <2>3, EntryTyped DEF Known, Inv, TypeInv
    <3>2. {d} \in Details /\ {d} \subseteq Known \union {0}
      <4>1. d \in Nat
        BY <1>3, EntryTyped DEF Known, Inv, TypeInv
      <4> QED
        BY <1>3, <4>1 DEF Details
    <3>3. /\ e \in EntryType /\ e.init = entry[s].init
          /\ e.pid = entry[s].pid /\ e.life = entry[s].life
          /\ e.listed = entry[s].listed /\ e.freed = entry[s].freed
          /\ e.full = {d}
      BY <3>1, <3>2 DEF EntryType
    <3> HIDE DEF e
    <3>4. /\ ents \in Seq(EntryType) /\ Len(ents) = Len(entry)
          /\ ents[s] = e
          /\ \A r \in Seqs : r # s => ents[r] = entry[r]
      BY <3>1, <3>3, WithDoes DEF Inv, TypeInv
    <3> HIDE DEF ents
    <3>5. ASSUME NEW r \in Seqs
          PROVE  /\ ents[r].pid = entry[r].pid
                 /\ ents[r].life = entry[r].life
                 /\ ents[r].listed = entry[r].listed
                 /\ ents[r].freed = entry[r].freed
                 /\ ents[r].full \subseteq Known \union {0}
                 /\ r \notin Known => ents[r] = entry[r]
      BY <3>1, <3>2, <3>3, <3>4 DEF Inv, ListInv, EntriesOK
    <3>6. /\ Touched
          /\ freeing' \in [Threads -> Nat]
          /\ \A u \in Threads : freeing'[u] \in {freeing[u], s}
      BY <1>3, <2>3, <3>4, <3>5, DerefsTouch DEF Inv, TypeInv, ListInv
    <3>7. \A r \in Seqs : entry'[r].init = entry[r].init
      <4>1. \A r \in Seqs : entry'[r] = IF r = s THEN Less(ents[r]) ELSE ents[r]
        BY <2>3, <3>1, <3>4, DerefsDoes DEF Inv, TypeInv
      <4>2. \A r \in Seqs : ents[r] \in EntryType
        BY <3>4, ElementOfSeq DEF Seqs
      <4> QED
        BY <3>3, <3>4, <4>1, <4>2, CountFields
    <3> QED
      BY <1>3, <3>6, <3>7, FreeingKnown
  <2> QED
    BY <1>1, <2>1, <2>2, <2>3
<1>6. /\ ListInv' /\ OneOfEach' /\ InitLogged' /\ StacksTyped'
      /\ op' \in [Threads -> OpType]
  BY <1>1, <1>2, <1>3, <1>4, <1>5, CallAgainKeeps DEF uservars
<1> QED
  BY <1>1, <1>5, <1>6, ClientStays
     DEF Inv, TypeInv, SystemTyped, DriverTyped, Touched, osvars

\* What the exit leaves in the entry.
LEMMA ExitMarked ==
  ASSUME Inv, NEW s \in Known, NEW x \in {"no", "held", "queued"},
         entry' = With(s, [entry[s] EXCEPT !.exit = x])
  PROVE  Touched /\ \A r \in Seqs : entry'[r].init = entry[r].init
<1> DEFINE e == [entry[s] EXCEPT !.exit = x]
<1>1. s \in Seqs /\ entry[s] \in EntryType
  BY EntryTyped DEF Known, Inv, TypeInv
<1>2. /\ e \in EntryType /\ e.init = entry[s].init
      /\ e.pid = entry[s].pid /\ e.life = entry[s].life
      /\ e.listed = entry[s].listed /\ e.freed = entry[s].freed
      /\ e.full = entry[s].full
  BY <1>1 DEF EntryType
<1>3. entry' = With(s, e)
  OBVIOUS
<1> HIDE DEF e
<1>4. e.full \subseteq Known \union {0}
  BY <1>1, <1>2 DEF Inv, ListInv, EntriesOK
<1>5. Touched
  BY <1>2, <1>3, <1>4, WithTouches DEF Inv, TypeInv, ListInv
<1>6. entry'[s] = e /\ \A r \in Seqs : r # s => entry'[r] = entry[r]
  <2>1. With(s, e)[s] = e /\ \A r \in Seqs : r # s => With(s, e)[r] = entry[r]
    BY <1>1, <1>2, WithDoes DEF Inv, TypeInv
  <2> QED
    BY <1>3, <2>1
<1> QED
  BY <1>2, <1>5, <1>6

LEMMA ExitQueryKeeps ==
  ASSUME Inv, NEW t \in Threads, ExitQuery(t), UNCHANGED begun
  PROVE  Inv'
<1>1. /\ Returned(t, {"exit"}, "ref") /\ Top(t).seq # 0
      /\ op' = [op EXCEPT ![t].step = "log"]
      /\ UNCHANGED <<osvars, logLock, stack, freeing, begun, uservars>>
      /\ \/ entry' = With(Top(t).seq, [entry[Top(t).seq] EXCEPT !.exit = "held"])
         \/ UNCHANGED entry
  BY DEF ExitQuery
<1>2. Top(t).seq \in Known
  BY <1>1, AtReturn
<1>3. Touched /\ \A r \in Seqs : entry'[r].init = entry[r].init
  <2>1. CASE entry' = With(Top(t).seq, [entry[Top(t).seq] EXCEPT !.exit = "held"])
    BY <1>2, <2>1, ExitMarked
  <2>2. CASE UNCHANGED entry
    BY <2>2, UnchangedTouches DEF Inv, TypeInv, ListInv
  <2> QED
    BY <1>1, <2>1, <2>2
<1>4. /\ ListInv' /\ OneOfEach' /\ InitLogged' /\ StacksTyped'
      /\ op' \in [Threads -> OpType]
  <2>1. \A u \in Threads : freeing'[u] \in Known \union {0}
    BY <1>1 DEF Inv, ListInv, OpsOK
  <2> QED
    BY <1>1, <1>3, <2>1, ExitStepKeeps DEF uservars
<1> QED
  BY <1>1, <1>3, <1>4, ClientStays
     DEF Inv, TypeInv, SystemTyped, DriverTyped, Touched, osvars

\* The end of an exit: the process is gone, the thread has no operation left.
LEMMA ExitEndKeeps ==
  ASSUME Inv, NEW t \in Threads, NEW s, Returned(t, {"exit"}, s), ExitEnds(t),
         UNCHANGED <<life, inherited, logLock, freeing, uservars, begun>>,
         Touched, \A r \in Seqs : entry'[r].init = entry[r].init
  PROVE  Inv'
<1>1. /\ Finish(t)
      /\ status' = [status EXCEPT ![op[t].pid] = "gone"]
  BY DEF ExitEnds
<1>2. SystemTyped'
  BY <1>1 DEF SystemTyped, Inv, TypeInv
<1>3. \A u \in Threads : freeing'[u] \in Known \union {0}
  BY DEF Inv, ListInv, OpsOK
<1>4. /\ ListInv' /\ OneOfEach' /\ InitLogged' /\ StacksTyped'
      /\ op' \in [Threads -> OpType]
  BY <1>1, <1>3, FinishKeeps DEF uservars
<1> QED
  BY <1>2, <1>4, ClientStays DEF Inv, TypeInv, DriverTyped, Touched

LEMMA ExitUnknownKeeps ==
  ASSUME Inv, NEW t \in Threads, ExitUnknown(t), UNCHANGED begun
  PROVE  Inv'
<1>1. /\ Returned(t, {"exit"}, "ref") /\ ExitEnds(t)
      /\ UNCHANGED <<life, inherited, entry, logLock, freeing, uservars, begun>>
  BY DEF ExitUnknown
<1>2. Touched /\ \A r \in Seqs : entry'[r].init = entry[r].init
  BY <1>1, UnchangedTouches DEF Inv, TypeInv, ListInv
<1> QED
  BY <1>1, <1>2, ExitEndKeeps

LEMMA ExitQueueKeeps ==
  ASSUME Inv, NEW t \in Threads, ExitQueue(t), UNCHANGED begun
  PROVE  Inv'
<1>1. /\ Returned(t, {"exit"}, "queue") /\ ExitEnds(t)
      /\ UNCHANGED <<life, inherited, logLock, freeing, uservars, begun>>
      /\ \/ entry' = With(Top(t).seq, [entry[Top(t).seq] EXCEPT !.exit = "queued"])
         \/ entry' = entry
  BY DEF ExitQueue
<1>2. Top(t).seq \in Known
  BY <1>1, AtReturn DEF Inv, ListInv, OpsOK
<1>3. Touched /\ \A r \in Seqs : entry'[r].init = entry[r].init
  <2>1. CASE entry' = With(Top(t).seq, [entry[Top(t).seq] EXCEPT !.exit = "queued"])
    BY <1>2, <2>1, ExitMarked
  <2>2. CASE entry' = entry
    BY <2>2, UnchangedTouches DEF Inv, TypeInv, ListInv
  <2> QED
    BY <1>1, <2>1, <2>2
<1> QED
  BY <1>1, <1>3, ExitEndKeeps

LEMMA ExitLogKeeps ==
  ASSUME Inv, NEW t \in Threads, ExitLog(t), UNCHANGED begun
  PROVE  Inv'
<1> DEFINE s == Top(t).seq
<1>1. /\ Returned(t, {"exit"}, "log") /\ Deref(t, s)
      /\ op' = [op EXCEPT ![t].step = "queue"]
      /\ Emit("exit", s, table) \/ UNCHANGED <<cache, built>>
      /\ UNCHANGED <<osvars, logLock, stack, table, begun>>
  BY DEF ExitLog
<1>2. s \in Known /\ s \in 0 .. MaxSeq /\ s # 0
  BY <1>1, AtReturn DEF Inv, ListInv, OpsOK
<1>3. /\ Touched /\ freeing' \in [Threads -> Nat]
      /\ \A u \in Threads : freeing'[u] \in {freeing[u], s}
      /\ \A r \in Seqs : entry'[r].init = entry[r].init
  BY <1>1, <1>2, DerefTouches DEF Inv, TypeInv, ListInv
<1>4. \A u \in Threads : freeing'[u] \in Known \union {0}
  BY <1>2, <1>3, FreeingKnown
<1>5. /\ ListInv' /\ OneOfEach' /\ InitLogged' /\ StacksTyped'
      /\ op' \in [Threads -> OpType]
  BY <1>1, <1>2, <1>3, <1>4, ExitStepKeeps
<1>6. ClientTyped' /\ KnownAfterInit'
  <2> HIDE DEF s
  <2> QED
    BY <1>1, <1>2, EventKeeps
<1> QED
  BY <1>1, <1>3, <1>5, <1>6
     DEF Inv, TypeInv, SystemTyped, DriverTyped, Touched, osvars

-----------------------------------------------------------------------------
(* The invariant.                                                          *)

LEMMA InitInv ==
  ASSUME Init
  PROVE  Inv
<1>1. Seqs = {} /\ Len(entry) = 0 /\ \A t \in Threads : stack[t] = << >>
  BY DEF Init, Seqs
<1>2. Idle \in OpType /\ Idle.kind = "idle" /\ Idle.parent = 0
  <2>1. AnyPid \in Pids /\ "idle" \in OpKinds
    BY ProcessAssumption DEF AnyPid, OpKinds
  <2> QED
    BY <2>1, DoingFields DEF Idle
<1>3. SystemTyped
  BY ProcessAssumption DEF Init, SystemTyped
<1>4. DriverTyped
  <2>1. entry \in Seq(EntryType) /\ Len(entry) <= MaxSeq /\ begun \in 0 .. MaxOps
    BY <1>1, ProcessAssumption DEF Init
  <2>2. op \in [Threads -> OpType] /\ freeing \in [Threads -> Nat]
    BY <1>2 DEF Init
  <2> QED
    BY <2>1, <2>2 DEF Init, DriverTyped
<1>5. StacksTyped
  BY DEF Init, StacksTyped
<1>6. ClientTyped /\ KnownAfterInit
  BY ProcessAssumption DEF Init, ClientTyped, KnownAfterInit
<1>7. EntriesOK /\ FramesOK /\ MineOK /\ OneOfEach /\ InitLogged
  BY <1>1 DEF EntriesOK, FramesOK, MineOK, OneOfEach, InitLogged
<1>8. OpsOK
  BY <1>1, <1>2 DEF Init, OpsOK
<1> QED
  BY <1>3, <1>4, <1>5, <1>6, <1>7, <1>8 DEF Inv, TypeInv, ListInv

LEMMA StutterKeeps ==
  ASSUME Inv, UNCHANGED vars
  PROVE  Inv'
<1>1. /\ UNCHANGED <<osvars, logLock, stack, op, freeing, uservars, begun>>
      /\ entry' = entry /\ freeing' = freeing
  BY DEF vars, callvars
<1>2. /\ entry' \in Seq(EntryType) /\ Len(entry') = Len(entry)
      /\ freeing' \in [Threads -> Nat]
      /\ \A u \in Threads : freeing'[u] \in Known \union {0}
  BY <1>1 DEF Inv, TypeInv, DriverTyped, ListInv, OpsOK
<1> QED
  BY <1>1, <1>2, FreeingKeeps

LEMMA NextInv ==
  ASSUME Inv, [Next]_vars
  PROVE  Inv'
<1>1. ASSUME NEW t \in Threads, Arrive(t)
      PROVE  Inv'
  BY <1>1, EnterKeeps, CreateKeeps, ExitKeeps DEF Arrive
<1>2. ASSUME NEW t \in Threads, Ref(t)
      PROVE  Inv'
  BY <1>2, FindKeeps, InsertKeeps, CheckKeeps, FillStartKeeps, FillFailsKeeps,
     FillTakeKeeps, FillLogKeeps, RefusedKeeps, FillParentKeeps, FillReleaseKeeps,
     LogStartKeeps, FreeEntryKeeps DEF Ref, Fill, Finds
<1>3. ASSUME NEW t \in Threads, Operation(t)
      PROVE  Inv'
  BY <1>3, SkipKeeps, LogKeeps, CreateChildKeeps, CreateParkKeeps, ExitQueryKeeps,
     ExitUnknownKeeps, ExitLogKeeps, ExitQueueKeeps DEF Operation, Parks, Skips
<1> QED
  BY <1>1, <1>2, <1>3, WaitExitStep, StutterKeeps DEF Next

\* The list, the stacks of calls, the exits and the client's table stay in
\* step, whatever the threads do in RefProcessInfo, ProcmonFillProcessInfo and
\* DerefProcessInfo: every property below is read off from this invariant.
THEOREM Invariance == Spec => []Inv
<1>1. Init => Inv
  BY InitInv
<1>2. Inv /\ [Next]_vars => Inv'
  BY NextInv
<1> QED
  BY <1>1, <1>2, PTL DEF Spec

LEMMA NextHistory ==
  ASSUME Inv, HistoryTyped, [Next]_vars
  PROVE  HistoryTyped'
<1>1. ASSUME NEW t \in Threads, Arrive(t)
      PROVE  HistoryTyped'
  BY <1>1 DEF Arrive, history, HistoryTyped
<1>2. ASSUME NEW t \in Threads, Ref(t)
      PROVE  HistoryTyped'
  <2>1. CASE UNCHANGED failed
    BY <1>2, <2>1 DEF Ref, HistoryTyped
  <2>2. CASE failed' = failed \union {Top(t).pid} /\ \E pc \in PCs : At(t, pc)
    <3>1. Top(t) \in FrameType
      BY <2>2, AtTop
    <3> QED
      BY <1>2, <2>2, <3>1 DEF Ref, HistoryTyped, FrameType
  <2>3. FindFails(t) \/ FillRefused(t) \/ FillFails(t) => \E pc \in PCs : At(t, pc)
    BY DEF FindFails, FillRefused, FillFails, PCs
  <2> QED
    BY <1>2, <2>1, <2>2, <2>3 DEF Ref
<1>3. ASSUME NEW t \in Threads, Operation(t)
      PROVE  HistoryTyped'
  <2>1. op[t].about \in Pids
    BY DEF Inv, TypeInv, DriverTyped, OpType
  <2>0. Known \union {0} \subseteq 0 .. MaxSeq
    BY ProcessAssumption DEF Inv, TypeInv, DriverTyped, Known, Seqs
  <2>2. op[t].parent \in 0 .. MaxSeq
    BY <2>0 DEF Inv, ListInv, OpsOK
  <2>3. SkipUnmarked(t) => Top(t).seq \in 0 .. MaxSeq
    BY <2>0, AtReturn DEF SkipUnmarked
  <2>4. \/ UNCHANGED kept
        \/ SkipUnmarked(t) /\ kept' = kept \union {Top(t).seq}
        \/ kept' = kept \union {op[t].parent}
    BY <1>3 DEF Operation, history
  <2>5. kept' \subseteq 0 .. MaxSeq
    BY <2>2, <2>3, <2>4 DEF HistoryTyped
  <2> QED
    BY <1>3, <2>1, <2>5 DEF Operation, history, HistoryTyped
<1>4. CASE WaitExit \/ UNCHANGED vars
  BY <1>4 DEF WaitExit, vars, history, HistoryTyped
<1> QED
  BY <1>1, <1>2, <1>3, <1>4 DEF Next

\* Every reachable state is well typed, whatever the threads, the process
\* identifiers, the failures and the bounds: no call, no parked details and no
\* thread that is to free an entry names a sequence that was never given out,
\* only a call with a fill in progress has another above it, and the
\* client's cached index is that of a record (RefProcessInfo,
\* ProcmonFillProcessInfo, last_proc).
THEOREM TypeCorrect == Spec => []TypeOK
<1>1. Inv /\ HistoryTyped => TypeOK
  <2> SUFFICES ASSUME Inv, HistoryTyped PROVE TypeOK
    OBVIOUS
  <2>1. Len(entry) \in Nat /\ Seqs = 1 .. Len(entry) /\ Known \union {0} \subseteq 0 .. Len(entry)
    BY LenProperties DEF Inv, TypeInv, DriverTyped, Seqs, Known
  <2>2. ASSUME NEW s \in Seqs
        PROVE  /\ entry[s].pid \in Pids
               /\ entry[s].refs \in Int
               /\ entry[s].full \subseteq 0 .. Len(entry)
               /\ entry[s].freed => ~entry[s].listed
               /\ entry[s].exit \in {"no", "held", "queued"}
    <3>1. entry[s] \in EntryType
      BY EntryTyped DEF Inv, TypeInv
    <3>2. entry[s].full \subseteq 0 .. Len(entry) /\ ~(entry[s].listed /\ entry[s].freed)
      BY <2>1 DEF Inv, ListInv, EntriesOK
    <3> QED
      BY <3>1, <3>2 DEF EntryType
  <2>3. ASSUME NEW t \in Threads
        PROVE  /\ freeing[t] \in 0 .. Len(entry)
               /\ \A i \in 1 .. Len(stack[t]) :
                    /\ stack[t][i].seq \in 0 .. Len(entry)
                    /\ (i < Len(stack[t])) <=> (stack[t][i].pc = "parent")
               /\ op[t].kind \in {"idle", "create", "exit"} \union Reports
    <3>1. op[t].kind \in OpKinds
      BY DEF Inv, TypeInv, DriverTyped, OpType
    <3>2. freeing[t] \in 0 .. Len(entry)
      BY <2>1 DEF Inv, ListInv, OpsOK
    <3> QED
      BY <2>1, <3>1, <3>2 DEF Inv, ListInv, FramesOK, FrameOK, OpKinds, Reports
  <2> QED
    BY <2>2, <2>3
       DEF TypeOK, Inv, TypeInv, SystemTyped, DriverTyped, ClientTyped, HistoryTyped
<1>2. Init => HistoryTyped
  BY DEF Init, HistoryTyped
<1>3. Inv /\ HistoryTyped /\ [Next]_vars => HistoryTyped'
  BY NextHistory
<1> QED
  BY <1>1, <1>2, <1>3, Invariance, PTL DEF Spec

\* The list never holds two entries for one process identifier.
THEOREM OnePerPid == Spec => []OneEntryPerPid
<1>1. Inv => OneEntryPerPid
  <2> SUFFICES ASSUME Inv, NEW p \in Pids
               PROVE  Cardinality(Listed(p)) <= 1
    BY DEF OneEntryPerPid
  <2>1. \A s, r \in Listed(p) : s = r
    BY DEF Listed, Inv, OneOfEach
  <2>2. CASE Listed(p) = {}
    BY <2>2, FS_EmptySet
  <2>3. ASSUME NEW s \in Listed(p) PROVE Cardinality(Listed(p)) <= 1
    <3>1. Listed(p) = {s}
      BY <2>1, <2>3
    <3>2. Cardinality({s}) = 1
      BY FS_Singleton
    <3> QED
      BY <3>1, <3>2
  <2> QED
    BY <2>2, <2>3
<1> QED
  BY <1>1, Invariance, PTL

\* An entry that says it is described is, or is being: the client has a record
\* for its sequence as soon as no thread is filling it.
THEOREM DescribedIsLogged == Spec => []InitLogged
<1>1. Inv => InitLogged
  BY DEF Inv
<1> QED
  BY <1>1, Invariance, PTL

\* No event that follows the first record of its process is built without a
\* process: a miss of the client's one-entry cache is never remembered.
THEOREM KnownIsKnown == Spec => []KnownAfterInit
<1>1. Inv => KnownAfterInit
  BY DEF Inv
<1> QED
  BY <1>1, Invariance, PTL

=============================================================================
