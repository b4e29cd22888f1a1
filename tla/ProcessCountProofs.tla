--------------------------- MODULE ProcessCountProofs ---------------------------
(***************************************************************************)
(* What is counted in the process list: the CREATE records of a process    *)
(* and the references to an entry.  And, since it takes the count of the   *)
(* references, which processes are described as running already.           *)
(***************************************************************************)
EXTENDS ProcessTrackProofs

\* The calls of all threads, by thread and height.
Places == UNION {{t} \X (1 .. Len(stack[t])) : t \in Threads}
Frame(x) == stack[x[1]][x[2]]

-----------------------------------------------------------------------------
(* Finite sets.                                                            *)

LEMMA CardShrinks ==
  ASSUME NEW S, IsFiniteSet(S), NEW T, T \subseteq S
  PROVE  /\ IsFiniteSet(T)
         /\ Cardinality(S) \in Nat /\ Cardinality(T) \in Nat
         /\ Cardinality(T) <= Cardinality(S)
BY FS_Subset, FS_CardinalityType

LEMMA CardLoses ==
  ASSUME NEW S, IsFiniteSet(S), NEW x \in S, NEW T, T \subseteq S \ {x}
  PROVE  /\ Cardinality(S) \in Nat /\ Cardinality(T) \in Nat
         /\ Cardinality(T) <= Cardinality(S) - 1
<1>1. IsFiniteSet(S \ {x}) /\ Cardinality(S \ {x}) = Cardinality(S) - 1
  BY FS_RemoveElement
<1> QED
  BY <1>1, CardShrinks, FS_CardinalityType

LEMMA CardGains ==
  ASSUME NEW S, IsFiniteSet(S), NEW x, NEW T, T \subseteq S \union {x}
  PROVE  /\ IsFiniteSet(T)
         /\ Cardinality(S) \in Nat /\ Cardinality(T) \in Nat
         /\ Cardinality(T) <= Cardinality(S) + 1
<1>1. Cardinality(S) \in Nat
  BY FS_CardinalityType
<1>2. /\ IsFiniteSet(S \union {x})
      /\ Cardinality(S \union {x}) = IF x \in S THEN Cardinality(S) ELSE Cardinality(S) + 1
  BY FS_AddElement
<1>3. Cardinality(S \union {x}) <= Cardinality(S) + 1
  BY <1>1, <1>2
<1>4. /\ IsFiniteSet(T) /\ Cardinality(T) \in Nat
      /\ Cardinality(S \union {x}) \in Nat
      /\ Cardinality(T) <= Cardinality(S \union {x})
  BY <1>2, CardShrinks
<1> QED
  BY <1>1, <1>3, <1>4

LEMMA CardOne ==
  ASSUME NEW x, NEW T, T \subseteq {x}
  PROVE  /\ IsFiniteSet(T)
         /\ Cardinality(T) \in Nat /\ Cardinality(T) <= 1
<1>1. IsFiniteSet({x}) /\ Cardinality({x}) = 1
  BY FS_Singleton
<1> QED
  BY <1>1, CardShrinks

LEMMA InPlaces ==
  ASSUME NEW x
  PROVE  x \in Places <=>
           /\ x \in Threads \X Nat
           /\ x[2] \in 1 .. Len(stack[x[1]])
BY DEF Places

LEMMA PlacesFinite ==
  ASSUME StacksTyped
  PROVE  IsFiniteSet(Places)
<1> DEFINE F == [t \in Threads |-> {t} \X (1 .. Len(stack[t]))]
           R == {F[t] : t \in Threads}
<1>1. IsFiniteSet(R)
  <2>1. F \in Surjection(Threads, R)
    BY DEF Surjection
  <2> QED
    BY <2>1, FS_Surjection, ProcessAssumption
<1>2. ASSUME NEW t \in Threads
      PROVE  IsFiniteSet({t} \X (1 .. Len(stack[t])))
  <2>1. IsFiniteSet({t})
    BY FS_Singleton
  <2>2. Len(stack[t]) \in Int
    BY LenProperties DEF StacksTyped
  <2>3. IsFiniteSet(1 .. Len(stack[t]))
    BY <2>2, FS_Interval
  <2> QED
    BY <2>1, <2>3, FS_Product
<1>3. Places = UNION R
  BY DEF Places
<1>4. \A T \in R : IsFiniteSet(T)
  BY <1>2
<1> QED
  BY <1>1, <1>3, <1>4, FS_UNION

-----------------------------------------------------------------------------
(* The CREATE records.  One is logged, or its details are on their way to   *)
(* the log: taken by a call, parked in the entry of the process, or with    *)
(* the thread that creates it.                                              *)

TakenPcs == {"log", "parent", "release"}
Carries(f, s) == f.seq = s /\ f.full # {} /\ f.pc \in TakenPcs
Taken(s) == {x \in Places : Carries(Frame(x), s)}
Parked(s) == IF entry[s].full # {} THEN 1 ELSE 0
Coming(p) == {t \in Threads : op[t].kind = "create" /\ op[t].about = p}

\* What there is of entry s is not more than the processes created.
ComingOK == \A p \in Pids : Cardinality(Coming(p)) <= Created(p)
RecordsOK ==
  \A s \in Seqs : ~entry[s].freed =>
    Cardinality(Creates(s)) + Cardinality(Taken(s)) + Parked(s)
      + Cardinality(Coming(entry[s].pid)) <= Created(entry[s].pid)

\* A call points to the entry of its process, unless that was freed.
FramePid ==
  \A x \in Places : Frame(x).seq # 0 =>
    entry[Frame(x).seq].freed \/ entry[Frame(x).seq].pid = Frame(x).pid

\* The second call of a process creation is for the new process.
ChildFrame ==
  \A t \in Threads : op[t].kind = "create" /\ op[t].step = "child" =>
    stack[t][1].pid = op[t].about

Later == \A s \in (1 .. MaxSeq) \ Seqs : table[s] = << >>

CountInv == ComingOK /\ RecordsOK /\ FramePid /\ ChildFrame /\ Later

\* What a step leaves of the entries.
Recount(a, b) ==
  /\ Len(entry') = Len(entry)
  /\ \A s \in Seqs :
       /\ entry'[s].pid = entry[s].pid
       /\ entry'[s].listed = entry[s].listed
       /\ entry'[s].freed = entry[s].freed
       /\ entry'[s].refs = entry[s].refs + (IF s = a THEN 1 ELSE 0)
                                         - (IF s = b THEN 1 ELSE 0)
FullKept == \A s \in Seqs : entry'[s].full = entry[s].full
ExitKept == \A s \in Seqs : entry'[s].exit = entry[s].exit

LEMMA CountsFinite ==
  ASSUME TypeInv, NEW s \in 1 .. MaxSeq, NEW p
  PROVE  /\ IsFiniteSet(Creates(s)) /\ Cardinality(Creates(s)) \in Nat
         /\ IsFiniteSet(Taken(s)) /\ Cardinality(Taken(s)) \in Nat
         /\ IsFiniteSet(Coming(p)) /\ Cardinality(Coming(p)) \in Nat
         /\ Parked(s) \in {0, 1}
<1>1. IsFiniteSet(Creates(s)) /\ Cardinality(Creates(s)) \in Nat
  <2>1. Len(table[s]) \in Int
    BY LenProperties DEF TypeInv, ClientTyped
  <2>2. IsFiniteSet(1 .. Len(table[s]))
    BY <2>1, FS_Interval
  <2> QED
    BY <2>2, CardShrinks DEF Creates
<1>2. IsFiniteSet(Taken(s)) /\ Cardinality(Taken(s)) \in Nat
  BY PlacesFinite, CardShrinks DEF Taken, TypeInv
<1>3. IsFiniteSet(Coming(p)) /\ Cardinality(Coming(p)) \in Nat
  BY ProcessAssumption, CardShrinks DEF Coming
<1> QED
  BY <1>1, <1>2, <1>3 DEF Parked

LEMMA SeqsBounded ==
  ASSUME TypeInv
  PROVE  /\ Seqs = 1 .. Len(entry) /\ Len(entry) \in Nat /\ Seqs \subseteq 1 .. MaxSeq
         /\ \A s \in Seqs : s # 0 /\ s \in Nat
BY LenProperties, ProcessAssumption DEF TypeInv, DriverTyped, Seqs

\* A place of the new stacks is one of the old or holds a call of S.
LEMMA PlaceOfStep ==
  ASSUME StacksTyped, NEW t \in Threads, NEW n, NEW S \in Seq(FrameType),
         Restacked(t, n, S), NEW x \in Places'
  PROVE  \/ /\ x \in Places /\ Frame(x)' = Frame(x)
            /\ x[1] = t => x[2] <= n /\ n < Len(stack[t])
         \/ /\ x[1] = t /\ \E k \in 1 .. Len(S) : x[2] = n + k /\ Frame(x)' = S[k]
<1>1. /\ x \in Threads \X Nat /\ x[1] \in Threads
      /\ x[2] \in 1 .. Len(stack'[x[1]])
  BY InPlaces DEF Places
<1> DEFINE u == x[1]
           i == x[2]
<1>2. Frame(x)' = stack'[u][i]
  BY DEF Frame
<1>3. Frame(x) = stack[u][i]
  BY DEF Frame
<1>4. x \in Places <=> i \in 1 .. Len(stack[u])
  BY <1>1, InPlaces
<1> HIDE DEF u, i
<1>5. u \in Threads /\ i \in 1 .. Len(stack'[u])
  BY <1>1 DEF u, i
<1>6. \/ /\ i \in 1 .. Len(stack[u])
         /\ stack'[u][i] = stack[u][i]
         /\ u = t => i <= n /\ n < Len(stack[t])
      \/ u = t /\ \E k \in 1 .. Len(S) : i = n + k /\ stack'[u][i] = S[k]
  BY <1>5, FrameOfStep
<1> QED
  BY <1>2, <1>3, <1>4, <1>6 DEF u, i

\* The details taken from s: no call of S carries them but where one did.
LEMMA TakenStep ==
  ASSUME StacksTyped, NEW t \in Threads, NEW n, NEW S \in Seq(FrameType),
         Restacked(t, n, S), NEW s,
         \A k \in 1 .. Len(S) : Carries(S[k], s) =>
           n + k \in 1 .. Len(stack[t]) /\ Carries(stack[t][n + k], s)
  PROVE  Taken(s)' \subseteq Taken(s)
<1> SUFFICES ASSUME NEW x \in Places', Carries(Frame(x)', s)
             PROVE  x \in Places /\ Carries(Frame(x), s)
  BY DEF Taken, Carries, TakenPcs
<1>1. CASE x \in Places /\ Frame(x)' = Frame(x)
  BY <1>1
<1>2. ASSUME x[1] = t, NEW k \in 1 .. Len(S), x[2] = n + k, Frame(x)' = S[k]
      PROVE  x \in Places /\ Carries(Frame(x), s)
  <2>1. x \in Threads \X Nat
    BY InPlaces DEF Places
  <2> QED
    BY <1>2, <2>1, InPlaces DEF Frame
<1> QED
  BY <1>1, <1>2, PlaceOfStep

LEMMA FramePidStep ==
  ASSUME Inv, NEW t \in Threads, NEW n, NEW S \in Seq(FrameType),
         Restacked(t, n, S), FramePid,
         \A r \in Seqs : entry'[r].freed \/ (entry'[r].pid = entry[r].pid
                                             /\ entry'[r].freed = entry[r].freed),
         \A k \in 1 .. Len(S) : S[k].seq # 0 =>
           entry'[S[k].seq].freed \/ entry'[S[k].seq].pid = S[k].pid
  PROVE  FramePid'
<1> SUFFICES ASSUME NEW x \in Places', Frame(x)'.seq # 0
             PROVE  entry'[Frame(x)'.seq].freed
                      \/ entry'[Frame(x)'.seq].pid = Frame(x)'.pid
  BY DEF FramePid
<1>1. CASE x \in Places /\ Frame(x)' = Frame(x)
  <2>1. Frame(x).seq \in Seqs
    <3>1. x \in Threads \X Nat /\ x[2] \in 1 .. Len(stack[x[1]])
      BY <1>1, InPlaces
    <3> QED
      BY <1>1, <3>1 DEF Frame, Inv, ListInv, FramesOK, FrameOK, Known
  <2> QED
    BY <1>1, <2>1 DEF FramePid
<1>2. CASE \E k \in 1 .. Len(S) : Frame(x)' = S[k]
  BY <1>2
<1> QED
  BY <1>1, <1>2, PlaceOfStep DEF Inv, TypeInv

LEMMA RecordsStep ==
  ASSUME Inv, CountInv, life' = life, TypeInv',
         \A p \in Pids : Coming(p)' \subseteq Coming(p),
         \A s \in Seqs' :
           \/ entry'[s].freed
           \/ Creates(s)' = {} /\ Taken(s)' = {} /\ entry'[s].full = {}
           \/ /\ s \in Seqs
              /\ entry'[s].freed = entry[s].freed
              /\ entry'[s].pid = entry[s].pid
              /\ Cardinality(Creates(s)') \in Nat /\ Cardinality(Taken(s)') \in Nat
              /\ Cardinality(Creates(s)') + Cardinality(Taken(s)') + Parked(s)'
                   <= Cardinality(Creates(s)) + Cardinality(Taken(s)) + Parked(s)
           \/ /\ s \in Seqs
              /\ entry'[s].freed = entry[s].freed
              /\ entry'[s].pid = entry[s].pid
              /\ Cardinality(Creates(s)') \in Nat /\ Cardinality(Taken(s)') \in Nat
              /\ Cardinality(Creates(s)') + Cardinality(Taken(s)') + Parked(s)'
                   <= Cardinality(Creates(s)) + Cardinality(Taken(s)) + Parked(s) + 1
              /\ \E u \in Coming(entry[s].pid) : u \notin Coming(entry[s].pid)'
  PROVE  ComingOK' /\ RecordsOK'
<1>1. ASSUME NEW p \in Pids
      PROVE  /\ Cardinality(Coming(p)') \in Nat /\ Cardinality(Coming(p)) \in Nat
             /\ Cardinality(Coming(p)') <= Cardinality(Coming(p))
             /\ Cardinality(Coming(p)) <= Created(p)
             /\ Created(p)' = Created(p) /\ Created(p) \in Int
  <2>1. IsFiniteSet(Coming(p))
    BY CardShrinks, ProcessAssumption DEF Coming
  <2>2. life[p] \in Int
    BY DEF Inv, TypeInv, SystemTyped
  <2> QED
    BY <2>1, <2>2, CardShrinks DEF CountInv, ComingOK, Created
<1>2. ComingOK'
  <2>1. \A p \in Pids : Cardinality(Coming(p)') <= Created(p)'
    BY <1>1
  <2> QED
    BY <2>1 DEF ComingOK
<1>3. RecordsOK'
  <2> SUFFICES ASSUME NEW s \in Seqs', ~entry'[s].freed
               PROVE  (Cardinality(Creates(s)) + Cardinality(Taken(s)) + Parked(s)
                        + Cardinality(Coming(entry[s].pid)) <= Created(entry[s].pid))'
    BY DEF RecordsOK
  <2>1. PICK p \in Pids : p = entry'[s].pid
    <3>1. entry' \in Seq(EntryType) /\ s \in 1 .. Len(entry')
      BY DEF TypeInv, DriverTyped, Seqs
    <3>2. entry'[s] \in EntryType
      BY <3>1, ElementOfSeq
    <3> QED
      BY <3>2 DEF EntryType
  <2>2. Coming(entry[s].pid)' = Coming(p)'
    BY <2>1 DEF Coming
  <2>3. SUFFICES Cardinality(Creates(s)') + Cardinality(Taken(s)') + Parked(s)'
                   + Cardinality(Coming(p)') <= Created(p)
    BY <1>1, <2>1, <2>2 DEF Created
  <2>4. CASE Creates(s)' = {} /\ Taken(s)' = {} /\ entry'[s].full = {}
    <3>1. Cardinality(Creates(s)') = 0 /\ Cardinality(Taken(s)') = 0 /\ Parked(s)' = 0
      BY <2>4, FS_EmptySet DEF Parked
    <3> QED
      BY <1>1, <2>1, <3>1
  <2>5. CASE /\ s \in Seqs
             /\ entry'[s].freed = entry[s].freed
             /\ entry'[s].pid = entry[s].pid
             /\ Cardinality(Creates(s)') \in Nat /\ Cardinality(Taken(s)') \in Nat
             /\ Cardinality(Creates(s)') + Cardinality(Taken(s)') + Parked(s)'
                  <= Cardinality(Creates(s)) + Cardinality(Taken(s)) + Parked(s)
    <3>1. s \in 1 .. MaxSeq
      BY <2>5, SeqsBounded DEF Inv
    <3>2. /\ Cardinality(Creates(s)) \in Nat /\ Cardinality(Taken(s)) \in Nat
          /\ Parked(s) \in {0, 1}
      BY <3>1, CountsFinite DEF Inv
    <3>3. Parked(s)' \in {0, 1}
      BY DEF Parked
    <3>4. Cardinality(Creates(s)) + Cardinality(Taken(s)) + Parked(s)
            + Cardinality(Coming(p)) <= Created(p)
      BY <2>1, <2>5 DEF CountInv, RecordsOK
    <3> QED
      BY <1>1, <2>1, <2>5, <3>2, <3>3, <3>4
  <2>6. CASE /\ s \in Seqs
             /\ entry'[s].freed = entry[s].freed
             /\ entry'[s].pid = entry[s].pid
             /\ Cardinality(Creates(s)') \in Nat /\ Cardinality(Taken(s)') \in Nat
             /\ Cardinality(Creates(s)') + Cardinality(Taken(s)') + Parked(s)'
                  <= Cardinality(Creates(s)) + Cardinality(Taken(s)) + Parked(s) + 1
             /\ \E u \in Coming(entry[s].pid) : u \notin Coming(entry[s].pid)'
    <3>1. s \in 1 .. MaxSeq
      BY <2>6, SeqsBounded DEF Inv
    <3>2. /\ Cardinality(Creates(s)) \in Nat /\ Cardinality(Taken(s)) \in Nat
          /\ Parked(s) \in {0, 1}
      BY <3>1, CountsFinite DEF Inv
    <3>3. Parked(s)' \in {0, 1}
      BY DEF Parked
    <3>4. Cardinality(Creates(s)) + Cardinality(Taken(s)) + Parked(s)
            + Cardinality(Coming(p)) <= Created(p)
      BY <2>1, <2>6 DEF CountInv, RecordsOK
    <3>5. Cardinality(Coming(p)') <= Cardinality(Coming(p)) - 1
      <4>1. PICK u \in Coming(p) : u \notin Coming(p)'
        BY <2>1, <2>2, <2>6
      <4>2. Coming(p)' \subseteq Coming(p) \ {u} /\ IsFiniteSet(Coming(p))
        BY <4>1, CardShrinks, ProcessAssumption DEF Coming
      <4> QED
        BY <4>1, <4>2, CardLoses
    <3> QED
      BY <1>1, <2>1, <2>6, <3>2, <3>3, <3>4, <3>5
  <2> QED
    BY <2>4, <2>5, <2>6
<1> QED
  BY <1>2, <1>3

\* No record is logged and no details are taken.
LEMMA RecordsStay ==
  ASSUME Inv, CountInv, life' = life, Seqs' = Seqs, table' = table, TypeInv',
         \A p \in Pids : Coming(p)' \subseteq Coming(p),
         \A s \in Seqs :
           \/ entry'[s].freed
           \/ /\ entry'[s].freed = entry[s].freed
              /\ entry'[s].pid = entry[s].pid
              /\ entry'[s].full \in {{}, entry[s].full}
              /\ Taken(s)' \subseteq Taken(s)
  PROVE  ComingOK' /\ RecordsOK' /\ Later'
<1>1. ASSUME NEW s \in Seqs
      PROVE  \/ entry'[s].freed
             \/ /\ entry'[s].freed = entry[s].freed
                /\ entry'[s].pid = entry[s].pid
                /\ Cardinality(Creates(s)') \in Nat /\ Cardinality(Taken(s)') \in Nat
                /\ Cardinality(Creates(s)') + Cardinality(Taken(s)') + Parked(s)'
                     <= Cardinality(Creates(s)) + Cardinality(Taken(s)) + Parked(s)
  <2>1. SUFFICES ASSUME ~entry'[s].freed
                 PROVE  /\ Cardinality(Creates(s)') \in Nat /\ Cardinality(Taken(s)') \in Nat
                        /\ Cardinality(Creates(s)') + Cardinality(Taken(s)') + Parked(s)'
                             <= Cardinality(Creates(s)) + Cardinality(Taken(s)) + Parked(s)
    OBVIOUS
  <2>2. s \in 1 .. MaxSeq
    BY SeqsBounded DEF Inv
  <2>3. /\ IsFiniteSet(Taken(s)) /\ Cardinality(Creates(s)) \in Nat
        /\ Parked(s) \in {0, 1}
    BY <2>2, CountsFinite DEF Inv
  <2>4. Creates(s)' = Creates(s)
    BY DEF Creates
  <2>5. /\ Cardinality(Taken(s)') \in Nat /\ Cardinality(Taken(s)) \in Nat
        /\ Cardinality(Taken(s)') <= Cardinality(Taken(s))
    BY <2>1, <2>3, CardShrinks
  <2>6. Parked(s)' \in {0, 1} /\ Parked(s)' <= Parked(s)
    BY <2>1 DEF Parked
  <2> QED
    BY <2>3, <2>4, <2>5, <2>6
<1>2. ComingOK' /\ RecordsOK'
  BY <1>1, RecordsStep
<1>3. Later'
  BY DEF Later, CountInv
<1> QED
  BY <1>2, <1>3

\* The process of the lowest call of a thread, if another is not restarted.
LEMMA FirstKept ==
  ASSUME NEW t \in Threads, NEW n, NEW S \in Seq(FrameType),
         Restacked(t, n, S), stack[t] # << >>, S # << >>,
         n = 0 => S[1].pid = stack[t][1].pid,
         NEW u \in Threads
  PROVE  stack'[u][1].pid = stack[u][1].pid
<1>1. CASE u # t
  BY <1>1 DEF Restacked
<1>2. CASE u = t /\ n = 0
  <2>1. 1 \in 1 .. Len(S)
    BY EmptySeq, LenProperties
  <2>2. stack'[t][0 + 1] = S[1]
    BY <1>2, <2>1 DEF Restacked
  <2> QED
    BY <1>2, <2>2
<1>3. CASE u = t /\ n # 0
  <2>1. 1 \in 1 .. n
    BY <1>3 DEF Restacked
  <2> QED
    BY <1>3, <2>1 DEF Restacked
<1> QED
  BY <1>1, <1>2, <1>3

LEMMA ChildStep ==
  ASSUME Inv, ChildFrame, NEW t \in Threads, NEW n, NEW S \in Seq(FrameType),
         Restacked(t, n, S), op' = op,
         stack[t] # << >>, S # << >>,
         n = 0 => S[1].pid = stack[t][1].pid
  PROVE  ChildFrame'
<1>1. \A u \in Threads : stack'[u][1].pid = stack[u][1].pid
  BY FirstKept
<1> QED
  BY <1>1 DEF ChildFrame

\* The call at the top goes on, and carries no details.
LEMMA TopCounts ==
  ASSUME Inv, CountInv, NEW t \in Threads, stack[t] # << >>,
         NEW g \in FrameType, SetTop(t, g),
         g.pid = Top(t).pid, g.pc \notin TakenPcs,
         \/ g.seq = Top(t).seq
         \/ entry'[g.seq].pid = g.pid,
         op' = op, life' = life,
         \A s \in Seqs :
           \/ entry'[s].freed
           \/ /\ entry'[s].freed = entry[s].freed
              /\ entry'[s].pid = entry[s].pid
  PROVE  /\ FramePid' /\ ChildFrame'
         /\ \A p : Coming(p)' = Coming(p)
         /\ \A s : Taken(s)' \subseteq Taken(s) \ {<<t, Len(stack[t])>>}
<1> DEFINE n == Len(stack[t]) - 1
           S == <<g>>
<1>1. /\ Len(stack[t]) \in Nat \ {0}
      /\ Top(t) = stack[t][Len(stack[t])]
  BY FrontLast DEF Inv, TypeInv, StacksTyped, Top
<1>2. Restacked(t, n, S)
  BY Topped DEF Inv, TypeInv
<1>3. /\ S \in Seq(FrameType) /\ Len(S) = 1 /\ \A k \in 1 .. Len(S) : k = 1 /\ S[k] = g
      /\ S # << >> /\ S[1] = g
  OBVIOUS
<1>4. n \in Nat /\ n + 1 = Len(stack[t]) /\ (n = 0 => Len(stack[t]) = 1)
  BY <1>1
<1> HIDE DEF S, n
<1>5. FramePid'
  <2>1. g.seq # 0 => entry'[g.seq].freed \/ entry'[g.seq].pid = g.pid
    <3>1. CASE g.seq = Top(t).seq /\ g.seq # 0
      <4>1. <<t, Len(stack[t])>> \in Places
        BY <1>1, InPlaces
      <4>2. Top(t) = Frame(<<t, Len(stack[t])>>)
        BY <1>1 DEF Frame
      <4>3. g.seq \in Seqs
        BY <1>1, <3>1 DEF Inv, ListInv, FramesOK, FrameOK, Known
      <4>4. entry[g.seq].freed \/ entry[g.seq].pid = g.pid
        BY <3>1, <4>1, <4>2 DEF FramePid, CountInv
      <4> QED
        BY <4>3, <4>4
    <3> QED
      BY <3>1
  <2> QED
    BY <1>2, <1>3, <2>1, FramePidStep DEF CountInv
<1>6. ChildFrame'
  <2>1. n = 0 => S[1].pid = stack[t][1].pid
    BY <1>1, <1>3, <1>4
  <2> QED
    BY <1>2, <1>3, <2>1, ChildStep DEF CountInv
<1>7. ASSUME NEW s
      PROVE  Taken(s)' \subseteq Taken(s) \ {<<t, Len(stack[t])>>}
  <2>1. \A k \in 1 .. Len(S) : ~Carries(S[k], s)
    BY <1>3 DEF Carries
  <2> SUFFICES ASSUME NEW x \in Places', Carries(Frame(x)', s)
               PROVE  x \in Places /\ Carries(Frame(x), s) /\ x # <<t, Len(stack[t])>>
    BY DEF Taken, Carries, TakenPcs
  <2>2. /\ x \in Places /\ Frame(x)' = Frame(x)
        /\ x[1] = t => x[2] <= n
    BY <1>2, <1>3, <2>1, PlaceOfStep DEF Inv, TypeInv
  <2>3. x = <<t, Len(stack[t])>> => FALSE
    <3>1. <<t, Len(stack[t])>>[1] = t /\ <<t, Len(stack[t])>>[2] = Len(stack[t])
      OBVIOUS
    <3> QED
      BY <1>4, <2>2, <3>1
  <2> QED
    BY <2>2, <2>3
<1>8. \A p : Coming(p)' = Coming(p)
  BY DEF Coming
<1> QED
  BY <1>5, <1>6, <1>7, <1>8

-----------------------------------------------------------------------------
(* What each way to change an entry does to the counts.                    *)

LEMMA RecountKeeps ==
  ASSUME Inv, NEW a, NEW b, Recount(a, b)
  PROVE  /\ Seqs' = Seqs
         /\ Known' = Known
         /\ \A s \in Seqs : entry'[s].freed = entry[s].freed /\ entry'[s].pid = entry[s].pid
BY DEF Recount, Seqs, Known

LEMMA SameCounts ==
  ASSUME Inv, entry' = entry
  PROVE  Recount(0, 0) /\ FullKept /\ ExitKept
<1>1. \A s \in Seqs : s # 0 /\ entry[s].refs \in Int
  BY EntryTyped DEF Inv, TypeInv, EntryType
<1> QED
  BY <1>1 DEF Recount, FullKept, ExitKept

LEMMA WithCounts ==
  ASSUME Inv, NEW s \in Seqs, NEW e \in EntryType, entry' = With(s, e),
         e.pid = entry[s].pid, e.listed = entry[s].listed,
         e.freed = entry[s].freed, e.refs = entry[s].refs
  PROVE  /\ Recount(0, 0)
         /\ e.full = entry[s].full => FullKept
         /\ e.exit = entry[s].exit => ExitKept
         /\ entry'[s] = e
         /\ \A r \in Seqs : r # s => entry'[r] = entry[r]
<1>1. \A r \in Seqs : r # 0 /\ entry[r].refs \in Int
  BY EntryTyped DEF Inv, TypeInv, EntryType
<1>2. /\ Len(entry') = Len(entry)
      /\ entry'[s] = e
      /\ \A r \in Seqs : r # s => entry'[r] = entry[r]
  <2>1. /\ Len(With(s, e)) = Len(entry) /\ With(s, e)[s] = e
        /\ \A r \in Seqs : r # s => With(s, e)[r] = entry[r]
    BY WithDoes DEF Inv, TypeInv
  <2> QED
    BY <2>1
<1>3. Recount(0, 0)
  BY <1>1, <1>2 DEF Recount
<1> QED
  BY <1>2, <1>3 DEF FullKept, ExitKept

LEMMA InitCounts ==
  ASSUME Inv, NEW s \in Seqs, NEW b \in BOOLEAN,
         entry' = With(s, [entry[s] EXCEPT !.init = b])
  PROVE  Recount(0, 0) /\ FullKept /\ ExitKept
<1> DEFINE e == [entry[s] EXCEPT !.init = b]
<1>1. entry[s] \in EntryType
  BY EntryTyped DEF Inv, TypeInv
<1>2. /\ e \in EntryType
      /\ e.pid = entry[s].pid /\ e.listed = entry[s].listed
      /\ e.freed = entry[s].freed /\ e.refs = entry[s].refs
      /\ e.full = entry[s].full /\ e.exit = entry[s].exit
  BY <1>1 DEF EntryType
<1>3. entry' = With(s, e)
  OBVIOUS
<1> HIDE DEF e
<1> QED
  BY <1>2, <1>3, WithCounts

LEMMA ExitCounts ==
  ASSUME Inv, NEW s \in Seqs, NEW y \in {"no", "held", "queued"},
         entry' = With(s, [entry[s] EXCEPT !.exit = y])
  PROVE  /\ Recount(0, 0) /\ FullKept
         /\ entry'[s].exit = y
         /\ \A r \in Seqs : r # s => entry'[r] = entry[r]
<1> DEFINE e == [entry[s] EXCEPT !.exit = y]
<1>1. entry[s] \in EntryType
  BY EntryTyped DEF Inv, TypeInv
<1>2. /\ e \in EntryType
      /\ e.pid = entry[s].pid /\ e.listed = entry[s].listed
      /\ e.freed = entry[s].freed /\ e.refs = entry[s].refs
      /\ e.full = entry[s].full /\ e.exit = y
  BY <1>1 DEF EntryType
<1>3. entry' = With(s, e)
  OBVIOUS
<1> HIDE DEF e
<1> QED
  BY <1>2, <1>3, WithCounts

LEMMA HeldCounts ==
  ASSUME Inv, NEW s \in Seqs, entry' = With(s, Held(entry[s]))
  PROVE  Recount(s, 0) /\ FullKept /\ ExitKept
<1> DEFINE e == Held(entry[s])
<1>1. \A r \in Seqs : r # 0 /\ entry[r] \in EntryType /\ entry[r].refs \in Int
  BY EntryTyped DEF Inv, TypeInv, EntryType
<1>2. /\ e \in EntryType
      /\ e.pid = entry[s].pid /\ e.listed = entry[s].listed
      /\ e.freed = entry[s].freed /\ e.refs = entry[s].refs + 1
      /\ e.full = entry[s].full /\ e.exit = entry[s].exit
  BY <1>1, CountFields
<1>3. entry' = With(s, e)
  OBVIOUS
<1> HIDE DEF e
<1>4. /\ Len(entry') = Len(entry)
      /\ entry'[s] = e
      /\ \A r \in Seqs : r # s => entry'[r] = entry[r]
  BY <1>2, <1>3, WithDoes DEF Inv, TypeInv
<1> QED
  BY <1>1, <1>2, <1>4 DEF Recount, FullKept, ExitKept

LEMMA DerefsCounts ==
  ASSUME Inv, NEW t \in Threads, NEW s \in Seqs \union {0},
         NEW ents \in Seq(EntryType), Len(ents) = Len(entry),
         Derefs(t, s, ents),
         \A r \in Seqs :
           /\ ents[r].pid = entry[r].pid
           /\ ents[r].listed = entry[r].listed
           /\ ents[r].freed = entry[r].freed
           /\ ents[r].refs = entry[r].refs
  PROVE  /\ Recount(0, s)
         /\ \A r \in Seqs : entry'[r].full = ents[r].full /\ entry'[r].exit = ents[r].exit
<1>1. /\ Len(entry') = Len(entry)
      /\ \A r \in Seqs : entry'[r] = IF r = s THEN Less(ents[r]) ELSE ents[r]
  BY DerefsDoes DEF Inv, TypeInv
<1>2. \A r \in Seqs : ents[r] \in EntryType /\ ents[r].refs \in Int
  <2>1. \A r \in Seqs : ents[r] \in EntryType
    BY ElementOfSeq DEF Seqs
  <2> QED
    BY <2>1 DEF EntryType
<1>3. \A r \in Seqs : r # 0
  BY EntryTyped DEF Inv, TypeInv
<1>4. ASSUME NEW r \in Seqs
      PROVE  /\ entry'[r].pid = entry[r].pid
             /\ entry'[r].listed = entry[r].listed
             /\ entry'[r].freed = entry[r].freed
             /\ entry'[r].refs = entry[r].refs + (IF r = 0 THEN 1 ELSE 0)
                                               - (IF r = s THEN 1 ELSE 0)
             /\ entry'[r].full = ents[r].full /\ entry'[r].exit = ents[r].exit
  <2>1. CASE r = s
    BY <1>1, <1>2, <1>3, <2>1, CountFields
  <2>2. CASE r # s
    BY <1>1, <1>2, <1>3, <2>2
  <2> QED
    BY <2>1, <2>2
<1> QED
  BY <1>1, <1>4 DEF Recount

LEMMA DerefCounts ==
  ASSUME Inv, NEW t \in Threads, NEW s \in Known \union {0}, Deref(t, s)
  PROVE  Recount(0, s) /\ FullKept /\ ExitKept
<1>1. Derefs(t, s, entry) /\ entry \in Seq(EntryType) /\ s \in Seqs \union {0}
  BY DEF Deref, Inv, TypeInv, DriverTyped, Known
<1>2. Recount(0, s) /\ \A r \in Seqs : entry'[r].full = entry[r].full
                                        /\ entry'[r].exit = entry[r].exit
  BY <1>1, DerefsCounts
<1> QED
  BY <1>2 DEF FullKept, ExitKept

\* Marking as not described and dropping a reference at once.
LEMMA RefusedCounts ==
  ASSUME Inv, NEW t \in Threads, NEW s \in Seqs, NEW p \in Seqs \union {0},
         Derefs(t, p, With(s, [entry[s] EXCEPT !.init = FALSE]))
  PROVE  Recount(0, p) /\ FullKept /\ ExitKept
<1> DEFINE e == [entry[s] EXCEPT !.init = FALSE]
           ents == With(s, e)
<1>1. entry[s] \in EntryType
  BY EntryTyped DEF Inv, TypeInv
<1>2. /\ e \in EntryType
      /\ e.pid = entry[s].pid /\ e.listed = entry[s].listed
      /\ e.freed = entry[s].freed /\ e.refs = entry[s].refs
      /\ e.full = entry[s].full /\ e.exit = entry[s].exit
  BY <1>1 DEF EntryType
<1>3. Derefs(t, p, ents)
  OBVIOUS
<1> HIDE DEF e
<1>4. /\ ents \in Seq(EntryType) /\ Len(ents) = Len(entry)
      /\ ents[s] = e
      /\ \A r \in Seqs : r # s => ents[r] = entry[r]
  BY <1>2, WithDoes DEF Inv, TypeInv
<1> HIDE DEF ents
<1>5. \A r \in Seqs :
           /\ ents[r].pid = entry[r].pid
           /\ ents[r].listed = entry[r].listed
           /\ ents[r].freed = entry[r].freed
           /\ ents[r].refs = entry[r].refs
           /\ ents[r].full = entry[r].full /\ ents[r].exit = entry[r].exit
  BY <1>2, <1>4
<1>6. Recount(0, p) /\ \A r \in Seqs : entry'[r].full = ents[r].full
                                        /\ entry'[r].exit = ents[r].exit
  BY <1>3, <1>4, <1>5, DerefsCounts
<1> QED
  BY <1>5, <1>6 DEF FullKept, ExitKept

-----------------------------------------------------------------------------
(* What the actions of a call do.                                          *)

\* The reference that the call at the top of t drops when it is refused.
Passed(t) == IF Top(t).pc = "log" THEN ParentOf(Top(t).full) ELSE 0
Quiet(t) == \/ Check(t) \/ FillStart(t) \/ FillFails(t) \/ FillRefused(t)
            \/ LogStart(t) \/ FillRelease(t)

LEMMA QuietDoes ==
  ASSUME Inv, NEW t \in Threads, Quiet(t)
  PROVE  /\ stack[t] # << >>
         /\ \E g \in FrameType : /\ SetTop(t, g)
                                 /\ g.pid = Top(t).pid
                                 /\ g.seq = Top(t).seq
                                 /\ g.pc \notin TakenPcs
         /\ Recount(0, Passed(t)) /\ FullKept /\ ExitKept
         /\ UNCHANGED <<osvars, op>>
<1> DEFINE f == Top(t)
<1>1. CASE Check(t)
  <2>1. stack[t] # << >> /\ f \in FrameType /\ f.pc = "check"
    BY <1>1, AtTop DEF Check
  <2>2. PICK x \in {"fill", "return"} : SetTop(t, [f EXCEPT !.pc = x])
    BY <1>1 DEF Check, Goto
  <2>3. x \in PCs
    BY DEF PCs
  <2> DEFINE g == [f EXCEPT !.pc = x]
  <2>4. g \in FrameType /\ g.pc = x /\ g.pid = f.pid /\ g.seq = f.seq
    BY <2>1, <2>3, PcFields
  <2>5. Recount(0, 0) /\ FullKept /\ ExitKept
    BY <1>1, SameCounts DEF Check
  <2>6. Passed(t) = 0 /\ UNCHANGED <<osvars, op>>
    BY <1>1, <2>1 DEF Passed, Check
  <2> QED
    BY <2>1, <2>2, <2>4, <2>5, <2>6 DEF TakenPcs
<1>2. CASE FillStart(t)
  <2>1. stack[t] # << >> /\ f \in FrameType /\ f.pc = "fill" /\ f.seq \in Seqs
    BY <1>2, AtTop DEF FillStart
  <2> DEFINE g == [f EXCEPT !.pc = "query"]
  <2>2. g \in FrameType /\ g.pc = "query" /\ g.pid = f.pid /\ g.seq = f.seq
    BY <2>1, PcFields DEF PCs
  <2>3. SetTop(t, g)
    BY <1>2 DEF FillStart, Goto
  <2>4. Recount(0, 0) /\ FullKept /\ ExitKept
    BY <1>2, <2>1, InitCounts DEF FillStart
  <2>5. Passed(t) = 0 /\ UNCHANGED <<osvars, op>>
    BY <1>2, <2>1 DEF Passed, FillStart
  <2> QED
    BY <2>1, <2>2, <2>3, <2>4, <2>5 DEF TakenPcs
<1>3. CASE FillFails(t)
  <2>1. stack[t] # << >> /\ f \in FrameType /\ f.pc = "query" /\ f.seq \in Seqs
    BY <1>3, AtTop DEF FillFails
  <2>2. Filled(f) \in FrameType /\ Filled(f).pc \in {"check", "return"}
        /\ Filled(f).pid = f.pid /\ Filled(f).seq = f.seq
    BY <2>1, FilledFields
  <2>3. SetTop(t, Filled(f))
    BY <1>3 DEF FillFails
  <2>4. Recount(0, 0) /\ FullKept /\ ExitKept
    BY <1>3, <2>1, InitCounts DEF FillFails
  <2>5. Passed(t) = 0 /\ UNCHANGED <<osvars, op>>
    BY <1>3, <2>1 DEF Passed, FillFails
  <2> QED
    BY <2>1, <2>2, <2>3, <2>4, <2>5 DEF TakenPcs
<1>4. CASE FillRefused(t)
  <2>1. /\ stack[t] # << >> /\ f \in FrameType /\ f.pc = "log" /\ f.seq \in Seqs
        /\ FrameOK(f, Known)
    BY <1>4, AtTop DEF FillRefused
  <2>2. Described(f) \in FrameType /\ Described(f).pc \in {"start", "check", "return"}
        /\ Described(f).pid = f.pid /\ Described(f).seq = f.seq
    BY <2>1, DescribedFields
  <2>3. SetTop(t, Described(f))
    BY <1>4 DEF FillRefused
  <2>4. Passed(t) = ParentOf(f.full) /\ UNCHANGED <<osvars, op>>
    BY <1>4, <2>1 DEF Passed, FillRefused
  <2>5. ParentOf(f.full) \in Seqs \union {0}
    BY <2>1, ParentKnown DEF FrameOK, Known
  <2>6. Recount(0, Passed(t)) /\ FullKept /\ ExitKept
    BY <1>4, <2>1, <2>4, <2>5, RefusedCounts DEF FillRefused
  <2> QED
    BY <2>1, <2>2, <2>3, <2>4, <2>6 DEF TakenPcs
<1>5. CASE LogStart(t)
  <2>1. stack[t] # << >> /\ f \in FrameType /\ f.pc = "start"
    BY <1>5, AtTop DEF LogStart
  <2>2. Filled(f) \in FrameType /\ Filled(f).pc \in {"check", "return"}
        /\ Filled(f).pid = f.pid /\ Filled(f).seq = f.seq
    BY <2>1, FilledFields
  <2>3. SetTop(t, Filled(f))
    BY <1>5 DEF LogStart
  <2>4. Recount(0, 0) /\ FullKept /\ ExitKept
    BY <1>5, SameCounts DEF LogStart
  <2>5. Passed(t) = 0 /\ UNCHANGED <<osvars, op>>
    BY <1>5, <2>1 DEF Passed, LogStart
  <2> QED
    BY <2>1, <2>2, <2>3, <2>4, <2>5 DEF TakenPcs
<1>6. CASE FillRelease(t)
  <2>1. stack[t] # << >> /\ f \in FrameType /\ f.pc = "release"
    BY <1>6, AtTop DEF FillRelease
  <2>2. Described(f) \in FrameType /\ Described(f).pc \in {"start", "check", "return"}
        /\ Described(f).pid = f.pid /\ Described(f).seq = f.seq
    BY <2>1, DescribedFields
  <2>3. SetTop(t, Described(f))
    BY <1>6 DEF FillRelease
  <2>4. Recount(0, 0) /\ FullKept /\ ExitKept
    BY <1>6, SameCounts DEF FillRelease
  <2>5. Passed(t) = 0 /\ UNCHANGED <<osvars, op>>
    BY <1>6, <2>1 DEF Passed, FillRelease
  <2> QED
    BY <2>1, <2>2, <2>3, <2>4, <2>5 DEF TakenPcs
<1> QED
  BY <1>1, <1>2, <1>3, <1>4, <1>5, <1>6 DEF Quiet

-----------------------------------------------------------------------------
(* The CREATE records through the actions of a call.                       *)

LEMMA QuietTopCounts ==
  ASSUME Inv, CountInv, NEW t \in Threads, Quiet(t)
  PROVE  /\ FramePid' /\ ChildFrame' /\ Seqs' = Seqs
         /\ \A p : Coming(p)' = Coming(p)
         /\ \A s : Taken(s)' \subseteq Taken(s) \ {<<t, Len(stack[t])>>}
<1>1. PICK g \in FrameType : /\ SetTop(t, g)
                             /\ g.pid = Top(t).pid
                             /\ g.seq = Top(t).seq
                             /\ g.pc \notin TakenPcs
  BY QuietDoes
<1>2. stack[t] # << >> /\ Recount(0, Passed(t)) /\ UNCHANGED <<osvars, op>>
  BY QuietDoes
<1>3. Seqs' = Seqs /\ \A s \in Seqs : entry'[s].freed = entry[s].freed
                                       /\ entry'[s].pid = entry[s].pid
  BY <1>2, RecountKeeps
<1>4. op' = op /\ life' = life
  BY <1>2 DEF osvars
<1> QED
  BY <1>1, <1>2, <1>3, <1>4, TopCounts

LEMMA QuietCounts ==
  ASSUME Inv, CountInv, NEW t \in Threads, Quiet(t), table' = table, TypeInv'
  PROVE  CountInv'
<1>1. /\ FramePid' /\ ChildFrame' /\ Seqs' = Seqs
      /\ \A p : Coming(p)' = Coming(p)
      /\ \A s : Taken(s)' \subseteq Taken(s)
  BY QuietTopCounts
<1>2. Recount(0, Passed(t)) /\ FullKept /\ life' = life
  BY QuietDoes DEF osvars
<1>3. \A s \in Seqs : /\ entry'[s].freed = entry[s].freed
                      /\ entry'[s].pid = entry[s].pid
                      /\ entry'[s].full \in {{}, entry[s].full}
                      /\ Taken(s)' \subseteq Taken(s)
  BY <1>1, <1>2 DEF Recount, FullKept
<1>4. ComingOK' /\ RecordsOK' /\ Later'
  BY <1>1, <1>2, <1>3, RecordsStay
<1> QED
  BY <1>1, <1>4 DEF CountInv

LEMMA ReleaseCounts ==
  ASSUME Inv, CountInv, NEW t \in Threads, FillRelease(t), TypeInv'
  PROVE  CountInv'
<1> DEFINE f == Top(t)
           r == f.seq
           k == IF f.full = {} THEN "init" ELSE "create"
           x == <<t, Len(stack[t])>>
<1>1. /\ FramePid' /\ ChildFrame' /\ Seqs' = Seqs
      /\ \A p : Coming(p)' = Coming(p)
      /\ \A s : Taken(s)' \subseteq Taken(s) \ {x}
  BY QuietTopCounts DEF Quiet
<1>2. Recount(0, Passed(t)) /\ FullKept /\ life' = life
  BY QuietDoes DEF osvars, Quiet
<1>3. /\ f.pc = "release" /\ r \in Seqs /\ Len(stack[t]) \in Nat \ {0}
      /\ f = stack[t][Len(stack[t])]
  BY AtTop DEF FillRelease
<1>4. table' = Inserted(r, k) /\ k \in {"init", "create"}
  BY DEF FillRelease
<1>5. r \in 1 .. MaxSeq
  BY <1>3, SeqsBounded DEF Inv
<1>6. /\ \A s \in 1 .. MaxSeq : s # r => table'[s] = table[s]
      /\ table'[r] = Append(table[r], k)
  <2> HIDE DEF k, r
  <2> QED
    BY <1>4, <1>5, InsertedDoes DEF Inv, TypeInv
<1>7. ASSUME NEW s \in Seqs
      PROVE  /\ entry'[s].freed = entry[s].freed
             /\ entry'[s].pid = entry[s].pid
             /\ Cardinality(Creates(s)') \in Nat /\ Cardinality(Taken(s)') \in Nat
             /\ Cardinality(Creates(s)') + Cardinality(Taken(s)') + Parked(s)'
                  <= Cardinality(Creates(s)) + Cardinality(Taken(s)) + Parked(s)
  <2>1. s \in 1 .. MaxSeq
    BY SeqsBounded DEF Inv
  <2>2. /\ IsFiniteSet(Creates(s)) /\ Cardinality(Creates(s)) \in Nat
        /\ IsFiniteSet(Taken(s)) /\ Cardinality(Taken(s)) \in Nat
        /\ Parked(s) \in {0, 1}
    BY <2>1, CountsFinite DEF Inv
  <2>3. entry'[s].freed = entry[s].freed /\ entry'[s].pid = entry[s].pid
    BY <1>2 DEF Recount
  <2>4. Parked(s)' = Parked(s)
    BY <1>2 DEF Parked, FullKept
  <2>5. /\ Cardinality(Taken(s)') \in Nat
        /\ Cardinality(Taken(s)') <= Cardinality(Taken(s))
    BY <1>1, <2>2, CardShrinks
  <2>6. CASE s # r \/ f.full = {}
    <3>1. Creates(s)' \subseteq Creates(s)
      <4>1. CASE s # r
        BY <1>6, <2>1, <4>1 DEF Creates
      <4>2. CASE s = r /\ f.full = {}
        <5>1. table[s] \in Seq({"init", "create"})
          BY <2>1 DEF Inv, TypeInv, ClientTyped
        <5>2. /\ Len(table'[s]) = Len(table[s]) + 1 /\ Len(table[s]) \in Nat
              /\ \A i \in 1 .. Len(table[s]) : table'[s][i] = table[s][i]
              /\ table'[s][Len(table[s]) + 1] = "init"
          BY <1>6, <4>2, <5>1, AppendProperties, LenProperties
        <5>3. SUFFICES ASSUME NEW i \in 1 .. Len(table'[s]), table'[s][i] = "create"
                       PROVE  i \in 1 .. Len(table[s]) /\ table[s][i] = "create"
          BY DEF Creates
        <5>4. i \in 1 .. Len(table[s]) \/ i = Len(table[s]) + 1
          BY <5>2, <5>3
        <5> QED
          BY <5>2, <5>3, <5>4
      <4> QED
        BY <2>6, <4>1, <4>2
    <3>2. /\ Cardinality(Creates(s)') \in Nat
          /\ Cardinality(Creates(s)') <= Cardinality(Creates(s))
      BY <2>2, <3>1, CardShrinks
    <3> QED
      BY <2>2, <2>3, <2>4, <2>5, <3>2
  <2>7. CASE s = r /\ f.full # {}
    <3>1. x \in Taken(s)
      <4>1. x \in Places /\ Frame(x) = f
        BY <1>3, InPlaces DEF Frame
      <4> QED
        BY <1>3, <2>7, <4>1 DEF Taken, Carries, TakenPcs
    <3>2. /\ Cardinality(Taken(s)') \in Nat
          /\ Cardinality(Taken(s)') <= Cardinality(Taken(s)) - 1
      BY <1>1, <2>2, <3>1, CardLoses
    <3>3. Creates(s)' \subseteq Creates(s) \union {Len(table[s]) + 1}
      <4>1. table[s] \in Seq({"init", "create"})
        BY <2>1 DEF Inv, TypeInv, ClientTyped
      <4>2. /\ Len(table'[s]) = Len(table[s]) + 1 /\ Len(table[s]) \in Nat
            /\ \A i \in 1 .. Len(table[s]) : table'[s][i] = table[s][i]
        BY <1>6, <2>7, <4>1, AppendProperties, LenProperties
      <4>3. SUFFICES ASSUME NEW i \in 1 .. Len(table'[s]), table'[s][i] = "create"
                     PROVE  \/ i = Len(table[s]) + 1
                            \/ i \in 1 .. Len(table[s]) /\ table[s][i] = "create"
        BY DEF Creates
      <4>4. i \in 1 .. Len(table[s]) \/ i = Len(table[s]) + 1
        BY <4>2, <4>3
      <4> QED
        BY <4>2, <4>3, <4>4
    <3>4. /\ Cardinality(Creates(s)') \in Nat
          /\ Cardinality(Creates(s)') <= Cardinality(Creates(s)) + 1
      BY <2>2, <3>3, CardGains
    <3> QED
      BY <2>2, <2>3, <2>4, <3>2, <3>4
  <2> QED
    BY <2>6, <2>7
<1>8. ComingOK' /\ RecordsOK'
  <2>1. \A p \in Pids : Coming(p)' \subseteq Coming(p)
    BY <1>1
  <2> HIDE DEF x, k, r, f
  <2> QED
    BY <1>1, <1>2, <1>7, <2>1, RecordsStep
<1>9. Later'
  BY <1>1, <1>3, <1>6 DEF Later, CountInv
<1> QED
  BY <1>1, <1>8, <1>9 DEF CountInv

\* A step of thread t that logs no record and takes no details.
LEMMA StepCounts ==
  ASSUME Inv, CountInv, TypeInv', life' = life, table' = table, Seqs' = Seqs,
         NEW t \in Threads, NEW n, NEW S \in Seq(FrameType),
         Restacked(t, n, S),
         \A u \in Threads : u # t => op'[u] = op[u],
         op'[t].kind = "create" => op[t].kind = "create" /\ op'[t].about = op[t].about,
         op'[t].kind = "create" /\ op'[t].step = "child" =>
           stack'[t][1].pid = op[t].about,
         \A r \in Seqs :
           \/ entry'[r].freed
           \/ /\ entry'[r].freed = entry[r].freed
              /\ entry'[r].pid = entry[r].pid
              /\ entry'[r].full \in {{}, entry[r].full},
         \A k \in 1 .. Len(S) : S[k].seq # 0 =>
           entry'[S[k].seq].freed \/ entry'[S[k].seq].pid = S[k].pid,
         \A s \in Seqs : \A k \in 1 .. Len(S) : Carries(S[k], s) =>
           n + k \in 1 .. Len(stack[t]) /\ Carries(stack[t][n + k], s)
  PROVE  CountInv'
<1>1. FramePid'
  BY FramePidStep DEF CountInv
<1>2. ChildFrame'
  <2> SUFFICES ASSUME NEW u \in Threads, op'[u].kind = "create", op'[u].step = "child"
               PROVE  stack'[u][1].pid = op'[u].about
    BY DEF ChildFrame
  <2>1. CASE u = t
    BY <2>1
  <2>2. CASE u # t
    <3>1. op'[u] = op[u] /\ stack'[u] = stack[u]
      BY <2>2 DEF Restacked
    <3> QED
      BY <3>1 DEF ChildFrame, CountInv
  <2> QED
    BY <2>1, <2>2
<1>3. \A p \in Pids : Coming(p)' \subseteq Coming(p)
  BY DEF Coming
<1>4. \A s \in Seqs : Taken(s)' \subseteq Taken(s)
  BY TakenStep DEF Inv, TypeInv
<1>5. ComingOK' /\ RecordsOK' /\ Later'
  BY <1>3, <1>4, RecordsStay
<1> QED
  BY <1>1, <1>2, <1>5 DEF CountInv

\* The calls stay as they are.
LEMMA StillCounts ==
  ASSUME Inv, CountInv, TypeInv', life' = life, table' = table, Seqs' = Seqs,
         stack' = stack,
         \A u \in Threads :
           op'[u].kind = "create" => op'[u] = op[u],
         \A r \in Seqs :
           \/ entry'[r].freed
           \/ /\ entry'[r].freed = entry[r].freed
              /\ entry'[r].pid = entry[r].pid
              /\ entry'[r].full \in {{}, entry[r].full}
  PROVE  CountInv'
<1>1. Places' = Places /\ \A x : Frame(x)' = Frame(x)
  BY DEF Places, Frame
<1>2. FramePid'
  <2> SUFFICES ASSUME NEW x \in Places, Frame(x).seq # 0
               PROVE  entry'[Frame(x).seq].freed
                        \/ entry'[Frame(x).seq].pid = Frame(x).pid
    BY <1>1 DEF FramePid
  <2>1. x \in Threads \X Nat /\ x[2] \in 1 .. Len(stack[x[1]])
    BY InPlaces
  <2>2. Frame(x).seq \in Seqs
    BY <2>1 DEF Frame, Inv, ListInv, FramesOK, FrameOK, Known
  <2> QED
    BY <2>2 DEF FramePid, CountInv
<1>3. ChildFrame'
  BY DEF ChildFrame, CountInv
<1>4. \A p \in Pids : Coming(p)' \subseteq Coming(p)
  BY DEF Coming
<1>5. \A s \in Seqs : Taken(s)' \subseteq Taken(s)
  BY <1>1 DEF Taken
<1>6. ComingOK' /\ RecordsOK' /\ Later'
  BY <1>4, <1>5, RecordsStay
<1> QED
  BY <1>2, <1>3, <1>6 DEF CountInv

\* The same for a step of the call at the top.
LEMMA TopStepCounts ==
  ASSUME Inv, CountInv, TypeInv', NEW t \in Threads, stack[t] # << >>,
         NEW g \in FrameType, SetTop(t, g),
         g.pid = Top(t).pid, g.pc \notin TakenPcs,
         \/ g.seq = Top(t).seq
         \/ entry'[g.seq].pid = g.pid,
         op' = op, life' = life, table' = table, Seqs' = Seqs,
         \A s \in Seqs :
           \/ entry'[s].freed
           \/ /\ entry'[s].freed = entry[s].freed
              /\ entry'[s].pid = entry[s].pid
              /\ entry'[s].full \in {{}, entry[s].full}
  PROVE  CountInv'
<1>1. /\ FramePid' /\ ChildFrame'
      /\ \A p : Coming(p)' = Coming(p)
      /\ \A s : Taken(s)' \subseteq Taken(s) \ {<<t, Len(stack[t])>>}
  BY TopCounts
<1>2. \A s : Taken(s)' \subseteq Taken(s)
  BY <1>1
<1>3. ComingOK' /\ RecordsOK' /\ Later'
  BY <1>1, <1>2, RecordsStay
<1> QED
  BY <1>1, <1>3 DEF CountInv

\* What the two searches of the list do.
LEMMA FindDoes ==
  ASSUME Inv, NEW t \in Threads, Finds(t)
  PROVE  /\ stack[t] # << >>
         /\ UNCHANGED <<osvars, logLock, op, freeing, uservars>>
         /\ \E g \in FrameType :
              /\ SetTop(t, g) /\ g.pid = Top(t).pid /\ g.full = Top(t).full
              /\ \/ /\ g.pc = "check" /\ g.seq \in Known
                    /\ entry[g.seq].listed /\ entry[g.seq].pid = g.pid
                    /\ Recount(g.seq, 0) /\ FullKept /\ ExitKept
                 \/ /\ g.pc = "insert" /\ g.seq = Top(t).seq
                    /\ Len(entry) + 1 \in 1 .. MaxSeq
                    /\ Len(entry') = Len(entry) + 1
                    /\ \A s \in Seqs : entry'[s] = entry[s]
                    /\ entry'[Len(entry) + 1] = NewEntry(g.pid)
                 \/ /\ g.pc = "return" /\ g.seq = Top(t).seq
                    /\ entry' = entry
<1> DEFINE f == Top(t)
           p == f.pid
<1>1. stack[t] # << >> /\ f \in FrameType /\ p \in Pids
  BY AtTop DEF Finds, Find, FindFails, FrameType
<1>2. UNCHANGED <<osvars, logLock, op, freeing, uservars>>
  BY DEF Finds, Find, FindFails
<1>3. {"check", "insert", "return"} \subseteq PCs
  BY DEF PCs
<1>4. CASE Listed(p) # {} /\ entry' = With(Found(p), Held(entry[Found(p)]))
             /\ SetTop(t, [f EXCEPT !.pc = "check", !.seq = Found(p)])
  <2> DEFINE s == Found(p)
             g == [f EXCEPT !.pc = "check", !.seq = s]
  <2>1. s \in Known /\ s \in Seqs /\ entry[s].listed /\ entry[s].pid = p /\ s \in Nat
    BY <1>4, FoundIsListed, EntryTyped DEF Inv, TypeInv
  <2>2. SetTop(t, g) /\ entry' = With(s, Held(entry[s]))
    BY <1>4
  <2> HIDE DEF s, f
  <2>3. /\ g \in FrameType /\ g.pc = "check" /\ g.pid = p /\ g.seq = s
        /\ g.full = f.full
    BY <1>1, <1>3, <2>1 DEF FrameType
  <2> HIDE DEF g
  <2>4. Recount(s, 0) /\ FullKept /\ ExitKept
    BY <2>1, <2>2, HeldCounts
  <2> QED
    BY <1>1, <1>2, <2>1, <2>2, <2>3, <2>4 DEF f
<1>5. CASE Goto(t, "return") /\ UNCHANGED entry
  <2> DEFINE g == [f EXCEPT !.pc = "return"]
  <2>1. /\ g \in FrameType /\ g.pc = "return" /\ g.seq = f.seq
        /\ g.full = f.full /\ g.pid = p
    BY <1>1, <1>3, PcFields
  <2>2. SetTop(t, g)
    BY <1>5 DEF Goto
  <2> HIDE DEF g
  <2> QED
    BY <1>1, <1>2, <1>5, <2>1, <2>2
<1>6. CASE /\ Len(entry) < MaxSeq
           /\ entry' = Append(entry, NewEntry(p))
           /\ SetTop(t, [f EXCEPT !.pc = "insert", !.mine = Len(entry) + 1])
  <2> DEFINE m == Len(entry) + 1
             g == [f EXCEPT !.pc = "insert", !.mine = m]
  <2>1. entry \in Seq(EntryType) /\ Len(entry) \in Nat /\ m \in Nat
    BY LenProperties DEF Inv, TypeInv, DriverTyped
  <2>2. NewEntry(p) \in EntryType
    BY <1>1, NewEntryFields DEF Inv
  <2>3. /\ Len(entry') = m
        /\ \A s \in Seqs : entry'[s] = entry[s]
        /\ entry'[m] = NewEntry(p)
    BY <1>6, <2>1, <2>2, AppendProperties DEF Seqs
  <2>4. m \in 1 .. MaxSeq
    BY <1>6, <2>1, ProcessAssumption
  <2>5. SetTop(t, g)
    BY <1>6
  <2> HIDE DEF m, f
  <2>6. /\ g \in FrameType /\ g.pc = "insert" /\ g.seq = f.seq
        /\ g.full = f.full /\ g.pid = p
    BY <1>1, <1>3, <2>1 DEF FrameType
  <2> HIDE DEF g
  <2> QED
    BY <1>1, <1>2, <2>3, <2>4, <2>5, <2>6 DEF f, m
<1> QED
  BY <1>4, <1>5, <1>6 DEF Finds, Find, FindFails

\* The second search finds the entry of another thread, or inserts its own, m.
Inserts(m, g) ==
  \/ /\ entry'[m] = Freed
     /\ g.seq \in Known /\ g.seq # m
     /\ entry[g.seq].listed /\ entry[g.seq].pid = g.pid
     /\ entry'[g.seq] = Held(entry[g.seq])
     /\ \A s \in Seqs : s # m /\ s # g.seq => entry'[s] = entry[s]
  \/ /\ Listed(g.pid) = {}
     /\ g.seq = m
     /\ entry[m].pid = g.pid /\ entry'[m].pid = g.pid
     /\ entry'[m].listed /\ ~entry'[m].freed
     /\ entry'[m].full = {} /\ entry'[m].exit = "no"
     /\ entry'[m].refs = 2
     /\ \A s \in Seqs : s # m => entry'[s] = entry[s]

LEMMA InsertDoes ==
  ASSUME Inv, NEW t \in Threads, Insert(t)
  PROVE  LET m == Top(t).mine IN
         /\ stack[t] # << >> /\ m \in Seqs \ Known /\ ~entry[m].freed
         /\ UNCHANGED <<osvars, logLock, op, freeing, uservars>>
         /\ Len(entry') = Len(entry)
         /\ \E g \in FrameType :
              /\ SetTop(t, g) /\ g.pid = Top(t).pid /\ g.pc \in {"check", "fill"}
              /\ Inserts(m, g)
<1> DEFINE f == Top(t)
           p == f.pid
           m == f.mine
<1>1. /\ stack[t] # << >> /\ f \in FrameType /\ f.pc = "insert"
      /\ FrameOK(f, Known)
      /\ Len(stack[t]) \in Nat \ {0} /\ f = stack[t][Len(stack[t])]
  BY AtTop DEF Insert
<1>2. /\ m \in Seqs \ Known /\ m # 0 /\ m \in Nat
      /\ entry[m].pid = p /\ entry[m] \in EntryType
      /\ ~entry[m].listed /\ ~entry[m].freed /\ entry[m].full = {}
      /\ entry[m].refs = 1 /\ entry[m].exit = "no"
  <2>1. Len(stack[t]) \in 1 .. Len(stack[t])
    BY <1>1
  <2>2. m # 0
    BY <1>1 DEF FrameOK
  <2>3. m \in Seqs \ Known /\ entry[m].pid = p
    BY <1>1, <2>1, <2>2 DEF Inv, ListInv, MineOK
  <2> QED
    BY <1>1, <2>2, <2>3, EntryTyped DEF Inv, TypeInv, ListInv, EntriesOK, Known
<1>3. UNCHANGED <<osvars, logLock, op, freeing, uservars>>
  BY DEF Insert
<1>4. CASE /\ Listed(p) # {}
           /\ entry' = [s \in Seqs |-> IF s = m THEN Freed
                                       ELSE IF s = Found(p) THEN Held(entry[s])
                                       ELSE entry[s]]
           /\ SetTop(t, [f EXCEPT !.pc = "check", !.seq = Found(p), !.mine = 0])
  <2> DEFINE s == Found(p)
             g == [f EXCEPT !.pc = "check", !.seq = s, !.mine = 0]
  <2>1. s \in Known /\ s \in Seqs /\ s \in Nat /\ entry[s].listed /\ entry[s].pid = p
    BY <1>4, FoundIsListed, EntryTyped DEF Inv, TypeInv
  <2>2. SetTop(t, g)
    BY <1>4
  <2>3. entry' = [r \in Seqs |-> IF r = m THEN Freed
                                 ELSE IF r = s THEN Held(entry[r]) ELSE entry[r]]
    BY <1>4
  <2>4. "check" \in PCs
    BY DEF PCs
  <2> HIDE DEF s, f
  <2>5. /\ g \in FrameType /\ g.pc = "check" /\ g.seq = s /\ g.pid = p
    BY <1>1, <2>1, <2>4 DEF FrameType
  <2> HIDE DEF g
  <2>6. \A r \in Seqs : entry'[r] = IF r = m THEN Freed
                                    ELSE IF r = s THEN Held(entry[r]) ELSE entry[r]
    BY <2>3
  <2>7. Len(entry') = Len(entry)
    <3>1. Seqs = 1 .. Len(entry) /\ Len(entry) \in Nat
      BY LenProperties DEF Seqs, Inv, TypeInv, DriverTyped
    <3>2. \A r \in Seqs : entry[r] \in EntryType /\ Held(entry[r]) \in EntryType
      BY EntryTyped, CountFields DEF Inv, TypeInv
    <3>3. entry' \in [Seqs -> EntryType]
      BY <2>3, <3>2, FreedFields
    <3> QED
      BY <3>1, <3>3, FunctionIsSeq
  <2>8. s # m
    <3>1. s \in Known
      BY <2>1
    <3>2. m \notin Known
      BY <1>2, ZenonT(40)
    <3> QED
      BY <3>1, <3>2
  <2> QED
    BY <1>1, <1>2, <1>3, <2>1, <2>2, <2>5, <2>6, <2>7, <2>8 DEF f, Inserts
<1>5. CASE /\ Listed(p) = {}
           /\ entry' = With(m, [Held(entry[m]) EXCEPT !.listed = TRUE])
           /\ SetTop(t, [f EXCEPT !.pc = IF f.sync THEN "fill" ELSE "check",
                                  !.seq = m, !.mine = 0, !.again = f.sync])
  <2> DEFINE x == IF f.sync THEN "fill" ELSE "check"
             b == f.sync
             h == Held(entry[m])
             e == [h EXCEPT !.listed = TRUE]
             g == [f EXCEPT !.pc = x, !.seq = m, !.mine = 0, !.again = b]
  <2>1. SetTop(t, g) /\ entry' = With(m, e)
    BY <1>5
  <2>2. x \in PCs /\ x \in {"fill", "check"} /\ b \in BOOLEAN
    BY <1>1 DEF PCs, FrameType
  <2>3. /\ h \in EntryType /\ h.pid = p /\ ~h.freed /\ h.full = {}
        /\ h.exit = "no" /\ h.refs = 2
    BY <1>2, CountFields
  <2> HIDE DEF x, b, h
  <2>4. /\ e \in EntryType /\ e.pid = p /\ e.listed /\ ~e.freed
        /\ e.full = {} /\ e.exit = "no" /\ e.refs = 2
    BY <2>3 DEF EntryType
  <2> HIDE DEF e, m, f
  <2>5. /\ g \in FrameType /\ g.pc = x /\ g.seq = m /\ g.pid = p
    BY <1>1, <1>2, <2>2 DEF FrameType
  <2> HIDE DEF g
  <2>6. /\ Len(entry') = Len(entry)
        /\ entry'[m] = e
        /\ \A r \in Seqs : r # m => entry'[r] = entry[r]
    <3>1. /\ Len(With(m, e)) = Len(entry)
          /\ With(m, e)[m] = e
          /\ \A r \in Seqs : r # m => With(m, e)[r] = entry[r]
      BY <1>2, <2>4, WithDoes DEF Inv, TypeInv
    <3> QED
      BY <2>1, <3>1
  <2> QED
    BY <1>1, <1>2, <1>3, <1>5, <2>1, <2>2, <2>4, <2>5, <2>6 DEF f, m, Inserts
<1> QED
  BY <1>4, <1>5 DEF Insert

LEMMA FindCounts ==
  ASSUME Inv, CountInv, TypeInv', NEW t \in Threads, Finds(t)
  PROVE  CountInv'
<1>1. /\ stack[t] # << >>
      /\ op' = op /\ life' = life /\ table' = table
  BY FindDoes DEF osvars, uservars
<1>2. PICK g \in FrameType :
              /\ SetTop(t, g) /\ g.pid = Top(t).pid /\ g.full = Top(t).full
              /\ \/ /\ g.pc = "check" /\ g.seq \in Known
                    /\ entry[g.seq].listed /\ entry[g.seq].pid = g.pid
                    /\ Recount(g.seq, 0) /\ FullKept /\ ExitKept
                 \/ /\ g.pc = "insert" /\ g.seq = Top(t).seq
                    /\ Len(entry) + 1 \in 1 .. MaxSeq
                    /\ Len(entry') = Len(entry) + 1
                    /\ \A s \in Seqs : entry'[s] = entry[s]
                    /\ entry'[Len(entry) + 1] = NewEntry(g.pid)
                 \/ /\ g.pc = "return" /\ g.seq = Top(t).seq
                    /\ entry' = entry
  BY FindDoes
<1>3. CASE /\ g.pc = "check" /\ g.seq \in Known
           /\ entry[g.seq].listed /\ entry[g.seq].pid = g.pid
           /\ Recount(g.seq, 0) /\ FullKept
  <2>1. /\ Seqs' = Seqs /\ g.seq \in Seqs
        /\ \A s \in Seqs : entry'[s].freed = entry[s].freed /\ entry'[s].pid = entry[s].pid
    BY <1>3, RecountKeeps DEF Known
  <2>2. \A s \in Seqs : entry'[s].full = entry[s].full
    BY <1>3 DEF FullKept
  <2>3. entry'[g.seq].pid = g.pid /\ g.pc \notin TakenPcs
    BY <1>3, <2>1 DEF TakenPcs
  <2> QED
    BY <1>1, <1>2, <2>1, <2>2, <2>3, TopStepCounts
<1>4. CASE /\ g.pc = "return" /\ g.seq = Top(t).seq
           /\ entry' = entry
  <2>1. g.pc \notin TakenPcs /\ Seqs' = Seqs
    BY <1>4 DEF TakenPcs, Seqs
  <2> QED
    BY <1>1, <1>2, <1>4, <2>1, TopStepCounts
<1>5. CASE /\ g.pc = "insert" /\ g.seq = Top(t).seq
           /\ Len(entry) + 1 \in 1 .. MaxSeq
           /\ Len(entry') = Len(entry) + 1
           /\ \A s \in Seqs : entry'[s] = entry[s]
           /\ entry'[Len(entry) + 1] = NewEntry(g.pid)
  <2>1. g.pc \notin TakenPcs
    BY <1>5 DEF TakenPcs
  <2>5. PICK m \in 1 .. MaxSeq : m = Len(entry) + 1
    BY <1>5
  <2>2. Seqs' = Seqs \union {m} /\ m \notin Seqs /\ m # 0
    <3>1. Seqs = 1 .. Len(entry) /\ Seqs' = 1 .. Len(entry') /\ Len(entry) \in Nat
      BY SeqsBounded DEF Inv, Seqs
    <3> QED
      BY <1>5, <2>5, <3>1
  <2>3. entry'[m].full = {}
    BY <1>5, <2>5, NewEntryFields DEF Inv, FrameType
  <2>4. /\ FramePid' /\ ChildFrame'
        /\ \A p : Coming(p)' = Coming(p)
        /\ \A s : Taken(s)' \subseteq Taken(s) \ {<<t, Len(stack[t])>>}
    BY <1>1, <1>2, <1>5, <2>1, TopCounts
  <2>6. Creates(m)' = {} /\ Taken(m)' = {}
    <3>1. table[m] = << >>
      BY <2>2 DEF Later, CountInv
    <3>2. Creates(m)' = {}
      BY <1>1, <3>1 DEF Creates
    <3>3. ASSUME NEW x \in Taken(m) PROVE FALSE
      <4>1. /\ x \in Places /\ Frame(x).seq = m
        BY DEF Taken, Carries
      <4>2. x \in Threads \X Nat /\ x[2] \in 1 .. Len(stack[x[1]])
        BY <4>1, InPlaces
      <4>3. Frame(x).seq \in Known \union {0}
        BY <4>2 DEF Frame, Inv, ListInv, FramesOK, FrameOK
      <4> QED
        BY <2>2, <4>1, <4>3 DEF Known
    <3> QED
      BY <2>4, <3>2, <3>3
  <2>7. ASSUME NEW s \in Seqs
        PROVE  /\ entry'[s].freed = entry[s].freed
               /\ entry'[s].pid = entry[s].pid
               /\ Cardinality(Creates(s)') \in Nat /\ Cardinality(Taken(s)') \in Nat
               /\ Cardinality(Creates(s)') + Cardinality(Taken(s)') + Parked(s)'
                    <= Cardinality(Creates(s)) + Cardinality(Taken(s)) + Parked(s)
    <3>1. s \in 1 .. MaxSeq
      BY SeqsBounded DEF Inv
    <3>2. /\ IsFiniteSet(Taken(s)) /\ Cardinality(Creates(s)) \in Nat
          /\ Parked(s) \in {0, 1}
      BY <3>1, CountsFinite DEF Inv
    <3>3. entry'[s] = entry[s]
      BY <1>5
    <3>4. Creates(s)' = Creates(s) /\ Parked(s)' = Parked(s)
      BY <1>1, <3>3 DEF Creates, Parked
    <3>5. Taken(s)' \subseteq Taken(s)
      BY <2>4
    <3>6. /\ Cardinality(Taken(s)') \in Nat /\ Cardinality(Taken(s)) \in Nat
          /\ Cardinality(Taken(s)') <= Cardinality(Taken(s))
      BY <3>2, <3>5, CardShrinks
    <3> QED
      BY <3>2, <3>3, <3>4, <3>6
  <2>8. ComingOK' /\ RecordsOK'
    <3>1. \A s \in Seqs' :
           \/ entry'[s].freed
           \/ Creates(s)' = {} /\ Taken(s)' = {} /\ entry'[s].full = {}
           \/ /\ s \in Seqs
              /\ entry'[s].freed = entry[s].freed
              /\ entry'[s].pid = entry[s].pid
              /\ Cardinality(Creates(s)') \in Nat /\ Cardinality(Taken(s)') \in Nat
              /\ Cardinality(Creates(s)') + Cardinality(Taken(s)') + Parked(s)'
                   <= Cardinality(Creates(s)) + Cardinality(Taken(s)) + Parked(s)
      BY <2>2, <2>3, <2>6, <2>7
    <3>2. \A p \in Pids : Coming(p)' \subseteq Coming(p)
      BY <2>4
    <3> QED
      BY <1>1, <3>1, <3>2, RecordsStep
  <2>9. Later'
    BY <1>1, <2>2 DEF Later, CountInv
  <2> QED
    BY <2>4, <2>8, <2>9 DEF CountInv
<1> QED
  BY <1>2, <1>3, <1>4, <1>5

LEMMA InsertCounts ==
  ASSUME Inv, CountInv, TypeInv', NEW t \in Threads, Insert(t)
  PROVE  CountInv'
<1> DEFINE m == Top(t).mine
<1>1. /\ stack[t] # << >> /\ m \in Seqs \ Known /\ ~entry[m].freed
      /\ op' = op /\ life' = life /\ table' = table
      /\ Len(entry') = Len(entry)
  BY InsertDoes DEF osvars, uservars
<1>2. PICK g \in FrameType :
              /\ SetTop(t, g) /\ g.pid = Top(t).pid /\ g.pc \in {"check", "fill"}
              /\ \/ /\ entry'[m] = Freed
                    /\ g.seq \in Known /\ g.seq # m
                    /\ entry[g.seq].listed /\ entry[g.seq].pid = g.pid
                    /\ entry'[g.seq] = Held(entry[g.seq])
                    /\ \A s \in Seqs : s # m /\ s # g.seq => entry'[s] = entry[s]
                 \/ /\ Listed(g.pid) = {}
                    /\ g.seq = m
                    /\ entry[m].pid = g.pid /\ entry'[m].pid = g.pid
                    /\ entry'[m].listed /\ ~entry'[m].freed
                    /\ entry'[m].full = {} /\ entry'[m].exit = "no"
                    /\ entry'[m].refs = 2
                    /\ \A s \in Seqs : s # m => entry'[s] = entry[s]
  <2>1. PICK g \in FrameType :
          /\ SetTop(t, g) /\ g.pid = Top(t).pid /\ g.pc \in {"check", "fill"}
          /\ Inserts(m, g)
    BY InsertDoes
  <2> QED
    BY <2>1 DEF Inserts
<1>3. g.pc \notin TakenPcs /\ Seqs' = Seqs
  BY <1>1, <1>2 DEF TakenPcs, Seqs
<1>4. /\ entry'[g.seq].pid = g.pid
      /\ \A s \in Seqs :
           \/ entry'[s].freed
           \/ /\ entry'[s].freed = entry[s].freed
              /\ entry'[s].pid = entry[s].pid
              /\ entry'[s].full \in {{}, entry[s].full}
  <2>1. \A s \in Seqs : entry[s] \in EntryType
    BY EntryTyped DEF Inv, TypeInv
  <2>2. CASE /\ entry'[m] = Freed
             /\ g.seq \in Known /\ g.seq # m
             /\ entry[g.seq].pid = g.pid
             /\ entry'[g.seq] = Held(entry[g.seq])
             /\ \A s \in Seqs : s # m /\ s # g.seq => entry'[s] = entry[s]
    <3>1. Freed.freed
      BY FreedFields
    <3>2. g.seq \in Seqs
      BY <2>2 DEF Known
    <3>3. /\ entry'[g.seq].freed = entry[g.seq].freed
          /\ entry'[g.seq].pid = entry[g.seq].pid
          /\ entry'[g.seq].full = entry[g.seq].full
      BY <2>1, <2>2, <3>2, CountFields
    <3> HIDE DEF m
    <3> QED
      BY <2>2, <3>1, <3>3
  <2>3. CASE /\ g.seq = m
             /\ entry[m].pid = g.pid /\ entry'[m].pid = g.pid
             /\ ~entry'[m].freed /\ entry'[m].full = {}
             /\ \A s \in Seqs : s # m => entry'[s] = entry[s]
    <3> HIDE DEF m
    <3>1. /\ entry'[m].freed = entry[m].freed
      <4>1. entry'[m] \in EntryType
        <5>1. entry' \in Seq(EntryType) /\ m \in 1 .. Len(entry')
          BY <1>1, <1>3 DEF TypeInv, DriverTyped, Seqs
        <5> QED
          BY <5>1, ElementOfSeq
      <4> QED
        BY <1>1, <2>1, <2>3, <4>1 DEF EntryType
    <3> QED
      BY <2>3, <3>1
  <2> QED
    BY <1>2, <2>2, <2>3
<1> HIDE DEF m
<1> QED
  BY <1>1, <1>2, <1>3, <1>4, TopStepCounts

LEMMA FillTakeDoes ==
  ASSUME Inv, NEW t \in Threads, FillTake(t)
  PROVE  LET f == Top(t) IN
         /\ stack[t] # << >> /\ f.pc = "query" /\ f.seq \in Known
         /\ Len(stack[t]) \in Nat \ {0} /\ f = stack[t][Len(stack[t])]
         /\ UNCHANGED <<osvars, logLock, op, freeing, uservars>>
         /\ Recount(0, 0) /\ ExitKept
         /\ entry'[f.seq].full = {}
         /\ \A s \in Seqs : s # f.seq => entry'[s] = entry[s]
         /\ \E g \in FrameType :
              /\ SetTop(t, g) /\ g.pid = f.pid /\ g.pc = "log" /\ g.seq = f.seq
              /\ g.full = entry[f.seq].full
<1> DEFINE f == Top(t)
           s == f.seq
           d == entry[s].full
           g == [f EXCEPT !.pc = "log", !.full = d]
           e == [entry[s] EXCEPT !.full = {}]
<1>1. /\ stack[t] # << >> /\ f \in FrameType /\ f.pc = "query"
      /\ s \in Known /\ s \in Seqs
      /\ Len(stack[t]) \in Nat \ {0} /\ f = stack[t][Len(stack[t])]
  BY AtTop DEF FillTake
<1>2. SetTop(t, g) /\ entry' = With(s, e)
  BY DEF FillTake
<1>3. entry[s] \in EntryType
  BY <1>1, EntryTyped DEF Inv, TypeInv
<1>4. d \in Details /\ "log" \in PCs /\ {} \in Details
  BY <1>3 DEF EntryType, PCs, Details
<1>5. UNCHANGED <<osvars, logLock, op, freeing, uservars>>
  BY DEF FillTake
<1> HIDE DEF f, d
<1>6. /\ g \in FrameType /\ g.pc = "log" /\ g.pid = f.pid
      /\ g.seq = f.seq /\ g.full = d
  BY <1>1, <1>4 DEF FrameType
<1> HIDE DEF s
<1>7. /\ e \in EntryType
      /\ e.pid = entry[s].pid /\ e.listed = entry[s].listed
      /\ e.freed = entry[s].freed /\ e.refs = entry[s].refs
      /\ e.full = {} /\ e.exit = entry[s].exit
  BY <1>3, <1>4 DEF EntryType
<1> HIDE DEF g, e
<1>8. /\ Recount(0, 0) /\ ExitKept
      /\ entry'[s] = e
      /\ \A r \in Seqs : r # s => entry'[r] = entry[r]
  BY <1>1, <1>2, <1>7, WithCounts
<1> QED
  BY <1>1, <1>2, <1>5, <1>6, <1>7, <1>8 DEF d, s, f

LEMMA FillLogDoes ==
  ASSUME Inv, NEW t \in Threads, FillLog(t)
  PROVE  LET f == Top(t) IN
         /\ stack[t] # << >> /\ f.pc = "log" /\ f.seq \in Known
         /\ Len(stack[t]) \in Nat \ {0} /\ f = stack[t][Len(stack[t])]
         /\ f \in FrameType
         /\ UNCHANGED <<osvars, op, uservars>>
         /\ ParentOf(f.full) \in Known \union {0}
         /\ Recount(0, ParentOf(f.full)) /\ FullKept /\ ExitKept
         /\ \E g, c \in FrameType :
              /\ Restacked(t, Len(stack[t]) - 1, <<g, c>>)
              /\ g.pid = f.pid /\ g.pc = "parent" /\ g.seq = f.seq /\ g.full = f.full
              /\ c.pc = "find" /\ c.seq = 0 /\ c.full = {}
<1> DEFINE f == Top(t)
           g == [f EXCEPT !.pc = "parent"]
           c == Call(inherited[f.pid], FALSE)
           p == ParentOf(f.full)
<1>1. /\ stack[t] # << >> /\ f \in FrameType /\ f.pc = "log"
      /\ FrameOK(f, Known) /\ f.seq \in Known
      /\ Len(stack[t]) \in Nat \ {0} /\ f = stack[t][Len(stack[t])]
  BY AtTop DEF FillLog
<1>2. stack' = [stack EXCEPT ![t] = Append(Append(Front(@), g), c)]
  BY DEF FillLog
<1>3. /\ g \in FrameType /\ g.pc = "parent" /\ g.pid = f.pid
      /\ g.seq = f.seq /\ g.full = f.full
  BY <1>1, PcFields DEF PCs
<1>4. /\ c \in FrameType /\ c.pc = "find" /\ c.seq = 0 /\ c.full = {}
  <2>1. inherited[f.pid] \in Pids
    BY <1>1 DEF Inv, TypeInv, SystemTyped, FrameType
  <2> QED
    BY <2>1, CallFields
<1>5. Deref(t, p) /\ UNCHANGED <<osvars, op, uservars>>
  BY DEF FillLog
<1>6. p \in Known \union {0}
  BY <1>1, ParentKnown DEF FrameOK
<1> HIDE DEF g, c
<1>7. Restacked(t, Len(stack[t]) - 1, <<g, c>>)
  BY <1>1, <1>2, <1>3, <1>4, PushedOn DEF Inv, TypeInv
<1>8. Recount(0, p) /\ FullKept /\ ExitKept
  <2> HIDE DEF p
  <2> QED
    BY <1>5, <1>6, DerefCounts
<1> QED
  BY <1>1, <1>3, <1>4, <1>5, <1>6, <1>7, <1>8

LEMMA FillParentDoes ==
  ASSUME Inv, NEW t \in Threads, FillParent(t)
  PROVE  LET f == Top(t)
             b == stack[t][Len(stack[t]) - 1] IN
         /\ stack[t] # << >> /\ f.pc = "return" /\ f.seq \in Known \union {0}
         /\ Len(stack[t]) \in Nat /\ Len(stack[t]) > 1
         /\ f = stack[t][Len(stack[t])]
         /\ b.pc = "parent" /\ b \in FrameType
         /\ UNCHANGED <<osvars, op, uservars>>
         /\ Recount(0, f.seq) /\ FullKept /\ ExitKept
         /\ \E g \in FrameType :
              /\ Restacked(t, Len(stack[t]) - 2, <<g>>)
              /\ g.pid = b.pid /\ g.pc = "release" /\ g.seq = b.seq /\ g.full = b.full
<1> DEFINE f == Top(t)
           b == stack[t][Len(stack[t]) - 1]
           g == [b EXCEPT !.pc = "release"]
<1>1. /\ stack[t] # << >> /\ f \in FrameType /\ f.pc = "return"
      /\ FrameOK(f, Known)
      /\ Len(stack[t]) \in Nat \ {0} /\ f = stack[t][Len(stack[t])]
      /\ Len(stack[t]) > 1
  BY AtTop DEF FillParent
<1>2. stack' = [stack EXCEPT ![t] = Append(Front(Front(@)), g)]
  BY DEF FillParent
<1>3. Deref(t, f.seq) /\ UNCHANGED <<osvars, op, uservars>>
  BY DEF FillParent
<1>4. b \in FrameType /\ b.pc = "parent"
  <2>1. Len(stack[t]) - 1 \in 1 .. Len(stack[t]) /\ Len(stack[t]) - 1 < Len(stack[t])
    BY <1>1
  <2>2. b \in FrameType
    BY <2>1, ElementOfSeq DEF Inv, TypeInv, StacksTyped
  <2> QED
    BY <2>1, <2>2 DEF Inv, ListInv, FramesOK
<1> HIDE DEF b, f
<1>5. /\ g \in FrameType /\ g.pc = "release" /\ g.pid = b.pid
      /\ g.seq = b.seq /\ g.full = b.full
  BY <1>4, PcFields DEF PCs
<1> HIDE DEF g
<1>6. Restacked(t, Len(stack[t]) - 2, <<g>>)
  BY <1>1, <1>2, <1>5, PoppedTo DEF Inv, TypeInv
<1>7. f.seq \in Known \union {0}
  BY <1>1 DEF FrameOK
<1>8. Recount(0, f.seq) /\ FullKept /\ ExitKept
  BY <1>3, <1>7, DerefCounts
<1> QED
  BY <1>1, <1>3, <1>4, <1>5, <1>6, <1>7, <1>8 DEF b, f

\* The entry of the call at a place.
LEMMA PlacePid ==
  ASSUME Inv, FramePid, NEW t \in Threads, NEW i \in 1 .. Len(stack[t]),
         stack[t][i].seq # 0
  PROVE  /\ stack[t][i].seq \in Seqs
         /\ entry[stack[t][i].seq].freed \/ entry[stack[t][i].seq].pid = stack[t][i].pid
<1>1. <<t, i>> \in Places /\ Frame(<<t, i>>) = stack[t][i]
  <2>1. i \in Nat
    BY LenProperties DEF Inv, TypeInv, StacksTyped
  <2> QED
    BY <2>1, InPlaces DEF Frame
<1> QED
  BY <1>1 DEF FramePid, Inv, ListInv, FramesOK, FrameOK, Known

LEMMA FillTakeCounts ==
  ASSUME Inv, CountInv, TypeInv', NEW t \in Threads, FillTake(t)
  PROVE  CountInv'
<1> DEFINE n == Len(stack[t]) - 1
<1>1. PICK r \in Known : r = Top(t).seq
  BY FillTakeDoes
<1>2. /\ stack[t] # << >>
      /\ Len(stack[t]) \in Nat \ {0} /\ Top(t) = stack[t][Len(stack[t])]
      /\ op' = op /\ life' = life /\ table' = table
      /\ Recount(0, 0)
      /\ entry'[r].full = {}
      /\ \A s \in Seqs : s # r => entry'[s] = entry[s]
  BY <1>1, FillTakeDoes DEF osvars, uservars
<1>3. PICK g \in FrameType :
        /\ SetTop(t, g) /\ g.pid = Top(t).pid /\ g.pc = "log" /\ g.seq = r
        /\ g.full = entry[r].full
  BY <1>1, FillTakeDoes
<1>4. PICK x : x = <<t, Len(stack[t])>>
  OBVIOUS
<1>5. PICK S \in Seq(FrameType) :
        S = <<g>> /\ Len(S) = 1 /\ \A k \in 1 .. Len(S) : k = 1 /\ S[k] = g
  <2>1. /\ <<g>> \in Seq(FrameType) /\ Len(<<g>>) = 1
        /\ \A k \in 1 .. Len(<<g>>) : k = 1 /\ <<g>>[k] = g
    OBVIOUS
  <2> QED
    BY <2>1
<1>6. Restacked(t, n, S)
  BY <1>2, <1>3, <1>5, Topped DEF Inv, TypeInv
<1>7. /\ Seqs' = Seqs /\ r \in Seqs /\ r # 0
      /\ \A s \in Seqs : entry'[s].freed = entry[s].freed /\ entry'[s].pid = entry[s].pid
  BY <1>1, <1>2, RecountKeeps, SeqsBounded DEF Known, Inv
<1>8. n \in Nat /\ n + 1 = Len(stack[t]) /\ (n = 0 => Len(stack[t]) = 1)
  BY <1>2
<1>9. FramePid'
  <2>1. entry'[r].freed \/ entry'[r].pid = g.pid
    <3>1. Len(stack[t]) \in 1 .. Len(stack[t]) /\ stack[t][Len(stack[t])].seq = r
      BY <1>1, <1>2
    <3>2. entry[r].freed \/ entry[r].pid = g.pid
      BY <1>2, <1>3, <1>7, <3>1, PlacePid DEF CountInv
    <3> QED
      BY <1>7, <3>2
  <2> HIDE DEF n
  <2>2. \A k \in 1 .. Len(S) : S[k].seq # 0 =>
          entry'[S[k].seq].freed \/ entry'[S[k].seq].pid = S[k].pid
    BY <1>3, <1>5, <2>1
  <2> QED
    BY <1>6, <1>7, <2>2, FramePidStep DEF CountInv
<1>10. ChildFrame'
  <2>1. n = 0 => S[1].pid = stack[t][1].pid
    BY <1>2, <1>3, <1>5, <1>8
  <2>2. S # << >>
    BY <1>5
  <2> HIDE DEF n
  <2> QED
    BY <1>2, <1>6, <2>1, <2>2, ChildStep DEF CountInv
<1>11. ASSUME NEW s \in Seqs
       PROVE  /\ Taken(s)' \subseteq Taken(s) \union {x}
              /\ s # r \/ entry[r].full = {} => Taken(s)' \subseteq Taken(s)
  <2> SUFFICES ASSUME NEW y \in Places', Carries(Frame(y)', s)
               PROVE  /\ (y \in Places /\ Carries(Frame(y), s)) \/ y = x
                      /\ s # r \/ entry[r].full = {} => y \in Places /\ Carries(Frame(y), s)
    BY DEF Taken, Carries, TakenPcs
  <2>1. CASE y \in Places /\ Frame(y)' = Frame(y)
    BY <2>1
  <2>2. CASE y[1] = t /\ \E k \in 1 .. Len(S) : y[2] = n + k /\ Frame(y)' = S[k]
    <3>1. y[2] = Len(stack[t]) /\ Frame(y)' = g
      BY <1>5, <1>8, <2>2
    <3>2. y \in Threads \X Nat
      BY InPlaces DEF Places
    <3>3. y = x
      BY <1>4, <2>2, <3>1, <3>2
    <3> QED
      BY <1>3, <3>1, <3>3 DEF Carries
  <2> HIDE DEF n
  <2> QED
    BY <1>6, <2>1, <2>2, PlaceOfStep DEF Inv, TypeInv
<1>12. ASSUME NEW s \in Seqs
       PROVE  /\ Cardinality(Creates(s)') \in Nat /\ Cardinality(Taken(s)') \in Nat
              /\ Cardinality(Creates(s)') + Cardinality(Taken(s)') + Parked(s)'
                   <= Cardinality(Creates(s)) + Cardinality(Taken(s)) + Parked(s)
  <2>1. s \in 1 .. MaxSeq
    BY SeqsBounded DEF Inv
  <2>2. /\ IsFiniteSet(Taken(s)) /\ Cardinality(Creates(s)) \in Nat
        /\ Parked(s) \in {0, 1}
    BY <2>1, CountsFinite DEF Inv
  <2>3. Creates(s)' = Creates(s)
    BY <1>2 DEF Creates
  <2>4. CASE s # r \/ entry[r].full = {}
    <3>1. Taken(s)' \subseteq Taken(s)
      BY <1>11, <2>4
    <3>2. /\ Cardinality(Taken(s)') \in Nat /\ Cardinality(Taken(s)) \in Nat
          /\ Cardinality(Taken(s)') <= Cardinality(Taken(s))
      BY <2>2, <3>1, CardShrinks
    <3>3. Parked(s)' = Parked(s)
      BY <1>2, <2>4 DEF Parked
    <3> QED
      BY <2>2, <2>3, <3>2, <3>3
  <2>5. CASE s = r /\ entry[r].full # {}
    <3>1. Taken(s)' \subseteq Taken(s) \union {x}
      BY <1>11
    <3>2. /\ Cardinality(Taken(s)') \in Nat /\ Cardinality(Taken(s)) \in Nat
          /\ Cardinality(Taken(s)') <= Cardinality(Taken(s)) + 1
      BY <2>2, <3>1, CardGains
    <3>3. Parked(s)' = 0 /\ Parked(s) = 1
      BY <1>2, <2>5 DEF Parked
    <3> QED
      BY <2>2, <2>3, <3>2, <3>3
  <2> QED
    BY <2>4, <2>5
<1>13. ComingOK' /\ RecordsOK'
  <2>1. \A p \in Pids : Coming(p)' \subseteq Coming(p)
    BY <1>2 DEF Coming
  <2> QED
    BY <1>2, <1>7, <1>12, <2>1, RecordsStep
<1>14. Later'
  BY <1>2, <1>7 DEF Later, CountInv
<1> QED
  BY <1>9, <1>10, <1>13, <1>14 DEF CountInv

LEMMA FillLogCounts ==
  ASSUME Inv, CountInv, TypeInv', NEW t \in Threads, FillLog(t)
  PROVE  CountInv'
<1> DEFINE n == Len(stack[t]) - 1
           f == Top(t)
<1>1. /\ stack[t] # << >> /\ f.pc = "log"
      /\ Len(stack[t]) \in Nat \ {0} /\ f = stack[t][Len(stack[t])]
      /\ op' = op /\ life' = life /\ table' = table
      /\ Recount(0, ParentOf(f.full)) /\ FullKept
  BY FillLogDoes DEF osvars, uservars
<1>2. PICK g \in FrameType, c \in FrameType :
        /\ Restacked(t, n, <<g, c>>)
        /\ g.pid = f.pid /\ g.pc = "parent" /\ g.seq = f.seq /\ g.full = f.full
        /\ c.pc = "find" /\ c.seq = 0 /\ c.full = {}
  BY FillLogDoes
<1>3. PICK S \in Seq(FrameType) : S = <<g, c>>
  <2>1. <<g, c>> \in Seq(FrameType)
    OBVIOUS
  <2> QED
    BY <2>1
<1>4. Len(S) = 2 /\ S[1] = g /\ S[2] = c /\ S # << >>
  BY <1>3
<1>5. \A k \in 1 .. Len(S) : k = 1 \/ k = 2
  BY <1>4
<1>6. /\ Seqs' = Seqs
      /\ \A s \in Seqs : entry'[s].freed = entry[s].freed /\ entry'[s].pid = entry[s].pid
  BY <1>1, RecountKeeps
<1>7. n \in Nat /\ n + 1 = Len(stack[t]) /\ (n = 0 => Len(stack[t]) = 1)
  BY <1>1
<1>8. Restacked(t, n, S)
  BY <1>2, <1>3
<1>9. \A k \in 1 .. Len(S) : S[k].seq # 0 =>
        entry'[S[k].seq].freed \/ entry'[S[k].seq].pid = S[k].pid
  <2>1. f.seq # 0 => /\ f.seq \in Seqs
                     /\ entry[f.seq].freed \/ entry[f.seq].pid = f.pid
    <3>1. Len(stack[t]) \in 1 .. Len(stack[t])
      BY <1>1
    <3> QED
      BY <1>1, <3>1, PlacePid DEF CountInv
  <2> QED
    BY <1>2, <1>4, <1>5, <1>6, <2>1
<1>10. ASSUME NEW s \in Seqs, NEW k \in 1 .. Len(S), Carries(S[k], s)
       PROVE  n + k \in 1 .. Len(stack[t]) /\ Carries(stack[t][n + k], s)
  <2>1. k = 1
    BY <1>2, <1>4, <1>5, <1>10 DEF Carries
  <2>2. n + k = Len(stack[t]) /\ Len(stack[t]) \in 1 .. Len(stack[t])
    BY <1>1, <1>7, <2>1
  <2>3. Carries(f, s)
    BY <1>1, <1>2, <1>4, <1>10, <2>1 DEF Carries, TakenPcs
  <2> QED
    BY <1>1, <2>2, <2>3
<1>11. \A s \in Seqs : entry'[s].full = entry[s].full
  BY <1>1 DEF FullKept
<1>12. ChildFrame'
  <2>1. n = 0 => S[1].pid = stack[t][1].pid
    BY <1>1, <1>2, <1>4, <1>7
  <2> HIDE DEF n
  <2> QED
    BY <1>1, <1>4, <1>8, <2>1, ChildStep DEF CountInv
<1>13. op'[t].kind = "create" /\ op'[t].step = "child" => stack'[t][1].pid = op[t].about
  BY <1>1, <1>12 DEF ChildFrame
<1> HIDE DEF n
<1> QED
  BY <1>1, <1>6, <1>8, <1>9, <1>10, <1>11, <1>13, StepCounts

LEMMA FillParentCounts ==
  ASSUME Inv, CountInv, TypeInv', NEW t \in Threads, FillParent(t)
  PROVE  CountInv'
<1> DEFINE n == Len(stack[t]) - 2
           b == stack[t][Len(stack[t]) - 1]
<1>1. /\ stack[t] # << >> /\ b.pc = "parent"
      /\ Len(stack[t]) \in Nat /\ Len(stack[t]) > 1
      /\ op' = op /\ life' = life /\ table' = table
      /\ Recount(0, Top(t).seq) /\ FullKept
  BY FillParentDoes DEF osvars, uservars
<1>2. PICK g \in FrameType :
        /\ Restacked(t, n, <<g>>)
        /\ g.pid = b.pid /\ g.pc = "release" /\ g.seq = b.seq /\ g.full = b.full
  BY FillParentDoes
<1>3. PICK S \in Seq(FrameType) :
        S = <<g>> /\ Len(S) = 1 /\ \A k \in 1 .. Len(S) : k = 1 /\ S[k] = g
  <2>1. /\ <<g>> \in Seq(FrameType) /\ Len(<<g>>) = 1
        /\ \A k \in 1 .. Len(<<g>>) : k = 1 /\ <<g>>[k] = g
    OBVIOUS
  <2> QED
    BY <2>1
<1>4. S # << >> /\ S[1] = g
  BY <1>3
<1>5. /\ Seqs' = Seqs
      /\ \A s \in Seqs : entry'[s].freed = entry[s].freed /\ entry'[s].pid = entry[s].pid
  BY <1>1, RecountKeeps
<1>6. /\ n \in Nat /\ n + 1 = Len(stack[t]) - 1 /\ (n = 0 => Len(stack[t]) - 1 = 1)
      /\ Len(stack[t]) - 1 \in 1 .. Len(stack[t])
  BY <1>1
<1>7. Restacked(t, n, S)
  BY <1>2, <1>3
<1>8. \A k \in 1 .. Len(S) : S[k].seq # 0 =>
        entry'[S[k].seq].freed \/ entry'[S[k].seq].pid = S[k].pid
  <2>1. b.seq # 0 => /\ b.seq \in Seqs
                     /\ entry[b.seq].freed \/ entry[b.seq].pid = b.pid
    BY <1>6, PlacePid DEF CountInv
  <2> HIDE DEF b
  <2> QED
    BY <1>2, <1>3, <1>5, <2>1
<1>9. ASSUME NEW s \in Seqs, NEW k \in 1 .. Len(S), Carries(S[k], s)
      PROVE  n + k \in 1 .. Len(stack[t]) /\ Carries(stack[t][n + k], s)
  <2>1. n + k = Len(stack[t]) - 1
    BY <1>3, <1>6
  <2>2. Carries(b, s)
    <3> HIDE DEF b
    <3> QED
      BY <1>1, <1>2, <1>3, <1>9 DEF Carries, TakenPcs
  <2> QED
    BY <1>6, <2>1, <2>2
<1>10. \A s \in Seqs : entry'[s].full = entry[s].full
  BY <1>1 DEF FullKept
<1>11. ChildFrame'
  <2>1. n = 0 => S[1].pid = stack[t][1].pid
    BY <1>2, <1>4, <1>6
  <2> HIDE DEF n
  <2> QED
    BY <1>1, <1>4, <1>7, <2>1, ChildStep DEF CountInv
<1>12. op'[t].kind = "create" /\ op'[t].step = "child" => stack'[t][1].pid = op[t].about
  BY <1>1, <1>11 DEF ChildFrame
<1> HIDE DEF n, b
<1> QED
  BY <1>1, <1>5, <1>7, <1>8, <1>9, <1>10, <1>12, StepCounts

-----------------------------------------------------------------------------
(* The CREATE records through the operations.                              *)

\* A thread starts a call, or has none left, in a list that keeps its entries.
LEMMA RestartCounts ==
  ASSUME Inv, CountInv, TypeInv', life' = life, table' = table,
         NEW t \in Threads, NEW o, op' = [op EXCEPT ![t] = o],
         NEW S \in Seq(FrameType), stack' = [stack EXCEPT ![t] = S],
         \/ S = << >>
         \/ \E p \in Pids, b \in BOOLEAN :
              S = <<Call(p, b)>> /\ (o.kind = "create" => p = o.about),
         o.kind = "create" => op[t].kind = "create" /\ o.about = op[t].about,
         o.kind = "create" => S # << >>,
         NEW a, NEW z, Recount(a, z), FullKept
  PROVE  CountInv'
<1>1. Restacked(t, 0, S)
  BY Restarted DEF Inv, TypeInv
<1>2. op' [t] = o /\ \A u \in Threads : u # t => op'[u] = op[u]
  BY DEF Inv, TypeInv, DriverTyped
<1>3. /\ Seqs' = Seqs
      /\ \A s \in Seqs : entry'[s].freed = entry[s].freed /\ entry'[s].pid = entry[s].pid
  BY RecountKeeps
<1>4. \A s \in Seqs : entry'[s].full = entry[s].full
  BY DEF FullKept
<1>5. \A k \in 1 .. Len(S) : S[k].seq = 0 /\ S[k].full = {}
  <2>1. CASE S = << >>
    BY <2>1
  <2>2. ASSUME NEW p \in Pids, NEW b \in BOOLEAN, S = <<Call(p, b)>>
        PROVE  \A k \in 1 .. Len(S) : S[k].seq = 0 /\ S[k].full = {}
    <3>1. Call(p, b).seq = 0 /\ Call(p, b).full = {} /\ Call(p, b) \in FrameType
      BY CallFields
    <3> HIDE DEF Call
    <3>2. Len(S) = 1 /\ S[1] = Call(p, b)
      BY <2>2
    <3> QED
      BY <3>1, <3>2
  <2> QED
    BY <2>1, <2>2
<1>6. o.kind = "create" => stack'[t][1].pid = op[t].about
  <2> SUFFICES ASSUME o.kind = "create"
               PROVE  stack'[t][1].pid = op[t].about
    OBVIOUS
  <2>1. PICK p \in Pids, b \in BOOLEAN : S = <<Call(p, b)>> /\ p = o.about
    OBVIOUS
  <2>2. Call(p, b).pid = p
    BY CallFields
  <2>3. stack'[t] = S
    BY DEF Inv, TypeInv, StacksTyped
  <2> QED
    BY <2>1, <2>2, <2>3
<1>7. \A s : \A k \in 1 .. Len(S) : ~Carries(S[k], s)
  BY <1>5 DEF Carries
<1> QED
  BY <1>1, <1>2, <1>3, <1>4, <1>5, <1>6, <1>7, StepCounts

LEMMA IdleFields ==
  /\ Idle \in OpType /\ Idle.kind = "idle" /\ Idle.step = "ref" /\ Idle.parent = 0
  /\ << >> \in Seq(FrameType)
<1>1. AnyPid \in Pids /\ "idle" \in OpKinds
  BY ProcessAssumption DEF AnyPid, OpKinds
<1> QED
  BY <1>1, DoingFields DEF Idle

\* The operation is over.
LEMMA FinishCounts ==
  ASSUME Inv, CountInv, TypeInv', life' = life, table' = table,
         NEW t \in Threads, Finish(t),
         NEW a, NEW z, Recount(a, z), FullKept
  PROVE  CountInv'
<1>1. op' = [op EXCEPT ![t] = Idle] /\ stack' = [stack EXCEPT ![t] = << >>]
  BY DEF Finish
<1> QED
  BY <1>1, IdleFields, RestartCounts

LEMMA EnterCounts ==
  ASSUME Inv, CountInv, TypeInv', NEW t \in Threads, Enter(t)
  PROVE  CountInv'
<1>1. PICK p \in Pids, k \in Kinds : Begin(t, Doing(k, p, p), p, k # "paging")
  BY DEF Enter
<1>2. life' = life /\ table' = table /\ entry' = entry
  BY DEF Enter, osvars, uservars
<1> DEFINE o == Doing(k, p, p)
           b == (k # "paging")
           S == <<Call(p, b)>>
<1>3. o.kind = k /\ k # "create"
  BY ProcessAssumption DEF Doing
<1>4. op' = [op EXCEPT ![t] = o] /\ stack' = [stack EXCEPT ![t] = S]
  BY <1>1 DEF Begin
<1>5. S \in Seq(FrameType) /\ b \in BOOLEAN
  <2>1. b \in BOOLEAN
    OBVIOUS
  <2> HIDE DEF b
  <2>2. Call(p, b) \in FrameType
    BY <2>1, CallFields
  <2> QED
    BY <2>1, <2>2
<1>6. \E x \in Pids, y \in BOOLEAN :
        S = <<Call(x, y)>> /\ (o.kind = "create" => x = o.about)
  BY <1>3, <1>5
<1>7. Recount(0, 0) /\ FullKept
  BY <1>2, SameCounts
<1> HIDE DEF o, S, b
<1> QED
  BY <1>2, <1>3, <1>4, <1>5, <1>6, <1>7, RestartCounts

LEMMA ExitStartCounts ==
  ASSUME Inv, CountInv, TypeInv', NEW t \in Threads, Exit(t)
  PROVE  CountInv'
<1>1. PICK p \in Pids : Begin(t, Doing("exit", p, p), p, TRUE)
  BY DEF Exit
<1>2. life' = life /\ table' = table /\ entry' = entry
  BY DEF Exit, uservars
<1> DEFINE o == Doing("exit", p, p)
           S == <<Call(p, TRUE)>>
<1>3. o.kind = "exit"
  BY DEF Doing
<1>4. op' = [op EXCEPT ![t] = o] /\ stack' = [stack EXCEPT ![t] = S]
  BY <1>1 DEF Begin
<1>5. S \in Seq(FrameType)
  <2>1. Call(p, TRUE) \in FrameType
    BY CallFields
  <2>2. \A c \in FrameType : <<c>> \in Seq(FrameType)
    OBVIOUS
  <2> QED
    BY <2>1, <2>2
<1>6. \E x \in Pids, y \in BOOLEAN :
        S = <<Call(x, y)>> /\ (o.kind = "create" => x = o.about)
  BY <1>3
<1>7. Recount(0, 0) /\ FullKept
  BY <1>2, SameCounts
<1> HIDE DEF o, S
<1> QED
  BY <1>2, <1>3, <1>4, <1>5, <1>6, <1>7, RestartCounts

LEMMA ReportDoes ==
  ASSUME Inv, NEW t \in Threads, Skips(t) \/ Log(t)
  PROVE  /\ Returned(t, Reports, "ref") /\ Finish(t) /\ Runs(t)
         /\ logLock' = logLock /\ table' = table
         /\ \E s \in Known \union {0} : s \in {0, Top(t).seq} /\ Deref(t, s)
<1>1. CASE Skips(t)
  BY <1>1, SkipsDo DEF uservars
<1>2. CASE Log(t)
  BY <1>2, AtReturn DEF Log
<1> QED
  BY <1>1, <1>2

LEMMA ReportCounts ==
  ASSUME Inv, CountInv, TypeInv', NEW t \in Threads, Skips(t) \/ Log(t)
  PROVE  CountInv'
<1>1. /\ Returned(t, Reports, "ref") /\ Finish(t)
      /\ life' = life /\ table' = table
  BY ReportDoes DEF Runs
<1>2. PICK s \in Known \union {0} : Deref(t, s)
  BY ReportDoes
<1>3. Recount(0, s) /\ FullKept
  BY <1>1, <1>2, DerefCounts
<1> QED
  BY <1>1, <1>3, FinishCounts

LEMMA ExitEndCounts ==
  ASSUME Inv, CountInv, TypeInv', NEW t \in Threads, ExitUnknown(t) \/ ExitQueue(t)
  PROVE  CountInv'
<1>1. /\ Finish(t) /\ life' = life /\ table' = table
  BY DEF ExitUnknown, ExitQueue, ExitEnds, uservars
<1>2. Recount(0, 0) /\ FullKept
  <2>1. CASE entry' = entry
    BY <2>1, SameCounts
  <2>2. CASE /\ Returned(t, {"exit"}, "queue")
             /\ entry' = With(Top(t).seq, [entry[Top(t).seq] EXCEPT !.exit = "queued"])
    <3>1. Top(t).seq \in Seqs
      BY <2>2, AtReturn DEF Inv, ListInv, OpsOK
    <3> QED
      BY <2>2, <3>1, ExitCounts
  <2> QED
    BY <2>1, <2>2 DEF ExitUnknown, ExitQueue
<1> QED
  BY <1>1, <1>2, FinishCounts

\* The exit goes on.
LEMMA ExitGoesCounts ==
  ASSUME Inv, CountInv, TypeInv', NEW t \in Threads, ExitQuery(t) \/ ExitLog(t)
  PROVE  CountInv'
<1>1. /\ op[t].kind = "exit" /\ stack' = stack /\ life' = life /\ table' = table
      /\ \E x : op' = [op EXCEPT ![t].step = x]
  BY DEF ExitQuery, ExitLog, Returned, osvars, uservars
<1>2. \E s : Recount(0, s) /\ FullKept
  <2>1. CASE ExitQuery(t)
    <3>1. Top(t).seq \in Seqs
      BY <2>1, AtReturn DEF ExitQuery
    <3>2. CASE entry' = entry
      BY <3>2, SameCounts
    <3>3. CASE entry' = With(Top(t).seq, [entry[Top(t).seq] EXCEPT !.exit = "held"])
      BY <3>1, <3>3, ExitCounts
    <3> QED
      BY <2>1, <3>2, <3>3 DEF ExitQuery
  <2>2. CASE ExitLog(t)
    <3>1. Top(t).seq \in Known \union {0} /\ Deref(t, Top(t).seq)
      BY <2>2, AtReturn DEF ExitLog
    <3> QED
      BY <3>1, DerefCounts
  <2> QED
    BY <2>1, <2>2
<1>3. PICK s : Recount(0, s) /\ FullKept
  BY <1>2
<1>4. /\ Seqs' = Seqs
      /\ \A r \in Seqs : entry'[r].freed = entry[r].freed /\ entry'[r].pid = entry[r].pid
  BY <1>3, RecountKeeps
<1>5. \A r \in Seqs : entry'[r].full = entry[r].full
  BY <1>3 DEF FullKept
<1>6. \A u \in Threads : op'[u].kind = "create" => op'[u] = op[u]
  <2>1. PICK x : op' = [op EXCEPT ![t].step = x]
    BY <1>1
  <2>2. \A u \in Threads : op[u] \in OpType
    BY DEF Inv, TypeInv, DriverTyped
  <2>3. op'[t].kind = op[t].kind
    BY <2>1, <2>2 DEF OpType, Inv, TypeInv, DriverTyped
  <2> QED
    BY <1>1, <2>1, <2>3 DEF Inv, TypeInv, DriverTyped
<1> QED
  BY <1>1, <1>4, <1>5, <1>6, StillCounts

LEMMA CreateChildCounts ==
  ASSUME Inv, CountInv, TypeInv', NEW t \in Threads, CreateChild(t)
  PROVE  CountInv'
<1> DEFINE s == Top(t).seq
           p == op[t].about
           w == op[t]
           o == [w EXCEPT !.step = "child", !.parent = s]
           S == <<Call(p, FALSE)>>
<1>1. /\ Returned(t, {"create"}, "ref")
      /\ stack' = [stack EXCEPT ![t] = S]
      /\ entry' = entry /\ life' = life /\ table' = table
  BY DEF CreateChild, osvars, uservars
<1>2. op' = [op EXCEPT ![t] = o]
  BY DEF CreateChild, Inv, TypeInv, DriverTyped
<1>3. w \in OpType /\ w.kind = "create" /\ s \in Nat /\ p \in Pids
  BY <1>1, AtReturn DEF FrameType, OpType
<1>4. o.kind = "create" /\ o.about = op[t].about /\ p = o.about
  <2> HIDE DEF s
  <2> QED
    BY <1>3 DEF OpType
<1>5. S \in Seq(FrameType) /\ S # << >>
  <2>1. Call(p, FALSE) \in FrameType
    BY <1>3, CallFields
  <2>2. \A c \in FrameType : <<c>> \in Seq(FrameType) /\ <<c>> # << >>
    OBVIOUS
  <2> QED
    BY <2>1, <2>2
<1>6. \E x \in Pids, y \in BOOLEAN :
        S = <<Call(x, y)>> /\ (o.kind = "create" => x = o.about)
  BY <1>3, <1>4
<1>7. Recount(0, 0) /\ FullKept
  BY <1>1, SameCounts
<1> HIDE DEF o, S
<1> QED
  BY <1>1, <1>2, <1>3, <1>4, <1>5, <1>6, <1>7, RestartCounts

\* What becomes of the details of a new process: parked in the entry that the
\* second call returned, or not.
LEMMA ParkDoes ==
  ASSUME Inv, NEW t \in Threads, Parks(t)
  PROVE  LET s == Top(t).seq
             d == op[t].parent IN
         /\ op[t].kind = "create" /\ op[t].step = "child"
         /\ s \in Known \union {0} /\ d \in Known \union {0}
         /\ \E o \in OpType : /\ op' = [op EXCEPT ![t] = o]
                              /\ o.kind = "thread" /\ o.parent = 0
                              /\ o.about = op[t].about /\ o.pid = op[t].pid
         /\ stack' = [stack EXCEPT ![t] = <<Call(op[t].about, TRUE)>>]
         /\ UNCHANGED <<osvars, logLock, uservars>>
         /\ ExitKept
         /\ \/ s = 0 /\ Recount(0, d) /\ FullKept
            \/ s # 0 /\ Recount(0, s) /\ FullKept
            \/ /\ s # 0 /\ Recount(0, s)
               /\ entry'[s].full = {d}
               /\ \A r \in Seqs : r # s => entry'[r].full = entry[r].full
<1> DEFINE s == Top(t).seq
           d == op[t].parent
           w == op[t]
           o == [w EXCEPT !.kind = "thread", !.step = "ref", !.parent = 0]
           e == [entry[s] EXCEPT !.full = {d}]
           ents == With(s, e)
<1>1. /\ Returned(t, {"create"}, "child")
      /\ stack' = [stack EXCEPT ![t] = <<Call(op[t].about, TRUE)>>]
      /\ UNCHANGED <<osvars, logLock, uservars>>
      /\ \/ s = 0 /\ Deref(t, d)
         \/ s # 0 /\ Derefs(t, s, ents)
         \/ s # 0 /\ Deref(t, s)
  BY DEF Parks, CreatePark, ParkFails, ThreadStarts
<1>2. op' = [op EXCEPT ![t] = o]
  BY DEF Parks, CreatePark, ParkFails, ThreadStarts, Inv, TypeInv, DriverTyped
<1>3. /\ s \in Known \union {0} /\ d \in Known \union {0}
      /\ w \in OpType /\ w.kind = "create" /\ w.step = "child"
  BY <1>1, AtReturn
<1>4. /\ o \in OpType /\ o.kind = "thread" /\ o.parent = 0
      /\ o.about = w.about /\ o.pid = w.pid
  <2> HIDE DEF w
  <2> QED
    BY <1>3 DEF OpType, OpKinds
<1> HIDE DEF o
<1>5. CASE s = 0 /\ Deref(t, d)
  <2>1. Recount(0, d) /\ FullKept /\ ExitKept
    <3> HIDE DEF d
    <3> QED
      BY <1>3, <1>5, DerefCounts
  <2> QED
    BY <1>1, <1>2, <1>3, <1>4, <1>5, <2>1
<1>6. CASE s # 0 /\ Deref(t, s)
  <2>1. Recount(0, s) /\ FullKept /\ ExitKept
    <3> HIDE DEF s
    <3> QED
      BY <1>3, <1>6, DerefCounts
  <2> QED
    BY <1>1, <1>2, <1>3, <1>4, <1>6, <2>1
<1>7. CASE s # 0 /\ Derefs(t, s, ents)
  <2>1. s \in Seqs /\ entry[s] \in EntryType
    BY <1>3, <1>7, EntryTyped DEF Known, Inv, TypeInv
  <2>2. {d} \in Details
    <3>1. d \in Nat
      BY <1>3, EntryTyped DEF Known, Inv, TypeInv
    <3> QED
      BY <3>1 DEF Details
  <2> HIDE DEF s, d
  <2>3. /\ e \in EntryType
        /\ e.pid = entry[s].pid /\ e.listed = entry[s].listed
        /\ e.freed = entry[s].freed /\ e.refs = entry[s].refs
        /\ e.full = {d} /\ e.exit = entry[s].exit
    BY <2>1, <2>2 DEF EntryType
  <2> HIDE DEF e
  <2>4. /\ ents \in Seq(EntryType) /\ Len(ents) = Len(entry)
        /\ ents[s] = e
        /\ \A r \in Seqs : r # s => ents[r] = entry[r]
    BY <2>1, <2>3, WithDoes DEF Inv, TypeInv
  <2> HIDE DEF ents
  <2>5. \A r \in Seqs :
           /\ ents[r].pid = entry[r].pid
           /\ ents[r].listed = entry[r].listed
           /\ ents[r].freed = entry[r].freed
           /\ ents[r].refs = entry[r].refs
    BY <2>3, <2>4
  <2>6. /\ Recount(0, s)
        /\ \A r \in Seqs : entry'[r].full = ents[r].full /\ entry'[r].exit = ents[r].exit
    BY <1>7, <2>1, <2>4, <2>5, DerefsCounts
  <2>7. /\ ExitKept /\ entry'[s].full = {d}
        /\ \A r \in Seqs : r # s => entry'[r].full = entry[r].full
    BY <2>1, <2>3, <2>4, <2>6 DEF ExitKept
  <2> QED
    BY <1>1, <1>2, <1>3, <1>4, <1>7, <2>6, <2>7 DEF s, d
<1> QED
  BY <1>1, <1>5, <1>6, <1>7

LEMMA CreateParkCounts ==
  ASSUME Inv, CountInv, TypeInv', NEW t \in Threads, Parks(t)
  PROVE  CountInv'
<1> DEFINE q == op[t].about
           S == <<Call(q, TRUE)>>
<1>1. /\ op[t].kind = "create" /\ op[t].step = "child"
      /\ stack' = [stack EXCEPT ![t] = S]
      /\ life' = life /\ table' = table
  BY ParkDoes DEF osvars, uservars
<1>2. PICK o \in OpType : op' = [op EXCEPT ![t] = o] /\ o.kind = "thread"
  BY ParkDoes
<1>3. q \in Pids
  BY DEF OpType, Inv, TypeInv, DriverTyped
<1>4. S \in Seq(FrameType) /\ S # << >>
  <2>1. Call(q, TRUE) \in FrameType
    BY <1>3, CallFields
  <2>2. \A c \in FrameType : <<c>> \in Seq(FrameType) /\ <<c>> # << >>
    OBVIOUS
  <2> QED
    BY <2>1, <2>2
<1>5. \E x \in Pids, y \in BOOLEAN :
        S = <<Call(x, y)>> /\ (o.kind = "create" => x = o.about)
  BY <1>2, <1>3
<1>6. ASSUME NEW z, Recount(0, z), FullKept
      PROVE  CountInv'
  <2> HIDE DEF S
  <2> QED
    BY <1>1, <1>2, <1>4, <1>5, <1>6, RestartCounts
<1>7. ASSUME NEW s \in Known, s = Top(t).seq, s # 0, Recount(0, s),
             entry'[s].full = {op[t].parent},
             \A r \in Seqs : r # s => entry'[r].full = entry[r].full
      PROVE  CountInv'
  <2>1. /\ Seqs' = Seqs /\ s \in Seqs
        /\ \A r \in Seqs : entry'[r].freed = entry[r].freed /\ entry'[r].pid = entry[r].pid
    BY <1>7, RecountKeeps DEF Known
  <2>2. Restacked(t, 0, S)
    BY <1>1, <1>4, Restarted DEF Inv, TypeInv
  <2>3. \A k \in 1 .. Len(S) : S[k].seq = 0 /\ S[k].full = {}
    <3>1. Call(q, TRUE).seq = 0 /\ Call(q, TRUE).full = {}
      BY <1>3, CallFields
    <3>2. \A c : c.seq = 0 /\ c.full = {} =>
            \A k \in 1 .. Len(<<c>>) : <<c>>[k].seq = 0 /\ <<c>>[k].full = {}
      OBVIOUS
    <3> QED
      BY <3>1, <3>2
  <2> HIDE DEF S
  <2>4. FramePid'
    BY <1>4, <2>1, <2>2, <2>3, FramePidStep DEF CountInv
  <2>5. \A u \in Threads : u # t => op'[u] = op[u] /\ stack'[u] = stack[u]
    BY <1>1, <1>2 DEF Inv, TypeInv, DriverTyped, StacksTyped
  <2>6. op'[t].kind = "thread"
    BY <1>2 DEF Inv, TypeInv, DriverTyped
  <2>7. ChildFrame'
    BY <2>5, <2>6 DEF ChildFrame, CountInv
  <2>8. /\ \A p \in Pids : Coming(p)' \subseteq Coming(p)
        /\ t \in Coming(q)
    BY <1>1, <2>5, <2>6 DEF Coming
  <2>9. entry[s].freed \/ entry[s].pid = q
    <3>1. Len(stack[t]) = 1 /\ Top(t) = stack[t][1]
      BY AtReturn DEF Parks, CreatePark, ParkFails, ThreadStarts
    <3>2. 1 \in 1 .. Len(stack[t])
      BY <3>1
    <3>3. entry[s].freed \/ entry[s].pid = stack[t][1].pid
      BY <1>7, <3>1, <3>2, PlacePid DEF CountInv
    <3> QED
      BY <1>1, <3>3 DEF ChildFrame, CountInv
  <2>10. ASSUME NEW r \in Seqs
         PROVE  /\ Cardinality(Creates(r)') \in Nat /\ Cardinality(Taken(r)') \in Nat
                /\ r # s => Cardinality(Creates(r)') + Cardinality(Taken(r)') + Parked(r)'
                     <= Cardinality(Creates(r)) + Cardinality(Taken(r)) + Parked(r)
                /\ Cardinality(Creates(r)') + Cardinality(Taken(r)') + Parked(r)'
                     <= Cardinality(Creates(r)) + Cardinality(Taken(r)) + Parked(r) + 1
    <3>1. r \in 1 .. MaxSeq
      BY SeqsBounded DEF Inv
    <3>2. /\ IsFiniteSet(Taken(r)) /\ Cardinality(Creates(r)) \in Nat
          /\ Parked(r) \in {0, 1} /\ Parked(r)' \in {0, 1}
      BY <3>1, CountsFinite DEF Inv, Parked
    <3>3. Creates(r)' = Creates(r)
      BY <1>1 DEF Creates
    <3>4. Taken(r)' \subseteq Taken(r)
      BY <1>4, <2>2, <2>3, TakenStep DEF Inv, TypeInv, Carries
    <3>5. /\ Cardinality(Taken(r)') \in Nat /\ Cardinality(Taken(r)) \in Nat
          /\ Cardinality(Taken(r)') <= Cardinality(Taken(r))
      BY <3>2, <3>4, CardShrinks
    <3>6. r # s => Parked(r)' = Parked(r)
      BY <1>7 DEF Parked
    <3> QED
      BY <3>2, <3>3, <3>5, <3>6
  <2>11. ComingOK' /\ RecordsOK'
    <3>1. ASSUME NEW r \in Seqs'
          PROVE  \/ entry'[r].freed
                 \/ /\ r \in Seqs
                    /\ entry'[r].freed = entry[r].freed
                    /\ entry'[r].pid = entry[r].pid
                    /\ Cardinality(Creates(r)') \in Nat /\ Cardinality(Taken(r)') \in Nat
                    /\ Cardinality(Creates(r)') + Cardinality(Taken(r)') + Parked(r)'
                         <= Cardinality(Creates(r)) + Cardinality(Taken(r)) + Parked(r)
                 \/ /\ r \in Seqs
                    /\ entry'[r].freed = entry[r].freed
                    /\ entry'[r].pid = entry[r].pid
                    /\ Cardinality(Creates(r)') \in Nat /\ Cardinality(Taken(r)') \in Nat
                    /\ Cardinality(Creates(r)') + Cardinality(Taken(r)') + Parked(r)'
                         <= Cardinality(Creates(r)) + Cardinality(Taken(r)) + Parked(r) + 1
                    /\ \E u \in Coming(entry[r].pid) : u \notin Coming(entry[r].pid)'
      <4>1. r \in Seqs
        BY <2>1
      <4>2. CASE r # s
        BY <2>1, <2>10, <4>1, <4>2
      <4>3. CASE r = s /\ ~entry[s].freed
        <5>1. entry[r].pid = q /\ entry'[r].pid = q
          BY <2>1, <2>9, <4>1, <4>3
        <5>2. t \in Coming(entry[r].pid)
          BY <2>8, <5>1
        <5>3. t \notin Coming(entry[r].pid)'
          BY <2>6 DEF Coming
        <5> QED
          BY <2>1, <2>10, <4>1, <5>2, <5>3
      <4> QED
        BY <2>1, <4>1, <4>2, <4>3
    <3> QED
      BY <1>1, <2>8, <3>1, RecordsStep
  <2>12. Later'
    BY <1>1, <2>1 DEF Later, CountInv
  <2> QED
    BY <2>4, <2>7, <2>11, <2>12 DEF CountInv
<1> QED
  BY <1>6, <1>7, ParkDoes

\* One more process under identifier q, and one thread more that creates it.
LEMMA CreateCounts ==
  ASSUME Inv, CountInv, TypeInv', NEW t \in Threads, Create(t)
  PROVE  CountInv'
<1>1. PICK p \in Pids, q \in Pids :
        /\ life' = [life EXCEPT ![q] = @ + 1]
        /\ Begin(t, Doing("create", p, q), p, TRUE)
  BY DEF Create
<1> DEFINE o == Doing("create", p, q)
           S == <<Call(p, TRUE)>>
<1>2. /\ op[t].kind = "idle" /\ entry' = entry /\ table' = table
      /\ op' = [op EXCEPT ![t] = o] /\ stack' = [stack EXCEPT ![t] = S]
  BY <1>1 DEF Create, Ready, Begin, uservars
<1>3. /\ o.kind = "create" /\ o.about = q /\ o.step = "ref"
  BY DEF Doing
<1>4. Call(p, TRUE).seq = 0 /\ Call(p, TRUE).full = {} /\ Call(p, TRUE) \in FrameType
  BY CallFields
<1>5. S \in Seq(FrameType) /\ \A k \in 1 .. Len(S) : S[k].seq = 0 /\ S[k].full = {}
  <2>1. \A c \in FrameType : c.seq = 0 /\ c.full = {} =>
           /\ <<c>> \in Seq(FrameType)
           /\ \A k \in 1 .. Len(<<c>>) : <<c>>[k].seq = 0 /\ <<c>>[k].full = {}
    OBVIOUS
  <2> QED
    BY <1>4, <2>1
<1> HIDE DEF o, S
<1>6. Restacked(t, 0, S)
  BY <1>2, <1>5, Restarted DEF Inv, TypeInv
<1>7. Seqs' = Seqs
  BY <1>2 DEF Seqs
<1>8. FramePid'
  BY <1>2, <1>5, <1>6, FramePidStep DEF CountInv
<1>9. \A u \in Threads : /\ u # t => op'[u] = op[u] /\ stack'[u] = stack[u]
                         /\ u = t => op'[u] = o
  BY <1>2 DEF Inv, TypeInv, DriverTyped, StacksTyped
<1>10. ChildFrame'
  BY <1>3, <1>9 DEF ChildFrame, CountInv
<1>11. ASSUME NEW y \in Pids
       PROVE  /\ Cardinality(Coming(y)') \in Nat /\ Cardinality(Coming(y)) \in Nat
              /\ Cardinality(Coming(y)) <= Created(y) /\ Created(y) \in Int
              /\ Cardinality(Coming(y)') <= Cardinality(Coming(y)) + Created(y)' - Created(y)
              /\ Created(y)' \in Int
  <2>1. IsFiniteSet(Coming(y))
    BY CardShrinks, ProcessAssumption DEF Coming
  <2>2. /\ life[y] \in Int
        /\ life'[y] = IF y = q THEN life[y] + 1 ELSE life[y]
    BY <1>1 DEF Inv, TypeInv, SystemTyped
  <2>3. Created(y) \in Int /\ Created(y)' = IF y = q THEN Created(y) + 1 ELSE Created(y)
    BY <2>2 DEF Created
  <2>4. Cardinality(Coming(y)) <= Created(y)
    BY DEF CountInv, ComingOK
  <2>5. CASE y = q
    <3>1. Coming(y)' \subseteq Coming(y) \union {t}
      BY <1>9 DEF Coming
    <3>2. /\ Cardinality(Coming(y)) \in Nat /\ Cardinality(Coming(y)') \in Nat
          /\ Cardinality(Coming(y)') <= Cardinality(Coming(y)) + 1
      BY <2>1, <3>1, CardGains
    <3> QED
      BY <2>3, <2>4, <2>5, <3>2
  <2>6. CASE y # q
    <3>1. Coming(y)' \subseteq Coming(y)
      BY <1>3, <1>9, <2>6 DEF Coming
    <3>2. /\ Cardinality(Coming(y)) \in Nat /\ Cardinality(Coming(y)') \in Nat
          /\ Cardinality(Coming(y)') <= Cardinality(Coming(y))
      BY <2>1, <3>1, CardShrinks
    <3> QED
      BY <2>3, <2>4, <2>6, <3>2
  <2> QED
    BY <2>5, <2>6
<1>12. ComingOK'
  <2>1. \A y \in Pids : Cardinality(Coming(y)') <= Created(y)'
    BY <1>11
  <2> QED
    BY <2>1 DEF ComingOK
<1>13. RecordsOK'
  <2> SUFFICES ASSUME NEW s \in Seqs, ~entry[s].freed
               PROVE  (Cardinality(Creates(s)) + Cardinality(Taken(s)) + Parked(s)
                        + Cardinality(Coming(entry[s].pid)) <= Created(entry[s].pid))'
    BY <1>2, <1>7 DEF RecordsOK
  <2>1. PICK y \in Pids : y = entry[s].pid
    BY EntryTyped DEF Inv, TypeInv, EntryType
  <2>2. Coming(entry[s].pid)' = Coming(y)' /\ Created(entry[s].pid)' = Created(y)'
    BY <1>2, <2>1 DEF Coming, Created
  <2>3. s \in 1 .. MaxSeq
    BY SeqsBounded DEF Inv
  <2>4. /\ IsFiniteSet(Taken(s)) /\ Cardinality(Creates(s)) \in Nat
        /\ Parked(s) \in {0, 1}
    BY <2>3, CountsFinite DEF Inv
  <2>5. Creates(s)' = Creates(s) /\ Parked(s)' = Parked(s)
    BY <1>2 DEF Creates, Parked
  <2>6. Taken(s)' \subseteq Taken(s)
    BY <1>5, <1>6, TakenStep DEF Inv, TypeInv, Carries
  <2>7. /\ Cardinality(Taken(s)') \in Nat /\ Cardinality(Taken(s)) \in Nat
        /\ Cardinality(Taken(s)') <= Cardinality(Taken(s))
    BY <2>4, <2>6, CardShrinks
  <2>8. Cardinality(Creates(s)) + Cardinality(Taken(s)) + Parked(s)
          + Cardinality(Coming(y)) <= Created(y)
    BY <2>1 DEF CountInv, RecordsOK
  <2>9. Cardinality(Creates(s)') + Cardinality(Taken(s)') + Parked(s)'
          + Cardinality(Coming(y)') <= Created(y)'
    BY <1>11, <2>4, <2>5, <2>7, <2>8
  <2> QED
    BY <2>2, <2>9
<1>14. Later'
  BY <1>2, <1>7 DEF Later, CountInv
<1> QED
  BY <1>8, <1>10, <1>12, <1>13, <1>14 DEF CountInv

LEMMA FreeEntryCounts ==
  ASSUME Inv, CountInv, TypeInv', NEW t \in Threads, FreeEntry(t)
  PROVE  CountInv'
<1>1. freeing[t] \in Seqs
  BY DEF FreeEntry, Inv, ListInv, OpsOK, Known
<1>2. op' = op /\ stack' = stack /\ life' = life /\ table' = table
  BY DEF FreeEntry, osvars, uservars
<1>3. CASE entry' = With(freeing[t], Freed)
  <2>1. /\ Len(With(freeing[t], Freed)) = Len(entry)
        /\ With(freeing[t], Freed)[freeing[t]] = Freed
        /\ \A r \in Seqs : r # freeing[t] => With(freeing[t], Freed)[r] = entry[r]
    BY <1>1, FreedFields, WithDoes DEF Inv, TypeInv
  <2>2. /\ Len(entry') = Len(entry)
        /\ entry'[freeing[t]].freed
        /\ \A r \in Seqs : r # freeing[t] => entry'[r] = entry[r]
    BY <1>3, <2>1, FreedFields
  <2>3. Seqs' = Seqs
    BY <2>2 DEF Seqs
  <2>4. \A r \in Seqs : entry'[r].freed \/ entry'[r] = entry[r]
    BY <2>2
  <2> QED
    BY <1>2, <2>3, <2>4, StillCounts
<1>4. CASE entry' = entry
  BY <1>2, <1>4, StillCounts DEF Seqs
<1> QED
  BY <1>3, <1>4 DEF FreeEntry

LEMMA WaitExitCounts ==
  ASSUME Inv, CountInv, TypeInv', WaitExit
  PROVE  CountInv'
<1>1. entry' = [s \in Seqs |->
         IF s \in Signalled THEN Dropped(entry[s]) ELSE entry[s]]
  BY DEF WaitExit
<1>2. op' = op /\ stack' = stack /\ life' = life /\ table' = table
  BY DEF WaitExit, callvars, osvars, uservars
<1>3. \A s \in Seqs : entry[s] \in EntryType
  BY EntryTyped DEF Inv, TypeInv
<1>4. Seqs' = Seqs
  <2>1. Seqs = 1 .. Len(entry) /\ Len(entry) \in Nat
    BY LenProperties DEF Seqs, Inv, TypeInv, DriverTyped
  <2>2. entry' \in [Seqs -> EntryType]
    BY <1>1, <1>3, DroppedFields
  <2>3. Len(entry') = Len(entry)
    BY <2>1, <2>2, FunctionIsSeq
  <2> QED
    BY <2>3 DEF Seqs
<1>5. ASSUME NEW s \in Seqs
      PROVE  \/ entry'[s].freed
             \/ /\ entry'[s].freed = entry[s].freed
                /\ entry'[s].pid = entry[s].pid
                /\ entry'[s].full \in {{}, entry[s].full}
  <2>1. entry'[s] = IF s \in Signalled THEN Dropped(entry[s]) ELSE entry[s]
    BY <1>1
  <2> QED
    BY <1>3, <2>1, DroppedFields, FreedFields
<1> QED
  BY <1>2, <1>4, <1>5, StillCounts

-----------------------------------------------------------------------------
(* The theorem.                                                            *)

LEMMA InitCountInv ==
  ASSUME Init
  PROVE  CountInv
<1>1. Seqs = {} /\ \A t \in Threads : stack[t] = << >> /\ op[t].kind = "idle"
  BY IdleFields DEF Init, Seqs
<1>2. Places = {}
  BY <1>1 DEF Places
<1>3. ComingOK
  <2> SUFFICES ASSUME NEW p \in Pids
               PROVE  Cardinality(Coming(p)) <= Created(p)
    BY DEF ComingOK
  <2>1. Coming(p) = {}
    BY <1>1 DEF Coming
  <2>2. Created(p) = 0
    BY DEF Init, Created
  <2> QED
    BY <2>1, <2>2, FS_EmptySet
<1>4. Later
  BY DEF Init, Later
<1> QED
  BY <1>1, <1>2, <1>3, <1>4 DEF CountInv, RecordsOK, FramePid, ChildFrame

LEMMA NextCountInv ==
  ASSUME Inv, CountInv, [Next]_vars
  PROVE  CountInv'
<1>1. TypeInv'
  BY NextInv DEF Inv
<1>2. ASSUME NEW t \in Threads, Arrive(t)
      PROVE  CountInv'
  BY <1>1, <1>2, EnterCounts, CreateCounts, ExitStartCounts DEF Arrive
<1>3. ASSUME NEW t \in Threads, Ref(t)
      PROVE  CountInv'
  <2>1. ASSUME Quiet(t), table' = table
        PROVE  CountInv'
    BY <1>1, <2>1, QuietCounts
  <2>2. Check(t) \/ FillStart(t) \/ FillFails(t) \/ FillRefused(t) \/ LogStart(t)
          => Quiet(t) /\ table' = table
    BY DEF Quiet, Check, FillStart, FillFails, FillRefused, LogStart, uservars
  <2> QED
    BY <1>1, <1>3, <2>1, <2>2, FindCounts, InsertCounts, FillTakeCounts, FillLogCounts,
       FillParentCounts, ReleaseCounts, FreeEntryCounts DEF Ref, Fill, Finds
<1>4. ASSUME NEW t \in Threads, Operation(t)
      PROVE  CountInv'
  BY <1>1, <1>4, ReportCounts, CreateChildCounts, CreateParkCounts, ExitGoesCounts,
     ExitEndCounts DEF Operation, Parks, Skips
<1>5. CASE UNCHANGED vars
  <2>1. /\ op' = op /\ stack' = stack /\ life' = life /\ table' = table
        /\ entry' = entry /\ Seqs' = Seqs
    BY <1>5 DEF vars, callvars, osvars, uservars, Seqs
  <2> QED
    BY <1>1, <2>1, StillCounts
<1> QED
  BY <1>1, <1>2, <1>3, <1>4, <1>5, WaitExitCounts DEF Next

\* The details of a new process are logged once: whichever threads find
\* pProcessFullInfo set and in whatever order, and whatever fails, no sequence
\* gets more CREATE records than processes were created under its identifier.
THEOREM DetailsLoggedOnce == Spec => []CreateOnce
<1>1. Init => Inv /\ CountInv
  BY InitInv, InitCountInv
<1>2. Inv /\ CountInv /\ [Next]_vars => (Inv /\ CountInv)'
  BY NextInv, NextCountInv
<1>3. Inv /\ CountInv => CreateOnce
  <2> SUFFICES ASSUME Inv, CountInv, NEW s \in Seqs, ~entry[s].freed
               PROVE  Cardinality(Creates(s)) <= Created(entry[s].pid)
    BY DEF CreateOnce
  <2>1. PICK p \in Pids : p = entry[s].pid
    BY EntryTyped DEF Inv, TypeInv, EntryType
  <2>2. s \in 1 .. MaxSeq
    BY SeqsBounded DEF Inv
  <2>3. /\ Cardinality(Creates(s)) \in Nat /\ Cardinality(Taken(s)) \in Nat
        /\ Cardinality(Coming(p)) \in Nat /\ Parked(s) \in {0, 1}
    BY <2>2, CountsFinite DEF Inv
  <2>4. Created(p) \in Int
    BY DEF Created, Inv, TypeInv, SystemTyped
  <2>5. Cardinality(Creates(s)) + Cardinality(Taken(s)) + Parked(s)
          + Cardinality(Coming(p)) <= Created(p)
    BY <2>1 DEF CountInv, RecordsOK
  <2> QED
    BY <2>1, <2>3, <2>4, <2>5
<1> QED
  BY <1>1, <1>2, <1>3, PTL DEF Spec

-----------------------------------------------------------------------------
(***************************************************************************)
(* The references to the entries of the process list.                      *)
(***************************************************************************)

\* The thread has queued, or is about to queue, the process whose exit it
\* logged: it dropped the reference of its call already.
Queues(t) == op[t].kind = "exit" /\ op[t].step = "queue"

\* What holds a reference to entry s: a call that returned or will return it,
\* details of a new process that a call took, a process creation that keeps
\* it for the details, and details parked in an entry.
Pointing(s) == {x \in Places : Frame(x).seq = s /\ ~Queues(x[1])}
Carrying(s) == {x \in Places : Frame(x).pc = "log" /\ s \in Frame(x).full}
Parents(s) == {t \in Threads : op[t].parent = s}
ParkedAt(s) == {r \in Seqs : s \in entry[r].full}

Holders(s) ==
  ({"call"} \X Pointing(s)) \union ({"taken"} \X Carrying(s))
  \union ({"creation"} \X Parents(s)) \union ({"parked"} \X ParkedAt(s))

\* One thread creates a process, or runs its exit.
Creating(t) == op[t].kind \in {"create", "thread"}

-----------------------------------------------------------------------------
(* Counting holders.                                                       *)

LEMMA CardMoves ==
  ASSUME NEW S, IsFiniteSet(S), NEW x \in S, NEW y, NEW T, T \subseteq (S \ {x}) \union {y}
  PROVE  /\ Cardinality(S) \in Nat /\ Cardinality(T) \in Nat
         /\ Cardinality(T) <= Cardinality(S)
<1>1. /\ IsFiniteSet(S \ {x}) /\ Cardinality(S \ {x}) = Cardinality(S) - 1
      /\ Cardinality(S) \in Nat
  BY FS_RemoveElement, FS_CardinalityType
<1>2. /\ Cardinality(T) \in Nat
      /\ Cardinality(T) <= Cardinality(S \ {x}) + 1
  BY <1>1, CardGains
<1> QED
  BY <1>1, <1>2

LEMMA HoldersFinite ==
  ASSUME TypeInv, NEW s
  PROVE  IsFiniteSet(Holders(s)) /\ Cardinality(Holders(s)) \in Nat
<1>1. IsFiniteSet(Pointing(s)) /\ IsFiniteSet(Carrying(s))
  BY PlacesFinite, CardShrinks DEF TypeInv, Pointing, Carrying
<1>2. IsFiniteSet(Parents(s))
  BY ProcessAssumption, CardShrinks DEF Parents
<1>3. IsFiniteSet(ParkedAt(s))
  <2>1. IsFiniteSet(Seqs)
    BY SeqsBounded, FS_Interval
  <2> QED
    BY <2>1, CardShrinks DEF ParkedAt
<1>4. /\ IsFiniteSet({"call"}) /\ IsFiniteSet({"taken"})
      /\ IsFiniteSet({"creation"}) /\ IsFiniteSet({"parked"})
  BY FS_Singleton
<1>5. /\ IsFiniteSet({"call"} \X Pointing(s)) /\ IsFiniteSet({"taken"} \X Carrying(s))
  BY <1>1, <1>4, FS_Product
<1>6. /\ IsFiniteSet({"creation"} \X Parents(s)) /\ IsFiniteSet({"parked"} \X ParkedAt(s))
  BY <1>2, <1>3, <1>4, FS_Product
<1>7. IsFiniteSet(({"call"} \X Pointing(s)) \union ({"taken"} \X Carrying(s)))
  BY <1>5, FS_Union
<1>8. IsFiniteSet(({"call"} \X Pointing(s)) \union ({"taken"} \X Carrying(s))
                  \union ({"creation"} \X Parents(s)))
  BY <1>6, <1>7, FS_Union
<1>9. IsFiniteSet(Holders(s))
  BY <1>6, <1>8, FS_Union DEF Holders
<1> QED
  BY <1>9, FS_CardinalityType

\* The holders of s grow by no more than d.
Grow(s, d) == /\ Cardinality(Holders(s)') \in Nat
              /\ Cardinality(Holders(s)') <= Cardinality(Holders(s)) + d

\* Over a step that leaves the list, the count and the holders of a grow by
\* one, and those of z shrink by one.
Tally(a, z) ==
  /\ Recount(a, z)
  /\ \A s \in Seqs : Grow(s, (IF s = a THEN 1 ELSE 0) - (IF s = z THEN 1 ELSE 0))

LEMMA HoldersKept ==
  ASSUME TypeInv, NEW s, Holders(s)' \subseteq Holders(s)
  PROVE  Grow(s, 0)
BY HoldersFinite, CardShrinks DEF Grow

LEMMA HoldersLose ==
  ASSUME TypeInv, NEW s, NEW x \in Holders(s), Holders(s)' \subseteq Holders(s) \ {x}
  PROVE  Grow(s, -1)
<1>1. /\ Cardinality(Holders(s)') \in Nat /\ Cardinality(Holders(s)) \in Nat
      /\ Cardinality(Holders(s)') <= Cardinality(Holders(s)) - 1
  BY HoldersFinite, CardLoses
<1> QED
  BY <1>1 DEF Grow

LEMMA HoldersGain ==
  ASSUME TypeInv, NEW s, NEW x, Holders(s)' \subseteq Holders(s) \union {x}
  PROVE  Grow(s, 1)
BY HoldersFinite, CardGains DEF Grow

LEMMA HoldersMove ==
  ASSUME TypeInv, NEW s, NEW x \in Holders(s), NEW y,
         Holders(s)' \subseteq (Holders(s) \ {x}) \union {y}
  PROVE  Grow(s, 0)
<1>1. /\ Cardinality(Holders(s)') \in Nat /\ Cardinality(Holders(s)) \in Nat
      /\ Cardinality(Holders(s)') <= Cardinality(Holders(s))
  BY HoldersFinite, CardMoves
<1> QED
  BY <1>1 DEF Grow

\* The operation of a thread whose calls are not all replaced goes on.
OpGoes(t, n) ==
  /\ \A u \in Threads : u # t => op'[u] = op[u]
  /\ op'[t] = op[t] \/ n = 0

LEMMA PointStep ==
  ASSUME StacksTyped, NEW t \in Threads, NEW n, NEW S \in Seq(FrameType),
         Restacked(t, n, S), OpGoes(t, n), NEW s, NEW y \in Pointing(s)'
  PROVE  \/ y \in Pointing(s) /\ (y[1] = t => y[2] <= n)
         \/ \E k \in 1 .. Len(S) : y = <<t, n + k>> /\ S[k].seq = s /\ ~Queues(t)'
<1>1. y \in Places' /\ Frame(y)'.seq = s /\ ~Queues(y[1])'
  BY DEF Pointing
<1>2. y = <<y[1], y[2]>> /\ y[1] \in Threads
  BY <1>1 DEF Places
<1>3. CASE /\ y \in Places /\ Frame(y)' = Frame(y)
           /\ y[1] = t => y[2] <= n /\ n < Len(stack[t])
  <2>1. Queues(y[1])' <=> Queues(y[1])
    <3>1. CASE y[1] # t
      BY <1>2, <3>1 DEF OpGoes, Queues
    <3>2. CASE y[1] = t /\ op'[t] = op[t]
      BY <3>2 DEF Queues
    <3>3. CASE y[1] = t /\ n = 0
      <4>1. y[2] \in 1 .. Len(stack[t]) /\ y[2] <= 0
        BY <1>3, <3>3, InPlaces
      <4> QED
        BY <4>1
    <3> QED
      BY <3>1, <3>2, <3>3 DEF OpGoes
  <2> QED
    BY <1>1, <1>3, <2>1 DEF Pointing
<1>4. CASE y[1] = t /\ \E k \in 1 .. Len(S) : y[2] = n + k /\ Frame(y)' = S[k]
  <2>1. PICK k \in 1 .. Len(S) : y[2] = n + k /\ Frame(y)' = S[k]
    BY <1>4
  <2>2. y = <<t, n + k>> /\ S[k].seq = s /\ ~Queues(t)'
    BY <1>1, <1>2, <1>4, <2>1
  <2> QED
    BY <2>2
<1> QED
  BY <1>1, <1>3, <1>4, PlaceOfStep

LEMMA CarryStep ==
  ASSUME StacksTyped, NEW t \in Threads, NEW n, NEW S \in Seq(FrameType),
         Restacked(t, n, S), NEW s, NEW y \in Carrying(s)'
  PROVE  \/ y \in Carrying(s) /\ (y[1] = t => y[2] <= n)
         \/ \E k \in 1 .. Len(S) :
              y = <<t, n + k>> /\ S[k].pc = "log" /\ s \in S[k].full
<1>1. y \in Places' /\ Frame(y)'.pc = "log" /\ s \in Frame(y)'.full
  BY DEF Carrying
<1>2. y = <<y[1], y[2]>> /\ y[1] \in Threads
  BY <1>1 DEF Places
<1>3. CASE /\ y \in Places /\ Frame(y)' = Frame(y)
           /\ y[1] = t => y[2] <= n /\ n < Len(stack[t])
  BY <1>1, <1>3 DEF Carrying
<1>4. CASE y[1] = t /\ \E k \in 1 .. Len(S) : y[2] = n + k /\ Frame(y)' = S[k]
  <2>1. PICK k \in 1 .. Len(S) : y[2] = n + k /\ Frame(y)' = S[k]
    BY <1>4
  <2>2. y = <<t, n + k>> /\ S[k].pc = "log" /\ s \in S[k].full
    BY <1>1, <1>2, <1>4, <2>1
  <2> QED
    BY <2>2
<1> QED
  BY <1>1, <1>3, <1>4, PlaceOfStep

TopOf(t) == <<t, Len(stack[t])>>

\* The call at the top goes on.
LEMMA TopHolds ==
  ASSUME StacksTyped, NEW t \in Threads, stack[t] # << >>,
         NEW g \in FrameType, SetTop(t, g), op' = op, NEW s
  PROVE  /\ g.seq # s => Pointing(s)' \subseteq Pointing(s) \ {TopOf(t)}
         /\ g.seq = Top(t).seq => Pointing(s)' \subseteq Pointing(s)
         /\ Pointing(s)' \subseteq Pointing(s) \union {TopOf(t)}
         /\ g.pc # "log" => Carrying(s)' \subseteq Carrying(s) \ {TopOf(t)}
         /\ Carrying(s)' \subseteq Carrying(s) \union {TopOf(t)}
         /\ s \notin g.full => Carrying(s)' \subseteq Carrying(s)
         /\ Parents(s)' = Parents(s)
<1> DEFINE n == Len(stack[t]) - 1
           S == <<g>>
<1>1. Restacked(t, n, S)
  BY Topped
<1>2. /\ Len(stack[t]) \in Nat \ {0} /\ n + 1 = Len(stack[t])
      /\ Top(t) = stack[t][Len(stack[t])]
  <2>1. /\ stack[t] \in Seq(FrameType)
        /\ Len(stack[t]) \in Nat \ {0}
        /\ Last(stack[t]) = stack[t][Len(stack[t])]
    BY FrontLast DEF StacksTyped
  <2> QED
    BY <2>1 DEF Top
<1>3. /\ S \in Seq(FrameType) /\ Len(S) = 1 /\ S[1] = g
      /\ \A k \in 1 .. 1 : k = 1
  OBVIOUS
<1>4. OpGoes(t, n) /\ (Queues(t)' <=> Queues(t))
  BY DEF OpGoes, Queues
<1> PICK x : x = TopOf(t)
  OBVIOUS
<1>5. x = <<t, n + 1>> /\ x[1] = t /\ ~(x[2] <= n)
  BY <1>2 DEF TopOf
<1> HIDE DEF n, S
<1>6. ASSUME NEW y \in Pointing(s)'
      PROVE  \/ y \in Pointing(s) /\ y # x
             \/ y = x /\ g.seq = s /\ ~Queues(t)
  <2>1. \/ y \in Pointing(s) /\ (y[1] = t => y[2] <= n)
        \/ \E k \in 1 .. Len(S) :
             y = <<t, n + k>> /\ S[k].seq = s /\ ~Queues(t)'
    BY <1>1, <1>3, <1>4, PointStep
  <2> QED
    BY <1>2, <1>3, <1>4, <1>5, <2>1
<1>7. ASSUME NEW y \in Carrying(s)'
      PROVE  \/ y \in Carrying(s) /\ y # x
             \/ y = x /\ g.pc = "log" /\ s \in g.full
  <2>1. \/ y \in Carrying(s) /\ (y[1] = t => y[2] <= n)
        \/ \E k \in 1 .. Len(S) :
             y = <<t, n + k>> /\ S[k].pc = "log" /\ s \in S[k].full
    BY <1>1, <1>3, CarryStep
  <2> QED
    BY <1>2, <1>3, <1>5, <2>1
<1>8. g.seq = Top(t).seq /\ g.seq = s /\ ~Queues(t) => x \in Pointing(s)
  <2>1. x \in Places /\ Frame(x) = Top(t)
    BY <1>2, <1>5, InPlaces DEF Frame
  <2> QED
    BY <1>5, <2>1 DEF Pointing
<1>9. Parents(s)' = Parents(s)
  BY DEF Parents
<1> QED
  BY <1>6, <1>7, <1>8, <1>9

LEMMA ParkedKept ==
  ASSUME Seqs' = Seqs, FullKept, NEW s
  PROVE  ParkedAt(s)' = ParkedAt(s)
BY DEF ParkedAt, FullKept

LEMMA HoldersKeep ==
  ASSUME NEW s, Pointing(s)' \subseteq Pointing(s), Carrying(s)' \subseteq Carrying(s),
         Parents(s)' \subseteq Parents(s), ParkedAt(s)' \subseteq ParkedAt(s)
  PROVE  Holders(s)' \subseteq Holders(s)
BY DEF Holders

\* Nothing holds an entry that only its thread knows.
LEMMA UnknownUnheld ==
  ASSUME Inv, NEW s, s \notin Known, s # 0
  PROVE  Holders(s) = {}
<1>1. \A x \in Places : Frame(x).seq # s /\ s \notin Frame(x).full
  BY InPlaces DEF Inv, ListInv, FramesOK, FrameOK, Frame
<1>2. \A t \in Threads : op[t].parent # s
  BY DEF Inv, ListInv, OpsOK
<1>3. \A r \in Seqs : s \notin entry[r].full
  BY DEF Inv, ListInv, EntriesOK
<1> QED
  BY <1>1, <1>2, <1>3 DEF Holders, Pointing, Carrying, Parents, ParkedAt

-----------------------------------------------------------------------------
(* What a step does to the count and to the holders of an entry.           *)

LEMMA ParentInFull ==
  ASSUME NEW full \in Details, ParentOf(full) # 0
  PROVE  ParentOf(full) \in full
BY DEF ParentOf, Details

\* The place of the call at the top.
LEMMA TopPlace ==
  ASSUME Inv, NEW t \in Threads, stack[t] # << >>
  PROVE  /\ Len(stack[t]) \in Nat \ {0}
         /\ Top(t) = stack[t][Len(stack[t])] /\ Top(t) \in FrameType
         /\ TopOf(t) \in Places /\ Frame(TopOf(t)) = Top(t)
         /\ Top(t).seq # 0 /\ ~Queues(t) => TopOf(t) \in Pointing(Top(t).seq)
         /\ \A s : Top(t).pc = "log" /\ s \in Top(t).full => TopOf(t) \in Carrying(s)
<1>1. /\ stack[t] \in Seq(FrameType)
      /\ Len(stack[t]) \in Nat \ {0}
      /\ Last(stack[t]) = stack[t][Len(stack[t])]
      /\ Last(stack[t]) \in FrameType
  BY FrontLast DEF Inv, TypeInv, StacksTyped
<1>2. TopOf(t)[1] = t /\ TopOf(t) \in Places /\ Frame(TopOf(t)) = Top(t)
  BY <1>1, InPlaces DEF Frame, Top, TopOf
<1> QED
  BY <1>1, <1>2 DEF Top, Pointing, Carrying

LEMMA QuietTally ==
  ASSUME Inv, NEW t \in Threads, Quiet(t)
  PROVE  Tally(0, Passed(t))
<1>1. /\ stack[t] # << >>
      /\ Recount(0, Passed(t)) /\ FullKept /\ ExitKept
      /\ UNCHANGED <<osvars, op>>
  BY QuietDoes
<1>2. PICK g \in FrameType : /\ SetTop(t, g)
                             /\ g.pid = Top(t).pid
                             /\ g.seq = Top(t).seq
                             /\ g.pc \notin TakenPcs
  BY QuietDoes
<1>3. PICK x : x = TopOf(t)
  OBVIOUS
<1>4. \A s : /\ Pointing(s)' \subseteq Pointing(s)
             /\ Carrying(s)' \subseteq Carrying(s) \ {x}
             /\ Parents(s)' = Parents(s)
  BY <1>1, <1>2, <1>3, TopHolds DEF Inv, TypeInv, TakenPcs
<1>5. ASSUME NEW s \in Seqs
      PROVE  Grow(s, (IF s = 0 THEN 1 ELSE 0) - (IF s = Passed(t) THEN 1 ELSE 0))
  <2>1. s # 0
    BY SeqsBounded DEF Inv
  <2>2. /\ Pointing(s)' \subseteq Pointing(s)
        /\ Carrying(s)' \subseteq Carrying(s) \ {x}
        /\ Parents(s)' = Parents(s)
    BY <1>4
  <2>3. ParkedAt(s)' = ParkedAt(s)
    BY <1>1, ParkedKept, RecountKeeps
  <2>4. CASE s # Passed(t)
    <3>1. Holders(s)' \subseteq Holders(s)
      BY <2>2, <2>3 DEF Holders
    <3>2. Grow(s, 0)
      BY <3>1, HoldersKept DEF Inv
    <3> QED
      BY <2>1, <2>4, <3>2
  <2>5. CASE s = Passed(t)
    <3>1. Top(t).pc = "log" /\ s \in Top(t).full
      BY <1>1, <1>3, <2>1, <2>5, TopPlace, ParentInFull DEF Passed, FrameType
    <3>2. x \in Carrying(s)
      BY <1>1, <1>3, <3>1, TopPlace
    <3>3. <<"taken", x>> \in Holders(s)
      BY <3>2 DEF Holders
    <3>4. Holders(s)' \subseteq Holders(s) \ {<<"taken", x>>}
      BY <2>2, <2>3 DEF Holders
    <3>5. Grow(s, -1)
      BY <3>3, <3>4, HoldersLose DEF Inv
    <3> QED
      BY <2>1, <2>5, <3>5
  <2> QED
    BY <2>4, <2>5
<1> QED
  BY <1>1, <1>5 DEF Tally

\* The call at the top goes on with one reference more, or none.
LEMMA TopTally ==
  ASSUME Inv, NEW t \in Threads, stack[t] # << >>,
         NEW g \in FrameType, SetTop(t, g), op' = op, FullKept,
         g.pc # "log", NEW a, Recount(a, 0),
         a = g.seq \/ (a = 0 /\ g.seq = Top(t).seq)
  PROVE  Tally(a, 0)
<1>1. PICK x : x = TopOf(t)
  OBVIOUS
<1>2. \A s : /\ Pointing(s)' \subseteq Pointing(s) \union {x}
             /\ g.seq # s => Pointing(s)' \subseteq Pointing(s)
             /\ g.seq = Top(t).seq => Pointing(s)' \subseteq Pointing(s)
             /\ Carrying(s)' \subseteq Carrying(s)
             /\ Parents(s)' = Parents(s)
  BY <1>1, TopHolds DEF Inv, TypeInv
<1>3. ASSUME NEW s \in Seqs
      PROVE  Grow(s, (IF s = a THEN 1 ELSE 0) - (IF s = 0 THEN 1 ELSE 0))
  <2>1. s # 0
    BY SeqsBounded DEF Inv
  <2>2. ParkedAt(s)' = ParkedAt(s)
    BY ParkedKept, RecountKeeps
  <2>3. CASE s = a
    <3>1. Holders(s)' \subseteq Holders(s) \union {<<"call", x>>}
      BY <1>2, <2>2 DEF Holders
    <3>2. Grow(s, 1)
      BY <3>1, HoldersGain DEF Inv
    <3> QED
      BY <2>1, <2>3, <3>2
  <2>4. CASE s # a
    <3>1. Holders(s)' \subseteq Holders(s)
      BY <1>2, <2>2, <2>4 DEF Holders
    <3>2. Grow(s, 0)
      BY <3>1, HoldersKept DEF Inv
    <3> QED
      BY <2>1, <2>4, <3>2
  <2> QED
    BY <2>3, <2>4
<1> QED
  BY <1>3 DEF Tally

\* The second search: the entry that lost is freed with nothing to hold it.
LEMMA InsertTally ==
  ASSUME Inv, NEW t \in Threads, Insert(t)
  PROVE  \E m \in Seqs :
         /\ m = Top(t).mine /\ Seqs' = Seqs
         /\ \A s \in Seqs : s # m =>
              /\ entry'[s].listed = entry[s].listed /\ entry'[s].pid = entry[s].pid
              /\ \E d \in {0, 1} : entry'[s].refs = entry[s].refs + d /\ Grow(s, d)
         /\ Cardinality(Holders(m)') \in Nat
         /\ entry'[m].refs >=
              Cardinality(Holders(m)') + (IF entry'[m].listed THEN 1 ELSE 0)
<1>1. PICK m : m = Top(t).mine
  OBVIOUS
<1>2. /\ stack[t] # << >> /\ m \in Seqs \ Known /\ ~entry[m].freed
      /\ UNCHANGED <<osvars, logLock, op, freeing, uservars>>
      /\ Len(entry') = Len(entry)
  BY <1>1, InsertDoes
<1>3. PICK g \in FrameType :
        /\ SetTop(t, g) /\ g.pid = Top(t).pid /\ g.pc \in {"check", "fill"}
        /\ \/ /\ entry'[m] = Freed
              /\ g.seq \in Known /\ g.seq # m
              /\ entry[g.seq].listed /\ entry[g.seq].pid = g.pid
              /\ entry'[g.seq] = Held(entry[g.seq])
              /\ \A s \in Seqs : s # m /\ s # g.seq => entry'[s] = entry[s]
           \/ /\ Listed(g.pid) = {}
              /\ g.seq = m
              /\ entry[m].pid = g.pid /\ entry'[m].pid = g.pid
              /\ entry'[m].listed /\ ~entry'[m].freed
              /\ entry'[m].full = {} /\ entry'[m].exit = "no"
              /\ entry'[m].refs = 2
              /\ \A s \in Seqs : s # m => entry'[s] = entry[s]
  <2>1. PICK g \in FrameType :
          /\ SetTop(t, g) /\ g.pid = Top(t).pid /\ g.pc \in {"check", "fill"}
          /\ Inserts(m, g)
    BY <1>1, InsertDoes
  <2> QED
    BY <2>1 DEF Inserts
<1>4. PICK x : x = TopOf(t)
  OBVIOUS
<1>5. Seqs' = Seqs /\ ~entry[m].listed
  BY <1>2 DEF Seqs, Known
<1>6. /\ \A s : Pointing(s)' \subseteq Pointing(s) \union {x}
      /\ \A s : g.seq # s => Pointing(s)' \subseteq Pointing(s)
      /\ \A s : Carrying(s)' \subseteq Carrying(s)
      /\ \A s : Parents(s)' = Parents(s)
  BY <1>2, <1>3, <1>4, TopHolds DEF Inv, TypeInv
<1>7. \A s \in Seqs : s # m =>
        entry'[s] = entry[s] \/ (s = g.seq /\ entry'[s] = Held(entry[s]))
  BY <1>3
<1>8. \A s \in Seqs : entry[s] \in EntryType
  BY EntryTyped DEF Inv, TypeInv
<1>9. \A s \in Seqs : s # m =>
        /\ entry'[s].pid = entry[s].pid
        /\ entry'[s].listed = entry[s].listed
        /\ entry'[s].freed = entry[s].freed
        /\ entry'[s].full = entry[s].full
        /\ entry'[s].exit = entry[s].exit
  BY <1>7, <1>8 DEF Held, EntryType
<1>10. entry'[m].full = {} /\ entry'[m].exit = "no" /\ (entry'[m].freed => entry'[m].refs = 0)
  BY <1>3 DEF Freed
<1>11. \A s : ParkedAt(s)' \subseteq ParkedAt(s)
  BY <1>5, <1>9, <1>10 DEF ParkedAt
<1>12. ASSUME NEW s \in Seqs, s # m
       PROVE  \E d \in {0, 1} : entry'[s].refs = entry[s].refs + d /\ Grow(s, d)
  <2>1. CASE entry'[s] = entry[s] /\ g.seq # s
    <3>1. Holders(s)' \subseteq Holders(s)
      BY <1>6, <1>11, <2>1 DEF Holders
    <3>2. Grow(s, 0)
      BY <3>1, HoldersKept DEF Inv
    <3>3. entry[s].refs \in Int
      BY <1>8 DEF EntryType
    <3> QED
      BY <2>1, <3>2, <3>3
  <2>2. CASE entry'[s] = Held(entry[s])
    <3>1. Holders(s)' \subseteq Holders(s) \union {<<"call", x>>}
      BY <1>6, <1>11 DEF Holders
    <3>2. Grow(s, 1)
      BY <3>1, HoldersGain DEF Inv
    <3>3. entry'[s].refs = entry[s].refs + 1
      BY <1>8, <2>2 DEF Held, EntryType
    <3> QED
      BY <3>2, <3>3
  <2> QED
    BY <1>3, <1>7, <1>12, <2>1, <2>2
<1>13. /\ Cardinality(Holders(m)') \in Nat
       /\ entry'[m].refs >= Cardinality(Holders(m)') + (IF entry'[m].listed THEN 1 ELSE 0)
  <2>1. Holders(m) = {}
    BY <1>2, SeqsBounded, UnknownUnheld DEF Inv
  <2>2. CASE g.seq # m /\ entry'[m] = Freed
    <3>1. Holders(m)' \subseteq Holders(m)
      BY <1>6, <1>11, <2>2 DEF Holders
    <3>2. Cardinality(Holders(m)') = 0
      BY <2>1, <3>1, FS_EmptySet
    <3>3. ~entry'[m].listed /\ entry'[m].refs = 0
      BY <2>2 DEF Freed
    <3> QED
      BY <3>2, <3>3
  <2>3. CASE entry'[m].refs = 2
    <3>1. Holders(m)' \subseteq Holders(m) \union {<<"call", x>>}
      BY <1>6, <1>11 DEF Holders
    <3>2. Cardinality(Holders(m)') \in Nat /\ Cardinality(Holders(m)') <= 1
      BY <2>1, <3>1, CardOne
    <3> QED
      BY <2>3, <3>2
  <2> QED
    BY <1>3, <2>2, <2>3
<1> QED
  BY <1>1, <1>2, <1>5, <1>9, <1>12, <1>13

\* The exchange moves the details, and what they hold, from entry to call.
LEMMA FillTakeTally ==
  ASSUME Inv, NEW t \in Threads, FillTake(t)
  PROVE  Tally(0, 0)
<1>1. PICK f : f = Top(t)
  OBVIOUS
<1>2. /\ stack[t] # << >> /\ f.seq \in Known
      /\ UNCHANGED <<osvars, logLock, op, freeing, uservars>>
      /\ Recount(0, 0) /\ ExitKept
      /\ entry'[f.seq].full = {}
      /\ \A s \in Seqs : s # f.seq => entry'[s] = entry[s]
  BY <1>1, FillTakeDoes
<1>3. PICK g \in FrameType :
        /\ SetTop(t, g) /\ g.pid = f.pid /\ g.pc = "log" /\ g.seq = f.seq
        /\ g.full = entry[f.seq].full
  BY <1>1, FillTakeDoes
<1>4. PICK x : x = TopOf(t)
  OBVIOUS
<1>5. /\ \A s : Pointing(s)' \subseteq Pointing(s)
      /\ \A s : Carrying(s)' \subseteq Carrying(s) \union {x}
      /\ \A s : s \notin g.full => Carrying(s)' \subseteq Carrying(s)
      /\ \A s : Parents(s)' = Parents(s)
  BY <1>1, <1>2, <1>3, <1>4, TopHolds DEF Inv, TypeInv
<1>6. Seqs' = Seqs /\ f.seq \in Seqs
  BY <1>2, RecountKeeps DEF Known
<1>7. \A s : ParkedAt(s)' \subseteq ParkedAt(s) \ {f.seq}
  BY <1>2, <1>6 DEF ParkedAt
<1>8. ASSUME NEW s \in Seqs
      PROVE  Grow(s, (IF s = 0 THEN 1 ELSE 0) - (IF s = 0 THEN 1 ELSE 0))
  <2>1. CASE s \in g.full
    <3>1. f.seq \in ParkedAt(s)
      BY <1>3, <1>6, <2>1 DEF ParkedAt
    <3>2. <<"parked", f.seq>> \in Holders(s)
      BY <3>1 DEF Holders
    <3>3. Holders(s)' \subseteq (Holders(s) \ {<<"parked", f.seq>>}) \union {<<"taken", x>>}
      BY <1>5, <1>7 DEF Holders
    <3> QED
      BY <3>2, <3>3, HoldersMove DEF Inv
  <2>2. CASE s \notin g.full
    <3>1. Holders(s)' \subseteq Holders(s)
      BY <1>5, <1>7, <2>2 DEF Holders
    <3> QED
      BY <3>1, HoldersKept DEF Inv
  <2>3. (IF s = 0 THEN 1 ELSE 0) - (IF s = 0 THEN 1 ELSE 0) = 0
    OBVIOUS
  <2> QED
    BY <2>1, <2>2, <2>3
<1> QED
  BY <1>2, <1>8 DEF Tally

\* The reservation drops the reference that the details held, and calls for
\* the parent.
LEMMA FillLogTally ==
  ASSUME Inv, NEW t \in Threads, FillLog(t)
  PROVE  Tally(0, ParentOf(Top(t).full))
<1>1. PICK f : f = Top(t)
  OBVIOUS
<1>2. PICK z : z = ParentOf(f.full)
  OBVIOUS
<1>3. /\ stack[t] # << >> /\ f.pc = "log" /\ f.seq \in Known
      /\ Len(stack[t]) \in Nat \ {0} /\ f = stack[t][Len(stack[t])]
      /\ f \in FrameType
      /\ UNCHANGED <<osvars, op, uservars>>
      /\ Recount(0, z) /\ FullKept /\ ExitKept
  BY <1>1, <1>2, FillLogDoes
<1>4. PICK g \in FrameType, c \in FrameType :
        /\ Restacked(t, Len(stack[t]) - 1, <<g, c>>)
        /\ g.pid = f.pid /\ g.pc = "parent" /\ g.seq = f.seq
        /\ c.pc = "find" /\ c.seq = 0
  <2>1. LET h == Top(t) IN
        \E g, c \in FrameType :
          /\ Restacked(t, Len(stack[t]) - 1, <<g, c>>)
          /\ g.pid = h.pid /\ g.pc = "parent" /\ g.seq = h.seq /\ g.full = h.full
          /\ c.pc = "find" /\ c.seq = 0 /\ c.full = {}
    BY FillLogDoes
  <2> QED
    BY <1>1, <2>1
<1>5. PICK n, S : n = Len(stack[t]) - 1 /\ S = <<g, c>>
  OBVIOUS
<1>6. /\ S \in Seq(FrameType) /\ Len(S) = 2 /\ S[1] = g /\ S[2] = c /\ S # << >>
      /\ \A k \in 1 .. Len(S) : k = 1 \/ k = 2
  <2>1. /\ <<g, c>> \in Seq(FrameType) /\ Len(<<g, c>>) = 2
        /\ <<g, c>>[1] = g /\ <<g, c>>[2] = c
        /\ \A k \in 1 .. 2 : k = 1 \/ k = 2
    OBVIOUS
  <2> QED
    BY <1>5, <2>1
<1>7. Restacked(t, n, S) /\ n \in Nat /\ n + 1 = Len(stack[t]) /\ OpGoes(t, n)
  BY <1>3, <1>4, <1>5 DEF OpGoes
<1>8. PICK x : x = TopOf(t)
  OBVIOUS
<1>9. x = <<t, n + 1>> /\ x[1] = t /\ ~(x[2] <= n)
  BY <1>7, <1>8 DEF TopOf
<1>10. Queues(t)' <=> Queues(t)
  BY <1>3 DEF Queues
<1>11. f.seq # 0 /\ \A s \in Seqs : s # 0
  BY <1>3, SeqsBounded DEF Inv, Known
<1>12. ASSUME NEW s \in Seqs PROVE Pointing(s)' \subseteq Pointing(s)
  <2> SUFFICES ASSUME NEW y \in Pointing(s)' PROVE y \in Pointing(s)
    OBVIOUS
  <2>1. \/ y \in Pointing(s)
        \/ \E k \in 1 .. Len(S) : y = <<t, n + k>> /\ S[k].seq = s /\ ~Queues(t)'
    BY <1>6, <1>7, PointStep DEF Inv, TypeInv
  <2>2. CASE y = <<t, n + 1>> /\ g.seq = s /\ ~Queues(t)
    BY <1>1, <1>3, <1>4, <1>8, <1>9, <1>11, <2>2, TopPlace
  <2> QED
    BY <1>4, <1>6, <1>10, <1>11, <2>1, <2>2
<1>13. ASSUME NEW s PROVE Carrying(s)' \subseteq Carrying(s) \ {x}
  <2> SUFFICES ASSUME NEW y \in Carrying(s)' PROVE y \in Carrying(s) \ {x}
    OBVIOUS
  <2>1. \/ y \in Carrying(s) /\ (y[1] = t => y[2] <= n)
        \/ \E k \in 1 .. Len(S) :
             y = <<t, n + k>> /\ S[k].pc = "log" /\ s \in S[k].full
    BY <1>6, <1>7, CarryStep DEF Inv, TypeInv
  <2>2. y \in Carrying(s) /\ (y[1] = t => y[2] <= n)
    BY <1>4, <1>6, <2>1
  <2> QED
    BY <1>9, <2>2
<1>14. ASSUME NEW s \in Seqs
       PROVE  Grow(s, (IF s = 0 THEN 1 ELSE 0) - (IF s = z THEN 1 ELSE 0))
  <2>1. ParkedAt(s)' = ParkedAt(s) /\ Parents(s)' = Parents(s)
    BY <1>3, ParkedKept, RecountKeeps DEF Parents
  <2>2. CASE s # z
    <3>1. Holders(s)' \subseteq Holders(s)
      BY <1>12, <1>13, <2>1 DEF Holders
    <3>2. Grow(s, 0)
      BY <3>1, HoldersKept DEF Inv
    <3> QED
      BY <1>11, <2>2, <3>2
  <2>3. CASE s = z
    <3>1. s \in f.full
      BY <1>2, <1>3, <1>11, <2>3, ParentInFull DEF FrameType
    <3>2. x \in Carrying(s)
      BY <1>1, <1>3, <1>8, <3>1, TopPlace
    <3>3. <<"taken", x>> \in Holders(s)
      BY <3>2 DEF Holders
    <3>4. Holders(s)' \subseteq Holders(s) \ {<<"taken", x>>}
      BY <1>12, <1>13, <2>1 DEF Holders
    <3>5. Grow(s, -1)
      BY <3>3, <3>4, HoldersLose DEF Inv
    <3> QED
      BY <1>11, <2>3, <3>5
  <2> QED
    BY <2>2, <2>3
<1> QED
  BY <1>1, <1>2, <1>3, <1>14 DEF Tally

\* The reference of the parent is dropped with the call that returned it.
LEMMA FillParentTally ==
  ASSUME Inv, NEW t \in Threads, FillParent(t)
  PROVE  Tally(0, Top(t).seq)
<1>1. PICK f, b : f = Top(t) /\ b = stack[t][Len(stack[t]) - 1]
  OBVIOUS
<1>2. /\ stack[t] # << >> /\ f.pc = "return" /\ f.seq \in Known \union {0}
      /\ Len(stack[t]) \in Nat /\ Len(stack[t]) > 1
      /\ b.pc = "parent" /\ b \in FrameType
      /\ UNCHANGED <<osvars, op, uservars>>
      /\ Recount(0, f.seq) /\ FullKept /\ ExitKept
  BY <1>1, FillParentDoes
<1>3. PICK g \in FrameType :
        /\ Restacked(t, Len(stack[t]) - 2, <<g>>)
        /\ g.pid = b.pid /\ g.pc = "release" /\ g.seq = b.seq /\ g.full = b.full
  BY <1>1, FillParentDoes
<1>4. PICK n, S : n = Len(stack[t]) - 2 /\ S = <<g>>
  OBVIOUS
<1>5. /\ S \in Seq(FrameType) /\ Len(S) = 1 /\ S[1] = g /\ S # << >>
      /\ \A k \in 1 .. Len(S) : k = 1
  <2>1. <<g>> \in Seq(FrameType) /\ Len(<<g>>) = 1 /\ <<g>>[1] = g /\ \A k \in 1 .. 1 : k = 1
    OBVIOUS
  <2> QED
    BY <1>4, <2>1
<1>6. /\ Restacked(t, n, S) /\ n \in Nat /\ n + 1 = Len(stack[t]) - 1
      /\ n + 2 = Len(stack[t]) /\ OpGoes(t, n)
  BY <1>2, <1>3, <1>4 DEF OpGoes
<1>7. PICK x : x = TopOf(t)
  OBVIOUS
<1>8. x = <<t, n + 2>> /\ x[1] = t /\ ~(x[2] <= n)
  BY <1>6, <1>7 DEF TopOf
<1>9. ~Queues(t) /\ ~Queues(t)'
  <2>1. ~Queues(t)
    <3>1. op[t].kind = "exit" /\ op[t].step # "ref" => Len(stack[t]) = 1
      BY DEF Inv, ListInv, OpsOK
    <3>2. \A k \in Nat : k > 1 => k # 1
      OBVIOUS
    <3>3. Len(stack[t]) # 1
      BY <1>2, <3>2, Zenon
    <3> QED
      BY <3>1, <3>3 DEF Queues
  <2> QED
    BY <1>2, <2>1 DEF Queues
<1>10. \A s \in Seqs : s # 0
  BY SeqsBounded DEF Inv
<1>11. /\ n + 1 \in 1 .. Len(stack[t]) /\ <<t, n + 1>> \in Places
       /\ Frame(<<t, n + 1>>) = b
  <2>1. n + 1 \in 1 .. Len(stack[t])
    BY <1>6
  <2> QED
    BY <1>1, <1>6, <2>1, InPlaces DEF Frame
<1>12. ASSUME NEW s PROVE Pointing(s)' \subseteq Pointing(s) \ {x}
  <2> SUFFICES ASSUME NEW y \in Pointing(s)' PROVE y \in Pointing(s) \ {x}
    OBVIOUS
  <2>1. \/ y \in Pointing(s) /\ (y[1] = t => y[2] <= n)
        \/ \E k \in 1 .. Len(S) : y = <<t, n + k>> /\ S[k].seq = s /\ ~Queues(t)'
    BY <1>5, <1>6, PointStep DEF Inv, TypeInv
  <2>2. CASE y \in Pointing(s) /\ (y[1] = t => y[2] <= n)
    BY <1>8, <2>2
  <2>3. CASE y = <<t, n + 1>> /\ g.seq = s
    <3>1. y[1] = t /\ y # x
      BY <1>6, <1>8, <2>3
    <3> QED
      BY <1>3, <1>9, <1>11, <2>3, <3>1 DEF Pointing
  <2> QED
    BY <1>5, <2>1, <2>2, <2>3
<1>13. ASSUME NEW s PROVE Carrying(s)' \subseteq Carrying(s)
  <2> SUFFICES ASSUME NEW y \in Carrying(s)' PROVE y \in Carrying(s)
    OBVIOUS
  <2>1. \/ y \in Carrying(s)
        \/ \E k \in 1 .. Len(S) :
             y = <<t, n + k>> /\ S[k].pc = "log" /\ s \in S[k].full
    BY <1>5, <1>6, CarryStep DEF Inv, TypeInv
  <2> QED
    BY <1>3, <1>5, <2>1
<1>14. ASSUME NEW s \in Seqs
       PROVE  Grow(s, (IF s = 0 THEN 1 ELSE 0) - (IF s = f.seq THEN 1 ELSE 0))
  <2>1. ParkedAt(s)' = ParkedAt(s) /\ Parents(s)' = Parents(s)
    BY <1>2, ParkedKept, RecountKeeps DEF Parents
  <2>2. CASE s # f.seq
    <3>1. Holders(s)' \subseteq Holders(s)
      BY <1>12, <1>13, <2>1 DEF Holders
    <3>2. Grow(s, 0)
      BY <3>1, HoldersKept DEF Inv
    <3> QED
      BY <1>10, <2>2, <3>2
  <2>3. CASE s = f.seq
    <3>1. x \in Pointing(s)
      BY <1>1, <1>2, <1>7, <1>9, <1>10, <2>3, TopPlace
    <3>2. <<"call", x>> \in Holders(s)
      BY <3>1 DEF Holders
    <3>3. Holders(s)' \subseteq Holders(s) \ {<<"call", x>>}
      BY <1>12, <1>13, <2>1 DEF Holders
    <3>4. Grow(s, -1)
      BY <3>2, <3>3, HoldersLose DEF Inv
    <3> QED
      BY <1>10, <2>3, <3>4
  <2> QED
    BY <2>2, <2>3
<1> QED
  BY <1>1, <1>2, <1>14 DEF Tally

\* Calls that point to no entry yet.
Blank(S) ==
  \A k \in 1 .. Len(S) : S[k].seq = 0 /\ S[k].pc = "find"

LEMMA BlankCall ==
  /\ << >> \in Seq(FrameType) /\ Blank(<< >>)
  /\ \A p \in Pids, b \in BOOLEAN :
       <<Call(p, b)>> \in Seq(FrameType) /\ Blank(<<Call(p, b)>>)
<1>1. << >> \in Seq(FrameType) /\ Len(<< >>) = 0 /\ 1 .. 0 = {}
  OBVIOUS
<1>2. ASSUME NEW p \in Pids, NEW b \in BOOLEAN
      PROVE  <<Call(p, b)>> \in Seq(FrameType) /\ Blank(<<Call(p, b)>>)
  <2> DEFINE c == Call(p, b)
  <2>1. c \in FrameType /\ c.seq = 0 /\ c.pc = "find"
    BY CallFields
  <2> HIDE DEF c
  <2>2. /\ <<c>> \in Seq(FrameType) /\ Len(<<c>>) = 1 /\ <<c>>[1] = c
        /\ \A k \in 1 .. 1 : k = 1
    BY <2>1
  <2>3. <<c>> \in Seq(FrameType) /\ Blank(<<c>>)
    BY <2>1, <2>2 DEF Blank
  <2> QED
    BY <2>3 DEF c
<1> QED
  BY <1>1, <1>2 DEF Blank

LEMMA RestartHolds ==
  ASSUME Inv, NEW t \in Threads, NEW o, op' = [op EXCEPT ![t] = o],
         NEW S \in Seq(FrameType), Blank(S), stack' = [stack EXCEPT ![t] = S],
         NEW s, s # 0
  PROVE  /\ Pointing(s)' \subseteq Pointing(s) \ {TopOf(t)}
         /\ Carrying(s)' \subseteq Carrying(s)
         /\ Parents(s)' \subseteq Parents(s) \union {t}
         /\ o.parent # s => Parents(s)' \subseteq Parents(s) \ {t}
<1>1. Restacked(t, 0, S) /\ StacksTyped
  BY Restarted DEF Inv, TypeInv
<1>2. op'[t] = o /\ \A u \in Threads : u # t => op'[u] = op[u]
  BY DEF Inv, TypeInv, DriverTyped
<1>3. OpGoes(t, 0)
  BY <1>2 DEF OpGoes
<1>4. ASSUME NEW y \in Pointing(s)'
      PROVE  y \in Pointing(s) /\ y # TopOf(t)
  <2>1. \/ y \in Pointing(s) /\ (y[1] = t => y[2] <= 0)
        \/ \E k \in 1 .. Len(S) : y = <<t, 0 + k>> /\ S[k].seq = s /\ ~Queues(t)'
    BY <1>1, <1>3, PointStep
  <2>2. y \in Pointing(s) /\ (y[1] = t => y[2] <= 0)
    BY <2>1 DEF Blank
  <2>3. y[2] \in Nat \ {0}
    <3>1. y \in Places
      BY <2>2 DEF Pointing
    <3> QED
      BY <3>1, InPlaces
  <2>4. y[1] # t
    BY <2>2, <2>3
  <2> QED
    BY <2>2, <2>4 DEF TopOf
<1>5. ASSUME NEW y \in Carrying(s)'
      PROVE  y \in Carrying(s)
  <2>1. \/ y \in Carrying(s)
        \/ \E k \in 1 .. Len(S) :
             y = <<t, 0 + k>> /\ S[k].pc = "log" /\ s \in S[k].full
    BY <1>1, CarryStep
  <2> QED
    BY <2>1 DEF Blank
<1>6. /\ Parents(s)' \subseteq Parents(s) \union {t}
      /\ o.parent # s => Parents(s)' \subseteq Parents(s) \ {t}
  BY <1>2 DEF Parents
<1> QED
  BY <1>4, <1>5, <1>6

\* An operation arrives: it holds nothing yet.
LEMMA BeginTally ==
  ASSUME Inv, NEW t \in Threads, NEW o, o.parent = 0,
         NEW p \in Pids, NEW b \in BOOLEAN, Begin(t, o, p, b), entry' = entry
  PROVE  Tally(0, 0)
<1>1. PICK S : S = <<Call(p, b)>>
  OBVIOUS
<1>2. /\ op' = [op EXCEPT ![t] = o] /\ stack' = [stack EXCEPT ![t] = S]
      /\ S \in Seq(FrameType) /\ Blank(S)
  BY <1>1, BlankCall DEF Begin
<1>3. Recount(0, 0) /\ FullKept /\ ExitKept
  BY SameCounts
<1>4. ASSUME NEW s \in Seqs
      PROVE  Grow(s, (IF s = 0 THEN 1 ELSE 0) - (IF s = 0 THEN 1 ELSE 0))
  <2>1. s # 0
    BY SeqsBounded DEF Inv
  <2>2. /\ Pointing(s)' \subseteq Pointing(s)
        /\ Carrying(s)' \subseteq Carrying(s)
        /\ Parents(s)' \subseteq Parents(s)
    BY <1>2, <2>1, RestartHolds
  <2>3. ParkedAt(s)' = ParkedAt(s)
    BY <1>3, ParkedKept, RecountKeeps
  <2>4. Grow(s, 0)
    BY <2>2, <2>3, HoldersKeep, HoldersKept DEF Inv
  <2> QED
    BY <2>1, <2>4
<1> QED
  BY <1>3, <1>4 DEF Tally

\* The operation of t goes on with o and a call, or ends; the reference that
\* its call returned is dropped.
LEMMA DropTally ==
  ASSUME Inv, NEW t \in Threads, stack[t] # << >>,
         NEW o, op' = [op EXCEPT ![t] = o], o.parent = 0,
         NEW S \in Seq(FrameType), Blank(S), stack' = [stack EXCEPT ![t] = S],
         NEW z, z = 0 \/ (z = Top(t).seq /\ ~Queues(t)), Recount(0, z), FullKept
  PROVE  Tally(0, z)
<1>1. ASSUME NEW s \in Seqs
      PROVE  Grow(s, (IF s = 0 THEN 1 ELSE 0) - (IF s = z THEN 1 ELSE 0))
  <2>1. s # 0
    BY SeqsBounded DEF Inv
  <2>2. /\ Pointing(s)' \subseteq Pointing(s) \ {TopOf(t)}
        /\ Carrying(s)' \subseteq Carrying(s)
        /\ Parents(s)' \subseteq Parents(s)
    BY <2>1, RestartHolds
  <2>3. ParkedAt(s)' = ParkedAt(s)
    BY ParkedKept, RecountKeeps
  <2>4. CASE s # z
    <3>1. Grow(s, 0)
      BY <2>2, <2>3, HoldersKeep, HoldersKept DEF Inv
    <3> QED
      BY <2>1, <2>4, <3>1
  <2>5. CASE s = z
    <3>1. TopOf(t) \in Pointing(s)
      BY <2>1, <2>5, TopPlace
    <3>2. <<"call", TopOf(t)>> \in Holders(s)
      BY <3>1 DEF Holders
    <3>3. Holders(s)' \subseteq Holders(s) \ {<<"call", TopOf(t)>>}
      BY <2>2, <2>3 DEF Holders
    <3>4. Grow(s, -1)
      BY <3>2, <3>3, HoldersLose DEF Inv
    <3> QED
      BY <2>1, <2>5, <3>4
  <2> QED
    BY <2>4, <2>5
<1> QED
  BY <1>1 DEF Tally

\* The reference of the parent stays with the thread, for the details.
LEMMA CreateChildTally ==
  ASSUME Inv, NEW t \in Threads, CreateChild(t)
  PROVE  Tally(0, 0)
<1>1. PICK d : d = Top(t).seq
  OBVIOUS
<1>2. PICK o : o = [op[t] EXCEPT !.step = "child", !.parent = d]
  OBVIOUS
<1>3. PICK S : S = <<Call(op[t].about, FALSE)>>
  OBVIOUS
<1>4. Returned(t, {"create"}, "ref")
  BY DEF CreateChild
<1>5. /\ op[t] \in OpType /\ op[t].kind = "create" /\ Len(stack[t]) = 1
  BY <1>4, AtReturn
<1>6. /\ o.kind = "create" /\ o.step = "child" /\ o.parent = d
      /\ o.about = op[t].about
  BY <1>2, <1>5 DEF OpType
<1>7. /\ op' = [op EXCEPT ![t] = o] /\ stack' = [stack EXCEPT ![t] = S]
      /\ UNCHANGED osvars /\ entry' = entry
  BY <1>1, <1>2, <1>3 DEF CreateChild
<1>8. stack[t] # << >> /\ ~Queues(t)
  BY <1>5 DEF Queues
<1>9. S \in Seq(FrameType) /\ Blank(S)
  BY <1>3, <1>5, BlankCall DEF OpType
<1>10. Recount(0, 0) /\ FullKept /\ ExitKept
  BY <1>7, SameCounts
<1>11. ASSUME NEW s \in Seqs
       PROVE  Grow(s, (IF s = 0 THEN 1 ELSE 0) - (IF s = 0 THEN 1 ELSE 0))
  <2>1. s # 0
    BY SeqsBounded DEF Inv
  <2>2. /\ Pointing(s)' \subseteq Pointing(s) \ {TopOf(t)}
        /\ Carrying(s)' \subseteq Carrying(s)
        /\ Parents(s)' \subseteq Parents(s) \union {t}
        /\ d # s => Parents(s)' \subseteq Parents(s)
    BY <1>6, <1>7, <1>9, <2>1, RestartHolds
  <2>3. ParkedAt(s)' = ParkedAt(s)
    BY <1>10, ParkedKept, RecountKeeps
  <2>4. CASE s # d
    <3>1. Grow(s, 0)
      BY <2>2, <2>3, <2>4, HoldersKeep, HoldersKept DEF Inv
    <3> QED
      BY <2>1, <3>1
  <2>5. CASE s = d
    <3>1. TopOf(t) \in Pointing(s)
      BY <1>1, <1>8, <2>1, <2>5, TopPlace
    <3>2. <<"call", TopOf(t)>> \in Holders(s)
      BY <3>1 DEF Holders
    <3>3. Holders(s)' \subseteq (Holders(s) \ {<<"call", TopOf(t)>>})
                                   \union {<<"creation", t>>}
      BY <2>2, <2>3 DEF Holders
    <3>4. Grow(s, 0)
      BY <3>2, <3>3, HoldersMove DEF Inv
    <3> QED
      BY <2>1, <3>4
  <2> QED
    BY <2>4, <2>5
<1> QED
  BY <1>10, <1>11 DEF Tally

\* The details of the new process are parked with the reference of the parent;
\* or that of the parent is dropped, or nobody drops it any more.
LEMMA CreateParkTally ==
  ASSUME Inv, NEW t \in Threads, Parks(t)
  PROVE  \E z : Tally(0, z)
<1>1. PICK a, d : a = Top(t).seq /\ d = op[t].parent
  OBVIOUS
<1>2. Returned(t, {"create"}, "child")
  BY DEF Parks, CreatePark, ParkFails, ThreadStarts
<1>3. /\ op[t] \in OpType /\ op[t].kind = "create" /\ Len(stack[t]) = 1
  BY <1>2, AtReturn
<1>4. PICK o \in OpType : /\ op' = [op EXCEPT ![t] = o]
                          /\ o.kind = "thread" /\ o.parent = 0
                          /\ o.about = op[t].about
  BY ParkDoes
<1>5. PICK S : S = <<Call(op[t].about, TRUE)>>
  OBVIOUS
<1>6. /\ stack' = [stack EXCEPT ![t] = S] /\ UNCHANGED osvars /\ ExitKept
  BY <1>5, ParkDoes
<1>7. \/ a = 0 /\ Recount(0, d) /\ FullKept
      \/ a # 0 /\ Recount(0, a) /\ FullKept
      \/ /\ a # 0 /\ Recount(0, a)
         /\ entry'[a].full = {d}
         /\ \A r \in Seqs : r # a => entry'[r].full = entry[r].full
  BY <1>1, ParkDoes
<1>8. stack[t] # << >> /\ ~Queues(t)
  BY <1>3 DEF Queues
<1>9. S \in Seq(FrameType) /\ Blank(S)
  BY <1>3, <1>5, BlankCall DEF OpType
<1>10. \A s \in Seqs : s # 0
  BY SeqsBounded DEF Inv
<1>11. \A s : s # 0 =>
         /\ Pointing(s)' \subseteq Pointing(s) \ {TopOf(t)}
         /\ Carrying(s)' \subseteq Carrying(s)
         /\ Parents(s)' \subseteq Parents(s) \ {t}
  BY <1>4, <1>6, <1>9, RestartHolds
<1>12. /\ <<"call", TopOf(t)>> \in Holders(a) \/ a = 0
       /\ <<"creation", t>> \in Holders(d)
  <2>1. a # 0 => TopOf(t) \in Pointing(a)
    BY <1>1, <1>8, TopPlace
  <2>2. t \in Parents(d)
    BY <1>1 DEF Parents
  <2> QED
    BY <2>1, <2>2 DEF Holders
<1>13. PICK z : /\ Recount(0, z)
                /\ \A s \in Seqs :
                     Grow(s, (IF s = 0 THEN 1 ELSE 0) - (IF s = z THEN 1 ELSE 0))
  <2>1. ASSUME a = 0, Recount(0, d), FullKept, NEW s \in Seqs
        PROVE  Grow(s, (IF s = 0 THEN 1 ELSE 0) - (IF s = d THEN 1 ELSE 0))
    <3>1. ParkedAt(s)' = ParkedAt(s)
      BY <2>1, ParkedKept, RecountKeeps
    <3>2. CASE s = d
      <4>1. Holders(s)' \subseteq Holders(s) \ {<<"creation", t>>}
        BY <1>10, <1>11, <3>1 DEF Holders
      <4>2. Grow(s, -1)
        BY <1>12, <3>2, <4>1, HoldersLose DEF Inv
      <4> QED
        BY <1>10, <3>2, <4>2
    <3>3. CASE s # d
      <4>1. Holders(s)' \subseteq Holders(s)
        BY <1>10, <1>11, <3>1 DEF Holders
      <4>2. Grow(s, 0)
        BY <4>1, HoldersKept DEF Inv
      <4> QED
        BY <1>10, <3>3, <4>2
    <3> QED
      BY <3>2, <3>3
  <2>2. ASSUME a # 0, Recount(0, a), FullKept, NEW s \in Seqs
        PROVE  Grow(s, (IF s = 0 THEN 1 ELSE 0) - (IF s = a THEN 1 ELSE 0))
    <3>1. ParkedAt(s)' = ParkedAt(s)
      BY <2>2, ParkedKept, RecountKeeps
    <3>2. CASE s = a
      <4>1. Holders(s)' \subseteq Holders(s) \ {<<"call", TopOf(t)>>}
        BY <1>10, <1>11, <3>1 DEF Holders
      <4>2. Grow(s, -1)
        BY <1>12, <2>2, <3>2, <4>1, HoldersLose DEF Inv
      <4> QED
        BY <1>10, <3>2, <4>2
    <3>3. CASE s # a
      <4>1. Holders(s)' \subseteq Holders(s)
        BY <1>10, <1>11, <3>1 DEF Holders
      <4>2. Grow(s, 0)
        BY <4>1, HoldersKept DEF Inv
      <4> QED
        BY <1>10, <3>3, <4>2
    <3> QED
      BY <3>2, <3>3
  <2>3. ASSUME a # 0, Recount(0, a), entry'[a].full = {d},
               \A r \in Seqs : r # a => entry'[r].full = entry[r].full,
               NEW s \in Seqs
        PROVE  Grow(s, (IF s = 0 THEN 1 ELSE 0) - (IF s = a THEN 1 ELSE 0))
    <3>1. Seqs' = Seqs
      BY <2>3, RecountKeeps
    <3>2. /\ s # d => ParkedAt(s)' \subseteq ParkedAt(s)
          /\ ParkedAt(s)' \subseteq ParkedAt(s) \union {a}
      BY <2>3, <3>1 DEF ParkedAt
    <3>3. CASE s # d /\ s # a
      <4>1. Holders(s)' \subseteq Holders(s)
        BY <1>10, <1>11, <3>2, <3>3 DEF Holders
      <4>2. Grow(s, 0)
        BY <4>1, HoldersKept DEF Inv
      <4> QED
        BY <1>10, <3>3, <4>2
    <3>4. CASE s # d /\ s = a
      <4>1. Holders(s)' \subseteq Holders(s) \ {<<"call", TopOf(t)>>}
        BY <1>10, <1>11, <3>2, <3>4 DEF Holders
      <4>2. Grow(s, -1)
        BY <1>12, <2>3, <3>4, <4>1, HoldersLose DEF Inv
      <4> QED
        BY <1>10, <3>4, <4>2
    <3>5. CASE s = d /\ s # a
      <4>1. Holders(s)' \subseteq (Holders(s) \ {<<"creation", t>>}) \union {<<"parked", a>>}
        BY <1>10, <1>11, <3>2 DEF Holders
      <4>2. Grow(s, 0)
        BY <1>12, <3>5, <4>1, HoldersMove DEF Inv
      <4> QED
        BY <1>10, <3>5, <4>2
    <3>6. CASE s = d /\ s = a
      <4>1. Holders(s)' \subseteq ((Holders(s) \ {<<"call", TopOf(t)>>})
                                      \ {<<"creation", t>>}) \union {<<"parked", a>>}
        BY <1>10, <1>11, <3>2 DEF Holders
      <4>2. PICK H : H = Holders(s) \ {<<"call", TopOf(t)>>}
        OBVIOUS
      <4>3. /\ <<"creation", t>> \in H /\ <<"call", TopOf(t)>> \in Holders(s)
        BY <1>12, <2>3, <3>6, <4>2
      <4>4. IsFiniteSet(Holders(s)) /\ Cardinality(Holders(s)) \in Nat
        BY HoldersFinite DEF Inv
      <4>5. IsFiniteSet(H) /\ Cardinality(H) = Cardinality(Holders(s)) - 1
        BY <4>2, <4>3, <4>4, FS_RemoveElement
      <4>6. /\ Cardinality(Holders(s)') \in Nat
            /\ Cardinality(Holders(s)') <= Cardinality(H)
        BY <4>1, <4>2, <4>3, <4>5, CardMoves
      <4>7. Grow(s, -1)
        BY <4>4, <4>5, <4>6 DEF Grow
      <4> QED
        BY <1>10, <3>6, <4>7
    <3> QED
      BY <3>3, <3>4, <3>5, <3>6
  <2> QED
    BY <1>7, <2>1, <2>2, <2>3
<1> QED
  BY <1>13 DEF Tally

\* The calls stay as they are, and the operation of t at most gets to its next
\* step.
LEMMA StillHolds ==
  ASSUME stack' = stack, NEW t \in Threads,
         \A u \in Threads : u # t => op'[u] = op[u],
         op'[t].parent = op[t].parent, Queues(t) => Queues(t)', NEW s
  PROVE  /\ Pointing(s)' \subseteq Pointing(s)
         /\ Queues(t)' => Pointing(s)' \subseteq Pointing(s) \ {TopOf(t)}
         /\ Carrying(s)' = Carrying(s)
         /\ Parents(s)' = Parents(s)
<1>1. Places' = Places /\ \A x \in Places : Frame(x)' = Frame(x) /\ x[1] \in Threads
  BY InPlaces DEF Places, Frame
<1>2. ASSUME NEW u \in Threads PROVE Queues(u) => Queues(u)'
  BY DEF Queues
<1>3. Pointing(s)' \subseteq Pointing(s)
  BY <1>1, <1>2 DEF Pointing
<1>4. Queues(t)' => Pointing(s)' \subseteq Pointing(s) \ {TopOf(t)}
  <2> SUFFICES ASSUME Queues(t)', NEW y \in Pointing(s)'
               PROVE  y # TopOf(t)
    BY <1>3
  <2>1. ~Queues(y[1])'
    BY DEF Pointing
  <2>2. TopOf(t)[1] = t
    BY DEF TopOf
  <2> QED
    BY <2>1, <2>2
<1>5. Carrying(s)' = Carrying(s)
  BY <1>1 DEF Carrying
<1>6. Parents(s)' = Parents(s)
  BY DEF Parents
<1> QED
  BY <1>3, <1>4, <1>5, <1>6

\* The exit goes on: its thread keeps the process object, then drops the
\* reference of its call.
LEMMA ExitGoesTally ==
  ASSUME Inv, NEW t \in Threads, ExitQuery(t) \/ ExitLog(t)
  PROVE  LET a == Top(t).seq IN
         /\ a # 0
         /\ \E z : Tally(0, z)
         /\ \A r \in Seqs : r # a => entry'[r].exit = entry[r].exit
<1>1. PICK a : a = Top(t).seq
  OBVIOUS
<1>2. PICK w \in {"log", "queue"} :
        /\ op' = [op EXCEPT ![t].step = w]
        /\ ExitQuery(t) => w = "log"
        /\ ExitLog(t) => w = "queue"
  <2>1. ExitQuery(t) => op[t].step = "ref"
    BY DEF ExitQuery, Returned
  <2>2. ExitLog(t) => op[t].step = "log"
    BY DEF ExitLog, Returned
  <2> QED
    BY <2>1, <2>2 DEF ExitQuery, ExitLog
<1>3. /\ op[t].kind = "exit" /\ op[t].step # "queue" /\ Len(stack[t]) = 1
      /\ stack' = stack /\ UNCHANGED osvars
      /\ Returned(t, {"exit"}, op[t].step)
  BY DEF ExitQuery, ExitLog, Returned
<1>4. stack[t] # << >> /\ ~Queues(t) /\ Top(t) = stack[t][1] /\ a \in Known \union {0}
  BY <1>1, <1>3, AtReturn DEF Queues
<1>5. a # 0
  <2>1. CASE ExitQuery(t)
    BY <1>1, <2>1 DEF ExitQuery
  <2>2. CASE ExitLog(t)
    <3>1. op[t].step # "ref"
      BY <2>2 DEF ExitLog, Returned
    <3> QED
      BY <1>1, <1>3, <1>4, <3>1 DEF Inv, ListInv, OpsOK
  <2> QED
    BY <2>1, <2>2
<1>6. a \in Seqs
  BY <1>4, <1>5 DEF Known
<1>8. PICK z : /\ z = IF w = "queue" THEN a ELSE 0
               /\ Recount(0, z) /\ FullKept
               /\ \A r \in Seqs : r # a => entry'[r].exit = entry[r].exit
  <2>1. CASE ExitQuery(t)
    <3>1. CASE entry' = entry
      BY <1>2, <2>1, <3>1, SameCounts
    <3>2. CASE entry' = With(a, [entry[a] EXCEPT !.exit = "held"])
      <4>1. /\ Recount(0, 0) /\ FullKept
            /\ \A r \in Seqs : r # a => entry'[r] = entry[r]
        BY <1>6, <3>2, ExitCounts
      <4> QED
        BY <1>2, <2>1, <4>1
    <3> QED
      BY <1>1, <2>1, <3>1, <3>2 DEF ExitQuery
  <2>2. CASE ExitLog(t)
    <3>1. Deref(t, a)
      BY <1>1, <2>2 DEF ExitLog
    <3>2. Recount(0, a) /\ FullKept /\ ExitKept
      BY <1>4, <3>1, DerefCounts
    <3> QED
      BY <1>2, <2>2, <3>2 DEF ExitKept
  <2> QED
    BY <2>1, <2>2
<1>9. /\ \A u \in Threads : u # t => op'[u] = op[u]
      /\ op'[t] = [op[t] EXCEPT !.step = w]
      /\ op'[t].kind = op[t].kind /\ op'[t].pid = op[t].pid
      /\ op'[t].about = op[t].about /\ op'[t].parent = op[t].parent
      /\ op'[t].step = w
  <2>1. op \in [Threads -> OpType] /\ op[t] \in OpType
    BY DEF Inv, TypeInv, DriverTyped
  <2>2. /\ \A u \in Threads : u # t => op'[u] = op[u]
        /\ op'[t] = [op[t] EXCEPT !.step = w]
    BY <1>2, <2>1
  <2> QED
    BY <2>1, <2>2 DEF OpType
<1>14. ASSUME NEW s \in Seqs
       PROVE  Grow(s, (IF s = 0 THEN 1 ELSE 0) - (IF s = z THEN 1 ELSE 0))
  <2>1. s # 0
    BY SeqsBounded DEF Inv
  <2>2. ~Queues(t) /\ (Queues(t)' <=> w = "queue")
    BY <1>3, <1>4, <1>9 DEF Queues
  <2>3. /\ Pointing(s)' \subseteq Pointing(s)
        /\ w = "queue" => Pointing(s)' \subseteq Pointing(s) \ {TopOf(t)}
        /\ Carrying(s)' = Carrying(s)
        /\ Parents(s)' = Parents(s)
    BY <1>3, <1>9, <2>2, StillHolds
  <2>4. ParkedAt(s)' = ParkedAt(s)
    BY <1>8, ParkedKept, RecountKeeps
  <2>5. CASE s = z
    <3>1. w = "queue" /\ s = a
      BY <1>8, <2>1, <2>5
    <3>2. TopOf(t) \in Pointing(s)
      BY <1>1, <1>4, <1>5, <3>1, TopPlace
    <3>3. <<"call", TopOf(t)>> \in Holders(s)
      BY <3>2 DEF Holders
    <3>4. Holders(s)' \subseteq Holders(s) \ {<<"call", TopOf(t)>>}
      BY <2>3, <2>4, <3>1 DEF Holders
    <3>5. Grow(s, -1)
      BY <3>3, <3>4, HoldersLose DEF Inv
    <3> QED
      BY <2>1, <2>5, <3>5
  <2>6. CASE s # z
    <3>1. Holders(s)' \subseteq Holders(s)
      BY <2>3, <2>4 DEF Holders
    <3>2. Grow(s, 0)
      BY <3>1, HoldersKept DEF Inv
    <3> QED
      BY <2>1, <2>6, <3>2
  <2> QED
    BY <2>5, <2>6
<1> QED
  BY <1>1, <1>5, <1>8, <1>14 DEF Tally

\* The call an operation made itself, and the process it is for: the new one,
\* once the creation gets to it.
Base(t) == stack[t][1]
ForChild(t) ==
  op[t].kind = "thread" \/ (op[t].kind = "create" /\ op[t].step = "child")
Subject(t) == IF ForChild(t) THEN op[t].about ELSE op[t].pid

\* An operation runs in a live process; a process is created, or exits, in one
\* thread.
OpsRun ==
  \A t \in Threads :
    /\ op[t].kind # "idle" =>
         /\ Base(t).pid = Subject(t)
         /\ status[op[t].pid] = IF op[t].kind = "exit" THEN "exiting" ELSE "alive"
    /\ Creating(t) => status[op[t].about] = "born"
    /\ op[t].parent # 0 => op[t].kind = "create" /\ op[t].step = "child"
    /\ \A u \in Threads :
         /\ op[t].kind = "exit" /\ op[u].kind = "exit" /\ op[u].pid = op[t].pid => u = t
         /\ Creating(t) /\ Creating(u) /\ op[u].about = op[t].about => u = t

Unused == \A p \in Pids : status[p] = "free" <=> life[p] = 0

\* The call that waits for its parent, or was just returned to, has the mutex
\* of the log, and the call for the parent writes nothing.
LockOK ==
  \A t \in Threads : \A i \in 1 .. Len(stack[t]) :
    stack[t][i].pc \in {"parent", "release"} => logLock = t
NestOK ==
  \A t \in Threads :
    /\ Len(stack[t]) <= 2
    /\ Len(stack[t]) = 2 => stack[t][2].pc \notin {"parent", "release", "start"}

\* The call for the parent waits for the mutex that its own thread holds.
Stuck == \E t \in Threads : Len(stack[t]) = 2 /\ stack[t][2].pc = "log"

\* The entry of a process that has not ended, the first of its identifier, is
\* held by the list in addition to what points to it.
Current(s) ==
  entry[s].listed /\ life[entry[s].pid] <= 1 /\ status[entry[s].pid] # "gone"
HeldOK == \A s \in Seqs : Current(s) => entry[s].refs >= Cardinality(Holders(s)) + 1

\* A process created while monitoring is on, under an identifier not used before,
\* for which nothing failed.
Fresh(p) == p \notin Started \union failed /\ life[p] <= 1
NoInit ==
  \A s \in Seqs : ~entry[s].freed /\ Fresh(entry[s].pid) =>
    \A i \in 1 .. Len(table[s]) : table[s][i] # "init"

\* Before its details are parked a new process is not described; once it runs
\* it has been.
Early(p) ==
  status[p] = "free" \/ \E t \in Threads : op[t].kind = "create" /\ op[t].about = p
EntryFresh(p) ==
  /\ Early(p) => \A s \in Listed(p) : entry[s].full = {}
  /\ status[p] \in {"alive", "exiting"} =>
       \E s \in Listed(p) : entry[s].init /\ entry[s].full = {}

\* In between, the call of its initial thread describes it with the details,
\* or finds that another has.
Describes(f, e) ==
  \/ f.pc \in {"find", "check"} /\ (e.full # {} \/ e.init)
  \/ f.pc = "fill" /\ e.full # {}
  \/ f.pc = "query" /\ e.full # {} /\ e.init
  \/ f.pc \in TakenPcs /\ f.full # {} /\ e.full = {} /\ e.init
  \/ f.pc \in {"start", "return"} /\ e.full = {} /\ e.init
BornCall(f, p) ==
  \E s \in Listed(p) : (f.pc # "find" => f.seq = s) /\ Describes(f, entry[s])
ChildCall(f, p) ==
  /\ ~f.sync
  /\ f.pc \in {"find", "insert", "check", "return"}
  /\ f.pc \in {"check", "return"} => f.seq \in Listed(p)
RunningCall(f, p) ==
  /\ f.pc \in {"find", "check", "return"}
  /\ f.pc = "check" => f.seq \in Listed(p)
CallFresh(t) ==
  IF op[t].kind = "thread" THEN BornCall(Base(t), op[t].about)
  ELSE IF op[t].kind = "create" /\ op[t].step = "child" THEN ChildCall(Base(t), op[t].about)
  ELSE RunningCall(Base(t), op[t].pid)
EntriesFresh == \A p \in Pids : Fresh(p) => EntryFresh(p)
CallsFresh == \A t \in Threads : op[t].kind # "idle" /\ Fresh(Subject(t)) => CallFresh(t)
FreshOK == EntriesFresh /\ CallsFresh

StartInv == OpsRun /\ Unused /\ LockOK /\ NestOK /\ HeldOK /\ NoInit /\ (Stuck \/ FreshOK)

\* What failed is remembered: a step makes no process fresh, and one stays so
\* unless something fails for it.
FailedKept == failed \subseteq failed'
Remains(p) == Fresh(p) /\ p \notin failed'

-----------------------------------------------------------------------------
(* The mutex of the log and the call for the parent.                       *)

\* Any step of thread t, which leaves the mutex to the threads that had it.
LEMMA NestStep ==
  ASSUME Inv, LockOK, NestOK, NEW t \in Threads, NEW n, NEW S \in Seq(FrameType),
         Restacked(t, n, S), n + Len(S) <= 2,
         \A k \in 1 .. Len(S) :
           /\ S[k].pc \in {"parent", "release"} => logLock' = t
           /\ n + k = 2 => S[k].pc \notin {"parent", "release", "start"},
         \A u \in Threads : \A i \in 1 .. Len(stack[u]) :
           stack[u][i].pc \in {"parent", "release"} /\ (u = t => i <= n) => logLock' = u
  PROVE  LockOK' /\ NestOK'
<1>1. StacksTyped
  BY DEF Inv, TypeInv
<1>2. /\ n \in Nat /\ Len(S) \in Nat
      /\ \A u \in Threads : Len(stack[u]) \in Nat
  BY <1>1, LenProperties DEF Restacked, StacksTyped
<1>3. LockOK'
  <2> SUFFICES ASSUME NEW u \in Threads, NEW i \in 1 .. Len(stack'[u]),
                      stack'[u][i].pc \in {"parent", "release"}
               PROVE  logLock' = u
    BY DEF LockOK
  <2>1. CASE /\ i \in 1 .. Len(stack[u])
             /\ stack'[u][i] = stack[u][i]
             /\ u = t => i <= n
    BY <2>1
  <2>2. CASE u = t /\ \E k \in 1 .. Len(S) : i = n + k /\ stack'[u][i] = S[k]
    BY <2>2
  <2> QED
    BY <1>1, <2>1, <2>2, FrameOfStep
<1>4. ASSUME NEW u \in Threads, u # t
      PROVE  stack'[u] = stack[u]
  BY <1>4 DEF Restacked
<1>5. Len(stack'[t]) <= 2
  BY DEF Restacked
<1>6. ASSUME Len(stack'[t]) = 2
      PROVE  stack'[t][2].pc \notin {"parent", "release", "start"}
  <2>1. n + Len(S) = 2
    BY <1>6 DEF Restacked
  <2>2. CASE n = 2
    <3>1. Len(S) = 0
      BY <1>2, <2>1, <2>2
    <3> QED
      BY <1>2, <2>2, <3>1, EmptySeq DEF Restacked
  <2>3. CASE n < 2
    <3>1. Len(S) \in 1 .. Len(S) /\ n + Len(S) = 2
      BY <1>2, <2>1, <2>3
    <3>2. stack'[t][n + Len(S)] = S[Len(S)]
      BY <3>1 DEF Restacked
    <3> QED
      BY <3>1, <3>2
  <2> QED
    BY <1>2, <2>1, <2>2, <2>3
<1>7. NestOK'
  BY <1>4, <1>5, <1>6 DEF NestOK
<1> QED
  BY <1>3, <1>7

\* A thread that waits for the mutex in vain does not step.
LEMMA StuckStep ==
  ASSUME Stuck, NEW t \in Threads,
         \A u \in Threads : u # t => stack'[u] = stack[u],
         ~(Len(stack[t]) = 2 /\ stack[t][2].pc = "log")
  PROVE  Stuck'
BY DEF Stuck

\* The calls that operations made, and the top, over a change of the top.
LEMMA TopBase ==
  ASSUME Inv, NEW t \in Threads, stack[t] # << >>, NEW g \in FrameType, SetTop(t, g)
  PROVE  /\ Len(stack[t]) \in Nat \ {0}
         /\ Restacked(t, Len(stack[t]) - 1, <<g>>)
         /\ \A u \in Threads : u # t => stack'[u] = stack[u]
         /\ Len(stack'[t]) = Len(stack[t])
         /\ stack'[t][Len(stack[t])] = g
         /\ Base(t)' = IF Len(stack[t]) = 1 THEN g ELSE Base(t)
<1>1. Restacked(t, Len(stack[t]) - 1, <<g>>)
  BY Topped DEF Inv, TypeInv
<1>2. Len(stack[t]) \in Nat \ {0} /\ Len(<<g>>) = 1 /\ <<g>>[1] = g
  BY EmptySeq DEF Inv, TypeInv, StacksTyped
<1>3. /\ \A u \in Threads : u # t => stack'[u] = stack[u]
      /\ Len(stack'[t]) = Len(stack[t]) - 1 + 1
      /\ \A i \in 1 .. Len(stack[t]) - 1 : stack'[t][i] = stack[t][i]
      /\ \A i \in 1 .. 1 : stack'[t][Len(stack[t]) - 1 + i] = <<g>>[i]
  BY <1>1, <1>2 DEF Restacked
<1>4. stack'[t][Len(stack[t])] = g
  <2>1. stack'[t][Len(stack[t]) - 1 + 1] = g
    BY <1>2, <1>3
  <2> QED
    BY <1>2, <2>1
<1>5. CASE Len(stack[t]) = 1
  BY <1>1, <1>2, <1>3, <1>4, <1>5 DEF Base
<1>6. CASE Len(stack[t]) # 1
  <2> DEFINE m == Len(stack[t])
  <2>2. m \in Nat \ {0} /\ m # 1
    BY <1>2, <1>6
  <2> HIDE DEF m
  <2>3. 1 \in 1 .. m - 1
    BY <2>2
  <2>1. 1 \in 1 .. Len(stack[t]) - 1
    BY <2>3 DEF m
  <2> QED
    BY <1>1, <1>2, <1>3, <1>4, <1>6, <2>1 DEF Base
<1> QED
  BY <1>5, <1>6

-----------------------------------------------------------------------------
(* What a call does to its place, to the entry and to the mutex.           *)

\* An entry after a step that is, to the processes, what it was.
Like(e, d) ==
  e.pid = d.pid /\ e.listed = d.listed /\ e.full = d.full /\ (d.init => e.init)

\* The top of the stack is replaced by g, a later state of the same call.
Moves(t, x, g) ==
  /\ stack[t] # << >> /\ Top(t) \in FrameType /\ Top(t).pc = x
  /\ Top(t) = stack[t][Len(stack[t])]
  /\ SetTop(t, g) /\ g.pid = Top(t).pid /\ g.sync = Top(t).sync
  /\ UNCHANGED <<osvars, op>>

LEMMA WithLike ==
  ASSUME Inv, NEW s \in Seqs, NEW e \in EntryType, Like(e, entry[s]),
         entry' = With(s, e)
  PROVE  Seqs' = Seqs /\ \A r \in Seqs : Like(entry'[r], entry[r])
<1>1. /\ Len(entry') = Len(entry) /\ entry'[s] = e
      /\ \A r \in Seqs : r # s => entry'[r] = entry[r]
  BY WithDoes DEF Inv, TypeInv
<1> QED
  BY <1>1 DEF Seqs, Like

LEMMA SameLike ==
  ASSUME entry' = entry
  PROVE  Seqs' = Seqs /\ \A r \in Seqs : Like(entry'[r], entry[r])
BY DEF Seqs, Like

LEMMA DerefLike ==
  ASSUME Inv, NEW t \in Threads, NEW s \in Known \union {0}, Deref(t, s)
  PROVE  Seqs' = Seqs /\ \A r \in Seqs : Like(entry'[r], entry[r])
<1>1. /\ Len(entry') = Len(entry)
      /\ \A r \in Seqs : entry'[r] = IF r = s THEN Less(entry[r]) ELSE entry[r]
  <2>1. s \in Seqs \union {0} /\ entry \in Seq(EntryType)
    BY DEF Known, Inv, TypeInv, DriverTyped
  <2> QED
    BY <2>1, DerefsDoes DEF Deref, Inv, TypeInv
<1>2. \A r \in Seqs : Like(Less(entry[r]), entry[r])
  BY EntryTyped, CountFields DEF Inv, TypeInv, Like
<1>3. \A r \in Seqs : Like(entry[r], entry[r])
  BY DEF Like
<1> QED
  BY <1>1, <1>2, <1>3 DEF Seqs

LEMMA FindMoves ==
  ASSUME Inv, NEW t \in Threads, Finds(t)
  PROVE  /\ \E g \in FrameType :
              /\ Moves(t, "find", g)
              /\ \/ g.pc = "check" /\ g.seq \in Listed(g.pid)
                 \/ g.pc = "insert" /\ Listed(g.pid) = {}
                 \/ g.pc = "return" /\ ~Find(t)
         /\ UNCHANGED <<logLock, table>>
         /\ \A s \in Seqs : s \in Seqs' /\ Like(entry'[s], entry[s])
         /\ \A s \in Seqs' \ Seqs : ~entry'[s].listed
<1> DEFINE f == Top(t)
           p == f.pid
<1>1. /\ stack[t] # << >> /\ f \in FrameType /\ f.pc = "find" /\ p \in Pids
      /\ f = stack[t][Len(stack[t])]
  BY AtTop DEF Finds, Find, FindFails, FrameType
<1>2. UNCHANGED <<osvars, op>> /\ UNCHANGED <<logLock, table>>
  BY DEF Finds, Find, FindFails, uservars
<1>3. {"check", "insert"} \subseteq PCs
  BY DEF PCs
<1>4. CASE Listed(p) # {} /\ entry' = With(Found(p), Held(entry[Found(p)]))
             /\ SetTop(t, [f EXCEPT !.pc = "check", !.seq = Found(p)])
  <2> DEFINE s == Found(p)
             g == [f EXCEPT !.pc = "check", !.seq = s]
  <2>1. s \in Listed(p) /\ s \in Seqs /\ s \in Nat
    BY <1>4, FoundIsListed, EntryTyped DEF Inv, TypeInv
  <2>2. SetTop(t, g) /\ entry' = With(s, Held(entry[s]))
    BY <1>4
  <2> HIDE DEF s, f
  <2>3. /\ g \in FrameType /\ g.pc = "check" /\ g.pid = p /\ g.seq = s
        /\ g.sync = f.sync
    BY <1>1, <1>3, <2>1 DEF FrameType
  <2> HIDE DEF g
  <2>4. Held(entry[s]) \in EntryType /\ Like(Held(entry[s]), entry[s])
    BY <2>1, EntryTyped, CountFields DEF Inv, TypeInv, Like
  <2>5. Seqs' = Seqs /\ \A r \in Seqs : Like(entry'[r], entry[r])
    BY <2>1, <2>2, <2>4, WithLike
  <2> QED
    BY <1>1, <1>2, <2>1, <2>2, <2>3, <2>5 DEF f, Moves
<1>5. CASE /\ Listed(p) = {}
           /\ Len(entry) < MaxSeq
           /\ entry' = Append(entry, NewEntry(p))
           /\ SetTop(t, [f EXCEPT !.pc = "insert", !.mine = Len(entry) + 1])
  <2> DEFINE m == Len(entry) + 1
             g == [f EXCEPT !.pc = "insert", !.mine = m]
  <2>1. entry \in Seq(EntryType) /\ Len(entry) \in Nat /\ m \in Nat
    BY LenProperties DEF Inv, TypeInv, DriverTyped
  <2>2. NewEntry(p) \in EntryType /\ ~NewEntry(p).listed
    BY <1>1, NewEntryFields DEF Inv
  <2>3. /\ Len(entry') = m
        /\ \A s \in Seqs : entry'[s] = entry[s]
        /\ entry'[m] = NewEntry(p)
    BY <1>5, <2>1, <2>2, AppendProperties DEF Seqs
  <2>4. /\ \A s \in Seqs : s \in Seqs' /\ Like(entry'[s], entry[s])
        /\ \A s \in Seqs' \ Seqs : s = m
    BY <2>1, <2>3 DEF Seqs, Like
  <2>5. SetTop(t, g)
    BY <1>5
  <2> HIDE DEF m, f
  <2>6. /\ g \in FrameType /\ g.pc = "insert" /\ g.pid = p /\ g.sync = f.sync
    BY <1>1, <1>3, <2>1 DEF FrameType
  <2> HIDE DEF g
  <2> QED
    BY <1>1, <1>2, <1>5, <2>2, <2>3, <2>4, <2>5, <2>6 DEF f, Moves
<1>6. CASE FindFails(t) /\ ~Find(t)
  <2> DEFINE g == [f EXCEPT !.pc = "return"]
  <2>1. SetTop(t, g) /\ entry' = entry
    BY <1>6 DEF FindFails, Goto
  <2>2. Seqs' = Seqs /\ \A r \in Seqs : Like(entry'[r], entry[r])
    BY <2>1, SameLike
  <2> HIDE DEF f
  <2>3. g \in FrameType /\ g.pc = "return" /\ g.pid = f.pid /\ g.sync = f.sync
    BY <1>1, PcFields DEF PCs
  <2> HIDE DEF g
  <2> QED
    BY <1>1, <1>2, <1>6, <2>1, <2>2, <2>3 DEF f, Moves
<1> QED
  BY <1>4, <1>5, <1>6 DEF Finds, Find

LEMMA CheckMoves ==
  ASSUME Inv, NEW t \in Threads, Check(t)
  PROVE  /\ \E g \in FrameType :
              /\ Moves(t, "check", g) /\ g.seq = Top(t).seq
              /\ g.pc = IF entry[g.seq].full # {} \/ (g.sync /\ ~entry[g.seq].init)
                        THEN "fill" ELSE "return"
         /\ UNCHANGED <<logLock, table, entry>>
<1> DEFINE f == Top(t)
           x == IF entry[f.seq].full # {} \/ (f.sync /\ ~entry[f.seq].init)
                THEN "fill" ELSE "return"
           g == [f EXCEPT !.pc = x]
<1>1. /\ stack[t] # << >> /\ f \in FrameType /\ f.pc = "check"
      /\ f = stack[t][Len(stack[t])]
  BY AtTop DEF Check
<1>2. SetTop(t, g)
  BY DEF Check, Goto
<1>3. x \in PCs
  BY DEF PCs
<1> HIDE DEF x
<1>4. g \in FrameType /\ g.pc = x /\ g.pid = f.pid /\ g.sync = f.sync /\ g.seq = f.seq
  BY <1>1, <1>3, PcFields
<1>5. UNCHANGED <<osvars, op>> /\ UNCHANGED <<logLock, table, entry>>
  BY DEF Check, uservars
<1> HIDE DEF g
<1> QED
  BY <1>1, <1>2, <1>4, <1>5 DEF Moves, x

LEMMA StartMoves ==
  ASSUME Inv, NEW t \in Threads, FillStart(t)
  PROVE  /\ \E g \in FrameType :
              Moves(t, "fill", g) /\ g.seq = Top(t).seq /\ g.pc = "query"
         /\ Top(t).seq \in Seqs /\ entry'[Top(t).seq].init
         /\ UNCHANGED <<logLock, table>>
         /\ Seqs' = Seqs
         /\ \A s \in Seqs : Like(entry'[s], entry[s])
<1> DEFINE f == Top(t)
           g == [f EXCEPT !.pc = "query"]
           e == [entry[f.seq] EXCEPT !.init = TRUE]
<1>1. /\ stack[t] # << >> /\ f \in FrameType /\ f.pc = "fill" /\ f.seq \in Seqs
      /\ f = stack[t][Len(stack[t])]
  BY AtTop DEF FillStart
<1>2. SetTop(t, g) /\ entry' = With(f.seq, e)
  BY DEF FillStart, Goto
<1>3. g \in FrameType /\ g.pc = "query" /\ g.pid = f.pid /\ g.sync = f.sync /\ g.seq = f.seq
  BY <1>1, PcFields DEF PCs
<1>4. e \in EntryType /\ e.init /\ Like(e, entry[f.seq])
  <2>1. entry[f.seq] \in EntryType
    BY <1>1, EntryTyped DEF Inv, TypeInv
  <2> QED
    BY <2>1 DEF EntryType, Like
<1>5. UNCHANGED <<osvars, op>> /\ UNCHANGED <<logLock, table>>
  BY DEF FillStart, uservars
<1> HIDE DEF g, e
<1>6. Seqs' = Seqs /\ \A r \in Seqs : Like(entry'[r], entry[r])
  BY <1>1, <1>2, <1>4, WithLike
<1>7. entry'[f.seq].init
  BY <1>1, <1>2, <1>4, WithDoes DEF Inv, TypeInv
<1> QED
  BY <1>1, <1>2, <1>3, <1>5, <1>6, <1>7 DEF Moves

LEMMA FailMoves ==
  ASSUME Inv, NEW t \in Threads, FillFails(t)
  PROVE  /\ \E g \in FrameType :
              Moves(t, "query", g) /\ g.seq = Top(t).seq /\ g.pc \in {"check", "return"}
         /\ Top(t).seq \in Seqs
         /\ UNCHANGED <<logLock, table>>
         /\ Seqs' = Seqs
         /\ \A s \in Seqs : s # Top(t).seq => entry'[s] = entry[s]
         /\ entry'[Top(t).seq].pid = entry[Top(t).seq].pid
         /\ entry'[Top(t).seq].listed = entry[Top(t).seq].listed
         /\ entry'[Top(t).seq].full = entry[Top(t).seq].full
<1> DEFINE f == Top(t)
           g == Filled(f)
           e == [entry[f.seq] EXCEPT !.init = FALSE]
<1>1. /\ stack[t] # << >> /\ f \in FrameType /\ f.pc = "query" /\ f.seq \in Seqs
      /\ f = stack[t][Len(stack[t])]
  BY AtTop DEF FillFails
<1>2. SetTop(t, g) /\ entry' = With(f.seq, e)
  BY DEF FillFails
<1>3. /\ g \in FrameType /\ g.pc \in {"check", "return"} /\ g.pid = f.pid
      /\ g.sync = f.sync /\ g.seq = f.seq
  BY <1>1, FilledFields
<1>4. /\ e \in EntryType /\ e.pid = entry[f.seq].pid
      /\ e.listed = entry[f.seq].listed /\ e.full = entry[f.seq].full
  <2>1. entry[f.seq] \in EntryType
    BY <1>1, EntryTyped DEF Inv, TypeInv
  <2> QED
    BY <2>1 DEF EntryType
<1>5. UNCHANGED <<osvars, op>> /\ UNCHANGED <<logLock, table>>
  BY DEF FillFails, uservars
<1> HIDE DEF g, e
<1>7. /\ Len(entry') = Len(entry) /\ entry'[f.seq] = e
      /\ \A r \in Seqs : r # f.seq => entry'[r] = entry[r]
  BY <1>1, <1>2, <1>4, WithDoes DEF Inv, TypeInv
<1>8. Seqs' = Seqs
  BY <1>7 DEF Seqs
<1> QED
  BY <1>1, <1>2, <1>3, <1>4, <1>5, <1>7, <1>8 DEF Moves

LEMMA InsertMoves ==
  ASSUME Inv, NEW t \in Threads, Insert(t)
  PROVE  LET m == Top(t).mine IN
         /\ \E g \in FrameType :
              /\ Moves(t, "insert", g)
              /\ g.seq \in Seqs /\ entry'[g.seq].listed /\ entry'[g.seq].pid = g.pid
              /\ IF Listed(g.pid) = {} THEN g.seq = m
                 ELSE g.seq \in Listed(g.pid) /\ ~entry'[m].listed
              /\ g.pc \in {"check", "fill"}
              /\ g.pc = "fill" => g.sync
         /\ UNCHANGED <<logLock, table>>
         /\ m \in Seqs \ Known /\ Seqs' = Seqs
         /\ entry'[m].full = {}
         /\ entry'[m].listed => entry'[m].pid = entry[m].pid /\ ~entry'[m].freed
                                /\ entry[m].pid = Top(t).pid
         /\ \A s \in Seqs : s # m => Like(entry'[s], entry[s])
<1> DEFINE f == Top(t)
           p == f.pid
           m == f.mine
<1>1. /\ stack[t] # << >> /\ f \in FrameType /\ f.pc = "insert"
      /\ FrameOK(f, Known)
      /\ Len(stack[t]) \in Nat \ {0} /\ f = stack[t][Len(stack[t])]
  BY AtTop DEF Insert
<1>2. /\ m \in Seqs \ Known /\ m \in Nat
      /\ entry[m].pid = p /\ entry[m] \in EntryType
      /\ ~entry[m].listed /\ ~entry[m].freed /\ entry[m].full = {}
  <2>1. Len(stack[t]) \in 1 .. Len(stack[t])
    BY <1>1
  <2>2. m # 0
    BY <1>1 DEF FrameOK
  <2>3. m \in Seqs \ Known /\ entry[m].pid = p
    BY <1>1, <2>1, <2>2 DEF Inv, ListInv, MineOK
  <2> QED
    BY <1>1, <2>2, <2>3, EntryTyped DEF Inv, TypeInv, ListInv, EntriesOK, Known
<1>3. UNCHANGED <<osvars, op>> /\ UNCHANGED <<logLock, table>>
  BY SMTT(30) DEF Insert, uservars
<1>4. CASE /\ Listed(p) # {}
           /\ entry' = [s \in Seqs |-> IF s = m THEN Freed
                                       ELSE IF s = Found(p) THEN Held(entry[s])
                                       ELSE entry[s]]
           /\ SetTop(t, [f EXCEPT !.pc = "check", !.seq = Found(p), !.mine = 0])
  <2> DEFINE s == Found(p)
             g == [f EXCEPT !.pc = "check", !.seq = s, !.mine = 0]
  <2>1. s \in Known /\ s \in Seqs /\ s \in Nat /\ s \in Listed(p)
    BY <1>4, FoundIsListed, EntryTyped DEF Inv, TypeInv
  <2>2. SetTop(t, g)
    BY <1>4
  <2>3. entry' = [r \in Seqs |-> IF r = m THEN Freed
                                 ELSE IF r = s THEN Held(entry[r]) ELSE entry[r]]
    BY <1>4
  <2>4. "check" \in PCs
    BY DEF PCs
  <2> HIDE DEF s, f
  <2>5. g \in FrameType /\ g.pc = "check" /\ g.seq = s /\ g.pid = p /\ g.sync = f.sync
    BY <1>1, <2>1, <2>4 DEF FrameType
  <2> HIDE DEF g
  <2>6. \A r \in Seqs : entry'[r] = IF r = m THEN Freed
                                    ELSE IF r = s THEN Held(entry[r]) ELSE entry[r]
    BY <2>3
  <2>7. Seqs' = Seqs
    <3>1. Seqs = 1 .. Len(entry) /\ Len(entry) \in Nat
      BY LenProperties DEF Seqs, Inv, TypeInv, DriverTyped
    <3>2. \A r \in Seqs : entry[r] \in EntryType /\ Held(entry[r]) \in EntryType
      BY EntryTyped, CountFields DEF Inv, TypeInv
    <3>3. entry' \in [Seqs -> EntryType]
      BY <2>3, <3>2, FreedFields
    <3> QED
      BY <3>1, <3>3, FunctionIsSeq DEF Seqs
  <2>8. s # m
    <3>1. s \in Known
      BY <2>1
    <3>2. m \notin Known
      BY <1>2
    <3> QED
      BY <3>1, <3>2
  <2>9. \A r \in Seqs : r # m => Like(entry'[r], entry[r])
    BY <2>6, EntryTyped, CountFields DEF Inv, TypeInv, Like
  <2>10. entry'[s].listed /\ entry'[s].pid = p
    BY <2>1, <2>8, <2>9 DEF Listed, Like
  <2>11. ~entry'[m].listed /\ entry'[m].full = {}
    BY <1>2, <2>6, FreedFields, SMTT(30)
  <2> QED
    BY <1>1, <1>2, <1>3, <1>4, <2>1, <2>2, <2>5, <2>7, <2>9, <2>10, <2>11 DEF f, Moves
<1>5. CASE /\ Listed(p) = {}
           /\ entry' = With(m, [Held(entry[m]) EXCEPT !.listed = TRUE])
           /\ SetTop(t, [f EXCEPT !.pc = IF f.sync THEN "fill" ELSE "check",
                                  !.seq = m, !.mine = 0, !.again = f.sync])
  <2> DEFINE x == IF f.sync THEN "fill" ELSE "check"
             b == f.sync
             h == Held(entry[m])
             e == [h EXCEPT !.listed = TRUE]
             g == [f EXCEPT !.pc = x, !.seq = m, !.mine = 0, !.again = b]
  <2>1. SetTop(t, g) /\ entry' = With(m, e)
    BY <1>5
  <2>2. x \in PCs /\ x \in {"fill", "check"} /\ (x = "fill" => b) /\ b \in BOOLEAN
    BY <1>1 DEF PCs, FrameType
  <2>3. h \in EntryType /\ h.pid = p /\ ~h.freed /\ h.full = {}
    BY <1>2, CountFields
  <2>4. b = f.sync
    OBVIOUS
  <2> HIDE DEF x, b, h
  <2>5. e \in EntryType /\ e.pid = p /\ e.listed /\ ~e.freed /\ e.full = {}
    BY <2>3 DEF EntryType
  <2> HIDE DEF e, m, f
  <2>6. g \in FrameType /\ g.pc = x /\ g.seq = m /\ g.pid = p /\ g.sync = f.sync
    BY <1>1, <1>2, <2>2 DEF FrameType
  <2> HIDE DEF g
  <2>7. /\ Len(entry') = Len(entry)
        /\ entry'[m] = e
        /\ \A r \in Seqs : r # m => entry'[r] = entry[r]
    <3>1. /\ Len(With(m, e)) = Len(entry)
          /\ With(m, e)[m] = e
          /\ \A r \in Seqs : r # m => With(m, e)[r] = entry[r]
      BY <1>2, <2>5, WithDoes DEF Inv, TypeInv
    <3> QED
      BY <2>1, <3>1
  <2>8. Seqs' = Seqs
    BY <2>7 DEF Seqs
  <2>9. entry'[m].listed /\ entry'[m].pid = p
    BY <2>5, <2>7
  <2>10. \A r \in Seqs : r # m => Like(entry'[r], entry[r])
    BY <2>7 DEF Like
  <2> QED
    BY <1>1, <1>2, <1>3, <1>5, <2>1, <2>2, <2>4, <2>5, <2>6, <2>7, <2>8, <2>9, <2>10
       DEF f, m, Moves
<1> QED
  BY <1>4, <1>5 DEF Insert

LEMMA TakeMoves ==
  ASSUME Inv, NEW t \in Threads, FillTake(t)
  PROVE  LET s == Top(t).seq IN
         /\ \E g \in FrameType :
              /\ Moves(t, "query", g) /\ g.seq = s /\ g.pc = "log"
              /\ g.full = entry[s].full
         /\ s \in Seqs /\ Seqs' = Seqs
         /\ UNCHANGED <<logLock, table>>
         /\ \A r \in Seqs : r # s => entry'[r] = entry[r]
         /\ entry'[s].pid = entry[s].pid /\ entry'[s].listed = entry[s].listed
         /\ entry'[s].full = {} /\ entry'[s].init = entry[s].init
<1> DEFINE f == Top(t)
           s == f.seq
           d == entry[s].full
           g == [f EXCEPT !.pc = "log", !.full = d]
           e == [entry[s] EXCEPT !.full = {}]
<1>1. /\ stack[t] # << >> /\ f \in FrameType /\ f.pc = "query" /\ s \in Seqs
      /\ f = stack[t][Len(stack[t])]
  BY AtTop DEF FillTake
<1>2. SetTop(t, g) /\ entry' = With(s, e)
  BY DEF FillTake
<1>3. entry[s] \in EntryType
  BY <1>1, EntryTyped DEF Inv, TypeInv
<1>4. d \in Details /\ "log" \in PCs /\ {} \in Details
  BY <1>3 DEF EntryType, PCs, Details
<1>5. UNCHANGED <<osvars, op>> /\ UNCHANGED <<logLock, table>>
  BY DEF FillTake, uservars
<1> HIDE DEF f, d
<1>6. /\ g \in FrameType /\ g.pc = "log" /\ g.pid = f.pid /\ g.sync = f.sync
      /\ g.seq = f.seq /\ g.full = d
  BY <1>1, <1>4 DEF FrameType
<1> HIDE DEF s
<1>7. /\ e \in EntryType
      /\ e.pid = entry[s].pid /\ e.listed = entry[s].listed
      /\ e.full = {} /\ e.init = entry[s].init
  BY <1>3, <1>4 DEF EntryType
<1> HIDE DEF g, e
<1>8. /\ Len(entry') = Len(entry)
      /\ entry'[s] = e
      /\ \A r \in Seqs : r # s => entry'[r] = entry[r]
  BY <1>1, <1>2, <1>7, WithDoes DEF Inv, TypeInv
<1>9. Seqs' = Seqs
  BY <1>8 DEF Seqs
<1> QED
  BY <1>1, <1>2, <1>5, <1>6, <1>7, <1>8, <1>9 DEF d, s, f, Moves

LEMMA ReleaseMoves ==
  ASSUME Inv, NEW t \in Threads, FillRelease(t)
  PROVE  LET f == Top(t) IN
         /\ \E g \in FrameType :
              /\ Moves(t, "release", g) /\ g.seq = f.seq
              /\ g.pc \in {"start", "check", "return"}
              /\ f.full # {} => g.pc = "start"
         /\ entry' = entry
         /\ f.seq \in Seqs
         /\ logLock' = Free
         /\ table' = Inserted(f.seq, IF f.full = {} THEN "init" ELSE "create")
<1> DEFINE f == Top(t)
<1>1. /\ stack[t] # << >> /\ f \in FrameType /\ f.pc = "release" /\ f.seq \in Seqs
      /\ f = stack[t][Len(stack[t])]
  BY AtTop DEF FillRelease
<1>2. /\ Described(f) \in FrameType /\ Described(f).pc \in {"start", "check", "return"}
      /\ Described(f).pid = f.pid /\ Described(f).seq = f.seq
      /\ Described(f).sync = f.sync
  BY <1>1, DescribedFields
<1>3. f.full # {} => Described(f).pc = "start"
  BY <1>1 DEF Described, FrameType, PCs
<1>4. /\ SetTop(t, Described(f)) /\ entry' = entry /\ logLock' = Free
      /\ UNCHANGED <<osvars, op>>
      /\ table' = Inserted(f.seq, IF f.full = {} THEN "init" ELSE "create")
  BY DEF FillRelease
<1> QED
  BY <1>1, <1>2, <1>3, <1>4 DEF Moves

LEMMA LogStartMoves ==
  ASSUME Inv, NEW t \in Threads, LogStart(t)
  PROVE  /\ \E g \in FrameType :
              Moves(t, "start", g) /\ g.seq = Top(t).seq /\ g.pc \in {"check", "return"}
         /\ UNCHANGED <<logLock, table, entry>>
<1> DEFINE f == Top(t)
<1>1. /\ stack[t] # << >> /\ f \in FrameType /\ f.pc = "start"
      /\ f = stack[t][Len(stack[t])]
  BY AtTop DEF LogStart
<1>2. Filled(f) \in FrameType /\ Filled(f).pc \in {"check", "return"}
      /\ Filled(f).pid = f.pid /\ Filled(f).seq = f.seq /\ Filled(f).sync = f.sync
  BY <1>1, FilledFields
<1>3. SetTop(t, Filled(f)) /\ UNCHANGED <<osvars, op>> /\ UNCHANGED <<logLock, table, entry>>
  BY DEF LogStart
<1> QED
  BY <1>1, <1>2, <1>3 DEF Moves

LEMMA StackHeight ==
  ASSUME Inv, NestOK, NEW t \in Threads, stack[t] # << >>
  PROVE  /\ Len(stack[t]) \in {1, 2}
         /\ Len(stack[t]) > 1 => Len(stack[t]) = 2
<1> DEFINE n == Len(stack[t])
<1>1. n \in Nat \ {0} /\ n <= 2
  BY EmptySeq DEF NestOK, Inv, TypeInv, StacksTyped
<1> HIDE DEF n
<1>2. n \in {1, 2} /\ (n > 1 => n = 2)
  BY <1>1
<1> QED
  BY <1>2 DEF n

\* A refused record: the process is to be described again.
LEMMA RefusedMoves ==
  ASSUME Inv, NEW t \in Threads, FillRefused(t)
  PROVE  /\ \E g \in FrameType :
              /\ Moves(t, "log", g) /\ g.seq = Top(t).seq
              /\ g.pc \in {"start", "check", "return"}
         /\ Top(t).seq \in Seqs
         /\ logLock = Free /\ UNCHANGED <<logLock, table>>
         /\ Seqs' = Seqs
         /\ \A s \in Seqs : s # Top(t).seq => Like(entry'[s], entry[s])
         /\ entry'[Top(t).seq].pid = entry[Top(t).seq].pid
         /\ entry'[Top(t).seq].listed = entry[Top(t).seq].listed
         /\ entry'[Top(t).seq].full = entry[Top(t).seq].full
<1> DEFINE f == Top(t)
           g == Described(f)
           e == [entry[f.seq] EXCEPT !.init = FALSE]
           p == ParentOf(f.full)
           ents == With(f.seq, e)
<1>1. /\ stack[t] # << >> /\ f \in FrameType /\ f.pc = "log" /\ f.seq \in Seqs
      /\ f = stack[t][Len(stack[t])] /\ FrameOK(f, Known)
  BY AtTop DEF FillRefused
<1>2. SetTop(t, g) /\ Derefs(t, p, ents)
  BY DEF FillRefused
<1>3. /\ g \in FrameType /\ g.pc \in {"start", "check", "return"} /\ g.pid = f.pid
      /\ g.sync = f.sync /\ g.seq = f.seq
  BY <1>1, DescribedFields
<1>4. /\ e \in EntryType /\ e.pid = entry[f.seq].pid
      /\ e.listed = entry[f.seq].listed /\ e.full = entry[f.seq].full
  <2>1. entry[f.seq] \in EntryType
    BY <1>1, EntryTyped DEF Inv, TypeInv
  <2> QED
    BY <2>1 DEF EntryType
<1>5. UNCHANGED <<osvars, op>> /\ logLock = Free /\ UNCHANGED <<logLock, table>>
  BY DEF FillRefused, uservars
<1>6. p \in Seqs \union {0}
  BY <1>1, ParentKnown DEF FrameOK, Known
<1> HIDE DEF g, e, p
<1>7. /\ ents \in Seq(EntryType) /\ Len(ents) = Len(entry) /\ ents[f.seq] = e
      /\ \A r \in Seqs : r # f.seq => ents[r] = entry[r]
  BY <1>1, <1>4, WithDoes DEF Inv, TypeInv
<1> HIDE DEF ents
<1>8. /\ Len(entry') = Len(entry)
      /\ \A r \in Seqs : entry'[r] = IF r = p THEN Less(ents[r]) ELSE ents[r]
  BY <1>2, <1>6, <1>7, DerefsDoes DEF Inv, TypeInv
<1>9. \A r \in Seqs : Like(entry'[r], ents[r])
  <2>1. \A r \in Seqs : ents[r] \in EntryType
    BY <1>7, ElementOfSeq DEF Seqs
  <2>2. \A r \in Seqs : Like(Less(ents[r]), ents[r])
    BY <2>1, CountFields DEF Like
  <2>3. \A r \in Seqs : Like(ents[r], ents[r])
    BY DEF Like
  <2> QED
    BY <1>8, <2>2, <2>3
<1>10. Seqs' = Seqs
  BY <1>8 DEF Seqs
<1>11. \A r \in Seqs : r # f.seq => Like(entry'[r], entry[r])
  BY <1>7, <1>9
<1>12. /\ entry'[f.seq].pid = entry[f.seq].pid
       /\ entry'[f.seq].listed = entry[f.seq].listed
       /\ entry'[f.seq].full = entry[f.seq].full
  BY <1>1, <1>4, <1>7, <1>9 DEF Like
<1> QED
  BY <1>1, <1>2, <1>3, <1>5, <1>10, <1>11, <1>12 DEF Moves

\* Nobody reaches the log from the call for the parent.
LEMMA LogHeight ==
  ASSUME Inv, LockOK, NestOK, NEW t \in Threads, stack[t] # << >>, logLock = Free
  PROVE  Len(stack[t]) = 1
<1>1. Len(stack[t]) \in {1, 2}
  BY StackHeight
<1>2. CASE Len(stack[t]) = 2
  <2>1. 1 \in 1 .. Len(stack[t]) /\ 1 < Len(stack[t])
    BY <1>2
  <2>2. stack[t][1].pc = "parent"
    BY <2>1 DEF Inv, ListInv, FramesOK
  <2>3. logLock = t
    BY <2>1, <2>2 DEF LockOK
  <2> QED
    BY <2>3, ProcessAssumption
<1> QED
  BY <1>1, <1>2

\* FillLog and FillParent, which change the height of the stack.
LEMMA LogMoves ==
  ASSUME Inv, LockOK, NestOK, NEW t \in Threads, FillLog(t)
  PROVE  /\ logLock = Free /\ logLock' = t
         /\ Len(stack[t]) = 1
         /\ Base(t).pc = "log" /\ Base(t).seq \in Seqs
         /\ \E g, c \in FrameType :
              /\ Restacked(t, 0, <<g, c>>) /\ Base(t)' = g
              /\ g.pid = Base(t).pid /\ g.sync = Base(t).sync /\ g.seq = Base(t).seq
              /\ g.full = Base(t).full /\ g.pc = "parent" /\ c.pc = "find"
         /\ UNCHANGED <<osvars, op>> /\ table' = table
         /\ Seqs' = Seqs /\ \A s \in Seqs : Like(entry'[s], entry[s])
<1> DEFINE f == Top(t)
           g == [f EXCEPT !.pc = "parent"]
           c == Call(inherited[f.pid], FALSE)
           p == ParentOf(f.full)
<1>1. /\ stack[t] # << >> /\ f \in FrameType /\ f.pc = "log"
      /\ FrameOK(f, Known) /\ f.seq \in Seqs
      /\ Len(stack[t]) \in Nat \ {0} /\ f = stack[t][Len(stack[t])]
  BY AtTop DEF FillLog
<1>2. /\ logLock = Free /\ logLock' = t
      /\ UNCHANGED <<osvars, op>> /\ table' = table
  BY DEF FillLog, uservars
<1>3. Len(stack[t]) = 1
  BY <1>1, <1>2, LogHeight
<1>4. stack' = [stack EXCEPT ![t] = Append(Append(Front(@), g), c)]
  BY DEF FillLog
<1>5. /\ g \in FrameType /\ g.pc = "parent" /\ g.pid = f.pid /\ g.sync = f.sync
      /\ g.seq = f.seq /\ g.full = f.full
  BY <1>1, PcFields DEF PCs
<1>6. c \in FrameType /\ c.pc = "find"
  <2>1. inherited[f.pid] \in Pids
    BY <1>1 DEF Inv, TypeInv, SystemTyped, FrameType
  <2> QED
    BY <2>1, CallFields
<1>7. Deref(t, p)
  BY DEF FillLog
<1>8. p \in Known \union {0}
  BY <1>1, ParentKnown DEF FrameOK
<1> HIDE DEF g, c
<1>9. Restacked(t, 0, <<g, c>>)
  <2>1. Restacked(t, Len(stack[t]) - 1, <<g, c>>)
    BY <1>1, <1>4, <1>5, <1>6, PushedOn DEF Inv, TypeInv
  <2>2. Len(stack[t]) - 1 = 0
    BY <1>3
  <2> QED
    BY <2>1, <2>2
<1>10. Base(t)' = g
  BY <1>9 DEF Restacked, Base
<1>11. Seqs' = Seqs /\ \A s \in Seqs : Like(entry'[s], entry[s])
  <2> HIDE DEF p
  <2> QED
    BY <1>7, <1>8, DerefLike
<1>12. f = Base(t)
  BY <1>1, <1>3 DEF Base
<1> HIDE DEF f
<1> QED
  BY <1>1, <1>2, <1>3, <1>5, <1>6, <1>9, <1>10, <1>11, <1>12

LEMMA ParentMoves ==
  ASSUME Inv, LockOK, NestOK, NEW t \in Threads, FillParent(t)
  PROVE  /\ logLock = t /\ logLock' = t
         /\ Len(stack[t]) = 2 /\ stack[t][2].pc = "return"
         /\ Base(t).pc = "parent" /\ Base(t) \in FrameType
         /\ \E g \in FrameType :
              /\ Restacked(t, 0, <<g>>) /\ Base(t)' = g
              /\ g.pid = Base(t).pid /\ g.sync = Base(t).sync /\ g.seq = Base(t).seq
              /\ g.full = Base(t).full /\ g.pc = "release"
         /\ UNCHANGED <<osvars, op>> /\ table' = table
         /\ Seqs' = Seqs /\ \A s \in Seqs : Like(entry'[s], entry[s])
<1> DEFINE f == Top(t)
           b == stack[t][Len(stack[t]) - 1]
           g == [b EXCEPT !.pc = "release"]
<1>1. /\ stack[t] # << >> /\ f \in FrameType /\ f.pc = "return"
      /\ FrameOK(f, Known)
      /\ Len(stack[t]) \in Nat \ {0} /\ f = stack[t][Len(stack[t])]
      /\ Len(stack[t]) > 1
  BY AtTop DEF FillParent
<1>2. Len(stack[t]) = 2
  BY <1>1, StackHeight
<1>3. stack' = [stack EXCEPT ![t] = Append(Front(Front(@)), g)]
  BY DEF FillParent
<1>4. /\ Deref(t, f.seq) /\ UNCHANGED <<osvars, op>> /\ UNCHANGED logLock
      /\ table' = table
  BY DEF FillParent, uservars
<1>5. b = Base(t)
  BY <1>2 DEF Base
<1>6. Base(t) \in FrameType /\ Base(t).pc = "parent" /\ logLock = t
  <2>1. 1 \in 1 .. Len(stack[t]) /\ 1 < Len(stack[t])
    BY <1>2
  <2>2. Base(t) \in FrameType
    BY <2>1, ElementOfSeq DEF Inv, TypeInv, StacksTyped, Base
  <2>3. Base(t).pc = "parent"
    BY <2>1 DEF Inv, ListInv, FramesOK, Base
  <2> QED
    BY <2>1, <2>2, <2>3 DEF LockOK, Base
<1>7. f.seq \in Known \union {0}
  BY <1>1 DEF FrameOK
<1>13. b \in FrameType
  BY <1>5, <1>6
<1> HIDE DEF b, f
<1>8. /\ g \in FrameType /\ g.pc = "release" /\ g.pid = b.pid /\ g.sync = b.sync
      /\ g.seq = b.seq /\ g.full = b.full
  BY <1>13, PcFields DEF PCs
<1> HIDE DEF g
<1>9. Restacked(t, 0, <<g>>)
  <2>1. Restacked(t, Len(stack[t]) - 2, <<g>>)
    BY <1>1, <1>3, <1>8, PoppedTo DEF Inv, TypeInv
  <2>2. Len(stack[t]) - 2 = 0
    BY <1>2
  <2> QED
    BY <2>1, <2>2
<1>10. Base(t)' = g
  BY <1>9 DEF Restacked, Base
<1>11. Seqs' = Seqs /\ \A s \in Seqs : Like(entry'[s], entry[s])
  BY <1>4, <1>7, DerefLike
<1>12. stack[t][2].pc = "return"
  BY <1>1, <1>2
<1> QED
  BY <1>2, <1>4, <1>5, <1>6, <1>8, <1>9, <1>10, <1>11, <1>12

-----------------------------------------------------------------------------
(* Every step keeps the mutex with its thread and the height of the stacks, *)
(* and a thread that waits for its own mutex goes on waiting.              *)

LEMMA MoveNest ==
  ASSUME Inv, LockOK, NestOK, NEW t \in Threads, NEW x, NEW g \in FrameType,
         Moves(t, x, g), g.pc \notin {"parent", "release"},
         x = "log" => Len(stack[t]) = 1,
         g.pc = "start" => x = "release" \/ Len(stack[t]) = 1,
         logLock' = logLock \/ x = "release"
  PROVE  LockOK' /\ NestOK' /\ (Stuck => Stuck')
<1>0. PICK h \in {1, 2} : h = Len(stack[t])
  BY StackHeight DEF Moves
<1> DEFINE n == h - 1
           S == <<g>>
<1>1. /\ stack[t] # << >> /\ Top(t).pc = x /\ Top(t) = stack[t][h]
      /\ SetTop(t, g)
  BY <1>0 DEF Moves
<1>2. /\ n \in {0, 1} /\ Restacked(t, n, S)
      /\ \A u \in Threads : u # t => stack'[u] = stack[u]
  BY <1>0, <1>1, TopBase
<1>3. S \in Seq(FrameType) /\ Len(S) = 1 /\ S[1] = g
  OBVIOUS
<1>4. x = "release" => h = 1 /\ logLock = t
  <2>1. h = 2 => x \notin {"release", "start"}
    BY <1>0, <1>1 DEF NestOK
  <2>2. h \in 1 .. Len(stack[t])
    <3>1. h \in 1 .. h
      BY <1>0
    <3> QED
      BY <1>0, <3>1
  <2> QED
    BY <1>0, <1>1, <2>1, <2>2 DEF LockOK
<1>5. ASSUME NEW u \in Threads, NEW i \in 1 .. Len(stack[u]),
             stack[u][i].pc \in {"parent", "release"}, u = t => i <= n
      PROVE  logLock' = u
  <2>1. logLock = u
    BY <1>5 DEF LockOK
  <2>2. CASE x # "release"
    BY <2>1, <2>2
  <2>3. CASE x = "release"
    <3>1. u = t /\ n = 0
      BY <1>4, <2>1, <2>3
    <3>2. i <= 0
      BY <1>5, <3>1
    <3>3. i \in 1 .. h
      BY <1>0, <3>1
    <3> QED
      BY <3>2, <3>3
  <2> QED
    BY <2>2, <2>3
<1>6. ASSUME NEW k \in 1 .. Len(S)
      PROVE  /\ S[k].pc \in {"parent", "release"} => logLock' = t
             /\ n + k = 2 => S[k].pc \notin {"parent", "release", "start"}
  <2>1. k = 1 /\ S[k] = g
    BY <1>3
  <2>2. n + 1 = 2 => g.pc # "start"
    <3>1. h - 1 = n /\ (h = 1 \/ h = 2)
      BY <1>0
    <3>2. g.pc = "start" => h = 1
      BY <1>0, <1>4
    <3> QED
      BY <3>1, <3>2
  <2> QED
    BY <2>1, <2>2
<1>7. n + Len(S) <= 2
  BY <1>2, <1>3
<1> HIDE DEF n, S
<1>8. LockOK' /\ NestOK'
  BY <1>2, <1>3, <1>5, <1>6, <1>7, NestStep
<1>9. Stuck => Stuck'
  <2>1. ~(Len(stack[t]) = 2 /\ stack[t][2].pc = "log")
    BY <1>0, <1>1
  <2> QED
    BY <1>2, <2>1, StuckStep
<1> QED
  BY <1>8, <1>9

LEMMA LogNest ==
  ASSUME Inv, LockOK, NestOK, NEW t \in Threads, FillLog(t)
  PROVE  LockOK' /\ NestOK' /\ (Stuck => Stuck')
<1>1. /\ logLock = Free /\ logLock' = t /\ Len(stack[t]) = 1
  BY LogMoves
<1>2. PICK g, c \in FrameType : Restacked(t, 0, <<g, c>>) /\ g.pc = "parent" /\ c.pc = "find"
  BY LogMoves
<1> DEFINE S == <<g, c>>
<1>3. S \in Seq(FrameType) /\ Len(S) = 2 /\ S[1] = g /\ S[2] = c
  OBVIOUS
<1>4. \A u \in Threads : \A i \in 1 .. Len(stack[u]) :
        stack[u][i].pc \notin {"parent", "release"}
  BY <1>1, ProcessAssumption DEF LockOK
<1>5. ASSUME NEW k \in 1 .. Len(S)
      PROVE  /\ S[k].pc \in {"parent", "release"} => logLock' = t
             /\ 0 + k = 2 => S[k].pc \notin {"parent", "release", "start"}
  <2>1. k = 1 \/ k = 2
    BY <1>3
  <2> QED
    BY <1>1, <1>2, <1>3, <2>1
<1>6. LockOK' /\ NestOK'
  <2>1. Restacked(t, 0, S) /\ 0 + Len(S) <= 2
    BY <1>2, <1>3
  <2> HIDE DEF S
  <2> QED
    BY <1>3, <1>4, <1>5, <2>1, NestStep
<1>7. Stuck => Stuck'
  <2>1. \A u \in Threads : u # t => stack'[u] = stack[u]
    BY <1>2 DEF Restacked
  <2> QED
    BY <1>1, <2>1, StuckStep
<1> QED
  BY <1>6, <1>7

LEMMA ParentNest ==
  ASSUME Inv, LockOK, NestOK, NEW t \in Threads, FillParent(t)
  PROVE  LockOK' /\ NestOK' /\ (Stuck => Stuck')
<1>1. /\ logLock = t /\ logLock' = t /\ stack[t][2].pc = "return"
  BY ParentMoves
<1>2. PICK g \in FrameType : Restacked(t, 0, <<g>>)
  BY ParentMoves
<1> DEFINE S == <<g>>
<1>3. S \in Seq(FrameType) /\ Len(S) = 1 /\ \A k \in 1 .. Len(S) : k = 1
  OBVIOUS
<1>4. \A u \in Threads : \A i \in 1 .. Len(stack[u]) :
        stack[u][i].pc \in {"parent", "release"} => logLock' = u
  BY <1>1 DEF LockOK
<1>5. LockOK' /\ NestOK'
  <2>1. Restacked(t, 0, S) /\ 0 + Len(S) <= 2 /\ \A k \in 1 .. Len(S) : 0 + k # 2
    BY <1>2, <1>3
  <2> HIDE DEF S
  <2> QED
    BY <1>1, <1>3, <1>4, <2>1, NestStep
<1>6. Stuck => Stuck'
  <2>1. \A u \in Threads : u # t => stack'[u] = stack[u]
    BY <1>2 DEF Restacked
  <2> QED
    BY <1>1, <2>1, StuckStep
<1> QED
  BY <1>5, <1>6

\* An operation begins, ends or calls again.
LEMMA RestartNest ==
  ASSUME Inv, LockOK, NestOK, NEW t \in Threads, Len(stack[t]) # 2,
         NEW S \in Seq(FrameType), Blank(S), Len(S) \in {0, 1},
         stack' = [stack EXCEPT ![t] = S], logLock' = logLock
  PROVE  LockOK' /\ NestOK' /\ (Stuck => Stuck')
<1>1. Restacked(t, 0, S)
  BY Restarted DEF Inv, TypeInv
<1>2. \A k \in 1 .. Len(S) : S[k].pc \notin {"parent", "release"}
  BY DEF Blank
<1>3. 0 + Len(S) <= 2 /\ \A k \in 1 .. Len(S) : 0 + k # 2
  <2>1. PICK l \in {0, 1} : l = Len(S)
    OBVIOUS
  <2>2. 0 + l <= 2 /\ \A k \in 1 .. l : 0 + k # 2
    OBVIOUS
  <2> QED
    BY <2>1, <2>2
<1>4. \A u \in Threads : \A i \in 1 .. Len(stack[u]) :
        stack[u][i].pc \in {"parent", "release"} => logLock' = u
  BY DEF LockOK
<1>5. LockOK' /\ NestOK'
  BY <1>1, <1>2, <1>3, <1>4, NestStep
<1>6. Stuck => Stuck'
  <2>1. \A u \in Threads : u # t => stack'[u] = stack[u]
    BY <1>1 DEF Restacked
  <2> QED
    BY <2>1, StuckStep
<1> QED
  BY <1>5, <1>6

LEMMA StillNest ==
  ASSUME LockOK, NestOK, UNCHANGED <<stack, logLock>>
  PROVE  LockOK' /\ NestOK' /\ (Stuck => Stuck')
BY DEF LockOK, NestOK, Stuck

-----------------------------------------------------------------------------
(* The operations and the processes they run in.                           *)

LEMMA RunTyped ==
  ASSUME Inv, OpsRun, NEW u \in Threads
  PROVE  /\ op[u] \in OpType /\ op[u].pid \in Pids /\ op[u].about \in Pids
         /\ Subject(u) \in Pids
         /\ op[u].kind # "idle" => stack[u] # << >> /\ Len(stack[u]) \in Nat \ {0}
         /\ op[u].kind # "idle" => status[op[u].pid] \in {"alive", "exiting"}
         /\ op[u].kind = "idle" => stack[u] = << >>
<1>1. op[u] \in OpType
  BY DEF Inv, TypeInv, DriverTyped
<1>2. op[u].kind = "idle" <=> stack[u] = << >>
  BY DEF Inv, ListInv, OpsOK
<1>3. stack[u] # << >> => Len(stack[u]) \in Nat \ {0}
  BY EmptySeq DEF Inv, TypeInv, StacksTyped
<1>4. op[u].pid \in Pids /\ op[u].about \in Pids
  BY <1>1 DEF OpType
<1>5. op[u].kind # "idle" => status[op[u].pid] \in {"alive", "exiting"}
  BY DEF OpsRun
<1> QED
  BY <1>1, <1>2, <1>3, <1>4, <1>5 DEF Subject

\* A call moves and the operations stay.
LEMMA RunStay ==
  ASSUME Inv, OpsRun, Unused, UNCHANGED <<osvars, op>>,
         \A u \in Threads : op[u].kind # "idle" => Base(u)'.pid = Base(u).pid
  PROVE  OpsRun' /\ Unused'
<1>1. UNCHANGED <<life, status>> /\ op' = op
  BY DEF osvars
<1>2. \A u \in Threads : Subject(u)' = Subject(u)
  BY <1>1 DEF Subject, ForChild
<1> QED
  BY <1>1, <1>2 DEF OpsRun, Unused, Creating

\* The operation of a thread begins, goes on to its second call, or ends.
LEMMA RunStep ==
  ASSUME Inv, OpsRun, NEW t \in Threads, NEW o, op' = [op EXCEPT ![t] = o],
         \A u \in Threads : u # t => stack'[u] = stack[u],
         \A u \in Threads : u # t =>
           /\ op[u].kind # "idle" => status'[op[u].pid] = status[op[u].pid]
           /\ Creating(u) => status'[op[u].about] = status[op[u].about],
         o.kind # "idle" =>
           /\ Base(t)'.pid = IF o.kind = "thread" \/ (o.kind = "create" /\ o.step = "child")
                             THEN o.about ELSE o.pid
           /\ status'[o.pid] = IF o.kind = "exit" THEN "exiting" ELSE "alive",
         o.kind \in {"create", "thread"} =>
           /\ status'[o.about] = "born"
           /\ \A u \in Threads : u # t => ~(Creating(u) /\ op[u].about = o.about),
         o.kind = "exit" =>
           \A u \in Threads : u # t => ~(op[u].kind = "exit" /\ op[u].pid = o.pid),
         o.parent # 0 => o.kind = "create" /\ o.step = "child"
  PROVE  OpsRun'
<1>1. op'[t] = o /\ \A u \in Threads : u # t => op'[u] = op[u]
  BY DEF Inv, TypeInv, DriverTyped
<1>2. Creating(t)' <=> o.kind \in {"create", "thread"}
  BY <1>1 DEF Creating
<1>3. \A u \in Threads : u # t => (Creating(u)' <=> Creating(u))
  BY <1>1 DEF Creating
<1>4. ASSUME NEW u \in Threads
      PROVE  /\ op'[u].kind # "idle" =>
                  /\ Base(u)'.pid = Subject(u)'
                  /\ status'[op'[u].pid] = IF op'[u].kind = "exit" THEN "exiting" ELSE "alive"
             /\ Creating(u)' => status'[op'[u].about] = "born"
             /\ op'[u].parent # 0 => op'[u].kind = "create" /\ op'[u].step = "child"
  <2>1. CASE u = t
    BY <1>1, <1>2, <2>1 DEF Subject, ForChild
  <2>2. CASE u # t
    <3>1. Base(u)' = Base(u) /\ Subject(u)' = Subject(u) /\ op'[u] = op[u]
      BY <1>1, <2>2 DEF Base, Subject, ForChild
    <3> QED
      BY <1>3, <2>2, <3>1 DEF OpsRun
  <2> QED
    BY <2>1, <2>2
<1>5. ASSUME NEW u \in Threads, NEW v \in Threads
      PROVE  /\ op'[v].kind = "exit" /\ op'[u].kind = "exit" /\ op'[u].pid = op'[v].pid => u = v
             /\ Creating(v)' /\ Creating(u)' /\ op'[u].about = op'[v].about => u = v
  <2>1. CASE u # t /\ v # t
    BY <1>1, <1>3, <2>1 DEF OpsRun
  <2>2. CASE u = t \/ v = t
    BY <1>1, <1>2, <1>3, <2>2
  <2> QED
    BY <2>1, <2>2
<1> QED
  BY <1>4, <1>5 DEF OpsRun

\* An operation that calls has the call at the bottom of its stack.
LEMMA CallsBase ==
  ASSUME Inv, NEW t \in Threads, NEW c, stack' = [stack EXCEPT ![t] = <<c>>]
  PROVE  Base(t)' = c /\ \A u \in Threads : u # t => stack'[u] = stack[u]
BY DEF Inv, TypeInv, StacksTyped, Base

LEMMA EnterRuns ==
  ASSUME Inv, OpsRun, Unused, NEW t \in Threads, Enter(t)
  PROVE  OpsRun' /\ Unused'
<1>1. PICK p \in Pids, k \in Kinds :
        status[p] = "alive" /\ Begin(t, Doing(k, p, p), p, k # "paging")
  BY DEF Enter
<1>2. UNCHANGED <<life, status>>
  BY DEF Enter, osvars
<1>3. PICK o, b : o = Doing(k, p, p) /\ b = (k # "paging")
  OBVIOUS
<1>4. /\ o.kind = k /\ o.parent = 0 /\ k \notin {"create", "thread", "exit", "idle"}
      /\ o.pid = p /\ b \in BOOLEAN
  BY <1>3, ProcessAssumption DEF Doing
<1>5. op' = [op EXCEPT ![t] = o] /\ stack' = [stack EXCEPT ![t] = <<Call(p, b)>>]
  BY <1>1, <1>3 DEF Begin
<1>6. Base(t)'.pid = p /\ \A u \in Threads : u # t => stack'[u] = stack[u]
  <2>1. PICK c : c = Call(p, b)
    OBVIOUS
  <2>2. c.pid = p
    BY <2>1, <1>4, CallFields
  <2>3. stack' = [stack EXCEPT ![t] = <<c>>]
    BY <1>5, <2>1
  <2> QED
    BY <2>2, <2>3, CallsBase
<1>7. OpsRun'
  BY <1>1, <1>2, <1>4, <1>5, <1>6, RunStep
<1> QED
  BY <1>2, <1>7 DEF Unused

LEMMA CreateRuns ==
  ASSUME Inv, OpsRun, Unused, NEW t \in Threads, Create(t)
  PROVE  OpsRun' /\ Unused'
<1>1. PICK p \in Pids, q \in Pids :
        /\ status[p] = "alive" /\ Reusable(q)
        /\ life' = [life EXCEPT ![q] = @ + 1]
        /\ status' = [status EXCEPT ![q] = "born"]
        /\ Begin(t, Doing("create", p, q), p, TRUE)
  BY DEF Create
<1>2. PICK o : o = Doing("create", p, q)
  OBVIOUS
<1>3. /\ o.kind = "create" /\ o.step = "ref" /\ o.pid = p /\ o.about = q /\ o.parent = 0
  BY <1>2 DEF Doing
<1>4. op' = [op EXCEPT ![t] = o] /\ stack' = [stack EXCEPT ![t] = <<Call(p, TRUE)>>]
  BY <1>1, <1>2 DEF Begin
<1>5. Base(t)'.pid = p /\ \A u \in Threads : u # t => stack'[u] = stack[u]
  <2>1. PICK c : c = Call(p, TRUE)
    OBVIOUS
  <2>2. c.pid = p
    BY <2>1, CallFields
  <2>3. stack' = [stack EXCEPT ![t] = <<c>>]
    BY <1>4, <2>1
  <2> QED
    BY <2>2, <2>3, CallsBase
<1>6. /\ status'[q] = "born" /\ life'[q] = life[q] + 1 /\ life[q] \in Nat
      /\ \A y \in Pids : y # q => status'[y] = status[y] /\ life'[y] = life[y]
      /\ status[q] \in {"free", "gone"}
  BY <1>1 DEF Reusable, Inv, TypeInv, SystemTyped
<1>7. ASSUME NEW u \in Threads
      PROVE  /\ op[u].kind # "idle" => status'[op[u].pid] = status[op[u].pid]
             /\ Creating(u) => status'[op[u].about] = status[op[u].about] /\ op[u].about # q
  <2>1. /\ op[u].pid \in Pids /\ op[u].about \in Pids
        /\ op[u].kind # "idle" => status[op[u].pid] \in {"alive", "exiting"}
    BY RunTyped
  <2>2. Creating(u) => status[op[u].about] = "born"
    BY DEF OpsRun
  <2> QED
    BY <1>6, <2>1, <2>2
<1>8. OpsRun'
  <2>1. status'[p] = "alive"
    BY <1>1, <1>6
  <2> QED
    BY <1>3, <1>4, <1>5, <1>6, <1>7, <2>1, RunStep
<1>9. Unused'
  <2> SUFFICES ASSUME NEW y \in Pids PROVE status'[y] = "free" <=> life'[y] = 0
    BY DEF Unused
  <2>1. CASE y = q
    BY <1>6, <2>1
  <2>2. CASE y # q
    BY <1>6, <2>2 DEF Unused
  <2> QED
    BY <2>1, <2>2
<1> QED
  BY <1>8, <1>9

LEMMA ExitStartRuns ==
  ASSUME Inv, OpsRun, Unused, NEW t \in Threads, Exit(t)
  PROVE  OpsRun' /\ Unused'
<1>1. PICK p \in Pids : /\ status[p] = "alive" /\ ~Busy(p)
                        /\ status' = [status EXCEPT ![p] = "exiting"]
                        /\ Begin(t, Doing("exit", p, p), p, TRUE)
  BY DEF Exit
<1>2. life' = life
  BY DEF Exit
<1>3. PICK o : o = Doing("exit", p, p)
  OBVIOUS
<1>4. o.kind = "exit" /\ o.pid = p /\ o.parent = 0
  BY <1>3 DEF Doing
<1>5. op' = [op EXCEPT ![t] = o] /\ stack' = [stack EXCEPT ![t] = <<Call(p, TRUE)>>]
  BY <1>1, <1>3 DEF Begin
<1>6. Base(t)'.pid = p /\ \A u \in Threads : u # t => stack'[u] = stack[u]
  <2>1. PICK c : c = Call(p, TRUE)
    OBVIOUS
  <2>2. c.pid = p
    BY <2>1, CallFields
  <2>3. stack' = [stack EXCEPT ![t] = <<c>>]
    BY <1>5, <2>1
  <2> QED
    BY <2>2, <2>3, CallsBase
<1>7. /\ status'[p] = "exiting"
      /\ \A q \in Pids : q # p => status'[q] = status[q]
  BY <1>1 DEF Inv, TypeInv, SystemTyped
<1>8. ASSUME NEW u \in Threads
      PROVE  /\ op[u].kind # "idle" => status'[op[u].pid] = status[op[u].pid] /\ op[u].pid # p
             /\ Creating(u) => status'[op[u].about] = status[op[u].about]
  <2>1. op[u].pid \in Pids /\ op[u].about \in Pids
    BY RunTyped
  <2>2. op[u].kind # "idle" => op[u].pid # p
    BY <1>1 DEF Busy
  <2>3. Creating(u) => status[op[u].about] = "born"
    BY DEF OpsRun
  <2> QED
    BY <1>1, <1>7, <2>1, <2>2, <2>3
<1>9. OpsRun'
  <2>1. \A u \in Threads : u # t => ~(op[u].kind = "exit" /\ op[u].pid = o.pid)
    BY <1>4, <1>8
  <2> QED
    BY <1>4, <1>5, <1>6, <1>7, <1>8, <2>1, RunStep
<1>10. Unused'
  BY <1>1, <1>2, <1>7 DEF Unused
<1> QED
  BY <1>9, <1>10

LEMMA ReportRuns ==
  ASSUME Inv, OpsRun, Unused, NEW t \in Threads, Skips(t) \/ Log(t)
  PROVE  OpsRun' /\ Unused'
<1>1. Returned(t, Reports, "ref") /\ Finish(t) /\ Runs(t)
  BY ReportDoes
<1>2. op[t] \in OpType /\ op[t].kind \in Reports
  BY <1>1, AtReturn
<1>3. op' = [op EXCEPT ![t] = Idle] /\ stack' = [stack EXCEPT ![t] = << >>]
  BY <1>1 DEF Finish
<1>4. \A u \in Threads : u # t => stack'[u] = stack[u]
  BY <1>3 DEF Inv, TypeInv, StacksTyped
<1>5. /\ life' = life
      /\ \A p \in Pids : \/ status'[p] = status[p]
                         \/ /\ status'[p] = "alive" /\ op[t].kind = "thread"
                            /\ p = op[t].about
  BY <1>1 DEF Runs, Inv, TypeInv, SystemTyped
<1>6. op[t].kind = "thread" => status[op[t].about] = "born"
  BY DEF OpsRun, Creating
<1>7. ASSUME NEW u \in Threads, u # t
      PROVE  /\ op[u].kind # "idle" => status'[op[u].pid] = status[op[u].pid]
             /\ Creating(u) => status'[op[u].about] = status[op[u].about]
  <2>1. /\ op[u].pid \in Pids /\ op[u].about \in Pids
        /\ op[u].kind # "idle" => status[op[u].pid] \in {"alive", "exiting"}
    BY RunTyped
  <2>2. op[t].kind = "thread" /\ Creating(u) => op[u].about # op[t].about
    BY <1>7 DEF OpsRun, Creating
  <2> QED
    BY <1>5, <1>6, <2>1, <2>2
<1>8. OpsRun'
  BY <1>3, <1>4, <1>7, IdleFields, RunStep
<1>9. Unused'
  BY <1>5, <1>6 DEF Unused
<1> QED
  BY <1>8, <1>9

LEMMA ExitEndRuns ==
  ASSUME Inv, OpsRun, Unused, NEW t \in Threads, ExitUnknown(t) \/ ExitQueue(t)
  PROVE  OpsRun' /\ Unused'
<1>1. /\ op[t].kind = "exit" /\ Finish(t) /\ life' = life
      /\ status' = [status EXCEPT ![op[t].pid] = "gone"]
  BY DEF ExitUnknown, ExitQueue, ExitEnds, Returned
<1>2. op' = [op EXCEPT ![t] = Idle] /\ stack' = [stack EXCEPT ![t] = << >>]
  BY <1>1 DEF Finish
<1>3. \A u \in Threads : u # t => stack'[u] = stack[u]
  BY <1>2 DEF Inv, TypeInv, StacksTyped
<1>4. status[op[t].pid] = "exiting" /\ op[t].pid \in Pids
  BY <1>1, RunTyped DEF OpsRun
<1>5. /\ status'[op[t].pid] = "gone"
      /\ \A p \in Pids : p # op[t].pid => status'[p] = status[p]
  BY <1>1, <1>4 DEF Inv, TypeInv, SystemTyped
<1>6. ASSUME NEW u \in Threads, u # t
      PROVE  /\ op[u].kind # "idle" => status'[op[u].pid] = status[op[u].pid]
             /\ Creating(u) => status'[op[u].about] = status[op[u].about]
  <2>1. op[u].pid \in Pids /\ op[u].about \in Pids
    BY RunTyped
  <2>2. op[u].kind # "idle" => op[u].pid # op[t].pid
    BY <1>1, <1>4, <1>6 DEF OpsRun
  <2>3. Creating(u) => status[op[u].about] = "born"
    BY DEF OpsRun
  <2> QED
    BY <1>4, <1>5, <2>1, <2>2, <2>3
<1>7. OpsRun'
  BY <1>2, <1>3, <1>6, IdleFields, RunStep
<1>8. Unused'
  BY <1>1, <1>4, <1>5 DEF Unused
<1> QED
  BY <1>7, <1>8

LEMMA CreateChildRuns ==
  ASSUME Inv, OpsRun, Unused, NEW t \in Threads, CreateChild(t)
  PROVE  OpsRun' /\ Unused'
<1>1. /\ Returned(t, {"create"}, "ref") /\ UNCHANGED <<life, status>>
  BY DEF CreateChild, osvars
<1>2. PICK o : o = [op[t] EXCEPT !.step = "child", !.parent = Top(t).seq]
  OBVIOUS
<1>3. op[t] \in OpType /\ op[t].kind = "create" /\ op[t].about \in Pids
  BY <1>1, AtReturn, RunTyped
<1>4. /\ o.kind = "create" /\ o.step = "child" /\ o.pid = op[t].pid
      /\ o.about = op[t].about
  BY <1>2, <1>3 DEF OpType
<1>5. op' = [op EXCEPT ![t] = o] /\ stack' = [stack EXCEPT ![t] = <<Call(op[t].about, FALSE)>>]
  BY <1>2 DEF CreateChild
<1>6. Base(t)'.pid = op[t].about /\ \A u \in Threads : u # t => stack'[u] = stack[u]
  <2>1. PICK c : c = Call(op[t].about, FALSE)
    OBVIOUS
  <2>2. c.pid = op[t].about
    BY <2>1, <1>3, CallFields
  <2>3. stack' = [stack EXCEPT ![t] = <<c>>]
    BY <1>5, <2>1
  <2> QED
    BY <2>2, <2>3, CallsBase
<1>7. /\ status[op[t].pid] = "alive" /\ status[op[t].about] = "born"
      /\ \A u \in Threads : u # t => ~(Creating(u) /\ op[u].about = op[t].about)
  BY <1>3 DEF OpsRun, Creating
<1>8. OpsRun'
  BY <1>1, <1>4, <1>5, <1>6, <1>7, RunStep
<1> QED
  BY <1>1, <1>8 DEF Unused

LEMMA CreateParkRuns ==
  ASSUME Inv, OpsRun, Unused, NEW t \in Threads, Parks(t)
  PROVE  OpsRun' /\ Unused'
<1>1. /\ Returned(t, {"create"}, "child") /\ UNCHANGED <<life, status>>
  BY DEF Parks, CreatePark, ParkFails, ThreadStarts, osvars
<1>2. PICK o : o = [op[t] EXCEPT !.kind = "thread", !.step = "ref", !.parent = 0]
  OBVIOUS
<1>3. op[t] \in OpType /\ op[t].kind = "create" /\ op[t].about \in Pids
  BY <1>1, AtReturn, RunTyped
<1>4. o.kind = "thread" /\ o.pid = op[t].pid /\ o.about = op[t].about /\ o.parent = 0
  BY <1>2, <1>3 DEF OpType
<1>5. op' = [op EXCEPT ![t] = o] /\ stack' = [stack EXCEPT ![t] = <<Call(op[t].about, TRUE)>>]
  BY <1>2 DEF Parks, CreatePark, ParkFails, ThreadStarts
<1>6. Base(t)'.pid = op[t].about /\ \A u \in Threads : u # t => stack'[u] = stack[u]
  <2>1. PICK c : c = Call(op[t].about, TRUE)
    OBVIOUS
  <2>2. c.pid = op[t].about
    BY <2>1, <1>3, CallFields
  <2>3. stack' = [stack EXCEPT ![t] = <<c>>]
    BY <1>5, <2>1
  <2> QED
    BY <2>2, <2>3, CallsBase
<1>7. /\ status[op[t].pid] = "alive" /\ status[op[t].about] = "born"
      /\ \A u \in Threads : u # t => ~(Creating(u) /\ op[u].about = op[t].about)
  BY <1>3 DEF OpsRun, Creating
<1>8. OpsRun'
  BY <1>1, <1>4, <1>5, <1>6, <1>7, RunStep
<1> QED
  BY <1>1, <1>8 DEF Unused

LEMMA ExitGoesRuns ==
  ASSUME Inv, OpsRun, Unused, NEW t \in Threads, ExitQuery(t) \/ ExitLog(t)
  PROVE  OpsRun' /\ Unused'
<1>1. PICK x \in {"log", "queue"} : op' = [op EXCEPT ![t].step = x]
  BY DEF ExitQuery, ExitLog
<1>2. /\ UNCHANGED <<life, status>> /\ stack' = stack /\ op[t].kind = "exit"
  BY DEF ExitQuery, ExitLog, osvars, Returned
<1>3. PICK o : o = [op[t] EXCEPT !.step = x]
  OBVIOUS
<1>4. op[t] \in OpType
  BY RunTyped
<1>5. /\ o.kind = "exit" /\ o.pid = op[t].pid /\ o.parent = op[t].parent
  BY <1>2, <1>3, <1>4 DEF OpType
<1>6. op' = [op EXCEPT ![t] = o]
  BY <1>1, <1>3
<1>7. /\ Base(t)'.pid = op[t].pid /\ status[op[t].pid] = "exiting" /\ op[t].parent = 0
      /\ \A u \in Threads : u # t => ~(op[u].kind = "exit" /\ op[u].pid = op[t].pid)
  BY <1>2 DEF OpsRun, Subject, ForChild, Base
<1>8. OpsRun'
  BY <1>2, <1>5, <1>6, <1>7, RunStep
<1> QED
  BY <1>2, <1>8 DEF Unused

-----------------------------------------------------------------------------
(* The reference of the list.                                              *)

\* A process that has not ended, the first of its identifier, had not before.
EarlierLives ==
  \A p \in Pids : life'[p] <= 1 =>
    life[p] <= 1 /\ (status'[p] # "gone" => status[p] # "gone")

LEMMA TallyHeld ==
  ASSUME Inv, HeldOK, NEW a, NEW z, Tally(a, z), EarlierLives
  PROVE  HeldOK'
<1>1. Seqs' = Seqs
  BY RecountKeeps DEF Tally
<1> SUFFICES ASSUME NEW s \in Seqs, Current(s)'
             PROVE  entry'[s].refs >= Cardinality(Holders(s)') + 1
  BY <1>1 DEF HeldOK
<1>2. entry[s].refs \in Int /\ entry[s].pid \in Pids
  BY EntryTyped DEF Inv, TypeInv, EntryType
<1>3. /\ entry'[s].listed /\ life'[entry'[s].pid] <= 1 /\ status'[entry'[s].pid] # "gone"
      /\ entry'[s].listed = entry[s].listed /\ entry'[s].pid = entry[s].pid
  BY DEF Current, Tally, Recount
<1>4. Current(s)
  BY <1>2, <1>3 DEF Current, EarlierLives
<1>5. Cardinality(Holders(s)) \in Nat /\ entry[s].refs >= Cardinality(Holders(s)) + 1
  BY <1>4, HoldersFinite DEF Inv, HeldOK
<1> DEFINE d == (IF s = a THEN 1 ELSE 0) - (IF s = z THEN 1 ELSE 0)
<1>6. /\ d \in Int
      /\ entry'[s].refs = entry[s].refs + d
      /\ Cardinality(Holders(s)') \in Nat
      /\ Cardinality(Holders(s)') <= Cardinality(Holders(s)) + d
  BY <1>2 DEF Tally, Recount, Grow
<1> HIDE DEF d
<1> QED
  BY <1>2, <1>5, <1>6

LEMMA SameLives ==
  ASSUME UNCHANGED osvars
  PROVE  EarlierLives
BY DEF osvars, EarlierLives

LEMMA FindHeld ==
  ASSUME Inv, HeldOK, NEW t \in Threads, Finds(t)
  PROVE  HeldOK'
<1>1. /\ stack[t] # << >>
      /\ UNCHANGED <<osvars, logLock, op, freeing, uservars>>
  BY FindDoes
<1>2. PICK g \in FrameType :
        /\ SetTop(t, g) /\ g.pid = Top(t).pid /\ g.full = Top(t).full
        /\ \/ /\ g.pc = "check" /\ g.seq \in Known
              /\ entry[g.seq].listed /\ entry[g.seq].pid = g.pid
              /\ Recount(g.seq, 0) /\ FullKept /\ ExitKept
           \/ /\ g.pc = "insert" /\ g.seq = Top(t).seq
              /\ Len(entry) + 1 \in 1 .. MaxSeq
              /\ Len(entry') = Len(entry) + 1
              /\ \A s \in Seqs : entry'[s] = entry[s]
              /\ entry'[Len(entry) + 1] = NewEntry(g.pid)
           \/ /\ g.pc = "return" /\ g.seq = Top(t).seq
              /\ entry' = entry
  BY FindDoes
<1>3. EarlierLives
  BY <1>1, SameLives
<1>4. CASE g.pc = "check" /\ Recount(g.seq, 0) /\ FullKept
  <2>1. Tally(g.seq, 0)
    BY <1>1, <1>2, <1>4, TopTally
  <2> QED
    BY <1>3, <2>1, TallyHeld
<1>5. CASE g.pc = "return" /\ g.seq = Top(t).seq /\ entry' = entry
  <2>1. Recount(0, 0) /\ FullKept
    BY <1>5, SameCounts
  <2>2. Tally(0, 0)
    BY <1>1, <1>2, <1>5, <2>1, TopTally
  <2> QED
    BY <1>3, <2>2, TallyHeld
<1>6. CASE /\ g.pc = "insert" /\ g.seq = Top(t).seq
           /\ Len(entry') = Len(entry) + 1
           /\ \A s \in Seqs : entry'[s] = entry[s]
           /\ entry'[Len(entry) + 1] = NewEntry(g.pid)
  <2>1. PICK q : q = Len(entry) + 1
    OBVIOUS
  <2>2. Len(entry) \in Nat /\ Seqs' = Seqs \union {q} /\ ~entry'[q].listed /\ entry'[q].full = {}
    BY <1>6, <2>1, SeqsBounded DEF Seqs, Inv, NewEntry
  <2>3. ASSUME NEW s \in Seqs PROVE Holders(s)' \subseteq Holders(s)
    <3>1. /\ Pointing(s)' \subseteq Pointing(s)
          /\ Carrying(s)' \subseteq Carrying(s)
          /\ Parents(s)' = Parents(s)
      BY <1>1, <1>2, <1>6, TopHolds DEF Inv, TypeInv
    <3>2. ParkedAt(s)' = ParkedAt(s)
      BY <1>6, <2>2 DEF ParkedAt
    <3> QED
      BY <3>1, <3>2 DEF Holders
  <2> SUFFICES ASSUME NEW s \in Seqs', Current(s)'
               PROVE  entry'[s].refs >= Cardinality(Holders(s)') + 1
    BY DEF HeldOK
  <2>4. s \in Seqs
    BY <2>2 DEF Current
  <2>5. entry'[s] = entry[s] /\ Current(s)
    BY <1>1, <1>6, <2>4 DEF Current, osvars
  <2>6. Grow(s, 0)
    BY <2>3, <2>4, HoldersKept DEF Inv
  <2>7. /\ entry[s].refs \in Int /\ Cardinality(Holders(s)) \in Nat
        /\ entry[s].refs >= Cardinality(Holders(s)) + 1
    BY <2>4, <2>5, EntryTyped, HoldersFinite DEF Inv, TypeInv, EntryType, HeldOK
  <2> QED
    BY <2>5, <2>6, <2>7 DEF Grow
<1> QED
  BY <1>2, <1>4, <1>5, <1>6

LEMMA InsertHeld ==
  ASSUME Inv, HeldOK, NEW t \in Threads, Insert(t)
  PROVE  HeldOK'
<1>1. PICK m \in Seqs :
         /\ m = Top(t).mine /\ Seqs' = Seqs
         /\ \A s \in Seqs : s # m =>
              /\ entry'[s].listed = entry[s].listed /\ entry'[s].pid = entry[s].pid
              /\ \E d \in {0, 1} : entry'[s].refs = entry[s].refs + d /\ Grow(s, d)
         /\ Cardinality(Holders(m)') \in Nat
         /\ entry'[m].refs >=
              Cardinality(Holders(m)') + (IF entry'[m].listed THEN 1 ELSE 0)
  BY InsertTally
<1>2. UNCHANGED osvars
  BY DEF Insert
<1> SUFFICES ASSUME NEW s \in Seqs, Current(s)'
             PROVE  entry'[s].refs >= Cardinality(Holders(s)') + 1
  BY <1>1 DEF HeldOK
<1>3. entry'[s].listed
  BY DEF Current
<1>4. CASE s = m
  BY <1>1, <1>3, <1>4
<1>5. CASE s # m
  <2>1. PICK d \in {0, 1} : entry'[s].refs = entry[s].refs + d /\ Grow(s, d)
    BY <1>1, <1>5
  <2>2. Current(s)
    BY <1>1, <1>2, <1>5 DEF Current, osvars
  <2>3. /\ entry[s].refs \in Int /\ Cardinality(Holders(s)) \in Nat
        /\ entry[s].refs >= Cardinality(Holders(s)) + 1
    BY <2>2, EntryTyped, HoldersFinite DEF Inv, TypeInv, EntryType, HeldOK
  <2> QED
    BY <2>1, <2>3 DEF Grow
<1> QED
  BY <1>4, <1>5

\* A step that only takes an entry from the list whose process is gone, or
\* that is not held.
LEMMA DropHeld ==
  ASSUME Inv, HeldOK, stack' = stack, op' = op, UNCHANGED osvars, Seqs' = Seqs,
         \A s \in Seqs : /\ entry'[s].full \subseteq entry[s].full
                         /\ Current(s)' => entry'[s] = entry[s]
  PROVE  HeldOK'
<1> SUFFICES ASSUME NEW s \in Seqs, Current(s)'
             PROVE  entry'[s].refs >= Cardinality(Holders(s)') + 1
  BY DEF HeldOK
<1>1. entry'[s] = entry[s] /\ Current(s)
  BY DEF Current, osvars
<1>2. /\ Pointing(s)' \subseteq Pointing(s)
      /\ Carrying(s)' \subseteq Carrying(s)
      /\ Parents(s)' \subseteq Parents(s)
  BY DEF Pointing, Carrying, Parents, Places, Frame, Queues
<1>3. ParkedAt(s)' \subseteq ParkedAt(s)
  BY DEF ParkedAt
<1>4. Grow(s, 0)
  BY <1>2, <1>3, HoldersKeep, HoldersKept DEF Inv
<1>5. /\ entry[s].refs \in Int /\ Cardinality(Holders(s)) \in Nat
      /\ entry[s].refs >= Cardinality(Holders(s)) + 1
  BY <1>1, EntryTyped, HoldersFinite DEF Inv, TypeInv, EntryType, HeldOK
<1> QED
  BY <1>1, <1>4, <1>5 DEF Grow

\* What the end of DerefProcessInfo leaves of the list.
LEMMA FreeDoes ==
  ASSUME Inv, HeldOK, NEW t \in Threads, FreeEntry(t)
  PROVE  /\ stack' = stack /\ op' = op /\ UNCHANGED osvars
         /\ UNCHANGED <<logLock, table>>
         /\ Seqs' = Seqs
         /\ \A s \in Seqs : \/ entry'[s] = entry[s]
                            \/ entry'[s] = Freed /\ ~Current(s)
<1>1. PICK f : f = freeing[t]
  OBVIOUS
<1>2. f \in Seqs
  BY <1>1 DEF FreeEntry, Inv, ListInv, OpsOK, Known
<1>3. op' = op /\ stack' = stack /\ UNCHANGED osvars /\ UNCHANGED <<logLock, table>>
  BY DEF FreeEntry, uservars
<1>4. CASE entry[f].refs = 0 /\ entry' = With(f, Freed)
  <2>1. /\ Len(With(f, Freed)) = Len(entry)
        /\ With(f, Freed)[f] = Freed
        /\ \A r \in Seqs : r # f => With(f, Freed)[r] = entry[r]
    BY <1>2, FreedFields, WithDoes DEF Inv, TypeInv
  <2>2. ~Current(f)
    <3>1. Cardinality(Holders(f)) \in Nat
      BY HoldersFinite DEF Inv
    <3> QED
      BY <1>2, <1>4, <3>1 DEF HeldOK
  <2> QED
    BY <1>3, <1>4, <2>1, <2>2 DEF Seqs
<1>5. CASE entry' = entry
  BY <1>3, <1>5 DEF Seqs
<1> QED
  BY <1>1, <1>4, <1>5 DEF FreeEntry

\* And what the work item leaves.
LEMMA WaitDoes ==
  ASSUME Inv, WaitExit
  PROVE  /\ stack' = stack /\ op' = op /\ UNCHANGED osvars
         /\ UNCHANGED <<logLock, table>>
         /\ Seqs' = Seqs
         /\ \A s \in Seqs :
              \/ entry'[s] = entry[s]
              \/ entry'[s] = Freed /\ status[entry[s].pid] = "gone"
              \/ /\ entry'[s].pid = entry[s].pid /\ status[entry[s].pid] = "gone"
                 /\ entry'[s].full = entry[s].full /\ entry'[s].freed = entry[s].freed
                 /\ entry'[s].listed = entry[s].listed
<1>1. entry' = [s \in Seqs |->
         IF s \in Signalled THEN Dropped(entry[s]) ELSE entry[s]]
  BY DEF WaitExit
<1>2. op' = op /\ stack' = stack /\ UNCHANGED osvars /\ UNCHANGED <<logLock, table>>
  BY DEF WaitExit, callvars, uservars
<1>3. \A s \in Seqs : entry[s] \in EntryType
  BY EntryTyped DEF Inv, TypeInv
<1>4. Seqs' = Seqs
  <2>1. Seqs = 1 .. Len(entry) /\ Len(entry) \in Nat
    BY LenProperties DEF Seqs, Inv, TypeInv, DriverTyped
  <2>2. entry' \in [Seqs -> EntryType]
    BY <1>1, <1>3, DroppedFields
  <2>3. Len(entry') = Len(entry)
    BY <2>1, <2>2, FunctionIsSeq
  <2> QED
    BY <2>3 DEF Seqs
<1>5. ASSUME NEW s \in Seqs
      PROVE  \/ entry'[s] = entry[s]
             \/ entry'[s] = Freed /\ status[entry[s].pid] = "gone"
             \/ /\ entry'[s].pid = entry[s].pid /\ status[entry[s].pid] = "gone"
                /\ entry'[s].full = entry[s].full /\ entry'[s].freed = entry[s].freed
                /\ entry'[s].listed = entry[s].listed
  <2>1. CASE s \notin Signalled
    BY <1>1, <2>1
  <2>2. CASE s \in Signalled
    <3>1. entry'[s] = Dropped(entry[s]) /\ status[entry[s].pid] = "gone"
      BY <1>1, <2>2 DEF Signalled
    <3> QED
      BY <1>3, <3>1, DroppedFields
  <2> QED
    BY <2>1, <2>2
<1> QED
  BY <1>2, <1>4, <1>5

LEMMA FreeHeld ==
  ASSUME Inv, HeldOK, NEW t \in Threads, FreeEntry(t)
  PROVE  HeldOK'
<1>1. /\ stack' = stack /\ op' = op /\ UNCHANGED osvars /\ Seqs' = Seqs
      /\ \A s \in Seqs : \/ entry'[s] = entry[s]
                         \/ entry'[s] = Freed /\ ~Current(s)
  BY FreeDoes
<1>2. Freed.full = {} /\ ~Freed.listed
  BY DEF Freed
<1>3. \A s \in Seqs : /\ entry'[s].full \subseteq entry[s].full
                      /\ Current(s)' => entry'[s] = entry[s]
  BY <1>1, <1>2 DEF Current
<1> QED
  BY <1>1, <1>3, DropHeld

LEMMA WaitHeld ==
  ASSUME Inv, HeldOK, WaitExit
  PROVE  HeldOK'
<1>1. /\ stack' = stack /\ op' = op /\ UNCHANGED osvars /\ Seqs' = Seqs
      /\ \A s \in Seqs :
           \/ entry'[s] = entry[s]
           \/ entry'[s] = Freed /\ status[entry[s].pid] = "gone"
           \/ /\ entry'[s].pid = entry[s].pid /\ status[entry[s].pid] = "gone"
              /\ entry'[s].full = entry[s].full /\ entry'[s].freed = entry[s].freed
  BY WaitDoes
<1>2. Freed.full = {} /\ ~Freed.listed
  BY DEF Freed
<1>3. \A s \in Seqs : /\ entry'[s].full \subseteq entry[s].full
                      /\ Current(s)' => entry'[s] = entry[s]
  BY <1>1, <1>2 DEF Current, osvars
<1> QED
  BY <1>1, <1>3, DropHeld

\* The operations change no place in the list.
LEMMA ArriveTally ==
  ASSUME Inv, OpsRun, Unused, NEW t \in Threads, Arrive(t)
  PROVE  Tally(0, 0) /\ EarlierLives
<1>1. CASE Enter(t)
  <2>1. PICK p \in Pids, k \in Kinds : Begin(t, Doing(k, p, p), p, k # "paging")
    BY <1>1 DEF Enter
  <2>2. UNCHANGED osvars /\ entry' = entry
    BY <1>1 DEF Enter
  <2>3. PICK o, b : o = Doing(k, p, p) /\ b = (k # "paging")
    OBVIOUS
  <2>4. o.parent = 0 /\ b \in BOOLEAN /\ Begin(t, o, p, b)
    BY <2>1, <2>3 DEF Doing
  <2> QED
    BY <2>2, <2>4, SameLives, BeginTally
<1>2. CASE Exit(t)
  <2>1. PICK p \in Pids : /\ status' = [status EXCEPT ![p] = "exiting"]
                          /\ status[p] = "alive"
                          /\ Begin(t, Doing("exit", p, p), p, TRUE)
    BY <1>2 DEF Exit
  <2>2. life' = life /\ entry' = entry
    BY <1>2 DEF Exit
  <2>3. PICK o : o = Doing("exit", p, p)
    OBVIOUS
  <2>4. o.parent = 0 /\ Begin(t, o, p, TRUE)
    BY <2>1, <2>3 DEF Doing
  <2>5. EarlierLives
    BY <2>1, <2>2 DEF EarlierLives, Inv, TypeInv, SystemTyped
  <2> QED
    BY <2>2, <2>4, <2>5, BeginTally
<1>3. CASE Create(t)
  <2>1. PICK p \in Pids, q \in Pids :
          /\ life' = [life EXCEPT ![q] = @ + 1]
          /\ status' = [status EXCEPT ![q] = "born"]
          /\ Begin(t, Doing("create", p, q), p, TRUE)
    BY <1>3 DEF Create
  <2>2. entry' = entry
    BY <1>3 DEF Create
  <2>3. PICK o : o = Doing("create", p, q)
    OBVIOUS
  <2>4. o.parent = 0 /\ Begin(t, o, p, TRUE)
    BY <2>1, <2>3 DEF Doing
  <2>5. EarlierLives
    <3>1. life[q] \in Nat /\ life'[q] = life[q] + 1
      BY <2>1, ProcessAssumption DEF Inv, TypeInv, SystemTyped
    <3>2. \A r \in Pids : r # q => life'[r] = life[r] /\ status'[r] = status[r]
      BY <2>1 DEF Inv, TypeInv, SystemTyped
    <3>3. life'[q] <= 1 => life[q] = 0
      BY <3>1
    <3>4. life[q] = 0 => status[q] = "free"
      BY DEF Unused
    <3> QED
      BY <3>1, <3>2, <3>3, <3>4 DEF EarlierLives
  <2> QED
    BY <2>2, <2>4, <2>5, BeginTally
<1> QED
  BY <1>1, <1>2, <1>3 DEF Arrive

Works(t) ==
  \/ Skips(t) \/ Log(t) \/ CreateChild(t) \/ Parks(t)
  \/ ExitQuery(t) \/ ExitUnknown(t) \/ ExitLog(t) \/ ExitQueue(t)

LEMMA OperationTally ==
  ASSUME Inv, OpsRun, NEW t \in Threads, Works(t)
  PROVE  (\E z : Tally(0, z)) /\ EarlierLives
<1>1. CASE Skips(t) \/ Log(t)
  <2>0. PICK s \in Known \union {0} : s \in {0, Top(t).seq} /\ Deref(t, s)
    BY <1>1, ReportDoes
  <2>1. /\ Returned(t, Reports, "ref") /\ Finish(t) /\ Runs(t)
    BY <1>1, ReportDoes
  <2>2. /\ op[t].kind \in Reports /\ op[t] \in OpType /\ Len(stack[t]) = 1
    BY <2>1, AtReturn
  <2>3. stack[t] # << >> /\ ~Queues(t)
    <3>1. stack[t] # << >>
      BY <2>2
    <3> QED
      BY <2>2, <3>1 DEF Reports, Queues
  <2>4. Recount(0, s) /\ FullKept /\ ExitKept
    BY <2>0, DerefCounts
  <2>5. op' = [op EXCEPT ![t] = Idle] /\ stack' = [stack EXCEPT ![t] = << >>]
    BY <2>1 DEF Finish
  <2>6. Tally(0, s)
    BY <2>0, <2>3, <2>4, <2>5, BlankCall, IdleFields, DropTally
  <2>7. EarlierLives
    BY <2>1 DEF EarlierLives, Runs, Inv, TypeInv, SystemTyped, OpsRun, Creating
  <2> QED
    BY <2>6, <2>7
<1>2. CASE ExitUnknown(t) \/ ExitQueue(t)
  <2>1. /\ Finish(t) /\ Len(stack[t]) = 1 /\ life' = life
        /\ status' = [status EXCEPT ![op[t].pid] = "gone"]
    BY <1>2 DEF ExitUnknown, ExitQueue, ExitEnds, Returned
  <2>2. stack[t] # << >>
    <3>1. Len(stack[t]) = 1
      BY <2>1
    <3> QED
      BY <3>1
  <2>3. op' = [op EXCEPT ![t] = Idle] /\ stack' = [stack EXCEPT ![t] = << >>]
    BY <2>1 DEF Finish
  <2>4. Recount(0, 0) /\ FullKept
    <3>1. CASE entry' = entry
      BY <3>1, SameCounts
    <3>2. CASE /\ Returned(t, {"exit"}, "queue")
               /\ entry[Top(t).seq].exit = "held"
               /\ entry' = With(Top(t).seq, [entry[Top(t).seq] EXCEPT !.exit = "queued"])
      <4>1. Top(t).seq \in Seqs
        BY <3>2, AtReturn DEF Inv, ListInv, OpsOK
      <4>2. PICK s \in Seqs : s = Top(t).seq
        BY <4>1
      <4> QED
        BY <3>2, <4>2, ExitCounts
    <3> QED
      BY <1>2, <3>1, <3>2 DEF ExitUnknown, ExitQueue
  <2>5. Tally(0, 0)
    BY <2>2, <2>3, <2>4, BlankCall, IdleFields, DropTally
  <2>6. EarlierLives
    BY <2>1 DEF EarlierLives, Inv, TypeInv, SystemTyped
  <2> QED
    BY <2>5, <2>6
<1>3. CASE CreateChild(t) \/ Parks(t) \/ ExitQuery(t) \/ ExitLog(t)
  <2>1. \E z : Tally(0, z)
    BY <1>3, CreateChildTally, CreateParkTally, ExitGoesTally
  <2>2. UNCHANGED osvars
    BY <1>3 DEF CreateChild, Parks, CreatePark, ParkFails, ThreadStarts, ExitQuery, ExitLog
  <2> QED
    BY <2>1, <2>2, SameLives
<1> QED
  BY <1>1, <1>2, <1>3 DEF Works

LEMMA CallTally ==
  ASSUME Inv, NEW t \in Threads,
         Quiet(t) \/ FillTake(t) \/ FillLog(t) \/ FillParent(t)
  PROVE  (\E z : Tally(0, z)) /\ EarlierLives
<1>1. \E z : Tally(0, z)
  BY QuietTally, FillTakeTally, FillLogTally, FillParentTally
<1>2. UNCHANGED osvars
  BY QuietDoes DEF FillTake, FillLog, FillParent
<1> QED
  BY <1>1, <1>2, SameLives

-----------------------------------------------------------------------------
(* No INIT record.                                                         *)

LEMMA NoInitStays ==
  ASSUME Inv, NoInit, EarlierLives, FailedKept, table' = table,
         \A s \in Seqs' : ~entry'[s].freed =>
           \/ table[s] = << >>
           \/ s \in Seqs /\ ~entry[s].freed /\ entry'[s].pid = entry[s].pid
  PROVE  NoInit'
<1> SUFFICES ASSUME NEW s \in Seqs', ~entry'[s].freed,
                    entry'[s].pid \notin Started \union failed',
                    life'[entry'[s].pid] <= 1,
                    NEW i \in 1 .. Len(table[s])
             PROVE  table[s][i] # "init"
  BY DEF NoInit, Fresh
<1>1. CASE table[s] = << >>
  <2>1. Len(table[s]) = 0
    BY <1>1
  <2> QED
    BY <2>1
<1>2. CASE s \in Seqs /\ ~entry[s].freed /\ entry'[s].pid = entry[s].pid
  <2>1. entry[s].pid \in Pids
    BY <1>2, EntryTyped DEF Inv, TypeInv, EntryType
  <2>2. Fresh(entry[s].pid)
    BY <1>2, <2>1 DEF Fresh, EarlierLives, FailedKept
  <2> QED
    BY <1>2, <2>2 DEF NoInit
<1> QED
  BY <1>1, <1>2

LEMMA TallyNoInit ==
  ASSUME Inv, NoInit, EarlierLives, FailedKept, table' = table,
         NEW a, NEW z, Tally(a, z)
  PROVE  NoInit'
<1>1. Seqs' = Seqs
  BY RecountKeeps DEF Tally
<1>2. \A s \in Seqs : entry'[s].freed = entry[s].freed /\ entry'[s].pid = entry[s].pid
  BY DEF Tally, Recount
<1> QED
  BY <1>1, <1>2, NoInitStays

\* The call that releases a record is the one its operation made.
LEMMA ReleaseBase ==
  ASSUME Inv, OpsRun, LockOK, NestOK, NEW t \in Threads, FillRelease(t)
  PROVE  /\ Top(t) = Base(t) /\ Len(stack[t]) = 1 /\ Base(t).pc = "release"
         /\ Base(t).pid = Subject(t) /\ op[t].kind # "idle" /\ ~Stuck
<1>1. /\ stack[t] # << >> /\ Top(t).pc = "release" /\ Top(t) = stack[t][Len(stack[t])]
  BY AtTop DEF FillRelease
<1>2. PICK h \in {1, 2} : h = Len(stack[t])
  BY <1>1, StackHeight
<1>3. h = 1
  BY <1>1, <1>2 DEF NestOK
<1>4. Top(t) = Base(t) /\ Len(stack[t]) = 1 /\ Base(t).pc = "release"
  BY <1>1, <1>2, <1>3 DEF Base
<1>5. op[t].kind # "idle"
  BY <1>1 DEF Inv, ListInv, OpsOK
<1>6. logLock = t
  <2>1. 1 \in 1 .. Len(stack[t])
    BY <1>2, <1>3
  <2> QED
    BY <1>4, <2>1 DEF LockOK, Base
<1>7. ASSUME NEW u \in Threads, Len(stack[u]) = 2
      PROVE  FALSE
  <2>1. 1 \in 1 .. Len(stack[u]) /\ 1 < Len(stack[u])
    BY <1>7
  <2>2. stack[u][1].pc = "parent"
    BY <2>1 DEF Inv, ListInv, FramesOK
  <2>3. logLock = u
    BY <2>1, <2>2 DEF LockOK
  <2>4. Len(stack[u]) = 1
    BY <1>2, <1>3, <1>6, <2>3
  <2> QED
    BY <1>7, <2>4
<1> QED
  BY <1>4, <1>5, <1>7 DEF OpsRun, Stuck

LEMMA ReleaseNoInit ==
  ASSUME Inv, CountInv, StartInv, FailedKept, NEW t \in Threads, FillRelease(t)
  PROVE  NoInit'
<1> USE DEF StartInv
<1>1. PICK f : f = Top(t)
  OBVIOUS
<1>2. /\ f = Base(t) /\ Len(stack[t]) = 1 /\ f.pc = "release"
      /\ f.pid = Subject(t) /\ op[t].kind # "idle" /\ FreshOK
  BY <1>1, ReleaseBase
<1>3. /\ entry' = entry /\ f.seq \in Seqs
      /\ table' = Inserted(f.seq, IF f.full = {} THEN "init" ELSE "create")
  BY <1>1, ReleaseMoves
<1>4. UNCHANGED osvars
  BY DEF FillRelease
<1>5. f.full # {} \/ ~Fresh(f.pid)
  <2>1. Fresh(f.pid) => CallFresh(t)
    BY <1>2 DEF FreshOK, CallsFresh
  <2>2. CallFresh(t) => f.full # {}
    BY <1>2 DEF CallFresh, BornCall, ChildCall, RunningCall, Describes
  <2> QED
    BY <2>1, <2>2
<1>6. ~entry[f.seq].freed => entry[f.seq].pid = f.pid
  <2>1. <<t, 1>> \in Places /\ Frame(<<t, 1>>) = f
    BY <1>2, InPlaces DEF Frame, Base
  <2>2. f.seq # 0
    BY <1>3, SeqsBounded DEF Inv
  <2> QED
    BY <2>1, <2>2 DEF CountInv, FramePid
<1> SUFFICES ASSUME NEW s \in Seqs, ~entry[s].freed, Fresh(entry[s].pid),
                    NEW i \in 1 .. Len(table'[s])
             PROVE  table'[s][i] # "init"
  BY <1>3, <1>4 DEF NoInit, Seqs, Fresh, FailedKept, osvars
<1>7. s \in 1 .. MaxSeq
  BY SeqsBounded DEF Inv
<1>8. CASE s # f.seq
  <2>1. table'[s] = table[s]
    BY <1>3, <1>7, <1>8 DEF Inserted, Inv, TypeInv, ClientTyped
  <2> QED
    BY <2>1 DEF NoInit
<1>9. CASE s = f.seq
  <2>1. table'[s] = Append(table[s], "create")
    BY <1>3, <1>5, <1>6, <1>7, <1>9 DEF Inserted, Inv, TypeInv, ClientTyped
  <2>2. table[s] \in Seq({"init", "create"})
    BY <1>7 DEF Inv, TypeInv, ClientTyped
  <2>3. \A j \in 1 .. Len(table[s]) : table[s][j] # "init"
    BY DEF NoInit
  <2>4. i \in 1 .. Len(table[s]) + 1
    BY <2>1, <2>2, AppendProperties
  <2>5. table'[s][i] = IF i \in 1 .. Len(table[s]) THEN table[s][i] ELSE "create"
    BY <2>1, <2>2, <2>4
  <2> QED
    BY <2>3, <2>5
<1> QED
  BY <1>8, <1>9

LEMMA FindNoInit ==
  ASSUME Inv, CountInv, NoInit, FailedKept, NEW t \in Threads, Finds(t)
  PROVE  NoInit'
<1>1. UNCHANGED <<osvars, logLock, op, freeing, uservars>>
  BY FindDoes
<1>2. EarlierLives /\ table' = table
  BY <1>1, SameLives DEF uservars
<1>3. PICK g \in FrameType :
        \/ Recount(g.seq, 0)
        \/ /\ Len(entry) + 1 \in 1 .. MaxSeq
           /\ Len(entry') = Len(entry) + 1
           /\ \A s \in Seqs : entry'[s] = entry[s]
        \/ entry' = entry
  BY FindDoes
<1>4. \A s \in Seqs' \ Seqs : table[s] = << >>
  <2>1. CASE Len(entry) + 1 \in 1 .. MaxSeq /\ Len(entry') = Len(entry) + 1
    <3>1. Len(entry) \in Nat /\ Seqs = 1 .. Len(entry) /\ Seqs' = 1 .. Len(entry')
      BY SeqsBounded DEF Seqs, Inv
    <3>2. \A s \in Seqs' \ Seqs : s \in (1 .. MaxSeq) \ Seqs
      BY <2>1, <3>1
    <3> QED
      BY <3>2 DEF CountInv, Later
  <2>2. CASE Len(entry') = Len(entry)
    BY <2>2 DEF Seqs
  <2> QED
    BY <1>3, <2>1, <2>2 DEF Recount
<1>5. \A s \in Seqs : entry'[s].freed = entry[s].freed /\ entry'[s].pid = entry[s].pid
  BY <1>3 DEF Recount
<1> QED
  BY <1>2, <1>4, <1>5, NoInitStays

LEMMA InsertNoInit ==
  ASSUME Inv, NoInit, FailedKept, NEW t \in Threads, Insert(t)
  PROVE  NoInit'
<1>1. PICK m : m = Top(t).mine
  OBVIOUS
<1>2. /\ m \in Seqs \ Known /\ ~entry[m].freed
      /\ UNCHANGED <<osvars, logLock, op, freeing, uservars>>
      /\ Len(entry') = Len(entry)
  BY <1>1, InsertDoes
<1>3. EarlierLives /\ table' = table /\ Seqs' = Seqs
  BY <1>2, SameLives DEF uservars, Seqs
<1>4. /\ \A s \in Seqs : s # m => entry'[s].freed = entry[s].freed /\ entry'[s].pid = entry[s].pid
      /\ entry'[m] = Freed \/ entry'[m].pid = entry[m].pid
  BY <1>1, <1>2, InsertDoes, EntryTyped, CountFields DEF Inserts, Inv, TypeInv
<1>5. Freed.freed
  BY DEF Freed
<1> QED
  BY <1>2, <1>3, <1>4, <1>5, NoInitStays

LEMMA FreeNoInit ==
  ASSUME Inv, HeldOK, NoInit, FailedKept, NEW t \in Threads, FreeEntry(t)
  PROVE  NoInit'
<1>1. /\ UNCHANGED osvars /\ table' = table /\ Seqs' = Seqs
      /\ \A s \in Seqs : entry'[s] = entry[s] \/ entry'[s] = Freed
  BY FreeDoes
<1>2. Freed.freed
  BY DEF Freed
<1> QED
  BY <1>1, <1>2, SameLives, NoInitStays

LEMMA WaitNoInit ==
  ASSUME Inv, NoInit, FailedKept, WaitExit
  PROVE  NoInit'
<1>1. /\ UNCHANGED osvars /\ table' = table /\ Seqs' = Seqs
      /\ \A s \in Seqs :
           \/ entry'[s] = entry[s]
           \/ entry'[s] = Freed
           \/ entry'[s].pid = entry[s].pid /\ entry'[s].freed = entry[s].freed
  BY WaitDoes
<1>2. Freed.freed
  BY DEF Freed
<1> QED
  BY <1>1, <1>2, SameLives, NoInitStays

\* What describes a process that runs already, other than the mutex and the
\* description of the new ones.
LEMMA PlainStep ==
  ASSUME Inv, CountInv, StartInv, FailedKept, Next
  PROVE  HeldOK' /\ NoInit'
<1> USE DEF StartInv
<1>1. ASSUME NEW t \in Threads, Arrive(t) PROVE HeldOK' /\ NoInit'
  <2>1. Tally(0, 0) /\ EarlierLives
    BY <1>1, ArriveTally
  <2>2. table' = table
    BY <1>1 DEF Arrive, Enter, Create, Exit, uservars
  <2> QED
    BY <2>1, <2>2, TallyHeld, TallyNoInit
<1>2. ASSUME NEW t \in Threads, Operation(t) PROVE HeldOK' /\ NoInit'
  <2>0. Works(t)
    BY <1>2 DEF Operation, Works, Parks, Skips
  <2>1. (\E z : Tally(0, z)) /\ EarlierLives
    BY <2>0, OperationTally
  <2>2. table' = table
    BY <2>0 DEF Works, Skips, Skip, SkipUnmarked, Log, CreateChild, Parks, CreatePark, ParkFails, ThreadStarts, ExitQuery, ExitUnknown,
                ExitLog, ExitQueue, uservars
  <2> QED
    BY <2>1, <2>2, TallyHeld, TallyNoInit
<1>3. ASSUME NEW t \in Threads, Ref(t) PROVE HeldOK' /\ NoInit'
  <2>1. CASE Finds(t)
    BY <2>1, FindHeld, FindNoInit
  <2>2. CASE Insert(t)
    BY <2>2, InsertHeld, InsertNoInit
  <2>3. CASE FreeEntry(t)
    BY <2>3, FreeHeld, FreeNoInit
  <2>4. CASE Quiet(t) \/ FillTake(t) \/ FillLog(t) \/ FillParent(t)
    <3>1. (\E z : Tally(0, z)) /\ EarlierLives
      BY <2>4, CallTally
    <3>2. CASE FillRelease(t)
      BY <3>1, <3>2, TallyHeld, ReleaseNoInit
    <3>3. CASE ~FillRelease(t)
      <4>1. table' = table
        BY <2>4, <3>3 DEF Quiet, Check, FillStart, FillFails, FillRefused, LogStart,
                          FillTake, FillLog, FillParent, uservars
      <4> QED
        BY <3>1, <4>1, TallyHeld, TallyNoInit
    <3> QED
      BY <3>2, <3>3
  <2> QED
    BY <1>3, <2>1, <2>2, <2>3, <2>4 DEF Ref, Fill, Quiet, Finds
<1>4. CASE WaitExit
  BY <1>4, WaitHeld, WaitNoInit
<1> QED
  BY <1>1, <1>2, <1>3, <1>4 DEF Next

-----------------------------------------------------------------------------
(* The entries of a process over a step.                                   *)

\* They stay and say what they said; and none shows details it did not show.
Settled(p) ==
  \A s \in Listed(p) :
    /\ s \in Listed(p)'
    /\ entry'[s].full = entry[s].full
    /\ entry[s].init => entry'[s].init
NoNew(p) ==
  \A s \in Listed(p)' :
    entry'[s].full = {} \/ (s \in Listed(p) /\ entry'[s].full = entry[s].full)

LEMMA LikeSettled ==
  ASSUME NEW p, \A s \in Seqs : s \in Seqs' /\ Like(entry'[s], entry[s]),
         \A s \in Seqs' \ Seqs : ~entry'[s].listed
  PROVE  Settled(p) /\ NoNew(p)
BY DEF Settled, NoNew, Listed, Like

LEMMA SameSettled ==
  ASSUME NEW p, entry' = entry
  PROVE  Settled(p) /\ NoNew(p)
BY DEF Settled, NoNew, Listed, Seqs

\* The entry that a call points to is of its process.
LEMMA TopEntry ==
  ASSUME Inv, CountInv, NEW t \in Threads, stack[t] # << >>, Top(t).seq \in Seqs,
         entry[Top(t).seq].listed
  PROVE  entry[Top(t).seq].pid = Top(t).pid
<1>1. TopOf(t) \in Places /\ Frame(TopOf(t)) = Top(t)
  BY TopPlace
<1>2. Top(t).seq # 0 /\ ~entry[Top(t).seq].freed
  BY SeqsBounded DEF Inv, ListInv, EntriesOK
<1> QED
  BY <1>1, <1>2 DEF CountInv, FramePid

LEMMA InsertSettled ==
  ASSUME Inv, NEW t \in Threads, Insert(t), NEW p
  PROVE  Settled(p) /\ NoNew(p)
<1>1. PICK m : m = Top(t).mine
  OBVIOUS
<1>2. /\ m \in Seqs \ Known /\ Seqs' = Seqs
      /\ entry'[m].full = {}
      /\ \A s \in Seqs : s # m => Like(entry'[s], entry[s])
  BY <1>1, InsertMoves
<1> QED
  BY <1>2 DEF Settled, NoNew, Listed, Like, Known

LEMMA FailSettled ==
  ASSUME Inv, CountInv, NEW t \in Threads, FillFails(t), NEW p
  PROVE  /\ p # Top(t).pid => Settled(p)
         /\ NoNew(p)
<1>1. PICK s : s = Top(t).seq
  OBVIOUS
<1>2. /\ s \in Seqs /\ Seqs' = Seqs
      /\ \A r \in Seqs : r # s => entry'[r] = entry[r]
      /\ entry'[s].pid = entry[s].pid /\ entry'[s].listed = entry[s].listed
      /\ entry'[s].full = entry[s].full
  BY <1>1, FailMoves
<1>3. stack[t] # << >>
  BY AtTop DEF FillFails
<1>4. entry[s].listed => entry[s].pid = Top(t).pid
  BY <1>1, <1>2, <1>3, TopEntry
<1> QED
  BY <1>2, <1>4 DEF Settled, NoNew, Listed

LEMMA RefusedSettled ==
  ASSUME Inv, CountInv, NEW t \in Threads, FillRefused(t), NEW p
  PROVE  /\ p # Top(t).pid => Settled(p)
         /\ NoNew(p)
<1>1. PICK s : s = Top(t).seq
  OBVIOUS
<1>2. /\ s \in Seqs /\ Seqs' = Seqs
      /\ \A r \in Seqs : r # s => Like(entry'[r], entry[r])
      /\ entry'[s].pid = entry[s].pid /\ entry'[s].listed = entry[s].listed
      /\ entry'[s].full = entry[s].full
  BY <1>1, RefusedMoves
<1>3. stack[t] # << >>
  BY AtTop DEF FillRefused
<1>4. entry[s].listed => entry[s].pid = Top(t).pid
  BY <1>1, <1>2, <1>3, TopEntry
<1> QED
  BY <1>2, <1>4 DEF Settled, NoNew, Listed, Like

LEMMA FreeSettled ==
  ASSUME Inv, HeldOK, NEW t \in Threads, FreeEntry(t), NEW p
  PROVE  /\ Fresh(p) /\ status[p] # "gone" => Settled(p)
         /\ NoNew(p)
<1>1. /\ Seqs' = Seqs
      /\ \A s \in Seqs : \/ entry'[s] = entry[s]
                         \/ entry'[s] = Freed /\ ~Current(s)
  BY FreeDoes
<1>2. ~Freed.listed
  BY DEF Freed
<1> QED
  BY <1>1, <1>2 DEF Settled, NoNew, Listed, Fresh, Current

LEMMA WaitSettled ==
  ASSUME Inv, WaitExit, NEW p
  PROVE  /\ status[p] # "gone" => Settled(p)
         /\ NoNew(p)
<1>1. /\ Seqs' = Seqs
      /\ \A s \in Seqs :
           \/ entry'[s] = entry[s]
           \/ entry'[s] = Freed /\ status[entry[s].pid] = "gone"
           \/ /\ entry'[s].pid = entry[s].pid /\ status[entry[s].pid] = "gone"
              /\ entry'[s].full = entry[s].full /\ entry'[s].listed = entry[s].listed
  BY WaitDoes
<1>2. ~Freed.listed
  BY DEF Freed
<1> QED
  BY <1>1, <1>2 DEF Settled, NoNew, Listed

LEMMA TakeSettled ==
  ASSUME Inv, CountInv, NEW t \in Threads, FillTake(t), NEW p
  PROVE  /\ p # Top(t).pid => Settled(p)
         /\ NoNew(p)
<1>1. PICK s : s = Top(t).seq
  OBVIOUS
<1>2. /\ s \in Seqs /\ Seqs' = Seqs
      /\ \A r \in Seqs : r # s => entry'[r] = entry[r]
      /\ entry'[s].pid = entry[s].pid /\ entry'[s].listed = entry[s].listed
      /\ entry'[s].full = {}
  BY <1>1, TakeMoves
<1>3. stack[t] # << >>
  BY AtTop DEF FillTake
<1>4. entry[s].listed => entry[s].pid = Top(t).pid
  BY <1>1, <1>2, <1>3, TopEntry
<1> QED
  BY <1>2, <1>4 DEF Settled, NoNew, Listed

-----------------------------------------------------------------------------
(* A new process is described still.                                       *)

LEMMA EntryStays ==
  ASSUME NEW p, EntryFresh(p), NoNew(p), Early(p)' => Early(p),
         status'[p] \in {"alive", "exiting"} =>
           status[p] \in {"alive", "exiting"} /\ Settled(p)
  PROVE  EntryFresh(p)'
<1>1. Early(p)' => \A s \in Listed(p)' : entry'[s].full = {}
  BY DEF EntryFresh, NoNew
<1>2. ASSUME status'[p] \in {"alive", "exiting"}
      PROVE  \E s \in Listed(p)' : entry'[s].init /\ entry'[s].full = {}
  BY <1>2 DEF EntryFresh, Settled
<1> QED
  BY <1>1, <1>2 DEF EntryFresh

\* What the call f of an operation o about a new process p must find.
CallFits(o, f, p) ==
  IF o.kind = "thread" THEN BornCall(f, p)
  ELSE IF o.kind = "create" /\ o.step = "child" THEN ChildCall(f, p)
  ELSE RunningCall(f, p)

LEMMA FitsCall ==
  ASSUME NEW t, NEW p, p = Subject(t)
  PROVE  CallFresh(t) <=> CallFits(op[t], Base(t), p)
BY DEF CallFresh, CallFits, Subject, ForChild

LEMMA FitsCallNext ==
  ASSUME NEW t, NEW p, p = Subject(t)', NEW g, g = Base(t)', NEW o, o = op'[t],
         CallFits(o, g, p)'
  PROVE  CallFresh(t)'
BY DEF CallFresh, CallFits, Subject, ForChild

\* The call is where it was.
LEMMA FitsStays ==
  ASSUME NEW o, NEW d, NEW f, NEW p, CallFits(o, f, p), Settled(p),
         d.kind = o.kind, o.kind = "create" => d.step = o.step
  PROVE  CallFits(d, f, p)'
<1>1. BornCall(f, p) => BornCall(f, p)'
  BY DEF BornCall, Describes, Settled
<1>2. ChildCall(f, p) => ChildCall(f, p)'
  BY DEF ChildCall, Settled
<1>3. RunningCall(f, p) => RunningCall(f, p)'
  BY DEF RunningCall, Settled
<1> QED
  BY <1>1, <1>2, <1>3 DEF CallFits

\* Another thread's operation is not about the process that a thread creates.
LEMMA Apart ==
  ASSUME Inv, OpsRun, NEW t \in Threads, NEW u \in Threads, u # t, op[u].kind # "idle"
  PROVE  /\ Subject(u) \in Pids /\ status[Subject(u)] \notin {"free", "gone"}
         /\ Creating(t) => Subject(u) # op[t].about
<1>1. Subject(u) \in Pids /\ status[op[u].pid] \in {"alive", "exiting"}
  BY RunTyped
<1>2. ForChild(u) => Creating(u)
  BY DEF ForChild, Creating
<1>3. Creating(u) => status[op[u].about] = "born"
  BY DEF OpsRun
<1>4. Creating(t) => status[op[t].about] = "born"
  BY DEF OpsRun
<1>5. Creating(t) /\ Creating(u) => op[u].about # op[t].about
  BY DEF OpsRun
<1> QED
  BY <1>1, <1>2, <1>3, <1>4, <1>5 DEF Subject

\* A new process that is there, other than the one that thread t creates.
Elsewhere(t, p) ==
  /\ Remains(p) /\ status[p] \notin {"free", "gone"}
  /\ Creating(t) => p # op[t].about

\* The calls of the other threads.
LEMMA OthersFresh ==
  ASSUME Inv, OpsRun, CallsFresh, EarlierLives, FailedKept, NEW t \in Threads,
         NEW u \in Threads, u # t, op'[u] = op[u], stack'[u] = stack[u],
         \A p \in Pids : Elsewhere(t, p) => Settled(p),
         op'[u].kind # "idle", Fresh(Subject(u))'
  PROVE  CallFresh(u)'
<1>1. PICK p : p = Subject(u)
  OBVIOUS
<1>2. /\ p \in Pids /\ status[p] \notin {"free", "gone"}
      /\ Creating(t) => p # op[t].about
  BY <1>1, Apart
<1>3. p = Subject(u)' /\ Base(u)' = Base(u)
  BY <1>1 DEF Subject, ForChild, Base
<1>4. Fresh(p) /\ Remains(p)
  <2>1. p \notin Started \union failed' /\ life'[p] <= 1
    BY <1>3 DEF Fresh
  <2> QED
    BY <1>2, <2>1 DEF Fresh, EarlierLives, FailedKept, Remains
<1>5. Settled(p)
  BY <1>2, <1>4 DEF Elsewhere
<1>6. CallFits(op[u], Base(u), p)
  BY <1>1, <1>4, FitsCall DEF CallsFresh
<1>7. PICK o, f : o = op[u] /\ f = Base(u)
  OBVIOUS
<1>8. CallFits(o, f, p)'
  BY <1>5, <1>6, <1>7, FitsStays
<1> QED
  BY <1>3, <1>7, <1>8, FitsCallNext

\* The entries, over a step of a call.
LEMMA EntriesStay ==
  ASSUME EntriesFresh, FailedKept, UNCHANGED <<osvars, op>>,
         \A p \in Pids :
           /\ NoNew(p)
           /\ Remains(p) /\ status[p] \in {"alive", "exiting"} => Settled(p)
  PROVE  EntriesFresh'
<1> SUFFICES ASSUME NEW p \in Pids, Remains(p)
             PROVE  EntryFresh(p)'
  BY DEF EntriesFresh, Fresh, FailedKept, Remains, osvars
<1>1. EntryFresh(p) /\ NoNew(p)
  BY DEF EntriesFresh, Remains
<1>2. Early(p)' => Early(p)
  BY DEF Early, osvars
<1>3. status' = status
  BY DEF osvars
<1>4. status[p] \in {"alive", "exiting"} => Settled(p)
  OBVIOUS
<1> QED
  BY <1>1, <1>2, <1>3, <1>4, EntryStays

\* A step of a call: to be shown are the entries, and its own operation.
LEMMA CallStep ==
  ASSUME Inv, OpsRun, FreshOK, FailedKept, UNCHANGED <<osvars, op>>, NEW t \in Threads,
         \A u \in Threads : u # t => stack'[u] = stack[u],
         \A p \in Pids : NoNew(p) /\ (Elsewhere(t, p) => Settled(p)),
         op[t].kind # "idle" /\ Remains(Subject(t)) => CallFresh(t)'
  PROVE  FreshOK'
<1>1. EarlierLives
  BY SameLives
<1>2. CallsFresh'
  <2> SUFFICES ASSUME NEW u \in Threads, op'[u].kind # "idle", Fresh(Subject(u))'
               PROVE  CallFresh(u)'
    BY DEF CallsFresh
  <2>1. CASE u # t
    <3>1. op'[u] = op[u] /\ stack'[u] = stack[u] /\ CallsFresh
      BY <2>1 DEF FreshOK
    <3>2. \A p \in Pids : Elsewhere(t, p) => Settled(p)
      OBVIOUS
    <3> QED
      BY <1>1, <2>1, <3>1, <3>2, OthersFresh
  <2>2. CASE u = t
    <3>1. op[t].kind # "idle" /\ Remains(Subject(t))
      BY <2>2 DEF Fresh, FailedKept, Remains, Subject, ForChild, osvars
    <3> QED
      BY <2>2, <3>1
  <2> QED
    BY <2>1, <2>2
<1>3. EntriesFresh'
  <2>1. \A p \in Pids :
          /\ NoNew(p)
          /\ Remains(p) /\ status[p] \in {"alive", "exiting"} => Settled(p)
    BY DEF OpsRun, Elsewhere
  <2> QED
    BY <2>1, EntriesStay DEF FreshOK
<1> QED
  BY <1>2, <1>3 DEF FreshOK

\* Where the call of the operation itself is as it was.
LEMMA SameCall ==
  ASSUME Inv, OpsRun, FreshOK, NEW t \in Threads, UNCHANGED op, Base(t)' = Base(t),
         op[t].kind # "idle", NEW p, p = Subject(t), Fresh(p), Settled(p)
  PROVE  CallFresh(t)'
<1>1. PICK o, f : o = op[t] /\ f = Base(t)
  OBVIOUS
<1>2. CallFits(o, f, p)
  BY <1>1, FitsCall DEF FreshOK, CallsFresh
<1>3. CallFits(o, f, p)'
  BY <1>1, <1>2, FitsStays
<1>4. p = Subject(t)' /\ f = Base(t)' /\ o = op'[t]
  BY <1>1 DEF Subject, ForChild
<1> QED
  BY <1>3, <1>4, FitsCallNext

-----------------------------------------------------------------------------
(* The calls for a new process.                                            *)

\* The call f of operation o for a new process p, with what is known of its
\* entry.
Own(o, f, p) ==
  /\ CallFits(o, f, p)
  /\ \A s, r \in Listed(p) : s = r
  /\ o.kind # "thread" => \A s \in Listed(p) : entry[s].full = {}
  /\ ~(o.kind = "thread" \/ (o.kind = "create" /\ o.step = "child")) =>
       Listed(p) # {} /\ \A s \in Listed(p) : entry[s].init

LEMMA OwnCall ==
  ASSUME Inv, OpsRun, FreshOK, NEW t \in Threads, op[t].kind # "idle",
         NEW o, o = op[t], NEW f, f = Base(t), NEW p, p = Subject(t), Fresh(p)
  PROVE  Own(o, f, p)
<1>1. p \in Pids /\ op[t].pid \in Pids /\ op[t].about \in Pids
  BY RunTyped
<1>2. CallFits(o, f, p)
  BY FitsCall DEF FreshOK, CallsFresh
<1>3. \A s, r \in Listed(p) : s = r
  BY DEF Listed, Inv, OneOfEach
<1>4. EntryFresh(p)
  BY <1>1 DEF FreshOK, EntriesFresh
<1>5. CASE o.kind = "thread"
  BY <1>2, <1>3, <1>5 DEF Own
<1>6. CASE o.kind = "create" /\ o.step = "child"
  <2>1. Early(p)
    BY <1>6 DEF Early, Subject, ForChild
  <2> QED
    BY <1>2, <1>3, <1>4, <1>6, <2>1 DEF Own, EntryFresh
<1>7. CASE ~ForChild(t)
  <2>1. status[p] \in {"alive", "exiting"}
    BY <1>7, RunTyped DEF Subject
  <2>2. \E s \in Listed(p) : entry[s].init /\ entry[s].full = {}
    BY <1>4, <2>1 DEF EntryFresh
  <2> QED
    BY <1>2, <1>3, <1>7, <2>2 DEF Own, ForChild
<1> QED
  BY <1>5, <1>6, <1>7 DEF ForChild

\* The steps of such a call that leave what the entry says.
Advance(f, g, p) ==
  \/ /\ f.pc = "find"
     /\ \/ g.pc = "check" /\ g.seq \in Listed(p)
        \/ g.pc = "insert" /\ Listed(p) = {}
  \/ /\ f.pc = "insert" /\ g.pc \in {"check", "fill"} /\ (g.pc = "fill" => g.sync)
     /\ g.seq \in Listed(p)'
  \/ /\ f.pc = "check" /\ g.seq = f.seq
     /\ g.pc = IF entry[g.seq].full # {} \/ (g.sync /\ ~entry[g.seq].init)
               THEN "fill" ELSE "return"
  \/ f.pc = "fill" /\ g.pc = "query" /\ g.seq = f.seq /\ entry'[g.seq].init
  \/ f.pc = "log" /\ g.pc = "parent" /\ g.seq = f.seq /\ g.full = f.full
  \/ f.pc = "parent" /\ g.pc = "release" /\ g.seq = f.seq /\ g.full = f.full
  \/ /\ f.pc = "release" /\ g.pc \in {"start", "check", "return"} /\ g.seq = f.seq
     /\ f.full # {} => g.pc = "start"
  \/ f.pc = "start" /\ g.pc \in {"check", "return"} /\ g.seq = f.seq

LEMMA Advances ==
  ASSUME NEW o, NEW f, NEW g, NEW p, Own(o, f, p), Settled(p), g.sync = f.sync,
         Advance(f, g, p)
  PROVE  CallFits(o, g, p)'
<1>1. CASE o.kind = "thread"
  <2>1. PICK s \in Listed(p) : /\ f.pc # "find" => f.seq = s
                               /\ Describes(f, entry[s])
    BY <1>1 DEF Own, CallFits, BornCall
  <2>2. /\ s \in Listed(p)' /\ entry'[s].full = entry[s].full
        /\ entry[s].init => entry'[s].init
    BY <2>1 DEF Settled
  <2>3. \A r \in Listed(p) : r = s
    BY <2>1 DEF Own
  <2>4. g.seq = s /\ g.pc # "insert"
    BY <2>1, <2>3 DEF Advance, Describes, TakenPcs
  <2>5. Describes(g, entry'[s])
    <3>1. CASE f.pc \in {"find", "check"}
      BY <2>1, <2>2, <2>4, <3>1 DEF Advance, Describes, TakenPcs
    <3>2. CASE f.pc \in {"fill", "log", "parent"}
      BY <2>1, <2>2, <2>4, <3>2 DEF Advance, Describes, TakenPcs
    <3>3. CASE f.pc \in {"release", "start"}
      BY <2>1, <2>2, <2>4, <3>3 DEF Advance, Describes, TakenPcs
    <3> QED
      BY <2>1, <3>1, <3>2, <3>3 DEF Advance, Describes, TakenPcs
  <2>6. BornCall(g, p)'
    BY <2>2, <2>4, <2>5 DEF BornCall, Describes
  <2> QED
    BY <1>1, <2>6 DEF CallFits
<1>2. CASE o.kind = "create" /\ o.step = "child"
  <2>1. /\ ~f.sync /\ f.pc \in {"find", "insert", "check", "return"}
        /\ f.pc \in {"check", "return"} => f.seq \in Listed(p)
        /\ \A s \in Listed(p) : entry[s].full = {}
    BY <1>2 DEF Own, CallFits, ChildCall
  <2>2. \A s \in Listed(p) : s \in Listed(p)'
    BY DEF Settled
  <2>3. ChildCall(g, p)'
    BY <2>1, <2>2 DEF Advance, ChildCall
  <2> QED
    BY <1>2, <2>3 DEF CallFits
<1>3. CASE ~(o.kind = "thread" \/ (o.kind = "create" /\ o.step = "child"))
  <2>1. /\ f.pc \in {"find", "check", "return"}
        /\ f.pc = "check" => f.seq \in Listed(p)
        /\ Listed(p) # {}
        /\ \A s \in Listed(p) : entry[s].full = {} /\ entry[s].init
    BY <1>3 DEF Own, CallFits, RunningCall
  <2>2. \A s \in Listed(p) : s \in Listed(p)'
    BY DEF Settled
  <2>3. RunningCall(g, p)'
    BY <2>1, <2>2 DEF Advance, RunningCall
  <2> QED
    BY <1>3, <2>3 DEF CallFits
<1> QED
  BY <1>1, <1>2, <1>3

\* A step of the call that an operation made, or of one above it.
LEMMA AdvanceFresh ==
  ASSUME Inv, OpsRun, FreshOK, FailedKept, UNCHANGED <<osvars, op>>, NEW t \in Threads,
         \A u \in Threads : u # t => stack'[u] = stack[u],
         \A p \in Pids :
           NoNew(p) /\ (Remains(p) /\ status[p] \notin {"free", "gone"} => Settled(p)),
         op[t].kind # "idle",
         NEW f, f = Base(t), NEW g, g = Base(t)', NEW q, q = Subject(t),
         q \notin failed' => g = f \/ (g.sync = f.sync /\ Advance(f, g, q))
  PROVE  FreshOK'
<1>1. ASSUME Remains(q)
      PROVE  CallFresh(t)'
  <2>1. q \in Pids /\ status[q] \notin {"free", "gone"}
    <3>1. /\ op[t].pid \in Pids /\ op[t].about \in Pids
          /\ status[op[t].pid] \in {"alive", "exiting"}
      BY RunTyped
    <3>2. ForChild(t) => status[op[t].about] = "born"
      BY DEF OpsRun, ForChild, Creating
    <3> QED
      BY <3>1, <3>2 DEF Subject
  <2>2. Settled(q) /\ Fresh(q) /\ q \notin failed'
    BY <1>1, <2>1 DEF Remains
  <2>3. CASE g = f
    BY <2>2, <2>3, SameCall
  <2>4. CASE g.sync = f.sync /\ Advance(f, g, q)
    <3>1. PICK o : o = op[t]
      OBVIOUS
    <3>2. Own(o, f, q)
      BY <2>2, <3>1, OwnCall
    <3>3. CallFits(o, g, q)'
      BY <2>2, <2>4, <3>2, Advances
    <3>4. q = Subject(t)' /\ o = op'[t]
      BY <3>1 DEF Subject, ForChild
    <3> QED
      BY <3>3, <3>4, FitsCallNext
  <2> QED
    BY <2>2, <2>3, <2>4
<1>2. \A p \in Pids : NoNew(p) /\ (Elsewhere(t, p) => Settled(p))
  BY DEF Elsewhere
<1>3. Remains(Subject(t)) => CallFresh(t)'
  BY <1>1
<1> QED
  BY <1>2, <1>3, CallStep

LEMMA MovedBase ==
  ASSUME Inv, OpsRun, NestOK, NEW t \in Threads, NEW x, NEW g \in FrameType,
         Moves(t, x, g)
  PROVE  /\ \A u \in Threads : u # t => stack'[u] = stack[u]
         /\ op[t].kind # "idle"
         /\ \/ Len(stack[t]) = 1 /\ Base(t) = Top(t) /\ Base(t)' = g
            \/ Len(stack[t]) = 2 /\ Base(t)' = Base(t)
<1>1. /\ stack[t] # << >> /\ Top(t) = stack[t][Len(stack[t])] /\ SetTop(t, g)
  BY DEF Moves
<1>2. Len(stack[t]) \in {1, 2}
  BY <1>1, StackHeight
<1>3. /\ \A u \in Threads : u # t => stack'[u] = stack[u]
      /\ Base(t)' = IF Len(stack[t]) = 1 THEN g ELSE Base(t)
  BY <1>1, TopBase
<1>4. op[t].kind # "idle"
  BY <1>1 DEF Inv, ListInv, OpsOK
<1> QED
  BY <1>1, <1>2, <1>3, <1>4 DEF Base

LEMMA MoveFresh ==
  ASSUME Inv, OpsRun, NestOK, FreshOK, FailedKept, NEW t \in Threads, NEW x,
         NEW g \in FrameType, Moves(t, x, g),
         \A p \in Pids :
           NoNew(p) /\ (Remains(p) /\ status[p] \notin {"free", "gone"} => Settled(p)),
         NEW f, f = Top(t), NEW q, q = Subject(t),
         f.pid = q /\ q \notin failed' => Advance(f, g, q)
  PROVE  FreshOK'
<1>1. /\ \A u \in Threads : u # t => stack'[u] = stack[u]
      /\ op[t].kind # "idle"
      /\ \/ Len(stack[t]) = 1 /\ Base(t) = Top(t) /\ Base(t)' = g
         \/ Len(stack[t]) = 2 /\ Base(t)' = Base(t)
  BY MovedBase
<1>2. UNCHANGED <<osvars, op>> /\ g.sync = f.sync
  BY DEF Moves
<1>3. PICK b, c : b = Base(t) /\ c = Base(t)'
  OBVIOUS
<1>4. b.pid = q
  BY <1>1, <1>3 DEF OpsRun
<1>5. q \notin failed' => c = b \/ (c.sync = b.sync /\ Advance(b, c, q))
  BY <1>1, <1>2, <1>3, <1>4
<1> QED
  BY <1>1, <1>2, <1>3, <1>5, AdvanceFresh

LEMMA FindFresh ==
  ASSUME Inv, OpsRun, NestOK, FreshOK, FailedKept, NEW t \in Threads, Finds(t),
         Find(t) \/ Top(t).pid \in failed'
  PROVE  FreshOK'
<1>1. PICK g \in FrameType :
        /\ Moves(t, "find", g)
        /\ \/ g.pc = "check" /\ g.seq \in Listed(g.pid)
           \/ g.pc = "insert" /\ Listed(g.pid) = {}
           \/ g.pc = "return" /\ ~Find(t)
  BY FindMoves
<1>2. /\ \A s \in Seqs : s \in Seqs' /\ Like(entry'[s], entry[s])
      /\ \A s \in Seqs' \ Seqs : ~entry'[s].listed
  BY FindMoves
<1>3. \A p \in Pids : Settled(p) /\ NoNew(p)
  BY <1>2, LikeSettled
<1>4. PICK f, q : f = Top(t) /\ q = Subject(t)
  OBVIOUS
<1>5. f.pc = "find" /\ g.pid = f.pid
  BY <1>1, <1>4 DEF Moves
<1>6. f.pid = q /\ q \notin failed' => Advance(f, g, q)
  BY <1>1, <1>4, <1>5 DEF Advance
<1> QED
  BY <1>1, <1>3, <1>4, <1>6, MoveFresh

LEMMA InsertFresh ==
  ASSUME Inv, OpsRun, NestOK, FreshOK, FailedKept, NEW t \in Threads, Insert(t)
  PROVE  FreshOK'
<1>1. PICK g \in FrameType :
        /\ Moves(t, "insert", g)
        /\ g.seq \in Seqs /\ entry'[g.seq].listed /\ entry'[g.seq].pid = g.pid
        /\ g.pc \in {"check", "fill"}
        /\ g.pc = "fill" => g.sync
  BY InsertMoves
<1>2. Seqs' = Seqs
  BY InsertMoves
<1>3. \A p \in Pids : Settled(p) /\ NoNew(p)
  BY InsertSettled
<1>4. PICK f, q : f = Top(t) /\ q = Subject(t)
  OBVIOUS
<1>5. f.pc = "insert" /\ g.pid = f.pid
  BY <1>1, <1>4 DEF Moves
<1>6. f.pid = q => Advance(f, g, q)
  BY <1>1, <1>2, <1>5 DEF Advance, Listed
<1> QED
  BY <1>1, <1>3, <1>4, <1>6, MoveFresh

LEMMA CheckFresh ==
  ASSUME Inv, OpsRun, NestOK, FreshOK, FailedKept, NEW t \in Threads, Check(t)
  PROVE  FreshOK'
<1>1. PICK g \in FrameType :
        /\ Moves(t, "check", g) /\ g.seq = Top(t).seq
        /\ g.pc = IF entry[g.seq].full # {} \/ (g.sync /\ ~entry[g.seq].init)
                  THEN "fill" ELSE "return"
  BY CheckMoves
<1>2. entry' = entry
  BY CheckMoves
<1>3. \A p \in Pids : Settled(p) /\ NoNew(p)
  BY <1>2, SameSettled
<1>4. PICK f, q : f = Top(t) /\ q = Subject(t)
  OBVIOUS
<1>5. f.pc = "check"
  BY <1>1, <1>4 DEF Moves
<1>6. Advance(f, g, q)
  BY <1>1, <1>4, <1>5 DEF Advance
<1> QED
  BY <1>1, <1>3, <1>4, <1>6, MoveFresh

LEMMA StartFresh ==
  ASSUME Inv, OpsRun, NestOK, FreshOK, FailedKept, NEW t \in Threads, FillStart(t)
  PROVE  FreshOK'
<1>1. PICK g \in FrameType :
        Moves(t, "fill", g) /\ g.seq = Top(t).seq /\ g.pc = "query"
  BY StartMoves
<1>2. /\ entry'[Top(t).seq].init /\ Seqs' = Seqs
      /\ \A s \in Seqs : Like(entry'[s], entry[s])
  BY StartMoves
<1>3. \A p \in Pids : Settled(p) /\ NoNew(p)
  BY <1>2, LikeSettled
<1>4. PICK f, q : f = Top(t) /\ q = Subject(t)
  OBVIOUS
<1>5. f.pc = "fill"
  BY <1>1, <1>4 DEF Moves
<1>6. Advance(f, g, q)
  BY <1>1, <1>2, <1>4, <1>5 DEF Advance
<1> QED
  BY <1>1, <1>3, <1>4, <1>6, MoveFresh

LEMMA ReleaseFresh ==
  ASSUME Inv, OpsRun, NestOK, FreshOK, FailedKept, NEW t \in Threads, FillRelease(t) \/ LogStart(t)
  PROVE  FreshOK'
<1>1. PICK f, q : f = Top(t) /\ q = Subject(t)
  OBVIOUS
<1>2. \E x : \E g \in FrameType :
        /\ Moves(t, x, g) /\ g.seq = f.seq
        /\ \/ /\ x = "release" /\ g.pc \in {"start", "check", "return"}
              /\ f.full # {} => g.pc = "start"
           \/ x = "start" /\ g.pc \in {"check", "return"}
  BY <1>1, ReleaseMoves, LogStartMoves
<1>3. PICK x : \E g \in FrameType :
        /\ Moves(t, x, g) /\ g.seq = f.seq
        /\ \/ /\ x = "release" /\ g.pc \in {"start", "check", "return"}
              /\ f.full # {} => g.pc = "start"
           \/ x = "start" /\ g.pc \in {"check", "return"}
  BY <1>2
<1>4. PICK g \in FrameType :
        /\ Moves(t, x, g) /\ g.seq = f.seq
        /\ \/ /\ x = "release" /\ g.pc \in {"start", "check", "return"}
              /\ f.full # {} => g.pc = "start"
           \/ x = "start" /\ g.pc \in {"check", "return"}
  BY <1>3
<1>5. f.pc = x
  BY <1>1, <1>4 DEF Moves
<1>6. Advance(f, g, q)
  BY <1>4, <1>5 DEF Advance
<1>7. entry' = entry
  BY DEF FillRelease, LogStart
<1>8. \A p \in Pids : Settled(p) /\ NoNew(p)
  BY <1>7, SameSettled
<1> QED
  BY <1>1, <1>4, <1>6, <1>8, MoveFresh

LEMMA FailFresh ==
  ASSUME Inv, CountInv, OpsRun, NestOK, FreshOK, FailedKept, NEW t \in Threads,
         FillFails(t), Ended(Top(t).pid) \/ Top(t).pid \in failed'
  PROVE  FreshOK'
<1>1. PICK g \in FrameType : Moves(t, "query", g)
  BY FailMoves
<1>2. PICK f, q : f = Top(t) /\ q = Subject(t)
  OBVIOUS
<1>3. \A p \in Pids : NoNew(p) /\ (p # f.pid => Settled(p))
  BY <1>2, FailSettled
<1>4. status[f.pid] \in {"free", "gone"} \/ f.pid \in failed'
  BY <1>2 DEF Ended
<1>5. \A p \in Pids :
        NoNew(p) /\ (Remains(p) /\ status[p] \notin {"free", "gone"} => Settled(p))
  BY <1>3, <1>4 DEF Remains
<1>6. op[t].kind # "idle"
  BY <1>1, MovedBase
<1>7. status[q] \notin {"free", "gone"}
  <2>1. ForChild(t) => status[op[t].about] = "born"
    BY DEF OpsRun, ForChild, Creating
  <2> QED
    BY <1>2, <1>6, <2>1, RunTyped DEF Subject
<1>8. f.pid = q => q \in failed'
  BY <1>4, <1>7
<1> QED
  BY <1>1, <1>2, <1>5, <1>8, MoveFresh

\* A refused record: the entry is unmarked, and the process is fresh no more.
LEMMA RefusedFresh ==
  ASSUME Inv, CountInv, OpsRun, NestOK, FreshOK, FailedKept, NEW t \in Threads,
         FillRefused(t), Top(t).pid \in failed'
  PROVE  FreshOK'
<1>1. PICK g \in FrameType : Moves(t, "log", g)
  BY RefusedMoves
<1>2. PICK f, q : f = Top(t) /\ q = Subject(t)
  OBVIOUS
<1>3. \A p \in Pids : NoNew(p) /\ (p # f.pid => Settled(p))
  BY <1>2, RefusedSettled
<1>4. \A p \in Pids :
        NoNew(p) /\ (Remains(p) /\ status[p] \notin {"free", "gone"} => Settled(p))
  BY <1>2, <1>3 DEF Remains
<1> QED
  BY <1>1, <1>2, <1>4, MoveFresh

LEMMA LogFresh ==
  ASSUME Inv, OpsRun, LockOK, NestOK, FreshOK, FailedKept, NEW t \in Threads, FillLog(t)
  PROVE  FreshOK'
<1>1. PICK f, q : f = Base(t) /\ q = Subject(t)
  OBVIOUS
<1>2. Len(stack[t]) = 1 /\ f.pc = "log"
  BY <1>1, LogMoves
<1>3. PICK g, c \in FrameType :
        /\ Restacked(t, 0, <<g, c>>) /\ Base(t)' = g
        /\ g.sync = f.sync /\ g.seq = f.seq /\ g.full = f.full /\ g.pc = "parent"
  BY <1>1, LogMoves
<1>4. /\ UNCHANGED <<osvars, op>> /\ Seqs' = Seqs
      /\ \A s \in Seqs : Like(entry'[s], entry[s])
  BY LogMoves
<1>5. \A p \in Pids : Settled(p) /\ NoNew(p)
  BY <1>4, LikeSettled
<1>6. \A u \in Threads : u # t => stack'[u] = stack[u]
  BY <1>3 DEF Restacked
<1>7. op[t].kind # "idle"
  <2>1. stack[t] # << >>
    BY <1>2, SMTT(30)
  <2> QED
    BY <2>1 DEF Inv, ListInv, OpsOK
<1>8. Advance(f, g, q)
  BY <1>2, <1>3 DEF Advance
<1> QED
  BY <1>1, <1>3, <1>4, <1>5, <1>6, <1>7, <1>8, AdvanceFresh

LEMMA ParentFresh ==
  ASSUME Inv, OpsRun, LockOK, NestOK, FreshOK, FailedKept, NEW t \in Threads, FillParent(t)
  PROVE  FreshOK'
<1>1. PICK f, q : f = Base(t) /\ q = Subject(t)
  OBVIOUS
<1>2. Len(stack[t]) = 2 /\ f.pc = "parent"
  BY <1>1, ParentMoves
<1>3. PICK g \in FrameType :
        /\ Restacked(t, 0, <<g>>) /\ Base(t)' = g
        /\ g.sync = f.sync /\ g.seq = f.seq /\ g.full = f.full /\ g.pc = "release"
  BY <1>1, ParentMoves
<1>4. /\ UNCHANGED <<osvars, op>> /\ Seqs' = Seqs
      /\ \A s \in Seqs : Like(entry'[s], entry[s])
  BY ParentMoves
<1>5. \A p \in Pids : Settled(p) /\ NoNew(p)
  BY <1>4, LikeSettled
<1>6. \A u \in Threads : u # t => stack'[u] = stack[u]
  BY <1>3 DEF Restacked
<1>7. op[t].kind # "idle"
  <2>1. stack[t] # << >>
    BY <1>2, SMTT(30)
  <2> QED
    BY <2>1 DEF Inv, ListInv, OpsOK
<1>8. Advance(f, g, q)
  BY <1>2, <1>3 DEF Advance
<1> QED
  BY <1>1, <1>3, <1>4, <1>5, <1>6, <1>7, <1>8, AdvanceFresh

\* The details are taken from a new process by its own call, or by the call for
\* the parent, which is then stuck.
LEMMA TakeFresh ==
  ASSUME Inv, CountInv, OpsRun, NestOK, FreshOK, FailedKept, NEW t \in Threads,
         FillTake(t)
  PROVE  Stuck' \/ FreshOK'
<1>1. PICK f, s, q : f = Top(t) /\ s = f.seq /\ q = Subject(t)
  OBVIOUS
<1>2. PICK g \in FrameType :
        /\ Moves(t, "query", g) /\ g.seq = s /\ g.pc = "log" /\ g.full = entry[s].full
  BY <1>1, TakeMoves
<1>3. /\ s \in Seqs /\ Seqs' = Seqs
      /\ entry'[s].pid = entry[s].pid /\ entry'[s].listed = entry[s].listed
      /\ entry'[s].full = {} /\ entry'[s].init = entry[s].init
  BY <1>1, TakeMoves
<1>4. /\ \A u \in Threads : u # t => stack'[u] = stack[u]
      /\ op[t].kind # "idle"
      /\ \/ Len(stack[t]) = 1 /\ Base(t) = f /\ Base(t)' = g
         \/ Len(stack[t]) = 2 /\ Base(t)' = Base(t)
  BY <1>1, <1>2, MovedBase
<1>5. f.pc = "query" /\ UNCHANGED <<osvars, op>> /\ stack[t] # << >> /\ SetTop(t, g)
  BY <1>1, <1>2 DEF Moves
<1>6. CASE Len(stack[t]) = 2
  <2>1. Len(stack'[t]) = Len(stack[t]) /\ stack'[t][Len(stack[t])] = g
    BY <1>5, TopBase
  <2>2. Len(stack'[t]) = 2 /\ stack'[t][2].pc = "log"
    BY <1>2, <1>6, <2>1
  <2> QED
    BY <2>2 DEF Stuck
<1>7. CASE Base(t) = f /\ Base(t)' = g
  <2>1. f.pid = q
    BY <1>1, <1>4, <1>7 DEF OpsRun
  <2>2. \A p : NoNew(p) /\ (p # q => Settled(p))
    BY <1>1, <2>1, TakeSettled
  <2>3. PICK o : o = op[t]
    OBVIOUS
  <2>4. ASSUME Fresh(q)
        PROVE  o.kind = "thread" /\ q = op[t].about /\ CallFits(o, f, q)
    <3>1. Own(o, f, q)
      BY <1>1, <1>4, <1>7, <2>3, <2>4, OwnCall
    <3>2. CallFits(o, f, q) /\ o.kind = "thread"
      BY <1>5, <3>1 DEF Own, CallFits, ChildCall, RunningCall
    <3> QED
      BY <1>1, <2>3, <3>2 DEF Subject, ForChild
  <2>5. \A p \in Pids : NoNew(p) /\ (Elsewhere(t, p) => Settled(p))
    BY <2>2, <2>3, <2>4 DEF Elsewhere, Creating, Remains
  <2>6. ASSUME Remains(q)
        PROVE  CallFresh(t)'
    <3>1. BornCall(f, q) /\ o.kind = "thread"
      BY <2>4, <2>6 DEF CallFits, Remains
    <3>2. s \in Listed(q) /\ entry[s].full # {} /\ entry[s].init
      BY <1>1, <1>5, <3>1 DEF BornCall, Describes, TakenPcs
    <3>3. s \in Listed(q)'
      BY <1>3, <3>2 DEF Listed
    <3>4. Describes(g, entry'[s])
      BY <1>2, <1>3, <3>2 DEF Describes, TakenPcs
    <3>5. BornCall(g, q)'
      BY <1>2, <3>3, <3>4 DEF BornCall, Describes
    <3>6. CallFits(o, g, q)'
      BY <3>1, <3>5 DEF CallFits
    <3>7. q = Subject(t)' /\ o = op'[t]
      BY <1>1, <1>5, <2>3 DEF Subject, ForChild
    <3> QED
      BY <1>7, <3>6, <3>7, FitsCallNext
  <2> QED
    BY <1>1, <1>4, <1>5, <2>5, <2>6, CallStep
<1> QED
  BY <1>4, <1>6, <1>7

\* The end of DerefProcessInfo and the work item.
LEMMA StillFresh ==
  ASSUME Inv, OpsRun, FreshOK, FailedKept, stack' = stack, op' = op, UNCHANGED osvars,
         \A p \in Pids :
           NoNew(p) /\ (Remains(p) /\ status[p] # "gone" => Settled(p))
  PROVE  FreshOK'
<1>1. EntriesFresh'
  <2>1. \A p \in Pids :
          /\ NoNew(p)
          /\ Remains(p) /\ status[p] \in {"alive", "exiting"} => Settled(p)
    OBVIOUS
  <2> QED
    BY <2>1, EntriesStay DEF FreshOK
<1>2. CallsFresh'
  <2> SUFFICES ASSUME NEW u \in Threads, op[u].kind # "idle", Remains(Subject(u))
               PROVE  CallFresh(u)'
    BY DEF CallsFresh, Fresh, FailedKept, Remains, Subject, ForChild, osvars
  <2>1. PICK p : p = Subject(u)
    OBVIOUS
  <2>2. p \in Pids /\ status[p] # "gone"
    <3>1. ForChild(u) => status[op[u].about] = "born"
      BY DEF OpsRun, ForChild, Creating
    <3> QED
      BY <2>1, <3>1, RunTyped DEF Subject
  <2>3. Settled(p) /\ Fresh(p) /\ Base(u)' = Base(u)
    BY <2>1, <2>2 DEF Base, Remains
  <2> QED
    BY <2>1, <2>3, SameCall
<1> QED
  BY <1>1, <1>2 DEF FreshOK

LEMMA FreeFresh ==
  ASSUME Inv, OpsRun, HeldOK, FreshOK, FailedKept, NEW t \in Threads, FreeEntry(t)
  PROVE  FreshOK'
<1>1. stack' = stack /\ op' = op /\ UNCHANGED osvars
  BY FreeDoes
<1>2. \A p \in Pids : NoNew(p) /\ (Remains(p) /\ status[p] # "gone" => Settled(p))
  BY FreeSettled DEF Remains
<1> QED
  BY <1>1, <1>2, StillFresh

LEMMA WaitFresh ==
  ASSUME Inv, OpsRun, FreshOK, FailedKept, WaitExit
  PROVE  FreshOK'
<1>1. stack' = stack /\ op' = op /\ UNCHANGED osvars
  BY WaitDoes
<1>2. \A p \in Pids : NoNew(p) /\ (Remains(p) /\ status[p] # "gone" => Settled(p))
  BY WaitSettled DEF Remains
<1> QED
  BY <1>1, <1>2, StillFresh

-----------------------------------------------------------------------------
(* The operations and the new processes.                                   *)

\* An operation begins, goes on or ends: to be shown are the entries, and its
\* own call.
LEMMA OpStep ==
  ASSUME Inv, OpsRun, FreshOK, EarlierLives, FailedKept, NEW t \in Threads,
         NEW o, op' = [op EXCEPT ![t] = o],
         \A u \in Threads : u # t => stack'[u] = stack[u],
         \A p \in Pids : Elsewhere(t, p) => Settled(p),
         \A p \in Pids : Fresh(p)' => EntryFresh(p)',
         o.kind # "idle" /\ Fresh(Subject(t))' => CallFresh(t)'
  PROVE  FreshOK'
<1>1. op'[t] = o /\ \A u \in Threads : u # t => op'[u] = op[u]
  BY DEF Inv, TypeInv, DriverTyped
<1>2. EntriesFresh'
  BY DEF EntriesFresh
<1>3. CallsFresh'
  <2> SUFFICES ASSUME NEW u \in Threads, op'[u].kind # "idle", Fresh(Subject(u))'
               PROVE  CallFresh(u)'
    BY DEF CallsFresh
  <2>1. CASE u # t
    <3>1. op'[u] = op[u] /\ stack'[u] = stack[u] /\ CallsFresh
      BY <1>1, <2>1 DEF FreshOK
    <3> QED
      BY <2>1, <3>1, OthersFresh
  <2>2. CASE u = t
    BY <1>1, <2>2
  <2> QED
    BY <2>1, <2>2
<1> QED
  BY <1>2, <1>3 DEF FreshOK

\* Who is created still, or not yet.
LEMMA EarlyStep ==
  ASSUME Inv, NEW t \in Threads, NEW o, op' = [op EXCEPT ![t] = o], NEW p,
         status'[p] = "free" => status[p] = "free",
         o.kind = "create" /\ o.about = p =>
           status[p] = "free" \/ (op[t].kind = "create" /\ op[t].about = p),
         Early(p)'
  PROVE  Early(p)
<1>1. op'[t] = o /\ \A u \in Threads : u # t => op'[u] = op[u]
  BY DEF Inv, TypeInv, DriverTyped
<1>2. CASE status'[p] = "free"
  BY <1>2 DEF Early
<1>3. CASE \E u \in Threads : op'[u].kind = "create" /\ op'[u].about = p
  <2>1. PICK u \in Threads : op'[u].kind = "create" /\ op'[u].about = p
    BY <1>3
  <2>2. CASE u = t
    BY <1>1, <2>1, <2>2 DEF Early
  <2>3. CASE u # t
    BY <1>1, <2>1, <2>3 DEF Early
  <2> QED
    BY <2>2, <2>3
<1> QED
  BY <1>2, <1>3 DEF Early

\* A call that is made first runs in a live process.
LEMMA FirstCall ==
  ASSUME NEW t \in Threads, NEW o, op'[t] = o, NEW f, f = Base(t)',
         o.kind # "thread", o.kind = "create" => o.step = "ref", f.pc = "find"
  PROVE  CallFresh(t)'
<1>1. PICK p : p = Subject(t)'
  OBVIOUS
<1>2. RunningCall(f, p)'
  BY DEF RunningCall
<1>3. CallFits(o, f, p)'
  BY <1>2 DEF CallFits
<1> QED
  BY <1>1, <1>3, FitsCallNext

LEMMA BeginStep ==
  ASSUME Inv, OpsRun, FreshOK, EarlierLives, FailedKept, NEW t \in Threads, NEW o,
         NEW p \in Pids, NEW b \in BOOLEAN, Begin(t, o, p, b), entry' = entry,
         o.kind # "thread", o.kind = "create" => o.step = "ref",
         \A q \in Pids : Fresh(q)' =>
           /\ status'[q] = "free" => status[q] = "free"
           /\ status'[q] \in {"alive", "exiting"} => status[q] \in {"alive", "exiting"}
           /\ o.kind = "create" /\ o.about = q => status[q] = "free"
  PROVE  FreshOK'
<1>1. PICK f : f = Call(p, b)
  OBVIOUS
<1>2. f.pc = "find"
  BY <1>1, CallFields
<1>3. op' = [op EXCEPT ![t] = o] /\ stack' = [stack EXCEPT ![t] = <<f>>]
  BY <1>1 DEF Begin
<1>4. f = Base(t)' /\ \A u \in Threads : u # t => stack'[u] = stack[u]
  BY <1>3, CallsBase
<1>5. \A q : Settled(q) /\ NoNew(q)
  BY SameSettled
<1>6. ASSUME NEW q \in Pids, Fresh(q)'
      PROVE  EntryFresh(q)'
  <2>1. EntryFresh(q)
    BY <1>6 DEF FreshOK, EntriesFresh, Fresh, EarlierLives, FailedKept
  <2>2. Early(q)' => Early(q)
    BY <1>3, <1>6, EarlyStep
  <2>3. status'[q] \in {"alive", "exiting"} => status[q] \in {"alive", "exiting"}
    BY <1>6
  <2> QED
    BY <1>5, <2>1, <2>2, <2>3, EntryStays
<1>7. CallFresh(t)'
  <2>1. op'[t] = o
    BY <1>3 DEF Inv, TypeInv, DriverTyped
  <2> QED
    BY <1>2, <1>4, <2>1, FirstCall
<1>8. /\ \A q \in Pids : Elsewhere(t, q) => Settled(q)
      /\ \A q \in Pids : Fresh(q)' => EntryFresh(q)'
      /\ o.kind # "idle" /\ Fresh(Subject(t))' => CallFresh(t)'
  BY <1>5, <1>6, <1>7
<1> QED
  BY <1>3, <1>4, <1>8, OpStep

LEMMA ArriveFresh ==
  ASSUME Inv, OpsRun, Unused, FreshOK, FailedKept, NEW t \in Threads, Arrive(t)
  PROVE  FreshOK'
<1>0. EarlierLives
  BY ArriveTally
<1>1. CASE Enter(t)
  <2>1. PICK p \in Pids, k \in Kinds : Begin(t, Doing(k, p, p), p, k # "paging")
    BY <1>1 DEF Enter
  <2>2. status' = status /\ entry' = entry
    BY <1>1 DEF Enter, osvars
  <2>3. PICK o, b : o = Doing(k, p, p) /\ b = (k # "paging")
    OBVIOUS
  <2>4. /\ o.kind = k /\ k \notin {"create", "thread"} /\ b \in BOOLEAN
        /\ Begin(t, o, p, b)
    BY <2>1, <2>3, ProcessAssumption DEF Doing
  <2>5. \A q \in Pids : Fresh(q)' =>
           /\ status'[q] = "free" => status[q] = "free"
           /\ status'[q] \in {"alive", "exiting"} => status[q] \in {"alive", "exiting"}
           /\ o.kind = "create" /\ o.about = q => status[q] = "free"
    BY <2>2, <2>4
  <2>6. o.kind # "thread" /\ (o.kind = "create" => o.step = "ref")
    BY <2>4
  <2> QED
    BY <1>0, <2>2, <2>4, <2>5, <2>6, BeginStep
<1>2. CASE Exit(t)
  <2>1. PICK p \in Pids : /\ status[p] = "alive"
                          /\ status' = [status EXCEPT ![p] = "exiting"]
                          /\ Begin(t, Doing("exit", p, p), p, TRUE)
    BY <1>2 DEF Exit
  <2>2. entry' = entry
    BY <1>2 DEF Exit
  <2>3. PICK o : o = Doing("exit", p, p)
    OBVIOUS
  <2>4. o.kind = "exit" /\ Begin(t, o, p, TRUE)
    BY <2>1, <2>3 DEF Doing
  <2>5. \A q \in Pids : Fresh(q)' =>
           /\ status'[q] = "free" => status[q] = "free"
           /\ status'[q] \in {"alive", "exiting"} => status[q] \in {"alive", "exiting"}
           /\ o.kind = "create" /\ o.about = q => status[q] = "free"
    BY <2>1, <2>4 DEF Inv, TypeInv, SystemTyped
  <2>6. o.kind # "thread" /\ (o.kind = "create" => o.step = "ref")
    BY <2>4
  <2> QED
    BY <1>0, <2>2, <2>4, <2>5, <2>6, BeginStep
<1>3. CASE Create(t)
  <2>1. PICK p \in Pids, q \in Pids :
          /\ life' = [life EXCEPT ![q] = @ + 1]
          /\ status' = [status EXCEPT ![q] = "born"]
          /\ Begin(t, Doing("create", p, q), p, TRUE)
    BY <1>3 DEF Create
  <2>2. entry' = entry
    BY <1>3 DEF Create
  <2>3. PICK o : o = Doing("create", p, q)
    OBVIOUS
  <2>4. /\ o.kind = "create" /\ o.step = "ref" /\ o.about = q
        /\ Begin(t, o, p, TRUE)
    BY <2>1, <2>3 DEF Doing
  <2>5. Fresh(q)' => status[q] = "free"
    <3>1. life[q] \in Nat /\ life'[q] = life[q] + 1
      BY <2>1, ProcessAssumption DEF Inv, TypeInv, SystemTyped
    <3>2. Fresh(q)' => life'[q] <= 1
      BY DEF Fresh
    <3>3. life'[q] <= 1 => life[q] = 0
      BY <3>1
    <3> QED
      BY <3>2, <3>3 DEF Unused
  <2>6. /\ status'[q] = "born"
        /\ \A r \in Pids : r # q => status'[r] = status[r]
    BY <2>1 DEF Inv, TypeInv, SystemTyped
  <2>7. \A r \in Pids : Fresh(r)' =>
           /\ status'[r] = "free" => status[r] = "free"
           /\ status'[r] \in {"alive", "exiting"} => status[r] \in {"alive", "exiting"}
           /\ o.kind = "create" /\ o.about = r => status[r] = "free"
    BY <2>4, <2>5, <2>6
  <2>8. o.kind # "thread" /\ (o.kind = "create" => o.step = "ref")
    BY <2>4
  <2> QED
    BY <1>0, <2>2, <2>4, <2>7, <2>8, BeginStep
<1> QED
  BY <1>1, <1>2, <1>3 DEF Arrive

\* An operation that ends, or an exit that goes on.
LEMMA EndFresh ==
  ASSUME Inv, OpsRun, FreshOK, EarlierLives, FailedKept, NEW t \in Threads, Finish(t),
         Seqs' = Seqs, \A s \in Seqs : Like(entry'[s], entry[s]),
         \A p \in Pids :
           /\ status'[p] = "free" => status[p] = "free"
           /\ status'[p] \in {"alive", "exiting"} =>
                \/ status[p] \in {"alive", "exiting"}
                \/ op[t].kind = "thread" /\ p = op[t].about /\ Base(t).pc = "return"
  PROVE  FreshOK'
<1>1. op' = [op EXCEPT ![t] = Idle] /\ stack' = [stack EXCEPT ![t] = << >>]
  BY DEF Finish
<1>2. \A u \in Threads : u # t => stack'[u] = stack[u]
  BY <1>1 DEF Inv, TypeInv, StacksTyped
<1>3. \A p : Settled(p) /\ NoNew(p)
  BY LikeSettled
<1>4. ASSUME NEW p \in Pids, Fresh(p)'
      PROVE  EntryFresh(p)'
  <2>1. Fresh(p) /\ EntryFresh(p)
    BY <1>4 DEF FreshOK, EntriesFresh, Fresh, EarlierLives, FailedKept
  <2>2. Early(p)' => Early(p)
    BY <1>1, IdleFields, EarlyStep
  <2>3. CASE status'[p] \in {"alive", "exiting"} => status[p] \in {"alive", "exiting"}
    BY <1>3, <2>1, <2>2, <2>3, EntryStays
  <2>4. CASE op[t].kind = "thread" /\ p = op[t].about /\ Base(t).pc = "return"
    <3>1. p = Subject(t) /\ CallFits(op[t], Base(t), p)
      BY <2>1, <2>4, FitsCall DEF Subject, ForChild, FreshOK, CallsFresh
    <3>2. BornCall(Base(t), p)
      BY <2>4, <3>1 DEF CallFits
    <3>3. \E s \in Listed(p) : entry[s].init /\ entry[s].full = {}
      BY <2>4, <3>2 DEF BornCall, Describes, TakenPcs
    <3>4. \E s \in Listed(p)' : entry'[s].init /\ entry'[s].full = {}
      BY <1>3, <3>3 DEF Settled
    <3>5. /\ status[p] = "born"
          /\ \A u \in Threads : u # t => ~(op[u].kind = "create" /\ op[u].about = p)
      BY <2>4 DEF OpsRun, Creating
    <3>6. ~Early(p)
      BY <2>4, <3>5 DEF Early
    <3> QED
      BY <2>2, <3>4, <3>6 DEF EntryFresh
  <2> QED
    BY <2>3, <2>4
<1>5. Idle.kind = "idle"
  BY IdleFields
<1>6. /\ \A p \in Pids : Elsewhere(t, p) => Settled(p)
      /\ \A p \in Pids : Fresh(p)' => EntryFresh(p)'
      /\ Idle.kind # "idle" /\ Fresh(Subject(t))' => CallFresh(t)'
  BY <1>3, <1>4, <1>5
<1>7. PICK o : o = Idle
  OBVIOUS
<1> QED
  BY <1>1, <1>2, <1>6, <1>7, OpStep

LEMMA ReportFresh ==
  ASSUME Inv, OpsRun, FreshOK, FailedKept, NEW t \in Threads, Skips(t) \/ Log(t)
  PROVE  FreshOK'
<1>0. PICK z \in Known \union {0} : Deref(t, z)
  BY ReportDoes
<1>1. /\ Returned(t, Reports, "ref") /\ Finish(t) /\ Runs(t)
  BY ReportDoes
<1>2. Top(t).pc = "return" /\ Top(t) = Base(t)
  BY <1>1, AtReturn DEF Base
<1>3. Seqs' = Seqs /\ \A s \in Seqs : Like(entry'[s], entry[s])
  BY <1>0, DerefLike
<1>4. EarlierLives
  BY OperationTally DEF Works
<1>5. \A p \in Pids :
        \/ status'[p] = status[p]
        \/ op[t].kind = "thread" /\ p = op[t].about /\ status'[p] = "alive"
  BY <1>1 DEF Runs, Inv, TypeInv, SystemTyped
<1> QED
  BY <1>1, <1>2, <1>3, <1>4, <1>5, EndFresh

LEMMA ExitLike ==
  ASSUME Inv, NEW s \in Seqs, NEW x \in {"held", "queued"},
         entry' = With(s, [entry[s] EXCEPT !.exit = x])
  PROVE  Seqs' = Seqs /\ \A r \in Seqs : Like(entry'[r], entry[r])
<1>1. PICK e : e = [entry[s] EXCEPT !.exit = x]
  OBVIOUS
<1>2. entry[s] \in EntryType
  BY EntryTyped DEF Inv, TypeInv
<1>3. e \in EntryType /\ Like(e, entry[s])
  BY <1>1, <1>2 DEF EntryType, Like
<1>4. entry' = With(s, e)
  BY <1>1
<1> QED
  BY <1>3, <1>4, WithLike

LEMMA ExitEndFresh ==
  ASSUME Inv, OpsRun, FreshOK, FailedKept, NEW t \in Threads, ExitUnknown(t) \/ ExitQueue(t)
  PROVE  FreshOK'
<1>1. /\ Finish(t) /\ \E x : Returned(t, {"exit"}, x)
      /\ status' = [status EXCEPT ![op[t].pid] = "gone"]
  BY DEF ExitUnknown, ExitQueue, ExitEnds
<1>2. Top(t).seq \in Seqs \union {0} /\ op[t].pid \in Pids
  BY <1>1, AtReturn, RunTyped
<1>3. Seqs' = Seqs /\ \A s \in Seqs : Like(entry'[s], entry[s])
  <2>1. CASE entry' = entry
    BY <2>1, SameLike
  <2>2. CASE /\ entry[Top(t).seq].exit = "held" /\ Top(t).seq \in Seqs
             /\ entry' = With(Top(t).seq, [entry[Top(t).seq] EXCEPT !.exit = "queued"])
    <3>1. PICK s \in Seqs : s = Top(t).seq
      BY <2>2
    <3> QED
      BY <2>2, <3>1, ExitLike
  <2>3. Returned(t, {"exit"}, "queue") => Top(t).seq \in Seqs
    BY <1>2, AtReturn DEF Inv, ListInv, OpsOK
  <2> QED
    BY <2>1, <2>2, <2>3 DEF ExitUnknown, ExitQueue
<1>4. EarlierLives
  BY OperationTally DEF Works
<1>5. \A p \in Pids : status'[p] = status[p] \/ status'[p] = "gone"
  BY <1>1, <1>2 DEF Inv, TypeInv, SystemTyped
<1> QED
  BY <1>1, <1>3, <1>4, <1>5, EndFresh

LEMMA ExitGoesFresh ==
  ASSUME Inv, OpsRun, FreshOK, FailedKept, NEW t \in Threads, ExitQuery(t) \/ ExitLog(t)
  PROVE  FreshOK'
<1>1. /\ \E x : Returned(t, {"exit"}, x)
      /\ UNCHANGED osvars /\ stack' = stack
      /\ \E w : op' = [op EXCEPT ![t].step = w]
  BY DEF ExitQuery, ExitLog
<1>2. PICK w : op' = [op EXCEPT ![t].step = w]
  BY <1>1
<1>3. PICK o : o = [op[t] EXCEPT !.step = w]
  OBVIOUS
<1>4. op' = [op EXCEPT ![t] = o] /\ op[t].kind = "exit" /\ op[t] \in OpType
  <2>1. op[t].kind \in {"exit"} /\ op[t] \in OpType
    BY <1>1, AtReturn
  <2> QED
    BY <1>2, <1>3, <2>1
<1>5. o.kind = "exit" /\ o.pid = op[t].pid /\ o.about = op[t].about
  BY <1>3, <1>4 DEF OpType
<1>6. Seqs' = Seqs /\ \A s \in Seqs : Like(entry'[s], entry[s])
  <2>1. Top(t).seq \in Known \union {0} /\ Top(t).seq \in Seqs \union {0}
    BY <1>1, AtReturn
  <2>2. CASE ExitLog(t)
    BY <2>1, <2>2, DerefLike DEF ExitLog
  <2>3. CASE entry' = entry
    BY <2>3, SameLike
  <2>4. CASE /\ Top(t).seq # 0
             /\ entry' = With(Top(t).seq, [entry[Top(t).seq] EXCEPT !.exit = "held"])
    <3>1. PICK s \in Seqs : s = Top(t).seq
      BY <2>1, <2>4
    <3> QED
      BY <2>4, <3>1, ExitLike
  <2> QED
    BY <2>2, <2>3, <2>4 DEF ExitQuery
<1>7. \A p : Settled(p) /\ NoNew(p)
  BY <1>6, LikeSettled
<1>8. EarlierLives
  BY <1>1, SameLives
<1>9. ASSUME NEW p \in Pids, Fresh(p)'
      PROVE  EntryFresh(p)'
  <2>1. EntryFresh(p) /\ status' = status
    BY <1>1, <1>9 DEF FreshOK, EntriesFresh, Fresh, FailedKept, osvars
  <2>2. Early(p)' => Early(p)
    BY <1>4, <1>5, <2>1, EarlyStep
  <2> QED
    BY <1>7, <2>1, <2>2, EntryStays
<1>10. ASSUME Fresh(Subject(t))'
       PROVE  CallFresh(t)'
  <2>1. PICK p, f : p = Subject(t) /\ f = Base(t)
    OBVIOUS
  <2>2. op'[t] = o
    BY <1>4 DEF Inv, TypeInv, DriverTyped
  <2>3. p = Subject(t)' /\ f = Base(t)'
    BY <1>1, <1>4, <1>5, <2>1, <2>2 DEF Subject, ForChild, Base
  <2>4. Fresh(p)
    BY <1>1, <1>10, <2>3 DEF Fresh, FailedKept, osvars
  <2>5. PICK d : d = op[t]
    OBVIOUS
  <2>6. CallFits(d, f, p)
    BY <1>4, <2>1, <2>4, <2>5, FitsCall DEF FreshOK, CallsFresh
  <2>7. CallFits(o, f, p)'
    BY <1>4, <1>5, <1>7, <2>5, <2>6, FitsStays
  <2> QED
    BY <2>2, <2>3, <2>7, FitsCallNext
<1>11. /\ \A p \in Pids : Elsewhere(t, p) => Settled(p)
       /\ \A p \in Pids : Fresh(p)' => EntryFresh(p)'
       /\ o.kind # "idle" /\ Fresh(Subject(t))' => CallFresh(t)'
       /\ \A u \in Threads : u # t => stack'[u] = stack[u]
  BY <1>1, <1>7, <1>9, <1>10
<1> QED
  BY <1>4, <1>8, <1>11, OpStep

LEMMA ChildFresh ==
  ASSUME Inv, OpsRun, FreshOK, FailedKept, NEW t \in Threads, CreateChild(t)
  PROVE  FreshOK'
<1>1. /\ Returned(t, {"create"}, "ref") /\ UNCHANGED osvars /\ entry' = entry
  BY DEF CreateChild
<1>2. PICK o : o = [op[t] EXCEPT !.step = "child", !.parent = Top(t).seq]
  OBVIOUS
<1>3. op[t] \in OpType /\ op[t].kind = "create" /\ op[t].about \in Pids
  BY <1>1, AtReturn, RunTyped
<1>4. /\ o.kind = "create" /\ o.step = "child" /\ o.about = op[t].about
  BY <1>2, <1>3 DEF OpType
<1>5. PICK f : f = Call(op[t].about, FALSE)
  OBVIOUS
<1>6. f.pc = "find" /\ ~f.sync
  BY <1>3, <1>5, CallFields
<1>7. op' = [op EXCEPT ![t] = o] /\ stack' = [stack EXCEPT ![t] = <<f>>]
  BY <1>2, <1>5 DEF CreateChild
<1>8. f = Base(t)' /\ \A u \in Threads : u # t => stack'[u] = stack[u]
  BY <1>7, CallsBase
<1>9. \A p : Settled(p) /\ NoNew(p)
  BY <1>1, SameSettled
<1>10. EarlierLives
  BY <1>1, SameLives
<1>11. ASSUME NEW p \in Pids, Fresh(p)'
       PROVE  EntryFresh(p)'
  <2>1. EntryFresh(p) /\ status' = status
    BY <1>1, <1>11 DEF FreshOK, EntriesFresh, Fresh, FailedKept, osvars
  <2>2. Early(p)' => Early(p)
    BY <1>3, <1>4, <1>7, <2>1, EarlyStep
  <2> QED
    BY <1>9, <2>1, <2>2, EntryStays
<1>12. CallFresh(t)'
  <2>1. PICK p : p = Subject(t)'
    OBVIOUS
  <2>2. ChildCall(f, p)'
    BY <1>6 DEF ChildCall
  <2>3. CallFits(o, f, p)'
    BY <1>4, <2>2 DEF CallFits
  <2>4. op'[t] = o
    BY <1>7 DEF Inv, TypeInv, DriverTyped
  <2> QED
    BY <1>8, <2>1, <2>3, <2>4, FitsCallNext
<1>13. /\ \A p \in Pids : Elsewhere(t, p) => Settled(p)
       /\ \A p \in Pids : Fresh(p)' => EntryFresh(p)'
       /\ o.kind # "idle" /\ Fresh(Subject(t))' => CallFresh(t)'
  BY <1>9, <1>11, <1>12
<1> QED
  BY <1>7, <1>8, <1>10, <1>13, OpStep

\* What the end of the notification of a creation does to the entries.
LEMMA ParkMoves ==
  ASSUME Inv, NEW t \in Threads, Parks(t), NEW s, s = Top(t).seq
  PROVE  /\ Seqs' = Seqs
         /\ \/ (s = 0 \/ ~CreatePark(t)) /\ \A r \in Seqs : Like(entry'[r], entry[r])
            \/ /\ s \in Seqs
               /\ entry'[s].pid = entry[s].pid /\ entry'[s].listed = entry[s].listed
               /\ entry'[s].full # {}
               /\ \A r \in Seqs : r # s => Like(entry'[r], entry[r])
<1>1. Returned(t, {"create"}, "child")
  BY DEF Parks, CreatePark, ParkFails, ThreadStarts
<1>2. /\ s \in Known \union {0} /\ s \in Seqs \union {0}
      /\ op[t].parent \in Known \union {0}
  BY <1>1, AtReturn
<1>3. PICK e : e = [entry[s] EXCEPT !.full = {op[t].parent}]
  OBVIOUS
<1>4. CASE ParkFails(t) /\ ~CreatePark(t)
  <2>1. Deref(t, s)
    BY <1>4 DEF ParkFails
  <2> QED
    BY <1>2, <1>4, <2>1, DerefLike
<1>5. CASE s = 0 /\ Deref(t, op[t].parent)
  BY <1>2, <1>5, DerefLike
<1>6. CASE s # 0 /\ Derefs(t, s, With(s, e))
  <2>1. s \in Seqs /\ entry[s] \in EntryType
    BY <1>2, <1>6, EntryTyped DEF Inv, TypeInv
  <2>2. {op[t].parent} \in Details
    <3>1. op[t].parent \in Nat
      BY <1>2 DEF Known, Seqs
    <3>2. \A n \in Nat : {n} \in Details
      BY DEF Details
    <3> QED
      BY <3>1, <3>2
  <2>3. /\ e \in EntryType /\ e.pid = entry[s].pid /\ e.listed = entry[s].listed
        /\ e.full = {op[t].parent}
    BY <1>3, <2>1, <2>2 DEF EntryType
  <2>4. /\ With(s, e) \in Seq(EntryType) /\ Len(With(s, e)) = Len(entry)
        /\ With(s, e)[s] = e
        /\ \A r \in Seqs : r # s => With(s, e)[r] = entry[r]
    BY <2>1, <2>3, WithDoes DEF Inv, TypeInv
  <2>5. PICK ents : ents = With(s, e)
    OBVIOUS
  <2>6. /\ Len(entry') = Len(entry)
        /\ \A r \in Seqs : entry'[r] = IF r = s THEN Less(ents[r]) ELSE ents[r]
    BY <1>6, <2>1, <2>4, <2>5, DerefsDoes DEF Inv, TypeInv
  <2>7. entry'[s] = Less(e) /\ \A r \in Seqs : r # s => entry'[r] = entry[r]
    BY <2>1, <2>4, <2>5, <2>6
  <2>8. /\ Less(e).pid = e.pid /\ Less(e).listed = e.listed /\ Less(e).full = e.full
    BY <2>3, CountFields
  <2> QED
    BY <2>1, <2>3, <2>6, <2>7, <2>8 DEF Seqs, Like
<1> QED
  BY <1>3, <1>4, <1>5, <1>6 DEF Parks, CreatePark

LEMMA ParkFresh ==
  ASSUME Inv, CountInv, OpsRun, FreshOK, FailedKept, NEW t \in Threads, Parks(t),
         CreatePark(t) \/ op[t].about \in failed'
  PROVE  FreshOK'
<1>1. Returned(t, {"create"}, "child") /\ UNCHANGED osvars
  BY DEF Parks, CreatePark, ParkFails, ThreadStarts
<1>2. PICK o : o = [op[t] EXCEPT !.kind = "thread", !.step = "ref", !.parent = 0]
  OBVIOUS
<1>3. /\ op[t] \in OpType /\ op[t].kind = "create" /\ op[t].step = "child"
      /\ op[t].about \in Pids
      /\ Top(t).pc = "return" /\ Top(t) = Base(t) /\ Len(stack[t]) = 1
  BY <1>1, AtReturn, RunTyped DEF Base
<1>4. o.kind = "thread" /\ o.about = op[t].about
  BY <1>2, <1>3 DEF OpType
<1>5. PICK f, q, s : f = Call(op[t].about, TRUE) /\ q = op[t].about /\ s = Top(t).seq
  OBVIOUS
<1>6. f.pc = "find"
  BY <1>3, <1>5, CallFields
<1>7. op' = [op EXCEPT ![t] = o] /\ stack' = [stack EXCEPT ![t] = <<f>>]
  BY <1>2, <1>5 DEF Parks, CreatePark, ParkFails, ThreadStarts
<1>8. f = Base(t)' /\ \A u \in Threads : u # t => stack'[u] = stack[u]
  BY <1>7, CallsBase
<1>9. /\ Seqs' = Seqs
      /\ \/ (s = 0 \/ ~CreatePark(t)) /\ \A r \in Seqs : Like(entry'[r], entry[r])
         \/ /\ s \in Seqs
            /\ entry'[s].pid = entry[s].pid /\ entry'[s].listed = entry[s].listed
            /\ entry'[s].full # {}
            /\ \A r \in Seqs : r # s => Like(entry'[r], entry[r])
  BY <1>5, ParkMoves
<1>10. s \in Seqs /\ entry[s].listed => entry[s].pid = q
  <2>1. Top(t).pid = q
    BY <1>3, <1>5 DEF OpsRun, Subject, ForChild
  <2>2. stack[t] # << >>
    BY <1>1, AtReturn
  <2> QED
    BY <1>5, <2>1, <2>2, TopEntry
<1>11. \A p : p # q => Settled(p) /\ NoNew(p)
  BY <1>9, <1>10 DEF Settled, NoNew, Listed, Like
<1>12. EarlierLives
  BY <1>1, SameLives
<1>13. status[q] = "born" /\ \A u \in Threads : u # t => ~(op[u].kind = "create" /\ op[u].about = q)
  BY <1>3, <1>5 DEF OpsRun, Creating
<1>14. op'[t] = o /\ \A u \in Threads : u # t => op'[u] = op[u]
  BY <1>7 DEF Inv, TypeInv, DriverTyped
<1>15. ASSUME NEW p \in Pids, Fresh(p)'
       PROVE  EntryFresh(p)'
  <2>1. EntryFresh(p) /\ status' = status
    BY <1>1, <1>15 DEF FreshOK, EntriesFresh, Fresh, FailedKept, osvars
  <2>2. CASE p # q
    <3>1. Early(p)' => Early(p)
      BY <1>4, <1>7, <2>1, EarlyStep
    <3> QED
      BY <1>11, <2>1, <2>2, <3>1, EntryStays
  <2>3. CASE p = q
    <3>1. ~Early(p)'
      BY <1>4, <1>13, <1>14, <2>1, <2>3 DEF Early
    <3> QED
      BY <1>13, <2>1, <2>3, <3>1 DEF EntryFresh
  <2> QED
    BY <2>2, <2>3
<1>16. ASSUME Fresh(Subject(t))'
       PROVE  CallFresh(t)'
  <2>1. q = Subject(t)'
    BY <1>4, <1>5, <1>14 DEF Subject, ForChild
  <2>2. Fresh(q) /\ CreatePark(t)
    BY <1>1, <1>5, <1>16, <2>1 DEF Fresh, FailedKept, osvars
  <2>3. q = Subject(t)
    BY <1>3, <1>5 DEF Subject, ForChild
  <2>4. PICK d, b : d = op[t] /\ b = Base(t)
    OBVIOUS
  <2>5. CallFits(d, b, q)
    BY <1>3, <2>2, <2>3, <2>4, FitsCall DEF FreshOK, CallsFresh
  <2>6. b.seq \in Listed(q)
    BY <1>3, <2>4, <2>5 DEF CallFits, ChildCall
  <2>7. s \in Listed(q) /\ s # 0
    BY <1>3, <1>5, <2>4, <2>6, SeqsBounded DEF Listed, Inv
  <2>8. s \in Listed(q)' /\ entry'[s].full # {}
    BY <1>9, <2>2, <2>7 DEF Listed
  <2>9. BornCall(f, q)'
    BY <1>6, <2>8 DEF BornCall, Describes
  <2>10. CallFits(o, f, q)'
    BY <1>4, <2>9 DEF CallFits
  <2> QED
    BY <1>8, <1>14, <2>1, <2>10, FitsCallNext
<1>17. /\ \A p \in Pids : Elsewhere(t, p) => Settled(p)
       /\ \A p \in Pids : Fresh(p)' => EntryFresh(p)'
       /\ o.kind # "idle" /\ Fresh(Subject(t))' => CallFresh(t)'
  BY <1>3, <1>5, <1>11, <1>15, <1>16 DEF Elsewhere, Creating
<1> QED
  BY <1>7, <1>8, <1>12, <1>17, OpStep

-----------------------------------------------------------------------------
(* The invariant.                                                          *)

\* A call that moves changes neither the mutex, the nesting nor the operations.
LEMMA MovePlain ==
  ASSUME Inv, OpsRun, Unused, LockOK, NestOK, NEW t \in Threads, NEW x,
         NEW g \in FrameType,
         Moves(t, x, g), g.pc \notin {"parent", "release"},
         x = "log" => Len(stack[t]) = 1,
         g.pc = "start" => x = "release" \/ Len(stack[t]) = 1,
         logLock' = logLock \/ x = "release"
  PROVE  LockOK' /\ NestOK' /\ (Stuck => Stuck') /\ OpsRun' /\ Unused'
<1>1. LockOK' /\ NestOK' /\ (Stuck => Stuck')
  BY MoveNest
<1>2. /\ \A u \in Threads : u # t => stack'[u] = stack[u]
      /\ \/ Len(stack[t]) = 1 /\ Base(t) = Top(t) /\ Base(t)' = g
         \/ Len(stack[t]) = 2 /\ Base(t)' = Base(t)
  BY MovedBase
<1>3. UNCHANGED <<osvars, op>> /\ g.pid = Top(t).pid
  BY DEF Moves
<1>4. \A u \in Threads : op[u].kind # "idle" => Base(u)'.pid = Base(u).pid
  <2> SUFFICES ASSUME NEW u \in Threads PROVE Base(u)'.pid = Base(u).pid
    OBVIOUS
  <2>1. CASE u = t
    BY <1>2, <1>3, <2>1
  <2>2. CASE u # t
    BY <1>2, <2>2 DEF Base
  <2> QED
    BY <2>1, <2>2
<1>5. OpsRun' /\ Unused'
  BY <1>3, <1>4, RunStay
<1> QED
  BY <1>1, <1>5

\* Another call begins above the call of the operation, or returns to it.
LEMMA NestPlain ==
  ASSUME Inv, OpsRun, Unused, LockOK, NestOK, NEW t \in Threads,
         FillLog(t) \/ FillParent(t)
  PROVE  LockOK' /\ NestOK' /\ (Stuck => Stuck') /\ OpsRun' /\ Unused'
<1>1. LockOK' /\ NestOK' /\ (Stuck => Stuck')
  BY LogNest, ParentNest
<1>2. /\ UNCHANGED <<osvars, op>>
      /\ \E S : Restacked(t, 0, S)
      /\ Base(t)'.pid = Base(t).pid
  BY LogMoves, ParentMoves
<1>3. \A u \in Threads : u # t => stack'[u] = stack[u]
  BY <1>2 DEF Restacked
<1>4. \A u \in Threads : op[u].kind # "idle" => Base(u)'.pid = Base(u).pid
  <2> SUFFICES ASSUME NEW u \in Threads PROVE Base(u)'.pid = Base(u).pid
    OBVIOUS
  <2>1. CASE u = t
    BY <1>2, <2>1
  <2>2. CASE u # t
    BY <1>3, <2>2 DEF Base
  <2> QED
    BY <2>1, <2>2
<1>5. OpsRun' /\ Unused'
  BY <1>2, <1>4, RunStay
<1> QED
  BY <1>1, <1>5

\* The end of DerefProcessInfo and the work item touch none of them.
LEMMA StillPlain ==
  ASSUME Inv, OpsRun, Unused, LockOK, NestOK,
         stack' = stack, op' = op, UNCHANGED osvars, logLock' = logLock
  PROVE  LockOK' /\ NestOK' /\ (Stuck => Stuck') /\ OpsRun' /\ Unused'
<1>1. \A u \in Threads : op[u].kind # "idle" => Base(u)'.pid = Base(u).pid
  BY DEF Base
<1>2. OpsRun' /\ Unused'
  BY <1>1, RunStay
<1> QED
  BY <1>2, StillNest

LEMMA RefPlain ==
  ASSUME Inv, OpsRun, Unused, LockOK, NestOK, HeldOK,
         NEW t \in Threads, Ref(t)
  PROVE  LockOK' /\ NestOK' /\ (Stuck => Stuck') /\ OpsRun' /\ Unused'
<1>1. CASE Finds(t)
  <2>1. PICK g \in FrameType :
          Moves(t, "find", g) /\ g.pc \in {"check", "insert", "return"}
    BY <1>1, FindMoves
  <2>2. logLock' = logLock
    BY <1>1, FindMoves
  <2> QED
    BY <2>1, <2>2, MovePlain
<1>2. CASE Insert(t)
  <2>1. PICK g \in FrameType : Moves(t, "insert", g) /\ g.pc \in {"check", "fill"}
    BY <1>2, InsertMoves
  <2>2. logLock' = logLock
    BY <1>2, InsertMoves
  <2> QED
    BY <2>1, <2>2, MovePlain
<1>3. CASE Check(t)
  <2>1. PICK g \in FrameType : Moves(t, "check", g) /\ g.pc \in {"fill", "return"}
    BY <1>3, CheckMoves
  <2>2. logLock' = logLock
    BY <1>3, CheckMoves
  <2> QED
    BY <2>1, <2>2, MovePlain
<1>4. CASE FillStart(t)
  <2>1. PICK g \in FrameType : Moves(t, "fill", g) /\ g.pc = "query"
    BY <1>4, StartMoves
  <2>2. logLock' = logLock
    BY <1>4, StartMoves
  <2> QED
    BY <2>1, <2>2, MovePlain
<1>5. CASE FillFails(t)
  <2>1. PICK g \in FrameType : Moves(t, "query", g) /\ g.pc \in {"check", "return"}
    BY <1>5, FailMoves
  <2>2. logLock' = logLock
    BY <1>5, FailMoves
  <2> QED
    BY <2>1, <2>2, MovePlain
<1>6. CASE FillTake(t)
  <2>1. PICK g \in FrameType : Moves(t, "query", g) /\ g.pc = "log"
    BY <1>6, TakeMoves
  <2>2. logLock' = logLock
    BY <1>6, TakeMoves
  <2> QED
    BY <2>1, <2>2, MovePlain
<1>7. CASE FillRelease(t)
  <2>1. PICK g \in FrameType :
          Moves(t, "release", g) /\ g.pc \in {"start", "check", "return"}
    BY <1>7, ReleaseMoves
  <2> QED
    BY <2>1, MovePlain
<1>8. CASE LogStart(t)
  <2>1. PICK g \in FrameType : Moves(t, "start", g) /\ g.pc \in {"check", "return"}
    BY <1>8, LogStartMoves
  <2>2. logLock' = logLock
    BY <1>8, LogStartMoves
  <2> QED
    BY <2>1, <2>2, MovePlain
<1>9. CASE FillLog(t) \/ FillParent(t)
  BY <1>9, NestPlain
<1>10. CASE FreeEntry(t)
  BY <1>10, FreeDoes, StillPlain
<1>11. CASE FillRefused(t)
  <2>1. PICK g \in FrameType :
          Moves(t, "log", g) /\ g.pc \in {"start", "check", "return"}
    BY <1>11, RefusedMoves
  <2>2. logLock' = logLock /\ logLock = Free /\ stack[t] # << >>
    BY <1>11, <2>1, RefusedMoves DEF Moves
  <2>3. Len(stack[t]) = 1
    BY <2>2, LogHeight
  <2> QED
    BY <2>1, <2>2, <2>3, MovePlain
<1> QED
  BY <1>1, <1>2, <1>3, <1>4, <1>5, <1>6, <1>7, <1>8, <1>9, <1>10, <1>11
     DEF Ref, Fill, Finds

LEMMA ArrivePlain ==
  ASSUME Inv, OpsRun, Unused, LockOK, NestOK, NEW t \in Threads, Arrive(t)
  PROVE  LockOK' /\ NestOK' /\ (Stuck => Stuck') /\ OpsRun' /\ Unused'
<1>1. OpsRun' /\ Unused'
  BY EnterRuns, CreateRuns, ExitStartRuns DEF Arrive
<1>2. PICK o : \E p \in Pids, b \in BOOLEAN : Begin(t, o, p, b)
  BY DEF Arrive, Enter, Create, Exit
<1>3. PICK p \in Pids, b \in BOOLEAN : Begin(t, o, p, b)
  BY <1>2
<1>4. PICK c : c = Call(p, b)
  OBVIOUS
<1>5. /\ <<c>> \in Seq(FrameType) /\ Blank(<<c>>)
      /\ stack' = [stack EXCEPT ![t] = <<c>>]
  BY <1>3, <1>4, BlankCall DEF Begin
<1>6. logLock' = logLock /\ op[t].kind = "idle"
  BY DEF Arrive, Enter, Create, Exit, Ready
<1>7. Len(stack[t]) # 2 /\ Len(<<c>>) \in {0, 1}
  BY <1>6 DEF Inv, ListInv, OpsOK
<1>8. LockOK' /\ NestOK' /\ (Stuck => Stuck')
  BY <1>5, <1>6, <1>7, RestartNest
<1> QED
  BY <1>1, <1>8

LEMMA WorksPlain ==
  ASSUME Inv, OpsRun, Unused, LockOK, NestOK, NEW t \in Threads, Works(t)
  PROVE  LockOK' /\ NestOK' /\ (Stuck => Stuck') /\ OpsRun' /\ Unused'
<1>1. OpsRun' /\ Unused'
  BY ReportRuns, CreateChildRuns, CreateParkRuns, ExitGoesRuns, ExitEndRuns DEF Works
<1>2. logLock' = logLock
  BY DEF Works, Skips, Skip, SkipUnmarked, Log, CreateChild, Parks, CreatePark, ParkFails, ThreadStarts, ExitQuery, ExitUnknown, ExitLog,
         ExitQueue
<1>3. CASE ExitQuery(t) \/ ExitLog(t)
  <2>1. stack' = stack
    BY <1>3 DEF ExitQuery, ExitLog
  <2> QED
    BY <1>1, <1>2, <2>1, StillNest
<1>4. CASE Skips(t) \/ Log(t) \/ ExitUnknown(t) \/ ExitQueue(t)
  <2>1. \E k, s : Returned(t, k, s)
    BY <1>4, ReportDoes DEF ExitUnknown, ExitQueue
  <2>2. stack' = [stack EXCEPT ![t] = << >>]
    BY <1>4, ReportDoes DEF ExitUnknown, ExitQueue, ExitEnds, Finish
  <2>3. << >> \in Seq(FrameType) /\ Blank(<< >>) /\ Len(<< >>) \in {0, 1}
    BY BlankCall
  <2>4. Len(stack[t]) # 2
    BY <2>1, AtReturn
  <2> QED
    BY <1>1, <1>2, <2>2, <2>3, <2>4, RestartNest
<1>5. CASE CreateChild(t) \/ Parks(t)
  <2>1. \E k, s : Returned(t, k, s)
    BY <1>5 DEF CreateChild, Parks, CreatePark, ParkFails, ThreadStarts
  <2>2. PICK b \in BOOLEAN : stack' = [stack EXCEPT ![t] = <<Call(op[t].about, b)>>]
    BY <1>5 DEF CreateChild, Parks, CreatePark, ParkFails, ThreadStarts
  <2>3. op[t].about \in Pids
    BY RunTyped
  <2>4. PICK c : c = Call(op[t].about, b)
    OBVIOUS
  <2>5. <<c>> \in Seq(FrameType) /\ Blank(<<c>>) /\ Len(<<c>>) \in {0, 1}
    BY <2>3, <2>4, BlankCall
  <2>6. Len(stack[t]) # 2
    BY <2>1, AtReturn
  <2> QED
    BY <1>1, <1>2, <2>2, <2>4, <2>5, <2>6, RestartNest
<1> QED
  BY <1>3, <1>4, <1>5 DEF Works

\* The step of a thread that does not wait for its own mutex.
LEMMA FreshStep ==
  ASSUME Inv, CountInv, StartInv, FreshOK, FailedKept, Next
  PROVE  Stuck' \/ FreshOK'
<1> USE DEF StartInv
<1>1. ASSUME NEW t \in Threads, Arrive(t) PROVE FreshOK'
  BY <1>1, ArriveFresh
<1>2. ASSUME NEW t \in Threads, Operation(t) PROVE FreshOK'
  <2>1. CASE CreatePark(t) \/ (ParkFails(t) /\ op[t].about \in failed')
    BY <2>1, ParkFresh DEF Parks
  <2> QED
    BY <1>2, <2>1, ReportFresh, ExitEndFresh, ExitGoesFresh, ChildFresh DEF Operation, Skips
<1>3. ASSUME NEW t \in Threads, Ref(t) PROVE Stuck' \/ FreshOK'
  <2>1. CASE Find(t) \/ (FindFails(t) /\ Top(t).pid \in failed')
    BY <2>1, FindFresh DEF Finds
  <2>2. CASE FillRefused(t) /\ Top(t).pid \in failed'
    BY <2>2, RefusedFresh
  <2>3. CASE FillFails(t) /\ (Ended(Top(t).pid) \/ Top(t).pid \in failed')
    BY <2>3, FailFresh
  <2> QED
    BY <1>3, <2>1, <2>2, <2>3, InsertFresh, CheckFresh, StartFresh, ReleaseFresh,
       LogFresh, ParentFresh, TakeFresh, FreeFresh DEF Ref, Fill
<1> QED
  BY <1>1, <1>2, <1>3, WaitFresh DEF Next

LEMMA NextFailed ==
  ASSUME [Next]_vars
  PROVE  FailedKept
<1>1. ASSUME NEW t \in Threads, Arrive(t) PROVE FailedKept
  BY <1>1 DEF Arrive, history, FailedKept
<1>2. ASSUME NEW t \in Threads, Ref(t) PROVE FailedKept
  BY <1>2 DEF Ref, FailedKept
<1>3. ASSUME NEW t \in Threads, Operation(t) PROVE FailedKept
  BY <1>3 DEF Operation, history, FailedKept
<1>4. CASE WaitExit
  BY <1>4 DEF WaitExit, history, FailedKept
<1>5. CASE UNCHANGED vars
  BY <1>5 DEF vars, history, FailedKept
<1> QED
  BY <1>1, <1>2, <1>3, <1>4, <1>5 DEF Next

LEMMA NextStartInv ==
  ASSUME Inv, CountInv, StartInv, [Next]_vars
  PROVE  StartInv'
<1>0. FailedKept
  BY NextFailed
<1>1. CASE Next
  <2>1. HeldOK' /\ NoInit'
    BY <1>0, <1>1, PlainStep
  <2>2. LockOK' /\ NestOK' /\ (Stuck => Stuck') /\ OpsRun' /\ Unused'
    <3> USE DEF StartInv
    <3>1. ASSUME NEW t \in Threads, Arrive(t) \/ Ref(t) \/ Operation(t)
          PROVE  LockOK' /\ NestOK' /\ (Stuck => Stuck') /\ OpsRun' /\ Unused'
      BY <3>1, ArrivePlain, RefPlain, WorksPlain DEF Operation, Works, Parks, Skips
    <3>2. CASE WaitExit
      BY <3>2, WaitDoes, StillPlain
    <3> QED
      BY <1>1, <3>1, <3>2 DEF Next
  <2>3. Stuck' \/ FreshOK'
    <3>1. FreshOK => Stuck' \/ FreshOK'
      BY <1>0, <1>1, FreshStep
    <3> QED
      BY <2>2, <3>1 DEF StartInv
  <2> QED
    BY <2>1, <2>2, <2>3 DEF StartInv
<1>2. CASE UNCHANGED vars
  <2> USE <1>2 DEF vars, callvars, osvars, uservars, history
  <2>1. OpsRun' /\ Unused' /\ LockOK' /\ NestOK' /\ (Stuck => Stuck')
    <3>1. stack' = stack /\ op' = op /\ UNCHANGED osvars /\ logLock' = logLock
      OBVIOUS
    <3> QED
      BY <3>1, StillPlain DEF StartInv
  <2>2. Seqs' = Seqs /\ entry' = entry /\ UNCHANGED <<life, status, table>>
    BY DEF Seqs
  <2>3. NoInit'
    BY <2>2 DEF StartInv, NoInit, Fresh
  <2>4. HeldOK'
    <3>1. \A s \in Seqs : Holders(s)' = Holders(s) /\ (Current(s)' <=> Current(s))
      <4> SUFFICES ASSUME NEW s \in Seqs
                   PROVE  Holders(s)' = Holders(s) /\ (Current(s)' <=> Current(s))
        OBVIOUS
      <4>1. Holders(s)' = Holders(s)
        BY <2>2 DEF Holders, Pointing, Carrying, Parents, ParkedAt, Places, Frame, Queues
      <4>2. Current(s)' <=> Current(s)
        BY <2>2 DEF Current
      <4> QED
        BY <4>1, <4>2
    <3> QED
      BY <2>2, <3>1 DEF StartInv, HeldOK
  <2>5. FreshOK => FreshOK'
    <3>1. \A p \in Pids : NoNew(p) /\ Settled(p)
      BY <2>2, SameSettled
    <3> QED
      BY <1>0, <3>1, StillFresh DEF StartInv
  <2> QED
    BY <2>1, <2>3, <2>4, <2>5 DEF StartInv
<1> QED
  BY <1>1, <1>2

LEMMA InitStartInv ==
  ASSUME Init
  PROVE  StartInv
<1>1. Seqs = {} /\ \A t \in Threads : stack[t] = << >> /\ op[t] = Idle
  BY DEF Init, Seqs
<1>2. \A t \in Threads : op[t].kind = "idle" /\ op[t].parent = 0
  BY <1>1, IdleFields
<1>3. OpsRun
  BY <1>2 DEF OpsRun, Creating
<1>4. Unused
  BY DEF Init, Unused
<1>5. \A t \in Threads : Len(stack[t]) = 0
  BY <1>1
<1>6. LockOK
  BY <1>5 DEF LockOK
<1>7. NestOK
  BY <1>5 DEF NestOK
<1>8. EntriesFresh
  <2> SUFFICES ASSUME NEW p \in Pids, Fresh(p) PROVE EntryFresh(p)
    BY DEF EntriesFresh
  <2>1. status[p] = "free" /\ Listed(p) = {}
    BY <1>1 DEF Init, Fresh, Listed
  <2> QED
    BY <2>1 DEF EntryFresh
<1>9. CallsFresh
  BY <1>2 DEF CallsFresh
<1> QED
  BY <1>1, <1>3, <1>4, <1>6, <1>7, <1>8, <1>9
     DEF StartInv, HeldOK, NoInit, FreshOK

\* A record of the list that says a process ran already is of one that did,
\* unless something failed for this process or its identifier was used before:
\* the details of a new process are parked before it runs, and the call that
\* describes it takes them (ProcmonProcessNotifyRoutine, RefProcessInfo).
\* Whatever fails for other processes is no matter.
THEOREM InitIsStarted == Spec => []InitMeansStarted
<1>1. Init => Inv /\ CountInv /\ StartInv
  BY InitInv, InitCountInv, InitStartInv
<1>2. Inv /\ CountInv /\ StartInv /\ [Next]_vars => (Inv /\ CountInv /\ StartInv)'
  BY NextInv, NextCountInv, NextStartInv
<1>3. Inv /\ CountInv /\ StartInv => InitMeansStarted
  <2> SUFFICES ASSUME StartInv, NEW s \in Seqs, NEW i \in 1 .. Len(table[s]),
                      table[s][i] = "init", ~entry[s].freed, life[entry[s].pid] = 1,
                      entry[s].pid \notin failed
               PROVE  entry[s].pid \in Started
    BY DEF InitMeansStarted
  <2>1. ~Fresh(entry[s].pid)
    BY DEF StartInv, NoInit
  <2> QED
    BY <2>1 DEF Fresh
<1> QED
  BY <1>1, <1>2, <1>3, PTL DEF Spec

-----------------------------------------------------------------------------
(* No entry is freed in use.                                               *)

\* The threads that run the exit of a process and have not queued it yet.
Leaves(o) == o.kind = "exit" /\ o.step # "ref"
Leaving(s) == {t \in Threads : Leaves(op[t]) /\ stack[t][1].seq = s}

\* The list has a reference of its own, until the work item drops it for the
\* first process that ended with the sequence.
ListRef(s) ==
  IF \/ entry[s].listed /\ exits[s] = 0
     \/ entry[s].exit = "queued"
     \/ Leaving(s) # {}
  THEN 1 ELSE 0

RefsOK ==
  \A s \in Seqs : exits[s] <= 1 => entry[s].refs >= Cardinality(Holders(s)) + ListRef(s)

\* It is one thread that runs that exit, and it has queued the entry or not.
LeavingOK ==
  \A s \in Seqs :
    /\ exits[s] = 0 => Leaving(s) = {} /\ entry[s].exit # "queued"
    /\ exits[s] <= 1 => /\ entry[s].exit = "queued" => Leaving(s) = {}
                        /\ \A t, u \in Leaving(s) : t = u
FreedOK == \A s \in Seqs : entry[s].freed => entry[s].refs <= 0

RefInv == RefsOK /\ LeavingOK /\ FreedOK

LEMMA RefsStep ==
  ASSUME Inv, RefInv, NEW a, NEW z, Tally(a, z), a = 0 \/ ~entry[a].freed,
         \A s \in Seqs : exits'[s] <= 1 => exits[s] <= 1 /\ ListRef(s)' <= ListRef(s)
  PROVE  RefsOK' /\ FreedOK'
<1>1. Seqs' = Seqs
  BY DEF Tally, Recount, Seqs
<1>2. ASSUME NEW s \in Seqs, exits'[s] <= 1
      PROVE  entry'[s].refs >= Cardinality(Holders(s)') + ListRef(s)'
  <2>1. PICK d \in Int : d = (IF s = a THEN 1 ELSE 0) - (IF s = z THEN 1 ELSE 0)
    OBVIOUS
  <2>2. entry[s].refs \in Int /\ Cardinality(Holders(s)) \in Nat
    BY EntryTyped, HoldersFinite DEF Inv, TypeInv, EntryType
  <2>3. /\ entry'[s].refs = entry[s].refs + d
        /\ Cardinality(Holders(s)') \in Nat
        /\ Cardinality(Holders(s)') <= Cardinality(Holders(s)) + d
    BY <2>1, <2>2 DEF Tally, Recount, Grow
  <2>4. entry[s].refs >= Cardinality(Holders(s)) + ListRef(s)
    BY <1>2 DEF RefInv, RefsOK
  <2>5. ListRef(s) \in {0, 1} /\ ListRef(s)' \in {0, 1} /\ ListRef(s)' <= ListRef(s)
    BY <1>2 DEF ListRef
  <2> QED
    BY <2>2, <2>3, <2>4, <2>5
<1>3. ASSUME NEW s \in Seqs, entry'[s].freed
      PROVE  entry'[s].refs <= 0
  <2>1. entry[s].freed /\ s # a
    BY <1>3, SeqsBounded DEF Inv, Tally, Recount
  <2>2. entry[s].refs \in Int /\ entry[s].refs <= 0
    BY <2>1, EntryTyped DEF Inv, TypeInv, EntryType, RefInv, FreedOK
  <2>3. entry'[s].refs = entry[s].refs + 0 - (IF s = z THEN 1 ELSE 0)
    BY <2>1 DEF Tally, Recount
  <2> QED
    BY <2>2, <2>3
<1> QED
  BY <1>1, <1>2, <1>3 DEF RefsOK, FreedOK

LEMMA SameRefs ==
  ASSUME Inv, RefInv, NEW a, NEW z, Tally(a, z), a = 0 \/ ~entry[a].freed,
         ExitKept, exits' = exits, \A s : Leaving(s)' = Leaving(s)
  PROVE  RefInv'
<1>1. ASSUME NEW s \in Seqs
      PROVE  ListRef(s)' = ListRef(s)
  BY DEF ListRef, ExitKept, Tally, Recount
<1>2. RefsOK' /\ FreedOK'
  <2>1. \A s \in Seqs : ListRef(s)' <= ListRef(s)
    BY <1>1 DEF ListRef
  <2> QED
    BY <2>1, RefsStep
<1>3. LeavingOK'
  <2>1. Seqs' = Seqs
    BY DEF Tally, Recount, Seqs
  <2> QED
    BY <2>1 DEF RefInv, LeavingOK, ExitKept
<1> QED
  BY <1>2, <1>3 DEF RefInv

\* A thread that is not about to queue a process, and does not become so.
LEMMA LeavingElse ==
  ASSUME NEW t \in Threads,
         \A u \in Threads : u # t => op'[u] = op[u] /\ stack'[u] = stack[u],
         ~Leaves(op[t]), ~Leaves(op'[t])
  PROVE  \A s : Leaving(s)' = Leaving(s)
BY DEF Leaving

\* The calls of RefProcessInfo are over when the exit is logged.
LEMMA CallLeaving ==
  ASSUME Inv, NEW t \in Threads,
         Finds(t) \/ Insert(t) \/ Quiet(t) \/ FillTake(t) \/ FillLog(t) \/ FillParent(t)
  PROVE  \A s : Leaving(s)' = Leaving(s)
<1>1. op' = op
  BY DEF Finds, Find, FindFails, Insert, Quiet, Check, FillStart, FillFails, FillRefused,
         LogStart, FillRelease, FillTake, FillLog, FillParent
<1>2. \E f : stack' = [stack EXCEPT ![t] = f]
  <2>1. CASE Finds(t) \/ Insert(t) \/ FillTake(t)
    BY <2>1 DEF Finds, Find, FindFails, Insert, FillTake, Goto, SetTop, WithTop
  <2>2. CASE Quiet(t)
    BY <2>2 DEF Quiet, Check, FillStart, FillFails, FillRefused, LogStart, FillRelease,
                Goto, SetTop, WithTop
  <2>3. CASE FillLog(t)
    BY <2>3 DEF FillLog
  <2>4. CASE FillParent(t)
    BY <2>4 DEF FillParent
  <2> QED
    BY <2>1, <2>2, <2>3, <2>4
<1>3. \A u \in Threads : u # t => stack'[u] = stack[u]
  BY <1>2 DEF Inv, TypeInv, StacksTyped
<1>4. PICK pc : At(t, pc) /\ (pc = "return" => Len(stack[t]) > 1)
  <2>1. CASE FillParent(t)
    BY <2>1 DEF FillParent
  <2>2. CASE ~FillParent(t)
    <3>1. \E pc \in {"find", "insert", "check", "fill", "query", "log", "start", "release"} :
            At(t, pc)
      BY <2>2 DEF Finds, Find, FindFails, Insert, Quiet, Check, FillStart, FillFails,
                  FillRefused, LogStart, FillRelease, FillTake, FillLog
    <3> QED
      BY <3>1
  <2> QED
    BY <2>1, <2>2
<1>5. /\ Top(t) = stack[t][Len(stack[t])] /\ Top(t).pc = pc
      /\ Len(stack[t]) \in Nat \ {0}
  BY <1>4, AtTop
<1>6. ~Leaves(op[t])
  <2> SUFFICES ASSUME Leaves(op[t]) PROVE FALSE
    OBVIOUS
  <2>1. Len(stack[t]) = 1 /\ stack[t][1].pc = "return"
    BY DEF Leaves, Inv, ListInv, OpsOK
  <2> QED
    BY <1>4, <1>5, <2>1
<1> QED
  BY <1>1, <1>3, <1>6, LeavingElse

LEMMA FindRefs ==
  ASSUME Inv, RefInv, NEW t \in Threads, Finds(t), exits' = exits
  PROVE  RefInv'
<1>1. /\ stack[t] # << >>
      /\ UNCHANGED <<osvars, logLock, op, freeing, uservars>>
  BY FindDoes
<1>2. PICK g \in FrameType :
        /\ SetTop(t, g) /\ g.pid = Top(t).pid /\ g.full = Top(t).full
        /\ \/ /\ g.pc = "check" /\ g.seq \in Known
              /\ entry[g.seq].listed /\ entry[g.seq].pid = g.pid
              /\ Recount(g.seq, 0) /\ FullKept /\ ExitKept
           \/ /\ g.pc = "insert" /\ g.seq = Top(t).seq
              /\ Len(entry) + 1 \in 1 .. MaxSeq
              /\ Len(entry') = Len(entry) + 1
              /\ \A s \in Seqs : entry'[s] = entry[s]
              /\ entry'[Len(entry) + 1] = NewEntry(g.pid)
           \/ /\ g.pc = "return" /\ g.seq = Top(t).seq
              /\ entry' = entry
  BY FindDoes
<1>3. \A s : Leaving(s)' = Leaving(s)
  BY CallLeaving
<1>4. CASE /\ g.pc = "check" /\ g.seq \in Known /\ entry[g.seq].listed
           /\ Recount(g.seq, 0) /\ FullKept /\ ExitKept
  <2>1. Tally(g.seq, 0)
    BY <1>1, <1>2, <1>4, TopTally
  <2>2. ~entry[g.seq].freed
    BY <1>4 DEF Inv, ListInv, EntriesOK, Known
  <2> QED
    BY <1>3, <1>4, <2>1, <2>2, SameRefs
<1>5. CASE g.pc = "return" /\ g.seq = Top(t).seq /\ entry' = entry
  <2>1. Recount(0, 0) /\ FullKept /\ ExitKept
    BY <1>5, SameCounts
  <2>2. Tally(0, 0)
    BY <1>1, <1>2, <1>5, <2>1, TopTally
  <2> QED
    BY <1>3, <2>1, <2>2, SameRefs
<1>6. CASE /\ g.pc = "insert" /\ g.seq = Top(t).seq
           /\ Len(entry') = Len(entry) + 1
           /\ \A s \in Seqs : entry'[s] = entry[s]
           /\ entry'[Len(entry) + 1] = NewEntry(g.pid)
  <2>1. PICK q : q = Len(entry) + 1
    OBVIOUS
  <2>2. /\ Len(entry) \in Nat /\ Seqs' = Seqs \union {q} /\ q \notin Seqs /\ q # 0
        /\ entry'[q] = NewEntry(g.pid)
    BY <1>6, <2>1, SeqsBounded DEF Seqs, Inv
  <2>3. /\ ~entry'[q].listed /\ entry'[q].full = {} /\ ~entry'[q].freed
        /\ entry'[q].refs = 1 /\ entry'[q].exit = "no"
    BY <2>2 DEF NewEntry
  <2>4. \A s : ParkedAt(s)' = ParkedAt(s)
    BY <1>6, <2>2, <2>3 DEF ParkedAt
  <2>5. \A s : Holders(s)' \subseteq Holders(s)
    <3>1. \A s : /\ Pointing(s)' \subseteq Pointing(s)
                 /\ Carrying(s)' \subseteq Carrying(s)
                 /\ Parents(s)' = Parents(s)
      BY <1>1, <1>2, <1>6, TopHolds DEF Inv, TypeInv
    <3> QED
      BY <2>4, <3>1 DEF Holders
  <2>6. Holders(q) = {} /\ Leaving(q) = {}
    <3>1. q \notin Known
      BY <2>2 DEF Known
    <3>2. Holders(q) = {}
      BY <2>2, <3>1, UnknownUnheld
    <3>3. ASSUME NEW u \in Leaving(q) PROVE FALSE
      <4>1. Len(stack[u]) = 1 /\ stack[u][1].seq = q
        BY <3>3 DEF Leaving, Leaves, Inv, ListInv, OpsOK
      <4>2. 1 \in 1 .. Len(stack[u]) /\ u \in Threads
        BY <4>1 DEF Leaving
      <4> QED
        BY <2>2, <3>1, <4>1, <4>2 DEF Inv, ListInv, FramesOK, FrameOK
    <3> QED
      BY <3>2, <3>3
  <2>7. Cardinality(Holders(q)') = 0 /\ ListRef(q)' = 0
    <3>1. Holders(q)' = {} /\ Leaving(q)' = {}
      BY <1>3, <2>5, <2>6
    <3> QED
      BY <2>3, <3>1, FS_EmptySet DEF ListRef
  <2>8. ASSUME NEW s \in Seqs
        PROVE  /\ Cardinality(Holders(s)') \in Nat
               /\ Cardinality(Holders(s)) \in Nat /\ entry[s].refs \in Int
               /\ Cardinality(Holders(s)') <= Cardinality(Holders(s))
               /\ ListRef(s)' = ListRef(s) /\ ListRef(s) \in {0, 1}
    <3>1. Grow(s, 0) /\ Cardinality(Holders(s)) \in Nat
      BY <2>5, HoldersKept, HoldersFinite DEF Inv
    <3>2. entry[s].refs \in Int
      BY EntryTyped DEF Inv, TypeInv, EntryType
    <3>3. ListRef(s)' = ListRef(s) /\ ListRef(s) \in {0, 1}
      BY <1>3, <1>6 DEF ListRef
    <3> QED
      BY <3>1, <3>2, <3>3 DEF Grow
  <2>9. RefsOK'
    <3>1. \A s \in Seqs : exits[s] <= 1 =>
            entry'[s].refs >= Cardinality(Holders(s)') + ListRef(s)'
      <4> SUFFICES ASSUME NEW s \in Seqs, exits[s] <= 1
                   PROVE  entry'[s].refs >= Cardinality(Holders(s)') + ListRef(s)'
        OBVIOUS
      <4>1. entry[s].refs >= Cardinality(Holders(s)) + ListRef(s) /\ entry'[s] = entry[s]
        BY <1>6 DEF RefInv, RefsOK
      <4> QED
        BY <2>8, <4>1
    <3>2. entry'[q].refs >= Cardinality(Holders(q)') + ListRef(q)'
      BY <2>3, <2>7
    <3> QED
      BY <2>2, <3>1, <3>2 DEF RefsOK
  <2>10. LeavingOK'
    BY <1>3, <1>6, <2>2, <2>3, <2>6 DEF RefInv, LeavingOK
  <2>11. FreedOK'
    BY <1>6, <2>2, <2>3 DEF RefInv, FreedOK
  <2> QED
    BY <2>9, <2>10, <2>11 DEF RefInv
<1> QED
  BY <1>2, <1>4, <1>5, <1>6

LEMMA InsertRefs ==
  ASSUME Inv, RefInv, NEW t \in Threads, Insert(t), exits' = exits
  PROVE  RefInv'
<1>1. PICK m \in Seqs :
         /\ m = Top(t).mine /\ Seqs' = Seqs
         /\ \A s \in Seqs : s # m =>
              /\ entry'[s].listed = entry[s].listed /\ entry'[s].pid = entry[s].pid
              /\ \E d \in {0, 1} : entry'[s].refs = entry[s].refs + d /\ Grow(s, d)
         /\ Cardinality(Holders(m)') \in Nat
         /\ entry'[m].refs >=
              Cardinality(Holders(m)') + (IF entry'[m].listed THEN 1 ELSE 0)
  BY InsertTally
<1>2. m \notin Known /\ \E g \in FrameType : Inserts(m, g)
  BY <1>1, InsertDoes
<1>3. \A s : Leaving(s)' = Leaving(s)
  BY CallLeaving
<1>4. /\ entry'[m].exit = "no"
      /\ entry'[m].freed => entry'[m].refs = 0
      /\ entry'[m].refs \in Int
      /\ \A s \in Seqs : s # m =>
           /\ entry'[s].exit = entry[s].exit /\ entry'[s].freed = entry[s].freed
           /\ entry[s].freed => entry'[s].refs = entry[s].refs
  <2>1. PICK g \in FrameType : Inserts(m, g)
    BY <1>2
  <2>2. \A s \in Seqs : entry[s] \in EntryType
    BY EntryTyped DEF Inv, TypeInv
  <2>3. CASE /\ entry'[m] = Freed /\ g.seq \in Known /\ entry[g.seq].listed
             /\ entry'[g.seq] = Held(entry[g.seq])
             /\ \A s \in Seqs : s # m /\ s # g.seq => entry'[s] = entry[s]
    <3>1. ~entry[g.seq].freed /\ g.seq \in Seqs
      BY <2>3 DEF Inv, ListInv, EntriesOK, Known
    <3>2. /\ Held(entry[g.seq]).exit = entry[g.seq].exit
          /\ Held(entry[g.seq]).freed = entry[g.seq].freed
      BY <2>2, <3>1, CountFields
    <3> QED
      BY <2>3, <3>1, <3>2, FreedFields
  <2>4. CASE /\ ~entry'[m].freed /\ entry'[m].exit = "no" /\ entry'[m].refs = 2
             /\ \A s \in Seqs : s # m => entry'[s] = entry[s]
    BY <2>4
  <2> QED
    BY <2>1, <2>3, <2>4 DEF Inserts
<1>5. Leaving(m) = {}
  <2> SUFFICES ASSUME NEW u \in Leaving(m) PROVE FALSE
    OBVIOUS
  <2>1. Len(stack[u]) = 1 /\ stack[u][1].seq = m
    BY DEF Leaving, Leaves, Inv, ListInv, OpsOK
  <2>2. 1 \in 1 .. Len(stack[u]) /\ u \in Threads
    BY <2>1 DEF Leaving
  <2> QED
    BY <1>2, <2>1, <2>2, SeqsBounded DEF Inv, ListInv, FramesOK, FrameOK
<1>6. ListRef(m)' = 0 \/ (entry'[m].listed /\ ListRef(m)' = 1)
  BY <1>3, <1>4, <1>5 DEF ListRef
<1>7. ASSUME NEW s \in Seqs, exits[s] <= 1
      PROVE  entry'[s].refs >= Cardinality(Holders(s)') + ListRef(s)'
  <2>1. CASE s = m
    BY <1>1, <1>4, <1>6, <2>1
  <2>2. CASE s # m
    <3>1. PICK d \in {0, 1} : entry'[s].refs = entry[s].refs + d /\ Grow(s, d)
      BY <1>1, <2>2
    <3>2. ListRef(s)' = ListRef(s) /\ ListRef(s) \in {0, 1}
      BY <1>1, <1>3, <1>4, <2>2 DEF ListRef
    <3>3. /\ entry[s].refs \in Int /\ Cardinality(Holders(s)) \in Nat
          /\ entry[s].refs >= Cardinality(Holders(s)) + ListRef(s)
      BY <1>7, EntryTyped, HoldersFinite DEF Inv, TypeInv, EntryType, RefInv, RefsOK
    <3> QED
      BY <3>1, <3>2, <3>3 DEF Grow
  <2> QED
    BY <2>1, <2>2
<1>8. RefsOK'
  BY <1>1, <1>7 DEF RefsOK
<1>9. LeavingOK'
  BY <1>1, <1>3, <1>4, <1>5 DEF RefInv, LeavingOK
<1>10. FreedOK'
  BY <1>1, <1>4 DEF RefInv, FreedOK
<1> QED
  BY <1>8, <1>9, <1>10 DEF RefInv

\* Some entries become free, or lose a reference, over a step that moves no
\* thread.
LEMMA FreeingRefs ==
  ASSUME Inv, RefInv, stack' = stack, op' = op, exits' = exits, Seqs' = Seqs,
         \A s \in Seqs : /\ entry'[s].full \subseteq entry[s].full
                         /\ entry'[s].refs \in Int
                         /\ entry'[s].freed => entry'[s].refs <= 0
                         /\ entry'[s].exit \in {"no", entry[s].exit},
         \A s \in Seqs : exits[s] <= 1 =>
           entry'[s].refs >= Cardinality(Holders(s)) + ListRef(s)'
  PROVE  RefInv'
<1>1. \A s : Leaving(s)' = Leaving(s)
  BY DEF Leaving
<1>2. ASSUME NEW s \in Seqs, exits[s] <= 1
      PROVE  entry'[s].refs >= Cardinality(Holders(s)') + ListRef(s)'
  <2>1. /\ Pointing(s)' \subseteq Pointing(s)
        /\ Carrying(s)' \subseteq Carrying(s)
        /\ Parents(s)' \subseteq Parents(s)
    BY DEF Pointing, Carrying, Parents, Places, Frame, Queues
  <2>2. ParkedAt(s)' \subseteq ParkedAt(s)
    BY DEF ParkedAt
  <2>3. Grow(s, 0) /\ Cardinality(Holders(s)) \in Nat
    BY <2>1, <2>2, HoldersKeep, HoldersKept, HoldersFinite DEF Inv
  <2>4. ListRef(s)' \in {0, 1}
    BY DEF ListRef
  <2> QED
    BY <1>2, <2>3, <2>4 DEF Grow
<1>3. RefsOK' /\ FreedOK'
  BY <1>2 DEF RefsOK, FreedOK
<1>4. LeavingOK'
  BY <1>1 DEF RefInv, LeavingOK
<1> QED
  BY <1>3, <1>4 DEF RefInv

LEMMA FreeRefs ==
  ASSUME Inv, RefInv, NEW t \in Threads, FreeEntry(t), exits' = exits
  PROVE  RefInv'
<1>1. PICK f : f = freeing[t]
  OBVIOUS
<1>2. f \in Seqs
  BY <1>1 DEF FreeEntry, Inv, ListInv, OpsOK, Known
<1>3. op' = op /\ stack' = stack
  BY DEF FreeEntry
<1>4. \A s \in Seqs : entry[s] \in EntryType
  BY EntryTyped DEF Inv, TypeInv
<1>5. CASE entry[f].refs = 0 /\ entry' = With(f, Freed)
  <2>1. /\ Len(entry') = Len(entry) /\ entry'[f] = Freed
        /\ \A r \in Seqs : r # f => entry'[r] = entry[r]
    BY <1>2, <1>5, FreedFields, WithDoes DEF Inv, TypeInv
  <2>2. Seqs' = Seqs
    BY <2>1 DEF Seqs
  <2>3. ASSUME NEW s \in Seqs
        PROVE  /\ entry'[s].full \subseteq entry[s].full
               /\ entry'[s].refs \in Int
               /\ entry'[s].freed => entry'[s].refs <= 0
               /\ entry'[s].exit \in {"no", entry[s].exit}
    <3>1. CASE s = f
      BY <2>1, <3>1, FreedFields
    <3>2. CASE s # f
      BY <1>4, <2>1, <3>2 DEF EntryType, RefInv, FreedOK
    <3> QED
      BY <3>1, <3>2
  <2>4. ASSUME NEW s \in Seqs, exits[s] <= 1
        PROVE  entry'[s].refs >= Cardinality(Holders(s)) + ListRef(s)'
    <3>1. /\ Leaving(s)' = Leaving(s) /\ Cardinality(Holders(s)) \in Nat
          /\ ListRef(s) \in {0, 1}
          /\ entry[s].refs >= Cardinality(Holders(s)) + ListRef(s)
      BY <1>3, <2>4, HoldersFinite DEF Leaving, ListRef, Inv, RefInv, RefsOK
    <3>2. CASE s = f
      <4>1. Cardinality(Holders(s)) = 0 /\ ListRef(s) = 0
        BY <1>5, <3>1, <3>2
      <4>2. Leaving(s) = {}
        BY <4>1 DEF ListRef
      <4>3. ListRef(s)' = 0
        BY <2>1, <3>1, <3>2, <4>2, FreedFields DEF ListRef
      <4> QED
        BY <2>1, <3>2, <4>1, <4>3, FreedFields
    <3>3. CASE s # f
      <4>1. ListRef(s)' = ListRef(s)
        BY <2>1, <3>1, <3>3 DEF ListRef
      <4> QED
        BY <2>1, <3>1, <3>3, <4>1
    <3> QED
      BY <3>2, <3>3
  <2> QED
    BY <1>3, <2>2, <2>3, <2>4, FreeingRefs
<1>6. CASE entry' = entry
  <2>1. Tally(0, 0) /\ ExitKept
    <3>1. /\ \A s : Pointing(s)' = Pointing(s) /\ Carrying(s)' = Carrying(s)
          /\ \A s : Parents(s)' = Parents(s) /\ ParkedAt(s)' = ParkedAt(s)
      BY <1>3, <1>6 DEF Pointing, Carrying, Parents, Places, Frame, Queues, ParkedAt, Seqs
    <3>2. \A s \in Seqs : Grow(s, 0)
      BY <3>1, HoldersKept DEF Inv, Holders
    <3>3. \A s \in Seqs : s # 0
      BY SeqsBounded DEF Inv
    <3> QED
      BY <1>6, <3>2, <3>3, SameCounts DEF Tally
  <2>2. \A s : Leaving(s)' = Leaving(s)
    BY <1>3 DEF Leaving
  <2> QED
    BY <2>1, <2>2, SameRefs
<1> QED
  BY <1>1, <1>5, <1>6 DEF FreeEntry

LEMMA WaitRefs ==
  ASSUME Inv, RefInv, WaitExit, exits' = exits
  PROVE  RefInv'
<1>1. entry' = [s \in Seqs |->
         IF s \in Signalled THEN Dropped(entry[s]) ELSE entry[s]]
  BY DEF WaitExit
<1>2. op' = op /\ stack' = stack /\ Seqs' = Seqs
  BY WaitDoes
<1>3. \A s \in Seqs : entry[s] \in EntryType
  BY EntryTyped DEF Inv, TypeInv
<1>4. ASSUME NEW s \in Seqs
      PROVE  /\ entry'[s].full \subseteq entry[s].full
             /\ entry'[s].refs \in Int
             /\ entry'[s].freed => entry'[s].refs <= 0
             /\ entry'[s].exit \in {"no", entry[s].exit}
  <2>1. CASE s \in Signalled
    <3>1. CASE entry'[s] = Freed
      BY <3>1, FreedFields
    <3>2. CASE /\ entry'[s].freed = entry[s].freed /\ entry'[s].full = entry[s].full
               /\ entry'[s].refs = entry[s].refs - 1 /\ entry'[s].exit = "no"
      BY <1>3, <3>2 DEF EntryType, RefInv, FreedOK
    <3> QED
      BY <1>1, <1>3, <2>1, <3>1, <3>2, DroppedFields
  <2>2. CASE s \notin Signalled
    BY <1>1, <1>3, <2>2 DEF EntryType, RefInv, FreedOK
  <2> QED
    BY <2>1, <2>2
<1>5. ASSUME NEW s \in Seqs, exits[s] <= 1
      PROVE  entry'[s].refs >= Cardinality(Holders(s)) + ListRef(s)'
  <2>1. /\ Leaving(s)' = Leaving(s) /\ Cardinality(Holders(s)) \in Nat
        /\ ListRef(s) \in {0, 1} /\ entry[s].refs \in Int
        /\ entry[s].refs >= Cardinality(Holders(s)) + ListRef(s)
    BY <1>2, <1>3, <1>5, HoldersFinite DEF Leaving, ListRef, Inv, RefInv, RefsOK, EntryType
  <2>2. CASE s \in Signalled
    <3>1. entry[s].exit = "queued"
      BY <2>2 DEF Signalled
    <3>2. Leaving(s) = {} /\ exits[s] # 0 /\ ListRef(s) = 1
      BY <1>5, <3>1 DEF RefInv, LeavingOK, ListRef
    <3>3. entry'[s].refs = entry[s].refs - 1 /\ entry'[s].exit = "no"
      <4>1. entry'[s] = Dropped(entry[s])
        BY <1>1, <2>2
      <4> QED
        BY <1>3, <4>1, DroppedFields, FreedFields
    <3>4. ListRef(s)' = 0
      BY <1>2, <2>1, <3>2, <3>3 DEF ListRef
    <3> QED
      BY <2>1, <3>2, <3>3, <3>4
  <2>3. CASE s \notin Signalled
    <3>1. ListRef(s)' = ListRef(s) /\ entry'[s] = entry[s]
      BY <1>1, <2>1, <2>3 DEF ListRef
    <3> QED
      BY <2>1, <3>1
  <2> QED
    BY <2>2, <2>3
<1> QED
  BY <1>2, <1>4, <1>5, FreeingRefs

LEMMA ArriveRefs ==
  ASSUME Inv, OpsRun, Unused, RefInv, NEW t \in Threads, Arrive(t)
  PROVE  RefInv'
<1>1. Tally(0, 0) /\ entry' = entry /\ exits' = exits
  BY ArriveTally DEF Arrive, Enter, Create, Exit, history
<1>2. ExitKept
  BY <1>1, SameCounts
<1>3. PICK o, S : /\ ~Leaves(o) /\ op' = [op EXCEPT ![t] = o]
                  /\ stack' = [stack EXCEPT ![t] = S]
  BY DEF Arrive, Enter, Create, Exit, Begin, Doing, Leaves
<1>4. ~Leaves(op[t])
  BY DEF Arrive, Enter, Create, Exit, Ready, Leaves
<1>5. /\ op'[t] = o
      /\ \A u \in Threads : u # t => op'[u] = op[u] /\ stack'[u] = stack[u]
  BY <1>3 DEF Inv, TypeInv, DriverTyped, StacksTyped
<1>6. \A s : Leaving(s)' = Leaving(s)
  BY <1>3, <1>4, <1>5, LeavingElse
<1> QED
  BY <1>1, <1>2, <1>6, SameRefs

\* The operations other than the exit of a known process.
Other(t) == Skips(t) \/ Log(t) \/ CreateChild(t) \/ Parks(t) \/ ExitUnknown(t)

LEMMA OtherRefs ==
  ASSUME Inv, OpsRun, RefInv, NEW t \in Threads, Other(t), exits' = exits
  PROVE  RefInv'
<1>1. PICK z : Tally(0, z)
  BY OperationTally DEF Other, Works
<1>2. ExitKept
  <2>1. CASE Skips(t) \/ Log(t)
    <3>1. PICK s \in Known \union {0} : Deref(t, s)
      BY <2>1, ReportDoes
    <3> QED
      BY <3>1, DerefCounts
  <2>2. CASE CreateChild(t) \/ ExitUnknown(t)
    <3>1. entry' = entry
      BY <2>2 DEF CreateChild, ExitUnknown
    <3> QED
      BY <3>1, SameCounts
  <2> QED
    BY <2>1, <2>2, ParkDoes DEF Other
<1>3. \E o, S : op' = [op EXCEPT ![t] = o] /\ stack' = [stack EXCEPT ![t] = S]
  BY DEF Other, Skips, Skip, SkipUnmarked, Log, Finish, CreateChild, Parks, CreatePark, ParkFails, ThreadStarts,
         ExitUnknown, ExitEnds
<1>4. \A u \in Threads : u # t => op'[u] = op[u] /\ stack'[u] = stack[u]
  BY <1>3 DEF Inv, TypeInv, DriverTyped, StacksTyped
<1>5. ~Leaves(op[t])
  BY DEF Other, Skips, Skip, SkipUnmarked, Log, CreateChild, Parks, CreatePark, ParkFails, ExitUnknown, Returned,
         Reports, Leaves
<1>6. ~Leaves(op'[t])
  <2>1. op \in [Threads -> OpType]
    BY DEF Inv, TypeInv, DriverTyped
  <2>2. CASE Skips(t) \/ Log(t) \/ ExitUnknown(t)
    <3>1. op' = [op EXCEPT ![t] = Idle]
      BY <2>2, ReportDoes DEF Finish, ExitUnknown, ExitEnds
    <3> QED
      BY <2>1, <3>1, IdleFields DEF Leaves
  <2>3. CASE CreateChild(t)
    <3>1. op[t].kind = "create" /\ op[t] \in OpType
      BY <2>1, <2>3 DEF CreateChild, Returned
    <3>2. op'[t] = [op[t] EXCEPT !.step = "child", !.parent = Top(t).seq]
      BY <2>1, <2>3 DEF CreateChild
    <3> QED
      BY <3>1, <3>2 DEF Leaves, OpType
  <2>4. CASE Parks(t)
    <3>1. PICK o \in OpType : op' = [op EXCEPT ![t] = o] /\ o.kind = "thread"
      BY <2>4, ParkDoes
    <3> QED
      BY <2>1, <3>1 DEF Leaves
  <2> QED
    BY <2>2, <2>3, <2>4 DEF Other
<1>7. \A s : Leaving(s)' = Leaving(s)
  BY <1>4, <1>5, <1>6, LeavingElse
<1> QED
  BY <1>1, <1>2, <1>7, SameRefs

\* The step in which a process ends with its sequence.
LEMMA ExitQueryRefs ==
  ASSUME Inv, RefInv, HistoryTyped, NEW t \in Threads, ExitQuery(t),
         exits' = [exits EXCEPT ![Top(t).seq] = @ + 1]
  PROVE  RefInv'
<1>1. PICK a : a = Top(t).seq
  OBVIOUS
<1>2. /\ Returned(t, {"exit"}, "ref") /\ a # 0 /\ stack' = stack
      /\ op' = [op EXCEPT ![t].step = "log"]
  BY <1>1 DEF ExitQuery
<1>3. /\ a \in Known /\ a \in Seqs /\ a \in 1 .. MaxSeq
      /\ op[t] \in OpType /\ op[t].kind = "exit" /\ op[t].step = "ref"
      /\ Top(t) = stack[t][1] /\ Len(stack[t]) = 1 /\ Top(t).seq = a
  BY <1>1, <1>2, AtReturn, SeqsBounded DEF Inv
<1>4. PICK z : Tally(0, z)
  BY ExitGoesTally
<1>5. /\ Seqs' = Seqs /\ \A s \in Seqs : entry'[s].listed = entry[s].listed
  BY <1>4 DEF Tally, Recount, Seqs
<1>6. /\ \A s \in Seqs : s # a => entry'[s].exit = entry[s].exit
      /\ entry'[a].exit \in {"held", entry[a].exit}
  <2>1. CASE entry' = entry
    BY <2>1
  <2>2. CASE entry' = With(a, [entry[a] EXCEPT !.exit = "held"])
    <3>1. \A s \in Seqs : s # a => entry'[s] = entry[s]
      BY <1>3, <2>2, ExitCounts
    <3>2. entry'[a].exit = "held"
      BY <1>3, <2>2, ExitCounts
    <3> QED
      BY <3>1, <3>2
  <2> QED
    BY <1>1, <2>1, <2>2 DEF ExitQuery
<1>7. /\ \A u \in Threads : u # t => op'[u] = op[u]
      /\ Leaves(op'[t]) /\ ~Leaves(op[t])
  BY <1>2, <1>3 DEF Leaves, OpType, Inv, TypeInv, DriverTyped
<1>8. /\ \A s : s # a => Leaving(s)' = Leaving(s)
      /\ Leaving(a)' \subseteq Leaving(a) \union {t}
  BY <1>2, <1>3, <1>7 DEF Leaving
<1>9. /\ \A s \in Seqs : exits[s] \in Nat
      /\ \A s \in Seqs : exits'[s] = IF s = a THEN exits[s] + 1 ELSE exits[s]
  BY <1>1, <1>3, SeqsBounded DEF HistoryTyped, Inv
<1>10. exits[a] = 0 => entry[a].listed
  <2> SUFFICES ASSUME exits[a] = 0 PROVE entry[a].listed
    OBVIOUS
  <2>1. TopOf(t) \in Pointing(a)
    <3>1. stack[t] # << >> /\ ~Queues(t)
      <4>1. Len(stack[t]) = 1
        BY <1>3
      <4> QED
        BY <1>3, <4>1 DEF Queues
    <3> QED
      BY <1>2, <1>3, <3>1, TopPlace
  <2>2. Cardinality(Holders(a)) >= 1
    <3>1. <<"call", TopOf(t)>> \in Holders(a)
      BY <2>1 DEF Holders
    <3>2. Cardinality(Holders(a)) # 0
      BY <3>1, HoldersFinite, FS_EmptySet DEF Inv
    <3> QED
      BY <3>2, HoldersFinite DEF Inv
  <2>3. /\ entry[a].refs >= Cardinality(Holders(a)) + ListRef(a) /\ ListRef(a) \in {0, 1}
        /\ entry[a].refs \in Int /\ Cardinality(Holders(a)) \in Nat
    BY <1>3, EntryTyped, HoldersFinite
       DEF RefInv, RefsOK, ListRef, Inv, TypeInv, EntryType
  <2>4. ~entry[a].freed
    BY <1>3, <2>2, <2>3 DEF RefInv, FreedOK
  <2> QED
    BY <1>3, <2>4 DEF Known
<1>11. ASSUME NEW s \in Seqs, exits'[s] <= 1
       PROVE  exits[s] <= 1 /\ ListRef(s)' <= ListRef(s)
  <2>1. CASE s # a
    BY <1>5, <1>6, <1>8, <1>9, <1>11, <2>1 DEF ListRef
  <2>2. CASE s = a
    <3>1. exits[a] = 0
      BY <1>9, <1>11, <2>2
    <3>2. ListRef(a) = 1 /\ ListRef(a)' \in {0, 1}
      BY <1>10, <3>1 DEF ListRef
    <3> QED
      BY <2>2, <3>1, <3>2
  <2> QED
    BY <2>1, <2>2
<1>12. RefsOK' /\ FreedOK'
  BY <1>4, <1>11, RefsStep
<1>13. ASSUME NEW s \in Seqs
       PROVE  /\ exits'[s] = 0 => Leaving(s)' = {} /\ entry'[s].exit # "queued"
              /\ exits'[s] <= 1 => /\ entry'[s].exit = "queued" => Leaving(s)' = {}
                                   /\ \A u, v \in Leaving(s)' : u = v
  <2>1. CASE s # a
    BY <1>6, <1>8, <1>9, <2>1 DEF RefInv, LeavingOK
  <2>2. CASE s = a
    <3>1. exits'[a] # 0 /\ (exits'[a] <= 1 => exits[a] = 0)
      BY <1>3, <1>9
    <3>2. exits[a] = 0 => Leaving(a) = {} /\ entry[a].exit # "queued"
      BY <1>3 DEF RefInv, LeavingOK
    <3> QED
      BY <1>6, <1>8, <2>2, <3>1, <3>2
  <2> QED
    BY <2>1, <2>2
<1>14. LeavingOK'
  BY <1>5, <1>13 DEF LeavingOK
<1> QED
  BY <1>12, <1>14 DEF RefInv

LEMMA ExitLogRefs ==
  ASSUME Inv, RefInv, NEW t \in Threads, ExitLog(t), exits' = exits
  PROVE  RefInv'
<1>1. PICK z : Tally(0, z)
  BY ExitGoesTally
<1>2. /\ Returned(t, {"exit"}, "log") /\ Deref(t, Top(t).seq) /\ stack' = stack
      /\ op' = [op EXCEPT ![t].step = "queue"]
  BY DEF ExitLog
<1>3. Top(t).seq \in Known \union {0} /\ op[t] \in OpType /\ op[t].kind = "exit"
      /\ op[t].step = "log"
  BY <1>2, AtReturn
<1>4. ExitKept
  BY <1>2, <1>3, DerefCounts
<1>5. /\ \A u \in Threads : u # t => op'[u] = op[u]
      /\ Leaves(op'[t]) /\ Leaves(op[t])
  BY <1>2, <1>3 DEF Leaves, OpType, Inv, TypeInv, DriverTyped
<1>6. \A s : Leaving(s)' = Leaving(s)
  BY <1>2, <1>5 DEF Leaving
<1> QED
  BY <1>1, <1>4, <1>6, SameRefs

\* The process is queued, and the reference of the list is left to the work
\* item.
LEMMA ExitQueueRefs ==
  ASSUME Inv, OpsRun, RefInv, NEW t \in Threads, ExitQueue(t), exits' = exits
  PROVE  RefInv'
<1>1. PICK a : a = Top(t).seq
  OBVIOUS
<1>2. /\ Returned(t, {"exit"}, "queue")
      /\ op' = [op EXCEPT ![t] = Idle] /\ stack' = [stack EXCEPT ![t] = << >>]
  BY DEF ExitQueue, ExitEnds, Finish
<1>3. /\ a \in Seqs \union {0} /\ Top(t) = stack[t][1] /\ Len(stack[t]) = 1
      /\ op[t].kind = "exit" /\ op[t].step = "queue"
  BY <1>1, <1>2, AtReturn
<1>4. a \in Seqs /\ t \in Leaving(a)
  <2>1. a # 0
    BY <1>1, <1>3 DEF Inv, ListInv, OpsOK
  <2> QED
    BY <1>1, <1>3, <2>1 DEF Leaving, Leaves
<1>5. PICK z : Tally(0, z)
  BY OperationTally DEF Works
<1>6. /\ Seqs' = Seqs /\ \A s \in Seqs : entry'[s].listed = entry[s].listed
  BY <1>5 DEF Tally, Recount, Seqs
<1>7. /\ \A s \in Seqs : s # a => entry'[s].exit = entry[s].exit
  <2>1. CASE entry' = entry
    BY <2>1
  <2>2. CASE entry' = With(a, [entry[a] EXCEPT !.exit = "queued"])
    <3>1. \A s \in Seqs : s # a => entry'[s] = entry[s]
      BY <1>4, <2>2, ExitCounts
    <3> QED
      BY <3>1
  <2> QED
    BY <1>1, <2>1, <2>2 DEF ExitQueue
<1>8. /\ \A u \in Threads : u # t => op'[u] = op[u] /\ stack'[u] = stack[u]
      /\ ~Leaves(op'[t])
  BY <1>2, IdleFields DEF Leaves, Inv, TypeInv, DriverTyped, StacksTyped
<1>9. /\ \A s : s # a => Leaving(s)' = Leaving(s)
      /\ Leaving(a)' \subseteq Leaving(a) \ {t}
  BY <1>1, <1>3, <1>8 DEF Leaving
<1>10. ASSUME NEW s \in Seqs, exits'[s] <= 1
       PROVE  exits[s] <= 1 /\ ListRef(s)' <= ListRef(s)
  <2>1. CASE s # a
    BY <1>6, <1>7, <1>9, <1>10, <2>1 DEF ListRef
  <2>2. CASE s = a
    <3>1. ListRef(a) = 1 /\ ListRef(a)' \in {0, 1}
      BY <1>4 DEF ListRef
    <3> QED
      BY <1>10, <2>2, <3>1
  <2> QED
    BY <2>1, <2>2
<1>11. RefsOK' /\ FreedOK'
  BY <1>5, <1>10, RefsStep
<1>12. ASSUME NEW s \in Seqs
       PROVE  /\ exits'[s] = 0 => Leaving(s)' = {} /\ entry'[s].exit # "queued"
              /\ exits'[s] <= 1 => /\ entry'[s].exit = "queued" => Leaving(s)' = {}
                                   /\ \A u, v \in Leaving(s)' : u = v
  <2>1. CASE s # a
    BY <1>7, <1>9, <2>1 DEF RefInv, LeavingOK
  <2>2. CASE s = a
    <3>1. exits[a] # 0
      BY <1>4 DEF RefInv, LeavingOK
    <3>2. exits[a] <= 1 => Leaving(a)' = {}
      BY <1>4, <1>9 DEF RefInv, LeavingOK
    <3> QED
      BY <2>2, <3>1, <3>2
  <2> QED
    BY <2>1, <2>2
<1>13. LeavingOK'
  BY <1>6, <1>12 DEF LeavingOK
<1> QED
  BY <1>11, <1>13 DEF RefInv

LEMMA NextRefInv ==
  ASSUME Inv, HistoryTyped, OpsRun, Unused, RefInv, [Next]_vars
  PROVE  RefInv'
<1>1. ASSUME NEW t \in Threads, Arrive(t) PROVE RefInv'
  BY <1>1, ArriveRefs
<1>2. ASSUME NEW t \in Threads, Ref(t) PROVE RefInv'
  <2>1. exits' = exits
    BY <1>2 DEF Ref
  <2>2. CASE Quiet(t) \/ FillTake(t) \/ FillLog(t) \/ FillParent(t)
    <3>1. \E z : Tally(0, z)
      BY <2>2, CallTally
    <3>2. ExitKept
      BY <2>2, QuietDoes, FillTakeDoes, FillLogDoes, FillParentDoes
    <3>3. \A s : Leaving(s)' = Leaving(s)
      BY <2>2, CallLeaving
    <3> QED
      BY <2>1, <3>1, <3>2, <3>3, SameRefs
  <2> QED
    BY <1>2, <2>1, <2>2, FindRefs, InsertRefs, FreeRefs DEF Ref, Fill, Quiet, Finds
<1>3. ASSUME NEW t \in Threads, Operation(t) PROVE RefInv'
  <2>1. CASE ExitQuery(t) /\ exits' = [exits EXCEPT ![Top(t).seq] = @ + 1]
    BY <2>1, ExitQueryRefs
  <2>2. CASE Other(t) /\ exits' = exits
    BY <2>2, OtherRefs
  <2>3. CASE (ExitLog(t) \/ ExitQueue(t)) /\ exits' = exits
    BY <2>3, ExitLogRefs, ExitQueueRefs
  <2> QED
    BY <1>3, <2>1, <2>2, <2>3 DEF Operation, Other, Parks, Skips, history
<1>4. CASE WaitExit
  BY <1>4, WaitRefs DEF WaitExit, history
<1>5. CASE UNCHANGED vars
  <2>1. /\ stack' = stack /\ op' = op /\ entry' = entry /\ exits' = exits /\ Seqs' = Seqs
    BY <1>5 DEF vars, callvars, history, Seqs
  <2>2. \A s : Holders(s)' = Holders(s) /\ Leaving(s)' = Leaving(s)
    BY <2>1 DEF Holders, Pointing, Carrying, Parents, ParkedAt, Places, Frame, Queues, Leaving
  <2>3. \A s : ListRef(s)' = ListRef(s)
    BY <2>1, <2>2 DEF ListRef
  <2> QED
    BY <2>1, <2>2, <2>3 DEF RefInv, RefsOK, LeavingOK, FreedOK
<1> QED
  BY <1>1, <1>2, <1>3, <1>4, <1>5 DEF Next

\* What nothing holds is not used.
LEMMA NothingHolds ==
  ASSUME Inv, NEW s \in Seqs, Holders(s) = {}, Leaving(s) = {}
  PROVE  /\ \A t \in Threads : s \notin Uses(t)
         /\ \A r \in Seqs : s \notin entry[r].full
<1>1. Pointing(s) = {} /\ Carrying(s) = {} /\ ParkedAt(s) = {}
  <2>1. \A x \in Pointing(s) : <<"call", x>> \in Holders(s)
    BY DEF Holders
  <2>2. \A x \in Carrying(s) : <<"taken", x>> \in Holders(s)
    BY DEF Holders
  <2>3. \A x \in ParkedAt(s) : <<"parked", x>> \in Holders(s)
    BY DEF Holders
  <2> QED
    BY <2>1, <2>2, <2>3
<1>2. ASSUME NEW t \in Threads, NEW i \in 1 .. Len(stack[t])
      PROVE  /\ stack[t][i].seq # s
             /\ stack[t][i].pc = "log" => s \notin stack[t][i].full
  <2>1. PICK x : x = <<t, i>>
    OBVIOUS
  <2>2. Len(stack[t]) \in Nat
    BY LenProperties DEF Inv, TypeInv, StacksTyped
  <2>3. x \in Places /\ Frame(x) = stack[t][i] /\ x[1] = t
    BY <2>1, <2>2, InPlaces DEF Frame
  <2>4. CASE Queues(t)
    <3>1. Len(stack[t]) = 1 /\ stack[t][1].pc = "return"
      BY <2>4 DEF Queues, Inv, ListInv, OpsOK
    <3>2. i = 1
      BY <3>1
    <3>3. stack[t][1].seq # s
      BY <2>4 DEF Leaving, Leaves, Queues
    <3> QED
      BY <3>1, <3>2, <3>3
  <2>5. CASE ~Queues(t)
    BY <1>1, <2>3, <2>5 DEF Pointing, Carrying
  <2> QED
    BY <2>4, <2>5
<1>3. \A t \in Threads : s \notin Uses(t)
  BY <1>2 DEF Uses
<1>4. \A r \in Seqs : s \notin entry[r].full
  BY <1>1 DEF ParkedAt
<1> QED
  BY <1>3, <1>4

\* No call and no parked details point to an entry that was freed, until a
\* second process ends with its sequence: whatever threads do at a time and
\* whatever fails, each use has a reference of its own (RefProcessInfo,
\* DerefProcessInfo), and the work item drops that of the list once
\* (ProcmonWaitProcessExitWorkRoutine).  Identifiers may be used again.
THEOREM NothingDangles == Spec => []NoDanglingRef
<1>1. Init => Inv /\ HistoryTyped /\ CountInv /\ StartInv /\ RefInv
  <2>1. Init => Seqs = {} /\ HistoryTyped
    BY DEF Init, Seqs, HistoryTyped
  <2>2. Init => RefInv
    BY <2>1 DEF RefInv, RefsOK, LeavingOK, FreedOK
  <2> QED
    BY <2>1, <2>2, InitInv, InitCountInv, InitStartInv
<1>2. Inv /\ HistoryTyped /\ CountInv /\ StartInv /\ RefInv /\ [Next]_vars
        => (Inv /\ HistoryTyped /\ CountInv /\ StartInv /\ RefInv)'
  BY NextInv, NextHistory, NextCountInv, NextStartInv, NextRefInv DEF StartInv
<1>3. Inv /\ RefInv => NoDanglingRef
  <2> SUFFICES ASSUME Inv, RefInv, NEW s \in Seqs, entry[s].freed, exits[s] <= 1
               PROVE  /\ \A t \in Threads : s \notin Uses(t)
                      /\ \A r \in Seqs : s \notin entry[r].full
    BY DEF NoDanglingRef
  <2>1. /\ entry[s].refs <= 0 /\ entry[s].refs \in Int
        /\ IsFiniteSet(Holders(s)) /\ Cardinality(Holders(s)) \in Nat
        /\ ListRef(s) \in {0, 1}
        /\ entry[s].refs >= Cardinality(Holders(s)) + ListRef(s)
    BY EntryTyped, HoldersFinite
       DEF Inv, TypeInv, EntryType, RefInv, RefsOK, FreedOK, ListRef
  <2>2. Cardinality(Holders(s)) = 0 /\ ListRef(s) = 0
    BY <2>1
  <2>3. Holders(s) = {} /\ Leaving(s) = {}
    BY <2>1, <2>2, FS_EmptySet DEF ListRef
  <2> QED
    BY <2>3, NothingHolds
<1> QED
  BY <1>1, <1>2, <1>3, PTL DEF Spec
=============================================================================
