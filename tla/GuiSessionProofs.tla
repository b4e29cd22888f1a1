------------------------- MODULE GuiSessionProofs -------------------------
(***************************************************************************)
(* Proofs about the session behind the window.                              *)
(***************************************************************************)
EXTENDS GuiSession, TLAPS, WellFoundedInduction

\* Induction over the naturals, for a set in place of a predicate: a set that
\* misses one misses a least one.
LEMMA NatLeast ==
  ASSUME NEW S \in SUBSET Nat, S # {}
  PROVE  \E n \in S : \A m \in S : n <= m
<1>1. IsWellFoundedOn(OpToRel(<, Nat), Nat)
  BY NatLessThanWellFounded
<1>2. PICK n \in S : \A m \in S : ~ (<<m, n>> \in OpToRel(<, Nat))
  BY <1>1, WFMin
<1>3. \A m \in S : ~(m < n)
  BY <1>2 DEF OpToRel
<1> QED
  BY <1>3

LEMMA SetInduction ==
  ASSUME NEW S, 0 \in S, \A n \in Nat : n \in S => n + 1 \in S
  PROVE  Nat \subseteq S
<1> SUFFICES ASSUME Nat \ S # {} PROVE FALSE
  OBVIOUS
<1>1. PICK n \in Nat \ S : \A m \in Nat \ S : n <= m
  BY NatLeast
<1>2. n # 0
  OBVIOUS
<1>3. n - 1 \in Nat /\ n - 1 < n
  BY <1>2
<1>4. n - 1 \in S
  BY <1>1, <1>3
<1> QED
  BY <1>3, <1>4

\* A function defined by recursion along 0..N exists.
LEMMA Recursion ==
  ASSUME NEW S, NEW base \in S, NEW N \in Nat, NEW step \in [1..N -> [S -> S]]
  PROVE  \E g \in [0..N -> S] :
           g[0] = base /\ \A n \in 1..N : g[n] = step[n][g[n - 1]]
<1> DEFINE Good(m, g) == /\ g \in [0..m -> S]
                         /\ g = [n \in 0..m |-> IF n = 0 THEN base ELSE step[n][g[n - 1]]]
           T == {m \in Nat : m <= N => \E g : Good(m, g)}
<1>1. 0 \in T
  <2>1. Good(0, [n \in 0..0 |-> base])
    OBVIOUS
  <2> QED BY <2>1
<1>2. ASSUME NEW m \in Nat, m \in T PROVE m + 1 \in T
  <2> SUFFICES ASSUME m + 1 <= N PROVE \E g : Good(m + 1, g)
    OBVIOUS
  <2>1. PICK g : Good(m, g)
    BY <1>2
  <2> DEFINE h == [n \in 0..m + 1 |-> IF n = m + 1 THEN step[m + 1][g[m]] ELSE g[n]]
  <2>2. m + 1 \in 1..N /\ g[m] \in S
    BY <2>1
  <2>3. h \in [0..m + 1 -> S]
    BY <2>1, <2>2
  <2>4. ASSUME NEW n \in 0..m + 1
        PROVE  h[n] = IF n = 0 THEN base ELSE step[n][h[n - 1]]
    <3>1. CASE n = m + 1
      <4>1. h[n] = step[m + 1][g[m]] /\ h[m] = g[m]
        BY <3>1
      <4> QED BY <3>1, <4>1
    <3>2. CASE n # m + 1
      <4>1. n \in 0..m /\ h[n] = g[n]
        BY <3>2
      <4>2. CASE n = 0
        BY <2>1, <4>1, <4>2, SMTT(30)
      <4>3. CASE n # 0
        <5>1. n - 1 \in 0..m + 1 /\ n - 1 # m + 1
          BY <4>1, <4>3
        <5>2. h[n - 1] = g[n - 1]
          BY <5>1
        <5> QED BY <2>1, <4>1, <4>3, <5>2
      <4> QED BY <4>2, <4>3
    <3> QED BY <3>1, <3>2
  <2>5. Good(m + 1, h)
    BY <2>3, <2>4
  <2> QED BY <2>5
<1>3. Nat \subseteq T
  BY <1>1, <1>2, SetInduction
<1>4. PICK g : Good(N, g)
  BY <1>3
<1>5. ASSUME NEW n \in 1..N PROVE g[n] = step[n][g[n - 1]]
  <2>1. n \in 0..N /\ n # 0
    OBVIOUS
  <2> QED BY <1>4, <2>1
<1>6. g[0] = base
  BY <1>4
<1> QED
  BY <1>4, <1>5, <1>6

\* Retained, unrolled: what is kept of the first n elements, for each n.
RetainedOf(seq, set, g) ==
  g = [n \in 0..Len(seq) |->
         IF n = 0 THEN <<>>
         ELSE IF seq[n] \in set THEN Append(g[n - 1], seq[n]) ELSE g[n - 1]]

RetainedSteps(seq, set, g) ==
  /\ g[0] = <<>>
  /\ \A n \in 1..Len(seq) :
       g[n] = IF seq[n] \in set THEN Append(g[n - 1], seq[n]) ELSE g[n - 1]
  /\ Retained(seq, set) = g[Len(seq)]

LEMMA RetainedUnrolled ==
  ASSUME NEW T, NEW seq \in Seq(T), NEW set
  PROVE  \E g \in [0..Len(seq) -> Seq(T)] : RetainedSteps(seq, set, g)
<1> DEFINE N == Len(seq)
           step == [n \in 1..N |-> [x \in Seq(T) |->
                      IF seq[n] \in set THEN Append(x, seq[n]) ELSE x]]
<1>1. N \in Nat /\ <<>> \in Seq(T)
  OBVIOUS
<1>2. \A n \in 1..N : seq[n] \in T
  OBVIOUS
<1>3. step \in [1..N -> [Seq(T) -> Seq(T)]]
  BY <1>2
<1>4. PICK f \in [0..N -> Seq(T)] :
        f[0] = <<>> /\ \A n \in 1..N : f[n] = step[n][f[n - 1]]
  <2> DEFINE S == Seq(T)
             base == <<>>
  <2>1. N \in Nat /\ base \in S /\ step \in [1..N -> [S -> S]]
    BY <1>1, <1>3
  <2> HIDE DEF N, step, S, base
  <2>2. \E f \in [0..N -> S] :
          f[0] = base /\ \A n \in 1..N : f[n] = step[n][f[n - 1]]
    BY <2>1, Recursion
  <2> QED BY <2>2 DEF S, base
<1>5. ASSUME NEW n \in 1..N
      PROVE  f[n] = IF seq[n] \in set THEN Append(f[n - 1], seq[n]) ELSE f[n - 1]
  <2>1. n \in 0..N /\ n # 0 /\ n - 1 \in 0..N
    BY <1>1
  <2>2. f[n] = step[n][f[n - 1]] /\ f[n - 1] \in Seq(T)
    BY <1>4, <2>1
  <2> QED BY <2>2
<1>6. RetainedOf(seq, set, f)
  <2>1. ASSUME NEW n \in 0..N
        PROVE  f[n] = IF n = 0 THEN <<>>
          ELSE IF seq[n] \in set THEN Append(f[n - 1], seq[n]) ELSE f[n - 1]
    <3> HIDE DEF N, step
    <3>1. n = 0 \/ n \in 1..N
      BY <1>1
    <3>2. f[0] = <<>>
      BY <1>4
    <3>3. n \in 1..N => n # 0
      BY <1>1
    <3> QED BY <1>5, <3>1, <3>2, <3>3
  <2>2. f = [n \in 0..N |-> f[n]]
    BY <1>4
  <2> QED BY <2>1, <2>2 DEF RetainedOf
<1>7. PICK g : /\ RetainedOf(seq, set, g)
               /\ Retained(seq, set) = g[N]
  <2> DEFINE c == CHOOSE g : RetainedOf(seq, set, g)
  <2>1. RetainedOf(seq, set, c)
    BY <1>6
  <2>2. Retained(seq, set) = c[N]
    BY DEF Retained, RetainedOf
  <2> QED BY <2>1, <2>2
<1>8. /\ g[0] = <<>>
      /\ \A n \in 1..N :
           g[n] = IF seq[n] \in set THEN Append(g[n - 1], seq[n]) ELSE g[n - 1]
      /\ g = [n \in 0..N |-> g[n]]
  <2>1. g = [n \in 0..N |->
               IF n = 0 THEN <<>>
               ELSE IF seq[n] \in set THEN Append(g[n - 1], seq[n]) ELSE g[n - 1]]
    BY <1>7 DEF RetainedOf
  <2> HIDE DEF N
  <2>2. ASSUME NEW n \in 0..N
        PROVE  g[n] = IF n = 0 THEN <<>>
                      ELSE IF seq[n] \in set THEN Append(g[n - 1], seq[n]) ELSE g[n - 1]
    BY <2>1
  <2>3. g = [n \in 0..N |-> g[n]]
    BY <2>1
  <2>4. 0 \in 0..N /\ \A n \in 1..N : n \in 0..N /\ n # 0
    BY <1>1
  <2> QED BY <2>2, <2>3, <2>4
<1>9. \A n \in Nat : n \in 0..N => g[n] \in Seq(T)
  <2> DEFINE U == {n \in Nat : n \in 0..N => g[n] \in Seq(T)}
  <2>1. 0 \in U
    BY <1>8, <1>1
  <2>2. ASSUME NEW n \in Nat, n \in U PROVE n + 1 \in U
    <3> SUFFICES ASSUME n + 1 \in 0..N PROVE g[n + 1] \in Seq(T)
      OBVIOUS
    <3>1. g[n] \in Seq(T) /\ n + 1 \in 1..N /\ (n + 1) - 1 = n
      BY <2>2
    <3>2. g[n + 1] = IF seq[n + 1] \in set THEN Append(g[n], seq[n + 1]) ELSE g[n]
      BY <1>8, <3>1
    <3> QED BY <1>2, <3>1, <3>2
  <2>3. Nat \subseteq U
    <3> HIDE DEF U
    <3> QED BY <2>1, <2>2, SetInduction
  <2> QED BY <2>3
<1>10. g \in [0..N -> Seq(T)]
  BY <1>8, <1>9
<1> QED
  BY <1>7, <1>8, <1>10 DEF RetainedSteps

\* A list of positions: each after the one before.
Ascends(s) == s \in Seq(Nat) /\ \A i, j \in 1..Len(s) : i < j => s[i] < s[j]
Among(s) == {s[i] : i \in 1..Len(s)}

\* A position behind the last.
LEMMA AscendsAppend ==
  ASSUME NEW r, Ascends(r), NEW x \in Nat, \A y \in Among(r) : y < x
  PROVE  Ascends(Append(r, x)) /\ Among(Append(r, x)) = Among(r) \union {x}
<1>1. r \in Seq(Nat) /\ Append(r, x) \in Seq(Nat)
  BY DEF Ascends
<1>2. /\ Len(Append(r, x)) = Len(r) + 1 /\ Len(r) \in Nat
      /\ \A i \in 1..Len(r) : Append(r, x)[i] = r[i]
      /\ Append(r, x)[Len(r) + 1] = x
  BY <1>1
<1>3. Among(Append(r, x)) = Among(r) \union {x}
  BY <1>2 DEF Among
<1>4. \A i \in 1..Len(r) : r[i] < x
  BY DEF Among
<1>5. ASSUME NEW i \in 1..Len(r) + 1, NEW j \in 1..Len(r) + 1, i < j
      PROVE  Append(r, x)[i] < Append(r, x)[j]
  <2>1. i \in 1..Len(r)
    BY <1>2, <1>5
  <2>2. CASE j = Len(r) + 1
    BY <2>1, <2>2, <1>2, <1>4
  <2>3. CASE j # Len(r) + 1
    <3>1. j \in 1..Len(r)
      BY <1>2, <2>3
    <3> QED BY <2>1, <3>1, <1>2, <1>5 DEF Ascends
  <2> QED BY <2>2, <2>3
<1> QED
  BY <1>1, <1>2, <1>3, <1>5 DEF Ascends

\* What Retained returns: the elements that are in the set, and in their order.
LEMMA RetainedFacts ==
  ASSUME NEW T, NEW seq \in Seq(T), NEW set
  PROVE  /\ Retained(seq, set) \in Seq(T)
         /\ Among(Retained(seq, set)) = Among(seq) \intersect set
         /\ Ascends(seq) => Ascends(Retained(seq, set))
<1>0. Len(seq) \in Nat /\ \A n \in 1..Len(seq) : seq[n] \in T
  OBVIOUS
<1>a. PICK g \in [0..Len(seq) -> Seq(T)] : RetainedSteps(seq, set, g)
  BY RetainedUnrolled
<1> DEFINE N == Len(seq)
<1>1. /\ g[0] = <<>>
      /\ \A n \in 1..N :
           g[n] = IF seq[n] \in set THEN Append(g[n - 1], seq[n]) ELSE g[n - 1]
      /\ Retained(seq, set) = g[N]
  BY <1>a DEF RetainedSteps
<1> DEFINE Part(n) == {seq[k] : k \in 1..n}
           Found(n) == Among(g[n]) = Part(n) \intersect set
           Sorted(n) == Ascends(seq) => Ascends(g[n])
           U == {n \in Nat : n \in 0..N => Found(n) /\ Sorted(n)}
<1>2. 0 \in U
  <2>1. g[0] = <<>> /\ Len(<<>>) = 0
    BY <1>1
  <2>2. Among(g[0]) = {} /\ Part(0) = {}
    BY <2>1 DEF Among
  <2>3. Ascends(g[0])
    BY <2>1 DEF Ascends
  <2> QED BY <2>2, <2>3
<1>3. ASSUME NEW n \in Nat, n \in U PROVE n + 1 \in U
  <2> SUFFICES ASSUME n + 1 \in 0..N PROVE Found(n + 1) /\ Sorted(n + 1)
    OBVIOUS
  <2>1. n \in 0..N /\ n + 1 \in 1..N /\ (n + 1) - 1 = n
    BY <1>0
  <2>2. Found(n) /\ Sorted(n)
    BY <1>3, <2>1
  <2>3. g[n] \in Seq(T) /\ seq[n + 1] \in T
    BY <1>0, <2>1
  <2>4. Part(n + 1) = Part(n) \union {seq[n + 1]}
    <3>1. 1..n + 1 = (1..n) \union {n + 1}
      BY <2>1
    <3> QED BY <3>1
  <2>5. CASE seq[n + 1] \notin set
    <3>1. g[n + 1] = g[n]
      BY <1>1, <2>1, <2>5
    <3> QED BY <2>2, <2>4, <2>5, <3>1
  <2>6. CASE seq[n + 1] \in set
    <3>1. PICK r \in Seq(T) : r = g[n]
      BY <2>3
    <3>2. PICK x \in T : x = seq[n + 1]
      BY <2>3
    <3>3. g[n + 1] = Append(r, x)
      BY <1>1, <2>1, <2>6, <3>1, <3>2
    <3>4. /\ Len(Append(r, x)) = Len(r) + 1 /\ Len(r) \in Nat
          /\ \A i \in 1..Len(r) : Append(r, x)[i] = r[i]
          /\ Append(r, x)[Len(r) + 1] = x
      OBVIOUS
    <3>5. Among(Append(r, x)) = Among(r) \union {x}
      BY <3>4 DEF Among
    <3>6. Found(n + 1)
      BY <2>2, <2>4, <2>6, <3>1, <3>2, <3>3, <3>5
    <3>7. ASSUME Ascends(seq) PROVE Ascends(Append(r, x))
      <4>1. Ascends(r)
        BY <2>2, <3>1, <3>7
      <4>2. x \in Nat
        BY <2>1, <3>2, <3>7 DEF Ascends
      <4>3. ASSUME NEW y \in Among(r) PROVE y < x
        <5>1. y \in Part(n)
          BY <2>2, <3>1
        <5>2. PICK k \in 1..n : y = seq[k]
          BY <5>1
        <5>3. k \in 1..N /\ k < n + 1
          BY <2>1, <1>0
        <5> QED BY <5>2, <5>3, <2>1, <3>2, <3>7 DEF Ascends
      <4> QED BY <4>1, <4>2, <4>3, AscendsAppend
    <3> QED BY <3>3, <3>6, <3>7
  <2> QED BY <2>5, <2>6
<1>4. Nat \subseteq U
  <2> HIDE DEF U
  <2> QED BY <1>2, <1>3, SetInduction
<1>5. Found(N) /\ Sorted(N)
  BY <1>4, <1>0
<1>6. Part(N) = Among(seq)
  BY DEF Among
<1> QED
  BY <1>0, <1>1, <1>5, <1>6

\* Two lists of the same positions are the same list.
LEMMA AscendingUnique ==
  ASSUME NEW s, NEW t, Ascends(s), Ascends(t), Among(s) = Among(t)
  PROVE  s = t
<1>1. /\ s \in Seq(Nat) /\ t \in Seq(Nat) /\ Len(s) \in Nat /\ Len(t) \in Nat
      /\ \A i \in 1..Len(s) : s[i] \in Nat
      /\ \A i \in 1..Len(t) : t[i] \in Nat
  BY DEF Ascends
<1> DEFINE Both(n) == n \in 1..Len(s) /\ n \in 1..Len(t)
           Differ == {n \in Nat : Both(n) /\ s[n] # t[n]}
<1>2. Differ = {}
  <2> SUFFICES ASSUME Differ # {} PROVE FALSE
    OBVIOUS
  <2>1. PICK n \in Differ : \A m \in Differ : n <= m
    <3> HIDE DEF Differ
    <3>1. Differ \subseteq Nat
      BY DEF Differ
    <3> QED BY <3>1, NatLeast
  <2>2. ASSUME NEW m \in 1..n - 1 PROVE s[m] = t[m]
    <3>1. m \in Nat /\ Both(m) /\ ~(n <= m)
      BY <2>1, <1>1, SMTT(30)
    <3> QED BY <3>1, <2>1
  <2>3. ~(s[n] < t[n])
    <3> SUFFICES ASSUME s[n] < t[n] PROVE FALSE
      OBVIOUS
    <3>1. PICK j \in 1..Len(t) : s[n] = t[j]
      BY <2>1 DEF Among
    <3>2. j \in 1..n - 1
      BY <3>1, <2>1, <1>1, SMTT(30) DEF Ascends
    <3>3. s[j] = s[n] /\ j < n /\ j \in 1..Len(s)
      BY <3>1, <3>2, <2>2, <2>1, <1>1
    <3> QED BY <3>3, <2>1, <1>1 DEF Ascends
  <2>4. ~(t[n] < s[n])
    <3> SUFFICES ASSUME t[n] < s[n] PROVE FALSE
      OBVIOUS
    <3>1. PICK j \in 1..Len(s) : t[n] = s[j]
      BY <2>1 DEF Among
    <3>2. j \in 1..n - 1
      BY <3>1, <2>1, <1>1, SMTT(30) DEF Ascends
    <3>3. t[j] = t[n] /\ j < n /\ j \in 1..Len(t)
      BY <3>1, <3>2, <2>2, <2>1, <1>1
    <3> QED BY <3>3, <2>1, <1>1 DEF Ascends
  <2> QED BY <2>1, <2>3, <2>4, <1>1
<1>3. \A n \in 1..Len(s) : n \in 1..Len(t) => s[n] = t[n]
  BY <1>1, <1>2, SMTT(30)
<1>4. ~(Len(s) < Len(t))
  <2> SUFFICES ASSUME Len(s) < Len(t) PROVE FALSE
    OBVIOUS
  <2>1. PICK j \in 1..Len(s) : t[Len(s) + 1] = s[j]
    <3>1. Len(s) + 1 \in 1..Len(t)
      BY <1>1
    <3>2. t[Len(s) + 1] \in Among(t)
      BY <3>1 DEF Among
    <3> QED BY <3>2 DEF Among
  <2>2. t[Len(s) + 1] = t[j] /\ j \in 1..Len(t) /\ Len(s) + 1 \in 1..Len(t) /\ j < Len(s) + 1
    BY <2>1, <1>1, <1>3
  <2> QED BY <2>2, <1>1 DEF Ascends
<1>5. ~(Len(t) < Len(s))
  <2> SUFFICES ASSUME Len(t) < Len(s) PROVE FALSE
    OBVIOUS
  <2>1. PICK j \in 1..Len(t) : s[Len(t) + 1] = t[j]
    <3>1. Len(t) + 1 \in 1..Len(s)
      BY <1>1
    <3>2. s[Len(t) + 1] \in Among(s)
      BY <3>1 DEF Among
    <3> QED BY <3>2 DEF Among
  <2>2. s[Len(t) + 1] = s[j] /\ j \in 1..Len(s) /\ Len(t) + 1 \in 1..Len(s) /\ j < Len(t) + 1
    BY <2>1, <1>1, <1>3
  <2> QED BY <2>2, <1>1 DEF Ascends
<1>6. Len(s) = Len(t)
  BY <1>1, <1>4, <1>5
<1> QED
  BY <1>1, <1>3, <1>6

\* SizeOf, unrolled: the size of the first n rows, for each n.
Sized(rows) == Len(rows) \in Nat /\ \A n \in 1..Len(rows) : rows[n].ev.size \in Nat
SizeSteps(rows, g) ==
  /\ g \in [0..Len(rows) -> Nat] /\ g[0] = 0
  /\ \A n \in 1..Len(rows) : g[n] = g[n - 1] + rows[n].ev.size
SizeFcn(rows, g) ==
  g = [n \in 0..Len(rows) |-> IF n = 0 THEN 0 ELSE g[n - 1] + rows[n].ev.size]

LEMMA SizeUnrolled ==
  ASSUME NEW rows, Sized(rows)
  PROVE  \E g : SizeSteps(rows, g) /\ SizeOf(rows) = g[Len(rows)]
<1>0. PICK N \in Nat : N = Len(rows)
  BY DEF Sized
<1> DEFINE step == [n \in 1..N |-> [x \in Nat |-> x + rows[n].ev.size]]
<1>1. step \in [1..N -> [Nat -> Nat]]
  BY <1>0 DEF Sized
<1>2. PICK f \in [0..N -> Nat] : f[0] = 0 /\ \A n \in 1..N : f[n] = step[n][f[n - 1]]
  <2> DEFINE base == 0
             S == Nat
  <2>1. base \in S /\ step \in [1..N -> [S -> S]]
    BY <1>1
  <2> HIDE DEF step, base, S
  <2>2. \E f \in [0..N -> S] : f[0] = base /\ \A n \in 1..N : f[n] = step[n][f[n - 1]]
    BY <2>1, Recursion
  <2> QED BY <2>2 DEF base, S
<1>3. ASSUME NEW n \in 0..N
      PROVE  f[n] = IF n = 0 THEN 0 ELSE f[n - 1] + rows[n].ev.size
  <2>1. CASE n = 0
    BY <1>2, <2>1
  <2>2. CASE n # 0
    <3>1. n \in 1..N /\ n - 1 \in 0..N
      BY <2>2
    <3> QED BY <1>2, <3>1, <2>2
  <2> QED BY <2>1, <2>2
<1>4. SizeFcn(rows, f)
  BY <1>0, <1>2, <1>3 DEF SizeFcn
<1>5. PICK g : SizeFcn(rows, g) /\ SizeOf(rows) = g[N]
  <2> DEFINE c == CHOOSE g : SizeFcn(rows, g)
  <2>1. SizeFcn(rows, c)
    BY <1>4
  <2>2. SizeOf(rows) = c[N]
    BY <1>0 DEF SizeOf, SizeFcn
  <2> QED BY <2>1, <2>2
<1>6. ASSUME NEW n \in 0..N
      PROVE  g[n] = IF n = 0 THEN 0 ELSE g[n - 1] + rows[n].ev.size
  BY <1>0, <1>5 DEF SizeFcn
<1>7. \A n \in Nat : n \in 0..N => g[n] \in Nat
  <2> DEFINE U == {n \in Nat : n \in 0..N => g[n] \in Nat}
  <2>1. 0 \in U
    <3>1. 0 \in 0..N
      OBVIOUS
    <3>2. g[0] = 0
      BY <1>6, <3>1
    <3> QED BY <3>2
  <2>2. ASSUME NEW n \in Nat, n \in U PROVE n + 1 \in U
    <3> SUFFICES ASSUME n + 1 \in 0..N PROVE g[n + 1] \in Nat
      OBVIOUS
    <3>1. g[n] \in Nat /\ n + 1 \in 1..N /\ (n + 1) - 1 = n /\ n + 1 # 0
      BY <2>2
    <3>2. g[n + 1] = g[n] + rows[n + 1].ev.size
      BY <1>6, <3>1
    <3> QED BY <1>0, <3>1, <3>2 DEF Sized
  <2>3. Nat \subseteq U
    <3> HIDE DEF U
    <3> QED BY <2>1, <2>2, SetInduction
  <2> QED BY <2>3
<1>8. g \in [0..N -> Nat]
  <2>1. g = [n \in 0..N |-> g[n]]
    BY <1>0, <1>5 DEF SizeFcn
  <2> QED BY <2>1, <1>7
<1>9. \A n \in 1..N : n \in 0..N /\ n # 0
  OBVIOUS
<1> QED
  BY <1>0, <1>5, <1>6, <1>8, <1>9, SMTT(30) DEF SizeSteps

\* The rows of a window have the size the whole gains over it.
LEMMA SizeWindow ==
  ASSUME NEW rows, Sized(rows), NEW g, SizeSteps(rows, g),
         NEW w, Sized(w), NEW d \in Nat, d + Len(w) <= Len(rows),
         \A i \in 1..Len(w) : w[i].ev.size = rows[d + i].ev.size
  PROVE  SizeOf(w) = g[d + Len(w)] - g[d]
<1>1. PICK h : SizeSteps(w, h) /\ SizeOf(w) = h[Len(w)]
  BY SizeUnrolled
<1>2. PICK N \in Nat, M \in Nat : N = Len(rows) /\ M = Len(w)
  BY DEF Sized
<1> DEFINE U == {n \in Nat : n \in 0..M => h[n] = g[d + n] - g[d]}
<1>3. g \in [0..N -> Nat] /\ h \in [0..M -> Nat]
  BY <1>1, <1>2 DEF SizeSteps
<1>4. 0 \in U
  <2>1. h[0] = 0
    BY <1>1 DEF SizeSteps
  <2>2. g[d + 0] = g[d] /\ g[d] \in Nat
    BY <1>2, <1>3
  <2> QED BY <2>1, <2>2
<1>5. ASSUME NEW n \in Nat, n \in U PROVE n + 1 \in U
  <2> SUFFICES ASSUME n + 1 \in 0..M PROVE h[n + 1] = g[d + (n + 1)] - g[d]
    OBVIOUS
  <2>1. /\ n \in 0..M /\ n + 1 \in 1..M /\ (n + 1) - 1 = n
        /\ d + (n + 1) \in 1..N /\ (d + (n + 1)) - 1 = d + n /\ d + n \in 0..N /\ d \in 0..N
    BY <1>2
  <2>2. h[n] = g[d + n] - g[d]
    BY <1>5, <2>1
  <2>3. h[n + 1] = h[n] + w[n + 1].ev.size
    BY <1>1, <1>2, <2>1 DEF SizeSteps
  <2>4. g[d + (n + 1)] = g[d + n] + rows[d + (n + 1)].ev.size
    BY <1>2, <2>1 DEF SizeSteps
  <2>5. w[n + 1].ev.size = rows[d + (n + 1)].ev.size /\ w[n + 1].ev.size \in Nat
    BY <1>2, <2>1 DEF Sized
  <2>6. g[d] \in Nat /\ g[d + n] \in Nat /\ h[n] \in Int
    BY <1>3, <2>1
  <2> QED BY <2>2, <2>3, <2>4, <2>5, <2>6
<1>6. Nat \subseteq U
  <2> HIDE DEF U
  <2> QED BY <1>4, <1>5, SetInduction
<1>7. M \in U /\ M \in 0..M
  BY <1>6
<1> QED
  BY <1>1, <1>2, <1>7

\* The size of the rows is that of those dropped and of those kept.
LEMMA SizeSplit ==
  ASSUME NEW T, \A r \in T : r.ev.size \in Nat, NEW rows \in Seq(T), NEW d \in 0..Len(rows)
  PROVE  /\ SizeOf(SubSeq(rows, d + 1, Len(rows)))
              = SizeOf(rows) - SizeOf(SubSeq(rows, 1, d))
         /\ SizeOf(rows) \in Nat /\ SizeOf(SubSeq(rows, 1, d)) \in Nat
<1>0. PICK N \in Nat : N = Len(rows)
  OBVIOUS
<1>1. Sized(rows)
  BY DEF Sized
<1>2. PICK g : SizeSteps(rows, g) /\ SizeOf(rows) = g[Len(rows)]
  BY <1>1, SizeUnrolled
<1>a. SubSeq(rows, 1, d) \in Seq(T)
  BY <1>0
<1>b. SubSeq(rows, d + 1, Len(rows)) \in Seq(T)
  BY <1>0
<1>3. PICK p \in Seq(T), s \in Seq(T) :
        p = SubSeq(rows, 1, d) /\ s = SubSeq(rows, d + 1, Len(rows))
  BY <1>a, <1>b
<1>4. /\ Len(p) = d /\ \A i \in 1..d : p[i] = rows[i]
      /\ Len(s) = N - d /\ \A i \in 1..N - d : s[i] = rows[d + i]
  BY <1>0, <1>3
<1>5. Sized(p) /\ Sized(s)
  BY DEF Sized
<1>6. SizeOf(p) = g[0 + Len(p)] - g[0]
  <2>1. \A i \in 1..Len(p) : p[i].ev.size = rows[0 + i].ev.size
    <3>1. \A i \in 1..d : 0 + i = i
      OBVIOUS
    <3> QED BY <1>4, <3>1
  <2>2. 0 \in Nat /\ 0 + Len(p) <= Len(rows)
    BY <1>0, <1>4
  <2> QED BY <1>1, <1>2, <1>5, <2>1, <2>2, SizeWindow
<1>7. SizeOf(s) = g[d + Len(s)] - g[d]
  <2>1. \A i \in 1..Len(s) : s[i].ev.size = rows[d + i].ev.size
    BY <1>4
  <2>2. d \in Nat /\ d + Len(s) <= Len(rows)
    BY <1>0, <1>4
  <2> QED BY <1>1, <1>2, <1>5, <2>1, <2>2, SizeWindow
<1>8. g[0] = 0 /\ g[d] \in Nat /\ g[N] \in Nat
  <2>1. N \in 0..N /\ d \in 0..N
    BY <1>0
  <2> QED BY <1>0, <1>2, <2>1 DEF SizeSteps
<1>9. SizeOf(p) = g[d] /\ SizeOf(s) = g[N] - g[d]
  BY <1>0, <1>4, <1>6, <1>7, <1>8
<1> QED
  BY <1>0, <1>2, <1>3, <1>8, <1>9

\* A row more adds its size.
LEMMA SizeAppend ==
  ASSUME NEW T, \A r \in T : r.ev.size \in Nat, NEW rows \in Seq(T), NEW row \in T
  PROVE  SizeOf(Append(rows, row)) = SizeOf(rows) + row.ev.size
<1>a. Append(rows, row) \in Seq(T) /\ Len(rows) \in Nat
  OBVIOUS
<1>0. PICK N \in Nat, more \in Seq(T) : N = Len(rows) /\ more = Append(rows, row)
  BY <1>a
<1>1. Len(more) = N + 1 /\ more[N + 1] = row /\ \A i \in 1..N : more[i] = rows[i]
  BY <1>0
<1>2. Sized(rows) /\ Sized(more)
  BY DEF Sized
<1>3. PICK g : SizeSteps(more, g) /\ SizeOf(more) = g[Len(more)]
  BY <1>2, SizeUnrolled
<1>4. SizeOf(rows) = g[0 + Len(rows)] - g[0]
  <2>1. \A i \in 1..Len(rows) : rows[i].ev.size = more[0 + i].ev.size
    BY <1>0, <1>1
  <2>2. 0 \in Nat /\ 0 + Len(rows) <= Len(more)
    BY <1>0, <1>1
  <2> QED BY <1>2, <1>3, <2>1, <2>2, SizeWindow
<1>5. /\ g[0] = 0 /\ g[N] \in Nat /\ g[N + 1] = g[N] + more[N + 1].ev.size
  <2>1. N + 1 \in 1..Len(more) /\ (N + 1) - 1 = N /\ N \in 0..Len(more)
    BY <1>1
  <2> QED BY <1>3, <2>1 DEF SizeSteps
<1> QED
  BY <1>0, <1>1, <1>3, <1>4, <1>5

\* Marks and bookmarks take no room.
LEMMA SizeSame ==
  ASSUME NEW rows, Sized(rows), NEW other, Len(other) = Len(rows),
         \A i \in 1..Len(rows) : other[i].ev.size = rows[i].ev.size
  PROVE  SizeOf(other) = SizeOf(rows)
<1>1. Sized(other)
  BY DEF Sized
<1>2. PICK g : SizeSteps(rows, g) /\ SizeOf(rows) = g[Len(rows)]
  BY SizeUnrolled
<1>3. PICK N \in Nat : N = Len(rows)
  BY DEF Sized
<1>4. SizeOf(other) = g[0 + Len(other)] - g[0]
  <2>1. \A i \in 1..Len(other) : other[i].ev.size = rows[0 + i].ev.size
    BY <1>3
  <2>2. 0 \in Nat /\ 0 + Len(other) <= Len(rows)
    BY <1>3
  <2> QED BY <1>1, <1>2, <2>1, <2>2, SizeWindow
<1>5. g[0] = 0 /\ g[N] \in Nat
  BY <1>2, <1>3 DEF SizeSteps
<1> QED
  BY <1>2, <1>3, <1>4, <1>5

(***************************************************************************)
(* The buffer                                                               *)
(***************************************************************************)
Rows == [ev : Reported \ {NoEvent}, seq : Nat, marked : BOOLEAN, noted : BOOLEAN]
Fields == {"all", "view", "counts", "filter", "search", "monitor", "highlight",
           "retention", "bytes"}
Limits(r) == r = Unbounded \/ (r.max \in Nat /\ r.age \in Nat)
BufferTyped(b) == /\ DOMAIN b = Fields
                  /\ b.all \in Seq(Rows)
                  /\ b.search \in Seq(Units)
                  /\ Limits(b.retention)
BufferOK(b) == BufferTyped(b) /\ Consistent(b)
Shown(b) == {i \in 1..Len(b.all) : Passes(b, b.all[i].ev)}
\* Two buffers with the same gates.
SameGates(b, c) ==
  /\ c.filter = b.filter /\ c.monitor = b.monitor /\ c.search = b.search
  /\ c.highlight = b.highlight

LEMMA RowsSized == \A r \in Rows : r.ev.size \in Nat /\ r.ev.time \in Int
  BY EventsAssumption DEF Rows

LEMMA PassesSame ==
  ASSUME NEW b, NEW c, SameGates(b, c), NEW ev
  PROVE  Passes(c, ev) <=> Passes(b, ev)
  BY DEF Passes, SameGates

\* A rebuilt view lists the rows that pass, in order ...
LEMMA RebuiltView ==
  ASSUME NEW b, b.all \in Seq(Rows)
  PROVE  Ascends(PassingOf(b)) /\ Among(PassingOf(b)) = Shown(b)
<1>1. PICK N \in Nat : N = Len(b.all)
  OBVIOUS
<1>2. DOMAIN b.all = 1..N
  BY <1>1
<1>a. Positions(b) = [i \in 1..N |-> i]
  BY <1>2 DEF Positions
<1>b. [i \in 1..N |-> i] \in Seq(Nat)
  BY <1>1
<1>3. PICK p \in Seq(Nat) : p = Positions(b)
  BY <1>a, <1>b
<1>4. Len(p) = N /\ \A i \in 1..N : p[i] = i
  BY <1>1, <1>a, <1>3
<1>5. Ascends(p) /\ Among(p) = 1..N
  BY <1>4 DEF Ascends, Among
<1> DEFINE S == {i \in DOMAIN b.all : Passes(b, b.all[i].ev)}
<1>6. S = Shown(b) /\ S \subseteq 1..N
  BY <1>1, <1>2 DEF Shown
<1>7. PassingOf(b) = Retained(p, S)
  BY <1>3 DEF PassingOf
<1>8. Ascends(Retained(p, S)) /\ Among(Retained(p, S)) = Among(p) \intersect S
  <2> HIDE DEF S
  <2> QED BY <1>5, RetainedFacts
<1> QED
  BY <1>5, <1>6, <1>7, <1>8

\* ... and a view that does is the rebuilt one.
LEMMA ViewIsRebuilt ==
  ASSUME NEW b, b.all \in Seq(Rows), Ascends(b.view), Among(b.view) = Shown(b)
  PROVE  b.view = PassingOf(b)
  BY RebuiltView, AscendingUnique

\* A cut at the front: the rows, the view and the byte count move together.
LEMMA DrainKeeps ==
  ASSUME NEW b, BufferOK(b), NEW d \in 0..Len(b.all)
  PROVE  /\ BufferOK(Drain(b, d))
         /\ Len(Drain(b, d).all) = Len(b.all) - d
         /\ \A i \in 1..Len(b.all) - d : Drain(b, d).all[i] = b.all[d + i]
         /\ SameGates(b, Drain(b, d)) /\ Drain(b, d).retention = b.retention
         /\ Drain(b, d).bytes = Left(b, d) /\ Left(b, d) \in Int
<1>0. PICK N \in Nat : N = Len(b.all)
  BY DEF BufferOK, BufferTyped
<1>1. PICK c : c = Drain(b, d)
  OBVIOUS
<1>2. PICK seen : seen = Retained(b.view, d + 1..N)
  OBVIOUS
<1>3. /\ DOMAIN c = Fields /\ c.all = SubSeq(b.all, d + 1, N) /\ c.bytes = Left(b, d)
      /\ c.view = [ix \in DOMAIN seen |-> seen[ix] - d]
      /\ SameGates(b, c) /\ c.retention = b.retention
  BY <1>0, <1>1, <1>2 DEF Drain, BufferOK, BufferTyped, Fields, SameGates
<1>4. /\ b.all \in Seq(Rows) /\ c.all \in Seq(Rows) /\ Len(c.all) = N - d
      /\ \A i \in 1..N - d : c.all[i] = b.all[d + i]
  BY <1>0, <1>3 DEF BufferOK, BufferTyped
<1>5. Ascends(b.view) /\ Among(b.view) = Shown(b)
  BY <1>4, RebuiltView DEF BufferOK, Consistent
<1>6. Ascends(seen) /\ Among(seen) = Shown(b) \intersect (d + 1..N)
  BY <1>2, <1>5, RetainedFacts DEF Ascends
<1>7. PICK M \in Nat : M = Len(seen)
  BY <1>6 DEF Ascends
<1>8. /\ DOMAIN seen = 1..M /\ \A i \in 1..M : seen[i] \in d + 1..N
  BY <1>6, <1>7 DEF Ascends, Among
<1>9. /\ c.view \in Seq(Nat) /\ Len(c.view) = M
      /\ \A i \in 1..M : c.view[i] = seen[i] - d
  BY <1>0, <1>3, <1>8
<1>10. Ascends(c.view)
  BY <1>0, <1>6, <1>7, <1>8, <1>9 DEF Ascends
<1>11. Among(c.view) = Shown(c)
  <2>1. ASSUME NEW i \in 1..N - d
        PROVE  i \in Shown(c) <=> d + i \in Shown(b)
    <3>1. c.all[i] = b.all[d + i] /\ d + i \in 1..Len(b.all) /\ i \in 1..Len(c.all)
      BY <1>0, <1>4
    <3>2. Passes(c, c.all[i].ev) <=> Passes(b, b.all[d + i].ev)
      BY <1>3, <3>1, PassesSame
    <3> QED BY <3>1, <3>2 DEF Shown
  <2>2. ASSUME NEW x \in Among(c.view) PROVE x \in Shown(c)
    <3>1. PICK k \in 1..M : x = seen[k] - d
      BY <1>9 DEF Among
    <3>2. seen[k] \in Shown(b) /\ seen[k] \in d + 1..N
      BY <1>6, <1>7 DEF Among
    <3>3. x \in 1..N - d /\ d + x = seen[k]
      BY <1>0, <3>1, <3>2
    <3> QED BY <2>1, <3>2, <3>3
  <2>3. ASSUME NEW x \in Shown(c) PROVE x \in Among(c.view)
    <3>1. x \in 1..N - d
      BY <1>4 DEF Shown
    <3>2. d + x \in Among(seen)
      BY <1>0, <1>6, <2>1, <3>1
    <3>3. PICK k \in 1..M : d + x = seen[k]
      BY <1>7, <3>2 DEF Among
    <3>4. c.view[k] = x
      BY <1>0, <1>9, <3>1, <3>3
    <3> QED BY <1>9, <3>4 DEF Among
  <2> QED BY <2>2, <2>3
<1>12. c.view = PassingOf(c)
  BY <1>4, <1>10, <1>11, ViewIsRebuilt
<1>13. \A i \in DOMAIN c.all : c.all[i].marked = RulesMark(c.highlight, c.all[i].ev)
  <2>1. \A i \in 1..N : b.all[i].marked = RulesMark(b.highlight, b.all[i].ev)
    BY <1>0, <1>4 DEF BufferOK, Consistent
  <2>2. DOMAIN c.all = 1..N - d
    BY <1>0, <1>4
  <2>3. \A i \in 1..N - d : d + i \in 1..N
    BY <1>0
  <2> QED BY <1>3, <1>4, <2>1, <2>2, <2>3 DEF SameGates
<1>14. c.bytes = SizeOf(c.all) /\ Left(b, d) \in Int
  <2>1. /\ SizeOf(SubSeq(b.all, d + 1, Len(b.all))) = SizeOf(b.all) - SizeOf(SubSeq(b.all, 1, d))
        /\ SizeOf(b.all) \in Nat /\ SizeOf(SubSeq(b.all, 1, d)) \in Nat
    BY <1>4, RowsSized, SizeSplit
  <2>2. b.bytes = SizeOf(b.all)
    BY DEF BufferOK, Consistent
  <2> QED BY <1>0, <1>3, <2>1, <2>2 DEF Left
<1> QED
  BY <1>0, <1>1, <1>3, <1>4, <1>12, <1>13, <1>14 DEF BufferOK, BufferTyped, Consistent, SameGates

\* Consistent, said of each row.
Whole(b) ==
  /\ BufferTyped(b)
  /\ Ascends(b.view) /\ Among(b.view) = Shown(b)
  /\ \A i \in 1..Len(b.all) : b.all[i].marked = RulesMark(b.highlight, b.all[i].ev)
  /\ b.bytes = SizeOf(b.all)

LEMMA WholeIsOK ==
  ASSUME NEW b
  PROVE  Whole(b) <=> BufferOK(b)
<1>1. b.all \in Seq(Rows) => DOMAIN b.all = 1..Len(b.all)
  OBVIOUS
<1> QED
  BY <1>1, RebuiltView, ViewIsRebuilt DEF Whole, BufferOK, BufferTyped, Consistent

LEMMA ShownSame ==
  ASSUME NEW b, NEW c, c.filter = b.filter, c.monitor = b.monitor, c.search = b.search,
         Len(c.all) = Len(b.all), \A i \in 1..Len(b.all) : c.all[i].ev = b.all[i].ev
  PROVE  Shown(c) = Shown(b)
  BY DEF Shown, Passes

\* The rows of c are those of b without the first d.
Follows(b, c, d) ==
  /\ d \in 0..Len(b.all) /\ Len(c.all) = Len(b.all) - d
  /\ \A i \in 1..Len(b.all) - d :
       /\ c.all[i].ev = b.all[d + i].ev /\ c.all[i].seq = b.all[d + i].seq
       /\ c.all[i].noted = b.all[d + i].noted

LEMMA FollowsSame ==
  ASSUME NEW b, b.all \in Seq(Rows), NEW c, c.all = b.all
  PROVE  Follows(b, c, 0)
<1>1. PICK N \in Nat : N = Len(b.all)
  OBVIOUS
<1>2. \A i \in 1..N : 0 + i = i
  OBVIOUS
<1> QED
  BY <1>1, <1>2 DEF Follows

LEMMA EmptySize == SizeOf(<<>>) = 0
<1>a. <<>> \in Seq(Nat)
  OBVIOUS
<1>1. PICK e \in Seq(Nat) : e = <<>>
  BY <1>a
<1>2. Len(e) = 0
  BY <1>1
<1>3. Sized(e)
  BY <1>2 DEF Sized
<1>4. SizeOf(e) = 0
  BY <1>2, <1>3, SizeUnrolled DEF SizeSteps
<1> QED
  BY <1>1, <1>4

\* The rows worth a removal, under limits that are numbers: the newest stays.
LEMMA SurplusFound ==
  ASSUME NEW b, BufferOK(b), b.retention # Unbounded, b.all # <<>>
  PROVE  /\ Surplus(b) \in 0..Len(b.all) - 1
         /\ Left(b, Surplus(b)) <= b.retention.max \/ Surplus(b) + 1 >= Len(b.all)
<1>1. PICK N \in Nat : N = Len(b.all)
  BY DEF BufferOK, BufferTyped
<1>2. N # 0 /\ \A i \in 1..N : b.all[i].ev.time \in Int
  <2>1. PICK rows \in Seq(Rows) : rows = b.all
    BY DEF BufferOK, BufferTyped
  <2>2. Len(rows) # 0
    BY <2>1
  <2>3. \A i \in 1..N : rows[i].ev.time \in Int
    BY <1>1, <2>1, RowsSized
  <2> QED BY <1>1, <2>1, <2>2, <2>3
<1>3. b.retention.max \in Nat /\ b.retention.age \in Nat
  BY DEF BufferOK, BufferTyped, Limits
<1> DEFINE cutoff == b.all[N].ev.time - b.retention.age
           young == {i \in 1..N : b.all[i].ev.time >= cutoff}
           first == CHOOSE i \in young : \A j \in young : i <= j
<1>4. Outdated(b) = IF b.retention.age = 0 THEN 0 ELSE first - 1
  BY <1>1, SMTT(30) DEF Outdated
<1>5. first \in 1..N
  <2>1. N \in young
    BY <1>2, <1>3
  <2>2. \E i \in young : \A j \in young : i <= j
    <3>1. young \in SUBSET Nat /\ young # {}
      BY <2>1
    <3> HIDE DEF young
    <3> QED BY <3>1, NatLeast
  <2>3. first \in young
    <3> HIDE DEF young
    <3> QED BY <2>2
  <2> QED BY <2>3
<1>6. PICK o \in 0..N - 1 : o = Outdated(b)
  <2> HIDE DEF first
  <2> QED BY <1>1, <1>2, <1>4, <1>5
<1> DEFINE ok == {d \in o..N - 1 : Left(b, d) <= b.retention.max \/ d + 1 >= N}
           least == CHOOSE d \in ok : \A e \in ok : d <= e
<1>7. Surplus(b) = least
  BY <1>1, <1>6 DEF Surplus
<1>8. least \in ok
  <2>1. N - 1 \in ok
    BY <1>2
  <2>2. ok \in SUBSET Nat /\ ok # {}
    <3>1. \A d \in ok : d \in Nat
      BY <1>6
    <3> QED BY <2>1, <3>1
  <2> HIDE DEF ok
  <2>3. \E d \in ok : \A e \in ok : d <= e
    BY <2>2, NatLeast
  <2> QED BY <2>3
<1> HIDE DEF least
<1> QED
  BY <1>1, <1>6, <1>7, <1>8

\* Trimming leaves the newest rows, and what it leaves is within the limits.
LEMMA TrimKeeps ==
  ASSUME NEW b, BufferOK(b)
  PROVE  /\ BufferOK(Trim(b)) /\ WithinLimits(Trim(b))
         /\ SameGates(b, Trim(b)) /\ Trim(b).retention = b.retention
         /\ \E d : Follows(b, Trim(b), d)
<1>0. b.all \in Seq(Rows)
  BY DEF BufferOK, BufferTyped
<1>1. Follows(b, b, 0) /\ SameGates(b, b)
  BY <1>0, FollowsSame DEF SameGates
<1>2. CASE b.retention = Unbounded \/ b.all = <<>>
  <2>1. Trim(b) = b
    BY <1>2 DEF Trim
  <2>2. WithinLimits(b)
    BY <1>2 DEF WithinLimits
  <2> QED BY <1>1, <2>1, <2>2
<1>3. CASE ~(b.retention = Unbounded \/ b.all = <<>>)
  <2>1. PICK d \in 0..Len(b.all) - 1 :
          d = Surplus(b) /\ (Left(b, d) <= b.retention.max \/ d + 1 >= Len(b.all))
    BY <1>3, SurplusFound
  <2>2. Trim(b) = IF d = 0 \/ ~(Worthwhile(b, d) \/ HardOver(b)) THEN b ELSE Drain(b, d)
    BY <1>3, <2>1 DEF Trim
  <2>3. b.retention.max \in Nat /\ Len(b.all) \in Nat
    BY <1>0, <1>3 DEF BufferOK, BufferTyped, Limits
  <2>4. b.retention.max + b.retention.max \div 4 >= b.retention.max
    BY <2>3
  <2>5. CASE d = 0
    <3>1. Left(b, 0) = b.bytes /\ b.bytes \in Int
      <4>1. SizeOf(b.all) \in Nat /\ b.bytes = SizeOf(b.all)
        <5>1. 0 \in 0..Len(b.all)
          BY <2>3
        <5> QED BY <1>0, <5>1, RowsSized, SizeSplit DEF BufferOK, Consistent
      <4>2. SubSeq(b.all, 1, 0) = <<>>
        BY <1>0
      <4>3. SizeOf(SubSeq(b.all, 1, 0)) = 0
        BY <4>2, EmptySize
      <4> QED BY <4>1, <4>3 DEF Left
    <3>2. WithinLimits(b)
      BY <2>1, <2>3, <2>4, <2>5, <3>1 DEF WithinLimits, HardOver
    <3> QED BY <1>1, <2>2, <2>5, <3>2
  <2>6. CASE ~(Worthwhile(b, d) \/ HardOver(b))
    BY <1>1, <2>2, <2>6 DEF WithinLimits
  <2>7. CASE d # 0 /\ (Worthwhile(b, d) \/ HardOver(b))
    <3>1. d \in 0..Len(b.all)
      BY <2>3
    <3>2. PICK c : c = Drain(b, d)
      OBVIOUS
    <3>3. /\ BufferOK(c) /\ Len(c.all) = Len(b.all) - d
          /\ \A i \in 1..Len(b.all) - d : c.all[i] = b.all[d + i]
          /\ SameGates(b, c) /\ c.retention = b.retention
          /\ c.bytes = Left(b, d) /\ Left(b, d) \in Int
      BY <3>1, <3>2, DrainKeeps
    <3>4. WithinLimits(c)
      BY <2>1, <2>3, <2>4, <3>3 DEF WithinLimits, HardOver
    <3>5. Follows(b, c, d)
      BY <3>1, <3>3 DEF Follows
    <3> QED BY <2>2, <2>7, <3>2, <3>3, <3>4, <3>5
  <2> QED BY <2>5, <2>6, <2>7
<1> QED
  BY <1>2, <1>3

\* Every handler leaves the rows, the view and the byte count together.
LEMMA SetRetentionKeeps ==
  ASSUME NEW b, BufferOK(b), NEW r, Limits(r)
  PROVE  /\ BufferOK(SetRetention(b, r)) /\ WithinLimits(SetRetention(b, r))
         /\ SameGates(b, SetRetention(b, r)) /\ SetRetention(b, r).retention = r
         /\ \E d : Follows(b, SetRetention(b, r), d)
<1>1. PICK c : c = [b EXCEPT !.retention = r]
  OBVIOUS
<1>2. /\ DOMAIN c = Fields /\ c.all = b.all /\ c.view = b.view /\ c.bytes = b.bytes
      /\ SameGates(b, c) /\ c.retention = r /\ c.search = b.search
  BY <1>1 DEF BufferOK, BufferTyped, Fields, SameGates
<1>3. Shown(c) = Shown(b)
  BY <1>2, ShownSame DEF SameGates
<1>4. BufferOK(c)
  <2>1. Whole(b)
    BY WholeIsOK
  <2>2. Whole(c)
    BY <1>2, <1>3, <2>1 DEF Whole, BufferTyped, SameGates
  <2> QED BY <2>2, WholeIsOK
<1>5. /\ BufferOK(Trim(c)) /\ WithinLimits(Trim(c))
      /\ SameGates(c, Trim(c)) /\ Trim(c).retention = c.retention
      /\ \E d : Follows(c, Trim(c), d)
  BY <1>4, TrimKeeps
<1>6. SetRetention(b, r) = Trim(c)
  BY <1>1 DEF SetRetention
<1>7. PICK t : t = Trim(c)
  OBVIOUS
<1>8. /\ BufferOK(t) /\ WithinLimits(t) /\ SameGates(c, t) /\ t.retention = r
      /\ SetRetention(b, r) = t
  BY <1>2, <1>5, <1>6, <1>7
<1>9. PICK d : Follows(c, t, d)
  BY <1>5, <1>7
<1>10. Follows(b, t, d)
  BY <1>2, <1>9 DEF Follows
<1>11. SameGates(b, t)
  BY <1>2, <1>8 DEF SameGates
<1> QED
  BY <1>8, <1>10, <1>11

\* A view that is rebuilt shows what passes the gates of the moment.
LEMMA RebuildKeeps ==
  ASSUME NEW b, Whole(b), NEW c, DOMAIN c = Fields, c.search \in Seq(Units),
         c.all = b.all, c.highlight = b.highlight, c.retention = b.retention, c.bytes = b.bytes
  PROVE  /\ BufferOK(RebuildView(c)) /\ SameGates(c, RebuildView(c))
         /\ RebuildView(c).retention = b.retention
         /\ Follows(b, RebuildView(c), 0)
<1>1. PICK v : v = RebuildView(c)
  OBVIOUS
<1>2. /\ DOMAIN v = Fields /\ v.all = b.all /\ v.view = PassingOf(c) /\ v.bytes = b.bytes
      /\ SameGates(c, v) /\ v.retention = b.retention
  BY <1>1 DEF RebuildView, Fields, SameGates
<1>3. b.all \in Seq(Rows) /\ c.all \in Seq(Rows)
  BY DEF Whole, BufferTyped
<1>4. Shown(v) = Shown(c)
  BY <1>2, ShownSame DEF SameGates
<1>5. Ascends(v.view) /\ Among(v.view) = Shown(v)
  BY <1>2, <1>3, <1>4, RebuiltView
<1>6. Whole(v)
  BY <1>2, <1>5 DEF Whole, BufferTyped, SameGates
<1> QED
  BY <1>1, <1>2, <1>3, <1>6, WholeIsOK, FollowsSame

LEMMA SameLimits ==
  ASSUME NEW b, NEW c, WithinLimits(b), c.retention = b.retention, c.bytes = b.bytes,
         Len(c.all) = Len(b.all)
  PROVE  WithinLimits(c)
  BY DEF WithinLimits, HardOver

Unchanging(b, c) ==
  BufferOK(c) /\ WithinLimits(c) /\ c.retention = b.retention

LEMMA SetRulesKeeps ==
  ASSUME NEW b, BufferOK(b), WithinLimits(b), NEW rules
  PROVE  /\ Unchanging(b, SetRules(b, rules)) /\ Follows(b, SetRules(b, rules), 0)
         /\ SetRules(b, rules).filter = rules
<1>1. PICK c : c = [b EXCEPT !.filter = rules]
  OBVIOUS
<1>2. Whole(b)
  BY WholeIsOK
<1>3. /\ DOMAIN c = Fields /\ c.search \in Seq(Units) /\ c.filter = rules
      /\ c.all = b.all /\ c.highlight = b.highlight /\ c.retention = b.retention
      /\ c.bytes = b.bytes
  BY <1>1, <1>2 DEF Whole, BufferTyped, Fields
<1>4. PICK v : v = RebuildView(c)
  OBVIOUS
<1>5. BufferOK(v) /\ SameGates(c, v) /\ v.retention = b.retention /\ Follows(b, v, 0)
  BY <1>2, <1>3, <1>4, RebuildKeeps
<1>6. v.bytes = b.bytes /\ Len(v.all) = Len(b.all)
  BY <1>3, <1>4 DEF RebuildView, Fields
<1> QED
  BY <1>1, <1>3, <1>4, <1>5, <1>6, SameLimits DEF SetRules, Unchanging, SameGates

LEMMA SetTogglesKeeps ==
  ASSUME NEW b, BufferOK(b), WithinLimits(b), NEW monitor
  PROVE  /\ Unchanging(b, SetToggles(b, monitor)) /\ Follows(b, SetToggles(b, monitor), 0)
         /\ SetToggles(b, monitor).filter = b.filter
<1>1. PICK c : c = [b EXCEPT !.monitor = monitor]
  OBVIOUS
<1>2. Whole(b)
  BY WholeIsOK
<1>3. /\ DOMAIN c = Fields /\ c.search \in Seq(Units) /\ c.filter = b.filter
      /\ c.all = b.all /\ c.highlight = b.highlight /\ c.retention = b.retention
      /\ c.bytes = b.bytes
  BY <1>1, <1>2 DEF Whole, BufferTyped, Fields
<1>4. PICK v : v = RebuildView(c)
  OBVIOUS
<1>5. BufferOK(v) /\ SameGates(c, v) /\ v.retention = b.retention /\ Follows(b, v, 0)
  BY <1>2, <1>3, <1>4, RebuildKeeps
<1>6. v.bytes = b.bytes /\ Len(v.all) = Len(b.all)
  BY <1>3, <1>4 DEF RebuildView, Fields
<1> QED
  BY <1>1, <1>3, <1>4, <1>5, <1>6, SameLimits DEF SetToggles, Unchanging, SameGates

\* A text that begins with another is found only where that one is.
LEMMA SearchNarrows ==
  ASSUME NEW ev \in Reported \ {NoEvent}, NEW text \in Seq(Units), NEW old \in Seq(Units),
         Extends(text, old), SearchMatches(ev, text)
  PROVE  SearchMatches(ev, old)
<1> SUFFICES ASSUME old # <<>> PROVE \E cell \in ev.cells : ContainsCi(cell, old)
  BY DEF SearchMatches
<1>1. PICK L \in Nat, M \in Nat : L = Len(old) /\ M = Len(text)
  OBVIOUS
<1>2. L <= M
  BY <1>1 DEF Extends
<1>3. text # <<>>
  BY <1>1, <1>2
<1>4. PICK cell \in ev.cells : ContainsCi(cell, text)
  BY <1>3 DEF SearchMatches
<1>5. cell \in Seq(Units)
  BY EventsAssumption
<1>6. PICK i \in 0..Len(cell) : IsPrefix(Folded(text), Folded(SubSeq(cell, i + 1, Len(cell))))
  BY <1>4 DEF ContainsCi
<1>7. SubSeq(cell, i + 1, Len(cell)) \in Seq(Units)
  BY <1>5
<1>8. PICK rest \in Seq(Units) : rest = SubSeq(cell, i + 1, Len(cell))
  BY <1>7
<1> DEFINE T == {Folded(text)[k] : k \in 1..M} \union {Folded(old)[k] : k \in 1..L}
                \union {Folded(rest)[k] : k \in 1..Len(rest)}
<1>9. /\ DOMAIN text = 1..M /\ DOMAIN old = 1..L /\ DOMAIN rest = 1..Len(rest)
      /\ Len(rest) \in Nat
  BY <1>1
<1>a. Folded(text) \in Seq(T)
  <2>1. Folded(text) = [k \in 1..M |-> Folded(text)[k]]
    BY <1>9 DEF Folded
  <2>2. [k \in 1..M |-> Folded(text)[k]] \in Seq(T)
    OBVIOUS
  <2> QED BY <2>1, <2>2
<1>b. Folded(old) \in Seq(T)
  <2>1. Folded(old) = [k \in 1..L |-> Folded(old)[k]]
    BY <1>9 DEF Folded
  <2>2. [k \in 1..L |-> Folded(old)[k]] \in Seq(T)
    OBVIOUS
  <2> QED BY <2>1, <2>2
<1>c. Folded(rest) \in Seq(T)
  <2>1. Folded(rest) = [k \in 1..Len(rest) |-> Folded(rest)[k]]
    BY <1>9 DEF Folded
  <2>2. [k \in 1..Len(rest) |-> Folded(rest)[k]] \in Seq(T)
    BY <1>9
  <2> QED BY <2>1, <2>2
<1> HIDE DEF T
<1>10. PICK t \in Seq(T), o \in Seq(T), r \in Seq(T) :
         t = Folded(text) /\ o = Folded(old) /\ r = Folded(rest)
  BY <1>a, <1>b, <1>c
<1>11. Len(t) = M /\ Len(o) = L /\ Len(r) = Len(rest)
  BY <1>9, <1>10 DEF Folded
<1>12. M <= Len(r) /\ \A k \in 1..M : r[k] = t[k]
  <2>1. IsPrefix(t, r)
    BY <1>6, <1>8, <1>10
  <2>2. M <= Len(r) /\ SubSeq(t, 1, M) = SubSeq(r, 1, M)
    BY <1>11, <2>1 DEF IsPrefix
  <2>3. \A k \in 1..M : SubSeq(t, 1, M)[k] = t[k] /\ SubSeq(r, 1, M)[k] = r[k]
    BY <1>11, <2>2
  <2> QED BY <2>2, <2>3
<1>13. \A k \in 1..L : o[k] = t[k]
  <2>1. SubSeq(text, 1, L) \in Seq(Units)
    BY <1>1, <1>2
  <2>2. PICK head \in Seq(Units) : head = SubSeq(text, 1, L)
    BY <2>1
  <2>3. Len(head) = L /\ \A k \in 1..L : head[k] = text[k]
    BY <1>1, <1>2, <2>2
  <2>4. DOMAIN head = 1..L
    BY <2>3
  <2>5. Folded(head) = o
    BY <1>1, <1>10, <2>2 DEF Extends
  <2>6. \A k \in 1..L : Folded(head)[k] = Folded(text)[k]
    BY <1>2, <1>9, <2>3, <2>4 DEF Folded
  <2> QED BY <1>10, <2>5, <2>6
<1>14. IsPrefix(o, r)
  <2>1. \A k \in 1..L : o[k] = r[k]
    BY <1>2, <1>12, <1>13
  <2>2. SubSeq(o, 1, L) = [k \in 1..L |-> o[k]] /\ SubSeq(r, 1, L) = [k \in 1..L |-> r[k]]
    BY <1>2, <1>11, <1>12
  <2> QED BY <1>2, <1>11, <1>12, <2>1, <2>2 DEF IsPrefix
<1> QED
  BY <1>4, <1>6, <1>8, <1>10, <1>14 DEF ContainsCi

LEMMA SetSearchKeeps ==
  ASSUME NEW b, BufferOK(b), WithinLimits(b), NEW text \in Seq(Units)
  PROVE  /\ Unchanging(b, SetSearch(b, text)) /\ Follows(b, SetSearch(b, text), 0)
         /\ SetSearch(b, text).filter = b.filter
<1>1. PICK c : c = [b EXCEPT !.search = text]
  OBVIOUS
<1>2. Whole(b)
  BY WholeIsOK
<1>3. /\ DOMAIN c = Fields /\ c.search = text /\ c.filter = b.filter /\ c.monitor = b.monitor
      /\ c.all = b.all /\ c.highlight = b.highlight /\ c.retention = b.retention
      /\ c.bytes = b.bytes /\ c.view = b.view
  BY <1>1, <1>2 DEF Whole, BufferTyped, Fields
<1>4. CASE ~Extends(text, b.search)
  <2>1. PICK v : v = RebuildView(c)
    OBVIOUS
  <2>2. BufferOK(v) /\ SameGates(c, v) /\ v.retention = b.retention /\ Follows(b, v, 0)
    BY <1>2, <1>3, <2>1, RebuildKeeps
  <2>3. v.bytes = b.bytes /\ Len(v.all) = Len(b.all)
    BY <1>3, <2>1 DEF RebuildView, Fields
  <2>4. SetSearch(b, text) = v
    BY <1>1, <1>4, <2>1 DEF SetSearch
  <2> QED BY <1>3, <2>2, <2>3, <2>4, SameLimits DEF Unchanging, SameGates
<1>5. CASE Extends(text, b.search)
  <2> DEFINE S == {i \in DOMAIN b.all : SearchMatches(b.all[i].ev, text)}
  <2>1. PICK v : v = [c EXCEPT !.view = Retained(b.view, S)]
    OBVIOUS
  <2>2. SetSearch(b, text) = v
    BY <1>1, <1>3, <1>5, <2>1 DEF SetSearch
  <2>3. /\ DOMAIN v = Fields /\ v.search = text /\ v.filter = b.filter /\ v.monitor = b.monitor
        /\ v.all = b.all /\ v.highlight = b.highlight /\ v.retention = b.retention
        /\ v.bytes = b.bytes /\ v.view = Retained(b.view, S)
    <3> HIDE DEF S
    <3> QED BY <1>3, <2>1 DEF Fields
  <2>4. Ascends(v.view) /\ Among(v.view) = Among(b.view) \intersect S
    <3>1. Ascends(b.view)
      BY <1>2 DEF Whole
    <3>2. b.view \in Seq(Nat)
      BY <3>1 DEF Ascends
    <3> HIDE DEF S
    <3>3. /\ Among(Retained(b.view, S)) = Among(b.view) \intersect S
          /\ Ascends(Retained(b.view, S))
      BY <3>1, <3>2, RetainedFacts
    <3> QED BY <2>3, <3>3
  <2>5. b.all \in Seq(Rows) /\ DOMAIN b.all = 1..Len(b.all) /\ b.search \in Seq(Units)
    BY <1>2 DEF Whole, BufferTyped
  <2>6. ASSUME NEW i \in 1..Len(b.all)
        PROVE  i \in Shown(v) <=> i \in Shown(b) /\ i \in S
    <3>1. b.all[i].ev \in Reported \ {NoEvent}
      <4>1. b.all[i] \in Rows
        BY <2>5
      <4> QED BY <4>1 DEF Rows
    <3>2. SearchMatches(b.all[i].ev, text) => SearchMatches(b.all[i].ev, b.search)
      BY <1>5, <2>5, <3>1, SearchNarrows
    <3> QED BY <2>3, <2>5, <3>2 DEF Shown, Passes
  <2>7. Shown(v) = Shown(b) \intersect S
    <3>1. Shown(v) \subseteq 1..Len(b.all) /\ Shown(b) \subseteq 1..Len(b.all)
      BY <2>3 DEF Shown
    <3> HIDE DEF S
    <3> QED BY <2>6, <3>1
  <2>8. Whole(v)
    <3>1. Among(v.view) = Shown(v)
      BY <1>2, <2>4, <2>7 DEF Whole
    <3> QED BY <1>2, <2>3, <2>4, <3>1 DEF Whole, BufferTyped
  <2>9. BufferOK(v)
    BY <2>8, WholeIsOK
  <2>10. WithinLimits(v) /\ Follows(b, v, 0)
    BY <2>3, <2>5, SameLimits, FollowsSame
  <2> QED BY <2>2, <2>3, <2>9, <2>10 DEF Unchanging
<1> QED
  BY <1>4, <1>5

\* New rows in place of the old ones: the same, but for marks and bookmarks.
LEMMA RewriteKeeps ==
  ASSUME NEW b, BufferOK(b), WithinLimits(b),
         NEW c, DOMAIN c = Fields, c.all \in Seq(Rows), Len(c.all) = Len(b.all),
         c.view = b.view, c.bytes = b.bytes, c.retention = b.retention,
         c.filter = b.filter, c.monitor = b.monitor, c.search = b.search,
         \A i \in 1..Len(b.all) :
           /\ c.all[i].ev = b.all[i].ev
           /\ c.all[i].marked = RulesMark(c.highlight, b.all[i].ev)
  PROVE  Unchanging(b, c)
<1>1. Whole(b)
  BY WholeIsOK
<1>2. Shown(c) = Shown(b)
  BY ShownSame
<1>3. SizeOf(c.all) = SizeOf(b.all)
  <2>1. Sized(b.all)
    BY <1>1, RowsSized DEF Whole, BufferTyped, Sized
  <2> QED BY <2>1, SizeSame
<1>4. Whole(c)
  BY <1>1, <1>2, <1>3 DEF Whole, BufferTyped
<1>5. BufferOK(c) /\ WithinLimits(c)
  BY <1>4, WholeIsOK, SameLimits
<1> QED
  BY <1>5 DEF Unchanging

LEMMA SetMarksKeeps ==
  ASSUME NEW b, BufferOK(b), WithinLimits(b), NEW rules
  PROVE  /\ Unchanging(b, SetMarks(b, rules)) /\ Follows(b, SetMarks(b, rules), 0)
         /\ SetMarks(b, rules).filter = b.filter
<1>1. PICK c : c = SetMarks(b, rules)
  OBVIOUS
<1>2. PICK N \in Nat : N = Len(b.all)
  BY DEF BufferOK, BufferTyped
<1>3. b.all \in Seq(Rows) /\ DOMAIN b.all = 1..N /\ DOMAIN b = Fields
  BY <1>2 DEF BufferOK, BufferTyped
<1> DEFINE Remarked(r) == [r EXCEPT !.marked = RulesMark(rules, r.ev)]
           all == [i \in 1..N |-> Remarked(b.all[i])]
<1>4. /\ DOMAIN c = Fields /\ c.all = all /\ c.view = b.view /\ c.bytes = b.bytes
      /\ c.retention = b.retention /\ c.filter = b.filter /\ c.monitor = b.monitor
      /\ c.search = b.search /\ c.highlight = rules
  <2>1. c = [b EXCEPT !.highlight = rules, !.all = all]
    BY <1>1, <1>3 DEF SetMarks
  <2> HIDE DEF all
  <2> QED BY <1>3, <2>1 DEF Fields
<1>5. ASSUME NEW r \in Rows
      PROVE  /\ Remarked(r) \in Rows /\ Remarked(r).ev = r.ev /\ Remarked(r).seq = r.seq
             /\ Remarked(r).noted = r.noted /\ Remarked(r).marked = RulesMark(rules, r.ev)
  <2>1. RulesMark(rules, r.ev) \in BOOLEAN
    BY DEF RulesMark
  <2> QED BY <2>1 DEF Rows
<1>6. \A i \in 1..N : b.all[i] \in Rows
  BY <1>2, <1>3
<1>7. all \in Seq(Rows) /\ Len(all) = N /\ \A i \in 1..N : all[i] = Remarked(b.all[i])
  <2>1. \A i \in 1..N : Remarked(b.all[i]) \in Rows
    BY <1>5, <1>6
  <2> HIDE DEF Remarked
  <2> QED BY <2>1
<1> HIDE DEF Remarked, all
<1>8. \A i \in 1..Len(b.all) :
        /\ c.all[i].ev = b.all[i].ev /\ c.all[i].seq = b.all[i].seq
        /\ c.all[i].noted = b.all[i].noted
        /\ c.all[i].marked = RulesMark(c.highlight, b.all[i].ev)
  BY <1>2, <1>4, <1>5, <1>6, <1>7
<1>9. Len(c.all) = Len(b.all) /\ c.all \in Seq(Rows)
  BY <1>2, <1>4, <1>7
<1>10. Unchanging(b, c)
  BY <1>4, <1>8, <1>9, RewriteKeeps
<1>11. Follows(b, c, 0)
  <2>1. \A i \in 1..N : 0 + i = i
    OBVIOUS
  <2> QED BY <1>2, <1>8, <1>9, <2>1 DEF Follows
<1> QED
  BY <1>1, <1>4, <1>10, <1>11

\* A bookmark changes that of the row shown at the position, and nothing else.
LEMMA ToggleNoteKeeps ==
  ASSUME NEW b, BufferOK(b), WithinLimits(b), NEW ix
  PROVE  /\ Unchanging(b, ToggleNote(b, ix)) /\ ToggleNote(b, ix).filter = b.filter
         /\ Len(ToggleNote(b, ix).all) = Len(b.all)
         /\ \A i \in 1..Len(b.all) :
              /\ ToggleNote(b, ix).all[i].ev = b.all[i].ev
              /\ ToggleNote(b, ix).all[i].seq = b.all[i].seq
              /\ ToggleNote(b, ix).all[i].noted # b.all[i].noted
                   => ix \in DOMAIN b.view /\ b.view[ix] = i
<1>1. CASE ix \notin DOMAIN b.view
  BY <1>1 DEF ToggleNote, Unchanging, BufferOK
<1>2. CASE ix \in DOMAIN b.view
  <2>0. Whole(b) /\ b.all \in Seq(Rows) /\ DOMAIN b = Fields
    BY WholeIsOK DEF BufferOK, BufferTyped
  <2>1. PICK N \in Nat : N = Len(b.all)
    BY <2>0
  <2>2. b.view[ix] \in 1..N
    <3>1. b.view[ix] \in Among(b.view)
      BY <1>2, <2>0 DEF Whole, Ascends, Among
    <3> QED BY <2>0, <2>1, <3>1 DEF Whole, Shown
  <2>3. PICK k \in 1..N : k = b.view[ix]
    BY <2>2
  <2>4. PICK row \in Rows : row = b.all[k]
    BY <2>0, <2>1
  <2>5. PICK other : other = [row EXCEPT !.noted = ~@]
    OBVIOUS
  <2>6. /\ other \in Rows /\ other.ev = row.ev /\ other.seq = row.seq
        /\ other.marked = row.marked
    <3>1. row.noted \in BOOLEAN
      BY DEF Rows
    <3> QED BY <2>5, <3>1 DEF Rows
  <2>7. PICK c : c = ToggleNote(b, ix)
    OBVIOUS
  <2>8. c = [b EXCEPT !.all = [b.all EXCEPT ![k] = other]]
    BY <1>2, <2>0, <2>1, <2>3, <2>4, <2>5, <2>7 DEF ToggleNote, Fields
  <2>9. /\ DOMAIN c = Fields /\ c.all = [b.all EXCEPT ![k] = other] /\ c.view = b.view
        /\ c.bytes = b.bytes
        /\ c.retention = b.retention /\ c.filter = b.filter /\ c.monitor = b.monitor
        /\ c.search = b.search /\ c.highlight = b.highlight
    BY <2>0, <2>8 DEF Fields
  <2>10. /\ c.all \in Seq(Rows) /\ Len(c.all) = N /\ c.all[k] = other
         /\ \A i \in 1..N : i # k => c.all[i] = b.all[i]
    BY <2>0, <2>1, <2>6, <2>9
  <2>11. \A i \in 1..N :
           /\ c.all[i].ev = b.all[i].ev /\ c.all[i].seq = b.all[i].seq
           /\ c.all[i].marked = b.all[i].marked
           /\ c.all[i].noted # b.all[i].noted => i = k
    BY <2>4, <2>6, <2>10
  <2>12. \A i \in 1..N : b.all[i].marked = RulesMark(c.highlight, b.all[i].ev)
    BY <2>0, <2>1, <2>9 DEF Whole
  <2>13. Unchanging(b, c)
    BY <2>1, <2>9, <2>10, <2>11, <2>12, RewriteKeeps
  <2> QED BY <1>2, <2>1, <2>3, <2>7, <2>9, <2>10, <2>11, <2>13
<1> QED
  BY <1>1, <1>2

LEMMA EmptyKeeps ==
  ASSUME NEW c, DOMAIN c = Fields, c.all = <<>>, c.view = <<>>, c.bytes = 0,
         c.search \in Seq(Units), Limits(c.retention)
  PROVE  BufferOK(c) /\ WithinLimits(c)
<1>1. PICK e \in Seq(Rows) : e = <<>>
  <2>1. <<>> \in Seq(Rows)
    OBVIOUS
  <2> QED BY <2>1
<1>2. c.all \in Seq(Rows) /\ Len(c.all) = 0
  BY <1>1
<1>3. Ascends(c.view) /\ Among(c.view) = {}
  <2>1. <<>> \in Seq(Nat) /\ Len(<<>>) = 0
    OBVIOUS
  <2> QED BY <2>1 DEF Ascends, Among
<1>4. Shown(c) = {}
  BY <1>2 DEF Shown
<1>5. Whole(c)
  BY <1>2, <1>3, <1>4, EmptySize DEF Whole, BufferTyped
<1> QED
  BY <1>2, <1>5, WholeIsOK DEF WithinLimits

LEMMA ClearRowsKeeps ==
  ASSUME NEW b, BufferOK(b)
  PROVE  /\ Unchanging(b, ClearRows(b)) /\ ClearRows(b).filter = b.filter
         /\ Len(ClearRows(b).all) = 0
<1>1. PICK c : c = ClearRows(b)
  OBVIOUS
<1>2. /\ DOMAIN c = Fields /\ c.all = <<>> /\ c.view = <<>> /\ c.bytes = 0
      /\ c.search = b.search /\ c.retention = b.retention /\ c.filter = b.filter
  BY <1>1 DEF ClearRows, BufferOK, BufferTyped, Fields
<1>3. BufferOK(c) /\ WithinLimits(c)
  BY <1>2, EmptyKeeps DEF BufferOK, BufferTyped
<1> QED
  BY <1>1, <1>2, <1>3 DEF Unchanging

LEMMA NewBufferOK == BufferOK(NewBuffer) /\ WithinLimits(NewBuffer) /\ Len(NewBuffer.all) = 0
<1>1. PICK c : c = NewBuffer
  OBVIOUS
<1>2. /\ DOMAIN c = Fields /\ c.all = <<>> /\ c.view = <<>> /\ c.bytes = 0
      /\ c.search = <<>> /\ c.retention = Unbounded
  BY <1>1 DEF NewBuffer, Fields
<1>3. c.search \in Seq(Units) /\ Limits(c.retention) /\ Len(c.all) = 0
  <2>1. <<>> \in Seq(Units) /\ Len(<<>>) = 0
    OBVIOUS
  <2> QED BY <1>2, <2>1 DEF Limits
<1>4. BufferOK(c) /\ WithinLimits(c)
  BY <1>2, <1>3, EmptyKeeps
<1> QED
  BY <1>1, <1>3, <1>4

\* A row that arrives is the last; what trimming leaves are the newest.
LEMMA PushKeeps ==
  ASSUME NEW b, BufferOK(b), NEW row \in Rows
  PROVE  /\ Unchanging(b, Push(b, row)) /\ Push(b, row).filter = b.filter
         /\ \E p, d :
              /\ BufferOK(p) /\ Push(b, row) = Trim(p)
              /\ p.view \in {b.view, Append(b.view, Len(b.all) + 1)}
              /\ Len(p.all) = Len(b.all) + 1 /\ Follows(p, Push(b, row), d)
              /\ \A i \in 1..Len(b.all) : p.all[i] = b.all[i]
              /\ p.all[Len(b.all) + 1].ev = row.ev /\ p.all[Len(b.all) + 1].seq = row.seq
<1>0. Whole(b) /\ b.all \in Seq(Rows) /\ DOMAIN b = Fields
  BY WholeIsOK DEF BufferOK, BufferTyped
<1>1. PICK N \in Nat : N = Len(b.all)
  BY <1>0
<1>2. PICK new : new = [row EXCEPT !.marked = RulesMark(b.highlight, row.ev)]
  OBVIOUS
<1>3. new \in Rows /\ new.ev = row.ev /\ new.seq = row.seq
      /\ new.marked = RulesMark(b.highlight, row.ev)
  <2>1. RulesMark(b.highlight, row.ev) \in BOOLEAN
    BY DEF RulesMark
  <2> QED BY <1>2, <2>1 DEF Rows
<1> DEFINE view == IF Passes(b, row.ev) THEN Append(b.view, N + 1) ELSE b.view
<1>4. PICK p : p = [b EXCEPT !.counts = Bump(b.counts, row.ev.category),
                             !.all = Append(b.all, new), !.view = view,
                             !.bytes = b.bytes + row.ev.size]
  OBVIOUS
<1>5. /\ DOMAIN p = Fields /\ p.all = Append(b.all, new) /\ p.view = view
      /\ p.bytes = b.bytes + row.ev.size /\ SameGates(b, p) /\ p.retention = b.retention
  <2> HIDE DEF view
  <2> QED BY <1>0, <1>4 DEF Fields, SameGates
<1>6. /\ p.all \in Seq(Rows) /\ Len(p.all) = N + 1 /\ p.all[N + 1] = new
      /\ \A i \in 1..N : p.all[i] = b.all[i]
  BY <1>0, <1>1, <1>3, <1>5
<1>7. Shown(p) = Shown(b) \union (IF Passes(b, row.ev) THEN {N + 1} ELSE {})
  <2>1. \A i \in 1..N : Passes(p, p.all[i].ev) <=> Passes(b, b.all[i].ev)
    BY <1>5, <1>6, PassesSame
  <2>2. Passes(p, p.all[N + 1].ev) <=> Passes(b, row.ev)
    BY <1>3, <1>5, <1>6, PassesSame
  <2>3. 1..N + 1 = (1..N) \union {N + 1}
    OBVIOUS
  <2> QED BY <1>1, <1>6, <2>1, <2>2, <2>3 DEF Shown
<1>8. Ascends(view) /\ Among(view) = Shown(p)
  <2>1. Ascends(b.view) /\ Among(b.view) = Shown(b)
    BY <1>0 DEF Whole
  <2>2. CASE ~Passes(b, row.ev)
    BY <1>7, <2>1, <2>2
  <2>3. CASE Passes(b, row.ev)
    <3>1. \A y \in Among(b.view) : y < N + 1
      BY <1>1, <2>1 DEF Shown
    <3>2. N + 1 \in Nat
      OBVIOUS
    <3>3. /\ Ascends(Append(b.view, N + 1))
          /\ Among(Append(b.view, N + 1)) = Among(b.view) \union {N + 1}
      BY <2>1, <3>1, <3>2, AscendsAppend
    <3> QED BY <1>7, <2>1, <2>3, <3>3
  <2> QED BY <2>2, <2>3
<1>9. SizeOf(p.all) = SizeOf(b.all) + row.ev.size
  BY <1>0, <1>3, <1>5, RowsSized, SizeAppend
<1>10. Whole(p)
  <2>1. \A i \in 1..N + 1 : p.all[i].marked = RulesMark(p.highlight, p.all[i].ev)
    <3>1. \A i \in 1..N : p.all[i].marked = RulesMark(p.highlight, p.all[i].ev)
      BY <1>0, <1>1, <1>5, <1>6 DEF Whole, SameGates
    <3>2. p.all[N + 1].marked = RulesMark(p.highlight, p.all[N + 1].ev)
      BY <1>3, <1>5, <1>6 DEF SameGates
    <3> QED BY <3>1, <3>2
  <2>2. Ascends(p.view) /\ Among(p.view) = Shown(p)
    BY <1>5, <1>8
  <2>3. p.bytes = SizeOf(p.all)
    BY <1>0, <1>5, <1>9 DEF Whole
  <2>4. BufferTyped(p)
    BY <1>0, <1>5, <1>6 DEF Whole, BufferTyped, SameGates
  <2> QED BY <1>6, <2>1, <2>2, <2>3, <2>4 DEF Whole
<1>11. PICK c : c = Trim(p)
  OBVIOUS
<1>12. /\ BufferOK(c) /\ WithinLimits(c) /\ SameGates(p, c) /\ c.retention = p.retention
       /\ \E d : Follows(p, c, d)
  BY <1>10, <1>11, TrimKeeps, WholeIsOK
<1>13. Push(b, row) = c
  BY <1>0, <1>1, <1>2, <1>4, <1>11 DEF Push, Fields
<1>14. \E d : /\ BufferOK(p) /\ c = Trim(p)
              /\ p.view \in {b.view, Append(b.view, Len(b.all) + 1)}
              /\ Len(p.all) = Len(b.all) + 1 /\ Follows(p, c, d)
              /\ \A i \in 1..Len(b.all) : p.all[i] = b.all[i]
              /\ p.all[Len(b.all) + 1].ev = row.ev /\ p.all[Len(b.all) + 1].seq = row.seq
  <2>1. BufferOK(p) /\ p.view \in {b.view, Append(b.view, Len(b.all) + 1)}
    BY <1>1, <1>5, <1>10, WholeIsOK
  <2> HIDE DEF view
  <2> QED BY <1>1, <1>3, <1>6, <1>11, <1>12, <2>1
<1> QED
  BY <1>5, <1>12, <1>13, <1>14 DEF Unchanging, SameGates

(***************************************************************************)
(* The session.  The invariant names, beside what the properties ask: how   *)
(* the numbers of the rows go on from the table to the channel to the relay *)
(* thread, the event of the file behind each, and which resolutions under   *)
(* way are of the event in the panel.                                       *)
(***************************************************************************)
AppFields == {"capturing", "selected", "advanced", "offline", "config", "image", "symbols"}
ConfigTyped(c) == /\ DOMAIN c = {"boot", "ring", "max", "age", "dbghelp", "image"}
                  /\ c.max \in Nat /\ c.age \in Nat
AppOK(a, b) ==
  /\ DOMAIN a = AppFields /\ ConfigTyped(a.config)
  /\ a.symbols \in {None, a.config.dbghelp}
  /\ b.retention = RetentionOf(a.config, a.offline)
  /\ a.advanced = AdvancedOn(b.filter)

SourceFields == {"kind", "open", "capturing", "stop", "flags", "driver", "relay"}
SourceOK(s) ==
  /\ DOMAIN s = SourceFields /\ DOMAIN s.relay = {"pc", "at", "seq", "row"}
  /\ s.kind \in DOMAIN Files \union {"live"}
  /\ s.relay.pc \in {"none", "loop", "send", "done"}
  /\ s.relay.seq \in Nat /\ s.relay.at \in Nat \ {0}
  /\ s.relay.pc = "send" => s.relay.row \in Rows /\ s.relay.row.seq = s.relay.seq - 1
  /\ s.open \/ (s.relay.pc = "none" /\ s.relay.seq = 1)

Messages == {RowMessage(r) : r \in Rows} \union {ErrorMessage}

\* Behind k rows and e notices: the channel's rows follow in order.
InLine(c, e, k) ==
  /\ e \in 0..Len(c)
  /\ \A i \in 1..Len(c) : IF i <= e THEN c[i].error
                          ELSE ~c[i].error /\ c[i].row.seq = k + (i - e)
\* The number of the row the relay thread holds, or of the next it makes.
AtRelay(s) == IF s.relay.pc = "send" THEN s.relay.seq - 1 ELSE s.relay.seq
LineOK(s, c, k) == \E e : InLine(c, e, k) /\ AtRelay(s) = k + (Len(c) - e) + 1
Numbered(b, k) ==
  /\ Len(b.all) <= k
  /\ \A i \in 1..Len(b.all) : b.all[i].seq = (k - Len(b.all)) + i

\* The event of the file that a row stands for.
OfFile(f, r) == r.seq \in 1..Len(Files[f].events) /\ r.ev = Files[f].events[r.seq]
FileOK(s, c, b) ==
  (s.kind # "live" /\ NoDamage(s.kind)) =>
    /\ \A i \in 1..Len(b.all) : OfFile(s.kind, b.all[i])
    /\ \A i \in 1..Len(c) : ~c[i].error => OfFile(s.kind, c[i].row)
    /\ s.relay.pc = "send" => OfFile(s.kind, s.relay.row)
    /\ s.relay.at = s.relay.seq

PanelOK(p, ts) ==
  /\ DOMAIN p = {"open", "ev", "gen", "symbols"} /\ p.gen \in Nat
  /\ p.symbols \in {NoEvent, p.ev}
  /\ \A t \in ts : t.gen \in Nat /\ t.gen <= p.gen /\ (t.gen = p.gen => t.ev = p.ev)

SessionInv ==
  /\ BufferOK(buf) /\ WithinLimits(buf) /\ AppOK(app, buf)
  /\ SourceOK(src) /\ chan \in Seq(Messages) /\ fed \in Nat /\ shown \in Seq(Nat)
  /\ LineOK(src, chan, Len(shown)) /\ Numbered(buf, Len(shown)) /\ FileOK(src, chan, buf)
  /\ PanelOK(panel, tasks)

\* The rows of c are those of b without the first d, but for their bookmarks.
Carries(b, c, d) ==
  /\ d \in 0..Len(b.all) /\ Len(c.all) = Len(b.all) - d
  /\ \A i \in 1..Len(b.all) - d :
       c.all[i].ev = b.all[d + i].ev /\ c.all[i].seq = b.all[d + i].seq

LEMMA NumberedCarries ==
  ASSUME NEW b, b.all \in Seq(Rows), NEW k \in Nat, Numbered(b, k), NEW c, NEW d, Carries(b, c, d)
  PROVE  Numbered(c, k)
<1>1. PICK N \in Nat, D \in Nat : N = Len(b.all) /\ D = d /\ D <= N
  BY DEF Carries
<1>2. Len(c.all) = N - D /\ N <= k
  BY <1>1 DEF Carries, Numbered
<1>3. ASSUME NEW i \in 1..N - D PROVE c.all[i].seq = (k - (N - D)) + i
  <2>1. D + i \in 1..N
    BY <1>1
  <2>2. b.all[D + i].seq = (k - N) + (D + i)
    BY <1>1, <2>1 DEF Numbered
  <2>3. (k - N) + (D + i) = (k - (N - D)) + i
    OBVIOUS
  <2>4. c.all[i].seq = b.all[D + i].seq
    BY <1>1 DEF Carries
  <2> QED BY <2>2, <2>3, <2>4
<1> QED
  BY <1>2, <1>3 DEF Numbered

LEMMA OfFileCarries ==
  ASSUME NEW b, b.all \in Seq(Rows), NEW f, \A i \in 1..Len(b.all) : OfFile(f, b.all[i]),
         NEW c, NEW d, Carries(b, c, d)
  PROVE  \A i \in 1..Len(c.all) : OfFile(f, c.all[i])
<1>1. PICK N \in Nat, D \in Nat : N = Len(b.all) /\ D = d /\ D <= N
  BY DEF Carries
<1>2. ASSUME NEW i \in 1..N - D PROVE OfFile(f, c.all[i])
  <2>1. D + i \in 1..N
    BY <1>1
  <2> QED BY <1>1, <2>1 DEF Carries, OfFile
<1> QED
  BY <1>1, <1>2 DEF Carries

\* A bookmark stays with the number of its row.
NotesFollow(b, c) ==
  \A i \in 1..Len(b.all), j \in 1..Len(c.all) :
    b.all[i].seq = c.all[j].seq => b.all[i].noted = c.all[j].noted

LEMMA FollowsFacts ==
  ASSUME NEW b, b.all \in Seq(Rows), NEW k \in Nat, Numbered(b, k), NEW c, NEW d, Follows(b, c, d)
  PROVE  Carries(b, c, d) /\ NotesFollow(b, c)
<1>1. PICK N \in Nat, D \in Nat : N = Len(b.all) /\ D = d /\ D <= N
  BY DEF Follows
<1>2. Carries(b, c, d)
  BY DEF Follows, Carries
<1>3. ASSUME NEW i \in 1..N, NEW j \in 1..N - D, b.all[i].seq = c.all[j].seq
      PROVE  b.all[i].noted = c.all[j].noted
  <2>1. D + j \in 1..N
    BY <1>1
  <2>2. c.all[j].seq = b.all[D + j].seq /\ c.all[j].noted = b.all[D + j].noted
    BY <1>1 DEF Follows
  <2>3. b.all[i].seq = (k - N) + i /\ b.all[D + j].seq = (k - N) + (D + j)
    BY <1>1, <2>1 DEF Numbered
  <2>4. i = D + j
    <3>1. (k - N) + i = (k - N) + (D + j)
      BY <1>3, <2>2, <2>3
    <3> QED BY <3>1
  <2> QED BY <2>2, <2>4
<1> QED
  BY <1>1, <1>2, <1>3 DEF Follows, NotesFollow

\* A row that arrives is numbered behind the others.
LEMMA PushFacts ==
  ASSUME NEW b, BufferOK(b), NEW k \in Nat, Numbered(b, k), NEW row \in Rows, row.seq = k + 1
  PROVE  /\ Numbered(Push(b, row), k + 1) /\ NotesFollow(b, Push(b, row))
         /\ \A f : ((\A i \in 1..Len(b.all) : OfFile(f, b.all[i])) /\ OfFile(f, row))
                     => \A i \in 1..Len(Push(b, row).all) : OfFile(f, Push(b, row).all[i])
<1>0. PICK N \in Nat : N = Len(b.all) /\ b.all \in Seq(Rows)
  BY DEF BufferOK, BufferTyped
<1>1. PICK c : c = Push(b, row)
  OBVIOUS
<1>2. PICK p, d :
        /\ Len(p.all) = N + 1 /\ Follows(p, c, d)
        /\ \A i \in 1..N : p.all[i] = b.all[i]
        /\ p.all[N + 1].ev = row.ev /\ p.all[N + 1].seq = row.seq
  BY <1>0, <1>1, PushKeeps
<1>3. PICK D \in 0..N + 1 : D = d /\ Len(c.all) = N + 1 - D
  BY <1>2 DEF Follows
<1>4. \A i \in 1..N + 1 - D :
        /\ D + i \in 1..N + 1
        /\ c.all[i].ev = p.all[D + i].ev /\ c.all[i].seq = p.all[D + i].seq
        /\ c.all[i].noted = p.all[D + i].noted
  BY <1>2, <1>3 DEF Follows
<1>5. \A i \in 1..N + 1 : p.all[i].seq = (k - N) + i
  <2>1. \A i \in 1..N : p.all[i].seq = (k - N) + i
    BY <1>0, <1>2 DEF Numbered
  <2>2. p.all[N + 1].seq = (k - N) + (N + 1)
    BY <1>2
  <2> QED BY <2>1, <2>2
<1>6. Numbered(c, k + 1)
  <2>1. N <= k
    BY <1>0 DEF Numbered
  <2>2. Len(c.all) <= k + 1
    BY <1>3, <2>1
  <2>3. \A i \in 1..N + 1 - D : c.all[i].seq = ((k + 1) - (N + 1 - D)) + i
    BY <1>4, <1>5, <2>1
  <2> QED BY <1>3, <2>2, <2>3 DEF Numbered
<1>7. NotesFollow(b, c)
  <2>1. ASSUME NEW i \in 1..N, NEW j \in 1..N + 1 - D, b.all[i].seq = c.all[j].seq
        PROVE  b.all[i].noted = c.all[j].noted
    <3>1. b.all[i].seq = (k - N) + i /\ p.all[i] = b.all[i]
      BY <1>0, <1>2 DEF Numbered
    <3>2. c.all[j].seq = (k - N) + (D + j)
      BY <1>4, <1>5
    <3>3. i = D + j
      <4>1. (k - N) + i = (k - N) + (D + j)
        BY <2>1, <3>1, <3>2
      <4> QED BY <4>1
    <3> QED BY <1>4, <3>1, <3>3
  <2> QED BY <1>0, <1>3, <2>1 DEF NotesFollow
<1>8. ASSUME NEW f, \A i \in 1..Len(b.all) : OfFile(f, b.all[i]), OfFile(f, row)
      PROVE  \A i \in 1..Len(c.all) : OfFile(f, c.all[i])
  <2>1. \A i \in 1..N + 1 : OfFile(f, p.all[i])
    <3>1. \A i \in 1..N : OfFile(f, p.all[i])
      BY <1>0, <1>2, <1>8
    <3>2. OfFile(f, p.all[N + 1])
      BY <1>2, <1>8 DEF OfFile
    <3> QED BY <3>1, <3>2
  <2> QED BY <1>3, <1>4, <2>1, ZenonT(40) DEF OfFile
<1> QED
  BY <1>1, <1>6, <1>7, <1>8

\* A handler that takes no row from the source.
LEMMA HandlerKeeps ==
  ASSUME SessionInv, BufferOK(buf'), WithinLimits(buf'), NEW d, Carries(buf, buf', d),
         AppOK(app', buf'), PanelOK(panel', tasks'),
         SourceOK(src'), src'.kind = src.kind, src'.relay = src.relay,
         UNCHANGED <<chan, fed, shown>>
  PROVE  SessionInv'
<1>1. Len(shown) \in Nat /\ buf.all \in Seq(Rows)
  BY DEF SessionInv, BufferOK, BufferTyped
<1>2. Numbered(buf', Len(shown))
  BY <1>1, NumberedCarries DEF SessionInv
<1>3. LineOK(src', chan, Len(shown))
  BY DEF SessionInv, LineOK, AtRelay
<1>4. FileOK(src', chan, buf')
  BY <1>1, OfFileCarries DEF SessionInv, FileOK
<1> QED
  BY <1>2, <1>3, <1>4 DEF SessionInv

LEMMA NotesFollowStay ==
  ASSUME SessionInv, BufferOK(buf'), NotesFollow(buf, buf')
  PROVE  NotesStay
<1>1. buf.all \in Seq(Rows) /\ buf'.all \in Seq(Rows)
  BY DEF SessionInv, BufferOK, BufferTyped
<1>2. DOMAIN buf.all = 1..Len(buf.all) /\ DOMAIN buf'.all = 1..Len(buf'.all)
  BY <1>1
<1> QED
  BY <1>2 DEF NotesStay, NotesFollow

\* What a handler over the buffer does, when the rows follow.
LEMMA BufferStep ==
  ASSUME SessionInv, BufferOK(buf'), WithinLimits(buf'), NEW d, Follows(buf, buf', d),
         AppOK(app', buf'), PanelOK(panel', tasks'),
         SourceOK(src'), src'.kind = src.kind, src'.relay = src.relay,
         UNCHANGED <<chan, fed, shown>>
  PROVE  SessionInv' /\ NotesStay
<1>1. Len(shown) \in Nat /\ buf.all \in Seq(Rows) /\ Numbered(buf, Len(shown))
  BY DEF SessionInv, BufferOK, BufferTyped
<1>2. Carries(buf, buf', d) /\ NotesFollow(buf, buf')
  BY <1>1, FollowsFacts
<1> QED
  BY <1>2, HandlerKeeps, NotesFollowStay

LEMMA BufferSame ==
  ASSUME SessionInv, buf' = buf
  PROVE  NotesStay
<1>1. Len(shown) \in Nat /\ buf.all \in Seq(Rows) /\ Numbered(buf, Len(shown)) /\ BufferOK(buf)
  BY DEF SessionInv, BufferOK, BufferTyped
<1>2. NotesFollow(buf, buf)
  BY <1>1, FollowsSame, FollowsFacts
<1> QED
  BY <1>1, <1>2, NotesFollowStay

\* The relay thread, which leaves the table alone.
LEMMA RelayStep ==
  ASSUME SessionInv, UNCHANGED <<buf, app, panel, tasks, shown>>,
         SourceOK(src'), chan' \in Seq(Messages), fed' \in Nat,
         LineOK(src', chan', Len(shown)), FileOK(src', chan', buf)
  PROVE  SessionInv' /\ NotesStay
  BY BufferSame DEF SessionInv

LEMMA RelayTurns ==
  ASSUME SessionInv, NEW pc \in {"loop", "done"}, Goto(pc), src.relay.pc = "loop"
  PROVE  SourceOK(src') /\ LineOK(src', chan, Len(shown)) /\ FileOK(src', chan, buf)
<1>1. /\ DOMAIN src = SourceFields /\ DOMAIN src.relay = {"pc", "at", "seq", "row"}
      /\ src' = [src EXCEPT !.relay = [src.relay EXCEPT !.pc = pc]]
  BY DEF SessionInv, SourceOK, Goto
<1>2. /\ DOMAIN src' = SourceFields /\ DOMAIN src'.relay = {"pc", "at", "seq", "row"}
      /\ src'.kind = src.kind /\ src'.open = src.open
      /\ src'.relay.pc = pc /\ src'.relay.at = src.relay.at /\ src'.relay.seq = src.relay.seq
  BY <1>1 DEF SourceFields
<1>3. SourceOK(src')
  BY <1>2 DEF SessionInv, SourceOK
<1>4. AtRelay(src') = AtRelay(src)
  BY <1>2 DEF AtRelay
<1>5. LineOK(src', chan, Len(shown))
  BY <1>4 DEF SessionInv, LineOK
<1>6. FileOK(src', chan, buf)
  BY <1>2 DEF SessionInv, FileOK
<1> QED
  BY <1>3, <1>5, <1>6

LEMMA RowIsRow ==
  ASSUME NEW ev \in Reported \ {NoEvent}, NEW seq \in Nat
  PROVE  Row(ev, seq) \in Rows /\ Row(ev, seq).ev = ev /\ Row(ev, seq).seq = seq
  BY DEF Row, Rows

\* The relay thread makes the next row.
LEMMA RelayMakes ==
  ASSUME SessionInv, src.relay.pc = "loop",
         NEW ev \in Reported \ {NoEvent}, NEW at \in Nat \ {0},
         DOMAIN src' = SourceFields, DOMAIN src'.relay = {"pc", "at", "seq", "row"},
         src'.kind = src.kind, src'.open = src.open,
         src'.relay.pc = "send", src'.relay.at = at, src'.relay.seq = src.relay.seq + 1,
         src'.relay.row = Row(ev, src.relay.seq),
         (src.kind # "live" /\ NoDamage(src.kind)) =>
            /\ src.relay.seq \in 1..Len(Files[src.kind].events)
            /\ ev = Files[src.kind].events[src.relay.seq]
            /\ at = src.relay.seq + 1
  PROVE  SourceOK(src') /\ LineOK(src', chan, Len(shown)) /\ FileOK(src', chan, buf)
<1>1. DOMAIN src = SourceFields /\ src.relay.seq \in Nat /\ src.open
  BY DEF SessionInv, SourceOK
<1>3. /\ src'.relay.row \in Rows /\ src'.relay.row.ev = ev
      /\ src'.relay.row.seq = src.relay.seq
  BY <1>1, RowIsRow
<1>4. SourceOK(src')
  <2>1. src'.relay.seq \in Nat /\ src'.relay.row.seq = src'.relay.seq - 1
    BY <1>1, <1>3
  <2> QED BY <1>1, <1>3, <2>1 DEF SessionInv, SourceOK
<1>5. AtRelay(src') = AtRelay(src)
  BY <1>1 DEF AtRelay
<1>6. LineOK(src', chan, Len(shown))
  BY <1>5 DEF SessionInv, LineOK
<1>7. FileOK(src', chan, buf)
  BY <1>3 DEF SessionInv, FileOK, OfFile
<1> QED
  BY <1>4, <1>6, <1>7

LEMMA RelayLiveKeeps ==
  ASSUME SessionInv, RelayLive
  PROVE  SessionInv' /\ NotesStay
<1>1. UNCHANGED <<buf, app, panel, tasks, shown>> /\ chan' = chan
  BY DEF RelayLive
<1>2. fed' \in Nat /\ chan' \in Seq(Messages)
  BY <1>1 DEF RelayLive, SessionInv
<1>3. CASE src' = src
  BY <1>1, <1>2, <1>3, RelayStep DEF SessionInv
<1>4. CASE Goto("done")
  BY <1>1, <1>2, <1>4, RelayStep, RelayTurns DEF RelayLive
<1>5. CASE ~src.stop /\ fed < Len(LiveFeed) /\ Hold(LiveFeed[fed + 1])
  <2>1. LiveFeed[fed + 1] \in Reported \ {NoEvent}
    <3>1. Len(LiveFeed) \in Nat /\ fed + 1 \in 1..Len(LiveFeed)
      BY <1>5, InputsAssumption DEF SessionInv
    <3> QED BY <3>1, InputsAssumption
  <2>2. PICK ev \in Reported \ {NoEvent} : ev = LiveFeed[fed + 1]
    BY <2>1
  <2>3. /\ DOMAIN src = SourceFields /\ DOMAIN src.relay = {"pc", "at", "seq", "row"}
        /\ src.relay.at \in Nat \ {0} /\ src.relay.pc = "loop" /\ src.kind = "live"
    BY DEF SessionInv, SourceOK, RelayLive
  <2>4. src' = [src EXCEPT !.relay = [src.relay EXCEPT !.pc = "send", !.seq = @ + 1,
                                                       !.row = Row(ev, src.relay.seq)]]
    BY <1>5, <2>2, <2>3 DEF Hold, SourceFields
  <2>5. /\ DOMAIN src' = SourceFields /\ DOMAIN src'.relay = {"pc", "at", "seq", "row"}
        /\ src'.kind = src.kind /\ src'.open = src.open
        /\ src'.relay.pc = "send" /\ src'.relay.at = src.relay.at
        /\ src'.relay.seq = src.relay.seq + 1 /\ src'.relay.row = Row(ev, src.relay.seq)
    BY <2>3, <2>4 DEF SourceFields
  <2>6. SourceOK(src') /\ LineOK(src', chan, Len(shown)) /\ FileOK(src', chan, buf)
    BY <2>3, <2>5, RelayMakes
  <2> QED BY <1>1, <1>2, <2>6, RelayStep
<1> QED
  BY <1>3, <1>4, <1>5 DEF RelayLive

LEMMA RelayLostKeeps ==
  ASSUME SessionInv, RelayLost
  PROVE  SessionInv' /\ NotesStay
<1>1. /\ UNCHANGED <<buf, app, panel, tasks, shown>> /\ chan' = chan /\ fed' = fed
      /\ Goto("done") /\ src.relay.pc = "loop"
  BY DEF RelayLost
<1>2. SourceOK(src') /\ LineOK(src', chan, Len(shown)) /\ FileOK(src', chan, buf)
  BY <1>1, RelayTurns
<1> QED
  BY <1>1, <1>2, RelayStep DEF SessionInv

LEMMA RelayFileKeeps ==
  ASSUME SessionInv, RelayFile
  PROVE  SessionInv' /\ NotesStay
<1> DEFINE events == Files[src.kind].events
           left == {i \in src.relay.at..Len(events) : events[i] # NoEvent}
           next == CHOOSE i \in left : \A j \in left : i <= j
<1>1. /\ UNCHANGED <<buf, app, panel, tasks, shown>> /\ chan' = chan /\ fed' = fed
      /\ src.kind # "live" /\ src.relay.pc = "loop"
  BY DEF RelayFile
<1>2. /\ src.kind \in DOMAIN Files /\ events \in Seq(Reported) /\ Len(events) \in Nat
      /\ src.relay.seq \in Nat /\ src.relay.at \in Nat
  BY <1>1, InputsAssumption DEF SessionInv, SourceOK
<1>3. CASE left = {} \/ src.stop
  <2>1. Goto("done")
    BY <1>3 DEF RelayFile
  <2>2. SourceOK(src') /\ LineOK(src', chan, Len(shown)) /\ FileOK(src', chan, buf)
    BY <1>1, <2>1, RelayTurns
  <2> QED BY <1>1, <2>2, RelayStep DEF SessionInv
<1>4. CASE ~(left = {} \/ src.stop)
  <2>1. next \in left /\ \A j \in left : next <= j
    <3>1. left \in SUBSET Nat /\ left # {}
      BY <1>2, <1>4
    <3>2. \E i \in left : \A j \in left : i <= j
      <4> HIDE DEF left
      <4> QED BY <3>1, NatLeast
    <3> HIDE DEF left
    <3> QED BY <3>2
  <2>2. PICK n \in Nat : n = next
    <3>1. left \subseteq Nat
      BY <1>2
    <3> HIDE DEF left, next
    <3> QED BY <2>1, <3>1
  <2>3. /\ DOMAIN src' = SourceFields /\ DOMAIN src'.relay = {"pc", "at", "seq", "row"}
        /\ src'.kind = src.kind /\ src'.open = src.open
        /\ src'.relay.pc = "send" /\ src'.relay.at = n + 1
        /\ src'.relay.seq = src.relay.seq + 1 /\ src'.relay.row = Row(events[n], src.relay.seq)
    <3>1. DOMAIN src = SourceFields
      BY DEF SessionInv, SourceOK
    <3>2. src' = [src EXCEPT !.relay = [pc |-> "send", at |-> next + 1, seq |-> @.seq + 1,
                                        row |-> Row(events[next], @.seq)]]
      BY <1>4, SMTT(30) DEF RelayFile
    <3> HIDE DEF next, events
    <3> QED BY <2>2, <3>1, <3>2 DEF SourceFields
  <2>4. n \in src.relay.at..Len(events) /\ events[n] # NoEvent /\ \A j \in left : n <= j
    BY <2>1, <2>2
  <2>5. n = 0 \/ n \in 1..Len(events)
    BY <2>4
  <2>6. src.relay.at # 0
    BY DEF SessionInv, SourceOK
  <2>7. events[n] \in Reported \ {NoEvent} /\ n \in 1..Len(events)
    BY <1>2, <2>4, <2>5, <2>6
  <2>8. ASSUME NoDamage(src.kind)
        PROVE  src.relay.seq \in 1..Len(events) /\ n = src.relay.seq
    <3>1. src.relay.at = src.relay.seq
      BY <1>1, <2>8 DEF SessionInv, FileOK
    <3>2. src.relay.at \in 1..Len(events) /\ DOMAIN events = 1..Len(events)
      BY <1>2, <2>4, <2>6
    <3>3. src.relay.at \in left
      BY <2>8, <3>2 DEF NoDamage
    <3> QED BY <1>2, <2>4, <3>1, <3>2, <3>3
  <2>9. SourceOK(src') /\ LineOK(src', chan, Len(shown)) /\ FileOK(src', chan, buf)
    <3>1. PICK ev \in Reported \ {NoEvent}, at \in Nat \ {0} : ev = events[n] /\ at = n + 1
      BY <2>7
    <3> HIDE DEF left, next
    <3> QED BY <1>1, <2>3, <2>8, <3>1, RelayMakes
  <2> QED BY <1>1, <2>9, RelayStep DEF SessionInv
<1> QED
  BY <1>3, <1>4

\* The row joins the channel behind the others, with the next number.
LEMMA RelaySendKeeps ==
  ASSUME SessionInv, RelaySend
  PROVE  SessionInv' /\ NotesStay
<1>1. /\ UNCHANGED <<buf, app, panel, tasks, shown>> /\ fed' = fed
      /\ chan' = Append(chan, RowMessage(src.relay.row)) /\ Goto("loop")
      /\ src.relay.pc = "send"
  BY DEF RelaySend
<1>2. /\ DOMAIN src = SourceFields /\ DOMAIN src.relay = {"pc", "at", "seq", "row"}
      /\ src' = [src EXCEPT !.relay = [src.relay EXCEPT !.pc = "loop"]]
  BY <1>1 DEF SessionInv, SourceOK, Goto
<1>3. /\ DOMAIN src' = SourceFields /\ DOMAIN src'.relay = {"pc", "at", "seq", "row"}
      /\ src'.kind = src.kind /\ src'.open = src.open /\ src'.relay.pc = "loop"
      /\ src'.relay.at = src.relay.at /\ src'.relay.seq = src.relay.seq
  BY <1>2 DEF SourceFields
<1>4. SourceOK(src')
  BY <1>1, <1>3 DEF SessionInv, SourceOK
<1>5. PICK N \in Nat, k \in Nat : N = Len(chan) /\ k = Len(shown)
  BY DEF SessionInv
<1>6. PICK row \in Rows : row = src.relay.row /\ row.seq = src.relay.seq - 1
  BY <1>1 DEF SessionInv, SourceOK
<1>7. PICK m \in Messages : m = RowMessage(row)
  BY DEF Messages
<1>8. ~m.error /\ m.row = row
  BY <1>7 DEF RowMessage
<1>9. /\ chan' \in Seq(Messages) /\ Len(chan') = N + 1 /\ chan'[N + 1] = m
      /\ \A i \in 1..N : chan'[i] = chan[i]
  BY <1>1, <1>5, <1>6, <1>7 DEF SessionInv
<1>10. LineOK(src', chan', k)
  <2>1. PICK e : InLine(chan, e, k) /\ AtRelay(src) = k + (N - e) + 1
    BY <1>5 DEF SessionInv, LineOK
  <2>2. PICK n \in 0..N : n = e
    BY <1>5, <2>1 DEF InLine
  <2>3. row.seq = k + ((N + 1) - n)
    BY <1>1, <1>6, <2>1, <2>2 DEF AtRelay
  <2>4. ASSUME NEW i \in 1..N + 1
        PROVE  IF i <= n THEN chan'[i].error ELSE ~chan'[i].error /\ chan'[i].row.seq = k + (i - n)
    <3>1. CASE i \in 1..N
      BY <1>5, <1>9, <2>1, <2>2, <3>1 DEF InLine
    <3>2. CASE i = N + 1
      BY <1>8, <1>9, <2>2, <2>3, <3>2
    <3> QED BY <3>1, <3>2
  <2>5. InLine(chan', n, k)
    BY <1>9, <2>4 DEF InLine
  <2>6. AtRelay(src') = k + ((N + 1) - n) + 1
    <3>1. src.relay.seq \in Nat /\ src.relay.seq - 1 = k + (N - n) + 1
      BY <1>1, <2>1, <2>2 DEF AtRelay, SessionInv, SourceOK
    <3>2. src.relay.seq = k + ((N + 1) - n) + 1
      BY <3>1
    <3> QED BY <1>3, <3>2 DEF AtRelay
  <2> QED BY <1>9, <2>5, <2>6 DEF LineOK
<1>11. FileOK(src', chan', buf)
  <2>1. SUFFICES ASSUME src.kind # "live", NoDamage(src.kind), NEW i \in 1..N + 1, ~chan'[i].error
                 PROVE  OfFile(src.kind, chan'[i].row)
    BY <1>3, <1>9 DEF SessionInv, FileOK
  <2>2. CASE i \in 1..N
    BY <1>5, <1>9, <2>1, <2>2, SMTT(30) DEF SessionInv, FileOK
  <2>3. CASE i = N + 1
    BY <1>1, <1>6, <1>8, <1>9, <2>1, <2>3 DEF SessionInv, FileOK
  <2> QED BY <2>2, <2>3
<1> QED
  BY <1>1, <1>4, <1>5, <1>9, <1>10, <1>11, RelayStep DEF SessionInv

\* Behind the head of the channel the line is the same, one row further on
\* when the head is a row.
LEMMA LineTail ==
  ASSUME NEW s, NEW c \in Seq(Messages), c # <<>>, NEW k \in Nat, LineOK(s, c, k)
  PROVE  /\ Tail(c) \in Seq(Messages) /\ Head(c) \in Messages
         /\ Head(c).error => LineOK(s, Tail(c), k)
         /\ ~Head(c).error => Head(c).row.seq = k + 1 /\ LineOK(s, Tail(c), k + 1)
         /\ \A i \in 1..Len(Tail(c)) : i + 1 \in 1..Len(c) /\ Tail(c)[i] = c[i + 1]
<1>1. PICK N \in Nat : Len(c) = N + 1
  <2>1. Len(c) - 1 \in Nat /\ Len(c) = (Len(c) - 1) + 1
    OBVIOUS
  <2> QED BY <2>1
<1>a. Head(c) \in Messages /\ Tail(c) \in Seq(Messages)
  OBVIOUS
<1>2. PICK h \in Messages, t \in Seq(Messages) : h = Head(c) /\ t = Tail(c)
  BY <1>a
<1>3. Len(t) = N /\ h = c[1] /\ \A i \in 1..N : i + 1 \in 1..N + 1 /\ t[i] = c[i + 1]
  BY <1>1, <1>2
<1>4. PICK e : InLine(c, e, k) /\ AtRelay(s) = k + (Len(c) - e) + 1
  BY DEF LineOK
<1>5. PICK n \in 0..N + 1 : InLine(c, n, k) /\ AtRelay(s) = k + (N + 1 - n) + 1
  <2>1. e \in 0..N + 1
    BY <1>1, <1>4 DEF InLine
  <2> QED BY <1>1, <1>4, <2>1
<1>6. \A i \in 1..N + 1 : IF i <= n THEN c[i].error
                          ELSE ~c[i].error /\ c[i].row.seq = k + (i - n)
  BY <1>1, <1>5 DEF InLine
<1>7. 1 \in 1..N + 1
  OBVIOUS
<1>8. ASSUME h.error PROVE LineOK(s, t, k)
  <2>1. n # 0
    BY <1>3, <1>6, <1>7, <1>8
  <2>2. ASSUME NEW i \in 1..N
        PROVE  IF i <= n - 1 THEN t[i].error ELSE ~t[i].error /\ t[i].row.seq = k + (i - (n - 1))
    <3>1. /\ t[i] = c[i + 1] /\ i + 1 \in 1..N + 1 /\ (i + 1 <= n <=> i <= n - 1)
          /\ (i + 1) - n = i - (n - 1)
      BY <1>3
    <3>2. IF i + 1 <= n THEN c[i + 1].error
          ELSE ~c[i + 1].error /\ c[i + 1].row.seq = k + ((i + 1) - n)
      BY <1>6, <3>1
    <3> QED BY <3>1, <3>2
  <2>3. InLine(t, n - 1, k)
    <3>1. n - 1 \in 0..N
      BY <2>1
    <3> QED BY <1>3, <2>2, <3>1 DEF InLine
  <2>4. k + (N + 1 - n) + 1 = k + (N - (n - 1)) + 1
    OBVIOUS
  <2> QED BY <1>3, <1>5, <2>3, <2>4 DEF LineOK
<1>9. ASSUME ~h.error PROVE h.row.seq = k + 1 /\ LineOK(s, t, k + 1)
  <2>1. n = 0
    BY <1>3, <1>6, <1>7, <1>9
  <2>2. h.row.seq = k + 1
    BY <1>3, <1>6, <1>7, <2>1
  <2>3. ASSUME NEW i \in 1..N PROVE ~t[i].error /\ t[i].row.seq = (k + 1) + (i - 0)
    <3>1. t[i] = c[i + 1] /\ i + 1 \in 1..N + 1 /\ ~(i + 1 <= n)
      BY <1>3, <2>1
    <3>2. ~c[i + 1].error /\ c[i + 1].row.seq = k + ((i + 1) - n)
      BY <1>6, <3>1
    <3>3. k + ((i + 1) - n) = (k + 1) + (i - 0)
      BY <2>1
    <3> QED BY <3>1, <3>2, <3>3
  <2>4. InLine(t, 0, k + 1)
    <3>1. \A i \in 1..N : ~(i <= 0)
      OBVIOUS
    <3> QED BY <1>3, <2>3, <3>1 DEF InLine
  <2>5. k + (N + 1 - n) + 1 = (k + 1) + (N - 0) + 1
    BY <2>1
  <2> QED BY <1>3, <1>5, <2>2, <2>4, <2>5 DEF LineOK
<1> QED
  BY <1>1, <1>2, <1>3, <1>8, <1>9

LEMMA TickKeeps ==
  ASSUME SessionInv, Tick
  PROVE  SessionInv' /\ NotesStay
<1>1. PICK k \in Nat : k = Len(shown)
  BY DEF SessionInv
<1>2. /\ chan \in Seq(Messages) /\ chan # <<>> /\ LineOK(src, chan, k) /\ Numbered(buf, k)
      /\ BufferOK(buf) /\ WithinLimits(buf)
  BY <1>1 DEF SessionInv, Tick
<1>3. PICK h \in Messages, t \in Seq(Messages) :
        /\ h = Head(chan) /\ t = Tail(chan)
        /\ h.error => LineOK(src, t, k)
        /\ ~h.error => h.row.seq = k + 1 /\ LineOK(src, t, k + 1)
        /\ \A i \in 1..Len(t) : i + 1 \in 1..Len(chan) /\ t[i] = chan[i + 1]
  BY <1>2, LineTail
<1>4. /\ UNCHANGED <<app, panel, tasks, src, fed>> /\ chan' = t
      /\ buf' = Drained(buf, h)
      /\ shown' = IF h.error THEN shown ELSE Append(shown, h.row.seq)
  BY <1>3 DEF Tick
<1>5. \A f : (\A i \in 1..Len(chan) : ~chan[i].error => OfFile(f, chan[i].row))
               => \A i \in 1..Len(t) : ~t[i].error => OfFile(f, t[i].row)
  BY <1>3
<1>6. CASE h.error
  <2>1. buf' = buf /\ shown' = shown
    BY <1>4, <1>6 DEF Drained
  <2>2. FileOK(src, t, buf)
    BY <1>5 DEF SessionInv, FileOK
  <2> QED BY <1>1, <1>3, <1>4, <1>6, <2>1, <2>2, BufferSame DEF SessionInv
<1>7. CASE ~h.error
  <2>1. PICK row \in Rows : h = RowMessage(row)
    BY <1>7 DEF Messages, ErrorMessage
  <2>2. h.row = row /\ row.seq = k + 1
    BY <1>3, <1>7, <2>1 DEF RowMessage
  <2>3. buf' = Push(buf, row) /\ shown' = Append(shown, row.seq)
    BY <1>4, <1>7, <2>2 DEF Drained
  <2>4. shown' \in Seq(Nat) /\ Len(shown') = k + 1
    BY <1>1, <2>2, <2>3 DEF SessionInv
  <2>5. /\ BufferOK(buf') /\ WithinLimits(buf') /\ buf'.retention = buf.retention
        /\ buf'.filter = buf.filter
    BY <1>2, <2>3, PushKeeps DEF Unchanging
  <2>6. /\ Numbered(buf', k + 1) /\ NotesFollow(buf, buf')
        /\ \A f : ((\A i \in 1..Len(buf.all) : OfFile(f, buf.all[i])) /\ OfFile(f, row))
                    => \A i \in 1..Len(buf'.all) : OfFile(f, buf'.all[i])
    BY <1>2, <2>2, <2>3, PushFacts
  <2>7. FileOK(src, t, buf')
    <3>1. h = chan[1] /\ 1 \in 1..Len(chan)
      BY <1>2, <1>3
    <3>2. (src.kind # "live" /\ NoDamage(src.kind)) => OfFile(src.kind, row)
      BY <1>7, <2>2, <3>1 DEF SessionInv, FileOK
    <3> QED BY <1>5, <2>6, <3>2 DEF SessionInv, FileOK
  <2>8. AppOK(app, buf')
    BY <2>5 DEF SessionInv, AppOK
  <2>9. NotesStay
    BY <2>5, <2>6, NotesFollowStay
  <2> QED BY <1>3, <1>4, <1>7, <2>4, <2>5, <2>6, <2>7, <2>8, <2>9 DEF SessionInv
<1> QED
  BY <1>6, <1>7

\* A step of the window that leaves the table, the source and the channel.
LEMMA WindowStep ==
  ASSUME SessionInv, UNCHANGED <<buf, src, chan, fed, shown>>,
         AppOK(app', buf), PanelOK(panel', tasks')
  PROVE  SessionInv' /\ NotesStay
  BY BufferSame DEF SessionInv

LEMMA TickEndsKeeps ==
  ASSUME SessionInv, TickEnds
  PROVE  SessionInv' /\ NotesStay
<1>1. UNCHANGED <<buf, app, panel, tasks, src, chan, fed, shown>>
  BY DEF TickEnds
<1> QED
  BY <1>1, WindowStep DEF SessionInv

\* Connecting fills a relay that never began, or leaves a notice: no row can
\* be ahead of it.
LEMMA ToggleCaptureKeeps ==
  ASSUME SessionInv, ToggleCapture
  PROVE  SessionInv' /\ NotesStay
<1>1. PICK s : s = SetCapturing(src, ~app.capturing)
  OBVIOUS
<1>2. /\ UNCHANGED <<buf, fed, shown, panel, tasks>>
      /\ app' = [app EXCEPT !.capturing = ~@]
      /\ \/ src' = s /\ UNCHANGED chan
         \/ /\ NeedsConnect(s)
            /\ \E started \in BOOLEAN : /\ src' = Connected(s, started)
                                        /\ chan' = ConnectReport(chan, started)
  BY <1>1 DEF ToggleCapture, KeepPanel
<1>3. AppOK(app', buf)
  BY <1>2 DEF SessionInv, AppOK, AppFields
<1>4. /\ SourceOK(s) /\ s.kind = src.kind /\ s.relay = src.relay /\ s.open = src.open
  BY <1>1 DEF SetCapturing, SessionInv, SourceOK, SourceFields
<1>5. AtRelay(s) = AtRelay(src)
  BY <1>4 DEF AtRelay
<1>6. LineOK(s, chan, Len(shown)) /\ FileOK(s, chan, buf)
  BY <1>4, <1>5 DEF SessionInv, LineOK, FileOK
<1>7. CASE src' = s /\ chan' = chan
  BY <1>2, <1>3, <1>4, <1>6, <1>7, BufferSame DEF SessionInv
<1>8. CASE NeedsConnect(s) /\ src' = Connected(s, TRUE) /\ chan' = ConnectReport(chan, TRUE)
  <2>1. chan' = chan /\ ~s.open
    BY <1>8 DEF ConnectReport, NeedsConnect
  <2>2. s.relay.pc = "none" /\ DOMAIN s = SourceFields /\ DOMAIN s.relay = {"pc", "at", "seq", "row"}
    BY <1>4, <2>1 DEF SourceOK
  <2>3. src' = [s EXCEPT !.open = TRUE, !.driver = s.flags,
                         !.relay = [s.relay EXCEPT !.pc = "loop"]]
    BY <1>8, <2>2 DEF Connected, SourceFields
  <2>4. /\ DOMAIN src' = SourceFields /\ DOMAIN src'.relay = {"pc", "at", "seq", "row"}
        /\ src'.kind = s.kind /\ src'.open /\ src'.relay.pc = "loop"
        /\ src'.relay.at = s.relay.at /\ src'.relay.seq = s.relay.seq
    BY <2>2, <2>3 DEF SourceFields
  <2>5. SourceOK(src')
    BY <1>4, <2>4 DEF SourceOK
  <2>6. AtRelay(src') = AtRelay(s)
    BY <2>2, <2>4 DEF AtRelay
  <2>7. LineOK(src', chan, Len(shown)) /\ FileOK(src', chan, buf)
    BY <1>6, <2>2, <2>4, <2>6 DEF LineOK, FileOK
  <2> QED BY <1>2, <1>3, <2>1, <2>5, <2>7, BufferSame DEF SessionInv
<1>9. CASE NeedsConnect(s) /\ src' = Connected(s, FALSE) /\ chan' = ConnectReport(chan, FALSE)
  <2>1. src' = s /\ chan' = Append(chan, ErrorMessage) /\ ~s.open /\ s.kind = "live"
    BY <1>9 DEF ConnectReport, Connected, NeedsConnect
  <2>2. s.relay.pc = "none" /\ s.relay.seq = 1
    BY <1>4, <2>1 DEF SourceOK
  <2>3. PICK N \in Nat, k \in Nat, c \in Seq(Messages) :
          N = Len(chan) /\ k = Len(shown) /\ c = chan
    BY DEF SessionInv
  <2>4. PICK e : InLine(c, e, k) /\ 1 = k + (N - e) + 1
    BY <1>6, <2>2, <2>3 DEF LineOK, AtRelay
  <2>5. PICK n \in 0..N : n = e
    BY <2>3, <2>4 DEF InLine
  <2>6. k = 0 /\ n = N
    BY <2>4, <2>5
  <2>7. PICK m \in Messages : m = ErrorMessage
    BY DEF Messages
  <2>8. /\ Append(c, m) \in Seq(Messages) /\ Len(Append(c, m)) = N + 1
        /\ Append(c, m)[N + 1] = m /\ \A i \in 1..N : Append(c, m)[i] = c[i]
    BY <2>3
  <2>9. m.error
    BY <2>7 DEF ErrorMessage
  <2>10. ASSUME NEW i \in 1..N + 1 PROVE Append(c, m)[i].error
    <3>1. CASE i \in 1..N
      BY <2>3, <2>4, <2>5, <2>6, <2>8, <3>1 DEF InLine
    <3>2. CASE i = N + 1
      BY <2>8, <2>9, <3>2
    <3>3. i \in 1..N \/ i = N + 1
      OBVIOUS
    <3> QED BY <3>1, <3>2, <3>3, Zenon
  <2>11. InLine(Append(c, m), N + 1, k)
    <3>1. \A i \in 1..N + 1 : i <= N + 1
      OBVIOUS
    <3> QED BY <2>8, <2>10, <3>1 DEF InLine
  <2>12. AtRelay(s) = k + ((N + 1) - (N + 1)) + 1
    BY <2>2, <2>6 DEF AtRelay
  <2>13. LineOK(src', chan', k)
    BY <2>1, <2>3, <2>7, <2>8, <2>11, <2>12 DEF LineOK
  <2>14. FileOK(src', chan', buf)
    BY <2>1 DEF FileOK
  <2> QED BY <1>2, <1>3, <1>4, <2>1, <2>3, <2>7, <2>8, <2>13, <2>14, BufferSame DEF SessionInv
<1>10. ASSUME NEW started \in BOOLEAN, NeedsConnect(s),
              src' = Connected(s, started), chan' = ConnectReport(chan, started)
       PROVE  SessionInv' /\ NotesStay
  BY <1>8, <1>9, <1>10
<1> QED
  BY <1>2, <1>7, <1>10

\* Handlers over the buffer.
LEMMA ToggleMonitorKeeps ==
  ASSUME SessionInv, ToggleMonitor
  PROVE  SessionInv' /\ NotesStay
<1>1. PICK monitor : buf' = SetToggles(buf, monitor)
                     /\ src' = IF src.kind = "live"
                               THEN [src EXCEPT !.flags = FlagsFrom(monitor)] ELSE src
  BY DEF ToggleMonitor
<1>2. UNCHANGED <<app, chan, fed, shown, panel, tasks>>
  BY DEF ToggleMonitor, KeepPanel
<1>3. /\ Unchanging(buf, buf') /\ Follows(buf, buf', 0) /\ buf'.filter = buf.filter
  BY <1>1, SetTogglesKeeps DEF SessionInv
<1>4. SourceOK(src') /\ src'.kind = src.kind /\ src'.relay = src.relay
  BY <1>1 DEF SessionInv, SourceOK, SourceFields
<1>5. AppOK(app', buf')
  BY <1>2, <1>3 DEF SessionInv, AppOK, Unchanging
<1> QED
  BY <1>2, <1>3, <1>4, <1>5, BufferStep DEF Unchanging, SessionInv

\* The source and the panel stay: the table and the window's state.
LEMMA TableStep ==
  ASSUME SessionInv, NEW d, Follows(buf, buf', d), BufferOK(buf'), WithinLimits(buf'),
         AppOK(app', buf'), KeepSource, KeepPanel
  PROVE  SessionInv' /\ NotesStay
  BY BufferStep DEF SessionInv, KeepSource, KeepPanel

LEMMA SetFilterKeeps ==
  ASSUME SessionInv, NEW rules, SetFilter(rules)
  PROVE  SessionInv' /\ NotesStay
<1>1. /\ buf' = SetRules(buf, rules) /\ KeepSource /\ KeepPanel
      /\ app' = [app EXCEPT !.advanced = AdvancedOn(rules), !.selected = 0]
  BY DEF SetFilter
<1>2. Unchanging(buf, buf') /\ Follows(buf, buf', 0) /\ buf'.filter = rules
  BY <1>1, SetRulesKeeps DEF SessionInv
<1>3. AppOK(app', buf')
  BY <1>1, <1>2 DEF SessionInv, AppOK, AppFields, Unchanging
<1> QED
  BY <1>1, <1>2, <1>3, TableStep DEF Unchanging

LEMMA FilterHandlersKeep ==
  ASSUME SessionInv, ApplyFilter \/ QuickFilter \/ ToggleAdvanced
  PROVE  SessionInv' /\ NotesStay
<1>1. \E rules : SetFilter(rules)
  BY DEF ApplyFilter, QuickFilter, ToggleAdvanced
<1> QED
  BY <1>1, SetFilterKeeps

LEMMA HighlightHandlersKeep ==
  ASSUME SessionInv, ApplyHighlight \/ AddHighlight
  PROVE  SessionInv' /\ NotesStay
<1>1. PICK rules : buf' = SetMarks(buf, rules)
  BY DEF ApplyHighlight, AddHighlight
<1>2. app' = app /\ KeepSource /\ KeepPanel
  BY DEF ApplyHighlight, AddHighlight
<1>3. Unchanging(buf, buf') /\ Follows(buf, buf', 0) /\ buf'.filter = buf.filter
  BY <1>1, SetMarksKeeps DEF SessionInv
<1>4. AppOK(app', buf')
  BY <1>2, <1>3 DEF SessionInv, AppOK, Unchanging
<1> QED
  BY <1>2, <1>3, <1>4, TableStep DEF Unchanging

LEMMA SearchKeeps ==
  ASSUME SessionInv, Search
  PROVE  SessionInv' /\ NotesStay
<1>1. PICK text \in Seq(Units) : buf' = SetSearch(buf, text)
  BY InputsAssumption DEF Search
<1>2. app' = [app EXCEPT !.selected = 0] /\ KeepSource /\ KeepPanel
  BY DEF Search
<1>3. Unchanging(buf, buf') /\ Follows(buf, buf', 0) /\ buf'.filter = buf.filter
  BY <1>1, SetSearchKeeps DEF SessionInv
<1>4. AppOK(app', buf')
  BY <1>2, <1>3 DEF SessionInv, AppOK, AppFields, Unchanging
<1> QED
  BY <1>2, <1>3, <1>4, TableStep DEF Unchanging

LEMMA NoRowsNoNotes ==
  ASSUME BufferOK(buf'), Len(buf'.all) = 0
  PROVE  NotesStay
<1>1. DOMAIN buf'.all = {}
  <2>1. buf'.all \in Seq(Rows)
    BY DEF BufferOK, BufferTyped
  <2> QED BY <2>1
<1> QED
  BY <1>1 DEF NotesStay

LEMMA ClearDisplayKeeps ==
  ASSUME SessionInv, ClearDisplay
  PROVE  SessionInv' /\ NotesStay
<1>1. /\ buf' = ClearRows(buf) /\ app' = [app EXCEPT !.selected = 0]
      /\ KeepSource /\ KeepPanel
  BY DEF ClearDisplay
<1>2. Unchanging(buf, buf') /\ Len(buf'.all) = 0 /\ buf'.filter = buf.filter
  BY <1>1, ClearRowsKeeps DEF SessionInv
<1>3. AppOK(app', buf')
  BY <1>1, <1>2 DEF SessionInv, AppOK, AppFields, Unchanging
<1>4. Carries(buf, buf', Len(buf.all))
  <2>1. Len(buf.all) \in Nat
    BY DEF SessionInv, BufferOK, BufferTyped
  <2> QED BY <1>2, <2>1 DEF Carries
<1>5. SessionInv'
  BY <1>1, <1>2, <1>3, <1>4, HandlerKeeps DEF Unchanging, SessionInv, KeepSource, KeepPanel
<1> QED
  BY <1>2, <1>5, NoRowsNoNotes DEF Unchanging

\* The bookmark of the row at a position, whose number no other row has.
LEMMA ToggleStep ==
  ASSUME SessionInv, NEW ix,
         buf' = ToggleNote(buf, ix), app' = app, KeepSource, KeepPanel
  PROVE  /\ SessionInv'
         /\ \A i \in DOMAIN buf.all, j \in DOMAIN buf'.all :
              (buf.all[i].seq = buf'.all[j].seq /\ buf.all[i].noted # buf'.all[j].noted)
                => ix \in DOMAIN buf.view /\ buf.view[ix] = i
<1> DEFINE At(i) == ix \in DOMAIN buf.view /\ buf.view[ix] = i
<1>2. PICK N \in Nat, k \in Nat : N = Len(buf.all) /\ k = Len(shown)
  BY DEF SessionInv, BufferOK, BufferTyped
<1>3. /\ Unchanging(buf, buf') /\ buf'.filter = buf.filter /\ Len(buf'.all) = N
      /\ \A i \in 1..N :
           /\ buf'.all[i].ev = buf.all[i].ev /\ buf'.all[i].seq = buf.all[i].seq
           /\ buf'.all[i].noted # buf.all[i].noted => At(i)
  BY <1>2, ToggleNoteKeeps DEF SessionInv
<1>4. AppOK(app', buf')
  BY <1>3 DEF SessionInv, AppOK, Unchanging
<1>5. Carries(buf, buf', 0)
  <2>1. \A i \in 1..N : 0 + i = i
    OBVIOUS
  <2> QED BY <1>2, <1>3, <2>1 DEF Carries
<1>6. SessionInv'
  BY <1>3, <1>4, <1>5, HandlerKeeps DEF Unchanging, SessionInv, KeepSource, KeepPanel
<1>7. \A i \in DOMAIN buf.all, j \in DOMAIN buf'.all :
        (buf.all[i].seq = buf'.all[j].seq /\ buf.all[i].noted # buf'.all[j].noted) => At(i)
  <2>1. DOMAIN buf.all = 1..N /\ DOMAIN buf'.all = 1..N
    BY <1>2, <1>3 DEF SessionInv, Unchanging, BufferOK, BufferTyped
  <2>2. ASSUME NEW i \in 1..N, NEW j \in 1..N, buf.all[i].seq = buf'.all[j].seq,
               buf.all[i].noted # buf'.all[j].noted
        PROVE  At(i)
    <3>1. buf.all[i].seq = (k - N) + i /\ buf.all[j].seq = (k - N) + j
      BY <1>2 DEF SessionInv, Numbered
    <3>2. (k - N) + i = (k - N) + j
      BY <1>3, <2>2, <3>1
    <3>3. i = j
      BY <3>2
    <3> QED BY <1>3, <2>2, <3>3
  <2> HIDE DEF At
  <2> QED BY <2>1, <2>2
<1> QED
  BY <1>6, <1>7

LEMMA BookmarkKeeps ==
  ASSUME SessionInv, Bookmark
  PROVE  SessionInv' /\ NotesStay
<1>1. buf' = ToggleNote(buf, app.selected) /\ app' = app /\ KeepSource /\ KeepPanel
  BY DEF Bookmark
<1> QED
  BY <1>1, ToggleStep DEF NotesStay, Selected

\* While no older row was dropped, the position the context menu keeps is that
\* of the row it was opened on; opening a file finds the menu closed.
MenuOK ==
  /\ ui \in DOMAIN Files => menu = NoMenu
  /\ menu # NoMenu =>
       /\ Len(buf.all) > 0
       /\ menu.first \in Nat /\ menu.first <= buf.all[1].seq
       /\ buf.all[1].seq = menu.first =>
            menu.ix \in DOMAIN buf.view /\ Visible(buf, menu.ix).seq = menu.seq

LEMMA MenuBookmarkKeeps ==
  ASSUME SessionInv, MenuOK, MenuBookmark
  PROVE  SessionInv' /\ NotesStay
<1>1. /\ buf' = ToggleNote(buf, menu.ix) /\ app' = app /\ KeepSource /\ KeepPanel
      /\ menu # NoMenu
  BY DEF MenuBookmark, FromMenu
<1>2. /\ SessionInv'
      /\ \A i \in DOMAIN buf.all, j \in DOMAIN buf'.all :
           (buf.all[i].seq = buf'.all[j].seq /\ buf.all[i].noted # buf'.all[j].noted)
             => menu.ix \in DOMAIN buf.view /\ buf.view[menu.ix] = i
  BY <1>1, ToggleStep
<1>3. ~Dropped => Visible(buf, menu.ix).seq = menu.seq
  BY <1>1 DEF MenuOK, Dropped
<1> QED
  BY <1>1, <1>2, <1>3 DEF NotesStay, Visible

LEMMA MenuStands ==
  ASSUME MenuOK, UNCHANGED <<buf, menu>>, ui' = ui \/ ui' \notin DOMAIN Files
  PROVE  MenuOK'
  BY DEF MenuOK, Visible

\* A cut drops the oldest rows, or nothing changes.
LEMMA TrimCases ==
  ASSUME NEW b, BufferOK(b)
  PROVE  \/ Trim(b) = b
         \/ \E d \in 1..Len(b.all) - 1 :
              /\ Len(Trim(b).all) = Len(b.all) - d
              /\ \A i \in 1..Len(b.all) - d : Trim(b).all[i] = b.all[d + i]
<1>1. CASE b.retention = Unbounded \/ b.all = <<>>
  BY <1>1 DEF Trim
<1>2. CASE ~(b.retention = Unbounded \/ b.all = <<>>)
  <2>1. PICK d \in 0..Len(b.all) - 1 : d = Surplus(b)
    BY <1>2, SurplusFound
  <2>2. Trim(b) = IF d = 0 \/ ~(Worthwhile(b, d) \/ HardOver(b)) THEN b ELSE Drain(b, d)
    BY <1>2, <2>1 DEF Trim
  <2>3. CASE Trim(b) # b
    <3>1. Len(b.all) \in Nat
      BY DEF BufferOK, BufferTyped
    <3>2. Trim(b) = Drain(b, d) /\ d \in 1..Len(b.all) - 1 /\ d \in 0..Len(b.all)
      BY <2>2, <2>3, <3>1
    <3> QED BY <3>2, DrainKeeps
  <2> QED BY <2>3
<1> QED
  BY <1>1, <1>2

\* A row that arrives moves no position, unless it makes older rows go.
LEMMA PushStays ==
  ASSUME NEW b, BufferOK(b), NEW k \in Nat, Numbered(b, k), Len(b.all) > 0,
         NEW row \in Rows, row.seq = k + 1
  PROVE  /\ Len(Push(b, row).all) > 0
         /\ Push(b, row).all[1].seq >= b.all[1].seq
         /\ Push(b, row).all[1].seq = b.all[1].seq =>
              \A ix \in DOMAIN b.view :
                /\ ix \in DOMAIN Push(b, row).view
                /\ Visible(Push(b, row), ix).seq = Visible(b, ix).seq
<1>1. PICK N \in Nat : N = Len(b.all) /\ N > 0
  BY DEF BufferOK, BufferTyped
<1>2. PICK c : c = Push(b, row)
  OBVIOUS
<1>3. PICK p : /\ BufferOK(p) /\ c = Trim(p) /\ p.view \in {b.view, Append(b.view, N + 1)}
               /\ Len(p.all) = N + 1 /\ \A i \in 1..N : p.all[i] = b.all[i]
               /\ p.all[N + 1].seq = k + 1
  BY <1>1, <1>2, PushKeeps
<1>4. Whole(b) /\ Ascends(b.view) /\ Among(b.view) = Shown(b)
  BY WholeIsOK DEF Whole
<1>5. PICK V \in Nat : V = Len(b.view) /\ DOMAIN b.view = 1..V
  BY <1>4 DEF Ascends
<1>6. \A ix \in 1..V : b.view[ix] \in 1..N
  BY <1>1, <1>4, <1>5 DEF Among, Shown
<1>7. \A ix \in 1..V : ix \in DOMAIN p.view /\ p.view[ix] = b.view[ix]
  <2>1. PICK v \in Seq(Nat) : v = b.view
    BY <1>4 DEF Ascends
  <2>2. PICK w \in Seq(Nat) : w = Append(v, N + 1)
    <3>1. PICK m \in Nat : m = N + 1
      OBVIOUS
    <3>2. Append(v, m) \in Seq(Nat)
      OBVIOUS
    <3> QED BY <3>1, <3>2
  <2>3. \A ix \in 1..V : ix \in DOMAIN w /\ w[ix] = v[ix]
    BY <1>5, <2>1, <2>2
  <2> QED BY <1>3, <1>5, <2>1, <2>2, <2>3
<1>8. CASE c = p
  <2>1. \A ix \in 1..V : Visible(p, ix).seq = Visible(b, ix).seq
    BY <1>3, <1>6, <1>7 DEF Visible
  <2>2. c.all[1].seq >= b.all[1].seq
    <3>1. 1 \in 1..N
      BY <1>1
    <3>2. c.all[1] = b.all[1]
      BY <1>3, <1>8, <3>1
    <3>3. b.all[1].seq = (k - N) + 1
      BY <1>1, <3>1 DEF Numbered
    <3> QED BY <3>2, <3>3
  <2> QED BY <1>1, <1>2, <1>3, <1>5, <1>7, <1>8, <2>1, <2>2
<1>9. CASE c # p
  <2>0. \E d \in 1..Len(p.all) - 1 :
          /\ Len(c.all) = Len(p.all) - d
          /\ \A i \in 1..Len(p.all) - d : c.all[i] = p.all[d + i]
    BY <1>3, <1>9, TrimCases
  <2>1. PICK d \in 1..N : /\ Len(c.all) = N + 1 - d
                          /\ \A i \in 1..N + 1 - d : c.all[i] = p.all[d + i]
    <3>1. Len(p.all) = N + 1 /\ (N + 1) - 1 = N
      BY <1>3
    <3> QED BY <2>0, <3>1
  <2>2. 1 \in 1..N + 1 - d /\ Len(c.all) > 0
    BY <1>1, <2>1
  <2>3. c.all[1] = p.all[d + 1]
    BY <2>1, <2>2
  <2>4. \A i \in 1..N + 1 : p.all[i].seq = (k - N) + i
    <3>1. \A i \in 1..N : p.all[i].seq = (k - N) + i
      BY <1>1, <1>3 DEF Numbered
    <3>2. p.all[N + 1].seq = (k - N) + (N + 1)
      BY <1>3
    <3> QED BY <3>1, <3>2
  <2>5. d + 1 \in 1..N + 1 /\ 1 \in 1..N
    BY <1>1
  <2>6. PICK e \in Nat : e = d + 1 /\ e > 1
    OBVIOUS
  <2>7. p.all[e].seq = (k - N) + e /\ b.all[1] = p.all[1] /\ p.all[1].seq = (k - N) + 1
    <3>1. 1 \in 1..N + 1 /\ e \in 1..N + 1
      BY <2>5, <2>6
    <3> QED BY <1>3, <2>4, <2>5, <3>1
  <2>8. c.all[1].seq = (k - N) + e /\ b.all[1].seq = (k - N) + 1
    BY <2>3, <2>6, <2>7
  <2>9. (k - N) + e > (k - N) + 1
    BY <2>6
  <2>10. c.all[1].seq >= b.all[1].seq
    BY <2>8, <2>9
  <2>11. c.all[1].seq # b.all[1].seq
    BY <2>8, <2>9
  <2> QED BY <1>2, <2>2, <2>10, <2>11
<1> QED
  BY <1>8, <1>9

\* The detail panel.
LEMMA ShowDetailKeeps ==
  ASSUME SessionInv, NEW ix, ShowDetail(ix)
  PROVE  AppOK(app', buf) /\ PanelOK(panel', tasks')
<1>1. PICK ev : ev = Visible(buf, ix).ev
  OBVIOUS
<1> DEFINE symbolize == ev.stack /\ app.config.dbghelp # None
<1>2. /\ panel' = [open |-> TRUE, ev |-> ev, gen |-> panel.gen + 1, symbols |-> NoEvent]
      /\ tasks' = IF symbolize THEN tasks \union {[gen |-> panel.gen + 1, ev |-> ev]} ELSE tasks
      /\ app' = [app EXCEPT !.selected = ix,
                            !.symbols = IF symbolize /\ @ = None
                                        THEN app.config.dbghelp ELSE @]
  BY <1>1 DEF ShowDetail
<1>3. AppOK(app', buf)
  <2>1. DOMAIN app = AppFields
    BY DEF SessionInv, AppOK
  <2> DEFINE symbols == IF symbolize /\ app.symbols = None THEN app.config.dbghelp ELSE app.symbols
  <2>2. app' = [app EXCEPT !.selected = ix, !.symbols = symbols]
    BY <1>2, <2>1 DEF AppFields
  <2>3. symbols \in {None, app.config.dbghelp}
    BY DEF SessionInv, AppOK
  <2> HIDE DEF symbols
  <2>4. /\ DOMAIN app' = AppFields /\ app'.config = app.config /\ app'.symbols = symbols
        /\ app'.offline = app.offline /\ app'.advanced = app.advanced
    BY <2>1, <2>2 DEF AppFields
  <2> QED BY <2>3, <2>4 DEF SessionInv, AppOK
<1>4. PanelOK(panel', tasks')
  <2>1. PICK g \in Nat : g = panel.gen
    BY DEF SessionInv, PanelOK
  <2>2. \A t \in tasks : t.gen \in Nat /\ t.gen <= g
    BY <2>1 DEF SessionInv, PanelOK
  <2>3. panel'.gen = g + 1 /\ panel'.ev = ev /\ panel'.symbols = NoEvent
        /\ DOMAIN panel' = {"open", "ev", "gen", "symbols"}
    BY <1>2, <2>1
  <2>4. ASSUME NEW t \in tasks'
        PROVE  t.gen \in Nat /\ t.gen <= g + 1 /\ (t.gen = g + 1 => t.ev = ev)
    <3>1. CASE t \in tasks
      BY <2>2, <3>1
    <3>2. CASE t = [gen |-> g + 1, ev |-> ev]
      BY <3>2
    <3> HIDE DEF symbolize
    <3> QED BY <1>2, <2>1, <2>4, <3>1, <3>2
  <2> QED BY <2>3, <2>4 DEF PanelOK
<1> QED
  BY <1>3, <1>4

LEMMA SelectHandlersKeep ==
  ASSUME SessionInv, SelectRow \/ HighlightRow
  PROVE  SessionInv' /\ NotesStay
<1>1. UNCHANGED <<buf, src, chan, fed, shown>>
  BY DEF SelectRow, HighlightRow, KeepSource
<1>2. AppOK(app', buf) /\ PanelOK(panel', tasks')
  <2>1. CASE \E ix : ShowDetail(ix)
    BY <2>1, ShowDetailKeeps
  <2>2. CASE \E ix : app' = [app EXCEPT !.selected = ix] /\ KeepPanel
    BY <2>2 DEF SessionInv, AppOK, AppFields, KeepPanel
  <2> QED BY <2>1, <2>2 DEF SelectRow, HighlightRow
<1> QED
  BY <1>1, <1>2, WindowStep

LEMMA CloseDetailKeeps ==
  ASSUME SessionInv, CloseDetail
  PROVE  SessionInv' /\ NotesStay
<1>1. /\ UNCHANGED <<buf, src, chan, fed, shown, app, tasks>>
      /\ panel' = [panel EXCEPT !.open = FALSE]
  BY DEF CloseDetail, KeepSource
<1>2. PanelOK(panel', tasks')
  BY <1>1 DEF SessionInv, PanelOK
<1> QED
  BY <1>1, <1>2, WindowStep DEF SessionInv

\* An answer is taken when it is of the generation shown, and then it is of
\* the event shown.
LEMMA SymbolizedKeeps ==
  ASSUME SessionInv, Symbolized
  PROVE  SessionInv' /\ NotesStay
<1>1. UNCHANGED <<buf, src, chan, fed, shown, app>>
  BY DEF Symbolized, KeepSource
<1>2. PICK t \in tasks, found \in BOOLEAN :
        /\ panel' = IF found THEN ApplySymbols(t) ELSE panel
        /\ tasks' = tasks \ {t}
  BY DEF Symbolized
<1>3. panel' = panel \/ (t.gen = panel.gen /\ panel' = [panel EXCEPT !.symbols = t.ev])
  BY <1>2 DEF ApplySymbols
<1>4. PanelOK(panel, tasks')
  BY <1>2 DEF SessionInv, PanelOK
<1>5. ASSUME t.gen = panel.gen, panel' = [panel EXCEPT !.symbols = t.ev]
      PROVE  PanelOK(panel', tasks')
  <2>1. t.ev = panel.ev
    BY <1>5 DEF SessionInv, PanelOK
  <2> QED BY <1>4, <1>5, <2>1 DEF PanelOK
<1>6. PanelOK(panel', tasks')
  BY <1>3, <1>4, <1>5
<1> QED
  BY <1>1, <1>6, WindowStep DEF SessionInv

\* Configurations: what is in force has limits that are numbers.
LEMMA SanitizedTyped ==
  ASSUME NEW c \in Configs \union {FirstConfig}
  PROVE  ConfigTyped(Sanitized(c)) /\ ConfigTyped(Resolved(Sanitized(c)))
<1>1. /\ DOMAIN c = {"boot", "ring", "max", "age", "dbghelp", "image"}
      /\ c.max \in Int /\ c.age \in Int
  BY ConfigAssumption
<1>2. PICK s : s = Sanitized(c)
  OBVIOUS
<1>3. ConfigTyped(s)
  BY <1>1, <1>2 DEF Sanitized, ConfigTyped
<1>4. ConfigTyped(Resolved(s))
  BY <1>3 DEF Resolved, ConfigTyped
<1> QED
  BY <1>2, <1>3, <1>4

LEMMA RetentionLimits ==
  ASSUME NEW c, ConfigTyped(c), NEW offline
  PROVE  Limits(RetentionOf(c, offline))
<1>1. CASE ~offline /\ c.ring
  <2>1. RetentionOf(c, offline) = [max |-> c.max, age |-> c.age]
    BY <1>1 DEF RetentionOf
  <2>2. c.max \in Nat /\ c.age \in Nat
    BY DEF ConfigTyped
  <2> QED BY <2>1, <2>2 DEF Limits
<1>2. CASE ~(~offline /\ c.ring)
  BY <1>2 DEF RetentionOf, Limits
<1> QED
  BY <1>1, <1>2

LEMMA SettingsHandlersKeep ==
  ASSUME SessionInv, ApplySettings \/ ImportSettings
  PROVE  SessionInv' /\ NotesStay
<1>1. PICK config, image : TakeConfig(config, image) /\ ConfigTyped(config)
  BY SanitizedTyped DEF ApplySettings, ImportSettings
<1>2. /\ app' = [app EXCEPT !.config = config, !.image = image, !.symbols = None]
      /\ buf' = SetRetention(buf, RetentionOf(config, app.offline))
      /\ KeepSource /\ KeepPanel
  BY <1>1 DEF TakeConfig
<1>3. Limits(RetentionOf(config, app.offline))
  BY <1>1, RetentionLimits
<1>4. /\ BufferOK(buf') /\ WithinLimits(buf') /\ SameGates(buf, buf')
      /\ buf'.retention = RetentionOf(config, app.offline)
      /\ \E d : Follows(buf, buf', d)
  BY <1>2, <1>3, SetRetentionKeeps DEF SessionInv
<1>5. /\ DOMAIN app' = AppFields /\ app'.config = config /\ app'.symbols = None
      /\ app'.offline = app.offline /\ app'.advanced = app.advanced
  BY <1>2 DEF SessionInv, AppOK, AppFields
<1>6. AppOK(app', buf')
  BY <1>1, <1>4, <1>5 DEF SessionInv, AppOK, SameGates
<1> QED
  BY <1>2, <1>4, <1>6, TableStep

\* Stopping a source is a flag; what it feeds stays until it is joined.
LEMMA StopKeeps ==
  ASSUME SessionInv, NEW next, StopSource(next)
  PROVE  SessionInv' /\ NotesStay
<1>1. /\ UNCHANGED <<buf, app, chan, fed, shown, panel, tasks>>
      /\ src' = [src EXCEPT !.stop = TRUE]
  BY DEF StopSource, KeepPanel
<1>2. SourceOK(src') /\ src'.kind = src.kind /\ src'.relay = src.relay
  BY <1>1 DEF SessionInv, SourceOK, SourceFields
<1>3. Follows(buf, buf', 0)
  BY <1>1, FollowsSame DEF SessionInv, BufferOK, BufferTyped
<1> QED
  BY <1>1, <1>2, <1>3, BufferStep DEF SessionInv

LEMMA ClosedKeeps ==
  ASSUME SessionInv, Closed
  PROVE  SessionInv' /\ NotesStay
<1>1. UNCHANGED <<buf, app, panel, tasks, src, chan, fed, shown>>
  BY DEF Closed
<1> QED
  BY <1>1, WindowStep DEF SessionInv

\* A source that has produced nothing, with a notice in the channel or none.
LEMMA FreshLine ==
  ASSUME NEW s, s.relay.pc \in {"none", "loop"}, s.relay.seq = 1, NEW started
  PROVE  /\ ConnectReport(<<>>, started) \in Seq(Messages)
         /\ LineOK(s, ConnectReport(<<>>, started), 0)
         /\ \A i \in 1..Len(ConnectReport(<<>>, started)) : ConnectReport(<<>>, started)[i].error
<1>1. PICK m \in Messages : m = ErrorMessage /\ m.error
  <2>1. ErrorMessage \in Messages
    BY DEF Messages
  <2>2. ErrorMessage.error
    BY DEF ErrorMessage
  <2> QED BY <2>1, <2>2
<1>2. AtRelay(s) = 1
  BY DEF AtRelay
<1>3. PICK c \in Seq(Messages) : c = ConnectReport(<<>>, started)
  <2>1. <<>> \in Seq(Messages) /\ Append(<<>>, m) \in Seq(Messages)
    OBVIOUS
  <2> QED BY <1>1, <2>1 DEF ConnectReport
<1>4. c = <<>> \/ c = <<m>>
  BY <1>1, <1>3 DEF ConnectReport
<1>5. Len(c) \in {0, 1} /\ \A i \in 1..Len(c) : c[i].error
  <2>1. CASE c = <<>>
    BY <2>1
  <2>2. CASE c = <<m>>
    <3>1. Len(c) = 1 /\ c[1] = m /\ 1..1 = {1}
      BY <2>2
    <3> QED BY <1>1, <3>1
  <2> QED BY <1>4, <2>1, <2>2
<1>6. InLine(c, Len(c), 0)
  <2>1. Len(c) \in 0..Len(c) /\ \A i \in 1..Len(c) : i <= Len(c)
    OBVIOUS
  <2> QED BY <1>5, <2>1 DEF InLine
<1>7. LineOK(s, c, 0)
  <2>1. 0 + (Len(c) - Len(c)) + 1 = 1
    OBVIOUS
  <2> QED BY <1>2, <1>6, <2>1 DEF LineOK
<1> QED
  BY <1>3, <1>5, <1>7

LEMMA ShowFileKeeps ==
  ASSUME SessionInv, ShowFile
  PROVE  SessionInv' /\ NotesStay
<1>1. PICK s : s = Opened(PmlSource(ui))
  OBVIOUS
<1>2. /\ ui \in DOMAIN Files
      /\ src' = s /\ chan' = ConnectReport(<<>>, s.open)
      /\ app' = [app EXCEPT !.selected = 0, !.offline = TRUE]
      /\ buf' = SetRetention(ClearRows(buf), RetentionOf(app.config, TRUE))
      /\ shown' = <<>> /\ UNCHANGED <<fed, panel, tasks>>
  BY <1>1 DEF ShowFile, KeepPanel
<1>3. /\ DOMAIN s = SourceFields /\ DOMAIN s.relay = {"pc", "at", "seq", "row"}
      /\ s.kind = ui /\ s.relay.pc \in {"none", "loop"} /\ s.relay.seq = 1 /\ s.relay.at = 1
      /\ s.open \/ s.relay.pc = "none"
  <2>1. CASE Files[ui].ok
    <3>1. s = [kind |-> ui, open |-> TRUE, capturing |-> FALSE, stop |-> FALSE,
               flags |-> FlagsFrom(DefaultToggles), driver |-> {},
               relay |-> [pc |-> "loop", at |-> 1, seq |-> 1, row |-> NoRow]]
      BY <1>1, <2>1 DEF Opened, PmlSource, SdkSource, IdleRelay
    <3> QED BY <3>1 DEF SourceFields
  <2>2. CASE ~Files[ui].ok
    <3>1. s = [kind |-> ui, open |-> FALSE, capturing |-> FALSE, stop |-> FALSE,
               flags |-> FlagsFrom(DefaultToggles), driver |-> {}, relay |-> IdleRelay]
      BY <1>1, <2>2 DEF Opened, PmlSource, SdkSource
    <3> QED BY <3>1 DEF SourceFields, IdleRelay
  <2> QED BY <2>1, <2>2
<1>4. SourceOK(src')
  BY <1>2, <1>3 DEF SourceOK
<1>5. /\ chan' \in Seq(Messages) /\ LineOK(src', chan', 0)
      /\ \A i \in 1..Len(chan') : chan'[i].error
  BY <1>2, <1>3, FreshLine
<1>6. /\ Unchanging(buf, ClearRows(buf)) /\ ClearRows(buf).filter = buf.filter
      /\ Len(ClearRows(buf).all) = 0
  BY ClearRowsKeeps DEF SessionInv
<1>7. Limits(RetentionOf(app.config, TRUE))
  BY RetentionLimits DEF SessionInv, AppOK
<1>8. /\ BufferOK(buf') /\ WithinLimits(buf') /\ SameGates(ClearRows(buf), buf')
      /\ buf'.retention = RetentionOf(app.config, TRUE)
      /\ \E d : Follows(ClearRows(buf), buf', d)
  BY <1>2, <1>6, <1>7, SetRetentionKeeps DEF Unchanging
<1>9. Len(buf'.all) = 0 /\ buf'.filter = buf.filter
  <2>1. PICK d : Follows(ClearRows(buf), buf', d)
    BY <1>8
  <2>2. d \in 0..0 /\ Len(buf'.all) = 0 - d
    BY <1>6, <2>1 DEF Follows
  <2>3. d = 0 /\ 0 - 0 = 0
    BY <2>2
  <2>4. Len(buf'.all) = 0
    BY <2>2, <2>3
  <2> QED BY <1>6, <1>8, <2>4 DEF SameGates
<1>10. /\ DOMAIN app' = AppFields /\ app'.config = app.config /\ app'.symbols = app.symbols
       /\ app'.offline = TRUE /\ app'.advanced = app.advanced
  BY <1>2 DEF SessionInv, AppOK, AppFields
<1>11. AppOK(app', buf')
  BY <1>8, <1>9, <1>10 DEF SessionInv, AppOK
<1>12. shown' \in Seq(Nat) /\ Len(shown') = 0
  <2>1. <<>> \in Seq(Nat) /\ Len(<<>>) = 0
    OBVIOUS
  <2> QED BY <1>2, <2>1
<1>13. Numbered(buf', 0) /\ FileOK(src', chan', buf')
  <2>1. Numbered(buf', 0)
    BY <1>9 DEF Numbered
  <2>2. src'.relay.pc # "send" /\ src'.relay.at = src'.relay.seq
    BY <1>2, <1>3
  <2> QED BY <1>5, <1>9, <2>1, <2>2 DEF FileOK
<1>14. NotesStay
  BY <1>8, <1>9, NoRowsNoNotes
<1> QED
  BY <1>2, <1>4, <1>5, <1>8, <1>11, <1>12, <1>13, <1>14 DEF SessionInv

\* The default rules hide what the normal view hides.
LEMMA DefaultsHeld ==
  /\ SetAdvanced(<<>>, FALSE) = DefaultRules
  /\ AdvancedOn(DefaultRules) = FALSE
<1>1. \A set : Retained(<<>>, set) = <<>>
  <2> SUFFICES ASSUME NEW set PROVE Retained(<<>>, set) = <<>>
    OBVIOUS
  <2>1. <<>> \in Seq(Nat)
    OBVIOUS
  <2>2. PICK e \in Seq(Nat) : e = <<>>
    BY <2>1
  <2>3. Len(e) = 0
    BY <2>2
  <2>4. PICK g : RetainedSteps(e, set, g)
    BY <2>2, RetainedUnrolled
  <2>5. Retained(e, set) = <<>>
    BY <2>3, <2>4 DEF RetainedSteps
  <2> QED BY <2>2, <2>5
<1>2. <<>> \o DefaultRules = DefaultRules
  BY RulesAssumption
<1>3. SetAdvanced(<<>>, FALSE) = DefaultRules
  BY <1>1, <1>2 DEF SetAdvanced
<1>4. AdvancedOn(DefaultRules) = FALSE
  BY DEF AdvancedOn, Holds, Same
<1> QED
  BY <1>3, <1>4

LEMMA SessionStarts ==
  ASSUME Init
  PROVE  SessionInv
<1>1. PICK config : config = Resolved(Sanitized(FirstConfig))
  OBVIOUS
<1>2. ConfigTyped(config)
  BY <1>1, SanitizedTyped
<1>3. /\ app = [capturing |-> config.boot, selected |-> 0, advanced |-> FALSE,
                offline |-> FALSE, config |-> config, image |-> config.image, symbols |-> None]
      /\ buf = SetRetention(SetRules(NewBuffer, DefaultRules), RetentionOf(config, FALSE))
      /\ panel = [open |-> FALSE, ev |-> NoEvent, gen |-> 0, symbols |-> NoEvent]
      /\ tasks = {} /\ fed = 0 /\ shown = <<>>
      /\ LET s == SetCapturing(SdkSource, config.boot)
         IN \/ src = s /\ chan = <<>>
            \/ /\ NeedsConnect(s)
               /\ \E started \in BOOLEAN : src = Connected(s, started)
                                           /\ chan = ConnectReport(<<>>, started)
  BY <1>1, DefaultsHeld DEF Init
<1>4. PICK b : b = SetRules(NewBuffer, DefaultRules)
  OBVIOUS
<1>5. /\ BufferOK(b) /\ WithinLimits(b) /\ b.filter = DefaultRules /\ Len(b.all) = 0
  BY <1>4, NewBufferOK, SetRulesKeeps DEF Unchanging, Follows
<1>6. /\ BufferOK(buf) /\ WithinLimits(buf) /\ SameGates(b, buf)
      /\ buf.retention = RetentionOf(config, FALSE)
      /\ \E d : Follows(b, buf, d)
  BY <1>2, <1>3, <1>4, <1>5, RetentionLimits, SetRetentionKeeps
<1>7. Len(buf.all) = 0 /\ buf.filter = DefaultRules
  BY <1>5, <1>6 DEF Follows, SameGates
<1>8. AppOK(app, buf)
  BY <1>2, <1>3, <1>6, <1>7, DefaultsHeld DEF AppOK, AppFields
<1>9. PanelOK(panel, tasks)
  BY <1>3 DEF PanelOK
<1>10. PICK s : s = SetCapturing(SdkSource, config.boot)
  OBVIOUS
<1>11. s = [kind |-> "live", open |-> FALSE, capturing |-> config.boot, stop |-> FALSE,
            flags |-> FlagsFrom(DefaultToggles), driver |-> {}, relay |-> IdleRelay]
  BY <1>10 DEF SetCapturing, SdkSource
<1>12. PICK started :
         /\ chan = ConnectReport(<<>>, started)
         /\ src = s \/ src = Connected(s, TRUE)
  <2>1. CASE src = s /\ chan = <<>>
    BY <2>1 DEF ConnectReport
  <2>2. CASE \E started \in BOOLEAN : src = Connected(s, started)
                                      /\ chan = ConnectReport(<<>>, started)
    BY <2>2 DEF Connected
  <2> QED BY <1>3, <1>10, <2>1, <2>2
<1>13. /\ DOMAIN src = SourceFields /\ DOMAIN src.relay = {"pc", "at", "seq", "row"}
       /\ src.kind = "live" /\ src.relay.pc \in {"none", "loop"} /\ src.relay.seq = 1
       /\ src.relay.at = 1
       /\ src.open \/ src.relay.pc = "none"
  <2>1. CASE src = s
    BY <1>11, <2>1 DEF SourceFields, IdleRelay
  <2>2. CASE src = Connected(s, TRUE)
    <3>1. src = [kind |-> "live", open |-> TRUE, capturing |-> config.boot, stop |-> FALSE,
                 flags |-> FlagsFrom(DefaultToggles), driver |-> FlagsFrom(DefaultToggles),
                 relay |-> [pc |-> "loop", at |-> 1, seq |-> 1, row |-> NoRow]]
      BY <1>11, <2>2 DEF Connected, IdleRelay
    <3> QED BY <3>1 DEF SourceFields
  <2> QED BY <1>12, <2>1, <2>2
<1>14. SourceOK(src)
  BY <1>13 DEF SourceOK
<1>15. chan \in Seq(Messages) /\ LineOK(src, chan, 0)
  BY <1>12, <1>13, FreshLine
<1>16. shown \in Seq(Nat) /\ Len(shown) = 0
  <2>1. <<>> \in Seq(Nat) /\ Len(<<>>) = 0
    OBVIOUS
  <2> QED BY <1>3, <2>1
<1>17. Numbered(buf, 0) /\ FileOK(src, chan, buf)
  BY <1>7, <1>13 DEF Numbered, FileOK
<1> QED
  BY <1>3, <1>6, <1>8, <1>9, <1>14, <1>15, <1>16, <1>17 DEF SessionInv

LEMMA MenuTick ==
  ASSUME SessionInv, MenuOK, Tick
  PROVE  MenuOK'
<1>1. PICK k \in Nat : k = Len(shown)
  BY DEF SessionInv
<1>2. /\ chan \in Seq(Messages) /\ chan # <<>> /\ LineOK(src, chan, k) /\ Numbered(buf, k)
      /\ BufferOK(buf)
  BY <1>1 DEF SessionInv, Tick
<1>3. PICK h \in Messages : h = Head(chan) /\ (~h.error => h.row.seq = k + 1)
  BY <1>2, LineTail
<1>4. buf' = Drained(buf, h) /\ UNCHANGED <<menu, ui>>
  BY <1>3 DEF Tick
<1>5. CASE h.error
  BY <1>4, <1>5, MenuStands DEF Drained
<1>6. CASE menu = NoMenu
  BY <1>4, <1>6 DEF MenuOK
<1>7. CASE ~h.error /\ menu # NoMenu
  <2>1. PICK row \in Rows : h = RowMessage(row)
    BY <1>7 DEF Messages, ErrorMessage
  <2>2. h.row = row /\ row.seq = k + 1
    BY <1>3, <1>7, <2>1 DEF RowMessage
  <2>3. buf' = Push(buf, row)
    BY <1>4, <1>7, <2>2 DEF Drained
  <2>4. Len(buf.all) > 0
    BY <1>7 DEF MenuOK
  <2>5. /\ Len(buf'.all) > 0 /\ buf'.all[1].seq >= buf.all[1].seq
        /\ buf'.all[1].seq = buf.all[1].seq =>
             \A ix \in DOMAIN buf.view :
               ix \in DOMAIN buf'.view /\ Visible(buf', ix).seq = Visible(buf, ix).seq
    BY <1>2, <2>2, <2>3, <2>4, PushStays
  <2>6. buf.all[1].seq \in Nat /\ buf'.all[1].seq \in Nat
    <3>1. buf.all \in Seq(Rows) /\ buf'.all \in Seq(Rows)
      BY <1>2, <2>3, PushKeeps DEF Unchanging, BufferOK, BufferTyped
    <3>2. buf.all[1] \in Rows /\ buf'.all[1] \in Rows
      BY <2>4, <2>5, <3>1
    <3> QED BY <3>2 DEF Rows
  <2>7. menu.first \in Nat /\ menu.first <= buf.all[1].seq
    BY <1>7 DEF MenuOK
  <2>8. /\ menu.first <= buf'.all[1].seq
        /\ buf'.all[1].seq = menu.first =>
             buf.all[1].seq = menu.first /\ buf'.all[1].seq = buf.all[1].seq
    BY <2>5, <2>6, <2>7
  <2> QED BY <1>4, <1>7, <2>5, <2>7, <2>8 DEF MenuOK
<1> QED
  BY <1>5, <1>6, <1>7

\* Handlers close the menu, rows that arrive leave it to its position.
LEMMA MenuSteps ==
  ASSUME SessionInv, MenuOK, Next
  PROVE  MenuOK'
<1>1. CASE User
  BY <1>1 DEF User, MenuOK
<1>2. CASE OpenMenu
  <2>1. PICK ix \in DOMAIN buf.view :
          menu' = [ix |-> ix, ev |-> Visible(buf, ix).ev, seq |-> Visible(buf, ix).seq,
                   first |-> buf.all[1].seq]
    BY <1>2 DEF OpenMenu
  <2>2. buf' = buf /\ ui' = ui /\ ui = "run"
    BY <1>2 DEF OpenMenu, KeepSource, Idle
  <2>3. Whole(buf)
    BY WholeIsOK DEF SessionInv
  <2>4. buf.view[ix] \in 1..Len(buf.all) /\ buf.all \in Seq(Rows)
    <3>1. buf.view[ix] \in Among(buf.view)
      BY <2>3 DEF Whole, Ascends, Among
    <3> QED BY <2>3, <3>1 DEF Whole, BufferTyped, Shown
  <2>5. Len(buf.all) > 0
    BY <2>4
  <2>6. buf.all[1].seq \in Nat
    <3>1. buf.all[1] \in Rows
      BY <2>4, <2>5
    <3> QED BY <3>1 DEF Rows
  <2>7. menu'.first = buf.all[1].seq /\ menu'.ix = ix /\ menu'.seq = Visible(buf, ix).seq
    BY <2>1
  <2>8. ui' \notin DOMAIN Files
    BY <2>2, InputsAssumption
  <2>9. menu'.first \in Nat /\ menu'.first <= buf.all[1].seq
    BY <2>6, <2>7
  <2> QED BY <2>2, <2>5, <2>7, <2>8, <2>9 DEF MenuOK
<1>3. CASE Relay \/ TickEnds \/ Symbolized
  <2>1. UNCHANGED <<buf, menu, ui>>
    BY <1>3 DEF Relay, RelayLive, RelayLost, RelayFile, RelaySend, TickEnds, Symbolized,
                KeepSource
  <2> QED BY <2>1, MenuStands
<1>4. CASE Shutdown \/ Closed
  <2>1. UNCHANGED <<buf, menu>> /\ ui' \in {"quit", "closed"}
    BY <1>4 DEF Shutdown, StopSource, Closed
  <2> QED BY <2>1, InputsAssumption, MenuStands
<1>5. CASE ShowFile
  BY <1>5 DEF ShowFile, MenuOK
<1>6. CASE Tick
  BY <1>6, MenuTick
<1> QED
  BY <1>1, <1>2, <1>3, <1>4, <1>5, <1>6
  DEF Next, ToggleCapture, ToggleMonitor, ApplyFilter, QuickFilter, ToggleAdvanced,
      ApplyHighlight, AddHighlight, Search, ClearDisplay, Bookmark, MenuBookmark, FromMenu,
      SelectRow, HighlightRow, CloseDetail, ApplySettings, ImportSettings, OpenPml

LEMMA SessionSteps ==
  ASSUME SessionInv, MenuOK, Next
  PROVE  SessionInv' /\ NotesStay
<1>1. CASE Relay
  BY <1>1, RelayLiveKeeps, RelayLostKeeps, RelayFileKeeps, RelaySendKeeps DEF Relay
<1>2. CASE Tick \/ TickEnds
  BY <1>2, TickKeeps, TickEndsKeeps
<1>3. CASE ToggleCapture \/ ToggleMonitor
  BY <1>3, ToggleCaptureKeeps, ToggleMonitorKeeps
<1>4. CASE ApplyFilter \/ QuickFilter \/ ToggleAdvanced
  BY <1>4, FilterHandlersKeep
<1>5. CASE ApplyHighlight \/ AddHighlight
  BY <1>5, HighlightHandlersKeep
<1>6. CASE Search \/ ClearDisplay \/ Bookmark \/ MenuBookmark
  BY <1>6, SearchKeeps, ClearDisplayKeeps, BookmarkKeeps, MenuBookmarkKeeps
<1>11. CASE OpenMenu
  <2>1. UNCHANGED <<buf, app, panel, tasks, src, chan, fed, shown>>
    BY <1>11 DEF OpenMenu, KeepSource, KeepPanel
  <2> QED BY <2>1, WindowStep DEF SessionInv
<1>7. CASE SelectRow \/ HighlightRow \/ CloseDetail \/ Symbolized
  BY <1>7, SelectHandlersKeep, CloseDetailKeeps, SymbolizedKeeps
<1>8. CASE ApplySettings \/ ImportSettings
  BY <1>8, SettingsHandlersKeep
<1>9. CASE OpenPml \/ Shutdown
  BY <1>9, StopKeeps DEF OpenPml, Shutdown
<1>10. CASE ShowFile \/ Closed
  BY <1>10, ShowFileKeeps, ClosedKeeps
<1> QED
  BY <1>1, <1>2, <1>3, <1>4, <1>5, <1>6, <1>7, <1>8, <1>9, <1>10, <1>11 DEF Next

\* What a save names is a list of positions of the table.
LEMMA SavedFacts ==
  ASSUME NEW b, BufferOK(b), NEW scope \in Scopes, NEW profiling
  PROVE  /\ Ascends(SavedPositions(b, scope, profiling))
         /\ Among(SavedPositions(b, scope, profiling)) \subseteq 1..Len(b.all)
<1>1. PICK N \in Nat : N = Len(b.all)
  BY DEF BufferOK, BufferTyped
<1>2. DOMAIN b.all = 1..N /\ Whole(b)
  BY <1>1, WholeIsOK DEF BufferOK, BufferTyped
<1>a. Positions(b) = [i \in 1..N |-> i]
  BY <1>2 DEF Positions
<1>b. [i \in 1..N |-> i] \in Seq(Nat)
  BY <1>1
<1>3. PICK p \in Seq(Nat) : p = Positions(b)
  BY <1>a, <1>b
<1>4. Len(p) = N /\ \A i \in 1..N : p[i] = i
  BY <1>1, <1>a, <1>3
<1>5. Ascends(p) /\ Among(p) = 1..N
  BY <1>4 DEF Ascends, Among
<1>6. CASE scope = "all"
  BY <1>1, <1>3, <1>5, <1>6 DEF SavedPositions
<1>7. CASE scope = "filtered"
  <2> DEFINE S == {i \in DOMAIN b.all : profiling \/ b.all[i].ev.category # "profiling"}
  <2>1. SavedPositions(b, scope, profiling) = Retained(b.view, S)
    BY <1>7 DEF SavedPositions
  <2>2. Ascends(b.view) /\ Among(b.view) \subseteq 1..N
    BY <1>1, <1>2 DEF Whole, Shown
  <2>3. b.view \in Seq(Nat)
    BY <2>2 DEF Ascends
  <2> HIDE DEF S
  <2>4. /\ Among(Retained(b.view, S)) = Among(b.view) \intersect S
        /\ Ascends(Retained(b.view, S))
    BY <2>2, <2>3, RetainedFacts
  <2> QED BY <1>1, <2>1, <2>2, <2>4
<1>8. CASE scope = "highlighted"
  <2> DEFINE S == {i \in DOMAIN b.all : b.all[i].marked}
  <2>1. SavedPositions(b, scope, profiling) = Retained(p, S)
    BY <1>3, <1>8 DEF SavedPositions, Highlighted
  <2> HIDE DEF S
  <2>2. /\ Among(Retained(p, S)) = Among(p) \intersect S
        /\ Ascends(Retained(p, S))
    BY <1>5, RetainedFacts
  <2> QED BY <1>1, <1>5, <2>1, <2>2
<1> QED
  BY <1>6, <1>7, <1>8 DEF Scopes

\* The numbers of the rows named are the events of the file a save keeps, in
\* the same order.
LEMMA SavedAreShown ==
  ASSUME SessionInv
  PROVE  SavesWhatIsShown
<1> SUFFICES ASSUME src.kind # "live", NoDamage(src.kind),
                    NEW scope \in Scopes, NEW profiling \in BOOLEAN
             PROVE  LET rows == RowsToSave(buf, scope, profiling)
                        kept == KeptOfFile(buf, scope, profiling)
                        events == Files[src.kind].events
                        written == Retained([i \in DOMAIN events |-> i], kept)
                    IN [i \in DOMAIN written |-> events[written[i]]]
                       = [i \in DOMAIN rows |-> rows[i].ev]
  BY DEF SavesWhatIsShown
<1>1. PICK N \in Nat, k \in Nat : N = Len(buf.all) /\ k = Len(shown)
  BY DEF SessionInv, BufferOK, BufferTyped
<1>2. PICK events \in Seq(Reported) : events = Files[src.kind].events
  BY InputsAssumption DEF SessionInv, SourceOK
<1>3. PICK L \in Nat : L = Len(events)
  OBVIOUS
<1>4. DOMAIN events = 1..L
  BY <1>3
<1>5. PICK q : q = SavedPositions(buf, scope, profiling)
  OBVIOUS
<1>6. Ascends(q) /\ Among(q) \subseteq 1..N
  BY <1>1, <1>5, SavedFacts DEF SessionInv
<1>7. PICK M \in Nat : M = Len(q)
  BY <1>6 DEF Ascends
<1>8. DOMAIN q = 1..M /\ \A i \in 1..M : q[i] \in 1..N
  BY <1>6, <1>7 DEF Ascends, Among
<1>9. \A i \in 1..N : /\ buf.all[i].seq = (k - N) + i
                      /\ buf.all[i].seq \in 1..L /\ buf.all[i].ev = events[buf.all[i].seq]
  BY <1>1, <1>2, <1>3 DEF SessionInv, Numbered, FileOK, OfFile
<1> DEFINE rows == RowsToSave(buf, scope, profiling)
           kept == KeptOfFile(buf, scope, profiling)
           index == [i \in 1..L |-> i]
           numbers == [i \in 1..M |-> buf.all[q[i]].seq]
<1>10. rows = [i \in 1..M |-> buf.all[q[i]]]
  BY <1>5, <1>8 DEF RowsToSave, RowsAt
<1>11. kept = {buf.all[q[i]].seq : i \in 1..M}
  BY <1>10 DEF KeptOfFile
<1>12. Ascends(index) /\ Among(index) = 1..L
  <2>1. index \in Seq(Nat) /\ Len(index) = L /\ \A i \in 1..L : index[i] = i
    OBVIOUS
  <2> HIDE DEF index
  <2> QED BY <2>1 DEF Ascends, Among
<1>13. Ascends(numbers) /\ Among(numbers) = kept /\ kept \subseteq 1..L
  <2>1. \A i \in 1..M : buf.all[q[i]].seq \in 1..L
    BY <1>8, <1>9
  <2>2. numbers \in Seq(Nat) /\ Len(numbers) = M /\ \A i \in 1..M : numbers[i] = buf.all[q[i]].seq
    BY <2>1
  <2>3. \A i \in 1..M : numbers[i] = (k - N) + q[i]
    BY <1>8, <1>9, <2>2
  <2> HIDE DEF numbers, kept
  <2>4. \A i, j \in 1..M : i < j => numbers[i] < numbers[j]
    <3>1. \A i, j \in 1..M : i < j => q[i] < q[j]
      BY <1>6, <1>7 DEF Ascends
    <3>2. \A x, y \in 1..N : x < y => (k - N) + x < (k - N) + y
      OBVIOUS
    <3> QED BY <1>8, <2>3, <3>1, <3>2
  <2>5. Among(numbers) = kept
    BY <1>11, <2>2 DEF Among
  <2> QED BY <1>11, <2>1, <2>2, <2>4, <2>5 DEF Ascends
<1>14. Retained(index, kept) = numbers
  <2> HIDE DEF index, kept, numbers
  <2>1. index \in Seq(Nat)
    BY <1>12 DEF Ascends
  <2>2. /\ Ascends(Retained(index, kept))
        /\ Among(Retained(index, kept)) = Among(index) \intersect kept
    BY <1>12, <2>1, RetainedFacts
  <2>3. Among(index) \intersect kept = Among(numbers)
    BY <1>12, <1>13
  <2> QED BY <1>13, <2>2, <2>3, AscendingUnique
<1>15. [i \in 1..M |-> events[numbers[i]]] = [i \in 1..M |-> rows[i].ev]
  <2>1. ASSUME NEW i \in 1..M PROVE events[numbers[i]] = rows[i].ev
    <3>1. rows[i] = buf.all[q[i]] /\ numbers[i] = buf.all[q[i]].seq
      BY <1>10
    <3> QED BY <1>8, <1>9, <3>1
  <2> HIDE DEF rows, numbers
  <2> QED BY <2>1
<1>16. DOMAIN numbers = 1..M /\ DOMAIN rows = 1..M
  BY <1>10
<1> HIDE DEF numbers, rows, kept
<1> QED
  BY <1>2, <1>4, <1>14, <1>15, <1>16 DEF rows, kept

LEMMA SessionHolds ==
  ASSUME SessionInv
  PROVE  SessionTrue
<1>1. RowsInOrder
  <2>1. PICK N \in Nat, k \in Nat : N = Len(buf.all) /\ k = Len(shown)
    BY DEF SessionInv, BufferOK, BufferTyped
  <2>2. DOMAIN buf.all = 1..N
    BY <2>1 DEF SessionInv, BufferOK, BufferTyped
  <2>3. ASSUME NEW i \in 1..N PROVE buf.all[i].seq = buf.all[1].seq + i - 1
    <3>1. 1 \in 1..N
      OBVIOUS
    <3>2. buf.all[i].seq = (k - N) + i /\ buf.all[1].seq = (k - N) + 1
      BY <2>1, <3>1 DEF SessionInv, Numbered
    <3>3. (k - N) + i = ((k - N) + 1) + i - 1
      OBVIOUS
    <3> QED BY <3>2, <3>3
  <2>4. ASSUME NEW i \in 1..N
        PROVE  [n \in 1..N |-> buf.all[n].seq][i] = [n \in 1..N |-> buf.all[n].seq][1] + i - 1
    <3>1. 1 \in 1..N
      OBVIOUS
    <3> QED BY <2>3, <3>1
  <2> QED BY <2>2, <2>4 DEF RowsInOrder, Ascending
<1>2. ConfigInForce
  BY DEF SessionInv, AppOK, ConfigInForce
<1>3. PanelTrue
  BY DEF SessionInv, PanelOK, PanelTrue
<1> QED
  BY <1>1, <1>2, <1>3, SavedAreShown DEF SessionInv, SessionTrue, BufferOK

LEMMA SessionInvariant == Spec => [](SessionInv /\ MenuOK)
<1>1. SessionInv /\ MenuOK /\ [Next]_vars => SessionInv' /\ MenuOK'
  <2> SUFFICES ASSUME SessionInv, MenuOK, [Next]_vars PROVE SessionInv' /\ MenuOK'
    OBVIOUS
  <2>1. CASE Next
    BY <2>1, SessionSteps, MenuSteps
  <2>2. CASE UNCHANGED vars
    BY <2>2, WindowStep, MenuStands DEF vars, SessionInv
  <2> QED BY <2>1, <2>2
<1>2. Init => MenuOK
  BY DEF Init, MenuOK
<1> QED
  BY <1>1, <1>2, SessionStarts, PTL DEF Spec

\* Whatever the user does while rows arrive, what the window holds agrees:
\* the table with the rules, the marks, the limits and the byte count, the
\* rows with their order, a save with the file behind it, and the panel with
\* the event it shows (EventBuffer, AppState and AppView).
THEOREM SessionAgrees == Spec => []SessionTrue
<1> QED
  BY SessionInvariant, SessionHolds, PTL

\* A step changes the bookmark of the selected row, of the row the context menu
\* was opened on unless older rows were dropped meanwhile, or of none
\* (toggle_bookmark, trim, set_filter).
THEOREM BookmarksHold == Spec => BookmarksStay
<1>1. SessionInv /\ MenuOK /\ [Next]_vars => [NotesStay]_vars
  BY SessionSteps
<1> QED
  BY <1>1, SessionInvariant, PTL DEF Spec, BookmarksStay

=============================================================================
