-------------------------- MODULE PositionsProofs ---------------------------
(***************************************************************************)
(* The first position of a set, the n-th, and that each one is the n-th    *)
(* for some n.                                                             *)
(***************************************************************************)
EXTENDS Positions, SequencesExt, FiniteSetTheorems, TLAPS

\* A set of positions that is not empty has a first one.
LEMMA MinOfPositions ==
  ASSUME NEW S \in SUBSET Nat, S # {}
  PROVE  Min(S) \in S /\ \A y \in S : Min(S) <= y
<1> DEFINE R == {p \in Nat \X Nat : p[1] < p[2]}
<1>1. IsWellFoundedOn(R, Nat)
  BY NatLessThanWellFounded, Zenon DEF OpToRel
<1>2. PICK x \in S : \A y \in S : ~(<<y, x>> \in R)
  BY <1>1, WFMin, Zenon
<1>3. ASSUME NEW y \in S PROVE x <= y
  <2>1. x \in Nat /\ y \in Nat
    OBVIOUS
  <2>2. ~(y < x)
    <3>1. <<y, x>> \in R <=> (<<y, x>> \in Nat \X Nat /\ <<y, x>>[1] < <<y, x>>[2])
      OBVIOUS
    <3>. QED
      BY <1>2, <2>1, <3>1
  <2>. QED
    BY <2>1, <2>2
<1>. QED
  BY <1>3, Zenon DEF Min

\* Counting from the first position, every number below the size is reached.
LEMMA RankReached ==
  ASSUME NEW P \in SUBSET Nat, IsFiniteSet(P), NEW n \in Nat, n < Cardinality(P)
  PROVE  \E i \in P : Cardinality(Before(P, i)) = n
<1> DEFINE T == {k \in Nat : k < Cardinality(P) /\ ~\E i \in P : Cardinality(Before(P, i)) = k}
<1>0. Cardinality(P) \in Nat
  BY FS_CardinalityType
<1>1. SUFFICES ASSUME T # {} PROVE FALSE
  BY DEF T
<1>2. T \in SUBSET Nat
  OBVIOUS
<1>3. PICK k \in T : \A y \in T : k <= y
  BY <1>1, <1>2, MinOfPositions
<1>4. k \in Nat /\ k < Cardinality(P) /\ ~\E i \in P : Cardinality(Before(P, i)) = k
  BY <1>3
<1>5. CASE k = 0
  <2> HIDE DEF T
  <2>1. P # {}
    BY <1>0, <1>4, <1>5, FS_EmptySet
  <2>2. PICK m \in P : \A y \in P : m <= y
    BY <2>1, MinOfPositions
  <2>3. ASSUME NEW y \in P PROVE ~(y < m)
    <3>1. m <= y /\ m \in Nat /\ y \in Nat
      BY <2>2
    <3>. QED
      BY <3>1
  <2>4. Before(P, m) = {}
    BY <2>3, Zenon DEF Before
  <2>5. Cardinality(Before(P, m)) = 0
    BY <2>4, FS_EmptySet
  <2>. QED
    BY <1>4, <1>5, <2>5
<1>6. CASE k # 0
  <2>1. k - 1 \in Nat /\ k - 1 < Cardinality(P) /\ k - 1 \notin T
    BY <1>0, <1>3, <1>4, <1>6
  <2>2. PICK i \in P : Cardinality(Before(P, i)) = k - 1
    BY <2>1
  <2> DEFINE upto == Before(P, i) \cup {i}
             rest == P \ upto
  <2>3. IsFiniteSet(Before(P, i)) /\ i \notin Before(P, i)
    <3>1. Before(P, i) \in SUBSET P /\ i \notin Before(P, i)
      BY DEF Before
    <3>. QED
      BY <3>1, FS_Subset
  <2>4. IsFiniteSet(upto) /\ Cardinality(upto) = k
    <3>1. /\ IsFiniteSet(upto)
          /\ Cardinality(upto) = IF i \in Before(P, i) THEN Cardinality(Before(P, i))
                                 ELSE Cardinality(Before(P, i)) + 1
      BY <2>3, FS_AddElement, Zenon
    <3>. QED
      BY <1>4, <2>2, <2>3, <3>1
  <2>5. rest # {}
    <3>1. upto \subseteq P
      BY DEF Before
    <3>2. upto # P
      BY <1>4, <2>4
    <3>. QED
      BY <3>1, <3>2
  <2>6. rest \in SUBSET Nat
    OBVIOUS
  <2> DEFINE next == Min(rest)
  <2>7. next \in rest /\ \A y \in rest : next <= y
    BY <2>5, <2>6, MinOfPositions
  <2> HIDE DEF next
  <2>8. Before(P, next) = upto
    <3>1. next \in P /\ next \notin upto /\ next \in Nat /\ i \in Nat
      BY <2>7
    <3>2. next > i
      BY <3>1 DEF Before
    <3>3. \A j \in P : j < next <=> j \in upto
      <4> SUFFICES ASSUME NEW j \in P PROVE j < next <=> j \in upto
        OBVIOUS
      <4>1. CASE j \in upto
        BY <3>1, <3>2, <4>1 DEF Before
      <4>2. CASE j \notin upto
        <5>1. next <= j
          BY <2>7, <4>2
        <5>. QED
          BY <3>1, <4>2, <5>1
      <4>. QED
        BY <4>1, <4>2
    <3>4. upto \subseteq P
      BY DEF Before
    <3>. QED
      BY <3>3, <3>4 DEF Before
  <2>. QED
    BY <1>4, <2>4, <2>7, <2>8
<1>. QED
  BY <1>5, <1>6

\* Nth is the position with n - 1 positions before it.
LEMMA NthPosition ==
  ASSUME NEW P \in SUBSET Nat, IsFiniteSet(P), NEW n \in 1..Cardinality(P)
  PROVE  Nth(P, n) \in P /\ Cardinality(Before(P, Nth(P, n))) = n - 1
<1>1. Cardinality(P) \in Nat
  BY FS_CardinalityType
<1>2. n - 1 \in Nat /\ n - 1 < Cardinality(P)
  BY <1>1
<1>3. \E i \in P : Cardinality(Before(P, i)) = n - 1
  BY <1>2, RankReached
<1>. QED
  BY <1>3, Zenon DEF Nth, Before

\* Different positions have different numbers of positions before them.
LEMMA RankDetermines ==
  ASSUME NEW P \in SUBSET Nat, IsFiniteSet(P), NEW i \in P, NEW j \in P,
         Cardinality(Before(P, i)) = Cardinality(Before(P, j))
  PROVE  i = j
<1>1. ASSUME NEW a \in P, NEW b \in P, a < b PROVE Cardinality(Before(P, a)) # Cardinality(Before(P, b))
  <2>1. Before(P, b) \in SUBSET P
    BY DEF Before
  <2>2. IsFiniteSet(Before(P, b))
    BY <2>1, FS_Subset
  <2>3. Before(P, a) \in SUBSET Before(P, b) /\ Before(P, a) # Before(P, b)
    <3>1. a \in Before(P, b) /\ a \notin Before(P, a)
      BY <1>1 DEF Before
    <3>2. ASSUME NEW x \in P, x < a PROVE x < b
      <4>1. x \in Nat /\ a \in Nat /\ b \in Nat
        OBVIOUS
      <4>. QED
        BY <1>1, <3>2, <4>1
    <3>3. Before(P, a) \in SUBSET Before(P, b)
      BY <3>2, Zenon DEF Before
    <3>. QED
      BY <3>1, <3>3
  <2>. QED
    BY <2>2, <2>3, FS_Subset
<1>2. ~(i < j) /\ ~(j < i)
  BY <1>1
<1>. QED
  BY <1>2

\* Every position is the n-th for some n.
LEMMA NthReaches ==
  ASSUME NEW P \in SUBSET Nat, IsFiniteSet(P), NEW i \in P
  PROVE  \E n \in 1..Cardinality(P) : Nth(P, n) = i
<1> DEFINE n == Cardinality(Before(P, i)) + 1
<1>1. Before(P, i) \in SUBSET P /\ Before(P, i) # P
  BY DEF Before
<1>2. /\ IsFiniteSet(Before(P, i)) /\ Cardinality(Before(P, i)) <= Cardinality(P)
      /\ Cardinality(Before(P, i)) # Cardinality(P)
  BY <1>1, FS_Subset
<1>3. Cardinality(Before(P, i)) \in Nat /\ Cardinality(P) \in Nat
  BY <1>2, FS_CardinalityType
<1>4. n \in 1..Cardinality(P) /\ n - 1 = Cardinality(Before(P, i))
  BY <1>2, <1>3
<1> HIDE DEF n
<1>5. Nth(P, n) \in P /\ Cardinality(Before(P, Nth(P, n))) = Cardinality(Before(P, i))
  BY <1>4, NthPosition
<1>6. \A x \in P : Cardinality(Before(P, x)) = Cardinality(Before(P, i)) => x = i
  BY RankDetermines
<1>7. Nth(P, n) = i
  BY <1>5, <1>6, Zenon
<1>. QED
  BY <1>4, <1>7, Zenon

\* Different numbers give different positions.
LEMMA NthOnce ==
  ASSUME NEW P \in SUBSET Nat, IsFiniteSet(P), NEW m \in 1..Cardinality(P), NEW n \in 1..Cardinality(P),
         Nth(P, m) = Nth(P, n)
  PROVE  m = n
<1>1. m \in Int /\ n \in Int
  BY FS_CardinalityType
<1>2. m - 1 = n - 1
  BY NthPosition
<1>. QED
  BY <1>1, <1>2

-----------------------------------------------------------------------------
(***************************************************************************)
(* Loops.                                                                  *)
(***************************************************************************)
\* Induction over the turns of a loop.
LEMMA TurnByTurn ==
  ASSUME NEW N \in Nat, NEW S, 0 \in S, \A n \in 1..N : n - 1 \in S => n \in S
  PROVE  \A n \in 0..N : n \in S
<1> DEFINE T == {n \in Nat : n <= N /\ n \notin S}
<1> SUFFICES ASSUME NEW n \in 0..N, n \notin S PROVE FALSE
  OBVIOUS
<1>1. n \in T
  OBVIOUS
<1>2. Min(T) \in T /\ \A y \in T : Min(T) <= y
  BY <1>1, MinOfPositions
<1> DEFINE m == Min(T)
<1>3. m \in 1..N /\ m - 1 \in Nat /\ m - 1 <= N /\ ~(m <= m - 1)
  BY <1>2
<1>4. m - 1 \in S
  BY <1>2, <1>3
<1>. QED
  BY <1>2, <1>3, <1>4

\* What a loop that starts with v0 has after each of its N turns.
Loop(g, N, V, v0, Step) ==
  g \in [0..N -> V] /\ g[0] = v0 /\ \A n \in 1..N : g[n] = Step[n][g[n - 1]]

\* A loop has a value after each of its turns.
LEMMA LoopRuns ==
  ASSUME NEW N \in Nat, NEW V, NEW v0 \in V, NEW Step \in [1..N -> [V -> V]]
  PROVE  \E g : Loop(g, N, V, v0, Step)
<1> DEFINE Runs(k, g) == g \in [0..k -> V] /\ g[0] = v0 /\ \A n \in 1..k : g[n] = Step[n][g[n - 1]]
           S == {k \in 0..N : \E g : Runs(k, g)}
<1>1. 0 \in S
  <2> DEFINE h == [n \in 0..0 |-> v0]
  <2>1. h \in [0..0 -> V] /\ h[0] = v0 /\ 1..0 = {}
    OBVIOUS
  <2> HIDE DEF h
  <2>2. Runs(0, h)
    BY <2>1
  <2> HIDE DEF Runs
  <2>. QED
    BY <2>2
<1>2. ASSUME NEW k \in 1..N, k - 1 \in S PROVE k \in S
  <2>1. PICK g : Runs(k - 1, g)
    BY <1>2
  <2> DEFINE h == [n \in 0..k |-> IF n = k THEN Step[k][g[k - 1]] ELSE g[n]]
  <2>2. k - 1 \in 0..(k - 1) /\ g[k - 1] \in V /\ Step[k] \in [V -> V]
    BY <2>1
  <2>3. h \in [0..k -> V]
    BY <2>1, <2>2
  <2>4. h[0] = v0
    BY <2>1
  <2>5. ASSUME NEW n \in 1..k PROVE h[n] = Step[n][h[n - 1]]
    <3>1. n - 1 \in 0..k /\ n - 1 # k /\ h[n - 1] = g[n - 1]
      OBVIOUS
    <3>2. CASE n = k
      <4>1. h[n] = Step[k][g[k - 1]]
        BY <3>2
      <4> HIDE DEF h
      <4>. QED
        BY <3>1, <3>2, <4>1
    <3>3. CASE n # k
      <4>1. n \in 1..(k - 1) /\ h[n] = g[n]
        BY <3>3
      <4>2. g[n] = Step[n][g[n - 1]]
        BY <2>1, <4>1
      <4> HIDE DEF h
      <4>. QED
        BY <3>1, <4>1, <4>2
    <3>. QED
      BY <3>2, <3>3
  <2> HIDE DEF h
  <2>6. Runs(k, h)
    BY <2>3, <2>4, <2>5
  <2> HIDE DEF Runs
  <2>. QED
    BY <2>6
<1>3. N \in S
  <2> HIDE DEF S
  <2>1. \A n \in 0..N : n \in S
    BY <1>1, <1>2, TurnByTurn
  <2>. QED
    BY <2>1
<1>. QED
  BY <1>3 DEF Loop

\* And keeps its type.
LEMMA LoopTyped ==
  ASSUME NEW N \in Nat, NEW V, NEW v0 \in V, NEW Step \in [1..N -> [V -> V]], NEW h,
         h = [n \in 0..N |-> h[n]], h[0] = v0, \A n \in 1..N : h[n - 1] \in V => h[n] = Step[n][h[n - 1]]
  PROVE  Loop(h, N, V, v0, Step)
<1> DEFINE S == {n \in 0..N : h[n] \in V}
<1>1. 0 \in S
  OBVIOUS
<1>2. ASSUME NEW n \in 1..N, n - 1 \in S PROVE n \in S
  <2>1. h[n - 1] \in V /\ Step[n] \in [V -> V] /\ n \in 0..N
    BY <1>2
  <2>. QED
    BY <2>1
<1>3. \A n \in 0..N : n \in S
  <2> HIDE DEF S
  <2>. QED
    BY <1>1, <1>2, TurnByTurn
<1>4. \A n \in 0..N : h[n] \in V
  BY <1>3
<1>5. \A n \in 1..N : n - 1 \in 0..N
  OBVIOUS
<1>. QED
  BY <1>4, <1>5 DEF Loop

-----------------------------------------------------------------------------
(***************************************************************************)
(* Texts one after the other.                                              *)
(***************************************************************************)
\* What is written after each text.
LEMMA JoinedUnfold ==
  ASSUME NEW B, NEW t \in Seq(Seq(B))
  PROVE  LET v == Joined(t)
         IN /\ v \in [0..Len(t) -> Seq(B)] /\ v[0] = <<>>
            /\ \A n \in 1..Len(t) : v[n] = v[n - 1] \o t[n]
<1> DEFINE N == Len(t)
           V == Seq(B)
           none == <<>>
           Step == [n \in 1..N |-> [v \in V |-> v \o t[n]]]
           Is(g) == g = [n \in 0..N |-> IF n = 0 THEN none ELSE g[n - 1] \o t[n]]
<1>0. N \in Nat /\ none \in V
  OBVIOUS
<1>1. Step \in [1..N -> [V -> V]]
  <2>1. \A n \in 1..N : t[n] \in V
    OBVIOUS
  <2>2. ASSUME NEW n \in 1..N, NEW v \in V PROVE v \o t[n] \in V
    BY <2>1
  <2> HIDE DEF V
  <2>. QED
    BY <2>2
<1> HIDE DEF N, V, none
<1>2. PICK g : Loop(g, N, V, none, Step)
  <2> HIDE DEF Step
  <2>. QED
    BY <1>0, <1>1, LoopRuns
<1>3. ASSUME NEW n \in 0..N
      PROVE  g[n] = IF n = 0 THEN none ELSE g[n - 1] \o t[n]
  <2>1. g \in [0..N -> V] /\ g[0] = none
    BY <1>2 DEF Loop
  <2>2. CASE n # 0
    <3>1. n \in 1..N /\ n - 1 \in 0..N /\ g[n - 1] \in V
      BY <1>0, <2>1, <2>2
    <3>2. g[n] = Step[n][g[n - 1]]
      BY <1>2, <3>1 DEF Loop
    <3>. QED
      BY <2>2, <3>1, <3>2
  <2>. QED
    BY <2>1, <2>2
<1>4. Is(g)
  <2>1. g = [n \in 0..N |-> g[n]]
    BY <1>2 DEF Loop
  <2>. QED
    BY <1>3, <2>1
<1>5. Is(Joined(t))
  BY <1>4 DEF Joined, N, none
<1> DEFINE v == Joined(t)
<1> HIDE DEF v
<1>6. v = [n \in 0..N |-> IF n = 0 THEN none ELSE v[n - 1] \o t[n]]
  BY <1>5 DEF v
<1>7. /\ v = [n \in 0..N |-> v[n]] /\ v[0] = none
      /\ \A n \in 1..N : v[n] = v[n - 1] \o t[n]
  <2>1. 0 \in 0..N /\ \A n \in 1..N : n \in 0..N /\ n # 0
    BY <1>0
  <2>2. v = [n \in 0..N |-> v[n]] /\ v[0] = none
    BY <1>6, <2>1
  <2>3. ASSUME NEW n \in 1..N PROVE v[n] = v[n - 1] \o t[n]
    <3>1. v[n] = IF n = 0 THEN none ELSE v[n - 1] \o t[n]
      BY <1>6, <2>1, Zenon
    <3>. QED
      BY <2>1, <3>1
  <2>. QED
    BY <2>2, <2>3
<1>8. Loop(v, N, V, none, Step)
  <2>1. \A n \in 1..N : v[n - 1] \in V => v[n] = Step[n][v[n - 1]]
    BY <1>7
  <2> HIDE DEF Step
  <2>. QED
    BY <1>0, <1>1, <1>7, <2>1, LoopTyped
<1>. QED
  BY <1>7, <1>8 DEF v, Loop, N, V, none

\* What was written stays.
LEMMA JoinedPrefix ==
  ASSUME NEW B, NEW t \in Seq(Seq(B)), NEW n \in 0..Len(t)
  PROVE  \A m \in 0..Len(t) : m >= n =>
            /\ Len(Joined(t)[m]) >= Len(Joined(t)[n])
            /\ \A k \in 1..Len(Joined(t)[n]) : Joined(t)[m][k] = Joined(t)[n][k]
<1> DEFINE N == Len(t)
           v == Joined(t)
           S == {m \in 0..N : m >= n => /\ Len(v[m]) >= Len(v[n])
                                        /\ \A k \in 1..Len(v[n]) : v[m][k] = v[n][k]}
<1>0. N \in Nat /\ n \in 0..N
  OBVIOUS
<1>1. v \in [0..N -> Seq(B)] /\ \A m \in 1..N : v[m] = v[m - 1] \o t[m]
  BY JoinedUnfold
<1> HIDE DEF v
<1>2. \A m \in 0..N : v[m] \in Seq(B) /\ Len(v[m]) \in Nat
  BY <1>1
<1>3. 0 \in S
  <2>1. 0 >= n => n = 0
    OBVIOUS
  <2>2. 0 \in 0..N
    BY <1>0
  <2>. QED
    BY <1>2, <2>1, <2>2
<1>4. ASSUME NEW m \in 1..N, m - 1 \in S PROVE m \in S
  <2>0. m \in 0..N /\ m - 1 \in 0..N
    BY <1>0
  <2>1. CASE m - 1 >= n
    <3> DEFINE w == v[m - 1]
               x == t[m]
               u == v[n]
    <3>1. w \in Seq(B) /\ x \in Seq(B) /\ u \in Seq(B) /\ v[m] = w \o x
      <4>1. x \in Seq(B)
        OBVIOUS
      <4>2. w \in Seq(B) /\ u \in Seq(B)
        BY <1>0, <1>2, <2>0
      <4>3. v[m] = w \o x
        BY <1>1
      <4>. QED
        BY <4>1, <4>2, <4>3
    <3>2. Len(w) >= Len(u) /\ \A k \in 1..Len(u) : w[k] = u[k]
      BY <1>4, <2>1
    <3> HIDE DEF w, x, u
    <3>3. Len(w \o x) = Len(w) + Len(x) /\ \A k \in 1..Len(w) : (w \o x)[k] = w[k]
      BY <3>1
    <3>4. Len(w) \in Nat /\ Len(x) \in Nat /\ Len(u) \in Nat
      BY <3>1
    <3>5. Len(v[m]) >= Len(u) /\ \A k \in 1..Len(u) : v[m][k] = u[k]
      BY <3>1, <3>2, <3>3, <3>4
    <3>. QED
      BY <2>0, <3>5 DEF u
  <2>2. CASE ~(m - 1 >= n)
    <3>1. m >= n => m = n
      BY <2>2
    <3>2. Len(v[n]) >= Len(v[n])
      BY <1>0, <1>2
    <3>. QED
      BY <2>0, <3>1, <3>2
  <2>. QED
    BY <2>1, <2>2
<1>5. \A m \in 0..N : m \in S
  <2> HIDE DEF S
  <2>. QED
    BY <1>0, <1>3, <1>4, TurnByTurn
<1>. QED
  BY <1>5 DEF v

\* The place of a text in the whole.
LEMMA JoinedAt ==
  ASSUME NEW B, NEW t \in Seq(Seq(B)), NEW n \in 1..Len(t), NEW k \in 1..Len(t[n])
  PROVE  /\ Len(Joined(t)[n]) = Len(Joined(t)[n - 1]) + Len(t[n])
         /\ Len(Joined(t)[n]) <= Len(Joined(t)[Len(t)])
         /\ Joined(t)[Len(t)][Len(Joined(t)[n - 1]) + k] = t[n][k]
<1> DEFINE v == Joined(t)
           w == v[n - 1]
           x == t[n]
           N == Len(t)
<1>0. N \in Nat /\ N \in 0..N /\ n \in 0..N /\ n - 1 \in 0..N /\ N >= n
  OBVIOUS
<1>1. w \in Seq(B) /\ x \in Seq(B) /\ v[n] = w \o x
  <2>1. x \in Seq(B)
    OBVIOUS
  <2>2. w \in Seq(B)
    <3>1. v \in [0..N -> Seq(B)]
      BY JoinedUnfold, Zenon
    <3> HIDE DEF v, N
    <3>. QED
      BY <1>0, <3>1
  <2>3. v[n] = w \o x
    BY JoinedUnfold, Zenon
  <2>. QED
    BY <2>1, <2>2, <2>3
<1>2. Len(v[N]) >= Len(v[n]) /\ \A j \in 1..Len(v[n]) : v[N][j] = v[n][j]
  BY <1>0, JoinedPrefix
<1> HIDE DEF v, w, x
<1>3. k \in 1..Len(x)
  BY DEF x
<1>4. Len(w \o x) = Len(w) + Len(x) /\ (w \o x)[Len(w) + k] = x[k]
  BY <1>1, <1>3
<1>5. Len(w) + k \in 1..Len(v[n]) /\ Len(w) \in Nat /\ Len(x) \in Nat /\ Len(v[n]) \in Nat
  BY <1>1, <1>3, <1>4
<1>6. Len(v[n]) = Len(w) + Len(x) /\ v[N][Len(w) + k] = x[k]
  BY <1>1, <1>2, <1>4, <1>5
<1>7. Len(v[N]) \in Nat
  BY <1>0, JoinedUnfold DEF v
<1>8. Len(v[n]) <= Len(v[N])
  BY <1>2, <1>5, <1>7
<1>. QED
  BY <1>6, <1>8 DEF v, w, x
=============================================================================
