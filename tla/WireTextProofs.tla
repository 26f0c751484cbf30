--------------------------- MODULE WireTextProofs ---------------------------
(***************************************************************************)
(* What the generated codec writes and reads of numbers and strings, for   *)
(* inputs of every length.                                                 *)
(***************************************************************************)
EXTENDS WireText, PositionsProofs, SequenceTheorems, FiniteSetTheorems, TLAPS

-----------------------------------------------------------------------------
(***************************************************************************)
(* The range of the type.                                                  *)
(***************************************************************************)
\* The powers of two.
LEMMA PowerUnfold ==
  ASSUME Sized
  PROVE  Power \in [0..Width -> Nat] /\ Power[0] = 1 /\ \A n \in 1..Width : Power[n] = 2 * Power[n - 1]
<1> DEFINE Step == [n \in 1..Width |-> [v \in Nat |-> 2 * v]]
           Is(g) == g = [n \in 0..Width |-> IF n = 0 THEN 1 ELSE 2 * g[n - 1]]
<1>0. Width \in Nat
  BY DEF Sized
<1>1. Step \in [1..Width -> [Nat -> Nat]]
  OBVIOUS
<1>2. PICK g : Loop(g, Width, Nat, 1, Step)
  <2> HIDE DEF Step
  <2>. QED
    BY <1>0, <1>1, LoopRuns
<1>3. ASSUME NEW n \in 0..Width PROVE g[n] = IF n = 0 THEN 1 ELSE 2 * g[n - 1]
  <2>1. g \in [0..Width -> Nat] /\ g[0] = 1
    BY <1>2 DEF Loop
  <2>2. CASE n # 0
    <3>1. n \in 1..Width /\ n - 1 \in 0..Width /\ g[n - 1] \in Nat
      BY <1>0, <2>1, <2>2
    <3>2. g[n] = Step[n][g[n - 1]]
      BY <1>2, <3>1 DEF Loop
    <3>. QED
      BY <2>2, <3>1, <3>2
  <2>. QED
    BY <2>1, <2>2
<1>4. Is(g)
  <2>1. g = [n \in 0..Width |-> g[n]]
    BY <1>2 DEF Loop
  <2>. QED
    BY <1>3, <2>1
<1>5. Is(Power)
  BY <1>4 DEF Power
<1> DEFINE p == Power
<1> HIDE DEF p
<1>6. p = [n \in 0..Width |-> IF n = 0 THEN 1 ELSE 2 * p[n - 1]]
  BY <1>5 DEF p
<1>7. /\ p = [n \in 0..Width |-> p[n]] /\ p[0] = 1
      /\ \A n \in 1..Width : p[n] = 2 * p[n - 1]
  BY <1>0, <1>6
<1>8. Loop(p, Width, Nat, 1, Step)
  <2>1. \A n \in 1..Width : p[n - 1] \in Nat => p[n] = Step[n][p[n - 1]]
    BY <1>7
  <2> HIDE DEF Step
  <2>. QED
    BY <1>0, <1>1, <1>7, <2>1, LoopTyped
<1>. QED
  BY <1>7, <1>8 DEF p, Loop

\* The largest number is far from the smallest, and no power of two is a multiple
\* of ten: the last digit of MinInt and of MaxInt are one apart.
LEMMA PowerFacts ==
  ASSUME Sized
  PROVE  /\ Power[Width - 1] \in Nat /\ Power[Width - 1] >= 16 /\ Power[Width - 1] % 5 # 0
         /\ Power[Width] = 2 * Power[Width - 1]
<1>0. Width \in Nat /\ Width > 4
  BY DEF Sized
<1>1. Power \in [0..Width -> Nat] /\ Power[0] = 1 /\ \A n \in 1..Width : Power[n] = 2 * Power[n - 1]
  BY PowerUnfold
<1>2. Power[4] = 16
  <2>1. Power[1] = 2 * Power[0] /\ Power[2] = 2 * Power[1] /\ Power[3] = 2 * Power[2] /\ Power[4] = 2 * Power[3]
    <3>1. 1 \in 1..Width /\ 2 \in 1..Width /\ 3 \in 1..Width /\ 4 \in 1..Width
      BY <1>0
    <3>2. Power[1] = 2 * Power[1 - 1] /\ Power[2] = 2 * Power[2 - 1] /\ Power[3] = 2 * Power[3 - 1] /\ Power[4] = 2 * Power[4 - 1]
      BY <1>1, <3>1
    <3>. QED
      BY <3>2
  <2>. QED
    BY <1>1, <2>1
<1> DEFINE S == {n \in 0..Width : Power[n] % 5 # 0 /\ (n >= 4 => Power[n] >= 16)}
<1>3. 0 \in S
  BY <1>0, <1>1
<1>4. ASSUME NEW n \in 1..Width, n - 1 \in S PROVE n \in S
  <2>1. Power[n] = 2 * Power[n - 1] /\ Power[n - 1] \in Nat /\ Power[n - 1] % 5 # 0 /\ n - 1 \in 0..Width
    BY <1>0, <1>1, <1>4
  <2>2. Power[n] % 5 # 0
    BY <2>1
  <2>3. CASE n <= 4
    <3>1. n >= 4 => Power[n] >= 16
      BY <1>2, <2>3
    <3>. QED
      BY <2>2, <3>1
  <2>4. CASE n > 4
    <3>1. Power[n - 1] >= 16
      BY <1>4, <2>4
    <3>. QED
      BY <2>1, <2>2, <3>1
  <2>. QED
    BY <2>3, <2>4
<1>5. \A n \in 0..Width : n \in S
  <2> HIDE DEF S
  <2>. QED
    BY <1>0, <1>3, <1>4, TurnByTurn
<1>6. Width - 1 \in S /\ Width \in 1..Width /\ Width - 1 \in 0..Width
  BY <1>0, <1>5
<1>. QED
  BY <1>0, <1>1, <1>6

-----------------------------------------------------------------------------
(***************************************************************************)
(* The digits num writes.                                                  *)
(***************************************************************************)
\* The loop of num.
LEMMA QuotientsUnfold ==
  ASSUME Sized, NEW u \in Nat
  PROVE  LET q == Quotients(u)
         IN q \in [0..Width -> Nat] /\ q[0] = u /\ \A n \in 1..Width : q[n] = q[n - 1] \div 10
<1> DEFINE Step == [n \in 1..Width |-> [v \in Nat |-> v \div 10]]
           Is(g) == g = [n \in 0..Width |-> IF n = 0 THEN u ELSE g[n - 1] \div 10]
<1>0. Width \in Nat
  BY DEF Sized
<1>1. Step \in [1..Width -> [Nat -> Nat]]
  OBVIOUS
<1>2. PICK g : Loop(g, Width, Nat, u, Step)
  <2> HIDE DEF Step
  <2>. QED
    BY <1>0, <1>1, LoopRuns
<1>3. ASSUME NEW n \in 0..Width PROVE g[n] = IF n = 0 THEN u ELSE g[n - 1] \div 10
  <2>1. g \in [0..Width -> Nat] /\ g[0] = u
    BY <1>2 DEF Loop
  <2>2. CASE n # 0
    <3>1. n \in 1..Width /\ n - 1 \in 0..Width /\ g[n - 1] \in Nat
      BY <1>0, <2>1, <2>2
    <3>2. g[n] = Step[n][g[n - 1]]
      BY <1>2, <3>1 DEF Loop
    <3>. QED
      BY <2>2, <3>1, <3>2
  <2>. QED
    BY <2>1, <2>2
<1>4. Is(g)
  <2>1. g = [n \in 0..Width |-> g[n]]
    BY <1>2 DEF Loop
  <2>. QED
    BY <1>3, <2>1
<1>5. Is(Quotients(u))
  BY <1>4 DEF Quotients
<1> DEFINE p == Quotients(u)
<1> HIDE DEF p
<1>6. p = [n \in 0..Width |-> IF n = 0 THEN u ELSE p[n - 1] \div 10]
  BY <1>5 DEF p
<1>7. /\ p = [n \in 0..Width |-> p[n]] /\ p[0] = u
      /\ \A n \in 1..Width : p[n] = p[n - 1] \div 10
  BY <1>0, <1>6
<1>8. Loop(p, Width, Nat, u, Step)
  <2>1. \A n \in 1..Width : p[n - 1] \in Nat => p[n] = Step[n][p[n - 1]]
    BY <1>7
  <2> HIDE DEF Step
  <2>. QED
    BY <1>0, <1>1, <1>7, <2>1, LoopTyped
<1>. QED
  BY <1>7, <1>8 DEF p, Loop

\* Every number of the type is used up.
LEMMA QuotientsEnd ==
  ASSUME Sized, NEW u \in 0..Power[Width - 1]
  PROVE  LET q == Quotients(u)
         IN q[Width] = 0 /\ \A n \in 0..Width : q[n] = 0 => \A m \in n..Width : q[m] = 0
<1> DEFINE q == Quotients(u)
<1>0. Width \in Nat /\ Width > 4 /\ Power[Width - 1] \in Nat /\ u \in Nat
  <2>1. Width \in Nat /\ Width > 4
    BY DEF Sized
  <2>2. Power[Width - 1] \in Nat
    BY PowerFacts
  <2>. QED
    BY <2>1, <2>2
<1>1. q \in [0..Width -> Nat] /\ q[0] = u /\ \A n \in 1..Width : q[n] = q[n - 1] \div 10
  BY <1>0, QuotientsUnfold
<1>2. Power \in [0..Width -> Nat] /\ Power[0] = 1 /\ \A n \in 1..Width : Power[n] = 2 * Power[n - 1]
  BY PowerUnfold
<1> HIDE DEF q
<1> DEFINE S == {n \in 0..(Width - 1) : q[n] <= Power[(Width - 1) - n]}
<1>3. 0 \in S
  <2>1. 0 \in 0..(Width - 1) /\ (Width - 1) - 0 = Width - 1 /\ u <= Power[Width - 1]
    BY <1>0
  <2>. QED
    BY <1>1, <2>1
<1>4. ASSUME NEW n \in 1..(Width - 1), n - 1 \in S PROVE n \in S
  <2> DEFINE k == (Width - 1) - n
  <2>1. k \in 0..Width /\ k + 1 \in 1..Width /\ (k + 1) - 1 = k /\ n \in 1..Width /\ n - 1 \in 0..Width
    BY <1>0
  <2>2. Power[k + 1] = 2 * Power[k] /\ Power[k] \in Nat
    BY <1>2, <2>1
  <2>3. q[n] = q[n - 1] \div 10 /\ q[n - 1] \in Nat
    BY <1>1, <2>1
  <2>4. (Width - 1) - (n - 1) = k + 1
    BY <1>0
  <2>5. q[n - 1] <= Power[k + 1]
    BY <1>4, <2>4
  <2>6. q[n] <= Power[k]
    <3> HIDE DEF k
    <3>. QED
      BY <2>2, <2>3, <2>5
  <2>. QED
    BY <2>6
<1>5. \A n \in 0..(Width - 1) : n \in S
  <2> HIDE DEF S
  <2>. QED
    BY <1>0, <1>3, <1>4, TurnByTurn
<1>6. q[Width] = 0
  <2>1. Width - 1 \in 0..(Width - 1) /\ (Width - 1) - (Width - 1) = 0 /\ Width \in 1..Width /\ Width - 1 \in 0..Width
    BY <1>0
  <2>2. q[Width - 1] <= 1
    BY <1>2, <1>5, <2>1
  <2>3. q[Width] = q[Width - 1] \div 10 /\ q[Width - 1] \in Nat
    BY <1>1, <2>1
  <2>. QED
    BY <2>2, <2>3
<1>7. ASSUME NEW n \in 0..Width, q[n] = 0 PROVE \A m \in n..Width : q[m] = 0
  <2> DEFINE Z == {m \in 0..Width : m >= n => q[m] = 0}
  <2>1. 0 \in Z
    BY <1>0, <1>7
  <2>2. ASSUME NEW m \in 1..Width, m - 1 \in Z PROVE m \in Z
    <3>1. q[m] = q[m - 1] \div 10
      BY <1>1
    <3>2. CASE m > n
      <4>1. m - 1 >= n
        BY <1>0, <3>2
      <4>2. q[m - 1] = 0
        BY <2>2, <4>1
      <4>3. q[m] = 0
        BY <3>1, <4>2
      <4>. QED
        BY <4>3
    <3>3. CASE m = n
      BY <1>7, <3>3
    <3>4. CASE m < n
      BY <3>4
    <3>5. m > n \/ m = n \/ m < n
      BY <1>0
    <3> HIDE DEF Z
    <3>. QED
      BY <3>2, <3>3, <3>4, <3>5
  <2>3. \A m \in 0..Width : m \in Z
    <3> HIDE DEF Z
    <3>. QED
      BY <1>0, <2>1, <2>2, TurnByTurn
  <2>. QED
    BY <1>0, <2>3
<1>. QED
  BY <1>6, <1>7 DEF q

\* The digits of u, the first of which is not 0.
LEMMA DecimalDigits ==
  ASSUME Sized, NEW u \in 1..Power[Width - 1]
  PROVE  LET q == Quotients(u)
         IN \E k \in 1..Width :
              /\ q[k] = 0 /\ \A j \in 0..(k - 1) : q[j] > 0
              /\ Decimal(u) = [i \in 1..k |-> 48 + (q[k - i] % 10)]
<1> DEFINE q == Quotients(u)
           Size(n) == q[n - 1] # 0 /\ q[n] = 0
<1>0. Width \in Nat /\ Width > 4 /\ Power[Width - 1] \in Nat /\ u \in Nat /\ u \in 0..Power[Width - 1] /\ u > 0
  <2>1. Width \in Nat /\ Width > 4
    BY DEF Sized
  <2>2. Power[Width - 1] \in Nat
    BY PowerFacts
  <2>. QED
    BY <2>1, <2>2
<1>1. q \in [0..Width -> Nat] /\ q[0] = u
  BY <1>0, QuotientsUnfold
<1>2. q[Width] = 0 /\ \A n \in 0..Width : q[n] = 0 => \A m \in n..Width : q[m] = 0
  BY <1>0, QuotientsEnd
<1> HIDE DEF q
<1>3. \E n \in 1..Width : Size(n)
  <2> DEFINE T == {n \in Nat : n <= Width /\ q[n] = 0}
  <2>1. Width \in T
    BY <1>0, <1>2
  <2>2. Min(T) \in T /\ \A y \in T : Min(T) <= y
    BY <2>1, MinOfPositions
  <2> DEFINE m == Min(T)
  <2>3. m \in Nat /\ m <= Width /\ q[m] = 0 /\ m # 0
    BY <1>0, <1>1, <2>2
  <2>4. m \in 1..Width /\ m - 1 \in Nat /\ m - 1 <= Width /\ ~(m <= m - 1)
    <3> HIDE DEF m
    <3>. QED
      BY <1>0, <2>3
  <2>5. q[m - 1] # 0
    BY <2>2, <2>4
  <2> HIDE DEF m
  <2>. QED
    BY <2>3, <2>4, <2>5
<1> DEFINE k == CHOOSE n \in 1..Width : Size(n)
<1>4. k \in 1..Width /\ q[k - 1] # 0 /\ q[k] = 0
  BY <1>3
<1>5. Decimal(u) = [i \in 1..k |-> 48 + (q[k - i] % 10)]
  BY DEF Decimal, q
<1> HIDE DEF k
<1>6. ASSUME NEW j \in 0..(k - 1) PROVE q[j] > 0
  <2>1. j \in 0..Width /\ k - 1 \in j..Width
    BY <1>0, <1>4
  <2>2. q[j] # 0
    BY <1>2, <1>4, <2>1
  <2>. QED
    BY <1>1, <2>1, <2>2
<1>. QED
  BY <1>4, <1>5, <1>6 DEF q

-----------------------------------------------------------------------------
(***************************************************************************)
(* The digits integer reads.                                               *)
(***************************************************************************)
\* At gives a byte.
LEMMA ByteAt ==
  ASSUME NEW b \in Seq(Bytes), NEW p \in Int
  PROVE  At(b, p) \in Bytes
<1>1. p \in 1..Len(b) => b[p] \in Bytes
  OBVIOUS
<1>2. 0 \in Bytes
  BY DEF Bytes
<1>. QED
  BY <1>1, <1>2 DEF At

\* Remainders below the modulus.
LEMMA Modulo ==
  ASSUME NEW x \in Int, NEW P \in Nat, P > 0
  PROVE  (x % P) \in Nat /\ (0 <= x /\ x < P => x % P = x)
OBVIOUS

\* A sum stays in the type.
LEMMA AddDigitTyped ==
  ASSUME Sized, NEW v \in Nat, NEW d \in Bytes
  PROVE  addDigit(v, d) \in Nat
<1>1. Power[Width - 1] \in Nat /\ Power[Width - 1] >= 16 /\ Power[Width] = 2 * Power[Width - 1]
  BY PowerFacts
<1>2. (v * 10) + (d - 48) \in Int /\ Power[Width] \in Nat /\ Power[Width] > 0
  BY <1>1 DEF Bytes
<1>. QED
  BY <1>2, Modulo DEF addDigit

\* The loop of digits.
LEMMA ValuesUnfold ==
  ASSUME Sized, NEW b \in Seq(Bytes), NEW p \in Nat
  PROVE  LET v == Totals(b, p)
         IN /\ v \in [0..Len(b) -> Nat] /\ v[0] = 0
            /\ \A n \in 1..Len(b) : v[n] = addDigit(v[n - 1], At(b, p + n - 1))
<1> DEFINE N == Len(b)
           Step == [n \in 1..N |-> [v \in Nat |-> addDigit(v, At(b, p + n - 1))]]
           Is(g) == g = [n \in 0..N |-> IF n = 0 THEN 0 ELSE addDigit(g[n - 1], At(b, p + n - 1))]
<1>0. N \in Nat
  OBVIOUS
<1>1. Step \in [1..N -> [Nat -> Nat]]
  <2>1. ASSUME NEW n \in 1..N, NEW v \in Nat PROVE addDigit(v, At(b, p + n - 1)) \in Nat
    <3>1. p + n - 1 \in Int
      BY <1>0
    <3>2. At(b, p + n - 1) \in Bytes
      BY <3>1, ByteAt
    <3>. QED
      BY <3>2, AddDigitTyped
  <2>. QED
    BY <2>1
<1> HIDE DEF N
<1>2. PICK g : Loop(g, N, Nat, 0, Step)
  <2> HIDE DEF Step
  <2>. QED
    BY <1>0, <1>1, LoopRuns
<1>3. ASSUME NEW n \in 0..N
      PROVE  g[n] = IF n = 0 THEN 0 ELSE addDigit(g[n - 1], At(b, p + n - 1))
  <2>1. g \in [0..N -> Nat] /\ g[0] = 0
    BY <1>2 DEF Loop
  <2>2. CASE n # 0
    <3>1. n \in 1..N /\ n - 1 \in 0..N /\ g[n - 1] \in Nat
      BY <1>0, <2>1, <2>2
    <3>2. g[n] = Step[n][g[n - 1]]
      BY <1>2, <3>1 DEF Loop
    <3>. QED
      BY <2>2, <3>1, <3>2
  <2>. QED
    BY <2>1, <2>2
<1>4. Is(g)
  <2>1. g = [n \in 0..N |-> g[n]]
    BY <1>2 DEF Loop
  <2>. QED
    BY <1>3, <2>1
<1>5. Is(Totals(b, p))
  BY <1>4 DEF Totals, N
<1> DEFINE v == Totals(b, p)
<1> HIDE DEF v
<1>6. v = [n \in 0..N |-> IF n = 0 THEN 0 ELSE addDigit(v[n - 1], At(b, p + n - 1))]
  BY <1>5 DEF v
<1>7. /\ v = [n \in 0..N |-> v[n]] /\ v[0] = 0
      /\ \A n \in 1..N : v[n] = addDigit(v[n - 1], At(b, p + n - 1))
  <2>1. 0 \in 0..N /\ \A n \in 1..N : n \in 0..N /\ n # 0
    BY <1>0
  <2>2. v = [n \in 0..N |-> v[n]] /\ v[0] = 0
    BY <1>6, <2>1
  <2>3. ASSUME NEW n \in 1..N PROVE v[n] = addDigit(v[n - 1], At(b, p + n - 1))
    <3>1. v[n] = IF n = 0 THEN 0 ELSE addDigit(v[n - 1], At(b, p + n - 1))
      BY <1>6, <2>1, Zenon
    <3>. QED
      BY <2>1, <3>1
  <2>. QED
    BY <2>2, <2>3
<1>8. Loop(v, N, Nat, 0, Step)
  <2>1. \A n \in 1..N : v[n - 1] \in Nat => v[n] = Step[n][v[n - 1]]
    BY <1>7
  <2> HIDE DEF Step
  <2>. QED
    BY <1>0, <1>1, <1>7, <2>1, LoopTyped
<1>. QED
  BY <1>7, <1>8 DEF v, Loop, N

\* The last digit of a number.
LEMMA LastDigit ==
  ASSUME NEW y \in Nat
  PROVE  /\ 48 + (y % 10) \in 48..57 /\ (y \div 10) * 10 + ((48 + (y % 10)) - 48) = y
         /\ y > 0 /\ y \div 10 = 0 => 48 + (y % 10) \in 49..57
OBVIOUS

\* While the guard holds, a digit is added without a wrap.
LEMMA NoWrap ==
  ASSUME Sized, NEW b \in Seq(Bytes), NEW p \in Nat, NEW n \in 1..Len(b),
         IsDigit(At(b, p + n - 1)), ~TooLarge(Totals(b, p)[n - 1])
  PROVE  Totals(b, p)[n] = (Totals(b, p)[n - 1] * 10) + (At(b, p + n - 1) - 48)
<1> DEFINE x == Totals(b, p)[n - 1]
           d == At(b, p + n - 1)
           H == Power[Width - 1]
<1>1. n - 1 \in 0..Len(b) /\ x \in Nat /\ Totals(b, p)[n] = ((x * 10) + (d - 48)) % Power[Width]
  <2>1. /\ Totals(b, p) \in [0..Len(b) -> Nat]
        /\ \A m \in 1..Len(b) : Totals(b, p)[m] = addDigit(Totals(b, p)[m - 1], At(b, p + m - 1))
    BY ValuesUnfold
  <2>2. n - 1 \in 0..Len(b)
    OBVIOUS
  <2>3. Totals(b, p)[n] = addDigit(x, d)
    BY <2>1
  <2>. QED
    BY <2>1, <2>2, <2>3 DEF addDigit
<1>2. H \in Nat /\ H >= 16 /\ Power[Width] = 2 * H
  BY PowerFacts
<1>3. d \in 48..57
  BY DEF IsDigit
<1>4. x <= (H - 1) \div 10
  BY <1>1, <1>2, SMTT(40) DEF TooLarge, MaxInt
<1> HIDE DEF x, d, H
<1>5. (x * 10) + (d - 48) \in Nat /\ (x * 10) + (d - 48) < 2 * H
  BY <1>1, <1>2, <1>3, <1>4
<1>6. Totals(b, p)[n] = (x * 10) + (d - 48)
  BY <1>1, <1>2, <1>5, Modulo
<1>. QED
  BY <1>6 DEF x, d

\* How far the digits go.
LEMMA DigitsEnd ==
  ASSUME NEW b \in Seq(Bytes), NEW p \in Nat \ {0}
  PROVE  \E k \in 0..Len(b) :
           /\ ~IsDigit(At(b, p + k)) /\ \A j \in 0..(k - 1) : IsDigit(At(b, p + j))
           /\ Digits(b, p) = IF \E n \in 0..(k - 1) : TooLarge(Totals(b, p)[n]) THEN Reject("number_spelling")
                             ELSE ReadTo(Totals(b, p)[k], p + k)
<1> DEFINE T == {n \in 0..Len(b) : ~IsDigit(At(b, p + n))}
           k == Min(T)
<1>1. Len(b) \in T
  BY DEF At, IsDigit
<1>2. k \in T /\ \A y \in T : k <= y
  <2>1. T \in SUBSET Nat
    OBVIOUS
  <2>. QED
    BY <1>1, <2>1, MinOfPositions
<1>3. k \in 0..Len(b) /\ ~IsDigit(At(b, p + k))
  BY <1>2
<1>4. ASSUME NEW j \in 0..(k - 1) PROVE IsDigit(At(b, p + j))
  <2>1. j \in 0..Len(b) /\ ~(k <= j)
    <3> HIDE DEF k
    <3>. QED
      BY <1>3
  <2>. QED
    BY <1>2, <2>1
<1>5. Digits(b, p) = IF \E n \in 0..(k - 1) : TooLarge(Totals(b, p)[n]) THEN Reject("number_spelling")
                     ELSE ReadTo(Totals(b, p)[k], p + k)
  BY DEF Digits
<1> HIDE DEF k
<1>. QED
  BY <1>3, <1>4, <1>5

\* Where b holds the digits of u and no more, integer reads u.
LEMMA DigitsWritten ==
  ASSUME Sized, NEW u \in 1..Power[Width - 1], NEW b \in Seq(Bytes), NEW p \in Nat \ {0},
         \A i \in 1..Len(Decimal(u)) : At(b, p + i - 1) = Decimal(u)[i],
         ~IsDigit(At(b, p + Len(Decimal(u))))
  PROVE  Digits(b, p) = ReadTo(u, p + Len(Decimal(u))) /\ At(b, p) \in 49..57
<1> DEFINE q == Quotients(u)
           v == Totals(b, p)
           H == Power[Width - 1]
<1>0. H \in Nat /\ H >= 16 /\ H % 5 # 0 /\ Power[Width] = 2 * H /\ Width \in Nat /\ u \in Nat /\ u <= H
  <2>1. H \in Nat /\ H >= 16 /\ H % 5 # 0 /\ Power[Width] = 2 * H
    BY PowerFacts
  <2>2. Width \in Nat
    BY DEF Sized
  <2> HIDE DEF H
  <2>3. u \in Nat /\ u <= H
    BY <2>1 DEF H
  <2>. QED
    BY <2>1, <2>2, <2>3
<1>1. q \in [0..Width -> Nat] /\ q[0] = u /\ \A n \in 1..Width : q[n] = q[n - 1] \div 10
  BY <1>0, QuotientsUnfold
<1>2. PICK m \in 1..Width : /\ q[m] = 0 /\ \A j \in 0..(m - 1) : q[j] > 0
                            /\ Decimal(u) = [i \in 1..m |-> 48 + (q[m - i] % 10)]
  BY DecimalDigits
<1> HIDE DEF q, H
<1>3. Len(Decimal(u)) = m /\ m \in Nat
  BY <1>0, <1>2
<1>4. ASSUME NEW i \in 1..m
      PROVE  /\ m - i \in 0..Width /\ q[m - i] \in Nat
             /\ At(b, p + i - 1) = 48 + (q[m - i] % 10) /\ IsDigit(At(b, p + i - 1))
  <2>1. m - i \in 0..Width
    BY <1>0
  <2>2. q[m - i] \in Nat
    BY <1>1, <2>1
  <2>3. At(b, p + i - 1) = 48 + (q[m - i] % 10)
    BY <1>2, <1>3
  <2>4. 48 + (q[m - i] % 10) \in 48..57
    BY <2>2, LastDigit
  <2>. QED
    BY <2>1, <2>2, <2>3, <2>4 DEF IsDigit
<1>5. PICK k \in 0..Len(b) :
        /\ ~IsDigit(At(b, p + k)) /\ \A j \in 0..(k - 1) : IsDigit(At(b, p + j))
        /\ Digits(b, p) = IF \E n \in 0..(k - 1) : TooLarge(v[n]) THEN Reject("number_spelling")
                          ELSE ReadTo(v[k], p + k)
  BY DigitsEnd
<1>6. k = m
  <2>1. ~(k < m)
    <3> SUFFICES ASSUME k < m PROVE FALSE
      OBVIOUS
    <3>1. k + 1 \in 1..m /\ p + (k + 1) - 1 = p + k
      BY <1>3
    <3>2. IsDigit(At(b, p + k))
      BY <1>4, <3>1
    <3>. QED
      BY <1>5, <3>2
  <2>2. ~(m < k)
    <3> SUFFICES ASSUME m < k PROVE FALSE
      OBVIOUS
    <3>1. m \in 0..(k - 1)
      BY <1>3
    <3>. QED
      BY <1>3, <1>5, <3>1
  <2>. QED
    BY <1>3, <2>1, <2>2
<1>7. v \in [0..Len(b) -> Nat] /\ v[0] = 0 /\ \A n \in 1..Len(b) : v[n] = addDigit(v[n - 1], At(b, p + n - 1))
  BY ValuesUnfold
<1> HIDE DEF v
<1> DEFINE S == {n \in 0..m : v[n] = q[m - n]}
<1>8. 0 \in S
  <2>1. m - 0 = m /\ 0 \in 0..m
    BY <1>3
  <2>. QED
    BY <1>2, <1>7, <2>1
<1>9. ASSUME NEW n \in 0..Width PROVE q[n] <= H
  <2> DEFINE Z == {j \in 0..Width : q[j] <= H}
  <2>1. 0 \in Z
    BY <1>0, <1>1
  <2>2. ASSUME NEW j \in 1..Width, j - 1 \in Z PROVE j \in Z
    <3>1. q[j] = q[j - 1] \div 10 /\ q[j - 1] \in Nat /\ q[j - 1] <= H
      BY <1>0, <1>1, <2>2
    <3>2. q[j] <= H
      BY <1>0, <3>1
    <3>. QED
      BY <3>2
  <2>3. \A j \in 0..Width : j \in Z
    <3> HIDE DEF Z
    <3>. QED
      BY <1>0, <2>1, <2>2, TurnByTurn
  <2>. QED
    BY <2>3
<1>10. ASSUME NEW n \in 1..m, n - 1 \in S PROVE n \in S
  <2> DEFINE j == m - n
             y == q[m - n]
  <2>1. j + 1 \in 1..Width /\ (j + 1) - 1 = j /\ j \in 0..Width /\ m - (n - 1) = j + 1 /\ n \in 1..Len(b)
    BY <1>0, <1>3, <1>5, <1>6
  <2>2. q[j + 1] = y \div 10 /\ y \in Nat /\ y <= H
    BY <1>1, <1>9, <2>1
  <2>3. v[n - 1] = y \div 10
    BY <1>10, <2>1, <2>2
  <2>4. At(b, p + n - 1) = 48 + (y % 10)
    BY <1>4
  <2>5. v[n] = addDigit(y \div 10, 48 + (y % 10))
    BY <1>7, <2>1, <2>3, <2>4
  <2> HIDE DEF y
  <2>6. ((y \div 10) * 10) + ((48 + (y % 10)) - 48) = y
    BY <2>2
  <2>7. v[n] = y % Power[Width]
    BY <2>5, <2>6 DEF addDigit
  <2>8. y % Power[Width] = y
    <3>1. Power[Width] \in Nat /\ Power[Width] > 0 /\ 0 <= y /\ y < Power[Width] /\ y \in Int
      BY <1>0, <2>2
    <3>. QED
      BY <3>1, Modulo
  <2>. QED
    BY <2>7, <2>8 DEF y
<1>11. \A n \in 0..m : n \in S
  <2> HIDE DEF S
  <2>. QED
    BY <1>3, <1>8, <1>10, TurnByTurn
<1>12. v[m] = u
  <2>1. m \in 0..m /\ m - m = 0
    BY <1>3
  <2>. QED
    BY <1>1, <1>11, <2>1
<1>13. ASSUME NEW n \in 0..(m - 1) PROVE ~TooLarge(v[n])
  <2> DEFINE Z == {j \in 0..Width : j >= 1 => q[j] <= u \div 10}
  <2>1. 0 \in Z
    BY <1>0
  <2>2. ASSUME NEW j \in 1..Width, j - 1 \in Z PROVE j \in Z
    <3>1. q[j] = q[j - 1] \div 10 /\ q[j - 1] \in Nat
      BY <1>0, <1>1
    <3>2. CASE j = 1
      <4>1. q[j] = u \div 10
        BY <1>1, <3>1, <3>2
      <4>. QED
        BY <1>0, <4>1
    <3>3. CASE j > 1
      <4>1. q[j - 1] <= u \div 10
        BY <2>2, <3>3
      <4>2. q[j] <= u \div 10
        BY <1>0, <3>1, <4>1
      <4>. QED
        BY <4>2
    <3>. QED
      BY <3>2, <3>3
  <2>3. \A j \in 0..Width : j \in Z
    <3> HIDE DEF Z
    <3>. QED
      BY <1>0, <2>1, <2>2, TurnByTurn
  <2>4. m - n \in 0..Width /\ m - n >= 1 /\ n \in 0..m
    BY <1>0, <1>3
  <2>5. v[n] <= u \div 10
    BY <1>11, <2>3, <2>4
  <2>6. u \div 10 <= (H - 1) \div 10
    BY <1>0
  <2>7. v[n] \in Nat
    <3>1. n \in 0..Len(b)
      BY <1>3, <1>5, <1>6
    <3>. QED
      BY <1>7, <3>1
  <2>8. u \div 10 \in Int /\ (H - 1) \div 10 \in Int
    BY <1>0
  <2>9. ~(v[n] > (H - 1) \div 10)
    BY <2>5, <2>6, <2>7, <2>8
  <2>. QED
    BY <2>9 DEF TooLarge, MaxInt, H
<1>14. At(b, p) \in 49..57
  <2>1. 1 \in 1..m /\ m - 1 \in 0..(m - 1) /\ p + 1 - 1 = p /\ m \in 1..Width /\ m - 1 \in 0..Width
    BY <1>0, <1>3
  <2>2. q[m - 1] > 0 /\ q[m - 1] \in Nat /\ q[m - 1] \div 10 = 0
    BY <1>1, <1>2, <2>1
  <2>3. At(b, p) = 48 + (q[m - 1] % 10)
    BY <1>4, <2>1
  <2>. QED
    BY <2>2, <2>3, LastDigit
<1>15. Digits(b, p) = ReadTo(u, p + m)
  BY <1>5, <1>6, <1>12, <1>13
<1>. QED
  BY <1>3, <1>14, <1>15

\* And the digits integer reads are those of what it reads.
LEMMA DigitsRead ==
  ASSUME Sized, NEW b \in Seq(Bytes), NEW p \in Nat \ {0}, At(b, p) \in 49..57,
         Digits(b, p).word = "nil", Digits(b, p).value \in 0..Power[Width - 1]
  PROVE  LET u == Digits(b, p).value
         IN /\ u \in 1..Power[Width - 1] /\ Digits(b, p).pos = p + Len(Decimal(u))
            /\ \A i \in 1..Len(Decimal(u)) : Decimal(u)[i] = At(b, p + i - 1)
<1> DEFINE v == Totals(b, p)
           H == Power[Width - 1]
<1>0. H \in Nat /\ Width \in Nat
  <2>1. H \in Nat
    BY PowerFacts
  <2>2. Width \in Nat
    BY DEF Sized
  <2>. QED
    BY <2>1, <2>2
<1>1. PICK k \in 0..Len(b) :
        /\ ~IsDigit(At(b, p + k)) /\ \A j \in 0..(k - 1) : IsDigit(At(b, p + j))
        /\ Digits(b, p) = IF \E n \in 0..(k - 1) : TooLarge(v[n]) THEN Reject("number_spelling")
                          ELSE ReadTo(v[k], p + k)
  BY DigitsEnd
<1>2. (\A n \in 0..(k - 1) : ~TooLarge(v[n])) /\ Digits(b, p) = ReadTo(v[k], p + k)
  BY <1>1 DEF Reject
<1>3. k # 0
  <2>1. p + 0 = p
    OBVIOUS
  <2>. QED
    BY <1>1, <2>1 DEF IsDigit
<1>4. v \in [0..Len(b) -> Nat] /\ v[0] = 0
  BY ValuesUnfold
<1>5. ASSUME NEW n \in 1..k
      PROVE  /\ v[n] = (v[n - 1] * 10) + (At(b, p + n - 1) - 48) /\ At(b, p + n - 1) \in 48..57
             /\ n - 1 \in 0..Len(b) /\ n \in 0..Len(b)
  <2>1. n - 1 \in 0..(k - 1) /\ n \in 1..Len(b) /\ n - 1 \in 0..Len(b) /\ n \in 0..Len(b) /\ p + (n - 1) = p + n - 1
    OBVIOUS
  <2>2. IsDigit(At(b, p + n - 1)) /\ ~TooLarge(v[n - 1])
    BY <1>1, <1>2, <2>1
  <2>3. v[n] = (v[n - 1] * 10) + (At(b, p + n - 1) - 48)
    BY <2>1, <2>2, NoWrap
  <2>. QED
    BY <2>1, <2>2, <2>3 DEF IsDigit
<1> HIDE DEF v, H
<1> DEFINE S == {n \in 0..k : n >= 1 => v[n] >= 1}
<1>6. 0 \in S
  OBVIOUS
<1>7. ASSUME NEW n \in 1..k, n - 1 \in S PROVE n \in S
  <2>1. v[n] = (v[n - 1] * 10) + (At(b, p + n - 1) - 48) /\ At(b, p + n - 1) \in 48..57 /\ v[n - 1] \in Nat
    BY <1>4, <1>5
  <2>2. CASE n = 1
    <3>1. At(b, p + n - 1) \in 49..57
      <4>1. p + n - 1 = p
        BY <2>2
      <4>. QED
        BY <4>1
    <3> DEFINE x == v[n - 1]
               d == At(b, p + n - 1)
    <3>2. x \in Nat /\ d \in 49..57 /\ v[n] = (x * 10) + (d - 48)
      BY <2>1, <3>1
    <3> HIDE DEF x, d
    <3>3. v[n] >= 1
      BY <3>2
    <3>. QED
      BY <3>3
  <2>3. CASE n > 1
    <3>1. v[n - 1] >= 1
      BY <1>7, <2>3
    <3> DEFINE x == v[n - 1]
               d == At(b, p + n - 1)
    <3>2. x \in Nat /\ x >= 1 /\ d \in 48..57 /\ v[n] = (x * 10) + (d - 48)
      BY <2>1, <3>1
    <3> HIDE DEF x, d
    <3>3. v[n] >= 1
      BY <3>2
    <3>. QED
      BY <3>3
  <2>. QED
    BY <2>2, <2>3
<1>8. \A n \in 1..k : v[n] >= 1
  <2>1. \A n \in 0..k : n \in S
    <3> HIDE DEF S
    <3>. QED
      BY <1>6, <1>7, TurnByTurn, k \in Nat
  <2>. QED
    BY <2>1
<1> DEFINE u == v[k]
<1>9. u = Digits(b, p).value /\ Digits(b, p).pos = p + k /\ u \in 1..H /\ u \in Nat
  <2>1. u = Digits(b, p).value /\ Digits(b, p).pos = p + k
    BY <1>2 DEF ReadTo
  <2>2. u \in 0..H
    BY <2>1 DEF H
  <2>3. k \in 1..k
    BY <1>3
  <2>4. u >= 1
    BY <1>8, <2>3
  <2>. QED
    BY <1>0, <2>1, <2>2, <2>4
<1> DEFINE q == Quotients(u)
<1> HIDE DEF u
<1>10. q \in [0..Width -> Nat] /\ q[0] = u /\ \A n \in 1..Width : q[n] = q[n - 1] \div 10
  BY <1>9, QuotientsUnfold
<1>11. PICK m \in 1..Width : /\ q[m] = 0 /\ \A j \in 0..(m - 1) : q[j] > 0
                             /\ Decimal(u) = [i \in 1..m |-> 48 + (q[m - i] % 10)]
  BY <1>9, DecimalDigits DEF H
<1> HIDE DEF q
<1> DEFINE Z == {j \in 0..Width : j <= k => q[j] = v[k - j]}
<1>12. 0 \in Z
  BY <1>0, <1>10 DEF u
<1>13. ASSUME NEW j \in 1..Width, j - 1 \in Z PROVE j \in Z
  <2>1. CASE j <= k
    <3>1. k - (j - 1) \in 1..k /\ (k - (j - 1)) - 1 = k - j /\ j - 1 <= k
      BY <1>0, <2>1
    <3> DEFINE n == k - (j - 1)
               d == At(b, p + n - 1)
    <3>2. v[n] = (v[n - 1] * 10) + (d - 48) /\ d \in 48..57 /\ n - 1 = k - j /\ v[n - 1] \in Nat
      BY <1>4, <1>5, <3>1
    <3>3. q[j - 1] = v[n]
      BY <1>13, <3>1
    <3>4. q[j] = q[j - 1] \div 10
      BY <1>10
    <3> HIDE DEF n, d
    <3>5. q[j] = v[n - 1]
      <4> DEFINE x == v[n - 1]
      <4>1. x \in Nat /\ d \in 48..57 /\ q[j] = ((x * 10) + (d - 48)) \div 10
        BY <3>2, <3>3, <3>4
      <4> HIDE DEF x
      <4>2. ((x * 10) + (d - 48)) \div 10 = x
        BY <4>1
      <4>. QED
        BY <4>1, <4>2 DEF x
    <3>. QED
      BY <3>2, <3>5
  <2>2. CASE ~(j <= k)
    BY <2>2
  <2>. QED
    BY <2>1, <2>2
<1>14. \A j \in 0..Width : j <= k => q[j] = v[k - j]
  <2>1. \A j \in 0..Width : j \in Z
    <3> HIDE DEF Z
    <3>. QED
      BY <1>0, <1>12, <1>13, TurnByTurn
  <2>. QED
    BY <2>1
<1>15. m = k
  <2>1. ~(m < k)
    <3> SUFFICES ASSUME m < k PROVE FALSE
      OBVIOUS
    <3>1. m \in 0..Width /\ k - m \in 1..k
      BY <1>0
    <3>2. q[m] = v[k - m]
      BY <1>14, <3>1
    <3>. QED
      BY <1>8, <1>11, <3>1, <3>2
  <2>2. ~(k < m)
    <3> SUFFICES ASSUME k < m PROVE FALSE
      OBVIOUS
    <3>1. k \in 0..Width /\ k - k = 0 /\ k \in 0..(m - 1)
      BY <1>0
    <3>2. q[k] = 0
      BY <1>4, <1>14, <3>1
    <3>3. q[k] > 0
      BY <1>11, <3>1
    <3>. QED
      BY <3>2, <3>3
  <2>. QED
    BY <1>0, <2>1, <2>2
<1>16. Len(Decimal(u)) = k
  BY <1>11, <1>15
<1>17. ASSUME NEW i \in 1..k PROVE Decimal(u)[i] = At(b, p + i - 1)
  <2>1. k - i \in 0..Width /\ k - i <= k /\ k - (k - i) = i
    BY <1>0, <1>15
  <2>2. Decimal(u)[i] = 48 + (q[k - i] % 10)
    BY <1>11, <1>15
  <2>3. q[k - i] = v[i]
    BY <1>14, <2>1
  <2>4. v[i] = (v[i - 1] * 10) + (At(b, p + i - 1) - 48) /\ At(b, p + i - 1) \in 48..57 /\ v[i - 1] \in Nat
    BY <1>4, <1>5
  <2> DEFINE d == At(b, p + i - 1)
             x == v[i - 1]
  <2>5. x \in Nat /\ d \in 48..57 /\ v[i] = (x * 10) + (d - 48)
    BY <2>4
  <2> HIDE DEF d, x
  <2>6. ((x * 10) + (d - 48)) % 10 = d - 48
    BY <2>5
  <2>7. Decimal(u)[i] = 48 + (d - 48)
    BY <2>2, <2>3, <2>5, <2>6
  <2>. QED
    BY <2>5, <2>7, SMTT(40) DEF d
<1>. QED
  BY <1>9, <1>16, <1>17 DEF H

-----------------------------------------------------------------------------
(***************************************************************************)
(* integer.                                                                *)
(***************************************************************************)
First(b) == IF At(b, 1) = Minus THEN 2 ELSE 1
Unsigned(b) == IF At(b, First(b)) = 48 THEN ReadTo(0, First(b) + 1) ELSE Digits(b, First(b))
Signed(b) == IF At(b, 1) = Minus THEN -Unsigned(b).value ELSE Unsigned(b).value
Misspelled(b, min, max) ==
  \/ Unsigned(b).word # "nil"
  \/ At(b, Unsigned(b).pos) \in {46, 69, 101} \cup 48..57
  \/ At(b, 1) = Minus /\ Signed(b) = 0
  \/ Signed(b) > MaxInt \/ Signed(b) < MinInt
  \/ Signed(b) < min \/ Signed(b) > max

\* integer in its order of tests.
LEMMA IntegerCases ==
  ASSUME NEW b, NEW min, NEW max
  PROVE  /\ ~IsDigit(At(b, First(b))) => integer(b, min, max).word # "nil"
         /\ IsDigit(At(b, First(b))) =>
              integer(b, min, max) = IF Misspelled(b, min, max) THEN Reject("number_spelling")
                                     ELSE ReadTo(Signed(b), Unsigned(b).pos)
<1> DEFINE neg == At(b, 1) = Minus
           d == At(b, First(b))
           w == integer(b, min, max)
<1>1. w = CASE ~neg /\ ~IsDigit(d) -> Reject("wrong_type")
            [] neg /\ ~IsDigit(d) -> Reject("malformed")
            [] IsDigit(d) /\ Misspelled(b, min, max) -> Reject("number_spelling")
            [] OTHER -> ReadTo(Signed(b), Unsigned(b).pos)
  BY DEF integer, First, Unsigned, Signed, Misspelled
<1> HIDE DEF neg, d, w
<1>2. ASSUME ~IsDigit(d) PROVE w.word # "nil"
  <2>1. w = Reject("wrong_type") \/ w = Reject("malformed")
    BY <1>1, <1>2
  <2>. QED
    BY <2>1 DEF Reject
<1>3. ASSUME IsDigit(d) PROVE w = IF Misspelled(b, min, max) THEN Reject("number_spelling")
                                  ELSE ReadTo(Signed(b), Unsigned(b).pos)
  BY <1>1, <1>3
<1>. QED
  BY <1>2, <1>3 DEF d, w

\* The digits of a number are digits.
LEMMA DecimalTyped ==
  ASSUME Sized, NEW u \in 1..Power[Width - 1]
  PROVE  Decimal(u) \in Seq(Bytes) /\ Len(Decimal(u)) \in Nat \ {0} /\ \A i \in 1..Len(Decimal(u)) : Decimal(u)[i] \in 48..57
<1> DEFINE q == Quotients(u)
<1>0. Power[Width - 1] \in Nat
  BY PowerFacts
<1>1. Width \in Nat /\ u \in Nat
  <2>1. Width \in Nat
    BY DEF Sized
  <2>. QED
    BY <1>0, <2>1
<1>2. q \in [0..Width -> Nat]
  BY <1>1, QuotientsUnfold
<1>3. PICK k \in 1..Width : Decimal(u) = [i \in 1..k |-> 48 + (q[k - i] % 10)]
  BY DecimalDigits
<1> HIDE DEF q
<1>4. ASSUME NEW i \in 1..k PROVE 48 + (q[k - i] % 10) \in 48..57
  <2>1. k - i \in 0..Width
    BY <1>1
  <2>2. q[k - i] \in Nat
    BY <1>2, <2>1
  <2>. QED
    BY <2>2, LastDigit
<1>5. \A i \in 1..k : Decimal(u)[i] \in 48..57
  BY <1>3, <1>4
<1>6. Decimal(u) = [i \in 1..k |-> Decimal(u)[i]] /\ k \in Nat
  BY <1>1, <1>3
<1>7. Decimal(u) \in Seq(Bytes) /\ Len(Decimal(u)) = k
  <2>1. \A i \in 1..k : Decimal(u)[i] \in Bytes
    BY <1>5 DEF Bytes
  <2>. QED
    BY <1>6, <2>1
<1>. QED
  BY <1>5, <1>7

\* integer reads what num writes.
LEMMA NumRead ==
  ASSUME Sized, NEW min \in Int, NEW max \in Int, NEW n \in min..max, MinInt <= n, n <= MaxInt
  PROVE  num(n) \in Seq(Bytes) /\ integer(num(n), min, max) = ReadTo(n, Len(num(n)) + 1)
<1> DEFINE H == Power[Width - 1]
           b == num(n)
<1>0. H \in Nat /\ H >= 16 /\ n \in Int /\ -H <= n /\ n <= H - 1 /\ ~(n > MaxInt) /\ ~(n < MinInt)
  <2>1. H \in Nat /\ H >= 16
    BY PowerFacts
  <2>2. MaxInt = H - 1 /\ MinInt = -H
    BY DEF MaxInt, MinInt
  <2> HIDE DEF H
  <2>. QED
    BY <2>1, <2>2
<1>1. ~(n < min) /\ ~(n > max)
  OBVIOUS
<1>2. CASE n = 0
  <2>1. b = <<48>>
    BY <1>2 DEF num
  <2>2. b \in Seq(Bytes) /\ Len(b) = 1 /\ At(b, 1) = 48 /\ At(b, 2) = 0
    BY <2>1 DEF Bytes, At
  <2> HIDE DEF b
  <2>3. First(b) = 1 /\ At(b, First(b)) = 48
    BY <2>2 DEF First, Minus
  <2>4. Unsigned(b) = ReadTo(0, 2)
    BY <2>3 DEF Unsigned
  <2>5. Unsigned(b).word = "nil" /\ Unsigned(b).pos = 2 /\ Signed(b) = 0
    BY <2>2, <2>4 DEF Signed, ReadTo, Minus
  <2>6. ~Misspelled(b, min, max)
    BY <1>0, <1>1, <1>2, <2>2, <2>5 DEF Misspelled, Minus
  <2>7. IsDigit(At(b, First(b)))
    BY <2>3 DEF IsDigit
  <2>8. integer(b, min, max) = ReadTo(0, 2)
    BY <2>5, <2>6, <2>7, IntegerCases
  <2>9. integer(b, min, max) = ReadTo(n, Len(b) + 1)
    <3>1. Len(b) + 1 = 2
      BY <2>2
    <3>. QED
      BY <1>2, <2>8, <3>1
  <2>. QED
    BY <2>2, <2>9 DEF b
<1>3. CASE n > 0
  <2>1. n \in 1..H
    BY <1>0, <1>3
  <2>2. b = Decimal(n)
    BY <1>0, <1>3 DEF num
  <2>3. b \in Seq(Bytes) /\ Len(b) \in Nat \ {0} /\ \A i \in 1..Len(b) : b[i] \in 48..57
    BY <2>1, <2>2, DecimalTyped
  <2> HIDE DEF b
  <2>4. At(b, 1) \in 48..57 /\ At(b, 1 + Len(b)) = 0 /\ \A i \in 1..Len(b) : At(b, 1 + i - 1) = b[i]
    BY <2>3 DEF At
  <2>5. Digits(b, 1) = ReadTo(n, 1 + Len(b)) /\ At(b, 1) \in 49..57
    <3>1. ~IsDigit(At(b, 1 + Len(b)))
      BY <2>4 DEF IsDigit
    <3>. QED
      BY <2>1, <2>2, <2>3, <2>4, <3>1, DigitsWritten DEF H
  <2>6. First(b) = 1
    BY <2>5 DEF First, Minus
  <2>7. Unsigned(b) = ReadTo(n, 1 + Len(b)) /\ IsDigit(At(b, First(b)))
    BY <2>5, <2>6 DEF Unsigned, IsDigit
  <2>8. Unsigned(b).word = "nil" /\ Unsigned(b).pos = 1 + Len(b) /\ Signed(b) = n
    BY <2>5, <2>7 DEF Signed, ReadTo, Minus
  <2>9. ~Misspelled(b, min, max)
    <3>1. At(b, Unsigned(b).pos) = 0 /\ At(b, 1) # Minus
      BY <2>4, <2>5, <2>8 DEF Minus
    <3>. QED
      BY <1>0, <1>1, <2>8, <3>1, SMTT(40) DEF Misspelled
  <2>10. integer(b, min, max) = ReadTo(n, 1 + Len(b))
    BY <2>7, <2>8, <2>9, IntegerCases
  <2>11. 1 + Len(b) = Len(b) + 1
    BY <2>3
  <2>. QED
    BY <2>3, <2>10, <2>11 DEF b
<1>4. CASE n < 0
  <2> DEFINE u == -n
             a == Decimal(u)
  <2>1. u \in 1..H
    BY <1>0, <1>4
  <2>2. b = <<Minus>> \o a
    BY <1>0, <1>4 DEF num
  <2>3. a \in Seq(Bytes) /\ Len(a) \in Nat \ {0} /\ \A i \in 1..Len(a) : a[i] \in 48..57
    BY <2>1, DecimalTyped
  <2> HIDE DEF a, b, u
  <2>4. b \in Seq(Bytes) /\ Len(b) = Len(a) + 1 /\ b[1] = Minus /\ \A i \in 1..Len(a) : b[i + 1] = a[i]
    <3>1. Minus \in Bytes
      BY DEF Minus, Bytes
    <3>. QED
      BY <2>2, <2>3, <3>1
  <2>5. At(b, 1) = Minus /\ At(b, 2 + Len(a)) = 0
    BY <2>3, <2>4 DEF At
  <2>6. ASSUME NEW i \in 1..Len(a) PROVE At(b, 2 + i - 1) = a[i]
    <3>1. 2 + i - 1 = i + 1 /\ i + 1 \in 1..Len(b)
      BY <2>3, <2>4
    <3>. QED
      BY <2>4, <3>1 DEF At
  <2>7. Digits(b, 2) = ReadTo(u, 2 + Len(a)) /\ At(b, 2) \in 49..57
    <3>1. ~IsDigit(At(b, 2 + Len(a)))
      BY <2>5 DEF IsDigit
    <3>. QED
      BY <2>1, <2>4, <2>6, <3>1, DigitsWritten DEF H, a
  <2>8. First(b) = 2
    BY <2>5 DEF First
  <2>9. Unsigned(b) = ReadTo(u, 2 + Len(a)) /\ IsDigit(At(b, First(b)))
    BY <2>7, <2>8 DEF Unsigned, IsDigit
  <2>10. Unsigned(b).word = "nil" /\ Unsigned(b).pos = 2 + Len(a) /\ Signed(b) = n
    BY <1>0, <2>5, <2>9 DEF Signed, ReadTo, u
  <2>11. ~Misspelled(b, min, max)
    BY <1>0, <1>1, <1>4, <2>5, <2>10, SMTT(40) DEF Misspelled
  <2>12. integer(b, min, max) = ReadTo(n, 2 + Len(a))
    BY <2>9, <2>10, <2>11, IntegerCases
  <2>13. 2 + Len(a) = Len(b) + 1
    BY <2>3, <2>4
  <2>. QED
    BY <2>4, <2>12, <2>13 DEF b
<1>. QED
  BY <1>0, <1>2, <1>3, <1>4

\* There is one zero.
LEMMA NoMinusZero == \A i \in Int : i <= 0 /\ i >= 0 => -i = 0
OBVIOUS

\* And what it reads to the end, num writes.
LEMMA ReadNum ==
  ASSUME Sized, NEW min \in Int, NEW max \in Int, NEW b \in Seq(Bytes),
         integer(b, min, max).word = "nil", integer(b, min, max).pos = Len(b) + 1
  PROVE  LET n == integer(b, min, max).value
         IN n \in min..max /\ num(n) = b
<1> DEFINE H == Power[Width - 1]
           p == First(b)
           n == Signed(b)
<1>0. H \in Nat /\ H >= 16 /\ MaxInt = H - 1 /\ MinInt = -H
  BY PowerFacts DEF MaxInt, MinInt
<1>1. IsDigit(At(b, p)) /\ p \in {1, 2}
  BY IntegerCases DEF First
<1>2. /\ ~Misspelled(b, min, max) /\ integer(b, min, max).value = n
      /\ Unsigned(b).pos = Len(b) + 1 /\ Unsigned(b).word = "nil"
  <2>1. integer(b, min, max) = IF Misspelled(b, min, max) THEN Reject("number_spelling")
                               ELSE ReadTo(Signed(b), Unsigned(b).pos)
    BY <1>1, IntegerCases
  <2>2. ~Misspelled(b, min, max)
    BY <2>1 DEF Reject
  <2>3. Unsigned(b).word = "nil"
    BY <2>2 DEF Misspelled
  <2>. QED
    BY <2>1, <2>2, <2>3 DEF ReadTo
<1> HIDE DEF p
<1>3. CASE At(b, p) = 48
  <2>1. Unsigned(b) = ReadTo(0, p + 1)
    BY <1>3 DEF Unsigned, p
  <2>2. Unsigned(b).value = 0 /\ p = Len(b)
    BY <1>1, <1>2, <2>1 DEF ReadTo
  <2>3. n = 0 /\ At(b, 1) # Minus
    <3> DEFINE z == Unsigned(b).value
    <3>1. n = 0
      <4>1. n = IF At(b, 1) = Minus THEN -z ELSE z
        BY DEF Signed
      <4>2. z = 0
        BY <2>2
      <4> HIDE DEF z, n
      <4>3. -z = 0
        <5>1. z \in Int /\ z <= 0 /\ z >= 0
          BY <4>2
        <5>. QED
          BY <5>1, NoMinusZero
      <4>. QED
        BY <4>1, <4>2, <4>3
    <3>. QED
      BY <1>2, <3>1 DEF Misspelled
  <2>4. p = 1
    BY <2>3 DEF First, p
  <2>5. Len(b) = 1 /\ b[1] = 48
    BY <1>3, <2>2, <2>4 DEF At
  <2>6. b = <<48>> /\ num(n) = <<48>>
    <3>1. b = <<48>>
      BY <2>5
    <3>. QED
      BY <2>3, <3>1 DEF num
  <2>7. n \in min..max
    BY <1>2, <2>3 DEF Misspelled
  <2>. QED
    BY <1>2, <2>6, <2>7
<1>4. CASE At(b, p) # 48
  <2> DEFINE u == Digits(b, p).value
             a == Decimal(u)
  <2>1. Unsigned(b) = Digits(b, p) /\ At(b, p) \in 49..57
    BY <1>1, <1>4 DEF Unsigned, IsDigit, p
  <2>2. u \in Nat
    <3>1. PICK k \in 0..Len(b) :
            Digits(b, p) = IF \E i \in 0..(k - 1) : TooLarge(Totals(b, p)[i]) THEN Reject("number_spelling")
                           ELSE ReadTo(Totals(b, p)[k], p + k)
      <4>1. p \in Nat \ {0}
        BY <1>1
      <4>2. \E k \in 0..Len(b) :
              /\ ~IsDigit(At(b, p + k)) /\ \A j \in 0..(k - 1) : IsDigit(At(b, p + j))
              /\ Digits(b, p) = IF \E n_1 \in 0..(k - 1) : TooLarge(Totals(b, p)[n_1]) THEN Reject("number_spelling")
                                ELSE ReadTo(Totals(b, p)[k], p + k)
        BY <4>1, DigitsEnd
      <4>. QED
        BY <4>2
    <3>2. Digits(b, p) = ReadTo(Totals(b, p)[k], p + k)
      BY <1>2, <2>1, <3>1 DEF Reject
    <3>3. Totals(b, p)[k] \in Nat
      BY <1>1, ValuesUnfold
    <3>. QED
      BY <3>2, <3>3 DEF ReadTo
  <2> HIDE DEF u
  <2>3. n = (IF At(b, 1) = Minus THEN -u ELSE u) /\ n \in Int
    BY <2>1, <2>2 DEF Signed, u
  <2>4. ~(n > MaxInt) /\ ~(n < MinInt) /\ ~(n < min) /\ ~(n > max)
    BY <1>2 DEF Misspelled
  <2> HIDE DEF n, H
  <2>5. n \in min..max
    BY <2>3, <2>4
  <2>6. u \in 0..H
    BY <1>0, <2>2, <2>3, <2>4
  <2>7. /\ u \in 1..H /\ Digits(b, p).pos = p + Len(a)
        /\ \A i \in 1..Len(a) : a[i] = At(b, p + i - 1)
    <3>1. p \in Nat \ {0} /\ Digits(b, p).word = "nil" /\ At(b, p) \in 49..57 /\ u \in 0..Power[Width - 1]
      BY <1>1, <1>2, <2>1, <2>6 DEF H
    <3>. QED
      BY <3>1, DigitsRead DEF u, H
  <2>8. a \in Seq(Bytes) /\ Len(a) \in Nat
    BY <2>7, DecimalTyped DEF H
  <2> HIDE DEF a
  <2>9. CASE At(b, 1) = Minus
    <3>1. p = 2 /\ Len(b) + 1 = 2 + Len(a) /\ n = -u
      BY <1>2, <2>1, <2>3, <2>7, <2>9 DEF First, p
    <3>2. num(n) = <<Minus>> \o a
      <4>1. n < 0 /\ n # 0 /\ ~(n > 0) /\ -n = u
        BY <1>0, <2>2, <2>7, <3>1
      <4>. QED
        BY <4>1 DEF num, a
    <3> DEFINE c == <<Minus>> \o a
    <3>3. c \in Seq(Bytes) /\ Len(c) = Len(b) /\ c[1] = Minus /\ \A i \in 1..Len(a) : c[i + 1] = a[i]
      <4>1. Minus \in Bytes
        BY DEF Minus, Bytes
      <4>. QED
        BY <2>8, <3>1, <4>1
    <3> HIDE DEF c
    <3>4. ASSUME NEW j \in 1..Len(b) PROVE b[j] = c[j]
      <4>1. CASE j = 1
        BY <2>9, <3>3, <4>1 DEF At
      <4>2. CASE j # 1
        <5>1. j - 1 \in 1..Len(a) /\ p + (j - 1) - 1 = j /\ (j - 1) + 1 = j
          BY <2>8, <3>1, <4>2
        <5>2. a[j - 1] = At(b, j) /\ c[j] = a[j - 1]
          BY <2>7, <3>3, <5>1
        <5>. QED
          BY <5>2 DEF At
      <4>. QED
        BY <4>1, <4>2
    <3>5. b = c
      BY <3>3, <3>4, SeqEqual
    <3>. QED
      BY <1>2, <2>5, <3>2, <3>5 DEF c
  <2>10. CASE At(b, 1) # Minus
    <3>1. p = 1 /\ Len(b) + 1 = 1 + Len(a) /\ n = u
      BY <1>2, <2>1, <2>3, <2>7, <2>10 DEF First, p
    <3>2. num(n) = a
      <4>1. n > 0 /\ n # 0 /\ ~(n < 0)
        BY <1>0, <2>2, <2>7, <3>1
      <4>. QED
        BY <3>1, <4>1 DEF num, a
    <3>3. Len(a) = Len(b)
      BY <2>8, <3>1
    <3>4. ASSUME NEW j \in 1..Len(b) PROVE b[j] = a[j]
      <4>1. p + j - 1 = j /\ j \in 1..Len(a)
        BY <3>1, <3>3
      <4>2. a[j] = At(b, j)
        BY <2>7, <4>1
      <4>. QED
        BY <4>2 DEF At
    <3>5. b = a
      BY <2>8, <3>3, <3>4, SeqEqual
    <3>. QED
      BY <1>2, <2>5, <3>2, <3>5
  <2>. QED
    BY <2>9, <2>10
<1>. QED
  BY <1>3, <1>4

-----------------------------------------------------------------------------
(***************************************************************************)
(* UTF-8: the arithmetic of validUTF8 and the table of Unicode.            *)
(***************************************************************************)
\* What a table entry says of the bytes at i.
LEMMA FitsOne ==
  ASSUME NEW b \in Seq(Bytes), NEW i \in 1..Len(b), NEW A
  PROVE  FitsAt(b, i, <<A>>) <=> b[i] \in A
<1>1. Len(<<A>>) = 1 /\ <<A>>[1] = A /\ 1..1 = {1} /\ i + 1 - 1 = i
  OBVIOUS
<1>. QED
  BY <1>1 DEF FitsAt

\* FitsAt, row by row: two bytes.
LEMMA FitsTwo ==
  ASSUME NEW b \in Seq(Bytes), NEW i \in 1..Len(b), NEW A, NEW B
  PROVE  FitsAt(b, i, <<A, B>>) <=> i + 1 <= Len(b) /\ b[i] \in A /\ b[i + 1] \in B
<1> DEFINE r == <<A, B>>
<1>1. Len(r) = 2 /\ r[1] = A /\ r[2] = B
  OBVIOUS
<1> HIDE DEF r
<1>2. 1..2 = {1, 2} /\ i + 1 - 1 = i /\ i + 2 - 1 = i + 1
  OBVIOUS
<1>3. FitsAt(b, i, r) <=> i + 1 <= Len(b) /\ b[i] \in A /\ b[i + 1] \in B
  BY <1>1, <1>2 DEF FitsAt
<1>. QED
  BY <1>3 DEF r

\* Three bytes.
LEMMA FitsThree ==
  ASSUME NEW b \in Seq(Bytes), NEW i \in 1..Len(b), NEW A, NEW B, NEW C
  PROVE  FitsAt(b, i, <<A, B, C>>) <=> i + 2 <= Len(b) /\ b[i] \in A /\ b[i + 1] \in B /\ b[i + 2] \in C
<1> DEFINE r == <<A, B, C>>
<1>1. Len(r) = 3 /\ r[1] = A /\ r[2] = B /\ r[3] = C
  OBVIOUS
<1> HIDE DEF r
<1>2. 1..3 = {1, 2, 3} /\ i + 1 - 1 = i /\ i + 2 - 1 = i + 1 /\ i + 3 - 1 = i + 2
  OBVIOUS
<1>3. FitsAt(b, i, r) <=> i + 2 <= Len(b) /\ b[i] \in A /\ b[i + 1] \in B /\ b[i + 2] \in C
  BY <1>1, <1>2 DEF FitsAt
<1>. QED
  BY <1>3 DEF r

\* Four bytes.
LEMMA FitsFour ==
  ASSUME NEW b \in Seq(Bytes), NEW i \in 1..Len(b), NEW A, NEW B, NEW C, NEW D
  PROVE  FitsAt(b, i, <<A, B, C, D>>) <=>
           i + 3 <= Len(b) /\ b[i] \in A /\ b[i + 1] \in B /\ b[i + 2] \in C /\ b[i + 3] \in D
<1> DEFINE r == <<A, B, C, D>>
<1>1. Len(r) = 4 /\ r[1] = A /\ r[2] = B /\ r[3] = C /\ r[4] = D
  OBVIOUS
<1> HIDE DEF r
<1>2. 1..4 = {1, 2, 3, 4} /\ i + 1 - 1 = i /\ i + 2 - 1 = i + 1 /\ i + 3 - 1 = i + 2 /\ i + 4 - 1 = i + 3
  OBVIOUS
<1>3. FitsAt(b, i, r) <=> i + 3 <= Len(b) /\ b[i] \in A /\ b[i + 1] \in B /\ b[i + 2] \in C /\ b[i + 3] \in D
  BY <1>1, <1>2 DEF FitsAt
<1>. QED
  BY <1>3 DEF r

\* The table by the number of bytes.
Formed(b, i, n) ==
  \/ n = 1 /\ b[i] \in 0..127
  \/ n = 2 /\ i + 1 <= Len(b) /\ b[i] \in 194..223 /\ b[i + 1] \in 128..191
  \/ /\ n = 3 /\ i + 2 <= Len(b) /\ b[i + 2] \in 128..191
     /\ \/ b[i] = 224 /\ b[i + 1] \in 160..191
        \/ b[i] \in (225..236) \cup {238, 239} /\ b[i + 1] \in 128..191
        \/ b[i] = 237 /\ b[i + 1] \in 128..159
  \/ /\ n = 4 /\ i + 3 <= Len(b) /\ b[i + 2] \in 128..191 /\ b[i + 3] \in 128..191
     /\ \/ b[i] = 240 /\ b[i + 1] \in 144..191
        \/ b[i] \in 241..243 /\ b[i + 1] \in 128..191
        \/ b[i] = 244 /\ b[i + 1] \in 128..143

\* What fits a row of the table is Formed at its length,
LEMMA RangesFormed ==
  ASSUME NEW b \in Seq(Bytes), NEW i \in 1..Len(b), NEW r \in Ranges, FitsAt(b, i, r)
  PROVE  Len(r) \in 1..4 /\ Formed(b, i, Len(r))
<1>1. CASE r = <<0..127>>
  <2>1. b[i] \in 0..127
    BY <1>1, FitsOne
  <2>2. Len(r) = 1
    BY <1>1
  <2>. QED
    BY <2>1, <2>2 DEF Formed
<1>2. CASE r = <<194..223, 128..191>>
  <2>1. i + 1 <= Len(b) /\ b[i] \in 194..223 /\ b[i + 1] \in 128..191
    BY <1>2, FitsTwo
  <2>2. Len(r) = 2
    BY <1>2
  <2>. QED
    BY <2>1, <2>2 DEF Formed
<1>3. CASE r = <<{224}, 160..191, 128..191>>
  <2>1. i + 2 <= Len(b) /\ b[i] \in {224} /\ b[i + 1] \in 160..191 /\ b[i + 2] \in 128..191
    BY <1>3, FitsThree
  <2>2. Len(r) = 3
    BY <1>3
  <2>. QED
    BY <2>1, <2>2 DEF Formed
<1>4. CASE r = <<(225..236) \cup {238, 239}, 128..191, 128..191>>
  <2>1. /\ i + 2 <= Len(b) /\ b[i] \in (225..236) \cup {238, 239}
        /\ b[i + 1] \in 128..191 /\ b[i + 2] \in 128..191
    BY <1>4, FitsThree
  <2>2. Len(r) = 3
    BY <1>4
  <2>. QED
    BY <2>1, <2>2 DEF Formed
<1>5. CASE r = <<{237}, 128..159, 128..191>>
  <2>1. i + 2 <= Len(b) /\ b[i] \in {237} /\ b[i + 1] \in 128..159 /\ b[i + 2] \in 128..191
    BY <1>5, FitsThree
  <2>2. Len(r) = 3
    BY <1>5
  <2>. QED
    BY <2>1, <2>2 DEF Formed
<1>6. CASE r = <<{240}, 144..191, 128..191, 128..191>>
  <2>1. /\ i + 3 <= Len(b) /\ b[i] \in {240} /\ b[i + 1] \in 144..191
        /\ b[i + 2] \in 128..191 /\ b[i + 3] \in 128..191
    BY <1>6, FitsFour
  <2>2. Len(r) = 4
    BY <1>6
  <2>. QED
    BY <2>1, <2>2 DEF Formed
<1>7. CASE r = <<241..243, 128..191, 128..191, 128..191>>
  <2>1. /\ i + 3 <= Len(b) /\ b[i] \in 241..243 /\ b[i + 1] \in 128..191
        /\ b[i + 2] \in 128..191 /\ b[i + 3] \in 128..191
    BY <1>7, FitsFour
  <2>2. Len(r) = 4
    BY <1>7
  <2>. QED
    BY <2>1, <2>2 DEF Formed
<1>8. CASE r = <<{244}, 128..143, 128..191, 128..191>>
  <2>1. /\ i + 3 <= Len(b) /\ b[i] \in {244} /\ b[i + 1] \in 128..143
        /\ b[i + 2] \in 128..191 /\ b[i + 3] \in 128..191
    BY <1>8, FitsFour
  <2>2. Len(r) = 4
    BY <1>8
  <2>. QED
    BY <2>1, <2>2 DEF Formed
<1>. QED
  BY <1>1, <1>2, <1>3, <1>4, <1>5, <1>6, <1>7, <1>8, ZenonT(60) DEF Ranges

\* and what is Formed fits a row.
LEMMA FormedRanges ==
  ASSUME NEW b \in Seq(Bytes), NEW i \in 1..Len(b), NEW n \in 1..4, Formed(b, i, n)
  PROVE  \E r \in Ranges : Len(r) = n /\ FitsAt(b, i, r)
<1> DEFINE r1 == <<0..127>>
           r2 == <<194..223, 128..191>>
           r3 == <<{224}, 160..191, 128..191>>
           r4 == <<(225..236) \cup {238, 239}, 128..191, 128..191>>
           r5 == <<{237}, 128..159, 128..191>>
           r6 == <<{240}, 144..191, 128..191, 128..191>>
           r7 == <<241..243, 128..191, 128..191, 128..191>>
           r8 == <<{244}, 128..143, 128..191, 128..191>>
<1>1. /\ r1 \in Ranges /\ r2 \in Ranges /\ r3 \in Ranges /\ r4 \in Ranges
      /\ r5 \in Ranges /\ r6 \in Ranges /\ r7 \in Ranges /\ r8 \in Ranges
  <2>1. Ranges = {r1, r2, r3, r4, r5, r6, r7, r8}
    BY DEF Ranges
  <2> HIDE DEF r1, r2, r3, r4, r5, r6, r7, r8
  <2>. QED
    BY <2>1
<1>2. /\ Len(r1) = 1 /\ Len(r2) = 2 /\ Len(r3) = 3 /\ Len(r4) = 3
      /\ Len(r5) = 3 /\ Len(r6) = 4 /\ Len(r7) = 4 /\ Len(r8) = 4
  OBVIOUS
<1>3. FitsAt(b, i, r1) <=> b[i] \in 0..127
  BY FitsOne
<1>4. FitsAt(b, i, r2) <=> i + 1 <= Len(b) /\ b[i] \in 194..223 /\ b[i + 1] \in 128..191
  BY FitsTwo
<1>5. FitsAt(b, i, r3) <=> i + 2 <= Len(b) /\ b[i] \in {224} /\ b[i + 1] \in 160..191 /\ b[i + 2] \in 128..191
  BY FitsThree
<1>6. FitsAt(b, i, r4) <=> /\ i + 2 <= Len(b) /\ b[i] \in (225..236) \cup {238, 239}
                           /\ b[i + 1] \in 128..191 /\ b[i + 2] \in 128..191
  BY FitsThree
<1>7. FitsAt(b, i, r5) <=> i + 2 <= Len(b) /\ b[i] \in {237} /\ b[i + 1] \in 128..159 /\ b[i + 2] \in 128..191
  BY FitsThree
<1>8. FitsAt(b, i, r6) <=> /\ i + 3 <= Len(b) /\ b[i] \in {240} /\ b[i + 1] \in 144..191
                           /\ b[i + 2] \in 128..191 /\ b[i + 3] \in 128..191
  BY FitsFour, SMTT(40)
<1>9. FitsAt(b, i, r7) <=> /\ i + 3 <= Len(b) /\ b[i] \in 241..243 /\ b[i + 1] \in 128..191
                           /\ b[i + 2] \in 128..191 /\ b[i + 3] \in 128..191
  <2> DEFINE A == 241..243
             T == 128..191
  <2> HIDE DEF A, T
  <2>1. FitsAt(b, i, <<A, T, T, T>>) <=> i + 3 <= Len(b) /\ b[i] \in A /\ b[i + 1] \in T /\ b[i + 2] \in T /\ b[i + 3] \in T
    BY FitsFour
  <2>. QED
    BY <2>1, Zenon DEF A, T
<1>10. FitsAt(b, i, r8) <=> /\ i + 3 <= Len(b) /\ b[i] \in {244} /\ b[i + 1] \in 128..143
                            /\ b[i + 2] \in 128..191 /\ b[i + 3] \in 128..191
  BY FitsFour
<1> HIDE DEF r1, r2, r3, r4, r5, r6, r7, r8
<1>11. CASE n = 1
  <2>1. FitsAt(b, i, r1)
    BY <1>3, <1>11 DEF Formed
  <2>. QED
    BY <1>1, <1>2, <1>11, <2>1
<1>12. CASE n = 2
  <2>1. FitsAt(b, i, r2)
    BY <1>4, <1>12 DEF Formed
  <2>. QED
    BY <1>1, <1>2, <1>12, <2>1
<1>13. CASE n = 3
  <2>1. FitsAt(b, i, r3) \/ FitsAt(b, i, r4) \/ FitsAt(b, i, r5)
    BY <1>5, <1>6, <1>7, <1>13 DEF Formed
  <2>. QED
    BY <1>1, <1>2, <1>13, <2>1
<1>14. CASE n = 4
  <2>1. FitsAt(b, i, r6) \/ FitsAt(b, i, r7) \/ FitsAt(b, i, r8)
    BY <1>8, <1>9, <1>10, <1>14 DEF Formed
  <2>. QED
    BY <1>1, <1>2, <1>14, <2>1
<1>. QED
  BY <1>11, <1>12, <1>13, <1>14

\* What is left of a byte without its mark.
LEMMA Unmarked ==
  ASSUME NEW c \in Bytes
  PROVE  /\ c \div 32 = 6 <=> c \in 192..223
         /\ c \div 16 = 14 <=> c \in 224..239
         /\ c \div 8 = 30 <=> c \in 240..247
         /\ c \div 64 = 2 <=> c \in 128..191
         /\ c \in 192..223 => c % 32 = c - 192
         /\ c \in 224..239 => c % 16 = c - 224
         /\ c \in 240..247 => c % 8 = c - 240
         /\ c \in 128..191 => c % 64 = c - 128
BY DEF Bytes

\* The first byte of a character by its value.
LEMMA SizeOfRune ==
  ASSUME NEW c \in Bytes
  PROVE  /\ runeSize(c) \in 0..4
         /\ runeSize(c) = 1 <=> c \in 0..127
         /\ runeSize(c) = 2 <=> c \in 192..223
         /\ runeSize(c) = 3 <=> c \in 224..239
         /\ runeSize(c) = 4 <=> c \in 240..247
<1>1. /\ c \div 32 = 6 <=> c \in 192..223
      /\ c \div 16 = 14 <=> c \in 224..239
      /\ c \div 8 = 30 <=> c \in 240..247
      /\ c \in 0..255
  BY Unmarked DEF Bytes
<1>2. runeSize(c) = CASE c < 128 -> 1 [] c \in 192..223 -> 2 [] c \in 224..239 -> 3 [] c \in 240..247 -> 4 [] OTHER -> 0
  BY <1>1 DEF runeSize
<1>3. CASE c < 128
  BY <1>1, <1>2, <1>3
<1>4. CASE c \in 192..223
  BY <1>1, <1>2, <1>4
<1>5. CASE c \in 224..239
  BY <1>1, <1>2, <1>5
<1>6. CASE c \in 240..247
  BY <1>1, <1>2, <1>6
<1>7. CASE ~(c < 128) /\ c \notin 192..223 /\ c \notin 224..239 /\ c \notin 240..247
  BY <1>1, <1>2, <1>7
<1>. QED
  BY <1>3, <1>4, <1>5, <1>6, <1>7

\* runeAllowed, with the least character of each size.
LEMMA AllowedIs ==
  ASSUME NEW cp \in Int
  PROVE  /\ runeAllowed(cp, 1) <=> cp >= 0 /\ cp <= 1114111 /\ ~(cp >= 55296 /\ cp <= 57343)
         /\ runeAllowed(cp, 2) <=> cp >= 128 /\ cp <= 1114111 /\ ~(cp >= 55296 /\ cp <= 57343)
         /\ runeAllowed(cp, 3) <=> cp >= 2048 /\ cp <= 1114111 /\ ~(cp >= 55296 /\ cp <= 57343)
         /\ runeAllowed(cp, 4) <=> cp >= 65536 /\ cp <= 1114111 /\ ~(cp >= 55296 /\ cp <= 57343)
BY SMTT(40) DEF runeAllowed, High, Low

\* The arithmetic agrees with the table.
Point2(c, x) == ((c % 32) * 64) + (x % 64)
Point3(c, x, y) == ((c % 16) * 4096) + ((x % 64) * 64) + (y % 64)
Point4(c, x, y, z) == ((c % 8) * 262144) + ((x % 64) * 4096) + ((y % 64) * 64) + (z % 64)

\* The second bytes that may follow the first of three, or of four.
Second3(c, x) == \/ c = 224 /\ x \in 160..191
                 \/ c \in (225..236) \cup {238, 239}
                 \/ c = 237 /\ x \in 128..159
Second4(c, x) == \/ c = 240 /\ x \in 144..191
                 \/ c \in 241..243
                 \/ c = 244 /\ x \in 128..143

\* The arithmetic of validUTF8 agrees with the table: two bytes,
LEMMA TwoBytes ==
  ASSUME NEW c \in 192..223, NEW x \in 128..191
  PROVE  runeAllowed(Point2(c, x), 2) <=> c \in 194..223
<1> DEFINE cp == ((c - 192) * 64) + (x - 128)
<1>1. c % 32 = c - 192 /\ x % 64 = x - 128
  BY Unmarked DEF Bytes
<1>2. cp \in Int
  BY SMT
<1>3. runeAllowed(cp, 2) <=> cp >= 128 /\ cp <= 1114111 /\ ~(cp >= 55296 /\ cp <= 57343)
  <2> HIDE DEF cp
  <2>. QED
    BY <1>2, AllowedIs, SMT
<1>4. runeAllowed(cp, 2) <=> c \in 194..223
  BY <1>3, SMT
<1>. QED
  BY <1>1, <1>4, SMT DEF Point2

\* three bytes,
LEMMA ThreeBytes ==
  ASSUME NEW c \in 224..239, NEW x \in 128..191, NEW y \in 128..191
  PROVE  runeAllowed(Point3(c, x, y), 3) <=>
           Second3(c, x)
<1> DEFINE cp == ((c - 224) * 4096) + ((x - 128) * 64) + (y - 128)
<1>1. c % 16 = c - 224 /\ x % 64 = x - 128 /\ y % 64 = y - 128
  BY Unmarked DEF Bytes
<1>2. cp \in Int
  BY SMT
<1>3. runeAllowed(cp, 3) <=> cp >= 2048 /\ cp <= 1114111 /\ ~(cp >= 55296 /\ cp <= 57343)
  <2> HIDE DEF cp
  <2>. QED
    BY <1>2, AllowedIs, SMT
<1>4. runeAllowed(cp, 3) <=>
           Second3(c, x)
  BY <1>3, SMT DEF Second3
<1>. QED
  BY <1>1, <1>4, SMT DEF Point3

\* four bytes,
LEMMA FourBytes ==
  ASSUME NEW c \in 240..247, NEW x \in 128..191, NEW y \in 128..191, NEW z \in 128..191
  PROVE  runeAllowed(Point4(c, x, y, z), 4) <=>
           Second4(c, x)
<1> DEFINE cp == ((c - 240) * 262144) + ((x - 128) * 4096) + ((y - 128) * 64) + (z - 128)
<1>1. c % 8 = c - 240 /\ x % 64 = x - 128 /\ y % 64 = y - 128 /\ z % 64 = z - 128
  BY Unmarked DEF Bytes
<1>2. cp \in Int
  BY SMT
<1>3. runeAllowed(cp, 4) <=> cp >= 65536 /\ cp <= 1114111 /\ ~(cp >= 55296 /\ cp <= 57343)
  <2> HIDE DEF cp
  <2>. QED
    BY <1>2, AllowedIs, SMT
<1>4. runeAllowed(cp, 4) <=>
           Second4(c, x)
  BY <1>3, SMT DEF Second4
<1>. QED
  BY <1>1, <1>4, SMT DEF Point4

\* and so at every size: runeAt accepts what the table lists.
LEMMA RuneFormed ==
  ASSUME NEW b \in Seq(Bytes), NEW i \in 1..Len(b), NEW n \in 1..4, runeSize(b[i]) = n
  PROVE  runeAt(b, i) <=> Formed(b, i, n)
<1>0. b[i] \in Bytes /\ Len(b) \in Nat
  OBVIOUS
<1>1. ASSUME NEW k \in 1..3, i + k <= Len(b) PROVE b[i + k] \in Bytes /\ (b[i + k] \div 64 = 2 <=> b[i + k] \in 128..191)
  <2>1. i + k \in 1..Len(b)
    BY <1>1
  <2>2. b[i + k] \in Bytes
    BY <2>1
  <2>. QED
    BY <2>2, Unmarked
<1>2. CASE n = 1
  <2>1. b[i] \in 0..127
    BY <1>0, <1>2, SizeOfRune
  <2>2. runePoint(b, i, 1) = b[i]
    BY SMT DEF runePoint
  <2> DEFINE c == b[i]
  <2>4. c \in 0..127
    BY <2>1
  <2> HIDE DEF c
  <2>5. c \in Int /\ c >= 0 /\ c <= 127
    BY <2>4
  <2>6. runeAllowed(c, 1)
    BY <2>5, AllowedIs, SMT
  <2>3. runeAt(b, i)
    BY <1>2, <2>2, <2>6, <1>0, SMT DEF runeAt, c
  <2>. QED
    BY <1>2, <2>1, <2>3 DEF Formed
<1>3. CASE n = 2
  <2>1. b[i] \in 192..223
    BY <1>0, <1>3, SizeOfRune
  <2>2. runePoint(b, i, 2) = Point2(b[i], b[i + 1])
    BY SMT DEF runePoint, Point2
  <2>3. runeAt(b, i) <=> /\ i + 1 <= Len(b) /\ b[i + 1] \div 64 = 2
                         /\ runeAllowed(Point2(b[i], b[i + 1]), 2)
    <3>1. 1..(2 - 1) = {1} /\ i + 2 - 1 = i + 1
      OBVIOUS
    <3>. QED
      BY <1>3, <2>2, <3>1, SMT DEF runeAt
  <2> DEFINE allowed == runeAllowed(Point2(b[i], b[i + 1]), 2)
  <2>4. ASSUME b[i + 1] \in 128..191 PROVE allowed <=> b[i] \in 194..223
    <3> DEFINE c == b[i]
               x == b[i + 1]
    <3>1. c \in 192..223 /\ x \in 128..191
      BY <2>1, <2>4
    <3> HIDE DEF c, x
    <3>2. runeAllowed(Point2(c, x), 2) <=> c \in 194..223
      BY <3>1, TwoBytes, ZenonT(60)
    <3>. QED
      BY <3>2, SMT DEF c, x
  <2>5. ASSUME i + 1 <= Len(b) PROVE b[i + 1] \div 64 = 2 <=> b[i + 1] \in 128..191
    BY <1>1, <2>5, SMT
  <2> HIDE DEF allowed
  <2>6. runeAt(b, i) <=> i + 1 <= Len(b) /\ b[i + 1] \in 128..191 /\ b[i] \in 194..223
    BY <2>3, <2>4, <2>5, SMT DEF allowed
  <2>. QED
    BY <1>3, <2>6 DEF Formed
<1>4. CASE n = 3
  <2>1. b[i] \in 224..239
    BY <1>0, <1>4, SizeOfRune
  <2>2. runePoint(b, i, 3) = Point3(b[i], b[i + 1], b[i + 2])
    BY SMT DEF runePoint, Point3
  <2>3. runeAt(b, i) <=> /\ i + 2 <= Len(b) /\ b[i + 1] \div 64 = 2 /\ b[i + 2] \div 64 = 2
                         /\ runeAllowed(Point3(b[i], b[i + 1], b[i + 2]), 3)
    <3>1. 1..(3 - 1) = {1, 2} /\ i + 3 - 1 = i + 2
      OBVIOUS
    <3>. QED
      BY <1>4, <2>2, <3>1, SMT DEF runeAt
  <2> DEFINE allowed == runeAllowed(Point3(b[i], b[i + 1], b[i + 2]), 3)
             fine == Second3(b[i], b[i + 1])
  <2>4. ASSUME b[i + 1] \in 128..191, b[i + 2] \in 128..191 PROVE allowed <=> fine
    <3> DEFINE c == b[i]
               x == b[i + 1]
               y == b[i + 2]
    <3>1. c \in 224..239 /\ x \in 128..191 /\ y \in 128..191
      BY <2>1, <2>4
    <3> HIDE DEF c, x, y
    <3>2. runeAllowed(Point3(c, x, y), 3) <=> Second3(c, x)
      BY <3>1, ThreeBytes, Zenon
    <3>. QED
      BY <3>2, SMT DEF c, x, y
  <2>5. ASSUME i + 2 <= Len(b) PROVE /\ b[i + 1] \div 64 = 2 <=> b[i + 1] \in 128..191
                                     /\ b[i + 2] \div 64 = 2 <=> b[i + 2] \in 128..191
    <3>1. i + 1 <= Len(b)
      BY <1>0, <2>5, SMT
    <3>. QED
      BY <1>1, <2>5, <3>1, SMT
  <2> HIDE DEF allowed, fine
  <2>6. runeAt(b, i) <=> i + 2 <= Len(b) /\ b[i + 1] \in 128..191 /\ b[i + 2] \in 128..191 /\ fine
    BY <2>3, <2>4, <2>5, SMT DEF allowed
  <2>. QED
    BY <1>4, <2>6 DEF Formed, fine, Second3
<1>5. CASE n = 4
  <2>1. b[i] \in 240..247
    BY <1>0, <1>5, SizeOfRune
  <2>2. runePoint(b, i, 4) = Point4(b[i], b[i + 1], b[i + 2], b[i + 3])
    BY SMT DEF runePoint, Point4
  <2>3. runeAt(b, i) <=> /\ i + 3 <= Len(b) /\ b[i + 1] \div 64 = 2 /\ b[i + 2] \div 64 = 2 /\ b[i + 3] \div 64 = 2
                         /\ runeAllowed(Point4(b[i], b[i + 1], b[i + 2], b[i + 3]), 4)
    <3>1. 1..(4 - 1) = {1, 2, 3} /\ i + 4 - 1 = i + 3
      OBVIOUS
    <3>. QED
      BY <1>5, <2>2, <3>1, SMT DEF runeAt
  <2> DEFINE allowed == runeAllowed(Point4(b[i], b[i + 1], b[i + 2], b[i + 3]), 4)
             fine == Second4(b[i], b[i + 1])
  <2>4. ASSUME b[i + 1] \in 128..191, b[i + 2] \in 128..191, b[i + 3] \in 128..191 PROVE allowed <=> fine
    <3> DEFINE c == b[i]
               x == b[i + 1]
               y == b[i + 2]
               z == b[i + 3]
    <3>1. c \in 240..247 /\ x \in 128..191 /\ y \in 128..191 /\ z \in 128..191
      BY <2>1, <2>4
    <3> HIDE DEF c, x, y, z
    <3>2. runeAllowed(Point4(c, x, y, z), 4) <=> Second4(c, x)
      BY <3>1, FourBytes, Zenon
    <3>. QED
      BY <3>2, SMT DEF c, x, y, z
  <2>5. ASSUME i + 3 <= Len(b) PROVE /\ b[i + 1] \div 64 = 2 <=> b[i + 1] \in 128..191
                                     /\ b[i + 2] \div 64 = 2 <=> b[i + 2] \in 128..191
                                     /\ b[i + 3] \div 64 = 2 <=> b[i + 3] \in 128..191
    <3>1. i + 1 <= Len(b) /\ i + 2 <= Len(b)
      BY <1>0, <2>5, SMT
    <3>. QED
      BY <1>1, <2>5, <3>1, SMT
  <2> HIDE DEF allowed, fine
  <2>6. runeAt(b, i) <=> /\ i + 3 <= Len(b)
                         /\ b[i + 1] \in 128..191 /\ b[i + 2] \in 128..191 /\ b[i + 3] \in 128..191 /\ fine
    BY <2>3, <2>4, <2>5, SMT DEF allowed
  <2>. QED
    BY <1>5, <2>6 DEF Formed, fine, Second4
<1>. QED
  BY <1>2, <1>3, <1>4, <1>5

\* The rows of the table start with different bytes, none of them a continuation.
LEMMA Apart ==
  ASSUME NEW c, c \in 0..127 \/ c \in 192..255 \/ c \in 194..223 \/ c \in 224..239 \/ c \in 240..247
  PROVE  c \notin Continuation
BY DEF Continuation

\* A formed character is a lead byte with continuations.
LEMMA FormedParts ==
  ASSUME NEW b \in Seq(Bytes), NEW i \in 1..Len(b), NEW n \in 1..4, Formed(b, i, n)
  PROVE  /\ runeSize(b[i]) = n /\ runeAt(b, i) /\ i + n - 1 <= Len(b)
         /\ b[i] \notin Continuation /\ \A k \in 1..(n - 1) : b[i + k] \in Continuation
<1>0. b[i] \in Bytes
  OBVIOUS
<1>1. CASE n = 1
  <2>1. b[i] \in 0..127
    BY <1>1 DEF Formed
  <2>2. runeSize(b[i]) = 1
    BY <1>0, <2>1, SizeOfRune
  <2>3. runeAt(b, i)
    BY <1>1, <2>2, RuneFormed
  <2>4. b[i] \notin Continuation
    BY <2>1, Apart
  <2>5. i + n - 1 <= Len(b) /\ 1..(n - 1) = {}
    BY <1>1
  <2>. QED
    BY <1>1, <2>2, <2>3, <2>4, <2>5
<1>2. CASE n = 2
  <2>1. i + 1 <= Len(b) /\ b[i] \in 194..223 /\ b[i + 1] \in 128..191
    BY <1>2 DEF Formed
  <2>2. runeSize(b[i]) = 2
    BY <1>0, <2>1, SizeOfRune
  <2>3. \A k \in 1..(n - 1) : k = 1
    BY <1>2
  <2>4. runeAt(b, i)
    BY <1>2, <2>2, RuneFormed
  <2>5. b[i] \notin Continuation
    BY <2>1, Apart
  <2>6. i + n - 1 <= Len(b)
    BY <1>2, <2>1
  <2>7. ASSUME NEW k \in 1..(n - 1) PROVE b[i + k] \in Continuation
    <3>1. k = 1
      BY <2>3
    <3>2. b[i + 1] \in Continuation
      BY <2>1 DEF Continuation
    <3>. QED
      BY <3>1, <3>2, Zenon
  <2>8. runeSize(b[i]) = n
    BY <1>2, <2>2
  <2>. QED
    BY <2>4, <2>5, <2>6, <2>7, <2>8, Zenon
<1>3. CASE n = 3
  <2>1. i + 2 <= Len(b) /\ b[i] \in 224..239 /\ b[i + 1] \in 128..191 /\ b[i + 2] \in 128..191
    BY <1>3 DEF Formed
  <2>2. runeSize(b[i]) = 3
    BY <1>0, <2>1, SizeOfRune
  <2>3. \A k \in 1..(n - 1) : k = 1 \/ k = 2
    BY <1>3
  <2>4. runeAt(b, i)
    BY <1>3, <2>2, RuneFormed
  <2>5. b[i] \notin Continuation
    BY <2>1, Apart
  <2>6. i + n - 1 <= Len(b)
    BY <1>3, <2>1
  <2>7. ASSUME NEW k \in 1..(n - 1) PROVE b[i + k] \in Continuation
    <3>1. k = 1 \/ k = 2
      BY <2>3
    <3>2. b[i + 1] \in Continuation /\ b[i + 2] \in Continuation
      BY <2>1 DEF Continuation
    <3>. QED
      BY <3>1, <3>2, Zenon
  <2>8. runeSize(b[i]) = n
    BY <1>3, <2>2
  <2>. QED
    BY <2>4, <2>5, <2>6, <2>7, <2>8, Zenon
<1>4. CASE n = 4
  <2>1. /\ i + 3 <= Len(b) /\ b[i] \in 240..247
        /\ b[i + 1] \in 128..191 /\ b[i + 2] \in 128..191 /\ b[i + 3] \in 128..191
    BY <1>4 DEF Formed
  <2>2. runeSize(b[i]) = 4
    BY <1>0, <2>1, SizeOfRune
  <2>3. \A k \in 1..(n - 1) : k = 1 \/ k = 2 \/ k = 3
    BY <1>4
  <2>4. runeAt(b, i)
    BY <1>4, <2>2, RuneFormed
  <2>5. b[i] \notin Continuation
    BY <2>1, Apart
  <2>6. i + n - 1 <= Len(b)
    BY <1>4, <2>1
  <2>7. ASSUME NEW k \in 1..(n - 1) PROVE b[i + k] \in Continuation
    <3>1. k = 1 \/ k = 2 \/ k = 3
      BY <2>3
    <3>2. b[i + 1] \in Continuation /\ b[i + 2] \in Continuation /\ b[i + 3] \in Continuation
      BY <2>1 DEF Continuation
    <3>. QED
      BY <3>1, <3>2, Zenon
  <2>8. runeSize(b[i]) = n
    BY <1>4, <2>2
  <2>. QED
    BY <2>4, <2>5, <2>6, <2>7, <2>8, Zenon
<1>. QED
  BY <1>1, <1>2, <1>3, <1>4

\* The positions the validation reaches.
LEMMA NextRuneTyped ==
  ASSUME NEW b \in Seq(Bytes), NEW i \in Nat \ {0}
  PROVE  /\ nextRune(b, i) \in Nat \ {0}
         /\ i <= Len(b) => runeSize(b[i]) \in 0..4
<1>1. CASE i <= Len(b)
  <2>1. i \in 1..Len(b)
    BY <1>1
  <2>2. b[i] \in Bytes
    BY <2>1
  <2>3. runeSize(b[i]) \in 0..4
    BY <2>2, SizeOfRune
  <2>. QED
    BY <2>3 DEF nextRune
<1>. QED
  BY <1>1 DEF nextRune

\* The loop of validUTF8.
LEMMA RunesUnfold ==
  ASSUME NEW b \in Seq(Bytes)
  PROVE  LET v == Runes(b)
         IN /\ v \in [0..Len(b) -> Nat \ {0}] /\ v[0] = 1
            /\ \A n \in 1..Len(b) : v[n] = nextRune(b, v[n - 1])
<1> DEFINE N == Len(b)
           V == Nat \ {0}
           Step == [n \in 1..N |-> [v \in V |-> nextRune(b, v)]]
           Is(g) == g = [n \in 0..N |-> IF n = 0 THEN 1 ELSE nextRune(b, g[n - 1])]
<1>0. N \in Nat /\ 1 \in V
  OBVIOUS
<1>1. Step \in [1..N -> [V -> V]]
  BY NextRuneTyped
<1> HIDE DEF N, V
<1>2. PICK g : Loop(g, N, V, 1, Step)
  <2> HIDE DEF Step
  <2>. QED
    BY <1>0, <1>1, LoopRuns
<1>3. ASSUME NEW n \in 0..N
      PROVE  g[n] = IF n = 0 THEN 1 ELSE nextRune(b, g[n - 1])
  <2>1. g \in [0..N -> V] /\ g[0] = 1
    BY <1>2 DEF Loop
  <2>2. CASE n # 0
    <3>1. n \in 1..N /\ n - 1 \in 0..N /\ g[n - 1] \in V
      BY <1>0, <2>1, <2>2
    <3>2. g[n] = Step[n][g[n - 1]]
      BY <1>2, <3>1 DEF Loop
    <3>. QED
      BY <2>2, <3>1, <3>2
  <2>. QED
    BY <2>1, <2>2
<1>4. Is(g)
  <2>1. g = [n \in 0..N |-> g[n]]
    BY <1>2 DEF Loop
  <2>. QED
    BY <1>3, <2>1
<1>5. Is(Runes(b))
  BY <1>4 DEF Runes, N
<1> DEFINE v == Runes(b)
<1> HIDE DEF v
<1>6. v = [n \in 0..N |-> IF n = 0 THEN 1 ELSE nextRune(b, v[n - 1])]
  BY <1>5 DEF v
<1>7. /\ v = [n \in 0..N |-> v[n]] /\ v[0] = 1
      /\ \A n \in 1..N : v[n] = nextRune(b, v[n - 1])
  <2>1. 0 \in 0..N /\ \A n \in 1..N : n \in 0..N /\ n # 0
    BY <1>0
  <2>2. v = [n \in 0..N |-> v[n]] /\ v[0] = 1
    BY <1>6, <2>1
  <2>3. ASSUME NEW n \in 1..N PROVE v[n] = nextRune(b, v[n - 1])
    <3>1. v[n] = IF n = 0 THEN 1 ELSE nextRune(b, v[n - 1])
      BY <1>6, <2>1, Zenon
    <3>. QED
      BY <2>1, <3>1
  <2>. QED
    BY <2>2, <2>3
<1>8. Loop(v, N, V, 1, Step)
  <2>1. \A n \in 1..N : v[n - 1] \in V => v[n] = Step[n][v[n - 1]]
    BY <1>7
  <2> HIDE DEF Step
  <2>. QED
    BY <1>0, <1>1, <1>7, <2>1, LoopTyped
<1>. QED
  BY <1>7, <1>8 DEF v, Loop, N, V

\* The validation moves on by a character of the table, or stays.
LEMMA NextRuneIs ==
  ASSUME NEW b \in Seq(Bytes), NEW i \in Nat \ {0}
  PROVE  \/ nextRune(b, i) = i /\ (i <= Len(b) => \A n \in 1..4 : ~Formed(b, i, n))
         \/ i <= Len(b) /\ \E n \in 1..4 : Formed(b, i, n) /\ nextRune(b, i) = i + n
<1>1. CASE ~(i <= Len(b))
  BY <1>1 DEF nextRune
<1>2. CASE i <= Len(b)
  <2>1. i \in 1..Len(b)
    BY <1>2
  <2>2. CASE runeAt(b, i)
    <3>1. runeSize(b[i]) \in 1..4
      BY <1>2, <2>2, NextRuneTyped DEF runeAt
    <3>2. Formed(b, i, runeSize(b[i]))
      BY <2>1, <2>2, <3>1, RuneFormed
    <3>3. nextRune(b, i) = i + runeSize(b[i])
      BY <1>2, <2>2 DEF nextRune
    <3>. QED
      BY <1>2, <3>1, <3>2, <3>3
  <2>3. CASE ~runeAt(b, i)
    <3>1. nextRune(b, i) = i
      BY <2>3 DEF nextRune
    <3>2. \A n \in 1..4 : ~Formed(b, i, n)
      BY <2>1, <2>3, FormedParts
    <3>. QED
      BY <3>1, <3>2
  <2>. QED
    BY <2>2, <2>3
<1>. QED
  BY <1>1, <1>2

\* A table entry at i is a formed character and conversely, so the reference says
LEMMA WellFormedIs ==
  ASSUME NEW b \in Seq(Bytes), WellFormed(b), NEW i \in 1..Len(b), b[i] \notin Continuation
  PROVE  \E n \in 1..4 : Formed(b, i, n) /\ (i + n <= Len(b) => b[i + n] \notin Continuation)
<1>1. PICK r \in Ranges : /\ FitsAt(b, i, r)
                          /\ i + Len(r) <= Len(b) => b[i + Len(r)] \notin Continuation
  BY DEF WellFormed
<1>2. Len(r) \in 1..4 /\ Formed(b, i, Len(r))
  BY <1>1, RangesFormed
<1>. QED
  BY <1>1, <1>2

\* What the table accepts validUTF8 accepts,
LEMMA WellFormedValid ==
  ASSUME NEW b \in Seq(Bytes), WellFormed(b)
  PROVE  validUTF8(b)
<1> DEFINE N == Len(b)
           at == Runes(b)
           S == {n \in 0..N : at[n] > N \/ (at[n] >= n + 1 /\ at[n] <= N /\ b[at[n]] \notin Continuation)}
<1>0. N \in Nat
  OBVIOUS
<1>1. /\ at \in [0..N -> Nat \ {0}] /\ at[0] = 1
      /\ \A n \in 1..N : at[n] = nextRune(b, at[n - 1])
  BY RunesUnfold
<1> HIDE DEF at
<1>2. 0 \in S
  <2>1. CASE N = 0
    BY <1>1, <2>1
  <2>2. CASE N > 0
    <3>1. b # <<>>
      BY <2>2
    <3>2. b[1] \notin Continuation
      BY <3>1 DEF WellFormed
    <3>. QED
      BY <1>0, <1>1, <2>2, <3>2
  <2>. QED
    BY <1>0, <2>1, <2>2
<1>3. ASSUME NEW n \in 1..N, n - 1 \in S PROVE n \in S
  <2> DEFINE i == at[n - 1]
  <2>1. n - 1 \in 0..N /\ i \in Nat \ {0} /\ at[n] = nextRune(b, i) /\ n \in 0..N
    BY <1>0, <1>1
  <2>2. i > N \/ (i >= n /\ i <= N /\ b[i] \notin Continuation)
    BY <1>3
  <2> HIDE DEF i
  <2>3. CASE i > N
    <3>1. nextRune(b, i) = i
      BY <1>0, <2>1, <2>3 DEF nextRune
    <3>. QED
      BY <2>1, <2>3, <3>1
  <2>4. CASE i >= n /\ i <= N /\ b[i] \notin Continuation
    <3>1. i \in 1..Len(b)
      BY <1>0, <2>1, <2>4
    <3>2. PICK k \in 1..4 : Formed(b, i, k) /\ (i + k <= Len(b) => b[i + k] \notin Continuation)
      BY <2>4, <3>1, WellFormedIs
    <3>3. runeSize(b[i]) = k /\ runeAt(b, i)
      BY <3>1, <3>2, FormedParts
    <3>4. at[n] = i + k
      BY <2>1, <2>4, <3>3 DEF nextRune
    <3>5. i + k > N \/ (i + k >= n + 1 /\ i + k <= N /\ b[i + k] \notin Continuation)
      BY <1>0, <2>1, <2>4, <3>2
    <3>. QED
      BY <2>1, <3>4, <3>5
  <2>. QED
    BY <2>2, <2>3, <2>4
<1>4. N \in S
  <2> HIDE DEF S
  <2>1. \A n \in 0..N : n \in S
    BY <1>0, <1>2, <1>3, TurnByTurn
  <2>. QED
    BY <1>0, <2>1
<1>5. at[N] > N
  BY <1>0, <1>1, <1>4
<1>. QED
  BY <1>5 DEF validUTF8, at

\* Where the validation stays once, it stays.
LEMMA RunesStay ==
  ASSUME NEW b \in Seq(Bytes), NEW m \in 1..Len(b), Runes(b)[m] = Runes(b)[m - 1]
  PROVE  Runes(b)[Len(b)] = Runes(b)[m]
<1> DEFINE N == Len(b)
           at == Runes(b)
           S == {n \in 0..N : n >= m => at[n] = at[m]}
<1>0. N \in Nat
  OBVIOUS
<1>1. /\ at \in [0..N -> Nat \ {0}] /\ at[0] = 1
      /\ \A n \in 1..N : at[n] = nextRune(b, at[n - 1])
  BY RunesUnfold
<1>2. at[m] = nextRune(b, at[m])
  <2>1. at[m] = nextRune(b, at[m - 1]) /\ at[m] = at[m - 1]
    BY <1>1
  <2> HIDE DEF at
  <2>. QED
    BY <2>1
<1> HIDE DEF at
<1>3. 0 \in S
  BY <1>0
<1>4. ASSUME NEW n \in 1..N, n - 1 \in S PROVE n \in S
  <2>1. n \in 0..N /\ at[n] = nextRune(b, at[n - 1])
    BY <1>1
  <2>2. CASE n - 1 >= m
    <3>1. at[n - 1] = at[m]
      BY <1>4, <2>2
    <3>. QED
      BY <1>2, <2>1, <3>1
  <2>3. CASE ~(n - 1 >= m)
    <3>1. n >= m => n = m
      BY <2>3
    <3>. QED
      BY <2>1, <3>1
  <2>. QED
    BY <2>2, <2>3
<1>5. N \in S
  <2> HIDE DEF S
  <2>1. \A n \in 0..N : n \in S
    BY <1>0, <1>3, <1>4, TurnByTurn
  <2>. QED
    BY <1>0, <2>1
<1>. QED
  BY <1>0, <1>5 DEF at

\* A valid text is cut into characters: every position is inside one, the next
\* one starts after it.
LEMMA ValidReaches ==
  ASSUME NEW b \in Seq(Bytes), validUTF8(b), NEW j \in 1..Len(b)
  PROVE  \E i \in 1..j : \E n \in 1..4 :
            /\ Formed(b, i, n) /\ j < i + n
            /\ i + n <= Len(b) => b[i + n] \notin Continuation
            /\ j = 1 => i = 1
<1> DEFINE N == Len(b)
           at == Runes(b)
           T == {n \in 0..N : at[n] > j}
<1>0. N \in Nat /\ j \in 1..N
  OBVIOUS
<1>1. /\ at \in [0..N -> Nat \ {0}] /\ at[0] = 1 /\ at[N] > N
      /\ \A n \in 1..N : at[n] = nextRune(b, at[n - 1])
  BY RunesUnfold DEF validUTF8
<1>8. ASSUME NEW n \in 1..N, at[n] <= N PROVE at[n] # at[n - 1]
  <2>1. SUFFICES ASSUME at[n] = at[n - 1] PROVE FALSE
    OBVIOUS
  <2>2. at[N] = at[n]
    BY <2>1, RunesStay
  <2>. QED
    BY <1>0, <1>1, <1>8, <2>2
<1> HIDE DEF at
<1>2. N \in T /\ T \in SUBSET Nat
  BY <1>0, <1>1
<1>3. Min(T) \in T /\ \A y \in T : Min(T) <= y
  <2> HIDE DEF T
  <2>. QED
    BY <1>2, MinOfPositions
<1> DEFINE m == Min(T)
<1> HIDE DEF m
<1>4. m \in 0..N /\ at[m] > j /\ \A y \in 0..N : at[y] > j => m <= y
  BY <1>3 DEF m
<1>5. m \in 1..N /\ m - 1 \in 0..N
  BY <1>0, <1>1, <1>4
<1> DEFINE i == at[m - 1]
<1>6. i \in Nat \ {0} /\ i <= j /\ at[m] = nextRune(b, i)
  <2>1. at[m - 1] \in Nat \ {0} /\ at[m] = nextRune(b, at[m - 1])
    BY <1>1, <1>5
  <2>2. ~(at[m - 1] > j)
    BY <1>4, <1>5
  <2>. QED
    BY <1>0, <2>1, <2>2
<1> HIDE DEF i
<1>7. at[m] # i
  BY <1>0, <1>4, <1>6
<1>9. PICK n \in 1..4 : Formed(b, i, n) /\ at[m] = i + n
  BY <1>6, <1>7, NextRuneIs
<1>10. i \in 1..j /\ j < i + n
  BY <1>0, <1>4, <1>6, <1>9
<1>11. ASSUME i + n <= N PROVE b[i + n] \notin Continuation
  <2>1. at[m] <= N /\ at[m] \in 1..Len(b)
    BY <1>0, <1>6, <1>9, <1>11
  <2>2. m # N
    BY <1>0, <1>1, <2>1
  <2>3. m + 1 \in 1..N /\ (m + 1) - 1 = m
    BY <1>0, <1>5, <2>2
  <2>4. at[m + 1] = nextRune(b, at[m])
    BY <1>1, <2>3
  <2>5. at[m + 1] # at[m]
    <3>1. CASE at[m + 1] <= N
      BY <1>8, <2>3, <3>1
    <3>2. CASE ~(at[m + 1] <= N)
      BY <2>1, <3>2
    <3>. QED
      BY <3>1, <3>2
  <2>6. \E k \in 1..4 : Formed(b, at[m], k)
    BY <2>1, <2>4, <2>5, NextRuneIs
  <2>7. b[at[m]] \notin Continuation
    BY <2>1, <2>6, FormedParts
  <2>. QED
    BY <1>9, <2>7
<1>12. j = 1 => i = 1
  BY <1>10
<1>. QED
  BY <1>9, <1>10, <1>11, <1>12

\* and nothing else.
LEMMA ValidWellFormed ==
  ASSUME NEW b \in Seq(Bytes), validUTF8(b)
  PROVE  WellFormed(b)
<1>1. ASSUME b # <<>> PROVE b[1] \notin Continuation
  <2>1. 1 \in 1..Len(b)
    BY <1>1
  <2>2. PICK i \in 1..1 : \E n \in 1..4 : Formed(b, i, n)
    BY <2>1, ValidReaches
  <2>3. i = 1
    OBVIOUS
  <2>. QED
    BY <2>1, <2>2, <2>3, FormedParts
<1>2. ASSUME NEW j \in 1..Len(b), b[j] \notin Continuation
      PROVE  \E r \in Ranges : /\ FitsAt(b, j, r)
                               /\ j + Len(r) <= Len(b) => b[j + Len(r)] \notin Continuation
  <2>1. PICK i \in 1..j, n \in 1..4 : /\ Formed(b, i, n) /\ j < i + n
                                      /\ i + n <= Len(b) => b[i + n] \notin Continuation
    BY ValidReaches
  <2>2. i \in 1..Len(b)
    OBVIOUS
  <2>3. \A k \in 1..(n - 1) : b[i + k] \in Continuation
    BY <2>1, <2>2, FormedParts
  <2>4. i = j
    <3>1. SUFFICES ASSUME i # j PROVE FALSE
      OBVIOUS
    <3>2. j - i \in 1..(n - 1) /\ i + (j - i) = j
      BY <2>1, <3>1
    <3>3. b[i + (j - i)] \in Continuation
      BY <2>3, <3>2
    <3>. QED
      BY <1>2, <3>2, <3>3
  <2>5. PICK r \in Ranges : Len(r) = n /\ FitsAt(b, i, r)
    BY <2>1, <2>2, FormedRanges
  <2>. QED
    BY <2>1, <2>4, <2>5
<1>. QED
  BY <1>1, <1>2 DEF WellFormed

\* The arithmetic of validUTF8 accepts exactly the sequences of the table.
LEMMA ValidIsWellFormed ==
  ASSUME NEW b \in Seq(Bytes)
  PROVE  validUTF8(b) <=> WellFormed(b)
BY ValidWellFormed, WellFormedValid

-----------------------------------------------------------------------------
(***************************************************************************)
(* Escapes.                                                                *)
(***************************************************************************)
\* A hexadecimal digit, or -1.
LEMMA HexValueTyped ==
  ASSUME NEW c \in Bytes
  PROVE  HexValue(c) \in (-1)..15
<1>1. c \in Int
  BY DEF Bytes
<1>2. CASE c \in 48..57
  BY <1>1, <1>2, SMT DEF HexValue
<1>3. CASE c \in 97..102
  BY <1>1, <1>3, SMT DEF HexValue
<1>4. CASE c \in 65..70
  BY <1>1, <1>4, SMT DEF HexValue
<1>5. CASE c \notin 48..57 /\ c \notin 97..102 /\ c \notin 65..70
  BY <1>1, <1>5, SMT DEF HexValue
<1>. QED
  BY <1>2, <1>3, <1>4, <1>5

\* Four digits are a code unit.
FourDigits(w, x, y, z) == (w * 4096) + (x * 256) + (y * 16) + z
Unit4(b, p) == FourDigits(HexValue(b[p]), HexValue(b[p + 1]), HexValue(b[p + 2]), HexValue(b[p + 3]))

\* The code units by their bounds.
LEMMA UnitIs ==
  ASSUME NEW u
  PROVE  u \in CodeUnits <=> u \in Int /\ u >= 0 /\ u <= 65535
<1>1. MaxUnit = 65535
  BY SMT DEF MaxUnit
<1>2. MaxUnit \in Int
  BY SMT DEF MaxUnit
<1>3. u \in CodeUnits <=> u \in Int /\ u >= 0 /\ u <= MaxUnit
  BY <1>2, SMT DEF CodeUnits
<1>. QED
  BY <1>1, <1>3, SMT

Nibble == 0..15

\* Four hexadecimal digits make a code unit.
LEMMA Unit4Typed ==
  ASSUME NEW w \in Nibble, NEW x \in Nibble, NEW y \in Nibble, NEW z \in Nibble
  PROVE  FourDigits(w, x, y, z) \in CodeUnits
<1> DEFINE e == FourDigits(w, x, y, z)
<1>1. e \in Int /\ e >= 0 /\ e <= 65535
  BY SMT DEF FourDigits, Nibble
<1> HIDE DEF e
<1>4. e \in CodeUnits
  BY <1>1, UnitIs, SMT
<1>. QED
  BY <1>4 DEF e

\* hex4 reads a code unit and four bytes, or refuses.
LEMMA HexRead ==
  ASSUME NEW b \in Seq(Bytes), NEW p \in Nat \ {0}
  PROVE  \/ hex4(b, p) = Reject("bad_string")
         \/ hex4(b, p) = ReadTo(Unit4(b, p), p + 4) /\ p + 3 <= Len(b) /\ Unit4(b, p) \in CodeUnits
<1>1. CASE p + 3 > Len(b) \/ \E i \in 0..3 : HexValue(At(b, p + i)) = -1
  BY <1>1, SMT DEF hex4
<1>2. CASE ~(p + 3 > Len(b) \/ \E i \in 0..3 : HexValue(At(b, p + i)) = -1)
  <2>1. p + 3 <= Len(b)
    BY <1>2
  <2>2. ASSUME NEW i \in 0..3 PROVE HexValue(b[p + i]) \in Nibble
    <3>1. p + i \in 1..Len(b)
      BY <2>1
    <3>2. At(b, p + i) = b[p + i] /\ b[p + i] \in Bytes
      BY <3>1 DEF At
    <3> DEFINE h == HexValue(b[p + i])
    <3>3. h \in (-1)..15 /\ h # -1
      BY <1>2, <3>2, HexValueTyped
    <3> HIDE DEF h
    <3>4. h \in Nibble
      BY <3>3 DEF Nibble
    <3>. QED
      BY <3>4 DEF h
  <2>3. p + 0 = p
    OBVIOUS
  <2>4. HexValue(b[p]) \in Nibble /\ HexValue(b[p + 1]) \in Nibble /\ HexValue(b[p + 2]) \in Nibble /\ HexValue(b[p + 3]) \in Nibble
    BY <2>2, <2>3
  <2>5. Unit4(b, p) \in CodeUnits
    BY <2>4, Unit4Typed, Zenon DEF Unit4
  <2>6. hex4(b, p) = ReadTo(Unit4(b, p), p + 4)
    BY <1>2, SMT DEF hex4, Unit4, FourDigits
  <2>. QED
    BY <2>1, <2>5, <2>6
<1>. QED
  BY <1>1, <1>2

\* The bytes of a character.
MaxPoint == 1114111
CodePoints == 0..MaxPoint

\* The code points by their bounds.
LEMMA PointIs ==
  ASSUME NEW cp
  PROVE  cp \in CodePoints <=> cp \in Int /\ cp >= 0 /\ cp <= 1114111
<1>1. MaxPoint = 1114111
  BY SMT DEF MaxPoint
<1>2. MaxPoint \in Int
  BY SMT DEF MaxPoint
<1>3. cp \in CodePoints <=> cp \in Int /\ cp >= 0 /\ cp <= MaxPoint
  BY <1>2, SMT DEF CodePoints
<1>. QED
  BY <1>1, <1>3, SMT

\* appendRune writes bytes.
LEMMA RuneTyped ==
  ASSUME NEW cp \in CodePoints
  PROVE  appendRune(cp) \in Seq(Bytes)
<1>0. \A x \in Nat : 128 + (x % 64) \in Bytes
  BY SMT DEF Bytes
<1>1. cp \in Int /\ cp >= 0 /\ cp <= 1114111
  BY PointIs
<1>2. cp \in Nat /\ cp \div 64 \in Nat /\ cp \div 4096 \in Nat
  BY <1>1, SMT
<1>3. CASE cp < 128
  <2>1. appendRune(cp) = <<cp>>
    BY <1>1, <1>3, SMT DEF appendRune
  <2>2. cp \in Bytes
    BY <1>1, <1>3, SMT DEF Bytes
  <2>. QED
    BY <2>1, <2>2
<1>4. CASE cp >= 128 /\ cp < 2048
  <2> DEFINE x == 192 + (cp \div 64)
             y == 128 + (cp % 64)
  <2>1. appendRune(cp) = <<x, y>>
    BY <1>1, <1>4, SMT DEF appendRune
  <2>2. x \in Bytes /\ y \in Bytes
    BY <1>1, <1>4, SMT DEF Bytes
  <2> HIDE DEF x, y
  <2>. QED
    BY <2>1, <2>2
<1>5. CASE cp >= 2048 /\ cp < 65536
  <2> DEFINE x == 224 + (cp \div 4096)
             y == 128 + ((cp \div 64) % 64)
             z == 128 + (cp % 64)
  <2>1. appendRune(cp) = <<x, y, z>>
    BY <1>1, <1>5, SMT DEF appendRune
  <2>2. x \in Bytes
    BY <1>1, <1>5, SMT DEF Bytes
  <2>3. y \in Bytes /\ z \in Bytes
    BY <1>0, <1>2, SMT
  <2> HIDE DEF x, y, z
  <2>. QED
    BY <2>1, <2>2, <2>3
<1>6. CASE cp >= 65536
  <2> DEFINE w == 240 + (cp \div 262144)
             x == 128 + ((cp \div 4096) % 64)
             y == 128 + ((cp \div 64) % 64)
             z == 128 + (cp % 64)
  <2>1. appendRune(cp) = <<w, x, y, z>>
    BY <1>1, <1>6, SMT DEF appendRune
  <2>2. w \in Bytes
    BY <1>1, <1>6, SMT DEF Bytes
  <2>3. x \in Bytes /\ y \in Bytes /\ z \in Bytes
    BY <1>0, <1>2, SMT
  <2> HIDE DEF w, x, y, z
  <2>. QED
    BY <2>1, <2>2, <2>3
<1>. QED
  BY <1>1, <1>3, <1>4, <1>5, <1>6, SMT

\* A pair of surrogates stands for a character.
LEMMA PairTyped ==
  ASSUME NEW u \in High, NEW lo \in Low
  PROVE  combine(u, lo) \in CodePoints /\ combine(u, lo) >= 65536
<1> DEFINE e == combine(u, lo)
<1>1. u \in Int /\ u >= 55296 /\ u <= 56319 /\ lo \in Int /\ lo >= 56320 /\ lo <= 57343
  BY SMT DEF High, Low
<1>2. e \in Int /\ e >= 65536 /\ e <= 1114111
  BY <1>1, SMT DEF combine
<1> HIDE DEF e
<1>3. e \in CodePoints
  BY <1>2, PointIs, SMT
<1>. QED
  BY <1>2, <1>3, SMT DEF e

\* A unit that is no surrogate is one.
LEMMA UnitTyped ==
  ASSUME NEW u \in CodeUnits
  PROVE  u \in CodePoints
<1>1. u \in Int /\ u >= 0 /\ u <= 65535
  BY UnitIs, SMT
<1>. QED
  BY <1>1, PointIs, SMT

\* What a step of the reader leaves: the bytes read and the next position, or a word.
Reading == [word : {"nil", "malformed", "bad_string"}, value : Seq(Bytes), pos : Nat]

\* An accepted reading.
LEMMA AcceptIs ==
  ASSUME NEW v, NEW p
  PROVE  /\ ReadTo(v, p).word = "nil" /\ ReadTo(v, p).value = v /\ ReadTo(v, p).pos = p
         /\ v \in Seq(Bytes) /\ p \in Nat => ReadTo(v, p) \in Reading
BY DEF ReadTo, Reading

\* A refused one.
LEMMA RefuseIs ==
  /\ Reject("bad_string").word # "nil" /\ Reject("malformed").word # "nil"
  /\ Reject("bad_string") \in Reading /\ Reject("malformed") \in Reading
<1>1. <<>> \in Seq(Bytes)
  OBVIOUS
<1> DEFINE none == <<>>
<1> HIDE DEF none
<1>2. none \in Seq(Bytes)
  BY <1>1 DEF none
<1>3. [word |-> "bad_string", value |-> none, pos |-> 0] \in Reading /\ [word |-> "malformed", value |-> none, pos |-> 0] \in Reading
  BY <1>2 DEF Reading
<1>. QED
  BY <1>3 DEF Reject, none

\* escape's answers, in the order of its tests: p is at a backslash, h is what hex4
\* reads after \u, l what it reads of a second unit.
Followed(b, q) == q + 1 <= Len(b) /\ b[q] = Backslash /\ b[q + 1] = LetterU
PairRead(b, h, l) ==
  IF ~Followed(b, h.pos) \/ l.word # "nil" \/ ~second(l.value) THEN Reject("bad_string")
  ELSE ReadTo(appendRune(combine(h.value, l.value)), l.pos)
UnitRead(b, h, l) ==
  IF h.word # "nil" \/ h.value \in Low THEN Reject("bad_string")
  ELSE IF h.value \notin High THEN ReadTo(appendRune(h.value), h.pos) ELSE PairRead(b, h, l)
EscapeRead(b, p, c) ==
  IF p + 1 > Len(b) THEN Reject("malformed")
  ELSE IF c \in DOMAIN Short THEN ReadTo(<<Short[c]>>, p + 2)
  ELSE IF c # LetterU THEN Reject("bad_string")
  ELSE UnitRead(b, hex4(b, p + 2), hex4(b, hex4(b, p + 2).pos + 2))

\* escape in its order of tests.
LEMMA EscapeIs ==
  ASSUME NEW b \in Seq(Bytes), NEW p \in Nat
  PROVE  escape(b, p) = EscapeRead(b, p, At(b, p + 1))
<1> DEFINE c == At(b, p + 1)
           h == hex4(b, p + 2)
           l == hex4(b, h.pos + 2)
           paired == Followed(b, h.pos)
           bad == Reject("bad_string")
<1>1. escape(b, p) =
        CASE p + 1 > Len(b) -> Reject("malformed")
          [] c \in DOMAIN Short -> ReadTo(<<Short[c]>>, p + 2)
          [] p + 1 <= Len(b) /\ c \notin DOMAIN Short /\ c # LetterU -> bad
          [] c = LetterU /\ (h.word # "nil" \/ h.value \in Low) -> bad
          [] c = LetterU /\ h.word = "nil" /\ h.value \notin High \cup Low -> ReadTo(appendRune(h.value), h.pos)
          [] OTHER -> IF ~paired \/ l.word # "nil" \/ ~second(l.value) THEN bad
                      ELSE ReadTo(appendRune(combine(h.value, l.value)), l.pos)
  BY Zenon DEF escape, Followed
<1>5. p + 1 > Len(b) <=> ~(p + 1 <= Len(b))
  OBVIOUS
<1>6. LetterU \notin DOMAIN Short
  BY DEF LetterU, Short
<1> HIDE DEF c, h, l, paired, bad
<1> DEFINE e == escape(b, p)
           one == ReadTo(<<Short[c]>>, p + 2)
           mal == Reject("malformed")
           rune == ReadTo(appendRune(h.value), h.pos)
           both == ReadTo(appendRune(combine(h.value, l.value)), l.pos)
           low == h.value \in Low
           high == h.value \in High
           rest == ~paired \/ l.word # "nil" \/ ~second(l.value)
           end == p + 1 > Len(b)
           inside == p + 1 <= Len(b)
           short == c \in DOMAIN Short
           uni == c = LetterU
           fine == h.word = "nil"
<1>8. e = CASE end -> mal
            [] short -> one
            [] inside /\ ~short /\ ~uni -> bad
            [] uni /\ (~fine \/ low) -> bad
            [] uni /\ fine /\ ~(high \/ low) -> rune
            [] OTHER -> IF rest THEN bad ELSE both
  BY <1>1, Zenon
<1>9. (end <=> ~inside) /\ (uni => ~short) /\ (~(inside) \/ inside)
  BY <1>5, <1>6, Zenon
<1>10. ~inside => ~(short \/ uni)
  <2>1. ASSUME ~inside PROVE c = 0
    <3>1. p + 1 \notin 1..Len(b)
      BY <2>1
    <3>. QED
      BY <3>1 DEF c, At
  <2>2. 0 \notin DOMAIN Short /\ 0 # LetterU
    BY DEF LetterU, Short
  <2>. QED
    BY <2>1, <2>2
<1> HIDE DEF e, one, mal, rune, both, low, high, rest, end, inside, short, uni, fine
<1>11. e = IF end THEN mal ELSE IF short THEN one ELSE IF ~uni THEN bad
           ELSE IF ~fine \/ low THEN bad ELSE IF ~high THEN rune ELSE IF rest THEN bad ELSE both
  BY <1>8, <1>9, <1>10
<1>. QED
  BY <1>11, Zenon DEF EscapeRead, UnitRead, PairRead, e, one, mal, rune, both, low, high, rest, end, short, uni, fine,
                      c, h, l, paired, bad

\* What the reader takes for one escape, by its kind.
LEMMA EscapeCases ==
  ASSUME NEW b \in Seq(Bytes), NEW p \in Nat
  PROVE  LET c == At(b, p + 1)
             u == Unit4(b, p + 2)
             lo == Unit4(b, p + 8)
         IN \/ escape(b, p) = Reject("malformed") /\ p + 1 > Len(b)
            \/ escape(b, p) = Reject("bad_string") /\ p + 1 <= Len(b)
            \/ c \in DOMAIN Short /\ escape(b, p) = ReadTo(<<Short[c]>>, p + 2) /\ p + 1 <= Len(b)
            \/ /\ c = LetterU /\ p + 5 <= Len(b) /\ u \in CodeUnits \ (High \cup Low)
               /\ escape(b, p) = ReadTo(appendRune(u), p + 6)
            \/ /\ c = LetterU /\ p + 11 <= Len(b) /\ u \in High /\ lo \in CodeUnits /\ second(lo)
               /\ escape(b, p) = ReadTo(appendRune(combine(u, lo)), p + 12)
<1> DEFINE c == At(b, p + 1)
           h == hex4(b, p + 2)
           l == hex4(b, h.pos + 2)
           u == Unit4(b, p + 2)
           lo == Unit4(b, p + 8)
           bad == Reject("bad_string")
<1>2. \/ h = bad
      \/ h = ReadTo(u, p + 6) /\ p + 5 <= Len(b) /\ u \in CodeUnits
  <2>1. p + 2 \in Nat \ {0} /\ (p + 2) + 4 = p + 6 /\ (p + 2) + 3 = p + 5
    OBVIOUS
  <2> DEFINE q == p + 2
  <2> HIDE DEF q
  <2>2. q \in Nat \ {0} /\ q + 4 = p + 6 /\ q + 3 = p + 5
    BY <2>1 DEF q
  <2>3. hex4(b, q) = bad \/ (hex4(b, q) = ReadTo(Unit4(b, q), q + 4) /\ q + 3 <= Len(b) /\ Unit4(b, q) \in CodeUnits)
    BY <2>2, HexRead, Zenon
  <2>. QED
    BY <2>2, <2>3, Zenon DEF q
<1>3. ASSUME h.pos = p + 6
      PROVE  l = bad \/ (l = ReadTo(lo, p + 12) /\ p + 11 <= Len(b) /\ lo \in CodeUnits)
  <2> DEFINE q == p + 8
  <2>1. q \in Nat \ {0} /\ q + 4 = p + 12 /\ q + 3 = p + 11
    OBVIOUS
  <2>2. h.pos + 2 = q
    BY <1>3
  <2>4. l = hex4(b, q) /\ lo = Unit4(b, q)
    BY <2>2
  <2> HIDE DEF q, h, l, lo
  <2>3. hex4(b, q) = bad \/ (hex4(b, q) = ReadTo(Unit4(b, q), q + 4) /\ q + 3 <= Len(b) /\ Unit4(b, q) \in CodeUnits)
    BY <2>1, HexRead, Zenon
  <2>. QED
    BY <2>1, <2>3, <2>4, Zenon
<1>4. bad.word # "nil" /\ ReadTo(u, p + 6).word = "nil" /\ ReadTo(u, p + 6).value = u /\ ReadTo(u, p + 6).pos = p + 6
      /\ ReadTo(lo, p + 12).value = lo /\ ReadTo(lo, p + 12).pos = p + 12
  <2> HIDE DEF u, lo
  <2>1. bad.word # "nil"
    BY RefuseIs
  <2>2. \A v, k : ReadTo(v, k).word = "nil" /\ ReadTo(v, k).value = v /\ ReadTo(v, k).pos = k
    BY DEF ReadTo
  <2> HIDE DEF bad
  <2>. QED
    BY <2>1, <2>2, Zenon
<1> DEFINE e == escape(b, p)
           one == ReadTo(<<Short[c]>>, p + 2)
           mal == Reject("malformed")
           rune == ReadTo(appendRune(h.value), h.pos)
           both == ReadTo(appendRune(combine(h.value, l.value)), l.pos)
           low == h.value \in Low
           high == h.value \in High
           rest == ~Followed(b, h.pos) \/ l.word # "nil" \/ ~second(l.value)
           end == p + 1 > Len(b)
           inside == p + 1 <= Len(b)
           short == c \in DOMAIN Short
           uni == c = LetterU
           fine == h.word = "nil"
<1>5. e = IF end THEN mal ELSE IF short THEN one ELSE IF ~uni THEN bad
          ELSE IF ~fine \/ low THEN bad ELSE IF ~high THEN rune ELSE IF rest THEN bad ELSE both
  BY EscapeIs, Zenon DEF EscapeRead, UnitRead, PairRead
<1>6. end <=> ~inside
  OBVIOUS
<1> HIDE DEF c, h, l, u, lo, bad, e, one, mal, rune, both, low, high, rest, end, inside, short, uni, fine
<1>11. \/ e = mal /\ end
       \/ e = bad /\ inside
       \/ e = one /\ short /\ inside
       \/ e = rune /\ uni /\ fine /\ ~high /\ ~low
       \/ e = both /\ uni /\ fine /\ ~low /\ high /\ ~rest
  BY <1>5, <1>6
<1>12. ASSUME uni, fine PROVE h = ReadTo(u, p + 6) /\ h.value = u /\ h.pos = p + 6 /\ p + 5 <= Len(b) /\ u \in CodeUnits
  BY <1>2, <1>4, <1>12 DEF fine
<1>13. ASSUME uni, fine, ~rest PROVE l.value = lo /\ l.pos = p + 12 /\ p + 11 <= Len(b) /\ lo \in CodeUnits
  BY <1>3, <1>4, <1>12, <1>13 DEF rest
<1>14. CASE e = mal /\ end
  BY <1>14, Zenon DEF e, mal, end
<1>15. CASE e = bad /\ inside
  BY <1>15, Zenon DEF e, bad, inside
<1>16. CASE e = one /\ short /\ inside
  BY <1>16, Zenon DEF e, one, short, inside, c
<1>17. CASE e = rune /\ uni /\ fine /\ ~high /\ ~low
  <2>1. u \in CodeUnits \ (High \cup Low) /\ e = ReadTo(appendRune(u), p + 6) /\ c = LetterU
    BY <1>12, <1>17 DEF rune, high, low, uni
  <2>. QED
    BY <1>12, <1>17, <2>1, Zenon DEF e, u, c
<1>18. CASE e = both /\ uni /\ fine /\ ~low /\ high /\ ~rest
  <2>1. u \in High /\ e = ReadTo(appendRune(combine(u, lo)), p + 12) /\ c = LetterU /\ second(lo)
    BY <1>12, <1>13, <1>18 DEF both, high, rest, uni
  <2>. QED
    BY <1>13, <1>18, <2>1, Zenon DEF e, u, lo, c
<1>. QED
  BY <1>11, <1>14, <1>15, <1>16, <1>17, <1>18

\* escape moves on, or refuses.
LEMMA EscapeTyped ==
  ASSUME NEW b \in Seq(Bytes), NEW p \in Nat
  PROVE  escape(b, p) \in Reading
<1> DEFINE c == At(b, p + 1)
           u == Unit4(b, p + 2)
           lo == Unit4(b, p + 8)
<1>0. /\ \A v, q : v \in Seq(Bytes) /\ q \in Nat => ReadTo(v, q) \in Reading
      /\ p + 2 \in Nat /\ p + 6 \in Nat /\ p + 12 \in Nat
  BY AcceptIs
<1>1. CASE escape(b, p) = Reject("malformed") \/ escape(b, p) = Reject("bad_string")
  BY <1>1, RefuseIs, Zenon
<1>2. CASE c \in DOMAIN Short /\ escape(b, p) = ReadTo(<<Short[c]>>, p + 2)
  <2>1. Short[c] \in Bytes
    BY <1>2 DEF Short, Bytes
  <2>2. <<Short[c]>> \in Seq(Bytes)
    BY <2>1
  <2>. QED
    BY <1>0, <1>2, <2>2, Zenon
<1>3. CASE u \in CodeUnits /\ escape(b, p) = ReadTo(appendRune(u), p + 6)
  <2>1. appendRune(u) \in Seq(Bytes)
    BY <1>3, UnitTyped, RuneTyped, Zenon
  <2>. QED
    BY <1>0, <1>3, <2>1, Zenon
<1>4. CASE u \in High /\ second(lo) /\ escape(b, p) = ReadTo(appendRune(combine(u, lo)), p + 12)
  <2>1. lo \in Low
    BY <1>4 DEF second
  <2>2. appendRune(combine(u, lo)) \in Seq(Bytes)
    <3>1. combine(u, lo) \in CodePoints
      BY <1>4, <2>1, PairTyped, SMT
    <3>. QED
      BY <3>1, RuneTyped, Zenon
  <2>. QED
    BY <1>0, <1>4, <2>2, Zenon
<1>. QED
  BY <1>1, <1>2, <1>3, <1>4, EscapeCases, Zenon

-----------------------------------------------------------------------------
(***************************************************************************)
(* The loop of str.                                                        *)
(***************************************************************************)
\* What a reading is.
LEMMA ReadingIs ==
  ASSUME NEW r \in Reading
  PROVE  /\ r.word \in {"nil", "malformed", "bad_string"} /\ r.value \in Seq(Bytes) /\ r.pos \in Nat
         /\ r.word = "nil" => r = ReadTo(r.value, r.pos)
BY DEF Reading, ReadTo

\* What a turn does, by the byte it meets.
LEMMA TurnCases ==
  ASSUME NEW b \in Seq(Bytes), NEW r \in Reading
  PROVE  LET c == At(b, r.pos)
             e == escape(b, r.pos)
         IN /\ r.word # "nil" => strTurn(b, r) = r
            /\ c = Quote => strTurn(b, r) = r
            /\ r.word = "nil" /\ r.pos > Len(b) => strTurn(b, r) = Reject("malformed")
            /\ r.word = "nil" /\ r.pos <= Len(b) /\ c < 32 => strTurn(b, r) = Reject("bad_string")
            /\ r.word = "nil" /\ c >= 32 /\ c # Quote /\ c # Backslash =>
                 strTurn(b, r) = ReadTo(Append(r.value, c), r.pos + 1)
            /\ r.word = "nil" /\ c = Backslash =>
                 strTurn(b, r) = IF e.word # "nil" THEN e ELSE ReadTo(r.value \o e.value, e.pos)
<1> DEFINE c == At(b, r.pos)
           e == escape(b, r.pos)
           w == strTurn(b, r)
           nil == r.word = "nil"
           past == r.pos > Len(b)
           inside == r.pos <= Len(b)
           control == c < 32
           visible == c >= 32
           quote == c = Quote
           back == c = Backslash
           plain == ReadTo(Append(r.value, c), r.pos + 1)
           taken == IF e.word # "nil" THEN e ELSE ReadTo(r.value \o e.value, e.pos)
           mal == Reject("malformed")
           bad == Reject("bad_string")
<1>1. w = CASE ~nil \/ quote -> r
            [] nil /\ past -> mal
            [] nil /\ inside /\ control -> bad
            [] nil /\ visible /\ ~(quote \/ back) -> plain
            [] OTHER -> taken
  <2>1. c \notin {Quote, Backslash} <=> ~(quote \/ back)
    OBVIOUS
  <2>. QED
    BY <2>1, Zenon DEF strTurn, extend
<1>2. r.pos \in Nat /\ c \in Bytes
  BY ReadingIs, ByteAt
<1>3. /\ past <=> ~inside
      /\ control <=> ~visible
      /\ quote => ~back /\ visible
      /\ back => ~quote /\ visible
  <2> DEFINE p == r.pos
             n == Len(b)
  <2>1. p \in Nat /\ n \in Nat /\ c \in 0..255
    BY <1>2 DEF Bytes
  <2> HIDE DEF p, c, n
  <2>2. (p > n <=> ~(p <= n)) /\ (c < 32 <=> ~(c >= 32))
    BY <2>1
  <2>3. Quote >= 32 /\ Backslash >= 32 /\ Quote # Backslash
    BY DEF Quote, Backslash
  <2>4. (quote => ~back /\ visible) /\ (back => ~quote /\ visible)
    BY <2>3, Zenon
  <2>5. (past <=> ~inside) /\ (control <=> ~visible)
    BY <2>2, Zenon DEF p, n
  <2>. QED
    BY <2>4, <2>5, Zenon
<1>4. past => control
  BY <1>2 DEF At
<1> HIDE DEF c, e, w, nil, past, inside, control, visible, quote, back, plain, taken, mal, bad
<1>5. /\ ~nil => w = r
      /\ quote => w = r
      /\ nil /\ past => w = mal
      /\ nil /\ inside /\ control => w = bad
      /\ nil /\ visible /\ ~quote /\ ~back => w = plain
      /\ nil /\ back => w = taken
  BY <1>1, <1>3, <1>4
<1>. QED
  BY <1>5, Zenon DEF c, e, w, nil, past, inside, control, visible, quote, back, plain, taken, mal, bad

\* A turn of str's loop gives a reading.
LEMMA TurnTyped ==
  ASSUME NEW b \in Seq(Bytes), NEW r \in Reading
  PROVE  strTurn(b, r) \in Reading
<1> DEFINE c == At(b, r.pos)
           e == escape(b, r.pos)
<1>0. r.pos \in Nat /\ c \in Bytes /\ Len(b) \in Nat /\ r.value \in Seq(Bytes)
  BY ReadingIs, ByteAt
<1>1. CASE r.word # "nil" \/ c = Quote
  BY <1>1, TurnCases, Zenon
<1>2. CASE r.word = "nil" /\ r.pos > Len(b)
  BY <1>2, TurnCases, RefuseIs, Zenon
<1>3. CASE r.word = "nil" /\ r.pos <= Len(b) /\ c < 32
  BY <1>3, TurnCases, RefuseIs, Zenon
<1>4. CASE r.word = "nil" /\ c >= 32 /\ c # Quote /\ c # Backslash
  <2>1. strTurn(b, r) = ReadTo(Append(r.value, c), r.pos + 1)
    BY <1>4, TurnCases, Zenon
  <2>2. Append(r.value, c) \in Seq(Bytes) /\ r.pos + 1 \in Nat
    BY <1>0
  <2> DEFINE x == Append(r.value, c)
             q == r.pos + 1
  <2>3. x \in Seq(Bytes) /\ q \in Nat /\ strTurn(b, r) = ReadTo(x, q)
    BY <2>1, <2>2
  <2> HIDE DEF x, q
  <2>. QED
    BY <2>3, AcceptIs
<1>5. CASE r.word = "nil" /\ c = Backslash
  <2>1. strTurn(b, r) = IF e.word # "nil" THEN e ELSE ReadTo(r.value \o e.value, e.pos)
    BY <1>5, TurnCases, Zenon
  <2>2. e \in Reading
    BY <1>0, EscapeTyped
  <2>3. e.value \in Seq(Bytes) /\ e.pos \in Nat
    BY <2>2, ReadingIs
  <2>4. r.value \o e.value \in Seq(Bytes)
    BY <1>0, <2>3
  <2>5. ReadTo(r.value \o e.value, e.pos) \in Reading
    BY <2>3, <2>4, AcceptIs, Zenon
  <2>. QED
    BY <2>1, <2>2, <2>5, Zenon
<1>6. \/ r.word # "nil" \/ c = Quote
      \/ r.word = "nil" /\ r.pos > Len(b)
      \/ r.word = "nil" /\ r.pos <= Len(b) /\ c < 32
      \/ r.word = "nil" /\ c >= 32 /\ c # Quote /\ c # Backslash
      \/ r.word = "nil" /\ c = Backslash
  <2>1. (r.pos > Len(b) \/ r.pos <= Len(b)) /\ (c < 32 \/ c >= 32)
    <3> DEFINE p == r.pos
               n == Len(b)
    <3>1. p \in Nat /\ n \in Nat /\ c \in 0..255
      BY <1>0 DEF Bytes
    <3> HIDE DEF p, c, n
    <3>2. (p > n \/ p <= n) /\ (c < 32 \/ c >= 32)
      BY <3>1
    <3>. QED
      BY <3>2, Zenon DEF p, n
  <2>. QED
    BY <2>1, Zenon
<1>. QED
  BY <1>1, <1>2, <1>3, <1>4, <1>5, <1>6, Zenon

\* The loop of str.
LEMMA TurnsUnfold ==
  ASSUME NEW b \in Seq(Bytes)
  PROVE  LET v == StrTurns(b)
         IN /\ v \in [0..Len(b) -> Reading] /\ v[0] = ReadTo(<<>>, 2)
            /\ \A n \in 1..Len(b) : v[n] = strTurn(b, v[n - 1])
<1> DEFINE N == Len(b)
           start == ReadTo(<<>>, 2)
           Step == [n \in 1..N |-> [v \in Reading |-> strTurn(b, v)]]
           Is(g) == g = [n \in 0..N |-> IF n = 0 THEN start ELSE strTurn(b, g[n - 1])]
<1>0. N \in Nat /\ start \in Reading
  <2>1. <<>> \in Seq(Bytes) /\ 2 \in Nat
    OBVIOUS
  <2> DEFINE none == <<>>
  <2> HIDE DEF none
  <2>2. none \in Seq(Bytes)
    BY <2>1 DEF none
  <2>3. ReadTo(none, 2) \in Reading
    BY <2>1, <2>2, AcceptIs, Zenon
  <2>. QED
    BY <2>3 DEF none
<1>1. Step \in [1..N -> [Reading -> Reading]]
  BY TurnTyped
<1> HIDE DEF N, start
<1>2. PICK g : Loop(g, N, Reading, start, Step)
  <2> HIDE DEF Step
  <2>. QED
    BY <1>0, <1>1, LoopRuns
<1>3. ASSUME NEW n \in 0..N
      PROVE  g[n] = IF n = 0 THEN start ELSE strTurn(b, g[n - 1])
  <2>1. g \in [0..N -> Reading] /\ g[0] = start
    BY <1>2 DEF Loop
  <2>2. CASE n # 0
    <3>1. n \in 1..N /\ n - 1 \in 0..N /\ g[n - 1] \in Reading
      BY <1>0, <2>1, <2>2
    <3>2. g[n] = Step[n][g[n - 1]]
      BY <1>2, <3>1 DEF Loop
    <3>. QED
      BY <2>2, <3>1, <3>2
  <2>. QED
    BY <2>1, <2>2
<1>4. Is(g)
  <2>1. g = [n \in 0..N |-> g[n]]
    BY <1>2 DEF Loop
  <2>. QED
    BY <1>3, <2>1
<1>5. Is(StrTurns(b))
  BY <1>4 DEF StrTurns, N, start
<1> DEFINE v == StrTurns(b)
<1> HIDE DEF v
<1>6. v = [n \in 0..N |-> IF n = 0 THEN start ELSE strTurn(b, v[n - 1])]
  BY <1>5 DEF v
<1>7. /\ v = [n \in 0..N |-> v[n]] /\ v[0] = start
      /\ \A n \in 1..N : v[n] = strTurn(b, v[n - 1])
  <2>1. 0 \in 0..N /\ \A n \in 1..N : n \in 0..N /\ n # 0
    BY <1>0
  <2>2. v = [n \in 0..N |-> v[n]] /\ v[0] = start
    BY <1>6, <2>1
  <2>3. ASSUME NEW n \in 1..N PROVE v[n] = strTurn(b, v[n - 1])
    <3>1. v[n] = IF n = 0 THEN start ELSE strTurn(b, v[n - 1])
      BY <1>6, <2>1, Zenon
    <3>. QED
      BY <2>1, <3>1
  <2>. QED
    BY <2>2, <2>3
<1>8. Loop(v, N, Reading, start, Step)
  <2>1. \A n \in 1..N : v[n - 1] \in Reading => v[n] = Step[n][v[n - 1]]
    BY <1>7
  <2> HIDE DEF Step
  <2>. QED
    BY <1>0, <1>1, <1>7, <2>1, LoopTyped
<1>. QED
  BY <1>7, <1>8 DEF v, Loop, N, start

\* What str makes of the last reading.
LEMMA StrCases ==
  ASSUME NEW b \in Seq(Bytes)
  PROVE  LET r == StrTurns(b)[Len(b)]
         IN /\ r \in Reading
            /\ str(b).word = "nil" => validUTF8(str(b).value) /\ str(b).value \in Seq(Bytes)
            /\ At(b, 1) = Quote =>
                 str(b) = IF r.word # "nil" THEN r
                          ELSE IF validUTF8(r.value) THEN ReadTo(r.value, r.pos + 1) ELSE Reject("bad_string")
<1> DEFINE r == StrTurns(b)[Len(b)]
           w == str(b)
           quoted == At(b, 1) = Quote
           nil == r.word = "nil"
           valid == validUTF8(r.value)
           yes == ReadTo(r.value, r.pos + 1)
           bad == Reject("bad_string")
           wrong == Reject("wrong_type")
<1>0. r \in Reading
  <2>1. Len(b) \in 0..Len(b)
    OBVIOUS
  <2>. QED
    BY <2>1, TurnsUnfold
<1>1. w = IF ~quoted THEN wrong ELSE IF ~nil THEN r ELSE IF valid THEN yes ELSE bad
  BY Zenon DEF str, ended
<1>2. wrong.word # "nil" /\ bad.word # "nil" /\ yes.value = r.value
  BY RefuseIs, AcceptIs DEF Reject
<1>3. r.value \in Seq(Bytes)
  BY <1>0, ReadingIs
<1> HIDE DEF r, w, quoted, yes, bad, wrong, valid
<1>4. w.word = "nil" => valid /\ w.value = r.value
  BY <1>1, <1>2
<1>5. quoted => w = IF ~nil THEN r ELSE IF valid THEN yes ELSE bad
  BY <1>1
<1>6. w.word = "nil" => validUTF8(w.value) /\ w.value \in Seq(Bytes)
  BY <1>3, <1>4 DEF valid
<1>. QED
  BY <1>0, <1>5, <1>6, Zenon DEF r, w, quoted, yes, bad, valid

-----------------------------------------------------------------------------
(***************************************************************************)
(* What esc writes, str reads.                                             *)
(***************************************************************************)
\* The text t stands in b from p on.
Spells(b, p, t) == p + Len(t) - 1 <= Len(b) /\ \A k \in 1..Len(t) : b[p + k - 1] = t[k]

\* The ways a byte is written: as a short escape, by its number, or as it is.
ByNumber(c) == <<Backslash, LetterU, 48, 48, Hex(c \div 16), Hex(c % 16)>>

\* escByte by the value of the byte.
LEMMA EscByteIs ==
  ASSUME NEW c \in Bytes
  PROVE  \/ \E x \in DOMAIN Short : escByte(c) = <<Backslash, x>> /\ Short[x] = c
         \/ escByte(c) = ByNumber(c) /\ c \in 0..31
         \/ escByte(c) = <<c>> /\ c >= 32 /\ c # Quote /\ c # Backslash
<1>0. /\ Quote \in DOMAIN Short /\ Short[Quote] = Quote
      /\ Backslash \in DOMAIN Short /\ Short[Backslash] = Backslash
      /\ 98 \in DOMAIN Short /\ Short[98] = 8
      /\ 102 \in DOMAIN Short /\ Short[102] = 12
      /\ 110 \in DOMAIN Short /\ Short[110] = 10
      /\ 114 \in DOMAIN Short /\ Short[114] = 13
      /\ 116 \in DOMAIN Short /\ Short[116] = 9
  BY DEF Short, Quote, Backslash
<1>1. escByte(c) = CASE c \in {Quote, Backslash} -> <<Backslash, c>>
                     [] c = 8 -> <<Backslash, 98>>
                     [] c = 12 -> <<Backslash, 102>>
                     [] c = 10 -> <<Backslash, 110>>
                     [] c = 13 -> <<Backslash, 114>>
                     [] c = 9 -> <<Backslash, 116>>
                     [] c \in 0..31 \ {8, 9, 10, 12, 13} -> ByNumber(c)
                     [] OTHER -> <<c>>
  BY Zenon DEF escByte, ByNumber
<1>2. c \in 0..255 /\ Quote = 34 /\ Backslash = 92
  BY DEF Bytes, Quote, Backslash
<1> DEFINE e == escByte(c)
           w(x) == <<Backslash, x>>
<1>3. /\ e = CASE c \in {Quote, Backslash} -> w(c)
                     [] c = 8 -> w(98)
                     [] c = 12 -> w(102)
                     [] c = 10 -> w(110)
                     [] c = 13 -> w(114)
                     [] c = 9 -> w(116)
                     [] c \in 0..31 \ {8, 9, 10, 12, 13} -> ByNumber(c)
                     [] OTHER -> <<c>>
  BY <1>1, Zenon
<1>4. SUFFICES \/ \E x \in DOMAIN Short : e = w(x) /\ Short[x] = c
               \/ e = ByNumber(c) /\ c \in 0..31
               \/ e = <<c>> /\ c >= 32 /\ c # Quote /\ c # Backslash
  BY Zenon
<1> HIDE DEF e, w
<1>5. CASE c \in {Quote, Backslash}
  <2>1. e = w(c)
    BY <1>2, <1>3, <1>5
  <2>. QED
    BY <1>0, <1>5, <2>1
<1>6. CASE c = 8
  <2>1. e = w(98)
    BY <1>2, <1>3, <1>6
  <2>. QED
    BY <1>0, <1>6, <2>1
<1>7. CASE c = 12
  <2>1. e = w(102)
    BY <1>2, <1>3, <1>7
  <2>. QED
    BY <1>0, <1>7, <2>1
<1>8. CASE c = 10
  <2>1. e = w(110)
    BY <1>2, <1>3, <1>8
  <2>. QED
    BY <1>0, <1>8, <2>1
<1>9. CASE c = 13
  <2>1. e = w(114)
    BY <1>2, <1>3, <1>9
  <2>. QED
    BY <1>0, <1>9, <2>1
<1>10. CASE c = 9
  <2>1. e = w(116)
    BY <1>2, <1>3, <1>10
  <2>. QED
    BY <1>0, <1>10, <2>1
<1>11. CASE c \in 0..31 \ {8, 9, 10, 12, 13}
  <2>1. e = ByNumber(c)
    BY <1>2, <1>3, <1>11
  <2>. QED
    BY <1>11, <2>1
<1>12. CASE c >= 32 /\ c # Quote /\ c # Backslash
  <2>1. e = <<c>>
    BY <1>2, <1>3, <1>12
  <2>. QED
    BY <1>12, <2>1
<1>13. \/ c \in {Quote, Backslash} \/ c = 8 \/ c = 9 \/ c = 10 \/ c = 12 \/ c = 13
       \/ c \in 0..31 \ {8, 9, 10, 12, 13} \/ (c >= 32 /\ c # Quote /\ c # Backslash)
  BY <1>2
<1>. QED
  BY <1>5, <1>6, <1>7, <1>8, <1>9, <1>10, <1>11, <1>12, <1>13

\* A digit reads as it is written.
LEMMA HexReads ==
  ASSUME NEW n \in Nibble
  PROVE  Hex(n) \in Bytes /\ HexValue(Hex(n)) = n
<1>1. CASE n < 10
  <2>1. Hex(n) = 48 + n
    BY <1>1 DEF Nibble, Hex
  <2> DEFINE c == 48 + n
  <2>2. c \in 48..57 /\ c - 48 = n /\ c \in Bytes
    BY <1>1 DEF Nibble, Bytes
  <2> HIDE DEF c
  <2>3. HexValue(c) = c - 48
    BY <2>2 DEF HexValue
  <2>. QED
    BY <2>1, <2>2, <2>3 DEF c
<1>2. CASE ~(n < 10)
  <2>1. Hex(n) = 87 + n
    BY <1>2 DEF Nibble, Hex
  <2> DEFINE c == 87 + n
  <2>2. c \in 97..102 /\ c \notin 48..57 /\ c - 87 = n /\ c \in Bytes
    BY <1>2 DEF Nibble, Bytes
  <2> HIDE DEF c
  <2>3. HexValue(c) = c - 87
    BY <2>2 DEF HexValue
  <2>. QED
    BY <2>1, <2>2, <2>3 DEF c
<1>. QED
  BY <1>1, <1>2 DEF Nibble

\* Four digits written are the unit read.
HexAt(b, p, w, x, y, z) ==
  p + 3 <= Len(b) /\ b[p] = Hex(w) /\ b[p + 1] = Hex(x) /\ b[p + 2] = Hex(y) /\ b[p + 3] = Hex(z)

\* Four digits written are read back.
LEMMA HexWritten ==
  ASSUME NEW b \in Seq(Bytes), NEW p \in Nat \ {0},
         NEW w \in Nibble, NEW x \in Nibble, NEW y \in Nibble, NEW z \in Nibble, HexAt(b, p, w, x, y, z)
  PROVE  hex4(b, p) = ReadTo(FourDigits(w, x, y, z), p + 4)
<1>0. p + 3 <= Len(b) /\ b[p] = Hex(w) /\ b[p + 1] = Hex(x) /\ b[p + 2] = Hex(y) /\ b[p + 3] = Hex(z)
  BY DEF HexAt
<1>1. HexValue(b[p]) = w /\ HexValue(b[p + 1]) = x /\ HexValue(b[p + 2]) = y /\ HexValue(b[p + 3]) = z
  BY <1>0, HexReads
<1>2. ASSUME NEW i \in 0..3 PROVE HexValue(At(b, p + i)) # -1
  <2>1. p + i \in 1..Len(b)
    BY <1>0
  <2>2. At(b, p + i) = b[p + i]
    BY <2>1 DEF At
  <2>3. i = 0 \/ i = 1 \/ i = 2 \/ i = 3
    OBVIOUS
  <2>4. p + 0 = p
    OBVIOUS
  <2> DEFINE h == HexValue(At(b, p + i))
  <2>5. h = w \/ h = x \/ h = y \/ h = z
    BY <1>1, <2>2, <2>3, <2>4
  <2> HIDE DEF h
  <2>6. h # -1
    BY <2>5 DEF Nibble
  <2>. QED
    BY <2>6 DEF h
<1>3. ~(p + 3 > Len(b))
  BY <1>0
<1>4. hex4(b, p) = ReadTo(Unit4(b, p), p + 4)
  BY <1>2, <1>3, SMT DEF hex4, Unit4, FourDigits
<1>. QED
  BY <1>1, <1>4, Zenon DEF Unit4

\* The parts of an accepted reading.
LEMMA AcceptParts ==
  ASSUME NEW x, NEW q
  PROVE  ReadTo(x, q).word = "nil" /\ ReadTo(x, q).value = x /\ ReadTo(x, q).pos = q
BY DEF ReadTo

\* What a turn does with an escape.
LEMMA TurnEscape ==
  ASSUME NEW b \in Seq(Bytes), NEW v \in Seq(Bytes), NEW p \in Nat, At(b, p) = Backslash,
         NEW x, NEW q, EscapeRead(b, p, At(b, p + 1)) = ReadTo(x, q)
  PROVE  strTurn(b, ReadTo(v, p)) = ReadTo(v \o x, q)
<1> DEFINE r == ReadTo(v, p)
<1>1. r \in Reading /\ r.word = "nil" /\ r.value = v /\ r.pos = p
  BY AcceptIs
<1> HIDE DEF r
<1>2. escape(b, p) = ReadTo(x, q)
  BY EscapeIs
<1>3. strTurn(b, r) = IF escape(b, r.pos).word # "nil" THEN escape(b, r.pos)
                   ELSE ReadTo(r.value \o escape(b, r.pos).value, escape(b, r.pos).pos)
  BY <1>1, TurnCases, Zenon
<1>4. ReadTo(x, q).word = "nil" /\ ReadTo(x, q).value = x /\ ReadTo(x, q).pos = q
  BY AcceptParts
<1>. QED
  BY <1>1, <1>2, <1>3, <1>4, Zenon DEF r

\* A character below 128 is its own byte.
LEMMA RuneOne ==
  ASSUME NEW c \in Int, c < 128
  PROVE  appendRune(c) = <<c>>
BY SMT DEF appendRune

\* Where two bytes stand.
LEMMA SpellsTwo ==
  ASSUME NEW b \in Seq(Bytes), NEW p \in Nat \ {0}, NEW x, NEW y, Spells(b, p, <<x, y>>)
  PROVE  At(b, p) = x /\ At(b, p + 1) = y /\ p + 1 <= Len(b)
<1> DEFINE t == <<x, y>>
<1>1. Len(t) = 2 /\ t[1] = x /\ t[2] = y
  OBVIOUS
<1>2. Spells(b, p, t)
  OBVIOUS
<1> HIDE DEF t
<1>3. p + 2 - 1 <= Len(b) /\ b[p + 1 - 1] = x /\ b[p + 2 - 1] = y
  BY <1>1, <1>2 DEF Spells
<1>4. p + 2 - 1 = p + 1 /\ p + 1 - 1 = p /\ p \in 1..Len(b) /\ p + 1 \in 1..Len(b)
  BY <1>3
<1>. QED
  BY <1>3, <1>4 DEF At

\* Where one byte stands.
LEMMA SpellsOne ==
  ASSUME NEW b \in Seq(Bytes), NEW p \in Nat \ {0}, NEW x, Spells(b, p, <<x>>)
  PROVE  At(b, p) = x /\ p <= Len(b)
<1> DEFINE t == <<x>>
<1>1. Len(t) = 1 /\ t[1] = x
  OBVIOUS
<1>2. Spells(b, p, t)
  OBVIOUS
<1> HIDE DEF t
<1>3. p + 1 - 1 <= Len(b) /\ b[p + 1 - 1] = x
  BY <1>1, <1>2 DEF Spells
<1>4. p + 1 - 1 = p /\ p \in 1..Len(b)
  BY <1>3
<1>. QED
  BY <1>3, <1>4 DEF At

\* A \uXXXX as written.
Spelled(w, x, y, z) == <<Backslash, LetterU, Hex(w), Hex(x), Hex(y), Hex(z)>>

\* The six bytes of an escape.
LEMMA SpelledIs ==
  ASSUME NEW w \in Nibble, NEW x \in Nibble, NEW y \in Nibble, NEW z \in Nibble
  PROVE  Spelled(w, x, y, z) \in Seq(Bytes) /\ Len(Spelled(w, x, y, z)) = 6
<1> DEFINE a == Hex(w)
           c == Hex(x)
           d == Hex(y)
           e == Hex(z)
<1>1. a \in Bytes /\ c \in Bytes /\ d \in Bytes /\ e \in Bytes
  BY HexReads
<1> HIDE DEF a, c, d, e
<1>2. Backslash \in Bytes /\ LetterU \in Bytes
  BY DEF Backslash, LetterU, Bytes
<1>3. <<Backslash, LetterU, a, c, d, e>> \in Seq(Bytes) /\ Len(<<Backslash, LetterU, a, c, d, e>>) = 6
  BY <1>1, <1>2
<1>. QED
  BY <1>3 DEF Spelled, a, c, d, e

\* Where an escape stands.
LEMMA SpellsUnit ==
  ASSUME NEW b \in Seq(Bytes), NEW p \in Nat \ {0},
         NEW w \in Nibble, NEW x \in Nibble, NEW y \in Nibble, NEW z \in Nibble,
         Spells(b, p, Spelled(w, x, y, z))
  PROVE  /\ p + 5 <= Len(b) /\ b[p] = Backslash /\ b[p + 1] = LetterU
         /\ At(b, p) = Backslash /\ At(b, p + 1) = LetterU
         /\ hex4(b, p + 2) = ReadTo(FourDigits(w, x, y, z), p + 6)
<1> DEFINE t == Spelled(w, x, y, z)
<1>0. Len(t) = 6
  BY SpelledIs
<1>1. /\ t[1] = Backslash /\ t[2] = LetterU /\ t[3] = Hex(w) /\ t[4] = Hex(x)
      /\ t[5] = Hex(y) /\ t[6] = Hex(z)
  BY DEF Spelled
<1>2. Spells(b, p, t)
  OBVIOUS
<1> HIDE DEF t
<1>3. p + 6 - 1 <= Len(b) /\ \A k \in 1..6 : b[p + k - 1] = t[k]
  BY <1>0, <1>2 DEF Spells
<1>4. /\ p + 1 - 1 = p /\ p + 2 - 1 = p + 1 /\ p + 3 - 1 = p + 2 /\ p + 4 - 1 = p + 3
      /\ p + 5 - 1 = p + 4 /\ p + 6 - 1 = p + 5
  OBVIOUS
<1>5. /\ p + 5 <= Len(b) /\ b[p] = Backslash /\ b[p + 1] = LetterU /\ b[p + 2] = Hex(w) /\ b[p + 3] = Hex(x)
      /\ b[p + 4] = Hex(y) /\ b[p + 5] = Hex(z)
  BY <1>1, <1>3, <1>4
<1>6. p \in 1..Len(b) /\ p + 1 \in 1..Len(b)
  BY <1>5
<1>7. At(b, p) = Backslash /\ At(b, p + 1) = LetterU
  BY <1>5, <1>6 DEF At
<1> DEFINE q == p + 2
<1>8. q \in Nat \ {0} /\ q + 1 = p + 3 /\ q + 2 = p + 4 /\ q + 3 = p + 5 /\ q + 4 = p + 6
  OBVIOUS
<1>9. b[q] = Hex(w) /\ b[q + 1] = Hex(x) /\ b[q + 2] = Hex(y) /\ b[q + 3] = Hex(z) /\ q + 3 <= Len(b)
  BY <1>5, <1>8
<1> HIDE DEF q
<1>10. hex4(b, q) = ReadTo(FourDigits(w, x, y, z), q + 4)
  <2>1. HexAt(b, q, w, x, y, z)
    BY <1>9, Zenon DEF HexAt
  <2>. QED
    BY <1>8, <2>1, HexWritten
<1>. QED
  BY <1>5, <1>7, <1>8, <1>10 DEF q

\* A character below the surrogates is none.
LEMMA NotSurrogate ==
  ASSUME NEW c \in Int, c < 55296
  PROVE  c \notin Low /\ c \notin High
<1>1. ASSUME c \in Low PROVE FALSE
  BY <1>1, SMT DEF Low
<1>2. ASSUME c \in High PROVE FALSE
  BY <1>2, SMT DEF High
<1>. QED
  BY <1>1, <1>2

\* str takes back, in one turn, what esc writes of a byte.
LEMMA EscTurn ==
  ASSUME NEW b \in Seq(Bytes), NEW v \in Seq(Bytes), NEW p \in Nat \ {0}, NEW c \in Bytes,
         Spells(b, p, escByte(c))
  PROVE  strTurn(b, ReadTo(v, p)) = ReadTo(Append(v, c), p + Len(escByte(c)))
<1>0. v \o <<c>> = Append(v, c)
  OBVIOUS
<1>1. ASSUME NEW x \in DOMAIN Short, escByte(c) = <<Backslash, x>>, Short[x] = c
      PROVE  strTurn(b, ReadTo(v, p)) = ReadTo(Append(v, c), p + Len(escByte(c)))
  <2>1. At(b, p) = Backslash /\ At(b, p + 1) = x /\ p + 1 <= Len(b)
    BY <1>1, SpellsTwo
  <2>2. ~(p + 1 > Len(b))
    BY <2>1
  <2>3. EscapeRead(b, p, At(b, p + 1)) = ReadTo(<<c>>, p + 2)
    BY <1>1, <2>1, <2>2, Zenon DEF EscapeRead
  <2>5. strTurn(b, ReadTo(v, p)) = ReadTo(v \o <<c>>, p + 2)
    BY <2>1, <2>3, TurnEscape
  <2>6. Len(escByte(c)) = 2
    BY <1>1
  <2>. QED
    BY <1>0, <2>5, <2>6, Zenon
<1>2. CASE escByte(c) = ByNumber(c) /\ c \in 0..31
  <2> DEFINE y == c \div 16
             z == c % 16
             u == FourDigits(0, 0, y, z)
  <2>0. c \in Int /\ c < 128 /\ c < 55296
    BY <1>2
  <2>1. y \in Nibble /\ z \in Nibble /\ (y * 16) + z = c /\ 0 \in Nibble
    BY <1>2 DEF Nibble
  <2>2. u = c
    BY <2>1, SMT DEF FourDigits, Nibble
  <2>3. Hex(0) = 48
    BY DEF Hex
  <2>4. escByte(c) = Spelled(0, 0, y, z)
    BY <1>2, <2>3, Zenon DEF ByNumber, Spelled
  <2>5. Len(escByte(c)) = 6
    BY <2>1, <2>4, SpelledIs, SMTT(40)
  <2> HIDE DEF y, z, u
  <2>6. /\ p + 5 <= Len(b) /\ At(b, p) = Backslash /\ At(b, p + 1) = LetterU
        /\ hex4(b, p + 2) = ReadTo(u, p + 6)
    <3>1. Spells(b, p, Spelled(0, 0, y, z))
      BY <2>4
    <3>. QED
      BY <2>1, <3>1, SpellsUnit DEF u
  <2>7. ~(p + 1 > Len(b)) /\ LetterU \notin DOMAIN Short
    BY <2>6 DEF LetterU, Short
  <2>8. c \notin Low /\ c \notin High
    BY <2>0, NotSurrogate
  <2>9. appendRune(c) = <<c>>
    BY <2>0, RuneOne
  <2>10. ReadTo(c, p + 6).word = "nil" /\ ReadTo(c, p + 6).value = c /\ ReadTo(c, p + 6).pos = p + 6
    BY AcceptParts
  <2> DEFINE h == ReadTo(c, p + 6)
             l == hex4(b, h.pos + 2)
  <2>11. UnitRead(b, h, l) = ReadTo(<<c>>, p + 6)
    <3> HIDE DEF h, l
    <3>1. h.word = "nil" /\ h.value = c /\ h.pos = p + 6
      BY <2>10 DEF h
    <3>. QED
      BY <2>8, <2>9, <3>1, Zenon DEF UnitRead
  <2>12. EscapeRead(b, p, At(b, p + 1)) = ReadTo(<<c>>, p + 6)
    BY <2>2, <2>6, <2>7, <2>11, Zenon DEF EscapeRead
  <2>14. strTurn(b, ReadTo(v, p)) = ReadTo(v \o <<c>>, p + 6)
    BY <2>6, <2>12, TurnEscape
  <2>. QED
    BY <1>0, <2>5, <2>14, Zenon
<1>3. CASE escByte(c) = <<c>> /\ c >= 32 /\ c # Quote /\ c # Backslash
  <2>1. At(b, p) = c
    BY <1>3, SpellsOne
  <2> DEFINE r == ReadTo(v, p)
  <2>2. r \in Reading /\ r.word = "nil" /\ r.value = v /\ r.pos = p
    BY AcceptIs
  <2> HIDE DEF r
  <2>3. strTurn(b, r) = ReadTo(Append(r.value, At(b, r.pos)), r.pos + 1)
    <3>1. At(b, r.pos) = c
      BY <2>1, <2>2
    <3>. QED
      BY <1>3, <2>2, <3>1, TurnCases, Zenon
  <2>4. Len(escByte(c)) = 1
    BY <1>3
  <2>. QED
    BY <2>1, <2>2, <2>3, <2>4, Zenon DEF r
<1>. QED
  BY <1>1, <1>2, <1>3, EscByteIs

\* esc writes at least one byte for each.
LEMMA EscByteTyped ==
  ASSUME NEW c \in Bytes
  PROVE  escByte(c) \in Seq(Bytes) /\ Len(escByte(c)) >= 1
<1>1. ASSUME NEW x \in DOMAIN Short, escByte(c) = <<Backslash, x>>
      PROVE  escByte(c) \in Seq(Bytes) /\ Len(escByte(c)) >= 1
  <2>1. x \in Bytes /\ Backslash \in Bytes
    BY DEF Short, Backslash, Bytes
  <2>. QED
    BY <1>1, <2>1
<1>2. CASE escByte(c) = ByNumber(c) /\ c \in 0..31
  <2> DEFINE y == c \div 16
             z == c % 16
  <2>1. y \in Nibble /\ z \in Nibble /\ 0 \in Nibble
    BY <1>2 DEF Nibble
  <2>2. Hex(0) = 48
    BY DEF Hex
  <2>3. escByte(c) = Spelled(0, 0, y, z)
    BY <1>2, <2>2, Zenon DEF ByNumber, Spelled
  <2> HIDE DEF y, z
  <2>4. Spelled(0, 0, y, z) \in Seq(Bytes) /\ Len(Spelled(0, 0, y, z)) = 6
    BY <2>1, SpelledIs
  <2>. QED
    BY <2>3, <2>4
<1>3. CASE escByte(c) = <<c>>
  BY <1>3
<1>. QED
  BY <1>1, <1>2, <1>3, EscByteIs

\* A string on the wire: its texts between quotes.
Quoted(t) == <<Quote>> \o (Concat(t) \o <<Quote>>)
Start(t, n) == 2 + Len(Joined(t)[n])       \* where the text after the nth starts

\* Texts joined are a text.
LEMMA ConcatTyped ==
  ASSUME NEW t \in Seq(Seq(Bytes))
  PROVE  /\ Concat(t) \in Seq(Bytes) /\ Start(t, 0) = 2
         /\ \A n \in 0..Len(t) : Joined(t)[n] \in Seq(Bytes) /\ Start(t, n) \in Nat \ {0}
         /\ Start(t, Len(t)) = Len(Concat(t)) + 2
<1>1. Len(t) \in 0..Len(t) /\ 0 \in 0..Len(t)
  OBVIOUS
<1>2. \A n \in 0..Len(t) : Joined(t)[n] \in Seq(Bytes)
  BY JoinedUnfold
<1>3. \A n \in 0..Len(t) : Len(Joined(t)[n]) \in Nat
  BY <1>2
<1>4. Joined(t)[0] = <<>>
  BY JoinedUnfold
<1>5. Len(Joined(t)[0]) = 0
  BY <1>4
<1>. QED
  BY <1>1, <1>2, <1>3, <1>5 DEF Concat, Start

\* The bytes of a concatenation.
LEMMA Concatenated ==
  ASSUME NEW x \in Seq(Bytes), NEW y \in Seq(Bytes)
  PROVE  /\ x \o y \in Seq(Bytes) /\ Len(x \o y) = Len(x) + Len(y)
         /\ \A k \in 1..Len(x) : (x \o y)[k] = x[k]
         /\ \A k \in 1..Len(y) : (x \o y)[Len(x) + k] = y[k]
<1>1. \A k \in 1..Len(x) : (x \o y)[k] = x[k]
  OBVIOUS
<1>2. \A k \in 1..Len(y) : (x \o y)[Len(x) + k] = y[k]
  OBVIOUS
<1>3. x \o y \in Seq(Bytes) /\ Len(x \o y) = Len(x) + Len(y)
  OBVIOUS
<1>. QED
  BY <1>1, <1>2, <1>3, Zenon

\* The bytes of a text between quotes.
LEMMA QuotedIs ==
  ASSUME NEW w \in Seq(Bytes)
  PROVE  LET b == <<Quote>> \o (w \o <<Quote>>)
         IN /\ b \in Seq(Bytes) /\ Len(b) = Len(w) + 2 /\ b[1] = Quote /\ b[Len(w) + 2] = Quote
            /\ \A k \in 1..Len(w) : b[k + 1] = w[k]
<1> DEFINE q == <<Quote>>
           x == w \o q
           b == q \o x
<1>1. q \in Seq(Bytes) /\ Len(q) = 1 /\ q[1] = Quote
  BY DEF Quote, Bytes
<1> HIDE DEF q
<1>2. x \in Seq(Bytes) /\ Len(x) = Len(w) + 1 /\ x[Len(w) + 1] = Quote /\ \A k \in 1..Len(w) : x[k] = w[k]
  <2>1. q \in Seq(Bytes)
    BY <1>1
  <2>2. /\ x \in Seq(Bytes) /\ Len(x) = Len(w) + Len(q) /\ \A k \in 1..Len(w) : x[k] = w[k]
        /\ \A k \in 1..Len(q) : x[Len(w) + k] = q[k]
    BY <2>1, Concatenated, Zenon
  <2>3. Len(w) \in Nat
    OBVIOUS
  <2> HIDE DEF x
  <2>. QED
    BY <1>1, <2>2, <2>3
<1> HIDE DEF x
<1>3. b \in Seq(Bytes) /\ Len(b) = 1 + Len(x) /\ b[1] = Quote /\ \A k \in 1..Len(x) : b[1 + k] = x[k]
  <2>1. q \in Seq(Bytes) /\ x \in Seq(Bytes)
    BY <1>1, <1>2
  <2>2. /\ b \in Seq(Bytes) /\ Len(b) = Len(q) + Len(x) /\ \A k \in 1..Len(q) : b[k] = q[k]
        /\ \A k \in 1..Len(x) : b[Len(q) + k] = x[k]
    BY <2>1, Concatenated, Zenon
  <2> HIDE DEF b
  <2>. QED
    BY <1>1, <2>2
<1> HIDE DEF b
<1>4. Len(w) \in Nat /\ Len(w) + 1 \in 1..Len(x) /\ 1 + (Len(w) + 1) = Len(w) + 2 /\ 1 + Len(x) = Len(w) + 2
  BY <1>2
<1>5. b[Len(w) + 2] = Quote
  <2>1. b[1 + (Len(w) + 1)] = x[Len(w) + 1]
    BY <1>3, <1>4
  <2>. QED
    BY <1>2, <1>4, <2>1
<1>6. ASSUME NEW k \in 1..Len(w) PROVE b[k + 1] = w[k]
  <2>1. k \in 1..Len(x) /\ k + 1 = 1 + k
    BY <1>2, <1>4
  <2>. QED
    BY <1>2, <1>3, <2>1
<1>7. b \in Seq(Bytes) /\ Len(b) = Len(w) + 2 /\ b[1] = Quote
  BY <1>3, <1>4
<1>. QED
  BY <1>5, <1>6, <1>7 DEF b, x, q

\* Every text stands where the ones before it end.
LEMMA QuotedSpells ==
  ASSUME NEW t \in Seq(Seq(Bytes)), NEW n \in 1..Len(t), Len(t[n]) >= 1
  PROVE  Spells(Quoted(t), Start(t, n - 1), t[n]) /\ Start(t, n) = Start(t, n - 1) + Len(t[n])
<1> DEFINE b == Quoted(t)
           w == Concat(t)
           x == t[n]
           j == Len(Joined(t)[n - 1])
           m == Len(Joined(t)[n])
<1>0. n - 1 \in 0..Len(t) /\ n \in 0..Len(t)
  OBVIOUS
<1>1. x \in Seq(Bytes)
  OBVIOUS
<1>2. w \in Seq(Bytes) /\ j \in Nat /\ m \in Nat
  BY <1>0, ConcatTyped
<1>3. 1 \in 1..Len(x)
  BY <1>1
<1>4. m = j + Len(x) /\ m <= Len(w)
  BY <1>3, JoinedAt DEF Concat
<1>5. ASSUME NEW k \in 1..Len(x) PROVE w[j + k] = x[k]
  BY <1>5, JoinedAt DEF Concat
<1>6. b \in Seq(Bytes) /\ Len(b) = Len(w) + 2 /\ \A k \in 1..Len(w) : b[k + 1] = w[k]
  BY <1>2, QuotedIs DEF Quoted
<1>7. Start(t, n - 1) = 2 + j /\ Start(t, n) = 2 + m
  BY DEF Start
<1> HIDE DEF b, w, x, j, m
<1>8. Len(x) \in Nat /\ Len(w) \in Nat
  BY <1>1, <1>2
<1>9. (2 + j) + Len(x) - 1 <= Len(b)
  BY <1>2, <1>4, <1>6, <1>8
<1>10. ASSUME NEW k \in 1..Len(x) PROVE b[(2 + j) + k - 1] = x[k]
  <2>1. j + k \in 1..Len(w) /\ (j + k) + 1 = (2 + j) + k - 1
    BY <1>2, <1>4, <1>8
  <2>2. b[(j + k) + 1] = w[j + k]
    BY <1>6, <2>1
  <2>. QED
    BY <1>5, <2>1, <2>2
<1>11. Spells(b, 2 + j, x)
  BY <1>9, <1>10 DEF Spells
<1>12. 2 + m = (2 + j) + Len(x)
  BY <1>2, <1>4, <1>8
<1>. QED
  BY <1>7, <1>11, <1>12 DEF b, x

\* A string of n texts is longer than n.
LEMMA QuotedLonger ==
  ASSUME NEW t \in Seq(Seq(Bytes)), \A n \in 1..Len(t) : Len(t[n]) >= 1
  PROVE  Len(t) <= Len(Quoted(t)) /\ \A n \in 0..Len(t) : Start(t, n) >= n + 2
<1> DEFINE N == Len(t)
           S == {n \in 0..N : Start(t, n) >= n + 2}
<1>0. N \in Nat /\ \A n \in 0..N : Start(t, n) \in Nat
  BY ConcatTyped
<1>1. 0 \in S
  BY <1>0, ConcatTyped
<1>2. ASSUME NEW n \in 1..N, n - 1 \in S PROVE n \in S
  <2> DEFINE p == Start(t, n - 1)
             q == Start(t, n)
             k == Len(t[n])
  <2>1. n - 1 \in 0..N /\ n \in 0..N
    BY <1>0
  <2>2. t[n] \in Seq(Bytes)
    OBVIOUS
  <2>3. k \in Nat /\ k >= 1 /\ p \in Nat
    BY <1>0, <2>1, <2>2
  <2>4. q = p + k
    BY <2>3, QuotedSpells
  <2>5. p >= (n - 1) + 2
    BY <1>2
  <2> HIDE DEF p, q, k
  <2>6. q >= n + 2
    BY <2>3, <2>4, <2>5
  <2>. QED
    BY <2>1, <2>6 DEF q
<1>3. \A n \in 0..N : n \in S
  <2> HIDE DEF S
  <2>. QED
    BY <1>0, <1>1, <1>2, TurnByTurn
<1>4. Start(t, N) >= N + 2 /\ Start(t, N) = Len(Concat(t)) + 2 /\ Concat(t) \in Seq(Bytes)
  BY <1>0, <1>3, ConcatTyped
<1>5. Len(Quoted(t)) = Len(Concat(t)) + 2
  BY <1>4, QuotedIs DEF Quoted
<1>. QED
  BY <1>0, <1>3, <1>4, <1>5

\* The first n bytes.
Cut(s, n) == [k \in 1..n |-> s[k]]

\* One more byte of a text.
LEMMA CutGrows ==
  ASSUME NEW s \in Seq(Bytes), NEW n \in 1..Len(s)
  PROVE  Cut(s, n - 1) \in Seq(Bytes) /\ Append(Cut(s, n - 1), s[n]) = Cut(s, n)
<1> DEFINE x == Cut(s, n - 1)
           y == Cut(s, n)
           z == Append(x, s[n])
<1>0. \A k \in 1..n : s[k] \in Bytes
  OBVIOUS
<1>1. x \in Seq(Bytes) /\ Len(x) = n - 1 /\ \A k \in 1..(n - 1) : x[k] = s[k]
  BY <1>0 DEF Cut
<1>2. y \in Seq(Bytes) /\ Len(y) = n /\ \A k \in 1..n : y[k] = s[k]
  BY <1>0 DEF Cut
<1> HIDE DEF x, y
<1>3. s[n] \in Bytes
  OBVIOUS
<1>4. z \in Seq(Bytes) /\ Len(z) = n /\ z[n] = s[n] /\ \A k \in 1..(n - 1) : z[k] = x[k]
  BY <1>1, <1>3
<1> HIDE DEF z
<1>5. \A k \in 1..n : z[k] = y[k]
  <2>1. \A k \in 1..n : k = n \/ k \in 1..(n - 1)
    OBVIOUS
  <2>. QED
    BY <1>1, <1>2, <1>4, <2>1
<1>6. z = y
  BY <1>2, <1>4, <1>5, SeqEqual
<1>. QED
  BY <1>1, <1>6 DEF x, y, z

\* What esc writes.
LEMMA EscTexts ==
  ASSUME NEW s \in Seq(Bytes)
  PROVE  LET t == [i \in 1..Len(s) |-> escByte(s[i])]
         IN /\ t \in Seq(Seq(Bytes)) /\ Len(t) = Len(s)
            /\ \A n \in 1..Len(s) : t[n] = escByte(s[n]) /\ Len(t[n]) >= 1
<1> DEFINE t == [i \in 1..Len(s) |-> escByte(s[i])]
<1>1. \A i \in 1..Len(s) : escByte(s[i]) \in Seq(Bytes) /\ Len(escByte(s[i])) >= 1
  BY EscByteTyped
<1>2. t \in [1..Len(s) -> Seq(Bytes)] /\ Len(s) \in Nat
  BY <1>1
<1>3. t \in Seq(Seq(Bytes)) /\ Len(t) = Len(s)
  <2> HIDE DEF t
  <2>. QED
    BY <1>2
<1>4. \A n \in 1..Len(s) : t[n] = escByte(s[n])
  OBVIOUS
<1> HIDE DEF t
<1>5. \A n \in 1..Len(s) : t[n] = escByte(s[n]) /\ Len(t[n]) >= 1
  BY <1>1, <1>4
<1>. QED
  BY <1>3, <1>5, Zenon DEF t

\* str takes back everything that esc writes, byte by byte.
LEMMA EscTurns ==
  ASSUME NEW s \in Seq(Bytes)
  PROVE  /\ esc(s) \in Seq(Bytes) /\ At(esc(s), 1) = Quote
         /\ StrTurns(esc(s))[Len(esc(s))] = ReadTo(s, Len(esc(s)))
<1> DEFINE N == Len(s)
           t == [i \in 1..Len(s) |-> escByte(s[i])]
           b == Quoted(t)
           M == Len(b)
           r == StrTurns(b)
<1>1. t \in Seq(Seq(Bytes)) /\ Len(t) = N /\ \A n \in 1..N : t[n] = escByte(s[n]) /\ Len(t[n]) >= 1
  BY EscTexts
<1>2. esc(s) = b
  BY DEF esc, Quoted
<1> HIDE DEF t
<1>3. /\ b \in Seq(Bytes) /\ M = Start(t, N) /\ b[1] = Quote /\ b[M] = Quote /\ N <= M /\ M >= 2
      /\ N \in Nat /\ M \in Nat
  <2>1. Concat(t) \in Seq(Bytes) /\ Start(t, N) = Len(Concat(t)) + 2
    BY <1>1, ConcatTyped
  <2>2. b \in Seq(Bytes) /\ M = Len(Concat(t)) + 2 /\ b[1] = Quote /\ b[Len(Concat(t)) + 2] = Quote
    BY <2>1, QuotedIs DEF Quoted
  <2>3. N <= M
    BY <1>1, QuotedLonger
  <2>4. Len(Concat(t)) \in Nat /\ N \in Nat
    BY <2>1
  <2>. QED
    BY <2>1, <2>2, <2>3, <2>4
<1>4. At(b, 1) = Quote /\ At(b, M) = Quote
  <2>1. 1 \in 1..M /\ M \in 1..M
    BY <1>3
  <2>. QED
    BY <1>3, <2>1 DEF At
<1>5. r \in [0..M -> Reading] /\ r[0] = ReadTo(<<>>, 2) /\ \A n \in 1..M : r[n] = strTurn(b, r[n - 1])
  BY <1>3, TurnsUnfold
<1> HIDE DEF b, M, r, N
<1> DEFINE S == {n \in 0..N : r[n] = ReadTo(Cut(s, n), Start(t, n))}
<1>6. 0 \in S
  <2>1. Cut(s, 0) = <<>>
    BY DEF Cut
  <2>2. Start(t, 0) = 2
    BY <1>1, ConcatTyped
  <2>3. 0 \in 0..N
    BY <1>3
  <2>4. r[0] = ReadTo(Cut(s, 0), Start(t, 0))
    BY <1>5, <2>1, <2>2, Zenon
  <2>. QED
    BY <2>3, <2>4, Zenon
<1>7. ASSUME NEW n \in 1..N, n - 1 \in S PROVE n \in S
  <2> DEFINE v == Cut(s, n - 1)
             p == Start(t, n - 1)
             c == s[n]
             e == escByte(c)
  <2>1. r[n - 1] = ReadTo(v, p)
    BY <1>7
  <2>2. n \in 1..Len(s) /\ n \in 0..N /\ n - 1 \in 0..Len(t) /\ n \in 1..Len(t) /\ n \in 1..M
    BY <1>1, <1>3 DEF N
  <2>3. v \in Seq(Bytes) /\ Append(v, c) = Cut(s, n) /\ c \in Bytes
    BY <2>2, CutGrows
  <2>4. t[n] = e /\ Len(t[n]) >= 1
    BY <1>1
  <2>5. Spells(b, p, e) /\ Start(t, n) = p + Len(e)
    BY <1>1, <2>2, <2>4, QuotedSpells DEF b
  <2>6. p \in Nat \ {0}
    BY <1>1, <2>2, ConcatTyped
  <2> HIDE DEF v, p, c, e
  <2>7. strTurn(b, ReadTo(v, p)) = ReadTo(Append(v, c), p + Len(e))
    BY <1>3, <2>3, <2>5, <2>6, EscTurn DEF e
  <2>8. r[n] = strTurn(b, r[n - 1])
    BY <1>5, <2>2
  <2>9. r[n] = ReadTo(Cut(s, n), Start(t, n))
    BY <2>1, <2>3, <2>5, <2>7, <2>8, Zenon
  <2>. QED
    BY <2>2, <2>9, Zenon
<1>8. N \in S
  <2> HIDE DEF S
  <2>1. \A n \in 0..N : n \in S
    BY <1>3, <1>6, <1>7, TurnByTurn
  <2>. QED
    BY <1>3, <2>1
<1>9. r[N] = ReadTo(s, M)
  <2>1. Cut(s, N) = s
    BY DEF Cut, N
  <2>2. r[N] = ReadTo(Cut(s, N), Start(t, N))
    BY <1>8, Zenon
  <2>. QED
    BY <1>3, <2>1, <2>2, Zenon
<1> DEFINE T == {n \in 0..M : n >= N => r[n] = ReadTo(s, M)}
<1>10. 0 \in T
  <2>1. 0 >= N => 0 = N
    BY <1>3
  <2>2. 0 \in 0..M
    BY <1>3
  <2>. QED
    BY <1>9, <2>1, <2>2, Zenon
<1>11. strTurn(b, ReadTo(s, M)) = ReadTo(s, M)
  <2> DEFINE x == ReadTo(s, M)
  <2>1. x \in Reading /\ x.pos = M
    BY <1>3, AcceptIs
  <2> HIDE DEF x
  <2>2. At(b, x.pos) = Quote
    BY <1>4, <2>1
  <2>3. strTurn(b, x) = x
    BY <1>3, <2>1, <2>2, TurnCases, Zenon
  <2>. QED
    BY <2>3 DEF x
<1>12. ASSUME NEW n \in 1..M, n - 1 \in T PROVE n \in T
  <2>1. n \in 0..M /\ n - 1 \in 0..M /\ r[n] = strTurn(b, r[n - 1])
    BY <1>3, <1>5
  <2>2. CASE n - 1 >= N
    BY <1>11, <1>12, <2>1, <2>2, Zenon
  <2>3. CASE ~(n - 1 >= N)
    <3>1. n >= N => n = N
      BY <1>3, <2>3
    <3>. QED
      BY <1>9, <2>1, <3>1, Zenon
  <2>. QED
    BY <2>2, <2>3
<1>13. M \in T
  <2> HIDE DEF T
  <2>1. \A n \in 0..M : n \in T
    BY <1>3, <1>10, <1>12, TurnByTurn
  <2>. QED
    BY <1>3, <2>1
<1>14. r[M] = ReadTo(s, M)
  <2>1. M >= N
    BY <1>3
  <2>. QED
    BY <1>13, <2>1, Zenon
<1>. QED
  BY <1>2, <1>3, <1>4, <1>14, Zenon DEF r, M

\* And accepts it if it is text.
LEMMA EscReads ==
  ASSUME NEW s \in Seq(Bytes)
  PROVE  LET r == str(esc(s))
         IN /\ r.word = "nil" <=> WellFormed(s)
            /\ r.word = "nil" => r.value = s /\ r.pos = Len(esc(s)) + 1
<1> DEFINE b == esc(s)
           q == StrTurns(b)[Len(b)]
           r == str(b)
           m == Len(b)
<1>1. b \in Seq(Bytes) /\ At(b, 1) = Quote /\ q = ReadTo(s, m)
  BY EscTurns
<1>2. q.word = "nil" /\ q.value = s /\ q.pos = m
  BY <1>1, AcceptParts
<1>3. r = IF q.word # "nil" THEN q
          ELSE IF validUTF8(q.value) THEN ReadTo(q.value, q.pos + 1) ELSE Reject("bad_string")
  BY <1>1, StrCases, Zenon
<1>4. validUTF8(s) <=> WellFormed(s)
  BY ValidIsWellFormed
<1> DEFINE yes == ReadTo(s, m + 1)
           no == Reject("bad_string")
<1>5. yes.word = "nil" /\ yes.value = s /\ yes.pos = m + 1 /\ no.word # "nil"
  BY AcceptParts, RefuseIs, SMTT(40)
<1> HIDE DEF q, r, m, b, yes, no
<1>6. r = IF validUTF8(s) THEN yes ELSE no
  BY <1>2, <1>3, Zenon DEF yes, no
<1>7. /\ r.word = "nil" <=> WellFormed(s)
      /\ r.word = "nil" => r.value = s /\ r.pos = m + 1
  BY <1>4, <1>5, <1>6
<1>. QED
  BY <1>7, Zenon DEF r, m, b

-----------------------------------------------------------------------------
(***************************************************************************)
(* Characters counted by their first bytes.                                *)
(***************************************************************************)
\* The bytes of a character are a character of the table.
LEMMA RuneBytes ==
  ASSUME NEW cp \in CodePoints, cp \notin High, cp \notin Low
  PROVE  LET x == appendRune(cp) IN x \in Seq(Bytes) /\ Len(x) \in 1..4 /\ Formed(x, 1, Len(x))
<1>0. cp \in Int /\ cp >= 0 /\ cp <= 1114111
  BY PointIs, SMT
<1>1. cp < 55296 \/ cp > 57343
  BY <1>0, SMT DEF High, Low
<1>2. appendRune(cp) \in Seq(Bytes)
  BY RuneTyped
<1>3. CASE cp < 128
  <2>1. appendRune(cp) = <<cp>> /\ cp \in 0..127
    BY <1>0, <1>3, RuneOne, SMT
  <2>2. Len(<<cp>>) = 1 /\ <<cp>>[1] = cp
    OBVIOUS
  <2>. QED
    BY <1>2, <2>1, <2>2 DEF Formed
<1>4. CASE cp >= 128 /\ cp < 2048
  <2> DEFINE x == 192 + (cp \div 64)
             y == 128 + (cp % 64)
             t == <<x, y>>
  <2>1. appendRune(cp) = t
    BY <1>0, <1>4, SMT DEF appendRune
  <2>2. x \in Int /\ x >= 194 /\ x <= 223 /\ y \in Int /\ y >= 128 /\ y <= 191
    BY <1>0, <1>4, SMT
  <2> HIDE DEF x, y
  <2>3. Len(t) = 2 /\ t[1] = x /\ t[2] = y
    OBVIOUS
  <2> HIDE DEF t
  <2>4. Formed(t, 1, 2)
    BY <2>2, <2>3 DEF Formed
  <2>. QED
    BY <1>2, <2>1, <2>3, <2>4
<1>5. CASE cp >= 2048 /\ cp < 65536
  <2> DEFINE h == cp \div 4096
             a == cp \div 64
             m == a % 64
             x == 224 + h
             y == 128 + m
             z == 128 + (cp % 64)
             t == <<x, y, z>>
  <2>1. appendRune(cp) = t
    BY <1>0, <1>5, SMT DEF appendRune
  <2>2. h \in Int /\ a \in Int /\ m \in Int /\ m >= 0 /\ m <= 63 /\ a = (64 * h) + m
    BY <1>0, SMT
  <2>3. z \in Int /\ z >= 128 /\ z <= 191 /\ h >= 0 /\ h <= 15
    BY <1>0, <1>5, SMT
  <2>4. a >= 32 /\ (a < 864 \/ a > 895)
    BY <1>0, <1>1, <1>5, SMT
  <2> HIDE DEF h, a, m, z
  <2>5. /\ x \in Int /\ x >= 224 /\ x <= 239 /\ y \in Int /\ y >= 128 /\ y <= 191
        /\ x = 224 => y >= 160
        /\ x = 237 => y <= 159
    BY <2>2, <2>3, <2>4, SMT
  <2> HIDE DEF x, y
  <2>6. Len(t) = 3 /\ t[1] = x /\ t[2] = y /\ t[3] = z
    OBVIOUS
  <2> HIDE DEF t
  <2>7. 1 + 1 = 2 /\ 1 + 2 = 3
    OBVIOUS
  <2>8. z \in 128..191 /\ Second3(x, y) /\ x \in 224..239 /\ y \in 128..191
    BY <2>3, <2>5 DEF Second3
  <2>9. Formed(t, 1, 3)
    BY <2>6, <2>7, <2>8 DEF Formed, Second3
  <2>. QED
    BY <1>2, <2>1, <2>6, <2>9
<1>6. CASE cp >= 65536
  <2> DEFINE h == cp \div 262144
             a == cp \div 4096
             m == a % 64
             w == 240 + h
             x == 128 + m
             y == 128 + ((cp \div 64) % 64)
             z == 128 + (cp % 64)
             t == <<w, x, y, z>>
  <2>1. appendRune(cp) = t
    BY <1>0, <1>6, SMT DEF appendRune
  <2>2. h \in Int /\ a \in Int /\ m \in Int /\ m >= 0 /\ m <= 63 /\ a = (64 * h) + m
    BY <1>0, SMT
  <2>3. z \in Int /\ z >= 128 /\ z <= 191 /\ y \in Int /\ y >= 128 /\ y <= 191 /\ h >= 0 /\ h <= 4
    BY <1>0, <1>6, SMT
  <2>4. a >= 16 /\ a <= 271
    BY <1>0, <1>6, SMT
  <2> HIDE DEF h, a, m, y, z
  <2>5. /\ w \in Int /\ w >= 240 /\ w <= 244 /\ x \in Int /\ x >= 128 /\ x <= 191
        /\ w = 240 => x >= 144
        /\ w = 244 => x <= 143
    BY <2>2, <2>3, <2>4, SMT
  <2> HIDE DEF w, x
  <2>6. Len(t) = 4 /\ t[1] = w /\ t[2] = x /\ t[3] = y /\ t[4] = z
    OBVIOUS
  <2> HIDE DEF t
  <2>7. 1 + 1 = 2 /\ 1 + 2 = 3 /\ 1 + 3 = 4
    OBVIOUS
  <2>8. y \in 128..191 /\ z \in 128..191 /\ Second4(w, x) /\ x \in 128..191
    BY <2>3, <2>5 DEF Second4
  <2>9. Formed(t, 1, 4)
    BY <2>6, <2>7, <2>8 DEF Formed, Second4
  <2>. QED
    BY <1>2, <2>1, <2>6, <2>9
<1>. QED
  BY <1>0, <1>3, <1>4, <1>5, <1>6, SMT

\* A character more is text again, with one start more.
Starts(v) == {k \in DOMAIN v : v[k] \div 64 # 2}

\* UTF-8 followed by a character is UTF-8.
LEMMA WellFormedGrows ==
  ASSUME NEW v \in Seq(Bytes), NEW x \in Seq(Bytes), Len(x) \in 1..4, Formed(x, 1, Len(x)), WellFormed(v)
  PROVE  WellFormed(v \o x)
<1> DEFINE b == v \o x
           m == Len(v)
           n == Len(x)
<1>1. /\ b \in Seq(Bytes) /\ Len(b) = m + n /\ \A k \in 1..m : b[k] = v[k]
      /\ \A k \in 1..n : b[m + k] = x[k]
  BY Concatenated, Zenon
<1>2. m \in Nat /\ n \in 1..4
  OBVIOUS
<1>3. 1 \in 1..Len(x)
  <2>1. \A k \in 1..4 : 1 \in 1..k
    OBVIOUS
  <2>. QED
    BY <1>2, <2>1, Zenon
<1>4. x[1] \notin Continuation /\ \A k \in 1..(n - 1) : x[1 + k] \in Continuation
  BY <1>2, <1>3, FormedParts
<1>5. PICK q \in Ranges : Len(q) = n /\ FitsAt(x, 1, q)
  BY <1>2, <1>3, FormedRanges
<1> HIDE DEF b, m, n
<1>6. b[m + 1] = x[1]
  BY <1>1, <1>2
<1>7. ASSUME b # <<>> PROVE b[1] \notin Continuation
  <2>1. CASE m = 0
    BY <1>4, <1>6, <2>1
  <2>2. CASE m # 0
    <3>1. v # <<>> /\ 1 \in 1..m
      BY <1>2, <2>2 DEF m
    <3>. QED
      BY <1>1, <3>1 DEF WellFormed
  <2>. QED
    BY <2>1, <2>2
<1>8. ASSUME NEW i \in 1..Len(b), b[i] \notin Continuation
      PROVE  \E r \in Ranges : /\ FitsAt(b, i, r)
                               /\ i + Len(r) <= Len(b) => b[i + Len(r)] \notin Continuation
  <2>1. CASE i <= m
    <3>1. i \in 1..m /\ i \in 1..Len(v) /\ v[i] \notin Continuation
      BY <1>1, <1>8, <2>1 DEF m
    <3>2. PICK r \in Ranges : /\ FitsAt(v, i, r)
                              /\ i + Len(r) <= Len(v) => v[i + Len(r)] \notin Continuation
      BY <3>1 DEF WellFormed
    <3>3. Len(r) \in 1..4
      BY <3>1, <3>2, RangesFormed
    <3>4. i + Len(r) - 1 <= m /\ \A k \in 1..Len(r) : v[i + k - 1] \in r[k]
      BY <3>2 DEF FitsAt, m
    <3>5. i + Len(r) - 1 <= Len(b)
      BY <1>1, <1>2, <3>3, <3>4
    <3>6. ASSUME NEW k \in 1..Len(r) PROVE b[i + k - 1] \in r[k]
      <4>1. i + k - 1 \in 1..m
        BY <1>2, <3>1, <3>3, <3>4
      <4>. QED
        BY <1>1, <3>4, <4>1
    <3>7. FitsAt(b, i, r)
      BY <3>5, <3>6 DEF FitsAt
    <3>8. i + Len(r) <= Len(b) => b[i + Len(r)] \notin Continuation
      <4>1. CASE i + Len(r) <= m
        <5>1. i + Len(r) \in 1..m
          BY <3>1, <3>3, <4>1
        <5>. QED
          BY <1>1, <3>2, <4>1, <5>1 DEF m
      <4>2. CASE ~(i + Len(r) <= m)
        <5>1. i + Len(r) = m + 1
          <6> DEFINE k == Len(r)
          <6>1. k \in Nat /\ i \in Nat /\ m \in Nat /\ i + k - 1 <= m /\ ~(i + k <= m)
            BY <1>2, <3>1, <3>3, <3>4, <4>2
          <6> HIDE DEF k
          <6>2. i + k = m + 1
            BY <6>1
          <6>. QED
            BY <6>2 DEF k
        <5>. QED
          BY <1>4, <1>6, <5>1
      <4>. QED
        BY <4>1, <4>2
    <3>. QED
      BY <3>7, <3>8
  <2>2. CASE ~(i <= m)
    <3>1. i = m + 1
      <4>1. SUFFICES ASSUME i # m + 1 PROVE FALSE
        OBVIOUS
      <4> DEFINE k == i - m - 1
      <4>2. k \in 1..(n - 1) /\ 1 + k \in 1..n /\ m + (1 + k) = i
        BY <1>1, <1>2, <2>2, <4>1
      <4> HIDE DEF k
      <4>3. b[m + (1 + k)] = x[1 + k]
        BY <1>1, <4>2
      <4>. QED
        BY <1>4, <1>8, <4>2, <4>3
    <3>2. i + Len(q) - 1 <= Len(b) /\ ~(i + Len(q) <= Len(b))
      BY <1>1, <1>2, <1>5, <3>1
    <3>3. ASSUME NEW k \in 1..Len(q) PROVE b[i + k - 1] \in q[k]
      <4>1. k \in 1..n /\ i + k - 1 = m + k /\ 1 + k - 1 = k
        BY <1>2, <1>5, <3>1
      <4>2. x[1 + k - 1] \in q[k]
        BY <1>5 DEF FitsAt
      <4>. QED
        BY <1>1, <4>1, <4>2
    <3>4. FitsAt(b, i, q)
      BY <3>2, <3>3 DEF FitsAt
    <3>. QED
      BY <3>2, <3>4
  <2>. QED
    BY <2>1, <2>2
<1>9. WellFormed(b)
  BY <1>7, <1>8 DEF WellFormed
<1>. QED
  BY <1>9 DEF b

\* A character adds one start.
LEMMA StartsGrow ==
  ASSUME NEW v \in Seq(Bytes), NEW x \in Seq(Bytes), Len(x) \in 1..4, Formed(x, 1, Len(x)), IsFiniteSet(Starts(v))
  PROVE  IsFiniteSet(Starts(v \o x)) /\ Cardinality(Starts(v \o x)) = Cardinality(Starts(v)) + 1
<1> DEFINE b == v \o x
           m == Len(v)
           n == Len(x)
<1>1. /\ b \in Seq(Bytes) /\ Len(b) = m + n /\ \A k \in 1..m : b[k] = v[k]
      /\ \A k \in 1..n : b[m + k] = x[k]
  BY Concatenated, Zenon
<1>2. m \in Nat /\ n \in 1..4 /\ DOMAIN v = 1..m
  OBVIOUS
<1>3. 1 \in 1..Len(x)
  <2>1. \A k \in 1..4 : 1 \in 1..k
    OBVIOUS
  <2>. QED
    BY <1>2, <2>1, Zenon
<1>4. x[1] \notin Continuation /\ \A k \in 1..(n - 1) : x[1 + k] \in Continuation
  BY <1>2, <1>3, FormedParts
<1>5. \A k \in 1..n : x[k] \in Bytes
  OBVIOUS
<1>6. \A c \in Bytes : c \div 64 = 2 <=> c \in Continuation
  BY Unmarked DEF Continuation
<1>7. DOMAIN b = 1..(m + n)
  BY <1>1, <1>2
<1> HIDE DEF b, m, n
<1>8. ASSUME NEW k \in 1..(m + n) PROVE b[k] \div 64 # 2 <=> k \in Starts(v) \cup {m + 1}
  <2>1. CASE k <= m
    <3>1. k \in 1..m /\ k # m + 1
      BY <1>2, <2>1
    <3>. QED
      BY <1>1, <1>2, <3>1 DEF Starts
  <2>2. CASE k = m + 1
    <3>1. b[m + 1] = x[1] /\ x[1] \in Bytes
      BY <1>1, <1>2, <1>5
    <3>. QED
      BY <1>4, <1>6, <2>2, <3>1
  <2>3. CASE k > m + 1
    <3> DEFINE j == k - m - 1
    <3>1. j \in 1..(n - 1) /\ 1 + j \in 1..n /\ m + (1 + j) = k /\ k # m + 1 /\ k \notin 1..m
      BY <1>2, <2>3
    <3> HIDE DEF j
    <3>2. b[m + (1 + j)] = x[1 + j] /\ x[1 + j] \in Bytes /\ x[1 + j] \in Continuation
      BY <1>1, <1>4, <1>5, <3>1
    <3>3. b[k] \div 64 = 2
      BY <1>6, <3>1, <3>2
    <3>. QED
      BY <1>2, <3>1, <3>3 DEF Starts
  <2>. QED
    BY <1>2, <2>1, <2>2, <2>3
<1>9. Starts(v) \subseteq 1..m
  BY <1>2 DEF Starts
<1>10. Starts(b) = Starts(v) \cup {m + 1}
  <2>1. Starts(v) \cup {m + 1} \subseteq 1..(m + n)
    BY <1>2, <1>9
  <2>2. Starts(b) = {k \in 1..(m + n) : b[k] \div 64 # 2}
    BY <1>7 DEF Starts
  <2>. QED
    BY <1>8, <2>1, <2>2
<1>11. m + 1 \notin Starts(v)
  BY <1>2, <1>9
<1>12. IsFiniteSet(Starts(b)) /\ Cardinality(Starts(b)) = Cardinality(Starts(v)) + 1
  BY <1>10, <1>11, FS_AddElement
<1>. QED
  BY <1>12 DEF b

-----------------------------------------------------------------------------
(***************************************************************************)
(* Escaped UTF-16.                                                         *)
(***************************************************************************)
\* A unit as written.
LEMMA UnitDigits ==
  ASSUME NEW u \in CodeUnits
  PROVE  LET w == u \div 4096
             x == (u \div 256) % 16
             y == (u \div 16) % 16
             z == u % 16
         IN /\ w \in Nibble /\ x \in Nibble /\ y \in Nibble /\ z \in Nibble
            /\ UnitText(u) = Spelled(w, x, y, z) /\ FourDigits(w, x, y, z) = u
<1> DEFINE w == u \div 4096
           x == (u \div 256) % 16
           y == (u \div 16) % 16
           z == u % 16
<1>1. u \in Int /\ u >= 0 /\ u <= 65535
  BY UnitIs, SMT
<1>2. w \in Nibble
  BY <1>1, SMT DEF Nibble
<1>3. x \in Nibble /\ y \in Nibble /\ z \in Nibble
  BY <1>1, SMT DEF Nibble
<1>4. UnitText(u) = Spelled(w, x, y, z)
  BY SMT DEF UnitText, Spelled
<1>5. FourDigits(w, x, y, z) = u
  <2>1. (w * 4096) + (x * 256) + (y * 16) + z = u
    BY <1>1, SMT
  <2>. QED
    BY <2>1, SMT DEF FourDigits
<1> HIDE DEF w, x, y, z
<1>6. /\ w \in Nibble /\ x \in Nibble /\ y \in Nibble /\ z \in Nibble
      /\ UnitText(u) = Spelled(w, x, y, z) /\ FourDigits(w, x, y, z) = u
  BY <1>2, <1>3, <1>4, <1>5
<1>. QED
  BY <1>6, SMT DEF w, x, y, z

\* A unit written as an escape is read back.
LEMMA UnitWritten ==
  ASSUME NEW u \in CodeUnits
  PROVE  /\ UnitText(u) \in Seq(Bytes) /\ Len(UnitText(u)) = 6
         /\ \A b \in Seq(Bytes), p \in Nat \ {0} : Spells(b, p, UnitText(u)) =>
              /\ p + 5 <= Len(b) /\ b[p] = Backslash /\ b[p + 1] = LetterU
              /\ At(b, p) = Backslash /\ At(b, p + 1) = LetterU
              /\ hex4(b, p + 2) = ReadTo(u, p + 6)
<1>1. PICK w \in Nibble, x \in Nibble, y \in Nibble, z \in Nibble :
         UnitText(u) = Spelled(w, x, y, z) /\ FourDigits(w, x, y, z) = u
  BY UnitDigits, SMT
<1>2. UnitText(u) \in Seq(Bytes) /\ Len(UnitText(u)) = 6
  BY <1>1, SpelledIs
<1>3. ASSUME NEW b \in Seq(Bytes), NEW p \in Nat \ {0}, Spells(b, p, UnitText(u))
      PROVE  /\ p + 5 <= Len(b) /\ b[p] = Backslash /\ b[p + 1] = LetterU
             /\ At(b, p) = Backslash /\ At(b, p + 1) = LetterU
             /\ hex4(b, p + 2) = ReadTo(u, p + 6)
  <2>1. Spells(b, p, Spelled(w, x, y, z))
    BY <1>1, <1>3
  <2>2. /\ p + 5 <= Len(b) /\ b[p] = Backslash /\ b[p + 1] = LetterU
        /\ At(b, p) = Backslash /\ At(b, p + 1) = LetterU
        /\ hex4(b, p + 2) = ReadTo(FourDigits(w, x, y, z), p + 6)
    BY <2>1, SpellsUnit
  <2>. QED
    BY <1>1, <2>2
<1>. QED
  BY <1>2, <1>3

\* A string of escaped units.
Escaped(us) == [i \in 1..Len(us) |-> UnitText(us[i])]

\* The escapes of a sequence of units.
LEMMA EscapedTexts ==
  ASSUME NEW us \in Seq(CodeUnits)
  PROVE  /\ Escaped(us) \in Seq(Seq(Bytes)) /\ Len(Escaped(us)) = Len(us)
         /\ \A n \in 1..Len(us) : Escaped(us)[n] = UnitText(us[n]) /\ Len(Escaped(us)[n]) = 6
<1> DEFINE t == Escaped(us)
<1>0. \A i \in 1..Len(us) : us[i] \in CodeUnits
  OBVIOUS
<1>1. \A i \in 1..Len(us) : UnitText(us[i]) \in Seq(Bytes) /\ Len(UnitText(us[i])) = 6
  BY <1>0, UnitWritten
<1>2. t \in [1..Len(us) -> Seq(Bytes)] /\ Len(us) \in Nat
  BY <1>1 DEF Escaped
<1>3. \A n \in 1..Len(us) : t[n] = UnitText(us[n])
  BY DEF Escaped
<1> HIDE DEF t
<1>4. t \in Seq(Seq(Bytes)) /\ Len(t) = Len(us)
  BY <1>2
<1>5. \A n \in 1..Len(us) : t[n] = UnitText(us[n]) /\ Len(t[n]) = 6
  BY <1>1, <1>3
<1>. QED
  BY <1>4, <1>5, Zenon DEF t

\* Its bytes.
LEMMA EscapedIs ==
  ASSUME NEW us \in Seq(CodeUnits)
  PROVE  LET t == Escaped(us)
             b == Quoted(t)
             N == Len(us)
         IN /\ b \in Seq(Bytes) /\ Len(b) = Start(t, N) /\ At(b, 1) = Quote /\ At(b, Len(b)) = Quote
            /\ N <= Len(b) /\ Start(t, 0) = 2
            /\ \A n \in 0..N : Start(t, n) \in Nat \ {0}
            /\ \A n \in 1..N : Spells(b, Start(t, n - 1), UnitText(us[n])) /\ Start(t, n) = Start(t, n - 1) + 6
<1> DEFINE t == Escaped(us)
           b == Quoted(t)
           N == Len(us)
<1>1. t \in Seq(Seq(Bytes)) /\ Len(t) = N /\ \A n \in 1..N : t[n] = UnitText(us[n]) /\ Len(t[n]) = 6
  BY EscapedTexts
<1> HIDE DEF t, N
<1>2. /\ Concat(t) \in Seq(Bytes) /\ Start(t, N) = Len(Concat(t)) + 2 /\ Start(t, 0) = 2
      /\ \A n \in 0..N : Start(t, n) \in Nat \ {0}
  BY <1>1, ConcatTyped
<1>3. b \in Seq(Bytes) /\ Len(b) = Len(Concat(t)) + 2 /\ b[1] = Quote /\ b[Len(Concat(t)) + 2] = Quote
  BY <1>2, QuotedIs DEF Quoted
<1>4. \A n \in 1..N : Len(t[n]) >= 1
  <2>1. 6 >= 1
    OBVIOUS
  <2>. QED
    BY <1>1, <2>1
<1>5. N <= Len(b)
  BY <1>1, <1>4, QuotedLonger
<1>6. Len(Concat(t)) \in Nat
  BY <1>2
<1> HIDE DEF b
<1>7. At(b, 1) = Quote /\ At(b, Len(b)) = Quote
  <2>1. 1 \in 1..Len(b) /\ Len(b) \in 1..Len(b) /\ b[Len(b)] = Quote
    BY <1>3, <1>6
  <2>. QED
    BY <1>3, <2>1 DEF At
<1>8. ASSUME NEW n \in 1..N PROVE Spells(b, Start(t, n - 1), UnitText(us[n])) /\ Start(t, n) = Start(t, n - 1) + 6
  <2>1. n \in 1..Len(t) /\ Len(t[n]) >= 1 /\ t[n] = UnitText(us[n]) /\ Len(t[n]) = 6
    BY <1>1, <1>4
  <2>2. Spells(b, Start(t, n - 1), t[n]) /\ Start(t, n) = Start(t, n - 1) + Len(t[n])
    BY <1>1, <2>1, QuotedSpells DEF b
  <2>. QED
    BY <2>1, <2>2, Zenon
<1>9. Len(b) = Start(t, N)
  BY <1>2, <1>3
<1>. QED
  BY <1>2, <1>3, <1>5, <1>7, <1>8, <1>9, Zenon DEF b, t, N

\* What escape refuses ends the loop.
LEMMA TurnRefuse ==
  ASSUME NEW b \in Seq(Bytes), NEW v \in Seq(Bytes), NEW p \in Nat, At(b, p) = Backslash,
         EscapeRead(b, p, At(b, p + 1)) = Reject("bad_string")
  PROVE  strTurn(b, ReadTo(v, p)) = Reject("bad_string")
<1> DEFINE r == ReadTo(v, p)
<1>1. r \in Reading /\ r.word = "nil" /\ r.value = v /\ r.pos = p
  BY AcceptIs
<1> HIDE DEF r
<1>2. escape(b, p) = Reject("bad_string")
  BY EscapeIs
<1>3. strTurn(b, r) = IF escape(b, r.pos).word # "nil" THEN escape(b, r.pos)
                   ELSE ReadTo(r.value \o escape(b, r.pos).value, escape(b, r.pos).pos)
  BY <1>1, TurnCases, Zenon
<1>. QED
  BY <1>1, <1>2, <1>3, RefuseIs, Zenon DEF r

\* What a turn makes of an escaped unit.
LEMMA UnitEscape ==
  ASSUME NEW b \in Seq(Bytes), NEW p \in Nat \ {0}, NEW u \in CodeUnits, Spells(b, p, UnitText(u))
  PROVE  /\ At(b, p) = Backslash
         /\ u \in Low => EscapeRead(b, p, At(b, p + 1)) = Reject("bad_string")
         /\ u \notin Low /\ u \notin High => EscapeRead(b, p, At(b, p + 1)) = ReadTo(appendRune(u), p + 6)
         /\ u \notin Low /\ u \in High =>
              EscapeRead(b, p, At(b, p + 1)) = PairRead(b, ReadTo(u, p + 6), hex4(b, p + 8))
<1>1. p + 5 <= Len(b) /\ At(b, p) = Backslash /\ At(b, p + 1) = LetterU /\ hex4(b, p + 2) = ReadTo(u, p + 6)
  BY UnitWritten
<1>2. ~(p + 1 > Len(b)) /\ LetterU \notin DOMAIN Short
  BY <1>1 DEF LetterU, Short
<1> DEFINE h == ReadTo(u, p + 6)
           l == hex4(b, p + 8)
<1>3. h.word = "nil" /\ h.value = u /\ h.pos = p + 6
  BY AcceptParts
<1>4. h.pos + 2 = p + 8
  BY <1>3
<1>5. EscapeRead(b, p, At(b, p + 1)) = UnitRead(b, h, l)
  <2>1. EscapeRead(b, p, At(b, p + 1)) = UnitRead(b, hex4(b, p + 2), hex4(b, hex4(b, p + 2).pos + 2))
    BY <1>1, <1>2, Zenon DEF EscapeRead
  <2>2. hex4(b, p + 2).pos + 2 = p + 8
    BY <1>1, <1>4, Zenon
  <2>. QED
    BY <1>1, <2>1, <2>2, Zenon
<1> HIDE DEF h, l
<1>6. /\ u \in Low => UnitRead(b, h, l) = Reject("bad_string")
      /\ u \notin Low /\ u \notin High => UnitRead(b, h, l) = ReadTo(appendRune(u), p + 6)
      /\ u \notin Low /\ u \in High => UnitRead(b, h, l) = PairRead(b, h, l)
  BY <1>3, Zenon DEF UnitRead
<1>. QED
  BY <1>1, <1>5, <1>6, Zenon DEF h, l

\* The two halves are apart.
LEMMA Surrogates ==
  ASSUME NEW u
  PROVE  /\ u \in High => u \notin Low
         /\ u \in Low => u \notin High
<1>1. ASSUME u \in High, u \in Low PROVE FALSE
  <2>1. u \in Int /\ u <= 56319
    BY <1>1, SMT DEF High
  <2>2. u >= 56320
    BY <1>1, SMT DEF Low
  <2>. QED
    BY <2>1, <2>2, SMT
<1>. QED
  BY <1>1

\* One escape read by itself.
LEMMA UnitTurn ==
  ASSUME NEW us \in Seq(CodeUnits), NEW v \in Seq(Bytes), NEW i \in 1..Len(us)
  PROVE  LET t == Escaped(us)
             u == us[i]
             next == strTurn(Quoted(t), ReadTo(v, Start(t, i - 1)))
         IN /\ u \in Low => next = Reject("bad_string")
            /\ u \notin Low /\ u \notin High => next = ReadTo(v \o appendRune(u), Start(t, i))
            /\ u \in High /\ i < Len(us) /\ us[i + 1] \in Low =>
                 next = ReadTo(v \o appendRune(combine(u, us[i + 1])), Start(t, i + 1))
            /\ u \in High /\ ~(i < Len(us) /\ us[i + 1] \in Low) => next = Reject("bad_string")
<1> DEFINE t == Escaped(us)
           b == Quoted(t)
           N == Len(us)
           u == us[i]
           p == Start(t, i - 1)
           next == strTurn(b, ReadTo(v, p))
           read == EscapeRead(b, p, At(b, p + 1))
           bad == Reject("bad_string")
<1>1. /\ b \in Seq(Bytes) /\ Len(b) = Start(t, N)
      /\ \A n \in 0..N : Start(t, n) \in Nat \ {0}
      /\ \A n \in 1..N : Spells(b, Start(t, n - 1), UnitText(us[n])) /\ Start(t, n) = Start(t, n - 1) + 6
  BY EscapedIs
<1>2. N \in Nat /\ i \in 1..N /\ u \in CodeUnits /\ i - 1 \in 0..N /\ i \in 0..N
  OBVIOUS
<1> HIDE DEF t, b, N
<1>3. p \in Nat \ {0} /\ Start(t, i) = p + 6 /\ Spells(b, p, UnitText(u))
  BY <1>1, <1>2
<1>4. p \in Nat
  BY <1>3
<1> HIDE DEF p, u
<1>5. /\ At(b, p) = Backslash
      /\ u \in Low => read = bad
      /\ u \notin Low /\ u \notin High => read = ReadTo(appendRune(u), p + 6)
      /\ u \notin Low /\ u \in High => read = PairRead(b, ReadTo(u, p + 6), hex4(b, p + 8))
  BY <1>1, <1>2, <1>3, UnitEscape
<1> HIDE DEF read
<1>6. ASSUME read = bad PROVE next = bad
  BY <1>1, <1>4, <1>5, <1>6, TurnRefuse, Zenon DEF read
<1>7. ASSUME NEW x, NEW q, read = ReadTo(x, q) PROVE next = ReadTo(v \o x, q)
  BY <1>1, <1>4, <1>5, <1>7, TurnEscape DEF read
<1> DEFINE h == ReadTo(u, p + 6)
           l == hex4(b, p + 8)
<1>8. h.word = "nil" /\ h.value = u /\ h.pos = p + 6
  BY AcceptParts
<1> HIDE DEF next, bad, h, l
<1>9. u \in Low => next = bad
  BY <1>5, <1>6
<1>10. u \notin Low /\ u \notin High => next = ReadTo(v \o appendRune(u), Start(t, i))
  BY <1>3, <1>5, <1>7
<1>11. ASSUME u \in High, i < N
       PROVE  /\ us[i + 1] \in Low => next = ReadTo(v \o appendRune(combine(u, us[i + 1])), Start(t, i + 1))
              /\ us[i + 1] \notin Low => next = bad
  <2> DEFINE q == p + 6
             d == us[i + 1]
  <2>1. i + 1 \in 1..N /\ (i + 1) - 1 = i
    BY <1>2, <1>11
  <2>2. Spells(b, q, UnitText(d)) /\ Start(t, i + 1) = q + 6
    BY <1>1, <1>3, <2>1
  <2>3. q \in Nat \ {0} /\ q + 2 = p + 8
    BY <1>3
  <2>4. d \in CodeUnits
    BY <2>1 DEF N
  <2> HIDE DEF q, d
  <2>5. q + 5 <= Len(b) /\ b[q] = Backslash /\ b[q + 1] = LetterU /\ hex4(b, q + 2) = ReadTo(d, q + 6)
    BY <1>1, <2>2, <2>3, <2>4, UnitWritten
  <2>6. Followed(b, h.pos)
    <3>1. q + 1 <= Len(b) /\ h.pos = q
      BY <1>1, <1>8, <2>3, <2>5 DEF q
    <3>. QED
      BY <2>5, <3>1, Zenon DEF Followed
  <2>7. l = ReadTo(d, q + 6)
    BY <2>3, <2>5 DEF l
  <2>8. l.word = "nil" /\ l.value = d /\ l.pos = q + 6
    BY <2>7, AcceptParts
  <2>9. u \notin Low
    BY <1>11, Surrogates
  <2>10. read = PairRead(b, h, l)
    BY <1>5, <1>11, <2>9, Zenon DEF h, l
  <2>11. ASSUME d \in Low PROVE next = ReadTo(v \o appendRune(combine(u, d)), Start(t, i + 1))
    <3>1. second(d)
      BY <2>11 DEF second
    <3>2. read = ReadTo(appendRune(combine(u, d)), q + 6)
      BY <1>8, <2>6, <2>8, <2>10, <3>1, Zenon DEF PairRead
    <3>. QED
      BY <1>7, <2>2, <3>2, Zenon
  <2>12. ASSUME d \notin Low PROVE next = bad
    <3>1. ~second(d)
      BY <2>12 DEF second
    <3>2. read = bad
      BY <2>8, <2>10, <3>1, Zenon DEF PairRead, bad
    <3>. QED
      BY <1>6, <3>2
  <2>. QED
    BY <2>11, <2>12, Zenon DEF d
<1>12. ASSUME u \in High, ~(i < N) PROVE next = bad
  <2>1. i = N
    BY <1>2, <1>12
  <2>2. Len(b) = p + 6
    BY <1>1, <1>3, <2>1
  <2>3. ~Followed(b, h.pos)
    <3>1. ~((p + 6) + 1 <= p + 6)
      BY <1>4
    <3>. QED
      BY <1>8, <2>2, <3>1, Zenon DEF Followed
  <2>4. u \notin Low
    BY <1>12, Surrogates
  <2>5. read = PairRead(b, h, l)
    BY <1>5, <1>12, <2>4, Zenon DEF h, l
  <2>6. read = bad
    BY <2>3, <2>5, Zenon DEF PairRead, bad
  <2>. QED
    BY <1>6, <2>6
<1>13. /\ u \in High /\ i < N /\ us[i + 1] \in Low =>
            next = ReadTo(v \o appendRune(combine(u, us[i + 1])), Start(t, i + 1))
       /\ u \in High /\ ~(i < N /\ us[i + 1] \in Low) => next = bad
  BY <1>11, <1>12, Zenon
<1>. QED
  BY <1>9, <1>10, <1>13, Zenon DEF next, bad, t, b, N, u, p

\* A pair of surrogates stands for a character that is none.
LEMMA CombineIs ==
  ASSUME NEW u \in High, NEW lo \in Low
  PROVE  combine(u, lo) \in CodePoints /\ combine(u, lo) \notin High /\ combine(u, lo) \notin Low
<1> DEFINE e == combine(u, lo)
<1>1. e \in CodePoints /\ e >= 65536
  BY PairTyped, SMT
<1> HIDE DEF e
<1>2. e \in Int
  BY <1>1, PointIs, SMT
<1>3. e \notin High
  BY <1>1, <1>2, SMT DEF High
<1>4. e \notin Low
  BY <1>1, <1>2, SMT DEF Low
<1>5. e \in CodePoints
  BY <1>1, SMT
<1>. QED
  BY <1>3, <1>4, <1>5, SMT DEF e

\* The surrogates among the first i units have their partners among them.
Even(us, i) ==
  \A j \in 1..i : /\ us[j] \in High => j + 1 <= i /\ us[j + 1] \in Low
                  /\ us[j] \in Low => j - 1 >= 1 /\ us[j - 1] \in High

\* The units among them that start a character.
HeadsIn(us, i) == {j \in 1..i : us[j] \notin Low}

\* The starting units are finitely many.
LEMMA HeadsFinite ==
  ASSUME NEW us, NEW i \in Nat
  PROVE  IsFiniteSet(HeadsIn(us, i))
<1>1. IsFiniteSet(1..i)
  BY FS_Interval
<1>2. HeadsIn(us, i) \subseteq 1..i
  BY DEF HeadsIn
<1>. QED
  BY <1>1, <1>2, FS_Subset

\* A unit that is no surrogate keeps the rest paired and adds one character,
LEMMA EvenGrows ==
  ASSUME NEW us \in Seq(CodeUnits), NEW i \in 1..Len(us), Even(us, i - 1), us[i] \notin Low, us[i] \notin High
  PROVE  Even(us, i) /\ Cardinality(HeadsIn(us, i)) = Cardinality(HeadsIn(us, i - 1)) + 1
<1>1. Even(us, i)
  <2>1. \A j \in 1..i : j = i \/ j \in 1..(i - 1)
    OBVIOUS
  <2>2. ASSUME NEW j \in 1..i PROVE /\ us[j] \in High => j + 1 <= i /\ us[j + 1] \in Low
                                    /\ us[j] \in Low => j - 1 >= 1 /\ us[j - 1] \in High
    <3>1. CASE j = i
      BY <3>1
    <3>2. CASE j \in 1..(i - 1)
      <4>1. /\ us[j] \in High => j + 1 <= i - 1 /\ us[j + 1] \in Low
            /\ us[j] \in Low => j - 1 >= 1 /\ us[j - 1] \in High
        BY <3>2 DEF Even
      <4>2. j + 1 <= i - 1 => j + 1 <= i
        OBVIOUS
      <4>. QED
        BY <4>1, <4>2, Zenon
    <3>. QED
      BY <2>1, <3>1, <3>2
  <2>. QED
    BY <2>2, Zenon DEF Even
<1>2. HeadsIn(us, i) = HeadsIn(us, i - 1) \cup {i}
  <2>1. \A j : j \in 1..i <=> j = i \/ j \in 1..(i - 1)
    OBVIOUS
  <2>. QED
    BY <2>1, Zenon DEF HeadsIn
<1>3. i \notin HeadsIn(us, i - 1)
  BY DEF HeadsIn
<1>4. IsFiniteSet(HeadsIn(us, i - 1))
  BY HeadsFinite
<1>. QED
  BY <1>1, <1>2, <1>3, <1>4, FS_AddElement

\* and so does a pair.
LEMMA EvenGrowsByTwo ==
  ASSUME NEW us \in Seq(CodeUnits), NEW i \in 1..Len(us), Even(us, i - 1), us[i] \in High,
         i < Len(us), us[i + 1] \in Low
  PROVE  Even(us, i + 1) /\ Cardinality(HeadsIn(us, i + 1)) = Cardinality(HeadsIn(us, i - 1)) + 1
<1>0. us[i] \notin Low /\ us[i + 1] \notin High
  BY Surrogates
<1>1. Even(us, i + 1)
  <2>1. \A j \in 1..(i + 1) : j = i + 1 \/ j = i \/ j \in 1..(i - 1)
    OBVIOUS
  <2>2. ASSUME NEW j \in 1..(i + 1) PROVE /\ us[j] \in High => j + 1 <= i + 1 /\ us[j + 1] \in Low
                                          /\ us[j] \in Low => j - 1 >= 1 /\ us[j - 1] \in High
    <3>1. CASE j = i
      <4>1. j + 1 <= i + 1
        BY <3>1
      <4>. QED
        BY <1>0, <3>1, <4>1, Zenon
    <3>2. CASE j \in 1..(i - 1)
      <4>1. /\ us[j] \in High => j + 1 <= i - 1 /\ us[j + 1] \in Low
            /\ us[j] \in Low => j - 1 >= 1 /\ us[j - 1] \in High
        BY <3>2 DEF Even
      <4>2. j + 1 <= i - 1 => j + 1 <= i + 1
        OBVIOUS
      <4>. QED
        BY <4>1, <4>2, Zenon
    <3>3. CASE j = i + 1
      <4>1. j - 1 = i /\ j - 1 >= 1
        BY <3>3
      <4>. QED
        BY <1>0, <3>3, <4>1, Zenon
    <3>. QED
      BY <2>1, <3>1, <3>2, <3>3
  <2>. QED
    BY <2>2, Zenon DEF Even
<1>2. HeadsIn(us, i + 1) = HeadsIn(us, i - 1) \cup {i}
  <2>1. \A j : j \in 1..(i + 1) <=> j = i + 1 \/ j = i \/ j \in 1..(i - 1)
    OBVIOUS
  <2>. QED
    BY <1>0, <2>1, Zenon DEF HeadsIn
<1>3. i \notin HeadsIn(us, i - 1)
  BY DEF HeadsIn
<1>4. IsFiniteSet(HeadsIn(us, i - 1))
  BY HeadsFinite
<1>. QED
  BY <1>1, <1>2, <1>3, <1>4, FS_AddElement

\* What str has read after i units: as many characters as they stand for.
Taken(us, i, v) ==
  /\ v \in Seq(Bytes) /\ WellFormed(v) /\ IsFiniteSet(Starts(v)) /\ Even(us, i)
  /\ Cardinality(Starts(v)) = Cardinality(HeadsIn(us, i))

\* What has been read after one more character.
LEMMA TakenGrows ==
  ASSUME NEW us \in Seq(CodeUnits), NEW i \in 0..Len(us), NEW j, NEW v, Taken(us, i, v),
         NEW cp \in CodePoints, cp \notin High, cp \notin Low,
         Even(us, j), Cardinality(HeadsIn(us, j)) = Cardinality(HeadsIn(us, i)) + 1
  PROVE  Taken(us, j, v \o appendRune(cp))
<1> DEFINE x == appendRune(cp)
<1>1. x \in Seq(Bytes) /\ Len(x) \in 1..4 /\ Formed(x, 1, Len(x))
  BY RuneBytes, Zenon
<1>2. v \in Seq(Bytes) /\ WellFormed(v) /\ IsFiniteSet(Starts(v)) /\ Cardinality(Starts(v)) = Cardinality(HeadsIn(us, i))
  BY DEF Taken
<1> HIDE DEF x
<1>3. v \o x \in Seq(Bytes)
  BY <1>1, <1>2
<1>4. WellFormed(v \o x)
  BY <1>1, <1>2, WellFormedGrows
<1>5. IsFiniteSet(Starts(v \o x)) /\ Cardinality(Starts(v \o x)) = Cardinality(Starts(v)) + 1
  BY <1>1, <1>2, StartsGrow
<1>. QED
  BY <1>2, <1>3, <1>4, <1>5, Zenon DEF Taken, x

\* Every turn takes a unit or a pair, or finds one that has no partner.
LEMMA EscapedTurn ==
  ASSUME NEW us \in Seq(CodeUnits), NEW i \in 0..Len(us), i < Len(us), NEW v, Taken(us, i, v)
  PROVE  LET t == Escaped(us)
             next == strTurn(Quoted(t), ReadTo(v, Start(t, i)))
         IN \/ next = Reject("bad_string") /\ ~Even(us, Len(us))
            \/ \E j \in (i + 1)..Len(us) : \E y : next = ReadTo(y, Start(t, j)) /\ Taken(us, j, y)
<1> DEFINE t == Escaped(us)
           k == i + 1
           u == us[k]
           N == Len(us)
           next == strTurn(Quoted(t), ReadTo(v, Start(t, i)))
           bad == Reject("bad_string")
<1>1. k \in 1..N /\ k - 1 = i /\ N \in Nat /\ k <= N
  OBVIOUS
<1>2. v \in Seq(Bytes) /\ Even(us, k - 1)
  BY <1>1 DEF Taken
<1>3. u \in CodeUnits
  BY <1>1
<1>4. /\ u \in Low => next = bad
      /\ u \notin Low /\ u \notin High => next = ReadTo(v \o appendRune(u), Start(t, k))
      /\ u \in High /\ k < N /\ us[k + 1] \in Low => next = ReadTo(v \o appendRune(combine(u, us[k + 1])), Start(t, k + 1))
      /\ u \in High /\ ~(k < N /\ us[k + 1] \in Low) => next = bad
  <2> HIDE DEF k
  <2>1. Start(t, k - 1) = Start(t, i)
    BY <1>1
  <2>. QED
    BY <1>1, <1>2, <2>1, UnitTurn, Zenon
<1> HIDE DEF k, t, next, bad, N
<1>5. CASE u \in Low
  <2>1. ASSUME Even(us, N) PROVE FALSE
    <3>1. k - 1 >= 1 /\ us[k - 1] \in High
      BY <1>1, <1>5, <2>1 DEF Even
    <3>2. k - 1 \in 1..(k - 1)
      BY <1>1, <3>1
    <3>3. (k - 1) + 1 <= k - 1
      BY <1>2, <3>1, <3>2 DEF Even
    <3>. QED
      BY <1>1, <3>3
  <2>. QED
    BY <1>4, <1>5, <2>1, Zenon DEF bad, next, t, N
<1>6. CASE u \notin Low /\ u \notin High
  <2>1. u \in CodePoints
    BY <1>3, UnitTyped
  <2>2. Even(us, k) /\ Cardinality(HeadsIn(us, k)) = Cardinality(HeadsIn(us, i)) + 1
    BY <1>1, <1>2, <1>6, EvenGrows DEF N
  <2>3. Taken(us, k, v \o appendRune(u))
    BY <1>6, <2>1, <2>2, TakenGrows
  <2>4. next = ReadTo(v \o appendRune(u), Start(t, k)) /\ k \in (i + 1)..N
    BY <1>1, <1>4, <1>6 DEF k
  <2>. QED
    BY <2>3, <2>4, Zenon DEF next, t, N
<1>7. CASE u \in High /\ k < N /\ us[k + 1] \in Low
  <2> DEFINE lo == us[k + 1]
  <2>1. combine(u, lo) \in CodePoints /\ combine(u, lo) \notin High /\ combine(u, lo) \notin Low
    BY <1>7, CombineIs, Zenon
  <2>2. Even(us, k + 1) /\ Cardinality(HeadsIn(us, k + 1)) = Cardinality(HeadsIn(us, i)) + 1
    BY <1>1, <1>2, <1>7, EvenGrowsByTwo DEF N
  <2>3. Taken(us, k + 1, v \o appendRune(combine(u, lo)))
    <3> DEFINE cp == combine(u, lo)
               m == k + 1
    <3>1. cp \in CodePoints /\ cp \notin High /\ cp \notin Low /\ Even(us, m) /\ Cardinality(HeadsIn(us, m)) = Cardinality(HeadsIn(us, i)) + 1
      BY <2>1, <2>2, Zenon
    <3> HIDE DEF cp, m
    <3>2. Taken(us, m, v \o appendRune(cp))
      BY <3>1, TakenGrows
    <3>. QED
      BY <3>2, Zenon DEF cp, m
  <2>4. next = ReadTo(v \o appendRune(combine(u, lo)), Start(t, k + 1))
    BY <1>4, <1>7, Zenon
  <2>5. k + 1 \in (i + 1)..N
    BY <1>1, <1>7 DEF k
  <2>. QED
    BY <2>3, <2>4, <2>5, Zenon DEF next, t, N
<1>8. CASE u \in High /\ ~(k < N /\ us[k + 1] \in Low)
  <2>1. ASSUME Even(us, N) PROVE FALSE
    <3>1. k + 1 <= N /\ us[k + 1] \in Low
      BY <1>1, <1>8, <2>1 DEF Even
    <3>2. k < N
      BY <1>1, <3>1
    <3>. QED
      BY <1>8, <3>1, <3>2
  <2>. QED
    BY <1>4, <1>8, <2>1, Zenon DEF bad, next, t, N
<1>. QED
  BY <1>5, <1>6, <1>7, <1>8, Zenon

\* After as many turns as there are bytes all units are taken, or one was refused.
LEMMA EscapedTurns ==
  ASSUME NEW us \in Seq(CodeUnits)
  PROVE  LET b == Quoted(Escaped(us))
             r == StrTurns(b)[Len(b)]
         IN \/ r = Reject("bad_string") /\ ~Even(us, Len(us))
            \/ Taken(us, Len(us), r.value) /\ r = ReadTo(r.value, Len(b))
<1> DEFINE N == Len(us)
           t == Escaped(us)
           b == Quoted(t)
           M == Len(b)
           r == StrTurns(b)
           bad == Reject("bad_string")
           At1(n, i, y) == r[n] = ReadTo(y, Start(t, i)) /\ Taken(us, i, y) /\ (i >= n \/ i = N)
           S == {n \in 0..M : \/ r[n] = bad /\ ~Even(us, N)
                              \/ \E i \in 0..N : \E y : At1(n, i, y)}
<1>1. /\ b \in Seq(Bytes) /\ M = Start(t, N) /\ At(b, M) = Quote /\ N <= M /\ Start(t, 0) = 2
      /\ N \in Nat /\ M \in Nat /\ \A n \in 0..N : Start(t, n) \in Nat
  <2>1. /\ b \in Seq(Bytes) /\ M = Start(t, N) /\ At(b, M) = Quote /\ N <= M /\ Start(t, 0) = 2
        /\ \A n \in 0..N : Start(t, n) \in Nat \ {0}
    BY EscapedIs, Zenon
  <2>2. M \in Nat
    <3> HIDE DEF b
    <3>. QED
      BY <2>1
  <2>. QED
    BY <2>1, <2>2
<1>2. r \in [0..M -> Reading] /\ r[0] = ReadTo(<<>>, 2) /\ \A n \in 1..M : r[n] = strTurn(b, r[n - 1])
  BY <1>1, TurnsUnfold
<1> HIDE DEF t, b, M, r
<1>3. 0 \in S
  <2> DEFINE none == <<>>
  <2>1. none \in Seq(Bytes) /\ Len(none) = 0 /\ DOMAIN none = {} /\ 1..0 = {}
    OBVIOUS
  <2>2. r[0] = ReadTo(none, Start(t, 0))
    BY <1>1, <1>2, Zenon
  <2>3. WellFormed(<<>>)
    BY DEF WellFormed
  <2>4. Starts(none) = {} /\ HeadsIn(us, 0) = {} /\ Even(us, 0)
    <3> HIDE DEF none
    <3>. QED
      BY <2>1 DEF Starts, HeadsIn, Even
  <2>5. WellFormed(none)
    BY <2>3
  <2> HIDE DEF none
  <2>6. Taken(us, 0, none)
    BY <2>1, <2>4, <2>5, FS_EmptySet DEF Taken
  <2>7. 0 \in 0..N /\ 0 \in 0..M /\ 0 >= 0
    BY <1>1
  <2>. QED
    BY <2>2, <2>6, <2>7, Zenon
<1>4. \A y : y \in Seq(Bytes) => strTurn(b, ReadTo(y, M)) = ReadTo(y, M)
  <2> SUFFICES ASSUME NEW y \in Seq(Bytes) PROVE strTurn(b, ReadTo(y, M)) = ReadTo(y, M)
    BY Zenon
  <2> DEFINE x == ReadTo(y, M)
  <2>1. x \in Reading /\ x.pos = M
    BY <1>1, AcceptIs
  <2> HIDE DEF x
  <2>2. At(b, x.pos) = Quote
    BY <1>1, <2>1
  <2>3. strTurn(b, x) = x
    BY <1>1, <2>1, <2>2, TurnCases, Zenon
  <2>. QED
    BY <2>3 DEF x
<1>5. ASSUME NEW n \in 1..M, n - 1 \in S PROVE n \in S
  <2>1. n \in 0..M /\ n - 1 \in 0..M /\ r[n] = strTurn(b, r[n - 1])
    BY <1>1, <1>2
  <2>2. CASE r[n - 1] = bad /\ ~Even(us, N)
    <3>1. bad \in Reading /\ bad.word # "nil"
      BY RefuseIs
    <3>2. strTurn(b, bad) = bad
      <4> HIDE DEF bad
      <4>. QED
        BY <1>1, <3>1, TurnCases, Zenon
    <3>3. r[n] = bad
      BY <2>1, <2>2, <3>2
    <3>. QED
      BY <2>1, <2>2, <3>3, Zenon
  <2>3. ASSUME NEW i \in 0..N, NEW y, At1(n - 1, i, y) PROVE n \in S
    <3>1. r[n - 1] = ReadTo(y, Start(t, i)) /\ Taken(us, i, y) /\ (i >= n - 1 \/ i = N)
      BY <2>3
    <3>2. y \in Seq(Bytes)
      BY <3>1 DEF Taken
    <3>3. CASE i = N
      <4>1. r[n] = ReadTo(y, Start(t, N))
        BY <1>1, <1>4, <2>1, <3>1, <3>2, <3>3
      <4>. QED
        BY <2>1, <3>1, <3>3, <4>1, Zenon
    <3>4. CASE i # N
      <4>1. i < N /\ i >= n - 1
        BY <1>1, <3>1, <3>4
      <4>2. \/ strTurn(b, ReadTo(y, Start(t, i))) = bad /\ ~Even(us, N)
            \/ \E j \in (i + 1)..N : \E z : strTurn(b, ReadTo(y, Start(t, i))) = ReadTo(z, Start(t, j)) /\ Taken(us, j, z)
        BY <3>1, <4>1, EscapedTurn, Zenon DEF b, t
      <4>3. CASE strTurn(b, ReadTo(y, Start(t, i))) = bad /\ ~Even(us, N)
        BY <2>1, <3>1, <4>3, Zenon
      <4>4. ASSUME NEW j \in (i + 1)..N, NEW z, strTurn(b, ReadTo(y, Start(t, i))) = ReadTo(z, Start(t, j)), Taken(us, j, z)
            PROVE  n \in S
        <5>1. j \in 0..N /\ j >= n
          BY <1>1, <4>1
        <5>2. r[n] = ReadTo(z, Start(t, j))
          BY <2>1, <3>1, <4>4
        <5>. QED
          BY <2>1, <4>4, <5>1, <5>2, Zenon
      <4>. QED
        BY <4>2, <4>3, <4>4, Zenon
    <3>. QED
      BY <3>3, <3>4
  <2>. QED
    BY <1>5, <2>2, <2>3, Zenon
<1>6. M \in S
  <2> HIDE DEF S
  <2>1. \A n \in 0..M : n \in S
    BY <1>1, <1>3, <1>5, TurnByTurn
  <2>. QED
    BY <1>1, <2>1
<1>7. CASE r[M] = bad /\ ~Even(us, N)
  BY <1>7, Zenon DEF r, M, b, t
<1>8. ASSUME NEW i \in 0..N, NEW y, At1(M, i, y)
      PROVE  Taken(us, N, r[M].value) /\ r[M] = ReadTo(r[M].value, M)
  <2>1. i = N
    <3>1. i >= M \/ i = N
      BY <1>8
    <3>. QED
      BY <1>1, <3>1
  <2>2. r[M] = ReadTo(y, M) /\ Taken(us, N, y)
    BY <1>1, <1>8, <2>1
  <2>3. r[M].value = y
    BY <2>2, AcceptParts
  <2>. QED
    BY <2>2, <2>3
<1>9. (r[M] = bad /\ ~Even(us, N)) \/ (Taken(us, N, r[M].value) /\ r[M] = ReadTo(r[M].value, M))
  BY <1>6, <1>8, Zenon
<1>. QED
  BY <1>9, Zenon DEF r, M, b, t

\* str accepts escaped UTF-16 exactly when every surrogate has its partner.
LEMMA EscapedReads ==
  ASSUME NEW us \in Seq(CodeUnits)
  PROVE  LET r == str(Quoted(Escaped(us)))
         IN /\ r.word = "nil" <=> Even(us, Len(us))
            /\ r.word = "nil" => Cardinality(Starts(r.value)) = Cardinality(HeadsIn(us, Len(us)))
<1> DEFINE b == Quoted(Escaped(us))
           q == StrTurns(b)[Len(b)]
           r == str(b)
           N == Len(us)
           bad == Reject("bad_string")
<1>1. b \in Seq(Bytes) /\ At(b, 1) = Quote
  BY EscapedIs, Zenon
<1>2. r = IF q.word # "nil" THEN q
          ELSE IF validUTF8(q.value) THEN ReadTo(q.value, q.pos + 1) ELSE bad
  BY <1>1, StrCases, Zenon
<1>3. \/ q = bad /\ ~Even(us, N)
      \/ Taken(us, N, q.value) /\ q = ReadTo(q.value, Len(b))
  BY EscapedTurns, Zenon
<1>4. bad.word # "nil"
  BY RefuseIs
<1> HIDE DEF q, r, b, bad, N
<1>5. CASE q = bad /\ ~Even(us, N)
  <2>1. r.word # "nil"
    BY <1>2, <1>4, <1>5
  <2>. QED
    BY <1>5, <2>1, Zenon DEF r, b, N
<1>6. CASE Taken(us, N, q.value) /\ q = ReadTo(q.value, Len(b))
  <2>1. q.word = "nil"
    BY <1>6, AcceptParts
  <2>2. q.value \in Seq(Bytes) /\ WellFormed(q.value) /\ Even(us, N) /\ Cardinality(Starts(q.value)) = Cardinality(HeadsIn(us, N))
    BY <1>6 DEF Taken
  <2>3. validUTF8(q.value)
    BY <2>2, ValidIsWellFormed
  <2>4. r = ReadTo(q.value, q.pos + 1)
    BY <1>2, <2>1, <2>3
  <2>5. r.word = "nil" /\ r.value = q.value
    BY <2>4, AcceptParts
  <2>6. Cardinality(Starts(r.value)) = Cardinality(HeadsIn(us, N))
    BY <2>2, <2>5
  <2>. QED
    BY <2>2, <2>5, <2>6, Zenon DEF r, b, N
<1>. QED
  BY <1>3, <1>5, <1>6

-----------------------------------------------------------------------------
(***************************************************************************)
(* The specification.                                                      *)
(***************************************************************************)
TextTyped ==
  /\ mode \in {"string", "number"}
  /\ input \in Seq(IF mode = "string" THEN Pieces ELSE Characters)

\* The inputs are sequences of pieces or of characters.
LEMMA TextTypedInvariant == TextSpec => []TextTyped
<1>1. TextInit => TextTyped
  BY DEF TextInit, TextTyped
<1>2. TextTyped /\ [TypePiece]_textVars => TextTyped'
  <2> SUFFICES ASSUME TextTyped, [TypePiece]_textVars PROVE TextTyped'
    OBVIOUS
  <2> USE DEF TextTyped
  <2>1. CASE TypePiece /\ mode = "string"
    <3>1. PICK x \in Pieces : input' = Append(input, x) /\ mode' = mode
      BY <2>1 DEF TypePiece
    <3>2. input \in Seq(Pieces)
      BY <2>1
    <3>3. input' \in Seq(Pieces)
      BY <3>1, <3>2
    <3>. QED
      BY <2>1, <3>1, <3>3
  <2>2. CASE TypePiece /\ mode = "number"
    <3>1. PICK x \in Characters : input' = Append(input, x) /\ mode' = mode
      BY <2>2 DEF TypePiece
    <3>2. input \in Seq(Characters)
      BY <2>2
    <3>3. input' \in Seq(Characters)
      BY <3>1, <3>2
    <3>. QED
      BY <2>2, <3>1, <3>3
  <2>3. CASE UNCHANGED textVars
    BY <2>3 DEF textVars
  <2>. QED
    BY <2>1, <2>2, <2>3
<1>. QED
  BY <1>1, <1>2, PTL DEF TextSpec

\* integer accepts exactly what num writes, for every width of at least five
\* bits and every length: nothing overflows unseen, MinInt is read, and -0,
\* leading zeros, fractions and exponents are refused.
THEOREM IntegersExact == TextSpec => []IntegerExact
<1> USE SizedAssumption
<1> DEFINE accepts(min, max) ==
        LET r == integer(input, min, max)
        IN (r.word = "nil" /\ r.pos = Len(input) + 1) =
             (\E n \in min..max : num(n) = input /\ n = r.value)
<1>0. Power[Width - 1] \in Nat /\ Power[Width - 1] >= 16 /\ MaxInt = Power[Width - 1] - 1 /\ MinInt = -Power[Width - 1]
  BY PowerFacts DEF MaxInt, MinInt
<1>1. ASSUME TextTyped, mode = "number", NEW min \in Int, NEW max \in Int, MinInt <= min, max <= MaxInt
      PROVE  accepts(min, max)
  <2> DEFINE r == integer(input, min, max)
  <2>1. input \in Seq(Bytes)
    <3>1. input \in Seq(Characters)
      BY <1>1 DEF TextTyped
    <3>2. Characters \subseteq Bytes
      BY DEF Sized
    <3>. QED
      BY <3>1, <3>2
  <2>2. ASSUME r.word = "nil", r.pos = Len(input) + 1 PROVE \E n \in min..max : num(n) = input /\ n = r.value
    BY <2>1, <2>2, ReadNum
  <2>3. ASSUME NEW n \in min..max, num(n) = input PROVE r.word = "nil" /\ r.pos = Len(input) + 1
    <3>1. n \in Int /\ MinInt <= n /\ n <= MaxInt
      BY <1>0, <1>1
    <3>2. r = ReadTo(n, Len(input) + 1)
      BY <2>3, <3>1, NumRead
    <3>. QED
      BY <3>2 DEF ReadTo
  <2>4. (r.word = "nil" /\ r.pos = Len(input) + 1) <=> (\E n \in min..max : num(n) = input /\ n = r.value)
    BY <2>2, <2>3
  <2> HIDE DEF r
  <2>. QED
    BY <2>4, Zenon DEF r
<1>2. TextTyped => IntegerExact
  <2> SUFFICES ASSUME TextTyped, mode = "number"
               PROVE  accepts(MinInt, MaxInt) /\ accepts(MinInt \div 2, MaxInt \div 2)
    BY DEF IntegerExact
  <2> HIDE DEF accepts
  <2>1. MinInt \in Int /\ MaxInt \in Int /\ MinInt <= MinInt /\ MaxInt <= MaxInt
    BY <1>0
  <2>2. /\ MinInt \div 2 \in Int /\ MaxInt \div 2 \in Int
        /\ MinInt <= MinInt \div 2 /\ MaxInt \div 2 <= MaxInt
    <3> DEFINE H == Power[Width - 1]
    <3>1. H \in Nat /\ H >= 16 /\ MaxInt = H - 1 /\ MinInt = -H
      BY <1>0
    <3> HIDE DEF H
    <3>. QED
      BY <3>1
  <2>3. accepts(MinInt, MaxInt)
    BY <1>1, <2>1
  <2>4. accepts(MinInt \div 2, MaxInt \div 2)
    BY <1>1, <2>2
  <2>. QED
    BY <2>3, <2>4
<1>. QED
  BY <1>2, TextTypedInvariant, PTL

\* The bytes of an input of raw bytes.
LEMMA PieceIs ==
  ASSUME Sized, TextTyped, mode = "string", NEW i \in DOMAIN input
  PROVE  /\ IsRaw(input[i]) => input[i].raw \in Bytes
         /\ ~IsRaw(input[i]) => input[i].unit \in CodeUnits
         /\ PieceText(input[i]) \in Seq(Bytes)
<1> DEFINE x == input[i]
<1>1. input \in Seq(Pieces)
  BY DEF TextTyped
<1>2. x \in Pieces
  BY <1>1
<1> HIDE DEF x
<1>3. CASE x \in [raw : RawBytes]
  <2>1. x.raw \in RawBytes /\ IsRaw(x)
    BY <1>3 DEF IsRaw
  <2>2. x.raw \in Bytes
    BY <2>1 DEF Sized
  <2>3. PieceText(x) = <<x.raw>>
    BY <2>1 DEF PieceText
  <2>4. PieceText(x) \in Seq(Bytes)
    BY <2>2, <2>3
  <2>. QED
    BY <2>1, <2>2, <2>4, Zenon DEF x
<1>4. CASE x \in [unit : Units]
  <2>1. x.unit \in Units /\ ~IsRaw(x)
    BY <1>4 DEF IsRaw
  <2>2. x.unit \in CodeUnits
    BY <2>1 DEF Sized
  <2>3. PieceText(x) = UnitText(x.unit)
    BY <2>1 DEF PieceText
  <2>4. PieceText(x) \in Seq(Bytes)
    BY <2>2, <2>3, UnitWritten
  <2>. QED
    BY <2>1, <2>2, <2>4, Zenon DEF x
<1>. QED
  BY <1>2, <1>3, <1>4 DEF Pieces

\* The input is a sequence.
LEMMA InputLength ==
  ASSUME TextTyped
  PROVE  Len(input) \in Nat /\ DOMAIN input = 1..Len(input)
BY DEF TextTyped

\* str reads back what esc wrote, whatever the bytes and however many, exactly
\* when they are UTF-8.
THEOREM TextsReadBack == TextSpec => []TextReadsBack
<1> USE SizedAssumption
<1>1. ASSUME TextTyped PROVE TextReadsBack
  <2> DEFINE s == [i \in DOMAIN input |-> input[i].raw]
             r == str(esc(s))
  <2>1. ASSUME Plain PROVE /\ (r.word = "nil") = WellFormed(s)
                           /\ r.word = "nil" => r.value = s /\ r.pos = Len(esc(s)) + 1
    <3>1. mode = "string" /\ \A i \in DOMAIN input : IsRaw(input[i])
      BY <2>1 DEF Plain
    <3>2. \A i \in DOMAIN input : input[i].raw \in Bytes
      BY <1>1, <3>1, PieceIs
    <3>3. s \in Seq(Bytes)
      BY <1>1, <3>2, InputLength
    <3>4. /\ r.word = "nil" <=> WellFormed(s)
          /\ r.word = "nil" => r.value = s /\ r.pos = Len(esc(s)) + 1
      <4> HIDE DEF s
      <4>. QED
        BY <3>3, EscReads, Zenon
    <3>5. WellFormed(s) \in BOOLEAN
      BY DEF WellFormed
    <3> HIDE DEF s, r
    <3>. QED
      BY <3>4, <3>5
  <2> HIDE DEF s, r
  <2>. QED
    BY <2>1, Zenon DEF TextReadsBack, s, r
<1>. QED
  BY <1>1, TextTypedInvariant, PTL

\* However raw bytes and escapes are mixed, what str accepts is UTF-8; escapes
\* alone are accepted exactly when the surrogates pair, one character each.
THEOREM SurrogatesPaired == TextSpec => []SurrogatesPair
<1> USE SizedAssumption
<1>1. ASSUME TextTyped PROVE SurrogatesPair
  <2> DEFINE t == [i \in DOMAIN input |-> PieceText(input[i])]
             b == <<Quote>> \o (Body \o <<Quote>>)
             r == str(b)
             heads == {i \in DOMAIN input : ~IsLow(i)}
             starts == {k \in DOMAIN r.value : r.value[k] \div 64 # 2}
             units == \A i \in DOMAIN input : ~IsRaw(input[i])
  <2>1. ASSUME mode = "string", r.word = "nil" PROVE WellFormed(r.value)
    <3>1. \A i \in DOMAIN input : PieceText(input[i]) \in Seq(Bytes)
      BY <1>1, <2>1, PieceIs
    <3>2. t \in Seq(Seq(Bytes))
      BY <1>1, <3>1, InputLength
    <3>3. Body \in Seq(Bytes)
      <4>1. Body = Concat(t)
        BY DEF Body
      <4> HIDE DEF t
      <4>. QED
        BY <3>2, <4>1, ConcatTyped
    <3>4. b \in Seq(Bytes)
      BY <3>3, QuotedIs, Zenon
    <3>5. validUTF8(r.value) /\ r.value \in Seq(Bytes)
      <4> HIDE DEF b
      <4>. QED
        BY <2>1, <3>4, StrCases, Zenon
    <3> HIDE DEF r
    <3>. QED
      BY <3>5, ValidIsWellFormed
  <2>2. ASSUME mode = "string", units
        PROVE  /\ (r.word = "nil") = Paired
               /\ r.word = "nil" => Cardinality(starts) = Cardinality(heads)
    <3> DEFINE us == [i \in 1..Len(input) |-> input[i].unit]
    <3>1. \A i \in 1..Len(input) : input[i].unit \in CodeUnits /\ PieceText(input[i]) = UnitText(input[i].unit)
      BY <1>1, <2>2, PieceIs, InputLength DEF PieceText
    <3>2. us \in Seq(CodeUnits) /\ Len(us) = Len(input)
      BY <1>1, <3>1, InputLength
    <3>3. \A i \in 1..Len(input) : us[i] = input[i].unit
      OBVIOUS
    <3>4. t = Escaped(us)
      <4>1. \A i \in 1..Len(input) : PieceText(input[i]) = UnitText(us[i])
        BY <3>1, <3>3
      <4>2. DOMAIN input = 1..Len(us) /\ Len(us) = Len(input)
        BY <1>1, <3>2, InputLength
      <4> HIDE DEF us
      <4>. QED
        BY <4>1, <4>2 DEF Escaped
    <3> HIDE DEF us
    <3>5. r = str(Quoted(Escaped(us)))
      <4>1. Body = Concat(Escaped(us))
        BY <3>4 DEF Body
      <4>. QED
        BY <4>1 DEF Quoted
    <3>6. \A i \in Int : /\ IsLow(i) <=> i \in 1..Len(input) /\ us[i] \in Low
                         /\ IsHigh(i) <=> i \in 1..Len(input) /\ us[i] \in High
      BY <1>1, <2>2, <3>3, InputLength DEF IsLow, IsHigh, UnitAt
    <3>7. heads = HeadsIn(us, Len(us))
      <4>1. \A i \in 1..Len(input) : i \in Int
        OBVIOUS
      <4>2. DOMAIN input = 1..Len(us) /\ Len(us) = Len(input)
        BY <1>1, <3>2, InputLength
      <4>. QED
        BY <3>6, <4>1, <4>2 DEF HeadsIn
    <3>8. Paired <=> Even(us, Len(us))
      <4> DEFINE N == Len(us)
      <4>1. DOMAIN input = 1..N /\ N = Len(input) /\ N \in Nat
        BY <1>1, <3>2, InputLength
      <4> HIDE DEF N
      <4>2. ASSUME NEW i \in 1..N
            PROVE  /\ IsHigh(i) <=> us[i] \in High
                   /\ IsLow(i) <=> us[i] \in Low
                   /\ IsLow(i + 1) <=> i + 1 <= N /\ us[i + 1] \in Low
                   /\ IsHigh(i - 1) <=> i - 1 >= 1 /\ us[i - 1] \in High
        <5>1. i \in Int /\ i + 1 \in Int /\ i - 1 \in Int
          BY <4>1
        <5>2. (i + 1 \in 1..N <=> i + 1 <= N) /\ (i - 1 \in 1..N <=> i - 1 >= 1)
          BY <4>1
        <5>. QED
          BY <3>6, <4>1, <5>1, <5>2, Zenon
      <4>. QED
        BY <4>1, <4>2, Zenon DEF Paired, Even, N
    <3>9. /\ r.word = "nil" <=> Even(us, Len(us))
          /\ r.word = "nil" => Cardinality(Starts(r.value)) = Cardinality(HeadsIn(us, Len(us)))
      BY <3>2, <3>5, EscapedReads, Zenon
    <3>10. starts = Starts(r.value)
      BY Zenon DEF Starts
    <3>11. Paired \in BOOLEAN
      BY DEF Paired
    <3> HIDE DEF r, starts, heads
    <3>. QED
      BY <3>7, <3>8, <3>9, <3>10, <3>11
  <2> HIDE DEF b, r, starts, heads, units
  <2>. QED
    BY <2>1, <2>2, Zenon DEF SurrogatesPair, b, r, starts, heads, units
<1>. QED
  BY <1>1, TextTypedInvariant, PTL
=============================================================================
