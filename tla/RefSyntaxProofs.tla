--------------------------- MODULE RefSyntaxProofs --------------------------
(***************************************************************************)
(* What String prints of a reference means that reference, for texts of    *)
(* every length over any words.                                            *)
(***************************************************************************)
EXTENDS RefSyntax, PositionsProofs, SequenceTheorems, FiniteSetTheorems, TLAPS

\* What a text is made of.
Bytes == Words \cup {Slash, Sign, Hash, Colon, Latest}

\* No c stands in s.
Free(s, c) == \A i \in 1..Len(s) : s[i] # c

\* The delimiters are different, and no delimiter is the default tag.
LEMMA DelimitersDiffer ==
  /\ Slash # Sign /\ Slash # Hash /\ Sign # Hash /\ Latest # Colon
BY Zenon DEF Slash, Sign, Hash, Colon, Latest

\* The last position of a finite set of them.
LEMMA LastPosition ==
  ASSUME NEW n \in Nat, NEW I \in SUBSET (1..n), I # {}
  PROVE  Max(I) \in I /\ \A y \in I : y <= Max(I)
<1> DEFINE J == {k \in Nat : k <= n /\ (n - k) \in I}
<1>1. PICK x \in I : TRUE
  OBVIOUS
<1>2. x \in 1..n /\ n - x \in J
  BY <1>1
<1>3. Min(J) \in J /\ \A y \in J : Min(J) <= y
  BY <1>2, MinOfPositions
<1> DEFINE m == n - Min(J)
<1>4. m \in I
  BY <1>3
<1>5. ASSUME NEW y \in I PROVE y <= m
  <2>1. y \in 1..n /\ n - y \in J
    OBVIOUS
  <2>2. Min(J) <= n - y /\ Min(J) \in Nat
    BY <1>3, <2>1
  <2>. QED
    BY <2>1, <2>2
<1>. QED
  BY <1>4, <1>5, Zenon DEF Max

\* What IndexByte finds.
LEMMA IndexFound ==
  ASSUME NEW s \in Seq(Bytes), NEW c
  PROVE  \/ IndexByte(s, c) = 0 /\ Free(s, c)
         \/ /\ IndexByte(s, c) \in 1..Len(s) /\ s[IndexByte(s, c)] = c
            /\ \A j \in 1..(IndexByte(s, c) - 1) : s[j] # c
<1> DEFINE I == {i \in 1..Len(s) : s[i] = c}
<1>1. IndexByte(s, c) = IF I # {} THEN Min(I) ELSE 0
  BY DEF IndexByte, SelectInSeq
<1>2. Len(s) \in Nat /\ I \in SUBSET Nat
  OBVIOUS
<1>3. CASE I = {}
  BY <1>1, <1>3 DEF Free
<1>4. CASE I # {}
  <2>1. Min(I) \in I /\ \A y \in I : Min(I) <= y
    BY <1>2, <1>4, MinOfPositions
  <2> DEFINE m == Min(I)
  <2>2. m \in 1..Len(s) /\ s[m] = c
    BY <2>1
  <2>3. ASSUME NEW j \in 1..(m - 1) PROVE s[j] # c
    <3>1. j \in 1..Len(s) /\ ~(m <= j)
      BY <1>2, <2>2
    <3>. QED
      BY <2>1, <3>1
  <2>. QED
    BY <1>1, <1>4, <2>2, <2>3
<1>. QED
  BY <1>3, <1>4

\* And LastIndexByte.
LEMMA LastIndexFound ==
  ASSUME NEW s \in Seq(Bytes), NEW c
  PROVE  \/ LastIndexByte(s, c) = 0 /\ Free(s, c)
         \/ /\ LastIndexByte(s, c) \in 1..Len(s) /\ s[LastIndexByte(s, c)] = c
            /\ \A j \in (LastIndexByte(s, c) + 1)..Len(s) : s[j] # c
<1> DEFINE I == {i \in 1..Len(s) : s[i] = c}
<1>1. LastIndexByte(s, c) = IF I # {} THEN Max(I) ELSE 0
  BY DEF LastIndexByte, SelectLastInSeq
<1>2. Len(s) \in Nat /\ I \in SUBSET (1..Len(s))
  OBVIOUS
<1>3. CASE I = {}
  BY <1>1, <1>3 DEF Free
<1>4. CASE I # {}
  <2>1. Max(I) \in I /\ \A y \in I : y <= Max(I)
    BY <1>2, <1>4, LastPosition
  <2> DEFINE m == Max(I)
  <2>2. m \in 1..Len(s) /\ s[m] = c
    BY <2>1
  <2>3. ASSUME NEW j \in (m + 1)..Len(s) PROVE s[j] # c
    <3>1. j \in 1..Len(s) /\ ~(j <= m)
      BY <1>2, <2>2
    <3>. QED
      BY <2>1, <3>1
  <2>. QED
    BY <1>1, <1>4, <2>2, <2>3
<1>. QED
  BY <1>3, <1>4

\* A text without the delimiter is all to the left of it.
LEMMA NothingCut ==
  ASSUME NEW s \in Seq(Bytes), NEW c, Free(s, c)
  PROVE  /\ IndexByte(s, c) = 0 /\ LastIndexByte(s, c) = 0
         /\ Left(s, 0) = s /\ Right(s, 0) = <<>>
<1>1. IndexByte(s, c) = 0
  BY IndexFound DEF Free
<1>2. LastIndexByte(s, c) = 0
  BY LastIndexFound DEF Free
<1>. QED
  BY <1>1, <1>2 DEF Left, Right

\* The parts left and right of a position, and what was between them.
LEMMA CutParts ==
  ASSUME NEW s \in Seq(Bytes), NEW k \in 1..Len(s)
  PROVE  /\ Left(s, k) \in Seq(Bytes) /\ Right(s, k) \in Seq(Bytes)
         /\ Len(Left(s, k)) = k - 1 /\ Len(Right(s, k)) = Len(s) - k
         /\ \A j \in 1..(k - 1) : Left(s, k)[j] = s[j]
         /\ \A j \in 1..(Len(s) - k) : Right(s, k)[j] = s[k + j]
         /\ s = Left(s, k) \o (<<s[k]>> \o Right(s, k))
<1>1. /\ Left(s, k) \in Seq(Bytes) /\ Right(s, k) \in Seq(Bytes)
      /\ Len(Left(s, k)) = k - 1 /\ Len(Right(s, k)) = Len(s) - k
  BY DEF Left, Right
<1>2. \A j \in 1..(k - 1) : Left(s, k)[j] = s[j]
  BY DEF Left
<1>3. ASSUME NEW j \in 1..(Len(s) - k) PROVE Right(s, k)[j] = s[k + j]
  BY DEF Right
<1> DEFINE a == Left(s, k)
           b == Right(s, k)
           t == a \o (<<s[k]>> \o b)
<1> HIDE DEF a, b
<1>4. s[k] \in Bytes /\ a \in Seq(Bytes) /\ b \in Seq(Bytes) /\ Len(a) = k - 1 /\ Len(b) = Len(s) - k
  BY <1>1 DEF a, b
<1>5. t \in Seq(Bytes) /\ Len(t) = Len(s)
  BY <1>4, SMTT(40)
<1>6. ASSUME NEW j \in 1..Len(s) PROVE s[j] = t[j]
  <2>1. CASE j < k
    <3>1. j \in 1..(k - 1) /\ t[j] = a[j]
      BY <1>4, <2>1
    <3>. QED
      BY <1>2, <3>1 DEF a
  <2>2. CASE j = k
    BY <1>4, <2>2
  <2>3. CASE k < j
    <3>1. j - k \in 1..(Len(s) - k) /\ k + (j - k) = j
      BY <2>3
    <3>2. t[j] = (<<s[k]>> \o b)[j - (k - 1)] /\ (j - (k - 1)) - 1 = j - k
      BY <1>4, <2>3, <3>1
    <3>3. t[j] = b[j - k]
      BY <1>4, <2>3, <3>1, <3>2
    <3>. QED
      BY <1>3, <3>1, <3>3 DEF b
  <2>4. j < k \/ j = k \/ k < j
    OBVIOUS
  <2> HIDE DEF t
  <2>. QED
    BY <2>1, <2>2, <2>3, <2>4
<1>7. s = t
  <2> HIDE DEF t
  <2>. QED
    BY <1>5, <1>6, SeqEqual
<1>. QED
  BY <1>1, <1>2, <1>3, <1>7 DEF a, b

\* A text put together with a delimiter is cut at it.
LEMMA CutJoined ==
  ASSUME NEW a \in Seq(Bytes), NEW b \in Seq(Bytes), NEW c \in Bytes
  PROVE  LET s == a \o (<<c>> \o b)
             k == Len(a) + 1
         IN /\ s \in Seq(Bytes) /\ Len(s) = Len(a) + 1 + Len(b) /\ s[k] = c
            /\ Left(s, k) = a /\ Right(s, k) = b
            /\ Free(a, c) => IndexByte(s, c) = k
            /\ Free(b, c) => LastIndexByte(s, c) = k
<1> DEFINE s == a \o (<<c>> \o b)
           k == Len(a) + 1
<1>1. /\ s \in Seq(Bytes) /\ Len(s) = Len(a) + 1 + Len(b) /\ s[k] = c /\ k \in 1..Len(s)
      /\ \A j \in 1..Len(a) : s[j] = a[j]
      /\ \A j \in 1..Len(b) : s[k + j] = b[j]
  OBVIOUS
<1>2. Left(s, k) = a
  BY <1>1 DEF Left
<1>3. Right(s, k) = b
  BY <1>1 DEF Right
<1> HIDE DEF s
<1>4. ASSUME Free(a, c) PROVE IndexByte(s, c) = k
  <2> DEFINE m == IndexByte(s, c)
  <2>1. ~Free(s, c)
    BY <1>1 DEF Free
  <2>2. m \in 1..Len(s) /\ s[m] = c /\ \A j \in 1..(m - 1) : s[j] # c
    BY <1>1, <2>1, IndexFound
  <2> HIDE DEF m
  <2>3. ~(k < m)
    BY <1>1, <2>2
  <2>4. ~(m < k)
    <3>1. ASSUME m < k PROVE m \in 1..Len(a) /\ s[m] = a[m]
      BY <1>1, <2>2, <3>1
    <3>. QED
      BY <1>4, <2>2, <3>1 DEF Free
  <2>. QED
    BY <1>1, <2>2, <2>3, <2>4 DEF m
<1>5. ASSUME Free(b, c) PROVE LastIndexByte(s, c) = k
  <2> DEFINE m == LastIndexByte(s, c)
  <2>1. ~Free(s, c)
    BY <1>1 DEF Free
  <2>2. m \in 1..Len(s) /\ s[m] = c /\ \A j \in (m + 1)..Len(s) : s[j] # c
    BY <1>1, <2>1, LastIndexFound
  <2> HIDE DEF m
  <2>3. ~(m < k)
    BY <1>1, <2>2
  <2>4. ~(k < m)
    <3> SUFFICES ASSUME k < m PROVE FALSE
      OBVIOUS
    <3>1. m - k \in 1..Len(b) /\ k + (m - k) = m
      BY <1>1, <2>2
    <3>2. s[m] = b[m - k]
      BY <1>1, <3>1
    <3>. QED
      BY <1>5, <2>2, <3>1, <3>2 DEF Free
  <2>5. k \in Int /\ m \in Int
    BY <1>1, <2>2
  <2>. QED
    BY <2>3, <2>4, <2>5 DEF m
<1>. QED
  BY <1>1, <1>2, <1>3, <1>4, <1>5 DEF s

\* A delimiter that is nowhere in two texts is nowhere in what they make.
LEMMA FreeJoined ==
  ASSUME NEW a \in Seq(Bytes), NEW b \in Seq(Bytes), NEW c, NEW e \in Bytes, Free(a, c), Free(b, c), e # c
  PROVE  Free(a \o (<<e>> \o b), c)
<1> DEFINE s == a \o (<<e>> \o b)
<1> SUFFICES ASSUME NEW i \in 1..Len(s) PROVE s[i] # c
  BY DEF Free
<1>1. Len(s) = Len(a) + 1 + Len(b) /\ Len(a) \in Nat /\ Len(b) \in Nat
  OBVIOUS
<1>2. CASE i <= Len(a)
  <2>1. s[i] = a[i] /\ i \in 1..Len(a)
    BY <1>1, <1>2
  <2>. QED
    BY <2>1 DEF Free
<1>3. CASE i = Len(a) + 1
  <2>1. s[i] = e
    BY <1>3
  <2>. QED
    BY <2>1
<1>4. CASE i > Len(a) + 1
  <2>1. (i - Len(a)) - 1 \in 1..Len(b)
    BY <1>1, <1>4
  <2>2. s[i] = b[(i - Len(a)) - 1]
    BY <1>1, <1>4, <2>1
  <2>. QED
    BY <2>1, <2>2 DEF Free
<1>. QED
  BY <1>1, <1>2, <1>3, <1>4

\* strings.Cut at the first c.
LEMMA FirstCut ==
  ASSUME NEW s \in Seq(Bytes), NEW c
  PROVE  LET i == IndexByte(s, c)
         IN /\ Left(s, i) \in Seq(Bytes) /\ Right(s, i) \in Seq(Bytes) /\ Free(Left(s, i), c)
            /\ i = 0 => Left(s, i) = s /\ Right(s, i) = <<>>
            /\ i # 0 => i = Len(Left(s, i)) + 1 /\ s = Left(s, i) \o (<<c>> \o Right(s, i))
            /\ \A d : Free(s, d) => Free(Left(s, i), d) /\ Free(Right(s, i), d)
<1> DEFINE i == IndexByte(s, c)
<1>1. CASE i = 0
  <2>1. Free(s, c) /\ Left(s, i) = s /\ Right(s, i) = <<>>
    BY <1>1, IndexFound DEF Left, Right
  <2>2. <<>> \in Seq(Bytes) /\ \A d : Free(<<>>, d)
    BY DEF Free
  <2> HIDE DEF i
  <2>. QED
    BY <1>1, <2>1, <2>2 DEF i
<1>2. CASE i # 0
  <2>1. i \in 1..Len(s) /\ s[i] = c /\ \A j \in 1..(i - 1) : s[j] # c
    BY <1>2, IndexFound
  <2> HIDE DEF i
  <2>2. /\ Left(s, i) \in Seq(Bytes) /\ Right(s, i) \in Seq(Bytes)
        /\ Len(Left(s, i)) = i - 1 /\ Len(Right(s, i)) = Len(s) - i
        /\ \A j \in 1..(i - 1) : Left(s, i)[j] = s[j]
        /\ \A j \in 1..(Len(s) - i) : Right(s, i)[j] = s[i + j]
        /\ s = Left(s, i) \o (<<s[i]>> \o Right(s, i))
    BY <2>1, CutParts
  <2>3. Free(Left(s, i), c)
    BY <2>1, <2>2 DEF Free
  <2>4. ASSUME NEW d, Free(s, d) PROVE Free(Left(s, i), d) /\ Free(Right(s, i), d)
    <3>1. \A j \in 1..(i - 1) : j \in 1..Len(s)
      BY <2>1
    <3>2. \A j \in 1..(Len(s) - i) : i + j \in 1..Len(s)
      BY <2>1
    <3>. QED
      BY <2>2, <2>4, <3>1, <3>2 DEF Free
  <2>5. i = Len(Left(s, i)) + 1
    BY <2>1, <2>2
  <2>. QED
    BY <1>2, <2>1, <2>2, <2>3, <2>4, <2>5 DEF i
<1>. QED
  BY <1>1, <1>2

-----------------------------------------------------------------------------
(***************************************************************************)
(* References to the hub.                                                  *)
(***************************************************************************)
\* The name of an organisation or of a repository in it.
Clean(s) == s \in Seq(Bytes) /\ s # <<>> /\ Free(s, Slash) /\ Free(s, Sign) /\ Free(s, Hash)

RepoOf(o, n) == o \o (<<Slash>> \o n)

HFRef(repo, quant, revision, file) ==
  [registry |-> "hf", repo |-> repo, quant |-> quant, revision |-> revision, file |-> file]

LEMMA DelimitersAreBytes == Slash \in Bytes /\ Sign \in Bytes /\ Hash \in Bytes /\ Colon \in Bytes /\ Latest \in Bytes
BY DEF Bytes

\* What is known of org/name.
LEMMA RepoFacts ==
  ASSUME NEW o, NEW n, Clean(o), Clean(n)
  PROVE  /\ RepoOf(o, n) \in Seq(Bytes) /\ Len(RepoOf(o, n)) = Len(o) + 1 + Len(n)
         /\ Free(RepoOf(o, n), Sign) /\ Free(RepoOf(o, n), Hash)
         /\ OrgAndName(RepoOf(o, n)) /\ RepoOf(o, n) # <<>>
<1>1. /\ RepoOf(o, n) \in Seq(Bytes) /\ Len(RepoOf(o, n)) = Len(o) + 1 + Len(n)
  BY CutJoined, DelimitersAreBytes DEF Clean, RepoOf
<1>2. Free(RepoOf(o, n), Sign) /\ Free(RepoOf(o, n), Hash)
  BY FreeJoined, DelimitersAreBytes, DelimitersDiffer DEF Clean, RepoOf
<1>3. 1 \in 1..Len(o) /\ Len(n) \in 1..Len(n)
  BY DEF Clean
<1>4. RepoOf(o, n)[1] = o[1]
  BY <1>3, DelimitersAreBytes DEF Clean, RepoOf
<1>5. RepoOf(o, n)[Len(o) + 1 + Len(n)] = n[Len(n)]
  BY <1>3, DelimitersAreBytes DEF Clean, RepoOf
<1>6. Last(RepoOf(o, n)) = n[Len(n)]
  BY <1>1, <1>5 DEF Last
<1>7. OrgAndName(RepoOf(o, n))
  BY <1>3, <1>4, <1>6 DEF OrgAndName, Clean, Free
<1>8. RepoOf(o, n) # <<>>
  BY <1>1, <1>3 DEF Clean
<1>. QED
  BY <1>1, <1>2, <1>7, <1>8

\* And what org/name must be for both its parts to be there.
LEMMA BothNamed ==
  ASSUME NEW o \in Seq(Bytes), NEW n \in Seq(Bytes), OrgAndName(RepoOf(o, n))
  PROVE  o # <<>> /\ n # <<>>
<1>1. Len(RepoOf(o, n)) = Len(o) + 1 + Len(n) /\ RepoOf(o, n)[Len(o) + 1] = Slash
  BY CutJoined, DelimitersAreBytes DEF RepoOf
<1>2. ASSUME o = <<>> PROVE FALSE
  <2>1. Len(o) + 1 = 1
    BY <1>2
  <2>. QED
    BY <1>1, <2>1 DEF OrgAndName
<1>3. ASSUME n = <<>> PROVE FALSE
  <2>1. Len(RepoOf(o, n)) = Len(o) + 1
    BY <1>1, <1>3
  <2>. QED
    BY <1>1, <2>1 DEF OrgAndName, Last
<1>. QED
  BY <1>2, <1>3

\* parseHF in three steps: the '#', the '@', and the path before it.
ReadPath(path, quant, revision, file) ==
  LET org == IndexByte(path, Slash)
      name == IndexByte(Right(path, org), Slash)
      repo == Left(path, IF name = 0 THEN 0 ELSE org + name)
  IN IF org = 0 \/ (org # 0 /\ ~OrgAndName(repo)) THEN Refused
     ELSE HFRef(repo, quant, revision, IF file = <<>> /\ name # 0 THEN Right(path, org + name) ELSE file)

ReadBody(body, quant) ==
  LET sign == IndexByte(body, Sign)
      after == Right(body, sign)
      slash == IndexByte(after, Slash)
  IN ReadPath(Left(body, sign), quant, Left(after, slash), Right(after, slash))

LEMMA ReadInSteps ==
  ASSUME NEW all
  PROVE  parseHF(all) = ReadBody(Left(all, IndexByte(all, Hash)), Right(all, IndexByte(all, Hash)))
BY DEF parseHF, ReadBody, ReadPath, HFRef

PathOf(o, n, f) == RepoOf(o, n) \o (<<Slash>> \o f)

\* Where org/name/f is cut.
LEMMA PathCut ==
  ASSUME NEW o \in Seq(Bytes), NEW n \in Seq(Bytes), NEW f \in Seq(Bytes), Free(o, Slash), Free(n, Slash)
  PROVE  LET path == PathOf(o, n, f)
             org == Len(o) + 1
             name == Len(n) + 1
         IN /\ path = o \o (<<Slash>> \o (n \o (<<Slash>> \o f))) /\ path \in Seq(Bytes)
            /\ IndexByte(path, Slash) = org /\ IndexByte(Right(path, org), Slash) = name
            /\ Left(path, org + name) = RepoOf(o, n) /\ Right(path, org + name) = f
<1> DEFINE r == RepoOf(o, n)
           g == <<Slash>> \o f
           s == <<Slash>>
           path == r \o g
           tail == n \o g
           org == Len(o) + 1
           name == Len(n) + 1
<1>1. r \in Seq(Bytes) /\ Len(r) = Len(o) + 1 + Len(n) /\ g \in Seq(Bytes) /\ s \in Seq(Bytes)
  BY CutJoined, DelimitersAreBytes DEF RepoOf
<1>2. r = o \o (s \o n)
  BY DEF RepoOf
<1>3. path = o \o (s \o tail)
  <2> HIDE DEF r, g, s
  <2>1. path = o \o ((s \o n) \o g) /\ s \o n \in Seq(Bytes)
    BY <1>1, <1>2, ConcatAssociative, SMTT(40)
  <2>2. (s \o n) \o g = s \o (n \o g)
    <3>1. \A x, y, z \in Seq(Bytes) : (x \o y) \o z = x \o (y \o z)
      BY ConcatAssociative, SMTT(40)
    <3>. QED
      BY <1>1, <3>1, ZenonT(60)
  <2>. QED
    BY <2>1, <2>2
<1>4. tail \in Seq(Bytes) /\ IndexByte(tail, Slash) = name
  BY CutJoined, DelimitersAreBytes
<1>5. path \in Seq(Bytes) /\ IndexByte(path, Slash) = org /\ Right(path, org) = tail
  <2> HIDE DEF tail, path
  <2>. QED
    BY <1>3, <1>4, CutJoined, DelimitersAreBytes DEF s
<1>6. Left(path, Len(r) + 1) = r /\ Right(path, Len(r) + 1) = f
  <2> HIDE DEF r
  <2>. QED
    BY <1>1, CutJoined, DelimitersAreBytes
<1>7. Len(r) + 1 = org + name
  BY <1>1
<1>. QED
  <2> HIDE DEF r, path, tail, org, name
  <2>1. /\ path = o \o (s \o tail) /\ path \in Seq(Bytes)
        /\ IndexByte(path, Slash) = org /\ IndexByte(Right(path, org), Slash) = name
        /\ Left(path, org + name) = r /\ Right(path, org + name) = f
    BY <1>3, <1>4, <1>5, <1>6, <1>7
  <2>. QED
    BY <2>1 DEF r, path, tail, org, name, PathOf

\* A path that is a repository.
LEMMA ReadRepo ==
  ASSUME NEW o, NEW n, Clean(o), Clean(n), NEW quant, NEW revision, NEW file
  PROVE  ReadPath(RepoOf(o, n), quant, revision, file) = HFRef(RepoOf(o, n), quant, revision, file)
<1> DEFINE r == RepoOf(o, n)
           org == Len(o) + 1
<1>1. r \in Seq(Bytes) /\ IndexByte(r, Slash) = org /\ Right(r, org) = n /\ org # 0
  BY CutJoined, DelimitersAreBytes DEF RepoOf, Clean
<1>2. IndexByte(n, Slash) = 0 /\ Left(r, 0) = r
  BY NothingCut DEF Clean, Left
<1>3. OrgAndName(r)
  BY RepoFacts
<1> HIDE DEF r, org
<1>4. ReadPath(r, quant, revision, file) = HFRef(r, quant, revision, file)
  BY <1>1, <1>2, <1>3 DEF ReadPath
<1>. QED
  BY <1>4 DEF r

\* A path with a file in it.
LEMMA ReadRepoFile ==
  ASSUME NEW o, NEW n, Clean(o), Clean(n), NEW f \in Seq(Bytes), NEW quant, NEW revision, NEW file
  PROVE  ReadPath(PathOf(o, n, f), quant, revision, file)
           = HFRef(RepoOf(o, n), quant, revision, IF file = <<>> THEN f ELSE file)
<1> DEFINE path == PathOf(o, n, f)
           org == Len(o) + 1
           name == Len(n) + 1
<1>1. /\ IndexByte(path, Slash) = org /\ IndexByte(Right(path, org), Slash) = name
      /\ Left(path, org + name) = RepoOf(o, n) /\ Right(path, org + name) = f
  <2>1. o \in Seq(Bytes) /\ n \in Seq(Bytes) /\ Free(o, Slash) /\ Free(n, Slash)
    BY DEF Clean
  <2>. QED
    BY <2>1, PathCut
<1>2. OrgAndName(RepoOf(o, n)) /\ org # 0 /\ name # 0
  BY RepoFacts DEF Clean
<1> HIDE DEF path, org, name
<1>3. ReadPath(path, quant, revision, file) = HFRef(RepoOf(o, n), quant, revision, IF file = <<>> THEN f ELSE file)
  BY <1>1, <1>2 DEF ReadPath
<1>. QED
  BY <1>3 DEF path

\* And every path that is read is one of the two.
LEMMA PathShape ==
  ASSUME NEW path \in Seq(Bytes), Free(path, Sign), Free(path, Hash), NEW quant, NEW revision, NEW file,
         ReadPath(path, quant, revision, file) # Refused
  PROVE  \E o, n, f : /\ Clean(o) /\ Clean(n) /\ f \in Seq(Bytes) /\ Free(f, Sign) /\ Free(f, Hash)
                      /\ \/ path = RepoOf(o, n)
                         \/ path = PathOf(o, n, f)
<1> DEFINE org == IndexByte(path, Slash)
           o == Left(path, org)
           rest == Right(path, org)
           name == IndexByte(rest, Slash)
           n == Left(rest, name)
           f == Right(rest, name)
<1>1. org # 0
  BY DEF ReadPath
<1>2. /\ o \in Seq(Bytes) /\ rest \in Seq(Bytes) /\ Free(o, Slash) /\ path = o \o (<<Slash>> \o rest)
      /\ Free(o, Sign) /\ Free(o, Hash) /\ Free(rest, Sign) /\ Free(rest, Hash) /\ org = Len(o) + 1
  BY <1>1, FirstCut
<1>3. /\ n \in Seq(Bytes) /\ f \in Seq(Bytes) /\ Free(n, Slash)
      /\ Free(n, Sign) /\ Free(n, Hash) /\ Free(f, Sign) /\ Free(f, Hash)
      /\ name = 0 => n = rest
      /\ name # 0 => rest = n \o (<<Slash>> \o f) /\ name = Len(n) + 1
  <2> HIDE DEF rest
  <2>. QED
    BY <1>2, FirstCut
<1>4. OrgAndName(Left(path, IF name = 0 THEN 0 ELSE org + name))
  BY <1>1 DEF ReadPath
<1> HIDE DEF org, name, o, n, f, rest
<1>5. CASE name = 0
  <2>1. path = RepoOf(o, n) /\ Left(path, 0) = path
    BY <1>2, <1>3, <1>5 DEF RepoOf, Left
  <2>2. OrgAndName(RepoOf(o, n))
    BY <1>4, <1>5, <2>1
  <2>3. o # <<>> /\ n # <<>>
    BY <1>2, <1>3, <2>2, BothNamed
  <2>4. Clean(o) /\ Clean(n)
    BY <1>2, <1>3, <2>3 DEF Clean
  <2>. QED
    BY <1>3, <2>1, <2>4
<1>6. CASE name # 0
  <2>1. path = PathOf(o, n, f) /\ Left(path, org + name) = RepoOf(o, n)
    <3>1. path = o \o (<<Slash>> \o (n \o (<<Slash>> \o f)))
      BY <1>2, <1>3, <1>6
    <3>2. PathOf(o, n, f) = o \o (<<Slash>> \o (n \o (<<Slash>> \o f)))
      BY <1>2, <1>3, PathCut, ZenonT(60)
    <3>3. Left(PathOf(o, n, f), org + name) = RepoOf(o, n)
      <4>1. org = Len(o) + 1 /\ name = Len(n) + 1
        BY <1>2, <1>3, <1>6
      <4>2. Left(PathOf(o, n, f), (Len(o) + 1) + (Len(n) + 1)) = RepoOf(o, n)
        BY <1>2, <1>3, PathCut
      <4>. QED
        BY <4>1, <4>2
    <3>. QED
      BY <3>1, <3>2, <3>3
  <2>2. OrgAndName(RepoOf(o, n))
    BY <1>4, <1>6, <2>1
  <2>3. o # <<>> /\ n # <<>>
    BY <1>2, <1>3, <2>2, BothNamed
  <2>4. Clean(o) /\ Clean(n)
    BY <1>2, <1>3, <2>3 DEF Clean
  <2>. QED
    BY <1>3, <2>1, <2>4
<1>. QED
  BY <1>5, <1>6

\* What stands before and after the '@'.
LEMMA ReadUnrevised ==
  ASSUME NEW body \in Seq(Bytes), Free(body, Sign), NEW quant
  PROVE  ReadBody(body, quant) = ReadPath(body, quant, <<>>, <<>>)
<1>1. IndexByte(body, Sign) = 0 /\ Left(body, 0) = body /\ Right(body, 0) = <<>>
  BY NothingCut
<1>2. <<>> \in Seq(Bytes) /\ Free(<<>>, Slash)
  BY DEF Free
<1>3. IndexByte(<<>>, Slash) = 0 /\ Left(<<>>, 0) = <<>> /\ Right(<<>>, 0) = <<>>
  BY <1>2, NothingCut
<1>. QED
  BY <1>1, <1>3 DEF ReadBody

LEMMA ReadRevised ==
  ASSUME NEW path \in Seq(Bytes), NEW after \in Seq(Bytes), Free(path, Sign), NEW quant
  PROVE  ReadBody(path \o (<<Sign>> \o after), quant)
           = ReadPath(path, quant, Left(after, IndexByte(after, Slash)), Right(after, IndexByte(after, Slash)))
<1> DEFINE body == path \o (<<Sign>> \o after)
           k == Len(path) + 1
<1>1. IndexByte(body, Sign) = k /\ Left(body, k) = path /\ Right(body, k) = after
  BY CutJoined, DelimitersAreBytes
<1> HIDE DEF body, k
<1>2. ReadBody(body, quant)
        = ReadPath(path, quant, Left(after, IndexByte(after, Slash)), Right(after, IndexByte(after, Slash)))
  BY <1>1 DEF ReadBody
<1>. QED
  BY <1>2 DEF body

\* The parts of a reference to the hub.
HFParts(o, n, quant, revision, file) ==
  /\ Clean(o) /\ Clean(n) /\ quant \in Seq(Bytes) /\ revision \in Seq(Bytes) /\ file \in Seq(Bytes)
  /\ Free(revision, Slash) /\ Free(revision, Hash) /\ Free(file, Hash)

LEMMA PathParts ==
  ASSUME NEW path \in Seq(Bytes), Free(path, Sign), Free(path, Hash),
         NEW quant \in Seq(Bytes), NEW revision \in Seq(Bytes), NEW file \in Seq(Bytes),
         Free(revision, Slash), Free(revision, Hash), Free(file, Hash),
         ReadPath(path, quant, revision, file) # Refused
  PROVE  \E o, n, f : /\ HFParts(o, n, quant, revision, f)
                      /\ ReadPath(path, quant, revision, file) = HFRef(RepoOf(o, n), quant, revision, f)
<1>1. PICK o, n, f : /\ Clean(o) /\ Clean(n) /\ f \in Seq(Bytes) /\ Free(f, Sign) /\ Free(f, Hash)
                     /\ \/ path = RepoOf(o, n)
                        \/ path = PathOf(o, n, f)
  BY PathShape
<1>2. CASE path = RepoOf(o, n)
  <2>1. ReadPath(path, quant, revision, file) = HFRef(RepoOf(o, n), quant, revision, file)
    BY <1>1, <1>2, ReadRepo
  <2>2. HFParts(o, n, quant, revision, file)
    BY <1>1 DEF HFParts
  <2>. QED
    BY <2>1, <2>2
<1>3. CASE path = PathOf(o, n, f)
  <2> DEFINE g == IF file = <<>> THEN f ELSE file
  <2>1. ReadPath(path, quant, revision, file) = HFRef(RepoOf(o, n), quant, revision, g)
    BY <1>1, <1>3, ReadRepoFile
  <2>2. HFParts(o, n, quant, revision, g)
    BY <1>1 DEF HFParts
  <2> HIDE DEF g
  <2>. QED
    BY <2>1, <2>2
<1>. QED
  BY <1>1, <1>2, <1>3

LEMMA HFShape ==
  ASSUME NEW t \in Seq(Bytes), parseHF(t) # Refused
  PROVE  \E o, n, quant, revision, file :
           /\ HFParts(o, n, quant, revision, file)
           /\ parseHF(t) = HFRef(RepoOf(o, n), quant, revision, file)
<1> DEFINE hash == IndexByte(t, Hash)
           body == Left(t, hash)
           quant == Right(t, hash)
           sign == IndexByte(body, Sign)
           path == Left(body, sign)
           after == Right(body, sign)
           slash == IndexByte(after, Slash)
           revision == Left(after, slash)
           file == Right(after, slash)
<1>1. body \in Seq(Bytes) /\ quant \in Seq(Bytes) /\ Free(body, Hash)
  BY FirstCut
<1>2. /\ path \in Seq(Bytes) /\ after \in Seq(Bytes) /\ Free(path, Sign)
      /\ Free(path, Hash) /\ Free(after, Hash)
  <2> HIDE DEF body
  <2>. QED
    BY <1>1, FirstCut
<1>3. /\ revision \in Seq(Bytes) /\ file \in Seq(Bytes) /\ Free(revision, Slash)
      /\ Free(revision, Hash) /\ Free(file, Hash)
  <2> HIDE DEF after
  <2>. QED
    BY <1>2, FirstCut
<1>4. parseHF(t) = ReadPath(path, quant, revision, file)
  BY ReadInSteps DEF ReadBody
<1> HIDE DEF path, quant, revision, file
<1>5. \E o, n, f : /\ HFParts(o, n, quant, revision, f)
                   /\ ReadPath(path, quant, revision, file) = HFRef(RepoOf(o, n), quant, revision, f)
  BY <1>1, <1>2, <1>3, <1>4, PathParts
<1>. QED
  BY <1>4, <1>5

\* What String prints before the file or the quantisation.
Revised(repo, revision) == repo \o (IF revision # <<>> THEN <<Sign>> \o revision ELSE <<>>)

LEMMA ReadBackRevised ==
  ASSUME NEW o, NEW n, NEW quant, NEW revision, NEW file, HFParts(o, n, quant, revision, file), NEW q
  PROVE  LET body == Revised(RepoOf(o, n), revision)
         IN /\ body \in Seq(Bytes) /\ Free(body, Hash)
            /\ ReadBody(body, q) = HFRef(RepoOf(o, n), q, revision, <<>>)
<1> DEFINE r == RepoOf(o, n)
           body == Revised(r, revision)
<1>0. Clean(o) /\ Clean(n) /\ revision \in Seq(Bytes) /\ Free(revision, Slash) /\ Free(revision, Hash)
  BY DEF HFParts
<1>1. r \in Seq(Bytes) /\ Free(r, Sign) /\ Free(r, Hash)
  BY <1>0, RepoFacts
<1>2. \A v, f : ReadPath(r, q, v, f) = HFRef(r, q, v, f)
  BY <1>0, ReadRepo
<1> HIDE DEF r
<1>3. CASE revision = <<>>
  <2>1. body = r
    BY <1>1, <1>3 DEF Revised
  <2>2. ReadBody(r, q) = HFRef(r, q, <<>>, <<>>)
    BY <1>1, <1>2, ReadUnrevised
  <2>. QED
    BY <1>1, <1>3, <2>1, <2>2 DEF r
<1>4. CASE revision # <<>>
  <2>1. body = r \o (<<Sign>> \o revision)
    BY <1>4 DEF Revised
  <2>2. body \in Seq(Bytes) /\ Free(body, Hash)
    BY <1>0, <1>1, <2>1, FreeJoined, DelimitersAreBytes, DelimitersDiffer, CutJoined
  <2>3. IndexByte(revision, Slash) = 0 /\ Left(revision, 0) = revision /\ Right(revision, 0) = <<>>
    BY <1>0, NothingCut
  <2>4. ReadBody(body, q) = ReadPath(r, q, revision, <<>>)
    BY <1>0, <1>1, <2>1, <2>3, ReadRevised
  <2>. QED
    BY <1>2, <2>2, <2>4 DEF r
<1>. QED
  BY <1>3, <1>4

\* Read back, without a file.
LEMMA ReadBackQuant ==
  ASSUME NEW o, NEW n, NEW quant, NEW revision, NEW file, HFParts(o, n, quant, revision, file), file = <<>>
  PROVE  parseHF(String(HFRef(RepoOf(o, n), quant, revision, file))) = HFRef(RepoOf(o, n), quant, revision, file)
<1> DEFINE r == RepoOf(o, n)
           body == Revised(r, revision)
           t == String(HFRef(r, quant, revision, file))
<1>0. quant \in Seq(Bytes)
  BY DEF HFParts
<1>1. body \in Seq(Bytes) /\ Free(body, Hash) /\ \A q : ReadBody(body, q) = HFRef(r, q, revision, <<>>)
  BY ReadBackRevised
<1>2. t = body \o (IF quant # <<>> THEN <<Hash>> \o quant ELSE <<>>)
  BY DEF String, HFRef, Revised
<1> HIDE DEF r, body, t
<1>3. CASE quant = <<>>
  <2>1. t = body
    BY <1>1, <1>2, <1>3
  <2>2. IndexByte(t, Hash) = 0 /\ Left(t, 0) = t /\ Right(t, 0) = <<>>
    BY <1>1, <2>1, NothingCut
  <2>. QED
    BY <1>1, <1>3, <2>1, <2>2, ReadInSteps DEF t, r
<1>4. CASE quant # <<>>
  <2>1. t = body \o (<<Hash>> \o quant)
    BY <1>2, <1>4
  <2>2. LET k == Len(body) + 1 IN IndexByte(t, Hash) = k /\ Left(t, k) = body /\ Right(t, k) = quant
    BY <1>0, <1>1, <2>1, CutJoined, DelimitersAreBytes
  <2>3. parseHF(t) = ReadBody(body, quant)
    BY <2>2, ReadInSteps
  <2>. QED
    BY <1>1, <2>3 DEF t, r
<1>. QED
  BY <1>3, <1>4

\* Read back, with a file.
LEMMA ReadBackFile ==
  ASSUME NEW o, NEW n, NEW quant, NEW revision, NEW file, HFParts(o, n, quant, revision, file),
         file # <<>>, revision = <<>> => Free(file, Sign)
  PROVE  parseHF(String(HFRef(RepoOf(o, n), quant, revision, file))) = HFRef(RepoOf(o, n), <<>>, revision, file)
<1> DEFINE r == RepoOf(o, n)
           g == <<Slash>> \o file
           t == String(HFRef(r, quant, revision, file))
<1>0. /\ Clean(o) /\ Clean(n) /\ revision \in Seq(Bytes) /\ file \in Seq(Bytes)
      /\ Free(revision, Slash) /\ Free(revision, Hash) /\ Free(file, Hash)
  BY DEF HFParts
<1>1. r \in Seq(Bytes) /\ Free(r, Sign) /\ Free(r, Hash)
  BY <1>0, RepoFacts
<1>2. t = Revised(r, revision) \o g
  BY DEF String, HFRef, Revised
<1>3. parseHF(t) = ReadBody(t, <<>>)
  <2>1. Revised(r, revision) \in Seq(Bytes) /\ Free(Revised(r, revision), Hash)
    BY ReadBackRevised
  <2> HIDE DEF r
  <2>2. t \in Seq(Bytes) /\ Free(t, Hash)
    BY <1>0, <1>2, <2>1, FreeJoined, CutJoined, DelimitersAreBytes, DelimitersDiffer
  <2> HIDE DEF t
  <2>3. IndexByte(t, Hash) = 0 /\ Left(t, 0) = t /\ Right(t, 0) = <<>>
    BY <2>2, NothingCut
  <2>. QED
    BY <2>3, ReadInSteps
<1>4. CASE revision = <<>>
  <2>1. t = r \o g
    BY <1>1, <1>2, <1>4 DEF Revised
  <2>2. t \in Seq(Bytes) /\ Free(t, Sign)
    <3> HIDE DEF r, t
    <3>. QED
      BY <1>0, <1>1, <1>4, <2>1, FreeJoined, CutJoined, DelimitersAreBytes, DelimitersDiffer
  <2>3. ReadBody(t, <<>>) = ReadPath(t, <<>>, <<>>, <<>>)
    <3> HIDE DEF t
    <3>. QED
      BY <2>2, ReadUnrevised
  <2>4. ReadPath(r \o g, <<>>, <<>>, <<>>) = HFRef(r, <<>>, <<>>, file)
    BY <1>0, ReadRepoFile DEF PathOf
  <2> HIDE DEF t, r, g
  <2>5. parseHF(t) = HFRef(r, <<>>, revision, file)
    BY <1>3, <1>4, <2>1, <2>3, <2>4
  <2>. QED
    BY <2>5 DEF t, r
<1>5. CASE revision # <<>>
  <2> DEFINE after == revision \o g
             s == <<Sign>>
  <2>1. t = (r \o (s \o revision)) \o g
    BY <1>2, <1>5 DEF Revised
  <2>2. g \in Seq(Bytes) /\ s \in Seq(Bytes) /\ after \in Seq(Bytes)
    BY <1>0, DelimitersAreBytes
  <2>3. t = r \o (s \o after)
    <3> HIDE DEF t, r, g, s
    <3>1. \A x, y, z \in Seq(Bytes) : (x \o y) \o z = x \o (y \o z)
      BY ConcatAssociative
    <3>2. s \o revision \in Seq(Bytes)
      BY <1>0, <2>2
    <3>3. (r \o (s \o revision)) \o g = r \o ((s \o revision) \o g)
      BY <1>1, <2>2, <3>1, <3>2
    <3>4. (s \o revision) \o g = s \o (revision \o g)
      BY <1>0, <2>2, <3>1
    <3>. QED
      BY <2>1, <3>3, <3>4
  <2>4. LET k == Len(revision) + 1 IN IndexByte(after, Slash) = k /\ Left(after, k) = revision /\ Right(after, k) = file
    BY <1>0, CutJoined, DelimitersAreBytes
  <2>5. ReadBody(t, <<>>) = ReadPath(r, <<>>, revision, file)
    <3> HIDE DEF t, r, after
    <3>. QED
      BY <1>1, <2>2, <2>3, <2>4, ReadRevised
  <2>6. ReadPath(r, <<>>, revision, file) = HFRef(r, <<>>, revision, file)
    BY <1>0, ReadRepo
  <2> HIDE DEF t, r
  <2>7. parseHF(t) = HFRef(r, <<>>, revision, file)
    BY <1>3, <2>5, <2>6
  <2>. QED
    BY <2>7 DEF t, r
<1>. QED
  BY <1>4, <1>5

\* The resolver's test of org/name.
LEMMA OneSlash ==
  ASSUME NEW o, NEW n, Clean(o), Clean(n)
  PROVE  validRepo(RepoOf(o, n)) <=> Dots \notin ToSet(RepoOf(o, n))
<1> DEFINE r == RepoOf(o, n)
           I == {i \in DOMAIN r : r[i] = Slash}
           k == Len(o) + 1
<1>1. /\ r \in Seq(Bytes) /\ Len(r) = Len(o) + 1 + Len(n) /\ r # <<>> /\ r[1] # Slash
  BY RepoFacts DEF OrgAndName
<1>2. r[k] = Slash /\ k \in 1..Len(r)
  BY <1>1, CutJoined, DelimitersAreBytes DEF RepoOf, Clean
<1>3. ASSUME NEW i \in 1..Len(r), i # k PROVE r[i] # Slash
  <2>1. CASE i < k
    <3>1. i \in 1..Len(o) /\ r[i] = o[i]
      BY <1>1, <2>1, DelimitersAreBytes DEF RepoOf, Clean
    <3>. QED
      BY <3>1 DEF Clean, Free
  <2>2. CASE i > k
    <3>1. (i - Len(o)) - 1 \in 1..Len(n)
      BY <1>1, <2>2 DEF Clean
    <3>2. r[i] = n[(i - Len(o)) - 1]
      BY <1>1, <2>2, <3>1, DelimitersAreBytes DEF RepoOf, Clean
    <3>. QED
      BY <3>1, <3>2 DEF Clean, Free
  <2>3. i < k \/ i > k
    BY <1>3 DEF Clean
  <2>. QED
    BY <2>1, <2>2, <2>3
<1> HIDE DEF r
<1>4. I = {k}
  BY <1>1, <1>2, <1>3
<1>5. Cardinality(I) = 1
  <2> HIDE DEF k
  <2>. QED
    BY <1>4, FS_Singleton
<1>6. validRepo(r) <=> Dots \notin ToSet(r)
  BY <1>1, <1>5 DEF validRepo
<1>. QED
  BY <1>6 DEF r

\* A delimiter that is not among the bytes of a text.
LEMMA FreeIsNotAmong ==
  ASSUME NEW s \in Seq(Bytes), NEW c
  PROVE  Free(s, c) <=> c \notin ToSet(s)
BY DEF Free, ToSet

\* A reference to the hub, written and read back.
LEMMA HFReadsBack ==
  ASSUME NEW t \in Seq(Bytes), parseHF(t) # Refused
  PROVE  /\ ~Ambiguous(parseHF(t)) => Means(parseHF(String(parseHF(t)))) = Means(parseHF(t))
         /\ validRepo(parseHF(t).repo) <=> Dots \notin ToSet(parseHF(t).repo)
<1>1. PICK o, n, quant, revision, file :
        /\ HFParts(o, n, quant, revision, file)
        /\ parseHF(t) = HFRef(RepoOf(o, n), quant, revision, file)
  BY HFShape
<1> DEFINE r == HFRef(RepoOf(o, n), quant, revision, file)
<1>2. validRepo(r.repo) <=> Dots \notin ToSet(r.repo)
  BY <1>1, OneSlash DEF HFParts, HFRef
<1>3. ASSUME ~Ambiguous(r) PROVE Means(parseHF(String(r))) = Means(r)
  <2>1. CASE file = <<>>
    <3>1. parseHF(String(r)) = r
      BY <1>1, <2>1, ReadBackQuant
    <3>. QED
      BY <3>1
  <2>2. CASE file # <<>>
    <3>1. revision = <<>> => Free(file, Sign)
      BY <1>1, <1>3, FreeIsNotAmong DEF Ambiguous, HFRef, HFParts
    <3>2. parseHF(String(r)) = HFRef(RepoOf(o, n), <<>>, revision, file)
      BY <1>1, <2>2, <3>1, ReadBackFile
    <3>3. Means(HFRef(RepoOf(o, n), <<>>, revision, file)) = Means(r)
      BY <2>2 DEF Means, HFRef
    <3> HIDE DEF r
    <3>. QED
      BY <3>2, <3>3
  <2>. QED
    BY <2>1, <2>2
<1>. QED
  BY <1>1, <1>2, <1>3

-----------------------------------------------------------------------------
(***************************************************************************)
(* References to Ollama.                                                   *)
(***************************************************************************)
OllamaRef(repo, revision) ==
  [registry |-> "ollama", repo |-> repo, revision |-> revision, quant |-> <<>>, file |-> <<>>]

\* A name with a tag, and one without.
LEMMA ReadTagged ==
  ASSUME NEW a \in Seq(Bytes), NEW b \in Seq(Bytes), a # <<>>, Free(b, Colon)
  PROVE  parseOllama(a \o (<<Colon>> \o b)) = OllamaRef(a, b)
<1> DEFINE t == a \o (<<Colon>> \o b)
           k == Len(a) + 1
<1>1. LastIndexByte(t, Colon) = k /\ Left(t, k) = a /\ Right(t, k) = b /\ k # 0
  BY CutJoined, DelimitersAreBytes
<1> HIDE DEF t, k
<1>2. parseOllama(t) = OllamaRef(a, b)
  BY <1>1 DEF parseOllama, Refused, OllamaRef
<1>. QED
  BY <1>2 DEF t

LEMMA ReadUntagged ==
  ASSUME NEW a \in Seq(Bytes), a # <<>>, Free(a, Colon)
  PROVE  parseOllama(a) = OllamaRef(a, <<Latest>>)
<1>1. LastIndexByte(a, Colon) = 0 /\ Left(a, 0) = a
  BY NothingCut
<1>. QED
  BY <1>1 DEF parseOllama, Refused, OllamaRef

LEMMA OllamaReadsBack ==
  ASSUME NEW t \in Seq(Bytes), parseOllama(t) # Refused, ~Ambiguous(parseOllama(t))
  PROVE  Means(parseOllama(String(parseOllama(t)))) = Means(parseOllama(t))
<1> DEFINE k == LastIndexByte(t, Colon)
           a == Left(t, k)
           b == Right(t, k)
<1>1. a # <<>>
  BY DEF parseOllama
<1>2. CASE k = 0
  <2>1. a = t /\ Free(t, Colon)
    BY <1>2, LastIndexFound DEF Left
  <2>2. parseOllama(t) = OllamaRef(t, <<Latest>>)
    BY <1>1, <2>1, ReadUntagged
  <2>3. String(OllamaRef(t, <<Latest>>)) = t \o (<<Colon>> \o <<Latest>>)
    BY DEF String, OllamaRef
  <2>4. <<Latest>> \in Seq(Bytes) /\ Free(<<Latest>>, Colon)
    BY DelimitersAreBytes, DelimitersDiffer DEF Free
  <2>5. parseOllama(t \o (<<Colon>> \o <<Latest>>)) = OllamaRef(t, <<Latest>>)
    <3> DEFINE l == <<Latest>>
    <3>1. l \in Seq(Bytes) /\ Free(l, Colon)
      BY <2>4
    <3> HIDE DEF l
    <3>2. parseOllama(t \o (<<Colon>> \o l)) = OllamaRef(t, l)
      BY <1>1, <2>1, <3>1, ReadTagged
    <3>. QED
      BY <3>2 DEF l
  <2>. QED
    BY <2>2, <2>3, <2>5
<1>3. CASE k # 0
  <2>1. k \in 1..Len(t) /\ t[k] = Colon /\ \A j \in (k + 1)..Len(t) : t[j] # Colon
    BY <1>3, LastIndexFound
  <2> HIDE DEF k
  <2>2. /\ a \in Seq(Bytes) /\ b \in Seq(Bytes) /\ Len(b) = Len(t) - k
        /\ \A j \in 1..(Len(t) - k) : b[j] = t[k + j]
        /\ t = a \o (<<Colon>> \o b)
    BY <2>1, CutParts
  <2>3. \A j \in 1..Len(b) : k + j \in (k + 1)..Len(t)
    BY <2>1, <2>2
  <2>4. Free(b, Colon)
    BY <2>1, <2>2, <2>3 DEF Free
  <2> HIDE DEF a, b
  <2>5. parseOllama(t) = OllamaRef(a, b)
    BY <1>1, <2>2, <2>4, ReadTagged
  <2>6. CASE b # <<>>
    <3>1. String(OllamaRef(a, b)) = t
      BY <2>2, <2>6 DEF String, OllamaRef
    <3>. QED
      BY <2>5, <3>1
  <2>7. CASE b = <<>>
    <3>1. String(OllamaRef(a, b)) = a
      BY <2>2, <2>7 DEF String, OllamaRef
    <3>2. Free(a, Colon)
      BY <2>2, <2>5, <2>7, FreeIsNotAmong DEF Ambiguous, OllamaRef
    <3>3. parseOllama(a) = OllamaRef(a, <<Latest>>)
      BY <1>1, <2>2, <3>2, ReadUntagged
    <3>. QED
      BY <2>5, <2>7, <3>1, <3>3 DEF Means, OllamaRef
  <2>. QED
    BY <2>6, <2>7
<1>. QED
  BY <1>2, <1>3

-----------------------------------------------------------------------------
(***************************************************************************)
(* The specification.                                                      *)
(***************************************************************************)
\* A text is a text.
RefTyped == scheme \in {"hf", "ollama", "other"} /\ text \in Seq(Bytes)

LEMMA RefTypedInvariant == RefSpec => []RefTyped
<1>1. RefInit => RefTyped
  BY DEF RefInit, RefTyped
<1>2. RefTyped /\ [TypeWord]_refVars => RefTyped'
  <2> SUFFICES ASSUME RefTyped, [TypeWord]_refVars PROVE RefTyped'
    OBVIOUS
  <2>1. CASE TypeWord
    <3>1. PICK c \in Words \cup Delimiters[scheme] : text' = Append(text, c)
      BY <2>1 DEF TypeWord
    <3>2. Delimiters[scheme] \subseteq {Slash, Sign, Hash, Colon}
      BY DEF Delimiters, RefTyped
    <3>3. c \in Bytes
      BY <3>1, <3>2 DEF Bytes
    <3>. QED
      BY <2>1, <3>1, <3>3 DEF TypeWord, RefTyped
  <2>2. CASE UNCHANGED refVars
    BY <2>2 DEF refVars, RefTyped
  <2>. QED
    BY <2>1, <2>2
<1>. QED
  BY <1>1, <1>2, PTL DEF RefSpec

\* The text String prints of any reference ParseRef accepts reads back as that
\* reference, unless it is one of the two ambiguous ones, and the hub's resolver
\* accepts the repository it names unless two dots are in it.  For every text
\* over any words, delimiters in the words included.
THEOREM WrittenReadsBackAlways == RefSpec => []WrittenReadsBack
<1>1. RefTyped => WrittenReadsBack
  <2> SUFFICES ASSUME RefTyped, Parsed # Refused
               PROVE  /\ ~Ambiguous(Parsed) => Means(Again) = Means(Parsed)
                      /\ scheme = "hf" => (validRepo(Parsed.repo) <=> Dots \notin ToSet(Parsed.repo))
    BY DEF WrittenReadsBack
  <2>1. CASE scheme = "hf"
    BY <2>1, HFReadsBack DEF RefTyped, Parsed, Again, ParseRef
  <2>2. CASE scheme = "ollama"
    BY <2>2, OllamaReadsBack DEF RefTyped, Parsed, Again, ParseRef
  <2>3. CASE scheme = "other"
    BY <2>3 DEF Parsed, ParseRef
  <2>. QED
    BY <2>1, <2>2, <2>3 DEF RefTyped
<1>. QED
  BY <1>1, RefTypedInvariant, PTL
=============================================================================
