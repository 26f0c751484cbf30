------------------------------ MODULE WireText ------------------------------
(***************************************************************************)
(* The strings and numbers of the generated codec, byte by byte: what esc  *)
(* and num write and what str and integer read.  An input grows by one     *)
(* piece at a time: raw bytes and \uXXXX escapes inside a string, or the   *)
(* characters of a number.  Numbers keep the code's arithmetic at a width  *)
(* of Width bits (64 in the code).                                         *)
(***************************************************************************)
EXTENDS Integers, Sequences, SequencesExt, FiniteSets, Positions

CONSTANTS Width,        \* of the integer type, 64 in the code
          RawBytes,     \* bytes written as they are
          Units,        \* UTF-16 code units written as \uXXXX
          Characters,   \* the characters of numbers
          MaxPieces, MaxCharacters   \* bounds: length of an input

VARIABLES mode, input
textVars == <<mode, input>>

Bytes == 0..255
MaxUnit == 65535
CodeUnits == 0..MaxUnit

\* What the constants stand for: bytes and UTF-16 units, and an integer type that
\* holds the number ten.
Sized == /\ Width \in Nat /\ Width > 4
         /\ RawBytes \subseteq Bytes /\ Units \subseteq CodeUnits /\ Characters \subseteq Bytes
ASSUME SizedAssumption == Sized

Reject(word) == [word |-> word, value |-> <<>>, pos |-> 0]
ReadTo(v, p) == [word |-> "nil", value |-> v, pos |-> p]
At(b, p) == IF p \in 1..Len(b) THEN b[p] ELSE 0

Quote == 34
Backslash == 92
LetterU == 117
Minus == 45
IsDigit(c) == c \in 48..57

-----------------------------------------------------------------------------
(***************************************************************************)
(* Numbers.                                                                *)
(***************************************************************************)
Power[n \in 0..Width] == IF n = 0 THEN 1 ELSE 2 * Power[n - 1]     \* of 2
MaxInt == Power[Width - 1] - 1
MinInt == -Power[Width - 1]

\* u before each turn of num's loop, which divides it until it is 0.
Quotients(u) == LET q[n \in 0..Width] == IF n = 0 THEN u ELSE q[n - 1] \div 10 IN q

Decimal(u) ==
  LET q == Quotients(u)
      size == CHOOSE n \in 1..Width : q[n - 1] # 0 /\ q[n] = 0
  IN [i \in 1..size |-> 48 + (q[size - i] % 10)]

num(n) == CASE n = 0 -> <<48>> [] n > 0 -> Decimal(n) [] n < 0 -> <<Minus>> \o Decimal(-n)

\* Mutant: the product is not guarded against overflow.
TooLargeNever(u) == FALSE

\* One more digit would leave the unsigned type.
TooLarge(u) == u > MaxInt \div 10

addDigit(u, d) == ((u * 10) + (d - 48)) % Power[Width]

\* u after each digit from p on.
Totals(b, p) ==
  LET u[n \in 0..Len(b)] == IF n = 0 THEN 0 ELSE addDigit(u[n - 1], At(b, p + n - 1)) IN u

Digits(b, p) ==
  LET u == Totals(b, p)
      size == Min({n \in 0..Len(b) : ~IsDigit(At(b, p + n))})
  IN IF \E n \in 0..(size - 1) : TooLarge(u[n]) THEN Reject("number_spelling")
     ELSE ReadTo(u[size], p + size)

integer(b, min, max) ==
  LET neg == At(b, 1) = Minus
      p == IF neg THEN 2 ELSE 1
      d == At(b, p)
      r == IF d = 48 THEN ReadTo(0, p + 1) ELSE Digits(b, p)
      n == IF neg THEN -r.value ELSE r.value
  IN CASE ~neg /\ ~IsDigit(d) -> Reject("wrong_type")
       [] neg /\ ~IsDigit(d) -> Reject("malformed")
       [] IsDigit(d) /\ \/ r.word # "nil"
                        \/ At(b, r.pos) \in {46, 69, 101} \cup 48..57
                        \/ neg /\ n = 0
                        \/ n > MaxInt \/ n < MinInt
                        \/ n < min \/ n > max -> Reject("number_spelling")
       [] OTHER -> ReadTo(n, r.pos)

-----------------------------------------------------------------------------
(***************************************************************************)
(* Strings.                                                                *)
(***************************************************************************)
Hex(n) == IF n < 10 THEN 48 + n ELSE 87 + n

\* Mutant: control bytes are written as they are.
escByteControl(c) ==
  IF c \in {Quote, Backslash} THEN <<Backslash, c>> ELSE <<c>>

escByte(c) ==
  CASE c \in {Quote, Backslash} -> <<Backslash, c>>
    [] c = 8 -> <<Backslash, 98>>
    [] c = 12 -> <<Backslash, 102>>
    [] c = 10 -> <<Backslash, 110>>
    [] c = 13 -> <<Backslash, 114>>
    [] c = 9 -> <<Backslash, 116>>
    [] c \in 0..31 \ {8, 9, 10, 12, 13} -> <<Backslash, LetterU, 48, 48, Hex(c \div 16), Hex(c % 16)>>
    [] OTHER -> <<c>>

\* The texts of t one after the other.
Concat(t) == Joined(t)[Len(t)]

esc(s) == <<Quote>> \o (Concat([i \in 1..Len(s) |-> escByte(s[i])]) \o <<Quote>>)

HexValue(c) == CASE c \in 48..57 -> c - 48 [] c \in 97..102 -> c - 87 [] c \in 65..70 -> c - 55 [] OTHER -> -1

hex4(b, p) ==
  IF p + 3 > Len(b) \/ \E i \in 0..3 : HexValue(At(b, p + i)) = -1 THEN Reject("bad_string")
  ELSE ReadTo((HexValue(b[p]) * 4096) + (HexValue(b[p + 1]) * 256) + (HexValue(b[p + 2]) * 16)
                + HexValue(b[p + 3]), p + 4)

appendRune(cp) ==
  LET tail(x) == 128 + (x % 64)
  IN CASE cp < 128 -> <<cp>>
       [] cp >= 128 /\ cp < 2048 -> <<192 + (cp \div 64), tail(cp)>>
       [] cp >= 2048 /\ cp < 65536 -> <<224 + (cp \div 4096), tail(cp \div 64), tail(cp)>>
       [] OTHER -> <<240 + (cp \div 262144), tail(cp \div 4096), tail(cp \div 64), tail(cp)>>

High == 55296..56319    \* 0xD800..0xDBFF
Low == 56320..57343     \* 0xDC00..0xDFFF

\* Mutant: what follows a high surrogate is taken for the low one.
secondUnchecked(u) == TRUE

\* The second unit of a pair must be a low surrogate.
second(u) == u \in Low

\* The character a pair of surrogates stands for.
combine(hi, lo) == 65536 + ((hi - 55296) * 1024) + (lo - 56320)

Short == [c \in {34, 92, 47, 98, 102, 110, 114, 116} |->
            CASE c = 98 -> 8 [] c = 102 -> 12 [] c = 110 -> 10 [] c = 114 -> 13 [] c = 116 -> 9 [] OTHER -> c]

escape(b, p) ==
  LET c == At(b, p + 1)
      u == hex4(b, p + 2)
      lo == hex4(b, u.pos + 2)
      paired == u.pos + 1 <= Len(b) /\ b[u.pos] = Backslash /\ b[u.pos + 1] = LetterU
  IN CASE p + 1 > Len(b) -> Reject("malformed")
       [] c \in DOMAIN Short -> ReadTo(<<Short[c]>>, p + 2)
       [] p + 1 <= Len(b) /\ c \notin DOMAIN Short /\ c # LetterU -> Reject("bad_string")
       [] c = LetterU /\ (u.word # "nil" \/ u.value \in Low) -> Reject("bad_string")
       [] c = LetterU /\ u.word = "nil" /\ u.value \notin High \cup Low -> ReadTo(appendRune(u.value), u.pos)
       [] OTHER -> IF ~paired \/ lo.word # "nil" \/ ~second(lo.value) THEN Reject("bad_string")
                   ELSE ReadTo(appendRune(combine(u.value, lo.value)), lo.pos)

runeAllowed(cp, n) == cp >= <<0, 128, 2048, 65536>>[n] /\ cp <= 1114111 /\ cp \notin High \cup Low

\* How many bytes the character takes that c starts, 0 if c starts none.
runeSize(c) == CASE c < 128 -> 1 [] c \div 32 = 6 -> 2 [] c \div 16 = 14 -> 3 [] c \div 8 = 30 -> 4 [] OTHER -> 0

runePoint(b, i, n) ==
  LET low(k) == b[i + k] % 64
  IN CASE n = 1 -> b[i]
       [] n = 2 -> ((b[i] % 32) * 64) + low(1)
       [] n = 3 -> ((b[i] % 16) * 4096) + (low(1) * 64) + low(2)
       [] n = 4 -> ((b[i] % 8) * 262144) + (low(1) * 4096) + (low(2) * 64) + low(3)

runeAt(b, i) ==
  LET n == runeSize(b[i])
  IN /\ n # 0 /\ i + n - 1 <= Len(b)
     /\ \A k \in 1..(n - 1) : b[i + k] \div 64 = 2
     /\ runeAllowed(runePoint(b, i, n), n)

\* The positions validUTF8's loop reaches; it stays where no character is.
nextRune(b, i) == IF i <= Len(b) /\ runeAt(b, i) THEN i + runeSize(b[i]) ELSE i
Runes(b) == LET at[n \in 0..Len(b)] == IF n = 0 THEN 1 ELSE nextRune(b, at[n - 1]) IN at

validUTF8(b) == Runes(b)[Len(b)] > Len(b)

\* What an escape e adds to what was read before, unless it is refused.
extend(r, e) == IF e.word # "nil" THEN e ELSE ReadTo(r.value \o e.value, e.pos)

\* One turn of str's loop, after r.value was read and r.pos reached.
strTurn(b, r) ==
  LET c == At(b, r.pos)
  IN CASE r.word # "nil" \/ c = Quote -> r
       [] r.word = "nil" /\ r.pos > Len(b) -> Reject("malformed")
       [] r.word = "nil" /\ r.pos <= Len(b) /\ c < 32 -> Reject("bad_string")
       [] r.word = "nil" /\ c >= 32 /\ c \notin {Quote, Backslash} -> ReadTo(Append(r.value, c), r.pos + 1)
       [] OTHER -> extend(r, escape(b, r.pos))

\* Every turn moves on by a byte, so Len(b) of them are enough.
StrTurns(b) == LET r[n \in 0..Len(b)] == IF n = 0 THEN ReadTo(<<>>, 2) ELSE strTurn(b, r[n - 1]) IN r

\* The end of the loop, at the closing quote or at a refusal.
ended(r) ==
  IF r.word # "nil" THEN r
  ELSE IF validUTF8(r.value) THEN ReadTo(r.value, r.pos + 1) ELSE Reject("bad_string")

str(b) == IF At(b, 1) # Quote THEN Reject("wrong_type") ELSE ended(StrTurns(b)[Len(b)])

-----------------------------------------------------------------------------
(***************************************************************************)
(* Inputs.  A piece of a string is a raw byte [raw |-> c] or an escaped    *)
(* UTF-16 unit [unit |-> u].                                               *)
(***************************************************************************)
Pieces == [raw : RawBytes] \cup [unit : Units]
IsRaw(x) == "raw" \in DOMAIN x
UnitText(u) == <<Backslash, LetterU, Hex(u \div 4096), Hex((u \div 256) % 16), Hex((u \div 16) % 16), Hex(u % 16)>>
PieceText(x) == IF IsRaw(x) THEN <<x.raw>> ELSE UnitText(x.unit)
Body == Concat([i \in DOMAIN input |-> PieceText(input[i])])
Plain == mode = "string" /\ \A i \in DOMAIN input : IsRaw(input[i])

TextInit == mode \in {"string", "number"} /\ input = <<>>

TypePiece ==
  /\ \/ mode = "string" /\ Len(input) < MaxPieces /\ \E x \in Pieces : input' = Append(input, x)
     \/ mode = "number" /\ Len(input) < MaxCharacters /\ \E c \in Characters : input' = Append(input, c)
  /\ UNCHANGED mode

TextSpec == TextInit /\ [][TypePiece]_textVars

-----------------------------------------------------------------------------
(***************************************************************************)
(* References: the well-formed byte sequences of Unicode, by ranges, and   *)
(* the characters a sequence of UTF-16 units stands for.                   *)
(***************************************************************************)
Ranges == { <<0..127>>, <<194..223, 128..191>>, <<{224}, 160..191, 128..191>>,
            <<(225..236) \cup {238, 239}, 128..191, 128..191>>, <<{237}, 128..159, 128..191>>,
            <<{240}, 144..191, 128..191, 128..191>>, <<241..243, 128..191, 128..191, 128..191>>,
            <<{244}, 128..143, 128..191, 128..191>> }

Continuation == 128..191
FitsAt(b, i, r) == i + Len(r) - 1 <= Len(b) /\ \A k \in 1..Len(r) : b[i + k - 1] \in r[k]

\* The first byte starts a character, every byte that is no continuation starts
\* one of the table, and the next character follows it.
WellFormed(b) ==
  /\ b # <<>> => b[1] \notin Continuation
  /\ \A i \in 1..Len(b) : b[i] \notin Continuation =>
       \E r \in Ranges : /\ FitsAt(b, i, r)
                         /\ i + Len(r) <= Len(b) => b[i + Len(r)] \notin Continuation

UnitAt(i) == i \in DOMAIN input /\ ~IsRaw(input[i])
IsHigh(i) == UnitAt(i) /\ input[i].unit \in High
IsLow(i) == UnitAt(i) /\ input[i].unit \in Low
Paired == \A i \in DOMAIN input : /\ IsHigh(i) => IsLow(i + 1)
                                  /\ IsLow(i) => IsHigh(i - 1)

\* What esc writes, str reads back, whole and unchanged, exactly when the bytes
\* are UTF-8: no byte sequence a Go string may hold changes on the wire, and one
\* that is no text never passes for one.
TextReadsBack ==
  LET s == [i \in DOMAIN input |-> input[i].raw]
      r == str(esc(s))
  IN Plain => /\ (r.word = "nil") = WellFormed(s)
              /\ r.word = "nil" => r.value = s /\ r.pos = Len(esc(s)) + 1

\* However raw bytes and escapes are mixed, an accepted string is well-formed
\* UTF-8: escapes cannot put half a character into a Go string.  Escaped UTF-16
\* alone is accepted exactly when every surrogate has its partner, and then holds
\* one character for every unit or pair of units.
SurrogatesPair ==
  LET r == str(<<Quote>> \o (Body \o <<Quote>>))
      heads == {i \in DOMAIN input : ~IsLow(i)}
      starts == {k \in DOMAIN r.value : r.value[k] \div 64 # 2}
  IN mode = "string" =>
       /\ r.word = "nil" => WellFormed(r.value)
       /\ (\A i \in DOMAIN input : ~IsRaw(input[i])) =>
            /\ (r.word = "nil") = Paired
            /\ r.word = "nil" => Cardinality(starts) = Cardinality(heads)

\* A number is read if and only if it is spelled the one way num spells it, up
\* to both ends of the type and of the field's own range, which is narrower than
\* the type (int32 read through int64).
IntegerExact ==
  LET accepts(min, max) ==
        LET r == integer(input, min, max)
        IN (r.word = "nil" /\ r.pos = Len(input) + 1) =
             (\E n \in min..max : num(n) = input /\ n = r.value)
  IN mode = "number" => accepts(MinInt, MaxInt) /\ accepts(MinInt \div 2, MaxInt \div 2)
=============================================================================
