---------------------------- MODULE NameIdentity ----------------------------
(***************************************************************************)
(* Which model a name from a host means (identity/identity.go): Parse,     *)
(* Same, Shard and Component.                                              *)
(*                                                                         *)
(* A token is a sequence of atoms, so that a base and its version can be   *)
(* written together ("qwen3") or apart ("qwen-3").  A part is what stands  *)
(* between ':' and '#': its tokens and its file extension.  A segment is   *)
(* what stands between '/': its parts.  Letter case, white space, the      *)
(* scheme and "@revision" are dropped, as the code does first.             *)
(* The words are one or two of each kind of the code's tables.             *)
(***************************************************************************)
EXTENDS Naturals, Sequences, SequencesExt

CONSTANTS Alphabet,     \* the tokens names are made of
          MaxTokens,    \* bounds on one name
          MaxSegments

VARIABLES name          \* a host's name: its segments

Atom(a) == <<a>>
of == Atom("of")

(***************************************************************************)
(* The tables and the tests on one token.                                  *)
(***************************************************************************)
Number == {Atom("1"), Atom("2")}
quantWord == {Atom("fp8"), Atom("f16")}
quantTail == {Atom("k"), Atom("m")}

role == {Atom("mmproj"), Atom("vae")}
ud == Atom("ud")

\* Mutant: a list of noise to strip.
packagingNoise == {Atom("gguf"), Atom("instruct"), ud, Atom("coder")}

packaging == {Atom("gguf"), Atom("instruct"), ud}
extensions == {"gguf", "bin"}

digits(t) == IF t \in Number THEN 1 ELSE 0
isVersion(t) == t \in Number \cup {Atom("v2")}
isParams(t) == t = Atom("7b")
isQuantLevel(t) == t \in {Atom("q4"), Atom("iq2")}

\* At least four letters, the first an e, an m somewhere.
isBlockFormat(t) == t \in {Atom("e4m3"), Atom("ensemble")}

-----------------------------------------------------------------------------
(***************************************************************************)
(* From a name to its tokens.                                              *)
(***************************************************************************)
withoutPublisher(segs) == IF Len(segs) > 1 THEN Tail(segs) ELSE segs

\* An extension the table does not know is a token that stays.
extension(p) == IF p.ext \in {""} \cup extensions THEN p.tokens ELSE Append(p.tokens, Atom(p.ext))

parts(segs) ==
  LET kept == withoutPublisher(segs)
      all == FlattenSeq(kept)
  IN SelectSeq([i \in DOMAIN all |-> extension(all[i])], LAMBDA p : p # <<>>)

shardRun(raw, i) ==
  /\ i + 2 <= Len(raw) /\ raw[i + 1] = of /\ digits(raw[i]) > 0 /\ digits(raw[i + 2]) > 0

\* Mutant: a level is one token long.
tailsNone(raw) == [i \in 1..Len(raw) + 1 |-> 0]

\* How many tail words stand from i on.
tails(raw) ==
  LET n[i \in 1..Len(raw) + 1] == IF i <= Len(raw) /\ raw[i] \in quantTail THEN 1 + n[i + 1] ELSE 0
  IN n

\* quantRun: how many tokens from i on spell a quantisation.
quantRun(raw) ==
  LET from(i) == CASE raw[i] \in quantWord ->
                        IF raw[i] = Atom("fp8") /\ i < Len(raw) /\ isBlockFormat(raw[i + 1]) THEN 2 ELSE 1
                   [] isQuantLevel(raw[i]) -> 1 + tails(raw)[i + 1]
                   [] OTHER -> 0
      run[i \in 1..Len(raw)] ==
        IF raw[i] = ud /\ i < Len(raw) /\ run[i + 1] > 0
        THEN (IF from(i + 1) = 0 THEN 0 ELSE 1 + from(i + 1)) ELSE from(i)
  IN run

\* tokens: what is kept of a part, and the first quantisation it spells.
tokens(raw) ==
  LET run == quantRun(raw)
      then[i \in 1..Len(raw) + 3] ==
        IF i > Len(raw) THEN [kept |-> <<>>, quant |-> <<>>]
        ELSE IF shardRun(raw, i) THEN then[i + 3]
        ELSE IF run[i] = 0 THEN [then[i + 1] EXCEPT !.kept = <<raw[i]>> \o @]
        ELSE [then[i + run[i]] EXCEPT !.quant = SubSeq(raw, i, i + run[i] - 1)]
  IN then[1]

Shard(segs) == \E p \in ToSet(parts(segs)) : \E i \in DOMAIN p : shardRun(p, i)

-----------------------------------------------------------------------------
(***************************************************************************)
(* From tokens to a family: a sequence of tokens, joined with '-'.         *)
(***************************************************************************)
Distinct(seq) == FoldLeft(LAMBDA acc, t : IF t \in ToSet(acc) THEN acc ELSE Append(acc, t), <<>>, seq)

\* The tokens that were not seen before, once each.
fresh(rest, seen) == Distinct(SelectSeq(rest, LAMBDA t : t \notin seen))

splitParts(toks) ==
  LET kept == SelectSeq(toks, LAMBDA t : t \notin packaging \cup role)
      versioned == Len(kept) > 1 /\ isVersion(kept[2])
      base == IF versioned THEN kept[1] \o kept[2] ELSE kept[1]
      rest == fresh(SubSeq(kept, IF versioned THEN 3 ELSE 2, Len(kept)),
                    {kept[1], base} \cup (IF versioned THEN {kept[2]} ELSE {}))
  IN [roles |-> Distinct(SelectSeq(toks, LAMBDA t : t \notin packaging /\ t \in role)),
      base |-> IF kept = <<>> THEN <<>>
               ELSE <<base>> \o SelectSeq(rest, isParams) \o SelectSeq(rest, LAMBDA t : ~isParams(t))]

assemble(toks, quant) ==
  LET s == splitParts(toks) IN [family |-> s.base \o s.roles, quant |-> quant]

Kept(segs) ==
  FoldLeft(LAMBDA acc, p : acc \o tokens(p).kept, <<>>, parts(segs))

\* The last quantisation a part of the name spells.
Quant(segs) ==
  FoldLeft(LAMBDA acc, p : IF tokens(p).quant = <<>> THEN acc ELSE tokens(p).quant, <<>>, parts(segs))

Parse(segs) == assemble(Kept(segs), Quant(segs))

Family(segs) == Parse(segs).family
Same(a, b) == Family(a) # <<>> /\ Family(a) = Family(b)

Component(segs) ==
  LET s == splitParts(Kept(segs))
  IN IF Len(s.roles) # 1 \/ s.base = <<>> THEN [base |-> <<>>, role |-> <<>>]
     ELSE [base |-> s.base, role |-> s.roles[1]]

-----------------------------------------------------------------------------
(***************************************************************************)
(* Names as hosts write them, token by token.                              *)
(***************************************************************************)
Part(toks) == [tokens |-> toks, ext |-> ""]
Size(segs) == LET all == FlattenSeq(segs) IN Len(FlattenSeq([i \in DOMAIN all |-> all[i].tokens]))

NameInit == name = << <<Part(<<>>)>> >>
WithLast(segs, p) == [segs EXCEPT ![Len(segs)][Len(Last(segs))] = p]
LastPart(segs) == Last(Last(segs))
Adding(segs, toks) == WithLast(segs, [LastPart(segs) EXCEPT !.tokens = @ \o toks])
Leading(segs, t) == [segs EXCEPT ![Len(segs)][1].tokens = <<t>> \o @]

AddToken(t) == Size(name) < MaxTokens /\ LastPart(name).ext = "" /\ name' = Adding(name, <<t>>)
AddPart == /\ Size(name) < MaxTokens /\ LastPart(name).tokens # <<>>
           /\ name' = [name EXCEPT ![Len(name)] = Append(@, Part(<<>>))]
AddSegment == /\ Size(name) < MaxTokens /\ Len(name) < MaxSegments /\ LastPart(name).tokens # <<>>
              /\ name' = Append(name, <<Part(<<>>)>>)
AddExtension(e) == /\ LastPart(name).tokens # <<>> /\ LastPart(name).ext = ""
                   /\ \A p \in ToSet(FlattenSeq(name)) : p.ext = ""
                   /\ name' = WithLast(name, [LastPart(name) EXCEPT !.ext = e])

NameNext == (\E t \in Alphabet : AddToken(t)) \/ AddPart \/ AddSegment
            \/ (\E e \in {"gguf", "odd"} : AddExtension(e))
NameSpec == NameInit /\ [][NameNext]_name

Open == LastPart(name).ext = ""

\* A quantisation, a shard number or packaging written after any name.
Packaged ==
  Open => \A tail \in {<<Atom("q4"), Atom("k"), Atom("m")>>, <<ud, Atom("q4"), Atom("k")>>, <<Atom("fp8")>>,
                       <<Atom("1"), of, Atom("2")>>, <<Atom("gguf")>>} :
             /\ Family(Adding(name, tail)) = Family(name)
             /\ of \in ToSet(tail) => Shard(Adding(name, tail))

\* A role written before and after a name that states none.
RoleAtEitherEnd ==
  LET tail == Adding(name, <<Atom("mmproj")>>)
      lead == Leading(name, Atom("mmproj"))
  IN Open /\ splitParts(Kept(name)).roles = <<>> =>
       /\ Family(lead) = Family(tail)
       /\ Component(lead) = Component(tail)
       /\ Family(name) # <<>> => Component(tail) = [base |-> Family(name), role |-> Atom("mmproj")]

\* A path whose file repeats the name of its repository.
Repeated ==
  LET segs == << <<Part(<<Atom("org")>>)>> >> \o Tail(name) \o Tail(name)
      once == << <<Part(<<Atom("org")>>)>> >> \o Tail(name)
      plain == SelectSeq(Kept(once), LAMBDA t : t \notin packaging \cup role)
  IN Len(name) > 1 /\ plain # <<>> /\ ~isVersion(plain[1]) => Family(segs) = Family(once)

\* One artifact written in two ways has one family, however its name is cut into
\* paths and tags: "two quantisations of one model are Same" and so are the pieces
\* of one; a role means the same at either end, names its model through Component
\* and never becomes the base; a file that repeats its repository's name
\* ("org/qwen3/qwen3-q4") is the model of that name.
VariantsShareFamily == Packaged /\ RoleAtEitherEnd /\ Repeated

\* A fine-tune is not answered by the model it was tuned from: a word that marks
\* it gives the name another family unless the name has that word already.
FineTuneSplits ==
  Open /\ Atom("coder") \notin ToSet(Kept(name)) =>
     ~Same(name, Adding(name, <<Atom("coder")>>))
=============================================================================
