----------------------------- MODULE RefSyntax ------------------------------
(***************************************************************************)
(* Model references as people write them (go/ref.go): ParseRef and String, *)
(* and the test the Hugging Face resolver makes of a repository id.        *)
(*                                                                         *)
(* A text is a sequence of words and of the delimiters the code looks for; *)
(* the scheme is kept apart.                                               *)
(***************************************************************************)
EXTENDS Naturals, Sequences, SequencesExt, FiniteSets

CONSTANTS Words,        \* what stands between delimiters
          MaxText       \* bound: words and delimiters of one reference

VARIABLES scheme, text
refVars == <<scheme, text>>

Slash == "/"
Sign == "@"
Hash == "#"
Colon == ":"
Latest == "latest"
Dots == ".."            \* a word with two dots in a row

Refused == [registry |-> "none", repo |-> <<>>, revision |-> <<>>, quant |-> <<>>, file |-> <<>>]

\* Mutant: the last one.
IndexByteLast(s, c) == SelectLastInSeq(s, LAMBDA x : x = c)

\* strings.IndexByte; 0 is -1.
IndexByte(s, c) == SelectInSeq(s, LAMBDA x : x = c)
LastIndexByte(s, c) == SelectLastInSeq(s, LAMBDA x : x = c)
Left(s, i) == IF i = 0 THEN s ELSE SubSeq(s, 1, i - 1)
Right(s, i) == IF i = 0 THEN <<>> ELSE SubSeq(s, i + 1, Len(s))

OrgAndName(repo) == repo[1] # Slash /\ Last(repo) # Slash

\* parseHF: org/repo[@revision][/file | #quant].
parseHF(all) ==
  LET hash == IndexByte(all, Hash)
      body == Left(all, hash)
      sign == IndexByte(body, Sign)
      after == Right(body, sign)
      slash == IndexByte(after, Slash)
      path == Left(body, sign)
      org == IndexByte(path, Slash)
      name == IndexByte(Right(path, org), Slash)
      repo == Left(path, IF name = 0 THEN 0 ELSE org + name)
      file == Right(after, slash)
  IN IF org = 0 \/ (org # 0 /\ ~OrgAndName(repo)) THEN Refused
     ELSE [registry |-> "hf", repo |-> repo, quant |-> Right(all, hash), revision |-> Left(after, slash),
           file |-> IF file = <<>> /\ name # 0 THEN Right(path, org + name) ELSE file]

\* parseOllama: name[:tag].
parseOllama(rest) ==
  LET colon == LastIndexByte(rest, Colon)
  IN IF Left(rest, colon) = <<>> THEN Refused
     ELSE [Refused EXCEPT !.registry = "ollama", !.repo = Left(rest, colon),
                          !.revision = IF colon = 0 THEN <<Latest>> ELSE Right(rest, colon)]

ParseRef(s, rest) ==
  CASE s = "hf" -> parseHF(rest) [] s = "ollama" -> parseOllama(rest) [] OTHER -> Refused

\* String, without the scheme.
String(r) ==
  CASE r.registry = "hf" ->
         r.repo \o (IF r.revision # <<>> THEN <<Sign>> \o r.revision ELSE <<>>)
                \o (CASE r.file # <<>> -> <<Slash>> \o r.file
                      [] r.file = <<>> /\ r.quant # <<>> -> <<Hash>> \o r.quant
                      [] OTHER -> <<>>)
    [] r.registry = "ollama" -> r.repo \o (IF r.revision # <<>> THEN <<Colon>> \o r.revision ELSE <<>>)

\* validRepo of the resolver (hf.go).
validRepo(repo) ==
  /\ repo # <<>> /\ Dots \notin ToSet(repo) /\ repo[1] # Slash
  /\ Cardinality({i \in DOMAIN repo : repo[i] = Slash}) = 1

-----------------------------------------------------------------------------
\* The delimiters that are looked for; any other byte may stand in a word.
Delimiters == [hf |-> {Slash, Sign, Hash}, ollama |-> {Colon}, other |-> {}]

RefInit == scheme \in {"hf", "ollama", "other"} /\ text = <<>>
TypeWord ==
  /\ Len(text) < MaxText
  /\ \E c \in Words \cup Delimiters[scheme] : text' = Append(text, c)
  /\ UNCHANGED scheme
RefSpec == RefInit /\ [][TypeWord]_refVars

Parsed == ParseRef(scheme, text)
Again == ParseRef(scheme, String(Parsed))

\* What a resolver looks for: a default revision is the same as none, and a file
\* wins over a quantisation.
Means(r) == [repo |-> r.repo, file |-> r.file,
             revision |-> IF r.revision = <<Latest>> THEN <<>> ELSE r.revision,
             quant |-> IF r.file = <<>> THEN r.quant ELSE <<>>]

\* Two texts String cannot write so that they read back: a file with an '@' in a
\* repository without a revision, and an Ollama name with a ':' and an empty tag.
Ambiguous(r) ==
  r.revision = <<>> /\ ((Sign \in ToSet(r.file)) \/ (r.registry = "ollama" /\ Colon \in ToSet(r.repo)))

\* The text a reference is shown and stored under means the reference: read back
\* it names the same repository, revision and file or quantisation, whatever
\* delimiters stand in its parts.  And what ParseRef accepts for the hub its
\* resolver accepts as a repository id unless it has two dots in a row, so that a
\* reference of the wrong shape is refused where it is written and not after a
\* job was made of it.
WrittenReadsBack ==
  Parsed # Refused =>
     /\ ~Ambiguous(Parsed) => Means(Again) = Means(Parsed)
     /\ scheme = "hf" => (validRepo(Parsed.repo) <=> Dots \notin ToSet(Parsed.repo))
=============================================================================
