------------------------------- MODULE Lookup -------------------------------
(***************************************************************************)
(* The pure part of a lookup: go/service/lookup.go (which references are   *)
(* accepted, and how a provider's answer becomes a result), ResolveRef of  *)
(* go/model.go (which provider answers), and validResult of                *)
(* go/client/client.go (which results a client believes).                  *)
(*                                                                         *)
(* Text is abstracted to the classes the code tells apart:                 *)
(*   ""       empty              "blank"  white space only                 *)
(*   "plain"  an ordinary value  "ctl"    NUL, CR, LF or invalid UTF-8     *)
(*   "delim"  has one of / \ ? # "bad"    no credential name: over 64      *)
(*                                        bytes or a character outside its *)
(*                                        alphabet                         *)
(* Any other string is an ordinary value with a name.                      *)
(***************************************************************************)
EXTENDS Integers, Sequences, SequencesExt

-----------------------------------------------------------------------------
(***************************************************************************)
(* References.  A Ref is a record of its six wire fields.                  *)
(***************************************************************************)
validRef(ref) ==
    /\ ref.registry \notin {"", "blank"} /\ ref.repo \notin {"", "blank"}
    /\ ref.credential # "bad"
    /\ "ctl" \notin {ref.registry, ref.repo, ref.revision, ref.quant, ref.file}
    /\ ref.registry = "ollama" => ref.quant = "" /\ ref.file = ""
    /\ ref.registry = "hf" => /\ ref.quant = "" \/ ref.file = ""
                              /\ ref.revision # "delim"

-----------------------------------------------------------------------------
(***************************************************************************)
(* Provider answers.  An answer is a spec, or an error of one of the kinds *)
(* the service tells apart.  A spec has the class of its digest, a size,   *)
(* whether a private Sink or a handoff Request identity is set, and its    *)
(* sources; a source has the scheme it declares, the class of its locator, *)
(* its attributes as a set of <<key, value>>, whether it carries headers,  *)
(* and a priority.                                                         *)
(***************************************************************************)
Found(spec) == [kind |-> "spec", spec |-> spec]
Error(kind) == [kind |-> kind]

\* The resolvers configured for this registry; the first one is asked.
Configured(providers, registry) ==
    SelectInSeq(providers, LAMBDA p : p = registry)

\* local.Augment puts a file source in front when a local store has the bytes.
LocalSource ==
    [scheme |-> "file", locator |-> "file", attrs |-> {<<"store", "plain">>},
     headers |-> FALSE, priority |-> -100]

\* What ResolveRef makes of the provider's answer; localHit says that the
\* registry looks in local stores and one has the bytes.
ResolveRef(answer, localHit) ==
    CASE answer.kind # "spec" -> answer
      [] answer.kind = "spec" /\ answer.spec.digest = "" -> Error("missing_digest")
      [] answer.kind = "spec" /\ answer.spec.digest # "" /\ localHit
            -> Found([answer.spec EXCEPT !.sources = <<LocalSource>> \o @])
      [] OTHER -> answer

-----------------------------------------------------------------------------
(***************************************************************************)
(* From an answer to a result.  LookupResult.request is optional: it is a  *)
(* sequence of at most one request.                                        *)
(***************************************************************************)
Result(outcome) == [outcome |-> outcome, request |-> <<>>]

Attr(source, key) ==
    LET values == {a[2] : a \in {b \in source.attrs : b[1] = key}}
    IN  IF values = {} THEN "" ELSE CHOOSE v \in values : TRUE

\* Mutant: any credential name will do.
PortableAnyCredential(source, ref) ==
    /\ \A a \in source.attrs : source.attrs = {a} /\ a[1] = "credential"
    /\ ~source.headers
    /\ source.priority = 0

\* "The only attribute a portable source carries is the Ref's own credential
\* name."
Portable(source, ref) ==
    /\ \A a \in source.attrs :
          /\ source.attrs = {a}
          /\ Attr(source, "credential") # ""
          /\ Attr(source, "credential") = ref.credential
    /\ ~source.headers
    /\ source.priority = 0

Project(source) ==
    [scheme |-> source.scheme, locator |-> source.locator,
     credential |-> Attr(source, "credential")]

\* A locator of class "http" or "https" has that scheme, a host and no user
\* information; every other class lacks one of them.
PortableRequest(value) ==
    /\ value.digest = "sha256"
    /\ value.size >= 0
    /\ value.sources # <<>>
    /\ \A s \in Range(value.sources) :
          s.locator \in {"http", "https"} /\ s.scheme = s.locator

\* downloadserve.ValidateRequest: the download layer's own validator.
ValidateRequest(value) == PortableRequest(value)

Request(spec, sources) ==
    [digest |-> spec.digest, size |-> spec.size,
     sources |-> [i \in DOMAIN sources |-> Project(sources[i])]]

Private(spec) == spec.sink \/ spec.handoff \/ spec.digest = ""

Resolved(value) == [outcome |-> "resolved", request |-> <<value>>]

\* Mutant: a mapping is cut down to its portable sources.
ClassifySpecPartially(spec, ref) ==
    LET value == Request(spec, SelectSeq(spec.sources, LAMBDA s : Portable(s, ref)))
    IN  IF Private(spec) \/ ~ValidateRequest(value)
        THEN Result("unsupported_mapping")
        ELSE Resolved(value)

\* Mutant: the request is not validated before it is promised.
ClassifySpecUnchecked(spec, ref) ==
    IF Private(spec) \/ \E s \in Range(spec.sources) : ~Portable(s, ref)
    THEN Result("unsupported_mapping")
    ELSE Resolved(Request(spec, spec.sources))

ClassifySpec(spec, ref) ==
    LET value == Request(spec, spec.sources)
    IN  IF \/ Private(spec)
           \/ \E s \in Range(spec.sources) : ~Portable(s, ref)
           \/ ~ValidateRequest(value)
        THEN Result("unsupported_mapping")
        ELSE Resolved(value)

\* The result of a lookup whose provider has answered.
Classify(answer, ref) ==
    CASE answer.kind = "spec"           -> ClassifySpec(answer.spec, ref)
      [] answer.kind \in {"missing_digest", "credential_refused"}
                                        -> Result("unsupported_mapping")
      [] answer.kind \in {"credential_retryable", "error"}
                                        -> Result("unavailable")

-----------------------------------------------------------------------------
(***************************************************************************)
(* The client's side.                                                      *)
(***************************************************************************)
validResult(result) ==
    /\ (result.outcome = "resolved") <=> (result.request # <<>>)
    /\ result.request # <<>> => PortableRequest(result.request[1])
=============================================================================
