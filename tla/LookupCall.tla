----------------------------- MODULE LookupCall -----------------------------
(***************************************************************************)
(* One call of lookup (go/service/lookup.go) against every configuration   *)
(* of a registry and every answer a provider can give.  Providers are      *)
(* "trusted service-side code" but arbitrary: Answers is what they may     *)
(* return, and a registry that looks in local stores may find the bytes.   *)
(***************************************************************************)
EXTENDS Lookup

CONSTANTS
    Refs,       \* the references a caller sends
    Registries, \* the provider lists a service is configured with
    Answers     \* what a provider may answer

\* What the Go types of download.Spec and download.Source allow; the copies local
\* stores offer are among them.
SourceTypes == [scheme : STRING, locator : STRING, attrs : SUBSET (STRING \X STRING),
                headers : BOOLEAN, priority : Int] \cup {LocalSource}
SpecTypes == [digest : STRING, size : Int, sink : BOOLEAN, handoff : BOOLEAN,
              sources : Seq(SourceTypes)]
AnswerTypes == [kind : {"spec"}, spec : SpecTypes]
               \cup [kind : {"missing_digest", "credential_refused", "credential_retryable", "error"}]

ASSUME AnswersAssumption == Answers \subseteq AnswerTypes

VARIABLES
    ref,        \* the caller's reference
    providers,  \* the registries of the configured resolvers, in order
    local,      \* the registry has a local lookup: SetLocal, NewRegistry
    at,         \* "start", "asked", "done"
    answer,     \* what ResolveRef returned
    result      \* the LookupResult

callVars == <<ref, providers, local, at, answer, result>>

LookupInit ==
    /\ ref \in Refs
    /\ providers \in Registries
    /\ local \in BOOLEAN
    /\ at = "start"
    /\ answer = Error("none")
    /\ result = Result("none")

\* An invalid reference and a registry nobody serves end the call at once.
Ask ==
    /\ at = "start"
    /\ IF validRef(ref) /\ Configured(providers, ref.registry) # 0
       THEN at' = "asked" /\ UNCHANGED result
       ELSE /\ at' = "done"
            /\ result' = Result(IF validRef(ref) THEN "unavailable" ELSE "invalid")
    /\ UNCHANGED <<ref, providers, local, answer>>

Answer(a, localHit) ==
    /\ at = "asked"
    /\ localHit => local
    /\ answer' = ResolveRef(a, localHit)
    /\ result' = Classify(answer', ref)
    /\ at' = "done"
    /\ UNCHANGED <<ref, providers, local>>

LookupNext == Ask \/ \E a \in Answers, localHit \in BOOLEAN : Answer(a, localHit)

LookupSpec == LookupInit /\ [][LookupNext]_callVars

-----------------------------------------------------------------------------
(***************************************************************************)
(* Properties.                                                             *)
(***************************************************************************)
Outcomes == {"resolved", "invalid", "unavailable", "unsupported_mapping", "forbidden"}

LookupTypeOK ==
    /\ at \in {"start", "asked", "done"}
    /\ at = "done" <=> result.outcome \in Outcomes
    /\ Len(result.request) <= 1

\* "LookupResult.request is present exactly when outcome is resolved", and no
\* result the service sends is one its own client calls inconsistent,
\* whatever a provider or a local store answers.
ClientBelieves == at = "done" => validResult(result)

\* "A service never silently removes such a source because another source is
\* portable": a resolved request has every source of the mapping, in order, and
\* no source of it had headers, a priority or an attribute that was dropped.
WholeMapping ==
    result.outcome = "resolved" =>
        LET had == answer.spec.sources
            has == result.request[1].sources
        IN  /\ Len(has) = Len(had)
            /\ \A i \in DOMAIN had :
                  /\ has[i].scheme = had[i].scheme /\ has[i].locator = had[i].locator
                  /\ ~had[i].headers /\ had[i].priority = 0
                  /\ had[i].attrs \subseteq {<<"credential", has[i].credential>>}

\* A caller is never told to use another credential than the one it named.
NoForeignCredential ==
    \A v \in Range(result.request) : \A s \in Range(v.sources) :
        s.credential \in {"", ref.credential}

\* MODEL-C1, "Every source of the resolved request MUST carry the same
\* `credential` name".
EverySourceNamesCredential ==
    \A v \in Range(result.request) : \A s \in Range(v.sources) :
        s.credential = ref.credential
=============================================================================
