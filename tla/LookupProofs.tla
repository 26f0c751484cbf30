---------------------------- MODULE LookupProofs ----------------------------
(***************************************************************************)
(* For every reference, every list of providers and every answer they or a *)
(* local store may give: a result the service sends is one its own client  *)
(* believes, a resolved request is the whole mapping, and no credential    *)
(* but the caller's is named in it.                                        *)
(*                                                                         *)
(* The argument: a finished call either carries no request, or carries the *)
(* projection of a mapping every source of which passed the test           *)
(* (Promised); the properties follow source by source (ProjectKeeps).      *)
(***************************************************************************)
EXTENDS LookupCall, TLAPS

\* A mapping the service may promise for ref.
Promised(spec, r) ==
  /\ spec \in SpecTypes
  /\ \A i \in DOMAIN spec.sources : Portable(spec.sources[i], r)
  /\ PortableRequest(Request(spec, spec.sources))

Without == {"invalid", "unavailable", "unsupported_mapping"}

LookupInv ==
  /\ at \in {"start", "asked", "done"}
  /\ at # "done" => result = Result("none")
  /\ at = "done" => \/ \E o \in Without : result = Result(o)
                    \/ /\ Promised(answer.spec, ref)
                       /\ result = Resolved(Request(answer.spec, answer.spec.sources))

-----------------------------------------------------------------------------
\* Putting a local copy in front of the sources gives a mapping again.
LEMMA AugmentTyped ==
  ASSUME NEW spec \in SpecTypes
  PROVE  [spec EXCEPT !.sources = <<LocalSource>> \o @] \in SpecTypes
  <1>1. LocalSource \in SourceTypes BY DEF SourceTypes
  <1>2. spec.sources \in Seq(SourceTypes) BY DEF SpecTypes
  <1>3. <<LocalSource>> \o spec.sources \in Seq(SourceTypes) BY <1>1, <1>2
  <1> QED BY <1>3 DEF SpecTypes

\* ResolveRef answers as providers do.
LEMMA ResolveRefTyped ==
  ASSUME NEW a \in AnswerTypes, NEW hit \in BOOLEAN
  PROVE  ResolveRef(a, hit) \in AnswerTypes
  <1>1. CASE a.kind # "spec"
    <2>1. ResolveRef(a, hit) = a BY <1>1 DEF ResolveRef
    <2> QED BY <2>1
  <1>2. CASE a.kind = "spec"
    <2>1. a \in [kind : {"spec"}, spec : SpecTypes] BY <1>2 DEF AnswerTypes
    <2>2. a.spec \in SpecTypes BY <2>1
    <2> DEFINE augmented == [a.spec EXCEPT !.sources = <<LocalSource>> \o @]
    <2>3. augmented \in SpecTypes BY <2>2, AugmentTyped
    <2>4. ResolveRef(a, hit) \in {Error("missing_digest"), Found(augmented), a}
      BY <1>2 DEF ResolveRef
    <2> HIDE DEF augmented
    <2> QED BY <2>3, <2>4 DEF AnswerTypes, Error, Found
  <1> QED BY <1>1, <1>2

\* A typed answer becomes a result without a request, or a promise kept.
LEMMA ClassifyPromises ==
  ASSUME NEW a \in AnswerTypes, NEW r
  PROVE  \/ \E o \in Without : Classify(a, r) = Result(o)
         \/ Promised(a.spec, r) /\ Classify(a, r) = Resolved(Request(a.spec, a.spec.sources))
  <1>1. CASE a.kind = "spec"
    <2>1. a.spec \in SpecTypes BY <1>1 DEF AnswerTypes
    <2>2. Classify(a, r) = ClassifySpec(a.spec, r) BY <1>1 DEF Classify
    <2>3. CASE ClassifySpec(a.spec, r) = Result("unsupported_mapping") BY <2>2, <2>3 DEF Without
    <2>4. CASE ClassifySpec(a.spec, r) # Result("unsupported_mapping")
      <3>1. /\ \A s \in Range(a.spec.sources) : Portable(s, r)
            /\ ValidateRequest(Request(a.spec, a.spec.sources))
            /\ ClassifySpec(a.spec, r) = Resolved(Request(a.spec, a.spec.sources))
        BY <2>4 DEF ClassifySpec
      <3>2. \A i \in DOMAIN a.spec.sources : Portable(a.spec.sources[i], r) BY <3>1 DEF Range
      <3> QED BY <2>1, <2>2, <3>1, <3>2 DEF Promised, ValidateRequest
    <2> QED BY <2>3, <2>4
  <1>2. CASE a.kind # "spec"
    <2>1. a.kind \in {"missing_digest", "credential_refused", "credential_retryable", "error"}
      BY <1>2 DEF AnswerTypes
    <2>2. Classify(a, r) \in {Result("unsupported_mapping"), Result("unavailable")} BY <2>1 DEF Classify
    <2> QED BY <2>2 DEF Without
  <1> QED BY <1>1, <1>2

\* What is left of a portable source is all there was: the scheme, the locator
\* and at most the caller's own credential name.
LEMMA ProjectKeeps ==
  ASSUME NEW s \in SourceTypes, NEW r, Portable(s, r)
  PROVE  /\ Project(s).scheme = s.scheme /\ Project(s).locator = s.locator
         /\ ~s.headers /\ s.priority = 0
         /\ s.attrs \subseteq {<<"credential", Project(s).credential>>}
         /\ Project(s).credential \in {"", r.credential}
  <1>1. /\ Project(s).scheme = s.scheme /\ Project(s).locator = s.locator
        /\ Project(s).credential = Attr(s, "credential")
    BY DEF Project
  <1>2. ~s.headers /\ s.priority = 0 BY DEF Portable
  <1>3. CASE s.attrs = {}
    <2>1. {a[2] : a \in {b \in s.attrs : b[1] = "credential"}} = {} BY <1>3
    <2>2. Attr(s, "credential") = "" BY <2>1 DEF Attr
    <2> QED BY <1>1, <1>2, <1>3, <2>2
  <1>4. CASE s.attrs # {}
    <2>1. PICK a \in s.attrs : TRUE BY <1>4
    <2>2. /\ s.attrs = {a} /\ Attr(s, "credential") # "" /\ Attr(s, "credential") = r.credential
      BY <2>1 DEF Portable
    <2>3. a = <<a[1], a[2]>>
      <3>1. CASE s = LocalSource BY <2>1, <3>1 DEF LocalSource
      <3>2. CASE s.attrs \in SUBSET (STRING \X STRING) BY <2>1, <3>2
      <3> QED BY <3>1, <3>2 DEF SourceTypes
    <2> DEFINE values == {b[2] : b \in {c \in s.attrs : c[1] = "credential"}}
    <2>4. Attr(s, "credential") = IF values = {} THEN "" ELSE CHOOSE v \in values : TRUE BY DEF Attr
    <2>5. a[1] = "credential" BY <2>2, <2>4
    <2>6. values = {a[2]} BY <2>2, <2>5
    <2>7. Attr(s, "credential") = a[2] BY <2>4, <2>6
    <2>8. a = <<"credential", Attr(s, "credential")>> BY <2>3, <2>5, <2>7
    <2> QED BY <1>1, <1>2, <2>2, <2>8
  <1> QED BY <1>3, <1>4

-----------------------------------------------------------------------------
LEMMA LookupInvInit == LookupInit => LookupInv
  BY DEF LookupInit, LookupInv

LEMMA LookupInvStep == LookupInv /\ [LookupNext]_callVars => LookupInv'
  <1> SUFFICES ASSUME LookupInv, [LookupNext]_callVars PROVE LookupInv' OBVIOUS
  <1>1. CASE Ask
    BY <1>1 DEF Ask, LookupInv, Without
  <1>2. CASE \E a \in Answers, hit \in BOOLEAN : Answer(a, hit)
    <2>1. PICK a \in Answers, hit \in BOOLEAN : Answer(a, hit) BY <1>2
    <2>2. a \in AnswerTypes BY AnswersAssumption
    <2>3. answer' \in AnswerTypes /\ at' = "done" BY <2>1, <2>2, ResolveRefTyped DEF Answer
    <2>4. result' = Classify(answer', ref) /\ ref' = ref BY <2>1 DEF Answer
    <2> QED BY <2>3, <2>4, ClassifyPromises DEF LookupInv
  <1>3. CASE UNCHANGED callVars BY <1>3 DEF callVars, LookupInv
  <1> QED BY <1>1, <1>2, <1>3 DEF LookupNext

LEMMA LookupInvHolds == LookupSpec => []LookupInv
  BY LookupInvInit, LookupInvStep, PTL DEF LookupSpec

\* What a resolved result says of the mapping it came from.
LEMMA ResolvedIsPromised ==
  ASSUME LookupInv, result.request # <<>> \/ result.outcome = "resolved"
  PROVE  /\ at = "done" /\ Promised(answer.spec, ref)
         /\ result = Resolved(Request(answer.spec, answer.spec.sources))
  BY DEF LookupInv, Result, Without

\* A call ends with one of the documented outcomes and at most one request.
THEOREM LookupTypeCorrect == LookupSpec => []LookupTypeOK
  <1>1. LookupInv => LookupTypeOK
    <2> SUFFICES ASSUME LookupInv PROVE LookupTypeOK OBVIOUS
    <2>1. CASE at # "done" BY <2>1 DEF LookupInv, LookupTypeOK, Result, Outcomes
    <2>2. CASE \E o \in Without : at = "done" /\ result = Result(o)
      BY <2>2 DEF LookupInv, LookupTypeOK, Result, Outcomes, Without
    <2>3. CASE at = "done" /\ result = Resolved(Request(answer.spec, answer.spec.sources))
      BY <2>3 DEF LookupInv, LookupTypeOK, Resolved, Outcomes
    <2> QED BY <2>1, <2>2, <2>3 DEF LookupInv
  <1> QED BY <1>1, LookupInvHolds, PTL

\* No result of lookup is one the service's own client calls inconsistent.
THEOREM ResultsBelieved == LookupSpec => []ClientBelieves
  <1>1. LookupInv => ClientBelieves
    <2> SUFFICES ASSUME LookupInv, at = "done" PROVE validResult(result) BY DEF ClientBelieves
    <2>1. CASE \E o \in Without : result = Result(o) BY <2>1 DEF Result, Without, validResult
    <2>2. CASE Promised(answer.spec, ref) /\ result = Resolved(Request(answer.spec, answer.spec.sources))
      <3> DEFINE q == Request(answer.spec, answer.spec.sources)
      <3>1. PortableRequest(q) BY <2>2 DEF Promised
      <3>2. result.outcome = "resolved" /\ result.request = <<q>> BY <2>2 DEF Resolved
      <3> HIDE DEF q
      <3>3. result.request # <<>> /\ result.request[1] = q BY <3>2
      <3> QED BY <3>1, <3>2, <3>3 DEF validResult
    <2> QED BY <2>1, <2>2 DEF LookupInv
  <1> QED BY <1>1, LookupInvHolds, PTL

\* A resolved request is the mapping, source by source, with nothing dropped.
THEOREM MappingIsWhole == LookupSpec => []WholeMapping
  <1>1. LookupInv => WholeMapping
    <2> SUFFICES ASSUME LookupInv, result.outcome = "resolved" PROVE WholeMapping BY DEF WholeMapping
    <2> DEFINE had == answer.spec.sources
               has == result.request[1].sources
    <2>1. Promised(answer.spec, ref) /\ result = Resolved(Request(answer.spec, had)) BY ResolvedIsPromised
    <2>2. had \in Seq(SourceTypes) BY <2>1 DEF Promised, SpecTypes
    <2>3. has = [i \in DOMAIN had |-> Project(had[i])] BY <2>1 DEF Resolved, Request
    <2>4. Len(has) = Len(had) BY <2>2, <2>3
    <2>5. ASSUME NEW i \in DOMAIN had
          PROVE  /\ has[i].scheme = had[i].scheme /\ has[i].locator = had[i].locator
                 /\ ~had[i].headers /\ had[i].priority = 0
                 /\ had[i].attrs \subseteq {<<"credential", has[i].credential>>}
      <3>1. had[i] \in SourceTypes BY <2>2
      <3>2. Portable(had[i], ref) BY <2>1 DEF Promised
      <3>3. has[i] = Project(had[i]) BY <2>3
      <3> QED BY <3>1, <3>2, <3>3, ProjectKeeps
    <2> QED BY <2>4, <2>5 DEF WholeMapping
  <1> QED BY <1>1, LookupInvHolds, PTL

\* No credential but the caller's is named in a result.
THEOREM CredentialIsTheCallers == LookupSpec => []NoForeignCredential
  <1>1. LookupInv => NoForeignCredential
    <2> SUFFICES ASSUME LookupInv, NEW v \in Range(result.request), NEW s \in Range(v.sources)
                 PROVE  s.credential \in {"", ref.credential}
      BY DEF NoForeignCredential
    <2> DEFINE had == answer.spec.sources
    <2>1. result.request # <<>> BY DEF Range
    <2>2. Promised(answer.spec, ref) /\ result = Resolved(Request(answer.spec, had))
      BY <2>1, ResolvedIsPromised
    <2>3. v = Request(answer.spec, had) BY <2>2 DEF Range, Resolved
    <2>4. v.sources = [i \in DOMAIN had |-> Project(had[i])] BY <2>3 DEF Request
    <2>5. PICK i \in DOMAIN had : s = Project(had[i]) BY <2>4 DEF Range
    <2>6. had[i] \in SourceTypes BY <2>2 DEF Promised, SpecTypes
    <2>7. Portable(had[i], ref) BY <2>2 DEF Promised
    <2> QED BY <2>5, <2>6, <2>7, ProjectKeeps
  <1> QED BY <1>1, LookupInvHolds, PTL
=============================================================================
