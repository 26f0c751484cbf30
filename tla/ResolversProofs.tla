-------------------------- MODULE ResolversProofs ---------------------------
(***************************************************************************)
(* What holds of every lookup of the resolvers, for every history of the   *)
(* hub's repository, every reference, and every content of the stores.     *)
(***************************************************************************)
EXTENDS Resolvers, PositionsProofs

-----------------------------------------------------------------------------
(***************************************************************************)
(* Listings.                                                               *)
(***************************************************************************)
\* A listing of a set names each of its members at one position.
LEMMA Listing ==
  ASSUME NEW S, IsFiniteSet(S), NEW s \in SetToSeqs(S)
  PROVE  /\ DOMAIN s = 1..Cardinality(S) /\ Cardinality(S) \in Nat
         /\ \A i \in DOMAIN s : s[i] \in S
         /\ \A i, j \in DOMAIN s : s[i] = s[j] => i = j
         /\ \A x \in S : \E i \in DOMAIN s : s[i] = x
         /\ ToSet(s) = S
<1> DEFINE D == 1..Cardinality(S)
<1>1. Cardinality(S) \in Nat
  BY FS_CardinalityType
<1>2. /\ s \in [D -> S]
      /\ \A i, j \in D : i # j => s[i] # s[j]
  BY DEF SetToSeqs
<1>3. s \in Injection(D, S)
  BY <1>2 DEF Injection, IsInjective
<1>4. IsFiniteSet(D) /\ Cardinality(D) = Cardinality(S)
  BY <1>1, FS_Interval
<1>5. s \in Surjection(D, S)
  BY <1>3, <1>4, FS_Injection
<1>6. \A x \in S : \E i \in D : s[i] = x
  BY <1>5, Zenon DEF Surjection
<1>. QED
  BY <1>1, <1>2, <1>6 DEF ToSet

-----------------------------------------------------------------------------
(***************************************************************************)
(* pick, without an order.                                                 *)
(***************************************************************************)
\* The files a reference may mean.
Meant(S, r) ==
  {f \in S : IF r.file # Blank THEN f.name = r.file
             ELSE f.gguf /\ (IF r.quant = Blank THEN TRUE ELSE r.quant \in f.quants)}

UniqueNames(S) == \A f, g \in S : f.name = g.name => f = g

\* A set of positions of a sequence has one member if its cardinality says so.
LEMMA OnlyIsSingleton ==
  ASSUME NEW n \in Nat, NEW P \in SUBSET (1..n)
  PROVE  Only(P) <=> \E i : P = {i}
<1>1. IsFiniteSet(1..n)
  BY FS_Interval
<1>2. IsFiniteSet(P)
  BY <1>1, FS_Subset
<1>. QED
  BY <1>2, FS_Singleton DEF Only

\* pick gives the one file the reference means in the listed set, or refuses.
LEMMA PickMeaning ==
  ASSUME NEW S, IsFiniteSet(S), UniqueNames(S), NEW s \in SetToSeqs(S), NEW r
  PROVE  \/ pick(s, r) = <<>> /\ ~\E f \in S : Meant(S, r) = {f}
         \/ \E f \in S : Meant(S, r) = {f} /\ pick(s, r) = <<f>>
<1> DEFINE named == {i \in DOMAIN s : s[i].name = r.file}
           ggufs == {i \in DOMAIN s : s[i].gguf}
           matched == IF r.quant = Blank THEN ggufs ELSE {i \in ggufs : r.quant \in s[i].quants}
<1>1. /\ DOMAIN s = 1..Cardinality(S) /\ Cardinality(S) \in Nat
      /\ \A i \in DOMAIN s : s[i] \in S
      /\ \A i, j \in DOMAIN s : s[i] = s[j] => i = j
      /\ \A x \in S : \E i \in DOMAIN s : s[i] = x
  BY Listing
<1>2. CASE r.file # Blank
  <2>1. pick(s, r) = IF named = {} THEN <<>> ELSE <<s[Min(named)]>>
    BY <1>2 DEF pick
  <2>2. Meant(S, r) = {f \in S : f.name = r.file}
    BY <1>2 DEF Meant
  <2>3. CASE named = {}
    <3>1. Meant(S, r) = {}
      BY <1>1, <2>2, <2>3
    <3>. QED
      BY <2>1, <2>3, <3>1
  <2>4. CASE named # {}
    <3>1. named \in SUBSET Nat
      BY <1>1
    <3>2. Min(named) \in named
      BY <2>4, <3>1, MinOfPositions
    <3>3. s[Min(named)] \in S /\ s[Min(named)].name = r.file
      BY <1>1, <3>2
    <3>4. Meant(S, r) = {s[Min(named)]}
      BY <2>2, <3>3 DEF UniqueNames
    <3>. QED
      BY <2>1, <2>4, <3>3, <3>4
  <2>. QED
    BY <2>3, <2>4
<1>3. CASE r.file = Blank
  <2>1. pick(s, r) = IF Only(matched) THEN <<s[Min(matched)]>> ELSE <<>>
    BY <1>3 DEF pick
  <2>2. \A i \in DOMAIN s : i \in matched <=> s[i] \in Meant(S, r)
    BY <1>1, <1>3 DEF Meant
  <2>3. matched \in SUBSET (1..Cardinality(S))
    BY <1>1
  <2> HIDE DEF matched
  <2>4. Only(matched) <=> \E i : matched = {i}
    BY <1>1, <2>3, OnlyIsSingleton
  <2>5. ASSUME NEW i, matched = {i}
        PROVE  s[i] \in S /\ Meant(S, r) = {s[i]} /\ Min(matched) = i
    <3>1. i \in DOMAIN s /\ s[i] \in S /\ s[i] \in Meant(S, r)
      BY <1>1, <2>2, <2>3, <2>5
    <3>2. \A f \in Meant(S, r) : f = s[i]
      <4> SUFFICES ASSUME NEW f \in Meant(S, r) PROVE f = s[i]
        OBVIOUS
      <4>1. f \in S
        BY DEF Meant
      <4>2. PICK j \in DOMAIN s : s[j] = f
        BY <1>1, <4>1
      <4>3. j \in matched
        BY <2>2, <4>2
      <4>. QED
        BY <2>5, <4>2, <4>3
    <3>3. matched \in SUBSET Nat /\ matched # {}
      BY <1>1, <2>3, <2>5
    <3>4. Min(matched) \in matched
      BY <3>3, MinOfPositions
    <3>. QED
      BY <2>5, <3>1, <3>2, <3>4
  <2>6. ASSUME NEW f \in S, Meant(S, r) = {f} PROVE \E i : matched = {i}
    <3>1. PICK i \in DOMAIN s : s[i] = f
      BY <1>1
    <3>2. i \in matched
      BY <2>2, <2>6, <3>1
    <3>3. \A j \in matched : j = i
      BY <1>1, <2>2, <2>3, <2>6, <3>1
    <3>. QED
      BY <3>2, <3>3
  <2>7. CASE \E i : matched = {i}
    BY <2>1, <2>4, <2>5, <2>7
  <2>8. CASE ~\E i : matched = {i}
    BY <2>1, <2>4, <2>6, <2>8
  <2>. QED
    BY <2>7, <2>8
<1>. QED
  BY <1>2, <1>3

-----------------------------------------------------------------------------
(***************************************************************************)
(* Augment on a spec with the resolver's one source.                       *)
(***************************************************************************)
\* The fields of a source.
LEMMA SourceFields ==
  ASSUME NEW scheme, NEW locator, NEW priority, NEW credential
  PROVE  /\ Source(scheme, locator, priority, credential).scheme = scheme
         /\ Source(scheme, locator, priority, credential).locator = locator
         /\ Source(scheme, locator, priority, credential).priority = priority
BY DEF Source

\* A path that was reported names the digest that was asked for.
LEMMA PathShape == ASSUME NEW d, NEW p \in Paths(d), p # NoPath PROVE p[2] = d
BY DEF Paths

LocalSource(s, refs, n) == Source("file", refs[Nth(Offered(s, refs), n)], -100 + (n - 1), Blank)

\* The offered positions are finitely many positions of the reports.
LEMMA OfferedPositions ==
  ASSUME NEW s, NEW d, NEW refs \in Reports(d)
  PROVE  /\ Offered(s, refs) \in SUBSET Nat /\ IsFiniteSet(Offered(s, refs))
         /\ Cardinality(Offered(s, refs)) \in Nat
         /\ MaxHits \in Nat => Cardinality(Offered(s, refs)) <= MaxHits
         /\ \A i \in Offered(s, refs) : refs[i] \in Paths(d) /\ refs[i] # NoPath
<1>1. PICK k \in 0..MaxHits : refs \in [1..k -> Paths(d)]
  BY Zenon DEF Reports
<1>2. k \in Nat /\ DOMAIN refs = 1..k
  BY <1>1
<1>3. IsFiniteSet(1..k) /\ Cardinality(1..k) = k
  BY <1>2, FS_Interval
<1>4. Offered(s, refs) \in SUBSET (1..k)
  BY <1>2 DEF Offered, Find
<1>5. /\ IsFiniteSet(Offered(s, refs))
      /\ Cardinality(Offered(s, refs)) <= k
  BY <1>3, <1>4, FS_Subset
<1>6. Cardinality(Offered(s, refs)) \in Nat
  BY <1>5, FS_CardinalityType
<1>7. \A i \in Offered(s, refs) : refs[i] \in Paths(d) /\ refs[i] # NoPath
  BY <1>1, <1>4 DEF Offered, Find
<1>8. Offered(s, refs) \in SUBSET Nat
  BY <1>4
<1>9. MaxHits \in Nat => Cardinality(Offered(s, refs)) <= MaxHits
  BY <1>1, <1>2, <1>5, <1>6
<1>. QED
  BY <1>5, <1>6, <1>7, <1>8, <1>9

\* Augment puts one local source per offered position before the one there is.
LEMMA AugmentedSources ==
  ASSUME NEW d, NEW size, NEW x, NEW refs \in Reports(d)
  PROVE  LET s == [digest |-> d, size |-> size, sources |-> <<x>>]
             a == Augment(s, refs)
             c == Cardinality(Offered(s, refs))
         IN /\ a.digest = d
            /\ DOMAIN a.sources = 1..(c + 1)
            /\ \A n \in 1..c : a.sources[n] = LocalSource(s, refs, n)
            /\ a.sources[c + 1] = x
<1> DEFINE s == [digest |-> d, size |-> size, sources |-> <<x>>]
           c == Cardinality(Offered(s, refs))
           local == [n \in 1..c |-> LocalSource(s, refs, n)]
           all == {LocalSource(s, refs, n) : n \in 1..c} \cup {x}
<1>1. c \in Nat
  BY OfferedPositions
<1>2. Augment(s, refs) = [s EXCEPT !.sources = local \o @]
  BY Zenon DEF Augment, inFront, LocalSource
<1>3. Augment(s, refs).sources = local \o <<x>> /\ Augment(s, refs).digest = d
  BY <1>2
<1> HIDE DEF c
<1>4. local \in Seq(all) /\ Len(local) = c
  BY <1>1
<1>5. <<x>> \in Seq(all)
  OBVIOUS
<1> DEFINE joined == local \o <<x>>
<1>6. /\ DOMAIN joined = 1..(c + 1)
      /\ \A n \in 1..c : joined[n] = local[n]
      /\ joined[c + 1] = x
  BY <1>1, <1>4, <1>5
<1>7. \A n \in 1..c : joined[n] = LocalSource(s, refs, n)
  BY <1>6
<1>. QED
  BY <1>3, <1>6, <1>7 DEF c

-----------------------------------------------------------------------------
(***************************************************************************)
(* The inductive invariant: what the lookup keeps of what it has read.     *)
(***************************************************************************)
\* The registry's answer lists one commit, and names no other.
FromCommit(m) ==
  \E n \in DOMAIN Commits : m.siblings \in SetToSeqs(Commits[n]) /\ m.sha \in {Blank, CommitNames[n]}

HFResolved == LET s == HFSpec(meta, ref, token)
              IN s # NoSpec /\ spec.digest = s.digest
                 /\ \A i \in DOMAIN spec.sources :
                       spec.sources[i].scheme = "https" => spec.sources[i] = s.sources[1]

OllamaResolved == /\ spec.digest \in tagged
                  /\ \A i \in DOMAIN spec.sources : spec.sources[i].locator[2] = spec.digest

\* What a resolver returned, before local copies are added.
OneSource(s) == s = [digest |-> s.digest, size |-> s.size, sources |-> <<s.sources[1]>>]
                /\ s.sources[1].priority = 0

IsListed(layers) == \E n \in Nat : DOMAIN layers = 1..n

ResolverInv ==
  /\ at \in {"start", "asked", "answered", "read", "resolved", "done", "failed"}
  /\ head \in DOMAIN Commits
  /\ IsListed(manifest)
  /\ at \in {"asked", "answered"} => ref.registry = "hf"
  /\ at = "read" => ref.registry = "ollama" /\ layer = <<layer[1]>> /\ layer[1].digest \in tagged
  /\ at = "answered" \/ (at \in {"resolved", "done"} /\ ref.registry = "hf") => FromCommit(meta)
  /\ at \in {"resolved", "done"} /\ ref.registry = "hf" => HFResolved
  /\ at \in {"resolved", "done"} /\ ref.registry = "ollama" => OllamaResolved
  /\ at = "resolved" => OneSource(spec)
  /\ CredentialStaysHome

-----------------------------------------------------------------------------
(***************************************************************************)
(* Every step keeps it.                                                    *)
(***************************************************************************)
\* HFSpec, when it is not an error, describes the file that pick chose.
LEMMA HFSpecShape ==
  ASSUME NEW m, NEW r, NEW t, HFSpec(m, r, t) # NoSpec,
         NEW n \in DOMAIN Commits, m.siblings \in SetToSeqs(Commits[n])
  PROVE  \E f \in Commits[n] :
           HFSpec(m, r, t) =
             [digest |-> f.sha, size |-> HFSpec(m, r, t).size,
              sources |-> <<Source("https", <<"https", pinned(m, r), f.name>>, 0, hfAttrs(t, r.credential))>>]
<1>1. IsFiniteSet(Commits[n]) /\ UniqueNames(Commits[n])
  BY CommitsAssumption, Zenon DEF UniqueNames
<1>2. pick(m.siblings, r) # <<>>
  BY Zenon DEF HFSpec
<1>3. PICK f \in Commits[n] : pick(m.siblings, r) = <<f>>
  BY <1>1, <1>2, PickMeaning
<1>4. pick(m.siblings, r)[1] = f
  BY <1>3
<1>5. HFSpec(m, r, t) =
        [digest |-> f.sha,
         size |-> IF f.size = 0 /\ f.lfsSize > 0 THEN f.lfsSize ELSE f.size,
         sources |-> <<Source("https", <<"https", pinned(m, r), f.name>>, 0, hfAttrs(t, r.credential))>>]
  BY <1>4, Zenon DEF HFSpec
<1>6. ASSUME NEW size, NEW sources, NEW s, s = [digest |-> f.sha, size |-> size, sources |-> sources]
      PROVE  s = [digest |-> f.sha, size |-> s.size, sources |-> sources]
  BY <1>6
<1>7. HFSpec(m, r, t) =
        [digest |-> f.sha, size |-> HFSpec(m, r, t).size,
         sources |-> <<Source("https", <<"https", pinned(m, r), f.name>>, 0, hfAttrs(t, r.credential))>>]
  BY <1>5, <1>6 DEF Source
<1>. QED
  BY <1>7, Zenon

\* A repository has a first commit, and its commits are numbered from 1.
LEMMA CommitPositions == DOMAIN Commits = 1..Len(Commits) /\ Len(Commits) \in Nat /\ Len(Commits) # 0
BY CommitsAssumption

\* A manifest's layers are a list, whatever is wrong with it.
LEMMA ManifestsAreLists ==
  /\ \A layers \in Layers : IsListed(layers)
  /\ IsListed(NoModelLayer) /\ IsListed(OddDigest) /\ IsListed(Absent)
<1>1. ASSUME NEW a, NEW b PROVE DOMAIN <<a, b>> = 1..2
  OBVIOUS
<1>2. ASSUME NEW layers \in Layers PROVE IsListed(layers)
  BY <1>1 DEF Layers, IsListed
<1>3. ASSUME NEW a PROVE IsListed(<<a>>)
  <2>1. DOMAIN <<a>> = 1..1
    OBVIOUS
  <2>. QED
    BY <2>1 DEF IsListed
<1>4. IsListed(Absent)
  <2>1. DOMAIN Absent = 1..0
    BY DEF Absent
  <2>. QED
    BY <2>1 DEF IsListed
<1>. QED
  BY <1>2, <1>3, <1>4, Zenon DEF NoModelLayer, OddDigest

\* The invariant holds before the lookup has done anything.
LEMMA InitInv == ResolverInit => ResolverInv
<1> SUFFICES ASSUME ResolverInit PROVE ResolverInv
  OBVIOUS
<1>1. head \in DOMAIN Commits
  BY CommitPositions DEF ResolverInit
<1>2. CredentialStaysHome
  BY DEF ResolverInit, CredentialStaysHome
<1>3. IsListed(manifest)
  BY ManifestsAreLists DEF ResolverInit
<1>. QED
  BY <1>1, <1>2, <1>3 DEF ResolverInit, ResolverInv

\* The world's steps leave the lookup alone; a tag only adds to tagged.
LEMMA WorldInv == ResolverInv /\ World => ResolverInv'
<1> SUFFICES ASSUME ResolverInv, World PROVE ResolverInv'
  OBVIOUS
<1>1. UNCHANGED lookupVars /\ tagged \subseteq tagged' /\ head' \in DOMAIN Commits /\ IsListed(manifest')
  <2>1. CASE Push
    BY <2>1, CommitPositions DEF Push, ResolverInv, IsListed
  <2>2. ASSUME NEW layers \in Layers, OllamaPulls(layers)
        PROVE  UNCHANGED lookupVars /\ tagged \subseteq tagged' /\ head' \in DOMAIN Commits /\ IsListed(manifest')
    BY <2>2, ManifestsAreLists DEF OllamaPulls, Tag, ResolverInv
  <2>3. CASE OllamaRemoves
    BY <2>3, ManifestsAreLists DEF OllamaRemoves, ResolverInv
  <2>4. CASE OllamaPrunes
    BY <2>4 DEF OllamaPrunes, ResolverInv, IsListed
  <2>. QED
    BY <2>1, <2>2, <2>3, <2>4 DEF World
<1>2. /\ at' = at /\ ref' = ref /\ token' = token /\ meta' = meta
      /\ layer' = layer /\ carried' = carried /\ spec' = spec
  BY <1>1 DEF lookupVars
<1>3. HFResolved' = HFResolved
  BY <1>2 DEF HFResolved
<1>4. OllamaResolved => OllamaResolved'
  BY <1>1, <1>2 DEF OllamaResolved
<1>5. CredentialStaysHome' = CredentialStaysHome
  BY <1>2 DEF CredentialStaysHome
<1>. QED
  BY <1>1, <1>2, <1>3, <1>4, <1>5 DEF ResolverInv, FromCommit, IsListed

\* A lookup that failed, or has only asked, keeps nothing but its headers.
LEMMA NothingRead ==
  ASSUME ResolverInv, Keep, at' = "failed" \/ (at' = "asked" /\ ref.registry = "hf"), CredentialStaysHome'
  PROVE  ResolverInv'
BY DEF ResolverInv, Keep, worldVars, IsListed

\* A resolver that gives up (a return with an error) keeps the invariant.
LEMMA FailInv == ASSUME ResolverInv, Keep, Fail PROVE ResolverInv'
<1>1. CredentialStaysHome' /\ at' = "failed"
  BY DEF ResolverInv, Keep, Fail, CredentialStaysHome
<1>. QED
  BY <1>1, NothingRead

\* HF.Resolve up to the request keeps the invariant.
LEMMA AsksInv == ASSUME ResolverInv, NEW applies \in BOOLEAN, HFAsks(applies) PROVE ResolverInv'
<1>1. CASE Fail
  BY <1>1, FailInv DEF HFAsks
<1>2. CASE ~Fail
  <2>1. /\ at' = "asked" /\ ref.registry = "hf" /\ Keep
        /\ carried' = {<<Hub, hfAttrs(token, ref.credential)>>}
    BY <1>2 DEF HFAsks
  <2>2. CredentialStaysHome'
    <3>1. \A c \in carried' : c[1] = Hub
      BY <2>1
    <3>. QED
      BY <3>1, Zenon DEF CredentialStaysHome
  <2>. QED
    BY <2>1, <2>2, NothingRead
<1>. QED
  BY <1>1, <1>2

\* A redirect is followed only without a credential's headers (credentials.go).
LEMMA RedirectsInv == ASSUME ResolverInv, HFRedirects PROVE ResolverInv'
<1>1. CASE Fail
  BY <1>1, FailInv DEF HFRedirects
<1>2. CASE ~Fail
  <2>1. /\ at' = "asked" /\ ref.registry = "hf" /\ Keep /\ ref.credential = Blank
        /\ carried' = carried \cup {<<Mirror, ref.credential>>}
    BY <1>2 DEF HFRedirects, follows, ResolverInv
  <2>2. CredentialStaysHome'
    <3> DEFINE sent == <<Mirror, ref.credential>>
    <3>0. sent[2] = Blank
      BY <2>1
    <3>1. \A c \in carried' : c \in carried \/ c[2] = Blank
      <4> HIDE DEF sent
      <4>. QED
        BY <2>1, <3>0, Zenon DEF sent
    <3>2. CredentialStaysHome /\ ref' = ref
      BY <2>1 DEF ResolverInv, Keep
    <3>. QED
      BY <2>1, <3>1, <3>2, Zenon DEF CredentialStaysHome
  <2>. QED
    BY <2>1, <2>2, NothingRead
<1>. QED
  BY <1>1, <1>2

\* A registry that refuses keeps the invariant.
LEMMA RefusesInv == ASSUME ResolverInv, HFRefuses PROVE ResolverInv'
BY FailInv DEF HFRefuses

\* An answer lists the commit that the revision names now, and names no other.
LEMMA AnswersInv ==
  ASSUME ResolverInv, NEW listing, NEW sha, HFAnswers(listing, sha)
  PROVE  ResolverInv'
<1>1. CommitOf(revision(ref)) \in DOMAIN Commits
  <2>1. CASE revision(ref) = "main"
    BY <2>1 DEF CommitOf, ResolverInv
  <2>2. CASE revision(ref) # "main"
    BY <2>2 DEF CommitOf, HFAnswers, Known
  <2>. QED
    BY <2>1, <2>2
<1>2. FromCommit(meta')
  <2>1. meta'.siblings = listing /\ meta'.sha = sha
    BY DEF HFAnswers
  <2>. QED
    BY <1>1, <2>1 DEF FromCommit, HFAnswers
<1>3. CredentialStaysHome'
  BY DEF HFAnswers, Keep, ResolverInv, CredentialStaysHome
<1>. QED
  BY <1>2, <1>3 DEF HFAnswers, Keep, worldVars, ResolverInv, FromCommit, IsListed

\* HF.Resolve turns the answer into a spec with one source (hf.go).
LEMMA HFResolvesInv == ASSUME ResolverInv, HFResolves PROVE ResolverInv'
<1> DEFINE s == HFSpec(meta, ref, token)
<1>1. CASE Fail
  BY <1>1, FailInv DEF HFResolves
<1>2. CASE ~Fail
  <2>1. /\ s # NoSpec /\ at = "answered" /\ at' = "resolved" /\ spec' = s /\ Keep
        /\ meta' = meta /\ layer' = layer /\ carried' = carried /\ tagged' = tagged
    BY <1>2 DEF HFResolves
  <2>2. ref' = ref /\ token' = token /\ head' = head /\ manifest' = manifest /\ ref.registry = "hf" /\ FromCommit(meta)
    BY <2>1 DEF Keep, worldVars, ResolverInv
  <2>3. PICK n \in DOMAIN Commits : meta.siblings \in SetToSeqs(Commits[n])
    BY <2>2 DEF FromCommit
  <2>4. PICK f \in Commits[n] :
          s = [digest |-> f.sha, size |-> s.size,
               sources |-> <<Source("https", <<"https", pinned(meta, ref), f.name>>, 0,
                                    hfAttrs(token, ref.credential))>>]
    BY <2>1, <2>3, HFSpecShape
  <2>5. OneSource(s) /\ DOMAIN s.sources = {1}
    BY <2>4 DEF OneSource, Source
  <2>6. HFResolved'
    BY <2>1, <2>2, <2>5 DEF HFResolved
  <2>7. CredentialStaysHome'
    BY <2>1, <2>2 DEF CredentialStaysHome, ResolverInv
  <2>8. OneSource(spec')
    BY <2>1, <2>5
  <2>9. FromCommit(meta')
    BY <2>1, <2>2
  <2>. QED
    BY <2>1, <2>2, <2>6, <2>7, <2>8, <2>9 DEF ResolverInv, FromCommit, OneSource, IsListed
<1>. QED
  BY <1>1, <1>2

\* The weights are a model layer of the manifest.
LEMMA WeightsAreTagged ==
  ASSUME NEW layers, NEW n \in Nat, DOMAIN layers = 1..n, weights(layers) # <<>>
  PROVE  weights(layers) = <<weights(layers)[1]>> /\ weights(layers)[1].digest \in ModelLayers(layers)
<1> DEFINE models == {i \in DOMAIN layers : layers[i].model}
<1>1. models # {} /\ weights(layers) = <<layers[Min(models)]>>
  BY Zenon DEF weights
<1>2. models \in SUBSET Nat
  OBVIOUS
<1>3. Min(models) \in models
  BY <1>1, <1>2, MinOfPositions
<1> HIDE DEF models
<1> DEFINE l == layers[Min(models)]
<1>4. l \in ToSet(layers) /\ l.model
  BY <1>3 DEF models, ToSet
<1>5. l.digest \in ModelLayers(layers)
  BY <1>4 DEF ModelLayers
<1> HIDE DEF l
<1>. QED
  BY <1>1, <1>5 DEF l

\* The layer that was read is a model layer of the tag (ollama.go).
LEMMA OllamaReadsInv == ASSUME ResolverInv, OllamaReads PROVE ResolverInv'
<1>1. CASE Fail
  BY <1>1, FailInv DEF OllamaReads
<1>2. CASE ~Fail
  <2>1. /\ Usable(weights(manifest)) /\ layer' = weights(manifest) /\ tagged' = ModelLayers(manifest)
        /\ at' = "read" /\ ref.registry = "ollama" /\ Keep /\ carried' = carried
    BY <1>2 DEF OllamaReads
  <2>2. ref' = ref /\ head' = head /\ manifest' = manifest
    BY <2>1 DEF Keep, worldVars
  <2>3. layer' = <<layer'[1]>> /\ layer'[1].digest \in tagged'
    BY <2>1, WeightsAreTagged DEF ResolverInv, IsListed, Usable
  <2>4. CredentialStaysHome'
    BY <2>1, <2>2 DEF CredentialStaysHome, ResolverInv
  <2>. QED
    BY <2>1, <2>2, <2>3, <2>4 DEF ResolverInv, IsListed
<1>. QED
  BY <1>1, <1>2

\* The blob that is offered is the one the layer names (ollama.go).
LEMMA OllamaStatsInv == ASSUME ResolverInv, OllamaStats PROVE ResolverInv'
<1>1. CASE Fail
  BY <1>1, FailInv DEF OllamaStats
<1>2. CASE ~Fail
  <2>1. /\ at = "read" /\ at' = "resolved" /\ spec' = OllamaSpec(layer[1]) /\ Keep
        /\ carried' = carried /\ tagged' = tagged /\ meta' = meta /\ layer' = layer
    BY <1>2 DEF OllamaStats
  <2>2. /\ ref' = ref /\ head' = head /\ manifest' = manifest
        /\ ref.registry = "ollama" /\ layer[1].digest \in tagged
    BY <2>1 DEF Keep, worldVars, ResolverInv
  <2> DEFINE d == layer[1].digest
  <2>3. spec' = [digest |-> d, size |-> layer[1].size,
                 sources |-> <<Source("file", <<"blobs", d, Blank>>, 0, Blank)>>]
    BY <2>1 DEF OllamaSpec
  <2> HIDE DEF d
  <2>4. OneSource(spec') /\ spec'.digest = d /\ DOMAIN spec'.sources = {1} /\ spec'.sources[1].locator[2] = d
    <3>1. ASSUME NEW x PROVE OneSource([digest |-> d, size |-> layer[1].size, sources |-> <<x>>]) <=> x.priority = 0
      BY DEF OneSource
    <3> DEFINE x == Source("file", <<"blobs", d, Blank>>, 0, Blank)
    <3>2. x.priority = 0 /\ x.locator = <<"blobs", d, Blank>>
      BY SourceFields
    <3>3. <<"blobs", d, Blank>>[2] = d
      OBVIOUS
    <3> HIDE DEF x
    <3>4. spec' = [digest |-> d, size |-> layer[1].size, sources |-> <<x>>]
      BY <2>3 DEF x
    <3>5. spec'.digest = d /\ DOMAIN spec'.sources = {1} /\ spec'.sources[1] = x
      BY <3>4
    <3>6. spec'.sources[1].locator[2] = d
      BY <3>2, <3>3, <3>5, Zenon
    <3>. QED
      BY <3>1, <3>2, <3>4, <3>5, <3>6
  <2>5. OllamaResolved'
    BY <2>1, <2>2, <2>4 DEF OllamaResolved, d
  <2>6. CredentialStaysHome'
    BY <2>1, <2>2 DEF CredentialStaysHome, ResolverInv
  <2>. QED
    BY <2>1, <2>2, <2>4, <2>5, <2>6 DEF ResolverInv, IsListed, OneSource
<1>. QED
  BY <1>1, <1>2

\* What Returns does to a spec with one source.
LEMMA Returned ==
  ASSUME ResolverInv, at = "resolved", NEW refs \in Reports(spec.digest), spec' = Augment(spec, refs)
  PROVE  LET offered == Offered(spec, refs)
             c == Cardinality(offered)
         IN /\ spec'.digest = spec.digest /\ DOMAIN spec.sources = {1} /\ spec.sources[1].priority = 0
            /\ c \in Nat /\ DOMAIN spec'.sources = 1..(c + 1) /\ spec'.sources[c + 1] = spec.sources[1]
            /\ \A n \in 1..c : /\ Nth(offered, n) \in offered
                               /\ spec'.sources[n] = Source("file", refs[Nth(offered, n)], n - 101, Blank)
                               /\ refs[Nth(offered, n)] \in Paths(spec.digest)
                               /\ refs[Nth(offered, n)] # NoPath
                               /\ Cardinality(Before(offered, Nth(offered, n))) = n - 1
<1> DEFINE offered == Offered(spec, refs)
           c == Cardinality(offered)
<1>1. OneSource(spec)
  BY DEF ResolverInv
<1>2. PICK d, size, x : spec = [digest |-> d, size |-> size, sources |-> <<x>>] /\ x.priority = 0
  BY <1>1 DEF OneSource
<1>3. spec.digest = d /\ spec.sources[1] = x /\ DOMAIN spec.sources = {1}
  BY <1>2
<1>4. /\ offered \in SUBSET Nat /\ IsFiniteSet(offered) /\ c \in Nat
      /\ \A i \in offered : refs[i] \in Paths(spec.digest) /\ refs[i] # NoPath
  BY OfferedPositions
<1>5. /\ Augment(spec, refs).digest = d
      /\ DOMAIN Augment(spec, refs).sources = 1..(c + 1)
      /\ \A n \in 1..c : Augment(spec, refs).sources[n] = LocalSource(spec, refs, n)
      /\ Augment(spec, refs).sources[c + 1] = x
  BY <1>2, <1>3, AugmentedSources
<1> HIDE DEF c, offered
<1>6. \A n \in 1..c : Nth(offered, n) \in offered /\ Cardinality(Before(offered, Nth(offered, n))) = n - 1
  BY <1>4, NthPosition DEF c
<1>7. \A n \in 1..c : spec'.sources[n] = Source("file", refs[Nth(offered, n)], n - 101, Blank)
  <2> SUFFICES ASSUME NEW n \in 1..c PROVE spec'.sources[n] = Source("file", refs[Nth(offered, n)], n - 101, Blank)
    OBVIOUS
  <2>1. -100 + (n - 1) = n - 101
    BY <1>4
  <2>. QED
    BY <1>5, <2>1, Zenon DEF LocalSource, offered
<1>. QED
  BY <1>2, <1>3, <1>4, <1>5, <1>6, <1>7 DEF c, offered

\* Augment adds local copies of the same digest, and keeps the resolver's source (local.go).
LEMMA ReturnsInv ==
  ASSUME ResolverInv, at = "resolved", NEW refs \in Reports(spec.digest), Returns(refs)
  PROVE  ResolverInv'
<1> DEFINE offered == Offered(spec, refs)
           c == Cardinality(offered)
<1>1. /\ at' = "done" /\ spec' = Augment(spec, refs) /\ Keep /\ meta' = meta /\ layer' = layer
      /\ carried' = carried /\ tagged' = tagged
  BY DEF Returns
<1>2. ref' = ref /\ token' = token /\ head' = head /\ manifest' = manifest
  BY <1>1 DEF Keep, worldVars
<1>3. /\ spec'.digest = spec.digest /\ DOMAIN spec.sources = {1}
      /\ c \in Nat /\ DOMAIN spec'.sources = 1..(c + 1) /\ spec'.sources[c + 1] = spec.sources[1]
      /\ \A n \in 1..c : /\ spec'.sources[n] = Source("file", refs[Nth(offered, n)], n - 101, Blank)
                         /\ refs[Nth(offered, n)] \in Paths(spec.digest)
                         /\ refs[Nth(offered, n)] # NoPath
  BY <1>1, Returned
<1> HIDE DEF c
<1>4. ASSUME NEW n \in 1..(c + 1)
      PROVE  \/ spec'.sources[n] = spec.sources[1]
             \/ spec'.sources[n].scheme = "file" /\ spec'.sources[n].locator[2] = spec.digest
  <2>1. CASE n = c + 1
    BY <1>3, <2>1
  <2>2. CASE n # c + 1
    <3>0. c \in Nat
      BY <1>3
    <3>1. n \in 1..c
      BY <2>2, <3>0
    <3> DEFINE path == refs[Nth(offered, n)]
    <3>2. path \in Paths(spec.digest) /\ path # NoPath /\ spec'.sources[n] = Source("file", path, n - 101, Blank)
      BY <1>3, <3>1
    <3> HIDE DEF path
    <3>3. path[2] = spec.digest
      BY <3>2, PathShape
    <3>4. spec'.sources[n].scheme = "file" /\ spec'.sources[n].locator = path
      BY <3>2, SourceFields
    <3>. QED
      BY <3>3, <3>4
  <2>. QED
    BY <2>1, <2>2
<1>5. ref.registry = "hf" => HFResolved'
  <2> SUFFICES ASSUME ref.registry = "hf" PROVE HFResolved'
    OBVIOUS
  <2>1. HFResolved
    BY DEF ResolverInv
  <2>. QED
    BY <1>1, <1>2, <1>3, <1>4, <2>1 DEF HFResolved
<1>6. ref.registry = "ollama" => OllamaResolved'
  <2> SUFFICES ASSUME ref.registry = "ollama" PROVE OllamaResolved'
    OBVIOUS
  <2>1. OllamaResolved
    BY DEF ResolverInv
  <2>. QED
    BY <1>1, <1>2, <1>3, <1>4, <2>1 DEF OllamaResolved
<1>7. CredentialStaysHome'
  BY <1>1, <1>2 DEF CredentialStaysHome, ResolverInv
<1>. QED
  BY <1>1, <1>2, <1>5, <1>6, <1>7 DEF ResolverInv, IsListed, FromCommit

\* A step of something else keeps the invariant.
LEMMA StutterInv == ResolverInv /\ UNCHANGED resolverVars => ResolverInv'
BY DEF ResolverInv, resolverVars, worldVars, lookupVars, IsListed, FromCommit, HFResolved,
       OllamaResolved, OneSource, CredentialStaysHome

\* The inductive invariant holds of every lookup.
THEOREM ResolverInvariant == ResolverSpec => []ResolverInv
<1>1. ResolverInit => ResolverInv
  BY InitInv
<1>2. ResolverInv /\ [ResolverNext]_resolverVars => ResolverInv'
  <2> SUFFICES ASSUME ResolverInv, [ResolverNext]_resolverVars PROVE ResolverInv'
    OBVIOUS
  <2>1. CASE World
    BY <2>1, WorldInv
  <2>2. ASSUME NEW applies \in BOOLEAN, HFAsks(applies) PROVE ResolverInv'
    BY <2>2, AsksInv
  <2>3. CASE HFRedirects
    BY <2>3, RedirectsInv
  <2>4. CASE HFRefuses
    BY <2>4, RefusesInv
  <2>5. ASSUME NEW listing, NEW sha, HFAnswers(listing, sha) PROVE ResolverInv'
    BY <2>5, AnswersInv
  <2>6. CASE HFResolves
    BY <2>6, HFResolvesInv
  <2>7. CASE OllamaReads
    BY <2>7, OllamaReadsInv
  <2>8. CASE OllamaStats
    BY <2>8, OllamaStatsInv
  <2>9. ASSUME at = "resolved", NEW refs \in Reports(spec.digest), Returns(refs) PROVE ResolverInv'
    BY <2>9, ReturnsInv
  <2>10. CASE UNCHANGED resolverVars
    BY <2>10, StutterInv
  <2>. QED
    BY <2>1, <2>2, <2>3, <2>4, <2>5, <2>6, <2>7, <2>8, <2>9, <2>10 DEF ResolverNext
<1>. QED
  BY <1>1, <1>2, PTL DEF ResolverSpec

-----------------------------------------------------------------------------
(***************************************************************************)
(* The properties.                                                         *)
(***************************************************************************)
\* A commit's name leads back to the commit.
LEMMA NameOfCommit == ASSUME NEW n \in DOMAIN Commits PROVE CommitOf(CommitNames[n]) = n
<1>1. CommitNames[n] # "main" /\ \A m \in DOMAIN Commits : CommitNames[m] = CommitNames[n] => m = n
  BY CommitsAssumption
<1>. QED
  BY <1>1 DEF CommitOf

\* Once the registry named the commit it answered from (hf.go pins the source to
\* it), the source names a file with the spec's digest for ever, whatever is
\* pushed to the branch: for every history of a repository.
THEOREM PinnedToTheBytes == ResolverSpec => []PinnedBytes
<1>1. ResolverInv => PinnedBytes
  <2> SUFFICES ASSUME ResolverInv, at \in {"resolved", "done"}, ref.registry = "hf", meta.sha # Blank,
                      NEW i \in DOMAIN spec.sources, spec.sources[i].scheme = "https"
               PROVE  {f.sha : f \in Served(spec.sources[i].locator)} = {spec.digest}
    BY DEF PinnedBytes, Sources
  <2> DEFINE s == HFSpec(meta, ref, token)
  <2>1. FromCommit(meta) /\ s # NoSpec /\ spec.digest = s.digest /\ spec.sources[i] = s.sources[1]
    BY DEF ResolverInv, HFResolved
  <2>2. PICK n \in DOMAIN Commits : meta.siblings \in SetToSeqs(Commits[n]) /\ meta.sha = CommitNames[n]
    BY <2>1 DEF FromCommit
  <2>3. PICK f \in Commits[n] :
          s = [digest |-> f.sha, size |-> s.size,
               sources |-> <<Source("https", <<"https", pinned(meta, ref), f.name>>, 0,
                                    hfAttrs(token, ref.credential))>>]
    BY <2>1, <2>2, HFSpecShape
  <2> HIDE DEF s
  <2>4. s.digest = f.sha /\ s.sources[1].locator = <<"https", CommitNames[n], f.name>>
    <3>1. pinned(meta, ref) = CommitNames[n]
      BY <2>2 DEF pinned
    <3> DEFINE x == Source("https", <<"https", CommitNames[n], f.name>>, 0, hfAttrs(token, ref.credential))
    <3>2. x.locator = <<"https", CommitNames[n], f.name>>
      BY SourceFields
    <3> HIDE DEF x
    <3>3. s = [digest |-> f.sha, size |-> s.size, sources |-> <<x>>]
      BY <2>3, <3>1 DEF x
    <3>. QED
      BY <3>2, <3>3
  <2>5. Served(<<"https", CommitNames[n], f.name>>) = {f}
    <3>1. CommitOf(CommitNames[n]) = n
      BY NameOfCommit
    <3>2. \A g \in Commits[n] : g.name = f.name => g = f
      BY CommitsAssumption, Zenon
    <3> DEFINE l == <<"https", CommitNames[n], f.name>>
    <3>3. l[2] = CommitNames[n] /\ l[3] = f.name
      OBVIOUS
    <3> HIDE DEF l
    <3>4. Served(l) = {g \in Commits[n] : g.name = f.name}
      BY <3>1, <3>3 DEF Served
    <3>5. Served(l) = {f}
      BY <3>2, <3>4
    <3>. QED
      BY <3>5 DEF l
  <2>6. spec.sources[i].locator = <<"https", CommitNames[n], f.name>>
    BY <2>1, <2>4
  <2>7. Served(spec.sources[i].locator) = {f}
    BY <2>5, <2>6
  <2>8. spec.digest = f.sha
    BY <2>1, <2>4
  <2>. QED
    BY <2>7, <2>8
<1>. QED
  BY <1>1, ResolverInvariant, PTL

\* A reference means one file in every order the registry may list a commit, or is
\* refused in every order ("Refuse to guess", pick in hf.go): for every commit.
THEOREM ListingOrderIrrelevant == ResolverSpec => []AnyListingOrder
<1>1. ResolverInv => AnyListingOrder
  <2> SUFFICES ASSUME ResolverInv, at = "answered", NEW other \in SetToSeqs(ToSet(meta.siblings))
               PROVE  pick(other, ref) = pick(meta.siblings, ref)
    BY DEF AnyListingOrder
  <2>1. PICK n \in DOMAIN Commits : meta.siblings \in SetToSeqs(Commits[n])
    BY DEF ResolverInv, FromCommit
  <2>2. IsFiniteSet(Commits[n]) /\ UniqueNames(Commits[n])
    BY CommitsAssumption, Zenon DEF UniqueNames
  <2>3. ToSet(meta.siblings) = Commits[n]
    BY <2>1, <2>2, Listing
  <2>4. other \in SetToSeqs(Commits[n])
    BY <2>3
  <2> DEFINE S == Commits[n]
             Decided(s) == \/ pick(s, ref) = <<>> /\ ~\E f \in S : Meant(S, ref) = {f}
                           \/ \E f \in S : Meant(S, ref) = {f} /\ pick(s, ref) = <<f>>
  <2>5. Decided(other)
    BY <2>2, <2>4, PickMeaning
  <2>6. Decided(meta.siblings)
    BY <2>1, <2>2, PickMeaning
  <2>. QED
    BY <2>5, <2>6
<1>. QED
  BY <1>1, ResolverInvariant, PTL

\* The headers of a named credential reach no host but the hub (applyCredential's
\* client in credentials.go stops at a redirect).
THEOREM CredentialNeverLeaves == ResolverSpec => []CredentialStaysHome
<1>1. ResolverInv => CredentialStaysHome
  BY DEF ResolverInv
<1>. QED
  BY <1>1, ResolverInvariant, PTL

\* An Ollama reference gives a model layer its tag had since the manifest was read,
\* and offers only files named by that digest (ollama.go, Augment in local.go).
THEOREM TagHonoured == ResolverSpec => []TagIsHonoured
<1>1. ResolverInv => TagIsHonoured
  <2> SUFFICES ASSUME ResolverInv, at \in {"resolved", "done"}, ref.registry = "ollama"
               PROVE  spec.digest \in tagged /\ \A s \in Sources : s.locator[2] = spec.digest
    BY DEF TagIsHonoured
  <2>1. OllamaResolved
    BY DEF ResolverInv
  <2>. QED
    BY <2>1 DEF OllamaResolved, Sources
<1>. QED
  BY <1>1, ResolverInvariant, PTL

\* The answer is given by Returns, and by no other step.
LEMMA OnlyReturns ==
  ASSUME ResolverInv, [ResolverNext]_resolverVars, at = "resolved", at' = "done"
  PROVE  \E refs \in Reports(spec.digest) : Returns(refs)
BY DEF ResolverNext, World, Push, OllamaPulls, OllamaRemoves, OllamaPrunes, HFAsks, HFRedirects, HFRefuses,
       HFAnswers, HFResolves, OllamaReads, OllamaStats, resolverVars, lookupVars

\* Existing files that are one file have one key.
LEMMA KeyOfExisting ==
  ASSUME NEW p, NEW q, Exists(p), Exists(q), Final(p) = Final(q)
  PROVE  placeKey(p) = placeKey(q)
BY Zenon DEF placeKey

\* One file is offered once, and in order of priority, for as many stores as there
\* are priorities below the resolver's own: Augment counts up from -100 (local.go).
THEOREM OfferedOnce ==
  ASSUME MaxHits \in Nat, MaxHits <= 101
  PROVE  ResolverSpec => OneSourcePerFile
<1> DEFINE there == {i \in DOMAIN spec'.sources : spec'.sources[i].scheme = "file" /\ Exists(spec'.sources[i].locator)}
           Once == /\ \A i, j \in there : Final(spec'.sources[i].locator) = Final(spec'.sources[j].locator) => i = j
                   /\ \A i, j \in DOMAIN spec'.sources :
                         i < j => \/ spec'.sources[i].priority < spec'.sources[j].priority
                                  \/ spec'.sources[i].priority = 0 /\ spec'.sources[j].priority = 0
<1>1. ASSUME ResolverInv, [ResolverNext]_resolverVars, at = "resolved", at' = "done" PROVE Once
  <2>1. PICK refs \in Reports(spec.digest) : Returns(refs)
    BY <1>1, OnlyReturns
  <2> DEFINE offered == Offered(spec, refs)
             c == Cardinality(offered)
             path(n) == refs[Nth(offered, n)]
  <2>2. spec' = Augment(spec, refs)
    BY <2>1 DEF Returns
  <2>3. /\ DOMAIN spec.sources = {1} /\ spec.sources[1].priority = 0
        /\ c \in Nat /\ DOMAIN spec'.sources = 1..(c + 1) /\ spec'.sources[c + 1] = spec.sources[1]
        /\ \A n \in 1..c : /\ Nth(offered, n) \in offered
                           /\ spec'.sources[n] = Source("file", path(n), n - 101, Blank)
                           /\ Cardinality(Before(offered, Nth(offered, n))) = n - 1
    BY <1>1, <2>2, Returned
  <2>4. offered \in SUBSET Nat /\ c <= MaxHits
    BY OfferedPositions
  <2>5. ASSUME NEW n \in 1..c
        PROVE  spec'.sources[n].locator = path(n) /\ spec'.sources[n].priority = n - 101
    <3>1. spec'.sources[n] = Source("file", path(n), n - 101, Blank)
      BY <2>3
    <3> HIDE DEF path
    <3>. QED
      BY <3>1, SourceFields
  <2>6. ASSUME NEW p \in offered, NEW q \in offered, placeKey(refs[p]) = placeKey(refs[q]) PROVE p = q
    <3>1. p \in Nat /\ q \in Nat /\ p \in Find(refs) /\ q \in Find(refs)
      BY <2>4 DEF Offered
    <3>2. ~(p < q) /\ ~(q < p)
      BY <2>6, <3>1 DEF Offered
    <3>. QED
      BY <3>1, <3>2
  <2>7. ASSUME NEW p \in offered, spec.sources[1].scheme = "file"
        PROVE  placeKey(spec.sources[1].locator) # placeKey(refs[p])
    BY <2>3, <2>7 DEF Offered
  <2> HIDE DEF offered, c
  <2>8. ASSUME NEW i \in 1..c, NEW j \in 1..c, placeKey(path(i)) = placeKey(path(j)) PROVE i = j
    <3>1. Nth(offered, i) = Nth(offered, j)
      BY <2>3, <2>6, <2>8
    <3>2. i - 1 = j - 1
      BY <2>3, <3>1
    <3>. QED
      BY <2>3, <3>2
  <2>9. ASSUME NEW i \in there, NEW j \in there, i < j,
               Final(spec'.sources[i].locator) = Final(spec'.sources[j].locator)
        PROVE  FALSE
    <3>1. i \in 1..c /\ j \in 1..(c + 1)
      BY <2>3, <2>9
    <3>2. placeKey(spec'.sources[i].locator) = placeKey(spec'.sources[j].locator)
      BY <2>9, KeyOfExisting
    <3>3. spec'.sources[i].locator = path(i) /\ Nth(offered, i) \in offered
      BY <2>3, <2>5, <3>1
    <3>4. CASE j = c + 1
      <4>1. spec'.sources[j] = spec.sources[1] /\ spec.sources[1].scheme = "file"
        BY <2>3, <3>4
      <4>. QED
        BY <2>7, <3>2, <3>3, <4>1
    <3>5. CASE j # c + 1
      <4>1. j \in 1..c
        BY <2>3, <3>1, <3>5
      <4>2. spec'.sources[j].locator = path(j)
        BY <2>5, <4>1
      <4>3. i = j
        BY <2>8, <3>1, <3>2, <3>3, <4>1, <4>2
      <4>. QED
        BY <2>3, <2>9, <3>1, <4>3
    <3>. QED
      BY <3>4, <3>5
  <2>10. \A i, j \in there : Final(spec'.sources[i].locator) = Final(spec'.sources[j].locator) => i = j
    <3> SUFFICES ASSUME NEW i \in there, NEW j \in there,
                        Final(spec'.sources[i].locator) = Final(spec'.sources[j].locator)
                 PROVE  i = j
      BY Zenon
    <3>1. ~(i < j) /\ ~(j < i)
      BY <2>9, Zenon
    <3>2. i \in Nat /\ j \in Nat
      BY <2>3
    <3>. QED
      BY <3>1, <3>2
  <2>11. ASSUME NEW i \in DOMAIN spec'.sources, NEW j \in DOMAIN spec'.sources, i < j
         PROVE  \/ spec'.sources[i].priority < spec'.sources[j].priority
                \/ spec'.sources[i].priority = 0 /\ spec'.sources[j].priority = 0
    <3>1. c \in Nat /\ i \in 1..c /\ j \in 1..(c + 1) /\ i <= 101
      BY <2>3, <2>4, <2>11
    <3>2. spec'.sources[i].priority = i - 101
      BY <2>5, <3>1
    <3>3. CASE j = c + 1
      <4>1. spec'.sources[j].priority = 0
        BY <2>3, <3>3
      <4>. QED
        BY <3>1, <3>2, <4>1
    <3>4. CASE j # c + 1
      <4>1. j \in 1..c
        BY <3>1, <3>4
      <4>2. spec'.sources[j].priority = j - 101
        BY <2>5, <4>1
      <4>. QED
        BY <2>11, <3>1, <3>2, <4>2
    <3>. QED
      BY <3>3, <3>4
  <2>. QED
    BY <2>10, <2>11, Zenon
<1>2. ResolverInv /\ [ResolverNext]_resolverVars => [at = "resolved" /\ at' = "done" => Once]_resolverVars
  BY <1>1, Zenon
<1>. QED
  BY <1>2, ResolverInvariant, PTL DEF ResolverSpec, OneSourcePerFile
=============================================================================
