----------------------------- MODULE Resolvers ------------------------------
(***************************************************************************)
(* The two resolvers that come with the library and the local lookup: HF   *)
(* (go/hf.go with applyCredential of go/credentials.go), Ollama            *)
(* (go/ollama.go), Find and Augment (go/local.go).  A lookup is several    *)
(* requests and reads, and the world goes on between them: a branch of the *)
(* hub gets new commits, Ollama pulls, tags and removes models, a registry *)
(* lists files in any order or redirects.                                  *)
(***************************************************************************)
EXTENDS Integers, Sequences, SequencesExt, FiniteSets, Positions

CONSTANTS Commits,      \* the hub's commits in order: a set of files each
          CommitNames,  \* the name of each commit
          Refs,         \* the references that are looked up
          Digests,      \* what Ollama can hold
          MaxHits       \* bound: copies the local stores report

Blank == ""             \* the empty string

\* A commit holds one file under a name, and its own name is no branch's.
ASSUME CommitsAssumption ==
  /\ Len(Commits) \in Nat \ {0} /\ DOMAIN Commits = 1..Len(Commits)
  /\ \A n \in DOMAIN Commits :
       /\ IsFiniteSet(Commits[n]) /\ \A f, g \in Commits[n] : f.name = g.name => f = g
       /\ CommitNames[n] \notin {Blank, "main"}
       /\ \A m \in DOMAIN Commits : CommitNames[m] = CommitNames[n] => m = n

VARIABLES head,         \* the commit the branch main is at
          manifest,     \* Ollama's tag: layers in order, or what is wrong with it
          blobs,        \* Ollama's blobs, by digest
          ref, token,   \* the reference; does this process have a token of its own?
          at, meta, layer,      \* where the lookup is and what it has read
          tagged,       \* model layers the tag had since the manifest was read
          carried,      \* <<host, headers>> of the requests that were sent
          spec          \* what the lookup returned
worldVars == <<head, manifest, blobs>>
lookupVars == <<ref, token, at, meta, layer, carried, spec>>
resolverVars == <<worldVars, tagged, lookupVars>>

None == "none"
NoSpec == [digest |-> None, size |-> 0, sources |-> <<>>]
Hub == "hub"
Mirror == "mirror"

\* A locator is <<"https", revision, file>> or a path <<directory, digest, spelling>>.
Source(scheme, locator, priority, credential) ==
  [scheme |-> scheme, locator |-> locator, priority |-> priority, credential |-> credential]

-----------------------------------------------------------------------------
(***************************************************************************)
(* hf.go                                                                   *)
(***************************************************************************)
validRepo(repo) == repo \notin {"empty", "suspicious", "no org"}
validFilename(f) == f.sane

\* Mutant: "the first one".
OnlyFirst(matched) == matched # {}

\* One candidate, or a refusal to guess.
Only(matched) == Cardinality(matched) = 1

\* pick: the file, as a sequence of at most one.
pick(files, r) ==
  LET named == {i \in DOMAIN files : files[i].name = r.file}
      ggufs == {i \in DOMAIN files : files[i].gguf}
      matched == IF r.quant = Blank THEN ggufs ELSE {i \in ggufs : r.quant \in files[i].quants}
  IN CASE r.file # Blank -> IF named = {} THEN <<>> ELSE <<files[Min(named)]>>
       [] r.file = Blank -> IF Only(matched) THEN <<files[Min(matched)]>> ELSE <<>>

hfAttrs(hasToken, credential) ==
  CASE credential # Blank -> credential [] credential = Blank /\ hasToken -> "hf" [] OTHER -> Blank

revision(r) == IF r.revision = Blank THEN "main" ELSE r.revision

\* Mutant: the source names the branch that was asked for.
pinnedBranch(m, r) == revision(r)

pinned(m, r) == IF m.sha # Blank THEN m.sha ELSE revision(r)

\* The rest of Resolve once the registry's answer is there; NoSpec is an error.
HFSpec(m, r, hasToken) ==
  LET chosen == pick(m.siblings, r)
      f == chosen[1]
  IN IF chosen = <<>> \/ (chosen # <<>> /\ (~validFilename(f) \/ f.sha = Blank)) THEN NoSpec
     ELSE [digest |-> f.sha,
           size |-> IF f.size = 0 /\ f.lfsSize > 0 THEN f.lfsSize ELSE f.size,
           sources |-> <<Source("https", <<"https", pinned(m, r), f.name>>, 0,
                                hfAttrs(hasToken, r.credential))>>]

\* Mutant: the client with the credential's headers follows redirects.
followsAlways(r) == TRUE

\* applyCredential's client stops at a redirect; any other follows it.
follows(r) == r.credential = Blank

-----------------------------------------------------------------------------
(***************************************************************************)
(* ollama.go                                                               *)
(***************************************************************************)
\* Mutant: the weights are the first layer.
weightsFirst(layers) == IF layers = <<>> THEN <<>> ELSE <<layers[1]>>

\* The model layer, as a sequence of at most one.
weights(layers) ==
  LET models == {i \in DOMAIN layers : layers[i].model}
  IN IF models = {} THEN <<>> ELSE <<layers[Min(models)]>>

NotSHA256 == "not sha256"     \* a layer's digest of another length
Usable(w) == w # <<>> /\ w[1].digest # NotSHA256

OllamaSpec(l) ==
  [digest |-> l.digest, size |-> l.size, sources |-> <<Source("file", <<"blobs", l.digest, Blank>>, 0, Blank)>>]

-----------------------------------------------------------------------------
(***************************************************************************)
(* local.go.  "blobs" and "link" are one directory of the disk, "cache" is *)
(* another; a store without a filesystem gives no path.                    *)
(***************************************************************************)
NoPath == <<>>
Clean(p) == <<p[1], p[2], Blank>>
Final(p) == <<IF p[1] = "link" THEN "blobs" ELSE p[1], p[2], Blank>>
Exists(p) == p[1] = "cache" \/ p[2] \in blobs

\* Mutant: paths are compared as they are spelled.
placeKeySpelling(p) == Clean(p)

placeKey(p) == IF Exists(p) THEN Final(p) ELSE Clean(p)

\* Find: which of the stores' answers have a path.
Find(refs) == {i \in DOMAIN refs : refs[i] # NoPath}

inFront(local, sources) == local \o sources

\* The hits that are offered: no resolver's source and no earlier hit has the same key.
Offered(s, refs) ==
  {i \in Find(refs) :
     /\ \A k \in DOMAIN s.sources :
           s.sources[k].scheme = "file" => placeKey(s.sources[k].locator) # placeKey(refs[i])
     /\ \A j \in Find(refs) : j < i => placeKey(refs[j]) # placeKey(refs[i])}

Augment(s, refs) ==
  LET offered == Offered(s, refs)
      local == [n \in 1..Cardinality(offered) |-> Source("file", refs[Nth(offered, n)], -100 + (n - 1), Blank)]
  IN [s EXCEPT !.sources = inFront(local, @)]

-----------------------------------------------------------------------------
\* What the local stores may report: copies under any spelling, in any order,
\* some of them gone by the time they are looked at.
Paths(d) == {NoPath} \cup {"blobs", "link", "cache"} \X {d} \X {Blank, "./"}
Reports(d) == UNION {[1..n -> Paths(d)] : n \in 0..MaxHits}

Layers == {<<[model |-> FALSE, digest |-> "template", size |-> 1], [model |-> TRUE, digest |-> d, size |-> 2]>> :
             d \in Digests}
NoModelLayer == <<[model |-> FALSE, digest |-> "template", size |-> 1]>>
OddDigest == <<[model |-> TRUE, digest |-> NotSHA256, size |-> 1]>>
Absent == <<>>      \* no manifest, or one that cannot be read

ResolverInit ==
  /\ head = 1 /\ manifest \in Layers \cup {NoModelLayer, OddDigest, Absent}
  /\ blobs = {l.digest : l \in ToSet(manifest)}
  /\ ref \in Refs /\ token \in BOOLEAN
  /\ at = "start" /\ meta = None /\ layer = <<>> /\ tagged = {} /\ carried = {} /\ spec = NoSpec

(***************************************************************************)
(* The world goes on.                                                      *)
(***************************************************************************)
ModelLayers(layers) == {l.digest : l \in {k \in ToSet(layers) : k.model}}
Tag(layers) == manifest' = layers /\ tagged' = IF layer = <<>> THEN tagged ELSE tagged \cup ModelLayers(layers)
Push == head < Len(Commits) /\ head' = head + 1 /\ UNCHANGED <<manifest, blobs, tagged, lookupVars>>
OllamaPulls(layers) == /\ blobs' = blobs \cup {l.digest : l \in ToSet(layers)} /\ Tag(layers)
                       /\ UNCHANGED <<head, lookupVars>>
OllamaRemoves == /\ manifest' = Absent /\ UNCHANGED <<head, blobs, tagged, lookupVars>>
OllamaPrunes == /\ blobs' = {l.digest : l \in ToSet(manifest)} /\ UNCHANGED <<head, manifest, tagged, lookupVars>>
World == Push \/ (\E layers \in Layers : OllamaPulls(layers)) \/ OllamaRemoves \/ OllamaPrunes

(***************************************************************************)
(* The lookup.                                                             *)
(***************************************************************************)
Fail == at' = "failed" /\ UNCHANGED <<meta, layer, carried, spec>>
Keep == UNCHANGED <<worldVars, ref, token>>

\* HF.Resolve up to the request; applies says what the applier in the context does.
HFAsks(applies) ==
  /\ at = "start" /\ ref.registry = "hf"
  /\ IF ~validRepo(ref.repo) \/ (ref.credential # Blank /\ ~applies) THEN Fail
     ELSE /\ at' = "asked" /\ UNCHANGED <<meta, layer, spec>>
          /\ carried' = {<<Hub, hfAttrs(token, ref.credential)>>}
  /\ Keep /\ UNCHANGED tagged

\* A redirect to another host; the headers of a credential would go along.
HFRedirects ==
  /\ at = "asked"
  /\ IF follows(ref)
     THEN carried' = carried \cup {<<Mirror, ref.credential>>} /\ UNCHANGED <<at, meta, layer, spec>>
     ELSE Fail
  /\ Keep /\ UNCHANGED tagged

HFRefuses == at = "asked" /\ Fail /\ Keep /\ UNCHANGED tagged

\* A branch is answered from where it is now.
CommitOf(rev) == IF rev = "main" THEN head ELSE CHOOSE n \in DOMAIN Commits : CommitNames[n] = rev
Known(rev) == rev = "main" \/ \E n \in DOMAIN Commits : CommitNames[n] = rev

HFAnswers(listing, sha) ==
  /\ at = "asked" /\ Known(revision(ref))
  /\ listing \in SetToSeqs(Commits[CommitOf(revision(ref))])
  /\ sha \in {Blank, CommitNames[CommitOf(revision(ref))]}
  /\ meta' = [sha |-> sha, siblings |-> listing] /\ at' = "answered"
  /\ UNCHANGED <<layer, carried, spec>> /\ Keep /\ UNCHANGED tagged

HFResolves ==
  /\ at = "answered"
  /\ LET s == HFSpec(meta, ref, token)
     IN IF s = NoSpec THEN Fail ELSE at' = "resolved" /\ spec' = s /\ UNCHANGED <<meta, layer, carried>>
  /\ Keep /\ UNCHANGED tagged

OllamaReads ==
  /\ at = "start" /\ ref.registry = "ollama"
  /\ LET w == weights(manifest)
     IN IF ref.repo = "suspicious" \/ ~Usable(w) THEN Fail /\ UNCHANGED tagged
        ELSE /\ at' = "read" /\ layer' = w /\ UNCHANGED <<meta, carried, spec>>
             /\ tagged' = ModelLayers(manifest)
  /\ Keep

OllamaStats ==
  /\ at = "read"
  /\ IF layer[1].digest \notin blobs THEN Fail
     ELSE at' = "resolved" /\ spec' = OllamaSpec(layer[1]) /\ UNCHANGED <<meta, layer, carried>>
  /\ Keep /\ UNCHANGED tagged

\* ResolveRef: local copies are added when the registry looks for them.
Returns(refs) ==
  /\ at = "resolved"
  /\ at' = "done" /\ spec' = Augment(spec, refs)
  /\ UNCHANGED <<meta, layer, carried>> /\ Keep /\ UNCHANGED tagged

ResolverNext ==
  \/ World
  \/ \E applies \in BOOLEAN : HFAsks(applies)
  \/ HFRedirects \/ HFRefuses
  \/ \E n \in DOMAIN Commits : \E listing \in SetToSeqs(Commits[n]), sha \in {Blank, CommitNames[n]} :
        HFAnswers(listing, sha)
  \/ HFResolves \/ OllamaReads \/ OllamaStats
  \/ at = "resolved" /\ \E refs \in Reports(spec.digest) : Returns(refs)

ResolverSpec == ResolverInit /\ [][ResolverNext]_resolverVars

-----------------------------------------------------------------------------
Sources == {spec.sources[i] : i \in DOMAIN spec.sources}
Served(locator) == {f \in Commits[CommitOf(locator[2])] : f.name = locator[3]}

\* "A job that outlives a reboot and resumes next week must fetch the same bytes
\* it started": whenever the registry named the commit it answered from, the
\* source goes on naming a file with the spec's digest however often the branch
\* moves after the metadata was read.
PinnedBytes ==
  at \in {"resolved", "done"} /\ ref.registry = "hf" /\ meta.sha # Blank =>
    \A s \in Sources : s.scheme = "https" => {f.sha : f \in Served(s.locator)} = {spec.digest}

\* "Picking "the first one" would make the same reference mean different bytes
\* depending on the order an API happened to return": a reference means one file
\* in every order the registry may list the commit, or is refused in every order.
AnyListingOrder ==
  at = "answered" => \A other \in SetToSeqs(ToSet(meta.siblings)) : pick(other, ref) = pick(meta.siblings, ref)

\* "A redirect needs a new target decision": the headers of a named credential
\* reach no host but the one they were asked for.
CredentialStaysHome ==
  \A c \in carried : c[1] # Hub => ref.credential = Blank /\ c[2] = Blank

\* An Ollama reference gives the model layer its tag had at some time between the
\* reading of the manifest and the answer, never another layer, and offers the
\* blob that is named by that digest, however the store changed in between.
TagIsHonoured ==
  at \in {"resolved", "done"} /\ ref.registry = "ollama" =>
    /\ spec.digest \in tagged
    /\ \A s \in Sources : s.locator[2] = spec.digest

\* "Offering one path twice makes the caller think there are two copies, and makes
\* a failed source get retried against itself": at the moment of the answer no
\* file that is there is offered under two spellings, by one store or by two.
\* "The ordering is the whole feature": trying the sources by priority is trying
\* them in their order, every copy that was found before what the registry named.
OneSourcePerFile ==
  [][at = "resolved" /\ at' = "done" =>
       LET sources == spec'.sources
           there == {i \in DOMAIN sources : sources[i].scheme = "file" /\ Exists(sources[i].locator)}
       IN /\ \A i, j \in there : Final(sources[i].locator) = Final(sources[j].locator) => i = j
          /\ \A i, j \in DOMAIN sources :
                i < j => \/ sources[i].priority < sources[j].priority
                         \/ sources[i].priority = 0 /\ sources[j].priority = 0]_resolverVars
=============================================================================
