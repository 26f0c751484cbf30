------------------------------ MODULE Receiver ------------------------------
(***************************************************************************)
(* The handler that runs inside a worker's ExchangeFrame, composed with    *)
(* the host: the generated dispatcher (rec.go), receiver.Resolve with its  *)
(* authorization, lookup policy and credential binding (service.go), the   *)
(* registry provider it asks and the credential applier that provider      *)
(* calls (credentials.go, hf.go).                                          *)
(*                                                                         *)
(* Peer evidence is read again at every point where the code calls         *)
(* call.Peer, so that a peer which exits between two of them is seen to    *)
(* have gone.  Policies, providers and appliers are code of the embedding  *)
(* program; each takes its time, during which anything else may happen,    *)
(* and gives any answer of its kind, or panics.                            *)
(***************************************************************************)
EXTENDS Host, Lookup

CONSTANTS
    Frames,     \* what a client sends: a kind, and a Ref if it asks to Resolve
    Providers,  \* the registries of the configured resolvers, in order
    Policies,   \* the policies the embedding program may enable
    CustomAnswers   \* what a provider of its own may answer

VARIABLES
    policy,     \* h.policy, None when nil
    apply,      \* h.apply # nil
    peer,       \* what call.Peer finds at the other end of each connection
    call,       \* the handler's locals on each connection
    reply       \* what the handler returned on each connection

receiverVars == <<policy, apply, peer, call, reply>>
vars == <<hostVars, receiverVars>>

NoFrame == [kind |-> "none"]

\* A handler that has not started, or whose worker is not exchanging.
NoCall ==
    [at |-> "none", frame |-> NoFrame, policy |-> None, apply |-> FALSE,
     granted |-> None, bound |-> FALSE, contacted |-> FALSE]

ReceiverInit ==
    /\ HostInit
    /\ policy = None
    /\ apply = FALSE
    /\ peer = [c \in Conns |-> "gone"]
    /\ call = [c \in Conns |-> NoCall]
    /\ reply = [c \in Conns |-> Result("none")]

Ref(c) == call[c].frame.ref

-----------------------------------------------------------------------------
(***************************************************************************)
(* Configuration.  Both calls take h.lifecycle, as Serve does, and refuse  *)
(* once the host serves or is closed.                                      *)
(***************************************************************************)
\* Mutant: h.serving is not looked at.
ConfigurableAlways == ~cancelled

Configurable == ~serving /\ ~cancelled

EnablePolicy(p) ==
    /\ Configurable
    /\ policy' = p
    /\ UNCHANGED <<hostVars, apply, peer, call, reply>>

\* Mutant: copied from EnablePolicy, with its field.
EnableCredentialsMisplaced ==
    /\ Configurable
    /\ policy' = TRUE
    /\ UNCHANGED <<hostVars, apply, peer, call, reply>>

EnableCredentials ==
    /\ Configurable
    /\ apply' = TRUE
    /\ UNCHANGED <<hostVars, policy, peer, call, reply>>

-----------------------------------------------------------------------------
(***************************************************************************)
(* Peers.  ReceiveFramed binds Program evidence of the peer; whoever it    *)
(* was may exit at any time after.                                         *)
(***************************************************************************)
PeerExits(c) ==
    /\ peer[c] # "gone"
    /\ peer' = [peer EXCEPT ![c] = "gone"]
    /\ UNCHANGED <<hostVars, policy, apply, call, reply>>

\* The user is still known, but the program behind it can no longer be proven.
PeerChanges(c) ==
    /\ peer[c] = "owner"
    /\ peer' = [peer EXCEPT ![c] = "changed"]
    /\ UNCHANGED <<hostVars, policy, apply, call, reply>>

\* call.Peer succeeds and the user it finds is the host's own account.
authorized(c) == peer[c] \in {"owner", "changed"}

\* The same, and Recheck passes and the program has an absolute path.
subject(c) == peer[c] = "owner"

-----------------------------------------------------------------------------
(***************************************************************************)
(* The steps of a handler.                                                 *)
(***************************************************************************)
At(c, where) == conn[c] = "exchanging" /\ call[c].at = where

\* The handler goes on, with its locals as given.
Continue(c, locals) == call' = [call EXCEPT ![c] = locals] /\ UNCHANGED reply

Goto(c, where) == Continue(c, [call[c] EXCEPT !.at = where])

\* The handler returns; the dispatcher turns what it returned into a reply.
Return(c, value) ==
    /\ call' = [call EXCEPT ![c].at = "returned"]
    /\ reply' = [reply EXCEPT ![c] = value]

HandlerVars == <<hostVars, policy, apply, peer>>

\* The dispatcher: only a well-formed Resolve reaches the handler.  Describe
\* is answered without asking who the caller is, and says nothing of a model.
Dispatch(c, frame, who) ==
    /\ At(c, "none")
    /\ peer' = [peer EXCEPT ![c] = who]
    /\ call' = [call EXCEPT ![c] = [NoCall EXCEPT
                  !.frame = frame,
                  !.at = IF frame.kind = "resolve" THEN "authorize" ELSE "returned"]]
    /\ reply' = [reply EXCEPT ![c] = Result(CASE frame.kind = "resolve"  -> "none"
                                              [] frame.kind = "describe" -> "described"
                                              [] OTHER                   -> "service_error")]
    /\ UNCHANGED <<hostVars, policy, apply>>

Authorize(c) ==
    /\ At(c, "authorize")
    /\ IF authorized(c) THEN Goto(c, "configure") ELSE Return(c, Result("forbidden"))
    /\ UNCHANGED HandlerVars

\* policy and apply are read under h.lifecycle, once.
ReadConfig(c) ==
    /\ At(c, "configure")
    /\ Continue(c, [call[c] EXCEPT !.policy = policy, !.apply = apply,
                                   !.at = IF policy = None THEN "bind" ELSE "consult"])
    /\ UNCHANGED HandlerVars

Consult(c) ==
    /\ At(c, "consult")
    /\ IF peer[c] = "gone" THEN Return(c, Result("forbidden")) ELSE Goto(c, "deciding")
    /\ UNCHANGED HandlerVars

\* Mutant: a decision that could not be obtained is taken for a permission.
PolicyReadsOpen(c, verdict) == IF verdict = "deny" THEN "forbidden" ELSE "grant"

\* What the policy's answer means: nothing, once the call's context is over.
PolicyReads(c, verdict) ==
    CASE CallDone(c) \/ verdict = "unavailable" -> "unavailable"
      [] ~CallDone(c) /\ verdict = "deny"       -> "forbidden"
      [] ~CallDone(c) /\ verdict = "grant"      -> "grant"

PolicyAnswers(c, verdict) ==
    /\ At(c, "deciding")
    /\ IF PolicyReads(c, verdict) = "grant"
       THEN Continue(c, [call[c] EXCEPT !.at = "bind",
                           !.granted = IF verdict = "grant" THEN call[c].policy ELSE None])
       ELSE Return(c, Result(PolicyReads(c, verdict)))
    /\ UNCHANGED HandlerVars

\* Mutant: a subject that cannot be proven is waited for.
BindRetries(c) ==
    /\ At(c, "bind")
    /\ Ref(c).credential # "" /\ call[c].apply => subject(c)
    /\ Continue(c, [call[c] EXCEPT !.at = "lookup",
                           !.bound = Ref(c).credential # "" /\ call[c].apply])
    /\ UNCHANGED HandlerVars

\* A Ref that names a credential binds the caller as its subject.
Bind(c) ==
    /\ At(c, "bind")
    /\ IF Ref(c).credential # "" /\ call[c].apply
       THEN IF subject(c)
            THEN Continue(c, [call[c] EXCEPT !.bound = TRUE, !.at = "lookup"])
            ELSE Return(c, Result("forbidden"))
       ELSE Goto(c, "lookup")
    /\ UNCHANGED HandlerVars

\* No resolver is configured, or hf finds that the repo is not org/name.
Unserved(ref) ==
    \/ Configured(Providers, ref.registry) = 0
    \/ ref.registry = "hf" /\ ref.repo = "odd"

\* lookup up to the registry request.  hf applies a named credential to its
\* request first; no other provider can.
StartLookup(c) ==
    LET ref == Ref(c)
    IN  /\ At(c, "lookup")
        /\ IF validRef(ref) /\ ~Unserved(ref)
           THEN Goto(c, IF ref.registry = "hf" /\ ref.credential # ""
                        THEN "applying" ELSE "asking")
           ELSE Return(c, Result(IF validRef(ref) THEN "unavailable" ELSE "invalid"))
        /\ UNCHANGED HandlerVars

\* Mutant: a Ref whose credential nobody can apply goes out without it.
ApplyReadsUnbound(c, verdict) ==
    IF call[c].bound THEN verdict ELSE "headers"

\* applyCredential: without an applier in the context the answer is a refusal;
\* an applier gives headers, a typed refusal, or a failure read as retryable.
ApplyReads(c, verdict) ==
    IF call[c].bound THEN verdict ELSE "credential_refused"

ApplyCredential(c, verdict) ==
    /\ At(c, "applying")
    /\ IF ApplyReads(c, verdict) = "headers"
       THEN Goto(c, "asking")
       ELSE Return(c, Classify(Error(ApplyReads(c, verdict)), Ref(c)))
    /\ UNCHANGED HandlerVars

\* The provider makes its registry request.
AskRegistry(c) ==
    /\ At(c, "asking")
    /\ Continue(c, [call[c] EXCEPT !.at = "waiting", !.contacted = TRUE])
    /\ UNCHANGED HandlerVars

\* What each kind of provider can answer: hf names the Ref's credential on its
\* one source, or else its own if it was given a token; ollama has a local
\* file; a custom provider is free.
PlainSpec(scheme, attrs) ==
    Found([digest |-> "sha256", size |-> 1, sink |-> FALSE, handoff |-> FALSE,
          sources |-> <<[scheme |-> scheme, locator |-> scheme, attrs |-> attrs,
                         headers |-> FALSE, priority |-> 0]>>])

ProviderAnswersOf(ref) ==
    {Error("error")} \cup
    CASE ref.registry = "hf" ->
            {PlainSpec("https", attrs) :
                attrs \in IF ref.credential = "" THEN {{}, {<<"credential", "hf">>}}
                          ELSE {{<<"credential", ref.credential>>}}}
      [] ref.registry = "ollama" -> {PlainSpec("file", {<<"store", "ollama">>})}
      [] OTHER -> CustomAnswers

ProviderAnswers(c, a) ==
    /\ At(c, "waiting")
    /\ Return(c, Classify(ResolveRef(a, FALSE), Ref(c)))
    /\ UNCHANGED HandlerVars

\* invokeResolve answers with a service error: it recovers from a panic of the
\* policy, the applier or the provider, and refuses a result that its own
\* decoder would not take.
Panics(c) ==
    /\ \E where \in {"deciding", "applying", "waiting"} : At(c, where)
    /\ Return(c, Result("service_error"))
    /\ UNCHANGED HandlerVars

\* ExchangeFrame returns the encoded reply to the worker, or an error if even
\* the reply cannot be encoded; the handler's locals end.
Returned(c) ==
    /\ At(c, "returned")
    /\ Exchange(c) \/ ExchangeFail(c)
    /\ call' = [call EXCEPT ![c] = NoCall]
    /\ reply' = [reply EXCEPT ![c] = Result("none")]
    /\ peer' = [peer EXCEPT ![c] = "gone"]
    /\ UNCHANGED <<policy, apply>>

\* A frame that is no request of this protocol version gets no reply.
Malformed(c) ==
    /\ At(c, "none")
    /\ ExchangeFail(c)
    /\ UNCHANGED receiverVars

-----------------------------------------------------------------------------

HandlerStep(c) ==
    \/ \E frame \in Frames, who \in {"owner", "stranger", "gone"} : Dispatch(c, frame, who)
    \/ Authorize(c)
    \/ ReadConfig(c)
    \/ Consult(c)
    \/ \E v \in {"grant", "deny", "unavailable"} : PolicyAnswers(c, v)
    \/ Bind(c)
    \/ StartLookup(c)
    \/ \E v \in {"headers", "credential_refused", "credential_retryable"} :
          ApplyCredential(c, v)
    \/ AskRegistry(c)
    \/ At(c, "waiting") /\ \E a \in ProviderAnswersOf(Ref(c)) : ProviderAnswers(c, a)
    \/ Panics(c)
    \/ Returned(c)
    \/ Malformed(c)
    \/ PeerExits(c)
    \/ PeerChanges(c)

ReceiverNext ==
    \/ HostStep /\ UNCHANGED receiverVars
    \/ \E p \in Policies : EnablePolicy(p)
    \/ EnableCredentials
    \/ \E c \in Conns : HandlerStep(c)
    \/ Terminated /\ UNCHANGED receiverVars

ReceiverSpec == ReceiverInit /\ [][ReceiverNext]_vars

(***************************************************************************)
(* Fairness.  The handler's own steps are scheduled; policies, providers   *)
(* and appliers must come back once the call's context is done.            *)
(***************************************************************************)
OwnStep(c) ==
    \/ Authorize(c) \/ ReadConfig(c) \/ Consult(c) \/ Bind(c)
    \/ StartLookup(c) \/ AskRegistry(c) \/ Returned(c)

\* The code of the embedding program answers, one way or another.
Answered(c) ==
    /\ At(c, "deciding") \/ At(c, "applying") \/ At(c, "waiting")
    /\ HandlerStep(c)
    /\ call'[c] # call[c]

ReceiverFairness ==
    /\ WF_vars(EndClose /\ UNCHANGED receiverVars)
    /\ \A s \in Servers :
          /\ WF_vars(ContextClose(s) /\ UNCHANGED receiverVars)
          /\ WF_vars((AcceptClosed(s) \/ AcceptError(s) \/ Admit(s) \/ Refuse(s))
                       /\ UNCHANGED receiverVars)
          /\ WF_vars((ServeClose(s) \/ ServeClosed(s) \/ ServeStopped(s) \/ ServeReturn(s))
                       /\ UNCHANGED receiverVars)
    /\ \A c \in Conns :
          /\ WF_vars(Expire(c) /\ UNCHANGED receiverVars)
          /\ WF_vars(CallDone(c) /\ (Receive(c) \/ ReceiveFail(c) \/ Reply(c) \/ ReplyFail(c))
                       /\ UNCHANGED receiverVars)
          /\ WF_vars((Finish(c) \/ Report(c) \/ CloseConn(c) \/ ReleaseSlot(c) \/ WorkerDone(c))
                       /\ UNCHANGED receiverVars)
          /\ WF_vars(OwnStep(c))
          /\ WF_vars(CallDone(c) /\ Answered(c))
          /\ WF_vars(At(c, "none") /\ (Malformed(c) \/ HandlerStep(c)) /\ call'[c] # call[c])

FairReceiverSpec == ReceiverSpec /\ ReceiverFairness

-----------------------------------------------------------------------------
(***************************************************************************)
(* Properties.                                                             *)
(***************************************************************************)
Places == {"none", "authorize", "configure", "consult", "deciding", "bind",
           "lookup", "applying", "asking", "waiting", "returned"}

Judged == {"consult", "deciding", "bind", "lookup", "applying", "asking", "waiting"}

ReceiverTypeOK ==
    /\ HostTypeOK
    /\ policy \in Policies \cup {None}
    /\ apply \in BOOLEAN
    /\ peer \in [Conns -> {"owner", "changed", "stranger", "gone"}]
    /\ call \in [Conns -> [at : Places, frame : Frames \cup {NoFrame},
                           policy : Policies \cup {None}, apply : BOOLEAN,
                           granted : Policies \cup {None}, bound : BOOLEAN,
                           contacted : BOOLEAN]]

\* EnablePolicy and EnableCredentials are "before Serve": no call is ever
\* judged by another configuration than the one in force, though it took its
\* copy long ago and another goroutine keeps trying to change it.
ConfigFrozen ==
    \A c \in Conns : call[c].at \in Judged
        => call[c].policy = policy /\ call[c].apply = apply

\* "Refusal returns forbidden and a failed decision returns unavailable;
\* neither reaches a registry provider": a registry is asked for a caller of
\* the host's account only, and only when the policy in force granted it.
AskedOnlyIfGranted ==
    \A c \in Conns : call[c].contacted
        => /\ peer[c] # "stranger"
           /\ policy = None \/ call[c].granted = policy

\* The hf provider sends no request for a Ref that names a credential unless
\* an applier bound to the caller has supplied its headers.
CredentialBound ==
    \A c \in Conns : call[c].contacted /\ Ref(c).registry = "hf" /\ Ref(c).credential # ""
        => call[c].bound /\ apply

\* Serve waits for its handlers: none is at work once Serve has returned, so
\* no policy, applier or provider is called after that.
NoHandlerAfterReturn ==
    \A s \in Servers : serve[s] = "returned" /\ result[s] # "refused"
        => \A c \in Conns : call[c].at = "none"

\* MODEL-C1: "A host configured without an applier MUST refuse such a `Ref` as
\* `unsupported_mapping` before any registry request."
NoApplierNoRequest ==
    \A c \in Conns : call[c].contacted /\ Ref(c).credential # "" => apply

\* The composition is a host: handlers do nothing a host may not do, and they
\* come back in the way the host's fairness assumes.
ImplementsHost == FairHostSpec
=============================================================================
