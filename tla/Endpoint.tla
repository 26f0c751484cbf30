------------------------------ MODULE Endpoint ------------------------------
(***************************************************************************)
(* A call from one end to the other: the generated clients, the frames     *)
(* they exchange, the generated dispatchers and the endpoint that routes   *)
(* between them (rec.go), and the waiting client in front (client.go).     *)
(*                                                                         *)
(* Callers use a typed client or write a frame of their own.  A call takes *)
(* three steps that others may come between: the frame is sent, routed to  *)
(* a handler, and answered.  A caller may stop waiting in between; the     *)
(* handler goes on.  A transport that crosses replies is a fault model.    *)
(***************************************************************************)
EXTENDS Wire

CONSTANTS Surroundings,      \* the surroundings an endpoint is put in, and for each one:
          Calls,             \* the calls
          Refs,              \* references the typed clients are given
          ForeignFrames,     \* frames other programs write
          HandlerResults,    \* what a service's handler may return as its result
          HandlerErrors,     \* ... or as an error, or raise as a panic
          Programs,          \* what the endpoint says of itself: a name, and why it is not ready
          StrayReplies       \* replies of other programs a faulty transport delivers

VARIABLES around,   \* the surroundings of this behaviour
          hosted,   \* which dispatchers this endpoint serves
          program,  \* what it says of itself
          call      \* one record per call

endpointVars == <<around, hosted, program, call>>

Resolver == "abstraction.model/resolver@1"
Manifest == "abstraction.model/manifest@1"
EndpointContract == "abstraction.facade/endpoint@1"
OneWay == "one way"       \* a service of another package that takes only one-way frames
HandlerFailed == "handler failed"    \* the text of an error that has none of its own

None == [kind |-> "none"]
ServiceError(code, message) == [kind |-> "service", code |-> code, message |-> message]
DispatchError(word) == [kind |-> "dispatch", code |-> word, message |-> Blank]
Refusal(word) == [kind |-> "refusal", code |-> word, message |-> Blank]

-----------------------------------------------------------------------------
(***************************************************************************)
(* Frames.  The text of a whole frame may also be followed by other bytes. *)
(***************************************************************************)
Trailing(d) == d.text = "trailing"

\* r is what the envelope's own reader made of the frame.
knownVersion(frame, r) ==
  CASE r.word # Blank -> r
    [] r.word = Blank /\ Trailing(frame) -> Refuse("trailing_bytes")
    [] r.word = Blank /\ ~Trailing(frame) /\ r.value.version # "1" -> Refuse("unknown_version")
    [] OTHER -> r

servicePayload(frame) == knownVersion(frame, decodeOAServiceFrame(frame, 0))

\* Mutant: a reply is believed whatever it answers.
answersUnchecked(v, service, method) == TRUE

answers(v, service, method) == v.service = service /\ v.method = method

namedError(e) ==
  CASE e.word # Blank -> e
    [] e.word = Blank /\ e.value.code = Blank -> Refuse("invalid_error")
    [] OTHER -> [word |-> "service_error", value |-> e.value]

serviceResponse(frame, service, method) ==
  LET r == knownVersion(frame, decodeOAServiceReply(frame, 0))
  IN CASE r.word # Blank -> r
       [] r.word = Blank /\ ~answers(r.value, service, method) -> Refuse("mismatched_response")
       [] OTHER -> IF r.value.ok THEN Accept(r.value.payload)
                   ELSE namedError(decodeOAServiceError(r.value.payload, 1))

\* Mutant: the code of a service error is taken as it is.
errorOfUnnamed(err) ==
  IF err.kind = "plain" THEN [code |-> "handler_error", message |-> HandlerFailed]
  ELSE [code |-> err.code, message |-> err.message]

errorOf(err) ==
  CASE err.kind = "plain" -> [code |-> "handler_error", message |-> HandlerFailed]
    [] err.kind = "service" -> [code |-> IF err.code = Blank THEN "handler_error" ELSE err.code,
                                message |-> err.message]
    [] OTHER -> [code |-> err.code, message |-> Blank]

\* serviceReply: the frame that goes out, or the refusal that keeps it in.
readable(frame) ==
  LET r == decodeOAServiceReply(frame, 0) IN IF r.word # Blank THEN Refuse(r.word) ELSE Accept(frame)

serviceReply(v, payload, err) ==
  readable(encOAServiceReply(
    [version |-> "1", service |-> v.service, method |-> v.method, ok |-> err = None,
     payload |-> IF err = None THEN payload ELSE encOAServiceError(errorOf(err))]))

Failed(v, err) == serviceReply(v, Nil, err)

-----------------------------------------------------------------------------
(***************************************************************************)
(* What a dispatcher does with a frame: hand it to the handler (a ref), or *)
(* answer it at once, or refuse it without an answer.                      *)
(***************************************************************************)
Handle(service, v, ref) == [does |-> "handle", service |-> service, envelope |-> v, ref |-> ref]
Answer(r) == IF r.word # Blank THEN [does |-> "refuse", word |-> r.word]
             ELSE [does |-> "answer", frame |-> r.value]

DescribeService(service, why) ==
  Object(<< <<"contract", Str(service)>>,
            <<"readiness", Str(IF why = Blank THEN "ready" ELSE "not_ready")>>, <<"why", Str(why)>> >>)

DescribeEndpoint(v, services, says) ==
  CASE v.service # EndpointContract -> Failed(v, DispatchError("unknown_service"))
    [] v.service = EndpointContract /\ v.method # "Describe" -> Failed(v, DispatchError("unknown_method"))
    [] OTHER ->
         IF v.arguments # Object(<<>>) THEN Failed(v, Refusal("unknown_field"))
         ELSE serviceReply(v, Object(<< <<"value", Object(<<
                 <<"outcome", Str("described")>>, <<"program", Str(says.name)>>,
                 <<"services", Value("array", Blank, [i \in DOMAIN services |->
                                             <<Blank, DescribeService(services[i], says.why)>>])>>
                 >>)>> >>), None)

\* Mutant: a dispatcher takes a frame for any service.
MineAny(v, service) == v.service # EndpointContract

Mine(v, service) == v.service = service

\* r and arguments are what servicePayload and the method's reader made of the frame.
Exchange(service, r, arguments) ==
  LET v == r.value
  IN CASE r.word # Blank -> Answer(r)
       [] OTHER ->
            CASE v.service = EndpointContract -> Answer(DescribeEndpoint(v, <<service>>, [program EXCEPT !.name = Blank]))
              [] v.service # EndpointContract /\ ~Mine(v, service) -> Answer(Failed(v, DispatchError("unknown_service")))
              [] Mine(v, service) /\ v.method # "Resolve" -> Answer(Failed(v, DispatchError("unknown_method")))
              [] OTHER -> IF arguments.word # Blank THEN Answer(Failed(v, Refusal(arguments.word)))
                          ELSE Handle(service, v, arguments.value.ref)

ModelResolverExchangeFrame(frame) ==
  Exchange(Resolver, servicePayload(frame),
           decodeOAModelResolverResolveArguments(servicePayload(frame).value.arguments, 1))
ModelManifestExchangeFrame(frame) ==
  Exchange(Manifest, servicePayload(frame),
           decodeOAModelManifestResolveArguments(servicePayload(frame).value.arguments, 1))

ServeEndpoint(frame, r, services, says) ==
  LET v == r.value
  IN CASE r.word # Blank -> Answer(r)
       [] OTHER ->
            CASE v.service = EndpointContract -> Answer(DescribeEndpoint(v, services, says))
              [] v.service # EndpointContract /\ v.service \notin ToSet(services) ->
                   Answer(Failed(v, DispatchError("unknown_service")))
              [] OTHER -> CASE v.service = Resolver -> ModelResolverExchangeFrame(frame)
                            [] v.service = Manifest -> ModelManifestExchangeFrame(frame)
                            [] OTHER -> Answer(Failed(v, DispatchError("wrong_mode")))

\* A dispatcher served alone (service.go serves the resolver's), or several.
Dispatch(frame) ==
  CASE hosted = <<Resolver>> -> ModelResolverExchangeFrame(frame)
    [] hosted = <<Manifest>> -> ModelManifestExchangeFrame(frame)
    [] OTHER -> ServeEndpoint(frame, servicePayload(frame), hosted, program)

\* The handler's result is sent only if this package's own reader accepts it.
checked(out, r) ==
  IF r.word # Blank THEN [payload |-> Nil, err |-> ServiceError("invalid_result", Blank)]
  ELSE [payload |-> out, err |-> None]

invokeResolve(fields, out, r, x) ==
  CASE x.kind = "panic_refusal" -> [payload |-> Nil, err |-> ServiceError("invalid_result", Blank)]
    [] x.kind = "panic" -> [payload |-> Nil, err |-> ServiceError("handler_error", HandlerFailed)]
    [] x.kind \in {"service", "dispatch", "refusal", "plain"} -> [payload |-> Nil, err |-> x]
    [] OTHER -> IF Panics(fields, [value |-> x.result])
                THEN [payload |-> Nil, err |-> ServiceError("invalid_result", Blank)]
                ELSE checked(out, r)

ModelResolverInvokeResolve(x) ==
  LET out == encOAModelResolverResolveResult([value |-> x.result])
  IN invokeResolve(ResolveResultSchema, out, decodeOAModelResolverResolveResult(out, 1), x)
ModelManifestInvokeResolve(x) ==
  LET out == encOAModelManifestResolveResult([value |-> x.result])
  IN invokeResolve(ManifestResolveResultSchema, out, decodeOAModelManifestResolveResult(out, 1), x)

Invoke(service, x) ==
  IF service = Resolver THEN ModelResolverInvokeResolve(x) ELSE ModelManifestInvokeResolve(x)

\* WriteFrame: a one-way frame to a dispatcher, whose methods all answer.
WriteFrame(service, r) ==
  CASE r.word # Blank -> r.word
    [] r.word = Blank /\ r.value.service # service -> "unknown_service"
    [] OTHER -> IF r.value.method = "Resolve" THEN "wrong_mode" ELSE "unknown_method"

-----------------------------------------------------------------------------
(***************************************************************************)
(* The typed clients.                                                      *)
(***************************************************************************)
ModelResolverFrame(ref) ==
  encOAServiceFrame([version |-> "1", service |-> Resolver, method |-> "Resolve",
                     arguments |-> encOAModelResolverResolveArguments([ref |-> ref])])
ModelManifestFrame(ref) ==
  encOAServiceFrame([version |-> "1", service |-> Manifest, method |-> "Resolve",
                     arguments |-> encOAModelManifestResolveArguments([ref |-> ref])])

Unusable == "unusable"    \* stands for a digest, size or locator the client does not accept

\* validResult: a request comes with the outcome resolved and with no other,
\* and is one the download layer may be given.
validResult(v) ==
  /\ (v.outcome = "resolved") = (v.request # Nil)
  /\ v.request # Nil => v.request.digest # Unusable

decodeAnswer(service, payload) ==
  IF service = Resolver THEN decodeOAModelResolverResolveResult(payload, 1)
  ELSE decodeOAModelManifestResolveResult(payload, 1)

ModelResolverRead(p) ==
  LET r == decodeAnswer(Resolver, p.value)
  IN CASE p.word # Blank -> p
       [] p.word = Blank /\ r.word # Blank -> r
       [] OTHER -> IF validResult(r.value.value) THEN Accept(r.value.value) ELSE Refuse("inconsistent")

ModelManifestRead(p) ==
  LET r == decodeAnswer(Manifest, p.value)
  IN CASE p.word # Blank -> p
       [] p.word = Blank /\ r.word # Blank -> r
       [] OTHER -> Accept(r.value.value)

ClientFrame(service, ref) == IF service = Resolver THEN ModelResolverFrame(ref) ELSE ModelManifestFrame(ref)
ClientRead(service, frame) ==
  IF service = Resolver THEN ModelResolverRead(serviceResponse(frame, Resolver, "Resolve"))
  ELSE ModelManifestRead(serviceResponse(frame, Manifest, "Resolve"))

-----------------------------------------------------------------------------
(***************************************************************************)
(* What the surroundings may hold.                                         *)
(***************************************************************************)
\* References and results are Go values of their types.
ASSUME GoValuesAssumption ==
  \A where \in Surroundings :
     /\ \A ref \in Refs[where] : GoFlat(RefSchema, ref)
     /\ \A x \in HandlerResults[where][Resolver] : GoNested(LookupResultSchema, x)
     /\ \A x \in HandlerResults[where][Manifest] : GoNested(ManifestResultSchema, x)

\* A handler's error is one of the package's three kinds or another one, or it
\* is raised; a DispatchError and a Refusal say a word (only a ServiceError's code
\* is made up for when it is empty).
ASSUME ErrorsAssumption ==
  \A where \in Surroundings : \A x \in HandlerErrors[where] :
     /\ x.kind \in {"service", "dispatch", "refusal", "plain", "panic", "panic_refusal"}
     /\ x.kind \in {"dispatch", "refusal"} => x.code # Blank

\* The reply of another program answers another version, service or method.
ASSUME StrayAssumption ==
  \A where \in Surroundings : \A frame \in StrayReplies[where] :
     LET r == decodeOAServiceReply(frame, 0)
     IN r.word = Blank /\ r.value.version = "1" /\ r.value.service \in {Resolver, Manifest} =>
           r.value.method # "Resolve"

-----------------------------------------------------------------------------
NoCall == [at |-> "idle",       \* idle, sent, handling, replied, done: the server's side of the call
           waits |-> FALSE,     \* does the caller still wait?
           service |-> Blank, ref |-> Nil,   \* what a typed client asked; Blank for a foreign frame
           frame |-> Junk, job |-> None, ran |-> <<>>, returned |-> None,
           reply |-> Junk, result |-> Refuse("none")]

EndpointInit ==
  /\ around \in Surroundings
  /\ hosted \in {<<Resolver>>, <<Manifest>>, <<Resolver, Manifest>>, <<Manifest, OneWay, Resolver>>}
  /\ program \in Programs[around]
  /\ call = [c \in Calls[around] |-> NoCall]

Update(c, r) == call' = [call EXCEPT ![c] = r] /\ UNCHANGED <<around, hosted, program>>

\* ResolveContext with a context that has ended: nothing is sent.
CallCancelled(c, service, ref) ==
  /\ call[c].at = "idle"
  /\ Update(c, [call[c] EXCEPT !.at = "done", !.service = service, !.ref = ref,
                               !.result = Refuse("cancelled")])

\* Resolve: a frame its own reader refuses is not sent.
Call(c, service, ref) ==
  LET frame == ClientFrame(service, ref)
      r == servicePayload(frame)
  IN /\ call[c].at = "idle"
     /\ Update(c, [call[c] EXCEPT !.service = service, !.ref = ref, !.frame = frame,
                                  !.at = IF r.word = Blank THEN "sent" ELSE "done",
                                  !.waits = r.word = Blank,
                                  !.result = IF r.word = Blank THEN @ ELSE r])

Write(c, frame) ==
  /\ call[c].at = "idle"
  /\ Update(c, [call[c] EXCEPT !.frame = frame, !.at = "sent", !.waits = TRUE])

\* A frame of another program may also arrive by a one-way transport.
WriteOneWay(c, frame) ==
  /\ call[c].at = "idle" /\ hosted \in {<<Resolver>>, <<Manifest>>}
  /\ Update(c, [call[c] EXCEPT !.frame = frame, !.at = "done",
                               !.result = Refuse(WriteFrame(hosted[1], servicePayload(frame)))])

\* The connection is closed without a reply.
Close(k) == [k EXCEPT !.at = "done", !.waits = FALSE, !.result = IF k.waits THEN Refuse("closed") ELSE @]

Routed(k, d) ==
  CASE d.does = "handle" -> [k EXCEPT !.at = "handling", !.job = d, !.ran = Append(@, <<d.service, d.ref>>)]
    [] d.does = "answer" -> [k EXCEPT !.at = "replied", !.reply = d.frame]
    [] d.does = "refuse" -> Close(k)

Route(c) ==
  /\ call[c].at = "sent"
  /\ Update(c, Routed(call[c], Dispatch(call[c].frame)))

Replied(k, r) == IF r.word = Blank THEN [k EXCEPT !.at = "replied", !.reply = r.value] ELSE Close(k)

Reply(v, answer) == serviceReply(v, answer.payload, answer.err)

HandlerReturns(c, x) ==
  /\ call[c].at = "handling"
  /\ Update(c, Replied([call[c] EXCEPT !.returned = x],
                       Reply(call[c].job.envelope, Invoke(call[c].job.service, x))))

\* Replies a transport that does not keep calls apart may hand over instead.
Faithful == StrayReplies[around] = {}
Crossing == IF Faithful THEN {}
            ELSE StrayReplies[around] \cup {call[d].reply : d \in {e \in DOMAIN call : call[e].reply # Junk}}

\* A reply arrives at a caller that still waits, or at nobody.
Deliver(c, frame) ==
  /\ call[c].at = "replied"
  /\ Update(c, [call[c] EXCEPT !.at = "done", !.waits = FALSE,
                  !.result = IF ~call[c].waits THEN @
                             ELSE IF call[c].service = Blank THEN Accept(Nil)
                             ELSE ClientRead(call[c].service, frame)])

\* The waiting limit (5 s by default) or the caller's context ends.
GiveUp(c) ==
  /\ call[c].waits
  /\ Update(c, [call[c] EXCEPT !.waits = FALSE, !.result = Refuse("timeout")])

CallStep(c) ==
  \/ \E s \in {Resolver, Manifest}, ref \in Refs[around] : Call(c, s, ref)
  \/ \E ref \in Refs[around] : CallCancelled(c, Resolver, ref)
  \/ \E frame \in ForeignFrames[around] : Write(c, frame) \/ WriteOneWay(c, frame)
  \/ Route(c)
  \/ \E x \in HandlerErrors[around] : HandlerReturns(c, x)
  \/ call[c].at = "handling" /\ \E v \in HandlerResults[around][call[c].job.service] :
        HandlerReturns(c, [kind |-> "result", result |-> v])
  \/ \E frame \in {call[c].reply} \cup Crossing : Deliver(c, frame)
  \/ GiveUp(c)

EndpointNext == \E c \in DOMAIN call : CallStep(c)

EndpointSpec == EndpointInit /\ [][EndpointNext]_endpointVars

-----------------------------------------------------------------------------
Succeeded(c) == call[c].at = "done" /\ call[c].service # Blank /\ call[c].result.word = Blank

\* Over a transport that keeps calls apart, a result a typed client returns is the
\* one its own service's handler gave for exactly the reference the caller asked
\* about, and that handler ran once: four conversions, two routings, other calls
\* and a caller that may have gone away lose, change and swap nothing.
ResultIsTheHandlers ==
  \A c \in DOMAIN call : Faithful /\ Succeeded(c) =>
     /\ call[c].ran = << <<call[c].service, call[c].ref>> >>
     /\ call[c].returned.kind = "result" /\ call[c].result.value = call[c].returned.result

\* A handler runs at most once for a frame, and only for one that names its
\* service, which this endpoint hosts, in this version, with the method Resolve
\* and arguments that are a reference; a one-way frame runs none.
RunsOnlyWhatItWasSent ==
  \A c \in DOMAIN call : call[c].ran # <<>> =>
     LET v == servicePayload(call[c].frame)
     IN /\ Len(call[c].ran) = 1
        /\ call[c].ran[1][1] \in ToSet(hosted)
        /\ v.word = Blank /\ v.value.service = call[c].ran[1][1] /\ v.value.method = "Resolve"
        /\ decodeOAModelResolverResolveArguments(v.value.arguments, 1) = Accept([ref |-> call[c].ran[1][2]])

\* Whatever a handler returns, raises or names its error, every frame that goes
\* out reads as an answer to the frame that came in: the peer sees a payload or a
\* named error and never calls the reply malformed, mismatched or nameless
\* ("Validate even error diagnostics before making them visible on the wire").
RepliesAreReadable ==
  \A c \in DOMAIN call : call[c].at = "replied" =>
     LET v == servicePayload(call[c].frame).value
         r == serviceResponse(call[c].reply, v.service, v.method)
     IN /\ r.word \in {Blank, "service_error"}
        /\ r.word = Blank /\ call[c].job # None =>
              decodeAnswer(v.service, r.value).word = Blank

\* Even over a transport that hands a caller the reply of another call, another
\* program or another version of the service, a typed client believes only what
\* a handler of its own service answered ("Correlation ... belong[s] to the
\* transport": which of that service's calls was answered it cannot tell).
OwnServiceOnly ==
  \A c \in DOMAIN call : Succeeded(c) =>
     \E d \in DOMAIN call : /\ call[d].ran # <<>> /\ call[d].ran[1][1] = call[c].service
                            /\ call[d].returned.kind = "result"
                            /\ call[c].result.value = call[d].returned.result
=============================================================================
