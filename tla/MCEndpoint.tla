----------------------------- MODULE MCEndpoint -----------------------------
(***************************************************************************)
(* Calls of the typed clients and of programs that write their own frames, *)
(* against handlers that return, fail and raise whatever Go lets them.     *)
(***************************************************************************)
EXTENDS Endpoint

R(repo, credential) == [registry |-> "hf", repo |-> repo, revision |-> Blank, quant |-> Blank,
                        file |-> Blank, credential |-> credential]
Envelope(version, service, method, arguments) ==
  encOAServiceFrame([version |-> version, service |-> service, method |-> method, arguments |-> arguments])
Arguments(ref) == encOAModelResolverResolveArguments([ref |-> ref])
Good == Envelope("1", Manifest, "Resolve", Arguments(R("a", Blank)))

\* One call in every way, two plain calls at once, or such calls over a transport
\* that crosses their replies with each other and with those of other programs.
Places == {"one call", "two calls", "crossed calls"}

MCCalls == [where \in Places |-> IF where = "one call" THEN {1} ELSE {1, 2}]

MCRefs == [where \in Places |->
  {R("a", Blank), R("b", "c")} \cup (IF where = "one call" THEN {R(BadText, Blank)} ELSE {})]

MCForeignFrames == [where \in Places |->
  IF where # "one call" THEN {}
  ELSE { Junk, Good, [Good EXCEPT !.text = "trailing"],
         Envelope("2", Resolver, "Resolve", Arguments(R("a", Blank))),
         Envelope("1", Resolver, "Resolve", Str("x")),
         Envelope("1", Resolver, "Describe", Object(<<>>)),
         Envelope("1", OneWay, "Resolve", Object(<<>>)),
         Envelope("1", EndpointContract, "Describe", Object(<<>>)),
         Envelope("1", EndpointContract, "Describe", Arguments(R("a", Blank))),
         Envelope("1", EndpointContract, "Resolve", Object(<<>>)) }]

Lookups == { [outcome |-> "resolved", request |-> [digest |-> d]] : d \in {"x", Unusable, BadText} }
           \cup { [outcome |-> o, request |-> Nil] : o \in {"resolved", "invalid", "not a word"} }
Manifests == { [outcome |-> "resolved", manifest |-> [digest |-> "x"], resolved_revision |-> "x"],
               [outcome |-> "not_found", manifest |-> Nil, resolved_revision |-> Blank],
               [outcome |-> "resolved", manifest |-> Nil, resolved_revision |-> BadText] }
PlainResult(service, d) ==
  IF service = Resolver THEN [outcome |-> "resolved", request |-> [digest |-> d]]
  ELSE [outcome |-> "not_found", manifest |-> Nil, resolved_revision |-> d]
MCHandlerResults == [where \in Places |-> [service \in {Resolver, Manifest} |->
  CASE where # "one call" -> {PlainResult(service, d) : d \in {"x", "y"}}
    [] where = "one call" /\ service = Resolver -> Lookups
    [] OTHER -> Manifests]]

MCHandlerErrors == [where \in Places |->
  {ServiceError(Blank, "x")} \cup
  (IF where # "one call" THEN {}
   ELSE { ServiceError("unauthorized", Blank), ServiceError("unauthorized", BadText),
          DispatchError("wrong_mode"), Refusal("bad_enum") }
        \cup { [kind |-> k, code |-> Blank, message |-> Blank] : k \in {"plain", "panic", "panic_refusal"} })]

Stray(version, service, method) ==
  encOAServiceReply([version |-> version, service |-> service, method |-> method, ok |-> TRUE,
     payload |-> encOAModelResolverResolveResult([value |-> [outcome |-> "forbidden", request |-> Nil]])])
MCStrayReplies == [where \in Places |->
  IF where # "crossed calls" THEN {}
  ELSE {Stray("1", "abstraction.model/resolver@2", "Resolve"), Stray("1", Resolver, "Check"),
        Stray("2", Resolver, "Resolve")}]

MCPrograms == [where \in Places |->
  IF where = "one call" THEN { [name |-> n, why |-> w] : n \in {"p", BadText}, w \in {Blank, "loading"} }
  ELSE {[name |-> "p", why |-> Blank]}]
=============================================================================
