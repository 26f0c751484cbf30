------------------------------ MODULE MCLookup ------------------------------
(***************************************************************************)
(* LookupCall over every class of reference field and over the specs of up *)
(* to two sources that differ in whatever the service looks at.            *)
(***************************************************************************)
EXTENDS LookupCall

MCRefs ==
    [registry : {"", "blank", "ctl", "hf", "ollama", "custom"},
     repo : {"", "plain", "ctl"}, revision : {"", "delim"},
     quant : {"", "plain"}, file : {"", "plain", "ctl"},
     credential : {"", "mine", "bad"}]

\* References to a registry that is neither hf nor ollama.
MCCustomRefs == {r \in MCRefs : r.registry = "custom"}

MCRegistries == {<<>>, <<"hf">>, <<"hf", "ollama", "custom", "hf">>}

Source(scheme, locator, attrs, headers, priority) ==
    [scheme |-> scheme, locator |-> locator, attrs |-> attrs,
     headers |-> headers, priority |-> priority]

MCSources ==
    {Source("https", "https", attrs, FALSE, 0) :
        attrs \in {{}, {<<"credential", "mine">>}, {<<"credential", "other">>},
                   {<<"credential", "">>}, {<<"store", "plain">>},
                   {<<"credential", "mine">>, <<"store", "plain">>}}}
    \cup {Source("https", "https", {}, TRUE, 0),
          Source("https", "https", {}, FALSE, 1),
          Source("https", "http", {}, FALSE, 0),
          Source("https", "userinfo", {}, FALSE, 0),
          Source("file", "file", {}, FALSE, 0)}

MCSpecs ==
    [digest : {"", "sha256", "short"}, size : {-1, 0}, sink : BOOLEAN,
     handoff : BOOLEAN, sources : {<<>>} \cup {<<s>> : s \in MCSources}]
    \cup [digest : {"sha256"}, size : {0}, sink : {FALSE}, handoff : {FALSE},
          sources : MCSources \X MCSources]

MCAnswers ==
    {Found(s) : s \in MCSpecs}
    \cup {Error(k) : k \in {"error", "missing_digest", "credential_refused",
                            "credential_retryable"}}
=============================================================================
