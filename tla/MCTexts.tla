------------------------------- MODULE MCTexts ------------------------------
(***************************************************************************)
(* The algorithms that read a text, each on every text within its bounds:  *)
(* records of the codec with a few changes, strings and numbers byte by    *)
(* byte, references, command lines and model names.  A behaviour grows one *)
(* text of one kind; the variables of the other kinds stay at their idle   *)
(* values.                                                                 *)
(***************************************************************************)
EXTENDS WireDocs, WireText, RefSyntax, Args

CONSTANTS MaxTokens, MaxSegments

VARIABLE name

textsVars == <<docVars, textVars, refVars, argVars, name>>

(***************************************************************************)
(* Go values of every record.                                              *)
(***************************************************************************)
SampleRef(credential) == [registry |-> "hf", repo |-> "x", revision |-> "", quant |-> "",
                          file |-> "", credential |-> credential]
SampleResult(outcome, request) == [outcome |-> outcome, request |-> request]
SampleRequest == [digest |-> "x"]
SampleManifest(outcome, manifest, revision) ==
  [outcome |-> outcome, manifest |-> manifest, resolved_revision |-> revision]
MCSamples(t) ==
  CASE t = "Ref" -> {SampleRef(""), SampleRef("c")}
    [] t = "LookupResult" -> {SampleResult("resolved", SampleRequest), SampleResult("invalid", Nil)}
    [] t = "ManifestResult" -> {SampleManifest("not_found", Nil, ""),
                                SampleManifest("resolved", SampleRequest, "x")}
    [] t = "Error" -> {[code |-> "", message |-> ""]}
    [] t = "Frame" -> {[version |-> "1", service |-> "x", method |-> "x",
                        arguments |-> encOAModelResolverResolveArguments([ref |-> SampleRef("")])]}
    [] t = "Reply" -> {[version |-> "1", service |-> "x", method |-> "x", ok |-> TRUE,
                        payload |-> encOAModelResolverResolveResult(
                                      [value |-> SampleResult("resolved", SampleRequest)])]}
    [] t = "ManifestResolveResult" -> {[value |-> SampleManifest("resolved", SampleRequest, "x")]}

\* Bytes at both ends of every range the UTF-8 and escape rules know.
MCRawBytes == {10, 31, 34, 92, 117, 127, 128, 143, 144, 159, 160, 191, 192, 194, 224, 237, 240, 244, 245}
MCUnits == {0, 34, 128, 2047, 2048, 55296, 56319, 56320, 57343, 65535}
MCCharacters == {45, 46, 48, 49, 50, 55, 56, 57}

\* One or two tokens of each kind of the identity tables.
Alphabet == {<<a>> : a \in {"qwen", "coder", "2", "7b", "q4", "k", "fp8", "ensemble", "ud", "vae", "instruct"}}
            \cup {<<"qwen", "2">>}

Identity == INSTANCE NameIdentity

NoDoc == type = "" /\ doc = "" /\ edits = 0
NoString == mode = "" /\ input = <<>>
NoReference == scheme = "" /\ text = <<>>
NoLine == command = "" /\ groups = <<>>
NoName == name = <<>>

TextsInit ==
  \/ DocInit /\ NoString /\ NoReference /\ NoLine /\ NoName
  \/ NoDoc /\ TextInit /\ NoReference /\ NoLine /\ NoName
  \/ NoDoc /\ NoString /\ RefInit /\ NoLine /\ NoName
  \/ NoDoc /\ NoString /\ NoReference /\ ArgInit /\ NoName
  \/ NoDoc /\ NoString /\ NoReference /\ NoLine /\ Identity!NameInit

TextsNext ==
  \/ type # "" /\ Edit /\ UNCHANGED <<textVars, refVars, argVars, name>>
  \/ mode # "" /\ TypePiece /\ UNCHANGED <<docVars, refVars, argVars, name>>
  \/ scheme # "" /\ TypeWord /\ UNCHANGED <<docVars, textVars, argVars, name>>
  \/ command # "" /\ TypeGroup /\ UNCHANGED <<docVars, textVars, refVars, name>>
  \/ name # <<>> /\ Identity!NameNext /\ UNCHANGED <<docVars, textVars, refVars, argVars>>

TextsSpec == TextsInit /\ [][TextsNext]_textsVars

-----------------------------------------------------------------------------
\* One artifact written in two ways has one family (identity.go).
VariantsShareFamily == name # <<>> => Identity!VariantsShareFamily

\* A fine-tune has a family of its own (identity.go).
FineTuneSplits == name # <<>> => Identity!FineTuneSplits
=============================================================================
