---------------------------- MODULE MCResolvers -----------------------------
(***************************************************************************)
(* A repository of three commits in which a quantisation is replaced, a    *)
(* second one appears and a file loses its digest; two models in Ollama.   *)
(***************************************************************************)
EXTENDS Resolvers

File(name, quants, sha) == [name |-> name, gguf |-> quants # {}, quants |-> quants, sha |-> sha,
                            size |-> 0, lfsSize |-> 2, sane |-> name # "../x"]
MCCommits == << {File("m.Q4", {"Q4"}, "d1"), File("readme", {}, "")},
                {File("m.Q4", {"Q4"}, "d2"), File("m.Q4_K", {"Q4", "K"}, "d1"), File("../x", {"Q8"}, "d2")},
                {File("m.Q4", {"Q4"}, ""), File("m.Q8", {"Q8"}, "d1")} >>
MCCommitNames == <<"c1", "c2", "c3">>
Ref(registry, repo, rev, quant, file, credential) ==
  [registry |-> registry, repo |-> repo, revision |-> rev, quant |-> quant, file |-> file,
   credential |-> credential]
MCRefs == {Ref("hf", "org/name", rev, q, "", "") : rev \in {"", "c1", "gone"}, q \in {"", "Q4", "K", "Q8"}}
          \cup {Ref("hf", "org/name", "main", "", "m.Q4", c) : c \in {"", "cred"}}
          \cup {Ref("hf", "suspicious", "", "", "", ""), Ref("ollama", "m", "", "", "", ""),
                Ref("ollama", "suspicious", "", "", "", "")}
=============================================================================
