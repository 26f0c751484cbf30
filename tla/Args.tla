-------------------------------- MODULE Args --------------------------------
(***************************************************************************)
(* The command line of modelget (go/cmd/modelget/args.go): parse over Go's *)
(* flag package (external), need, and the flags each command declares.     *)
(*                                                                         *)
(* A command line is built word group by word group, and what parse makes  *)
(* of the words is compared with what the groups were meant to say.        *)
(***************************************************************************)
EXTENDS Naturals, Sequences, Positions

CONSTANTS Texts,        \* positionals and values; an empty one is NoText
          MaxGroups     \* bound: groups on one command line

VARIABLES command, groups
argVars == <<command, groups>>

NoText == ""

\* The words: a flag alone, a flag with its value attached, others.
Flag(n) == [kind |-> "flag", name |-> n, value |-> NoText]
Set(n, v) == [kind |-> "set", name |-> n, value |-> v]
Word(t) == [kind |-> "word", name |-> NoText, value |-> t]
WordText(w) == IF w.kind = "word" THEN w.value ELSE w.name

\* Flags by command: -o takes a value, --background is a switch.
ValueFlags(cmd) == IF cmd = "get" THEN {"o"} ELSE {}
Switches(cmd) == IF cmd = "get" THEN {"background"} ELSE {}

\* How many positional arguments a command wants; identify takes every one.
Wanted(cmd) == IF cmd \in {"get", "where", "identify"} THEN 1 ELSE 0
TakesRest(cmd) == cmd = "identify"

\* What parse has made of the words before r.at.
Unread == [refusal |-> "none", pos |-> <<>>, flags |-> {}, at |-> 1]
RefuseLine(r, why) == [r EXCEPT !.refusal = why]
TakeFlag(r, n, v, words) == [r EXCEPT !.flags = {f \in @ : f[1] # n} \cup {<<n, v>>}, !.at = @ + words]
TakePositional(r, t) == [r EXCEPT !.pos = Append(@, t), !.at = @ + 1]

\* One flag of fs.Parse (external).
parseOne(cmd, args, r) ==
  LET w == args[r.at]
      n == w.name
      known == n \in ValueFlags(cmd) \cup Switches(cmd)
      apart == n \in ValueFlags(cmd) /\ w.kind = "flag"
      sets == w.kind = "set" /\ (n \in ValueFlags(cmd) \/ w.value \in {"true", "false"})
  IN CASE ~known -> RefuseLine(r, IF n = "h" THEN "help" ELSE "refused")
       [] apart -> IF r.at = Len(args) THEN RefuseLine(r, "refused") ELSE TakeFlag(r, n, WordText(args[r.at + 1]), 2)
       [] known /\ w.kind = "flag" /\ ~apart -> TakeFlag(r, n, "true", 1)
       [] OTHER -> IF sets THEN TakeFlag(r, n, w.value, 1) ELSE RefuseLine(r, "refused")

\* Mutant: what follows the first positional is not parsed again.
isFlagFirst(w, r) == w.kind # "word" /\ r.pos = <<>>

\* Flags are read wherever they stand: parsing resumes after each positional.
isFlag(w, r) == w.kind # "word"

\* One turn of the loop of parse, or of the loop of fs.Parse inside it.
lineTurn(cmd, args, r) ==
  LET w == args[r.at]
  IN CASE r.refusal # "none" \/ r.at > Len(args) -> r
       [] r.refusal = "none" /\ r.at <= Len(args) /\ isFlag(w, r) -> parseOne(cmd, args, r)
       [] OTHER -> IF WordText(w) = NoText THEN RefuseLine(r, "refused") ELSE TakePositional(r, WordText(w))

\* Every turn moves on by a word, so Len(args) of them are enough.
LineTurns(cmd, args) == LET r[n \in 0..Len(args)] == IF n = 0 THEN Unread ELSE lineTurn(cmd, args, r[n - 1]) IN r

blank(flags) == \E f \in flags : f[2] = NoText

parse(cmd, args) ==
  LET r == LineTurns(cmd, args)[Len(args)]
      n == Len(r.pos)
  IN IF \/ r.refusal # "none"
        \/ n >= Wanted(cmd) /\ (n = Wanted(cmd) \/ TakesRest(cmd)) /\ ~blank(r.flags)
     THEN r ELSE RefuseLine(r, "refused")

\* The status the process ends with at once, or that it goes on.
need(cmd, args) ==
  LET r == parse(cmd, args)
  IN CASE r.refusal = "help" -> "exit0" [] r.refusal = "refused" -> "exit2" [] OTHER -> "on"

-----------------------------------------------------------------------------
(***************************************************************************)
(* What somebody types: a positional, an option or a switch, some wrong.   *)
(***************************************************************************)
Singles == {Word(t) : t \in Texts} \cup {Set("o", v) : v \in Texts} \cup {Set("background", v) : v \in Texts}
           \cup {Flag("background"), Flag("here"), Flag("h")}
Groups == {<<w>> : w \in Singles} \cup {<<Flag("o"), w>> : w \in {Word(t) : t \in Texts} \cup {Flag("background")}}

ArgInit == command \in {"get", "where", "list", "identify"} /\ groups = <<>>
TypeGroup ==
  /\ Len(groups) < MaxGroups
  /\ \E g \in Groups : groups' = Append(groups, g)
  /\ UNCHANGED command
ArgSpec == ArgInit /\ [][TypeGroup]_argVars

Line == Joined(groups)[Len(groups)]
IsPositional(g) == g[1].kind = "word"
IsOption(g) == command = "get" /\ g[1].name = "o"
IsSwitch(g) == command = "get" /\ g[1].name = "background" /\ (g[1].kind = "flag" \/ g[1].value \in {"true", "false"})
Meant(g) == CASE Len(g) = 2 -> WordText(g[2]) [] g[1].kind = "set" -> g[1].value [] OTHER -> "true"

\* The groups of a kind, and the last of them, if any.
Positionals == {i \in DOMAIN groups : IsPositional(groups[i])}
Options == {i \in DOMAIN groups : IsOption(groups[i])}
SwitchesOn == {i \in DOMAIN groups : IsSwitch(groups[i])}
LastOf(S) == {i \in S : \A j \in S : j <= i}

\* Wherever the positionals stand among the flags, a command line means what its
\* groups mean: every group that is not honoured is refused, an empty positional
\* or final value is refused, the positionals come out in order and no value is
\* taken for one ("a flag or an argument a command does not honour is a refusal,
\* never a skip").  Nothing that is refused goes on to act.
LineIsHonoured ==
  LET r == parse(command, Line)
      honoured == /\ DOMAIN groups = Positionals \cup Options \cup SwitchesOn
                  /\ \A i \in Positionals : groups[i][1].value # NoText
                  /\ \A i \in LastOf(Options) : Meant(groups[i]) # NoText
      counted == \/ Cardinality(Positionals) = Wanted(command)
                 \/ TakesRest(command) /\ Positionals # {}
  IN /\ (r.refusal = "none") = (honoured /\ counted)
     /\ r.refusal = "none" =>
          /\ Len(r.pos) = Cardinality(Positionals)
          /\ \A n \in DOMAIN r.pos : r.pos[n] = groups[Nth(Positionals, n)][1].value
          /\ r.flags = {<<"o", Meant(groups[i])>> : i \in LastOf(Options)}
                         \cup {<<"background", Meant(groups[i])>> : i \in LastOf(SwitchesOn)}
     /\ need(command, Line) = "exit0" => <<Flag("h")>> \in {groups[i] : i \in DOMAIN groups}
=============================================================================
