------------------------------- MODULE MCStartup -------------------------------
(***************************************************************************)
(* Lines of at most four tokens: around a command, every choice out of the *)
(* commands, the words that options take and the options with and without  *)
(* their value; and pairs of all the tokens there are, with --output=json  *)
(* between them or after doctor.  A format with white space around it      *)
(* stands in the environment, and on the line in one token or as a value.  *)
(***************************************************************************)
EXTENDS Startup

CONSTANTS noValue

W(w)        == [dashes |-> 0, name |-> w, value |-> noValue]
Flg(f)      == [dashes |-> 2, name |-> f, value |-> noValue]
FlgIs(f, v) == [dashes |-> 2, name |-> f, value |-> v]

MCTokens ==
  {W("connect"), W("pair"), W("json"), terminator, Flg("output"), FlgIs("output", "text"),
   Flg("device"), Flg("all")}

MCShort ==
  {W("doctor"), W("3s"), [Flg("output") EXCEPT !.dashes = 1], FlgIs("output", "json"),
   FlgIs("output", " json"), FlgIs("output", "yaml"), Flg("scan-timeout"), FlgIs("all", "false"), FlgIs("all", "often"),
   Flg("help"), Flg("v"), Flg("bogus"), Flg("non-interactive")}

MCAround == {<<W("connect")>> \o l : l \in [1..3 -> MCTokens]} \cup {l \o <<W("pair")>> : l \in [1..2 -> MCTokens]}

MCLines ==
  MCAround \cup {<<t>> : t \in MCTokens \cup MCShort} \cup {<<>>}
    \cup {<<a, FlgIs("output", "json"), b>> : a \in MCTokens \cup MCShort, b \in MCTokens \cup MCShort}
    \cup {<<W("doctor"), a, b>> : a \in MCShort, b \in MCShort}
    \cup {<<Flg("output"), W(v), a>> : v \in {" json", " "}, a \in MCShort}

MCString == STRING
MCTrimmed ==
  [v \in {" json", " true", " "} |->
     CASE v = " json" -> "json" [] v = " true" -> "true" [] v = " " -> ""]

NoEnv == [f \in Flag \ {"version", "v"} |-> noValue]

MCEnvironments ==
  {NoEnv, [NoEnv EXCEPT !["output"] = " json", !["device"] = "pair", !["all"] = " true"],
   [NoEnv EXCEPT !["output"] = "yaml"], [NoEnv EXCEPT !["output"] = "json", !["all"] = "often", !["device"] = " "]}

MCAlphabets == {2, 3}
MCWanted == [c \in Credential |-> IF c = "name" THEN 1 ELSE 2]

===============================================================================
