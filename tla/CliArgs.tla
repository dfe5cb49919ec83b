-------------------------------- MODULE CliArgs --------------------------------
(***************************************************************************)
(* From the arguments of the process to the command it runs: executeCLI of *)
(* main.go with loadEnvOptions, normalizeCLIArgs, wantsStructuredJSON and  *)
(* commandAction, around the flag package of Go.                           *)
(*                                                                         *)
(* The line is looked at three times: wantsStructuredJSON finds out how    *)
(* errors are to be reported, normalizeCLIArgs moves the options to the    *)
(* front, and the flag package reads them.  The first two do not use the   *)
(* table of flags that the third one uses.                                 *)
(*                                                                         *)
(* A token is a word or an option with its dashes, its name and, after an  *)
(* equals sign, a value.  The name of a word is the word.  Strings that    *)
(* differ in case only are one: every reading of an output format folds it.*)
(* White space is not left out, for not every reading trims it.            *)
(***************************************************************************)
EXTENDS Integers, Sequences

CONSTANTS
  String,        \* what an argument or a variable can hold
  Lines,         \* the argument lists to consider
  Environments,  \* the WADB_ variables to consider
  trimmed,       \* the strings with white space around them, and what is left of each
  NoValue        \* not given

CommandName == {"pair", "connect", "devices", "disconnect", "doctor", "capabilities", "schema"}

\* registerFlags: the flags there are, by type.
boolFlags ==
  {"version", "v", "pair-only", "qr-ascii", "qr-invert", "qr-sixel", "verbose",
   "non-interactive", "all", "json"}
stringFlags   == {"adb", "iface", "device", "output"}
durationFlags == {"pair-timeout", "connect-timeout", "scan-timeout"}
Flag          == boolFlags \cup stringFlags \cup durationFlags

\* v stands for version.
flagOf(name) == IF name = "v" THEN "version" ELSE name

\* (Mutant) A flag with a value was added to registerFlags and not here.
valueFlagsStale ==
  {"adb", "iface", "pair-timeout", "connect-timeout", "scan-timeout", "output"}

\* normalizeCLIArgs has a table of its own of the flags that take a value.
valueFlags ==
  {"adb", "iface", "pair-timeout", "connect-timeout", "scan-timeout", "device", "output"}

\* What a string has to be to be a boolean, a duration or, trimmed, an output format.
ParseBool     == {"true", "false"}
ParseDuration == {"3s"}
Output        == {NoValue, "", "text", "json"}

Token == [dashes : 0..2, name : String, value : String \cup {NoValue}]

terminator == [dashes |-> 2, name |-> "", value |-> NoValue]

isWord(tok) == tok.dashes = 0

\* A token as the value of the option before it: an option is no value of any type.
text(tok) == IF isWord(tok) THEN tok.name ELSE "--"

ASSUME CliAssumption ==
  /\ Flag \cup ParseBool \cup {"--"} \subseteq String
  /\ Lines \subseteq Seq(Token)
  /\ \A env \in Environments : env \in [Flag \ {"version", "v"} -> String \cup {NoValue}]
  /\ NoValue \notin String

ASSUME TrimAssumption ==
  /\ DOMAIN trimmed \subseteq String
  /\ \A v \in DOMAIN trimmed : trimmed[v] \in String \ DOMAIN trimmed
  /\ Output \cap DOMAIN trimmed = {}

\* strings.TrimSpace
Trim(v) == IF v \in DOMAIN trimmed THEN trimmed[v] ELSE v

\* A loop over s: FoldLeft, which the prover cannot look into.
Fold(step(_, _), e, s) ==
  LET folded[i \in 0..Len(s)] == IF i = 0 THEN e ELSE step(folded[i - 1], s[i])
  IN  folded[Len(s)]

VARIABLES
  line,        \* os.Args[1:]
  env,         \* the environment
  stdoutOK,    \* stdout can be written
  stage,       \* where executeCLI is: the call it makes next, "command", then "exited"
  normalized,  \* normalizedArgs
  setting,     \* the values of the flags, or NoValue
  words,       \* fs.Args()
  objects,     \* the envelopes written: [ok, action]
  exit         \* the exit status

cliVars == <<line, env, stdoutOK, stage, normalized, setting, words, objects, exit>>

\* A variable is trimmed wherever it is read, and one that is blank is not set.
Getenv(f) == IF Trim(env[f]) = "" THEN NoValue ELSE Trim(env[f])

----------------------------------------------------------------------------
(* wantsStructuredJSON *)

\* A separate value is skipped, so that it is not taken for a further --output.  What
\* the line says is compared as it stands: white space is not trimmed here.
Look(s, tok) ==
  IF s.value THEN [wanted |-> text(tok) = "json", value |-> FALSE]
  ELSE IF tok.dashes # 2 \/ tok.name # "output" THEN s
  ELSE IF tok.value = NoValue THEN [s EXCEPT !.value = TRUE]
  ELSE [s EXCEPT !.wanted = tok.value = "json"]

\* (Mutant) The environment is not asked.
wantsFromLine == Fold(Look, [wanted |-> FALSE, value |-> FALSE], line).wanted

wantsStructuredJSON ==
  Fold(Look, [wanted |-> Getenv("output") = "json", value |-> FALSE], line).wanted

----------------------------------------------------------------------------
(* normalizeCLIArgs *)

takesValue(tok) == ~isWord(tok) /\ tok.value = NoValue /\ tok.name \in valueFlags

\* The next token: a value goes where its option went; after the terminator, which
\* is left out, everything is positional.
Sort(s, tok) ==
  IF s.rest THEN [s EXCEPT !.positional = Append(@, tok)]
  ELSE IF s.value THEN [s EXCEPT !.options = Append(@, tok), !.value = FALSE]
  ELSE IF tok = terminator THEN [s EXCEPT !.rest = TRUE]
  ELSE IF isWord(tok) THEN [s EXCEPT !.positional = Append(@, tok)]
  ELSE [s EXCEPT !.options = Append(@, tok), !.value = takesValue(tok)]

sorted == Fold(Sort, [options |-> <<>>, positional |-> <<>>, value |-> FALSE, rest |-> FALSE], line)

----------------------------------------------------------------------------
(* The flag package: what is read decides how the next token is read. *)

NotSet == [f \in Flag |-> NoValue]

Valid(f, v) ==
  /\ f \in boolFlags => v \in ParseBool
  /\ f \in durationFlags => v \in ParseDuration

Assign(s, f, v) ==
  IF Valid(f, v)
  THEN [s EXCEPT !.set[flagOf(f)] = v, !.mode = "flags"]
  ELSE [s EXCEPT !.mode = "error"]

ReadFlag(s, tok) ==
  CASE tok.name \in Flag /\ tok.value # NoValue -> Assign(s, tok.name, tok.value)
    [] tok.name \in boolFlags /\ tok.value = NoValue -> Assign(s, tok.name, "true")
    [] tok.name \in Flag \ boolFlags /\ tok.value = NoValue ->
         [s EXCEPT !.mode = "value", !.pending = tok.name]
    [] tok.name \notin Flag ->
         [s EXCEPT !.mode = IF tok.name \in {"help", "h"} THEN "help" ELSE "error"]

ReadToken(s, tok) ==
  CASE s.mode = "value" -> Assign(s, s.pending, text(tok))
    [] s.mode = "flags" /\ isWord(tok) -> [s EXCEPT !.mode = "words", !.args = <<tok>>]
    [] s.mode = "flags" /\ tok = terminator -> [s EXCEPT !.mode = "words"]
    [] s.mode = "flags" /\ ~isWord(tok) /\ tok # terminator -> ReadFlag(s, tok)
    [] s.mode = "words" -> [s EXCEPT !.args = Append(@, tok)]
    [] s.mode \in {"help", "error"} -> s

Parse(toks) ==
  Fold(ReadToken, [mode |-> "flags", pending |-> NoValue, set |-> NotSet, args |-> <<>>], toks)

----------------------------------------------------------------------------
(* How executeCLI ends: finishCLIError, writeJSONSuccess. *)

\* The first argument that is a command, wherever it stands.
commandAction ==
  IF \E i \in DOMAIN line : isWord(line[i]) /\ line[i].name \in CommandName
  THEN line[CHOOSE i \in DOMAIN line :
              /\ isWord(line[i]) /\ line[i].name \in CommandName
              /\ \A j \in 1..(i - 1) : ~(isWord(line[j]) /\ line[j].name \in CommandName)].name
  ELSE "unknown"

\* Here white space is trimmed, on the line or not.
structuredJSON == Trim(setting["output"]) = "json"

\* An envelope is written if it is wanted and stdout takes it.
Write(wanted, ok, action) ==
  objects' = IF wanted /\ stdoutOK THEN Append(objects, [ok |-> ok, action |-> action]) ELSE objects

finishCLIError(action, status, wanted) ==
  /\ stage' = "exited"
  /\ exit' = status
  /\ Write(wanted, FALSE, action)

\* help, version: an envelope that cannot be written makes the run a failure.
Succeed(action, wanted) ==
  /\ stage' = "exited"
  /\ exit' = IF wanted /\ ~stdoutOK THEN 1 ELSE 0
  /\ Write(wanted, TRUE, action)

----------------------------------------------------------------------------
CliInit ==
  /\ line \in Lines
  /\ env \in Environments
  /\ stdoutOK \in BOOLEAN
  /\ stage = "loadEnvOptions"
  /\ normalized = <<>>
  /\ setting = NotSet
  /\ words = <<>>
  /\ objects = <<>>
  /\ exit = -1

\* No command line can make up for an environment that cannot be read.
loadEnvOptions ==
  /\ stage = "loadEnvOptions"
  /\ IF /\ Getenv("output") \in Output
        /\ \A f \in DOMAIN env : Getenv(f) = NoValue \/ Valid(f, Getenv(f))
     THEN stage' = "normalizeCLIArgs" /\ UNCHANGED <<objects, exit>>
     ELSE finishCLIError("unknown", 2, wantsStructuredJSON)
  /\ UNCHANGED <<line, env, stdoutOK, normalized, setting, words>>

normalizeCLIArgs ==
  /\ stage = "normalizeCLIArgs"
  /\ IF sorted.value
     THEN finishCLIError(commandAction, 2, wantsStructuredJSON) /\ UNCHANGED normalized
     ELSE /\ normalized' = sorted.options \o sorted.positional
          /\ stage' = "Parse"
          /\ UNCHANGED <<objects, exit>>
  /\ UNCHANGED <<line, env, stdoutOK, setting, words>>

\* A flag that is not on the line keeps the default that registerFlags gave it: the
\* value of the environment.
Defaulting(set) ==
  [f \in Flag |-> IF set[f] = NoValue /\ f \in DOMAIN env THEN Getenv(f) ELSE set[f]]

\* fs.Parse, and options().
ParseArgs ==
  /\ stage = "Parse"
  /\ \E parsed \in {Parse(normalized)} :
       CASE parsed.mode = "help" ->
              Succeed("help", wantsStructuredJSON) /\ UNCHANGED <<setting, words>>
         [] parsed.mode \in {"error", "value"} ->
              finishCLIError(commandAction, 2, wantsStructuredJSON) /\ UNCHANGED <<setting, words>>
         [] parsed.mode \in {"flags", "words"} ->
              /\ stage' = "validateOutput"
              /\ setting' = Defaulting(parsed.set)
              /\ words' = parsed.args
              /\ UNCHANGED <<objects, exit>>
  /\ UNCHANGED <<line, env, stdoutOK, normalized>>

\* From here on the parsed value of --output decides how errors are reported.
validateOutput ==
  /\ stage = "validateOutput"
  /\ IF Trim(setting["output"]) \notin Output THEN finishCLIError(commandAction, 2, structuredJSON)
     ELSE IF setting["version"] = "true" THEN Succeed("version", structuredJSON)
     ELSE stage' = "dispatch" /\ UNCHANGED <<objects, exit>>
  /\ UNCHANGED <<line, env, stdoutOK, normalized, setting, words>>

\* The command that the words name: pair takes an address, no word means the QR code.
named ==
  CASE words = <<>> -> "qr"
    [] Len(words) = 1 /\ text(words[1]) \in CommandName \ {"pair"} -> words[1].name
    [] Len(words) = 2 /\ text(words[1]) = "pair" -> "pair"
    [] OTHER -> "unknown"

dispatch ==
  /\ stage = "dispatch"
  /\ IF named = "unknown" THEN finishCLIError("unknown", 2, structuredJSON)
     ELSE stage' = "command" /\ UNCHANGED <<objects, exit>>
  /\ UNCHANGED <<line, env, stdoutOK, normalized, setting, words>>

actionOf(command) == IF command = "qr" THEN "pair" ELSE command

\* run refuses to show a QR code to a program.
refusesQR == named = "qr" /\ (structuredJSON \/ setting["non-interactive"] = "true")

CommandSucceeds ==
  /\ stage = "command"
  /\ ~refusesQR
  /\ stdoutOK \/ ~structuredJSON
  /\ Succeed(actionOf(named), structuredJSON)
  /\ UNCHANGED <<line, env, stdoutOK, normalized, setting, words>>

CommandFails ==
  /\ stage = "command"
  /\ \E status \in 1..2 : finishCLIError(actionOf(named), status, structuredJSON)
  /\ UNCHANGED <<line, env, stdoutOK, normalized, setting, words>>

Prepare ==
  loadEnvOptions \/ normalizeCLIArgs \/ ParseArgs \/ validateOutput \/ dispatch

----------------------------------------------------------------------------
(* Properties.  They speak of the line as its author means it: an option that takes *)
(* a value, by registerFlags, is followed by it, wherever the two stand.            *)

\* The token is the value of the option before it.
isValue(i) ==
  /\ i > 1
  /\ ~isWord(line[i - 1]) /\ line[i - 1].value = NoValue
  /\ line[i - 1].name \in Flag \ boolFlags

\* Nobody has forgotten a value, or ended the options, or written a value that looks
\* like an option; --output has two dashes.
Plain ==
  /\ \A i \in DOMAIN line :
       /\ line[i] # terminator
       /\ isValue(i) => isWord(line[i])
       /\ line[i].name = "output" => line[i].dashes # 1
  /\ line # <<>> => ~isValue(Len(line) + 1)

\* What the line says of the flag: the last time it is given.
Given(f) == {i \in DOMAIN line : ~isWord(line[i]) /\ flagOf(line[i].name) = f}

Says(f) ==
  LET last == CHOOSE i \in Given(f) : \A j \in Given(f) : j <= i
  IN  IF line[last].value # NoValue THEN line[last].value
      ELSE IF f \in boolFlags THEN "true" ELSE line[last + 1].name

\* What is asked for: on the line, else in the environment.
Asked(f) == IF Given(f) # {} THEN Says(f) ELSE IF f \in DOMAIN env THEN Getenv(f) ELSE NoValue

\* The words of the line that are no values.
plainWords == {i \in DOMAIN line : isWord(line[i]) /\ ~isValue(i)}

\* The tokens are those at these places of the line, in their order.
InOrder(toks, places) ==
  \E at \in [DOMAIN toks -> places] :
    /\ places = {at[i] : i \in DOMAIN toks}
    /\ \A i \in DOMAIN toks : toks[i] = line[at[i]]
    /\ \A i, j \in DOMAIN toks : i < j => at[i] < at[j]

\* README.md: "Flags can appear before or after a command", "CLI flags override
\* environment values".  Whatever the order, a command runs with the values that
\* were asked for and the words that are no values, in their order.
FlagsAnywhere ==
  stage = "command" /\ Plain =>
    /\ \A f \in Flag : setting[f] = Asked(f)
    /\ InOrder(words, plainWords)

\* JSON is asked for, and the answer can tell: a format with white space around it on
\* the line is read as JSON by all but wantsStructuredJSON, so it is overlooked until
\* the line has been read, that is, as long as nothing is set.
wantsJSON ==
  /\ Trim(Asked("output")) = "json"
  /\ Asked("output") \in DOMAIN trimmed => setting # NotSet

\* Whoever asks for JSON, on the line or in the environment, gets one envelope that
\* agrees with the exit status, also for an error found before the line has been
\* read (unless the format came with white space on the line, which is overlooked
\* until then and only then); and whoever does not ask gets none.
AnswersAsAsked ==
  stage = "exited" /\ Plain =>
    /\ ~wantsJSON \/ ~stdoutOK => objects = <<>>
    /\ wantsJSON /\ stdoutOK => Len(objects) = 1 /\ objects[1].ok = (exit = 0)
    /\ wantsJSON /\ ~stdoutOK => exit # 0

===============================================================================
