------------------------------- MODULE Commands -------------------------------
(***************************************************************************)
(* One run of the wadb command line: main.go, device_manager.go, output.go *)
(* and the adb calls of internal/adb/adb.go.  The discovery a command      *)
(* makes is what Scan promises: some sequence of endpoints with distinct   *)
(* addresses, or nothing.                                                  *)
(***************************************************************************)
EXTENDS TryConnect, Selection

CONSTANTS
  Options,       \* the command lines to consider
  NoName,        \* the instance name of an endpoint given by address
  NoExit,        \* the process is running
  Trusts,        \* the hosts whose phone is paired already, to start from
  Servers        \* the addresses the adb server is connected to, to start from

Cmd == {"pair", "qr", "connect", "disconnect", "devices", "doctor"}

\* A command line.  arg is the <host:port> of pair; badIface: --iface names an
\* unusable interface; terminal: stdin is one; broken: stdout cannot be written.
Option ==
  [cmd : Cmd, json : {"none", "legacy", "structured"}, all : BOOLEAN, device : Selector,
   arg : {NoDevice} \cup (Host \X Port), pairOnly : BOOLEAN, nonInteractive : BOOLEAN,
   badIface : BOOLEAN, terminal : BOOLEAN, broken : BOOLEAN]

ASSUME CommandsAssumption ==
  /\ Options \subseteq Option
  /\ NoName \in Instance
  /\ NoExit \notin {0, 1, 2}
  /\ Trusts \subseteq SUBSET Host
  /\ Servers \subseteq SUBSET (Host \X Port)

\* The documented error codes (knownErrorCapabilities), and none.
Code ==
  {"none", "invalid_arguments", "interactive_required", "invalid_pairing_code",
   "adb_not_found", "adb_error", "pairing_failed", "discovery_timeout", "device_not_found",
   "multiple_devices", "connection_failed", "disconnect_failed", "internal_error"}

VARIABLES
  opts,      \* the command line
  pc,        \* where the process is
  pairEP,    \* the endpoint to pair with: of the arg, or announced by the phone
  sent,      \* history: how often a code or password was given to adb pair
  paired,    \* adb pair succeeded
  lost,      \* history: addresses the server disconnected from on our behalf
  found,     \* history: what the scan of this run returned
  report,    \* doctor: its result
  code,      \* the error of the run
  exit,      \* exit status
  objects    \* JSON values on stdout: "ok" (a legacy array, too) or "error"

ownVars == <<opts, pc, pairEP, sent, paired, lost, found, report, code, exit, objects>>
cvars   == <<connectVars, ownVars>>

structured == opts.json = "structured"

\* A doctorResult: its lists, what is known of adb's version, and its warnings.
Report ==
  [version : {"unknown", "number", "text"}, interfaces : {"empty", "listed"},
   services : {"empty", "null", "listed"},
   warnings : SUBSET {"version", "old", "interfaces", "services"}]

emptyReport ==
  [version |-> "unknown", interfaces |-> "empty", services |-> "empty", warnings |-> {}]

----------------------------------------------------------------------------
(* How a run ends: executeCLI, finishCLIError, writeJSONSuccess/Failure. *)

\* (Mutant) The error is reported in text.
FailSilently(c, status) ==
  /\ pc' = "exited"
  /\ code' = c
  /\ exit' = status
  /\ UNCHANGED objects

\* An error ends the run; structured output reports it on stdout.
Fail(c, status) ==
  /\ pc' = "exited"
  /\ code' = c
  /\ exit' = status
  /\ objects' = IF structured /\ ~opts.broken THEN Append(objects, "error") ELSE objects

\* pair ignores the legacy --json, and so does doctor.
writesJSON ==
  structured \/ (opts.json = "legacy" /\ opts.cmd \in {"connect", "devices", "disconnect"})

\* The command returns nil after it wrote its result, or the error of writing it.
Succeed ==
  IF writesJSON /\ opts.broken
  THEN Fail("internal_error", 1)
  ELSE /\ pc' = "exited"
       /\ code' = "none"
       /\ exit' = 0
       /\ objects' = IF writesJSON THEN Append(objects, "ok") ELSE objects

----------------------------------------------------------------------------
CommandsInit ==
  /\ opts \in Options
  /\ pc = "start"
  /\ targets = <<>>
  /\ all = FALSE
  /\ results = <<>>
  /\ interrupted = FALSE
  /\ trusted \in Trusts
  /\ adb \in Servers
  /\ \A a \in adb : a[1] \in trusted
  /\ gained = {}
  /\ pairEP = NoDevice
  /\ sent = 0
  /\ paired = FALSE
  /\ lost = {}
  /\ found = <<>>
  /\ report = emptyReport
  /\ code = "none"
  /\ exit = NoExit
  /\ objects = <<>>

Interrupt ==
  /\ pc \notin {"start", "exited"}
  /\ ~interrupted
  /\ interrupted' = TRUE
  /\ UNCHANGED <<targets, all, results, trusted, adb, gained, ownVars>>

\* The combinations of options a command refuses.
refused ==
  \/ opts.cmd \in {"connect", "disconnect"} /\ opts.all /\ opts.device # NoDevice
  \/ opts.cmd = "disconnect" /\ ~opts.all /\ opts.device = NoDevice
  \/ opts.cmd = "devices" /\ opts.all
  \/ opts.cmd = "pair" <=> opts.arg = NoDevice

\* The flow would need a person, and there is none.
unattended ==
  \/ opts.cmd = "qr" /\ (structured \/ opts.nonInteractive)
  \/ opts.cmd = "pair" /\ opts.nonInteractive /\ opts.terminal

\* disconnect looks at --iface when it scans, and doctor only reports on it.
checksIface == opts.cmd \notin {"disconnect", "doctor"}

\* What is refused before adb is looked for.
Validate ==
  /\ pc = "start"
  /\ UNCHANGED <<connectVars, opts, pairEP, sent, paired, lost, found, report>>
  /\ IF refused THEN Fail("invalid_arguments", 2)
     ELSE IF unattended THEN Fail("interactive_required", 2)
     ELSE IF checksIface /\ opts.badIface THEN Fail("invalid_arguments", 2)
     ELSE pc' = "setup" /\ UNCHANGED <<code, exit, objects>>

----------------------------------------------------------------------------
(* setupADB: find adb, ask its version (only a warning), start the server.  doctor  *)
(* only finds adb here.                                                     *)

\* Where each command goes on to.
afterSetup ==
  CASE opts.cmd = "pair"    -> "read"
    [] opts.cmd = "qr"      -> "scan"
    [] opts.cmd = "devices" -> "list"
    [] opts.cmd = "doctor"  -> "inspect"
    [] opts.cmd = "connect" ->
         IF opts.device \in Host \X Port THEN "try" ELSE "discover"
    [] opts.cmd = "disconnect" ->
         IF opts.all THEN "disconnectAll"
         ELSE IF opts.device \in Host \X Port THEN "disconnect" ELSE "resolve"

\* --device <host:port> needs no discovery: it is the only endpoint to try.
direct ==
  IF opts.device \in Host \X Port
  THEN <<[inst |-> NoName, host |-> opts.device[1], port |-> opts.device[2]]>>
  ELSE <<>>

SetupOK ==
  /\ pc = "setup"
  /\ interrupted => opts.cmd = "doctor"
  /\ pc' = afterSetup
  /\ targets' = IF opts.cmd \in {"connect", "disconnect"} THEN direct ELSE <<>>
  /\ pairEP' = opts.arg
  /\ UNCHANGED <<all, results, interrupted, trusted, adb, gained>>
  /\ UNCHANGED <<opts, sent, paired, lost, found, report, code, exit, objects>>

SetupFails ==
  /\ pc = "setup"
  /\ UNCHANGED <<connectVars, opts, pairEP, sent, paired, lost, found, report>>
  /\ Fail("adb_not_found", 1) \/ (opts.cmd # "doctor" /\ Fail("adb_error", 1))

----------------------------------------------------------------------------
(* pairByCode and run: a code from stdin, or a phone that scans the QR code. *)

\* The user or a pipe supplies six digits.  Reading is blind to the interrupt.
ReadCode ==
  /\ pc = "read"
  /\ pc' = "adbPair"
  /\ UNCHANGED <<connectVars, opts, pairEP, sent, paired, lost, found, report, code, exit, objects>>

\* (Mutant) What was read is checked only after it was sent.
ReadGarbageSends ==
  /\ pc = "read"
  /\ sent' = sent + 1
  /\ UNCHANGED <<connectVars, opts, pairEP, paired, lost, found, report>>
  /\ Fail("invalid_pairing_code", 1)

\* Something else was read, or nothing.
ReadGarbage ==
  /\ pc = "read"
  /\ UNCHANGED <<connectVars, opts, pairEP, sent, paired, lost, found, report>>
  /\ Fail("invalid_pairing_code", 1)

\* The phone that scanned the code announces where it pairs (BrowsePairing).
PhoneScans(host, port) ==
  /\ pc = "scan"
  /\ pc' = "adbPair"
  /\ pairEP' = <<host, port>>
  /\ UNCHANGED <<connectVars, opts, sent, paired, lost, found, report, code, exit, objects>>

\* (Mutant) The failure has a code of its own that is not in the list of codes.
NobodyScansNamed ==
  /\ pc = "scan"
  /\ UNCHANGED <<connectVars, opts, pairEP, sent, paired, lost, found, report>>
  /\ Fail("pairing_timeout", 1)

\* No credentials could be generated, or no phone scanned the code in time.
NobodyScans ==
  /\ pc = "scan"
  /\ UNCHANGED <<connectVars, opts, pairEP, sent, paired, lost, found, report>>
  /\ Fail("internal_error", 1)

afterPair == IF opts.pairOnly THEN "paired" ELSE "discover"

PairOK ==
  /\ pc = "adbPair"
  /\ ~interrupted
  /\ sent' = sent + 1
  /\ trusted' = trusted \cup {pairEP[1]}
  /\ paired' = TRUE
  /\ pc' = afterPair
  /\ UNCHANGED <<targets, all, results, interrupted, adb, gained>>
  /\ UNCHANGED <<opts, pairEP, lost, found, report, code, exit, objects>>

\* (Mutant) A failed adb pair is tried once more.
PairFailsRetries ==
  /\ pc = "adbPair"
  /\ sent' = IF interrupted THEN sent ELSE sent + 1
  /\ UNCHANGED <<connectVars, opts, pairEP, paired, lost, found, report>>
  /\ IF sent < 1 THEN UNCHANGED <<pc, code, exit, objects>> ELSE Fail("pairing_failed", 1)

\* The phone rejects the code, or the call was not started.
PairFails ==
  /\ pc = "adbPair"
  /\ sent' = IF interrupted THEN sent ELSE sent + 1
  /\ UNCHANGED <<connectVars, opts, pairEP, paired, lost, found, report>>
  /\ Fail("pairing_failed", 1)

\* The interrupt kills adb pair, before or after the phone accepted the code.
PairKilled ==
  /\ pc = "adbPair"
  /\ ~interrupted
  /\ interrupted' = TRUE
  /\ sent' = sent + 1
  /\ trusted' \in {trusted, trusted \cup {pairEP[1]}}
  /\ UNCHANGED <<targets, all, results, adb, gained>>
  /\ UNCHANGED <<opts, pairEP, paired, lost, found, report>>
  /\ Fail("pairing_failed", 1)

PairedOnly ==
  /\ pc = "paired"
  /\ UNCHANGED <<connectVars, opts, pairEP, sent, paired, lost, found, report>>
  /\ Succeed

----------------------------------------------------------------------------
(* Discovery and selection. *)

selected(eps) == selectEndpoints(eps, opts.device)

\* (Mutant) Structured mode chooses for the caller.
ambiguousNever(eps) == FALSE

\* Structured mode will not choose between endpoints.
ambiguous(eps) ==
  structured /\ opts.device = NoDevice /\ ~opts.all /\ Len(eps) > 1

DiscoverNothing ==
  /\ pc = "discover"
  /\ UNCHANGED <<connectVars, opts, pairEP, sent, paired, lost, found, report>>
  /\ Fail(IF opts.cmd = "qr" THEN "internal_error" ELSE "discovery_timeout", 1)

\* connect: select among what was discovered.
DiscoverToConnect(eps) ==
  /\ pc = "discover"
  /\ opts.cmd = "connect"
  /\ found' = eps
  /\ UNCHANGED <<results, interrupted, trusted, adb, gained>>
  /\ UNCHANGED <<opts, pairEP, sent, paired, lost, report>>
  /\ IF selected(eps) = <<>>
     THEN Fail("device_not_found", 1) /\ UNCHANGED <<targets, all>>
     ELSE IF ambiguous(selected(eps))
     THEN Fail("multiple_devices", 1) /\ UNCHANGED <<targets, all>>
     ELSE /\ targets' = selected(eps)
          /\ all' = opts.all
          /\ pc' = "try"
          /\ UNCHANGED <<code, exit, objects>>

\* pair and qr: the host just paired with is tried first, then the others.
DiscoverPaired(eps) ==
  /\ pc = "discover"
  /\ opts.cmd \in {"pair", "qr"}
  /\ found' = eps
  /\ targets' = PreferHost(eps, pairEP[1])
  /\ UNCHANGED all
  /\ pc' = "try"
  /\ UNCHANGED <<results, interrupted, trusted, adb, gained>>
  /\ UNCHANGED <<opts, pairEP, sent, paired, lost, report, code, exit, objects>>

TryEndpoint ==
  /\ pc = "try"
  /\ Attempt
  /\ UNCHANGED ownVars

\* (Mutant) The connection made last decides.
TryEndsByLast ==
  /\ pc = "try"
  /\ ~Trying
  /\ UNCHANGED <<connectVars, opts, pairEP, sent, paired, lost, found, report>>
  /\ IF Connected(Len(results)) THEN Succeed
     ELSE Fail(IF opts.cmd = "qr" THEN "internal_error" ELSE "connection_failed", 1)

\* One connection is enough, with --all too.
TryEnds ==
  /\ pc = "try"
  /\ ~Trying
  /\ UNCHANGED <<connectVars, opts, pairEP, sent, paired, lost, found, report>>
  /\ IF Succeeded THEN Succeed
     ELSE Fail(IF opts.cmd = "qr" THEN "internal_error" ELSE "connection_failed", 1)

----------------------------------------------------------------------------
(* disconnect *)

\* The server drops the addresses in gone, all of them connected.
Disconnects(gone) ==
  /\ adb' = adb \ gone
  /\ lost' = lost \cup gone
  /\ UNCHANGED <<targets, all, trusted, gained>>
  /\ UNCHANGED <<opts, pairEP, sent, paired, found, report>>

\* adb disconnect without an address.
DisconnectAll ==
  /\ pc = "disconnectAll"
  /\ UNCHANGED results
  /\ \/ ~interrupted /\ Disconnects(adb) /\ Succeed /\ UNCHANGED interrupted
     \/ Disconnects({}) /\ Fail("disconnect_failed", 1) /\ UNCHANGED interrupted
     \/ /\ ~interrupted
        /\ Disconnects(adb) \/ Disconnects({})
        /\ interrupted' = TRUE
        /\ Fail("disconnect_failed", 1)

\* A name is resolved by a scan alone: the list of connected devices that is
\* asked for afterwards is compared with the selector, which is no address here.
Resolve(eps) ==
  /\ pc = "resolve"
  /\ UNCHANGED <<all, results, interrupted, trusted, adb, gained>>
  /\ UNCHANGED <<opts, pairEP, sent, paired, lost, report>>
  /\ IF opts.badIface
     THEN Fail("invalid_arguments", 2) /\ UNCHANGED <<targets, found>>
     ELSE /\ found' = eps
          /\ targets' = selected(eps)
          /\ IF selected(eps) = <<>>
             THEN Fail("device_not_found", 1)
             ELSE pc' = "disconnect" /\ UNCHANGED <<code, exit, objects>>

left == Len(results) < Len(targets)

\* One adb disconnect: the server drops the address, or adb fails (the server
\* does not know the address, say), or the call is killed or never started.
DisconnectOne ==
  /\ pc = "disconnect"
  /\ left
  /\ UNCHANGED <<pc, code, exit, objects>>
  /\ \/ /\ ~interrupted
        /\ Addr(next) \in adb
        /\ Disconnects({Addr(next)})
        /\ Record("disconnected")
        /\ UNCHANGED interrupted
     \/ /\ Disconnects({})
        /\ Record("failed")
        /\ UNCHANGED interrupted
     \/ /\ ~interrupted
        /\ interrupted' = TRUE
        /\ Disconnects({Addr(next)} \cap adb) \/ Disconnects({})
        /\ Record("failed")

\* One failure makes the whole command fail.
DisconnectEnds ==
  /\ pc = "disconnect"
  /\ ~left
  /\ UNCHANGED <<connectVars, opts, pairEP, sent, paired, lost, found, report>>
  /\ IF \E i \in DOMAIN results : results[i].status = "failed"
     THEN Fail("disconnect_failed", 1)
     ELSE Succeed

----------------------------------------------------------------------------
(* devices and doctor: what they read changes nothing. *)

\* adb devices -l.
List ==
  /\ pc = "list"
  /\ UNCHANGED <<connectVars, opts, pairEP, sent, paired, lost, found, report>>
  /\ \/ ~interrupted /\ pc' = "table" /\ UNCHANGED <<code, exit, objects>>
     \/ Fail("adb_error", 1)

\* A scan that fails, or is interrupted, is only a warning.  The command returns the
\* error of printing the table, when that has rows.
ShowTable ==
  /\ pc = "table"
  /\ UNCHANGED <<connectVars, opts, pairEP, sent, paired, lost, found, report>>
  /\ \/ Succeed
     \/ ~writesJSON /\ opts.broken /\ Fail("internal_error", 1)

\* doctor looks at the version of adb, which may be old or not a number, and, for the
\* structured result, at the interfaces, of which there may be none.  What cannot be
\* had is a warning.
Inspect ==
  /\ pc = "inspect"
  /\ pc' = "server"
  /\ \E v \in {"unknown", "number", "text"}, i \in {"empty", "listed"},
        w \in SUBSET {"version", "old", "interfaces"} :
       /\ "version" \in w <=> v = "unknown"
       /\ interrupted => v = "unknown"
       /\ "old" \in w => v = "number"
       /\ "interfaces" \in w => structured
       /\ ~structured \/ "interfaces" \in w => i = "empty"
       /\ structured /\ opts.badIface => "interfaces" \in w
       /\ report' = [emptyReport EXCEPT !.version = v, !.interfaces = i, !.warnings = w]
  /\ UNCHANGED <<connectVars, opts, pairEP, sent, paired, lost, found, code, exit, objects>>

\* Without a server there is no result, whatever has been found out.
StartServer ==
  /\ pc = "server"
  /\ ~interrupted
  /\ pc' = "services"
  /\ UNCHANGED <<connectVars, opts, pairEP, sent, paired, lost, found, report, code, exit, objects>>

StartServerFails ==
  /\ pc = "server"
  /\ UNCHANGED <<connectVars, opts, pairEP, sent, paired, lost, found, report>>
  /\ Fail("adb_error", 1)

\* The lines of adb mdns services replace the empty list of the result; when
\* there is no line they are a nil slice, which encodes as null.
Services ==
  /\ pc = "services"
  /\ \/ ~interrupted /\ \E lines \in {"null", "listed"} : report' = [report EXCEPT !.services = lines]
     \/ report' = [report EXCEPT !.warnings = @ \cup {"services"}]
  /\ UNCHANGED <<connectVars, opts, pairEP, sent, paired, lost, found>>
  /\ Succeed

Doctor == Inspect \/ StartServer \/ StartServerFails \/ Services

----------------------------------------------------------------------------
Process ==
  \/ Validate
  \/ SetupOK
  \/ SetupFails
  \/ \E eps \in Discoverable : PhoneScans(eps[1].host, eps[1].port)
  \/ NobodyScans
  \/ PairOK
  \/ PairFails
  \/ PairKilled
  \/ PairedOnly
  \/ DiscoverNothing
  \/ \E eps \in Discoverable : DiscoverToConnect(eps) \/ DiscoverPaired(eps)
  \/ TryEndpoint
  \/ TryEnds
  \/ DisconnectAll
  \/ \E eps \in Discoverable \cup {<<>>} : Resolve(eps)
  \/ DisconnectOne
  \/ DisconnectEnds
  \/ List
  \/ ShowTable
  \/ Doctor

Environment ==
  \/ Interrupt
  \/ ReadCode
  \/ ReadGarbage
  \/ \E a \in adb : Drop(a) /\ UNCHANGED ownVars

Exited == pc = "exited" /\ UNCHANGED cvars

CommandsNext == Process \/ Environment \/ Exited

\* The process is scheduled, and adb calls return.  Nobody has to type a code.
CommandsSpec == CommandsInit /\ [][CommandsNext]_cvars /\ WF_cvars(Process)

----------------------------------------------------------------------------
(* Properties. *)

CommandsTypeOK ==
  /\ targets \in Seq(Endpoint)
  /\ all \in BOOLEAN
  /\ results \in Seq(Outcome)
  /\ interrupted \in BOOLEAN
  /\ trusted \subseteq Host
  /\ adb \subseteq Host \X Port
  /\ gained \subseteq Host \X Port
  /\ opts \in Option
  /\ pc \in {"start", "setup", "read", "scan", "adbPair", "paired", "discover", "try",
            "disconnectAll", "resolve", "disconnect", "list", "table", "inspect", "server", "services",
            "exited"}
  /\ pairEP \in {NoDevice} \cup (Host \X Port)
  /\ sent \in Nat
  /\ paired \in BOOLEAN
  /\ lost \subseteq Host \X Port
  /\ found \in Seq(Endpoint)
  /\ report \in Report
  /\ code \in Code
  /\ exit \in {NoExit, 0, 1, 2}
  /\ objects \in Seq({"ok", "error"})

Over == pc = "exited"

\* The addresses the results of a run have with the status.
Recorded(status) == {Addr(results[i].ep) : i \in {j \in DOMAIN results : results[j].status = status}}

\* The addresses a run has told of by its end.  A text is printed as things happen; of
\* JSON only a success carries the results; and a broken stdout carries nothing.
Reported(status) ==
  IF opts.broken \/ (writesJSON /\ objects # <<"ok">>) THEN {} ELSE Recorded(status)

\* A structured run writes exactly one object, and its ok is the exit status: an
\* agent never sees a success it has to doubt, an error twice, or nothing at all
\* (unless stdout is broken, and then the run is a failure).
OneAnswer ==
  Over /\ structured =>
    /\ objects = IF opts.broken THEN <<>> ELSE <<IF exit = 0 THEN "ok" ELSE "error">>
    /\ exit = 0 => code = "none" /\ ~opts.broken

\* Without --all a run makes the adb server connect to one address at most, even
\* when it is interrupted in the middle of a connect.
AtMostOneGained == ~opts.all => Cardinality(gained) <= 1

\* A run that asks the caller to come back with other arguments has changed
\* nothing on the way there.
RefusalChangesNothing ==
  exit = 2 \/ code \in {"multiple_devices", "device_not_found", "invalid_pairing_code"} =>
    gained = {} /\ lost = {} /\ sent = 0

\* The pairing commands connect only after adb pair succeeded, and never with
\* --pair-only.
PairsFirst ==
  opts.cmd \in {"pair", "qr"} /\ gained # {} => paired /\ ~opts.pairOnly

\* A one-time code is given to adb once, whatever comes of it.
CodeGivenOnce == sent <= 1

\* What is reported connected or disconnected was.  What was done is reported, unless
\* an interrupt or a broken stdout cut the report off: only a failed disconnect leaves
\* out of its JSON what it did disconnect, and --all does not list it.
ReportedFaithfully ==
  Over =>
    /\ Reported("connected") \subseteq gained
    /\ Reported("disconnected") \subseteq lost
    /\ ~interrupted /\ ~opts.broken =>
         /\ gained \subseteq Reported("connected")
         /\ \/ lost \subseteq Reported("disconnected")
            \/ opts.all /\ exit = 0
            \/ writesJSON /\ code = "disconnect_failed"

\* The exit status tells what happened: connecting succeeded when one endpoint
\* did, disconnecting when every one did.
ExitTellsOutcome ==
  Over =>
    /\ targets # <<>> /\ opts.cmd # "disconnect" /\ ~opts.broken =>
         (exit = 0 <=> Recorded("connected") # {})
    /\ targets # <<>> /\ opts.cmd = "disconnect" /\ ~opts.broken =>
         (exit = 0 <=> Recorded("disconnected") = {Addr(targets[i]) : i \in DOMAIN targets})

\* A run gives up on connecting only when every candidate was tried, and --all
\* tries every one in any case.
NothingLeftUntried ==
  Over /\ targets # <<>> /\ (exit # 0 \/ all) /\ ~opts.broken =>
    Len(results) = Len(targets)

\* In structured mode connect never picks one of several endpoints by itself, and
\* it does not refuse what the caller was explicit about.
StructuredNeverChooses ==
  structured /\ opts.cmd = "connect" /\ opts.device = NoDevice =>
    /\ gained # {} => opts.all \/ Len(found) = 1
    /\ code = "multiple_devices" => Len(found) > 1 /\ ~opts.all

\* The selector names the address, or an endpoint that was found there.
Named(a) ==
  \/ a = opts.device
  \/ \E i \in DOMAIN found : a = Addr(found[i]) /\ opts.device \in candidates(found[i])

selective == opts.cmd \in {"connect", "disconnect"} /\ opts.device \notin {NoDevice, BlankDevice}

\* A command that is given a selector touches nothing but what it names: neither
\* what else a scan finds, nor what else adb is connected to.
TouchesOnlySelected == selective => \A a \in gained \cup lost : Named(a)

\* Once the user has interrupted, no command changes anything any more.
NothingAfterInterrupt ==
  [][interrupted => UNCHANGED <<gained, lost, trusted, sent>>]_cvars

\* What a command is for.
purpose ==
  [pairs |-> opts.cmd \in {"pair", "qr"},
   connects |-> opts.cmd = "connect" \/ (opts.cmd \in {"pair", "qr"} /\ ~opts.pairOnly),
   disconnects |-> opts.cmd = "disconnect",
   all |-> opts.all]

\* A run does to the outside what RunContract allows, whatever happens to it.
Contract ==
  INSTANCE RunContract WITH
    Address <- Host \X Port, Running <- NoExit,
    command <- purpose, given <- sent, cut <- interrupted, status <- exit

ImplementsContract == Contract!Spec

\* Every run ends, interrupted or not, unless it waits for a code nobody types.
Exits == <>Over \/ <>[](pc = "read")

\* What the proofs need besides.  Where a command can be, and what it has by then:
Stages ==
  /\ pc \in {"setup", "read"} /\ opts.cmd = "pair" => opts.arg \in Host \X Port
  /\ pc \in {"read", "adbPair"} => pairEP \in Host \X Port
  /\ pc \in {"read", "scan", "adbPair", "paired"} => opts.cmd \in {"pair", "qr"}
  /\ pc \in {"discover", "try"} => opts.cmd \in {"connect", "pair", "qr"}
  /\ pc \in {"resolve", "disconnect", "disconnectAll"} => opts.cmd = "disconnect"
  /\ pc = "disconnectAll" => opts.all
  /\ pc \in {"resolve", "disconnect"} => ~opts.all
  /\ pc = "paired" => paired /\ opts.pairOnly
  /\ pc \in {"list", "table"} => opts.cmd = "devices"
  /\ pc \in {"inspect", "server", "services"} => opts.cmd = "doctor"
  /\ pc \in {"discover", "try"} /\ opts.cmd \in {"pair", "qr"} => paired /\ ~opts.pairOnly

\* what it has not done yet, or will never do:
Untouched ==
  /\ pc \notin {"try", "disconnect", "exited"} => gained = {} /\ lost = {} /\ results = <<>>
  /\ pc \in {"start", "setup", "read", "scan", "adbPair"} => sent = 0 /\ ~paired
  /\ opts.cmd \notin {"pair", "qr"} => sent = 0
  /\ opts.cmd = "disconnect" => gained = {}
  /\ opts.cmd # "disconnect" => lost = {}
  /\ pc # "exited" => code = "none" /\ exit = NoExit /\ objects = <<>>

\* and that the loop goes on only while nothing is connected, unless with --all.
OneAtATime ==
  /\ all => opts.all
  /\ gained # {} /\ ~all =>
       /\ \E a \in Host \X Port : gained = {a}
       /\ Succeeded \/ interrupted

\* The results are the truth, and all of it unless an interrupt came between.
ResultsFaithful ==
  /\ Recorded("connected") \subseteq gained
  /\ Recorded("disconnected") \subseteq lost
  /\ gained \subseteq Recorded("connected") \/ interrupted
  /\ lost \subseteq Recorded("disconnected") \/ interrupted \/ opts.all

\* A success in JSON carries them; a failure has connected nothing, and disconnected
\* something only when it is that of a disconnect, with --all an interrupted one.
Accounted ==
  Over =>
    /\ writesJSON /\ exit = 0 => objects = <<"ok">>
    /\ exit # 0 /\ ~opts.broken =>
         /\ ~Succeeded
         /\ lost # {} => code = "disconnect_failed" /\ (opts.all => interrupted)

CommandsIndInv ==
  /\ CommandsTypeOK /\ Stages /\ Untouched /\ OneAtATime /\ CodeGivenOnce /\ PairsFirst
  /\ ResultsFaithful /\ Accounted /\ OneAnswer /\ RefusalChangesNothing

\* For TouchesOnlySelected: what is refused gets no further, and the targets are named.
TargetsNamed ==
  /\ TouchesOnlySelected
  /\ pc \notin {"start", "exited"} => ~refused
  /\ selective /\ pc \in {"try", "disconnect"} =>
       \A i \in DOMAIN targets : Named(Addr(targets[i]))

\* device_manager.go: "disconnect requires --device <id|address> or --all".
DisconnectIsExplicit ==
  lost # {} => opts.all \/ opts.device \notin {NoDevice, BlankDevice}

\* schemas/wadb-output-v1.schema.json: mdns_services is an array.
DoctorListsServices ==
  Over /\ opts.cmd = "doctor" /\ structured /\ exit = 0 => report.services # "null"

\* What tells two devices apart: the id, or the host of a device without one.
device(ep) == IF endpointID[ep.inst] # NoID THEN endpointID[ep.inst] ELSE ep.host

\* docs/agent-integration.md: multiple_devices means that "Structured mode refused
\* to choose between multiple devices", not between the ports of one.
RefusesBetweenDevices ==
  code = "multiple_devices" => \E i, j \in DOMAIN found : device(found[i]) # device(found[j])

\* main.go, --device: "device serial, address, host, or mDNS instance".  So the
\* host of a connected device selects it.
HostSelectsConnected ==
  Over /\ opts.cmd = "disconnect" /\ code = "device_not_found" =>
    \A a \in adb : opts.device # <<a[1]>>

===============================================================================
