---------------------------- MODULE Commands_proofs ----------------------------
(***************************************************************************)
(* What holds of every run of the command line, for any network, any set   *)
(* of paired phones and any options.                                       *)
(***************************************************************************)
EXTENDS Commands, Endpoints_proofs, FiniteSetTheorems

\* How a command ends is all that pc, code, exit and objects show of it.
LEMMA EndType ==
  ASSUME CommandsTypeOK,
         (\E c \in Code, status \in {1, 2} : Fail(c, status)) \/ Succeed
  PROVE  /\ pc' = "exited"
         /\ code' \in Code
         /\ exit' \in {0, 1, 2}
         /\ objects' \in Seq({"ok", "error"})
<1>1. \A o \in {"ok", "error"} : Append(objects, o) \in Seq({"ok", "error"})
  BY DEF CommandsTypeOK
<1>2. objects \in Seq({"ok", "error"})
  BY DEF CommandsTypeOK
<1> QED
  BY <1>1, <1>2 DEF Fail, Succeed, Code

\* What a step of doctor does to the run.
LEMMA DoctorStep ==
  ASSUME Doctor
  PROVE  /\ pc \in {"inspect", "server", "services"}
         /\ UNCHANGED <<connectVars, opts, pairEP, sent, paired, lost, found>>
         /\ \/ pc' \in {"server", "services"} /\ UNCHANGED <<code, exit, objects>>
            \/ Succeed
            \/ Fail("adb_error", 1)
BY DEF Doctor, Inspect, StartServer, StartServerFails, Services

\* and to its report.
LEMMA DoctorReports ==
  ASSUME report \in Report, Doctor
  PROVE  report' \in Report
<1>1. CASE Inspect
  BY <1>1 DEF Inspect, Report, emptyReport
<1>2. CASE StartServer \/ StartServerFails
  BY <1>2 DEF StartServer, StartServerFails
<1>3. CASE Services
  BY <1>3 DEF Services, Report
<1> QED
  BY <1>1, <1>2, <1>3 DEF Doctor

\* A selection is made of what was discovered.
LEMMA SelectionType ==
  ASSUME NEW eps \in Seq(Endpoint)
  PROVE  /\ selected(eps) \in Seq(Endpoint)
         /\ Elements(selected(eps)) \subseteq Elements(eps)
         /\ Len(selected(eps)) <= Len(eps)
BY KeepSound DEF selected, selectEndpoints, Matching

\* What an attempt at the next endpoint adds to the results.
LEMMA RecordType ==
  ASSUME CommandsTypeOK, Len(results) < Len(targets),
         NEW status \in {"connected", "disconnected", "failed"}, Record(status)
  PROVE  /\ next \in Endpoint
         /\ Addr(next) \in Host \X Port
         /\ results' \in Seq(Outcome)
<1>1. next \in Endpoint
  BY DEF CommandsTypeOK, next
<1>2. [ep |-> next, status |-> status] \in Outcome
  BY <1>1 DEF Outcome
<1>3. results \in Seq(Outcome)
  BY DEF CommandsTypeOK
<1> QED
  BY <1>1, <1>2, <1>3 DEF Record, Addr, Endpoint

----------------------------------------------------------------------------
(* Type correctness. *)

LEMMA TypeInit == CommandsInit => CommandsTypeOK
<1> SUFFICES ASSUME CommandsInit PROVE CommandsTypeOK
  OBVIOUS
<1>1. opts \in Option /\ trusted \subseteq Host /\ adb \subseteq Host \X Port
  BY CommandsAssumption, SelectionAssumption DEF CommandsInit
<1>2. /\ targets \in Seq(Endpoint) /\ found \in Seq(Endpoint)
      /\ results \in Seq(Outcome)
      /\ objects \in Seq({"ok", "error"})
  BY DEF CommandsInit
<1>3. all \in BOOLEAN /\ interrupted \in BOOLEAN /\ paired \in BOOLEAN
  BY DEF CommandsInit
<1>4. /\ pc = "start" /\ sent = 0 /\ report \in Report /\ code = "none" /\ exit = NoExit
      /\ pairEP = NoDevice /\ gained = {} /\ lost = {}
  BY DEF CommandsInit, emptyReport, Report
<1> QED
  BY <1>1, <1>2, <1>3, <1>4 DEF CommandsTypeOK, Code

LEMMA TypeStep ==
  ASSUME CommandsTypeOK, Stages, [CommandsNext]_cvars
  PROVE  CommandsTypeOK'
<1> USE DEF connectVars, ownVars
<1>1. CASE UNCHANGED cvars
  BY <1>1 DEF cvars, CommandsTypeOK
<1>2. CASE Validate
  BY <1>2, EndType DEF Validate, CommandsTypeOK, Code
<1>3. CASE SetupOK
  <2>1. opts \in Option /\ opts.arg \in {NoDevice} \cup (Host \X Port)
    BY DEF CommandsTypeOK, Option
  <2>2. direct \in Seq(Endpoint)
    <3>1. CASE opts.device \in Host \X Port
      <4>1. opts.device[1] \in Host /\ opts.device[2] \in Port /\ NoName \in Instance
        BY <3>1, CommandsAssumption, SelectionAssumption
      <4>2. [inst |-> NoName, host |-> opts.device[1], port |-> opts.device[2]] \in Endpoint
        BY <4>1 DEF Endpoint
      <4> QED
        BY <3>1, <4>2 DEF direct
    <3>2. CASE opts.device \notin Host \X Port
      BY <3>2 DEF direct
    <3> QED
      BY <3>1, <3>2
  <2>3. afterSetup \in {"read", "scan", "list", "table", "inspect", "try", "discover",
                        "disconnectAll", "disconnect", "resolve"}
    BY <2>1 DEF afterSetup, Option, Cmd
  <2> QED
    BY <1>3, <2>1, <2>2, <2>3 DEF SetupOK, CommandsTypeOK
<1>4. CASE SetupFails
  BY <1>4, EndType DEF SetupFails, CommandsTypeOK, Code
<1>5. ASSUME NEW eps \in Discoverable, PhoneScans(eps[1].host, eps[1].port)
      PROVE  CommandsTypeOK'
  <2>1. eps[1] \in Endpoint
    BY CommandsAssumption, SelectionAssumption
  <2>2. <<eps[1].host, eps[1].port>> \in Host \X Port
    BY <2>1 DEF Endpoint
  <2> QED
    BY <1>5, <2>2 DEF PhoneScans, CommandsTypeOK
<1>6. CASE NobodyScans
  BY <1>6, EndType DEF NobodyScans, CommandsTypeOK, Code
<1>7. CASE PairOK
  BY <1>7 DEF PairOK, afterPair, CommandsTypeOK, Stages
<1>8. CASE PairFails
  BY <1>8, EndType DEF PairFails, CommandsTypeOK, Code
<1>9. CASE PairKilled
  BY <1>9, EndType DEF PairKilled, CommandsTypeOK, Code, Stages
<1>10. CASE PairedOnly
  BY <1>10, EndType DEF PairedOnly, CommandsTypeOK
<1>11. CASE DiscoverNothing
  BY <1>11, EndType DEF DiscoverNothing, CommandsTypeOK, Code
<1>12. ASSUME NEW eps \in Discoverable, DiscoverToConnect(eps)
       PROVE  CommandsTypeOK'
  <2>1. eps \in Seq(Endpoint) /\ selected(eps) \in Seq(Endpoint)
    BY CommandsAssumption, SelectionAssumption, SelectionType
  <2>2. opts.all \in BOOLEAN
    BY DEF CommandsTypeOK, Option
  <2> QED
    BY <1>12, <2>1, <2>2, EndType DEF DiscoverToConnect, CommandsTypeOK, Code
<1>13. ASSUME NEW eps \in Discoverable, DiscoverPaired(eps)
       PROVE  CommandsTypeOK'
  <2>1. eps \in Seq(Endpoint) /\ PreferHost(eps, pairEP[1]) \in Seq(Endpoint)
    BY CommandsAssumption, SelectionAssumption, PreferHostKeepsAll
  <2> QED
    BY <1>13, <2>1 DEF DiscoverPaired, CommandsTypeOK
<1>14. CASE TryEndpoint
  <2>1. Len(results) < Len(targets)
    BY <1>14 DEF TryEndpoint, Attempt, ConnectOK, ConnectFails, ConnectKilled, Trying
  <2>2. \E status \in {"connected", "failed"} : Record(status)
    BY <1>14 DEF TryEndpoint, Attempt, ConnectOK, ConnectFails, ConnectKilled
  <2>3. Addr(next) \in Host \X Port /\ results' \in Seq(Outcome)
    BY <2>1, <2>2, RecordType
  <2> QED
    BY <1>14, <2>3 DEF TryEndpoint, Attempt, ConnectOK, ConnectFails, ConnectKilled, CommandsTypeOK
<1>15. CASE TryEnds
  BY <1>15, EndType DEF TryEnds, CommandsTypeOK, Code
<1>16. CASE DisconnectAll
  BY <1>16, EndType DEF DisconnectAll, Disconnects, CommandsTypeOK, Code
<1>17. ASSUME NEW eps \in Discoverable \cup {<<>>}, Resolve(eps)
       PROVE  CommandsTypeOK'
  <2>1. eps \in Seq(Endpoint)
    <3>1. <<>> \in Seq(Endpoint)
      OBVIOUS
    <3> QED
      BY <3>1, CommandsAssumption, SelectionAssumption
  <2>2. selected(eps) \in Seq(Endpoint)
    BY <2>1, SelectionType
  <2> QED
    BY <1>17, <2>2, <2>1, EndType DEF Resolve, CommandsTypeOK, Code
<1>18. CASE DisconnectOne
  <2>1. \E status \in {"disconnected", "failed"} : Record(status)
    BY <1>18 DEF DisconnectOne
  <2>2. Addr(next) \in Host \X Port /\ results' \in Seq(Outcome)
    BY <1>18, <2>1, RecordType DEF DisconnectOne, left
  <2> QED
    BY <1>18, <2>2 DEF DisconnectOne, Disconnects, CommandsTypeOK
<1>19. CASE DisconnectEnds
  BY <1>19, EndType DEF DisconnectEnds, CommandsTypeOK, Code
<1>20. CASE List \/ ShowTable
  BY <1>20, EndType DEF List, ShowTable, CommandsTypeOK, Code
<1>21. CASE Doctor
  <2>1. report' \in Report
    BY <1>21, DoctorReports DEF CommandsTypeOK
  <2> QED
    BY <1>21, <2>1, DoctorStep, EndType DEF CommandsTypeOK, Code
<1>22. CASE Interrupt
  BY <1>22 DEF Interrupt, CommandsTypeOK
<1>23. CASE ReadCode
  BY <1>23 DEF ReadCode, CommandsTypeOK
<1>24. CASE ReadGarbage
  BY <1>24, EndType DEF ReadGarbage, CommandsTypeOK, Code
<1>25. ASSUME NEW a \in adb, Drop(a), UNCHANGED ownVars
       PROVE  CommandsTypeOK'
  BY <1>25 DEF Drop, CommandsTypeOK
<1>26. CASE Exited
  BY <1>1, <1>26 DEF Exited
<1> QED
  BY <1>1, <1>2, <1>3, <1>4, <1>5, <1>6, <1>7, <1>8, <1>9, <1>10, <1>11, <1>12, <1>13,
     <1>14, <1>15, <1>16, <1>17, <1>18, <1>19, <1>20, <1>21, <1>22, <1>23, <1>24, <1>25,
     <1>26 DEF CommandsNext, Process, Environment

----------------------------------------------------------------------------
(* Where a command can be. *)

LEMMA StagesStep ==
  ASSUME CommandsTypeOK, Stages, [CommandsNext]_cvars
  PROVE  Stages'
<1> USE DEF connectVars, ownVars
<1>1. CASE UNCHANGED cvars
  BY <1>1 DEF cvars, Stages
<1>2. CASE pc' = "exited"
  BY <1>2 DEF Stages
<1>3. CASE Validate
  <2>1. opts.arg \in {NoDevice} \cup (Host \X Port)
    BY DEF CommandsTypeOK, Option
  <2> QED
    BY <1>2, <1>3, <2>1 DEF Validate, refused, Fail, Stages
<1>4. CASE SetupOK
  <2>1. opts.cmd \in Cmd /\ pairEP' = opts.arg /\ opts' = opts /\ pc' = afterSetup
    BY <1>4 DEF SetupOK, CommandsTypeOK, Option
  <2>2. /\ opts.cmd = "pair" => afterSetup = "read"
        /\ opts.cmd = "qr" => afterSetup = "scan"
        /\ opts.cmd = "devices" => afterSetup = "list"
        /\ opts.cmd = "doctor" => afterSetup = "inspect"
        /\ opts.cmd = "connect" => afterSetup \in {"try", "discover"}
        /\ opts.cmd = "disconnect" => afterSetup \in {"disconnectAll", "disconnect", "resolve"}
        /\ opts.cmd = "disconnect" => (afterSetup = "disconnectAll" <=> opts.all)
    BY DEF afterSetup
  <2> QED
    BY <1>4, <2>1, <2>2 DEF SetupOK, Stages, Cmd
<1>5. ASSUME NEW eps \in Discoverable, PhoneScans(eps[1].host, eps[1].port)
      PROVE  Stages'
  <2>1. eps[1] \in Endpoint
    BY CommandsAssumption, SelectionAssumption
  <2>2. <<eps[1].host, eps[1].port>> \in Host \X Port
    BY <2>1 DEF Endpoint
  <2> QED
    BY <1>5, <2>2 DEF PhoneScans, Stages
<1>6. CASE ReadCode \/ PairOK
  BY <1>6 DEF ReadCode, PairOK, afterPair, Stages
<1>7. ASSUME NEW eps \in Discoverable, DiscoverToConnect(eps) \/ DiscoverPaired(eps)
      PROVE  Stages'
  BY <1>2, <1>7 DEF DiscoverToConnect, DiscoverPaired, Fail, Stages
<1>8. CASE TryEndpoint
  BY <1>8 DEF TryEndpoint, Stages
<1>9. ASSUME NEW eps \in Discoverable \cup {<<>>}, Resolve(eps)
      PROVE  Stages'
  BY <1>2, <1>9 DEF Resolve, Fail, Stages
<1>10. CASE DisconnectOne
  BY <1>10 DEF DisconnectOne, Disconnects, Stages
<1>11. CASE Interrupt \/ \E a \in adb : Drop(a) /\ UNCHANGED ownVars
  BY <1>11 DEF Interrupt, Stages
<1>12. CASE \/ SetupFails \/ NobodyScans \/ PairFails \/ PairKilled \/ PairedOnly
            \/ DiscoverNothing \/ TryEnds \/ DisconnectAll \/ DisconnectEnds \/ ShowTable
            \/ ReadGarbage \/ Exited
  <2>1. pc' = "exited"
    BY <1>12 DEF SetupFails, NobodyScans, PairFails, PairKilled, PairedOnly, DiscoverNothing,
                 TryEnds, DisconnectAll, DisconnectEnds, ShowTable, ReadGarbage, Exited,
                 cvars, Fail, Succeed
  <2> QED
    BY <1>2, <2>1
<1>13. CASE Doctor
  BY <1>13, DoctorStep DEF Fail, Succeed, Stages
<1>14. CASE List
  BY <1>2, <1>14 DEF List, Fail, Stages
<1> QED
  BY <1>1, <1>3, <1>4, <1>5, <1>6, <1>7, <1>8, <1>9, <1>10, <1>11, <1>12, <1>13, <1>14
  DEF CommandsNext, Process, Environment

----------------------------------------------------------------------------
(* What a step leaves alone. *)

\* Only adb connect and adb disconnect change what was connected, disconnected and
\* reported, and an interrupt stays.
LEMMA QuietStep ==
  ASSUME [CommandsNext]_cvars, ~TryEndpoint, ~DisconnectAll, ~DisconnectOne
  PROVE  /\ UNCHANGED <<results, gained, lost, opts>>
         /\ interrupted => interrupted'
<1> USE DEF connectVars, ownVars
<1>1. CASE UNCHANGED cvars \/ Exited
  BY <1>1 DEF cvars, Exited
<1>2. CASE Validate \/ SetupOK \/ SetupFails \/ NobodyScans \/ PairOK \/ PairFails \/ PairKilled
           \/ PairedOnly \/ DiscoverNothing
  BY <1>2 DEF Validate, SetupOK, SetupFails, NobodyScans, PairOK, PairFails, PairKilled,
              PairedOnly, DiscoverNothing
<1>3. CASE TryEnds \/ DisconnectEnds \/ List \/ ShowTable \/ Doctor \/ Interrupt \/ ReadCode \/ ReadGarbage
  BY <1>3, DoctorStep DEF TryEnds, DisconnectEnds, List, ShowTable, Interrupt, ReadCode, ReadGarbage
<1>4. ASSUME NEW eps \in Discoverable,
             \/ PhoneScans(eps[1].host, eps[1].port)
             \/ DiscoverToConnect(eps) \/ DiscoverPaired(eps)
      PROVE  UNCHANGED <<results, gained, lost, opts, interrupted>>
  BY <1>4 DEF PhoneScans, DiscoverToConnect, DiscoverPaired
<1>5. ASSUME NEW eps \in Discoverable \cup {<<>>}, Resolve(eps)
      PROVE  UNCHANGED <<results, gained, lost, opts, interrupted>>
  BY <1>5 DEF Resolve
<1>6. ASSUME NEW a \in adb, Drop(a), UNCHANGED ownVars
      PROVE  UNCHANGED <<results, gained, lost, opts, interrupted>>
  BY <1>6 DEF Drop
<1> QED
  BY <1>1, <1>2, <1>3, <1>4, <1>5, <1>6 DEF CommandsNext, Process, Environment

\* The three steps that do change it.
LEMMA LoudStep ==
  ASSUME CommandsTypeOK, Stages, TryEndpoint \/ DisconnectAll \/ DisconnectOne
  PROVE  /\ opts' = opts /\ sent' = sent /\ paired' = paired /\ all' = all
         /\ interrupted => interrupted'
         /\ TryEndpoint => pc = "try" /\ lost' = lost /\ UNCHANGED ownVars
         /\ DisconnectAll \/ DisconnectOne => opts.cmd = "disconnect" /\ gained' = gained
         /\ DisconnectAll => pc' = "exited" /\ opts.all /\ results' = results
         /\ DisconnectOne => UNCHANGED <<pc, code, exit, objects>>
BY DEF TryEndpoint, Attempt, ConnectOK, ConnectFails, ConnectKilled, DisconnectAll,
       DisconnectOne, Disconnects, Fail, Succeed, Stages, ownVars

\* A record adds its endpoint to what is reported under its status, and no other.
LEMMA RecordReports ==
  ASSUME CommandsTypeOK, Len(results) < Len(targets),
         NEW status \in {"connected", "disconnected", "failed"}, Record(status)
  PROVE  /\ Recorded(status)' = Recorded(status) \cup {Addr(next)}
         /\ \A other \in {"connected", "disconnected"} :
              other # status => Recorded(other)' = Recorded(other)
         /\ Succeeded' <=> Succeeded \/ status = "connected"
<1> DEFINE r == [ep |-> next, status |-> status]
<1>1. results \in Seq(Outcome) /\ results' = Append(results, r)
  BY DEF CommandsTypeOK, Record
<1>2. /\ DOMAIN results = 1..Len(results)
      /\ DOMAIN results' = 1..Len(results) \cup {Len(results) + 1}
      /\ \A i \in 1..Len(results) : results'[i] = results[i]
      /\ results'[Len(results) + 1] = r
      /\ Len(results) + 1 \notin 1..Len(results)
  BY <1>1
<1>3. r.ep = next /\ r.status = status
  OBVIOUS
<1> HIDE DEF r
<1>4. Recorded(status)' = Recorded(status) \cup {Addr(next)}
  BY <1>2, <1>3 DEF Recorded, Addr
<1>5. ASSUME NEW other \in {"connected", "disconnected"}, other # status
      PROVE  Recorded(other)' = Recorded(other)
  BY <1>2, <1>3, <1>5 DEF Recorded, Addr
<1>6. Succeeded' <=> Succeeded \/ status = "connected"
  BY <1>2, <1>3 DEF Succeeded, Connected
<1> QED
  BY <1>4, <1>5, <1>6

----------------------------------------------------------------------------
(* What a command has not done yet, or will never do. *)

LEMMA UntouchedStep ==
  ASSUME CommandsTypeOK, Stages, Untouched, [CommandsNext]_cvars
  PROVE  Untouched'
<1> USE DEF connectVars, ownVars
<1>1. CASE UNCHANGED cvars \/ Exited
  BY <1>1 DEF cvars, Exited, Untouched
<1>2. CASE Validate \/ SetupOK
  BY <1>2 DEF Validate, SetupOK, Fail, Untouched
<1>3. ASSUME NEW eps \in Discoverable, PhoneScans(eps[1].host, eps[1].port)
      PROVE  Untouched'
  BY <1>3 DEF PhoneScans, Untouched
<1>4. CASE PairOK \/ PairFails \/ PairKilled
  BY <1>4 DEF PairOK, PairFails, PairKilled, Fail, afterPair, Stages, Untouched
<1>5. ASSUME NEW eps \in Discoverable, DiscoverToConnect(eps) \/ DiscoverPaired(eps)
      PROVE  Untouched'
  BY <1>5 DEF DiscoverToConnect, DiscoverPaired, Fail, Untouched
<1>6. CASE TryEndpoint \/ DisconnectAll \/ DisconnectOne
  BY <1>6, LoudStep DEF DisconnectOne, Stages, Untouched
<1>7. ASSUME NEW eps \in Discoverable \cup {<<>>}, Resolve(eps)
      PROVE  Untouched'
  BY <1>7 DEF Resolve, Fail, Untouched
<1>8. CASE SetupFails \/ NobodyScans \/ PairedOnly \/ DiscoverNothing \/ TryEnds \/ DisconnectEnds
           \/ List \/ ShowTable \/ Doctor \/ ReadGarbage
  BY <1>8, DoctorStep DEF SetupFails, NobodyScans, PairedOnly, DiscoverNothing, TryEnds, DisconnectEnds,
              List, ShowTable, ReadGarbage, Fail, Succeed, Untouched
<1>9. CASE Interrupt \/ ReadCode
  BY <1>9 DEF Interrupt, ReadCode, Untouched
<1>10. ASSUME NEW a \in adb, Drop(a), UNCHANGED ownVars
       PROVE  Untouched'
  BY <1>10 DEF Drop, Untouched
<1> QED
  BY <1>1, <1>2, <1>3, <1>4, <1>5, <1>6, <1>7, <1>8, <1>9, <1>10
  DEF CommandsNext, Process, Environment

----------------------------------------------------------------------------
(* The invariants proper. *)

LEMMA OneAtATimeStep ==
  ASSUME CommandsIndInv, [CommandsNext]_cvars
  PROVE  OneAtATime'
<1> USE DEF connectVars, ownVars
<1>1. CASE TryEndpoint
  <2>1. Trying /\ pc = "try" /\ all' = all /\ opts' = opts
    BY <1>1, LoudStep DEF CommandsIndInv, TryEndpoint, Attempt, ConnectOK, ConnectFails, ConnectKilled
  <2>2. all => opts.all
    BY DEF CommandsIndInv, OneAtATime
  <2>3. ~all => ~Succeeded
    BY <2>1 DEF Trying
  <2>4. Len(results) < Len(targets)
    BY <2>1 DEF Trying
  <2>5. CASE ConnectOK
    <3>1. Succeeded'
      BY <2>4, <2>5, RecordReports DEF ConnectOK, CommandsIndInv
    <3>2. ~all => gained = {}
      BY <2>3, <2>5 DEF ConnectOK, CommandsIndInv, OneAtATime
    <3>3. gained' = gained \cup {Addr(next)} /\ Addr(next) \in Host \X Port
      BY <2>4, <2>5, RecordType DEF ConnectOK, CommandsIndInv
    <3> QED
      BY <2>1, <2>2, <3>1, <3>2, <3>3 DEF OneAtATime
  <2>6. CASE ConnectKilled
    <3>1. interrupted'
      BY <2>6 DEF ConnectKilled
    <3>2. ~all => gained = {}
      BY <2>3, <2>6 DEF ConnectKilled, CommandsIndInv, OneAtATime
    <3>3. /\ gained' = gained \/ gained' = gained \cup {Addr(next)}
          /\ Addr(next) \in Host \X Port
      BY <2>4, <2>6, RecordType DEF ConnectKilled, CommandsIndInv
    <3> QED
      BY <2>1, <2>2, <3>1, <3>2, <3>3 DEF OneAtATime
  <2>7. CASE ConnectFails
    <3>1. gained' = gained /\ interrupted' = interrupted
      BY <2>7 DEF ConnectFails
    <3>2. gained # {} /\ ~all => interrupted /\ \E a \in Host \X Port : gained = {a}
      BY <2>3 DEF CommandsIndInv, OneAtATime
    <3> QED
      BY <2>1, <2>2, <3>1, <3>2 DEF OneAtATime
  <2> QED
    BY <1>1, <2>5, <2>6, <2>7 DEF TryEndpoint, Attempt
<1>2. CASE DisconnectAll \/ DisconnectOne
  <2>1. gained = {} /\ gained' = gained /\ all' = all /\ opts' = opts
    BY <1>2, LoudStep DEF CommandsIndInv, Untouched
  <2> QED
    BY <2>1 DEF CommandsIndInv, OneAtATime
<1>3. CASE ~TryEndpoint /\ ~DisconnectAll /\ ~DisconnectOne
  <2>1. /\ results' = results /\ gained' = gained /\ opts' = opts
        /\ interrupted => interrupted'
    BY <1>3, QuietStep
  <2>2. Succeeded' <=> Succeeded
    BY <2>1 DEF Succeeded, Connected
  <2>3. CASE all' = all
    BY <2>1, <2>2, <2>3 DEF CommandsIndInv, OneAtATime
  <2>4. ASSUME all' # all
        PROVE  all' = opts.all /\ gained = {}
    <3>1. ASSUME NEW eps \in Discoverable, DiscoverToConnect(eps)
          PROVE  all' = opts.all /\ gained = {}
      BY <2>4, <3>1 DEF DiscoverToConnect, CommandsIndInv, Untouched
    <3>2. \E eps \in Discoverable : DiscoverToConnect(eps)
      BY <1>3, <2>4, DoctorStep
      DEF CommandsNext, Process, Environment, cvars, Exited, Validate, SetupOK, SetupFails,
          PhoneScans, NobodyScans, PairOK, PairFails, PairKilled, PairedOnly, DiscoverNothing,
          DiscoverPaired, TryEnds, Resolve, DisconnectEnds, List, ShowTable, Interrupt,
          ReadCode, ReadGarbage, Drop
    <3> QED
      BY <3>1, <3>2
  <2> QED
    BY <2>1, <2>3, <2>4 DEF OneAtATime
<1> QED
  BY <1>1, <1>2, <1>3

LEMMA ReportsStep ==
  ASSUME CommandsIndInv, [CommandsNext]_cvars
  PROVE  ResultsFaithful'
<1> USE DEF connectVars, ownVars
<1>1. CASE TryEndpoint
  <2>1. Trying /\ lost' = lost /\ opts' = opts /\ (interrupted => interrupted')
    BY <1>1, LoudStep DEF CommandsIndInv, TryEndpoint, Attempt, ConnectOK, ConnectFails, ConnectKilled
  <2>2. Len(results) < Len(targets)
    BY <2>1 DEF Trying
  <2>3. CASE ConnectOK
    <3>1. /\ Recorded("connected")' = Recorded("connected") \cup {Addr(next)}
          /\ Recorded("disconnected")' = Recorded("disconnected")
          /\ gained' = gained \cup {Addr(next)}
      BY <2>2, <2>3, RecordReports DEF ConnectOK, CommandsIndInv
    <3> QED
      BY <2>1, <3>1 DEF CommandsIndInv, ResultsFaithful
  <2>4. CASE ConnectFails \/ ConnectKilled
    <3>1. /\ Recorded("connected")' = Recorded("connected")
          /\ Recorded("disconnected")' = Recorded("disconnected")
      BY <2>2, <2>4, RecordReports DEF ConnectFails, ConnectKilled, CommandsIndInv
    <3>2. gained \subseteq gained' /\ (gained' = gained \/ interrupted')
      BY <2>4 DEF ConnectFails, ConnectKilled
    <3> QED
      BY <2>1, <3>1, <3>2 DEF CommandsIndInv, ResultsFaithful
  <2> QED
    BY <1>1, <2>3, <2>4 DEF TryEndpoint, Attempt
<1>2. CASE DisconnectAll
  <2>1. /\ gained' = gained /\ results' = results /\ opts' = opts /\ opts.all
        /\ lost \subseteq lost' /\ (interrupted => interrupted')
    BY <1>2, LoudStep DEF CommandsIndInv, DisconnectAll, Disconnects
  <2>2. \A status \in {"connected", "disconnected"} : Recorded(status)' = Recorded(status)
    BY <2>1 DEF Recorded
  <2> QED
    BY <2>1, <2>2 DEF CommandsIndInv, ResultsFaithful
<1>3. CASE DisconnectOne
  <2>1. gained' = gained /\ opts' = opts /\ (interrupted => interrupted')
    BY <1>3, LoudStep DEF CommandsIndInv
  <2>2. Len(results) < Len(targets)
    BY <1>3 DEF DisconnectOne, left
  <2>3. \/ Record("disconnected") /\ lost' = lost \cup {Addr(next)}
        \/ Record("failed") /\ lost \subseteq lost' /\ (lost' = lost \/ interrupted')
    BY <1>3 DEF DisconnectOne, Disconnects
  <2>4. CASE Record("disconnected") /\ lost' = lost \cup {Addr(next)}
    <3>1. /\ Recorded("connected")' = Recorded("connected")
          /\ Recorded("disconnected")' = Recorded("disconnected") \cup {Addr(next)}
      BY <2>2, <2>4, RecordReports DEF CommandsIndInv
    <3> QED
      BY <2>1, <2>4, <3>1 DEF CommandsIndInv, ResultsFaithful
  <2>5. CASE Record("failed") /\ lost \subseteq lost' /\ (lost' = lost \/ interrupted')
    <3>1. /\ Recorded("connected")' = Recorded("connected")
          /\ Recorded("disconnected")' = Recorded("disconnected")
      BY <2>2, <2>5, RecordReports DEF CommandsIndInv
    <3> QED
      BY <2>1, <2>5, <3>1 DEF CommandsIndInv, ResultsFaithful
  <2> QED
    BY <2>3, <2>4, <2>5
<1>4. CASE ~TryEndpoint /\ ~DisconnectAll /\ ~DisconnectOne
  <2>1. /\ UNCHANGED <<results, gained, lost, opts>>
        /\ interrupted => interrupted'
    BY <1>4, QuietStep
  <2>2. \A status \in {"connected", "disconnected"} : Recorded(status)' = Recorded(status)
    BY <2>1 DEF Recorded
  <2> QED
    BY <2>1, <2>2 DEF CommandsIndInv, ResultsFaithful
<1> QED
  BY <1>1, <1>2, <1>3, <1>4

LEMMA PairingStep ==
  ASSUME CommandsIndInv, [CommandsNext]_cvars
  PROVE  CodeGivenOnce' /\ PairsFirst'
<1> USE DEF connectVars, ownVars
<1>1. CASE TryEndpoint \/ DisconnectAll \/ DisconnectOne
  <2>1. opts' = opts /\ sent' = sent /\ paired' = paired
    BY <1>1, LoudStep DEF CommandsIndInv
  <2>2. gained' = gained \/ pc = "try"
    BY <1>1, LoudStep DEF CommandsIndInv
  <2> QED
    BY <2>1, <2>2 DEF CommandsIndInv, CodeGivenOnce, PairsFirst, Stages
<1>2. CASE ~TryEndpoint /\ ~DisconnectAll /\ ~DisconnectOne
  <2>1. opts' = opts /\ gained' = gained
    BY <1>2, QuietStep
  <2>2. CASE PairOK \/ PairFails \/ PairKilled
    <3>1. sent = 0 /\ gained = {}
      BY <2>2 DEF PairOK, PairFails, PairKilled, CommandsIndInv, Untouched
    <3> QED
      BY <2>1, <2>2, <3>1 DEF PairOK, PairFails, PairKilled, CodeGivenOnce, PairsFirst
  <2>3. CASE ~PairOK /\ ~PairFails /\ ~PairKilled
    <3>1. sent' = sent /\ paired' = paired
      BY <1>2, <2>3, DoctorStep
      DEF CommandsNext, Process, Environment, cvars, Exited, Validate, SetupOK, SetupFails,
          PhoneScans, NobodyScans, PairedOnly, DiscoverNothing, DiscoverToConnect,
          DiscoverPaired, TryEnds, Resolve, DisconnectEnds, List, ShowTable, Interrupt,
          ReadCode, ReadGarbage, Drop
    <3> QED
      BY <2>1, <3>1 DEF CommandsIndInv, CodeGivenOnce, PairsFirst
  <2> QED
    BY <2>2, <2>3
<1> QED
  BY <1>1, <1>2

\* The steps that end a run, and what they leave of it.
LEMMA EndingStep ==
  ASSUME CommandsIndInv, [CommandsNext]_cvars, pc # "exited", pc' = "exited"
  PROVE  /\ opts' = opts
         /\ Succeed \/ \E c \in Code, status \in {1, 2} : Fail(c, status)
         /\ exit' = 2 \/ code' \in {"multiple_devices", "device_not_found", "invalid_pairing_code"}
              => UNCHANGED <<gained, lost, sent>> /\ gained = {} /\ lost = {} /\ sent = 0
<1> USE DEF connectVars, ownVars
<1>1. CASE Validate \/ ReadGarbage
  BY <1>1 DEF Validate, ReadGarbage, CommandsIndInv, Untouched, Code
<1>2. CASE SetupFails \/ NobodyScans \/ PairedOnly \/ DiscoverNothing \/ TryEnds \/ DisconnectEnds
           \/ List \/ ShowTable \/ Doctor \/ PairFails \/ PairKilled
  <2>1. /\ opts' = opts
        /\ \/ Succeed
           \/ \E c \in {"adb_not_found", "adb_error", "internal_error", "pairing_failed",
                        "discovery_timeout", "connection_failed", "disconnect_failed"} : Fail(c, 1)
    BY <1>2, DoctorStep DEF SetupFails, NobodyScans, PairedOnly, DiscoverNothing, TryEnds, DisconnectEnds,
                List, ShowTable, PairFails, PairKilled
  <2> QED
    BY <2>1 DEF Succeed, Fail, Code
<1>3. CASE DisconnectAll
  <2>1. opts' = opts /\ (Succeed \/ Fail("disconnect_failed", 1))
    BY <1>3 DEF DisconnectAll, Disconnects
  <2> QED
    BY <2>1 DEF Succeed, Fail, Code
<1>4. ASSUME NEW eps \in Discoverable, DiscoverToConnect(eps)
      PROVE  /\ opts' = opts
             /\ \E c \in Code, status \in {1, 2} : Fail(c, status)
             /\ UNCHANGED <<gained, lost, sent>> /\ gained = {} /\ lost = {} /\ sent = 0
  BY <1>4 DEF DiscoverToConnect, CommandsIndInv, Untouched, Code
<1>5. ASSUME NEW eps \in Discoverable \cup {<<>>}, Resolve(eps)
      PROVE  /\ opts' = opts
             /\ \E c \in Code, status \in {1, 2} : Fail(c, status)
             /\ UNCHANGED <<gained, lost, sent>> /\ gained = {} /\ lost = {} /\ sent = 0
  BY <1>5 DEF Resolve, CommandsIndInv, Stages, Untouched, Code
<1>6. \/ Validate \/ ReadGarbage \/ SetupFails \/ NobodyScans \/ PairedOnly \/ DiscoverNothing
      \/ TryEnds \/ DisconnectEnds \/ List \/ ShowTable \/ Doctor \/ PairFails \/ PairKilled
      \/ DisconnectAll
      \/ \E eps \in Discoverable : DiscoverToConnect(eps)
      \/ \E eps \in Discoverable \cup {<<>>} : Resolve(eps)
  <2>1. CASE UNCHANGED cvars \/ Exited \/ TryEndpoint \/ DisconnectOne
    BY <2>1 DEF cvars, Exited, TryEndpoint, DisconnectOne
  <2>2. ~PairOK /\ ~ReadCode /\ ~Interrupt
    BY DEF PairOK, afterPair, ReadCode, Interrupt
  <2>3. ~SetupOK
    <3>1. opts.cmd \in Cmd
      BY DEF CommandsIndInv, CommandsTypeOK, Option
    <3> QED
      BY <3>1 DEF SetupOK, afterSetup, Cmd
  <2>4. /\ \A eps \in Discoverable : ~DiscoverPaired(eps)
        /\ \A eps \in Discoverable : ~PhoneScans(eps[1].host, eps[1].port)
        /\ \A a \in adb : ~(Drop(a) /\ UNCHANGED ownVars)
    BY DEF DiscoverPaired, PhoneScans, Drop
  <2> QED
    BY <2>1, <2>2, <2>3, <2>4 DEF CommandsNext, Process, Environment
<1> QED
  BY <1>1, <1>2, <1>3, <1>4, <1>5, <1>6

\* A run that fails has connected nothing, and disconnected nothing or says so.
LEMMA FailingStep ==
  ASSUME CommandsIndInv, [CommandsNext]_cvars, pc # "exited", pc' = "exited",
         exit' # 0, ~opts.broken
  PROVE  /\ ~Succeeded'
         /\ lost' # {} => code' = "disconnect_failed" /\ (opts.all => interrupted')
<1> USE DEF connectVars, ownVars
<1>1. results = <<>> => ~Succeeded
  BY DEF Succeeded
<1>2. results' = results => (Succeeded' <=> Succeeded)
  BY DEF Succeeded, Connected
<1>3. ~Succeed
  BY DEF Succeed
<1>4. CASE DisconnectAll
  <2>1. results = <<>> /\ results' = results
    BY <1>4 DEF DisconnectAll, CommandsIndInv, Untouched
  <2>2. code' = "disconnect_failed" /\ lost = {}
    BY <1>3, <1>4 DEF DisconnectAll, Fail, CommandsIndInv, Untouched
  <2>3. lost' = lost \/ interrupted'
    BY <1>3, <1>4 DEF DisconnectAll, Disconnects
  <2> QED
    BY <1>1, <1>2, <2>1, <2>2, <2>3
<1>5. CASE ~TryEndpoint /\ ~DisconnectAll /\ ~DisconnectOne
  <2>1. results' = results /\ lost' = lost
    BY <1>5, QuietStep
  <2>2. CASE TryEnds
    <3>1. ~Succeeded
      BY <1>3, <2>2 DEF TryEnds
    <3>2. lost = {}
      BY <2>2 DEF TryEnds, CommandsIndInv, Stages, Untouched
    <3> QED
      BY <1>2, <2>1, <3>1, <3>2
  <2>3. CASE DisconnectEnds
    <3>1. gained = {}
      BY <2>3 DEF DisconnectEnds, CommandsIndInv, Stages, Untouched
    <3>2. Recorded("connected") = {}
      BY <3>1 DEF CommandsIndInv, ResultsFaithful
    <3>3. ~Succeeded
      BY <3>2 DEF Succeeded, Connected, Recorded
    <3>4. code' = "disconnect_failed" /\ ~opts.all
      BY <1>3, <2>3 DEF DisconnectEnds, Fail, CommandsIndInv, Stages
    <3> QED
      BY <1>2, <2>1, <3>3, <3>4
  <2>4. CASE pc \notin {"try", "disconnect"}
    <3>1. results = <<>> /\ lost = {}
      BY <2>4 DEF CommandsIndInv, Untouched
    <3> QED
      BY <1>1, <1>2, <2>1, <3>1
  <2>5. pc \in {"try", "disconnect"} => TryEnds \/ DisconnectEnds
    <3>1. CASE UNCHANGED cvars \/ Exited
      BY <3>1 DEF cvars, Exited
    <3>2. CASE Process \/ Environment
      BY <1>5, <3>2, DoctorStep
      DEF Process, Environment, Validate, SetupOK, SetupFails, PhoneScans, NobodyScans, PairOK,
          PairFails, PairKilled, PairedOnly, DiscoverNothing, DiscoverToConnect, DiscoverPaired,
          Resolve, List, ShowTable, Interrupt, ReadCode, ReadGarbage, Drop
    <3> QED
      BY <3>1, <3>2 DEF CommandsNext
  <2> QED
    BY <2>2, <2>3, <2>4, <2>5
<1>6. ~TryEndpoint /\ ~DisconnectOne
  BY DEF TryEndpoint, DisconnectOne
<1> QED
  BY <1>4, <1>5, <1>6

LEMMA AccountedStep ==
  ASSUME CommandsIndInv, [CommandsNext]_cvars
  PROVE  Accounted'
<1> USE DEF connectVars, ownVars
<1>1. CASE pc = "exited"
  <2>1. UNCHANGED <<opts, pc, results, interrupted, code, exit, objects, lost>>
    BY <1>1, DoctorStep
    DEF CommandsNext, Process, Environment, cvars, Exited, Validate, SetupOK, SetupFails,
        PhoneScans, NobodyScans, PairOK, PairFails, PairKilled, PairedOnly, DiscoverNothing,
        DiscoverToConnect, DiscoverPaired, TryEndpoint, TryEnds, DisconnectAll, Resolve,
        DisconnectOne, DisconnectEnds, List, ShowTable, Interrupt, ReadCode, ReadGarbage, Drop
  <2>2. (Succeeded' <=> Succeeded) /\ (writesJSON' <=> writesJSON)
    BY <2>1 DEF Succeeded, Connected, writesJSON, structured
  <2> QED
    BY <2>1, <2>2 DEF CommandsIndInv, Accounted, Over
<1>2. CASE pc' # "exited"
  BY <1>2 DEF Accounted, Over
<1>3. CASE pc # "exited" /\ pc' = "exited"
  <2>1. opts' = opts /\ (Succeed \/ exit' \in {1, 2})
    <3>1. \A c \in Code, status \in {1, 2} : Fail(c, status) => exit' \in {1, 2}
      BY DEF Fail
    <3> QED
      BY <1>3, <3>1, EndingStep
  <2>2. writesJSON' <=> writesJSON
    BY <2>1 DEF writesJSON, structured
  <2>3. Append(objects, "ok") = <<"ok">>
    BY <1>3 DEF CommandsIndInv, Untouched
  <2>4. exit' = 0 /\ writesJSON => objects' = <<"ok">>
    <3>1. exit' = 0 => Succeed
      BY <2>1
    <3>2. Succeed /\ exit' = 0 => objects' = IF writesJSON THEN Append(objects, "ok") ELSE objects
      BY DEF Succeed, Fail
    <3> QED
      BY <2>3, <3>1, <3>2
  <2>5. exit' # 0 /\ ~opts.broken =>
          /\ ~Succeeded'
          /\ lost' # {} => code' = "disconnect_failed" /\ (opts.all => interrupted')
    BY <1>3, FailingStep
  <2> HIDE DEF writesJSON
  <2> QED
    BY <2>1, <2>2, <2>4, <2>5 DEF Accounted, Over
<1> QED
  BY <1>1, <1>2, <1>3

LEMMA AnswerStep ==
  ASSUME CommandsIndInv, [CommandsNext]_cvars
  PROVE  OneAnswer' /\ RefusalChangesNothing'
<1> USE DEF connectVars, ownVars
<1>1. CASE pc = "exited"
  <2>1. UNCHANGED <<opts, pc, code, exit, objects, gained, lost, sent>>
    BY <1>1, DoctorStep
    DEF CommandsNext, Process, Environment, cvars, Exited, Validate, SetupOK, SetupFails,
        PhoneScans, NobodyScans, PairOK, PairFails, PairKilled, PairedOnly, DiscoverNothing,
        DiscoverToConnect, DiscoverPaired, TryEndpoint, TryEnds, DisconnectAll, Resolve,
        DisconnectOne, DisconnectEnds, List, ShowTable, Interrupt, ReadCode, ReadGarbage, Drop
  <2> QED
    BY <2>1 DEF CommandsIndInv, OneAnswer, RefusalChangesNothing, Over, structured
<1>2. CASE pc # "exited" /\ pc' # "exited"
  <2>1. Untouched'
    BY UntouchedStep DEF CommandsIndInv
  <2>2. exit' = NoExit /\ code' = "none"
    BY <1>2, <2>1 DEF Untouched
  <2> QED
    BY <1>2, <2>2, CommandsAssumption, SelectionAssumption DEF OneAnswer, RefusalChangesNothing, Over
<1>3. CASE pc # "exited" /\ pc' = "exited"
  <2>1. objects = <<>>
    BY <1>3 DEF CommandsIndInv, Untouched
  <2>2. opts' = opts
    BY <1>3, EndingStep
  <2>3. RefusalChangesNothing'
    BY <1>3, EndingStep DEF RefusalChangesNothing
  <2>4. Append(objects, "ok") = <<"ok">> /\ Append(objects, "error") = <<"error">>
    BY <2>1
  <2>5. ASSUME NEW c \in Code, NEW status \in {1, 2}, Fail(c, status)
        PROVE  OneAnswer'
    BY <2>1, <2>2, <2>4, <2>5 DEF Fail, OneAnswer, Over, structured
  <2>6. ASSUME Succeed
        PROVE  OneAnswer'
    <3>1. CASE writesJSON /\ opts.broken
      <4>1. Fail("internal_error", 1) /\ "internal_error" \in Code
        BY <2>6, <3>1 DEF Succeed, Code
      <4> QED
        BY <2>5, <4>1
    <3>2. CASE ~(writesJSON /\ opts.broken)
      <4>1. exit' = 0 /\ code' = "none" /\ objects' = IF writesJSON THEN <<"ok">> ELSE objects
        BY <2>4, <2>6, <3>2 DEF Succeed
      <4>2. structured => writesJSON /\ ~opts.broken
        BY <3>2 DEF writesJSON
      <4>3. ASSUME structured' PROVE writesJSON /\ ~opts'.broken
        BY <2>2, <4>2, <4>3 DEF structured
      <4>4. ASSUME structured'
            PROVE  /\ objects' = <<"ok">> /\ exit' = 0 /\ code' = "none" /\ ~opts'.broken
        BY <4>1, <4>3, <4>4
      <4> HIDE DEF structured
      <4> QED
        BY <4>4 DEF OneAnswer
    <3> QED
      BY <3>1, <3>2
  <2> QED
    BY <1>3, <2>3, <2>5, <2>6, EndingStep
<1> QED
  BY <1>1, <1>2, <1>3

----------------------------------------------------------------------------
(* The theorems. *)

LEMMA CommandsInduction == CommandsSpec => []CommandsIndInv
<1>1. CommandsInit => CommandsIndInv
  <2> SUFFICES ASSUME CommandsInit PROVE CommandsIndInv
    OBVIOUS
  <2>1. CommandsTypeOK
    BY TypeInit
  <2>2. Stages /\ Untouched /\ OneAtATime /\ CodeGivenOnce /\ PairsFirst /\ OneAnswer
    BY DEF CommandsInit, Stages, Untouched, OneAtATime, CodeGivenOnce, PairsFirst, OneAnswer, Over
  <2>3. ResultsFaithful /\ RefusalChangesNothing
    BY DEF CommandsInit, ResultsFaithful, Recorded, RefusalChangesNothing
  <2>4. Accounted
    BY DEF CommandsInit, Accounted, Over
  <2> QED
    BY <2>1, <2>2, <2>3, <2>4 DEF CommandsIndInv
<1>2. CommandsIndInv /\ [CommandsNext]_cvars => CommandsIndInv'
  <2> SUFFICES ASSUME CommandsIndInv, [CommandsNext]_cvars PROVE CommandsIndInv'
    OBVIOUS
  <2>1. CommandsTypeOK' /\ Stages' /\ Untouched'
    BY TypeStep, StagesStep, UntouchedStep DEF CommandsIndInv
  <2>2. OneAtATime' /\ CodeGivenOnce' /\ PairsFirst' /\ ResultsFaithful' /\ OneAnswer'
        /\ Accounted' /\ RefusalChangesNothing'
    BY OneAtATimeStep, PairingStep, ReportsStep, AccountedStep, AnswerStep
  <2> QED
    BY <2>1, <2>2 DEF CommandsIndInv
<1> QED
  BY <1>1, <1>2, PTL DEF CommandsSpec

\* Every variable keeps its type.
THEOREM CommandsTypeCorrect == CommandsSpec => []CommandsTypeOK
<1>1. CommandsIndInv => CommandsTypeOK
  BY DEF CommandsIndInv
<1> QED
  BY <1>1, CommandsInduction, PTL

\* tryConnectEndpoints stops in time: without --all no run, however many endpoints it
\* finds and wherever it is interrupted, makes the server connect to two of them.
THEOREM ConnectsToOneAtMost == CommandsSpec => []AtMostOneGained
<1>1. CommandsIndInv => AtMostOneGained
  <2> SUFFICES ASSUME CommandsIndInv, ~opts.all PROVE Cardinality(gained) <= 1
    BY DEF AtMostOneGained
  <2>1. gained = {} \/ \E a \in Host \X Port : gained = {a}
    BY DEF CommandsIndInv, OneAtATime
  <2>2. Cardinality({}) = 0 /\ \A a \in Host \X Port : Cardinality({a}) = 1
    BY FS_EmptySet, FS_Singleton
  <2> QED
    BY <2>1, <2>2
<1> QED
  BY <1>1, CommandsInduction, PTL

\* pairByCode and run hand the one-time secret to adb pair once.
THEOREM CodeIsGivenOnce == CommandsSpec => []CodeGivenOnce
<1>1. CommandsIndInv => CodeGivenOnce
  BY DEF CommandsIndInv
<1> QED
  BY <1>1, CommandsInduction, PTL

\* pairByCode and run connect to nothing before they paired, nor with --pair-only.
THEOREM PairingComesFirst == CommandsSpec => []PairsFirst
<1>1. CommandsIndInv => PairsFirst
  BY DEF CommandsIndInv
<1> QED
  BY <1>1, CommandsInduction, PTL

\* What connect, disconnect and the pairing commands print is what they did, and all of
\* it but for an interrupt, a broken stdout, and the JSON of a failed disconnect.
THEOREM ReportsAreFaithful == CommandsSpec => []ReportedFaithfully
<1>1. ASSUME CommandsIndInv, Over
      PROVE  /\ Reported("connected") \subseteq gained
             /\ Reported("disconnected") \subseteq lost
             /\ ~interrupted /\ ~opts.broken =>
                  /\ gained \subseteq Reported("connected")
                  /\ \/ lost \subseteq Reported("disconnected")
                     \/ opts.all /\ exit = 0
                     \/ writesJSON /\ code = "disconnect_failed"
  <2>1. ResultsFaithful /\ Accounted
    BY <1>1 DEF CommandsIndInv
  <2>2. \A status : Reported(status) \subseteq Recorded(status)
    BY DEF Reported
  <2>3. CASE opts.broken
    BY <2>1, <2>2, <2>3 DEF ResultsFaithful
  <2>4. CASE ~opts.broken /\ exit = 0
    <3>1. \A status : Reported(status) = Recorded(status)
      BY <1>1, <2>1, <2>4 DEF Reported, Accounted
    <3> QED
      BY <2>1, <2>4, <3>1 DEF ResultsFaithful
  <2>5. CASE ~opts.broken /\ exit # 0
    <3>1. ~Succeeded /\ (lost # {} => code = "disconnect_failed" /\ (opts.all => interrupted))
      BY <1>1, <2>1, <2>5 DEF Accounted
    <3>2. Recorded("connected") = {}
      BY <3>1 DEF Recorded, Succeeded, Connected
    <3>3. gained = {} \/ interrupted
      BY <2>1, <3>2 DEF ResultsFaithful
    <3>4. CASE writesJSON \/ lost = {}
      BY <2>1, <2>2, <3>1, <3>3, <3>4 DEF ResultsFaithful
    <3>5. CASE ~writesJSON /\ lost # {}
      <4>1. \A status : Reported(status) = Recorded(status)
        BY <2>5, <3>5 DEF Reported
      <4> QED
        BY <2>1, <3>1, <3>3, <3>5, <4>1 DEF ResultsFaithful
    <3> QED
      BY <3>4, <3>5
  <2> QED
    BY <2>3, <2>4, <2>5
<1>2. CommandsIndInv => ReportedFaithfully
  BY <1>1 DEF ReportedFaithfully
<1> QED
  BY <1>2, CommandsInduction, PTL

\* Structured output is one object, whose ok is the exit status, on every path.
THEOREM AnswersOnce == CommandsSpec => []OneAnswer
<1>1. CommandsIndInv => OneAnswer
  BY DEF CommandsIndInv
<1> QED
  BY <1>1, CommandsInduction, PTL

\* A run that refuses its arguments or its selection has had no effect.
THEOREM RefusalsHaveNoEffect == CommandsSpec => []RefusalChangesNothing
<1>1. CommandsIndInv => RefusalChangesNothing
  BY DEF CommandsIndInv
<1> QED
  BY <1>1, CommandsInduction, PTL

\* No adb call that changes anything is started once the context is done.
THEOREM InterruptIsFinal == CommandsSpec => NothingAfterInterrupt
<1>1. ASSUME [CommandsNext]_cvars, interrupted
      PROVE  UNCHANGED <<gained, lost, trusted, sent>>
  <2> USE DEF connectVars, ownVars
  <2>1. CASE \/ TryEndpoint \/ DisconnectAll \/ DisconnectOne
             \/ PairOK \/ PairFails \/ PairKilled
    BY <1>1, <2>1 DEF TryEndpoint, Attempt, ConnectOK, ConnectFails, ConnectKilled,
                      DisconnectAll, DisconnectOne, Disconnects, PairOK, PairFails, PairKilled
  <2>2. CASE ~(TryEndpoint \/ DisconnectAll \/ DisconnectOne \/ PairOK \/ PairFails \/ PairKilled)
    BY <1>1, <2>2, DoctorStep
    DEF CommandsNext, Process, Environment, cvars, Exited, Validate, SetupOK, SetupFails,
        PhoneScans, NobodyScans, PairedOnly, DiscoverNothing, DiscoverToConnect,
        DiscoverPaired, TryEnds, Resolve, DisconnectEnds, List, ShowTable, Interrupt,
        ReadCode, ReadGarbage, Drop
  <2> QED
    BY <2>1, <2>2
<1>2. [CommandsNext]_cvars => [interrupted => UNCHANGED <<gained, lost, trusted, sent>>]_cvars
  BY <1>1
<1> QED
  BY <1>2, PTL DEF CommandsSpec, NothingAfterInterrupt

----------------------------------------------------------------------------
(* The refinement: a run does what RunContract allows. *)

\* What is over stays as it is.
LEMMA OverStep ==
  ASSUME CommandsTypeOK, pc = "exited", [CommandsNext]_cvars
  PROVE  UNCHANGED <<opts, sent, paired, gained, lost, interrupted, exit>>
BY DoctorStep
DEF connectVars, ownVars, CommandsNext, Process, Environment, cvars, Exited, Validate,
    SetupOK, SetupFails, PhoneScans, NobodyScans, PairOK, PairFails, PairKilled, PairedOnly,
    DiscoverNothing, DiscoverToConnect, DiscoverPaired, TryEndpoint, TryEnds, DisconnectAll,
    Resolve, DisconnectOne, DisconnectEnds, List, ShowTable, Interrupt, ReadCode, ReadGarbage, Drop

\* The steps that touch neither adb nor the phone.
LEMMA InnerStep ==
  ASSUME [CommandsNext]_cvars, ~TryEndpoint, ~DisconnectAll, ~DisconnectOne,
         ~PairOK, ~PairFails, ~PairKilled, ~Interrupt
  PROVE  UNCHANGED <<opts, sent, paired, gained, lost, interrupted>>
<1>1. UNCHANGED <<opts, gained, lost>>
  BY QuietStep
<1>2. UNCHANGED <<sent, paired, interrupted>>
  BY DoctorStep
  DEF connectVars, ownVars, CommandsNext, Process, Environment, cvars, Exited, Validate,
      SetupOK, SetupFails, PhoneScans, NobodyScans, PairedOnly, DiscoverNothing,
      DiscoverToConnect, DiscoverPaired, TryEnds, Resolve, DisconnectEnds, List, ShowTable, ReadCode,
      ReadGarbage, Drop
<1> QED
  BY <1>1, <1>2

\* An exit status of 0 is for what the command is for.
LEMMA TruthfulStep ==
  ASSUME CommandsIndInv, [CommandsNext]_cvars, pc # "exited", exit' = 0,
         ~TryEndpoint, ~DisconnectAll, ~DisconnectOne
  PROVE  /\ purpose.pairs => paired
         /\ purpose.connects => gained # {}
<1> USE DEF connectVars, ownVars
<1>1. exit = NoExit /\ NoExit # 0
  BY CommandsAssumption DEF CommandsIndInv, Untouched
<1>2. /\ purpose.pairs <=> opts.cmd \in {"pair", "qr"}
      /\ purpose.connects <=> opts.cmd = "connect" \/ (opts.cmd \in {"pair", "qr"} /\ ~opts.pairOnly)
  BY DEF purpose
<1>3. CASE PairedOnly
  BY <1>2, <1>3 DEF PairedOnly, CommandsIndInv, Stages
<1>4. CASE TryEnds
  <2>1. Succeeded
    BY <1>4 DEF TryEnds, Fail
  <2>2. Recorded("connected") # {}
    BY <2>1 DEF Succeeded, Connected, Recorded
  <2>3. gained # {}
    BY <2>2 DEF CommandsIndInv, ResultsFaithful
  <2> QED
    BY <1>2, <1>4, <2>3 DEF TryEnds, CommandsIndInv, Stages
<1>5. CASE DisconnectEnds \/ List \/ ShowTable \/ Doctor
  BY <1>2, <1>5, DoctorStep DEF DisconnectEnds, List, ShowTable, CommandsIndInv, Stages
<1>6. PairedOnly \/ TryEnds \/ DisconnectEnds \/ List \/ ShowTable \/ Doctor
  <2>1. ~(UNCHANGED cvars) /\ ~Exited
    BY <1>1 DEF cvars, Exited
  <2>2. ~Validate /\ ~SetupOK /\ ~SetupFails /\ ~NobodyScans /\ ~DiscoverNothing
    BY <1>1 DEF Validate, SetupOK, SetupFails, NobodyScans, DiscoverNothing, Fail
  <2>3. ~PairOK /\ ~PairFails /\ ~PairKilled /\ ~Interrupt /\ ~ReadCode /\ ~ReadGarbage
    BY <1>1 DEF PairOK, PairFails, PairKilled, Interrupt, ReadCode, ReadGarbage, Fail
  <2>4. /\ \A eps \in Discoverable : ~PhoneScans(eps[1].host, eps[1].port)
        /\ \A eps \in Discoverable : ~DiscoverToConnect(eps)
        /\ \A eps \in Discoverable : ~DiscoverPaired(eps)
        /\ \A eps \in Discoverable \cup {<<>>} : ~Resolve(eps)
        /\ \A a \in adb : ~(Drop(a) /\ UNCHANGED ownVars)
    BY <1>1 DEF PhoneScans, DiscoverToConnect, DiscoverPaired, Resolve, Drop, Fail
  <2> QED
    BY <2>1, <2>2, <2>3, <2>4 DEF CommandsNext, Process, Environment
<1> QED
  BY <1>3, <1>4, <1>5, <1>6

\* The contract's variables, as the run has them.
contract == <<purpose, sent, paired, gained, lost, interrupted, exit>>

\* Every step of a run is one the contract allows, or none.
LEMMA ContractStep ==
  ASSUME CommandsIndInv, [CommandsNext]_cvars
  PROVE  [Contract!Next]_contract
<1> USE DEF connectVars, ownVars
<1>1. CASE pc = "exited"
  BY <1>1, OverStep DEF CommandsIndInv, contract, purpose
<1>2. CASE pc # "exited"
  <2>1. exit = NoExit
    BY <1>2 DEF CommandsIndInv, Untouched
  <2>2. opts' = opts /\ purpose' = purpose
    <3>1. opts' = opts
      BY QuietStep, LoudStep DEF CommandsIndInv
    <3> QED
      BY <3>1 DEF purpose
  <2>3. /\ purpose.pairs <=> opts.cmd \in {"pair", "qr"}
        /\ purpose.connects <=> opts.cmd = "connect" \/ (opts.cmd \in {"pair", "qr"} /\ ~opts.pairOnly)
        /\ purpose.disconnects <=> opts.cmd = "disconnect"
        /\ purpose.all = opts.all
    BY DEF purpose
  <2>4. CASE TryEndpoint
    <3>1. /\ pc = "try" /\ Trying /\ UNCHANGED <<sent, paired, lost, exit>>
      BY <2>4, LoudStep DEF CommandsIndInv, TryEndpoint, Attempt, ConnectOK, ConnectFails, ConnectKilled
    <3>2. purpose.connects /\ (purpose.pairs => paired)
      BY <2>3, <3>1 DEF CommandsIndInv, Stages
    <3>3. Addr(next) \in Host \X Port
      BY <2>4, <3>1, RecordType
      DEF CommandsIndInv, TryEndpoint, Attempt, ConnectOK, ConnectFails, ConnectKilled, Trying
    <3>4. ~interrupted => purpose.all \/ gained = {}
      BY <2>3, <3>1 DEF CommandsIndInv, OneAtATime, Trying
    <3>5. CASE ConnectFails
      BY <2>2, <3>1, <3>5 DEF ConnectFails, contract
    <3>6. CASE ConnectOK \/ (ConnectKilled /\ gained' # gained)
      <4>1. ~interrupted /\ gained' = gained \cup {Addr(next)} /\ interrupted' \in BOOLEAN
        BY <3>6 DEF ConnectOK, ConnectKilled, CommandsIndInv, CommandsTypeOK
      <4>2. Contract!Connect(Addr(next))
        BY <2>2, <3>1, <3>2, <3>4, <4>1 DEF Contract!Connect
      <4> QED
        BY <2>1, <3>3, <4>2 DEF Contract!Next
    <3>7. CASE ConnectKilled /\ gained' = gained
      <4>1. Contract!Interrupt
        BY <2>2, <3>1, <3>7 DEF ConnectKilled, Contract!Interrupt
      <4> QED
        BY <2>1, <4>1 DEF Contract!Next
    <3> QED
      BY <2>4, <3>5, <3>6, <3>7 DEF TryEndpoint, Attempt
  <2>5. CASE DisconnectOne
    <3>1. /\ opts.cmd = "disconnect" /\ UNCHANGED <<sent, paired, gained, exit>>
      BY <2>5, LoudStep DEF CommandsIndInv, DisconnectOne, Disconnects
    <3>2. Addr(next) \in Host \X Port
      BY <2>5, RecordType DEF CommandsIndInv, DisconnectOne, left
    <3>3. CASE interrupted' = interrupted /\ lost' = lost
      BY <2>2, <3>1, <3>3 DEF contract
    <3>4. CASE ~interrupted /\ interrupted' /\ lost' = lost
      <4>1. Contract!Interrupt
        BY <2>2, <3>1, <3>4 DEF Contract!Interrupt
      <4> QED
        BY <2>1, <4>1 DEF Contract!Next
    <3>5. CASE ~interrupted /\ interrupted' \in BOOLEAN /\ lost' = lost \cup {Addr(next)}
      <4>1. Contract!Disconnect({Addr(next)})
        BY <2>1, <2>2, <2>3, <3>1, <3>5 DEF Contract!Disconnect
      <4> QED
        BY <2>1, <3>2, <4>1 DEF Contract!Next
    <3>6. \/ interrupted' = interrupted /\ lost' = lost
          \/ ~interrupted /\ interrupted' /\ lost' = lost
          \/ ~interrupted /\ interrupted' \in BOOLEAN /\ lost' = lost \cup {Addr(next)}
      <4>1. Addr(next) \in adb \/ {Addr(next)} \cap adb = {}
        OBVIOUS
      <4>2. Addr(next) \in adb => {Addr(next)} \cap adb = {Addr(next)}
        OBVIOUS
      <4> QED
        BY <2>5, <4>1, <4>2 DEF DisconnectOne, Disconnects, CommandsIndInv, CommandsTypeOK
    <3> QED
      BY <3>3, <3>4, <3>5, <3>6
  <2>6. CASE DisconnectAll
    <3>1. /\ opts.cmd = "disconnect" /\ opts.all /\ UNCHANGED <<sent, paired, gained>>
      BY <2>6, LoudStep DEF CommandsIndInv, DisconnectAll, Disconnects
    <3>2. exit' \in {0, 1} /\ (interrupted => exit' = 1 /\ lost' = lost /\ interrupted')
      BY <2>6 DEF DisconnectAll, Disconnects, Succeed, Fail
    <3>3. CASE interrupted
      <4>1. Contract!Exit(1)
        BY <2>2, <3>1, <3>2, <3>3 DEF Contract!Exit, Contract!Truthful, CommandsIndInv, CommandsTypeOK
      <4> QED
        BY <2>1, <4>1 DEF Contract!Next
    <3>4. CASE ~interrupted
      <4>1. PICK gone \in {adb, {}} : lost' = lost \cup gone
        BY <2>6 DEF DisconnectAll, Disconnects
      <4>2. interrupted' \in BOOLEAN
        BY <2>6, <3>4 DEF DisconnectAll, CommandsIndInv, CommandsTypeOK
      <4>3. Contract!Disconnect(gone)
        BY <2>2, <2>3, <3>1, <3>2, <3>4, <4>1, <4>2 DEF Contract!Disconnect
      <4>4. gone \in SUBSET (Host \X Port)
        BY DEF CommandsIndInv, CommandsTypeOK
      <4> QED
        BY <2>1, <4>3, <4>4 DEF Contract!Next
    <3> QED
      BY <3>3, <3>4
  <2>7. CASE PairOK \/ PairFails \/ PairKilled
    <3>1. sent = 0 /\ ~paired /\ purpose.pairs /\ UNCHANGED <<gained, lost>>
      BY <2>3, <2>7 DEF PairOK, PairFails, PairKilled, CommandsIndInv, Untouched, Stages
    <3>2. interrupted \in BOOLEAN
      BY DEF CommandsIndInv, CommandsTypeOK
    <3>3. CASE PairFails /\ interrupted
      <4>1. Contract!Exit(1)
        BY <2>2, <3>1, <3>3 DEF PairFails, Fail, Contract!Exit, Contract!Truthful
      <4> QED
        BY <2>1, <4>1 DEF Contract!Next
    <3>4. CASE PairOK \/ (PairFails /\ ~interrupted) \/ PairKilled
      <4>1. ~interrupted /\ sent' = 1 /\ interrupted' \in BOOLEAN
        <5>1. ~interrupted
          BY <3>4 DEF PairOK, PairKilled
        <5>2. sent' = 1
          BY <3>1, <3>4, <5>1 DEF PairOK, PairFails, PairKilled
        <5>3. interrupted' = interrupted \/ interrupted' = TRUE
          BY <3>4 DEF PairOK, PairFails, PairKilled
        <5> QED
          BY <3>2, <5>1, <5>2, <5>3
      <4>2. CASE PairOK
        <5>1. paired' /\ UNCHANGED <<interrupted, exit>>
          BY <4>2 DEF PairOK
        <5>2. Contract!Pair
          BY <2>2, <3>1, <4>1, <5>1 DEF Contract!Pair
        <5> QED
          BY <2>1, <5>2 DEF Contract!Next
      <4>3. CASE PairFails \/ PairKilled
        <5>1. paired' = paired /\ exit' = 1
          BY <4>3 DEF PairFails, PairKilled, Fail
        <5>2. ~paired'
          BY <3>1, <5>1
        <5>3. Contract!Pair
          BY <2>2, <3>1, <4>1, <5>1, <5>2 DEF Contract!Pair
        <5> QED
          BY <2>1, <5>3 DEF Contract!Next
      <4> QED
        BY <3>4, <4>2, <4>3
    <3> QED
      BY <2>7, <3>3, <3>4
  <2>8. CASE Interrupt
    <3>1. Contract!Interrupt
      BY <2>2, <2>8 DEF Interrupt, Contract!Interrupt
    <3> QED
      BY <2>1, <3>1 DEF Contract!Next
  <2>9. CASE /\ ~TryEndpoint /\ ~DisconnectAll /\ ~DisconnectOne /\ ~PairOK /\ ~PairFails
             /\ ~PairKilled /\ ~Interrupt
    <3>1. UNCHANGED <<sent, paired, gained, lost, interrupted>>
      BY <2>9, InnerStep
    <3>2. CASE pc' # "exited"
      <4>1. exit' = NoExit
        BY <3>2, UntouchedStep DEF CommandsIndInv, Untouched
      <4> QED
        BY <2>1, <2>2, <3>1, <4>1 DEF contract
    <3>3. CASE pc' = "exited"
      <4>1. exit' \in {0, 1, 2} /\ (exit' = 2 => gained = {} /\ lost = {} /\ sent = 0)
        BY <1>2, <3>3, EndingStep DEF Succeed, Fail
      <4>2. exit' = 0 => (purpose.pairs => paired) /\ (purpose.connects => gained # {})
        BY <1>2, <2>9, TruthfulStep
      <4>3. Contract!Exit(exit')
        BY <2>2, <3>1, <4>1, <4>2 DEF Contract!Exit, Contract!Truthful, Contract!Nothing
      <4> QED
        BY <2>1, <4>1, <4>3 DEF Contract!Next
    <3> QED
      BY <3>2, <3>3
  <2> QED
    BY <2>4, <2>5, <2>6, <2>7, <2>8, <2>9
<1> QED
  BY <1>1, <1>2

\* Whatever command it is, and wherever adb fails or the user interrupts, a run pairs,
\* connects, disconnects and exits only as RunContract allows.
THEOREM CommandsImplementContract == CommandsSpec => ImplementsContract
<1>1. CommandsInit => Contract!Init
  <2> SUFFICES ASSUME CommandsInit PROVE Contract!Init
    OBVIOUS
  <2>1. opts.all \in BOOLEAN
    BY TypeInit DEF CommandsTypeOK, Option
  <2>2. purpose \in [pairs : BOOLEAN, connects : BOOLEAN, disconnects : BOOLEAN, all : BOOLEAN]
    BY <2>1 DEF purpose
  <2> QED
    BY <2>2 DEF CommandsInit, Contract!Init
<1>2. CommandsIndInv /\ [CommandsNext]_cvars => [Contract!Next]_contract
  BY ContractStep
<1>3. CommandsIndInv /\ [CommandsNext]_cvars => [Contract!Next]_(Contract!run)
  BY <1>2 DEF contract, Contract!run
<1> QED
  BY <1>1, <1>3, CommandsInduction, PTL DEF CommandsSpec, ImplementsContract, Contract!Spec

----------------------------------------------------------------------------
(* What a selector selects. *)

\* What is selected of eps, the selector names.
LEMMA SelectedAreNamed ==
  ASSUME NEW eps \in Seq(Endpoint), selective, NEW i \in DOMAIN selected(eps)
  PROVE  \E j \in DOMAIN eps : /\ selected(eps)[i] = eps[j]
                               /\ opts.device \in candidates(eps[j])
<1>1. selected(eps) = Keep(eps, Matching(eps, opts.device))
  BY DEF selected, selectEndpoints, selective
<1>2. selected(eps)[i] \in Matching(eps, opts.device)
  <2>1. selected(eps)[i] \in Elements(selected(eps))
    BY DEF Elements
  <2>2. Elements(selected(eps)) \subseteq Matching(eps, opts.device)
    BY <1>1, KeepSound
  <2> QED
    BY <2>1, <2>2
<1> QED
  BY <1>2 DEF Matching, Elements

\* The steps that neither find, nor choose, nor touch anything.
LEMMA AimlessStep ==
  ASSUME [CommandsNext]_cvars,
         ~TryEndpoint, ~DisconnectAll, ~DisconnectOne, ~Validate, ~SetupOK,
         \A eps \in Discoverable : ~DiscoverToConnect(eps) /\ ~DiscoverPaired(eps),
         \A eps \in Discoverable \cup {<<>>} : ~Resolve(eps)
  PROVE  /\ UNCHANGED <<opts, gained, lost, found, targets>>
         /\ pc' = pc \/ pc' \notin {"start", "try", "disconnect"}
         /\ pc \in {"start", "exited"} => pc' = pc \/ pc' = "exited"
<1> USE DEF connectVars, ownVars
<1>1. UNCHANGED <<opts, gained, lost>>
  BY QuietStep
<1>2. CASE UNCHANGED cvars \/ Exited
  BY <1>2 DEF cvars, Exited
<1>3. CASE SetupFails \/ NobodyScans \/ PairOK \/ PairFails \/ PairKilled \/ PairedOnly \/ DiscoverNothing
  BY <1>1, <1>3 DEF SetupFails, NobodyScans, PairOK, PairFails, PairKilled, PairedOnly,
                    DiscoverNothing, Fail, Succeed, afterPair
<1>4. CASE TryEnds \/ DisconnectEnds \/ List \/ ShowTable \/ Doctor \/ Interrupt \/ ReadCode \/ ReadGarbage
  BY <1>1, <1>4, DoctorStep DEF TryEnds, DisconnectEnds, List, ShowTable, Interrupt, ReadCode, ReadGarbage,
                                Fail, Succeed
<1>5. ASSUME NEW eps \in Discoverable, PhoneScans(eps[1].host, eps[1].port)
      PROVE  UNCHANGED <<found, targets>> /\ pc = "scan" /\ pc' = "adbPair"
  BY <1>5 DEF PhoneScans
<1>6. ASSUME NEW a \in adb, Drop(a), UNCHANGED ownVars
      PROVE  UNCHANGED <<found, targets, pc>>
  BY <1>6 DEF Drop
<1> QED
  BY <1>1, <1>2, <1>3, <1>4, <1>5, <1>6 DEF CommandsNext, Process, Environment

LEMMA TargetsNamedStep ==
  ASSUME CommandsIndInv, TargetsNamed, [CommandsNext]_cvars
  PROVE  TargetsNamed'
<1> USE DEF connectVars, ownVars
<1>1. opts' = opts
  BY QuietStep, LoudStep DEF CommandsIndInv
<1>2. selective' = selective /\ refused' = refused
  BY <1>1 DEF selective, refused
<1>3. CASE Validate
  <2>1. UNCHANGED <<opts, gained, lost, found>> /\ pc' \in {"setup", "exited"}
    BY <1>3 DEF Validate, Fail
  <2>2. pc' = "setup" => ~refused
    BY <1>3 DEF Validate, Fail
  <2> QED
    BY <1>2, <2>1, <2>2 DEF TargetsNamed, TouchesOnlySelected, Named
<1>4. CASE SetupOK
  <2>1. UNCHANGED <<opts, gained, lost, found>> /\ pc = "setup"
    BY <1>4 DEF SetupOK
  <2>2. ASSUME selective, pc' \in {"try", "disconnect"}, NEW i \in DOMAIN targets'
        PROVE  Addr(targets'[i]) = opts.device
    <3>1. opts.device \in Host \X Port /\ targets' = direct
      BY <1>4, <2>2 DEF SetupOK, afterSetup, selective
    <3>2. direct = <<[inst |-> NoName, host |-> opts.device[1], port |-> opts.device[2]]>>
      BY <3>1 DEF direct
    <3>3. targets'[i] = [inst |-> NoName, host |-> opts.device[1], port |-> opts.device[2]]
      BY <2>2, <3>1, <3>2
    <3> QED
      BY <3>1, <3>3 DEF Addr
  <2> QED
    BY <1>2, <2>1, <2>2 DEF TargetsNamed, TouchesOnlySelected, Named
<1>5. CASE TryEndpoint \/ DisconnectOne
  <2>1. Len(results) < Len(targets) /\ UNCHANGED <<found, targets, pc>> /\ pc \in {"try", "disconnect"}
    BY <1>5 DEF TryEndpoint, Attempt, ConnectOK, ConnectFails, ConnectKilled, Trying,
                DisconnectOne, Disconnects, left
  <2>2. gained' \cup lost' \subseteq gained \cup lost \cup {Addr(next)}
    BY <1>5 DEF TryEndpoint, Attempt, ConnectOK, ConnectFails, ConnectKilled, DisconnectOne, Disconnects
  <2>3. Len(results) + 1 \in DOMAIN targets
    BY <2>1 DEF CommandsIndInv, CommandsTypeOK
  <2>4. selective => Named(Addr(next))
    BY <2>1, <2>3 DEF TargetsNamed, next
  <2>5. \A a : Named(a)' <=> Named(a)
    BY <1>1, <2>1 DEF Named
  <2> QED
    BY <1>2, <2>1, <2>2, <2>4, <2>5 DEF TargetsNamed, TouchesOnlySelected
<1>6. CASE DisconnectAll
  <2>1. opts.all /\ opts.cmd = "disconnect" /\ ~refused /\ pc' = "exited"
    BY <1>6, LoudStep DEF DisconnectAll, CommandsIndInv, TargetsNamed
  <2>2. ~selective
    BY <2>1 DEF selective, refused
  <2> QED
    BY <1>2, <2>1, <2>2 DEF TargetsNamed, TouchesOnlySelected
<1>7. ASSUME NEW eps \in Discoverable \cup {<<>>}, DiscoverToConnect(eps) \/ Resolve(eps)
      PROVE  TargetsNamed'
  <2>1. eps \in Seq(Endpoint)
    <3>1. <<>> \in Seq(Endpoint)
      OBVIOUS
    <3> QED
      BY <3>1, CommandsAssumption, SelectionAssumption
  <2>2. gained' = {} /\ lost' = {} /\ pc \notin {"start", "exited"}
    BY <1>7 DEF DiscoverToConnect, Resolve, CommandsIndInv, Untouched
  <2>3. pc' = "exited" \/ (found' = eps /\ targets' = selected(eps) /\ pc' \in {"try", "disconnect"})
    BY <1>7 DEF DiscoverToConnect, Resolve, Fail
  <2>4. CASE pc' = "exited"
    BY <1>2, <2>2, <2>4 DEF TargetsNamed, TouchesOnlySelected
  <2>5. CASE found' = eps /\ targets' = selected(eps) /\ pc' \in {"try", "disconnect"}
    <3>1. ASSUME selective, NEW i \in DOMAIN targets'
          PROVE  \E j \in DOMAIN found' :
                   Addr(targets'[i]) = Addr(found'[j]) /\ opts'.device \in candidates(found'[j])
      <4>1. PICK j \in DOMAIN eps : targets'[i] = eps[j] /\ opts.device \in candidates(eps[j])
        BY <2>1, <2>5, <3>1, SelectedAreNamed
      <4> QED
        BY <1>1, <2>5, <4>1
    <3>2. ASSUME selective, NEW i \in DOMAIN targets'
          PROVE  Named(Addr(targets[i]))'
      BY <3>1, <3>2 DEF Named, Addr, candidates
    <3>3. TouchesOnlySelected'
      BY <2>2 DEF TouchesOnlySelected
    <3> QED
      BY <1>2, <2>2, <2>5, <3>2, <3>3 DEF TargetsNamed
  <2> QED
    BY <2>3, <2>4, <2>5
<1>8. ASSUME NEW eps \in Discoverable, DiscoverPaired(eps)
      PROVE  TargetsNamed'
  <2>1. ~selective /\ ~refused
    BY <1>8 DEF DiscoverPaired, selective, TargetsNamed
  <2> QED
    BY <1>2, <2>1 DEF TargetsNamed, TouchesOnlySelected
<1>9. CASE /\ ~TryEndpoint /\ ~DisconnectAll /\ ~DisconnectOne /\ ~Validate /\ ~SetupOK
           /\ \A eps \in Discoverable : ~DiscoverToConnect(eps) /\ ~DiscoverPaired(eps)
           /\ \A eps \in Discoverable \cup {<<>>} : ~Resolve(eps)
  <2>1. /\ UNCHANGED <<opts, gained, lost, found, targets>>
        /\ pc' = pc \/ pc' \notin {"start", "try", "disconnect"}
        /\ pc \in {"start", "exited"} => pc' = pc \/ pc' = "exited"
    BY <1>9, AimlessStep
  <2> QED
    BY <1>2, <2>1 DEF TargetsNamed, TouchesOnlySelected, Named
<1> QED
  BY <1>3, <1>4, <1>5, <1>6, <1>7, <1>8, <1>9

LEMMA TargetsInduction == CommandsSpec => []TargetsNamed
<1>1. CommandsInit => TargetsNamed
  BY DEF CommandsInit, TargetsNamed, TouchesOnlySelected
<1>2. CommandsIndInv /\ TargetsNamed /\ [CommandsNext]_cvars => TargetsNamed'
  BY TargetsNamedStep
<1> QED
  BY <1>1, <1>2, CommandsInduction, PTL DEF CommandsSpec

\* connect and disconnect with --device, whatever else is found or connected, connect
\* and disconnect what the selector names and nothing besides.
THEOREM SelectorIsKept == CommandsSpec => []TouchesOnlySelected
<1>1. TargetsNamed => TouchesOnlySelected
  BY DEF TargetsNamed
<1> QED
  BY <1>1, TargetsInduction, PTL

=============================================================================
