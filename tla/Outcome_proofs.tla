------------------------------ MODULE Outcome_proofs ------------------------------
(***************************************************************************)
(* What the exit status of a run tells the caller, and what a run chose    *)
(* and tried before it ended, for any network and any options; and that    *)
(* among many runs, with phones that move, success is the wanted phone.    *)
(***************************************************************************)
EXTENDS Commands_proofs, Session

\* The loop's results are those of the first targets, in order, and there are targets
\* only where there is a loop.  disconnect tries no address twice.
Progress ==
  /\ Len(results) <= Len(targets)
  /\ \A i \in DOMAIN results : results[i].ep = targets[i]
  /\ \A i \in DOMAIN results :
       results[i].status = "failed" \/ (results[i].status = "disconnected" <=> opts.cmd = "disconnect")
  /\ pc \notin {"try", "disconnect", "exited"} => targets = <<>>
  /\ opts.cmd = "disconnect" => Distinct(targets)

unguided == structured /\ opts.cmd = "connect" /\ opts.device = NoDevice

OutcomeInv ==
  /\ Progress
  /\ unguided /\ pc = "try" => opts.all \/ Len(found) = 1
  /\ NothingLeftUntried
  /\ ExitTellsOutcome
  /\ StructuredNeverChooses

\* The steps of a loop, those that fill it and those that end it, and all others.
Looping == TryEndpoint \/ DisconnectOne

Filling ==
  \/ SetupOK
  \/ \E eps \in Discoverable : DiscoverToConnect(eps) \/ DiscoverPaired(eps)
  \/ \E eps \in Discoverable \cup {<<>>} : Resolve(eps)

Ending == TryEnds \/ DisconnectEnds

----------------------------------------------------------------------------
(* The lists of targets. *)

\* A selection of distinct addresses is one.
LEMMA SelectionDistinct ==
  ASSUME NEW eps \in Seq(Endpoint), Distinct(eps)
  PROVE  Distinct(selected(eps))
BY KeepDistinct DEF selected, selectEndpoints

\* What a step that fills the loop leaves to try.
LEMMA FillingStep ==
  ASSUME CommandsIndInv, TargetsNamed, OutcomeInv, Filling
  PROVE  /\ UNCHANGED <<opts, results, gained, lost>> /\ results = <<>> /\ gained = {}
         /\ targets' \in Seq(Endpoint)
         /\ targets' = <<>> \/ pc' \in {"try", "disconnect"}
         /\ opts.cmd = "disconnect" => Distinct(targets')
         /\ pc' = "try" /\ unguided => opts.all \/ Len(found') = 1
         /\ code' = "multiple_devices" /\ unguided => ~opts.all /\ Len(found') > 1
<1> USE DEF connectVars, ownVars
<1>1. /\ pc \notin {"try", "disconnect", "exited"}
      /\ UNCHANGED <<opts, results, gained, lost>>
  BY DEF Filling, SetupOK, DiscoverToConnect, DiscoverPaired, Resolve
<1>2. results = <<>> /\ gained = {} /\ targets = <<>> /\ code = "none"
  BY <1>1 DEF CommandsIndInv, Untouched, OutcomeInv, Progress
<1>3. targets' \in Seq(Endpoint)
  <2>1. CommandsTypeOK'
    BY TypeStep DEF CommandsIndInv, Filling, CommandsNext, Process
  <2> QED
    BY <2>1 DEF CommandsTypeOK
<1>4. CASE SetupOK
  <2>1. pc' = afterSetup /\ code' = code /\ opts.cmd \in Cmd /\ ~refused
    BY <1>4 DEF SetupOK, CommandsIndInv, CommandsTypeOK, Option, TargetsNamed
  <2>2. CASE opts.cmd \in {"connect", "disconnect"} /\ opts.device \in Host \X Port
    <3>1. opts.device # NoDevice
      BY <2>2, SelectionAssumption
    <3>2. ~opts.all /\ pc' \in {"try", "disconnect"}
      BY <2>1, <2>2, <3>1 DEF refused, afterSetup
    <3>3. targets' = <<[inst |-> NoName, host |-> opts.device[1], port |-> opts.device[2]]>>
      BY <1>4, <2>2 DEF SetupOK, direct
    <3>4. Distinct(targets')
      BY <3>3 DEF Distinct
    <3> QED
      BY <1>1, <1>2, <1>3, <2>1, <3>1, <3>2, <3>4 DEF unguided
  <2>3. CASE ~(opts.cmd \in {"connect", "disconnect"} /\ opts.device \in Host \X Port)
    <3>1. targets' = <<>>
      BY <1>4, <2>3 DEF SetupOK, direct
    <3>2. pc' # "try"
      BY <2>1, <2>3 DEF afterSetup, Cmd
    <3> QED
      BY <1>1, <1>2, <1>3, <2>1, <3>1, <3>2 DEF Distinct
  <2> QED
    BY <2>2, <2>3
<1>5. ASSUME NEW eps \in Discoverable, DiscoverToConnect(eps)
      PROVE  /\ opts.cmd # "disconnect"
             /\ targets' = <<>> \/ pc' = "try"
             /\ pc' = "try" /\ unguided => opts.all \/ Len(found') = 1
             /\ code' = "multiple_devices" /\ unguided => ~opts.all /\ Len(found') > 1
  <2>1. eps \in Seq(Endpoint) /\ eps # <<>>
    BY SelectionAssumption
  <2> DEFINE n == Len(eps)
  <2>7. n \in Nat \ {0}
    BY <2>1
  <2>2. unguided => selected(eps) = eps
    BY DEF unguided, selected, selectEndpoints
  <2>3. opts.cmd = "connect" /\ found' = eps
    BY <1>5 DEF DiscoverToConnect
  <2>4. CASE selected(eps) = <<>>
    <3>1. targets' = <<>> /\ pc' = "exited" /\ code' = "device_not_found"
      BY <1>2, <1>5, <2>4 DEF DiscoverToConnect, Fail
    <3> QED
      BY <2>3, <3>1
  <2>5. CASE selected(eps) # <<>> /\ ambiguous(selected(eps))
    <3>1. targets' = <<>> /\ pc' = "exited"
      BY <1>2, <1>5, <2>5 DEF DiscoverToConnect, Fail
    <3>2. unguided => ~opts.all /\ Len(eps) > 1
      BY <2>2, <2>5 DEF ambiguous
    <3> QED
      BY <2>3, <3>1, <3>2
  <2>6. CASE selected(eps) # <<>> /\ ~ambiguous(selected(eps))
    <3>1. pc' = "try" /\ code' = "none"
      BY <1>2, <1>5, <2>6 DEF DiscoverToConnect
    <3>2. unguided => opts.all \/ Len(eps) <= 1
      BY <2>1, <2>2, <2>6 DEF ambiguous, unguided
    <3>3. n <= 1 => n = 1
      <4> HIDE DEF n
      <4> QED
        BY <2>7
    <3> QED
      BY <2>3, <3>1, <3>2, <3>3
  <2> QED
    BY <2>4, <2>5, <2>6
<1>6. ASSUME NEW eps \in Discoverable, DiscoverPaired(eps)
      PROVE  opts.cmd \notin {"connect", "disconnect"} /\ pc' = "try"
  BY <1>6 DEF DiscoverPaired
<1>7. ASSUME NEW eps \in Discoverable \cup {<<>>}, Resolve(eps)
      PROVE  opts.cmd = "disconnect" /\ Distinct(targets') /\ (targets' = <<>> \/ pc' = "disconnect")
  <2>1. opts.cmd = "disconnect"
    BY <1>7 DEF Resolve, CommandsIndInv, Stages
  <2>2. eps \in Seq(Endpoint) /\ Distinct(eps)
    <3>1. <<>> \in Seq(Endpoint) /\ Distinct(<<>>)
      BY DEF Distinct
    <3>2. Discoverable \subseteq Seq(Endpoint) /\ \A e \in Discoverable : Distinct(e)
      BY SelectionAssumption DEF Distinct
    <3> QED
      BY <3>1, <3>2
  <2>3. Distinct(selected(eps))
    BY <2>2, SelectionDistinct
  <2>4. Distinct(<<>>)
    BY DEF Distinct
  <2>5. targets' = <<>> \/ (targets' = selected(eps) /\ pc' = "disconnect")
    BY <1>2, <1>7 DEF Resolve, Fail
  <2> QED
    BY <2>1, <2>3, <2>4, <2>5
<1> QED
  BY <1>1, <1>2, <1>3, <1>4, <1>5, <1>6, <1>7 DEF Filling, unguided

----------------------------------------------------------------------------
(* The steps of the loop, and all the others. *)

\* An attempt adds the result of the next target.
LEMMA LoopingStep ==
  ASSUME CommandsIndInv, OutcomeInv, Looping
  PROVE  /\ Progress'
         /\ UNCHANGED <<opts, pc, found, code, targets>> /\ pc \in {"try", "disconnect"}
         /\ gained' # gained => pc = "try"
<1> USE DEF connectVars, ownVars
<1>1. /\ UNCHANGED <<opts, pc, found, code, targets>> /\ Len(results) < Len(targets)
      /\ pc = IF TryEndpoint THEN "try" ELSE "disconnect"
  BY DEF Looping, TryEndpoint, Attempt, ConnectOK, ConnectFails, ConnectKilled, Trying,
         DisconnectOne, Disconnects, left
<1>2. TryEndpoint => opts.cmd # "disconnect"
  BY <1>1 DEF CommandsIndInv, Stages
<1>3. ~TryEndpoint => opts.cmd = "disconnect" /\ gained' = gained
  BY <1>1 DEF CommandsIndInv, Stages, Looping, DisconnectOne, Disconnects
<1>4. PICK st \in {"connected", "disconnected", "failed"} :
        /\ Record(st)
        /\ st = "failed" \/ (st = "disconnected" <=> opts.cmd = "disconnect")
  <2>1. CASE TryEndpoint
    <3>1. Record("connected") \/ Record("failed")
      BY <2>1 DEF TryEndpoint, Attempt, ConnectOK, ConnectFails, ConnectKilled
    <3> QED
      BY <1>2, <2>1, <3>1
  <2>2. CASE ~TryEndpoint
    <3>1. Record("disconnected") \/ Record("failed")
      BY <2>2 DEF Looping, DisconnectOne
    <3> QED
      BY <1>3, <2>2, <3>1
  <2> QED
    BY <2>1, <2>2
<1> DEFINE r == [ep |-> next, status |-> st]
           n == Len(results) + 1
<1>5. /\ results \in Seq(Outcome) /\ results' = Append(results, r)
      /\ Len(results) \in Nat /\ Len(targets) \in Nat
  BY <1>4 DEF Record, CommandsIndInv, CommandsTypeOK
<1>6. r.ep = targets[n] /\ r.status = st
  BY DEF next
<1> HIDE DEF r
<1>7. /\ n \in Nat /\ n <= Len(targets) /\ Len(results') = n
      /\ DOMAIN results = 1..Len(results) /\ DOMAIN results' = 1..Len(results) \cup {n}
      /\ \A i \in 1..Len(results) : results'[i] = results[i]
      /\ results'[n] = r
  BY <1>1, <1>5
<1> HIDE DEF n
<1>8. \A i \in DOMAIN results' : results'[i].ep = targets'[i]
  BY <1>1, <1>6, <1>7 DEF OutcomeInv, Progress
<1>9. \A i \in DOMAIN results' :
        results'[i].status = "failed" \/ (results'[i].status = "disconnected" <=> opts'.cmd = "disconnect")
  BY <1>1, <1>4, <1>6, <1>7 DEF OutcomeInv, Progress
<1>10. Distinct(targets)' <=> Distinct(targets)
  BY <1>1 DEF Distinct
<1>11. Progress'
  BY <1>1, <1>7, <1>8, <1>9, <1>10 DEF OutcomeInv, Progress
<1> QED
  BY <1>1, <1>3, <1>11

\* Every other step leaves the loop as it is, and ends a run only outside of it.
LEMMA LooseStep ==
  ASSUME CommandsIndInv, [CommandsNext]_cvars, ~Looping, ~Filling, ~Ending
  PROVE  /\ UNCHANGED <<opts, targets, results, all, found, gained>>
         /\ pc \in {"try", "disconnect"} => pc' = pc
         /\ pc' \in {"try", "disconnect"} => pc' = pc
         /\ pc = "exited" => UNCHANGED <<pc, exit, code>>
         /\ code' = "multiple_devices" => code = "multiple_devices"
<1> USE DEF connectVars, ownVars
<1>1. CASE UNCHANGED cvars \/ Exited
  BY <1>1 DEF cvars, Exited
<1>2. CASE Validate \/ SetupFails \/ NobodyScans \/ PairFails \/ PairKilled \/ DiscoverNothing
  BY <1>2 DEF Validate, SetupFails, NobodyScans, PairFails, PairKilled, DiscoverNothing, Fail
<1>3. CASE PairOK \/ PairedOnly \/ List \/ ShowTable \/ Interrupt \/ ReadCode \/ ReadGarbage
  BY <1>3 DEF PairOK, PairedOnly, List, ShowTable, Interrupt, ReadCode, ReadGarbage, Fail, Succeed, afterPair
<1>4. CASE DisconnectAll
  BY <1>4 DEF DisconnectAll, Disconnects, Fail, Succeed
<1>5. CASE Doctor
  BY <1>5, DoctorStep DEF Fail, Succeed
<1>6. ASSUME NEW eps \in Discoverable, PhoneScans(eps[1].host, eps[1].port)
      PROVE  UNCHANGED <<opts, targets, results, all, found, gained, code>> /\ pc = "scan" /\ pc' = "adbPair"
  BY <1>6 DEF PhoneScans
<1>7. ASSUME NEW a \in adb, Drop(a), UNCHANGED ownVars
      PROVE  UNCHANGED <<opts, targets, results, all, found, gained, pc, exit, code>>
  BY <1>7 DEF Drop
<1> QED
  BY <1>1, <1>2, <1>3, <1>4, <1>5, <1>6, <1>7
  DEF CommandsNext, Process, Environment, Looping, Filling, Ending

----------------------------------------------------------------------------
(* How the loop ends. *)

\* A loop that was left with something connected reports it.
LEMMA SucceededReports ==
  Succeeded <=> Recorded("connected") # {}
BY DEF Succeeded, Connected, Recorded

\* Every target was disconnected exactly if no attempt failed.
LEMMA DisconnectedReports ==
  ASSUME CommandsIndInv, Progress, opts.cmd = "disconnect", Len(results) = Len(targets)
  PROVE  (\A i \in DOMAIN results : results[i].status # "failed")
           <=> Recorded("disconnected") = {Addr(targets[i]) : i \in DOMAIN targets}
<1> DEFINE Failed == {i \in DOMAIN results : results[i].status = "failed"}
<1>1. DOMAIN results = DOMAIN targets
  BY DEF CommandsIndInv, CommandsTypeOK
<1>2. \A i \in DOMAIN targets :
        results[i].ep = targets[i] /\ (results[i].status = "disconnected" <=> i \notin Failed)
  BY <1>1 DEF Progress
<1>3. Recorded("disconnected") = {Addr(targets[i]) : i \in DOMAIN targets \ Failed}
  BY <1>1, <1>2 DEF Recorded
<1>4. \A i, j \in DOMAIN targets : Addr(targets[i]) = Addr(targets[j]) => i = j
  BY DEF Progress, Distinct
<1>5. Failed \subseteq DOMAIN targets
  BY <1>1
<1> HIDE DEF Failed
<1>6. ASSUME NEW i \in Failed
      PROVE  Recorded("disconnected") # {Addr(targets[k]) : k \in DOMAIN targets}
  <2>1. i \in DOMAIN targets /\ \A j \in DOMAIN targets \ Failed : Addr(targets[j]) # Addr(targets[i])
    BY <1>4, <1>5, <1>6
  <2>2. Addr(targets[i]) \notin Recorded("disconnected")
    BY <1>3, <2>1
  <2> QED
    BY <2>1, <2>2
<1>7. Failed = {} => Recorded("disconnected") = {Addr(targets[k]) : k \in DOMAIN targets}
  BY <1>3
<1> QED
  BY <1>6, <1>7 DEF Failed

\* What the caller is told when the loop is over.
LEMMA EndingIsTrue ==
  ASSUME CommandsIndInv, OutcomeInv, Ending
  PROVE  /\ UNCHANGED <<opts, targets, results, all, found, gained>>
         /\ pc' = "exited" /\ code' # "multiple_devices"
         /\ NothingLeftUntried'
         /\ ExitTellsOutcome'
<1> USE DEF connectVars, ownVars
<1>1. UNCHANGED <<opts, targets, results, all, found, gained>>
  BY DEF Ending, TryEnds, DisconnectEnds
<1>2. pc' = "exited" /\ code' # "multiple_devices"
  BY DEF Ending, TryEnds, DisconnectEnds, Fail, Succeed
<1>3. Len(results) \in Nat /\ Len(targets) \in Nat /\ Len(results) <= Len(targets)
  BY DEF CommandsIndInv, CommandsTypeOK, OutcomeInv, Progress
<1>4. \A st : Recorded(st)' = Recorded(st)
  BY <1>1 DEF Recorded, Addr
<1>5. CASE TryEnds
  <2>1. opts.cmd # "disconnect"
    BY <1>5 DEF TryEnds, CommandsIndInv, Stages
  <2>2. ~opts.broken => (exit' = 0 <=> Succeeded)
    BY <1>5 DEF TryEnds, Fail, Succeed
  <2>3. ~Succeeded \/ all => Len(results) = Len(targets)
    BY <1>3, <1>5 DEF TryEnds, Trying
  <2>4. NothingLeftUntried'
    BY <1>1, <2>2, <2>3 DEF NothingLeftUntried
  <2>5. ExitTellsOutcome'
    BY <1>1, <1>4, <2>1, <2>2, SucceededReports DEF ExitTellsOutcome
  <2> QED
    BY <1>1, <1>2, <2>4, <2>5
<1>6. CASE DisconnectEnds
  <2>1. opts.cmd = "disconnect" /\ Len(results) = Len(targets)
    BY <1>3, <1>6 DEF DisconnectEnds, left, CommandsIndInv, Stages
  <2>2. ~opts.broken => (exit' = 0 <=> \A i \in DOMAIN results : results[i].status # "failed")
    BY <1>6 DEF DisconnectEnds, Fail, Succeed
  <2>3. (\A i \in DOMAIN results : results[i].status # "failed")
           <=> Recorded("disconnected") = {Addr(targets[i]) : i \in DOMAIN targets}
    BY <2>1, DisconnectedReports DEF OutcomeInv
  <2>4. {Addr(targets[i]) : i \in DOMAIN targets}' = {Addr(targets[i]) : i \in DOMAIN targets}
    BY <1>1 DEF Addr
  <2>5. NothingLeftUntried'
    BY <1>1, <2>1 DEF NothingLeftUntried
  <2>6. ExitTellsOutcome'
    BY <1>1, <1>4, <2>1, <2>2, <2>3, <2>4 DEF ExitTellsOutcome
  <2> QED
    BY <1>1, <1>2, <2>5, <2>6
<1> QED
  BY <1>5, <1>6 DEF Ending

----------------------------------------------------------------------------
LEMMA OutcomeStep ==
  ASSUME CommandsIndInv, TargetsNamed, OutcomeInv, [CommandsNext]_cvars
  PROVE  OutcomeInv'
<1>1. CASE Looping
  <2>1. /\ Progress' /\ pc' = pc
        /\ UNCHANGED <<opts, found, code>> /\ pc \in {"try", "disconnect"}
        /\ gained' # gained => pc = "try"
    BY <1>1, LoopingStep
  <2>2. NothingLeftUntried' /\ ExitTellsOutcome'
    BY <2>1 DEF NothingLeftUntried, ExitTellsOutcome, Over
  <2>3. StructuredNeverChooses'
    BY <2>1 DEF OutcomeInv, StructuredNeverChooses, unguided, structured
  <2> QED
    BY <2>1, <2>2, <2>3 DEF OutcomeInv, unguided, structured
<1>2. CASE Filling
  <2>1. /\ UNCHANGED <<opts, results, gained, lost>> /\ results = <<>> /\ gained = {}
        /\ targets' \in Seq(Endpoint)
        /\ targets' = <<>> \/ pc' \in {"try", "disconnect"}
        /\ opts.cmd = "disconnect" => Distinct(targets')
        /\ pc' = "try" /\ unguided => opts.all \/ Len(found') = 1
        /\ code' = "multiple_devices" /\ unguided => ~opts.all /\ Len(found') > 1
    BY <1>2, FillingStep
  <2>2. Len(results') <= Len(targets') /\ DOMAIN results' = {}
    BY <2>1
  <2>3. Distinct(targets)' <=> Distinct(targets')
    BY DEF Distinct
  <2>4. Progress'
    BY <2>1, <2>2, <2>3 DEF Progress
  <2>5. NothingLeftUntried' /\ ExitTellsOutcome'
    BY <2>1 DEF NothingLeftUntried, ExitTellsOutcome, Over
  <2>6. unguided' <=> unguided
    BY <2>1 DEF unguided, structured
  <2>7. StructuredNeverChooses'
    BY <2>1, <2>6 DEF StructuredNeverChooses, unguided
  <2> QED
    BY <2>1, <2>4, <2>5, <2>6, <2>7 DEF OutcomeInv
<1>3. CASE Ending
  <2>1. /\ UNCHANGED <<opts, targets, results, all, found, gained>>
        /\ pc' = "exited" /\ code' # "multiple_devices"
        /\ NothingLeftUntried' /\ ExitTellsOutcome'
    BY <1>3, EndingIsTrue
  <2>2. Progress'
    BY <2>1 DEF OutcomeInv, Progress, Distinct, Addr
  <2>3. StructuredNeverChooses'
    BY <2>1 DEF OutcomeInv, StructuredNeverChooses, structured
  <2> QED
    BY <2>1, <2>2, <2>3 DEF OutcomeInv
<1>4. CASE ~Looping /\ ~Filling /\ ~Ending
  <2>1. /\ UNCHANGED <<opts, targets, results, all, found, gained>>
        /\ pc \in {"try", "disconnect"} => pc' = pc
        /\ pc' \in {"try", "disconnect"} => pc' = pc
        /\ pc = "exited" => UNCHANGED <<pc, exit, code>>
        /\ code' = "multiple_devices" => code = "multiple_devices"
    BY <1>4, LooseStep
  <2>2. Progress'
    BY <2>1 DEF OutcomeInv, Progress, Distinct, Addr
  <2>3. \A st : Recorded(st)' = Recorded(st)
    BY <2>1 DEF Recorded, Addr
  <2>4. {Addr(targets[i]) : i \in DOMAIN targets}' = {Addr(targets[i]) : i \in DOMAIN targets}
    BY <2>1 DEF Addr
  <2>5. NothingLeftUntried' /\ ExitTellsOutcome'
    <3>1. CASE pc = "exited"
      BY <2>1, <2>3, <2>4, <3>1 DEF OutcomeInv, NothingLeftUntried, ExitTellsOutcome, Over
    <3>2. CASE pc \in {"try", "disconnect"}
      BY <2>1, <3>2 DEF NothingLeftUntried, ExitTellsOutcome, Over
    <3>3. CASE pc \notin {"try", "disconnect", "exited"}
      BY <2>1, <3>3 DEF OutcomeInv, Progress, NothingLeftUntried, ExitTellsOutcome
    <3> QED
      BY <3>1, <3>2, <3>3
  <2>6. StructuredNeverChooses'
    BY <2>1 DEF OutcomeInv, StructuredNeverChooses, structured
  <2> QED
    BY <2>1, <2>2, <2>5, <2>6 DEF OutcomeInv, unguided, structured
<1> QED
  BY <1>1, <1>2, <1>3, <1>4

LEMMA OutcomeInduction == CommandsSpec => []OutcomeInv
<1>1. CommandsInit => OutcomeInv
  BY DEF CommandsInit, OutcomeInv, Progress, Distinct, NothingLeftUntried, ExitTellsOutcome,
         StructuredNeverChooses, Over
<1>2. CommandsIndInv /\ TargetsNamed /\ OutcomeInv /\ [CommandsNext]_cvars => OutcomeInv'
  BY OutcomeStep
<1> QED
  BY <1>1, <1>2, CommandsInduction, TargetsInduction, PTL DEF CommandsSpec

\* tryConnectEndpoints and disconnectTargets give up on no endpoint: a run that fails has
\* tried every one, and so has a run with --all that succeeds.
THEOREM AllAreTried == CommandsSpec => []NothingLeftUntried
<1>1. OutcomeInv => NothingLeftUntried
  BY DEF OutcomeInv
<1> QED
  BY <1>1, OutcomeInduction, PTL

\* The exit status of connect, pair and qr is that something was connected, and that of
\* disconnect that everything selected was disconnected.
THEOREM ExitIsTheOutcome == CommandsSpec => []ExitTellsOutcome
<1>1. OutcomeInv => ExitTellsOutcome
  BY DEF OutcomeInv
<1> QED
  BY <1>1, OutcomeInduction, PTL

\* connect without a selector, for an agent, connects to the only endpoint found or to
\* none, unless it was told all, and refuses only where there is a choice.
THEOREM TheCallerChooses == CommandsSpec => []StructuredNeverChooses
<1>1. OutcomeInv => StructuredNeverChooses
  BY DEF OutcomeInv
<1> QED
  BY <1>1, OutcomeInduction, PTL


----------------------------------------------------------------------------
(* Several runs. *)

Announcements == {announcement(p, at) : p \in Phones, at \in Port}

\* The run is told which phone to connect.
Told == opts.cmd = "connect" /\ opts.device = id

\* adb is connected to where phones listen, and everything heard is of a phone.
Air ==
  /\ listens \in [Phones -> Port]
  /\ adb \subseteq Listening
  /\ IsFiniteSet(announced) /\ announced \subseteq Announcements

\* A run tries only what it was told, and loses no connection unless it is taken away.
Efforts ==
  /\ targets \in Seq(Endpoint) /\ results \in Seq(Outcome)
  /\ Told => \A ep \in Elements(targets) : ep.host = phone
  /\ \A i \in DOMAIN results : results[i].ep \in Elements(targets)
  /\ held => \A i \in DOMAIN results : Connected(i) => Addr(results[i].ep) \in adb

Course ==
  /\ opts \in Option
  /\ pc \notin {"try", "exited"} => results = <<>>
  /\ pc \in {"read", "scan", "adbPair", "paired"} => opts.cmd # "connect"
  /\ Over /\ exit = 0 /\ opts.cmd = "connect" => Succeeded

SessionInv == Air /\ Efforts /\ Course

\* What can be heard of a finite set is sequences of its elements.
LEMMA OrdersType ==
  ASSUME NEW S, IsFiniteSet(S), NEW s \in Orders(S)
  PROVE  s \in Seq(S)
<1>1. PICK some \in SUBSET S : s \in SetToSeqs(some)
  BY DEF Orders
<1>2. Cardinality(some) \in Nat
  BY FS_Subset, FS_CardinalityType
<1>3. s \in [1..Cardinality(some) -> some]
  BY <1>1 DEF SetToSeqs
<1> QED
  BY <1>2, <1>3

\* Merging makes nothing up: an endpoint of the merge is one of either source.
LEMMA MergeIsHeard ==
  ASSUME NEW S, NEW c \in Seq(S), NEW l \in Seq(S)
  PROVE  mergeEndpoints(c, l) \in Seq(S)
<1> DEFINE s == c \o l
           n == Len(s)
           Lists == Seq(S)
           add == [i \in 1..n |-> [out \in Lists |-> AddEndpoint(out, s[i])]]
           Rule(g, i) == IF i = 0 THEN <<>> ELSE AddEndpoint(g[i - 1], s[i])
           merged == CHOOSE g : g = [i \in 0..n |-> Rule(g, i)]
<1>1. mergeEndpoints(c, l) = merged[n]
  BY DEF mergeEndpoints
<1>2. s \in Seq(S)
  OBVIOUS
<1> HIDE DEF s
<1>3. n \in Nat /\ \A i \in 1..n : s[i] \in S
  BY <1>2
<1>4. \A out \in Lists, ep \in S : AddEndpoint(out, ep) \in Lists
  <2> SUFFICES ASSUME NEW out \in Seq(S), NEW ep \in S
               PROVE  AddEndpoint(out, ep) \in Seq(S)
    OBVIOUS
  <2>1. Append(out, ep) \in Seq(S)
    OBVIOUS
  <2>2. [i \in DOMAIN out |-> IF Addr(out[i]) = Addr(ep) THEN ep ELSE out[i]] \in Seq(S)
    <3>1. DOMAIN out = 1..Len(out) /\ Len(out) \in Nat /\ \A i \in DOMAIN out : out[i] \in S
      OBVIOUS
    <3> QED
      BY <3>1
  <2> QED
    BY <2>1, <2>2 DEF AddEndpoint
<1>5. PICK f \in [0..n -> Lists] : Passes(f, n, <<>>, add)
  <2>1. <<>> \in Lists
    OBVIOUS
  <2>2. add \in Steps(n, Lists)
    BY <1>3, <1>4 DEF Steps
  <2>3. n \in Nat
    BY <1>3
  <2> HIDE DEF add, Lists, n
  <2> QED
    BY <2>1, <2>2, <2>3, LoopExists
<1>6. f = [i \in 0..n |-> Rule(f, i)]
  <2>1. ASSUME NEW i \in 1..n
        PROVE  add[i][f[i - 1]] = AddEndpoint(f[i - 1], s[i])
    <3>1. i - 1 \in 0..n
      BY <1>3
    <3>2. f[i - 1] \in Lists
      BY <1>5, <3>1
    <3> HIDE DEF Lists
    <3> QED
      BY <3>2
  <2>2. \A i \in 0..n : f[i] = Rule(f, i)
    <3> HIDE DEF add, Lists, n
    <3> QED
      BY <1>3, <1>5, <2>1 DEF Passes
  <2>3. f = [i \in 0..n |-> f[i]]
    OBVIOUS
  <2> HIDE DEF Rule
  <2> QED
    BY <2>2, <2>3
<1>7. merged = [i \in 0..n |-> Rule(merged, i)]
  BY <1>6
<1> HIDE DEF merged
<1> DEFINE Q == {i \in 0..n : merged[i] \in Lists}
<1>8. 0 \in Q
  <2>1. merged[0] = <<>>
    BY <1>3, <1>7
  <2>2. <<>> \in Lists /\ 0 \in 0..n
    BY <1>3
  <2> HIDE DEF Lists
  <2> QED
    BY <2>1, <2>2
<1>9. ASSUME NEW i \in 0..n, i < n, i \in Q
      PROVE  i + 1 \in Q
  <2>1. merged[i + 1] = AddEndpoint(merged[i], s[i + 1])
    <3>1. i + 1 \in 0..n /\ (i + 1) - 1 = i /\ i + 1 # 0
      BY <1>3, <1>9
    <3> QED
      BY <1>7, <3>1
  <2>2. s[i + 1] \in S /\ i + 1 \in 0..n
    BY <1>3, <1>9
  <2> HIDE DEF Lists
  <2> QED
    BY <1>4, <1>9, <2>1, <2>2
<1>10. n \in Q
  <2> HIDE DEF Q
  <2> QED
    BY <1>3, <1>8, <1>9, PrefixInduction
<1> QED
  BY <1>1, <1>10

\* The phones announce finitely much.
LEMMA AnnouncingIsFinite ==
  IsFiniteSet(Announcing)
<1> DEFINE f == [p \in Phones |-> announcement(p, listens[p])]
<1>1. f \in Surjection(Phones, Announcing)
  BY DEF Announcing, Surjection
<1> HIDE DEF f
<1> QED
  BY <1>1, SessionAssumption, FS_Surjection

LEMMA SessionStarts ==
  ASSUME SessionInit
  PROVE  SessionInv
<1>1. Air
  <2>1. Announcing \subseteq Announcements
    BY SessionAssumption DEF SessionInit, Announcing, Announcements
  <2> QED
    BY <2>1, AnnouncingIsFinite DEF SessionInit, Air
<1>2. Efforts
  BY DEF SessionInit, CommandsInit, Efforts, Elements
<1>3. Course
  BY CommandsAssumption DEF SessionInit, CommandsInit, Course, Over
<1> QED
  BY <1>1, <1>2, <1>3 DEF SessionInv

\* What a scan returns is announcements of phones, past or present.
LEMMA ScansHearPhones ==
  ASSUME Air, NEW cached \in Orders(announced), NEW live \in Orders(Announcing)
  PROVE  mergeEndpoints(cached, live) \in Seq(Announcements)
<1>1. IsFiniteSet(Announcing) /\ Announcing \subseteq Announcements
  BY AnnouncingIsFinite DEF Air, Announcing, Announcements
<1>2. cached \in Seq(announced) /\ live \in Seq(Announcing)
  BY <1>1, OrdersType DEF Air
<1>3. cached \in Seq(Announcements) /\ live \in Seq(Announcements)
  BY <1>1, <1>2 DEF Air
<1> QED
  BY <1>3, MergeIsHeard

\* Of those the id selects the wanted phone's.
LEMMA TheIdSelectsThePhone ==
  ASSUME NEW eps \in Seq(Announcements)
  PROVE  /\ eps \in Seq(Endpoint) /\ selected(eps) \in Seq(Endpoint)
         /\ Told => \A ep \in Elements(selected(eps)) : ep.host = phone
<1>1. Announcements \subseteq Endpoint
  BY SessionAssumption DEF Announcements, announcement, Endpoint
<1>2. eps \in Seq(Endpoint)
  BY <1>1
<1>3. /\ Keep(eps, Matching(eps, opts.device)) \in Seq(Endpoint)
      /\ Elements(Keep(eps, Matching(eps, opts.device))) \subseteq Matching(eps, opts.device)
  BY <1>2, KeepSound
<1>4. selected(eps) \in Seq(Endpoint)
  BY <1>2, <1>3 DEF selected, selectEndpoints
<1>5. ASSUME Told, NEW ep \in Elements(selected(eps))
      PROVE  ep.host = phone
  <2>1. ep \in Matching(eps, id)
    BY <1>3, <1>5, SessionAssumption DEF Told, selected, selectEndpoints
  <2>2. ep \in Announcements /\ id \in candidates(ep)
    BY <2>1 DEF Matching, Elements
  <2>3. PICK p \in Phones, at \in Port : ep = announcement(p, at)
    BY <2>2 DEF Announcements
  <2>4. p = phone
    BY <2>2, <2>3, SessionAssumption
  <2> QED
    BY <2>3, <2>4 DEF announcement
<1> QED
  BY <1>2, <1>4, <1>5

----------------------------------------------------------------------------
(* The steps of a session. *)

\* A step of a run that neither fills nor makes the list of results.
Aside ==
  \/ Validate \/ SetupFails \/ ReadCode \/ ReadGarbage \/ NobodyScans
  \/ \E at \in Port : PhoneScans(phone, at)
  \/ PairOK \/ PairFails \/ PairKilled \/ PairedOnly \/ DiscoverNothing \/ Interrupt \/ TryEnds

LEMMA AsideStep ==
  ASSUME Course, Aside
  PROVE  UNCHANGED <<opts, targets, results, adb>> /\ Course'
<1> USE DEF connectVars, ownVars
<1>1. UNCHANGED <<opts, targets, results, adb>>
  BY DEF Aside, Validate, SetupFails, ReadCode, ReadGarbage, NobodyScans, PhoneScans, PairOK,
         PairFails, PairKilled, PairedOnly, DiscoverNothing, Interrupt, TryEnds
<1>2. Succeeded' <=> Succeeded
  BY <1>1 DEF Succeeded, Connected
<1>3. CASE TryEnds
  BY <1>1, <1>2, <1>3 DEF TryEnds, Fail, Succeed, Course, Over
<1>4. CASE PairedOnly
  BY <1>1, <1>4 DEF PairedOnly, Fail, Succeed, Course, Over
<1>5. CASE Validate \/ SetupFails \/ ReadGarbage \/ NobodyScans \/ PairFails \/ PairKilled \/ DiscoverNothing
  <2>1. pc # "exited" /\ pc # "try" /\ (pc' = "exited" => exit' # 0) /\ pc' \in {"setup", "exited"}
    BY <1>5 DEF Validate, SetupFails, ReadGarbage, NobodyScans, PairFails, PairKilled,
                DiscoverNothing, Fail
  <2> QED
    BY <1>1, <2>1 DEF Course, Over
<1>6. CASE \/ ReadCode \/ PairOK
           \/ \E at \in Port : PhoneScans(phone, at)
  <2>1. /\ pc \in {"read", "scan", "adbPair"}
        /\ pc' \in {"adbPair", "paired", "discover"}
    BY <1>6 DEF ReadCode, PairOK, PhoneScans, afterPair
  <2> QED
    BY <1>1, <2>1 DEF Course, Over
<1>7. CASE Interrupt
  BY <1>1, <1>2, <1>7 DEF Interrupt, Course, Over
<1> QED
  BY <1>3, <1>4, <1>5, <1>6, <1>7 DEF Aside

\* The step that makes the list to try: what was given on the command line, or what
\* was found and selected.
LEMMA ListingStep ==
  ASSUME Air, Efforts, Course, SetupOK \/ \E heard \in SUBSET Phones : Discover(heard)
  PROVE  UNCHANGED <<opts, adb>> /\ Efforts' /\ Course'
<1> USE DEF connectVars, ownVars
<1>1. CASE SetupOK
  <2>1. UNCHANGED <<opts, adb, results>> /\ results = <<>> /\ pc' = afterSetup
    BY <1>1 DEF SetupOK, Course
  <2>2. pc' # "exited" /\ (pc' \in {"read", "scan", "adbPair", "paired"} => opts.cmd # "connect")
    <3>1. opts.cmd \in Cmd
      BY DEF Course, Option
    <3>2. CASE opts.cmd \in {"pair", "qr"}
      BY <2>1, <3>2 DEF afterSetup
    <3>3. CASE opts.cmd \in {"devices", "doctor"}
      BY <2>1, <3>3 DEF afterSetup
    <3>4. CASE opts.cmd = "connect"
      BY <2>1, <3>4 DEF afterSetup
    <3>5. CASE opts.cmd = "disconnect"
      BY <2>1, <3>5 DEF afterSetup
    <3> QED
      BY <3>1, <3>2, <3>3, <3>4, <3>5 DEF Cmd
  <2>3. Course'
    BY <2>1, <2>2 DEF Course, Over
  <2>4. direct \in Seq(Endpoint) /\ (opts.device = id => direct = <<>>)
    <3>1. CASE opts.device \in Host \X Port
      <4>1. opts.device[1] \in Host /\ opts.device[2] \in Port
        BY <3>1
      <4>2. [inst |-> NoName, host |-> opts.device[1], port |-> opts.device[2]] \in Endpoint
        BY <4>1, CommandsAssumption DEF Endpoint
      <4> QED
        BY <3>1, <4>2, SessionAssumption DEF direct
    <3>2. CASE opts.device \notin Host \X Port
      BY <3>2 DEF direct
    <3> QED
      BY <3>1, <3>2
  <2>5. targets' \in Seq(Endpoint) /\ (Told => targets' = <<>>)
    BY <1>1, <2>4 DEF SetupOK, Told
  <2>6. Told' <=> Told
    BY <2>1 DEF Told
  <2>7. Efforts'
    BY <2>1, <2>5, <2>6 DEF Efforts, Elements
  <2> QED
    BY <2>1, <2>3, <2>7
<1>2. ASSUME NEW heard \in SUBSET Phones, Discover(heard)
      PROVE  UNCHANGED <<opts, adb>> /\ Efforts' /\ Course'
  <2>1. PICK eps \in Seq(Announcements) : DiscoverToConnect(eps) \/ DiscoverPaired(eps)
    BY <1>2, ScansHearPhones DEF Discover
  <2>2. /\ UNCHANGED <<opts, adb, results>> /\ results = <<>>
        /\ pc' \in {"try", "exited"} /\ (pc' = "exited" => exit' # 0)
    BY <2>1 DEF DiscoverToConnect, DiscoverPaired, Fail, Course
  <2>3. Course'
    BY <2>2 DEF Course, Over
  <2>4. /\ selected(eps) \in Seq(Endpoint) /\ PreferHost(eps, pairEP[1]) \in Seq(Endpoint)
        /\ Told => \A ep \in Elements(selected(eps)) : ep.host = phone
    BY TheIdSelectsThePhone, PreferHostKeepsAll
  <2>5. \/ targets' = selected(eps) \/ UNCHANGED targets
        \/ targets' = PreferHost(eps, pairEP[1]) /\ ~Told
    BY <2>1 DEF DiscoverToConnect, DiscoverPaired, Told
  <2>6. targets' \in Seq(Endpoint) /\ (Told => \A ep \in Elements(targets') : ep.host = phone)
    BY <2>4, <2>5 DEF Efforts
  <2>7. Told' <=> Told
    BY <2>2 DEF Told
  <2>8. Elements(targets)' = Elements(targets')
    BY DEF Elements
  <2>9. Efforts'
    BY <2>2, <2>6, <2>7, <2>8 DEF Efforts
  <2> QED
    BY <2>2, <2>3, <2>9
<1> QED
  BY <1>1, <1>2

\* An attempt records what it was about, and a connection it reports is there.
LEMMA AttemptStep ==
  ASSUME Efforts, Course, TryEndpoint, held' = held
  PROVE  Efforts' /\ Course'
<1> USE DEF connectVars, ownVars
<1>1. UNCHANGED <<opts, pc, exit, targets>> /\ pc = "try" /\ Len(results) < Len(targets) /\ adb \subseteq adb'
  BY DEF TryEndpoint, Attempt, ConnectOK, ConnectFails, ConnectKilled, Trying
<1>2. PICK st \in {"connected", "disconnected", "failed"} :
        Record(st) /\ (st = "connected" => Addr(next) \in adb')
  BY DEF TryEndpoint, Attempt, ConnectOK, ConnectFails, ConnectKilled
<1> DEFINE r == [ep |-> next, status |-> st]
           n == Len(results) + 1
<1>3. results \in Seq(Outcome) /\ targets \in Seq(Endpoint)
  BY DEF Efforts
<1>4. n \in DOMAIN targets /\ next = targets[n] /\ next \in Endpoint
  BY <1>1, <1>3 DEF next
<1>5. r \in Outcome /\ r.ep = next /\ r.status = st
  BY <1>4 DEF Outcome
<1>6. results' = Append(results, r)
  BY <1>2 DEF Record
<1> HIDE DEF r
<1>7. /\ results' \in Seq(Outcome)
      /\ DOMAIN results' = DOMAIN results \cup {n}
      /\ \A i \in DOMAIN results : results'[i] = results[i]
      /\ results'[n] = r
  BY <1>3, <1>5, <1>6
<1> HIDE DEF n
<1>8. Elements(targets)' = Elements(targets) /\ (Told' <=> Told) /\ next \in Elements(targets)
  BY <1>1, <1>4 DEF Elements, Told
<1>9. \A i \in DOMAIN results' : results'[i].ep \in Elements(targets)
  <2>1. \A i \in DOMAIN results : results'[i].ep \in Elements(targets)
    BY <1>7 DEF Efforts
  <2> QED
    BY <1>5, <1>7, <1>8, <2>1
<1>10. held => \A i \in DOMAIN results' : results'[i].status = "connected" => Addr(results'[i].ep) \in adb'
  <2>1. held => \A i \in DOMAIN results : results'[i].status = "connected" => Addr(results'[i].ep) \in adb'
    BY <1>1, <1>7 DEF Efforts, Connected
  <2> QED
    BY <1>2, <1>5, <1>7, <2>1
<1>11. Efforts'
  BY <1>1, <1>3, <1>7, <1>8, <1>9, <1>10 DEF Efforts, Connected, Addr
<1>12. Course'
  BY <1>1 DEF Course, Over
<1> QED
  BY <1>11, <1>12

\* What happens to the phones takes connections away, and adds announcements.
LEMMA OutsideStep ==
  ASSUME SessionInv, NEW p \in Phones, Loses(p) \/ \E at \in Port : Moves(p, at)
  PROVE  SessionInv'
<1> USE DEF connectVars, ownVars
<1>1. UNCHANGED <<opts, pc, exit, targets, results>> /\ held' = FALSE
  BY DEF Loses, Moves, Drop
<1>2. Air'
  <2>1. CASE Loses(p)
    BY <2>1 DEF Loses, Drop, SessionInv, Air, Listening
  <2>2. ASSUME NEW at \in Port, Moves(p, at)
        PROVE  Air'
    <3>1. /\ listens' = [listens EXCEPT ![p] = at] /\ adb' = adb \ {<<p, listens[p]>>}
          /\ announced' = announced \cup {announcement(p, at)}
      BY <2>2 DEF Moves
    <3>2. listens' \in [Phones -> Port] /\ listens'[p] = at /\ \A q \in Phones \ {p} : listens'[q] = listens[q]
      BY <3>1 DEF SessionInv, Air
    <3>3. adb' \subseteq Listening'
      BY <3>1, <3>2 DEF SessionInv, Air, Listening
    <3>4. IsFiniteSet(announced')
      BY <3>1, FS_AddElement DEF SessionInv, Air
    <3>5. announced' \subseteq Announcements
      BY <3>1 DEF SessionInv, Air, Announcements
    <3> QED
      BY <3>2, <3>3, <3>4, <3>5 DEF Air
  <2> QED
    BY <2>1, <2>2
<1>3. Efforts'
  BY <1>1 DEF SessionInv, Efforts, Told, Elements
<1>4. Course'
  BY <1>1 DEF SessionInv, Course, Over, Succeeded, Connected
<1> QED
  BY <1>2, <1>3, <1>4 DEF SessionInv

\* A new run starts from nothing, but for the phones and what adb is connected to.
LEMMA AgainStep ==
  ASSUME SessionInv, Again
  PROVE  SessionInv'
<1>1. Air'
  BY DEF Again, SessionInv, Air, Listening
<1>2. Efforts'
  BY DEF Again, Efforts, Elements
<1>3. again \subseteq Option
  <2>1. id \in Selector
    BY SessionAssumption, SelectionAssumption DEF id, Selector
  <2>2. opts \in Option
    BY DEF SessionInv, Course
  <2>3. byId \in Option
    BY <2>1, <2>2 DEF byId, Option, Cmd
  <2> QED
    BY <2>2, <2>3 DEF again
<1>4. opts' \in Option
  BY <1>3 DEF Again
<1>5. Course'
  BY <1>4, CommandsAssumption DEF Again, Course, Over
<1> QED
  BY <1>1, <1>2, <1>5 DEF SessionInv

LEMMA SessionStep ==
  ASSUME SessionInv, [SessionNext]_svars
  PROVE  SessionInv'
<1> USE DEF SessionInv
<1>1. ASSUME Aside, UNCHANGED <<listens, announced, held>>
      PROVE  SessionInv'
  <2>1. UNCHANGED <<opts, targets, results, adb>> /\ Course'
    BY <1>1, AsideStep
  <2>2. Air' /\ Efforts'
    BY <1>1, <2>1 DEF Air, Listening, Efforts, Told, Elements, Connected
  <2> QED
    BY <2>1, <2>2
<1>2. ASSUME SetupOK \/ (\E heard \in SUBSET Phones : Discover(heard)), UNCHANGED outside
      PROVE  SessionInv'
  <2>1. adb' = adb /\ Efforts' /\ Course'
    BY <1>2, ListingStep
  <2>2. Air'
    BY <1>2, <2>1 DEF Air, Listening, outside
  <2> QED
    BY <2>1, <2>2
<1>3. ASSUME TryEndpoint, adb' \subseteq Listening, UNCHANGED <<listens, announced, held>>
      PROVE  SessionInv'
  <2>1. Efforts' /\ Course'
    BY <1>3, AttemptStep
  <2>2. Air'
    BY <1>3 DEF Air, Listening
  <2> QED
    BY <2>1, <2>2
<1>4. CASE UNCHANGED svars \/ Rests
  <2>1. UNCHANGED <<opts, pc, exit, targets, results, adb, listens, announced, held>>
    BY <1>4 DEF Rests, svars, cvars, connectVars, ownVars, outside
  <2> QED
    BY <2>1 DEF Air, Listening, Efforts, Told, Elements, Connected, Course, Over, Succeeded
<1>5. CASE Runs
  BY <1>1, <1>2, <1>3, <1>5 DEF Runs, Inside, outside, Aside, Connects
<1>6. CASE GoesWrong
  BY <1>1, <1>3, <1>6 DEF GoesWrong, Outside, Aside
<1> QED
  BY <1>4, <1>5, <1>6, AgainStep, OutsideStep DEF SessionNext

\* However the runs before it ended, wherever the phones have moved and however old what
\* adb has cached: a connect --device <serial> that exits with 0 while no connection was
\* taken away (tryConnectEndpoints, selectEndpoints) has that phone connected, and where
\* it listens now.
THEOREM SuccessIsTheWantedPhone == SessionSpec => []SuccessIsThePhone
<1>1. SessionInit => SessionInv
  BY SessionStarts
<1>2. SessionInv /\ [SessionNext]_svars => SessionInv'
  BY SessionStep
<1>3. SessionInv => SuccessIsThePhone
  <2> SUFFICES ASSUME SessionInv, Over, exit = 0, held, Told
               PROVE  Connectedness
    BY DEF SuccessIsThePhone, Told
  <2>1. PICK i \in DOMAIN results : Connected(i)
    BY DEF SessionInv, Course, Told, Succeeded
  <2>2. Addr(results[i].ep) \in adb /\ results[i].ep.host = phone
    BY <2>1 DEF SessionInv, Efforts
  <2>3. Addr(results[i].ep) \in Listening
    BY <2>2 DEF SessionInv, Air
  <2>4. Addr(results[i].ep) = <<phone, listens[phone]>>
    BY <2>2, <2>3 DEF Listening, Addr
  <2> QED
    BY <2>2, <2>4 DEF Connectedness
<1> QED
  BY <1>1, <1>2, <1>3, PTL DEF SessionSpec

===================================================================================
