-------------------------------- MODULE Session --------------------------------
(***************************************************************************)
(* Several runs of wadb, one after the other, by somebody who wants one    *)
(* phone connected and goes on until it is, the way README.md and          *)
(* skills/wadb/SKILL.md tell: after pairing connect, and by its id when    *)
(* there are several.                                                      *)
(*                                                                         *)
(* A run is one of Commands against one adb server.  The phones drop off   *)
(* and come back on another port; what adb has cached lags behind them.    *)
(***************************************************************************)
EXTENDS Commands, Merging, SequencesExt

CONSTANTS
  Phones,          \* the hosts of the phones
  phone,           \* the one that is wanted
  announcedAs,     \* the instance name of each phone
  MaxDisturbances  \* bound: how often something comes between

\* The serial number of the phone that is wanted, to select it by.
id == endpointID[announcedAs[phone]]

\* What a phone announces, when it listens there.
announcement(p, at) == [inst |-> announcedAs[p], host |-> p, port |-> at]

\* The serial number is nothing else that --device can hold, and selects no other phone.
ASSUME SessionAssumption ==
  /\ Phones \subseteq Host
  /\ IsFiniteSet(Phones)
  /\ phone \in Phones
  /\ announcedAs \in [Phones -> Instance]
  /\ id \notin {NoID, NoDevice, BlankDevice} \cup (Host \X Port)
  /\ \A p \in Phones, at \in Port : id \in candidates(announcement(p, at)) => p = phone
  /\ MaxDisturbances \in Nat

VARIABLES
  listens,    \* where each phone listens
  announced,  \* history: every announcement a phone has made
  disturbed,  \* how often something has come between
  held        \* history: no connection was lost in this run

outside == <<listens, announced, disturbed, held>>
svars   == <<cvars, outside>>

Announcing == {announcement(p, listens[p]) : p \in Phones}

\* What can be heard of S: any of it, in any order.
Orders(S) == UNION {SetToSeqs(some) : some \in SUBSET S}

Listening == {<<p, listens[p]>> : p \in Phones}

\* The phone that is wanted is connected, where it listens now.
Connectedness == <<phone, listens[phone]>> \in adb

SessionInit ==
  /\ CommandsInit
  /\ listens \in [Phones -> Port]
  /\ adb \subseteq Listening
  /\ phone \in trusted \/ opts.cmd \in {"pair", "qr"}
  /\ announced = Announcing
  /\ disturbed = 0
  /\ held = TRUE

Disturbs ==
  /\ disturbed < MaxDisturbances
  /\ disturbed' = disturbed + 1

----------------------------------------------------------------------------
(* One run. *)

Inside(A) == A /\ UNCHANGED outside

Outside(A) == A /\ Disturbs /\ UNCHANGED <<listens, announced, held>>

\* scanConnectEndpoints: adb answers with any of what was ever announced, or not
\* at all, and the browse hears the phones in heard as they are now.
Discover(heard) ==
  /\ pc = "discover"
  /\ \E cached \in Orders(announced), live \in Orders(Announcing) :
       /\ Elements(live) = {announcement(p, listens[p]) : p \in heard}
       /\ \E eps \in {mergeEndpoints(cached, live)} \ {<<>>} :
            DiscoverToConnect(eps) \/ DiscoverPaired(eps)

\* adb connects where a phone listens, and only there.
Connects == TryEndpoint /\ interrupted' = interrupted /\ adb' \subseteq Listening

ReachesPhone == Connects /\ Addr(next) = <<phone, listens[phone]>> /\ Addr(next) \in adb'

HearsPhone == \E heard \in {h \in SUBSET Phones : phone \in h} : Discover(heard)

Runs ==
  \/ Inside(Validate)
  \/ Inside(SetupOK)
  \/ Inside(SetupFails /\ interrupted)
  \/ Inside(ReadCode)
  \/ Inside(\E at \in Port : PhoneScans(phone, at))
  \/ Inside(PairOK)
  \/ Inside(PairFails /\ interrupted)
  \/ Inside(PairedOnly)
  \/ Inside(\E heard \in SUBSET Phones : Discover(heard))
  \/ Inside(DiscoverNothing)
  \/ Inside(Connects)
  \/ Inside(TryEnds)

\* What goes wrong in a run: adb or the user fails, or the user interrupts.
GoesWrong ==
  \/ Outside(SetupFails)
  \/ Outside(ReadGarbage)
  \/ Outside(NobodyScans)
  \/ Outside(PairFails)
  \/ Outside(PairKilled)
  \/ Outside(Interrupt)
  \/ Outside(TryEndpoint /\ interrupted' # interrupted /\ adb' \subseteq Listening)

----------------------------------------------------------------------------
(* Between the runs, and during them. *)

\* A phone loses its connection.
Loses(p) ==
  /\ Drop(<<p, listens[p]>>)
  /\ Disturbs
  /\ held' = FALSE
  /\ UNCHANGED <<ownVars, listens, announced>>

\* A phone listens on another port, and announces it.
Moves(p, at) ==
  /\ at # listens[p]
  /\ Disturbs
  /\ listens' = [listens EXCEPT ![p] = at]
  /\ announced' = announced \cup {announcement(p, at)}
  /\ adb' = adb \ {<<p, listens[p]>>}
  /\ held' = FALSE
  /\ UNCHANGED <<targets, all, results, interrupted, trusted, gained, ownVars>>

byId == [opts EXCEPT !.cmd = "connect", !.device = id, !.arg = NoDevice, !.pairOnly = FALSE]

\* connect is left to choose by itself, and stops at the first phone that accepts it.
unselective == opts.cmd = "connect" /\ ~structured /\ opts.device = NoDevice /\ ~opts.all

\* The next command: connect by id, once paired or told to choose, or perhaps when it has
\* been the wrong phone that was chosen; else the same.
again ==
  IF paired \/ code = "multiple_devices" THEN {byId}
  ELSE IF unselective /\ exit = 0 THEN {opts, byId}
  ELSE {opts}

\* A new process: nothing but the adb server and the pairing survives the last.
Again ==
  /\ Over
  /\ ~Connectedness
  /\ opts' \in again
  /\ pc' = "start"
  /\ targets' = <<>> /\ all' = FALSE /\ results' = <<>> /\ interrupted' = FALSE
  /\ gained' = {} /\ lost' = {} /\ pairEP' = NoDevice /\ sent' = 0 /\ paired' = FALSE
  /\ found' = <<>> /\ report' = emptyReport
  /\ code' = "none" /\ exit' = NoExit /\ objects' = <<>>
  /\ held' = TRUE
  /\ UNCHANGED <<trusted, adb, listens, announced, disturbed>>

Rests == Over /\ Connectedness /\ UNCHANGED svars

SessionNext ==
  \/ Runs
  \/ Again
  \/ Rests
  \/ GoesWrong
  \/ \E p \in Phones : Loses(p) \/ \E at \in Port : Moves(p, at)

\* The processes run, and are run again.  A phone that keeps announcing itself is
\* heard some time, and accepts a connection some time.
SessionSpec ==
  /\ SessionInit
  /\ [][SessionNext]_svars
  /\ WF_svars(Runs)
  /\ WF_svars(Again)
  /\ SF_svars(Inside(HearsPhone))
  /\ SF_svars(Inside(ReachesPhone))

----------------------------------------------------------------------------
(* Properties. *)

\* A command that is told which phone to connect, and exits with 0, has connected
\* that phone and where it listens now, however old what adb has cached is, and
\* whatever the runs before left behind.
SuccessIsThePhone ==
  Over /\ exit = 0 /\ held /\ opts.cmd = "connect" /\ opts.device = id => Connectedness

\* Some phone is connected, where it listens now.
SomeConnected == adb \cap Listening # {}

\* Whatever came between and wherever the phone moved, repeating the command
\* brings it back in the end: no run leaves anything behind that the next ones
\* stumble over for ever, and no stale endpoint keeps the fresh one from its turn.
\* Who leaves the choice to wadb, and goes on leaving it, gets some paired phone
\* back, which need not be the same.
ComesBack == <>[]Connectedness \/ <>[](unselective /\ SomeConnected)

===============================================================================
