-------------------------------- MODULE Browse --------------------------------
(***************************************************************************)
(* browseCandidates of internal/mdns/browse.go: the live browse for        *)
(* _adb-tls-connect._tcp.  A zeroconf goroutine sends service entries into *)
(* a bounded channel; the browse collects the distinct reachable ones and  *)
(* returns when its context ends, when the settle timer started by the     *)
(* first of them fires, or when the channel is closed.  When several of    *)
(* these are ready, Go's select takes any of them.                         *)
(*                                                                         *)
(* Time is a discrete clock.  It does not pass while a timer is due: the   *)
(* select reacts to an expired timer within one unit.  It may pass while   *)
(* entries wait in the channel: the reader may lag behind the network.     *)
(***************************************************************************)
EXTENDS Endpoints, FiniteSets

CONSTANTS
  Entry,         \* the entries the network can announce
  Timeouts,      \* the timeouts a caller can put on the context
  Settle,        \* connectSettleDelay
  ChanCap,       \* capacity of the entries channel
  MaxAnnounces,  \* bound: entries sent in one browse
  NoTimer

ASSUME BrowseAssumption ==
  /\ Entry \subseteq ServiceEntry
  /\ Timeouts \subseteq Nat
  /\ Settle \in Nat
  /\ ChanCap \in Nat \ {0}
  /\ MaxAnnounces \in Nat
  /\ NoTimer \notin Nat

VARIABLES
  timeout,      \* deadline of ctx, counted from the start of the browse
  now,          \* the clock
  interrupted,  \* SIGINT or SIGTERM cancelled the parent context
  chan,         \* the entries channel
  closed,       \* zeroconf closed it
  announced,    \* number of entries sent so far
  heard,        \* history: the entries received and when, in order
  endpoints,    \* the endpoints collected
  seen,         \* addresses of those endpoints
  settleAt,     \* when settleTimer fires, or NoTimer
  status        \* "starting", "browsing", then the return: "found" or "failed"

network == <<chan, closed, announced>>
clock   == <<timeout, now, interrupted>>
reader  == <<heard, endpoints, seen, settleAt>>
vars    == <<clock, network, reader, status>>

----------------------------------------------------------------------------
CtxDone   == interrupted \/ now >= timeout
SettleDue == settleAt # NoTimer /\ now >= settleAt

Init ==
  /\ timeout \in Timeouts
  /\ now = 0
  /\ interrupted = FALSE
  /\ chan = <<>>
  /\ closed = FALSE
  /\ announced = 0
  /\ heard = <<>>
  /\ endpoints = <<>>
  /\ seen = {}
  /\ settleAt = NoTimer
  /\ status = "starting"

\* resolver.Browse is running.
Start ==
  /\ status = "starting"
  /\ status' = "browsing"
  /\ UNCHANGED <<clock, network, reader>>

\* opts.resolver() or resolver.Browse failed.
StartFails ==
  /\ status = "starting"
  /\ status' = "failed"
  /\ UNCHANGED <<clock, network, reader>>

----------------------------------------------------------------------------
(* The environment: the clock, the signal handler and the zeroconf goroutine. *)

Tick ==
  /\ status = "browsing"
  /\ ~CtxDone
  /\ ~SettleDue
  /\ now' = now + 1
  /\ UNCHANGED <<timeout, interrupted, network, reader, status>>

Interrupt ==
  /\ status \in {"starting", "browsing"}
  /\ ~interrupted
  /\ interrupted' = TRUE
  /\ UNCHANGED <<timeout, now, network, reader, status>>

\* A send blocks while the channel is full; after a close nothing is sent.
Announce(e) ==
  /\ status = "browsing"
  /\ ~closed
  /\ announced < MaxAnnounces
  /\ Len(chan) < ChanCap
  /\ chan' = Append(chan, e)
  /\ announced' = announced + 1
  /\ UNCHANGED <<clock, closed, reader, status>>

CloseEntries ==
  /\ status = "browsing"
  /\ ~closed
  /\ closed' = TRUE
  /\ UNCHANGED <<clock, chan, announced, reader, status>>

----------------------------------------------------------------------------
(* The cases of the select. *)

ReturnCollected ==
  /\ status' = IF endpoints # <<>> THEN "found" ELSE "failed"
  /\ UNCHANGED <<clock, network, reader>>

\* (Mutant) The deadline ends the browse only once something was collected.
CtxExpiredIfAny ==
  /\ status = "browsing"
  /\ CtxDone
  /\ endpoints # <<>>
  /\ ReturnCollected

CtxExpired ==
  /\ status = "browsing"
  /\ CtxDone
  /\ ReturnCollected

SettleElapsed ==
  /\ status = "browsing"
  /\ SettleDue
  /\ status' = "found"
  /\ UNCHANGED <<clock, network, reader>>

ChannelClosed ==
  /\ status = "browsing"
  /\ closed
  /\ chan = <<>>
  /\ ReturnCollected

\* (Mutant) Duplicates are recognised by instance name as well as by address.
CollectByName(e) ==
  /\ Reachable(e)
  /\ \A i \in DOMAIN endpoints : endpoints[i] # EndpointOf(e)
  /\ seen' = seen \cup {Addr(EndpointOf(e))}
  /\ endpoints' = Append(endpoints, EndpointOf(e))
  /\ settleAt' = IF settleAt = NoTimer THEN now + Settle ELSE settleAt

\* (Mutant) Every new endpoint restarts the settle timer.
CollectRestarts(e) ==
  /\ Reachable(e)
  /\ Addr(EndpointOf(e)) \notin seen
  /\ seen' = seen \cup {Addr(EndpointOf(e))}
  /\ endpoints' = Append(endpoints, EndpointOf(e))
  /\ settleAt' = now + Settle

\* (Mutant) The settle timer is already due when it is set.
CollectNoSettle(e) ==
  /\ Reachable(e)
  /\ Addr(EndpointOf(e)) \notin seen
  /\ seen' = seen \cup {Addr(EndpointOf(e))}
  /\ endpoints' = Append(endpoints, EndpointOf(e))
  /\ settleAt' = IF settleAt = NoTimer THEN now ELSE settleAt

\* (Mutant) The newest endpoint goes first.
CollectPrepends(e) ==
  /\ Reachable(e)
  /\ Addr(EndpointOf(e)) \notin seen
  /\ seen' = seen \cup {Addr(EndpointOf(e))}
  /\ endpoints' = <<EndpointOf(e)>> \o endpoints
  /\ settleAt' = IF settleAt = NoTimer THEN now + Settle ELSE settleAt

\* (Mutant) The address is recorded but the endpoint is not.
CollectForgets(e) ==
  /\ Reachable(e)
  /\ Addr(EndpointOf(e)) \notin seen
  /\ seen' = seen \cup {Addr(EndpointOf(e))}
  /\ endpoints' = IF settleAt = NoTimer THEN Append(endpoints, EndpointOf(e)) ELSE endpoints
  /\ settleAt' = IF settleAt = NoTimer THEN now + Settle ELSE settleAt

\* (Mutant) An entry without a usable address is kept.
CollectUnreachable(e) ==
  /\ Addr(EndpointOf(e)) \notin seen
  /\ seen' = seen \cup {Addr(EndpointOf(e))}
  /\ endpoints' = Append(endpoints, EndpointOf(e))
  /\ settleAt' = IF settleAt = NoTimer THEN now + Settle ELSE settleAt

\* An entry arrives and is kept: its address is new.
Collect(e) ==
  /\ Reachable(e)
  /\ Addr(EndpointOf(e)) \notin seen
  /\ seen' = seen \cup {Addr(EndpointOf(e))}
  /\ endpoints' = Append(endpoints, EndpointOf(e))
  /\ settleAt' = IF settleAt = NoTimer THEN now + Settle ELSE settleAt

\* An entry arrives and is dropped: it has no usable address, or a known one.
Skip(e) ==
  /\ ~Reachable(e) \/ Addr(EndpointOf(e)) \in seen
  /\ UNCHANGED <<endpoints, seen, settleAt>>

Receive ==
  /\ status = "browsing"
  /\ chan # <<>>
  /\ chan' = Tail(chan)
  /\ heard' = Append(heard, [entry |-> Head(chan), at |-> now])
  /\ Collect(Head(chan)) \/ Skip(Head(chan))
  /\ UNCHANGED <<clock, closed, announced, status>>

Select == CtxExpired \/ SettleElapsed \/ ChannelClosed \/ Receive

\* The browse has returned.
Returned == status \in {"found", "failed"} /\ UNCHANGED vars

Next ==
  \/ Start
  \/ StartFails
  \/ Tick
  \/ Interrupt
  \/ \E e \in Entry : Announce(e)
  \/ CloseEntries
  \/ Select
  \/ Returned

\* The goroutine that runs the select is scheduled, and time passes.  A select
\* picks at random among its ready cases, so a case that stays ready is taken in
\* the end however many entries keep coming.  Nothing is assumed of the network
\* or of the user.
Fairness ==
  /\ WF_vars(Start \/ StartFails)
  /\ WF_vars(Tick)
  /\ WF_vars(CtxExpired)
  /\ WF_vars(SettleElapsed)

Spec == Init /\ [][Next]_vars /\ Fairness

----------------------------------------------------------------------------
(* Properties. *)

Moment == [entry : Entry, at : Nat]

TypeOK ==
  /\ timeout \in Nat
  /\ now \in Nat
  /\ interrupted \in BOOLEAN
  /\ chan \in Seq(Entry)
  /\ closed \in BOOLEAN
  /\ announced \in Nat
  /\ heard \in Seq(Moment)
  /\ endpoints \in Seq(Endpoint)
  /\ seen \subseteq Host \X Port
  /\ settleAt \in Nat \cup {NoTimer}
  /\ status \in {"starting", "browsing", "found", "failed"}

\* The positions in heard of the entries that can be dialled.
Usable == {k \in DOMAIN heard : Reachable(heard[k].entry)}

HeardAddr(k) == Addr(EndpointOf(heard[k].entry))

\* k is where its address was heard first.
FirstHeard(k) == \A j \in Usable : HeardAddr(j) = HeardAddr(k) => k <= j

\* A device announced on several interfaces, or under several names, is one
\* endpoint of the result: it is not dialled twice.
UniqueAddresses ==
  \A i, j \in DOMAIN endpoints : Addr(endpoints[i]) = Addr(endpoints[j]) => i = j

\* Every usable entry received is in the result, under its address, and nothing
\* else is: filtering duplicates loses no device and invents none.
ReportsAllHeard ==
  /\ seen = {HeardAddr(k) : k \in Usable}
  /\ seen = {Addr(endpoints[i]) : i \in DOMAIN endpoints}

\* The result is in the order of the first announcement of each address, and
\* keeps the name it was first announced under.
InHeardOrder ==
  \E origin \in [DOMAIN endpoints -> Usable] :
    /\ \A i \in DOMAIN endpoints :
         endpoints[i] = EndpointOf(heard[origin[i]].entry) /\ FirstHeard(origin[i])
    /\ \A i, j \in DOMAIN endpoints : i < j => origin[i] < origin[j]

\* An error is returned exactly when nothing usable was received, whichever of
\* the deadline, the timer, the close and a failing start ended the browse.
Outcome ==
  /\ status = "found" => Usable # {}
  /\ status = "failed" => Usable = {}

\* The caller never waits longer than the settle delay after the first usable
\* entry, nor past the deadline: later announcements do not extend the browse.
SettleBound ==
  /\ now <= timeout
  /\ \A k \in Usable : now <= heard[k].at + Settle

\* Once something was found, a browse that nobody cut short gave the other
\* devices the whole settle delay to answer, or the whole timeout.
NoEarlyReturn ==
  status = "found" /\ ~interrupted /\ ~closed =>
    now = timeout \/ \E k \in Usable : now = heard[k].at + Settle

\* What the proofs need besides: the timer runs from the first usable entry, the
\* clock stops at whatever is due, and a return has its reason.
Settling ==
  /\ settleAt = NoTimer <=> Usable = {}
  /\ settleAt # NoTimer =>
       /\ now <= settleAt
       /\ \A k \in Usable : settleAt <= heard[k].at + Settle
       /\ \E k \in Usable : settleAt = heard[k].at + Settle
  /\ now <= timeout
  /\ \A k \in DOMAIN heard : heard[k].at <= now

Reason ==
  /\ status = "starting" => heard = <<>>
  /\ status = "found" => endpoints # <<>>
  /\ status = "failed" => endpoints = <<>>
  /\ status = "found" /\ ~interrupted /\ ~closed => CtxDone \/ SettleDue

IndInv ==
  TypeOK /\ UniqueAddresses /\ ReportsAllHeard /\ InHeardOrder /\ Settling /\ Reason

\* Every browse returns, whatever the network does.
Terminates == <>(status \in {"found", "failed"})

\* The browse implements Discovery: seen through its endpoints and its return,
\* every step of it finds one new address, returns all or an error, or stutters.
Found == INSTANCE Discovery WITH
  result  <- endpoints,
  outcome <- IF status \in {"found", "failed"} THEN status ELSE "pending"

ImplementsDiscovery == Found!Spec

=============================================================================
