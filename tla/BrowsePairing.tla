----------------------------- MODULE BrowsePairing -----------------------------
(***************************************************************************)
(* browseUntil of internal/mdns/browse.go, with the match of BrowsePairing *)
(* (the other browse of the same file): wait for the one phone that has    *)
(* scanned the QR code.  It announces itself under the instance name the   *)
(* code carries; other phones on the network may be pairing too.           *)
(*                                                                         *)
(* The clock, the channel and the interrupt are Browse's.  There is no     *)
(* settle timer: settleAt stays unset and seen stays empty.                *)
(***************************************************************************)
EXTENDS Browse

CONSTANT wantInstance  \* the service name in the QR code

ASSUME WantAssumption == wantInstance \in Instance

\* (Mutant) Only a closed channel ends the wait, the deadline does not.
PairingEndsIdle ==
  /\ status = "browsing"
  /\ chan = <<>> /\ closed
  /\ status' = "failed"
  /\ UNCHANGED <<clock, network, reader>>

\* The channel was closed, or the context ended, before the phone answered.
PairingEnds ==
  /\ status = "browsing"
  /\ CtxDone \/ (closed /\ chan = <<>>)
  /\ status' = "failed"
  /\ UNCHANGED <<clock, network, reader>>

\* (Mutant) Any phone that is pairing will do.
MatchAnyone(e) == Reachable(e)

Match(e) == e.inst = wantInstance /\ Reachable(e)

\* (Mutant) An entry of another phone is an error.
PairingReceiveStrict ==
  /\ status = "browsing"
  /\ chan # <<>>
  /\ chan' = Tail(chan)
  /\ heard' = Append(heard, [entry |-> Head(chan), at |-> now])
  /\ IF Match(Head(chan))
     THEN endpoints' = <<EndpointOf(Head(chan))>> /\ status' = "found"
     ELSE UNCHANGED endpoints /\ status' = "failed"
  /\ UNCHANGED <<clock, closed, announced, seen, settleAt>>

\* The entry of the phone ends the wait; every other one is dropped.
PairingReceive ==
  /\ status = "browsing"
  /\ chan # <<>>
  /\ chan' = Tail(chan)
  /\ heard' = Append(heard, [entry |-> Head(chan), at |-> now])
  /\ IF Match(Head(chan))
     THEN endpoints' = <<EndpointOf(Head(chan))>> /\ status' = "found"
     ELSE UNCHANGED <<endpoints, status>>
  /\ UNCHANGED <<clock, closed, announced, seen, settleAt>>

PairingSelect == PairingEnds \/ PairingReceive

PairingNext ==
  \/ Start
  \/ StartFails
  \/ Tick
  \/ Interrupt
  \/ \E e \in Entry : Announce(e)
  \/ CloseEntries
  \/ PairingSelect
  \/ Returned

PairingFairness ==
  /\ WF_vars(Start \/ StartFails)
  /\ WF_vars(Tick)
  /\ WF_vars(PairingEnds)

PairingSpec == Init /\ [][PairingNext]_vars /\ PairingFairness

----------------------------------------------------------------------------
(* Properties. *)

\* The positions in heard of the phone that scanned the code.
FromScanner == {k \in Usable : heard[k].entry.inst = wantInstance}

\* wadb pairs with the phone that scanned its code and with no other one that
\* happens to be pairing, at the first address that phone could be reached on.
PairsWithScanner ==
  status = "found" =>
    /\ FromScanner = {Len(heard)}
    /\ endpoints = <<EndpointOf(heard[Len(heard)].entry)>>

\* The wait is given up only if the phone's announcement has not been received,
\* and not before the timeout unless it was cut short or did not start.
GivesUpLate ==
  status = "failed" =>
    /\ FromScanner = {}
    /\ now = timeout \/ interrupted \/ closed \/ now = 0

\* However many other phones keep announcing, the wait ends.
PairingTerminates == <>(status \in {"found", "failed"})

=================================================================================
