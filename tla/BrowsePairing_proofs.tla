--------------------------- MODULE BrowsePairing_proofs ---------------------------
(***************************************************************************)
(* What holds of every wait for the phone that scans the QR code, for any  *)
(* network and any number of other phones that pair at the same time.      *)
(***************************************************************************)
EXTENDS BrowsePairing, Browse_proofs

\* Nothing was heard of the phone before the wait ends, and the clock does not pass
\* the deadline.
Waiting ==
  /\ now <= timeout
  /\ status = "starting" => now = 0
  /\ status \in {"starting", "browsing"} => endpoints = <<>> /\ FromScanner = {}

PairingInv == TypeOK /\ Waiting /\ PairsWithScanner /\ GivesUpLate

\* The entry received is of the phone and usable, or it leaves what was heard of the
\* phone as it is.
LEMMA ScannerHeard ==
  ASSUME TypeOK, PairingReceive
  PROVE  /\ Head(chan) \in Entry
         /\ Len(heard') = Len(heard) + 1
         /\ heard'[Len(heard')].entry = Head(chan)
         /\ FromScanner' = IF Match(Head(chan)) THEN FromScanner \cup {Len(heard')} ELSE FromScanner
<1> DEFINE e == Head(chan)
           n == Len(heard) + 1
           m == [entry |-> e, at |-> now]
<1>1. e \in Entry
  BY DEF TypeOK, PairingReceive
<1>2. heard \in Seq(Moment) /\ m \in Moment /\ heard' = Append(heard, m)
  BY <1>1 DEF TypeOK, Moment, PairingReceive
<1>3. m.entry = e
  OBVIOUS
<1> HIDE DEF e, m
<1>4. /\ n \in Nat /\ Len(heard') = n
      /\ DOMAIN heard = 1..Len(heard) /\ DOMAIN heard' = 1..n
      /\ 1..n = 1..Len(heard) \cup {n}
      /\ \A k \in 1..Len(heard) : heard'[k] = heard[k]
      /\ heard'[n] = m
  BY <1>2, AppendProperties, LenProperties
<1> HIDE DEF n
<1>5. FromScanner' = {k \in 1..n : Match(heard'[k].entry)}
  BY <1>4 DEF FromScanner, Usable, Match
<1>6. FromScanner = {k \in 1..Len(heard) : Match(heard[k].entry)}
  BY <1>4 DEF FromScanner, Usable, Match
<1>7. FromScanner' = IF Match(e) THEN FromScanner \cup {n} ELSE FromScanner
  BY <1>3, <1>4, <1>5, <1>6
<1> QED
  BY <1>1, <1>3, <1>4, <1>7 DEF e, n

\* A step that receives nothing leaves what was heard and collected.
LEMMA DeafStep ==
  ASSUME [PairingNext]_vars, ~PairingReceive
  PROVE  UNCHANGED <<timeout, heard, endpoints, seen, settleAt>> /\ UNCHANGED FromScanner
<1>1. UNCHANGED <<timeout, heard, endpoints, seen, settleAt>>
  BY DEF PairingNext, PairingSelect, PairingEnds, Start, StartFails, Tick, Interrupt, Announce,
         CloseEntries, Returned, vars, clock, network, reader
<1> QED
  BY <1>1 DEF FromScanner, Usable

LEMMA PairingTypeStep ==
  ASSUME TypeOK, [PairingNext]_vars
  PROVE  TypeOK'
<1> USE DEF TypeOK, vars, clock, network, reader
<1>1. CASE [Next]_vars
  BY <1>1, TypeNext
<1>2. CASE PairingEnds
  BY <1>2 DEF PairingEnds
<1>3. CASE PairingReceive
  <2>1. Head(chan) \in Entry /\ chan' \in Seq(Entry)
    BY <1>3 DEF PairingReceive
  <2>2. [entry |-> Head(chan), at |-> now] \in Moment
    BY <2>1 DEF Moment
  <2>3. heard' \in Seq(Moment)
    BY <1>3, <2>2 DEF PairingReceive
  <2>4. CASE Match(Head(chan))
    <3>1. EndpointOf(Head(chan)) \in Endpoint
      BY <2>1, <2>4, EntryType, EndpointType DEF Match
    <3>2. <<EndpointOf(Head(chan))>> \in Seq(Endpoint)
      BY <3>1
    <3>3. endpoints' = <<EndpointOf(Head(chan))>> /\ status' = "found"
      BY <1>3, <2>4 DEF PairingReceive
    <3>4. UNCHANGED <<timeout, now, interrupted, closed, announced, seen, settleAt>>
      BY <1>3 DEF PairingReceive
    <3> QED
      BY <2>1, <2>3, <3>2, <3>3, <3>4
  <2>5. CASE ~Match(Head(chan))
    BY <1>3, <2>1, <2>3, <2>5 DEF PairingReceive
  <2> QED
    BY <2>4, <2>5
<1> QED
  BY <1>1, <1>2, <1>3 DEF PairingNext, PairingSelect, Next

LEMMA PairingStepInv ==
  ASSUME PairingInv, [PairingNext]_vars
  PROVE  PairingInv'
<1> USE DEF vars, clock, network, reader
<1>1. TypeOK /\ TypeOK'
  BY PairingTypeStep DEF PairingInv
<1>2. CASE PairingReceive
  <2>1. /\ status = "browsing" /\ UNCHANGED <<timeout, now, interrupted, closed>>
        /\ FromScanner = {} /\ now <= timeout
    BY <1>2 DEF PairingReceive, PairingInv, Waiting
  <2>2. CASE Match(Head(chan))
    <3>1. status' = "found" /\ endpoints' = <<EndpointOf(Head(chan))>>
      BY <1>2, <2>2 DEF PairingReceive
    <3>2. FromScanner' = {Len(heard')} /\ heard'[Len(heard')].entry = Head(chan)
      BY <1>1, <1>2, <2>1, <2>2, ScannerHeard
    <3> QED
      BY <1>1, <2>1, <3>1, <3>2 DEF PairingInv, Waiting, PairsWithScanner, GivesUpLate
  <2>3. CASE ~Match(Head(chan))
    <3>1. status' = "browsing" /\ endpoints' = endpoints
      BY <1>2, <2>1, <2>3 DEF PairingReceive
    <3>2. FromScanner' = {}
      BY <1>1, <1>2, <2>1, <2>3, ScannerHeard
    <3>3. endpoints = <<>>
      BY <2>1 DEF PairingInv, Waiting
    <3> QED
      BY <1>1, <2>1, <3>1, <3>2, <3>3 DEF PairingInv, Waiting, PairsWithScanner, GivesUpLate
  <2> QED
    BY <2>2, <2>3
<1>3. CASE ~PairingReceive
  <2>1. UNCHANGED <<timeout, heard, endpoints, FromScanner>>
    BY <1>3, DeafStep
  <2>2. CASE Tick
    <3>1. /\ status = "browsing" /\ status' = "browsing" /\ now' = now + 1 /\ ~CtxDone
          /\ now \in Nat /\ timeout \in Nat
      BY <1>1, <2>2 DEF Tick, TypeOK
    <3>2. now' <= timeout
      BY <3>1 DEF CtxDone
    <3> QED
      BY <1>1, <2>1, <3>1, <3>2 DEF PairingInv, Waiting, PairsWithScanner, GivesUpLate
  <2>3. CASE ~Tick
    <3>1. /\ now' = now
          /\ interrupted => interrupted'
          /\ closed => closed'
      BY <1>3, <2>3 DEF PairingNext, PairingSelect, PairingEnds, Start, StartFails, Interrupt,
                        Announce, CloseEntries, Returned
    <3>2. CASE status' = status
      BY <1>1, <2>1, <3>1, <3>2 DEF PairingInv, Waiting, PairsWithScanner, GivesUpLate
    <3>3. CASE Start \/ StartFails
      <4>1. status = "starting" /\ status' \in {"browsing", "failed"}
        BY <3>3 DEF Start, StartFails
      <4> QED
        BY <1>1, <2>1, <3>1, <4>1 DEF PairingInv, Waiting, PairsWithScanner, GivesUpLate
    <3>4. CASE PairingEnds
      <4>1. /\ status = "browsing" /\ status' = "failed"
            /\ CtxDone \/ closed
            /\ now \in Nat /\ timeout \in Nat /\ now <= timeout
        BY <1>1, <3>4 DEF PairingEnds, TypeOK, PairingInv, Waiting
      <4>2. now = timeout \/ interrupted \/ closed
        BY <4>1 DEF CtxDone
      <4> QED
        BY <1>1, <2>1, <3>1, <4>1, <4>2 DEF PairingInv, Waiting, PairsWithScanner, GivesUpLate
    <3>5. status' = status \/ Start \/ StartFails \/ PairingEnds
      BY <1>3, <2>3 DEF PairingNext, PairingSelect, Interrupt, Announce, CloseEntries, Returned
    <3> QED
      BY <3>2, <3>3, <3>4, <3>5
  <2> QED
    BY <2>2, <2>3
<1> QED
  BY <1>2, <1>3

LEMMA PairingInvariance == PairingSpec => []PairingInv
<1>1. Init => PairingInv
  <2> SUFFICES ASSUME Init PROVE PairingInv
    OBVIOUS
  <2>1. TypeOK
    BY TypeInit
  <2>2. FromScanner = {}
    BY DEF Init, FromScanner, Usable
  <2> QED
    BY <2>1, <2>2 DEF Init, TypeOK, PairingInv, Waiting, PairsWithScanner, GivesUpLate
<1>2. PairingInv /\ [PairingNext]_vars => PairingInv'
  BY PairingStepInv
<1> QED
  BY <1>1, <1>2, PTL DEF PairingSpec

\* However many phones announce that they pair, in whatever order, wadb pairs with
\* the first usable announcement of the one that scanned its code.
THEOREM OnlyTheScannerIsPaired == PairingSpec => []PairsWithScanner
<1>1. PairingInv => PairsWithScanner
  BY DEF PairingInv
<1> QED
  BY <1>1, PairingInvariance, PTL

\* The wait for the scanned code fails only if the phone was not heard, and before
\* the timeout only when it was interrupted, closed or never started.
THEOREM TheWaitIsNotCutShort == PairingSpec => []GivesUpLate
<1>1. PairingInv => GivesUpLate
  BY DEF PairingInv
<1> QED
  BY <1>1, PairingInvariance, PTL

===================================================================================
