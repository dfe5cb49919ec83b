----------------------------- MODULE Browse_proofs -----------------------------
(***************************************************************************)
(* The safety properties of a live browse hold whatever the network, the   *)
(* clock and the user do, and Browse implements Discovery.                 *)
(***************************************************************************)
EXTENDS Browse, Endpoints_proofs

\* What an entry of the network looks like to the browse.
LEMMA EntryType ==
  ASSUME NEW e \in Entry, Reachable(e)
  PROVE  /\ EndpointOf(e) \in Endpoint
         /\ Addr(EndpointOf(e)) \in Host \X Port
<1>1. EndpointOf(e) \in Endpoint
  BY BrowseAssumption, EndpointType
<1> QED
  BY <1>1 DEF Addr, Endpoint

----------------------------------------------------------------------------
(* Type correctness. *)

LEMMA TypeInit == Init => TypeOK
<1> SUFFICES ASSUME Init PROVE TypeOK
  OBVIOUS
<1>1. interrupted \in BOOLEAN /\ closed \in BOOLEAN
  BY Zenon DEF Init
<1>2. chan \in Seq(Entry) /\ heard \in Seq(Moment) /\ endpoints \in Seq(Endpoint)
  BY DEF Init
<1>3. timeout \in Nat /\ now \in Nat /\ announced \in Nat
  BY BrowseAssumption DEF Init
<1> QED
  BY <1>1, <1>2, <1>3 DEF Init, TypeOK

\* Receive keeps the types: what it appends is an entry of the network.
LEMMA TypeReceive ==
  ASSUME TypeOK, Receive
  PROVE  TypeOK'
<1> DEFINE e == Head(chan)
<1>1. e \in Entry /\ chan' \in Seq(Entry)
  BY DEF TypeOK, Receive
<1>2. heard' \in Seq(Moment)
  BY <1>1 DEF TypeOK, Receive, Moment
<1>3. /\ endpoints' \in Seq(Endpoint)
      /\ seen' \subseteq Host \X Port
      /\ settleAt' \in Nat \cup {NoTimer}
  <2>1. CASE Collect(e)
    BY <1>1, <2>1, EntryType, BrowseAssumption DEF TypeOK, Collect
  <2>2. CASE Skip(e)
    BY <2>2 DEF TypeOK, Skip
  <2> QED
    BY <2>1, <2>2 DEF Receive
<1> QED
  BY <1>1, <1>2, <1>3 DEF TypeOK, Receive, clock

LEMMA TypeNext == TypeOK /\ [Next]_vars => TypeOK'
<1> SUFFICES ASSUME TypeOK, [Next]_vars PROVE TypeOK'
  OBVIOUS
<1> USE DEF TypeOK, vars, clock, network, reader
<1>1. CASE Start \/ StartFails
  BY <1>1 DEF Start, StartFails
<1>2. CASE Tick
  BY <1>2 DEF Tick
<1>7. CASE Interrupt
  BY <1>7, Zenon DEF Interrupt
<1>8. CASE CloseEntries
  BY <1>8, Zenon DEF CloseEntries
<1>3. ASSUME NEW e \in Entry, Announce(e) PROVE TypeOK'
  BY <1>3 DEF Announce
<1>4. CASE CtxExpired \/ SettleElapsed \/ ChannelClosed
  BY <1>4 DEF CtxExpired, SettleElapsed, ChannelClosed, ReturnCollected
<1>5. CASE Receive
  BY <1>5, TypeReceive
<1>6. CASE Returned \/ UNCHANGED vars
  BY <1>6 DEF Returned
<1> QED
  BY <1>1, <1>2, <1>3, <1>4, <1>5, <1>6, <1>7, <1>8 DEF Next, Select

\* Every variable keeps its type: the endpoints have a host and a port, and the
\* timer is a time.
THEOREM TypeCorrect == Spec => []TypeOK
BY TypeInit, TypeNext, PTL DEF Spec

----------------------------------------------------------------------------
(* What Receive does to the history, and what it adds to the result. *)

LEMMA HeardType ==
  ASSUME TypeOK, NEW k \in DOMAIN heard
  PROVE  heard[k].at \in Nat
<1>1. heard[k] \in Moment
  BY DEF TypeOK
<1> QED
  BY <1>1 DEF Moment

\* Nothing was collected exactly when nothing usable was heard.
LEMMA EmptyTogether ==
  ASSUME TypeOK, ReportsAllHeard
  PROVE  endpoints = <<>> <=> Usable = {}
<1>1. endpoints = <<>> <=> DOMAIN endpoints = {}
  BY DEF TypeOK
<1>2. DOMAIN endpoints = {} <=> seen = {}
  BY DEF ReportsAllHeard
<1>3. Usable = {} <=> seen = {}
  BY DEF ReportsAllHeard
<1> QED
  BY <1>1, <1>2, <1>3

\* The entry just received goes to the end of the history, and is usable there
\* exactly when it is reachable.
LEMMA HeardGrows ==
  ASSUME TypeOK, Receive
  PROVE  /\ Len(heard) + 1 \in Nat
         /\ Usable \subseteq 1..Len(heard)
         /\ DOMAIN heard = 1..Len(heard)
         /\ DOMAIN heard' = 1..(Len(heard) + 1)
         /\ \A k \in 1..Len(heard) : heard'[k] = heard[k]
         /\ heard'[Len(heard) + 1] = [entry |-> Head(chan), at |-> now]
         /\ Head(chan) \in Entry
         /\ Usable' = IF Reachable(Head(chan)) THEN Usable \cup {Len(heard) + 1} ELSE Usable
<1> DEFINE e == Head(chan)
           n == Len(heard) + 1
<1>1. e \in Entry
  BY DEF TypeOK, Receive
<1>2. /\ n \in Nat
      /\ DOMAIN heard = 1..Len(heard)
      /\ DOMAIN heard' = 1..n
      /\ \A k \in 1..Len(heard) : heard'[k] = heard[k]
      /\ heard'[n] = [entry |-> e, at |-> now]
  <2>1. heard \in Seq(Moment) /\ [entry |-> e, at |-> now] \in Moment
    BY <1>1 DEF TypeOK, Moment
  <2>2. heard' = Append(heard, [entry |-> e, at |-> now])
    BY DEF Receive
  <2> QED
    BY <2>1, <2>2, AppendProperties, LenProperties
<1>3. Usable' = IF Reachable(e) THEN Usable \cup {n} ELSE Usable
  <2>1. Usable' = {k \in 1..n : Reachable(heard'[k].entry)}
    BY <1>2 DEF Usable
  <2>2. Usable = {k \in 1..Len(heard) : Reachable(heard[k].entry)}
    BY <1>2 DEF Usable
  <2>3. heard'[n].entry = e /\ 1..n = 1..Len(heard) \cup {n}
    BY <1>2
  <2> HIDE DEF e, n
  <2> QED
    BY <1>2, <2>1, <2>2, <2>3
<1> QED
  BY <1>1, <1>2, <1>3 DEF Usable

\* Collect appends one endpoint; the others stay where they are.
LEMMA EndpointsGrow ==
  ASSUME TypeOK, NEW e \in Entry, Collect(e)
  PROVE  /\ Len(endpoints) + 1 \in Nat
         /\ DOMAIN endpoints = 1..Len(endpoints)
         /\ DOMAIN endpoints' = 1..(Len(endpoints) + 1)
         /\ \A i \in 1..Len(endpoints) : endpoints'[i] = endpoints[i]
         /\ endpoints'[Len(endpoints) + 1] = EndpointOf(e)
         /\ endpoints' # <<>>
<1>1. endpoints \in Seq(Endpoint) /\ EndpointOf(e) \in Endpoint
  BY EntryType DEF TypeOK, Collect
<1>2. endpoints' = Append(endpoints, EndpointOf(e))
  BY DEF Collect
<1> QED
  BY <1>1, <1>2, AppendProperties, LenProperties

\* The addresses of the usable history after a Receive.
LEMMA AddressesGrow ==
  ASSUME TypeOK, Receive
  PROVE  {HeardAddr(k) : k \in Usable}' =
           IF Reachable(Head(chan))
           THEN {HeardAddr(k) : k \in Usable} \cup {Addr(EndpointOf(Head(chan)))}
           ELSE {HeardAddr(k) : k \in Usable}
<1>1. \A k \in Usable : heard'[k] = heard[k]
  BY HeardGrows
<1>2. heard'[Len(heard) + 1].entry = Head(chan)
  BY HeardGrows
<1>3. Usable' = IF Reachable(Head(chan)) THEN Usable \cup {Len(heard) + 1} ELSE Usable
  BY HeardGrows
<1>4. {HeardAddr(k) : k \in Usable}' = {Addr(EndpointOf(heard'[k].entry)) : k \in Usable'}
  BY DEF HeardAddr
<1> QED
  BY <1>1, <1>2, <1>3, <1>4 DEF HeardAddr

----------------------------------------------------------------------------
(* The inductive invariant, one part at a time. *)

LEMMA UniqueReceive ==
  ASSUME TypeOK, UniqueAddresses, ReportsAllHeard, Receive
  PROVE  UniqueAddresses'
<1> DEFINE e == Head(chan)
<1>1. CASE Collect(e)
  <2>1. e \in Entry
    BY HeardGrows
  <2>2. \A i \in 1..Len(endpoints) : Addr(endpoints[i]) # Addr(EndpointOf(e))
    BY <1>1, <2>1, EndpointsGrow DEF Collect, ReportsAllHeard
  <2> HIDE DEF e
  <2> QED
    BY <1>1, <2>1, <2>2, EndpointsGrow DEF UniqueAddresses
<1>2. CASE Skip(e)
  BY <1>2 DEF Skip, UniqueAddresses
<1> QED
  BY <1>1, <1>2 DEF Receive

LEMMA ReportsReceive ==
  ASSUME TypeOK, ReportsAllHeard, Receive
  PROVE  ReportsAllHeard'
<1> DEFINE e == Head(chan)
<1>1. e \in Entry
  BY HeardGrows
<1>2. CASE Collect(e)
  <2>1. seen' = seen \cup {Addr(EndpointOf(e))} /\ Reachable(e)
    BY <1>2 DEF Collect
  <2>2. {Addr(endpoints'[i]) : i \in DOMAIN endpoints'} =
          {Addr(endpoints[i]) : i \in DOMAIN endpoints} \cup {Addr(EndpointOf(e))}
    <3> HIDE DEF e
    <3> QED
      BY <1>1, <1>2, EndpointsGrow
  <2>3. {HeardAddr(k) : k \in Usable}' = {HeardAddr(k) : k \in Usable} \cup {Addr(EndpointOf(e))}
    BY <2>1, AddressesGrow
  <2> QED
    BY <2>1, <2>2, <2>3 DEF ReportsAllHeard
<1>3. CASE Skip(e)
  <2>1. {HeardAddr(k) : k \in Usable}' = {HeardAddr(k) : k \in Usable}
    BY <1>3, AddressesGrow DEF Skip, ReportsAllHeard
  <2>2. seen' = seen /\ endpoints' = endpoints
    BY <1>3 DEF Skip
  <2> QED
    BY <2>1, <2>2 DEF ReportsAllHeard
<1> QED
  BY <1>2, <1>3 DEF Receive

\* The new endpoint comes from the entry just received, which is the first with
\* its address because every earlier one is in seen.
LEMMA OrderReceive ==
  ASSUME TypeOK, ReportsAllHeard, InHeardOrder, Receive
  PROVE  InHeardOrder'
<1> DEFINE e == Head(chan)
<1>0. PICK n \in Nat : n = Len(heard) + 1
  BY HeardGrows
<1>1. /\ e \in Entry
      /\ n \in Nat
      /\ Usable \subseteq 1..Len(heard)
      /\ Usable \subseteq Usable'
      /\ Usable' \subseteq Usable \cup {n}
      /\ heard'[n].entry = e
      /\ \A k \in Usable : heard'[k] = heard[k]
      /\ Reachable(e) => n \in Usable'
  BY <1>0, HeardGrows
<1>2. PICK origin \in [DOMAIN endpoints -> Usable] :
        /\ \A i \in DOMAIN endpoints :
             endpoints[i] = EndpointOf(heard[origin[i]].entry) /\ FirstHeard(origin[i])
        /\ \A i, j \in DOMAIN endpoints : i < j => origin[i] < origin[j]
  BY DEF InHeardOrder
<1>3. ASSUME NEW k \in Usable, FirstHeard(k) PROVE FirstHeard(k)'
  <2>1. SUFFICES ASSUME NEW j \in Usable', HeardAddr(j)' = HeardAddr(k)' PROVE k <= j
    BY DEF FirstHeard
  <2>2. CASE j \in Usable
    BY <1>1, <1>3, <2>1, <2>2 DEF FirstHeard, HeardAddr
  <2>3. CASE j = n
    BY <1>0, <1>1, <2>3
  <2> QED
    BY <1>1, <2>2, <2>3
<1>4. CASE Skip(e)
  <2>1. endpoints' = endpoints
    BY <1>4 DEF Skip
  <2>2. origin \in [DOMAIN endpoints' -> Usable']
    BY <1>1, <2>1
  <2>3. \A i \in DOMAIN endpoints' :
          endpoints'[i] = EndpointOf(heard'[origin[i]].entry) /\ FirstHeard(origin[i])'
    BY <1>1, <1>2, <1>3, <2>1
  <2>4. \A i, j \in DOMAIN endpoints' : i < j => origin[i] < origin[j]
    BY <1>2, <2>1
  <2> QED
    BY <2>2, <2>3, <2>4 DEF InHeardOrder
<1>5. CASE Collect(e)
  <2>0. PICK m \in Nat : m = Len(endpoints) + 1
    BY <1>1, <1>5, EndpointsGrow
  <2>1. /\ DOMAIN endpoints = 1..Len(endpoints)
        /\ DOMAIN endpoints' = 1..m
        /\ \A i \in 1..Len(endpoints) : endpoints'[i] = endpoints[i]
        /\ endpoints'[m] = EndpointOf(e)
    BY <1>1, <1>5, <2>0, EndpointsGrow
  <2>2. n \in Usable'
    BY <1>1, <1>5 DEF Collect
  <2>3. FirstHeard(n)'
    <3>1. SUFFICES ASSUME NEW j \in Usable', HeardAddr(j)' = HeardAddr(n)' PROVE n <= j
      BY DEF FirstHeard
    <3>2. CASE j \in Usable
      <4>1. HeardAddr(j) = Addr(EndpointOf(e))
        BY <1>1, <3>1, <3>2 DEF HeardAddr
      <4> QED
        BY <1>5, <3>2, <4>1 DEF Collect, ReportsAllHeard
    <3> QED
      BY <1>0, <1>1, <3>2
  <2> HIDE DEF e
  <2>4. PICK origin2 :
        /\ origin2 \in [DOMAIN endpoints' -> Usable']
        /\ origin2[m] = n
        /\ \A i \in 1..Len(endpoints) : origin2[i] = origin[i] /\ origin[i] \in Usable
    <3> DEFINE o == [i \in DOMAIN endpoints' |-> IF i = m THEN n ELSE origin[i]]
    <3>1. \A i \in 1..Len(endpoints) : o[i] = origin[i] /\ origin[i] \in Usable
      BY <1>2, <2>0, <2>1
    <3>2. m \in DOMAIN endpoints' /\ o[m] = n
      BY <2>0, <2>1 DEF TypeOK
    <3>3. ASSUME NEW i \in DOMAIN endpoints' PROVE o[i] \in Usable'
      <4>1. i = m \/ i \in 1..Len(endpoints)
        BY <2>0, <2>1 DEF TypeOK
      <4> HIDE DEF o
      <4> QED
        BY <1>1, <2>2, <3>1, <3>2, <4>1
    <3> QED
      BY <3>1, <3>2, <3>3
  <2>5. ASSUME NEW i \in DOMAIN endpoints'
        PROVE  endpoints'[i] = EndpointOf(heard'[origin2[i]].entry) /\ FirstHeard(origin2[i])'
    <3>1. CASE i = m
      BY <1>1, <2>1, <2>3, <2>4, <3>1
    <3>2. CASE i \in 1..Len(endpoints)
      <4>1. origin2[i] = origin[i] /\ origin[i] \in Usable /\ i \in DOMAIN endpoints
        BY <2>1, <2>4, <3>2
      <4>2. FirstHeard(origin[i])'
        BY <1>2, <1>3, <4>1
      <4> QED
        BY <1>1, <1>2, <2>1, <3>2, <4>1, <4>2
    <3> QED
      BY <2>0, <2>1, <3>1, <3>2
  <2>6. ASSUME NEW i \in DOMAIN endpoints', NEW j \in DOMAIN endpoints', i < j
        PROVE  origin2[i] < origin2[j]
    <3>1. i \in 1..Len(endpoints)
      BY <2>0, <2>1, <2>6
    <3>2. CASE j = m
      BY <1>0, <1>1, <2>4, <3>1, <3>2
    <3>3. CASE j \in 1..Len(endpoints)
      BY <1>2, <2>1, <2>4, <2>6, <3>1, <3>3
    <3> QED
      BY <2>0, <2>1, <3>2, <3>3
  <2> QED
    BY <2>4, <2>5, <2>6 DEF InHeardOrder
<1> QED
  BY <1>4, <1>5 DEF Receive

\* A Receive starts the timer only with the first usable entry, at its time.
LEMMA SettlingReceive ==
  ASSUME TypeOK, Settling, ReportsAllHeard, Receive
  PROVE  Settling'
<1> DEFINE e == Head(chan)
<1>0. PICK n \in Nat : n = Len(heard) + 1
  BY HeardGrows
<1>1. /\ Usable \subseteq 1..Len(heard)
      /\ Usable' = IF Reachable(e) THEN Usable \cup {n} ELSE Usable
      /\ heard'[n].at = now
      /\ \A k \in 1..Len(heard) : heard'[k] = heard[k]
      /\ DOMAIN heard = 1..Len(heard)
      /\ DOMAIN heard' = 1..n
  BY <1>0, HeardGrows
<1>2. now \in Nat /\ Settle \in Nat /\ NoTimer \notin Nat
  BY BrowseAssumption DEF TypeOK
<1>3. \A k \in 1..Len(heard) : heard[k].at \in Nat
  BY <1>1, HeardType
<1>4. now' = now /\ timeout' = timeout
  BY DEF Receive, clock
<1>5. \A k \in DOMAIN heard' : heard'[k].at <= now
  <2>1. \A k \in DOMAIN heard' : k = n \/ k \in 1..Len(heard)
    BY <1>0, <1>1 DEF TypeOK
  <2> HIDE DEF e
  <2> QED
    BY <1>1, <1>2, <2>1 DEF Settling
<1> HIDE DEF e
<1>6. CASE ~Reachable(e)
  <2>1. settleAt' = settleAt
    BY <1>6 DEF Receive, Collect, Skip, e
  <2> QED
    BY <1>1, <1>4, <1>5, <1>6, <2>1 DEF Settling
<1>7. CASE Reachable(e) /\ settleAt = NoTimer
  <2>1. Usable = {} /\ Usable' = {n}
    BY <1>1, <1>7 DEF Settling
  <2>2. settleAt' = now + Settle
    BY <1>7, <2>1 DEF Receive, Collect, Skip, ReportsAllHeard, e
  <2> QED
    BY <1>1, <1>2, <1>4, <1>5, <2>1, <2>2 DEF Settling
<1>8. CASE Reachable(e) /\ settleAt # NoTimer
  <2>1. settleAt' = settleAt
    BY <1>8 DEF Receive, Collect, Skip, e
  <2>2. PICK k \in Usable : settleAt = heard[k].at + Settle
    BY <1>8 DEF Settling
  <2>3. settleAt \in Nat /\ settleAt <= now + Settle
    BY <1>1, <1>2, <1>3, <2>2 DEF Settling
  <2>4. \A j \in Usable' : settleAt <= heard'[j].at + Settle
    BY <1>1, <1>2, <1>8, <2>3 DEF Settling
  <2>5. k \in Usable' /\ settleAt = heard'[k].at + Settle
    BY <1>1, <2>2
  <2> QED
    BY <1>4, <1>5, <1>8, <2>1, <2>4, <2>5 DEF Settling
<1> QED
  BY <1>6, <1>7, <1>8

LEMMA InvInit == Init => IndInv
<1> SUFFICES ASSUME Init PROVE IndInv
  OBVIOUS
<1>1. TypeOK
  BY TypeInit
<1>2. DOMAIN heard = {} /\ DOMAIN endpoints = {} /\ Usable = {}
  BY DEF Init, Usable
<1>3. UniqueAddresses /\ ReportsAllHeard
  BY <1>2 DEF Init, UniqueAddresses, ReportsAllHeard
<1>4. InHeardOrder
  <2>1. [i \in {} |-> i] \in [DOMAIN endpoints -> Usable]
    BY <1>2
  <2> QED
    BY <1>2, <2>1 DEF InHeardOrder
<1>5. Settling
  BY <1>2, BrowseAssumption DEF Init, Settling
<1>6. Reason
  BY DEF Init, Reason
<1> QED
  BY <1>1, <1>3, <1>4, <1>5, <1>6 DEF IndInv

\* The reader's part of the invariant depends on nothing but its variables.
LEMMA ReaderFrame ==
  ASSUME UniqueAddresses, ReportsAllHeard, InHeardOrder, UNCHANGED reader
  PROVE  UniqueAddresses' /\ ReportsAllHeard' /\ InHeardOrder' /\ Usable' = Usable
<1>1. heard' = heard /\ endpoints' = endpoints /\ seen' = seen
  BY DEF reader
<1> QED
  BY <1>1 DEF UniqueAddresses, ReportsAllHeard, InHeardOrder, Usable, FirstHeard, HeardAddr

LEMMA InvNext == IndInv /\ [Next]_vars => IndInv'
<1> SUFFICES ASSUME IndInv, [Next]_vars PROVE IndInv'
  OBVIOUS
<1>1. TypeOK /\ UniqueAddresses /\ ReportsAllHeard /\ InHeardOrder /\ Settling /\ Reason
  BY DEF IndInv
<1>2. TypeOK'
  BY <1>1, TypeNext
<1>3. ASSUME UNCHANGED reader, UNCHANGED <<timeout, now>>
      PROVE  UniqueAddresses' /\ ReportsAllHeard' /\ InHeardOrder' /\ Settling'
  <2>1. UniqueAddresses' /\ ReportsAllHeard' /\ InHeardOrder' /\ Usable' = Usable
    BY <1>1, <1>3, ReaderFrame
  <2>2. Settling'
    BY <1>1, <1>3, <2>1 DEF Settling, reader
  <2> QED
    BY <2>1, <2>2
<1>4. CASE Start \/ StartFails
  <2>1. endpoints = <<>>
    <3>1. heard = <<>>
      BY <1>1, <1>4 DEF Start, StartFails, Reason
    <3>2. Usable = {}
      BY <3>1 DEF Usable
    <3> QED
      BY <1>1, <3>2, EmptyTogether
  <2>2. Reason'
    BY <1>1, <1>4, <2>1 DEF Start, StartFails, Reason, clock, reader, network
  <2> QED
    BY <1>2, <1>3, <1>4, <2>2 DEF Start, StartFails, clock, IndInv
<1>5. CASE Tick
  <2>1. UniqueAddresses' /\ ReportsAllHeard' /\ InHeardOrder' /\ Usable' = Usable
    BY <1>1, <1>5, ReaderFrame DEF Tick
  <2>2. now' = now + 1 /\ now < timeout /\ (settleAt # NoTimer => now < settleAt)
    BY <1>1, <1>5 DEF Tick, CtxDone, SettleDue, TypeOK
  <2>3. now \in Nat /\ timeout \in Nat /\ settleAt \in Nat \cup {NoTimer}
    BY <1>1 DEF TypeOK
  <2>4. heard' = heard /\ settleAt' = settleAt /\ timeout' = timeout
    BY <1>5 DEF Tick, reader
  <2>5. \A k \in DOMAIN heard : heard[k].at \in Nat
    BY <1>1, HeardType
  <2>6. Settling'
    BY <1>1, <2>1, <2>2, <2>3, <2>4, <2>5 DEF Settling
  <2>7. Reason'
    BY <1>1, <1>5 DEF Tick, Reason, reader, network
  <2> QED
    BY <1>2, <2>1, <2>6, <2>7 DEF IndInv
<1>6. CASE Interrupt
  <2>1. Reason'
    BY <1>1, <1>6 DEF Interrupt, Reason, reader, network
  <2> QED
    BY <1>2, <1>3, <1>6, <2>1 DEF Interrupt, IndInv
<1>7. ASSUME NEW e \in Entry, Announce(e) PROVE IndInv'
  <2>1. Reason'
    BY <1>1, <1>7 DEF Announce, Reason, reader, clock
  <2> QED
    BY <1>2, <1>3, <1>7, <2>1 DEF Announce, clock, IndInv
<1>8. CASE CloseEntries
  <2>1. Reason'
    BY <1>1, <1>8 DEF CloseEntries, Reason, reader, clock
  <2> QED
    BY <1>2, <1>3, <1>8, <2>1 DEF CloseEntries, clock, IndInv
<1>9. CASE CtxExpired \/ ChannelClosed
  <2>1. Reason'
    BY <1>1, <1>9
    DEF CtxExpired, ChannelClosed, ReturnCollected, Reason, reader, clock, network, CtxDone, SettleDue
  <2> QED
    BY <1>2, <1>3, <1>9, <2>1 DEF CtxExpired, ChannelClosed, ReturnCollected, clock, IndInv
<1>10. CASE SettleElapsed
  <2>1. endpoints # <<>>
    <3>1. Usable # {}
      BY <1>1, <1>10 DEF SettleElapsed, SettleDue, Settling
    <3> QED
      BY <1>1, <3>1, EmptyTogether
  <2>2. Reason'
    BY <1>1, <1>10, <2>1
    DEF SettleElapsed, Reason, reader, clock, network, CtxDone, SettleDue
  <2> QED
    BY <1>2, <1>3, <1>10, <2>2 DEF SettleElapsed, clock, IndInv
<1>11. CASE Receive
  <2>1. UniqueAddresses' /\ ReportsAllHeard' /\ InHeardOrder' /\ Settling'
    BY <1>1, <1>11, UniqueReceive, ReportsReceive, OrderReceive, SettlingReceive
  <2>2. Reason'
    BY <1>1, <1>11 DEF Receive, Reason
  <2> QED
    BY <1>2, <2>1, <2>2 DEF IndInv
<1>12. CASE Returned \/ UNCHANGED vars
  <2>1. UNCHANGED vars
    BY <1>12 DEF Returned
  <2>2. Reason'
    BY <1>1, <2>1 DEF vars, Reason, reader, clock, network, CtxDone, SettleDue
  <2> QED
    BY <1>2, <1>3, <2>1, <2>2 DEF vars, clock, IndInv
<1> QED
  BY <1>4, <1>5, <1>6, <1>7, <1>8, <1>9, <1>10, <1>11, <1>12 DEF Next, Select

LEMMA Invariance == Spec => []IndInv
BY InvInit, InvNext, PTL DEF Spec

----------------------------------------------------------------------------
(* The properties. *)

\* No address is in the result twice, however often and under however many
\* names its device was announced.
THEOREM AddressesAreUnique == Spec => []UniqueAddresses
BY Invariance, PTL DEF IndInv

\* The result has the address of every usable entry received, and no other.
THEOREM AllHeardIsReported == Spec => []ReportsAllHeard
BY Invariance, PTL DEF IndInv

\* The result keeps the order, and the names, of the first announcements.
THEOREM OrderIsKept == Spec => []InHeardOrder
BY Invariance, PTL DEF IndInv

\* The browse fails exactly when it received nothing usable.
THEOREM OutcomeIsRight == Spec => []Outcome
<1>1. IndInv => Outcome
  BY EmptyTogether DEF IndInv, Outcome, Reason
<1> QED
  BY <1>1, Invariance, PTL

\* The browse is over a settle delay after the first usable entry at the latest.
THEOREM WaitIsBounded == Spec => []SettleBound
<1>1. IndInv => SettleBound
  <2> SUFFICES ASSUME IndInv PROVE SettleBound
    OBVIOUS
  <2>1. now <= timeout
    BY DEF IndInv, Settling
  <2>2. ASSUME NEW k \in Usable PROVE now <= heard[k].at + Settle
    <3>1. settleAt # NoTimer
      BY <2>2 DEF IndInv, Settling
    <3>2. now <= settleAt /\ settleAt <= heard[k].at + Settle
      BY <2>2, <3>1 DEF IndInv, Settling
    <3>3. heard[k].at \in Nat
      BY <2>2, HeardType DEF IndInv, Usable
    <3> QED
      BY <3>1, <3>2, <3>3, BrowseAssumption DEF IndInv, TypeOK
  <2> QED
    BY <2>1, <2>2 DEF SettleBound
<1> QED
  BY <1>1, Invariance, PTL

\* An uninterrupted browse that found something waited the whole settle delay,
\* or the whole timeout, before it returned.
THEOREM WaitIsLongEnough == Spec => []NoEarlyReturn
<1>1. IndInv => NoEarlyReturn
  <2> SUFFICES ASSUME IndInv, status = "found", ~interrupted, ~closed
               PROVE  now = timeout \/ \E k \in Usable : now = heard[k].at + Settle
    BY DEF NoEarlyReturn
  <2>1. now \in Nat /\ timeout \in Nat /\ settleAt \in Nat \cup {NoTimer} /\ now <= timeout
    BY DEF IndInv, TypeOK, Settling
  <2>2. CASE now >= timeout
    BY <2>1, <2>2
  <2>3. CASE SettleDue
    <3>1. settleAt # NoTimer /\ now = settleAt
      BY <2>1, <2>3 DEF SettleDue, IndInv, Settling
    <3> QED
      BY <3>1 DEF IndInv, Settling
  <2> QED
    BY <2>2, <2>3 DEF IndInv, Reason, CtxDone
<1> QED
  BY <1>1, Invariance, PTL

----------------------------------------------------------------------------
(* Browse implements Discovery. *)

LEMMA FoundInit == Init => Found!Init
BY DEF Init, Found!Init

\* Receive finds one address or stutters; the other steps return or stutter.
LEMMA FoundNext == IndInv /\ [Next]_vars => [Found!Next]_Found!discovery
<1> SUFFICES ASSUME IndInv, [Next]_vars PROVE [Found!Next]_Found!discovery
  OBVIOUS
<1> DEFINE over == status \in {"found", "failed"}
<1>1. CASE Start \/ Tick \/ Interrupt \/ CloseEntries \/ Returned \/ UNCHANGED vars
  BY <1>1
  DEF Start, Tick, Interrupt, CloseEntries, Returned, vars, clock, network, reader,
      Found!discovery
<1>2. ASSUME NEW e \in Entry, Announce(e) PROVE UNCHANGED Found!discovery
  BY <1>2 DEF Announce, clock, reader, Found!discovery
<1>3. CASE StartFails
  <2>1. endpoints = <<>>
    <3>1. Usable = {}
      BY <1>3 DEF StartFails, IndInv, Reason, Usable
    <3> QED
      BY <3>1, EmptyTogether DEF IndInv
  <2> QED
    BY <1>3, <2>1 DEF StartFails, reader, Found!Next, Found!Return
<1>4. CASE CtxExpired \/ ChannelClosed
  BY <1>4
  DEF CtxExpired, ChannelClosed, ReturnCollected, reader, Found!Next, Found!Return
<1>5. CASE SettleElapsed
  <2>1. endpoints # <<>>
    <3>1. Usable # {}
      BY <1>5 DEF SettleElapsed, SettleDue, IndInv, Settling
    <3> QED
      BY <3>1, EmptyTogether DEF IndInv
  <2> QED
    BY <1>5, <2>1 DEF SettleElapsed, reader, Found!Next, Found!Return
<1>6. CASE Receive
  <2>1. Head(chan) \in Entry /\ status' = status /\ status = "browsing"
    BY <1>6, HeardGrows DEF IndInv, Receive
  <2>2. CASE Collect(Head(chan))
    <3>1. EndpointOf(Head(chan)) \in Endpoint
      BY <2>1, <2>2, EntryType DEF Collect
    <3>2. /\ endpoints' = Append(endpoints, EndpointOf(Head(chan)))
          /\ \A i \in DOMAIN endpoints : Addr(endpoints[i]) # Addr(EndpointOf(Head(chan)))
      BY <2>2 DEF Collect, IndInv, ReportsAllHeard
    <3>3. Found!Find(EndpointOf(Head(chan)))
      BY <2>1, <3>2 DEF Found!Find, Found!Addr, Addr
    <3> QED
      BY <3>1, <3>3 DEF Found!Next, Found!Endpoint, Endpoint, Found!Host, Host
  <2>3. CASE Skip(Head(chan))
    BY <2>1, <2>3 DEF Skip, Found!discovery
  <2> QED
    BY <1>6, <2>2, <2>3 DEF Receive
<1> QED
  BY <1>1, <1>2, <1>3, <1>4, <1>5, <1>6 DEF Next, Select

\* Whatever the network does, a browse is a Discovery: it finds new addresses one
\* by one, and returns all it found, or an error if that is nothing.
THEOREM BrowseIsDiscovery == Spec => Found!Safety
BY Invariance, FoundInit, FoundNext, PTL DEF Spec, Found!Safety

================================================================================
