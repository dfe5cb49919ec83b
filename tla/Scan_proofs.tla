-------------------------------- MODULE Scan_proofs --------------------------------
(***************************************************************************)
(* What a scan returns and how long it takes, whatever adb has cached and  *)
(* whatever the network announces.                                         *)
(***************************************************************************)
EXTENDS Scan, Browse_proofs, FiniteSetTheorems

----------------------------------------------------------------------------
(* mergeEndpoints *)

\* with is out, and ep: in the place that has its address, or behind.
Added(with, out, ep) ==
  /\ with \in Seq(Endpoint) /\ Distinct(with)
  /\ Addresses(with) = Addresses(out) \cup {Addr(ep)}
  /\ \A i \in DOMAIN out :
       /\ i \in DOMAIN with
       /\ with[i] = IF Addr(out[i]) = Addr(ep) /\ ep.inst # Unnamed THEN ep ELSE out[i]
  /\ \A j \in DOMAIN with \ DOMAIN out :
       with[j] = ep /\ Addr(ep) \notin Addresses(out) /\ \A i \in DOMAIN out : i < j

LEMMA AddEndpointSound ==
  ASSUME NEW out \in Seq(Endpoint), Distinct(out), NEW ep \in Endpoint
  PROVE  Added(AddEndpoint(out, ep), out, ep)
<1> DEFINE with == AddEndpoint(out, ep)
           n == Len(out) + 1
<1>1. CASE \E i \in DOMAIN out : Addr(out[i]) = Addr(ep)
  <2>1. Addr(ep) \in Addresses(out)
    BY <1>1 DEF Addresses
  <2>2. CASE ep.inst = Unnamed
    <3>1. AddEndpoint(out, ep) = out
      BY <1>1, <2>2 DEF AddEndpoint
    <3>2. Addresses(out) = Addresses(out) \cup {Addr(ep)}
      BY <2>1
    <3> QED
      BY <2>2, <3>1, <3>2 DEF Added
  <2>3. CASE ep.inst # Unnamed
    <3>1. with = [i \in DOMAIN out |-> IF Addr(out[i]) = Addr(ep) THEN ep ELSE out[i]]
      BY <1>1, <2>3 DEF AddEndpoint
    <3>2. DOMAIN out = 1..Len(out) /\ Len(out) \in Nat /\ \A i \in DOMAIN out : out[i] \in Endpoint
      OBVIOUS
    <3>3. DOMAIN with = DOMAIN out /\ \A i \in DOMAIN out : with[i] \in Endpoint /\ Addr(with[i]) = Addr(out[i])
      BY <3>1, <3>2
    <3>6. \A i \in DOMAIN out :
            with[i] = IF Addr(out[i]) = Addr(ep) /\ ep.inst # Unnamed THEN ep ELSE out[i]
      BY <2>3, <3>1
    <3>4. with \in Seq(Endpoint)
      BY <3>1, <3>2
    <3> HIDE DEF with
    <3>5. Distinct(with) /\ Addresses(with) = Addresses(out)
      BY <3>3 DEF Distinct, Addresses
    <3> QED
      BY <2>1, <3>3, <3>4, <3>5, <3>6 DEF Added, with
  <2> QED
    BY <2>2, <2>3
<1>2. CASE ~\E i \in DOMAIN out : Addr(out[i]) = Addr(ep)
  <2>1. with = Append(out, ep)
    BY <1>2 DEF AddEndpoint
  <2>2. /\ with \in Seq(Endpoint)
        /\ DOMAIN out = 1..Len(out) /\ DOMAIN with = DOMAIN out \cup {n}
        /\ \A i \in DOMAIN out : with[i] = out[i]
        /\ with[n] = ep
    BY <2>1
  <2> HIDE DEF with, n
  <2>3. Distinct(with)
    BY <1>2, <2>2 DEF Distinct
  <2>4. Addresses(with) = Addresses(out) \cup {Addr(ep)} /\ Addr(ep) \notin Addresses(out)
    BY <1>2, <2>2 DEF Addresses
  <2>5. \A i \in DOMAIN out : i < n /\ Addr(out[i]) # Addr(ep)
    BY <1>2, <2>2 DEF n
  <2> QED
    BY <2>2, <2>3, <2>4, <2>5 DEF Added, with
<1> QED
  BY <1>1, <1>2

\* Where s names the address of ep.
Naming(s, n, ep) == {k \in 1..n : Addr(s[k]) = Addr(ep) /\ s[k].inst # Unnamed}

\* t has the addresses of the first n endpoints of s, in the order they come up first,
\* each under the name it was last given.
Ordered(t, s, n) ==
  \A i, j \in DOMAIN t : i < j =>
    \A b \in 1..n : Addr(s[b]) = Addr(t[j]) => \E a \in 1..n : a < b /\ Addr(s[a]) = Addr(t[i])

LastNamed(t, s, n) ==
  \A i \in DOMAIN t :
    IF Naming(s, n, t[i]) = {} THEN t[i].inst = Unnamed
    ELSE \E k \in Naming(s, n, t[i]) :
           t[i].inst = s[k].inst /\ \A m \in Naming(s, n, t[i]) : m <= k

Merged(t, s, n) ==
  /\ t \in Seq(Endpoint) /\ Distinct(t)
  /\ Addresses(t) = {Addr(s[j]) : j \in 1..n}
  /\ Ordered(t, s, n) /\ LastNamed(t, s, n)

LEMMA OrderedGrows ==
  ASSUME NEW s \in Seq(Endpoint), NEW n \in Nat, n + 1 <= Len(s), NEW t, Merged(t, s, n)
  PROVE  Ordered(AddEndpoint(t, s[n + 1]), s, n + 1)
<1> DEFINE ep == s[n + 1]
           with == AddEndpoint(t, ep)
<1>1. ep \in Endpoint /\ t \in Seq(Endpoint) /\ Distinct(t)
  BY DEF Merged
<1>2. /\ \A i \in DOMAIN t : i \in DOMAIN with /\ Addr(with[i]) = Addr(t[i])
      /\ \A j \in DOMAIN with \ DOMAIN t :
           with[j] = ep /\ Addr(ep) \notin Addresses(t) /\ \A i \in DOMAIN t : i < j
      /\ DOMAIN with \subseteq Nat /\ \A j, k \in DOMAIN with \ DOMAIN t : j = k
  <2>1. Added(with, t, ep)
    BY <1>1, AddEndpointSound
  <2> HIDE DEF with, ep
  <2>2. DOMAIN with \subseteq Nat
    BY <2>1 DEF Added
  <2>3. \A j, k \in DOMAIN with \ DOMAIN t : j = k
    BY <2>1 DEF Added, Distinct
  <2> QED
    BY <2>1, <2>2, <2>3 DEF Added
<1>3. \A i \in DOMAIN t : \E a \in 1..n : Addr(s[a]) = Addr(t[i])
  <2>1. \A i \in DOMAIN t : Addr(t[i]) \in {Addr(s[a]) : a \in 1..n}
    BY DEF Merged, Addresses
  <2> QED
    BY <2>1
<1>4. \A a \in 1..n : Addr(s[a]) \in Addresses(t)
  BY DEF Merged
<1>5. /\ 1..n \subseteq 1..(n + 1) /\ \A b \in 1..(n + 1) : b \in 1..n \/ b = n + 1
      /\ \A a \in 1..n : a < n + 1
      /\ DOMAIN t \subseteq Nat
  BY <1>1
<1> SUFFICES ASSUME NEW i \in DOMAIN with, NEW j \in DOMAIN with, i < j,
                    NEW b \in 1..(n + 1), Addr(s[b]) = Addr(with[j])
             PROVE  \E a \in 1..(n + 1) : a < b /\ Addr(s[a]) = Addr(with[i])
  BY DEF Ordered
<1> HIDE DEF with
<1>6. i \in DOMAIN t
  <2>1. CASE i \notin DOMAIN t /\ j \in DOMAIN t
    BY <1>2, <1>5, <2>1
  <2>2. CASE i \notin DOMAIN t /\ j \notin DOMAIN t
    <3>1. i = j /\ i \in Nat
      BY <1>2, <2>2
    <3> QED
      BY <3>1
  <2> QED
    BY <2>1, <2>2
<1>7. PICK a0 \in 1..n : Addr(s[a0]) = Addr(with[i])
  BY <1>2, <1>3, <1>6
<1>8. CASE b = n + 1
  BY <1>5, <1>7, <1>8
<1>9. CASE b \in 1..n
  <2>1. Addr(s[b]) \in Addresses(t)
    BY <1>4, <1>9
  <2>2. j \in DOMAIN t
    BY <1>2, <2>1
  <2>3. Addr(s[b]) = Addr(t[j])
    BY <1>2, <2>2
  <2>4. PICK a \in 1..n : a < b /\ Addr(s[a]) = Addr(t[i])
    BY <1>6, <1>9, <2>2, <2>3 DEF Merged, Ordered
  <2> QED
    BY <1>2, <1>5, <1>6, <2>4
<1> QED
  BY <1>5, <1>8, <1>9

LEMMA LastNamedGrows ==
  ASSUME NEW s \in Seq(Endpoint), NEW n \in Nat, n + 1 <= Len(s), NEW t, Merged(t, s, n)
  PROVE  LastNamed(AddEndpoint(t, s[n + 1]), s, n + 1)
<1> DEFINE ep == s[n + 1]
           with == AddEndpoint(t, ep)
<1>1. ep \in Endpoint /\ t \in Seq(Endpoint) /\ Distinct(t)
  BY DEF Merged
<1>2. /\ \A i \in DOMAIN t :
           with[i] = IF Addr(t[i]) = Addr(ep) /\ ep.inst # Unnamed THEN ep ELSE t[i]
      /\ \A j \in DOMAIN with \ DOMAIN t : with[j] = ep /\ Addr(ep) \notin Addresses(t)
  <2>1. Added(with, t, ep)
    BY <1>1, AddEndpointSound
  <2> HIDE DEF with, ep
  <2> QED
    BY <2>1 DEF Added
<1>3. /\ 1..(n + 1) = 1..n \cup {n + 1} /\ n + 1 \notin 1..n
      /\ \A m \in 1..(n + 1) : m <= n + 1
  OBVIOUS
<1> SUFFICES ASSUME NEW i \in DOMAIN with
             PROVE  IF Naming(s, n + 1, with[i]) = {} THEN with[i].inst = Unnamed
                    ELSE \E k \in Naming(s, n + 1, with[i]) :
                           /\ with[i].inst = s[k].inst
                           /\ \A m \in Naming(s, n + 1, with[i]) : m <= k
  BY DEF LastNamed
<1>4. \A e : Addr(e) = Addr(with[i]) =>
        Naming(s, n + 1, with[i]) =
          Naming(s, n, e) \cup (IF Addr(ep) = Addr(e) /\ ep.inst # Unnamed THEN {n + 1} ELSE {})
  BY <1>3 DEF Naming
<1> HIDE DEF with
<1>5. CASE Addr(ep) = Addr(with[i]) /\ ep.inst # Unnamed
  <2>1. with[i] = ep
    <3>1. CASE i \in DOMAIN t
      <4>1. Addr(t[i]) = Addr(ep)
        BY <1>2, <1>5, <3>1
      <4> QED
        BY <1>2, <1>5, <3>1, <4>1
    <3> QED
      BY <1>2, <3>1
  <2>2. n + 1 \in Naming(s, n + 1, with[i])
    BY <1>4, <1>5
  <2>3. \A m \in Naming(s, n + 1, with[i]) : m <= n + 1
    BY <1>3 DEF Naming
  <2> QED
    BY <2>1, <2>2, <2>3
<1>6. CASE ~(Addr(ep) = Addr(with[i]) /\ ep.inst # Unnamed)
  <2>1. CASE i \in DOMAIN t
    <3>1. with[i] = t[i]
      BY <1>2, <1>6, <2>1
    <3>2. Naming(s, n + 1, with[i]) = Naming(s, n, t[i])
      BY <1>4, <1>6, <3>1
    <3> QED
      BY <2>1, <3>1, <3>2 DEF Merged, LastNamed
  <2>2. CASE i \notin DOMAIN t
    <3>1. with[i] = ep /\ Addr(ep) \notin Addresses(t)
      BY <1>2, <2>2
    <3>2. ep.inst = Unnamed
      BY <1>6, <3>1
    <3>3. \A a \in 1..n : Addr(s[a]) \in Addresses(t)
      BY DEF Merged
    <3>4. Naming(s, n, ep) = {}
      BY <3>1, <3>3 DEF Naming
    <3>5. Naming(s, n + 1, with[i]) = {}
      BY <1>4, <3>1, <3>2, <3>4
    <3> QED
      BY <3>1, <3>2, <3>5
  <2> QED
    BY <2>1, <2>2
<1> QED
  BY <1>5, <1>6

LEMMA MergedGrows ==
  ASSUME NEW s \in Seq(Endpoint), NEW n \in Nat, n + 1 <= Len(s), NEW t, Merged(t, s, n)
  PROVE  Merged(AddEndpoint(t, s[n + 1]), s, n + 1)
<1>1. s[n + 1] \in Endpoint /\ t \in Seq(Endpoint) /\ Distinct(t)
  BY DEF Merged
<1>2. 1..(n + 1) = 1..n \cup {n + 1}
  OBVIOUS
<1>3. {Addr(s[j]) : j \in 1..(n + 1)} = {Addr(s[j]) : j \in 1..n} \cup {Addr(s[n + 1])}
  BY <1>2
<1>4. /\ AddEndpoint(t, s[n + 1]) \in Seq(Endpoint)
      /\ Distinct(AddEndpoint(t, s[n + 1]))
      /\ Addresses(AddEndpoint(t, s[n + 1])) = Addresses(t) \cup {Addr(s[n + 1])}
  <2>1. Added(AddEndpoint(t, s[n + 1]), t, s[n + 1])
    BY <1>1, AddEndpointSound
  <2> QED
    BY <2>1 DEF Added
<1> QED
  BY <1>3, <1>4, OrderedGrows, LastNamedGrows DEF Merged

\* So merging keeps every address, of either source, once, in order, and its last name.
LEMMA MergeSound ==
  ASSUME NEW c \in Seq(Endpoint), NEW l \in Seq(Endpoint)
  PROVE  /\ mergeEndpoints(c, l) \in Seq(Endpoint)
         /\ Distinct(mergeEndpoints(c, l))
         /\ Addresses(mergeEndpoints(c, l)) = Addresses(c) \cup Addresses(l)
         /\ c \o l \in Seq(Endpoint)
         /\ Merged(mergeEndpoints(c, l), c \o l, Len(c \o l))
<1> DEFINE s == c \o l
           n == Len(s)
           Lists == {out \in Seq(Endpoint) : Distinct(out)}
           add == [i \in 1..n |-> [out \in Lists |-> AddEndpoint(out, s[i])]]
           Rule(g, i) == IF i = 0 THEN <<>> ELSE AddEndpoint(g[i - 1], s[i])
           merged == CHOOSE g : g = [i \in 0..n |-> Rule(g, i)]
<1>1. s \in Seq(Endpoint) /\ Elements(s) = Elements(c) \cup Elements(l)
  BY ConcatElements
<1>2. Addresses(s) = Addresses(c) \cup Addresses(l)
  <2>1. \A e \in Seq(Endpoint) : Addresses(e) = {Addr(ep) : ep \in Elements(e)}
    BY DEF Addresses, Elements
  <2> HIDE DEF s
  <2> QED
    BY <1>1, <2>1
<1>3. mergeEndpoints(c, l) = merged[n]
  BY DEF mergeEndpoints
<1> HIDE DEF s
<1>4. n \in Nat /\ \A i \in 1..n : s[i] \in Endpoint
  BY <1>1
<1>5. PICK f \in [0..n -> Lists] : Passes(f, n, <<>>, add)
  <2>1. <<>> \in Lists
    BY DEF Distinct
  <2>2. \A i \in 1..n, out \in Lists : AddEndpoint(out, s[i]) \in Lists
    BY <1>4, AddEndpointSound DEF Added
  <2>3. add \in Steps(n, Lists)
    BY <2>2 DEF Steps
  <2>4. n \in Nat
    BY <1>4
  <2> HIDE DEF add, Lists, n
  <2> QED
    BY <2>1, <2>3, <2>4, LoopExists
<1>6. f = [i \in 0..n |-> Rule(f, i)]
  <2>1. ASSUME NEW i \in 1..n
        PROVE  add[i][f[i - 1]] = AddEndpoint(f[i - 1], s[i])
    <3>1. i - 1 \in 0..n
      BY <1>4
    <3>2. f[i - 1] \in Lists
      BY <1>5, <3>1
    <3> HIDE DEF Lists
    <3> QED
      BY <3>2
  <2>2. \A i \in 0..n : f[i] = Rule(f, i)
    <3> HIDE DEF add, Lists, n
    <3> QED
      BY <1>4, <1>5, <2>1 DEF Passes
  <2>3. f = [i \in 0..n |-> f[i]]
    OBVIOUS
  <2> HIDE DEF Rule
  <2> QED
    BY <2>2, <2>3
<1>7. merged = [i \in 0..n |-> Rule(merged, i)]
  BY <1>6
<1> HIDE DEF merged
<1> DEFINE Q == {i \in 0..n : Merged(merged[i], s, i)}
<1>8. 0 \in Q
  <2>1. merged[0] = <<>>
    BY <1>4, <1>7
  <2>2. Merged(<<>>, s, 0)
    BY DEF Merged, Ordered, LastNamed, Distinct, Addresses
  <2> QED
    BY <1>4, <2>1, <2>2
<1>9. ASSUME NEW i \in 0..n, i < n, i \in Q
      PROVE  i + 1 \in Q
  <2>1. merged[i + 1] = AddEndpoint(merged[i], s[i + 1])
    <3>1. i + 1 \in 0..n /\ (i + 1) - 1 = i /\ i + 1 # 0
      BY <1>4, <1>9
    <3> QED
      BY <1>7, <3>1
  <2>2. Merged(merged[i + 1], s, i + 1)
    BY <1>1, <1>4, <1>9, <2>1, MergedGrows
  <2> QED
    BY <1>4, <1>9, <2>2
<1>10. Merged(merged[n], s, n)
  <2>1. n \in Q
    <3> HIDE DEF Q
    <3> QED
      BY <1>4, <1>8, <1>9, PrefixInduction
  <2> QED
    BY <2>1
<1>11. {Addr(s[j]) : j \in 1..n} = Addresses(s)
  <2>1. DOMAIN s = 1..n
    BY <1>1
  <2> HIDE DEF n
  <2> QED
    BY <2>1 DEF Addresses
<1>12. merged[n] \in Seq(Endpoint) /\ Distinct(merged[n]) /\ Addresses(merged[n]) = Addresses(s)
  BY <1>10, <1>11 DEF Merged
<1> QED
  BY <1>1, <1>2, <1>3, <1>10, <1>12 DEF s

\* A list of distinct addresses has as many as it is long.
LEMMA DistinctCount ==
  ASSUME NEW eps \in Seq(Endpoint), Distinct(eps)
  PROVE  Cardinality(Addresses(eps)) = Len(eps)
<1> DEFINE f == [i \in 1..Len(eps) |-> Addr(eps[i])]
<1>1. Len(eps) \in Nat /\ DOMAIN eps = 1..Len(eps)
  OBVIOUS
<1>2. f \in Bijection(1..Len(eps), Addresses(eps))
  BY <1>1 DEF Addresses, Distinct, Bijection, Injection, Surjection, IsInjective
<1>3. ExistsBijection(1..Len(eps), Addresses(eps))
  BY <1>2 DEF ExistsBijection
<1>4. IsFiniteSet(1..Len(eps)) /\ Cardinality(1..Len(eps)) = Len(eps)
  BY <1>1, FS_Interval
<1> QED
  BY <1>3, <1>4, FS_Bijection

----------------------------------------------------------------------------
(* The invariant. *)

\* Without a cached endpoint the browse has all of the caller's time, with one it has
\* the scan timeout at most; what is returned is the merge.
Timing ==
  /\ asked \in Nat /\ timeout <= asked
  /\ IF cached = <<>> THEN timeout = asked ELSE timeout <= ScanTimeout

Giving ==
  /\ status = "starting" => now = 0
  /\ status = "failed" => now = timeout \/ interrupted \/ closed \/ now = 0

\* What has passed since adb answered is what the browse has taken.
Clocked ==
  /\ elapsed \in Nat /\ answered \in Nat
  /\ phase # "cache" => elapsed = answered + now

ScanInv ==
  /\ IndInv /\ Timing /\ Giving /\ Clocked
  /\ phase \in {"cache", "live", "done"}
  /\ cached \in Seq(Endpoint)
  /\ phase = "cache" => status = "starting" /\ cached = <<>>
  /\ phase = "done" =>
       status \in {"found", "failed"} /\ result = PreferHost(mergeEndpoints(cached, endpoints), preferred)

\* A browse fails for one of few reasons.
LEMMA GivingStep ==
  ASSUME IndInv, Giving, [Next]_vars
  PROVE  Giving'
<1> USE DEF vars, clock, network, reader
<1>1. now \in Nat /\ timeout \in Nat /\ now <= timeout
  BY DEF IndInv, TypeOK, Settling
<1>2. CASE UNCHANGED vars \/ Returned
  BY <1>2 DEF Giving, Returned
<1>3. CASE Start \/ StartFails
  BY <1>3 DEF Start, StartFails, Giving
<1>4. CASE \/ Tick \/ \E e \in Entry : Announce(e)
           \/ CloseEntries \/ Receive \/ SettleElapsed
  <2>1. status' \notin {"starting", "failed"}
    BY <1>4 DEF Tick, Announce, CloseEntries, Receive, SettleElapsed
  <2> QED
    BY <2>1 DEF Giving
<1>5. CASE Interrupt
  BY <1>5 DEF Interrupt, Giving
<1>6. CASE CtxExpired
  <2>1. now = timeout \/ interrupted
    BY <1>1, <1>6 DEF CtxExpired, CtxDone
  <2> QED
    BY <1>6, <2>1 DEF CtxExpired, ReturnCollected, Giving
<1>7. CASE ChannelClosed
  BY <1>7 DEF ChannelClosed, ReturnCollected, Giving
<1> QED
  BY <1>2, <1>3, <1>4, <1>5, <1>6, <1>7 DEF Next, Select

LEMMA ConnectRowsType ==
  ASSUME NEW rows \in Seq(Row)
  PROVE  connectRows(rows) \in Seq(Endpoint)
<1> DEFINE kept == Keep(rows, {row \in Elements(rows) : row.service = "connect"})
<1>1. kept \in Seq(Row)
  BY KeepSound
<1>2. connectRows(rows) = [i \in DOMAIN kept |-> kept[i].ep]
  BY DEF connectRows
<1> HIDE DEF kept
<1>3. ASSUME NEW i \in DOMAIN kept PROVE kept[i].ep \in Endpoint
  <2>1. kept[i] \in Row
    BY <1>1
  <2> QED
    BY <2>1 DEF Row
<1>4. DOMAIN kept = 1..Len(kept) /\ Len(kept) \in Nat
  BY <1>1
<1> QED
  BY <1>2, <1>3, <1>4

LEMMA CacheReportStep ==
  ASSUME ScanInv, NEW rows \in Reports, CacheReport(rows)
  PROVE  ScanInv'
<1> USE DEF vars, clock, network, reader
<1> DEFINE c == connectRows(rows)
<1>1. c \in Seq(Endpoint)
  BY ConnectRowsType, ScanAssumption
<1> HIDE DEF c
<1>2. /\ status = "starting" /\ now = 0 /\ timeout = asked /\ asked \in Nat
      /\ ScanTimeout \in Nat
  BY ScanAssumption DEF ScanInv, Giving, Timing, CacheReport
<1>3. /\ cached' = c /\ timeout' = liveTimeout(c) /\ phase' = "live"
      /\ answered' = elapsed /\ elapsed' = elapsed
      /\ UNCHANGED <<now, interrupted, chan, closed, announced, heard, endpoints, seen, settleAt,
                     status, asked>>
  BY DEF CacheReport, c
<1>4. timeout' \in Nat /\ Timing'
  <2>1. CASE c = <<>>
    BY <1>2, <1>3, <2>1 DEF liveTimeout, Timing
  <2>2. CASE c # <<>> /\ asked > ScanTimeout
    BY <1>2, <1>3, <2>2 DEF liveTimeout, Timing
  <2>3. CASE c # <<>> /\ ~(asked > ScanTimeout)
    BY <1>2, <1>3, <2>3 DEF liveTimeout, Timing
  <2> QED
    BY <2>1, <2>2, <2>3
<1>5. TypeOK'
  BY <1>3, <1>4 DEF ScanInv, IndInv, TypeOK
<1>6. Usable' = Usable /\ \A k : HeardAddr(k)' = HeardAddr(k)
  BY <1>3 DEF Usable, HeardAddr
<1>7. UniqueAddresses' /\ ReportsAllHeard' /\ InHeardOrder'
  <2>1. UniqueAddresses' /\ ReportsAllHeard'
    BY <1>3, <1>6 DEF ScanInv, IndInv, UniqueAddresses, ReportsAllHeard
  <2>2. InHeardOrder'
    BY <1>3, <1>6 DEF ScanInv, IndInv, InHeardOrder, FirstHeard
  <2> QED
    BY <2>1, <2>2
<1>8. Settling'
  BY <1>2, <1>3, <1>4, <1>6 DEF ScanInv, IndInv, Settling
<1>9. Reason'
  BY <1>2, <1>3 DEF ScanInv, IndInv, Reason
<1>10. Clocked'
  BY <1>2, <1>3 DEF ScanInv, Clocked
<1> QED
  BY <1>1, <1>2, <1>3, <1>4, <1>5, <1>7, <1>8, <1>9, <1>10 DEF ScanInv, IndInv, Giving

LEMMA ClockedStep ==
  ASSUME ScanInv, [ScanNext]_svars
  PROVE  Clocked'
<1> USE DEF scan, browse, times, Clocked
<1>1. now \in Nat /\ (phase = "cache" => now = 0)
  BY DEF ScanInv, IndInv, TypeOK, Giving
<1>2. elapsed \in Nat /\ answered \in Nat /\ (phase # "cache" => elapsed = answered + now)
  BY DEF ScanInv
<1>3. ASSUME UNCHANGED vars PROVE now' = now
  BY <1>3 DEF vars, clock
<1>4. CASE UNCHANGED svars \/ Done
  BY <1>2, <1>3, <1>4 DEF svars, Done
<1>5. CASE (\E rows \in Reports : CacheReport(rows)) \/ CacheFails
  <2>1. now' = now /\ answered' = elapsed /\ elapsed' = elapsed /\ phase = "cache"
    BY <1>3, <1>5 DEF CacheReport, CacheFails
  <2> QED
    BY <1>1, <1>2, <2>1
<1>6. CASE CacheWaits
  BY <1>2, <1>6 DEF CacheWaits
<1>7. CASE CacheInterrupt
  BY <1>2, <1>7 DEF CacheInterrupt
<1>8. CASE Live
  <2>1. [Next]_vars /\ elapsed' = elapsed + (now' - now) /\ UNCHANGED <<phase, answered>>
        /\ phase = "live"
    BY <1>8 DEF Live
  <2>2. now' \in Nat
    BY <2>1, InvNext DEF ScanInv, IndInv, TypeOK
  <2>3. elapsed = answered + now /\ elapsed' = elapsed + (now' - now) /\ answered' = answered
    BY <1>2, <2>1
  <2>4. elapsed' = answered + now' /\ elapsed' \in Nat
    <3>1. \A a, n, m \in Nat : (a + n) + (m - n) = a + m /\ a + m \in Nat
      OBVIOUS
    <3>2. elapsed' = (answered + now) + (now' - now)
      BY <2>3
    <3>3. answered \in Nat /\ now \in Nat /\ now' \in Nat
      BY <1>1, <1>2, <2>2
    <3>4. (answered + now) + (now' - now) = answered + now' /\ answered + now' \in Nat
      BY <3>1, <3>3
    <3> QED
      BY <3>2, <3>4
  <2> QED
    BY <1>2, <2>3, <2>4
<1>9. CASE Finish
  <2>1. now' = now /\ answered' = answered /\ elapsed' = elapsed /\ phase = "live"
    BY <1>3, <1>9 DEF Finish
  <2> QED
    BY <1>2, <2>1
<1> QED
  BY <1>4, <1>5, <1>6, <1>7, <1>8, <1>9 DEF ScanNext

LEMMA ScanStep ==
  ASSUME ScanInv, [ScanNext]_svars
  PROVE  ScanInv'
<1> USE DEF scan, browse
<1>1. ASSUME [Next]_vars
      PROVE  IndInv' /\ Giving'
  BY <1>1, InvNext, GivingStep DEF ScanInv
<1>2. ASSUME UNCHANGED vars
      PROVE  IndInv' /\ Giving' /\ UNCHANGED <<timeout, endpoints, status>>
  BY <1>1, <1>2 DEF vars, clock, network, reader
<1> USE ClockedStep
<1>3. CASE UNCHANGED svars \/ Done
  BY <1>2, <1>3 DEF svars, Done, ScanInv, Timing
<1>4. CASE \E rows \in Reports : CacheReport(rows)
  BY <1>4, CacheReportStep
<1>5. CASE CacheFails
  BY <1>2, <1>5 DEF CacheFails, ScanInv, Timing
<1>10. CASE CacheWaits
  BY <1>2, <1>10 DEF CacheWaits, ScanInv, Timing
<1>6. CASE CacheInterrupt
  <2>1. Interrupt /\ UNCHANGED scan /\ phase = "cache"
    BY <1>6 DEF CacheInterrupt
  <2>2. UNCHANGED <<timeout, status>>
    BY <2>1 DEF Interrupt, vars, clock, network, reader
  <2> QED
    BY <1>1, <2>1, <2>2 DEF Next, ScanInv, Timing
<1>7. CASE Live
  <2>1. Next /\ UNCHANGED scan /\ phase = "live"
    BY <1>7 DEF Live
  <2>2. UNCHANGED timeout
    BY <2>1 DEF Next, Select, Start, StartFails, Tick, Interrupt, Announce, CloseEntries, Returned,
                CtxExpired, SettleElapsed, ChannelClosed, Receive, ReturnCollected,
                vars, clock, network, reader
  <2> QED
    BY <1>1, <2>1, <2>2 DEF ScanInv, Timing
<1>8. CASE Finish
  <2>1. UNCHANGED vars /\ UNCHANGED <<asked, preferred, cached>> /\ phase' = "done"
        /\ status \in {"found", "failed"}
        /\ result' = PreferHost(mergeEndpoints(cached, endpoints), preferred)
    BY <1>8 DEF Finish
  <2>2. mergeEndpoints(cached, endpoints)' = mergeEndpoints(cached', endpoints')
    BY DEF mergeEndpoints, AddEndpoint, Addr
  <2>3. mergeEndpoints(cached, endpoints)' = mergeEndpoints(cached, endpoints)
    BY <1>2, <2>1, <2>2
  <2> QED
    BY <1>2, <2>1, <2>3 DEF ScanInv, Timing
<1> QED
  BY <1>3, <1>4, <1>5, <1>6, <1>7, <1>8, <1>10 DEF ScanNext

LEMMA ScanInduction == ScanSpec => []ScanInv
<1>1. ScanInit => ScanInv
  <2> SUFFICES ASSUME ScanInit PROVE ScanInv
    OBVIOUS
  <2>1. IndInv
    BY InvInit DEF ScanInit
  <2>2. timeout \in Nat /\ asked = timeout /\ phase = "cache" /\ status = "starting" /\ now = 0
        /\ cached = <<>> /\ elapsed = 0 /\ answered = 0
    BY <2>1 DEF IndInv, TypeOK, ScanInit, Init
  <2> QED
    BY <2>1, <2>2 DEF ScanInv, Timing, Giving, Clocked
<1>2. ScanInv /\ [ScanNext]_svars => ScanInv'
  BY ScanStep
<1> QED
  BY <1>1, <1>2, PTL DEF ScanSpec

----------------------------------------------------------------------------
(* The theorems. *)

\* What a finished scan returns.
LEMMA ResultSound ==
  ASSUME ScanInv, Finished
  PROVE  /\ result \in Seq(Endpoint) /\ Distinct(result)
         /\ Addresses(result) = Addresses(cached) \cup Addresses(endpoints)
<1> DEFINE merged == mergeEndpoints(cached, endpoints)
<1>1. cached \in Seq(Endpoint) /\ endpoints \in Seq(Endpoint)
  BY DEF ScanInv, IndInv, TypeOK
<1>2. /\ merged \in Seq(Endpoint) /\ Distinct(merged)
      /\ Addresses(merged) = Addresses(cached) \cup Addresses(endpoints)
  BY <1>1, MergeSound
<1>3. result = PreferHost(merged, preferred)
  BY DEF ScanInv, Finished
<1> HIDE DEF merged
<1>4. result \in Seq(Endpoint) /\ Distinct(result) /\ Elements(result) = Elements(merged)
  BY <1>2, <1>3, PreferHostKeepsAll
<1>5. \A eps \in Seq(Endpoint) : Addresses(eps) = {Addr(ep) : ep \in Elements(eps)}
  BY DEF Addresses, Elements
<1> QED
  BY <1>2, <1>4, <1>5

\* discoverConnectEndpoints returns every address that adb has cached or that its browse
\* heard, and each of them once.
THEOREM ScanReturnsTheUnion == ScanSpec => []MergeIsUnion
<1>1. ScanInv => MergeIsUnion
  BY ResultSound, DistinctCount DEF MergeIsUnion
<1> QED
  BY <1>1, ScanInduction, PTL

\* What adb has cached and what the browse heard, in that order.
sources == cached \o endpoints

\* A place is the first one of its address.
LEMMA PlaceSound ==
  ASSUME sources \in Seq(Endpoint), NEW ep, \E k \in DOMAIN sources : Addr(sources[k]) = Addr(ep)
  PROVE  /\ Place(ep) \in DOMAIN sources
         /\ Addr(sources[Place(ep)]) = Addr(ep)
         /\ \A k \in DOMAIN sources : Addr(sources[k]) = Addr(ep) => Place(ep) <= k
<1> DEFINE s == sources
           At == {k \in DOMAIN s : Addr(s[k]) = Addr(ep)}
           First(i) == Addr(s[i]) = Addr(ep) /\ \A j \in 1..(i - 1) : Addr(s[j]) # Addr(ep)
<1>1. DOMAIN s = 1..Len(s) /\ Len(s) \in Nat
  OBVIOUS
<1>2. PICK m \in At : \A k \in At : m <= k
  <2>1. At # {} /\ At \subseteq Nat
    BY <1>1
  <2> HIDE DEF At
  <2> QED
    BY <2>1, LeastIsSmallest
<1> HIDE DEF s
<1>3. m \in DOMAIN s /\ First(m)
  <2>1. m \in 1..Len(s) /\ Addr(s[m]) = Addr(ep)
    BY <1>1
  <2>2. ASSUME NEW j \in 1..(m - 1) PROVE Addr(s[j]) # Addr(ep)
    <3>1. j \in 1..Len(s) /\ ~(m <= j)
      BY <1>1, <2>1
    <3> QED
      BY <1>1, <1>2, <3>1
  <2> QED
    BY <1>1, <2>1, <2>2
<1>4. Place(ep) = CHOOSE i \in DOMAIN s : First(i)
  BY DEF Place, s, sources
<1>5. Place(ep) \in DOMAIN s /\ First(Place(ep))
  <2> HIDE DEF First
  <2> QED
    BY <1>3, <1>4
<1>6. ASSUME NEW k \in DOMAIN s, Addr(s[k]) = Addr(ep) PROVE Place(ep) <= k
  <2>1. k \notin 1..(Place(ep) - 1)
    BY <1>5, <1>6
  <2> QED
    BY <1>1, <1>5, <2>1
<1> QED
  BY <1>5, <1>6 DEF s

\* Of a finished scan, in terms of the sources.
LEMMA ResultMerged ==
  ASSUME ScanInv, Finished
  PROVE  \E merged \in Seq(Endpoint) :
           /\ result = PreferHost(merged, preferred)
           /\ Elements(result) = Elements(merged)
           /\ sources \in Seq(Endpoint)
           /\ Merged(merged, sources, Len(sources))
<1> DEFINE merged == mergeEndpoints(cached, endpoints)
<1>1. cached \in Seq(Endpoint) /\ endpoints \in Seq(Endpoint)
  BY DEF ScanInv, IndInv, TypeOK
<1>2. merged \in Seq(Endpoint) /\ sources \in Seq(Endpoint) /\ Merged(merged, sources, Len(sources))
  BY <1>1, MergeSound DEF sources
<1>3. result = PreferHost(merged, preferred)
  BY DEF ScanInv, Finished
<1> HIDE DEF merged
<1>4. Elements(result) = Elements(merged)
  BY <1>2, <1>3, PreferHostKeepsAll
<1> QED
  BY <1>2, <1>3, <1>4

\* mergeEndpoints lets a later name of an address override an earlier one, and no name
\* override one.
THEOREM NewestNameWins == ScanSpec => []NewestName
<1>1. ASSUME ScanInv, Finished, NEW i \in DOMAIN result
      PROVE  NewestNamed(result[i])
  <2>1. PICK merged \in Seq(Endpoint) :
          /\ Elements(result) = Elements(merged)
          /\ sources \in Seq(Endpoint)
          /\ Merged(merged, sources, Len(sources))
    BY <1>1, ResultMerged
  <2>2. PICK j \in DOMAIN merged : result[i] = merged[j]
    BY <1>1, <2>1 DEF Elements
  <2> DEFINE ep == result[i]
             named == Naming(sources, Len(sources), ep)
             Last(k) == \A m \in named : m <= k
  <2>3. IF named = {} THEN ep.inst = Unnamed
        ELSE \E k \in named : ep.inst = sources[k].inst /\ Last(k)
    BY <2>1, <2>2 DEF Merged, LastNamed
  <2>4. named = {k \in DOMAIN sources : Addr(sources[k]) = Addr(ep) /\ sources[k].inst # Unnamed}
        /\ named \subseteq Nat
    BY <2>1 DEF Naming
  <2>5. NewestNamed(ep) <=>
          IF named = {} THEN ep.inst = Unnamed
          ELSE ep.inst = sources[CHOOSE k \in named : Last(k)].inst
    BY <2>4 DEF NewestNamed, sources
  <2> HIDE DEF ep, named
  <2>6. ASSUME NEW k \in named, Last(k) PROVE k = CHOOSE m \in named : Last(m)
    <3> DEFINE top == CHOOSE m \in named : Last(m)
    <3>1. top \in named /\ Last(top)
      <4> HIDE DEF Last
      <4> QED
        BY <2>6
    <3>2. top <= k /\ k <= top
      BY <2>6, <3>1
    <3> HIDE DEF top, Last
    <3>3. top = k
      BY <2>4, <2>6, <3>1, <3>2
    <3> QED
      BY <3>3 DEF top
  <2> HIDE DEF Last
  <2>7. NewestNamed(ep)
    BY <2>3, <2>5, <2>6
  <2> QED
    BY <2>7 DEF ep
<1>2. ScanInv => NewestName
  BY <1>1 DEF NewestName
<1> QED
  BY <1>2, ScanInduction, PTL

\* The sort of discoverConnectEndpoints moves the preferred host to the front and is
\* stable: within a group the first address reported is the first to be tried.
THEOREM PreferredIsFirst == ScanSpec => []PreferredFirst
<1>1. ASSUME ScanInv, Finished, NEW i \in DOMAIN result, NEW j \in DOMAIN result, i < j
      PROVE  /\ result[j].host = preferred => result[i].host = preferred
             /\ (result[i].host = preferred <=> result[j].host = preferred) =>
                  Place(result[i]) < Place(result[j])
  <2>1. PICK merged \in Seq(Endpoint) :
          /\ result = PreferHost(merged, preferred)
          /\ sources \in Seq(Endpoint)
          /\ Merged(merged, sources, Len(sources))
    BY <1>1, ResultMerged
  <2>2. /\ result[j].host = preferred => result[i].host = preferred
        /\ (result[i].host = preferred <=> result[j].host = preferred) =>
             \E a, b \in DOMAIN merged : a < b /\ result[i] = merged[a] /\ result[j] = merged[b]
    BY <1>1, <2>1, PreferHostOrder
  <2>3. ASSUME NEW a \in DOMAIN merged, NEW b \in DOMAIN merged, a < b
        PROVE  Place(merged[a]) < Place(merged[b])
    <3> DEFINE s == sources
    <3>1. DOMAIN s = 1..Len(s) /\ Len(s) \in Nat
      BY <2>1
    <3>2. \A k \in DOMAIN merged : Addr(merged[k]) \in {Addr(s[m]) : m \in 1..Len(s)}
      BY <2>1 DEF Merged, Addresses
    <3> HIDE DEF s
    <3>3. \A k \in DOMAIN merged : \E m \in DOMAIN s : Addr(s[m]) = Addr(merged[k])
      BY <3>1, <3>2
    <3>4. /\ Place(merged[a]) \in DOMAIN s /\ Place(merged[b]) \in DOMAIN s
          /\ Addr(s[Place(merged[b])]) = Addr(merged[b])
          /\ \A k \in DOMAIN s : Addr(s[k]) = Addr(merged[a]) => Place(merged[a]) <= k
      BY <2>1, <3>3, PlaceSound DEF s
    <3>5. \A q \in 1..Len(s) : Addr(s[q]) = Addr(merged[b]) =>
            \E p \in 1..Len(s) : p < q /\ Addr(s[p]) = Addr(merged[a])
      BY <2>1, <2>3 DEF Merged, Ordered, s
    <3>6. PICK p \in 1..Len(s) : p < Place(merged[b]) /\ Addr(s[p]) = Addr(merged[a])
      BY <3>1, <3>4, <3>5
    <3>7. Place(merged[a]) <= p
      BY <3>1, <3>4, <3>6
    <3> QED
      BY <3>1, <3>4, <3>6, <3>7
  <2> QED
    BY <2>2, <2>3
<1>2. ScanInv => PreferredFirst
  BY <1>1 DEF PreferredFirst
<1> QED
  BY <1>2, ScanInduction, PTL

\* The error of an empty scan is true: neither source had anything, and the time the
\* caller gave is used up unless something else ended the browse.
THEOREM EmptyIsEarned == ScanSpec => []EmptyOnlyAfterTimeout
<1>1. ASSUME ScanInv, Finished, result = <<>>
      PROVE  /\ cached = <<>> /\ Usable = {}
             /\ \/ elapsed - answered = asked
                \/ interrupted \/ closed \/ elapsed = answered
  <2>1. Addresses(result) = {}
    BY <1>1 DEF Addresses
  <2>2. Addresses(cached) = {} /\ Addresses(endpoints) = {}
    BY <1>1, <2>1, ResultSound
  <2>3. cached \in Seq(Endpoint) /\ endpoints \in Seq(Endpoint)
    BY <1>1 DEF ScanInv, IndInv, TypeOK
  <2>4. ASSUME NEW eps \in Seq(Endpoint), Addresses(eps) = {} PROVE eps = <<>>
    <3>1. DOMAIN eps = {}
      BY <2>4 DEF Addresses
    <3>2. DOMAIN eps = 1..Len(eps) /\ Len(eps) \in Nat
      OBVIOUS
    <3>3. Len(eps) = 0
      BY <3>1, <3>2
    <3> QED
      BY <3>3
  <2>5. cached = <<>> /\ endpoints = <<>>
    BY <2>2, <2>3, <2>4
  <2>6. Usable = {}
    BY <1>1, <2>5, EmptyTogether DEF ScanInv, IndInv
  <2>7. status = "failed" /\ timeout = asked
    BY <1>1, <2>5 DEF ScanInv, Finished, IndInv, Reason, Timing
  <2>8. now = asked \/ interrupted \/ closed \/ now = 0
    BY <1>1, <2>7 DEF ScanInv, Giving
  <2>9. /\ elapsed = answered + now /\ answered \in Nat /\ now \in Nat
    BY <1>1 DEF ScanInv, Clocked, Finished, IndInv, TypeOK
  <2> QED
    BY <2>5, <2>6, <2>8, <2>9
<1>2. ScanInv => EmptyOnlyAfterTimeout
  BY <1>1 DEF EmptyOnlyAfterTimeout
<1> QED
  BY <1>2, ScanInduction, PTL

\* From adb's answer on no scan takes longer than its caller allows, nor longer than
\* defaultScanTimeout when adb has something to fall back on.
THEOREM LiveBrowseIsBounded == ScanSpec => []LiveBound
<1>1. ScanInv => LiveBound
  <2> SUFFICES ASSUME ScanInv, phase # "cache"
               PROVE  /\ elapsed - answered <= asked
                      /\ cached # <<>> => elapsed - answered <= ScanTimeout
    BY DEF LiveBound
  <2>1. now \in Nat /\ timeout \in Nat /\ asked \in Nat /\ ScanTimeout \in Nat /\ now <= timeout
    BY ScanAssumption DEF ScanInv, IndInv, TypeOK, Settling, Timing
  <2>2. answered \in Nat /\ elapsed = answered + now
    BY DEF ScanInv, Clocked
  <2>3. elapsed - answered = now
    BY <2>1, <2>2
  <2>4. timeout <= asked /\ (cached # <<>> => timeout <= ScanTimeout)
    BY DEF ScanInv, Timing
  <2> QED
    BY <2>1, <2>3, <2>4
<1> QED
  BY <1>1, ScanInduction, PTL

====================================================================================
