--------------------------- MODULE Endpoints_proofs ---------------------------
(***************************************************************************)
(* Facts about the address wadb picks out of a service entry.              *)
(***************************************************************************)
EXTENDS Endpoints, WellFoundedInduction, SequenceTheorems, TLAPS

\* A non-empty set of naturals has a smallest element, and Least is it.
LEMMA LeastIsSmallest ==
  ASSUME NEW S, S \subseteq Nat, S # {}
  PROVE  Least(S) \in S /\ \A i \in S : Least(S) <= i
<1> DEFINE less == {p \in Nat \X Nat : p[1] < p[2]}
<1>1. IsWellFoundedOn(less, Nat)
  BY NatLessThanWellFounded DEF OpToRel
<1>2. \E x \in S : \A y \in S : ~(<<y, x>> \in less)
  <2> HIDE DEF less
  <2> QED
    BY <1>1, WFMin
<1>3. ASSUME NEW x \in S, NEW y \in S, ~(<<y, x>> \in less)
      PROVE  x <= y
  <2>1. x \in Nat /\ y \in Nat /\ <<y, x>> \in Nat \X Nat
    OBVIOUS
  <2>2. ~(<<y, x>>[1] < <<y, x>>[2])
    BY <1>3, <2>1
  <2> QED
    BY <2>1, <2>2
<1>4. \E x \in S : \A y \in S : x <= y
  <2> HIDE DEF less
  <2> QED
    BY <1>2, <1>3
<1> QED
  BY <1>4 DEF Least

\* pickAddr returns a host of Host, or NoHost when no address is usable.
LEMMA PickAddrType ==
  ASSUME NEW e \in ServiceEntry
  PROVE  pickAddr(e) \in Host \cup {NoHost}
<1>1. /\ Usable4(e) \subseteq Nat
      /\ Usable6(e) \subseteq Nat
  BY DEF Usable4, Usable6, ServiceEntry
<1>2. CASE Usable4(e) # {}
  <2>1. Least(Usable4(e)) \in Usable4(e)
    BY <1>1, <1>2, LeastIsSmallest
  <2>2. e.v4[Least(Usable4(e))] \in IP
    BY <2>1 DEF Usable4, ServiceEntry
  <2> QED
    BY <1>2, <2>2 DEF pickAddr, Host
<1>3. CASE Usable4(e) = {} /\ Usable6(e) # {}
  <2>1. Least(Usable6(e)) \in Usable6(e)
    BY <1>1, <1>3, LeastIsSmallest
  <2>2. e.v6[Least(Usable6(e))] \in IP
    BY <2>1 DEF Usable6, ServiceEntry
  <2> QED
    BY <1>3, <2>2 DEF pickAddr, Host
<1>4. CASE Usable4(e) = {} /\ Usable6(e) = {}
  BY <1>4 DEF pickAddr
<1> QED
  BY <1>2, <1>3, <1>4

\* An entry that is reachable yields an endpoint.
LEMMA EndpointType ==
  ASSUME NEW e \in ServiceEntry, Reachable(e)
  PROVE  EndpointOf(e) \in Endpoint
BY PickAddrType DEF Reachable, EndpointOf, Endpoint, ServiceEntry

\* The host an entry is dialled under is its first IPv4 address that is not blank,
\* without a zone, or if it has none, the first of its IPv6 addresses that can be
\* dialled, with the zone of --iface exactly when the address is link-local.
THEOREM PickAddrSound ==
  ASSUME NEW e \in ServiceEntry, Reachable(e)
  PROVE  \/ \E i \in Usable4(e) :
              /\ pickAddr(e) = [ip |-> e.v4[i], zone |-> NoIface]
              /\ \A j \in 1..(i - 1) : e.v4[j] = Blank
         \/ /\ Usable4(e) = {}
            /\ \E i \in Usable6(e) :
                 /\ pickAddr(e).ip = e.v6[i]
                 /\ IF e.v6[i] \in LinkLocal
                    THEN Iface # NoIface /\ pickAddr(e).zone = Iface
                    ELSE pickAddr(e).zone = NoIface
                 /\ \A j \in 1..(i - 1) :
                      e.v6[j] = Blank \/ (e.v6[j] \in LinkLocal /\ Iface = NoIface)
<1>1. /\ Usable4(e) \subseteq Nat
      /\ Usable6(e) \subseteq Nat
      /\ DOMAIN e.v4 = 1..Len(e.v4) /\ DOMAIN e.v6 = 1..Len(e.v6)
      /\ Len(e.v4) \in Nat /\ Len(e.v6) \in Nat
  BY DEF Usable4, Usable6, ServiceEntry
<1>2. CASE Usable4(e) # {}
  <2> DEFINE m == Least(Usable4(e))
  <2>1. m \in Usable4(e) /\ \A i \in Usable4(e) : m <= i
    BY <1>1, <1>2, LeastIsSmallest
  <2>2. m \in DOMAIN e.v4 /\ m \in Nat
    BY <1>1, <2>1 DEF Usable4
  <2>3. ASSUME NEW j \in 1..(m - 1), e.v4[j] # Blank PROVE FALSE
    <3>1. j \in DOMAIN e.v4
      BY <1>1, <2>2
    <3>2. j \in Usable4(e)
      BY <2>3, <3>1 DEF Usable4
    <3> QED
      BY <2>1, <2>2, <3>2
  <2>4. pickAddr(e) = [ip |-> e.v4[m], zone |-> NoIface]
    BY <1>2 DEF pickAddr
  <2> HIDE DEF m
  <2> QED
    BY <2>1, <2>2, <2>3, <2>4
<1>3. CASE Usable4(e) = {}
  <2> DEFINE n == Least(Usable6(e))
  <2>1. Usable6(e) # {}
    BY <1>3 DEF Reachable, pickAddr
  <2>2. n \in Usable6(e) /\ \A i \in Usable6(e) : n <= i
    BY <1>1, <2>1, LeastIsSmallest
  <2>3. n \in DOMAIN e.v6 /\ n \in Nat /\ (e.v6[n] \in LinkLocal => Iface # NoIface)
    BY <1>1, <2>2 DEF Usable6
  <2>4. pickAddr(e) = [ip |-> e.v6[n], zone |-> IF e.v6[n] \in LinkLocal THEN Iface ELSE NoIface]
    BY <1>3, <2>1 DEF pickAddr
  <2>5. ASSUME NEW j \in 1..(n - 1)
        PROVE  e.v6[j] = Blank \/ (e.v6[j] \in LinkLocal /\ Iface = NoIface)
    <3>1. j \in DOMAIN e.v6 /\ ~(n <= j)
      BY <1>1, <2>3
    <3>2. j \notin Usable6(e)
      BY <2>2, <3>1
    <3> QED
      BY <3>1, <3>2 DEF Usable6
  <2> HIDE DEF n
  <2>6. /\ pickAddr(e).ip = e.v6[n]
        /\ IF e.v6[n] \in LinkLocal
           THEN Iface # NoIface /\ pickAddr(e).zone = Iface
           ELSE pickAddr(e).zone = NoIface
    BY <2>3, <2>4
  <2> QED
    BY <1>3, <2>2, <2>5, <2>6
<1> QED
  BY <1>2, <1>3

----------------------------------------------------------------------------
\* Induction over the naturals, for what can be written as a set.
LEMMA SetInduction ==
  ASSUME NEW P, 0 \in P, \A n \in Nat : n \in P => n + 1 \in P
  PROVE  Nat \subseteq P
<1> DEFINE Missed == {n \in Nat : n \notin P}
<1> SUFFICES ASSUME Missed # {} PROVE FALSE
  OBVIOUS
<1>1. PICK m \in Missed : \A n \in Missed : m <= n
  <2>1. Missed \subseteq Nat
    OBVIOUS
  <2> HIDE DEF Missed
  <2> QED
    BY <2>1, LeastIsSmallest
<1>2. m # 0 /\ m \in Nat /\ m \notin P
  OBVIOUS
<1>3. m - 1 \in Nat /\ m - 1 \notin Missed
  BY <1>1, <1>2
<1>4. m - 1 \in P
  BY <1>3
<1>5. (m - 1) + 1 \in P
  BY <1>3, <1>4
<1> QED
  BY <1>2, <1>5

\* The same, as far as n.
LEMMA PrefixInduction ==
  ASSUME NEW n \in Nat, NEW P, 0 \in P, \A i \in 0..n : i < n /\ i \in P => i + 1 \in P
  PROVE  n \in P
<1> DEFINE Q == {i \in Nat : i <= n => i \in P}
<1>1. 0 \in Q
  OBVIOUS
<1>2. \A i \in Nat : i \in Q => i + 1 \in Q
  OBVIOUS
<1>3. Nat \subseteq Q
  <2> HIDE DEF Q
  <2> QED
    BY <1>1, <1>2, SetInduction
<1> QED
  BY <1>3

\* The steps of a loop over 1..n that goes from one element of S to another, and the
\* elements it goes through from e on.
Steps(n, S) == [1..n -> [S -> S]]

Passes(f, n, e, next) == f[0] = e /\ \A i \in 1..n : f[i] = next[i][f[i - 1]]

\* What a recursive definition of this form defines exists.
LEMMA LoopExists ==
  ASSUME NEW n \in Nat, NEW S, NEW e \in S, NEW next \in Steps(n, S)
  PROVE  \E f \in [0..n -> S] : Passes(f, n, e, next)
<1> USE DEF Steps
<1> DEFINE Runs(f, m) == Passes(f, m, e, next)
           P == {m \in 0..n : \E f \in [0..m -> S] : Runs(f, m)}
<1>1. 0 \in P
  <2>1. [i \in 0..0 |-> e] \in [0..0 -> S] /\ Runs([i \in 0..0 |-> e], 0)
    BY DEF Passes
  <2> HIDE DEF Runs
  <2>2. 0 \in 0..n
    OBVIOUS
  <2> QED
    BY <2>1, <2>2
<1>2. ASSUME NEW m \in 0..n, m < n, m \in P
      PROVE  m + 1 \in P
  <2>1. PICK f \in [0..m -> S] : Runs(f, m)
    BY <1>2
  <2> DEFINE last == next[m + 1][f[m]]
             g    == [i \in 0..(m + 1) |-> IF i = m + 1 THEN last ELSE f[i]]
  <2>2. last \in S
    <3>1. m + 1 \in 1..n /\ f[m] \in S
      BY <1>2
    <3>2. next[m + 1] \in [S -> S]
      BY <3>1
    <3> QED
      BY <3>1, <3>2
  <2>3. g \in [0..(m + 1) -> S] /\ g[m + 1] = last /\ \A i \in 0..m : g[i] = f[i]
    BY <2>2
  <2> HIDE DEF g
  <2>4. ASSUME NEW i \in 1..(m + 1)
        PROVE  g[i] = next[i][g[i - 1]]
    <3>1. CASE i = m + 1
      <4>1. i - 1 = m /\ g[i - 1] = f[m]
        BY <2>3, <3>1
      <4> QED
        BY <2>3, <3>1, <4>1
    <3>2. CASE i # m + 1
      <4>1. i \in 1..m /\ i - 1 \in 0..m
        BY <3>2
      <4> QED
        BY <2>1, <2>3, <4>1 DEF Passes
    <3> QED
      BY <3>1, <3>2
  <2>5. Runs(g, m + 1)
    BY <2>1, <2>3, <2>4 DEF Passes
  <2> HIDE DEF Runs
  <2> QED
    BY <1>2, <2>3, <2>5
<1>3. n \in P
  <2> HIDE DEF P
  <2> QED
    BY <1>1, <1>2, PrefixInduction
<1> QED
  BY <1>3

\* Keep returns the elements of s that are in S and no others, no more of them than s
\* has, and any two of them in the order they have in s.
LEMMA KeepSound ==
  ASSUME NEW T, NEW s \in Seq(T), NEW S
  PROVE  /\ Keep(s, S) \in Seq(T)
         /\ Len(Keep(s, S)) <= Len(s)
         /\ Elements(Keep(s, S)) = Elements(s) \cap S
        /\ \A j, k \in 1..Len(Keep(s, S)) : j < k =>
             \E a, b \in 1..Len(s) : a < b /\ Keep(s, S)[j] = s[a] /\ Keep(s, S)[k] = s[b]
<1> DEFINE Rule(f, i) ==
             IF i = 0 THEN <<>>
             ELSE IF s[i] \in S THEN Append(f[i - 1], s[i]) ELSE f[i - 1]
           Upto(n) == {s[j] : j \in 1..n}
           Pair(t, n, j, k) == \E a, b \in 1..n : a < b /\ t[j] = s[a] /\ t[k] = s[b]
           Sorted(t, n) == \A j, k \in 1..Len(t) : j < k => Pair(t, n, j, k)
           Right(t, n) ==
             t \in Seq(T) /\ Len(t) <= n /\ Elements(t) = Upto(n) \cap S /\ Sorted(t, n)
           Kept(f, n) == \A i \in 0..n : f[i] = Rule(f, i) /\ Right(f[i], i)
           Exists(n) == \E f : f = [i \in 0..n |-> f[i]] /\ Kept(f, n)
           P == {n \in Nat : n <= Len(s) => Exists(n)}
<1>1. Right(<<>>, 0)
  BY DEF Elements
<1>2. ASSUME NEW n \in Nat, n + 1 <= Len(s), NEW t, Right(t, n)
      PROVE  Right(IF s[n + 1] \in S THEN Append(t, s[n + 1]) ELSE t, n + 1)
  <2>1. s[n + 1] \in T /\ Upto(n + 1) = Upto(n) \cup {s[n + 1]}
    BY <1>2
  <2>2. CASE s[n + 1] \in S
    <3> DEFINE u == Append(t, s[n + 1])
    <3>1. /\ t \in Seq(T) /\ Len(t) \in Nat /\ Len(t) <= n
          /\ Elements(t) = Upto(n) \cap S /\ Sorted(t, n)
      BY <1>2
    <3>2. /\ u \in Seq(T)
          /\ Len(u) = Len(t) + 1
          /\ DOMAIN u = 1..(Len(t) + 1) /\ DOMAIN t = 1..Len(t)
          /\ \A j \in 1..Len(t) : u[j] = t[j]
          /\ u[Len(t) + 1] = s[n + 1]
      BY <2>1, <3>1, AppendProperties
    <3> HIDE DEF u
    <3>3. Elements(u) = Elements(t) \cup {s[n + 1]}
      <4>1. 1..(Len(t) + 1) = 1..Len(t) \cup {Len(t) + 1}
        BY <3>1
      <4> QED
        BY <3>2, <4>1 DEF Elements
    <3>4. ASSUME NEW j \in 1..Len(u), NEW k \in 1..Len(u), j < k
          PROVE  Pair(u, n + 1, j, k)
      <4> HIDE DEF Sorted
      <4>0. Len(u) = Len(t) + 1 /\ Len(t) \in Nat
        BY <3>1, <3>2
      <4>1. CASE k <= Len(t)
        <5>1. j \in 1..Len(t) /\ k \in 1..Len(t)
          BY <3>4, <4>0, <4>1
        <5>2. PICK a \in 1..n, b \in 1..n : a < b /\ t[j] = s[a] /\ t[k] = s[b]
          BY <3>1, <3>4, <5>1 DEF Sorted
        <5>3. a \in 1..(n + 1) /\ b \in 1..(n + 1) /\ u[j] = s[a] /\ u[k] = s[b]
          BY <3>2, <5>1, <5>2
        <5> QED
          BY <5>2, <5>3
      <4>2. CASE k > Len(t)
        <5>1. j \in 1..Len(t) /\ k = Len(t) + 1
          BY <3>4, <4>0, <4>2
        <5>2. t[j] \in Elements(t)
          BY <3>2, <5>1 DEF Elements
        <5>3. PICK a \in 1..n : t[j] = s[a]
          BY <3>1, <5>2
        <5>4. /\ a \in 1..(n + 1) /\ n + 1 \in 1..(n + 1) /\ a < n + 1
              /\ u[j] = s[a] /\ u[k] = s[n + 1]
          BY <3>2, <5>1, <5>3
        <5> QED
          BY <5>4
      <4> QED
        BY <4>0, <4>1, <4>2
    <3> HIDE DEF Pair
    <3>5. Right(u, n + 1)
      BY <2>1, <2>2, <3>1, <3>2, <3>3, <3>4
    <3> QED
      BY <2>2, <3>5 DEF u
  <2>3. CASE s[n + 1] \notin S
    BY <1>2, <2>1, <2>3
  <2> QED
    BY <2>2, <2>3
<1>3. 0 \in P
  <2> DEFINE e == [i \in 0..0 |-> <<>>]
  <2>1. e = [i \in 0..0 |-> e[i]] /\ e[0] = <<>>
    OBVIOUS
  <2>2. Kept(e, 0)
    BY <1>1, <2>1
  <2> HIDE DEF e, Kept
  <2>3. Exists(0)
    BY <2>1, <2>2
  <2> HIDE DEF Exists
  <2> QED
    BY <2>3
<1>4. ASSUME NEW n \in Nat, n \in P
      PROVE  n + 1 \in P
  <2> SUFFICES ASSUME n + 1 <= Len(s)
               PROVE  Exists(n + 1)
    <3> HIDE DEF Exists
    <3> QED
      OBVIOUS
  <2>1. PICK f : f = [i \in 0..n |-> f[i]] /\ Kept(f, n)
    <3> HIDE DEF Exists
    <3>1. Exists(n)
      BY <1>4
    <3> QED
      BY <3>1 DEF Exists
  <2> DEFINE last == IF s[n + 1] \in S THEN Append(f[n], s[n + 1]) ELSE f[n]
             e    == [i \in 0..(n + 1) |-> IF i = n + 1 THEN last ELSE f[i]]
  <2>2. Right(last, n + 1)
    <3>1. Right(f[n], n)
      BY <2>1
    <3> HIDE DEF Right
    <3> QED
      BY <1>2, <3>1
  <2> HIDE DEF last, Right
  <2>3. e = [i \in 0..(n + 1) |-> e[i]]
    OBVIOUS
  <2>4. \A i \in 0..n : e[i] = f[i]
    OBVIOUS
  <2>5. e[n + 1] = last
    OBVIOUS
  <2> HIDE DEF e
  <2>6. ASSUME NEW i \in 0..n PROVE e[i] = Rule(e, i) /\ Right(e[i], i)
    <3>1. e[i] = f[i] /\ f[i] = Rule(f, i) /\ Right(f[i], i)
      BY <2>1, <2>4
    <3>2. i # 0 => e[i - 1] = f[i - 1]
      BY <2>4
    <3> QED
      BY <3>1, <3>2
  <2>7. e[n + 1] = Rule(e, n + 1)
    <3>1. (n + 1) - 1 = n /\ n + 1 # 0 /\ e[n] = f[n]
      BY <2>4
    <3> QED
      BY <2>5, <3>1 DEF last
  <2>8. Kept(e, n + 1)
    <3> SUFFICES ASSUME NEW i \in 0..(n + 1)
                 PROVE  e[i] = Rule(e, i) /\ Right(e[i], i)
      OBVIOUS
    <3>1. i \in 0..n \/ i = n + 1
      OBVIOUS
    <3> HIDE DEF Rule
    <3> QED
      BY <2>2, <2>5, <2>6, <2>7, <3>1
  <2> QED
    BY <2>3, <2>8
<1>5. Nat \subseteq P
  <2> HIDE DEF P
  <2> QED
    BY <1>3, <1>4, SetInduction
<1>6. Exists(Len(s))
  <2> HIDE DEF Exists
  <2> QED
    BY <1>5
<1>7. PICK f : f = [i \in 0..Len(s) |-> f[i]] /\ Kept(f, Len(s))
  BY <1>6
<1>8. f = [i \in 0..Len(s) |-> Rule(f, i)]
  BY <1>7
<1> DEFINE kept == CHOOSE g : g = [i \in 0..Len(s) |-> Rule(g, i)]
<1>9. kept = [i \in 0..Len(s) |-> Rule(kept, i)]
  BY <1>8
<1>10. Keep(s, S) = kept[Len(s)]
  BY DEF Keep
<1> HIDE DEF kept
<1> DEFINE Q == {n \in Nat : n <= Len(s) => Right(kept[n], n)}
<1>11. 0 \in Q
  BY <1>1, <1>9
<1>12. ASSUME NEW n \in Nat, n \in Q PROVE n + 1 \in Q
  <2> SUFFICES ASSUME n + 1 <= Len(s) PROVE Right(kept[n + 1], n + 1)
    <3> HIDE DEF Right
    <3> QED
      OBVIOUS
  <2>1. Right(kept[n], n)
    <3> HIDE DEF Right
    <3> QED
      BY <1>12
  <2>2. kept[n + 1] = Rule(kept, n + 1)
    <3>1. n + 1 \in 0..Len(s)
      OBVIOUS
    <3> HIDE DEF Rule
    <3> QED
      BY <1>9, <3>1
  <2>3. (n + 1) - 1 = n /\ n + 1 # 0
    OBVIOUS
  <2>4. kept[n + 1] = IF s[n + 1] \in S THEN Append(kept[n], s[n + 1]) ELSE kept[n]
    BY <2>2, <2>3
  <2> HIDE DEF Right
  <2> QED
    BY <1>2, <2>1, <2>4
<1>13. Len(s) \in Q
  <2> HIDE DEF Q
  <2> QED
    BY <1>11, <1>12, SetInduction
<1>14. Right(kept[Len(s)], Len(s))
  <2> HIDE DEF Right
  <2> QED
    BY <1>13
<1>15. Upto(Len(s)) = Elements(s)
  BY DEF Elements
<1> QED
  BY <1>10, <1>14, <1>15

----------------------------------------------------------------------------
(* Lists of endpoints. *)

\* No address is there twice.
Distinct(eps) == \A i, j \in DOMAIN eps : Addr(eps[i]) = Addr(eps[j]) => i = j

LEMMA KeepDistinct ==
  ASSUME NEW eps \in Seq(Endpoint), Distinct(eps), NEW S
  PROVE  Distinct(Keep(eps, S))
<1> DEFINE kept == Keep(eps, S)
<1>1. /\ kept \in Seq(Endpoint)
      /\ \A j, k \in 1..Len(kept) : j < k =>
           \E a, b \in 1..Len(eps) : a < b /\ kept[j] = eps[a] /\ kept[k] = eps[b]
  BY KeepSound
<1> HIDE DEF kept
<1>2. ASSUME NEW j \in 1..Len(kept), NEW k \in 1..Len(kept), j < k
      PROVE  Addr(kept[j]) # Addr(kept[k])
  <2>1. PICK a \in 1..Len(eps), b \in 1..Len(eps) : a < b /\ kept[j] = eps[a] /\ kept[k] = eps[b]
    BY <1>1, <1>2
  <2>2. Addr(eps[a]) # Addr(eps[b])
    BY <2>1 DEF Distinct
  <2> QED
    BY <2>1, <2>2
<1>3. ASSUME NEW j \in DOMAIN kept, NEW k \in DOMAIN kept, Addr(kept[j]) = Addr(kept[k])
      PROVE  j = k
  <2>1. j \in 1..Len(kept) /\ k \in 1..Len(kept) /\ j \in Int /\ k \in Int
    BY <1>1
  <2>2. ~(j < k) /\ ~(k < j)
    BY <1>2, <1>3, <2>1
  <2> QED
    BY <2>1, <2>2
<1> QED
  BY <1>3 DEF Distinct, kept

\* Where the elements of s \o t come from.
LEMMA ConcatParts ==
  ASSUME NEW T, NEW s \in Seq(T), NEW t \in Seq(T)
  PROVE  /\ s \o t \in Seq(T)
         /\ Len(s) \in Nat /\ DOMAIN s = 1..Len(s) /\ DOMAIN t = 1..Len(t)
         /\ DOMAIN (s \o t) = 1..(Len(s) + Len(t))
         /\ \A i \in DOMAIN s : i \in DOMAIN (s \o t) /\ (s \o t)[i] = s[i]
         /\ \A i \in DOMAIN t : Len(s) + i \in DOMAIN (s \o t) /\ (s \o t)[Len(s) + i] = t[i]
         /\ \A i \in DOMAIN (s \o t) : i \in DOMAIN s \/ i - Len(s) \in DOMAIN t
<1>1. /\ s \o t \in Seq(T)
      /\ Len(s \o t) = Len(s) + Len(t)
      /\ \A i \in 1..Len(s) : (s \o t)[i] = s[i]
      /\ \A i \in 1..Len(t) : (s \o t)[Len(s) + i] = t[i]
  OBVIOUS
<1>2. Len(s) \in Nat /\ Len(t) \in Nat
  OBVIOUS
<1>3. DOMAIN s = 1..Len(s) /\ DOMAIN t = 1..Len(t) /\ DOMAIN (s \o t) = 1..(Len(s) + Len(t))
  BY <1>1
<1> DEFINE both == s \o t
<1> HIDE DEF both
<1>4. /\ \A i \in DOMAIN s : i \in DOMAIN both
      /\ \A i \in DOMAIN t : Len(s) + i \in DOMAIN both
      /\ \A i \in DOMAIN both : i \in DOMAIN s \/ i - Len(s) \in DOMAIN t
  BY <1>2, <1>3 DEF both
<1> QED
  BY <1>1, <1>2, <1>3, <1>4 DEF both

LEMMA ConcatElements ==
  ASSUME NEW T, NEW s \in Seq(T), NEW t \in Seq(T)
  PROVE  /\ s \o t \in Seq(T)
         /\ Elements(s \o t) = Elements(s) \cup Elements(t)
<1> DEFINE both == s \o t
<1>1. /\ both \in Seq(T) /\ Len(s) \in Nat /\ DOMAIN both \subseteq Nat
      /\ \A i \in DOMAIN s : i \in DOMAIN both /\ both[i] = s[i]
      /\ \A i \in DOMAIN t : Len(s) + i \in DOMAIN both /\ both[Len(s) + i] = t[i]
      /\ \A i \in DOMAIN both : i \in DOMAIN s \/ i - Len(s) \in DOMAIN t
  BY ConcatParts
<1> HIDE DEF both
<1>2. ASSUME NEW i \in DOMAIN both PROVE both[i] \in Elements(s) \cup Elements(t)
  <2>1. CASE i \in DOMAIN s
    BY <1>1, <2>1 DEF Elements
  <2>2. CASE i - Len(s) \in DOMAIN t
    <3>1. Len(s) + (i - Len(s)) = i
      BY <1>1
    <3>2. both[i] = t[i - Len(s)]
      BY <1>1, <2>2, <3>1
    <3> QED
      BY <2>2, <3>2 DEF Elements
  <2> QED
    BY <1>1, <2>1, <2>2
<1>3. Elements(s) \subseteq Elements(both) /\ Elements(t) \subseteq Elements(both)
  BY <1>1 DEF Elements
<1>4. Elements(both) = Elements(s) \cup Elements(t)
  BY <1>2, <1>3 DEF Elements
<1> QED
  BY <1>1, <1>4 DEF both

\* Two lists that share no address, one after the other.
LEMMA ConcatDistinct ==
  ASSUME NEW s \in Seq(Endpoint), NEW t \in Seq(Endpoint), Distinct(s), Distinct(t),
         \A i \in DOMAIN s, j \in DOMAIN t : Addr(s[i]) # Addr(t[j])
  PROVE  Distinct(s \o t)
<1> DEFINE both == s \o t
<1>1. /\ Len(s) \in Nat /\ DOMAIN both \subseteq Nat
      /\ \A i \in DOMAIN s : both[i] = s[i]
      /\ \A i \in DOMAIN t : both[Len(s) + i] = t[i]
      /\ \A i \in DOMAIN both : i \in DOMAIN s \/ i - Len(s) \in DOMAIN t
  BY ConcatParts
<1> HIDE DEF both
<1>2. \A i \in DOMAIN both : Len(s) + (i - Len(s)) = i
  BY <1>1
<1>3. \A i \in DOMAIN both : i - Len(s) \in DOMAIN t => both[i] = t[i - Len(s)]
  BY <1>1, <1>2
<1>4. ASSUME NEW i \in DOMAIN both, NEW j \in DOMAIN both, Addr(both[i]) = Addr(both[j])
      PROVE  i = j
  <2>1. CASE i \in DOMAIN s /\ j \in DOMAIN s
    BY <1>1, <1>4, <2>1 DEF Distinct
  <2>2. CASE i \in DOMAIN s /\ j - Len(s) \in DOMAIN t
    BY <1>1, <1>3, <1>4, <2>2
  <2>3. CASE i - Len(s) \in DOMAIN t /\ j \in DOMAIN s
    BY <1>1, <1>3, <1>4, <2>3
  <2>4. CASE i - Len(s) \in DOMAIN t /\ j - Len(s) \in DOMAIN t
    <3>1. Addr(t[i - Len(s)]) = Addr(t[j - Len(s)])
      BY <1>3, <1>4, <2>4
    <3>2. i - Len(s) = j - Len(s)
      BY <2>4, <3>1 DEF Distinct
    <3> QED
      BY <1>1, <3>2
  <2> QED
    BY <1>1, <2>1, <2>2, <2>3, <2>4
<1> QED
  BY <1>4 DEF Distinct, both

\* Putting the preferred host first loses no endpoint, invents none and repeats no
\* address.
THEOREM PreferHostKeepsAll ==
  ASSUME NEW eps \in Seq(Endpoint), NEW host
  PROVE  /\ PreferHost(eps, host) \in Seq(Endpoint)
         /\ Elements(PreferHost(eps, host)) = Elements(eps)
         /\ Distinct(eps) => Distinct(PreferHost(eps, host))
<1> DEFINE first == Keep(eps, AtHost(eps, host))
           rest  == Keep(eps, Elements(eps) \ AtHost(eps, host))
<1>1. first \in Seq(Endpoint) /\ Elements(first) = Elements(eps) \cap AtHost(eps, host)
  BY KeepSound
<1>2. /\ rest \in Seq(Endpoint)
      /\ Elements(rest) = Elements(eps) \cap (Elements(eps) \ AtHost(eps, host))
  BY KeepSound
<1>3. Distinct(eps) => Distinct(first) /\ Distinct(rest)
  BY KeepDistinct
<1> HIDE DEF first, rest
<1>4. first \o rest \in Seq(Endpoint) /\ Elements(first \o rest) = Elements(first) \cup Elements(rest)
  BY <1>1, <1>2, ConcatElements
<1>5. AtHost(eps, host) \subseteq Elements(eps)
  BY DEF AtHost
<1>6. ASSUME NEW i \in DOMAIN first, NEW j \in DOMAIN rest
      PROVE  Addr(first[i]) # Addr(rest[j])
  <2>1. first[i] \in AtHost(eps, host) /\ rest[j] \in Elements(eps) \ AtHost(eps, host)
    BY <1>1, <1>2 DEF Elements
  <2>2. first[i].host # rest[j].host
    BY <2>1 DEF AtHost
  <2> QED
    BY <2>2 DEF Addr
<1>7. Distinct(eps) => Distinct(first \o rest)
  BY <1>1, <1>2, <1>3, <1>6, ConcatDistinct
<1> QED
  BY <1>1, <1>2, <1>4, <1>5, <1>7 DEF PreferHost, first, rest

\* The preferred host precedes the others, and among those at it, and among the others,
\* the order stays.
THEOREM PreferHostOrder ==
  ASSUME NEW eps \in Seq(Endpoint), NEW host,
         NEW i \in DOMAIN PreferHost(eps, host), NEW j \in DOMAIN PreferHost(eps, host), i < j
  PROVE  /\ PreferHost(eps, host)[j].host = host => PreferHost(eps, host)[i].host = host
         /\ (PreferHost(eps, host)[i].host = host <=> PreferHost(eps, host)[j].host = host) =>
              \E a, b \in DOMAIN eps :
                a < b /\ PreferHost(eps, host)[i] = eps[a] /\ PreferHost(eps, host)[j] = eps[b]
<1> DEFINE first == Keep(eps, AtHost(eps, host))
           rest  == Keep(eps, Elements(eps) \ AtHost(eps, host))
           both  == first \o rest
           InOrder(s) == \A j1, k1 \in DOMAIN s : j1 < k1 =>
                           \E a, b \in DOMAIN eps : a < b /\ s[j1] = eps[a] /\ s[k1] = eps[b]
<1>0. ASSUME NEW S
      PROVE  /\ Keep(eps, S) \in Seq(Endpoint) /\ Elements(Keep(eps, S)) \subseteq Elements(eps) \cap S
             /\ InOrder(Keep(eps, S))
  <2> DEFINE kept == Keep(eps, S)
  <2>1. /\ kept \in Seq(Endpoint) /\ Elements(kept) = Elements(eps) \cap S
        /\ \A j1, k1 \in 1..Len(kept) : j1 < k1 =>
             \E a, b \in 1..Len(eps) : a < b /\ kept[j1] = eps[a] /\ kept[k1] = eps[b]
    BY KeepSound
  <2> HIDE DEF kept
  <2>2. DOMAIN kept = 1..Len(kept) /\ DOMAIN eps = 1..Len(eps)
    BY <2>1
  <2>3. ASSUME NEW j1 \in DOMAIN kept, NEW k1 \in DOMAIN kept, j1 < k1
        PROVE  \E a, b \in DOMAIN eps : a < b /\ kept[j1] = eps[a] /\ kept[k1] = eps[b]
    <3>1. PICK a \in 1..Len(eps), b \in 1..Len(eps) : a < b /\ kept[j1] = eps[a] /\ kept[k1] = eps[b]
      BY <2>1, <2>2, <2>3
    <3> QED
      BY <2>2, <3>1
  <2> QED
    BY <2>1, <2>3 DEF kept
<1> HIDE DEF InOrder
<1>1. /\ first \in Seq(Endpoint) /\ Elements(first) \subseteq AtHost(eps, host)
      /\ InOrder(first)
  BY <1>0
<1>2. /\ rest \in Seq(Endpoint) /\ Elements(rest) \subseteq Elements(eps) \ AtHost(eps, host)
      /\ InOrder(rest)
  BY <1>0
<1> HIDE DEF first, rest
<1>3. \A k \in DOMAIN first : first[k].host = host
  BY <1>1 DEF Elements, AtHost
<1>4. \A k \in DOMAIN rest : rest[k].host # host
  BY <1>2 DEF Elements, AtHost
<1>5. /\ Len(first) \in Nat /\ DOMAIN first = 1..Len(first) /\ DOMAIN rest = 1..Len(rest)
      /\ DOMAIN both \subseteq Nat
      /\ \A k \in DOMAIN first : both[k] = first[k]
      /\ \A k \in DOMAIN rest : both[Len(first) + k] = rest[k]
      /\ \A k \in DOMAIN both : k \in DOMAIN first \/ k - Len(first) \in DOMAIN rest
  BY <1>1, <1>2, ConcatParts
<1>6. PreferHost(eps, host) = both /\ i \in DOMAIN both /\ j \in DOMAIN both
  BY DEF PreferHost, first, rest
<1> HIDE DEF both
<1>7. \A k \in DOMAIN both : Len(first) + (k - Len(first)) = k
  BY <1>5
<1>8. \A k \in DOMAIN both : k - Len(first) \in DOMAIN rest => both[k] = rest[k - Len(first)]
  BY <1>5, <1>7
<1>9. CASE i \in DOMAIN first /\ j \in DOMAIN first
  <2>1. both[i] = first[i] /\ both[j] = first[j]
    BY <1>5, <1>9
  <2>2. \E a, b \in DOMAIN eps : a < b /\ first[i] = eps[a] /\ first[j] = eps[b]
    BY <1>1, <1>9 DEF InOrder
  <2> QED
    BY <1>3, <1>6, <1>9, <2>1, <2>2
<1>10. CASE i \in DOMAIN first /\ j - Len(first) \in DOMAIN rest
  <2>1. both[i].host = host /\ both[j].host # host
    BY <1>3, <1>4, <1>5, <1>6, <1>8, <1>10
  <2> QED
    BY <1>6, <2>1
<1>11. CASE i - Len(first) \in DOMAIN rest /\ j - Len(first) \in DOMAIN rest
  <2>1. both[i] = rest[i - Len(first)] /\ both[j] = rest[j - Len(first)]
    BY <1>6, <1>8, <1>11
  <2>2. i - Len(first) < j - Len(first)
    BY <1>5, <1>6
  <2>3. \E a, b \in DOMAIN eps : a < b /\ rest[i - Len(first)] = eps[a] /\ rest[j - Len(first)] = eps[b]
    BY <1>2, <1>11, <2>2 DEF InOrder
  <2>4. both[j].host # host
    BY <1>4, <1>11, <2>1
  <2> QED
    BY <1>6, <2>1, <2>3, <2>4
<1>12. CASE i - Len(first) \in DOMAIN rest /\ j \in DOMAIN first
  BY <1>5, <1>6, <1>12
<1> QED
  BY <1>5, <1>6, <1>9, <1>10, <1>11, <1>12

=============================================================================
