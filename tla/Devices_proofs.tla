------------------------------ MODULE Devices_proofs ------------------------------
(***************************************************************************)
(* What the table of wadb devices shows, whatever adb lists and whatever   *)
(* the scan returns.                                                       *)
(***************************************************************************)
EXTENDS Devices, Endpoints_proofs, FiniteSetTheorems

----------------------------------------------------------------------------
(* The merge by address. *)

\* What is merged: each transport listed once, each address announced once.
Mergeable(list, eps) ==
  /\ list \in Seq(DeviceEntry)
  /\ \A i, j \in DOMAIN list : list[i].serial = list[j].serial => i = j
  /\ eps \in Seq(Endpoint)
  /\ Distinct(eps)

\* The address of a row that has only one.
At(row) == row.addresses[1]

\* Rows with one address each, all different.
Rows(all) ==
  /\ all \in Seq(managedDevice)
  /\ \A k \in DOMAIN all : Len(all[k].addresses) = 1
  /\ \A j, k \in DOMAIN all : At(all[j]) = At(all[k]) => j = k

\* all has what adb lists in its order and state, then what else the first n endpoints
\* are at; the id is the one that they announce for the address.
Announces(all, list, eps, n) ==
  /\ Rows(all)
  /\ Len(list) <= Len(all)
  /\ \A k \in DOMAIN list :
       /\ At(all[k]) = list[k].serial
       /\ all[k].status = rowOf(list[k]).status
       /\ all[k].name = list[k].model
  /\ \A k \in DOMAIN all \ DOMAIN list :
       /\ all[k].status = "discovered"
       /\ all[k].name = NoModel
       /\ \E j \in 1..n : At(all[k]) = Addr(eps[j])
  /\ \A j \in 1..n : \E k \in DOMAIN all : At(all[k]) = Addr(eps[j])
  /\ \A k \in DOMAIN all :
       /\ (\A j \in 1..n : Addr(eps[j]) # At(all[k])) => all[k].id = At(all[k])
       /\ \A j \in 1..n : Addr(eps[j]) = At(all[k]) => all[k].id = idOf(eps[j], At(all[k]))

\* An address that is not among those of the rows is added, one that is gives its row an
\* instance and an id.
Gives(with, all, ep) ==
  /\ Rows(with)
  /\ Len(all) <= Len(with)
  /\ \A k \in DOMAIN all :
       /\ At(with[k]) = At(all[k])
       /\ with[k].status = all[k].status /\ with[k].name = all[k].name
       /\ with[k].id = IF At(all[k]) = Addr(ep) THEN idOf(ep, all[k].id) ELSE all[k].id
  /\ \A k \in DOMAIN with \ DOMAIN all :
       with[k] = discovered(ep) /\ \A j \in DOMAIN all : At(all[j]) # Addr(ep)
  /\ \E k \in DOMAIN with : At(with[k]) = Addr(ep)

LEMMA IdOfType ==
  ASSUME NEW ep \in Endpoint, NEW a \in ID \cup (Host \X Port)
  PROVE  idOf(ep, a) \in ID \cup (Host \X Port)
BY SelectionAssumption DEF idOf, Endpoint

LEMMA DiscoveredType ==
  ASSUME NEW ep \in Endpoint
  PROVE  /\ discovered(ep) \in managedDevice
         /\ Len(discovered(ep).addresses) = 1 /\ At(discovered(ep)) = Addr(ep)
<1>1. Addr(ep) \in Host \X Port /\ ep.inst \in Instance
  BY DEF Addr, Endpoint
<1>2. idOf(ep, Addr(ep)) \in ID \cup (Host \X Port)
  BY <1>1, IdOfType
<1> QED
  BY <1>1, <1>2 DEF discovered, managedDevice, At

LEMMA AddAnnouncedSound ==
  ASSUME NEW all, Rows(all), NEW ep \in Endpoint
  PROVE  Gives(AddAnnounced(all, ep), all, ep)
<1> DEFINE with == AddAnnounced(all, ep)
           n    == Len(all) + 1
<1>1. /\ all \in Seq(managedDevice) /\ DOMAIN all = 1..Len(all) /\ Len(all) \in Nat
      /\ \A k \in DOMAIN all : all[k] \in managedDevice /\ Len(all[k].addresses) = 1
      /\ \A j, k \in DOMAIN all : At(all[j]) = At(all[k]) => j = k
  BY DEF Rows
<1>2. \A k \in DOMAIN all : all[k].addresses = <<Addr(ep)>> <=> At(all[k]) = Addr(ep)
  <2>1. \A k \in DOMAIN all : all[k].addresses \in Seq(ID \cup (Host \X Port))
    BY <1>1 DEF managedDevice
  <2>2. \A s \in Seq(ID \cup (Host \X Port)) : Len(s) = 1 => s = <<s[1]>>
    OBVIOUS
  <2> QED
    BY <1>1, <2>1, <2>2 DEF At
<1>3. CASE \E k \in DOMAIN all : At(all[k]) = Addr(ep)
  <2> DEFINE row(k) == [all[k] EXCEPT !.inst = ep.inst, !.id = idOf(ep, @)]
  <2>1. with = [k \in DOMAIN all |-> IF At(all[k]) = Addr(ep) THEN row(k) ELSE all[k]]
    BY <1>2, <1>3 DEF AddAnnounced
  <2>2. ASSUME NEW k \in DOMAIN all
        PROVE  /\ row(k) \in managedDevice
               /\ row(k).addresses = all[k].addresses
               /\ row(k).status = all[k].status /\ row(k).name = all[k].name
               /\ row(k).id = idOf(ep, all[k].id)
    <3>1. ep.inst \in Instance /\ all[k].id \in ID \cup (Host \X Port)
      BY <1>1 DEF Endpoint, managedDevice
    <3>2. idOf(ep, all[k].id) \in ID \cup (Host \X Port)
      BY <3>1, IdOfType
    <3>3. all[k] \in managedDevice
      BY <1>1
    <3> HIDE DEF with
    <3> QED
      BY <3>1, <3>2, <3>3 DEF managedDevice
  <2> HIDE DEF row
  <2>3. /\ with \in Seq(managedDevice) /\ DOMAIN with = DOMAIN all /\ Len(with) = Len(all)
        /\ \A k \in DOMAIN all : with[k] = IF At(all[k]) = Addr(ep) THEN row(k) ELSE all[k]
    BY <1>1, <2>1, <2>2
  <2> HIDE DEF with
  <2>4. \A k \in DOMAIN all : with[k].addresses = all[k].addresses /\ At(with[k]) = At(all[k])
    BY <2>2, <2>3 DEF At
  <2>5. Rows(with)
    BY <1>1, <2>3, <2>4 DEF Rows
  <2>6. \A k \in DOMAIN all :
          /\ with[k].status = all[k].status /\ with[k].name = all[k].name
          /\ with[k].id = IF At(all[k]) = Addr(ep) THEN idOf(ep, all[k].id) ELSE all[k].id
    BY <2>2, <2>3
  <2> QED
    BY <1>1, <1>3, <2>3, <2>4, <2>5, <2>6 DEF Gives, with
<1>4. CASE ~\E k \in DOMAIN all : At(all[k]) = Addr(ep)
  <2>1. with = Append(all, discovered(ep))
    BY <1>2, <1>4 DEF AddAnnounced
  <2>2. discovered(ep) \in managedDevice /\ Len(discovered(ep).addresses) = 1 /\ At(discovered(ep)) = Addr(ep)
    BY DiscoveredType
  <2>3. /\ with \in Seq(managedDevice) /\ Len(with) = n
        /\ DOMAIN with = DOMAIN all \cup {n}
        /\ \A k \in DOMAIN all : with[k] = all[k]
        /\ with[n] = discovered(ep)
    BY <1>1, <2>1, <2>2
  <2>4. n \notin DOMAIN all /\ Len(all) <= n
    BY <1>1
  <2> HIDE DEF with, n
  <2>5. Rows(with)
    BY <1>1, <1>4, <2>2, <2>3 DEF Rows
  <2> QED
    BY <1>4, <2>2, <2>3, <2>4, <2>5 DEF Gives, with
<1> QED
  BY <1>3, <1>4

LEMMA AnnouncesGrows ==
  ASSUME NEW list, NEW eps, Mergeable(list, eps), NEW n \in Nat, n + 1 <= Len(eps),
         NEW all, Announces(all, list, eps, n)
  PROVE  Announces(AddAnnounced(all, eps[n + 1]), list, eps, n + 1)
<1> DEFINE ep   == eps[n + 1]
           with == AddAnnounced(all, ep)
<1>1. /\ ep \in Endpoint /\ n + 1 \in DOMAIN eps /\ 1..n \subseteq DOMAIN eps /\ n + 1 \notin 1..n
      /\ 1..(n + 1) = 1..n \cup {n + 1}
  BY DEF Mergeable
<1>2. Addr(ep) \in Host \X Port /\ \A j \in 1..n : Addr(eps[j]) # Addr(ep)
  BY <1>1 DEF Addr, Endpoint, Mergeable, Distinct
<1>3. Rows(all)
  BY DEF Announces
<1>4. Gives(with, all, ep)
  BY <1>1, <1>3, AddAnnouncedSound
<1> HIDE DEF with, ep
<1>5. /\ DOMAIN all = 1..Len(all) /\ DOMAIN with = 1..Len(with) /\ DOMAIN list = 1..Len(list)
      /\ Len(all) \in Nat /\ Len(with) \in Nat /\ Len(list) \in Nat
      /\ Len(all) <= Len(with) /\ Len(list) <= Len(all)
  BY <1>3, <1>4 DEF Announces, Gives, Rows, Mergeable
<1>6. DOMAIN list \subseteq DOMAIN all /\ DOMAIN all \subseteq DOMAIN with
  BY <1>5
<1>7. ASSUME NEW k \in DOMAIN list
      PROVE  /\ At(with[k]) = list[k].serial
             /\ with[k].status = rowOf(list[k]).status
             /\ with[k].name = list[k].model
  BY <1>4, <1>6 DEF Announces, Gives
<1>8. ASSUME NEW k \in DOMAIN with \ DOMAIN list
      PROVE  /\ with[k].status = "discovered"
             /\ with[k].name = NoModel
             /\ \E j \in 1..(n + 1) : At(with[k]) = Addr(eps[j])
  <2>1. CASE k \in DOMAIN all
    BY <1>1, <1>4, <2>1 DEF Announces, Gives
  <2>2. CASE k \notin DOMAIN all
    <3>1. with[k] = discovered(ep)
      BY <1>4, <2>2 DEF Gives
    <3>2. At(with[k]) = Addr(ep)
      BY <1>1, <3>1, DiscoveredType
    <3> QED
      BY <1>1, <3>1, <3>2 DEF discovered, ep
  <2> QED
    BY <2>1, <2>2
<1>9. ASSUME NEW j \in 1..(n + 1)
      PROVE  \E k \in DOMAIN with : At(with[k]) = Addr(eps[j])
  <2>1. CASE j \in 1..n
    <3>1. PICK k \in DOMAIN all : At(all[k]) = Addr(eps[j])
      BY <2>1 DEF Announces
    <3> QED
      BY <1>4, <1>6, <3>1 DEF Gives
  <2>2. CASE j = n + 1
    BY <1>4, <2>2 DEF Gives, ep
  <2> QED
    BY <1>1, <2>1, <2>2
<1>10. ASSUME NEW k \in DOMAIN with
       PROVE  /\ (\A j \in 1..(n + 1) : Addr(eps[j]) # At(with[k])) => with[k].id = At(with[k])
              /\ \A j \in 1..(n + 1) : Addr(eps[j]) = At(with[k]) => with[k].id = idOf(eps[j], At(with[k]))
  <2>1. CASE k \in DOMAIN all /\ At(all[k]) = Addr(ep)
    <3>1. At(with[k]) = Addr(ep) /\ with[k].id = idOf(ep, all[k].id)
      BY <1>4, <2>1 DEF Gives
    <3>2. all[k].id = Addr(ep)
      BY <1>2, <2>1 DEF Announces
    <3> QED
      BY <1>1, <1>2, <3>1, <3>2 DEF ep
  <2>2. CASE k \in DOMAIN all /\ At(all[k]) # Addr(ep)
    <3>1. At(with[k]) = At(all[k]) /\ with[k].id = all[k].id
      BY <1>4, <2>2 DEF Gives
    <3> QED
      BY <1>1, <2>2, <3>1 DEF Announces, ep
  <2>3. CASE k \notin DOMAIN all
    <3>1. with[k] = discovered(ep)
      BY <1>4, <2>3 DEF Gives
    <3>2. At(with[k]) = Addr(ep) /\ with[k].id = idOf(ep, Addr(ep))
      BY <1>1, <3>1, DiscoveredType DEF discovered
    <3> QED
      BY <1>1, <1>2, <3>2 DEF ep
  <2> QED
    BY <2>1, <2>2, <2>3
<1>11. Rows(with) /\ Len(list) <= Len(with)
  BY <1>4, <1>5 DEF Gives
<1>12. Announces(with, list, eps, n + 1)
  BY <1>7, <1>8, <1>9, <1>10, <1>11 DEF Announces
<1> QED
  BY <1>12 DEF with, ep

\* What adb lists alone.
LEMMA ListedRows ==
  ASSUME NEW list, NEW eps, Mergeable(list, eps)
  PROVE  Announces([k \in DOMAIN list |-> rowOf(list[k])], list, eps, 0)
<1> DEFINE all == [k \in DOMAIN list |-> rowOf(list[k])]
<1>1. list \in Seq(DeviceEntry) /\ DOMAIN list = 1..Len(list) /\ Len(list) \in Nat
  BY DEF Mergeable
<1>2. ASSUME NEW k \in DOMAIN list
      PROVE  /\ rowOf(list[k]) \in managedDevice
             /\ rowOf(list[k]).addresses = <<list[k].serial>>
             /\ rowOf(list[k]).id = list[k].serial
             /\ rowOf(list[k]).name = list[k].model
  <2>1. list[k] \in DeviceEntry
    BY <1>1
  <2> QED
    BY <2>1, DevicesAssumption DEF rowOf, DeviceEntry, managedDevice
<1>3. all \in Seq(managedDevice) /\ DOMAIN all = DOMAIN list /\ Len(all) = Len(list)
  BY <1>1, <1>2
<1>4. \A k \in DOMAIN list : all[k] = rowOf(list[k])
  OBVIOUS
<1> HIDE DEF all
<1>5. \A k \in DOMAIN list : Len(all[k].addresses) = 1 /\ At(all[k]) = list[k].serial
  <2>1. \A x : Len(<<x>>) = 1 /\ <<x>>[1] = x
    OBVIOUS
  <2> QED
    BY <1>2, <1>4, <2>1 DEF At
<1>6. Rows(all)
  BY <1>3, <1>5 DEF Rows, Mergeable
<1>7. 1..0 = {}
  OBVIOUS
<1>8. Announces(all, list, eps, 0)
  BY <1>1, <1>2, <1>3, <1>4, <1>5, <1>6, <1>7 DEF Announces
<1> QED
  BY <1>8 DEF all

LEMMA ByAddressSound ==
  ASSUME NEW list, NEW eps, Mergeable(list, eps)
  PROVE  Announces(mergeByAddress(list, eps), list, eps, Len(eps))
<1> DEFINE n      == Len(eps)
           first  == [k \in DOMAIN list |-> rowOf(list[k])]
           Tables == {all \in Seq(managedDevice) : Rows(all)}
           add    == [i \in 1..n |-> [all \in Tables |-> AddAnnounced(all, eps[i])]]
           Rule(g, i) == IF i = 0 THEN first ELSE AddAnnounced(g[i - 1], eps[i])
           out    == CHOOSE g : g = [i \in 0..n |-> Rule(g, i)]
<1>1. mergeByAddress(list, eps) = out[n]
  BY DEF mergeByAddress
<1>2. n \in Nat /\ \A i \in 1..n : eps[i] \in Endpoint
  BY DEF Mergeable
<1>3. Announces(first, list, eps, 0) /\ first \in Tables
  BY ListedRows DEF Announces, Rows
<1> HIDE DEF first
<1>4. PICK f \in [0..n -> Tables] : Passes(f, n, first, add)
  <2>1. \A i \in 1..n, all \in Tables : AddAnnounced(all, eps[i]) \in Tables
    BY <1>2, AddAnnouncedSound DEF Gives, Rows
  <2>2. add \in Steps(n, Tables)
    BY <2>1 DEF Steps
  <2>3. n \in Nat
    BY <1>2
  <2> HIDE DEF add, Tables, n
  <2> QED
    BY <1>3, <2>2, <2>3, LoopExists
<1>5. f = [i \in 0..n |-> Rule(f, i)]
  <2>1. ASSUME NEW i \in 1..n
        PROVE  add[i][f[i - 1]] = AddAnnounced(f[i - 1], eps[i])
    <3>1. i - 1 \in 0..n
      BY <1>2
    <3>2. f[i - 1] \in Tables
      BY <1>4, <3>1
    <3> HIDE DEF Tables
    <3> QED
      BY <3>2
  <2>2. \A i \in 0..n : f[i] = Rule(f, i)
    <3> HIDE DEF add, Tables, n
    <3> QED
      BY <1>2, <1>4, <2>1 DEF Passes
  <2>3. f = [i \in 0..n |-> f[i]]
    OBVIOUS
  <2> HIDE DEF Rule
  <2> QED
    BY <2>2, <2>3
<1>6. out = [i \in 0..n |-> Rule(out, i)]
  BY <1>5
<1> HIDE DEF out
<1> DEFINE Q == {i \in 0..n : Announces(out[i], list, eps, i)}
<1>7. 0 \in Q
  <2>1. out[0] = first
    BY <1>2, <1>6
  <2> QED
    BY <1>2, <1>3, <2>1
<1>8. ASSUME NEW i \in 0..n, i < n, i \in Q
      PROVE  i + 1 \in Q
  <2>1. out[i + 1] = AddAnnounced(out[i], eps[i + 1])
    <3>1. i + 1 \in 0..n /\ (i + 1) - 1 = i /\ i + 1 # 0
      BY <1>2, <1>8
    <3> QED
      BY <1>6, <3>1
  <2>2. Announces(out[i + 1], list, eps, i + 1)
    BY <1>2, <1>8, <2>1, AnnouncesGrows
  <2> QED
    BY <1>2, <1>8, <2>2
<1>9. n \in Q
  <2> HIDE DEF Q
  <2> QED
    BY <1>2, <1>7, <1>8, PrefixInduction
<1> QED
  BY <1>1, <1>9

----------------------------------------------------------------------------
(* The merge by id. *)

\* The rows among the first n with the id.
Alike(all, n, id) == {k \in 1..n : all[k].id = id}

\* row has taken in the rows in K: all their addresses, connected if one of them is and
\* else as the first of them, and a name if one of them has one.
Sums(row, all, K) ==
  /\ Elements(row.addresses) = {At(all[k]) : k \in K}
  /\ \A p, q \in DOMAIN row.addresses : row.addresses[p] = row.addresses[q] => p = q
  /\ row.status = "connected" <=> \E k \in K : all[k].status = "connected"
  /\ row.status # "connected" => \E k \in K : row.status = all[k].status /\ \A m \in K : k <= m
  /\ row.name = NoModel <=> \A k \in K : all[k].name = NoModel

\* out has one row for each id of the first n rows.
Consolidates(out, all, n) ==
  /\ out \in Seq(managedDevice)
  /\ \A i, j \in DOMAIN out : out[i].id = out[j].id => i = j
  /\ \A k \in 1..n : \E i \in DOMAIN out : out[i].id = all[k].id
  /\ \A i \in DOMAIN out : Alike(all, n, out[i].id) # {} /\ Sums(out[i], all, Alike(all, n, out[i].id))

LEMMA AppendCSVSound ==
  ASSUME NEW T, NEW s \in Seq(T), NEW x \in T,
         \A p, q \in DOMAIN s : s[p] = s[q] => p = q
  PROVE  /\ appendCSV(s, x) \in Seq(T)
         /\ Elements(appendCSV(s, x)) = Elements(s) \cup {x}
         /\ \A p, q \in DOMAIN appendCSV(s, x) : appendCSV(s, x)[p] = appendCSV(s, x)[q] => p = q
<1>1. CASE x \in Elements(s)
  BY <1>1 DEF appendCSV
<1>2. CASE x \notin Elements(s)
  <2> DEFINE t == Append(s, x)
             n == Len(s) + 1
  <2>1. appendCSV(s, x) = t
    BY <1>2 DEF appendCSV
  <2>2. /\ t \in Seq(T) /\ DOMAIN t = DOMAIN s \cup {n}
        /\ \A p \in DOMAIN s : t[p] = s[p]
        /\ t[n] = x
    OBVIOUS
  <2> HIDE DEF t, n
  <2> QED
    BY <1>2, <2>1, <2>2 DEF Elements
<1> QED
  BY <1>1, <1>2

\* What a row is that takes in another one.
LEMMA AbsorbSound ==
  ASSUME NEW all, NEW n \in Nat, n + 1 \in DOMAIN all, Rows(all), NEW row \in managedDevice,
         NEW K \in SUBSET (1..n), K # {}, Sums(row, all, K)
  PROVE  /\ Absorb(row, all[n + 1]) \in managedDevice
         /\ Absorb(row, all[n + 1]).id = row.id
         /\ Sums(Absorb(row, all[n + 1]), all, K \cup {n + 1})
<1> DEFINE other == all[n + 1]
           with  == Absorb(row, other)
           csv   == appendCSV(row.addresses, At(other))
<1>1. other \in managedDevice /\ other.addresses \in Seq(ID \cup (Host \X Port)) /\ Len(other.addresses) = 1
  <2>1. other \in managedDevice /\ Len(other.addresses) = 1
    BY DEF Rows
  <2> QED
    BY <2>1 DEF managedDevice
<1>2. At(other) \in ID \cup (Host \X Port)
  BY <1>1 DEF At
<1>3. /\ row.addresses \in Seq(ID \cup (Host \X Port))
      /\ \A p, q \in DOMAIN row.addresses : row.addresses[p] = row.addresses[q] => p = q
  BY DEF managedDevice, Sums
<1>4. /\ csv \in Seq(ID \cup (Host \X Port))
      /\ Elements(csv) = Elements(row.addresses) \cup {At(other)}
      /\ \A p, q \in DOMAIN csv : csv[p] = csv[q] => p = q
  BY <1>2, <1>3, AppendCSVSound
<1> HIDE DEF csv, other
<1>5. /\ with \in managedDevice
      /\ with.id = row.id /\ with.addresses = csv
      /\ with.name = IF row.name = NoModel THEN other.name ELSE row.name
      /\ with.status = IF other.status = "connected" THEN "connected" ELSE row.status
  BY <1>1, <1>4 DEF Absorb, managedDevice, csv, At
<1> HIDE DEF with
<1>6. Elements(with.addresses) = {At(all[k]) : k \in K \cup {n + 1}}
  BY <1>4, <1>5 DEF Sums, other
<1>7. with.status = "connected" <=> \E k \in K \cup {n + 1} : all[k].status = "connected"
  BY <1>5 DEF Sums, other
<1>8. ASSUME with.status # "connected"
      PROVE  \E k \in K \cup {n + 1} : with.status = all[k].status /\ \A m \in K \cup {n + 1} : k <= m
  <2>1. with.status = row.status /\ row.status # "connected"
    BY <1>5, <1>8
  <2>2. PICK k \in K : row.status = all[k].status /\ \A m \in K : k <= m
    BY <2>1 DEF Sums
  <2>3. k <= n + 1
    OBVIOUS
  <2> QED
    BY <2>1, <2>2, <2>3
<1>9. with.name = NoModel <=> \A k \in K \cup {n + 1} : all[k].name = NoModel
  BY <1>5 DEF Sums, other
<1>10. Sums(with, all, K \cup {n + 1})
  BY <1>4, <1>5, <1>6, <1>7, <1>8, <1>9 DEF Sums
<1> QED
  BY <1>5, <1>10 DEF with, other

LEMMA AlikeGrows ==
  ASSUME NEW all, NEW n \in Nat, NEW id
  PROVE  /\ all[n + 1].id = id => Alike(all, n + 1, id) = Alike(all, n, id) \cup {n + 1}
         /\ all[n + 1].id # id => Alike(all, n + 1, id) = Alike(all, n, id)
         /\ Alike(all, n, id) \in SUBSET (1..n)
BY DEF Alike

LEMMA ConsolidatesGrows ==
  ASSUME NEW all, Rows(all), NEW n \in Nat, n + 1 \in DOMAIN all,
         NEW out, Consolidates(out, all, n)
  PROVE  Consolidates(AddRow(out, all[n + 1]), all, n + 1)
<1> DEFINE row  == all[n + 1]
           with == AddRow(out, row)
<1>1. row \in managedDevice
  BY DEF Rows
<1>2. /\ out \in Seq(managedDevice) /\ DOMAIN out = 1..Len(out) /\ Len(out) \in Nat
      /\ \A i \in DOMAIN out : out[i] \in managedDevice
      /\ 1..(n + 1) = 1..n \cup {n + 1}
  BY DEF Consolidates
<1>3. CASE \E i \in DOMAIN out : out[i].id = row.id
  <2>1. with = [i \in DOMAIN out |-> IF out[i].id = row.id THEN Absorb(out[i], row) ELSE out[i]]
    BY <1>3 DEF AddRow
  <2>2. ASSUME NEW i \in DOMAIN out, out[i].id = row.id
        PROVE  /\ Absorb(out[i], row) \in managedDevice
               /\ Absorb(out[i], row).id = out[i].id
               /\ Sums(Absorb(out[i], row), all, Alike(all, n + 1, row.id))
               /\ Alike(all, n + 1, row.id) # {}
    <3>1. /\ Alike(all, n, row.id) # {} /\ Sums(out[i], all, Alike(all, n, row.id))
      BY <2>2 DEF Consolidates
    <3>2. /\ Alike(all, n + 1, row.id) = Alike(all, n, row.id) \cup {n + 1}
          /\ Alike(all, n, row.id) \in SUBSET (1..n)
      BY AlikeGrows
    <3> DEFINE K == Alike(all, n, row.id)
    <3>3. out[i] \in managedDevice /\ K \in SUBSET (1..n) /\ K # {} /\ Sums(out[i], all, K)
      BY <1>2, <3>1, <3>2
    <3> HIDE DEF K
    <3>4. /\ Absorb(out[i], all[n + 1]) \in managedDevice
          /\ Absorb(out[i], all[n + 1]).id = out[i].id
          /\ Sums(Absorb(out[i], all[n + 1]), all, K \cup {n + 1})
      BY <3>3, AbsorbSound
    <3>5. K \cup {n + 1} # {}
      OBVIOUS
    <3> QED
      BY <3>2, <3>4, <3>5 DEF K
  <2> HIDE DEF with, row
  <2>3. /\ with \in Seq(managedDevice) /\ DOMAIN with = DOMAIN out
        /\ \A i \in DOMAIN out : with[i] = IF out[i].id = row.id THEN Absorb(out[i], row) ELSE out[i]
    BY <1>2, <2>1, <2>2
  <2>4. \A i \in DOMAIN out : with[i].id = out[i].id
    BY <2>2, <2>3
  <2>5. \A i, j \in DOMAIN with : with[i].id = with[j].id => i = j
    BY <2>3, <2>4 DEF Consolidates
  <2>6. \A k \in 1..(n + 1) : \E i \in DOMAIN with : with[i].id = all[k].id
    BY <1>2, <1>3, <2>3, <2>4 DEF Consolidates, row
  <2>7. ASSUME NEW i \in DOMAIN with
        PROVE  /\ Alike(all, n + 1, with[i].id) # {}
               /\ Sums(with[i], all, Alike(all, n + 1, with[i].id))
    <3>1. CASE out[i].id = row.id
      BY <2>2, <2>3, <2>4, <3>1
    <3>2. CASE out[i].id # row.id
      <4>1. with[i] = out[i] /\ i \in DOMAIN out
        BY <2>3, <3>2
      <4>2. Alike(all, n + 1, out[i].id) = Alike(all, n, out[i].id)
        BY <3>2, AlikeGrows DEF row
      <4> QED
        BY <4>1, <4>2 DEF Consolidates
    <3> QED
      BY <3>1, <3>2
  <2>8. Consolidates(with, all, n + 1)
    BY <2>3, <2>5, <2>6, <2>7 DEF Consolidates
  <2> QED
    BY <2>8 DEF with, row
<1>4. CASE ~\E i \in DOMAIN out : out[i].id = row.id
  <2> DEFINE m == Len(out) + 1
  <2>1. with = Append(out, row)
    BY <1>4 DEF AddRow
  <2>2. /\ with \in Seq(managedDevice) /\ DOMAIN with = DOMAIN out \cup {m}
        /\ \A i \in DOMAIN out : with[i] = out[i]
        /\ with[m] = row
    BY <1>1, <1>2, <2>1
  <2> HIDE DEF with, m
  <2>3. Alike(all, n, row.id) = {}
    BY <1>4 DEF Alike, Consolidates
  <2>4. Alike(all, n + 1, row.id) = {n + 1}
    BY <2>3, AlikeGrows
  <2>5. Sums(row, all, {n + 1})
    <3>1. Len(row.addresses) = 1 /\ row.addresses \in Seq(ID \cup (Host \X Port))
      <4>1. row \in managedDevice /\ Len(row.addresses) = 1
        BY <1>1 DEF Rows
      <4> QED
        BY <4>1 DEF managedDevice
    <3>2. DOMAIN row.addresses = {1}
      BY <3>1
    <3>3. Elements(row.addresses) = {At(row)}
      BY <3>2 DEF Elements, At
    <3>4. n + 1 <= n + 1
      OBVIOUS
    <3> QED
      BY <3>2, <3>3, <3>4 DEF Sums
  <2>6. \A i \in DOMAIN out : Alike(all, n + 1, out[i].id) = Alike(all, n, out[i].id)
    BY <1>4, AlikeGrows
  <2> HIDE DEF row
  <2>7. \A i, j \in DOMAIN with : with[i].id = with[j].id => i = j
    BY <1>4, <2>2 DEF Consolidates
  <2>8. \A k \in 1..(n + 1) : \E i \in DOMAIN with : with[i].id = all[k].id
    BY <1>2, <2>2 DEF Consolidates, row
  <2>9. \A i \in DOMAIN with : /\ Alike(all, n + 1, with[i].id) # {}
                               /\ Sums(with[i], all, Alike(all, n + 1, with[i].id))
    BY <2>2, <2>4, <2>5, <2>6 DEF Consolidates
  <2>10. Consolidates(with, all, n + 1)
    BY <2>2, <2>7, <2>8, <2>9 DEF Consolidates
  <2> QED
    BY <2>10 DEF with, row
<1> QED
  BY <1>3, <1>4

LEMMA AddRowType ==
  ASSUME NEW all, Rows(all), NEW i \in DOMAIN all, NEW out \in Seq(managedDevice)
  PROVE  AddRow(out, all[i]) \in Seq(managedDevice)
<1> DEFINE row == all[i]
<1>1. row \in managedDevice /\ Len(row.addresses) = 1
  BY DEF Rows
<1>2. row.addresses[1] \in ID \cup (Host \X Port)
  BY <1>1 DEF managedDevice
<1> HIDE DEF row
<1>3. ASSUME NEW r \in managedDevice
      PROVE  Absorb(r, row) \in managedDevice
  <2>1. appendCSV(r.addresses, row.addresses[1]) \in Seq(ID \cup (Host \X Port))
    BY <1>2 DEF appendCSV, managedDevice
  <2> QED
    BY <1>1, <2>1 DEF Absorb, managedDevice
<1>4. CASE \E k \in DOMAIN out : out[k].id = row.id
  <2>1. AddRow(out, row) = [k \in DOMAIN out |-> IF out[k].id = row.id THEN Absorb(out[k], row) ELSE out[k]]
    BY <1>4 DEF AddRow
  <2>2. \A k \in DOMAIN out : out[k] \in managedDevice
    OBVIOUS
  <2> QED
    BY <1>3, <2>1, <2>2 DEF row
<1>5. CASE ~\E k \in DOMAIN out : out[k].id = row.id
  <2>1. AddRow(out, row) = Append(out, row)
    BY <1>5 DEF AddRow
  <2> QED
    BY <1>1, <2>1 DEF row
<1> QED
  BY <1>4, <1>5

LEMMA ConsolidateSound ==
  ASSUME NEW all, Rows(all)
  PROVE  Consolidates(consolidate(all), all, Len(all))
<1> DEFINE n      == Len(all)
           Tables == Seq(managedDevice)
           add    == [i \in 1..n |-> [t \in Tables |-> AddRow(t, all[i])]]
           Rule(g, i) == IF i = 0 THEN <<>> ELSE AddRow(g[i - 1], all[i])
           out    == CHOOSE g : g = [i \in 0..n |-> Rule(g, i)]
<1>1. consolidate(all) = out[n]
  BY DEF consolidate
<1>2. n \in Nat /\ DOMAIN all = 1..n
  BY DEF Rows
<1>3. PICK f \in [0..n -> Tables] : Passes(f, n, <<>>, add)
  <2>1. \A i \in 1..n, t \in Tables : AddRow(t, all[i]) \in Tables
    BY <1>2, AddRowType
  <2>2. add \in Steps(n, Tables)
    BY <2>1 DEF Steps
  <2>3. n \in Nat /\ <<>> \in Tables
    BY <1>2
  <2> HIDE DEF add, Tables, n
  <2> QED
    BY <2>2, <2>3, LoopExists
<1>4. f = [i \in 0..n |-> Rule(f, i)]
  <2>1. ASSUME NEW i \in 1..n
        PROVE  add[i][f[i - 1]] = AddRow(f[i - 1], all[i])
    <3>1. i - 1 \in 0..n
      BY <1>2
    <3>2. f[i - 1] \in Tables
      BY <1>3, <3>1
    <3> HIDE DEF Tables
    <3> QED
      BY <3>2
  <2>2. \A i \in 0..n : f[i] = Rule(f, i)
    <3> HIDE DEF add, Tables, n
    <3> QED
      BY <1>2, <1>3, <2>1 DEF Passes
  <2>3. f = [i \in 0..n |-> f[i]]
    OBVIOUS
  <2> HIDE DEF Rule
  <2> QED
    BY <2>2, <2>3
<1>5. out = [i \in 0..n |-> Rule(out, i)]
  BY <1>4
<1> HIDE DEF out
<1> DEFINE Q == {i \in 0..n : Consolidates(out[i], all, i)}
<1>6. 0 \in Q
  <2>1. out[0] = <<>>
    BY <1>2, <1>5
  <2>2. Consolidates(<<>>, all, 0)
    BY DEF Consolidates
  <2> QED
    BY <1>2, <2>1, <2>2
<1>7. ASSUME NEW i \in 0..n, i < n, i \in Q
      PROVE  i + 1 \in Q
  <2>1. i + 1 \in 0..n /\ (i + 1) - 1 = i /\ i + 1 # 0 /\ i + 1 \in DOMAIN all
    BY <1>2, <1>7
  <2>2. out[i + 1] = AddRow(out[i], all[i + 1])
    BY <1>5, <2>1
  <2>3. Consolidates(out[i + 1], all, i + 1)
    BY <1>7, <2>1, <2>2, ConsolidatesGrows
  <2> QED
    BY <2>1, <2>3
<1>8. n \in Q
  <2> HIDE DEF Q
  <2> QED
    BY <1>2, <1>6, <1>7, PrefixInduction
<1> QED
  BY <1>1, <1>8

----------------------------------------------------------------------------
(* The table. *)

\* all is what rows was made of.
Table(all) ==
  /\ Mergeable(connected, announced)
  /\ Announces(all, connected, announced, Len(announced))
  /\ Consolidates(rows, all, Len(all))

LEMMA TableParts ==
  ASSUME NEW all, Table(all)
  PROVE  /\ DOMAIN all = 1..Len(all) /\ Len(all) \in Nat
         /\ DOMAIN connected = 1..Len(connected) /\ Len(connected) \in Nat
         /\ DOMAIN connected \subseteq DOMAIN all
         /\ DOMAIN announced = 1..Len(announced)
         /\ \A j, k \in DOMAIN all : At(all[j]) = At(all[k]) => j = k
BY DEF Table, Announces, Rows, Mergeable

\* The rows of all are at the addresses that adb or the scan knows.
LEMMA RowsAreKnown ==
  ASSUME NEW all, Table(all)
  PROVE  Serials \cup Announced = {At(all[k]) : k \in DOMAIN all}
<1>1. ASSUME NEW a \in Serials \cup Announced
      PROVE  \E k \in DOMAIN all : At(all[k]) = a
  <2>1. CASE a \in Serials
    <3>1. PICK k \in DOMAIN connected : a = connected[k].serial
      BY <2>1 DEF Serials
    <3>2. k \in DOMAIN all /\ At(all[k]) = a
      BY <3>1, TableParts DEF Table, Announces
    <3> QED
      BY <3>2
  <2>2. CASE a \in Announced
    <3>1. PICK j \in 1..Len(announced) : a = Addr(announced[j])
      BY <2>2, TableParts DEF Announced
    <3> QED
      BY <3>1 DEF Table, Announces
  <2> QED
    BY <2>1, <2>2
<1>2. ASSUME NEW k \in DOMAIN all
      PROVE  At(all[k]) \in Serials \cup Announced
  <2>1. CASE k \in DOMAIN connected
    BY <2>1 DEF Serials, Table, Announces
  <2>2. CASE k \notin DOMAIN connected
    <3>1. PICK j \in 1..Len(announced) : At(all[k]) = Addr(announced[j])
      BY <2>2 DEF Table, Announces
    <3> QED
      BY <3>1, TableParts DEF Announced
  <2> QED
    BY <2>1, <2>2
<1> QED
  BY <1>1, <1>2

\* The id of a row of all is the device its address belongs to.
LEMMA IdIsOwner ==
  ASSUME NEW all, Table(all), NEW k \in DOMAIN all
  PROVE  all[k].id = Owner(At(all[k]))
<1> DEFINE a    == At(all[k])
           here == {j \in DOMAIN announced : Addr(announced[j]) = a}
           ids  == {endpointID[announced[i].inst] : i \in here}
<1>1. Owner(a) = IF ids \subseteq {NoID} THEN a ELSE CHOOSE id \in ids : id # NoID
  BY DEF Owner
<1>2. CASE here = {}
  <2>1. \A j \in 1..Len(announced) : Addr(announced[j]) # a
    BY <1>2, TableParts
  <2>2. all[k].id = a
    BY <2>1 DEF Table, Announces
  <2> QED
    BY <1>1, <1>2, <2>2
<1>3. CASE here # {}
  <2>1. PICK j \in here : TRUE
    BY <1>3
  <2>2. j \in 1..Len(announced) /\ Addr(announced[j]) = a
    BY <2>1, TableParts
  <2>3. all[k].id = idOf(announced[j], a)
    BY <2>2 DEF Table, Announces
  <2>4. here = {j}
    BY <2>1 DEF Table, Mergeable, Distinct
  <2> HIDE DEF here, a
  <2>5. ids = {endpointID[announced[j].inst]}
    BY <2>4
  <2> QED
    BY <1>1, <2>3, <2>5 DEF idOf, a
<1> QED
  BY <1>2, <1>3

\* The row of the table that holds an address is the one with its id.
LEMMA HoldingIsOne ==
  ASSUME NEW all, Table(all), NEW k \in DOMAIN all
  PROVE  /\ Holding(At(all[k])) = {i \in DOMAIN rows : rows[i].id = all[k].id}
         /\ \E i \in DOMAIN rows : Holding(At(all[k])) = {i}
<1>1. ASSUME NEW i \in DOMAIN rows
      PROVE  At(all[k]) \in Elements(rows[i].addresses) <=> rows[i].id = all[k].id
  <2>1. Elements(rows[i].addresses) = {At(all[m]) : m \in Alike(all, Len(all), rows[i].id)}
    BY DEF Table, Consolidates, Sums
  <2> QED
    BY <2>1, TableParts DEF Alike
<1>2. Holding(At(all[k])) = {i \in DOMAIN rows : rows[i].id = all[k].id}
  BY <1>1 DEF Holding
<1>3. PICK i \in DOMAIN rows : rows[i].id = all[k].id
  BY TableParts DEF Table, Consolidates
<1>4. \A j \in DOMAIN rows : rows[j].id = all[k].id => j = i
  BY <1>3 DEF Table, Consolidates
<1> QED
  BY <1>2, <1>3, <1>4

LEMMA EveryAddressOnce ==
  ASSUME NEW all, Table(all)
  PROVE  EachAddressOnce
<1>1. ASSUME NEW a \in Serials \cup Announced
      PROVE  Cardinality(Holding(a)) = 1
  <2>1. PICK k \in DOMAIN all : a = At(all[k])
    BY RowsAreKnown
  <2>2. PICK i \in DOMAIN rows : Holding(a) = {i}
    BY <2>1, HoldingIsOne
  <2> QED
    BY <2>2, FS_Singleton
<1>2. ASSUME NEW i \in DOMAIN rows
      PROVE  /\ Elements(rows[i].addresses) \subseteq Serials \cup Announced
             /\ Cardinality(Elements(rows[i].addresses)) = Len(rows[i].addresses)
  <2> DEFINE s == rows[i].addresses
             f == [p \in 1..Len(s) |-> s[p]]
  <2>1. s \in Seq(ID \cup (Host \X Port)) /\ DOMAIN s = 1..Len(s) /\ Len(s) \in Nat
    <3>1. rows[i] \in managedDevice
      BY DEF Table, Consolidates
    <3> QED
      BY <3>1 DEF managedDevice
  <2>2. Elements(s) = {At(all[m]) : m \in Alike(all, Len(all), rows[i].id)}
    BY DEF Table, Consolidates, Sums
  <2>3. Elements(s) \subseteq Serials \cup Announced
    <3>1. Alike(all, Len(all), rows[i].id) \subseteq DOMAIN all
      BY TableParts DEF Alike
    <3>2. \A m \in DOMAIN all : At(all[m]) \in Serials \cup Announced
      BY RowsAreKnown
    <3> HIDE DEF s
    <3> QED
      BY <2>2, <3>1, <3>2
  <2>4. \A p, q \in DOMAIN s : s[p] = s[q] => p = q
    BY DEF Table, Consolidates, Sums
  <2> HIDE DEF s
  <2>5. f \in Bijection(1..Len(s), Elements(s))
    BY <2>1, <2>4 DEF Elements, Bijection, Injection, Surjection, IsInjective
  <2>6. ExistsBijection(1..Len(s), Elements(s))
    BY <2>5 DEF ExistsBijection
  <2>7. IsFiniteSet(1..Len(s)) /\ Cardinality(1..Len(s)) = Len(s)
    <3>1. Len(s) \in Nat
      BY <2>1
    <3>2. 1 \in Int /\ Len(s) \in Int
      BY <3>1
    <3>3. IsFiniteSet(1..Len(s)) /\ Cardinality(1..Len(s)) = IF 1 > Len(s) THEN 0 ELSE Len(s) - 1 + 1
      BY <3>2, FS_Interval
    <3> QED
      BY <3>1, <3>3
  <2>8. Cardinality(Elements(s)) = Len(s)
    BY <2>6, <2>7, FS_Bijection
  <2> QED
    BY <2>3, <2>8 DEF s
<1> QED
  BY <1>1, <1>2 DEF EachAddressOnce

LEMMA RowsAreDevices ==
  ASSUME NEW all, Table(all)
  PROVE  OneRowPerDevice
<1> SUFFICES ASSUME NEW a \in Serials \cup Announced, NEW b \in Serials \cup Announced
             PROVE  Holding(a) = Holding(b) <=> Owner(a) = Owner(b)
  BY DEF OneRowPerDevice
<1>1. PICK j \in DOMAIN all : a = At(all[j])
  BY RowsAreKnown
<1>2. PICK k \in DOMAIN all : b = At(all[k])
  BY RowsAreKnown
<1>3. all[j].id = Owner(a) /\ all[k].id = Owner(b)
  BY <1>1, <1>2, IdIsOwner
<1>4. /\ Holding(a) = {i \in DOMAIN rows : rows[i].id = Owner(a)}
      /\ Holding(b) = {i \in DOMAIN rows : rows[i].id = Owner(b)}
      /\ \E i \in DOMAIN rows : Holding(a) = {i}
  BY <1>1, <1>2, <1>3, HoldingIsOne
<1> QED
  BY <1>4

\* The transports of adb that went into a row.
LEMMA KnownRows ==
  ASSUME NEW all, Table(all), NEW i \in DOMAIN rows
  PROVE  {k \in DOMAIN connected : connected[k].serial \in Elements(rows[i].addresses)}
           = Alike(all, Len(all), rows[i].id) \cap DOMAIN connected
<1>1. ASSUME NEW k \in DOMAIN connected
      PROVE  connected[k].serial \in Elements(rows[i].addresses) <=> all[k].id = rows[i].id
  <2>1. connected[k].serial = At(all[k]) /\ k \in DOMAIN all
    BY TableParts DEF Table, Announces
  <2>2. At(all[k]) \in Elements(rows[i].addresses) <=> i \in Holding(At(all[k]))
    BY DEF Holding
  <2> QED
    BY <2>1, <2>2, HoldingIsOne
<1> QED
  BY <1>1, TableParts DEF Alike

LEMMA AdbIsBelieved ==
  ASSUME NEW all, Table(all)
  PROVE  KeepsWhatAdbKnows
<1> SUFFICES ASSUME NEW i \in DOMAIN rows
             PROVE  LET known == {k \in DOMAIN connected : connected[k].serial \in Elements(rows[i].addresses)}
                    IN  /\ rows[i].status = "discovered" <=> known = {}
                        /\ rows[i].status = "connected" <=> \E k \in known : connected[k].state = "device"
                        /\ known # {} /\ rows[i].status # "connected" =>
                             \E k \in known : connected[k].state = rows[i].status
                        /\ rows[i].name # NoModel <=> \E k \in known : connected[k].model # NoModel
  BY DEF KeepsWhatAdbKnows
<1> DEFINE known == {k \in DOMAIN connected : connected[k].serial \in Elements(rows[i].addresses)}
           K     == Alike(all, Len(all), rows[i].id)
<1>1. known = K \cap DOMAIN connected
  BY KnownRows
<1>2. /\ K # {} /\ K \subseteq DOMAIN all
      /\ rows[i].status = "connected" <=> \E k \in K : all[k].status = "connected"
      /\ rows[i].status # "connected" => \E k \in K : rows[i].status = all[k].status /\ \A m \in K : k <= m
      /\ rows[i].name = NoModel <=> \A k \in K : all[k].name = NoModel
  BY TableParts DEF Alike, Table, Consolidates, Sums
<1> HIDE DEF known, K
<1>3. ASSUME NEW k \in DOMAIN connected
      PROVE  /\ all[k].name = connected[k].model
             /\ all[k].status # "discovered"
             /\ all[k].status = "connected" <=> connected[k].state = "device"
             /\ all[k].status # "connected" => all[k].status = connected[k].state
  <2>1. connected[k] \in DeviceEntry
    BY DEF Table, Mergeable
  <2>2. all[k].name = connected[k].model /\ all[k].status = rowOf(connected[k]).status
    BY DEF Table, Announces
  <2> QED
    BY <2>1, <2>2 DEF rowOf, DeviceEntry
<1>4. \A k \in DOMAIN all \ DOMAIN connected : all[k].status = "discovered" /\ all[k].name = NoModel
  BY DEF Table, Announces
<1>5. \A k \in K, m \in DOMAIN connected : k <= m => k \in DOMAIN connected
  BY <1>2, TableParts
<1>6. rows[i].status = "connected" <=> \E k \in known : connected[k].state = "device"
  BY <1>1, <1>2, <1>3, <1>4
<1>7. rows[i].name # NoModel <=> \E k \in known : connected[k].model # NoModel
  BY <1>1, <1>2, <1>3, <1>4
<1>8. ASSUME rows[i].status # "connected"
      PROVE  /\ known = {} => rows[i].status = "discovered"
             /\ known # {} => \E k \in known : connected[k].state = rows[i].status /\ rows[i].status # "discovered"
  <2>1. PICK k \in K : rows[i].status = all[k].status /\ \A m \in K : k <= m
    BY <1>2, <1>8
  <2>2. CASE known = {}
    BY <1>1, <1>2, <1>4, <2>1, <2>2
  <2>3. CASE known # {}
    <3>1. k \in known
      BY <1>1, <1>5, <2>1, <2>3
    <3> QED
      BY <1>1, <1>3, <1>8, <2>1, <3>1
  <2> QED
    BY <2>2, <2>3
<1>9. known = {} => rows[i].status # "connected"
  BY <1>6
<1> QED
  BY <1>6, <1>7, <1>8, <1>9 DEF known

\* An announced address is in the row of a device exactly when its instance has that id.
LEMMA IdOfAnnounced ==
  ASSUME NEW all, Table(all), NEW j \in DOMAIN announced, NEW id \in ID
  PROVE  /\ endpointID[announced[j].inst] = id <=> Owner(Addr(announced[j])) = id
         /\ announced[j] \in Endpoint
<1>1. announced[j] \in Endpoint /\ Addr(announced[j]) \in Host \X Port
  <2>1. announced[j] \in Endpoint
    BY DEF Table, Mergeable
  <2> QED
    BY <2>1 DEF Addr, Endpoint
<1>2. PICK k \in DOMAIN all : At(all[k]) = Addr(announced[j])
  BY TableParts DEF Table, Announces
<1>3. all[k].id = idOf(announced[j], Addr(announced[j]))
  BY <1>2, TableParts DEF Table, Announces
<1>4. Owner(Addr(announced[j])) = idOf(announced[j], Addr(announced[j]))
  BY <1>2, <1>3, IdIsOwner
<1>5. id # NoID /\ id \notin Host \X Port
  BY SelectionAssumption, DevicesAssumption DEF Selector
<1> QED
  BY <1>1, <1>4, <1>5 DEF idOf

\* An id selects the endpoints whose instance has it, and no others.
LEMMA MatchingId ==
  ASSUME NEW all, Table(all), NEW id \in ID
  PROVE  /\ Elements(selectEndpoints(announced, id)) = {ep \in Elements(announced) : endpointID[ep.inst] = id}
<1>1. announced \in Seq(Endpoint)
  BY DEF Table, Mergeable
<1>2. /\ id \notin {NoDevice, BlankDevice} /\ id \notin Instance
      /\ id \notin Host \X Port /\ \A h \in Host : id # <<h>>
  BY DevicesAssumption
<1>3. \A ep \in Elements(announced) : ep \in Endpoint
  BY <1>1 DEF Elements
<1>4. \A ep \in Endpoint : ep.inst \in Instance /\ ep.host \in Host /\ Addr(ep) \in Host \X Port
  BY DEF Endpoint, Addr
<1>5. \A ep \in Elements(announced) : id \in candidates(ep) <=> endpointID[ep.inst] = id
  BY <1>2, <1>3, <1>4 DEF candidates
<1>6. Matching(announced, id) = {ep \in Elements(announced) : endpointID[ep.inst] = id}
  BY <1>5 DEF Matching
<1>7. selectEndpoints(announced, id) = Keep(announced, Matching(announced, id))
  BY <1>2 DEF selectEndpoints
<1>8. Elements(Keep(announced, Matching(announced, id))) = Elements(announced) \cap Matching(announced, id)
  BY <1>1, KeepSound
<1> QED
  BY <1>6, <1>7, <1>8

\* The row that an address is in is that of its device.
LEMMA InRowOfOwner ==
  ASSUME NEW all, Table(all), NEW a \in Serials \cup Announced
  PROVE  /\ \E i \in DOMAIN rows : a \in Elements(rows[i].addresses)
         /\ \A i \in DOMAIN rows : a \in Elements(rows[i].addresses) <=> rows[i].id = Owner(a)
<1>1. PICK k \in DOMAIN all : a = At(all[k])
  BY RowsAreKnown
<1>2. all[k].id = Owner(a)
  BY <1>1, IdIsOwner
<1>3. Holding(a) = {i \in DOMAIN rows : rows[i].id = Owner(a)} /\ \E i \in DOMAIN rows : Holding(a) = {i}
  BY <1>1, <1>2, HoldingIsOne
<1> QED
  BY <1>3 DEF Holding

\* A row whose id is an address has that address.
LEMMA AddressAsId ==
  ASSUME NEW all, Table(all), NEW i \in DOMAIN rows, rows[i].id \in Host \X Port
  PROVE  rows[i].id \in Elements(rows[i].addresses)
<1>1. /\ Elements(rows[i].addresses) = {At(all[k]) : k \in Alike(all, Len(all), rows[i].id)}
      /\ Alike(all, Len(all), rows[i].id) # {}
  BY DEF Table, Consolidates, Sums
<1>2. PICK k \in DOMAIN all : all[k].id = rows[i].id /\ At(all[k]) \in Elements(rows[i].addresses)
  BY <1>1, TableParts DEF Alike
<1>3. CASE \A j \in 1..Len(announced) : Addr(announced[j]) # At(all[k])
  BY <1>2, <1>3 DEF Table, Announces
<1>4. CASE \E j \in 1..Len(announced) : Addr(announced[j]) = At(all[k])
  <2>1. PICK j \in 1..Len(announced) : Addr(announced[j]) = At(all[k])
    BY <1>4
  <2>2. all[k].id = idOf(announced[j], At(all[k]))
    BY <2>1 DEF Table, Announces
  <2>3. announced[j].inst \in Instance
    <3>1. announced[j] \in Endpoint
      BY TableParts DEF Table, Mergeable
    <3> QED
      BY <3>1 DEF Endpoint
  <2>4. endpointID[announced[j].inst] \in ID \cup {NoID}
    BY <2>3, SelectionAssumption
  <2>5. rows[i].id \notin ID
    BY DevicesAssumption
  <2> QED
    BY <1>2, <2>2, <2>4, <2>5 DEF idOf
<1> QED
  BY <1>3, <1>4

LEMMA IdsSelect ==
  ASSUME NEW all, Table(all)
  PROVE  IdSelectsItsRow
<1>1. ASSUME NEW i \in DOMAIN rows, rows[i].id \notin Host \X Port
      PROVE  {Addr(ep) : ep \in Elements(selectEndpoints(announced, rows[i].id))}
               = Elements(rows[i].addresses) \cap Announced
  <2> DEFINE id == rows[i].id
  <2>1. id \in ID
    <3>1. rows[i] \in managedDevice
      BY DEF Table, Consolidates
    <3> QED
      BY <1>1, <3>1 DEF managedDevice
  <2>2. {Addr(ep) : ep \in Elements(selectEndpoints(announced, id))}
          = {Addr(announced[j]) : j \in {m \in DOMAIN announced : endpointID[announced[m].inst] = id}}
    BY <2>1, MatchingId DEF Elements
  <2>3. \A j \in DOMAIN announced :
          endpointID[announced[j].inst] = id <=> Addr(announced[j]) \in Elements(rows[i].addresses)
    <3> SUFFICES ASSUME NEW j \in DOMAIN announced
                 PROVE  endpointID[announced[j].inst] = id <=> Addr(announced[j]) \in Elements(rows[i].addresses)
      OBVIOUS
    <3>1. endpointID[announced[j].inst] = id <=> Owner(Addr(announced[j])) = id
      BY <2>1, IdOfAnnounced
    <3>2. Addr(announced[j]) \in Serials \cup Announced
      BY DEF Announced
    <3>3. Addr(announced[j]) \in Elements(rows[i].addresses) <=> id = Owner(Addr(announced[j]))
      BY <3>2, InRowOfOwner
    <3> QED
      BY <3>1, <3>3
  <2> HIDE DEF id
  <2>4. {Addr(announced[j]) : j \in {m \in DOMAIN announced : endpointID[announced[m].inst] = id}}
          = Elements(rows[i].addresses) \cap Announced
    BY <2>3 DEF Announced
  <2> QED
    BY <2>2, <2>4 DEF id
<1>2. \A i \in DOMAIN rows : rows[i].id \in Host \X Port => rows[i].id \in Elements(rows[i].addresses)
  BY AddressAsId
<1> QED
  BY <1>1, <1>2 DEF IdSelectsItsRow

LEMMA FilterAgrees ==
  ASSUME NEW all, Table(all), shown = selectManagedDevices(rows)
  PROVE  FilterAgreesWithConnect
<1> SUFFICES ASSUME filter \in ID \cup (Host \X Port),
                    NEW ep \in Elements(selectEndpoints(announced, filter))
             PROVE  \E i \in DOMAIN shown : Addr(ep) \in Elements(shown[i].addresses)
  BY DEF FilterAgreesWithConnect
<1>1. announced \in Seq(Endpoint) /\ rows \in Seq(managedDevice)
  BY DEF Table, Mergeable, Consolidates
<1>2. ep \in Elements(announced) /\ (filter \notin {NoDevice, BlankDevice} => filter \in candidates(ep))
  <2>1. CASE filter \in {NoDevice, BlankDevice}
    BY <2>1 DEF selectEndpoints
  <2>2. CASE filter \notin {NoDevice, BlankDevice}
    <3>1. ep \in Elements(Keep(announced, Matching(announced, filter)))
      BY <2>2 DEF selectEndpoints
    <3>2. ep \in Matching(announced, filter)
      BY <1>1, <3>1, KeepSound
    <3> QED
      BY <3>2 DEF Matching
  <2> QED
    BY <2>1, <2>2
<1>3. PICK j \in DOMAIN announced : ep = announced[j]
  BY <1>2 DEF Elements
<1>4. ep \in Endpoint /\ Addr(ep) \in Serials \cup Announced
  BY <1>1, <1>3 DEF Announced
<1>5. PICK i \in DOMAIN rows : Addr(ep) \in Elements(rows[i].addresses) /\ rows[i].id = Owner(Addr(ep))
  BY <1>4, InRowOfOwner
<1>6. CASE filter \in {NoDevice, BlankDevice}
  <2>1. shown = rows
    BY <1>6 DEF selectManagedDevices
  <2> QED
    BY <1>5, <2>1
<1>7. CASE filter \notin {NoDevice, BlankDevice}
  <2> DEFINE S == {row \in Elements(rows) :
                     filter \in {row.id, row.inst, row.name} \cup Elements(row.addresses)}
  <2>1. Elements(shown) = Elements(rows) \cap S
    <3>1. shown = Keep(rows, S)
      BY <1>7 DEF selectManagedDevices
    <3> HIDE DEF S
    <3> QED
      BY <1>1, <3>1, KeepSound
  <2>2. filter \in {rows[i].id} \cup Elements(rows[i].addresses)
    <3>1. ep.inst \in Instance /\ ep.host \in Host /\ Addr(ep) \in Host \X Port
      BY <1>4 DEF Endpoint, Addr
    <3>2. CASE filter \in ID
      <4>1. filter \notin Instance /\ filter # Addr(ep) /\ filter # <<ep.host>>
        BY <3>1, <3>2, DevicesAssumption
      <4>2. endpointID[ep.inst] = filter
        BY <1>2, <1>7, <3>1, <4>1 DEF candidates
      <4> QED
        BY <1>3, <1>5, <3>2, <4>2, IdOfAnnounced
    <3>3. CASE filter \in Host \X Port
      <4>1. filter \notin Instance /\ filter # NoID /\ filter \notin ID
        BY <3>3, DevicesAssumption, SelectionAssumption DEF Selector
      <4>2. endpointID[ep.inst] \in ID \cup {NoID}
        BY <3>1, SelectionAssumption
      <4>3. filter # <<ep.host>>
        BY <3>3
      <4>4. filter = Addr(ep)
        BY <1>2, <1>7, <3>1, <4>1, <4>2, <4>3 DEF candidates
      <4> QED
        BY <1>5, <4>4
    <3> QED
      BY <3>2, <3>3
  <2>3. rows[i] \in Elements(rows) /\ rows[i] \in S
    BY <2>2 DEF Elements
  <2> HIDE DEF S
  <2>4. rows[i] \in Elements(shown)
    BY <2>1, <2>3
  <2> QED
    BY <1>5, <2>4 DEF Elements
<1> QED
  BY <1>6, <1>7

----------------------------------------------------------------------------
(* The invariant. *)

\* What was listed and announced can be merged, and the table is made of it.
DevicesInv ==
  /\ connected \in Lists \cup {<<>>}
  /\ announced \in Discoverable \cup {<<>>}
  /\ step = "shown" =>
       rows = mergeManagedDevices(connected, announced) /\ shown = selectManagedDevices(rows)

LEMMA DevicesInvariant == DevicesSpec => []DevicesInv
<1>1. DevicesInit => DevicesInv
  BY DEF DevicesInit, DevicesInv
<1>2. DevicesInv /\ [DevicesNext]_dvars => DevicesInv'
  <2> SUFFICES ASSUME DevicesInv, [DevicesNext]_dvars PROVE DevicesInv'
    OBVIOUS
  <2> USE DEF DevicesInv
  <2>1. CASE \E list \in Lists : List(list)
    BY <2>1 DEF List
  <2>2. CASE ListFails
    BY <2>2 DEF ListFails
  <2>3. CASE \E eps \in Discoverable \cup {<<>>} : Scanned(eps)
    <3>1. PICK eps \in Discoverable \cup {<<>>} : Scanned(eps)
      BY <2>3
    <3> QED
      BY <3>1 DEF Scanned, selectManagedDevices
  <2>4. CASE DevicesDone \/ UNCHANGED dvars
    BY <2>4 DEF DevicesDone, dvars, selectManagedDevices
  <2> QED
    BY <2>1, <2>2, <2>3, <2>4 DEF DevicesNext
<1> QED
  BY <1>1, <1>2, PTL DEF DevicesSpec

LEMMA TableSound ==
  ASSUME DevicesInv, step = "shown"
  PROVE  /\ Table(mergeByAddress(connected, announced))
         /\ shown = selectManagedDevices(rows)
<1>1. connected \in Seq(DeviceEntry) /\ \A i, j \in DOMAIN connected : connected[i].serial = connected[j].serial => i = j
  <2>1. CASE connected \in Lists
    BY <2>1, DevicesAssumption
  <2>2. CASE connected = <<>>
    BY <2>2
  <2> QED
    BY <2>1, <2>2 DEF DevicesInv
<1>2. announced \in Seq(Endpoint) /\ Distinct(announced)
  <2>1. CASE announced \in Discoverable
    BY <2>1, SelectionAssumption DEF Distinct
  <2>2. CASE announced = <<>>
    BY <2>2 DEF Distinct
  <2> QED
    BY <2>1, <2>2 DEF DevicesInv
<1>3. Mergeable(connected, announced)
  BY <1>1, <1>2 DEF Mergeable
<1> DEFINE all == mergeByAddress(connected, announced)
<1>4. Announces(all, connected, announced, Len(announced))
  BY <1>3, ByAddressSound
<1>5. rows = consolidate(all)
  BY DEF DevicesInv, mergeManagedDevices
<1> HIDE DEF all
<1>6. Consolidates(rows, all, Len(all))
  BY <1>4, <1>5, ConsolidateSound DEF Announces
<1>7. Table(all)
  BY <1>3, <1>4, <1>6 DEF Table
<1> QED
  BY <1>7 DEF DevicesInv, all

\* However often the merges see a device - on USB, on Wi-Fi, under ports it had before -
\* every address that adb or the scan knows is in the table once.
THEOREM AddressesAreKept == DevicesSpec => []EachAddressOnce
<1>1. DevicesInv => EachAddressOnce
  BY TableSound, EveryAddressOnce DEF EachAddressOnce
<1> QED
  BY <1>1, DevicesInvariant, PTL

\* Two addresses are in one row of the table exactly when they belong to one device.
THEOREM RowsAreTheDevices == DevicesSpec => []OneRowPerDevice
<1>1. DevicesInv => OneRowPerDevice
  BY TableSound, RowsAreDevices DEF OneRowPerDevice
<1> QED
  BY <1>1, DevicesInvariant, PTL

\* A row has the state and the model that adb gives any transport of the device, in
\* whatever order it lists them, and is discovered only if adb lists none.
THEOREM AdbStateIsKept == DevicesSpec => []KeepsWhatAdbKnows
<1>1. DevicesInv => KeepsWhatAdbKnows
  BY TableSound, AdbIsBelieved DEF KeepsWhatAdbKnows
<1> QED
  BY <1>1, DevicesInvariant, PTL

\* The id of a row selects the announced addresses of that row, and no others, when it
\* is given to connect.
THEOREM ShownIdsSelect == DevicesSpec => []IdSelectsItsRow
<1>1. DevicesInv => IdSelectsItsRow
  BY TableSound, IdsSelect DEF IdSelectsItsRow
<1> QED
  BY <1>1, DevicesInvariant, PTL

\* What connect would connect for an id or an address, the table filtered by it shows.
THEOREM FilterShowsTheSelected == DevicesSpec => []FilterAgreesWithConnect
<1>1. DevicesInv => FilterAgreesWithConnect
  BY TableSound, FilterAgrees DEF FilterAgreesWithConnect
<1> QED
  BY <1>1, DevicesInvariant, PTL

===================================================================================
