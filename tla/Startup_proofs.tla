---------------------------- MODULE Startup_proofs ----------------------------
(***************************************************************************)
(* The start of a run.  The credentials of a QR code, for every number of  *)
(* byte values and every alphabet: each character is as likely as every    *)
(* other, and none is made from a byte that was used before.  The command  *)
(* line, for every line and environment: a loop over it has a state after  *)
(* each token, and these say what the loop has found out up to there,      *)
(* SortedUpTo, ReadUpTo and LookUpTo; what the flags are read to hold, and *)
(* how the run is reported, is what the line says when it is read whole.   *)
(***************************************************************************)
EXTENDS Startup, Endpoints_proofs, FiniteSetTheorems

----------------------------------------------------------------------------
(* Rejection. *)

\* Division with a remainder.
LEMMA Division ==
  ASSUME NEW n \in Nat, NEW m \in Nat \ {0}
  PROVE  /\ n \div m \in Nat
         /\ n % m \in 0..(m - 1)
         /\ n = m * (n \div m) + (n % m)
  OBVIOUS

\* The remainder of what is a multiple and a bit more.
LEMMA Remainder ==
  ASSUME NEW m \in Nat \ {0}, NEW k \in Nat, NEW d \in 0..(m - 1)
  PROVE  (m * k + d) % m = d
  OBVIOUS

\* Nothing wraps: the limit is the last multiple of the alphabet's length.
LEMMA LimitIsMultiple ==
  ASSUME alphabet \in Alphabets
  PROVE  /\ alphabet \in Nat \ {0} /\ max = alphabet
         /\ Bytes % alphabet \in 1..(alphabet - 1)
         /\ limit \in 1..(Bytes - 1)
         /\ limit = Bytes - (Bytes % alphabet)
         /\ limit = alphabet * (Bytes \div alphabet)
<1>1. /\ Bytes \in Nat /\ alphabet \in 1..(Bytes - 1)
      /\ Bytes % alphabet # 0
  BY CredentialsAssumption
<1>2. max = alphabet
  BY <1>1 DEF max
<1>3. /\ Bytes = alphabet * (Bytes \div alphabet) + (Bytes % alphabet)
      /\ Bytes % alphabet \in 0..(alphabet - 1)
      /\ Bytes \div alphabet \in Nat
  <2>1. Bytes \in Nat /\ alphabet \in Nat \ {0}
    BY <1>1
  <2> QED
    BY <2>1, Division
<1>4. Bytes - (Bytes % alphabet) \in 1..(Bytes - 1)
  BY <1>1, <1>3
<1>5. limit = Bytes - (Bytes % alphabet)
  BY <1>1, <1>2, <1>4 DEF limit
<1>6. Bytes - (Bytes % alphabet) = alphabet * (Bytes \div alphabet)
  BY <1>1, <1>3
<1> QED
  BY <1>1, <1>2, <1>3, <1>4, <1>5, <1>6

\* A byte moves from one character to another by the distance between them.
LEMMA YieldingMoves ==
  ASSUME alphabet \in Alphabets, NEW c \in 0..(alphabet - 1), NEW d \in 0..(alphabet - 1),
         NEW b \in Yielding(c)
  PROVE  b - c + d \in Yielding(d)
<1> DEFINE k == b \div alphabet
           q == Bytes \div alphabet
<1>1. /\ alphabet \in Nat \ {0} /\ Bytes \in Nat /\ limit \in 1..(Bytes - 1)
      /\ max = alphabet /\ limit = alphabet * q
  BY LimitIsMultiple, CredentialsAssumption
<1>2. b \in Nat /\ b < limit /\ b % alphabet = c
  BY <1>1 DEF Yielding, Byte, rejected
<1>3. k \in Nat /\ q \in Nat /\ b = alphabet * k + c
  BY <1>1, <1>2, Division
<1> HIDE DEF k, q
<1>4. k + 1 <= q
  <2>1. alphabet * k < alphabet * q
    BY <1>1, <1>2, <1>3
  <2> QED
    BY <1>1, <1>3, <2>1
<1>5. alphabet * k + alphabet <= limit
  <2>1. alphabet * (k + 1) <= alphabet * q
    BY <1>1, <1>3, <1>4
  <2> QED
    BY <1>1, <1>3, <2>1
<1>6. alphabet * k \in Nat /\ b - c + d = alphabet * k + d
  BY <1>1, <1>3
<1>7. b - c + d \in Nat /\ b - c + d < limit
  BY <1>1, <1>5, <1>6
<1>8. (b - c + d) % alphabet = d
  BY <1>1, <1>3, <1>6, Remainder
<1> QED
  BY <1>1, <1>7, <1>8 DEF Yielding, Byte, rejected

\* Two characters come from equally many byte values.
LEMMA EquallyMany ==
  ASSUME alphabet \in Alphabets, NEW c \in 0..(alphabet - 1), NEW d \in 0..(alphabet - 1)
  PROVE  Cardinality(Yielding(c)) = Cardinality(Yielding(d))
<1> DEFINE move == [b \in Yielding(c) |-> b - c + d]
<1>1. alphabet \in Nat \ {0} /\ Bytes \in Nat
  BY LimitIsMultiple, CredentialsAssumption
<1>2. \A e : Yielding(e) \subseteq 0..(Bytes - 1)
  BY DEF Yielding, Byte
<1>3. move \in [Yielding(c) -> Yielding(d)]
  BY YieldingMoves
<1>4. ASSUME NEW a \in Yielding(c), NEW b \in Yielding(c), move[a] = move[b] PROVE a = b
  BY <1>1, <1>2, <1>4
<1>5. ASSUME NEW b \in Yielding(d) PROVE \E a \in Yielding(c) : move[a] = b
  <2>1. b - d + c \in Yielding(c)
    BY YieldingMoves
  <2>2. move[b - d + c] = b
    BY <1>1, <1>2, <2>1
  <2> QED
    BY <2>1, <2>2
<1> HIDE DEF move
<1>6. move \in Bijection(Yielding(c), Yielding(d))
  BY <1>3, <1>4, <1>5 DEF Bijection, Injection, Surjection, IsInjective
<1>7. ExistsBijection(Yielding(c), Yielding(d))
  BY <1>6 DEF ExistsBijection
<1>8. IsFiniteSet(Yielding(c))
  <2>1. IsFiniteSet(0..(Bytes - 1))
    BY <1>1, FS_Interval
  <2> QED
    BY <1>2, <2>1, FS_Subset
<1> QED
  BY <1>7, <1>8, FS_Bijection

\* Fewer are rejected than there are characters.
LEMMA FewRejected ==
  ASSUME alphabet \in Alphabets
  PROVE  Cardinality({b \in Byte : rejected(b)}) < alphabet
<1>1. /\ limit \in 1..(Bytes - 1) /\ Bytes \in Nat /\ alphabet \in Nat
      /\ limit = Bytes - (Bytes % alphabet) /\ Bytes % alphabet \in 1..(alphabet - 1)
  BY LimitIsMultiple, CredentialsAssumption
<1>2. {b \in Byte : rejected(b)} = limit..(Bytes - 1)
  BY <1>1 DEF Byte, rejected
<1>3. ASSUME NEW l \in Int, NEW h \in Int, l <= h
      PROVE  Cardinality(l..h) = h - l + 1
  <2>1. Cardinality(l..h) = IF l > h THEN 0 ELSE h - l + 1
    BY FS_Interval
  <2> QED
    BY <1>3, <2>1
<1>4. Cardinality(limit..(Bytes - 1)) = (Bytes - 1) - limit + 1
  <2>1. limit \in Int /\ Bytes - 1 \in Int /\ limit <= Bytes - 1
    BY <1>1
  <2> QED
    BY <1>3, <2>1
<1>5. (Bytes - 1) - limit + 1 < alphabet
  BY <1>1
<1>6. Cardinality(limit..(Bytes - 1)) < alphabet
  BY <1>4, <1>5
<1> QED
  BY <1>2, <1>6, Zenon

\* The alphabet is one of the program's, and no step changes it.
LEMMA AlphabetStays ==
  /\ StartupInit => alphabet \in Alphabets
  /\ alphabet \in Alphabets /\ [StartupNext]_startup => alphabet' = alphabet
<1>1. StartupInit => alphabet \in Alphabets
  BY DEF StartupInit, CredentialsInit
<1>2. ASSUME [StartupNext]_startup PROVE alphabet' = alphabet
  BY <1>2 DEF StartupNext, Startup, GenerateCredentials, Generate, Fill, FillFails, Reject,
              Accept, Complete, RunSucceeds, RunFails, Exited, startup, credVars
<1> QED
  BY <1>1, <1>2

\* Every character of a credential is as likely as every other, for any alphabet whose
\* length does not divide the number of byte values; and the bytes that have to be drawn
\* again are as few as can be.
THEOREM CredentialsAreUnbiased == StartupSpec => []Unbiased
<1>1. alphabet \in Alphabets => Unbiased
  BY EquallyMany, FewRejected DEF Unbiased
<1>2. alphabet \in Alphabets /\ [StartupNext]_startup => (alphabet \in Alphabets)'
  BY AlphabetStays
<1> QED
  BY <1>1, <1>2, AlphabetStays, PTL DEF StartupSpec

----------------------------------------------------------------------------
(* No byte is used twice. *)

\* from tells, of each character in s, the byte of d it was made from, among the
\* first n.
MadeFrom(s, d, n, from) ==
  /\ from \in [DOMAIN s -> 1..n]
  /\ \A i \in DOMAIN s : d[from[i]] \in Yielding(s[i])
  /\ \A i, j \in DOMAIN s : i < j => from[i] < from[j]

\* The bytes looked at.
looked == Len(drawn) - Len(buf) + pos

\* The buffer holds the bytes drawn last.
Buffered ==
  /\ Len(buf) <= Len(drawn)
  /\ \A k \in DOMAIN buf : drawn[Len(drawn) - Len(buf) + k] = buf[k]

\* What is not in the making is empty or finished.
InTurn ==
  /\ making = "name" => made["name"] = <<>>
  /\ making \in Credential => made["password"] = <<>>

\* OwnByteEach alone says nothing of the bytes still in the buffer: the next character
\* is made from one of them, which therefore must not have been looked at.
CredentialsInv ==
  /\ CredentialsTypeOK
  /\ Buffered
  /\ InTurn
  /\ \E from : MadeFrom(soFar, drawn, looked, from)

\* One more character, from a later byte.
LEMMA OneMore ==
  ASSUME NEW C, NEW s \in Seq(C), NEW c \in C, NEW d, NEW n \in Nat, NEW m \in Nat, n < m,
         NEW from, MadeFrom(s, d, n, from), d[m] \in Yielding(c)
  PROVE  \E g : MadeFrom(Append(s, c), d, m, g)
<1> DEFINE t == Append(s, c)
           g == [i \in DOMAIN t |-> IF i \in DOMAIN s THEN from[i] ELSE m]
<1>1. /\ Len(t) = Len(s) + 1 /\ Len(s) \in Nat
      /\ DOMAIN t = 1..(Len(s) + 1) /\ DOMAIN s = 1..Len(s)
      /\ \A i \in DOMAIN s : t[i] = s[i]
      /\ t[Len(s) + 1] = c
  OBVIOUS
<1>2. \A i \in DOMAIN s : from[i] \in 1..n
  BY DEF MadeFrom
<1>3. \A i \in DOMAIN s : g[i] = from[i]
  BY <1>1
<1>4. g[Len(s) + 1] = m
  BY <1>1
<1>5. g \in [DOMAIN t -> 1..m]
  BY <1>1, <1>2
<1>6. \A i \in DOMAIN t : i \in DOMAIN s \/ i = Len(s) + 1
  BY <1>1
<1> HIDE DEF t, g
<1>7. ASSUME NEW i \in DOMAIN t PROVE d[g[i]] \in Yielding(t[i])
  <2>1. CASE i \in DOMAIN s
    <3>1. d[from[i]] \in Yielding(s[i])
      BY <2>1 DEF MadeFrom
    <3> QED
      BY <1>1, <1>3, <2>1, <3>1
  <2>2. CASE i = Len(s) + 1
    BY <1>1, <1>4, <2>2
  <2> QED
    BY <1>6, <2>1, <2>2
<1>8. ASSUME NEW i \in DOMAIN t, NEW j \in DOMAIN t, i < j PROVE g[i] < g[j]
  <2>1. i \in DOMAIN s
    BY <1>1, <1>6, <1>8
  <2>2. CASE j \in DOMAIN s
    <3>1. from[i] < from[j]
      BY <1>8, <2>1, <2>2 DEF MadeFrom
    <3> QED
      BY <1>3, <2>1, <2>2, <3>1
  <2>3. CASE j = Len(s) + 1
    BY <1>2, <1>3, <1>4, <2>1, <2>3
  <2> QED
    BY <1>6, <2>2, <2>3
<1>9. MadeFrom(t, d, m, g)
  BY <1>5, <1>7, <1>8 DEF MadeFrom
<1> QED
  BY <1>9 DEF t

\* Bytes drawn, or looked at, later change nothing.
LEMMA MoreBytes ==
  ASSUME NEW s, NEW d \in Seq(Byte), NEW e \in Seq(Byte), NEW n \in Nat, NEW m \in Nat,
         n <= m, n <= Len(d), NEW from, MadeFrom(s, d, n, from)
  PROVE  MadeFrom(s, d \o e, m, from)
<1>1. \A i \in DOMAIN s : from[i] \in 1..n
  BY DEF MadeFrom
<1>2. \A k \in 1..n : (d \o e)[k] = d[k]
  OBVIOUS
<1>3. from \in [DOMAIN s -> 1..m]
  BY DEF MadeFrom
<1>4. \A i \in DOMAIN s : (d \o e)[from[i]] = d[from[i]]
  BY <1>1, <1>2
<1> QED
  BY <1>3, <1>4 DEF MadeFrom

\* What a step that leaves the alphabet alone leaves of the meaning of a byte.
LEMMA SameYield ==
  ASSUME alphabet' = alphabet
  PROVE  /\ \A c : Yielding(c)' = Yielding(c)
         /\ \A s, d, n, from : MadeFrom(s, d, n, from)' <=> MadeFrom(s, d, n, from)
<1>1. \A c : Yielding(c)' = Yielding(c)
  BY DEF Yielding, rejected, limit, max
<1> QED
  BY <1>1 DEF MadeFrom

LEMMA FillStep ==
  ASSUME CredentialsInv, Fill
  PROVE  CredentialsInv'
<1>1. /\ making \in Credential /\ pos = Len(buf)
      /\ Wanted[making] \in Nat
      /\ buf' \in [1..Wanted[making] -> Byte] /\ pos' = 0 /\ drawn' = drawn \o buf'
      /\ alphabet' = alphabet /\ making' = making /\ out' = out /\ made' = made
  BY CredentialsAssumption DEF Fill, Exhausted, Byte
<1>2. buf' \in Seq(Byte) /\ drawn \in Seq(Byte) /\ buf \in Seq(Byte)
  <2>1. ASSUME NEW n \in Nat, NEW b \in [1..n -> Byte] PROVE b \in Seq(Byte)
    BY SeqDef
  <2> QED
    BY <1>1, <2>1 DEF CredentialsInv, CredentialsTypeOK
<1>3. CredentialsTypeOK'
  <2>1. drawn' \in Seq(Byte) /\ pos' \in 0..Len(buf')
    BY <1>1, <1>2
  <2> QED
    BY <1>1, <1>2, <2>1 DEF CredentialsInv, CredentialsTypeOK, Byte
<1>4. Len(drawn') = Len(drawn) + Len(buf') /\ Len(drawn) \in Nat /\ Len(buf') \in Nat
  BY <1>1, <1>2
<1>5. Buffered'
  <2>1. \A k \in DOMAIN buf' : drawn'[Len(drawn) + k] = buf'[k]
    BY <1>1, <1>2
  <2> QED
    BY <1>4, <2>1 DEF Buffered
<1>6. InTurn'
  BY <1>1 DEF CredentialsInv, InTurn
<1>7. \E from : MadeFrom(soFar, drawn, looked, from)'
  <2>1. looked = Len(drawn) /\ looked' = Len(drawn)
    BY <1>1, <1>2, <1>4 DEF looked
  <2>2. PICK from : MadeFrom(soFar, drawn, looked, from)
    BY DEF CredentialsInv
  <2>3. MadeFrom(soFar, drawn', looked', from)
    BY <1>1, <1>2, <1>4, <2>1, <2>2, MoreBytes
  <2>4. soFar' = soFar
    BY <1>1 DEF soFar
  <2> QED
    BY <1>1, <2>3, <2>4, SameYield
<1> QED
  BY <1>3, <1>5, <1>6, <1>7 DEF CredentialsInv

\* The next byte of the buffer.
LEMMA NextByte ==
  ASSUME CredentialsInv, Looking
  PROVE  /\ pos \in Nat /\ pos + 1 \in DOMAIN buf /\ pos + 1 <= Len(buf)
         /\ looked \in Nat /\ looked + 1 <= Len(drawn)
         /\ next \in Byte /\ drawn[looked + 1] = next
<1>1. /\ buf \in Seq(Byte) /\ drawn \in Seq(Byte) /\ pos \in 0..Len(buf) /\ pos < Len(buf)
      /\ Len(buf) <= Len(drawn)
  BY DEF CredentialsInv, CredentialsTypeOK, Looking, Buffered
<1>2. /\ pos \in Nat /\ pos + 1 \in DOMAIN buf /\ pos + 1 <= Len(buf)
      /\ Len(buf) \in Nat /\ Len(drawn) \in Nat
  BY <1>1
<1>3. looked \in Nat /\ looked + 1 <= Len(drawn) /\ looked + 1 = Len(drawn) - Len(buf) + (pos + 1)
  BY <1>1, <1>2 DEF looked
<1>4. drawn[Len(drawn) - Len(buf) + (pos + 1)] = buf[pos + 1]
  BY <1>2 DEF CredentialsInv, Buffered
<1>5. buf[pos + 1] \in Byte
  BY <1>1, <1>2
<1> QED
  BY <1>2, <1>3, <1>4, <1>5 DEF next

LEMMA RejectStep ==
  ASSUME CredentialsInv, Reject
  PROVE  CredentialsInv'
<1>1. /\ Looking /\ pos' = pos + 1
      /\ UNCHANGED <<alphabet, making, buf, out, made, drawn>>
  BY DEF Reject
<1>2. pos' \in 0..Len(buf)
  BY <1>1, NextByte DEF CredentialsInv, CredentialsTypeOK
<1>3. CredentialsTypeOK' /\ Buffered' /\ InTurn'
  BY <1>1, <1>2 DEF CredentialsInv, CredentialsTypeOK, Buffered, InTurn
<1>4. looked' = looked + 1
  BY <1>1, NextByte DEF CredentialsInv, CredentialsTypeOK, looked
<1>5. PICK from : MadeFrom(soFar, drawn, looked, from)
  BY DEF CredentialsInv
<1>6. MadeFrom(soFar, drawn, looked', from)
  <2>1. 1..looked \subseteq 1..looked'
    BY <1>1, <1>4, NextByte
  <2> QED
    BY <1>5, <2>1 DEF MadeFrom
<1>7. soFar' = soFar
  BY <1>1 DEF soFar
<1> QED
  BY <1>1, <1>3, <1>6, <1>7, SameYield DEF CredentialsInv

\* The character that the next byte becomes.
LEMMA NextCharacter ==
  ASSUME CredentialsInv, Looking, ~rejected(next)
  PROVE  /\ next % max \in 0..(alphabet - 1)
         /\ drawn[looked + 1] \in Yielding(next % max)
<1>1. alphabet \in Nat \ {0} /\ max = alphabet /\ Bytes \in Nat
  BY LimitIsMultiple, CredentialsAssumption DEF CredentialsInv, CredentialsTypeOK
<1>2. next \in Nat
  BY <1>1, NextByte DEF Byte
<1>3. next % max \in 0..(alphabet - 1)
  BY <1>1, <1>2, Division
<1>4. next \in Yielding(next % max)
  BY NextByte DEF Yielding
<1> QED
  BY <1>3, <1>4, NextByte

\* Whether or not it completes a credential, the character goes to the end of soFar.
LEMMA CharacterStep ==
  ASSUME CredentialsInv, Looking, ~rejected(next), alphabet' = alphabet, drawn' = drawn,
         soFar' = Append(soFar, next % max), looked' \in Nat, looked' >= looked + 1
  PROVE  \E from : MadeFrom(soFar, drawn, looked, from)'
<1>1. soFar \in Seq(0..(alphabet - 1))
  BY DEF soFar, CredentialsInv, CredentialsTypeOK, Credential
<1>2. PICK from : MadeFrom(soFar, drawn, looked, from)
  BY DEF CredentialsInv
<1>3. looked \in Nat /\ looked < looked + 1
  BY NextByte
<1>4. \E g : MadeFrom(soFar', drawn, looked', g)
  <2>1. PICK g : MadeFrom(Append(soFar, next % max), drawn, looked + 1, g)
    <3>1. looked + 1 \in Nat
      BY <1>3
    <3>2. /\ next % max \in 0..(alphabet - 1)
          /\ drawn[looked + 1] \in Yielding(next % max)
      BY NextCharacter
    <3> QED
      BY <1>1, <1>2, <1>3, <3>1, <3>2, OneMore
  <2>2. 1..(looked + 1) \subseteq 1..looked'
    BY <1>3
  <2> QED
    BY <2>1, <2>2 DEF MadeFrom
<1> QED
  BY <1>4, SameYield

\* A row that grows at its end.
LEMMA RowGrows ==
  ASSUME NEW C, NEW s \in Seq(C), NEW r \in Seq(C), NEW c \in C
  PROVE  s \o Append(r, c) = Append(s \o r, c)
<1>1. /\ s \o Append(r, c) \in Seq(C) /\ Append(s \o r, c) \in Seq(C)
      /\ Len(Append(s \o r, c)) = Len(s \o Append(r, c))
  OBVIOUS
<1>2. \A i \in 1..Len(s \o Append(r, c)) : (s \o Append(r, c))[i] = Append(s \o r, c)[i]
  OBVIOUS
<1> QED
  BY <1>1, <1>2, SeqEqual

LEMMA AcceptStep ==
  ASSUME CredentialsInv, Accept
  PROVE  CredentialsInv'
<1>1. /\ Looking /\ ~rejected(next) /\ pos' = pos + 1 /\ out' = Append(out, next % max)
      /\ UNCHANGED <<alphabet, making, buf, made, drawn>>
  BY DEF Accept
<1>2. pos' \in 0..Len(buf)
  BY <1>1, NextByte DEF CredentialsInv, CredentialsTypeOK
<1>3. out' \in Seq(0..(alphabet - 1))
  BY <1>1, NextCharacter DEF CredentialsInv, CredentialsTypeOK
<1>4. CredentialsTypeOK' /\ Buffered' /\ InTurn'
  BY <1>1, <1>2, <1>3 DEF CredentialsInv, CredentialsTypeOK, Buffered, InTurn
<1>5. looked' = looked + 1
  BY <1>1, NextByte DEF CredentialsInv, CredentialsTypeOK, looked
<1>6. soFar' = Append(soFar, next % max)
  BY <1>1 DEF soFar, CredentialsInv, CredentialsTypeOK, Credential
<1>7. looked' \in Nat /\ looked' >= looked + 1
  BY <1>1, <1>5, NextByte
<1> QED
  BY <1>1, <1>4, <1>6, <1>7, CharacterStep DEF CredentialsInv

LEMMA CompleteStep ==
  ASSUME CredentialsInv, Complete
  PROVE  CredentialsInv'
<1>1. /\ Looking /\ ~rejected(next)
      /\ made' = [made EXCEPT ![making] = Append(out, next % max)]
      /\ making' = IF making = "name" THEN "password" ELSE "shown"
      /\ buf' = <<>> /\ pos' = 0 /\ out' = <<>>
      /\ alphabet' = alphabet /\ drawn' = drawn
  BY DEF Complete
<1>2. /\ making \in Credential /\ made \in [Credential -> Seq(0..(alphabet - 1))]
      /\ out \in Seq(0..(alphabet - 1)) /\ drawn \in Seq(Byte)
  BY <1>1 DEF Looking, CredentialsInv, CredentialsTypeOK
<1>3. Append(out, next % max) \in Seq(0..(alphabet - 1))
  BY <1>1, <1>2, NextCharacter
<1>4. CredentialsTypeOK'
  <2>1. made' \in [Credential -> Seq(0..(alphabet - 1))]
    BY <1>1, <1>2, <1>3
  <2>2. making' \in Credential \cup {"shown", "failed"}
    BY <1>1 DEF Credential
  <2>3. buf' \in Seq(Byte) /\ pos' \in 0..Len(buf') /\ out' \in Seq(0..(alphabet - 1))
    BY <1>1
  <2> QED
    BY <1>1, <1>2, <2>1, <2>2, <2>3 DEF CredentialsInv, CredentialsTypeOK
<1>5. Buffered'
  BY <1>1, <1>2 DEF Buffered
<1>6. InTurn'
  BY <1>1, <1>2 DEF InTurn, Credential, CredentialsInv
<1>7. soFar' = Append(soFar, next % max)
  <2>1. CASE making = "name"
    <3>1. made["name"] = <<>> /\ made["password"] = <<>>
      BY <1>2, <2>1 DEF CredentialsInv, InTurn
    <3>2. made'["name"] = Append(out, next % max) /\ made'["password"] = <<>>
      BY <1>1, <1>2, <2>1, <3>1 DEF Credential
    <3>3. /\ soFar = (<<>> \o <<>>) \o out
          /\ soFar' = (Append(out, next % max) \o <<>>) \o <<>>
      BY <1>1, <3>1, <3>2 DEF soFar
    <3> QED
      <4>1. Append(out, next % max) \in Seq(0..(alphabet - 1)) /\ out \in Seq(0..(alphabet - 1))
        BY <1>2, <1>3
      <4>2. (<<>> \o <<>>) \o out = out
        BY <4>1, ConcatEmptySeq
      <4>3. (Append(out, next % max) \o <<>>) \o <<>> = Append(out, next % max)
        BY <4>1, ConcatEmptySeq
      <4> QED
        BY <3>3, <4>2, <4>3
  <2>2. CASE making = "password"
    <3>1. made["password"] = <<>> /\ made["name"] \in Seq(0..(alphabet - 1))
      BY <1>2, <2>2 DEF CredentialsInv, InTurn, Credential
    <3>2. made'["name"] = made["name"] /\ made'["password"] = Append(out, next % max)
      BY <1>1, <1>2, <2>2 DEF Credential
    <3>3. /\ soFar = (made["name"] \o <<>>) \o out
          /\ soFar' = (made["name"] \o Append(out, next % max)) \o <<>>
      BY <1>1, <3>1, <3>2 DEF soFar
    <3> QED
      <4>1. next % max \in 0..(alphabet - 1)
        BY <1>1, NextCharacter
      <4>2. made["name"] \o Append(out, next % max) = Append(made["name"] \o out, next % max)
        <5> DEFINE name == made["name"]
        <5>1. name \in Seq(0..(alphabet - 1)) /\ out \in Seq(0..(alphabet - 1))
          BY <1>2, <3>1
        <5> HIDE DEF name
        <5>2. name \o Append(out, next % max) = Append(name \o out, next % max)
          BY <4>1, <5>1, RowGrows
        <5> QED
          BY <5>2 DEF name
      <4>3. /\ made["name"] \o <<>> = made["name"]
            /\ (made["name"] \o Append(out, next % max)) \o <<>> =
                 made["name"] \o Append(out, next % max)
        <5>1. made["name"] \o Append(out, next % max) \in Seq(0..(alphabet - 1))
          BY <1>3, <3>1
        <5> QED
          BY <3>1, <5>1, ConcatEmptySeq
      <4> QED
        BY <3>3, <4>2, <4>3
  <2> QED
    BY <1>2, <2>1, <2>2 DEF Credential
<1>8. looked' \in Nat /\ looked' >= looked + 1
  BY <1>1, <1>2, NextByte DEF looked
<1> QED
  BY <1>1, <1>4, <1>5, <1>6, <1>7, <1>8, CharacterStep DEF CredentialsInv

\* No step of the program leaves the invariant.
LEMMA CredentialsStep ==
  ASSUME CredentialsInv, [StartupNext]_startup
  PROVE  CredentialsInv'
<1>1. CASE Fill
  BY <1>1, FillStep
<1>2. CASE FillFails
  <2>1. /\ making' = "failed"
        /\ UNCHANGED <<alphabet, buf, pos, out, made, drawn>>
    BY <1>2 DEF FillFails
  <2>2. CredentialsTypeOK' /\ Buffered' /\ InTurn'
    BY <2>1 DEF CredentialsInv, CredentialsTypeOK, Buffered, InTurn, Credential
  <2>3. soFar' = soFar /\ looked' = looked
    BY <2>1 DEF soFar, looked
  <2> QED
    BY <2>1, <2>2, <2>3, SameYield DEF CredentialsInv
<1>3. CASE Reject
  BY <1>3, RejectStep
<1>4. CASE Accept
  BY <1>4, AcceptStep
<1>5. CASE Complete
  BY <1>5, CompleteStep
<1>6. CASE UNCHANGED credVars
  <2>1. UNCHANGED <<alphabet, making, buf, pos, out, made, drawn>>
    BY <1>6 DEF credVars
  <2>2. CredentialsTypeOK' /\ Buffered' /\ InTurn'
    BY <2>1 DEF CredentialsInv, CredentialsTypeOK, Buffered, InTurn
  <2>3. soFar' = soFar /\ looked' = looked
    BY <2>1 DEF soFar, looked
  <2> QED
    BY <2>1, <2>2, <2>3, SameYield DEF CredentialsInv
<1> QED
  BY <1>1, <1>2, <1>3, <1>4, <1>5, <1>6
     DEF StartupNext, Startup, GenerateCredentials, Generate, RunSucceeds, RunFails, Exited, startup

\* However many bytes are rejected and however often the buffer is filled again, every
\* character of the name and of the password is made from a byte of its own.
THEOREM EveryCharacterIsFresh == StartupSpec => []OwnByteEach
<1>1. StartupInit => CredentialsInv
  <2> SUFFICES ASSUME StartupInit PROVE CredentialsInv
    OBVIOUS
  <2>1. /\ alphabet \in Alphabets /\ making = "name" /\ buf = <<>> /\ pos = 0 /\ out = <<>>
        /\ made = [c \in Credential |-> <<>>] /\ drawn = <<>>
    BY DEF StartupInit, CredentialsInit
  <2>2. CredentialsTypeOK /\ Buffered /\ InTurn
    BY <2>1 DEF CredentialsTypeOK, Buffered, InTurn, Credential
  <2>3. soFar = <<>> /\ looked = 0
    BY <2>1 DEF soFar, looked, Credential
  <2>4. MadeFrom(<<>>, drawn, 0, <<>>)
    BY DEF MadeFrom
  <2> QED
    BY <2>2, <2>3, <2>4 DEF CredentialsInv
<1>2. CredentialsInv /\ [StartupNext]_startup => CredentialsInv'
  BY CredentialsStep
<1>3. CredentialsInv => OwnByteEach
  <2> SUFFICES ASSUME CredentialsInv PROVE OwnByteEach
    OBVIOUS
  <2>1. PICK from : MadeFrom(soFar, drawn, looked, from)
    BY DEF CredentialsInv
  <2>2. 1..looked \subseteq DOMAIN drawn
    BY DEF CredentialsInv, CredentialsTypeOK, Buffered, looked
  <2>3. from \in [DOMAIN soFar -> DOMAIN drawn]
    BY <2>1, <2>2 DEF MadeFrom
  <2> QED
    BY <2>1, <2>3 DEF MadeFrom, OwnByteEach
<1> QED
  BY <1>1, <1>2, <1>3, PTL DEF StartupSpec

----------------------------------------------------------------------------
(* The command line.  What the three loops over it go through. *)

Looked == [wanted : BOOLEAN, value : BOOLEAN]

Sorted == [options : Seq(Token), positional : Seq(Token), value : BOOLEAN, rest : BOOLEAN]

Mode == {"flags", "value", "words", "help", "error"}

Values == String \cup {NoValue}

ReadState ==
  {s \in [mode : Mode, pending : Flag \cup {NoValue}, set : [Flag -> Values], args : Seq(Token)] :
     s.mode = "value" => s.pending \in Flag}

LEMMA LookLoop ==
  ASSUME NEW s \in Seq(Token), NEW e \in Looked
  PROVE  \E g : /\ g[0] = e /\ Fold(Look, e, s) = g[Len(s)]
                /\ \A i \in 1..Len(s) : g[i] = Look(g[i - 1], s[i])
<1> DEFINE n == Len(s)
           add == [i \in 1..n |-> [x \in Looked |-> Look(x, s[i])]]
           Rule(g, i) == IF i = 0 THEN e ELSE Look(g[i - 1], s[i])
           folded == CHOOSE g : g = [i \in 0..n |-> Rule(g, i)]
<1>1. Fold(Look, e, s) = folded[n]
  BY DEF Fold
<1>2. n \in Nat /\ \A i \in 1..n : s[i] \in Token
  OBVIOUS
<1>3. \A x \in Looked, tok \in Token : Look(x, tok) \in Looked
  BY DEF Look, Looked
<1>4. PICK f \in [0..n -> Looked] : Passes(f, n, e, add)
  <2>1. add \in Steps(n, Looked)
    BY <1>2, <1>3 DEF Steps
  <2>2. n \in Nat
    BY <1>2
  <2> HIDE DEF add, n
  <2> QED
    BY <2>1, <2>2, LoopExists
<1>5. f = [i \in 0..n |-> Rule(f, i)]
  <2>1. ASSUME NEW i \in 1..n
        PROVE  add[i][f[i - 1]] = Look(f[i - 1], s[i])
    <3>1. i - 1 \in 0..n
      BY <1>2
    <3>2. f[i - 1] \in Looked
      BY <1>4, <3>1
    <3> QED
      BY <3>2
  <2>2. \A i \in 0..n : f[i] = Rule(f, i)
    <3> HIDE DEF add, n
    <3> QED
      BY <1>2, <1>4, <2>1 DEF Passes
  <2>3. f = [i \in 0..n |-> f[i]]
    OBVIOUS
  <2> HIDE DEF Rule
  <2> QED
    BY <2>2, <2>3
<1>6. folded = [i \in 0..n |-> Rule(folded, i)]
  BY <1>5
<1> HIDE DEF folded, n
<1>7. folded[0] = e /\ \A i \in 1..n : folded[i] = Look(folded[i - 1], s[i])
  BY <1>2, <1>6
<1> QED
  BY <1>1, <1>7 DEF n

LEMMA SortType ==
  ASSUME NEW s \in Sorted, NEW tok \in Token
  PROVE  Sort(s, tok) \in Sorted
<1>1. s.options \in Seq(Token) /\ s.positional \in Seq(Token) /\ s.value \in BOOLEAN /\ s.rest \in BOOLEAN
  BY DEF Sorted
<1>2. Append(s.options, tok) \in Seq(Token) /\ Append(s.positional, tok) \in Seq(Token)
  BY <1>1
<1>3. takesValue(tok) \in BOOLEAN
  BY DEF takesValue
<1>4. \A more \in Seq(Token), b \in BOOLEAN :
        /\ [s EXCEPT !.positional = more] \in Sorted
        /\ [s EXCEPT !.options = more, !.value = b] \in Sorted
        /\ [s EXCEPT !.rest = b] \in Sorted
  BY DEF Sorted
<1> QED
  BY <1>2, <1>3, <1>4 DEF Sort

LEMMA SortLoop ==
  ASSUME NEW s \in Seq(Token), NEW e \in Sorted
  PROVE  \E g : /\ g[0] = e /\ Fold(Sort, e, s) = g[Len(s)]
                /\ \A i \in 1..Len(s) : g[i] = Sort(g[i - 1], s[i])
<1> DEFINE n == Len(s)
           add == [i \in 1..n |-> [x \in Sorted |-> Sort(x, s[i])]]
           Rule(g, i) == IF i = 0 THEN e ELSE Sort(g[i - 1], s[i])
           folded == CHOOSE g : g = [i \in 0..n |-> Rule(g, i)]
<1>1. Fold(Sort, e, s) = folded[n]
  BY DEF Fold
<1>2. n \in Nat /\ \A i \in 1..n : s[i] \in Token
  OBVIOUS
<1>3. \A x \in Sorted, tok \in Token : Sort(x, tok) \in Sorted
  BY SortType
<1>4. PICK f \in [0..n -> Sorted] : Passes(f, n, e, add)
  <2>1. add \in Steps(n, Sorted)
    BY <1>2, <1>3 DEF Steps
  <2>2. n \in Nat
    BY <1>2
  <2> HIDE DEF add, n
  <2> QED
    BY <2>1, <2>2, LoopExists
<1>5. f = [i \in 0..n |-> Rule(f, i)]
  <2>1. ASSUME NEW i \in 1..n
        PROVE  add[i][f[i - 1]] = Sort(f[i - 1], s[i])
    <3>1. i - 1 \in 0..n
      BY <1>2
    <3>2. f[i - 1] \in Sorted
      BY <1>4, <3>1
    <3> QED
      BY <3>2
  <2>2. \A i \in 0..n : f[i] = Rule(f, i)
    <3> HIDE DEF add, n
    <3> QED
      BY <1>2, <1>4, <2>1 DEF Passes
  <2>3. f = [i \in 0..n |-> f[i]]
    OBVIOUS
  <2> HIDE DEF Rule
  <2> QED
    BY <2>2, <2>3
<1>6. folded = [i \in 0..n |-> Rule(folded, i)]
  BY <1>5
<1> HIDE DEF folded, n
<1>7. folded[0] = e /\ \A i \in 1..n : folded[i] = Sort(folded[i - 1], s[i])
  BY <1>2, <1>6
<1> QED
  BY <1>1, <1>7 DEF n

LEMMA ReadFields ==
  ASSUME NEW s \in ReadState
  PROVE  /\ s \in [mode : Mode, pending : Flag \cup {NoValue}, set : [Flag -> Values], args : Seq(Token)]
         /\ s.mode \in Mode /\ s.set \in [Flag -> Values] /\ s.args \in Seq(Token)
         /\ s.mode = "value" => s.pending \in Flag
<1>1. s \in [mode : Mode, pending : Flag \cup {NoValue}, set : [Flag -> Values], args : Seq(Token)]
  BY DEF ReadState
<1>2. s.mode = "value" => s.pending \in Flag
  BY DEF ReadState
<1> QED
  BY <1>1, <1>2

LEMMA TokenFields ==
  ASSUME NEW tok \in Token
  PROVE  tok.name \in String /\ text(tok) \in String /\ tok.value \in Values
<1>1. tok.name \in String /\ tok.value \in String \cup {NoValue}
  BY DEF Token
<1>2. "--" \in String
  BY CliAssumption
<1> QED
  BY <1>1, <1>2 DEF text, Values

LEMMA AssignType ==
  ASSUME NEW s \in ReadState, NEW f \in Flag, NEW v \in String
  PROVE  Assign(s, f, v) \in ReadState
<1>0. s \in [mode : Mode, pending : Flag \cup {NoValue}, set : [Flag -> Values], args : Seq(Token)]
  BY ReadFields
<1>1. flagOf(f) \in Flag
  BY DEF flagOf, Flag, boolFlags
<1>2. [s.set EXCEPT ![flagOf(f)] = v] \in [Flag -> Values]
  BY <1>1, ReadFields DEF Values
<1>3. CASE Valid(f, v)
  <2>1. Assign(s, f, v) = [s EXCEPT !.set = [s.set EXCEPT ![flagOf(f)] = v], !.mode = "flags"]
    BY <1>3 DEF Assign
  <2>2. "flags" \in Mode
    BY DEF Mode
  <2> QED
    BY <1>0, <1>2, <2>1, <2>2 DEF ReadState
<1>4. CASE ~Valid(f, v)
  <2>1. Assign(s, f, v) = [s EXCEPT !.mode = "error"] /\ "error" \in Mode \ {"value"}
    BY <1>4 DEF Assign, Mode
  <2> QED
    BY <1>0, <2>1 DEF ReadState
<1> QED
  BY <1>3, <1>4

\* What reading a token does, case by case.
LEMMA ReadFlagCases ==
  ASSUME NEW s, NEW tok
  PROVE  /\ tok.name \in Flag /\ tok.value # NoValue => ReadFlag(s, tok) = Assign(s, tok.name, tok.value)
         /\ tok.name \in boolFlags /\ tok.value = NoValue => ReadFlag(s, tok) = Assign(s, tok.name, "true")
         /\ tok.name \in Flag \ boolFlags /\ tok.value = NoValue =>
              ReadFlag(s, tok) = [s EXCEPT !.mode = "value", !.pending = tok.name]
         /\ tok.name \notin Flag =>
              ReadFlag(s, tok) = [s EXCEPT !.mode = IF tok.name \in {"help", "h"} THEN "help" ELSE "error"]
<1>1. CASE tok.name \in Flag /\ tok.value # NoValue
  <2>1. ReadFlag(s, tok) = Assign(s, tok.name, tok.value)
    BY <1>1 DEF ReadFlag
  <2> QED
    BY <1>1, <2>1 DEF Flag
<1>2. CASE tok.name \in boolFlags /\ tok.value = NoValue
  <2>1. ReadFlag(s, tok) = Assign(s, tok.name, "true")
    BY <1>2 DEF ReadFlag, Flag
  <2> QED
    BY <1>2, <2>1 DEF Flag
<1>3. CASE tok.name \in Flag \ boolFlags /\ tok.value = NoValue
  <2>1. ReadFlag(s, tok) = [s EXCEPT !.mode = "value", !.pending = tok.name]
    BY <1>3 DEF ReadFlag
  <2> QED
    BY <1>3, <2>1
<1>4. CASE tok.name \notin Flag
  <2>1. ReadFlag(s, tok) = [s EXCEPT !.mode = IF tok.name \in {"help", "h"} THEN "help" ELSE "error"]
    BY <1>4 DEF ReadFlag, Flag
  <2> QED
    BY <1>4, <2>1 DEF Flag
<1> QED
  BY <1>1, <1>2, <1>3, <1>4

LEMMA ReadTokenCases ==
  ASSUME NEW s, NEW tok
  PROVE  /\ s.mode = "value" => ReadToken(s, tok) = Assign(s, s.pending, text(tok))
         /\ s.mode = "flags" /\ isWord(tok) => ReadToken(s, tok) = [s EXCEPT !.mode = "words", !.args = <<tok>>]
         /\ s.mode = "flags" /\ tok = terminator => ReadToken(s, tok) = [s EXCEPT !.mode = "words"]
         /\ s.mode = "flags" /\ ~isWord(tok) /\ tok # terminator => ReadToken(s, tok) = ReadFlag(s, tok)
         /\ s.mode = "words" => ReadToken(s, tok) = [s EXCEPT !.args = Append(s.args, tok)]
         /\ s.mode \in {"help", "error"} => ReadToken(s, tok) = s
<1>0. ~isWord(terminator)
  BY DEF isWord, terminator
<1>1. s.mode = "value" => ReadToken(s, tok) = Assign(s, s.pending, text(tok))
  BY DEF ReadToken
<1>2. s.mode = "flags" /\ isWord(tok) => ReadToken(s, tok) = [s EXCEPT !.mode = "words", !.args = <<tok>>]
  BY <1>0 DEF ReadToken
<1>3. s.mode = "flags" /\ tok = terminator => ReadToken(s, tok) = [s EXCEPT !.mode = "words"]
  BY <1>0 DEF ReadToken
<1>4. s.mode = "flags" /\ ~isWord(tok) /\ tok # terminator => ReadToken(s, tok) = ReadFlag(s, tok)
  BY DEF ReadToken
<1>5. s.mode = "words" => ReadToken(s, tok) = [s EXCEPT !.args = Append(s.args, tok)]
  BY DEF ReadToken
<1>6. s.mode \in {"help", "error"} => ReadToken(s, tok) = s
  BY DEF ReadToken
<1> QED
  BY <1>1, <1>2, <1>3, <1>4, <1>5, <1>6

LEMMA ReadFlagType ==
  ASSUME NEW s \in ReadState, NEW tok \in Token
  PROVE  ReadFlag(s, tok) \in ReadState
<1>0. /\ s \in [mode : Mode, pending : Flag \cup {NoValue}, set : [Flag -> Values], args : Seq(Token)]
      /\ {"help", "error", "value"} \subseteq Mode
      /\ tok.name \in String /\ tok.value \in Values /\ "true" \in String /\ boolFlags \subseteq Flag
  BY ReadFields, TokenFields, CliAssumption DEF Mode, Flag, ParseBool
<1>1. CASE tok.name \in Flag /\ tok.value # NoValue
  <2>1. ReadFlag(s, tok) = Assign(s, tok.name, tok.value)
    BY <1>1, ReadFlagCases
  <2> QED
    BY <1>0, <1>1, <2>1, AssignType DEF Values
<1>2. CASE tok.name \in boolFlags /\ tok.value = NoValue
  <2>1. ReadFlag(s, tok) = Assign(s, tok.name, "true")
    BY <1>2, ReadFlagCases
  <2> QED
    BY <1>0, <1>2, <2>1, AssignType
<1>3. CASE tok.name \in Flag \ boolFlags /\ tok.value = NoValue
  <2>1. ReadFlag(s, tok) = [s EXCEPT !.mode = "value", !.pending = tok.name]
    BY <1>3, ReadFlagCases
  <2> QED
    BY <1>0, <1>3, <2>1 DEF ReadState
<1>4. CASE tok.name \notin Flag
  <2>1. ReadFlag(s, tok) = [s EXCEPT !.mode = IF tok.name \in {"help", "h"} THEN "help" ELSE "error"]
    BY <1>4, ReadFlagCases
  <2> QED
    BY <1>0, <2>1 DEF ReadState
<1> QED
  BY <1>0, <1>1, <1>2, <1>3, <1>4

LEMMA ReadType ==
  ASSUME NEW s \in ReadState, NEW tok \in Token
  PROVE  ReadToken(s, tok) \in ReadState
<1>0. /\ s \in [mode : Mode, pending : Flag \cup {NoValue}, set : [Flag -> Values], args : Seq(Token)]
      /\ {"flags", "words", "help", "error"} \subseteq Mode
  BY ReadFields DEF Mode
<1>1. CASE s.mode = "value"
  <2>1. ReadToken(s, tok) = Assign(s, s.pending, text(tok))
    BY <1>1, ReadTokenCases
  <2> QED
    BY <1>1, <2>1, AssignType, TokenFields, ReadFields
<1>2. CASE s.mode = "flags" /\ isWord(tok)
  <2>1. ReadToken(s, tok) = [s EXCEPT !.mode = "words", !.args = <<tok>>]
    BY <1>2, ReadTokenCases
  <2>2. <<tok>> \in Seq(Token)
    OBVIOUS
  <2> QED
    BY <1>0, <2>1, <2>2 DEF ReadState
<1>3. CASE s.mode = "flags" /\ tok = terminator
  <2>1. ReadToken(s, tok) = [s EXCEPT !.mode = "words"]
    BY <1>3, ReadTokenCases
  <2> QED
    BY <1>0, <2>1 DEF ReadState
<1>4. CASE s.mode = "flags" /\ ~isWord(tok) /\ tok # terminator
  BY <1>4, ReadTokenCases, ReadFlagType
<1>5. CASE s.mode = "words"
  <2>1. ReadToken(s, tok) = [s EXCEPT !.args = Append(s.args, tok)]
    BY <1>5, ReadTokenCases
  <2>2. Append(s.args, tok) \in Seq(Token)
    BY ReadFields
  <2> QED
    BY <1>0, <1>5, <2>1, <2>2 DEF ReadState
<1>6. CASE s.mode \in {"help", "error"}
  <2>1. ReadToken(s, tok) = s
    BY <1>6, ReadTokenCases
  <2> QED
    BY <2>1
<1> QED
  BY <1>1, <1>2, <1>3, <1>4, <1>5, <1>6, ReadFields DEF Mode

LEMMA ReadLoop ==
  ASSUME NEW s \in Seq(Token), NEW e \in ReadState
  PROVE  \E g : /\ g[0] = e /\ Fold(ReadToken, e, s) = g[Len(s)]
                /\ \A i \in 1..Len(s) : g[i] = ReadToken(g[i - 1], s[i])
<1> DEFINE n == Len(s)
           add == [i \in 1..n |-> [x \in ReadState |-> ReadToken(x, s[i])]]
           Rule(g, i) == IF i = 0 THEN e ELSE ReadToken(g[i - 1], s[i])
           folded == CHOOSE g : g = [i \in 0..n |-> Rule(g, i)]
<1>1. Fold(ReadToken, e, s) = folded[n]
  BY DEF Fold
<1>2. n \in Nat /\ \A i \in 1..n : s[i] \in Token
  OBVIOUS
<1>4. PICK f \in [0..n -> ReadState] : Passes(f, n, e, add)
  <2>1. add \in Steps(n, ReadState)
    BY <1>2, ReadType DEF Steps
  <2>2. n \in Nat
    BY <1>2
  <2> HIDE DEF add, n
  <2> QED
    BY <2>1, <2>2, LoopExists
<1>5. f = [i \in 0..n |-> Rule(f, i)]
  <2>1. ASSUME NEW i \in 1..n
        PROVE  add[i][f[i - 1]] = ReadToken(f[i - 1], s[i])
    <3>1. i - 1 \in 0..n
      BY <1>2
    <3>2. f[i - 1] \in ReadState
      BY <1>4, <3>1
    <3> QED
      BY <3>2
  <2>2. \A i \in 0..n : f[i] = Rule(f, i)
    <3> HIDE DEF add, n
    <3> QED
      BY <1>2, <1>4, <2>1 DEF Passes
  <2>3. f = [i \in 0..n |-> f[i]]
    OBVIOUS
  <2> HIDE DEF Rule
  <2> QED
    BY <2>2, <2>3
<1>6. folded = [i \in 0..n |-> Rule(folded, i)]
  BY <1>5
<1> HIDE DEF folded, n
<1>7. folded[0] = e /\ \A i \in 1..n : folded[i] = ReadToken(folded[i - 1], s[i])
  BY <1>2, <1>6
<1> QED
  BY <1>1, <1>7 DEF n

----------------------------------------------------------------------------
(* What the loops have found out after a part of the line. *)

\* What the option at k gives its flag.
Tells(k) ==
  IF line[k].value # NoValue THEN line[k].value
  ELSE IF line[k].name \in boolFlags THEN "true" ELSE line[k + 1].name

\* Where the first i tokens give the flag a value, and all of it.
Said(f, i) == {k \in Given(f) : k <= i /\ ~(k = i /\ isValue(i + 1))}

\* v is what the last of the places gives, or nothing if there is none.
LastOf(v, places) ==
  IF places = {} THEN v = NoValue ELSE \E k \in places : v = Tells(k) /\ \A j \in places : j <= k

\* The line is a Plain one, and i tokens of it are dealt with, but not all.
Within(i) == line \in Seq(Token) /\ Plain /\ i \in 0..Len(line) /\ i < Len(line)

LEMMA WithinFacts ==
  ASSUME NEW i, Within(i)
  PROVE  /\ i \in Nat /\ i + 1 \in DOMAIN line /\ line[i + 1] \in Token /\ line[i + 1] # terminator
         /\ DOMAIN line = 1..Len(line) /\ Len(line) \in Nat
         /\ isValue(i + 1) => isWord(line[i + 1]) /\ ~isValue(i + 2) /\ i \in DOMAIN line
         /\ isValue(i + 1) => ~isWord(line[i]) /\ line[i].value = NoValue /\ line[i].name \in Flag \ boolFlags
         /\ isValue(i + 2) <=> /\ ~isWord(line[i + 1]) /\ line[i + 1].value = NoValue
                               /\ line[i + 1].name \in Flag \ boolFlags
<1>1. /\ i \in Nat /\ i + 1 \in DOMAIN line /\ line[i + 1] \in Token
      /\ DOMAIN line = 1..Len(line) /\ Len(line) \in Nat
  BY DEF Within
<1>2. line[i + 1] # terminator /\ (isValue(i + 1) => isWord(line[i + 1]))
  BY <1>1 DEF Within, Plain
<1>3. (i + 1) - 1 = i /\ (i + 2) - 1 = i + 1 /\ i + 2 > 1 /\ (i + 1 > 1 => i \in DOMAIN line)
  BY <1>1
<1>4. isValue(i + 1) =>
        i + 1 > 1 /\ ~isWord(line[i]) /\ line[i].value = NoValue /\ line[i].name \in Flag \ boolFlags
  BY <1>3 DEF isValue
<1>5. isValue(i + 2) <=> /\ ~isWord(line[i + 1]) /\ line[i + 1].value = NoValue
                         /\ line[i + 1].name \in Flag \ boolFlags
  BY <1>3 DEF isValue
<1> QED
  BY <1>1, <1>2, <1>3, <1>4, <1>5

\* One token more adds what was waiting for it, or the token, or nothing.
LEMMA SaidGrows ==
  ASSUME NEW i, Within(i), NEW f
  PROVE  /\ i \in Given(f) /\ isValue(i + 1) => Said(f, i + 1) = Said(f, i) \cup {i}
         /\ i + 1 \in Given(f) /\ ~isValue(i + 2) => Said(f, i + 1) = Said(f, i) \cup {i + 1}
         /\ ~(i \in Given(f) /\ isValue(i + 1)) /\ ~(i + 1 \in Given(f) /\ ~isValue(i + 2)) =>
              Said(f, i + 1) = Said(f, i)
         /\ \A k \in Said(f, i) : k \in Nat /\ k <= i
<1>1. /\ i \in Nat /\ Given(f) \subseteq Nat
      /\ isValue(i + 1) => ~isValue(i + 2) /\ i + 1 \notin Given(f)
      /\ (i + 1) + 1 = i + 2
  BY WithinFacts DEF Given
<1>2. \A k \in Given(f) : k <= i + 1 <=> k <= i \/ k = i + 1
  BY <1>1
<1>3. Said(f, i) = {k \in Given(f) : k <= i /\ ~(k = i /\ isValue(i + 1))}
  BY DEF Said
<1>4. Said(f, i + 1) = {k \in Given(f) : k <= i + 1 /\ ~(k = i + 1 /\ isValue(i + 2))}
  BY <1>1 DEF Said
<1>5. i <= i + 1 /\ i # i + 1 /\ i <= i /\ ~(i + 1 <= i)
  BY <1>1
<1>6. CASE i \in Given(f) /\ isValue(i + 1)
  <2>1. \A k : k \in Said(f, i + 1) <=> k \in Said(f, i) \cup {i}
    BY <1>1, <1>2, <1>3, <1>4, <1>5, <1>6
  <2>2. Said(f, i + 1) = Said(f, i) \cup {i}
    BY <2>1
  <2>3. \A k \in Said(f, i) : k \in Nat /\ k <= i
    BY <1>1, <1>3
  <2> QED
    BY <1>1, <1>6, <2>2, <2>3
<1>7. CASE i + 1 \in Given(f) /\ ~isValue(i + 2)
  <2>1. ~isValue(i + 1)
    BY <1>1, <1>7
  <2>2. \A k : k \in Said(f, i + 1) <=> k \in Said(f, i) \cup {i + 1}
    BY <1>1, <1>2, <1>3, <1>4, <1>5, <1>7, <2>1
  <2>3. Said(f, i + 1) = Said(f, i) \cup {i + 1}
    BY <2>2
  <2>4. \A k \in Said(f, i) : k \in Nat /\ k <= i
    BY <1>1, <1>3
  <2> QED
    BY <1>7, <2>1, <2>3, <2>4
<1>8. CASE ~(i \in Given(f) /\ isValue(i + 1)) /\ ~(i + 1 \in Given(f) /\ ~isValue(i + 2))
  <2>1. \A k : k \in Said(f, i + 1) <=> k \in Said(f, i)
    BY <1>1, <1>2, <1>3, <1>4, <1>5, <1>8
  <2>2. Said(f, i + 1) = Said(f, i)
    BY <2>1
  <2>3. \A k \in Said(f, i) : k \in Nat /\ k <= i
    BY <1>1, <1>3
  <2> QED
    BY <1>8, <2>2, <2>3
<1> QED
  BY <1>6, <1>7, <1>8

\* A later place decides.
LEMMA LaterDecides ==
  ASSUME NEW S, NEW k \in Nat, \A j \in S : j <= k
  PROVE  LastOf(Tells(k), S \cup {k})
BY DEF LastOf

\* normalizeCLIArgs has sorted the first i tokens.
SortedUpTo(s, i) ==
  /\ s \in Sorted /\ ~s.rest
  /\ s.value <=> isValue(i + 1)
  /\ InOrder(s.positional, {k \in plainWords : k <= i})

\* One place more, behind the others.
LEMMA InOrderGrows ==
  ASSUME NEW toks \in Seq(Token), NEW places, InOrder(toks, places),
         NEW k \in Nat, \A j \in places : j \in Nat /\ j < k
  PROVE  InOrder(Append(toks, line[k]), places \cup {k})
<1>1. PICK at \in [DOMAIN toks -> places] :
        /\ places = {at[i] : i \in DOMAIN toks}
        /\ \A i \in DOMAIN toks : toks[i] = line[at[i]]
        /\ \A i, j \in DOMAIN toks : i < j => at[i] < at[j]
  BY DEF InOrder
<1> DEFINE more == Append(toks, line[k])
           n    == Len(toks) + 1
           at2  == [i \in DOMAIN more |-> IF i = n THEN k ELSE at[i]]
<1>2. /\ n \in Nat /\ DOMAIN toks = 1..(n - 1) /\ DOMAIN more = DOMAIN toks \cup {n}
      /\ n \notin DOMAIN toks /\ \A i \in DOMAIN toks : more[i] = toks[i] /\ i < n
      /\ more[n] = line[k]
  OBVIOUS
<1> HIDE DEF more, n
<1>3. /\ at2 \in [DOMAIN more -> places \cup {k}]
      /\ at2[n] = k /\ \A i \in DOMAIN toks : at2[i] = at[i]
  BY <1>2
<1> HIDE DEF at2
<1>4. places \cup {k} = {at2[i] : i \in DOMAIN more}
  <2>1. {at2[i] : i \in DOMAIN more} = {at2[i] : i \in DOMAIN toks} \cup {k}
    BY <1>2, <1>3
  <2>2. {at2[i] : i \in DOMAIN toks} = {at[i] : i \in DOMAIN toks}
    BY <1>3
  <2> QED
    BY <1>1, <2>1, <2>2
<1>5. \A i \in DOMAIN more : more[i] = line[at2[i]]
  BY <1>1, <1>2, <1>3
<1>6. \A i, j \in DOMAIN more : i < j => at2[i] < at2[j]
  <2> SUFFICES ASSUME NEW i \in DOMAIN more, NEW j \in DOMAIN more, i < j
               PROVE  at2[i] < at2[j]
    OBVIOUS
  <2>1. i \in DOMAIN toks
    BY <1>2
  <2>2. at2[i] = at[i] /\ at[i] < k
    BY <1>3, <2>1
  <2>3. CASE j = n
    BY <1>3, <2>2, <2>3
  <2>4. CASE j \in DOMAIN toks
    BY <1>1, <1>3, <2>1, <2>4
  <2> QED
    BY <1>2, <2>3, <2>4
<1> QED
  BY <1>3, <1>4, <1>5, <1>6 DEF InOrder, more

\* A token goes to the options, or is a word of its own.
LEMMA SortStep ==
  ASSUME NEW i, Within(i), NEW s, SortedUpTo(s, i)
  PROVE  /\ SortedUpTo(Sort(s, line[i + 1]), i + 1)
         /\ i + 1 \in plainWords => Sort(s, line[i + 1]).options = s.options
         /\ i + 1 \notin plainWords => Sort(s, line[i + 1]).options = Append(s.options, line[i + 1])
<1> DEFINE tok == line[i + 1]
<1>1. /\ i \in Nat /\ i + 1 \in DOMAIN line /\ tok \in Token /\ tok # terminator /\ (i + 1) + 1 = i + 2
      /\ isValue(i + 1) => isWord(tok) /\ ~isValue(i + 2)
      /\ isValue(i + 2) <=> takesValue(tok)
  <2>1. valueFlags = Flag \ boolFlags
    BY DEF valueFlags, Flag, boolFlags, stringFlags, durationFlags
  <2> QED
    BY <2>1, WithinFacts DEF takesValue
<1> HIDE DEF tok
<1>2. /\ s \in [options : Seq(Token), positional : Seq(Token), value : BOOLEAN, rest : BOOLEAN]
      /\ ~s.rest /\ (s.value <=> isValue(i + 1))
  BY DEF SortedUpTo, Sorted
<1>3. Sort(s, tok) \in Sorted
  BY <1>1, SortType DEF SortedUpTo
<1>4. i + 1 \in plainWords <=> isWord(tok) /\ ~isValue(i + 1)
  BY <1>1 DEF plainWords, tok
<1>5. i + 1 \notin plainWords => {k \in plainWords : k <= i + 1} = {k \in plainWords : k <= i}
  <2>1. plainWords \subseteq Nat
    BY WithinFacts DEF plainWords
  <2>2. \A k \in Nat : k <= i + 1 <=> k <= i \/ k = i + 1
    BY <1>1
  <2> QED
    BY <2>1, <2>2
<1>6. CASE s.value
  <2>1. Sort(s, tok) = [s EXCEPT !.options = Append(s.options, tok), !.value = FALSE]
    BY <1>2, <1>6 DEF Sort
  <2>2. Sort(s, tok).options = Append(s.options, tok) /\ ~Sort(s, tok).value /\ ~Sort(s, tok).rest
        /\ Sort(s, tok).positional = s.positional
    BY <1>2, <2>1
  <2>3. i + 1 \notin plainWords
    BY <1>2, <1>4, <1>6
  <2>4. SortedUpTo(Sort(s, tok), i + 1)
    BY <1>1, <1>2, <1>3, <1>5, <1>6, <2>2, <2>3 DEF SortedUpTo
  <2> QED
    BY <2>2, <2>3, <2>4 DEF tok
<1>7. CASE ~s.value /\ isWord(tok)
  <2>1. Sort(s, tok) = [s EXCEPT !.positional = Append(s.positional, tok)]
    BY <1>1, <1>2, <1>7 DEF Sort
  <2>2. Sort(s, tok).options = s.options /\ ~Sort(s, tok).value /\ ~Sort(s, tok).rest
        /\ Sort(s, tok).positional = Append(s.positional, tok)
    BY <1>2, <1>7, <2>1
  <2>3. i + 1 \in plainWords
    BY <1>2, <1>4, <1>7
  <2>4. ~isValue(i + 2)
    BY <1>1, <1>7 DEF takesValue
  <2>5. InOrder(Append(s.positional, tok), {k \in plainWords : k <= i + 1})
    <3> DEFINE places == {k \in plainWords : k <= i}
    <3>1. InOrder(s.positional, places) /\ s.positional \in Seq(Token)
      BY <1>2 DEF SortedUpTo
    <3>2. plainWords \subseteq Nat
      BY WithinFacts DEF plainWords
    <3>3. \A j \in places : j \in Nat /\ j < i + 1
      BY <1>1, <3>2
    <3>4. {k \in plainWords : k <= i + 1} = places \cup {i + 1}
      <4>1. \A k \in Nat : k <= i + 1 <=> k <= i \/ k = i + 1
        BY <1>1
      <4> QED
        BY <2>3, <3>2, <4>1
    <3>5. i + 1 \in Nat
      BY <1>1
    <3> HIDE DEF places
    <3> QED
      BY <3>1, <3>3, <3>4, <3>5, InOrderGrows DEF tok
  <2>6. SortedUpTo(Sort(s, tok), i + 1)
    BY <1>1, <1>3, <2>2, <2>4, <2>5 DEF SortedUpTo
  <2> QED
    BY <2>2, <2>3, <2>6 DEF tok
<1>8. CASE ~s.value /\ ~isWord(tok)
  <2>1. Sort(s, tok) = [s EXCEPT !.options = Append(s.options, tok), !.value = takesValue(tok)]
    BY <1>1, <1>2, <1>8 DEF Sort
  <2>2. Sort(s, tok).options = Append(s.options, tok) /\ Sort(s, tok).value = takesValue(tok)
        /\ ~Sort(s, tok).rest /\ Sort(s, tok).positional = s.positional
    BY <1>2, <2>1
  <2>3. i + 1 \notin plainWords
    BY <1>4, <1>8
  <2>4. SortedUpTo(Sort(s, tok), i + 1)
    BY <1>1, <1>3, <1>5, <2>2, <2>3 DEF SortedUpTo
  <2> QED
    BY <2>2, <2>3, <2>4 DEF tok
<1> QED
  BY <1>6, <1>7, <1>8

----------------------------------------------------------------------------
(* Reading. *)

\* The flag package has read the options among the first i tokens.
ReadUpTo(r, i) ==
  /\ r \in ReadState
  /\ r.mode \in {"help", "error"} \/
       /\ r.mode = IF isValue(i + 1) THEN "value" ELSE "flags"
       /\ isValue(i + 1) => r.pending = line[i].name
       /\ r.args = <<>>
       /\ \A f \in Flag : LastOf(r.set[f], Said(f, i))

LEMMA AssignFields ==
  ASSUME NEW s \in ReadState, NEW f \in Flag, NEW v
  PROVE  \/ Assign(s, f, v).mode = "error"
         \/ /\ Assign(s, f, v).mode = "flags" /\ Assign(s, f, v).args = s.args
            /\ \A g \in Flag : Assign(s, f, v).set[g] = IF g = flagOf(f) THEN v ELSE s.set[g]
<1>1. s \in [mode : Mode, pending : Flag \cup {NoValue}, set : [Flag -> Values], args : Seq(Token)]
  BY ReadFields
<1>2. CASE Valid(f, v)
  <2>1. Assign(s, f, v) = [s EXCEPT !.set = [s.set EXCEPT ![flagOf(f)] = v], !.mode = "flags"]
    BY <1>2 DEF Assign
  <2> QED
    BY <1>1, <2>1
<1>3. CASE ~Valid(f, v)
  <2>1. Assign(s, f, v) = [s EXCEPT !.mode = "error"]
    BY <1>3 DEF Assign
  <2> QED
    BY <1>1, <2>1
<1> QED
  BY <1>2, <1>3

\* Assigning what the option at k gives makes it the last one.
LEMMA AssignTells ==
  ASSUME NEW i, Within(i), NEW s \in ReadState, s.args = <<>>, NEW k \in {i, i + 1},
         \A f \in Flag : LastOf(s.set[f], Said(f, i)),
         NEW g \in Flag, line[k].name = g, ~isWord(line[k]), k \in DOMAIN line,
         IF k = i THEN isValue(i + 1) ELSE ~isValue(i + 2) /\ ~isValue(i + 1),
         Tells(k) \in String
  PROVE  ReadUpTo(Assign(s, g, Tells(k)), i + 1)
<1> DEFINE r == Assign(s, g, Tells(k))
<1>1. r \in ReadState
  BY AssignType
<1>2. r.mode = "error" \/
        /\ r.mode = "flags" /\ r.args = s.args
        /\ \A f \in Flag : r.set[f] = IF f = flagOf(g) THEN Tells(k) ELSE s.set[f]
  BY AssignFields
<1>3. /\ i \in Nat /\ k \in Nat /\ k \in {i, i + 1} /\ i # i + 1 /\ (i + 1) + 1 = i + 2
      /\ ~isValue(i + 2)
      /\ isValue(i + 1) => isWord(line[i + 1])
  BY WithinFacts
<1> HIDE DEF r
<1>4. ASSUME r.mode = "flags", NEW f \in Flag
      PROVE  LastOf(r.set[f], Said(f, i + 1))
  <2>1. CASE f = flagOf(g)
    <3>1. k \in Given(f)
      BY <2>1 DEF Given
    <3>2. Said(f, i + 1) = Said(f, i) \cup {k}
      BY <1>3, <3>1, SaidGrows
    <3>3. \A j \in Said(f, i) : j <= k
      <4>1. \A j \in Said(f, i) : j \in Nat /\ j <= i
        BY SaidGrows
      <4> QED
        BY <1>3, <4>1
    <3>4. r.set[f] = Tells(k)
      BY <1>2, <1>4, <2>1
    <3> QED
      BY <1>3, <3>2, <3>3, <3>4, LaterDecides
  <2>2. CASE f # flagOf(g)
    <3>1. k \notin Given(f)
      BY <2>2 DEF Given
    <3>2. ~(i \in Given(f) /\ isValue(i + 1)) /\ ~(i + 1 \in Given(f) /\ ~isValue(i + 2))
      <4>1. CASE k = i
        <5>1. i + 1 \notin Given(f)
          BY <1>3, <4>1 DEF Given
        <5> QED
          BY <3>1, <4>1, <5>1
      <4>2. CASE k = i + 1 /\ k # i
        BY <3>1, <4>2
      <4> QED
        BY <4>1, <4>2
    <3>3. Said(f, i + 1) = Said(f, i)
      BY <3>2, SaidGrows
    <3>4. r.set[f] = s.set[f]
      BY <1>2, <1>4, <2>2
    <3> QED
      BY <3>3, <3>4
  <2> QED
    BY <2>1, <2>2
<1>5. CASE r.mode = "error"
  BY <1>1, <1>5 DEF ReadUpTo, r
<1>6. CASE r.mode = "flags"
  <2>1. r.args = <<>> /\ r.mode = "flags" /\ ~isValue((i + 1) + 1)
    BY <1>2, <1>3, <1>6
  <2> QED
    BY <1>1, <1>4, <1>6, <2>1 DEF ReadUpTo, r
<1> QED
  BY <1>2, <1>5, <1>6

\* A token that stays among the words changes nothing for the flags.
LEMMA WordStep ==
  ASSUME NEW i, Within(i), NEW r, ReadUpTo(r, i), i + 1 \in plainWords
  PROVE  ReadUpTo(r, i + 1)
<1>1. ~isValue(i + 1) /\ isWord(line[i + 1]) /\ i + 1 \in DOMAIN line
  BY DEF plainWords
<1>2. ~isValue(i + 2) /\ (i + 1) + 1 = i + 2
  BY <1>1, WithinFacts
<1>3. \A f : i + 1 \notin Given(f)
  BY <1>1 DEF Given
<1>4. \A f : Said(f, i + 1) = Said(f, i)
  BY <1>1, <1>3, SaidGrows
<1> QED
  BY <1>1, <1>2, <1>4 DEF ReadUpTo

\* An option, or the value of the one before it, is read.
LEMMA OptionStep ==
  ASSUME NEW i, Within(i), NEW r, ReadUpTo(r, i), i + 1 \notin plainWords
  PROVE  ReadUpTo(ReadToken(r, line[i + 1]), i + 1)
<1> DEFINE tok == line[i + 1]
<1>1. /\ i \in Nat /\ i + 1 \in DOMAIN line /\ tok \in Token /\ tok # terminator /\ (i + 1) + 1 = i + 2
      /\ isValue(i + 1) => isWord(tok) /\ ~isValue(i + 2) /\ i \in DOMAIN line
      /\ isValue(i + 1) => ~isWord(line[i]) /\ line[i].value = NoValue /\ line[i].name \in Flag \ boolFlags
      /\ isValue(i + 2) <=> ~isWord(tok) /\ tok.value = NoValue /\ tok.name \in Flag \ boolFlags
      /\ tok.name \in String /\ text(tok) \in String /\ tok.value \in Values
  BY WithinFacts, TokenFields
<1> HIDE DEF tok
<1>2. r \in ReadState
  BY DEF ReadUpTo
<1>3. ReadToken(r, tok) \in ReadState
  BY <1>1, <1>2, ReadType
<1>4. CASE r.mode \in {"help", "error"}
  <2>1. ReadToken(r, tok) = r
    BY <1>4, ReadTokenCases
  <2> QED
    BY <1>2, <1>4, <2>1 DEF ReadUpTo, tok
<1>5. CASE r.mode \notin {"help", "error"} /\ isValue(i + 1)
  <2>1. /\ r.mode = "value" /\ r.pending = line[i].name /\ r.args = <<>>
        /\ \A f \in Flag : LastOf(r.set[f], Said(f, i))
    BY <1>5 DEF ReadUpTo
  <2>2. ReadToken(r, tok) = Assign(r, r.pending, text(tok))
    BY <2>1, ReadTokenCases
  <2>3. text(tok) = Tells(i)
    BY <1>1, <1>5 DEF text, Tells, tok
  <2>4. Tells(i) \in String
    BY <1>1, <2>3
  <2>5. ReadUpTo(Assign(r, line[i].name, Tells(i)), i + 1)
    BY <1>1, <1>2, <1>5, <2>1, <2>4, AssignTells
  <2> QED
    BY <2>1, <2>2, <2>3, <2>5 DEF tok
<1>6. CASE r.mode \notin {"help", "error"} /\ ~isValue(i + 1)
  <2>1. /\ r.mode = "flags" /\ r.args = <<>>
        /\ \A f \in Flag : LastOf(r.set[f], Said(f, i))
    BY <1>6 DEF ReadUpTo
  <2>2. ~isWord(tok)
    BY <1>1, <1>6 DEF plainWords, tok
  <2>3. ReadToken(r, tok) = ReadFlag(r, tok)
    BY <1>1, <2>1, <2>2, ReadTokenCases
  <2>4. CASE tok.name \in Flag /\ tok.value # NoValue
    <3>1. ReadFlag(r, tok) = Assign(r, tok.name, tok.value)
      BY <2>4, ReadFlagCases
    <3>2. Tells(i + 1) = tok.value /\ tok.value \in String /\ ~isValue(i + 2)
      BY <1>1, <2>4 DEF Tells, tok, Values
    <3>3. ReadUpTo(Assign(r, line[i + 1].name, Tells(i + 1)), i + 1)
      BY <1>1, <1>2, <1>6, <2>1, <2>2, <2>4, <3>2, AssignTells DEF tok
    <3> QED
      BY <2>3, <3>1, <3>2, <3>3 DEF tok
  <2>5. CASE tok.name \in boolFlags /\ tok.value = NoValue
    <3>1. ReadFlag(r, tok) = Assign(r, tok.name, "true")
      BY <2>5, ReadFlagCases
    <3>2. Tells(i + 1) = "true" /\ "true" \in String /\ ~isValue(i + 2) /\ tok.name \in Flag
      BY <1>1, <2>5, CliAssumption DEF Tells, tok, ParseBool, Flag
    <3>3. ReadUpTo(Assign(r, line[i + 1].name, Tells(i + 1)), i + 1)
      BY <1>1, <1>2, <1>6, <2>1, <2>2, <3>2, AssignTells DEF tok
    <3> QED
      BY <2>3, <3>1, <3>2, <3>3 DEF tok
  <2>6. CASE tok.name \in Flag \ boolFlags /\ tok.value = NoValue
    <3>1. ReadToken(r, tok) = [r EXCEPT !.mode = "value", !.pending = tok.name]
      BY <2>3, <2>6, ReadFlagCases
    <3>2. /\ ReadToken(r, tok).mode = "value" /\ ReadToken(r, tok).pending = tok.name
          /\ ReadToken(r, tok).args = <<>> /\ ReadToken(r, tok).set = r.set
      <4>1. r \in [mode : Mode, pending : Flag \cup {NoValue}, set : [Flag -> Values], args : Seq(Token)]
        BY <1>2, ReadFields
      <4> QED
        BY <2>1, <3>1, <4>1
    <3>3. isValue(i + 2)
      BY <1>1, <2>2, <2>6
    <3>4. \A f : Said(f, i + 1) = Said(f, i)
      BY <1>6, <3>3, SaidGrows
    <3> QED
      BY <1>1, <1>3, <2>1, <3>2, <3>3, <3>4 DEF ReadUpTo, tok
  <2>7. CASE tok.name \notin Flag
    <3>1. ReadToken(r, tok) = [r EXCEPT !.mode = IF tok.name \in {"help", "h"} THEN "help" ELSE "error"]
      BY <2>3, <2>7, ReadFlagCases
    <3>2. ReadToken(r, tok).mode \in {"help", "error"}
      <4>1. r \in [mode : Mode, pending : Flag \cup {NoValue}, set : [Flag -> Values], args : Seq(Token)]
        BY <1>2, ReadFields
      <4> QED
        BY <3>1, <4>1
    <3> QED
      BY <1>3, <3>2 DEF ReadUpTo, tok
  <2> QED
    BY <2>4, <2>5, <2>6, <2>7 DEF Flag
<1> QED
  BY <1>4, <1>5, <1>6

----------------------------------------------------------------------------
(* The whole line. *)

\* wantsStructuredJSON has looked at the first i tokens.
LookUpTo(l, i) ==
  /\ l \in Looked
  /\ l.value <=> isValue(i + 1) /\ line[i].name = "output"
  /\ l.value \/ \E v \in Values :
       /\ LastOf(v, Said("output", i))
       /\ l.wanted <=> (IF v = NoValue THEN Getenv("output") ELSE v) = "json"

LEMMA LookStep ==
  ASSUME NEW i, Within(i), NEW l, LookUpTo(l, i)
  PROVE  LookUpTo(Look(l, line[i + 1]), i + 1)
<1> DEFINE tok == line[i + 1]
           more == Look(l, tok)
<1>1. /\ i \in Nat /\ i + 1 \in DOMAIN line /\ tok \in Token /\ (i + 1) + 1 = i + 2 /\ i # i + 1
      /\ isValue(i + 1) => isWord(tok) /\ ~isValue(i + 2) /\ i \in DOMAIN line
      /\ isValue(i + 1) => ~isWord(line[i]) /\ line[i].value = NoValue /\ line[i].name \in Flag \ boolFlags
      /\ isValue(i + 2) <=> ~isWord(tok) /\ tok.value = NoValue /\ tok.name \in Flag \ boolFlags
      /\ tok.name \in String /\ text(tok) \in String /\ tok.value \in Values
  BY WithinFacts, TokenFields
<1>2. \A k \in DOMAIN line : k \in Given("output") <=> ~isWord(line[k]) /\ line[k].name = "output"
  BY DEF Given, flagOf
<1>3. tok.name = "output" => tok.dashes = 2 \/ isWord(tok)
  BY <1>1 DEF Within, Plain, Token, isWord
<1>4. l \in [wanted : BOOLEAN, value : BOOLEAN] /\ NoValue \notin String /\ "output" \in Flag \ boolFlags
  BY CliAssumption DEF LookUpTo, Looked, Flag, boolFlags, stringFlags
<1>5. ASSUME NEW k \in {i, i + 1}, Said("output", i + 1) = Said("output", i) \cup {k}, Tells(k) \in String,
             more \in Looked, more.wanted <=> Tells(k) = "json", ~more.value, ~isValue(i + 2)
      PROVE  LookUpTo(more, i + 1)
  <2> HIDE DEF more, tok
  <2>1. \A j \in Said("output", i) : j <= k
    <3>1. \A j \in Said("output", i) : j \in Nat /\ j <= i
      BY SaidGrows
    <3> QED
      BY <1>1, <3>1
  <2>2. LastOf(Tells(k), Said("output", i + 1))
    <3>1. k \in Nat
      BY <1>1
    <3> QED
      BY <1>5, <2>1, <3>1, LaterDecides
  <2> QED
    BY <1>1, <1>4, <1>5, <2>2 DEF LookUpTo, Values
<1>6. CASE l.value
  <2>1. isValue(i + 1) /\ line[i].name = "output"
    BY <1>6 DEF LookUpTo
  <2>2. more = [wanted |-> text(tok) = "json", value |-> FALSE]
    BY <1>6 DEF Look
  <2>3. text(tok) = Tells(i)
    BY <1>1, <2>1 DEF text, Tells
  <2>4. i \in Given("output")
    BY <1>1, <1>2, <2>1
  <2>5. Said("output", i + 1) = Said("output", i) \cup {i}
    BY <2>1, <2>4, SaidGrows
  <2>6. more \in Looked /\ ~more.value /\ (more.wanted <=> Tells(i) = "json")
    <3> HIDE DEF more, tok
    <3>1. more \in Looked
      BY <2>2 DEF Looked
    <3>2. more.value = FALSE
      BY <2>2
    <3>3. more.wanted = (text(tok) = "json")
      BY <2>2
    <3> QED
      BY <2>3, <3>1, <3>2, <3>3
  <2> HIDE DEF more, tok
  <2> QED
    BY <1>1, <1>5, <2>1, <2>3, <2>5, <2>6 DEF tok, more
<1>7. CASE ~l.value /\ (tok.dashes # 2 \/ tok.name # "output")
  <2>1. more = l
    BY <1>7 DEF Look
  <2>2. ~(~isWord(tok) /\ tok.name = "output")
    BY <1>3, <1>7
  <2>3. i + 1 \notin Given("output")
    BY <1>1, <1>2, <2>2
  <2>4. ~(i \in Given("output") /\ isValue(i + 1))
    BY <1>1, <1>2, <1>7 DEF LookUpTo
  <2>5. Said("output", i + 1) = Said("output", i)
    BY <2>3, <2>4, SaidGrows
  <2>6. ~(isValue(i + 2) /\ tok.name = "output")
    BY <1>1, <2>2
  <2> HIDE DEF more, tok
  <2> QED
    BY <1>1, <1>7, <2>1, <2>5, <2>6 DEF LookUpTo, tok, more
<1>8. CASE ~l.value /\ tok.dashes = 2 /\ tok.name = "output" /\ tok.value = NoValue
  <2>1. more = [l EXCEPT !.value = TRUE]
    BY <1>8 DEF Look
  <2>2. more \in Looked /\ more.value
    BY <1>4, <2>1 DEF Looked
  <2>3. isValue(i + 2)
    BY <1>1, <1>4, <1>8 DEF isWord
  <2> HIDE DEF more
  <2> QED
    BY <1>1, <1>8, <2>2, <2>3 DEF LookUpTo, more
<1>9. CASE ~l.value /\ tok.dashes = 2 /\ tok.name = "output" /\ tok.value # NoValue
  <2>1. more = [l EXCEPT !.wanted = tok.value = "json"]
    BY <1>9 DEF Look
  <2>2. more \in Looked /\ ~more.value /\ (more.wanted <=> tok.value = "json")
    BY <1>4, <1>9, <2>1 DEF Looked
  <2>3. Tells(i + 1) = tok.value /\ tok.value \in String /\ ~isValue(i + 2)
    BY <1>1, <1>9 DEF Tells, Values
  <2>4. i + 1 \in Given("output")
    BY <1>1, <1>2, <1>9 DEF isWord
  <2>5. Said("output", i + 1) = Said("output", i) \cup {i + 1}
    BY <2>3, <2>4, SaidGrows
  <2> HIDE DEF more, tok
  <2> QED
    BY <1>1, <1>5, <2>2, <2>3, <2>5 DEF tok, more
<1> QED
  BY <1>6, <1>7, <1>8, <1>9

\* Nothing is said before the first token, and all of it with the last.
LEMMA LineEnds ==
  ASSUME line \in Seq(Token), Plain
  PROVE  /\ Len(line) \in Nat /\ ~isValue(0 + 1) /\ ~isValue(Len(line) + 1)
         /\ \A f : Said(f, 0) = {} /\ Said(f, Len(line)) = Given(f)
<1>1. Len(line) \in Nat /\ DOMAIN line = 1..Len(line) /\ (line = <<>> => Len(line) = 0)
  OBVIOUS
<1>2. ~isValue(0 + 1)
  BY DEF isValue
<1>3. ~isValue(Len(line) + 1)
  BY <1>1, <1>2 DEF Plain
<1>4. \A f : Given(f) \subseteq 1..Len(line)
  BY <1>1 DEF Given
<1>5. \A f : Said(f, 0) = {}
  BY <1>1, <1>4 DEF Said
<1>6. \A f : Said(f, Len(line)) = Given(f)
  BY <1>1, <1>3, <1>4 DEF Said
<1> QED
  BY <1>1, <1>2, <1>3, <1>5, <1>6

\* What is asked for is what the last place tells, or else the environment.
LEMMA AskedIsLast ==
  ASSUME line \in Seq(Token), Plain, NEW f \in Flag, NEW v, LastOf(v, Given(f))
  PROVE  Asked(f) = IF v # NoValue THEN v ELSE IF f \in DOMAIN env THEN Getenv(f) ELSE NoValue
<1>1. CASE Given(f) = {}
  BY <1>1 DEF LastOf, Asked
<1>2. CASE Given(f) # {}
  <2>1. PICK k \in Given(f) : v = Tells(k) /\ \A j \in Given(f) : j <= k
    BY <1>2 DEF LastOf
  <2>2. Given(f) \subseteq 1..Len(line) /\ Len(line) \in Nat /\ DOMAIN line = 1..Len(line)
    BY DEF Given
  <2>3. \A j \in Given(f) : (\A m \in Given(f) : m <= j) => j = k
    BY <2>1, <2>2
  <2> DEFINE last == CHOOSE i \in Given(f) : \A j \in Given(f) : j <= i
  <2>4. last = k
    BY <2>1, <2>3
  <2>5. line[k].name \in boolFlags <=> f \in boolFlags
    <3>1. flagOf(line[k].name) = f
      BY <2>1 DEF Given
    <3> QED
      BY <3>1 DEF flagOf, boolFlags
  <2>6. Says(f) = Tells(k)
    <3>1. Says(f) = IF line[last].value # NoValue THEN line[last].value
                    ELSE IF f \in boolFlags THEN "true" ELSE line[last + 1].name
      BY DEF Says
    <3> HIDE DEF last
    <3> QED
      BY <2>4, <2>5, <3>1 DEF Tells
  <2>7. Tells(k) # NoValue
    <3>1. CASE line[k].value # NoValue
      BY <3>1 DEF Tells
    <3>2. CASE line[k].value = NoValue /\ line[k].name \in boolFlags
      <4>1. Tells(k) = "true" /\ "true" \in String /\ NoValue \notin String
        BY <3>2, CliAssumption DEF Tells, ParseBool
      <4> QED
        BY <4>1
    <3>3. CASE line[k].value = NoValue /\ line[k].name \notin boolFlags
      <4>1. k \in 1..Len(line) /\ ~isWord(line[k]) /\ flagOf(line[k].name) = f
        BY <2>1, <2>2 DEF Given
      <4>2. line[k].name \in Flag \ boolFlags
        BY <3>3, <4>1 DEF flagOf, boolFlags
      <4>3. isValue(k + 1)
        BY <2>2, <3>3, <4>1, <4>2 DEF isValue
      <4>4. k + 1 \in DOMAIN line
        BY <2>2, <4>1, <4>3, LineEnds
      <4>5. line[k + 1].name \in String
        BY <4>4, TokenFields
      <4> QED
        BY <3>3, <4>5, CliAssumption DEF Tells
    <3> QED
      BY <3>1, <3>2, <3>3
  <2> QED
    BY <1>2, <2>1, <2>6, <2>7 DEF Asked
<1> QED
  BY <1>1, <1>2

\* wantsStructuredJSON tells what the author of the line asks for, if no white space
\* is around it.
LEMMA WantsAsAsked ==
  ASSUME line \in Seq(Token), Plain, "output" \in DOMAIN env
  PROVE  wantsStructuredJSON <=> Asked("output") = "json"
<1> DEFINE n == Len(line)
           start == [wanted |-> Getenv("output") = "json", value |-> FALSE]
<1>1. start \in Looked
  BY DEF Looked
<1>2. PICK g : /\ g[0] = start /\ Fold(Look, start, line) = g[n]
               /\ \A i \in 1..n : g[i] = Look(g[i - 1], line[i])
  BY <1>1, LookLoop
<1>3. n \in Nat
  OBVIOUS
<1> DEFINE P == {i \in 0..n : LookUpTo(g[i], i)}
<1>4. 0 \in P
  <2>1. LastOf(NoValue, Said("output", 0)) /\ ~isValue(0 + 1)
    BY LineEnds DEF LastOf
  <2>2. LookUpTo(start, 0)
    BY <1>1, <2>1 DEF LookUpTo, Values
  <2> QED
    BY <1>2, <1>3, <2>2
<1>5. ASSUME NEW i \in 0..n, i < n, i \in P
      PROVE  i + 1 \in P
  <2>1. i + 1 \in 1..n /\ (i + 1) - 1 = i
    BY <1>3, <1>5
  <2>2. g[i + 1] = Look(g[i], line[i + 1])
    BY <1>2, <2>1
  <2>3. Within(i)
    BY <1>5 DEF Within
  <2>4. LookUpTo(g[i + 1], i + 1)
    BY <1>5, <2>2, <2>3, LookStep
  <2> QED
    BY <1>3, <2>1, <2>4
<1>6. n \in P
  <2> HIDE DEF P, n
  <2> QED
    BY <1>3, <1>4, <1>5, PrefixInduction
<1>7. ~g[n].value
  BY <1>6, LineEnds DEF LookUpTo
<1>8. PICK v \in Values : /\ LastOf(v, Given("output"))
                          /\ g[n].wanted <=> (IF v = NoValue THEN Getenv("output") ELSE v) = "json"
  BY <1>6, <1>7, LineEnds DEF LookUpTo
<1>9. "output" \in Flag
  BY DEF Flag, stringFlags
<1>10. Asked("output") = IF v = NoValue THEN Getenv("output") ELSE v
  BY <1>8, <1>9, AskedIsLast
<1> QED
  BY <1>2, <1>8, <1>10 DEF wantsStructuredJSON

\* s is how t begins.
Begins(s, t) == Len(s) <= Len(t) /\ \A j \in 1..Len(s) : s[j] = t[j]

LEMMA BeginsTransitive ==
  ASSUME NEW a \in Seq(Token), NEW b \in Seq(Token), NEW c \in Seq(Token),
         Begins(a, b), Begins(b, c)
  PROVE  Begins(a, c)
<1>1. Len(a) \in Nat /\ Len(b) \in Nat /\ Len(c) \in Nat /\ Len(a) <= Len(b) /\ Len(b) <= Len(c)
  BY DEF Begins
<1>2. ASSUME NEW j \in 1..Len(a)
      PROVE  a[j] = c[j]
  <2>1. j \in 1..Len(b)
    BY <1>1
  <2> QED
    BY <2>1 DEF Begins
<1> QED
  BY <1>1, <1>2 DEF Begins

\* The sorter's states over the line: the options are in the order of the line.
LEMMA LineIsSorted ==
  ASSUME line \in Seq(Token), Plain
  PROVE  \E g : /\ sorted = g[Len(line)] /\ g[0].options = <<>>
                /\ \A i \in 0..Len(line) :
                     SortedUpTo(g[i], i) /\ Begins(g[i].options, g[Len(line)].options)
                /\ \A i \in 0..Len(line) : i < Len(line) =>
                     /\ i + 1 \in plainWords => g[i + 1].options = g[i].options
                     /\ i + 1 \notin plainWords => g[i + 1].options = Append(g[i].options, line[i + 1])
<1> DEFINE n == Len(line)
           start == [options |-> <<>>, positional |-> <<>>, value |-> FALSE, rest |-> FALSE]
<1>1. start \in Sorted
  BY DEF Sorted
<1>2. PICK g : /\ g[0] = start /\ Fold(Sort, start, line) = g[n]
               /\ \A i \in 1..n : g[i] = Sort(g[i - 1], line[i])
  BY <1>1, SortLoop
<1>3. n \in Nat
  OBVIOUS
<1> DEFINE Good(i) == SortedUpTo(g[i], i)
           P == {i \in 0..n : \A j \in 0..i : Good(j) /\ Begins(g[j].options, g[i].options)}
<1>4. 0 \in P
  <2>1. InOrder(<<>>, {k \in plainWords : k <= 0})
    <3>1. {k \in plainWords : k <= 0} = {}
      BY DEF plainWords
    <3>2. [i \in DOMAIN <<>> |-> 0] \in [DOMAIN <<>> -> {}]
      OBVIOUS
    <3> QED
      BY <3>1, <3>2 DEF InOrder
  <2>2. SortedUpTo(start, 0)
    BY <1>1, <2>1, LineEnds DEF SortedUpTo
  <2>3. Begins(start.options, start.options)
    BY DEF Begins
  <2>4. \A j \in 0..0 : Good(j) /\ Begins(g[j].options, g[0].options)
    BY <1>2, <2>2, <2>3
  <2> HIDE DEF Good
  <2> QED
    BY <1>3, <2>4
<1>5. ASSUME NEW i \in 0..n, i < n, Good(i)
      PROVE  /\ Good(i + 1)
             /\ i + 1 \in plainWords => g[i + 1].options = g[i].options
             /\ i + 1 \notin plainWords => g[i + 1].options = Append(g[i].options, line[i + 1])
             /\ Begins(g[i].options, g[i + 1].options)
  <2>1. i + 1 \in 1..n /\ (i + 1) - 1 = i
    BY <1>3, <1>5
  <2>2. g[i + 1] = Sort(g[i], line[i + 1])
    BY <1>2, <2>1
  <2>3. Within(i)
    BY <1>5 DEF Within
  <2>4. /\ SortedUpTo(g[i + 1], i + 1)
        /\ i + 1 \in plainWords => g[i + 1].options = g[i].options
        /\ i + 1 \notin plainWords => g[i + 1].options = Append(g[i].options, line[i + 1])
    BY <1>5, <2>2, <2>3, SortStep
  <2>5. g[i].options \in Seq(Token)
    BY <1>5 DEF SortedUpTo, Sorted
  <2>6. Begins(g[i].options, g[i + 1].options)
    BY <2>4, <2>5 DEF Begins
  <2> QED
    BY <2>4, <2>6
<1>6. ASSUME NEW i \in 0..n, i < n, i \in P
      PROVE  i + 1 \in P
  <2>1. i \in 0..i /\ i + 1 \in 0..n
    BY <1>3, <1>6
  <2>2. Good(i + 1) /\ Begins(g[i].options, g[i + 1].options)
    BY <1>5, <1>6, <2>1
  <2>3. ASSUME NEW j \in 0..i
        PROVE  Good(j) /\ Begins(g[j].options, g[i + 1].options)
    <3>1. Good(j) /\ Begins(g[j].options, g[i].options)
      BY <1>6
    <3>2. g[j].options \in Seq(Token) /\ g[i].options \in Seq(Token) /\ g[i + 1].options \in Seq(Token)
      BY <2>2, <1>6, <2>1, <3>1 DEF SortedUpTo, Sorted
    <3>3. Begins(g[j].options, g[i + 1].options)
      <4> HIDE DEF Good
      <4> QED
        BY <2>2, <3>1, <3>2, BeginsTransitive
    <3> QED
      BY <3>1, <3>3
  <2>4. Begins(g[i + 1].options, g[i + 1].options)
    <3>1. g[i + 1].options \in Seq(Token)
      BY <2>2 DEF SortedUpTo, Sorted
    <3> QED
      BY <3>1 DEF Begins
  <2>5. \A j \in 0..(i + 1) : j \in 0..i \/ j = i + 1
    BY <1>3
  <2> HIDE DEF Good
  <2> QED
    BY <2>1, <2>2, <2>3, <2>4, <2>5
<1>7. n \in P
  <2> HIDE DEF P, n
  <2> QED
    BY <1>3, <1>4, <1>6, PrefixInduction
<1>8. sorted = g[n] /\ g[0].options = <<>>
  BY <1>2 DEF sorted
<1>9. \A i \in 0..n : Good(i) /\ Begins(g[i].options, g[n].options)
  BY <1>7
<1>10. \A i \in 0..n : i < n =>
         /\ i + 1 \in plainWords => g[i + 1].options = g[i].options
         /\ i + 1 \notin plainWords => g[i + 1].options = Append(g[i].options, line[i + 1])
  <2> HIDE DEF Good, n
  <2> QED
    BY <1>5, <1>9
<1> QED
  BY <1>8, <1>9, <1>10

\* The reader has read the options, and j of the words behind them.
WordsRead(r, ws, j) ==
  /\ r \in ReadState
  /\ r.mode \in {"help", "error"} \/
       /\ r.mode = IF j = 0 THEN "flags" ELSE "words"
       /\ Len(r.args) = j /\ \A k \in 1..j : r.args[k] = ws[k]
       /\ \A f \in Flag : LastOf(r.set[f], Given(f))

LEMMA WordReadStep ==
  ASSUME NEW ws \in Seq(Token), NEW j \in Nat, j < Len(ws), isWord(ws[j + 1]),
         NEW r, WordsRead(r, ws, j)
  PROVE  WordsRead(ReadToken(r, ws[j + 1]), ws, j + 1)
<1> DEFINE tok == ws[j + 1]
           more == ReadToken(r, tok)
<1>1. tok \in Token /\ isWord(tok) /\ j + 1 # 0 /\ j + 1 \in Nat
  OBVIOUS
<1>2. r \in [mode : Mode, pending : Flag \cup {NoValue}, set : [Flag -> Values], args : Seq(Token)]
  BY ReadFields DEF WordsRead
<1>3. more \in ReadState
  BY <1>1, ReadType DEF WordsRead
<1>4. CASE r.mode \in {"help", "error"}
  <2>1. more = r
    BY <1>4, ReadTokenCases
  <2> QED
    BY <1>3, <1>4, <2>1 DEF WordsRead
<1>5. CASE r.mode \notin {"help", "error"} /\ j = 0
  <2>1. r.mode = "flags" /\ \A f \in Flag : LastOf(r.set[f], Given(f))
    BY <1>5 DEF WordsRead
  <2>2. more = [r EXCEPT !.mode = "words", !.args = <<tok>>]
    BY <1>1, <2>1, ReadTokenCases
  <2> HIDE DEF more, tok
  <2>3. more.mode = "words" /\ more.args = <<tok>> /\ more.set = r.set
    BY <1>2, <2>2
  <2>4. Len(more.args) = j + 1 /\ \A k \in 1..(j + 1) : more.args[k] = ws[k]
    BY <1>5, <2>3 DEF tok
  <2> QED
    BY <1>1, <1>3, <2>1, <2>3, <2>4 DEF WordsRead, more, tok
<1>6. CASE r.mode \notin {"help", "error"} /\ j # 0
  <2>1. /\ r.mode = "words" /\ \A f \in Flag : LastOf(r.set[f], Given(f))
        /\ Len(r.args) = j /\ \A k \in 1..j : r.args[k] = ws[k]
    BY <1>6 DEF WordsRead
  <2>2. more = [r EXCEPT !.args = Append(r.args, tok)]
    BY <1>1, <2>1, ReadTokenCases
  <2> HIDE DEF more, tok
  <2>3. more.mode = "words" /\ more.args = Append(r.args, tok) /\ more.set = r.set
    BY <1>2, <2>1, <2>2
  <2>4. Len(more.args) = j + 1 /\ \A k \in 1..(j + 1) : more.args[k] = ws[k]
    <3>1. r.args \in Seq(Token)
      BY <1>2
    <3> QED
      BY <2>1, <2>3, <3>1 DEF tok
  <2> QED
    BY <1>1, <1>3, <2>1, <2>3, <2>4 DEF WordsRead, more, tok
<1> QED
  BY <1>4, <1>5, <1>6

\* The flag package reads the normalized line the way it was meant.
LEMMA LineIsRead ==
  ASSUME line \in Seq(Token), Plain
  PROVE  /\ ~sorted.value
         /\ LET r == Parse(sorted.options \o sorted.positional)
            IN  \/ r.mode \in {"help", "error"}
                \/ /\ r.mode \in {"flags", "words"}
                   /\ InOrder(r.args, plainWords)
                   /\ \A f \in Flag : LastOf(r.set[f], Given(f))
<1> DEFINE n == Len(line)
           start == [mode |-> "flags", pending |-> NoValue, set |-> NotSet, args |-> <<>>]
<1>1. PICK g : /\ sorted = g[n] /\ g[0].options = <<>>
               /\ \A i \in 0..n : SortedUpTo(g[i], i) /\ Begins(g[i].options, g[n].options)
               /\ \A i \in 0..n : i < n =>
                    /\ i + 1 \in plainWords => g[i + 1].options = g[i].options
                    /\ i + 1 \notin plainWords => g[i + 1].options = Append(g[i].options, line[i + 1])
  BY LineIsSorted
<1>2. n \in Nat /\ n \in 0..n /\ ~isValue(n + 1) /\ DOMAIN line = 1..n
  BY LineEnds
<1>3. SortedUpTo(g[n], n) /\ \A i \in 0..n : g[i].options \in Seq(Token)
  BY <1>1, <1>2 DEF SortedUpTo, Sorted
<1>4. ~sorted.value
  BY <1>1, <1>2, <1>3 DEF SortedUpTo
<1> DEFINE os   == g[n].options
           ws   == g[n].positional
           toks == os \o ws
<1>5. os \in Seq(Token) /\ ws \in Seq(Token) /\ InOrder(ws, plainWords)
  <2>1. {k \in plainWords : k <= n} = plainWords
    BY <1>2 DEF plainWords
  <2> QED
    BY <1>3, <2>1 DEF SortedUpTo, Sorted
<1> HIDE DEF os, ws
<1>6. /\ toks \in Seq(Token) /\ Len(os) \in Nat /\ Len(ws) \in Nat /\ Len(toks) = Len(os) + Len(ws)
      /\ \A j \in 1..Len(os) : toks[j] = os[j]
      /\ \A j \in 1..Len(ws) : toks[Len(os) + j] = ws[j]
  BY <1>5
<1>7. start \in ReadState
  <2>1. NotSet \in [Flag -> Values]
    BY DEF NotSet, Values
  <2> QED
    BY <2>1 DEF ReadState, Mode
<1> HIDE DEF toks
<1>8. PICK h : /\ h[0] = start /\ Fold(ReadToken, start, toks) = h[Len(toks)]
               /\ \A i \in 1..Len(toks) : h[i] = ReadToken(h[i - 1], toks[i])
  BY <1>6, <1>7, ReadLoop
<1> HIDE DEF n
<1> DEFINE at(i) == Len(g[i].options)
           Q == {i \in 0..n : ReadUpTo(h[at(i)], i)}
<1>9. 0 \in Q
  <2>1. at(0) = 0
    BY <1>1
  <2>2. ReadUpTo(start, 0)
    <3>1. \A f \in Flag : NotSet[f] = NoValue /\ LastOf(NoValue, Said(f, 0))
      BY LineEnds DEF NotSet, LastOf
    <3> QED
      BY <1>7, <3>1, LineEnds DEF ReadUpTo
  <2> QED
    BY <1>2, <1>8, <2>1, <2>2
<1>10. ASSUME NEW i \in 0..n, i < n, i \in Q
       PROVE  i + 1 \in Q
  <2>1. i + 1 \in 0..n
    BY <1>2, <1>10
  <2>2. Within(i)
    BY <1>10 DEF Within, n
  <2>3. CASE i + 1 \in plainWords
    <3>1. g[i + 1].options = g[i].options
      BY <1>1, <1>10, <2>3
    <3>2. ReadUpTo(h[at(i)], i + 1)
      BY <1>10, <2>2, <2>3, WordStep
    <3> QED
      BY <2>1, <3>1, <3>2
  <2>4. CASE i + 1 \notin plainWords
    <3>1. g[i + 1].options = Append(g[i].options, line[i + 1])
      BY <1>1, <1>10, <2>4
    <3>2. at(i) \in Nat /\ at(i + 1) = at(i) + 1 /\ g[i + 1].options[at(i) + 1] = line[i + 1]
      BY <1>3, <3>1
    <3>3. Begins(g[i + 1].options, os)
      BY <1>1, <2>1 DEF os
    <3> HIDE DEF at
    <3>4. at(i) + 1 \in 1..Len(os) /\ os[at(i) + 1] = line[i + 1]
      <4>1. at(i + 1) <= Len(os) /\ \A j \in 1..at(i + 1) : g[i + 1].options[j] = os[j]
        BY <3>3 DEF Begins, at
      <4> QED
        BY <1>6, <3>2, <4>1
    <3>5. toks[at(i) + 1] = line[i + 1] /\ at(i) + 1 \in 1..Len(toks) /\ (at(i) + 1) - 1 = at(i)
      BY <1>6, <3>2, <3>4
    <3>6. h[at(i + 1)] = ReadToken(h[at(i)], line[i + 1])
      BY <1>8, <3>2, <3>5
    <3>7. ReadUpTo(h[at(i + 1)], i + 1)
      BY <1>10, <2>2, <2>4, <3>6, OptionStep
    <3> QED
      BY <2>1, <3>7
  <2> QED
    BY <2>3, <2>4
<1>11. ReadUpTo(h[Len(os)], n)
  <2>1. n \in Q
    <3> HIDE DEF Q
    <3> QED
      BY <1>2, <1>9, <1>10, PrefixInduction
  <2> QED
    BY <2>1 DEF os
<1> DEFINE R == {j \in 0..Len(ws) : WordsRead(h[Len(os) + j], ws, j)}
<1>12. 0 \in R
  <2>1. \A f : Said(f, n) = Given(f)
    BY LineEnds DEF n
  <2>2. WordsRead(h[Len(os)], ws, 0)
    BY <1>2, <1>11, <2>1 DEF ReadUpTo, WordsRead
  <2>3. Len(os) + 0 = Len(os) /\ 0 \in 0..Len(ws)
    BY <1>6
  <2> QED
    BY <2>2, <2>3
<1>13. ASSUME NEW j \in 0..Len(ws), j < Len(ws), j \in R
       PROVE  j + 1 \in R
  <2>1. /\ j + 1 \in 1..Len(ws) /\ j \in Nat /\ j + 1 \in 0..Len(ws)
        /\ Len(os) + (j + 1) \in 1..Len(toks) /\ (Len(os) + (j + 1)) - 1 = Len(os) + j
    BY <1>6, <1>13
  <2>2. h[Len(os) + (j + 1)] = ReadToken(h[Len(os) + j], ws[j + 1])
    BY <1>6, <1>8, <2>1
  <2>3. isWord(ws[j + 1])
    <3>1. j + 1 \in DOMAIN ws
      BY <1>5, <2>1
    <3>2. PICK k \in plainWords : ws[j + 1] = line[k]
      BY <1>5, <3>1 DEF InOrder
    <3> QED
      BY <3>2 DEF plainWords
  <2>4. WordsRead(h[Len(os) + (j + 1)], ws, j + 1)
    BY <1>5, <1>13, <2>1, <2>2, <2>3, WordReadStep
  <2> QED
    BY <2>1, <2>4
<1>14. WordsRead(h[Len(toks)], ws, Len(ws))
  <2>1. Len(ws) \in R
    <3> HIDE DEF R
    <3> QED
      BY <1>6, <1>12, <1>13, PrefixInduction
  <2> QED
    BY <1>6, <2>1
<1> DEFINE r == Parse(sorted.options \o sorted.positional)
<1>15. r = h[Len(toks)]
  BY <1>1, <1>8 DEF Parse, toks, os, ws
<1> HIDE DEF r
<1>16. CASE r.mode \notin {"help", "error"}
  <2>1. /\ r.mode \in {"flags", "words"} /\ Len(r.args) = Len(ws) /\ r.args \in Seq(Token)
        /\ \A k \in 1..Len(ws) : r.args[k] = ws[k]
        /\ \A f \in Flag : LastOf(r.set[f], Given(f))
    BY <1>14, <1>15, <1>16, ReadFields DEF WordsRead
  <2>2. r.args = ws
    BY <1>5, <2>1
  <2> QED
    BY <1>4, <1>5, <2>1, <2>2 DEF r
<1> QED
  BY <1>4, <1>16 DEF r

LEMMA SortedType ==
  ASSUME line \in Seq(Token)
  PROVE  sorted \in Sorted
<1> DEFINE n == Len(line)
           start == [options |-> <<>>, positional |-> <<>>, value |-> FALSE, rest |-> FALSE]
<1>1. start \in Sorted
  BY DEF Sorted
<1>2. PICK g : /\ g[0] = start /\ Fold(Sort, start, line) = g[n]
               /\ \A i \in 1..n : g[i] = Sort(g[i - 1], line[i])
  BY <1>1, SortLoop
<1>3. n \in Nat /\ \A i \in 1..n : line[i] \in Token
  OBVIOUS
<1> DEFINE P == {i \in 0..n : g[i] \in Sorted}
<1>4. 0 \in P
  BY <1>1, <1>2, <1>3
<1>5. ASSUME NEW i \in 0..n, i < n, i \in P
      PROVE  i + 1 \in P
  <2>1. i + 1 \in 1..n /\ (i + 1) - 1 = i
    BY <1>3, <1>5
  <2>2. Sort(g[i], line[i + 1]) \in Sorted
    BY <1>3, <1>5, <2>1, SortType
  <2> QED
    BY <1>2, <2>1, <2>2
<1>6. n \in P
  <2> HIDE DEF P, n
  <2> QED
    BY <1>3, <1>4, <1>5, PrefixInduction
<1> QED
  BY <1>2, <1>6 DEF sorted

LEMMA ParseType ==
  ASSUME NEW toks \in Seq(Token)
  PROVE  Parse(toks) \in ReadState
<1> DEFINE n == Len(toks)
           start == [mode |-> "flags", pending |-> NoValue, set |-> NotSet, args |-> <<>>]
<1>1. start \in ReadState
  <2>1. NotSet \in [Flag -> Values]
    BY DEF NotSet, Values
  <2> QED
    BY <2>1 DEF ReadState, Mode
<1>2. PICK g : /\ g[0] = start /\ Fold(ReadToken, start, toks) = g[n]
               /\ \A i \in 1..n : g[i] = ReadToken(g[i - 1], toks[i])
  BY <1>1, ReadLoop
<1>3. n \in Nat /\ \A i \in 1..n : toks[i] \in Token
  OBVIOUS
<1> DEFINE P == {i \in 0..n : g[i] \in ReadState}
<1>4. 0 \in P
  BY <1>1, <1>2, <1>3
<1>5. ASSUME NEW i \in 0..n, i < n, i \in P
      PROVE  i + 1 \in P
  <2>1. i + 1 \in 1..n /\ (i + 1) - 1 = i
    BY <1>3, <1>5
  <2>2. ReadToken(g[i], toks[i + 1]) \in ReadState
    BY <1>3, <1>5, <2>1, ReadType
  <2> QED
    BY <1>2, <2>1, <2>2
<1>6. n \in P
  <2> HIDE DEF P, n
  <2> QED
    BY <1>3, <1>4, <1>5, PrefixInduction
<1> QED
  BY <1>2, <1>6 DEF Parse

----------------------------------------------------------------------------
(* A run, from its line to its exit. *)

\* What the line and the environment ask for is what the command will run with.
AsMeant ==
  /\ \A f \in Flag : setting[f] = Asked(f)
  /\ InOrder(words, plainWords)

\* FlagsAnywhere is decided two stages before the command, and AnswersAsAsked by what
\* has been written before, nothing, and by what decides then how errors are reported.
CliInv ==
  /\ line \in Seq(Token)
  /\ env \in [Flag \ {"version", "v"} -> Values]
  /\ stage \in {"loadEnvOptions", "normalizeCLIArgs", "Parse", "validateOutput", "dispatch",
                "command", "exited"}
  /\ stage # "exited" => objects = <<>>
  /\ stage = "Parse" => normalized = sorted.options \o sorted.positional
  /\ stage \in {"loadEnvOptions", "normalizeCLIArgs", "Parse"} => setting = NotSet
  /\ stage \in {"validateOutput", "dispatch", "command"} /\ Plain => AsMeant
  /\ AnswersAsAsked

\* What is asked for stays.
LEMMA AskingStays ==
  ASSUME UNCHANGED <<line, env>>
  PROVE  /\ Plain' <=> Plain
         /\ \A f : Asked(f)' = Asked(f)
         /\ plainWords' = plainWords
         /\ \A toks, places : InOrder(toks, places)' <=> InOrder(toks, places)
<1>1. \A i : isValue(i)' <=> isValue(i)
  BY DEF isValue
<1>2. Plain' <=> Plain
  BY <1>1 DEF Plain
<1>3. \A f : Given(f)' = Given(f)
  BY DEF Given
<1>4. \A f : Says(f)' = Says(f)
  <2> SUFFICES ASSUME NEW f PROVE Says(f)' = Says(f)
    OBVIOUS
  <2>1. line' = line /\ Given(f)' = Given(f)
    BY <1>3
  <2>2. (CHOOSE i \in Given(f) : \A j \in Given(f) : j <= i)'
          = (CHOOSE i \in Given(f) : \A j \in Given(f) : j <= i)
    BY <2>1
  <2> QED
    BY <2>1, <2>2 DEF Says
<1>5. \A f : Asked(f)' = Asked(f)
  BY <1>3, <1>4 DEF Asked, Getenv
<1>6. plainWords' = plainWords
  BY <1>1 DEF plainWords
<1>7. \A toks, places : InOrder(toks, places)' <=> InOrder(toks, places)
  BY DEF InOrder
<1> QED
  BY <1>2, <1>5, <1>6, <1>7

LEMMA WantingStays ==
  ASSUME UNCHANGED <<line, env, setting>>
  PROVE  wantsJSON' <=> wantsJSON
<1>1. Asked("output")' = Asked("output")
  BY AskingStays
<1> QED
  BY <1>1 DEF wantsJSON

LEMMA MeaningStays ==
  ASSUME UNCHANGED <<line, env, setting, words>>
  PROVE  AsMeant' <=> AsMeant
<1>1. /\ \A f : Asked(f)' = Asked(f)
      /\ plainWords' = plainWords
  BY AskingStays
<1>2. InOrder(words, plainWords)' <=> InOrder(words, plainWords)
  BY <1>1 DEF InOrder
<1> QED
  BY <1>1, <1>2 DEF AsMeant

\* Who ends the run with one envelope, or none, answers as asked.
LEMMA Answered ==
  ASSUME CliInv, stage # "exited", UNCHANGED <<line, env, stdoutOK, setting>>, stage' = "exited",
         NEW wanted, NEW ok \in BOOLEAN, NEW action,
         Plain => (wanted <=> wantsJSON),
         Write(wanted, ok, action),
         wanted /\ stdoutOK => ok = (exit' = 0), wanted /\ ~stdoutOK => exit' # 0
  PROVE  CliInv'
<1>1. /\ Plain' <=> Plain
      /\ wantsJSON' <=> wantsJSON
  BY AskingStays, WantingStays
<1>2. objects = <<>>
  BY DEF CliInv
<1>3. objects' = IF wanted /\ stdoutOK THEN <<[ok |-> ok, action |-> action]>> ELSE <<>>
  BY <1>2 DEF Write
<1>4. AnswersAsAsked'
  BY <1>1, <1>3 DEF AnswersAsAsked
<1> QED
  BY <1>4 DEF CliInv

LEMMA Refused ==
  ASSUME CliInv, stage # "exited", UNCHANGED <<line, env, stdoutOK, setting>>,
         NEW wanted, NEW action, NEW status \in 1..2,
         Plain => (wanted <=> wantsJSON),
         finishCLIError(action, status, wanted)
  PROVE  CliInv'
<1>1. stage' = "exited" /\ exit' = status /\ Write(wanted, FALSE, action)
  BY DEF finishCLIError
<1>2. exit' # 0
  BY <1>1
<1> QED
  BY <1>1, <1>2, Answered

LEMMA Done ==
  ASSUME CliInv, stage # "exited", UNCHANGED <<line, env, stdoutOK, setting>>,
         NEW wanted, NEW action,
         Plain => (wanted <=> wantsJSON),
         Succeed(action, wanted)
  PROVE  CliInv'
<1>1. /\ stage' = "exited" /\ Write(wanted, TRUE, action)
      /\ exit' = IF wanted /\ ~stdoutOK THEN 1 ELSE 0
  BY DEF Succeed
<1>2. /\ wanted /\ stdoutOK => TRUE = (exit' = 0)
      /\ wanted /\ ~stdoutOK => exit' # 0
  BY <1>1
<1> QED
  BY <1>1, <1>2, Answered

\* What decides how the run is reported, before and after the line is read.
LEMMA ReportsAsAsked ==
  ASSUME CliInv, Plain
  PROVE  /\ stage \in {"loadEnvOptions", "normalizeCLIArgs", "Parse"} =>
              (wantsStructuredJSON <=> wantsJSON)
         /\ stage \in {"validateOutput", "dispatch", "command"} =>
              (structuredJSON <=> wantsJSON)
<1>1. "output" \in Flag \ {"version", "v"}
  BY DEF Flag, stringFlags
<1>2. line \in Seq(Token) /\ "output" \in DOMAIN env
  BY <1>1 DEF CliInv
<1>3. wantsStructuredJSON <=> Asked("output") = "json"
  BY <1>2, WantsAsAsked
<1>4. "json" \notin DOMAIN trimmed /\ DOMAIN trimmed \subseteq String /\ NoValue \notin String
  BY CliAssumption, TrimAssumption DEF Output
<1>5. ASSUME stage \in {"loadEnvOptions", "normalizeCLIArgs", "Parse"}
      PROVE  wantsStructuredJSON <=> wantsJSON
  <2>1. setting = NotSet
    BY <1>5 DEF CliInv
  <2> QED
    BY <1>3, <1>4, <2>1 DEF wantsJSON, Trim
<1>6. ASSUME stage \in {"validateOutput", "dispatch", "command"}
      PROVE  structuredJSON <=> wantsJSON
  <2>1. setting["output"] = Asked("output")
    BY <1>1, <1>6 DEF CliInv, AsMeant
  <2>2. NotSet["output"] = NoValue
    BY <1>1 DEF NotSet
  <2> QED
    BY <1>4, <2>1, <2>2 DEF wantsJSON, structuredJSON
<1> QED
  BY <1>5, <1>6

LEMMA CliStarts ==
  ASSUME StartupInit
  PROVE  CliInv
<1>1. line \in Lines /\ env \in Environments /\ stage = "loadEnvOptions" /\ objects = <<>>
      /\ setting = NotSet
  BY DEF StartupInit, CliInit
<1>2. line \in Seq(Token) /\ env \in [Flag \ {"version", "v"} -> Values]
  BY <1>1, CliAssumption DEF Values
<1> QED
  BY <1>1, <1>2 DEF CliInv, AnswersAsAsked

LEMMA EnvironmentStep ==
  ASSUME CliInv, loadEnvOptions
  PROVE  CliInv'
<1>1. stage = "loadEnvOptions" /\ UNCHANGED <<line, env, stdoutOK, setting>>
  BY DEF loadEnvOptions
<1>2. \/ stage' = "normalizeCLIArgs" /\ UNCHANGED objects
      \/ finishCLIError("unknown", 2, wantsStructuredJSON)
  BY DEF loadEnvOptions
<1>3. CASE stage' = "normalizeCLIArgs" /\ UNCHANGED objects
  BY <1>1, <1>3 DEF CliInv, AnswersAsAsked
<1>4. CASE finishCLIError("unknown", 2, wantsStructuredJSON)
  <2>1. Plain => (wantsStructuredJSON <=> wantsJSON)
    BY <1>1, ReportsAsAsked
  <2> QED
    BY <1>1, <1>4, <2>1, Refused
<1> QED
  BY <1>2, <1>3, <1>4

LEMMA NormalizeStep ==
  ASSUME CliInv, normalizeCLIArgs
  PROVE  CliInv'
<1>1. stage = "normalizeCLIArgs" /\ UNCHANGED <<line, env, stdoutOK, setting>>
  BY DEF normalizeCLIArgs
<1>2. \/ /\ stage' = "Parse" /\ UNCHANGED objects
         /\ normalized' = sorted.options \o sorted.positional
      \/ finishCLIError(commandAction, 2, wantsStructuredJSON)
  BY DEF normalizeCLIArgs
<1>3. CASE /\ stage' = "Parse" /\ UNCHANGED objects
           /\ normalized' = sorted.options \o sorted.positional
  <2>1. sorted' = sorted
    BY <1>1 DEF sorted
  <2>2. normalized' = sorted'.options \o sorted'.positional
    BY <1>3, <2>1
  <2> QED
    BY <1>1, <1>3, <2>2 DEF CliInv, AnswersAsAsked
<1>4. CASE finishCLIError(commandAction, 2, wantsStructuredJSON)
  <2>1. Plain => (wantsStructuredJSON <=> wantsJSON)
    BY <1>1, ReportsAsAsked
  <2> QED
    BY <1>1, <1>4, <2>1, Refused
<1> QED
  BY <1>2, <1>3, <1>4

\* What is read, with the environment behind it, is what is meant.
LEMMA ReadAsMeant ==
  ASSUME CliInv, stage = "Parse", Plain, UNCHANGED <<line, env>>, NEW r, r = Parse(normalized),
         r.mode \notin {"help", "error"}, setting' = Defaulting(r.set), words' = r.args
  PROVE  AsMeant'
<1>1. line \in Seq(Token) /\ normalized = sorted.options \o sorted.positional
  BY DEF CliInv
<1>2. /\ InOrder(r.args, plainWords)
      /\ \A f \in Flag : LastOf(r.set[f], Given(f))
  BY <1>1, LineIsRead
<1>3. ASSUME NEW f \in Flag
      PROVE  setting'[f] = Asked(f)'
  <2>1. Asked(f) = IF r.set[f] # NoValue THEN r.set[f] ELSE IF f \in DOMAIN env THEN Getenv(f) ELSE NoValue
    BY <1>1, <1>2, AskedIsLast
  <2>2. setting'[f] = IF r.set[f] = NoValue /\ f \in DOMAIN env THEN Getenv(f) ELSE r.set[f]
    BY DEF Defaulting
  <2>3. Asked(f)' = Asked(f)
    BY AskingStays
  <2> QED
    BY <2>1, <2>2, <2>3
<1>4. InOrder(words, plainWords)'
  <2>1. plainWords' = plainWords /\ line' = line
    BY AskingStays
  <2> QED
    BY <1>2, <2>1 DEF InOrder
<1> QED
  BY <1>3, <1>4 DEF AsMeant

LEMMA ParseStep ==
  ASSUME CliInv, ParseArgs
  PROVE  CliInv'
<1> DEFINE r == Parse(normalized)
<1>1. stage = "Parse" /\ UNCHANGED <<line, env, stdoutOK>>
  BY DEF ParseArgs
<1>2. Plain => (wantsStructuredJSON <=> wantsJSON)
  BY <1>1, ReportsAsAsked
<1>3. r.mode \in Mode
  <2>1. line \in Seq(Token) /\ normalized = sorted.options \o sorted.positional
    BY <1>1 DEF CliInv
  <2>2. sorted.options \in Seq(Token) /\ sorted.positional \in Seq(Token)
    BY <2>1, SortedType DEF Sorted
  <2>3. normalized \in Seq(Token)
    BY <2>1, <2>2
  <2> QED
    BY <2>3, ParseType, ReadFields
<1>4. CASE r.mode = "help"
  <2>1. Succeed("help", wantsStructuredJSON) /\ UNCHANGED setting
    BY <1>4 DEF ParseArgs
  <2> QED
    BY <1>1, <1>2, <2>1, Done
<1>5. CASE r.mode \in {"error", "value"}
  <2>1. finishCLIError(commandAction, 2, wantsStructuredJSON) /\ UNCHANGED setting
    BY <1>5 DEF ParseArgs
  <2> QED
    BY <1>1, <1>2, <2>1, Refused
<1>6. CASE r.mode \in {"flags", "words"}
  <2>1. /\ stage' = "validateOutput" /\ UNCHANGED objects
        /\ setting' = Defaulting(r.set) /\ words' = r.args
    BY <1>6 DEF ParseArgs
  <2>2. Plain' <=> Plain
    BY <1>1, AskingStays
  <2>3. r.mode \notin {"help", "error"}
    BY <1>6
  <2>4. Plain => AsMeant'
    BY <1>1, <2>1, <2>3, ReadAsMeant
  <2> QED
    BY <1>1, <2>1, <2>2, <2>4 DEF CliInv, AnswersAsAsked
<1> QED
  BY <1>3, <1>4, <1>5, <1>6 DEF Mode

LEMMA ValidateStep ==
  ASSUME CliInv, validateOutput
  PROVE  CliInv'
<1>1. stage = "validateOutput" /\ UNCHANGED <<line, env, stdoutOK, setting, words>>
  BY DEF validateOutput
<1>2. Plain => (structuredJSON <=> wantsJSON)
  BY <1>1, ReportsAsAsked
<1>3. \/ finishCLIError(commandAction, 2, structuredJSON)
      \/ Succeed("version", structuredJSON)
      \/ stage' = "dispatch" /\ UNCHANGED objects
  BY DEF validateOutput
<1>4. CASE finishCLIError(commandAction, 2, structuredJSON)
  BY <1>1, <1>2, <1>4, Refused
<1>5. CASE Succeed("version", structuredJSON)
  BY <1>1, <1>2, <1>5, Done
<1>6. CASE stage' = "dispatch" /\ UNCHANGED objects
  BY <1>1, <1>6, AskingStays, MeaningStays DEF CliInv, AnswersAsAsked
<1> QED
  BY <1>3, <1>4, <1>5, <1>6

LEMMA DispatchStep ==
  ASSUME CliInv, dispatch
  PROVE  CliInv'
<1>1. stage = "dispatch" /\ UNCHANGED <<line, env, stdoutOK, setting, words>>
  BY DEF dispatch
<1>2. Plain => (structuredJSON <=> wantsJSON)
  BY <1>1, ReportsAsAsked
<1>3. \/ finishCLIError("unknown", 2, structuredJSON)
      \/ stage' = "command" /\ UNCHANGED objects
  BY DEF dispatch
<1>4. CASE finishCLIError("unknown", 2, structuredJSON)
  BY <1>1, <1>2, <1>4, Refused
<1>5. CASE stage' = "command" /\ UNCHANGED objects
  BY <1>1, <1>5, AskingStays, MeaningStays DEF CliInv, AnswersAsAsked
<1> QED
  BY <1>3, <1>4, <1>5

LEMMA CommandStep ==
  ASSUME CliInv, CommandSucceeds \/ CommandFails
  PROVE  CliInv'
<1>1. stage = "command" /\ UNCHANGED <<line, env, stdoutOK, setting>>
  BY DEF CommandSucceeds, CommandFails
<1>2. Plain => (structuredJSON <=> wantsJSON)
  BY <1>1, ReportsAsAsked
<1>3. CASE CommandSucceeds
  <2>1. Succeed(actionOf(named), structuredJSON)
    BY <1>3 DEF CommandSucceeds
  <2> QED
    BY <1>1, <1>2, <2>1, Done
<1>4. CASE CommandFails
  <2>1. PICK status \in 1..2 : finishCLIError(actionOf(named), status, structuredJSON)
    BY <1>4 DEF CommandFails
  <2> QED
    BY <1>1, <1>2, <2>1, Refused
<1> QED
  BY <1>3, <1>4

LEMMA CliStays ==
  ASSUME CliInv, UNCHANGED cliVars
  PROVE  CliInv'
<1>1. UNCHANGED <<line, env, stdoutOK, stage, normalized, setting, words, objects, exit>>
  BY DEF cliVars
<1>2. sorted' = sorted
  BY <1>1 DEF sorted
<1>3. AnswersAsAsked' <=> AnswersAsAsked
  BY <1>1, AskingStays, WantingStays DEF AnswersAsAsked
<1> QED
  BY <1>1, <1>2, <1>3, AskingStays, MeaningStays DEF CliInv

LEMMA CliStep ==
  ASSUME CliInv, [StartupNext]_startup
  PROVE  CliInv'
<1>1. CASE Prepare
  <2>1. loadEnvOptions \/ normalizeCLIArgs \/ ParseArgs \/ validateOutput \/ dispatch
    BY <1>1 DEF Prepare
  <2> QED
    BY <2>1, EnvironmentStep, NormalizeStep, ParseStep, ValidateStep, DispatchStep
<1>2. CASE CommandSucceeds \/ CommandFails
  BY <1>2, CommandStep
<1>3. CASE UNCHANGED cliVars
  BY <1>3, CliStays
<1>4. Prepare \/ (CommandSucceeds \/ CommandFails) \/ UNCHANGED cliVars
  BY DEF StartupNext, Startup, GenerateCredentials, RunSucceeds, RunFails, Exited, startup
<1> QED
  BY <1>1, <1>2, <1>3, <1>4

\* Wherever the options stand on a line whose options have their values, before, between
\* or behind the words, and whatever the environment holds: the command runs with the
\* values that were asked for, the last on the line before the environment, and with the
\* words that are no values in their order.
THEOREM FlagsStandAnywhere == StartupSpec => []FlagsAnywhere
<1>1. StartupInit => CliInv
  BY CliStarts
<1>2. CliInv /\ [StartupNext]_startup => CliInv'
  BY CliStep
<1>3. CliInv => FlagsAnywhere
  BY DEF CliInv, AsMeant, FlagsAnywhere
<1> QED
  BY <1>1, <1>2, <1>3, PTL DEF StartupSpec

\* The three readings of the line agree on how the run is to be reported, but for white
\* space around the format on the line: an error before the flags are read is answered
\* in the form that the flags, once read, would ask for, with one envelope that says
\* what the exit status says.
THEOREM TheAnswerIsAsAsked == StartupSpec => []AnswersAsAsked
<1>1. StartupInit => CliInv
  BY CliStarts
<1>2. CliInv /\ [StartupNext]_startup => CliInv'
  BY CliStep
<1>3. CliInv => AnswersAsAsked
  BY DEF CliInv
<1> QED
  BY <1>1, <1>2, <1>3, PTL DEF StartupSpec

=============================================================================
