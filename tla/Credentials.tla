------------------------------ MODULE Credentials ------------------------------
(***************************************************************************)
(* The credentials of a QR code (internal/pairing/creds.go): a service     *)
(* name, which the phone announces to the whole network, and a password.   *)
(* randString makes each of them from random bytes, one character per      *)
(* byte.  A byte beyond the last multiple of the alphabet's length is      *)
(* rejected, for the remainder would favour the first characters.          *)
(*                                                                         *)
(* A character is its index in the alphabet.  The code computes in uint8:  *)
(* Bytes stands for 256, and what is converted to a byte is taken modulo   *)
(* Bytes.  An alphabet whose length divides 256 makes limit wrap to 0, and *)
(* then every byte is rejected; one of 256 characters makes max 0.  The    *)
(* program has one alphabet, of 62 characters.                             *)
(***************************************************************************)
EXTENDS Integers, Sequences, FiniteSets

CONSTANTS
  Bytes,        \* the number of byte values
  Alphabets,    \* the lengths of the alphabets to consider
  Wanted,       \* how many random characters the name and the password have
  MaxRejected   \* bound: how many of the bytes drawn are rejected

Credential == {"name", "password"}

ASSUME CredentialsAssumption ==
  /\ Bytes \in Nat \ {0}
  /\ Alphabets \subseteq {n \in 1..(Bytes - 1) : Bytes % n # 0}
  /\ Wanted \in [Credential -> Nat \ {0}]
  /\ MaxRejected \in Nat

VARIABLES
  alphabet,   \* the length of the alphabet
  making,     \* the credential in the making, then "shown" or "failed"
  buf,        \* the bytes of the last read
  pos,        \* how many of them have been looked at
  out,        \* the characters of the credential in the making
  made,       \* the finished credentials
  drawn       \* history: all bytes read

credVars == <<alphabet, making, buf, pos, out, made, drawn>>

max == alphabet % Bytes

\* (Mutant) Nothing is rejected.
limitNone == Bytes

limit == (Bytes - (Bytes % max)) % Bytes

rejected(b) == b >= limit

CredentialsInit ==
  /\ alphabet \in Alphabets
  /\ making = "name"
  /\ buf = <<>>
  /\ pos = 0
  /\ out = <<>>
  /\ made = [c \in Credential |-> <<>>]
  /\ drawn = <<>>

\* The outer loop: the credential is not complete and the buffer is used up.
Exhausted == making \in Credential /\ pos = Len(buf)

\* (Mutant) The buffer is filled once, and looked at again.
FillOnce ==
  /\ Exhausted
  /\ pos' = 0
  /\ IF buf # <<>> THEN UNCHANGED <<buf, drawn>>
     ELSE /\ buf' \in [1..Wanted[making] -> 0..(Bytes - 1)]
          /\ drawn' = drawn \o buf'
          /\ Cardinality({i \in DOMAIN drawn' : rejected(drawn'[i])}) <= MaxRejected
  /\ UNCHANGED <<alphabet, making, out, made>>

\* rand.Read fills the buffer.
Fill ==
  /\ Exhausted
  /\ buf' \in [1..Wanted[making] -> 0..(Bytes - 1)]
  /\ pos' = 0
  /\ drawn' = drawn \o buf'
  /\ Cardinality({i \in DOMAIN drawn' : rejected(drawn'[i])}) <= MaxRejected
  /\ UNCHANGED <<alphabet, making, out, made>>

\* rand.Read fails: neither credential is used.
FillFails ==
  /\ Exhausted
  /\ making' = "failed"
  /\ UNCHANGED <<alphabet, buf, pos, out, made, drawn>>

\* The inner loop looks at the next byte.
Looking == making \in Credential /\ pos < Len(buf)

next == buf[pos + 1]

\* (Mutant) The loop stays at a rejected byte.
RejectStays ==
  /\ Looking
  /\ rejected(next)
  /\ UNCHANGED credVars

Reject ==
  /\ Looking
  /\ rejected(next)
  /\ pos' = pos + 1
  /\ UNCHANGED <<alphabet, making, buf, out, made, drawn>>

Accept ==
  /\ Looking
  /\ ~rejected(next)
  /\ Len(out) + 1 < Wanted[making]
  /\ pos' = pos + 1
  /\ out' = Append(out, next % max)
  /\ UNCHANGED <<alphabet, making, buf, made, drawn>>

\* The last character: what is left in the buffer is dropped.  The QR code is shown
\* once both credentials are there.
Complete ==
  /\ Looking
  /\ ~rejected(next)
  /\ Len(out) + 1 = Wanted[making]
  /\ made' = [made EXCEPT ![making] = Append(out, next % max)]
  /\ making' = IF making = "name" THEN "password" ELSE "shown"
  /\ buf' = <<>>
  /\ pos' = 0
  /\ out' = <<>>
  /\ UNCHANGED <<alphabet, drawn>>

Generate == Fill \/ FillFails \/ Reject \/ Accept \/ Complete

----------------------------------------------------------------------------
(* Properties. *)

Byte == 0..(Bytes - 1)

CredentialsTypeOK ==
  /\ alphabet \in Alphabets
  /\ making \in Credential \cup {"shown", "failed"}
  /\ buf \in Seq(Byte)
  /\ pos \in 0..Len(buf)
  /\ out \in Seq(0..(alphabet - 1))
  /\ made \in [Credential -> Seq(0..(alphabet - 1))]
  /\ drawn \in Seq(Byte)

\* The byte values that become the character c.
Yielding(c) == {b \in Byte : ~rejected(b) /\ b % max = c}

\* Every character of the alphabet is as likely as every other, and fewer byte values
\* are rejected than the alphabet has characters.
Unbiased ==
  /\ \A c, d \in 0..(alphabet - 1) : Cardinality(Yielding(c)) = Cardinality(Yielding(d))
  /\ Cardinality({b \in Byte : rejected(b)}) < alphabet

\* What has been made so far, the name and the password in a row.
soFar == made["name"] \o made["password"] \o out

\* Every character comes from a byte of its own, in the order the source gave them:
\* no byte is used twice, neither within a credential, when the buffer has to be
\* filled again, nor for the password after the name, which everyone can read.
OwnByteEach ==
  \E from \in [DOMAIN soFar -> DOMAIN drawn] :
    /\ \A i \in DOMAIN soFar : drawn[from[i]] \in Yielding(soFar[i])
    /\ \A i, j \in DOMAIN soFar : i < j => from[i] < from[j]

==============================================================================
