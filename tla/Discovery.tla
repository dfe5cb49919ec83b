------------------------------ MODULE Discovery ------------------------------
(***************************************************************************)
(* What a live browse promises its caller, whatever the network does: it   *)
(* finds endpoints one at a time, never the same address twice, keeps what *)
(* it found in the order it found it, and in the end returns all of it -   *)
(* or an error, but only if that is nothing.                               *)
(***************************************************************************)
EXTENDS Endpoints

VARIABLES
  result,   \* the endpoints found
  outcome   \* "pending", then "found" or "failed"

discovery == <<result, outcome>>

Init == result = <<>> /\ outcome = "pending"

Find(ep) ==
  /\ outcome = "pending"
  /\ \A i \in DOMAIN result : Addr(result[i]) # Addr(ep)
  /\ result' = Append(result, ep)
  /\ UNCHANGED outcome

Return ==
  /\ outcome = "pending"
  /\ outcome' = IF result = <<>> THEN "failed" ELSE "found"
  /\ UNCHANGED result

Next == Return \/ \E ep \in Endpoint : Find(ep)

Safety == Init /\ [][Next]_discovery

Spec == Safety /\ WF_discovery(Return)

==============================================================================
