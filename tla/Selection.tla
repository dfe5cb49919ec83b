------------------------------ MODULE Selection ------------------------------
(***************************************************************************)
(* How --device selects among the endpoints of a scan: selectEndpoints of  *)
(* device_manager.go.                                                      *)
(*                                                                         *)
(* Names are compared without regard to case, and a selector without the   *)
(* space around it: names that differ in nothing else are one value here.  *)
(***************************************************************************)
EXTENDS Endpoints

CONSTANTS
  ID,            \* device ids: serial numbers
  endpointID,    \* the id in an instance name, or NoID
  NoID,
  NoDevice,      \* --device is not given
  BlankDevice,   \* --device is white space
  Discoverable   \* what a scan can return, besides nothing

\* What --device can hold: a host alone is a sequence of one element.
Selector ==
  {NoDevice, BlankDevice} \cup ID \cup Instance \cup {<<h>> : h \in Host} \cup (Host \X Port)

ASSUME SelectionAssumption ==
  /\ endpointID \in [Instance -> ID \cup {NoID}]
  /\ NoID \notin Selector
  /\ NoDevice \notin Host \X Port
  /\ Discoverable \subseteq Seq(Endpoint) \ {<<>>}
  /\ \A eps \in Discoverable : \A i, j \in DOMAIN eps : Addr(eps[i]) = Addr(eps[j]) => i = j

candidates(ep) == {endpointID[ep.inst], ep.inst, Addr(ep), <<ep.host>>}

Matching(eps, selector) == {ep \in Elements(eps) : selector \in candidates(ep)}

\* (Mutant) A selector that matches nothing selects everything.
selectEndpointsOrAll(eps, selector) ==
  IF Matching(eps, selector) = {} THEN eps ELSE Keep(eps, Matching(eps, selector))

selectEndpoints(eps, selector) ==
  IF selector \in {NoDevice, BlankDevice} THEN eps ELSE Keep(eps, Matching(eps, selector))

==============================================================================
