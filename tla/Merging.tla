-------------------------------- MODULE Merging --------------------------------
(***************************************************************************)
(* How the endpoints that adb has cached and those that a browse has heard *)
(* become one list: mergeEndpoints of device_manager.go.                   *)
(***************************************************************************)
EXTENDS Endpoints

CONSTANTS
  Unnamed   \* the empty instance name

\* (Mutant) The first name of an address stays.
AddEndpointKeepsName(out, ep) ==
  IF \E i \in DOMAIN out : Addr(out[i]) = Addr(ep) THEN out ELSE Append(out, ep)

\* (Mutant) Endpoints are told apart by instance name.
AddEndpointByName(out, ep) ==
  IF \E i \in DOMAIN out : out[i].inst = ep.inst THEN out ELSE Append(out, ep)

\* An address that is already there keeps its place and takes the newer name.
AddEndpoint(out, ep) ==
  IF \E i \in DOMAIN out : Addr(out[i]) = Addr(ep)
  THEN IF ep.inst = Unnamed THEN out
       ELSE [i \in DOMAIN out |-> IF Addr(out[i]) = Addr(ep) THEN ep ELSE out[i]]
  ELSE Append(out, ep)

\* (Mutant) What adb has cached is believed, if there is any.
mergeEndpointsCached(c, l) == IF c = <<>> THEN l ELSE c

\* The endpoints of both, in that order, added one at a time.
mergeEndpoints(c, l) ==
  LET merged[i \in 0..Len(c \o l)] ==
        IF i = 0 THEN <<>> ELSE AddEndpoint(merged[i - 1], (c \o l)[i])
  IN  merged[Len(c \o l)]

===============================================================================
