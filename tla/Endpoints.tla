------------------------------ MODULE Endpoints ------------------------------
(***************************************************************************)
(* The data that wireless discovery works on: the service entries an mDNS  *)
(* browse delivers, the address wadb picks out of one, and the endpoints   *)
(* it goes on with (internal/mdns/browse.go).                              *)
(*                                                                         *)
(* An IP is a value; Blank stands for a nil or unspecified one.  A host    *)
(* string is an IP with the zone appended to it, or no zone.               *)
(***************************************************************************)
EXTENDS Integers, Sequences

CONSTANTS
  IP,         \* the addresses an entry can carry
  LinkLocal,  \* those of them that are IPv6 link-local
  Blank,      \* a nil or unspecified address
  Iface,      \* the --iface option, or NoIface
  NoIface,
  Port,
  Instance,   \* mDNS instance names
  NoHost      \* the empty host string

ASSUME AddressAssumption ==
  /\ LinkLocal \subseteq IP
  /\ Blank \notin IP
  /\ NoHost \notin [ip : IP, zone : {Iface, NoIface}]

Host == [ip : IP, zone : {Iface, NoIface}]

Endpoint == [inst : Instance, host : Host, port : Port]

\* Two endpoints are the same when their host:port is, whatever their names.
Addr(ep) == <<ep.host, ep.port>>

\* A *zeroconf.ServiceEntry: the fields the code reads.
ServiceEntry ==
  [inst : Instance, port : Port, v4 : Seq(IP \cup {Blank}), v6 : Seq(IP \cup {Blank})]

----------------------------------------------------------------------------
Least(S) == CHOOSE i \in S : \A j \in S : i <= j

Usable4(e) == {i \in DOMAIN e.v4 : e.v4[i] # Blank}

\* An unscoped link-local address cannot be dialled, so it needs --iface.
Usable6(e) ==
  {i \in DOMAIN e.v6 : e.v6[i] # Blank /\ (e.v6[i] \in LinkLocal => Iface # NoIface)}

\* The first usable IPv4 address, else the first usable IPv6 one.
pickAddr(e) ==
  IF Usable4(e) # {} THEN [ip |-> e.v4[Least(Usable4(e))], zone |-> NoIface]
  ELSE IF Usable6(e) # {}
       THEN LET ip == e.v6[Least(Usable6(e))]
            IN  [ip |-> ip, zone |-> IF ip \in LinkLocal THEN Iface ELSE NoIface]
       ELSE NoHost

\* The entry can be turned into an endpoint.
Reachable(e) == pickAddr(e) # NoHost

EndpointOf(e) == [inst |-> e.inst, host |-> pickAddr(e), port |-> e.port]

Elements(s) == {s[i] : i \in DOMAIN s}

\* The elements of s that are in S, in their order: SelectSeq, which the prover
\* cannot look into.
Keep(s, S) ==
  LET kept[i \in 0..Len(s)] ==
        IF i = 0 THEN <<>>
        ELSE IF s[i] \in S THEN Append(kept[i - 1], s[i]) ELSE kept[i - 1]
  IN  kept[Len(s)]

\* The endpoints among eps that are at the host.
AtHost(eps, host) == {ep \in Elements(eps) : ep.host = host}

\* (Mutant) The preferred host goes last.
PreferHostLast(eps, host) ==
  Keep(eps, Elements(eps) \ AtHost(eps, host)) \o Keep(eps, AtHost(eps, host))

\* A stable sort that moves the preferred host to the front.
PreferHost(eps, host) ==
  Keep(eps, AtHost(eps, host)) \o Keep(eps, Elements(eps) \ AtHost(eps, host))

=============================================================================
