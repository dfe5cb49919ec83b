------------------------------ MODULE MCDevices ------------------------------
(***************************************************************************)
(* Phone a is on USB and on Wi-Fi, where adb may have it under a former    *)
(* port; phone b announces itself under a name that carries no id.  adb    *)
(* lists up to two transports, in any order and state.                     *)
(***************************************************************************)
EXTENDS Devices

CONSTANTS a4, b4, blank, noIface, p1, p2, phoneA, phoneA2, phoneB, serialA, serialC, noID,
          noDevice, blankDevice, noName, noHost, pixel, noModel

MCIP == {a4, b4}
MCNone == {}
MCPort == {p1, p2}
MCInstance == {phoneA, phoneA2, phoneB, noName}
MCID == {serialA, serialC}
MCEndpointID == [i \in MCInstance |-> IF i \in {phoneA, phoneA2} THEN serialA ELSE noID]
MCModel == {pixel}

At(ip) == [ip |-> ip, zone |-> noIface]
Ep(name, ip, port) == [inst |-> name, host |-> At(ip), port |-> port]

epA   == Ep(phoneA, a4, p1)
epOld == Ep(phoneA2, a4, p2)
epB   == Ep(phoneB, b4, p1)

MCDiscoverable == { <<epA>>, <<epB>>, <<epOld, epA>>, <<epA, epB>>, <<epB, epOld, epA>>,
                    <<Ep(noName, b4, p1), epA>> }

Entry(s, st, m) == [serial |-> s, state |-> st, model |-> m]

Listable ==
  {Entry(s, "device", pixel) : s \in {serialA, serialC, Addr(epA), Addr(epB)}}
    \cup {Entry(s, st, noModel) : s \in {serialA, Addr(epA), Addr(epOld)}, st \in {"offline", "unauthorized"}}

MCLists ==
  {<<>>} \cup {<<e>> : e \in Listable}
    \cup {<<p[1], p[2]>> : p \in {q \in Listable \X Listable : q[1].serial # q[2].serial}}

MCFilters ==
  {noDevice, blankDevice, serialA, pixel, phoneA2, Addr(epA), Addr(epOld), Addr(epB), <<At(a4)>>}

==============================================================================
