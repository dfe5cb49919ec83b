-------------------------------- MODULE MCScan --------------------------------
(***************************************************************************)
(* The paired phone a and a stranger's phone b on one network.  adb may    *)
(* have cached a under the port it used before its last reconnect, b under *)
(* an older name, or the pairing service of either.                        *)
(***************************************************************************)
EXTENDS Scan

CONSTANTS a4, b4, blank, noIface, p1, p2, phoneA, phoneB, phoneB2, unnamed, noHost, noTimer

MCIP == {a4, b4}
MCPort == {p1, p2}
MCInstance == {phoneA, phoneB, phoneB2, unnamed}

At(a) == [ip |-> a, zone |-> noIface]

Listed(svc, name, a, p) ==
  [service |-> svc, ep |-> [inst |-> name, host |-> At(a), port |-> p]]

Announced(name, a, p) == [inst |-> name, port |-> p, v4 |-> <<a>>, v6 |-> <<>>]

MCEntry == {Announced(phoneA, a4, p1), Announced(phoneB, b4, p1), Announced(unnamed, b4, p1),
            Announced(phoneB, blank, p1)}

MCReports ==
  { <<>>,
    <<Listed("pairing", phoneA, a4, p2)>>,
    <<Listed("connect", phoneB2, b4, p1)>>,
    <<Listed("connect", phoneB, b4, p1), Listed("connect", phoneA, a4, p2),
      Listed("connect", phoneB2, b4, p1)>> }

MCPreferred == {noHost, At(a4)}
MCTimeouts == {2, 4}
MCNone == {}

===============================================================================
