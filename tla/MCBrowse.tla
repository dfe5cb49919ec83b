------------------------------- MODULE MCBrowse -------------------------------
(***************************************************************************)
(* Two phones and the ways they are announced: phone a under two instance  *)
(* names (a reconnect renames it), phone b with an unusable address first  *)
(* and a new port later, and an entry with nothing but a link-local        *)
(* address, which is usable only with --iface.                             *)
(***************************************************************************)
EXTENDS Browse

CONSTANTS a4, b4, b6, l6, blank, wlan, noIface, p1, p2, phoneA, phoneA2, phoneB,
          noHost, noTimer

MCIP == {a4, b4, b6, l6}
MCPort == {p1, p2}
MCInstance == {phoneA, phoneA2, phoneB}
MCLinkLocal == {l6}

plain   == [inst |-> phoneA,  port |-> p1, v4 |-> <<a4>>,        v6 |-> <<>>]
renamed == [inst |-> phoneA2, port |-> p1, v4 |-> <<blank, a4>>, v6 |-> <<b6>>]
moved   == [inst |-> phoneB,  port |-> p2, v4 |-> <<>>,          v6 |-> <<l6, b6>>]
local   == [inst |-> phoneB,  port |-> p2, v4 |-> <<blank>>,     v6 |-> <<l6>>]

MCEntry == {plain, renamed, moved, local}

MCTimeouts == {0, 2, 4}

===============================================================================
