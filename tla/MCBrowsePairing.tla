---------------------------- MODULE MCBrowsePairing ----------------------------
(***************************************************************************)
(* The phone that scanned the code, first without a usable address, and a  *)
(* stranger's phone that is pairing at the same time.  The browse is bound *)
(* to an interface, so link-local addresses are usable.                    *)
(***************************************************************************)
EXTENDS BrowsePairing

CONSTANTS a4, b4, l6, blank, wlan, noIface, p1, p2, studio, stranger, noHost, noTimer

MCIP == {a4, b4, l6}
MCLinkLocal == {l6}
MCPort == {p1, p2}
MCInstance == {studio, stranger}

MCEntry ==
  { [inst |-> studio,   port |-> p1, v4 |-> <<blank>>, v6 |-> <<blank>>],
    [inst |-> studio,   port |-> p1, v4 |-> <<>>,      v6 |-> <<blank, l6>>],
    [inst |-> studio,   port |-> p2, v4 |-> <<a4>>,    v6 |-> <<l6>>],
    [inst |-> stranger, port |-> p1, v4 |-> <<b4>>,    v6 |-> <<>>] }

MCTimeouts == {0, 3}

=================================================================================
