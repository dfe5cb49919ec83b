------------------------------- MODULE MCSession -------------------------------
(***************************************************************************)
(* Phone a, that is wanted, and phone b, both paired or only b; two ports. *)
(***************************************************************************)
EXTENDS Session

CONSTANTS a4, b4, blank, noIface, p1, p2, phoneA, phoneB, serialA, serialB, noID,
          noDevice, blankDevice, noName, noHost, noExit

MCIP == {a4, b4}
MCPort == {p1, p2}
MCInstance == {phoneA, phoneB, noName}
MCNone == {}
MCID == {serialA, serialB}
MCEndpointID == [i \in MCInstance |-> IF i = phoneA THEN serialA ELSE IF i = phoneB THEN serialB ELSE noID]

At(ip) == [ip |-> ip, zone |-> noIface]

MCPhones == {At(a4), At(b4)}
MCPhone == At(a4)
MCAnnouncedAs == [p \in MCPhones |-> IF p = At(a4) THEN phoneA ELSE phoneB]

\* What is discovered is the session's own matter.
MCDiscoverable == {}

MCTrusts == {{At(b4)}, MCPhones}
MCServers == SUBSET {<<At(b4), p1>>, <<At(a4), p1>>}

Plain ==
  [cmd |-> "connect", json |-> "structured", all |-> FALSE, device |-> noDevice, arg |-> noDevice,
   pairOnly |-> FALSE, nonInteractive |-> TRUE, badIface |-> FALSE, terminal |-> FALSE,
   broken |-> FALSE]

MCOptions ==
  { Plain,
    [Plain EXCEPT !.device = serialA],
    [Plain EXCEPT !.all = TRUE],
    [Plain EXCEPT !.json = "none", !.nonInteractive = FALSE, !.terminal = TRUE],
    [Plain EXCEPT !.cmd = "pair", !.arg = <<At(a4), p2>>],
    [Plain EXCEPT !.cmd = "pair", !.arg = <<At(a4), p2>>, !.pairOnly = TRUE],
    [Plain EXCEPT !.cmd = "qr", !.json = "none", !.nonInteractive = FALSE, !.terminal = TRUE] }

===============================================================================
