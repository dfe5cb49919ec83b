------------------------------ MODULE MCCommands ------------------------------
(***************************************************************************)
(* Phone a, which adb may also have cached under its former port, and      *)
(* phone b, which announces itself under a name that carries no id.        *)
(***************************************************************************)
EXTENDS Commands

CONSTANTS a4, b4, blank, noIface, p1, p2, phoneA, phoneB, serialA, noID,
          noDevice, blankDevice, noName, noHost, noExit

MCIP == {a4, b4}
MCPort == {p1, p2}
MCInstance == {phoneA, phoneB, noName}
MCNone == {}
MCID == {serialA}
MCEndpointID == [i \in MCInstance |-> IF i = phoneA THEN serialA ELSE noID]

At(ip) == [ip |-> ip, zone |-> noIface]
Ep(name, ip, port) == [inst |-> name, host |-> At(ip), port |-> port]

epA   == Ep(phoneA, a4, p1)
epOld == Ep(phoneA, a4, p2)
epB   == Ep(phoneB, b4, p1)

MCDiscoverable == { <<epA>>, <<epB>>, <<epOld, epA>>, <<epB, epOld, epA>> }

MCTrusts == SUBSET {At(a4), At(b4)}
MCServers == { {}, {Addr(epA)}, {Addr(epA), Addr(epB)} }

Plain ==
  [cmd |-> "connect", json |-> "none", all |-> FALSE, device |-> noDevice, arg |-> noDevice,
   pairOnly |-> FALSE, nonInteractive |-> FALSE, badIface |-> FALSE, terminal |-> FALSE,
   broken |-> FALSE]

MCSelectors == {noDevice, blankDevice, serialA, <<At(a4)>>, Addr(epA)}

Arg(c) == IF c = "pair" THEN <<At(a4), p2>> ELSE noDevice

Selecting ==
  {[Plain EXCEPT !.cmd = c, !.json = j, !.all = a, !.device = d] :
     c \in {"connect", "disconnect"}, j \in {"none", "structured"}, a \in BOOLEAN, d \in MCSelectors}

Pairing ==
  {[Plain EXCEPT !.cmd = c, !.json = j, !.arg = Arg(c), !.pairOnly = o, !.nonInteractive = n, !.terminal = t] :
     c \in {"pair", "qr"}, j \in {"none", "structured"},
     o \in BOOLEAN, n \in BOOLEAN, t \in BOOLEAN}

Reading ==
  {[Plain EXCEPT !.cmd = c, !.json = j, !.all = a] :
     c \in {"devices", "doctor"}, j \in {"legacy", "structured"}, a \in BOOLEAN}

Odd ==
  {[Plain EXCEPT !.cmd = c, !.json = j, !.device = d, !.badIface = i, !.broken = ~i, !.arg = Arg(c)] :
     c \in Cmd, j \in {"none", "legacy", "structured"}, d \in {noDevice, serialA}, i \in BOOLEAN}

\* An argument too many, or one too few.
Misused == {[Plain EXCEPT !.cmd = c, !.json = "structured", !.arg = a] :
              c \in {"pair", "doctor"}, a \in {noDevice, Addr(epA)}}

MCOptions == Misused \cup Selecting \cup Pairing \cup Reading \cup Odd

===============================================================================
