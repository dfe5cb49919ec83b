------------------------------ MODULE RunContract ------------------------------
(***************************************************************************)
(* What a run of the command line may do to the outside, whatever command  *)
(* it is and whatever happens to it: it pairs at most once and before it   *)
(* connects, it connects or disconnects one device unless it was told all, *)
(* it does nothing more once it is interrupted, and it ends with a status  *)
(* that is 0 only if it did what it is for, and 2 only if it did nothing.  *)
(***************************************************************************)
EXTENDS Integers

CONSTANTS
  Address,   \* of devices, host and port
  Running    \* no exit status yet

VARIABLES
  command,   \* [pairs, connects, disconnects, all]: what the run is for
  given,     \* how often the pairing code or password was given to a phone
  paired,    \* the phone took it
  gained,    \* the addresses connected to
  lost,      \* the addresses disconnected from
  cut,       \* the user has interrupted
  status     \* the exit status

run == <<command, given, paired, gained, lost, cut, status>>

Init ==
  /\ command \in [pairs : BOOLEAN, connects : BOOLEAN, disconnects : BOOLEAN, all : BOOLEAN]
  /\ given = 0
  /\ ~paired /\ ~cut
  /\ gained = {} /\ lost = {}
  /\ status = Running

Nothing == given = 0 /\ gained = {} /\ lost = {}

\* The exit status is for what has been done by then.
Truthful(s) ==
  /\ s = 2 => Nothing
  /\ s = 0 /\ command.pairs => paired
  /\ s = 0 /\ command.connects => gained # {}

\* The secret is given to one phone, which may take it; a run that fails or is cut off
\* then does not go on.
Pair ==
  /\ command.pairs /\ given = 0 /\ ~cut
  /\ given' = 1
  /\ \/ paired' /\ UNCHANGED <<cut, status>>
     \/ ~paired' /\ cut' \in BOOLEAN /\ status' = 1
  /\ UNCHANGED <<command, gained, lost>>

\* The server connects to one address; an interrupt may come at the same time.
Connect(a) ==
  /\ command.connects /\ ~cut
  /\ command.pairs => paired
  /\ command.all \/ gained = {}
  /\ gained' = gained \cup {a}
  /\ cut' \in BOOLEAN
  /\ UNCHANGED <<command, given, paired, lost, status>>

\* The server disconnects from some addresses, one at a time unless from all.
Disconnect(gone) ==
  /\ command.disconnects /\ ~cut
  /\ command.all \/ \E a \in gone : gone = {a}
  /\ lost' = lost \cup gone
  /\ cut' \in BOOLEAN
  /\ status' \in {Running, 0, 1}
  /\ UNCHANGED <<command, given, paired, gained>>

Interrupt ==
  /\ ~cut
  /\ cut'
  /\ UNCHANGED <<command, given, paired, gained, lost, status>>

Exit(s) ==
  /\ Truthful(s)
  /\ status' = s
  /\ UNCHANGED <<command, given, paired, gained, lost, cut>>

Next ==
  /\ status = Running
  /\ \/ Pair
     \/ \E a \in Address : Connect(a)
     \/ \E gone \in SUBSET Address : Disconnect(gone)
     \/ Interrupt
     \/ \E s \in 0..2 : Exit(s)

Spec == Init /\ [][Next]_run

===============================================================================
