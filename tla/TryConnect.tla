------------------------------ MODULE TryConnect ------------------------------
(***************************************************************************)
(* tryConnectEndpoints of device_manager.go: adb connect is run against    *)
(* each endpoint in turn, until one succeeds or, with all, to the end.     *)
(*                                                                         *)
(* Every adb call is a child process bound to the context.  After an       *)
(* interrupt no further one is started; the one that is running is killed  *)
(* and counts as failed, but the adb server it talks to may have done what *)
(* it was told already.                                                    *)
(***************************************************************************)
EXTENDS Endpoints, FiniteSets

VARIABLES
  targets,      \* the endpoints to try, in order
  all,          \* try every one of them
  results,      \* one [ep, status] per endpoint tried
  interrupted,  \* the context is done
  trusted,      \* the hosts whose phone this machine is paired with
  adb,          \* addresses the adb server is connected to
  gained        \* history: addresses the server connected to on our behalf

Outcome == [ep : Endpoint, status : {"connected", "disconnected", "failed"}]

connectVars == <<targets, all, results, interrupted, trusted, adb, gained>>

\* The i-th attempt connected.
Connected(i) == results[i].status = "connected"

Succeeded == \E i \in DOMAIN results : Connected(i)

\* (Mutant) all is ignored by the loop's exit.
TryingAll == Len(results) < Len(targets)

\* (Mutant) The loop ends at the first success even with all.
TryingOne == Len(results) < Len(targets) /\ ~Succeeded

\* There is an endpoint left to try, and no success that ends the loop.
Trying ==
  /\ Len(results) < Len(targets)
  /\ all \/ ~Succeeded

next == targets[Len(results) + 1]

\* (Mutant) The endpoint is not left behind.
RecordStays(status) == results' = results

Record(status) == results' = Append(results, [ep |-> next, status |-> status])

\* (Mutant) The call is started whether or not the context is done.
ConnectAnyway ==
  /\ Trying
  /\ next.host \in trusted
  /\ adb' = adb \cup {Addr(next)}
  /\ gained' = gained \cup {Addr(next)}
  /\ Record("connected")
  /\ UNCHANGED <<targets, all, interrupted, trusted>>

\* The phone accepts us: the server is connected when adb connect returns.
ConnectOK ==
  /\ Trying
  /\ ~interrupted
  /\ next.host \in trusted
  /\ adb' = adb \cup {Addr(next)}
  /\ gained' = gained \cup {Addr(next)}
  /\ Record("connected")
  /\ UNCHANGED <<targets, all, interrupted, trusted>>

\* The phone refuses us, is gone from that port, or the call was not started.
ConnectFails ==
  /\ Trying
  /\ Record("failed")
  /\ UNCHANGED <<targets, all, interrupted, trusted, adb, gained>>

\* (Mutant) The interrupt kills the call but not the context of the next one.
ConnectKilledResumes ==
  /\ Trying
  /\ ~interrupted
  /\ Record("failed")
  /\ \/ next.host \in trusted /\ adb' = adb \cup {Addr(next)} /\ gained' = gained \cup {Addr(next)}
     \/ UNCHANGED <<adb, gained>>
  /\ UNCHANGED <<targets, all, trusted, interrupted>>

\* The interrupt kills adb connect, before or after the server acted.
ConnectKilled ==
  /\ Trying
  /\ ~interrupted
  /\ interrupted' = TRUE
  /\ Record("failed")
  /\ \/ next.host \in trusted /\ adb' = adb \cup {Addr(next)} /\ gained' = gained \cup {Addr(next)}
     \/ UNCHANGED <<adb, gained>>
  /\ UNCHANGED <<targets, all, trusted>>

Attempt == ConnectOK \/ ConnectFails \/ ConnectKilled

\* The connection of a phone that leaves the network drops.
Drop(a) ==
  /\ a \in adb
  /\ adb' = adb \ {a}
  /\ UNCHANGED <<targets, all, results, interrupted, trusted, gained>>

===============================================================================
