-------------------------------- MODULE Startup --------------------------------
(***************************************************************************)
(* A run of wadb seen from its command line: executeCLI, whose commands    *)
(* succeed or fail, and the one that makes secrets of its own, QR pairing  *)
(* (run in main.go), with the generation of its credentials.               *)
(***************************************************************************)
EXTENDS CliArgs, Credentials

startup == <<cliVars, credVars>>

StartupInit == CliInit /\ CredentialsInit

\* run, after it has found adb.
generates == stage = "command" /\ named = "qr" /\ ~refusesQR

GenerateCredentials == generates /\ Generate /\ UNCHANGED cliVars

\* run goes on, or fails, before it draws the first byte or after it is done.
betweenCalls == generates => making \in {"shown", "failed"} \/ drawn = <<>>

RunSucceeds ==
  /\ named = "qr" => making = "shown"
  /\ CommandSucceeds
  /\ UNCHANGED credVars

RunFails == stage = "command" /\ betweenCalls /\ CommandFails /\ UNCHANGED credVars

Startup ==
  \/ Prepare /\ UNCHANGED credVars
  \/ GenerateCredentials
  \/ RunSucceeds
  \/ RunFails

Exited == stage = "exited" /\ UNCHANGED startup

StartupNext == Startup \/ Exited

\* The process is scheduled, its command returns, and the source of randomness gives
\* a byte that is not rejected in the end.
StartupSpec == StartupInit /\ [][StartupNext]_startup /\ WF_startup(Startup)

----------------------------------------------------------------------------
(* Properties. *)

\* Every command line comes to an exit status, that of QR pairing too, however many
\* of the bytes it draws are rejected.
StartupEnds == <>(stage = "exited" /\ exit \in 0..2)

===============================================================================
