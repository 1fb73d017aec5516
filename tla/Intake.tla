------------------------------- MODULE Intake -------------------------------
(***************************************************************************)
(* From the environment and the command line to the file of a transfer:    *)
(* main (net/sync.cpp) loads the configuration and starts the manager      *)
(* (Config), gives it a command (IpcCommand), and a task that came out of  *)
(* the command is resolved to a file below local_root (LocalPath).         *)
(*                                                                         *)
(* The parser does not look at the numbers of the configuration, and the   *)
(* names in a path do not depend on the rest of the command.  So commands  *)
(* are explored from one configuration only, and paths from a few commands.*)
(* Where IpcCommand only says that a path is refused, LocalPath finds out: *)
(* enqueue resolves the path before it returns, and both must agree.       *)
(***************************************************************************)
EXTENDS Config, IpcCommand, LocalPath

CONSTANT Probes   \* bound: inputs whose task is followed to its file

-----------------------------------------------------------------------------
PlainEnvironment == \A n \in Names : Unset(environ[n])

configure == Next /\ UNCHANGED <<commandVars, pathVars>>

enqueue_command ==
  /\ verdict = "started" /\ PlainEnvironment
  /\ CommandNext
  /\ UNCHANGED <<vars, pathVars>>

(* The path of a task that got as far as is_large_task.                    *)
Direction(t) == IF t[1] = <<"D">> THEN "Download" ELSE "Upload"
resolve_path ==
  /\ parsing = "returned" /\ input \in Probes /\ answer \in {Accepted, "path"}
  /\ \/ arrive(Direction(tokens))
     \/ enqueue /\ (resolving' = "queued" <=> answer = Accepted)
  /\ UNCHANGED <<vars, commandVars>>

process_path ==
  /\ process_task \/ relink
  /\ UNCHANGED <<vars, commandVars>>

IntakeInit == Init /\ CommandInit /\ PathInit
IntakeNext == configure \/ enqueue_command \/ resolve_path \/ process_path
IntakeSpec == IntakeInit /\ [][IntakeNext]_<<vars, commandVars, pathVars>>
=============================================================================
