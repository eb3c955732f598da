------------------------------- MODULE MCCli -------------------------------
(***************************************************************************)
(* Cli for every combination of the options run() branches on.             *)
(***************************************************************************)
EXTENDS Cli
=============================================================================
