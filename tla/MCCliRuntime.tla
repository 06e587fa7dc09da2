---------------------------- MODULE MCCliRuntime ----------------------------
(***************************************************************************)
(* Small instances of CliRuntime for TLC.                                  *)
(***************************************************************************)
EXTENDS CliRuntime

CONSTANTS t1, t2
=============================================================================
