---------------------------- MODULE MCLogManager ----------------------------
(* LogManager for TLC: every command, with and without the commands that   *)
(* name a log the inventory does not list.                                 *)
EXTENDS LogManager
=============================================================================
