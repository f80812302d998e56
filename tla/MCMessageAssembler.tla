-------------------------- MODULE MCMessageAssembler --------------------------
(* MessageAssembler for TLC. *)
EXTENDS MessageAssembler
=============================================================================
