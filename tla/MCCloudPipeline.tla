--------------------------- MODULE MCCloudPipeline ---------------------------
(* CloudPipeline for TLC. *)
EXTENDS CloudPipeline
=============================================================================
