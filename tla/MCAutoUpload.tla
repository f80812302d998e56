----------------------------- MODULE MCAutoUpload -----------------------------
(* Instances of AutoUpload for TLC: constants only, see the .cfg files.    *)
EXTENDS AutoUpload
=============================================================================
