---------------------------- MODULE MCWiFiAdapter ----------------------------
(* WiFiAdapter for TLC. *)
EXTENDS WiFiAdapter
=============================================================================
