---------------------------- MODULE MCConnection ----------------------------
(***************************************************************************)
(* Connection with credentials that fit into wifi_ssid and wifi_password   *)
(* and some that are cut.                                                  *)
(***************************************************************************)
EXTENDS Connection

CONSTANTS home, long

=============================================================================
