----------------------------- MODULE MCUptime -------------------------------
(***************************************************************************)
(* Uptime with minutes, hours and days of two, so that totals carry.       *)
(***************************************************************************)
EXTENDS Uptime
=============================================================================
