------------------------------ MODULE MCUplink ------------------------------
(***************************************************************************)
(* Uplink with one connector, up to three boots and one or two messages of *)
(* each kind: enough for a message of one boot to be answered in the next, *)
(* for that answer to restart the chip, for a full request file and a full *)
(* fault log, and for retries with other messages sent between them.       *)
(***************************************************************************)
EXTENDS Uplink

CONSTANTS c1, c2, s1, f1, p1

MCAction == [u \in Uuid |->
                CASE u \in {c1, c2} -> ConfigurationData
                  [] u = s1 -> ChargingSession
                  [] u = f1 -> FaultInformation
                  [] u = p1 -> PeriodicData]

=============================================================================
