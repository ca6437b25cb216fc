--------------------------- MODULE MCConfigReport ---------------------------
(***************************************************************************)
(* ConfigReport with one parameter of each kind: the status of the PMU, a  *)
(* limit of the charger, one of connector 2, one of those that flag the    *)
(* wrong connector, the versions of the power modules and of the PMU, and  *)
(* one that is not reported.                                               *)
(***************************************************************************)
EXTENDS ConfigReport

MCGroup  == [p \in Param |->
                CASE p \in {"gunBPower", "serverConnectorBPower"} ->
                         "connector2"
                  [] p \in {"pcm", "pmu"} -> "version"
                  [] OTHER -> NoGroup]

=============================================================================
