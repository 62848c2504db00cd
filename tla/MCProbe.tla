------------------------------- MODULE MCProbe -------------------------------
(***************************************************************************)
(* A small instance of Probe: three of the five scenarios, one that        *)
(* demands "completed" before two that tolerate "failed".                  *)
(***************************************************************************)
EXTENDS Probe

MCScenarios == << DefaultProbeScenarios[1], DefaultProbeScenarios[4],
                  DefaultProbeScenarios[5] >>

MCUserOverrides == [p \in {"/v1/log"} |-> [method |-> "any", status |-> 503]]

MCWorkerStatuses == {"completed", "failed"}

MCExitCodes == {0, 1}
=============================================================================
