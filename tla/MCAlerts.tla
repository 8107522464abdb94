------------------------------ MODULE MCAlerts ------------------------------
(* A rule that watches one product, which may cross its threshold twice.    *)
EXTENDS Alerts

CONSTANTS pA

OneProduct == [i \in Incidents |-> pA]
=============================================================================
