------------------------------ MODULE MCSensors ------------------------------
(* A receiver with two places to name, an operator with two settings.  Each   *)
(* kit puts the fields in play that can disturb one another.                  *)
EXTENDS Sensors

KitsChecked == {{"pos", "clock"}, {"pos", "batt"}, {"head"}, {"flat"}}

\* In ticks: claiming upright is quick, abandoning it slow.
DwellTicks == [p \in Poses |-> IF p = "horizontal" THEN 2 ELSE 1]

HoldTicks == [p \in Poses \cup {"unknown"} |-> IF p = "vertical" THEN 3 ELSE 2]
=============================================================================
