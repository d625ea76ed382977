--------------------------- MODULE MCWheelLifecycle ---------------------------
(* One AfterFunc, whose function may panic, and one schedule. *)
EXTENDS WheelLifecycle

Jobs == {"after", "every"}
JobRuns == [j \in Jobs |-> IF j = "every" THEN 2 ELSE 1]
Panicky == {"after"}
===============================================================================
