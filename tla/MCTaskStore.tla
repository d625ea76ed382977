----------------------------- MODULE MCTaskStore -----------------------------
(* TaskStore with two processes, one copy in each, and tasks of every class. *)
EXTENDS TaskStore

CONSTANTS a, b, s1, s2

TwoTasks == {a, b}
OneTask == {a}
TwoSlots == {s1, s2}
TwoNodes == {0, 1}
SplitHome == [s \in {s1, s2} |-> IF s = s1 THEN 0 ELSE 1]

DelayMixed == [t \in {a, b} |-> IF t = a THEN "slow" ELSE "fast"]
DelaySlow == [t \in {a} |-> "slow"]
BackoffMixed == [t \in {a, b} |-> IF t = a THEN <<"fast", "slow">> ELSE <<"slow">>]
BackoffShort == [t \in {a} |-> <<"fast">>]
=============================================================================
