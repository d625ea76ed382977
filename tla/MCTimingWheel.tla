---------------------------- MODULE MCTimingWheel ----------------------------
(* TimingWheel on wheels of two buckets, for two or three timers. *)
EXTENDS TimingWheel, TLC

CONSTANTS t1, t2, t3, g1, g2

TwoTimers == {t1, t2}
ThreeTimers == {t1, t2, t3}
FirstStoppable == {t1}
NoneStoppable == {}
OneGoroutine == {g1}
TwoGoroutines == {g1, g2}

Ticks1 == [k \in 0 .. 2 |-> CASE k = 0 -> 1 [] k = 1 -> 2 [] k = 2 -> 4]
Ticks2 == [k \in 0 .. 2 |-> CASE k = 0 -> 2 [] k = 1 -> 4 [] k = 2 -> 8]
DelaysShort == {1, 2}
DelaysLong == {1, 4, 5}

\* For the runs that check no liveness: goroutines are interchangeable.
Symmetry == Permutations(TwoGoroutines)
=============================================================================
