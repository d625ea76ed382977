----------------------------- MODULE TimerService -----------------------------
(***************************************************************************)
(* What AfterFunc and Timer.Stop promise, without wheels, buckets or       *)
(* queues: a timer armed for a delay fires once, not before the tick its   *)
(* expiration falls in, and, unless it is stopped first, fires eventually. *)
(* TimingWheel.tla is checked to implement this module.                    *)
(***************************************************************************)
EXTENDS Integers

CONSTANTS Timer,  \* the timers
          Delay,  \* the durations given to AfterFunc
          Tick,   \* the granularity of the service
          MaxTime,\* bound: the clock of the model stops here
          Never   \* the expiration of a timer not yet armed

VARIABLES now,   \* the clock
          expi,  \* the expiration of each timer
          phase  \* "new", "pending", "fired" or "stopped"

vars == <<now, expi, phase>>

Init ==
  /\ now = 0
  /\ expi = [t \in Timer |-> Never]
  /\ phase = [t \in Timer |-> "new"]

Advance ==
  /\ now < MaxTime
  /\ now' = now + 1
  /\ UNCHANGED <<expi, phase>>

Arm(t, d) ==
  /\ phase[t] = "new"
  /\ phase' = [phase EXCEPT ![t] = "pending"]
  /\ expi' = [expi EXCEPT ![t] = now + d]
  /\ UNCHANGED now

\* The tick of the expiration has begun.
Due(t) == (expi[t] \div Tick) * Tick <= now

Fire(t) ==
  /\ phase[t] = "pending"
  /\ Due(t)
  /\ phase' = [phase EXCEPT ![t] = "fired"]
  /\ UNCHANGED <<now, expi>>

Cancel(t) ==
  /\ phase[t] = "pending"
  /\ phase' = [phase EXCEPT ![t] = "stopped"]
  /\ UNCHANGED <<now, expi>>

Next ==
  \/ Advance
  \/ \E t \in Timer, d \in Delay : Arm(t, d)
  \/ \E t \in Timer : Fire(t) \/ Cancel(t)

Spec == Init /\ [][Next]_vars /\ \A t \in Timer : WF_vars(Fire(t))
=============================================================================
