----------------------------- MODULE ExpiryQueue -----------------------------
(***************************************************************************)
(* What a delay queue promises, without saying how: an item put in with a  *)
(* priority (the instant it expires) is picked once that instant has come, *)
(* the earliest first, and handed over; while the queue is open nothing    *)
(* that is due stays in it for ever.  DelayQueue.tla, the translation of   *)
(* pkg/timingwheel/queue, is checked to implement this module.             *)
(***************************************************************************)
EXTENDS Integers

CONSTANTS Item,   \* one element per call of Offer
          Prio,   \* the priorities an item may be offered with
          MaxTime,\* the clock of the model stops here
          None    \* "no item"

VARIABLES now,     \* the clock
          closed,  \* the queue has been told to stop
          pending, \* items in the queue
          prio,    \* the priority each item was put in with
          hand,    \* the item picked and not yet handed over
          out      \* the items handed over

vars == <<now, closed, pending, prio, hand, out>>

Init ==
  /\ now = 0
  /\ closed = FALSE
  /\ pending = {}
  /\ prio \in [Item -> Prio]
  /\ hand = None
  /\ out = {}

Advance ==
  /\ now < MaxTime
  /\ now' = now + 1
  /\ UNCHANGED <<closed, pending, prio, hand, out>>

Put(i, p) ==
  /\ i \notin pending \cup out \cup {hand}
  /\ pending' = pending \cup {i}
  /\ prio' = [prio EXCEPT ![i] = p]
  /\ UNCHANGED <<now, closed, hand, out>>

\* The earliest items: nothing pending expires before one of them.
Earliest == {i \in pending : \A j \in pending : prio[i] <= prio[j]}

Pick ==
  \E i \in Earliest :
    /\ hand = None
    /\ prio[i] <= now
    /\ pending' = pending \ {i}
    /\ hand' = i
    /\ UNCHANGED <<now, closed, prio, out>>

HandOver ==
  /\ hand # None
  /\ out' = out \cup {hand}
  /\ hand' = None
  /\ UNCHANGED <<now, closed, pending, prio>>

Close ==
  /\ closed' = TRUE
  /\ UNCHANGED <<now, pending, prio, hand, out>>

Next ==
  \/ Advance
  \/ \E i \in Item, p \in Prio : Put(i, p)
  \/ Pick
  \/ HandOver
  \/ Close

Fairness ==
  /\ WF_vars(~closed /\ Pick)
  /\ WF_vars(~closed /\ HandOver)

Spec == Init /\ [][Next]_vars /\ Fairness
=============================================================================
