------------------------------ MODULE DelayQueue ------------------------------
(***************************************************************************)
(* The delay queue of pkg/timingwheel/queue: any number of goroutines call *)
(* Offer, one goroutine runs Poll, one goroutine (the wheel's loop started *)
(* by TimingWheel.Start) receives from C and may itself call Offer while   *)
(* it flushes a bucket.  Every access to the state they share - the heap   *)
(* under mu, the atomic sleeping flag, the unbuffered channels C, wakeupC  *)
(* and exitC - is a step of its own.                                       *)
(*                                                                         *)
(* The heap is a set of items with priorities: PeekAndShift takes one of   *)
(* the items of least priority, and an item pushed lands at index 0        *)
(* exactly when its priority is below every priority in the heap.          *)
(***************************************************************************)
EXTENDS Integers, FiniteSets

CONSTANTS Item,     \* one element per call of Offer, which it also names
          LoopItem, \* the calls made by the wheel's loop, inside Flush
          Prio,     \* the expirations an item may be offered with
          MaxTime,  \* bound: the clock of the model stops here
          None      \* "no item"

ASSUME ItemAssumption == LoopItem \subseteq Item /\ None \notin Item
ASSUME TimeAssumption == Prio \subseteq Int /\ Prio # {} /\ MaxTime \in Nat

VARIABLES now,      \* the time nowF returns
          exitC,    \* exitC has been closed (by TimingWheel.Stop)
          pq,       \* the items in the heap
          prio,     \* Priority of each item
          opc,      \* where each call of Offer is
          sleeping, \* the atomic flag
          ppc,      \* where Poll is
          pnow,     \* Poll's local variable now
          deadline, \* the instant Poll's timer was set for
          held,     \* the item Poll has shifted out of the heap
          out,      \* the items received from C
          rpc       \* where the wheel's loop is

vars == <<now, exitC, pq, prio, opc, sleeping, ppc, pnow, deadline, held, out, rpc>>
pollVars == <<ppc, pnow, deadline, held>>

OfferPC == {"idle", "cas", "send", "done"}
PollPC == {"top", "peek", "waitEmpty", "waitTimer", "fired", "drain",
           "send", "exit", "done"}
LoopPC == {"recv", "busy", "exited"}

Init ==
  /\ now = 0
  /\ exitC = FALSE
  /\ pq = {}
  /\ prio = [i \in Item |-> CHOOSE p \in Prio : TRUE]
  /\ opc = [i \in Item |-> "idle"]
  /\ sleeping = 0
  /\ ppc = "top"
  /\ pnow = 0
  /\ deadline = 0
  /\ held = None
  /\ out = {}
  /\ rpc = "recv"

-------------------------------------------------------------------------------
(* The environment: time passes, and Stop closes exitC. *)

Tick ==
  /\ now < MaxTime
  /\ now' = now + 1
  /\ UNCHANGED <<exitC, pq, prio, opc, sleeping, pollVars, out, rpc>>

CloseExit ==
  /\ ~exitC
  /\ exitC' = TRUE
  /\ UNCHANGED <<now, pq, prio, opc, sleeping, pollVars, out, rpc>>

-------------------------------------------------------------------------------
(* Offer *)

InOffer(i) == opc[i] \in {"cas", "send"}

\* The loop calls Offer only while it handles a bucket, one call at a time;
\* any other goroutine calls it whenever it likes.
MayCall(i) ==
  i \in LoopItem => rpc = "busy" /\ \A j \in LoopItem : ~InOffer(j)

\* Mutant: only the first item of an empty heap wakes Poll.
OfferPushEmptyOnly(i, p) ==
  /\ opc[i] = "idle"
  /\ MayCall(i)
  /\ opc' = [opc EXCEPT ![i] = IF pq = {} THEN "cas" ELSE "done"]
  /\ pq' = pq \cup {i}
  /\ prio' = [prio EXCEPT ![i] = p]
  /\ UNCHANGED <<now, exitC, sleeping, pollVars, out, rpc>>

\* heap.Push under mu; an item that does not reach index 0 wakes nobody.
OfferPush(i, p) ==
  /\ opc[i] = "idle"
  /\ MayCall(i)
  /\ LET first == \A j \in pq : p < prio[j]
     IN opc' = [opc EXCEPT ![i] = IF first THEN "cas" ELSE "done"]
  /\ pq' = pq \cup {i}
  /\ prio' = [prio EXCEPT ![i] = p]
  /\ UNCHANGED <<now, exitC, sleeping, pollVars, out, rpc>>

\* Mutant: the flag is loaded, not swapped.
OfferCASLoad(i) ==
  /\ opc[i] = "cas"
  /\ opc' = [opc EXCEPT ![i] = IF sleeping = 1 THEN "send" ELSE "done"]
  /\ UNCHANGED <<now, exitC, pq, prio, sleeping, pollVars, out, rpc>>

\* CompareAndSwapInt32(&sleeping, 1, 0): the winner must send on wakeupC.
OfferCAS(i) ==
  /\ opc[i] = "cas"
  /\ opc' = [opc EXCEPT ![i] = IF sleeping = 1 THEN "send" ELSE "done"]
  /\ sleeping' = 0
  /\ UNCHANGED <<now, exitC, pq, prio, pollVars, out, rpc>>

\* wakeupC is unbuffered: the send and one of Poll's three receives meet.
Wakeup(i) ==
  /\ opc[i] = "send"
  /\ ppc \in {"waitEmpty", "waitTimer", "drain"}
  /\ opc' = [opc EXCEPT ![i] = "done"]
  /\ ppc' = "top"
  /\ UNCHANGED <<now, exitC, pq, prio, sleeping, pnow, deadline, held, out, rpc>>

-------------------------------------------------------------------------------
(* Poll *)

PollNow ==
  /\ ppc = "top"
  /\ pnow' = now
  /\ ppc' = "peek"
  /\ UNCHANGED <<now, exitC, pq, prio, opc, sleeping, deadline, held, out, rpc>>

Earliest == {i \in pq : \A j \in pq : prio[i] <= prio[j]}

\* Mutants: the head is taken before it expires; it is taken and forgotten.
PeekShiftEarly(i) ==
  /\ i \in Earliest
  /\ pq' = pq \ {i}
  /\ held' = i
  /\ ppc' = "send"
  /\ UNCHANGED <<sleeping, deadline>>
PeekShiftLost(i) ==
  /\ i \in Earliest
  /\ prio[i] <= pnow
  /\ pq' = pq \ {i}
  /\ ppc' = "send"
  /\ UNCHANGED <<held, sleeping, deadline>>

\* PeekAndShift found an item that had expired at pnow.
PeekShift(i) ==
  /\ i \in Earliest
  /\ prio[i] <= pnow
  /\ pq' = pq \ {i}
  /\ held' = i
  /\ ppc' = "send"
  /\ UNCHANGED <<sleeping, deadline>>

\* PeekAndShift found no expired item: sleeping is set before mu is released.
\* The timer is set for delta = prio - pnow from a moment not before pnow, so
\* it cannot fire before the head expires; how much later is left open.
PeekSleep ==
  /\ \A i \in pq : prio[i] > pnow
  /\ sleeping' = 1
  /\ IF pq = {}
       THEN ppc' = "waitEmpty" /\ UNCHANGED deadline
       ELSE ppc' = "waitTimer" /\ \E i \in Earliest : deadline' = prio[i]
  /\ UNCHANGED <<pq, held>>

PollPeek ==
  /\ ppc = "peek"
  /\ (\E i \in pq : PeekShift(i)) \/ PeekSleep
  /\ UNCHANGED <<now, exitC, prio, opc, pnow, out, rpc>>

PollTimer ==
  /\ ppc = "waitTimer"
  /\ now >= deadline
  /\ ppc' = "fired"
  /\ UNCHANGED <<now, exitC, pq, prio, opc, sleeping, pnow, deadline, held, out, rpc>>

\* Mutant: the blocked sender is not drained.
PollSwapOnly ==
  /\ ppc = "fired"
  /\ ppc' = "top"
  /\ sleeping' = 0
  /\ UNCHANGED <<now, exitC, pq, prio, opc, pnow, deadline, held, out, rpc>>

\* SwapInt32(&sleeping, 0): if an Offer won the flag meanwhile, drain its send.
PollSwap ==
  /\ ppc = "fired"
  /\ ppc' = IF sleeping = 0 THEN "drain" ELSE "top"
  /\ sleeping' = 0
  /\ UNCHANGED <<now, exitC, pq, prio, opc, pnow, deadline, held, out, rpc>>

\* C is unbuffered: Poll's send and the loop's receive meet.
Deliver ==
  /\ ppc = "send"
  /\ rpc = "recv"
  /\ out' = out \cup {held}
  /\ held' = None
  /\ ppc' = "top"
  /\ rpc' = "busy"
  /\ UNCHANGED <<now, exitC, pq, prio, opc, sleeping, pnow, deadline>>

PollExit ==
  /\ exitC
  /\ ppc \in {"waitEmpty", "waitTimer", "send"}
  /\ ppc' = "exit"
  /\ UNCHANGED <<now, exitC, pq, prio, opc, sleeping, pnow, deadline, held, out, rpc>>

PollReset ==
  /\ ppc = "exit"
  /\ sleeping' = 0
  /\ ppc' = "done"
  /\ UNCHANGED <<now, exitC, pq, prio, opc, pnow, deadline, held, out, rpc>>

PollStep == PollNow \/ PollPeek \/ PollTimer \/ PollSwap \/ PollExit \/ PollReset

-------------------------------------------------------------------------------
(* The wheel's loop, as far as the queue can tell. *)

LoopReturn ==
  /\ rpc = "busy"
  /\ \A i \in LoopItem : ~InOffer(i)
  /\ rpc' = "recv"
  /\ UNCHANGED <<now, exitC, pq, prio, opc, sleeping, pollVars, out>>

LoopExit ==
  /\ exitC
  /\ rpc = "recv"
  /\ rpc' = "exited"
  /\ UNCHANGED <<now, exitC, pq, prio, opc, sleeping, pollVars, out>>

-------------------------------------------------------------------------------
Next ==
  \/ Tick
  \/ CloseExit
  \/ \E i \in Item, p \in Prio : OfferPush(i, p)
  \/ \E i \in Item : OfferCAS(i) \/ Wakeup(i)
  \/ PollStep
  \/ Deliver
  \/ LoopReturn
  \/ LoopExit

\* Goroutines that can run do run; time passes.  Nobody has to call Offer or
\* to stop the wheel.
Fairness ==
  /\ WF_vars(Tick)
  /\ \A i \in Item : WF_vars(OfferCAS(i)) /\ WF_vars(Wakeup(i))
  /\ WF_vars(PollStep)
  /\ WF_vars(Deliver)
  /\ WF_vars(LoopReturn)
  /\ WF_vars(LoopExit)

Spec == Init /\ [][Next]_vars /\ Fairness

-------------------------------------------------------------------------------
(* Properties *)

Senders == {i \in Item : opc[i] = "send"}
Parked == {"waitEmpty", "waitTimer", "fired"}

\* Every variable keeps its type, and Poll sends only what it shifted out.
TypeOK ==
  /\ now \in Nat
  /\ exitC \in BOOLEAN
  /\ pq \subseteq Item
  /\ prio \in [Item -> Prio]
  /\ opc \in [Item -> OfferPC]
  /\ sleeping \in {0, 1}
  /\ ppc \in PollPC
  /\ pnow \in Nat
  /\ deadline \in Int
  /\ held \in Item \cup {None}
  /\ ppc = "send" => held # None
  /\ out \subseteq Item
  /\ rpc \in LoopPC

\* The protocol of the flag: whoever clears it owes exactly one send, and
\* Poll is where it can receive that send (queue.go:117-122 and 139, 163-166).
\* Otherwise Poll would go on with a send nobody receives, or drain for ever.
WakeProtocol ==
  /\ \A i, j \in Senders : i = j
  /\ sleeping = 1 => Senders = {} /\ ppc \in Parked \cup {"exit"}
  /\ ppc \in Parked /\ sleeping = 0 => Senders # {}
  /\ ppc = "drain" => Senders # {}
  /\ ppc \in {"top", "peek", "send"} => Senders = {}

\* While Poll sleeps, an item that expires before the instant it sleeps until
\* has somebody on the way to wake it up (queue.go:136-138, the race "between
\* Offer and Poll" the code guards against).
NoLostWakeup ==
  \A i \in pq :
    \/ ppc = "waitEmpty"
    \/ ppc = "waitTimer" /\ prio[i] < deadline
    => \E j \in Item : InOffer(j)

\* Poll blocked on C and the loop blocked on wakeupC wait for each other: it
\* never happens, though the loop calls Offer from inside Flush.
NoCircularWait ==
  ~ (ppc = "send" /\ \E i \in LoopItem : opc[i] = "send")

\* Offer returns: a caller blocked on wakeupC is received from, unless the
\* wheel is being stopped.
OfferReturns ==
  \A i \in Item : InOffer(i) ~> (opc[i] = "done" \/ exitC)

\* Once exitC is closed, both goroutines that TimingWheel.Stop waits for
\* return (timingwheel.go:193-206).  The code does not guarantee it: see the
\* run queue_stop.
StopCompletes == exitC ~> (ppc = "done" /\ rpc = "exited")

\* The queue implements the abstract one: steps on the flag, on wakeupC and
\* on the timer are invisible, and no due item is left in the heap for ever.
Abstract == INSTANCE ExpiryQueue WITH closed <- exitC, pending <- pq, hand <- held
ImplementsExpiryQueue == Abstract!Spec
=============================================================================
