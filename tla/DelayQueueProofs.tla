--------------------------- MODULE DelayQueueProofs ---------------------------
(***************************************************************************)
(* Proofs about DelayQueue, for any number of calls of Offer, any          *)
(* priorities and any bound on the clock.                                  *)
(***************************************************************************)
EXTENDS DelayQueue, TLAPS

(***************************************************************************)
(* Every variable of the queue keeps its type (queue.go:88-98, 109-186).   *)
(***************************************************************************)
THEOREM TypeCorrect == Spec => []TypeOK
<1>1. Init => TypeOK
  <2> SUFFICES ASSUME Init PROVE TypeOK
    OBVIOUS
  <2>1. (CHOOSE p \in Prio : TRUE) \in Prio
    BY TimeAssumption
  <2>2. prio \in [Item -> Prio]
    <3> DEFINE first == CHOOSE p \in Prio : TRUE
    <3> HIDE DEF first
    <3>1. prio = [i \in Item |-> first] /\ first \in Prio
      BY <2>1 DEF Init, first
    <3> QED
      BY <3>1
  <2>3. opc \in [Item -> OfferPC]
    BY DEF Init, OfferPC
  <2>4. exitC \in BOOLEAN
    BY DEF Init
  <2>5. /\ now = 0 /\ pq = {} /\ sleeping = 0 /\ ppc = "top" /\ pnow = 0
        /\ deadline = 0 /\ held = None /\ out = {} /\ rpc = "recv"
    BY DEF Init
  <2> QED
    BY <2>2, <2>3, <2>4, <2>5 DEF TypeOK, PollPC, LoopPC
<1>2. TypeOK /\ [Next]_vars => TypeOK'
  <2> SUFFICES ASSUME TypeOK, [Next]_vars PROVE TypeOK'
    OBVIOUS
  <2> USE DEF TypeOK, OfferPC, PollPC, LoopPC
  <2>1. CASE Tick
    BY <2>1 DEF Tick, pollVars
  <2>2. CASE CloseExit
    BY <2>2 DEF CloseExit, pollVars
  <2>3. ASSUME NEW i \in Item, NEW p \in Prio, OfferPush(i, p) PROVE TypeOK'
    BY <2>3 DEF OfferPush, pollVars
  <2>4. ASSUME NEW i \in Item, OfferCAS(i) PROVE TypeOK'
    BY <2>4 DEF OfferCAS, pollVars
  <2>5. ASSUME NEW i \in Item, Wakeup(i) PROVE TypeOK'
    BY <2>5 DEF Wakeup
  <2>6. CASE PollNow
    BY <2>6 DEF PollNow
  <2>7. CASE PollPeek
    <3>1. ASSUME NEW i \in pq, PeekShift(i) PROVE TypeOK'
      BY <2>7, <3>1, ItemAssumption DEF PollPeek, PeekShift
    <3>2. CASE PeekSleep
      BY <2>7, <3>2, TimeAssumption DEF PollPeek, PeekSleep, Earliest
    <3> QED
      BY <2>7, <3>1, <3>2 DEF PollPeek
  <2>8. CASE PollTimer
    BY <2>8 DEF PollTimer
  <2>9. CASE PollSwap
    BY <2>9 DEF PollSwap
  <2>10. CASE PollExit
    BY <2>10 DEF PollExit
  <2>11. CASE PollReset
    BY <2>11 DEF PollReset
  <2>12. CASE Deliver
    BY <2>12 DEF Deliver
  <2>13. CASE LoopReturn
    BY <2>13 DEF LoopReturn, pollVars
  <2>14. CASE LoopExit
    BY <2>14 DEF LoopExit, pollVars
  <2>15. CASE UNCHANGED vars
    BY <2>15 DEF vars
  <2> QED
    BY <2>1, <2>2, <2>3, <2>4, <2>5, <2>6, <2>7, <2>8, <2>9, <2>10, <2>11,
       <2>12, <2>13, <2>14, <2>15 DEF Next, PollStep
<1> QED
  BY <1>1, <1>2, PTL DEF Spec

-------------------------------------------------------------------------------
(***************************************************************************)
(* The protocol of the sleeping flag is inductive: whoever clears the flag *)
(* owes one send, and Poll is where it can receive it (queue.go:117-122    *)
(* and 131-166).                                                           *)
(***************************************************************************)
LEMMA WakeProtocolStep ==
  TypeOK /\ WakeProtocol /\ [Next]_vars => WakeProtocol'
<1> SUFFICES ASSUME TypeOK, WakeProtocol, [Next]_vars PROVE WakeProtocol'
  OBVIOUS
<1> USE DEF TypeOK, OfferPC, PollPC, WakeProtocol, Senders, Parked
<1>1. CASE Tick
  BY <1>1 DEF Tick, pollVars
<1>2. CASE CloseExit
  BY <1>2 DEF CloseExit, pollVars
<1>3. ASSUME NEW i \in Item, NEW p \in Prio, OfferPush(i, p) PROVE WakeProtocol'
  BY <1>3 DEF OfferPush, pollVars
<1>4. ASSUME NEW i \in Item, OfferCAS(i) PROVE WakeProtocol'
  BY <1>4 DEF OfferCAS, pollVars
<1>5. ASSUME NEW i \in Item, Wakeup(i) PROVE WakeProtocol'
  <2>1. i \in Senders /\ sleeping = 0
    BY <1>5 DEF Wakeup
  <2>2. Senders' = {}
    BY <1>5, <2>1 DEF Wakeup
  <2> QED
    BY <1>5, <2>1, <2>2 DEF Wakeup
<1>6. CASE PollNow
  BY <1>6 DEF PollNow
<1>7. CASE PollPeek
  BY <1>7 DEF PollPeek, PeekShift, PeekSleep
<1>8. CASE PollTimer
  BY <1>8 DEF PollTimer
<1>9. CASE PollSwap
  BY <1>9 DEF PollSwap
<1>10. CASE PollExit
  BY <1>10 DEF PollExit
<1>11. CASE PollReset
  BY <1>11 DEF PollReset
<1>12. CASE Deliver
  BY <1>12 DEF Deliver
<1>13. CASE LoopReturn
  BY <1>13 DEF LoopReturn, pollVars
<1>14. CASE LoopExit
  BY <1>14 DEF LoopExit, pollVars
<1>15. CASE UNCHANGED vars
  BY <1>15 DEF vars
<1> QED
  BY <1>1, <1>2, <1>3, <1>4, <1>5, <1>6, <1>7, <1>8, <1>9, <1>10, <1>11,
     <1>12, <1>13, <1>14, <1>15 DEF Next, PollStep

(***************************************************************************)
(* The protocol of the sleeping flag always holds (queue.go:117-122 and    *)
(* 131-166): no send is owed to a Poll that does not come to receive it.   *)
(***************************************************************************)
THEOREM WakeProtocolHolds == Spec => []WakeProtocol
<1>1. Init => WakeProtocol
  BY DEF Init, WakeProtocol, Senders, Parked
<1> QED
  BY <1>1, TypeCorrect, WakeProtocolStep, PTL DEF Spec

(***************************************************************************)
(* Poll blocked on C and the loop blocked on wakeupC never wait for each   *)
(* other (queue.go:120 and 176).                                           *)
(***************************************************************************)
THEOREM NoCircularWaitHolds == Spec => []NoCircularWait
<1>1. WakeProtocol => NoCircularWait
  BY ItemAssumption DEF WakeProtocol, NoCircularWait, Senders
<1> QED
  BY <1>1, WakeProtocolHolds, PTL

-------------------------------------------------------------------------------
(***************************************************************************)
(* No wake-up is lost (queue.go:131-141): while Poll sleeps, an item that  *)
(* expires before the instant it sleeps until has a call of Offer on its   *)
(* way to wake Poll up.                                                    *)
(***************************************************************************)
THEOREM NoLostWakeupHolds == Spec => []NoLostWakeup
<1>1. Init => NoLostWakeup
  BY DEF Init, NoLostWakeup
<1>2. TypeOK /\ WakeProtocol /\ NoLostWakeup /\ [Next]_vars => NoLostWakeup'
  <2> SUFFICES ASSUME TypeOK, WakeProtocol, NoLostWakeup, [Next]_vars
               PROVE NoLostWakeup'
    OBVIOUS
  <2> USE DEF TypeOK, OfferPC, NoLostWakeup, InOffer
  <2>1. CASE Tick
    BY <2>1 DEF Tick, pollVars
  <2>2. CASE CloseExit
    BY <2>2 DEF CloseExit, pollVars
  <2>3. ASSUME NEW i \in Item, NEW p \in Prio, OfferPush(i, p)
        PROVE NoLostWakeup'
    <3>1. CASE opc'[i] = "cas"
      BY <3>1
    <3>2. CASE opc'[i] # "cas"
      <4>1. PICK j \in pq : ~(p < prio[j])
        BY <2>3, <3>2 DEF OfferPush
      <4>2. prio[j] <= p /\ prio[j] \in Int /\ p \in Int
        <5>1. prio[j] \in Prio /\ p \in Prio
          BY <4>1
        <5>2. prio[j] \in Int /\ p \in Int
          BY <5>1, TimeAssumption
        <5> QED
          BY <4>1, <5>2
      <4>3. ASSUME NEW k \in pq',
                   \/ ppc = "waitEmpty"
                   \/ ppc = "waitTimer" /\ prio'[k] < deadline
            PROVE \E l \in Item : InOffer(l)
        <5>1. CASE k = i
          <6>1. prio'[k] = p
            BY <2>3, <5>1 DEF OfferPush
          <6> QED
            BY <4>2, <4>3, <6>1
        <5>2. CASE k # i
          <6>1. k \in pq /\ prio'[k] = prio[k]
            BY <2>3, <5>2 DEF OfferPush
          <6> QED
            BY <4>3, <6>1
        <5> QED
          BY <5>1, <5>2
      <4>4. \A l \in Item : InOffer(l) => InOffer(l)'
        BY <2>3 DEF OfferPush
      <4> QED
        BY <2>3, <4>3, <4>4 DEF OfferPush, pollVars
    <3> QED
      BY <3>1, <3>2
  <2>4. ASSUME NEW i \in Item, OfferCAS(i) PROVE NoLostWakeup'
    <3>1. CASE sleeping = 1
      BY <2>4, <3>1 DEF OfferCAS, pollVars
    <3>2. CASE sleeping = 0 /\ ppc \in {"waitEmpty", "waitTimer"}
      <4>1. PICK j \in Item : opc[j] = "send"
        BY <3>2 DEF WakeProtocol, Senders, Parked
      <4>2. opc'[j] = "send"
        BY <2>4, <4>1 DEF OfferCAS
      <4> QED
        BY <4>2
    <3>3. CASE ppc \notin {"waitEmpty", "waitTimer"}
      BY <2>4, <3>3 DEF OfferCAS, pollVars
    <3> QED
      BY <3>1, <3>2, <3>3
  <2>5. ASSUME NEW i \in Item, Wakeup(i) PROVE NoLostWakeup'
    BY <2>5 DEF Wakeup
  <2>6. CASE PollNow
    BY <2>6 DEF PollNow
  <2>7. CASE PollPeek
    <3>1. ASSUME NEW i \in pq, PeekShift(i) PROVE NoLostWakeup'
      BY <2>7, <3>1 DEF PollPeek, PeekShift
    <3>2. CASE PeekSleep /\ pq = {}
      BY <2>7, <3>2 DEF PollPeek, PeekSleep
    <3>3. CASE PeekSleep /\ pq # {}
      <4>1. PICK i \in Earliest : deadline' = prio[i]
        BY <3>3 DEF PeekSleep
      <4>2. ppc' = "waitTimer" /\ pq' = pq /\ prio' = prio
        BY <2>7, <3>3 DEF PollPeek, PeekSleep
      <4>3. i \in pq /\ \A k \in pq : prio[i] <= prio[k]
        BY <4>1 DEF Earliest
      <4>4. \A k \in pq : prio[k] \in Int
        BY TimeAssumption
      <4>5. \A k \in pq' : ~(prio'[k] < deadline')
        BY <4>1, <4>2, <4>3, <4>4
      <4> QED
        BY <4>2, <4>5
    <3> QED
      BY <2>7, <3>1, <3>2, <3>3 DEF PollPeek
  <2>8. CASE PollTimer
    BY <2>8 DEF PollTimer
  <2>9. CASE PollSwap
    BY <2>9 DEF PollSwap
  <2>10. CASE PollExit
    BY <2>10 DEF PollExit
  <2>11. CASE PollReset
    BY <2>11 DEF PollReset
  <2>12. CASE Deliver
    BY <2>12 DEF Deliver
  <2>13. CASE LoopReturn
    BY <2>13 DEF LoopReturn, pollVars
  <2>14. CASE LoopExit
    BY <2>14 DEF LoopExit, pollVars
  <2>15. CASE UNCHANGED vars
    BY <2>15 DEF vars
  <2> QED
    BY <2>1, <2>2, <2>3, <2>4, <2>5, <2>6, <2>7, <2>8, <2>9, <2>10, <2>11,
       <2>12, <2>13, <2>14, <2>15 DEF Next, PollStep
<1> QED
  BY <1>1, <1>2, TypeCorrect, WakeProtocolHolds, PTL DEF Spec

-------------------------------------------------------------------------------
(***************************************************************************)
(* Where an item is: a call of Offer not yet made has left nothing in the  *)
(* queue, Poll holds an item only from shifting it out to handing it over, *)
(* and Poll's notion of the time is never ahead of the clock.              *)
(***************************************************************************)
ItemPlaces ==
  /\ \A i \in Item : opc[i] = "idle" => i \notin pq \cup out \cup {held}
  /\ held # None => ppc \in {"send", "exit", "done"}
  /\ pnow <= now

LEMMA ItemPlacesHold == Spec => []ItemPlaces
<1>1. Init => ItemPlaces
  BY ItemAssumption DEF Init, ItemPlaces
<1>2. TypeOK /\ ItemPlaces /\ [Next]_vars => ItemPlaces'
  <2> SUFFICES ASSUME TypeOK, ItemPlaces, [Next]_vars PROVE ItemPlaces'
    OBVIOUS
  <2> USE DEF TypeOK, OfferPC, PollPC, ItemPlaces
  <2>1. CASE Tick
    BY <2>1 DEF Tick, pollVars
  <2>2. CASE CloseExit
    BY <2>2 DEF CloseExit, pollVars
  <2>3. ASSUME NEW i \in Item, NEW p \in Prio, OfferPush(i, p) PROVE ItemPlaces'
    BY <2>3 DEF OfferPush, pollVars
  <2>4. ASSUME NEW i \in Item, OfferCAS(i) PROVE ItemPlaces'
    BY <2>4 DEF OfferCAS, pollVars
  <2>5. ASSUME NEW i \in Item, Wakeup(i) PROVE ItemPlaces'
    BY <2>5 DEF Wakeup
  <2>6. CASE PollNow
    BY <2>6 DEF PollNow
  <2>7. CASE PollPeek
    BY <2>7, ItemAssumption DEF PollPeek, PeekShift, PeekSleep
  <2>8. CASE PollTimer
    BY <2>8 DEF PollTimer
  <2>9. CASE PollSwap
    BY <2>9 DEF PollSwap
  <2>10. CASE PollExit
    BY <2>10 DEF PollExit
  <2>11. CASE PollReset
    BY <2>11 DEF PollReset
  <2>12. CASE Deliver
    BY <2>12, ItemAssumption DEF Deliver
  <2>13. CASE LoopReturn
    BY <2>13 DEF LoopReturn, pollVars
  <2>14. CASE LoopExit
    BY <2>14 DEF LoopExit, pollVars
  <2>15. CASE UNCHANGED vars
    BY <2>15 DEF vars
  <2> QED
    BY <2>1, <2>2, <2>3, <2>4, <2>5, <2>6, <2>7, <2>8, <2>9, <2>10, <2>11,
       <2>12, <2>13, <2>14, <2>15 DEF Next, PollStep
<1> QED
  BY <1>1, <1>2, TypeCorrect, PTL DEF Spec

(***************************************************************************)
(* The safety part of ImplementsExpiryQueue: every step of Offer, Poll and *)
(* the wheel's loop is a step of the abstract queue or changes nothing it  *)
(* shows.  No item is handed out before it expires, before an earlier one  *)
(* that is in the queue, or twice.                                         *)
(***************************************************************************)
THEOREM StepsOfExpiryQueue ==
  Spec => Abstract!Init /\ [][Abstract!Next]_(Abstract!vars)
<1>1. Init /\ TypeOK => Abstract!Init
  BY DEF Init, TypeOK, Abstract!Init
<1>2. TypeOK /\ ItemPlaces /\ [Next]_vars
        => [Abstract!Next]_(Abstract!vars)
  <2> SUFFICES ASSUME TypeOK, ItemPlaces, [Next]_vars
               PROVE [Abstract!Next]_(Abstract!vars)
    OBVIOUS
  <2> USE DEF Abstract!vars
  <2>1. CASE Tick
    BY <2>1 DEF Tick, pollVars, Abstract!Next, Abstract!Advance
  <2>2. CASE CloseExit
    BY <2>2 DEF CloseExit, pollVars, Abstract!Next, Abstract!Close
  <2>3. ASSUME NEW i \in Item, NEW p \in Prio, OfferPush(i, p)
        PROVE Abstract!Next
    <3>1. Abstract!Put(i, p)
      BY <2>3 DEF OfferPush, pollVars, ItemPlaces, Abstract!Put
    <3> QED
      BY <3>1 DEF Abstract!Next
  <2>4. ASSUME NEW i \in Item, OfferCAS(i) PROVE UNCHANGED Abstract!vars
    BY <2>4 DEF OfferCAS, pollVars
  <2>5. ASSUME NEW i \in Item, Wakeup(i) PROVE UNCHANGED Abstract!vars
    BY <2>5 DEF Wakeup
  <2>6. CASE PollNow
    BY <2>6 DEF PollNow
  <2>7. CASE PollPeek
    <3>1. ASSUME NEW i \in pq, PeekShift(i) PROVE Abstract!Next
      <4>1. i \in Abstract!Earliest
        BY <3>1 DEF PeekShift, Earliest, Abstract!Earliest
      <4>2. held = None
        BY <2>7 DEF PollPeek, ItemPlaces
      <4>3. prio[i] <= now
        <5>1. prio[i] \in Int /\ pnow \in Int /\ now \in Int
          <6>1. prio[i] \in Prio /\ pnow \in Nat /\ now \in Nat
            BY DEF TypeOK
          <6>2. prio[i] \in Int
            BY <6>1, TimeAssumption
          <6> QED
            BY <6>1, <6>2
        <5> QED
          BY <3>1, <5>1 DEF PeekShift, ItemPlaces
      <4>4. Abstract!Pick
        BY <2>7, <3>1, <4>1, <4>2, <4>3 DEF PollPeek, PeekShift, Abstract!Pick
      <4> QED
        BY <4>4 DEF Abstract!Next
    <3>2. CASE PeekSleep
      BY <2>7, <3>2 DEF PollPeek, PeekSleep
    <3> QED
      BY <2>7, <3>1, <3>2 DEF PollPeek
  <2>8. CASE PollTimer
    BY <2>8 DEF PollTimer
  <2>9. CASE PollSwap
    BY <2>9 DEF PollSwap
  <2>10. CASE PollExit
    BY <2>10 DEF PollExit
  <2>11. CASE PollReset
    BY <2>11 DEF PollReset
  <2>12. CASE Deliver
    <3>1. Abstract!HandOver
      BY <2>12 DEF Deliver, TypeOK, Abstract!HandOver
    <3> QED
      BY <3>1 DEF Abstract!Next
  <2>13. CASE LoopReturn
    BY <2>13 DEF LoopReturn, pollVars
  <2>14. CASE LoopExit
    BY <2>14 DEF LoopExit, pollVars
  <2>15. CASE UNCHANGED vars
    BY <2>15 DEF vars
  <2> QED
    BY <2>1, <2>2, <2>3, <2>4, <2>5, <2>6, <2>7, <2>8, <2>9, <2>10, <2>11,
       <2>12, <2>13, <2>14, <2>15 DEF Next, PollStep
<1> QED
  BY <1>1, <1>2, TypeCorrect, ItemPlacesHold, PTL DEF Spec
=============================================================================
