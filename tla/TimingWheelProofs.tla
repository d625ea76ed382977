-------------------------- MODULE TimingWheelProofs --------------------------
(***************************************************************************)
(* Proofs about TimingWheel, with or without lag, for any number of        *)
(* timers, goroutines, buckets and wheels.                                 *)
(***************************************************************************)
EXTENDS TimingWheel, FiniteSetTheorems, TLAPS

\* A goroutine in add holds an armed timer, a timer in a bucket is armed, and
\* the loop has a bucket exactly while it handles one.
Holding ==
  /\ \A p \in Proc : pc[p] \in AddPC => tmr[p] # None /\ expi[tmr[p]] # Never
  /\ \A t \in Timer : where[t] # None => expi[t] # Never
  /\ \A p \in Goroutine : pc[p] \in AddPC \cup {"idle"}
  /\ pc[Loop] # "idle"
  /\ lb = None <=> pc[Loop] = "recv"

-------------------------------------------------------------------------------
(***************************************************************************)
(* Arithmetic of the wheels: truncating a time gives a time                *)
(* (utils.go:9-14), and a time has its slot in every wheel                 *)
(* (timingwheel.go:99-100).                                                *)
(***************************************************************************)
LEMMA TruncateNat ==
  ASSUME NEW x \in Nat, NEW m \in Nat \ {0}
  PROVE  Truncate(x, m) \in Nat
<1>1. x \div m \in Nat
  OBVIOUS
<1>2. \A a, b \in Nat : a * b \in Nat
  OBVIOUS
<1> QED
  BY <1>1, <1>2 DEF Truncate

LEMMA BucketAtBucket ==
  ASSUME NEW k \in Level, NEW e \in Nat
  PROVE  BucketAt(k, e) \in Bucket
<1>1. LevelTick[k] \in Nat \ {0} /\ WheelSize \in Nat /\ WheelSize >= 2
  BY WheelAssumption
<1>2. e \div LevelTick[k] \in Nat
  BY <1>1
<1>3. \A a \in Nat : a % WheelSize \in Slot
  BY <1>1 DEF Slot
<1> QED
  BY <1>2, <1>3 DEF BucketAt, Bucket

(***************************************************************************)
(* The wheels are numbered without gaps (timingwheel.go:115-132).          *)
(***************************************************************************)
LEMMA Levels ==
  /\ 0 \in Level
  /\ \A k \in Level : k < MaxLevel => k + 1 \in Level
  /\ \A j, k \in Level : j < k => j < MaxLevel
BY WheelAssumption DEF Level

(***************************************************************************)
(* Adding an entry to a bag and removing one (queue.go:109-115 and 69-81). *)
(***************************************************************************)
LEMMA BagAdd ==
  ASSUME NEW B, NEW x, IsABag(B)
  PROVE  /\ IsABag(B (+) SetToBag({x}))
         /\ BagToSet(B (+) SetToBag({x})) = BagToSet(B) \cup {x}
<1> DEFINE C == B (+) SetToBag({x})
<1>1. DOMAIN C = DOMAIN B \cup {x}
  BY DEF (+), SetToBag
<1>2. \A e \in DOMAIN C : C[e] \in {n \in Nat : n > 0}
  BY DEF (+), SetToBag, IsABag
<1>3. C = [e \in DOMAIN C |-> C[e]]
  BY DEF (+)
<1> HIDE DEF C
<1>4. C \in [DOMAIN C -> {n \in Nat : n > 0}]
  BY <1>2, <1>3
<1>5. IsABag(C) /\ BagToSet(C) = BagToSet(B) \cup {x}
  BY <1>1, <1>4 DEF IsABag, BagToSet
<1> QED
  BY <1>5 DEF C

LEMMA BagRemove ==
  ASSUME NEW B, NEW x, IsABag(B)
  PROVE  /\ IsABag(B (-) SetToBag({x}))
         /\ BagToSet(B (-) SetToBag({x})) \subseteq BagToSet(B)
         /\ BagToSet(B) \ {x} \subseteq BagToSet(B (-) SetToBag({x}))
<1> DEFINE C == B (-) SetToBag({x})
           D == [e \in DOMAIN B |-> IF e \in DOMAIN SetToBag({x})
                                      THEN B[e] - SetToBag({x})[e] ELSE B[e]]
<1>1. \A e \in DOMAIN B : D[e] \in Int /\ (e # x => D[e] > 0)
  BY DEF SetToBag, IsABag
<1>2. C = [e \in {d \in DOMAIN D : D[d] > 0} |-> D[e]]
  BY DEF (-)
<1>3. DOMAIN D = DOMAIN B
  OBVIOUS
<1> HIDE DEF C, D
<1>4. DOMAIN C = {d \in DOMAIN B : D[d] > 0}
  BY <1>2, <1>3
<1>5. \A e \in DOMAIN C : C[e] \in {n \in Nat : n > 0}
  BY <1>1, <1>2, <1>3
<1>6. C \in [DOMAIN C -> {n \in Nat : n > 0}]
  BY <1>2, <1>4, <1>5
<1>7. IsABag(C) /\ BagToSet(C) = DOMAIN C /\ BagToSet(B) = DOMAIN B
  BY <1>6 DEF IsABag, BagToSet
<1>8. DOMAIN C \subseteq DOMAIN B /\ DOMAIN B \ {x} \subseteq DOMAIN C
  BY <1>1, <1>4
<1> QED
  BY <1>7, <1>8 DEF C

-------------------------------------------------------------------------------
(***************************************************************************)
(* Every variable of the wheel keeps its type, and who holds a timer or a  *)
(* bucket is where it may hold one (timingwheel.go:91-191, bucket.go:      *)
(* 59-155): the two are inductive together.                                *)
(***************************************************************************)
LEMMA TypesInitially == Init => TypeOK /\ Holding
<1> SUFFICES ASSUME Init PROVE TypeOK /\ Holding
  OBVIOUS
<1>1. IsABag(EmptyBag) /\ BagToSet(EmptyBag) = {}
  BY DEF IsABag, EmptyBag, SetToBag, BagToSet
<1>2. 0 \in Level /\ 0 \in Nat /\ Never \in Nat \cup {Never}
  BY WheelAssumption DEF Level
<1>3. TypeOK
  BY <1>1, <1>2 DEF TypeOK, Init, AddPC
<1>4. Holding
  BY NameAssumption DEF Holding, Init, AddPC, Proc
<1> QED
  BY <1>3, <1>4

LEMMA TypesStep == TypeOK /\ Holding /\ [Next]_vars => TypeOK' /\ Holding'
<1> SUFFICES ASSUME TypeOK, Holding, [Next]_vars PROVE TypeOK' /\ Holding'
  OBVIOUS
<1> USE DEF TypeOK, Holding, AddPC, Proc, Goto, Return, Never
<1> USE NameAssumption
<1>1. CASE Advance
  BY <1>1 DEF Advance, timerVars, addVars, stopVars
<1>2. ASSUME NEW p \in Goroutine, NEW t \in Timer, NEW d \in Delay,
             AfterFunc(p, t, d)
      PROVE  TypeOK' /\ Holding'
  <2>1. d \in Nat
    BY BoundAssumption
  <2>2. now + d \in Nat
    BY <2>1
  <2> QED
    BY <1>2, <2>2 DEF AfterFunc, clockVars, stopVars
<1>3. ASSUME NEW p \in Proc, AddStep(p) PROVE TypeOK' /\ Holding'
  <2>1. CASE AddLoad(p)
    <3>1. ct[lvl[p]] \in Nat
      OBVIOUS
    <3>2. \E l \in {"run", "insert", "overflow"} : Goto(p, l)
      BY <2>1 DEF AddLoad
    <3> HIDE DEF Goto
    <3>3. PICK l \in {"run", "insert", "overflow"} : Goto(p, l)
      BY <3>2
    <3>4. lct' = [lct EXCEPT ![p] = ct[lvl[p]]] /\ pc[p] = "load"
      BY <2>1 DEF AddLoad
    <3>5. UNCHANGED <<clockVars, bexp, where, timerVars, queue, hand, tmr, lvl,
                      off, lb, lexp, stopVars>>
      BY <2>1 DEF AddLoad
    <3> QED
      BY <3>1, <3>3, <3>4, <3>5 DEF Goto, clockVars, timerVars, stopVars
  <2>2. CASE AddOverflow(p)
    <3>1. lvl[p] + 1 \in Level
      BY <2>2, Levels DEF AddOverflow
    <3>2. CASE lvl[p] = top
      <4>1. Truncate(lct[p], LevelTick[top + 1]) \in Nat
        BY <3>1, <3>2, WheelAssumption, TruncateNat
      <4> QED
        BY <2>2, <3>1, <3>2, <4>1 DEF AddOverflow, timerVars, stopVars
    <3>3. CASE lvl[p] # top
      BY <2>2, <3>1, <3>3 DEF AddOverflow, timerVars, stopVars
    <3> QED
      BY <3>2, <3>3
  <2>3. CASE AddRun(p)
    BY <2>3, Levels DEF AddRun, clockVars, stopVars
  <2>4. CASE AddInsert(p)
    <3>1. Target(p) \in Bucket
      BY <2>4, BucketAtBucket DEF AddInsert, Target
    <3> QED
      BY <2>4, <3>1 DEF AddInsert, clockVars, timerVars, stopVars
  <2>5. CASE AddSwap(p)
    <3> DEFINE e == Truncate(expi[tmr[p]], LevelTick[lvl[p]])
    <3>1. e \in Nat
      BY <2>5, TruncateNat, WheelAssumption DEF AddSwap
    <3> HIDE DEF e
    <3>2. bexp' = [bexp EXCEPT ![Target(p)] = e]
      BY <2>5 DEF AddSwap, e
    <3>3. \/ Goto(p, "read") /\ UNCHANGED <<tmr, lvl, lct, off>>
          \/ Return(p)
      BY <2>5 DEF AddSwap, e
    <3>4. UNCHANGED <<clockVars, where, timerVars, queue, hand, lb, lexp, stopVars>>
      BY <2>5 DEF AddSwap
    <3>5. pc[p] = "swap"
      BY <2>5 DEF AddSwap
    <3>6. bexp' \in [Bucket -> Nat \cup {Never}]
      BY <3>1, <3>2
    <3>7. CASE Goto(p, "read") /\ UNCHANGED <<tmr, lvl, lct, off>>
      BY <3>4, <3>5, <3>6, <3>7 DEF clockVars, timerVars, stopVars
    <3>8. CASE Return(p)
      BY <3>4, <3>5, <3>6, <3>8, Levels DEF clockVars, timerVars, stopVars
    <3> QED
      BY <3>3, <3>7, <3>8
  <2>6. CASE AddRead(p)
    <3>1. Target(p) \in Bucket
      BY <2>6, BucketAtBucket DEF AddRead, Target
    <3> QED
      BY <2>6, <3>1 DEF AddRead, clockVars, timerVars, stopVars
  <2>7. CASE AddPush(p)
    <3> DEFINE x == <<Target(p), off[p]>>
    <3>1. Target(p) \in Bucket
      BY <2>7, BucketAtBucket DEF AddPush, Target
    <3>2. x \in Bucket \X (Nat \cup {Never})
      BY <3>1
    <3> HIDE DEF x
    <3>3. queue' = queue (+) SetToBag({x})
      BY <2>7 DEF AddPush, x
    <3>4. IsABag(queue') /\ BagToSet(queue') = BagToSet(queue) \cup {x}
      BY <3>3, BagAdd
    <3>5. BagToSet(queue') \subseteq Bucket \X (Nat \cup {Never})
      BY <3>2, <3>4
    <3>6. /\ pc[p] = "push" /\ Return(p)
          /\ UNCHANGED <<clockVars, bexp, where, timerVars, hand, lb, lexp, stopVars>>
      BY <2>7 DEF AddPush
    <3> QED
      BY <3>4, <3>5, <3>6, Levels DEF clockVars, timerVars, stopVars
  <2> QED
    BY <1>3, <2>1, <2>2, <2>3, <2>4, <2>5, <2>6, <2>7 DEF AddStep
<1>4. CASE PollPick
  <2>1. PICK x \in BagToSet(queue) :
          queue' = queue (-) SetToBag({x}) /\ hand' = x[1]
    BY <1>4 DEF PollPick
  <2>2. IsABag(queue') /\ BagToSet(queue') \subseteq BagToSet(queue)
    BY <2>1, BagRemove
  <2>3. BagToSet(queue') \subseteq Bucket \X (Nat \cup {Never})
    BY <2>2
  <2>4. hand' \in Bucket
    BY <2>1
  <2>5. UNCHANGED <<clockVars, bexp, where, timerVars, addVars, lb, lexp, stopVars>>
    BY <1>4 DEF PollPick
  <2> QED
    BY <2>2, <2>3, <2>4, <2>5 DEF clockVars, timerVars, addVars, stopVars
<1>5. CASE LoopReceive
  BY <1>5 DEF LoopReceive, clockVars, timerVars, stopVars
<1>6. CASE LoopAdvance
  <2> DEFINE k == lvl[Loop]
             e == Truncate(lexp, LevelTick[k])
             moves == lexp >= ct[k] + LevelTick[k]
  <2>1. k \in Level /\ LevelTick[k] \in Nat \ {0} /\ ct[k] \in Nat
    BY WheelAssumption
  <2>2. moves => lexp \in Nat
    BY <2>1
  <2>3. moves => e \in Nat
    BY <2>1, <2>2, TruncateNat
  <2>4. k < top => k + 1 \in Level
    BY <2>1, Levels
  <2>5. ct' = IF moves THEN [ct EXCEPT ![k] = e] ELSE ct
    BY <1>6 DEF LoopAdvance
  <2>6. \/ /\ moves /\ k < top
           /\ lvl' = [lvl EXCEPT ![Loop] = k + 1]
           /\ lexp' = e
           /\ UNCHANGED pc
        \/ /\ lvl' = [lvl EXCEPT ![Loop] = 0]
           /\ lexp' = 0
           /\ Goto(Loop, "lock")
    BY <1>6 DEF LoopAdvance
  <2>7. /\ pc[Loop] = "adv"
        /\ UNCHANGED <<now, top, bexp, where, timerVars, queue, hand, tmr, lct,
                       off, lb, stopVars>>
    BY <1>6 DEF LoopAdvance
  <2> HIDE DEF k, e, moves
  <2>8. ct' \in [Level -> Nat]
    BY <2>1, <2>3, <2>5
  <2>9. lvl' \in [Proc -> Level] /\ lexp' \in Nat \cup {Never}
    BY <2>3, <2>4, <2>6, <2>7, Levels
  <2>10. /\ pc' \in [Proc -> AddPC \cup {"idle", "recv", "adv", "lock", "flush"}]
         /\ pc'[Loop] \in {"adv", "lock"} /\ \A p \in Goroutine : pc'[p] = pc[p]
    BY <2>6, <2>7
  <2> QED
    BY <2>7, <2>8, <2>9, <2>10 DEF timerVars, stopVars
<1>7. CASE FlushLock
  BY <1>7 DEF FlushLock, clockVars, timerVars, stopVars
<1>8. CASE FlushEnd
  BY <1>8 DEF FlushEnd, clockVars, timerVars, stopVars
<1>9. ASSUME NEW t \in Timer, FlushTimer(t) PROVE TypeOK' /\ Holding'
  BY <1>9 DEF FlushTimer, clockVars, timerVars, stopVars
<1>10. ASSUME NEW t \in Timer, StopLook(t) PROVE TypeOK' /\ Holding'
  BY <1>10 DEF StopLook, clockVars, timerVars, addVars
<1>11. ASSUME NEW t \in Timer, StopRemove(t) PROVE TypeOK' /\ Holding'
  BY <1>11 DEF StopRemove, clockVars, timerVars, addVars
<1>12. CASE UNCHANGED vars
  BY <1>12 DEF vars, clockVars, timerVars, addVars, stopVars
<1> QED
  BY <1>1, <1>2, <1>3, <1>4, <1>5, <1>6, <1>7, <1>8, <1>9, <1>10, <1>11, <1>12
  DEF Next, LoopStep

(***************************************************************************)
(* Every variable of the wheel keeps its type (timingwheel.go:16-36).      *)
(***************************************************************************)
THEOREM TypeCorrect == Spec => []TypeOK
<1>1. TypeOK /\ Holding /\ [Next]_vars => (TypeOK /\ Holding)'
  BY TypesStep
<1> QED
  BY <1>1, TypesInitially, PTL DEF Spec

-------------------------------------------------------------------------------
(***************************************************************************)
(* No timer is stranded.  NoStranded is inductive with the types: only the *)
(* loop takes a bucket out of the queue, and it resets the mark of the     *)
(* bucket once no timer is left in it (bucket.go:133-155).                 *)
(***************************************************************************)

\* A goroutine is about to queue bucket b, or about to mark it as queued.
Queueing(b) == \E p \in Proc : pc[p] \in {"read", "push"} /\ Target(p) = b
Marking(b) == \E p \in Proc : pc[p] = "swap" /\ Target(p) = b

\* One part of NoStranded, for one bucket.
Safe(b) ==
  /\ bexp[b] # Never => Covered(b)
  /\ Timers(b) # {} => Covered(b) \/ Marking(b)

LEMMA NoStrandedIsSafe == NoStranded <=> \A b \in Bucket : Safe(b)
BY DEF NoStranded, Safe, Marking

LEMMA CoveredParts ==
  ASSUME NEW b
  PROVE  Covered(b) <=> Queued(b) \/ hand = b \/ lb = b \/ Queueing(b)
BY DEF Covered, Queueing

\* What a goroutine is about to do with a bucket survives a step of another
\* goroutine q, and of q itself when it is elsewhere.
OthersKeep(q) ==
  \A p \in Proc \ {q} :
    /\ pc'[p] = pc[p] /\ tmr'[p] = tmr[p] /\ lvl'[p] = lvl[p]
    /\ pc[p] \in AddPC => expi'[tmr[p]] = expi[tmr[p]]

LEMMA Kept ==
  ASSUME NEW q \in Proc, NEW b, OthersKeep(q)
  PROVE  /\ pc[q] \notin {"read", "push"} => (Queueing(b) => Queueing(b)')
         /\ pc[q] # "swap" => (Marking(b) => Marking(b)')
<1>1. \A p \in Proc \ {q} : pc[p] \in AddPC => Target(p)' = Target(p)
  BY DEF OthersKeep, Target
<1>2. \A p \in Proc \ {q} : pc'[p] = pc[p]
  BY DEF OthersKeep
<1>3. {"read", "push", "swap"} \subseteq AddPC
  BY DEF AddPC
<1>4. ASSUME pc[q] \notin {"read", "push"}, Queueing(b) PROVE Queueing(b)'
  BY <1>1, <1>2, <1>3, <1>4 DEF Queueing
<1>5. ASSUME pc[q] # "swap", Marking(b) PROVE Marking(b)'
  BY <1>1, <1>2, <1>3, <1>5 DEF Marking
<1> QED
  BY <1>4, <1>5

\* A step that keeps all that makes the bucket safe.
Frame(b) ==
  /\ bexp'[b] = bexp[b] /\ Timers(b)' \subseteq Timers(b)
  /\ Queued(b) => Queued(b)'
  /\ hand' = hand /\ lb' = lb
  /\ Queueing(b) => Queueing(b)'
  /\ Marking(b) => Marking(b)'

LEMMA FrameSafe ==
  ASSUME NEW b, Frame(b), Safe(b) PROVE Safe(b)'
<1>1. Covered(b)' <=> Queued(b)' \/ hand' = b \/ lb' = b \/ Queueing(b)'
  BY DEF Covered, Queueing
<1> QED
  BY <1>1, CoveredParts DEF Frame, Safe

LEMMA NoStrandedStep ==
  TypeOK /\ Holding /\ NoStranded /\ [Next]_vars => NoStranded'
<1> SUFFICES ASSUME TypeOK, Holding, \A b \in Bucket : Safe(b), [Next]_vars,
                    NEW b \in Bucket
             PROVE  Safe(b)'
  BY NoStrandedIsSafe DEF NoStranded, Safe, Marking
<1>0. Covered(b)' <=> Queued(b)' \/ hand' = b \/ lb' = b \/ Queueing(b)'
  BY DEF Covered, Queueing
<1>1. CASE Advance
  <2>1. UNCHANGED <<bexp, where, expi, queue, hand, pc, tmr, lvl, lb>>
    BY <1>1 DEF Advance, timerVars, addVars
  <2>2. Frame(b)
    BY <2>1 DEF Frame, Timers, Queued, Queueing, Marking, Target
  <2> QED
    BY <2>2, FrameSafe
<1>2. ASSUME NEW p \in Goroutine, NEW t \in Timer, NEW d \in Delay,
             AfterFunc(p, t, d)
      PROVE  Safe(b)'
  <2>1. p \in Proc /\ pc[p] = "idle" /\ expi[t] = Never
    BY <1>2 DEF AfterFunc, Proc
  <2>2. OthersKeep(p)
    BY <1>2, <2>1 DEF OthersKeep, AfterFunc, TypeOK, Holding, Goto
  <2>3. UNCHANGED <<bexp, where, queue, hand, lb>>
    BY <1>2 DEF AfterFunc
  <2>4. Frame(b)
    BY <2>1, <2>2, <2>3, Kept DEF Frame, Timers, Queued
  <2> QED
    BY <2>4, FrameSafe
<1>3. ASSUME NEW p \in Proc, AddStep(p) PROVE Safe(b)'
  <2> USE DEF TypeOK, Goto, Return
  <2>1. CASE AddLoad(p)
    <3>1. pc[p] = "load" /\ \E l \in {"run", "insert", "overflow"} : Goto(p, l)
      BY <2>1 DEF AddLoad
    <3>2. UNCHANGED <<bexp, where, expi, queue, hand, tmr, lvl, lb>>
      BY <2>1 DEF AddLoad, timerVars
    <3>3. OthersKeep(p)
      BY <3>1, <3>2 DEF OthersKeep
    <3>4. Frame(b)
      BY <3>1, <3>2, <3>3, Kept DEF Frame, Timers, Queued
    <3> QED
      BY <3>4, FrameSafe
  <2>2. CASE AddOverflow(p)
    <3>1. /\ pc[p] = "overflow" /\ Goto(p, "load")
          /\ lvl' = [lvl EXCEPT ![p] = @ + 1]
          /\ UNCHANGED <<bexp, where, expi, queue, hand, tmr, lb>>
      BY <2>2 DEF AddOverflow, timerVars
    <3>2. OthersKeep(p)
      BY <3>1 DEF OthersKeep
    <3>3. Frame(b)
      BY <3>1, <3>2, Kept DEF Frame, Timers, Queued
    <3> QED
      BY <3>3, FrameSafe
  <2>3. CASE AddRun(p)
    <3>1. pc[p] = "run" /\ Return(p) /\ UNCHANGED <<bexp, where, expi, queue, hand, lb>>
      BY <2>3 DEF AddRun
    <3>2. OthersKeep(p)
      BY <3>1 DEF OthersKeep
    <3>3. Frame(b)
      BY <3>1, <3>2, Kept DEF Frame, Timers, Queued
    <3> QED
      BY <3>3, FrameSafe
  <2>4. CASE AddInsert(p)
    <3>1. /\ pc[p] = "insert" /\ Goto(p, "swap")
          /\ where' = [where EXCEPT ![tmr[p]] = Target(p)]
          /\ UNCHANGED <<bexp, expi, queue, hand, tmr, lvl, lb>>
      BY <2>4 DEF AddInsert, timerVars
    <3>2. OthersKeep(p)
      BY <3>1 DEF OthersKeep
    <3>3. Covered(b) => Covered(b)'
      BY <1>0, <3>1, <3>2, Kept, CoveredParts DEF Queued
    <3>4. Marking(b) => Marking(b)'
      BY <3>1, <3>2, Kept
    <3>5. CASE Target(p) = b
      <4>1. Target(p)' = Target(p) /\ pc'[p] = "swap"
        BY <3>1 DEF Target
      <4>2. Marking(b)'
        BY <3>5, <4>1 DEF Marking
      <4> QED
        BY <3>1, <3>3, <4>2 DEF Safe
    <3>6. CASE Target(p) # b
      <4>1. Timers(b)' \subseteq Timers(b)
        BY <3>1, <3>6 DEF Timers
      <4> QED
        BY <3>1, <3>3, <3>4, <4>1 DEF Safe
    <3> QED
      BY <3>5, <3>6
  <2>5. CASE AddSwap(p)
    <3> DEFINE e == Truncate(expi[tmr[p]], LevelTick[lvl[p]])
    <3>1. /\ pc[p] = "swap" /\ bexp' = [bexp EXCEPT ![Target(p)] = e]
          /\ \/ /\ bexp[Target(p)] # e
                /\ Goto(p, "read") /\ UNCHANGED <<tmr, lvl, lct, off>>
             \/ bexp[Target(p)] = e /\ Return(p)
          /\ UNCHANGED <<where, expi, queue, hand, lb>>
      BY <2>5 DEF AddSwap, timerVars
    <3>2. e # Never
      <4>1. expi[tmr[p]] \in Nat
        BY <3>1 DEF Holding, AddPC, Never
      <4>2. LevelTick[lvl[p]] \in Nat \ {0}
        BY WheelAssumption
      <4>3. e \in Nat
        BY <4>1, <4>2, TruncateNat
      <4> HIDE DEF e
      <4> QED
        BY <4>3 DEF Never
    <3> HIDE DEF e
    <3>3. OthersKeep(p)
      BY <3>1 DEF OthersKeep
    <3>4. Covered(b) => Covered(b)'
      BY <1>0, <3>1, <3>3, Kept, CoveredParts DEF Queued
    <3>5. Timers(b)' = Timers(b)
      BY <3>1 DEF Timers
    <3>6. CASE Target(p) = b
      <4>1. CASE bexp[Target(p)] # e
        <5>1. pc'[p] = "read" /\ Target(p)' = Target(p)
          BY <3>1, <4>1 DEF Target
        <5>2. Queueing(b)'
          BY <3>6, <5>1 DEF Queueing
        <5> QED
          BY <1>0, <5>2 DEF Safe
      <4>2. CASE bexp[Target(p)] = e
        BY <3>2, <3>4, <3>6, <4>2 DEF Safe
      <4> QED
        BY <4>1, <4>2
    <3>7. CASE Target(p) # b
      <4>1. Marking(b) => Marking(b)'
        <5>1. ASSUME NEW q \in Proc, pc[q] = "swap", Target(q) = b
              PROVE  Marking(b)'
          <6>1. q # p
            BY <3>7, <5>1
          <6>2. pc'[q] = "swap" /\ Target(q)' = Target(q)
            BY <3>3, <5>1, <6>1 DEF OthersKeep, Target, AddPC
          <6> QED
            BY <5>1, <6>2 DEF Marking
        <5> QED
          BY <5>1 DEF Marking
      <4>2. bexp'[b] = bexp[b]
        BY <3>1, <3>7
      <4> QED
        BY <3>4, <3>5, <4>1, <4>2 DEF Safe
    <3> QED
      BY <3>6, <3>7
  <2>6. CASE AddRead(p)
    <3>1. /\ pc[p] = "read" /\ Goto(p, "push")
          /\ UNCHANGED <<bexp, where, expi, queue, hand, tmr, lvl, lb>>
      BY <2>6 DEF AddRead, timerVars
    <3>2. \A q \in Proc : Target(q)' = Target(q)
      BY <3>1 DEF Target
    <3>3. Queueing(b) => Queueing(b)'
      BY <3>1, <3>2 DEF Queueing
    <3>4. Marking(b) => Marking(b)'
      BY <3>1, <3>2 DEF Marking
    <3>5. Frame(b)
      BY <3>1, <3>3, <3>4 DEF Frame, Timers, Queued
    <3> QED
      BY <3>5, FrameSafe
  <2>7. CASE AddPush(p)
    <3> DEFINE x == <<Target(p), off[p]>>
    <3>1. /\ pc[p] = "push" /\ Return(p) /\ queue' = queue (+) SetToBag({x})
          /\ UNCHANGED <<bexp, where, expi, hand, lb>>
      BY <2>7 DEF AddPush, timerVars
    <3>2. BagToSet(queue') = BagToSet(queue) \cup {x}
      BY <3>1, BagAdd
    <3>3. OthersKeep(p)
      BY <3>1 DEF OthersKeep
    <3>4. x[1] = Target(p)
      OBVIOUS
    <3> HIDE DEF x
    <3>5. Queued(b) => Queued(b)'
      BY <3>2 DEF Queued
    <3>6. Marking(b) => Marking(b)'
      BY <3>1, <3>3, Kept
    <3>7. CASE Target(p) = b
      <4>1. Queued(b)'
        BY <3>2, <3>4, <3>7 DEF Queued
      <4> QED
        BY <1>0, <4>1 DEF Safe
    <3>8. CASE Target(p) # b
      <4>1. Queueing(b) => Queueing(b)'
        <5>1. ASSUME NEW q \in Proc, pc[q] \in {"read", "push"}, Target(q) = b
              PROVE  Queueing(b)'
          <6>1. q # p
            BY <3>8, <5>1
          <6>2. pc'[q] = pc[q] /\ Target(q)' = Target(q)
            BY <3>3, <5>1, <6>1 DEF OthersKeep, Target, AddPC
          <6> QED
            BY <5>1, <6>2 DEF Queueing
        <5> QED
          BY <5>1 DEF Queueing
      <4>2. Frame(b)
        BY <3>1, <3>5, <3>6, <4>1 DEF Frame, Timers
      <4> QED
        BY <4>2, FrameSafe
    <3> QED
      BY <3>7, <3>8
  <2> QED
    BY <1>3, <2>1, <2>2, <2>3, <2>4, <2>5, <2>6, <2>7 DEF AddStep
<1>4. CASE PollPick
  <2>1. PICK x \in BagToSet(queue) :
          hand = None /\ queue' = queue (-) SetToBag({x}) /\ hand' = x[1]
    BY <1>4 DEF PollPick
  <2>2. BagToSet(queue) \ {x} \subseteq BagToSet(queue')
    BY <2>1, BagRemove DEF TypeOK
  <2>3. UNCHANGED <<bexp, where, expi, pc, tmr, lvl, lb>>
    BY <1>4 DEF PollPick, timerVars, addVars
  <2>4. Queued(b) => Queued(b)' \/ hand' = b
    BY <2>1, <2>2 DEF Queued
  <2>5. b # None
    BY NameAssumption
  <2>6. (Queueing(b) => Queueing(b)') /\ (Marking(b) => Marking(b)')
    BY <2>3 DEF Queueing, Marking, Target
  <2>7. Covered(b) => Covered(b)'
    BY <1>0, <2>1, <2>3, <2>4, <2>5, <2>6, CoveredParts
  <2> QED
    BY <2>3, <2>6, <2>7 DEF Safe, Timers
<1>5. CASE LoopReceive
  <2>1. /\ pc[Loop] = "recv" /\ hand' = None /\ lb' = hand /\ Goto(Loop, "adv")
        /\ UNCHANGED <<bexp, where, expi, queue, tmr, lvl>>
    BY <1>5 DEF LoopReceive, timerVars
  <2>2. lb = None /\ b # None /\ Loop \in Proc
    BY <2>1, NameAssumption DEF Holding, Proc
  <2>3. OthersKeep(Loop)
    BY <2>1 DEF OthersKeep, Goto, TypeOK
  <2>4. (Queueing(b) => Queueing(b)') /\ (Marking(b) => Marking(b)')
    BY <2>1, <2>2, <2>3, Kept
  <2>5. Covered(b) => Covered(b)'
    BY <1>0, <2>1, <2>2, <2>4, CoveredParts DEF Queued
  <2> QED
    BY <2>1, <2>4, <2>5 DEF Safe, Timers
<1>6. CASE LoopAdvance \/ FlushLock
  <2>1. /\ pc[Loop] \in {"adv", "lock"}
        /\ \E l : pc' = [pc EXCEPT ![Loop] = l]
        /\ \E n : lvl' = [lvl EXCEPT ![Loop] = n]
        /\ UNCHANGED <<bexp, where, expi, queue, hand, tmr, lb>>
    <3>1. CASE LoopAdvance
      <4>1. pc' = [pc EXCEPT ![Loop] = pc[Loop]] \/ pc' = [pc EXCEPT ![Loop] = "lock"]
        <5>1. pc = [pc EXCEPT ![Loop] = pc[Loop]]
          BY DEF TypeOK
        <5>2. pc' = pc \/ pc' = [pc EXCEPT ![Loop] = "lock"]
          BY <3>1 DEF LoopAdvance, Goto
        <5> QED
          BY <5>1, <5>2
      <4>2. \E n : lvl' = [lvl EXCEPT ![Loop] = n]
        BY <3>1 DEF LoopAdvance
      <4>3. pc[Loop] = "adv" /\ UNCHANGED <<bexp, where, expi, queue, hand, tmr, lb>>
        BY <3>1 DEF LoopAdvance, timerVars
      <4> QED
        BY <4>1, <4>2, <4>3
    <3>2. CASE FlushLock
      <4>1. lvl' = [lvl EXCEPT ![Loop] = lvl[Loop]]
        BY <3>2 DEF FlushLock, TypeOK
      <4> QED
        BY <3>2, <4>1 DEF FlushLock, Goto, timerVars
    <3> QED
      BY <1>6, <3>1, <3>2
  <2>2. OthersKeep(Loop) /\ Loop \in Proc
    BY <2>1 DEF OthersKeep, TypeOK, Proc
  <2>3. Frame(b)
    BY <2>1, <2>2, Kept DEF Frame, Timers, Queued
  <2> QED
    BY <2>3, FrameSafe
<1>7. CASE FlushEnd
  <2>1. /\ pc[Loop] = "flush" /\ Timers(lb) = {} /\ lb' = None /\ Goto(Loop, "recv")
        /\ bexp' = [bexp EXCEPT ![lb] = Never]
        /\ UNCHANGED <<where, expi, queue, hand, tmr, lvl>>
    BY <1>7 DEF FlushEnd, timerVars
  <2>2. OthersKeep(Loop) /\ Loop \in Proc
    BY <2>1 DEF OthersKeep, Goto, TypeOK, Proc
  <2>3. (Queueing(b) => Queueing(b)') /\ (Marking(b) => Marking(b)')
    BY <2>1, <2>2, Kept
  <2>4. CASE lb = b
    BY <2>1, <2>4 DEF Safe, Timers, TypeOK
  <2>5. CASE lb # b
    <3>1. Covered(b) => Covered(b)'
      BY <1>0, <2>1, <2>3, <2>5, CoveredParts DEF Queued
    <3>2. bexp'[b] = bexp[b]
      BY <2>1, <2>5 DEF TypeOK
    <3> QED
      BY <2>1, <2>3, <3>1, <3>2 DEF Safe, Timers
  <2> QED
    BY <2>4, <2>5
<1>8. ASSUME NEW t \in Timer, FlushTimer(t) PROVE Safe(b)'
  <2>1. /\ pc[Loop] = "flush" /\ Goto(Loop, "load")
        /\ where' = [where EXCEPT ![t] = None]
        /\ tmr' = [tmr EXCEPT ![Loop] = t]
        /\ UNCHANGED <<bexp, expi, queue, hand, lvl, lb>>
    BY <1>8 DEF FlushTimer, timerVars
  <2>2. OthersKeep(Loop) /\ Loop \in Proc
    BY <2>1 DEF OthersKeep, Goto, TypeOK, Proc
  <2>3. Timers(b)' \subseteq Timers(b)
    BY <2>1, NameAssumption DEF Timers, TypeOK
  <2>4. Frame(b)
    BY <2>1, <2>2, <2>3, Kept DEF Frame, Queued
  <2> QED
    BY <2>4, FrameSafe
<1>9. ASSUME NEW t \in Timer, StopLook(t) \/ StopRemove(t) PROVE Safe(b)'
  <2>1. UNCHANGED <<bexp, expi, queue, hand, pc, tmr, lvl, lb>>
    BY <1>9 DEF StopLook, StopRemove, timerVars, addVars
  <2>2. where' = where \/ where' = [where EXCEPT ![t] = None]
    BY <1>9 DEF StopLook, StopRemove
  <2>3. Timers(b)' \subseteq Timers(b)
    BY <2>2, NameAssumption DEF Timers, TypeOK
  <2>4. Frame(b)
    BY <2>1, <2>3 DEF Frame, Queued, Queueing, Marking, Target
  <2> QED
    BY <2>4, FrameSafe
<1>10. CASE UNCHANGED vars
  <2>1. UNCHANGED <<bexp, where, expi, queue, hand, pc, tmr, lvl, lb>>
    BY <1>10 DEF vars
  <2>2. Frame(b)
    BY <2>1 DEF Frame, Timers, Queued, Queueing, Marking, Target
  <2> QED
    BY <2>2, FrameSafe
<1> QED
  BY <1>1, <1>2, <1>3, <1>4, <1>5, <1>6, <1>7, <1>8, <1>9, <1>10
  DEF Next, LoopStep

(***************************************************************************)
(* A bucket that holds timers is on its way to a Flush, or somebody is     *)
(* about to send it there (timingwheel.go:100-112, bucket.go:133-155).     *)
(***************************************************************************)
THEOREM NoStrandedHolds == Spec => []NoStranded
<1>1. Init => NoStranded
  <2> SUFFICES ASSUME Init, NEW b \in Bucket PROVE bexp[b] = Never /\ Timers(b) = {}
    BY DEF NoStranded
  <2> QED
    BY NameAssumption DEF Init, Timers
<1>2. (TypeOK /\ Holding /\ NoStranded) /\ [Next]_vars
        => (TypeOK /\ Holding /\ NoStranded)'
  BY TypesStep, NoStrandedStep
<1> QED
  BY <1>1, <1>2, TypesInitially, PTL DEF Spec

-------------------------------------------------------------------------------
(***************************************************************************)
(* A timer is in one place.  Counting is replaced by naming the place, and *)
(* Stop is remembered: a Stop about to remove a timer has a bucket, and    *)
(* no other Stop of that timer has succeeded.                              *)
(***************************************************************************)
Nowhere(t) == Holders(t) = {} /\ where[t] = None /\ fires[t] = 0 /\ ~stopped[t]
Held(t) ==
  /\ \E p \in Proc : Holders(t) = {p}
  /\ where[t] = None /\ fires[t] = 0 /\ ~stopped[t]
InBucket(t) == Holders(t) = {} /\ where[t] # None /\ fires[t] = 0 /\ ~stopped[t]
Fired(t) == Holders(t) = {} /\ where[t] = None /\ fires[t] = 1 /\ ~stopped[t]
Cancelled(t) == Holders(t) = {} /\ where[t] = None /\ fires[t] = 0 /\ stopped[t]

Placed(t) ==
  \/ expi[t] = Never /\ Nowhere(t)
  \/ expi[t] # Never /\ (Held(t) \/ InBucket(t) \/ Fired(t) \/ Cancelled(t))
Removable(t) == spc[t] = "remove" => sb[t] # None /\ ~stopped[t]

LEMMA PlacedIsOnePlace == (\A t \in Timer : Placed(t)) => OnePlace
<1> SUFFICES ASSUME NEW t \in Timer, Placed(t)
             PROVE  Cardinality(Holders(t)) + (IF where[t] # None THEN 1 ELSE 0)
                      + fires[t] + (IF stopped[t] THEN 1 ELSE 0)
                    = (IF expi[t] = Never THEN 0 ELSE 1)
  BY DEF OnePlace
<1>1. Holders(t) = {} => Cardinality(Holders(t)) = 0
  BY FS_EmptySet
<1>2. ASSUME NEW p \in Proc, Holders(t) = {p} PROVE Cardinality(Holders(t)) = 1
  BY <1>2, FS_Singleton
<1>3. CASE expi[t] = Never
  BY <1>1, <1>3 DEF Placed, Nowhere
<1>4. CASE expi[t] # Never
  <2>1. CASE Held(t)
    BY <1>2, <1>4, <2>1 DEF Held
  <2>2. CASE InBucket(t)
    BY <1>1, <1>4, <2>2 DEF InBucket
  <2>3. CASE Fired(t)
    BY <1>1, <1>4, <2>3 DEF Fired
  <2>4. CASE Cancelled(t)
    BY <1>1, <1>4, <2>4 DEF Cancelled
  <2> QED
    BY <1>4, <2>1, <2>2, <2>3, <2>4 DEF Placed
<1> QED
  BY <1>3, <1>4

\* A step that leaves timer t where it is.
Rests(t) ==
  /\ Holders(t)' = Holders(t)
  /\ where'[t] = where[t] /\ fires'[t] = fires[t] /\ expi'[t] = expi[t]
  /\ stopped'[t] = stopped[t]

LEMMA RestsPlaced == ASSUME NEW t, Rests(t), Placed(t) PROVE Placed(t)'
BY DEF Rests, Placed, Nowhere, Held, InBucket, Fired, Cancelled

\* Only the goroutine that steps can take a timer or put it down.
LEMMA HoldersKept ==
  ASSUME NEW q \in Proc, NEW t, OthersKeep(q)
  PROVE  /\ Holders(t)' \ {q} = Holders(t) \ {q}
         /\ q \in Holders(t)' <=>
              tmr'[q] = t /\ pc'[q] \in {"load", "overflow", "run", "insert"}
         /\ q \in Holders(t) <=>
              tmr[q] = t /\ pc[q] \in {"load", "overflow", "run", "insert"}
         /\ (q \in Holders(t)' <=> q \in Holders(t)) => Holders(t)' = Holders(t)
<1>1. /\ q \in Holders(t)' <=>
            tmr'[q] = t /\ pc'[q] \in {"load", "overflow", "run", "insert"}
      /\ q \in Holders(t) <=>
            tmr[q] = t /\ pc[q] \in {"load", "overflow", "run", "insert"}
  BY DEF Holders
<1>2. \A p \in Proc \ {q} : p \in Holders(t)' <=> p \in Holders(t)
  BY DEF OthersKeep, Holders
<1>3. Holders(t) \subseteq Proc /\ Holders(t)' \subseteq Proc
  BY DEF Holders
<1>4. Holders(t)' \ {q} = Holders(t) \ {q}
  BY <1>2, <1>3
<1>5. ASSUME q \in Holders(t)' <=> q \in Holders(t)
      PROVE  Holders(t)' = Holders(t)
  BY <1>2, <1>3, <1>5
<1> QED
  BY <1>1, <1>4, <1>5

LEMMA PlacedStep ==
  TypeOK /\ Holding /\ (\A t \in Timer : Placed(t) /\ Removable(t)) /\ [Next]_vars
    => (\A t \in Timer : Placed(t) /\ Removable(t))'
<1> SUFFICES ASSUME TypeOK, Holding, \A u \in Timer : Placed(u) /\ Removable(u),
                    [Next]_vars, NEW t \in Timer
             PROVE  Placed(t)' /\ Removable(t)'
  OBVIOUS
<1> USE DEF TypeOK, Removable
<1>1. CASE Advance \/ PollPick \/ UNCHANGED vars
  <2>1. UNCHANGED <<where, expi, fires, pc, tmr, spc, sb, stopped>>
    BY <1>1 DEF Advance, PollPick, vars, timerVars, addVars, stopVars
  <2>2. Rests(t)
    BY <2>1 DEF Rests, Holders
  <2> QED
    BY <2>1, <2>2, RestsPlaced
<1>2. ASSUME NEW p \in Goroutine, NEW u \in Timer, NEW d \in Delay,
             AfterFunc(p, u, d)
      PROVE  Placed(t)' /\ Removable(t)'
  <2>1. /\ p \in Proc /\ pc[p] = "idle" /\ expi[u] = Never
        /\ pc' = [pc EXCEPT ![p] = "load"] /\ tmr' = [tmr EXCEPT ![p] = u]
        /\ expi' = [expi EXCEPT ![u] = now + d]
        /\ UNCHANGED <<where, fires, spc, sb, stopped>>
    BY <1>2 DEF AfterFunc, Goto, Proc, stopVars
  <2>2. OthersKeep(p)
    BY <1>2, <2>1 DEF OthersKeep, Holding, AfterFunc, Goto
  <2>3. CASE t = u
    <3>1. Nowhere(t)
      BY <2>1, <2>3 DEF Placed
    <3>2. Holders(t)' = {p}
      <4>1. Holders(t)' \ {p} = {} /\ p \in Holders(t)'
        BY <2>1, <2>2, <2>3, <3>1, HoldersKept DEF Nowhere
      <4> QED
        BY <4>1
    <3>3. expi'[t] # Never
      <4>1. d \in Nat
        BY BoundAssumption
      <4>2. expi'[t] = now + d
        BY <2>1, <2>3
      <4> QED
        BY <4>1, <4>2 DEF Never
    <3>4. Held(t)'
      BY <2>1, <3>1, <3>2 DEF Held, Nowhere
    <3> QED
      BY <2>1, <3>3, <3>4 DEF Placed
  <2>4. CASE t # u
    <3>1. Holders(t)' = Holders(t)
      <4>1. p \notin Holders(t)
        BY <2>1, <2>2, HoldersKept
      <4>2. tmr'[p] = u
        BY <2>1
      <4>3. p \notin Holders(t)'
        BY <2>1, <2>2, <2>4, <4>2, HoldersKept
      <4> QED
        BY <2>1, <2>2, <4>1, <4>3, HoldersKept
    <3>2. Rests(t)
      BY <2>1, <2>4, <3>1 DEF Rests
    <3> QED
      BY <2>1, <3>2, RestsPlaced
  <2> QED
    BY <2>3, <2>4
<1>3. ASSUME NEW p \in Proc, AddStep(p) PROVE Placed(t)' /\ Removable(t)'
  <2>1. UNCHANGED <<expi, spc, sb, stopped>>
    BY <1>3 DEF AddStep, AddLoad, AddOverflow, AddRun, AddInsert, AddSwap,
                AddRead, AddPush, timerVars, stopVars
  <2>2. OthersKeep(p)
    <3>1. \/ \E l : Goto(p, l) /\ UNCHANGED tmr /\ \E n : lvl' = [lvl EXCEPT ![p] = n]
          \/ Return(p)
      <4>1. lvl = [lvl EXCEPT ![p] = lvl[p]]
        OBVIOUS
      <4>2. CASE AddLoad(p)
        BY <4>1, <4>2 DEF AddLoad
      <4>3. CASE AddOverflow(p)
        BY <4>3 DEF AddOverflow
      <4>4. CASE AddInsert(p) \/ AddSwap(p) \/ AddRead(p)
        BY <4>1, <4>4 DEF AddInsert, AddSwap, AddRead
      <4>5. CASE AddRun(p) \/ AddPush(p)
        BY <4>5 DEF AddRun, AddPush
      <4> QED
        BY <1>3, <4>2, <4>3, <4>4, <4>5 DEF AddStep
    <3> QED
      BY <2>1, <3>1 DEF OthersKeep, Goto, Return
  <2>3. CASE \/ AddLoad(p) \/ AddOverflow(p) \/ AddSwap(p)
             \/ AddRead(p) \/ AddPush(p)
    <3>1. UNCHANGED <<where, fires>>
      BY <2>3 DEF AddLoad, AddOverflow, AddSwap, AddRead, AddPush, timerVars
    <3>2. p \in Holders(t)' <=> p \in Holders(t)
      <4>1. CASE AddLoad(p) \/ AddOverflow(p)
        BY <2>2, <4>1, HoldersKept DEF AddLoad, AddOverflow, Goto
      <4>2. CASE AddSwap(p) \/ AddRead(p) \/ AddPush(p)
        BY <2>2, <4>2, HoldersKept, NameAssumption
        DEF AddSwap, AddRead, AddPush, Goto, Return
      <4> QED
        BY <2>3, <4>1, <4>2
    <3>3. Holders(t)' = Holders(t)
      BY <2>2, <3>2, HoldersKept
    <3>4. Rests(t)
      BY <2>1, <3>1, <3>3 DEF Rests
    <3> QED
      BY <2>1, <3>4, RestsPlaced
  <2>4. CASE tmr[p] # t /\ (AddRun(p) \/ AddInsert(p))
    <3>1. where'[t] = where[t] /\ fires'[t] = fires[t]
      BY <2>4 DEF AddRun, AddInsert, timerVars
    <3>2. tmr'[p] # t
      BY <2>4, NameAssumption DEF AddRun, AddInsert, Return
    <3>3. Holders(t)' = Holders(t)
      <4>1. p \notin Holders(t)' /\ p \notin Holders(t)
        BY <2>2, <2>4, <3>2, HoldersKept
      <4> QED
        BY <2>2, <4>1, HoldersKept
    <3>4. Rests(t)
      BY <2>1, <3>1, <3>3 DEF Rests
    <3> QED
      BY <2>1, <3>4, RestsPlaced
  <2>5. CASE tmr[p] = t /\ (AddRun(p) \/ AddInsert(p))
    <3>1. p \in Holders(t)
      BY <2>2, <2>5, HoldersKept DEF AddRun, AddInsert
    <3>2. Held(t) /\ Holders(t) = {p} /\ expi[t] # Never
      BY <3>1 DEF Placed, Nowhere, Held, InBucket, Fired, Cancelled
    <3>3. p \notin Holders(t)'
      <4>1. CASE AddRun(p)
        BY <2>2, <4>1, HoldersKept, NameAssumption DEF AddRun, Return
      <4>2. CASE AddInsert(p)
        BY <2>2, <4>2, HoldersKept DEF AddInsert, Goto
      <4> QED
        BY <2>5, <4>1, <4>2
    <3>4. Holders(t)' = {}
      BY <2>2, <3>2, <3>3, HoldersKept
    <3>5. CASE AddRun(p)
      <4>1. fires'[t] = fires[t] + 1 /\ where' = where
        BY <2>5, <3>5 DEF AddRun
      <4>2. Fired(t)'
        BY <2>1, <3>2, <3>4, <4>1 DEF Held, Fired
      <4> QED
        BY <2>1, <3>2, <4>2 DEF Placed
    <3>6. CASE AddInsert(p)
      <4>1. Target(p) \in Bucket
        BY <3>2, <2>5, BucketAtBucket DEF Target
      <4>2. where'[t] = Target(p) /\ fires' = fires
        BY <2>5, <3>6 DEF AddInsert, timerVars
      <4>3. where'[t] # None
        BY <4>1, <4>2, NameAssumption
      <4>4. InBucket(t)'
        BY <2>1, <3>2, <3>4, <4>2, <4>3 DEF Held, InBucket
      <4> QED
        BY <2>1, <3>2, <4>4 DEF Placed
    <3> QED
      BY <2>5, <3>5, <3>6
  <2> QED
    BY <1>3, <2>3, <2>4, <2>5 DEF AddStep
<1>4. CASE LoopReceive \/ LoopAdvance \/ FlushLock \/ FlushEnd
  <2>1. /\ UNCHANGED <<where, expi, fires, tmr, spc, sb, stopped>>
        /\ pc[Loop] \in {"recv", "adv", "lock", "flush"}
    BY <1>4 DEF LoopReceive, LoopAdvance, FlushLock, FlushEnd, timerVars, stopVars
  <2>2. \E l \in {"recv", "adv", "lock", "flush"} : pc' = [pc EXCEPT ![Loop] = l]
    <3>1. CASE LoopReceive \/ FlushLock \/ FlushEnd
      BY <3>1 DEF LoopReceive, FlushLock, FlushEnd, Goto
    <3>2. CASE LoopAdvance
      <4>1. pc = [pc EXCEPT ![Loop] = pc[Loop]]
        OBVIOUS
      <4>2. pc' = pc \/ pc' = [pc EXCEPT ![Loop] = "lock"]
        BY <3>2 DEF LoopAdvance, Goto
      <4> QED
        BY <2>1, <4>1, <4>2
    <3> QED
      BY <1>4, <3>1, <3>2
  <2>3. Holders(t)' = Holders(t)
    BY <2>1, <2>2 DEF Holders
  <2>4. Rests(t)
    BY <2>1, <2>3 DEF Rests
  <2> QED
    BY <2>1, <2>4, RestsPlaced
<1>5. ASSUME NEW u \in Timer, FlushTimer(u) PROVE Placed(t)' /\ Removable(t)'
  <2>1. /\ pc[Loop] = "flush" /\ pc' = [pc EXCEPT ![Loop] = "load"]
        /\ where[u] = lb /\ where' = [where EXCEPT ![u] = None]
        /\ tmr' = [tmr EXCEPT ![Loop] = u]
        /\ UNCHANGED <<expi, fires, lvl, spc, sb, stopped>>
    BY <1>5 DEF FlushTimer, Goto, timerVars, stopVars
  <2>2. Loop \in Proc /\ OthersKeep(Loop)
    BY <2>1 DEF OthersKeep, Proc
  <2>3. lb # None
    BY <2>1 DEF Holding
  <2>4. CASE t = u
    <3>1. InBucket(t) /\ expi[t] # Never
      BY <2>1, <2>3, <2>4 DEF Placed, Nowhere, Held, InBucket, Fired, Cancelled
    <3>2. Holders(t)' \ {Loop} = {} /\ Loop \in Holders(t)'
      BY <2>1, <2>2, <2>4, <3>1, HoldersKept DEF InBucket
    <3>3. Holders(t)' = {Loop}
      BY <3>2
    <3>4. Held(t)'
      BY <2>1, <2>2, <2>4, <3>1, <3>3 DEF Held, InBucket
    <3> QED
      BY <2>1, <3>1, <3>4 DEF Placed
  <2>5. CASE t # u
    <3>1. Loop \notin Holders(t)' /\ Loop \notin Holders(t)
      BY <2>1, <2>2, <2>5, HoldersKept
    <3>2. Holders(t)' = Holders(t)
      BY <2>2, <3>1, HoldersKept
    <3>3. Rests(t)
      BY <2>1, <2>5, <3>2 DEF Rests
    <3> QED
      BY <2>1, <3>3, RestsPlaced
  <2> QED
    BY <2>4, <2>5
<1>6. ASSUME NEW u \in Timer, StopLook(u) PROVE Placed(t)' /\ Removable(t)'
  <2>1. /\ sb' = [sb EXCEPT ![u] = where[u]]
        /\ spc' = [spc EXCEPT ![u] = IF where[u] = None THEN "done" ELSE "remove"]
        /\ UNCHANGED <<where, expi, fires, pc, tmr, stopped>>
    BY <1>6 DEF StopLook, timerVars, addVars
  <2>2. Rests(t)
    BY <2>1 DEF Rests, Holders
  <2>3. where[t] # None => ~stopped[t]
    BY DEF Placed, Nowhere, Held, InBucket, Fired, Cancelled
  <2>4. Removable(t)'
    BY <2>1, <2>3
  <2> QED
    BY <2>2, <2>4, RestsPlaced
<1>7. ASSUME NEW u \in Timer, StopRemove(u) PROVE Placed(t)' /\ Removable(t)'
  <2>1. /\ spc[u] = "remove" /\ spc' = [spc EXCEPT ![u] = "look"]
        /\ stopped' = [stopped EXCEPT ![u] = (where[u] = sb[u])]
        /\ where' = IF where[u] = sb[u] THEN [where EXCEPT ![u] = None] ELSE where
        /\ sb' = [sb EXCEPT ![u] = None]
        /\ UNCHANGED <<expi, fires, pc, tmr>>
    BY <1>7 DEF StopRemove, timerVars, addVars
  <2>2. Holders(t)' = Holders(t)
    BY <2>1 DEF Holders
  <2>3. sb[u] # None /\ ~stopped[u]
    BY <2>1
  <2>4. CASE t = u /\ where[u] = sb[u]
    <3>1. InBucket(t) /\ expi[t] # Never
      BY <2>3, <2>4 DEF Placed, Nowhere, Held, InBucket, Fired, Cancelled
    <3>2. where'[t] = None /\ stopped'[t] /\ fires'[t] = fires[t]
      BY <2>1, <2>4
    <3>3. Cancelled(t)'
      BY <2>2, <3>1, <3>2 DEF InBucket, Cancelled
    <3>4. Removable(t)'
      BY <2>1, <2>4
    <3> QED
      BY <2>1, <3>1, <3>3, <3>4 DEF Placed
  <2>5. CASE ~(t = u /\ where[u] = sb[u])
    <3>1. where'[t] = where[t] /\ fires'[t] = fires[t] /\ expi'[t] = expi[t]
      BY <2>1, <2>5
    <3>2. stopped'[t] = stopped[t]
      <4>1. CASE t = u
        <5>1. stopped'[t] = FALSE
          BY <2>1, <2>5, <4>1
        <5>2. stopped[t] = FALSE
          BY <2>3, <4>1
        <5> QED
          BY <5>1, <5>2
      <4>2. CASE t # u
        BY <2>1, <4>2
      <4> QED
        BY <4>1, <4>2
    <3>3. Rests(t)
      BY <2>2, <3>1, <3>2 DEF Rests
    <3>4. Removable(t)'
      <4>1. CASE t = u
        BY <2>1, <4>1
      <4>2. CASE t # u
        BY <2>1, <3>2, <4>2
      <4> QED
        BY <4>1, <4>2
    <3> QED
      BY <3>3, <3>4, RestsPlaced
  <2> QED
    BY <2>4, <2>5
<1> QED
  BY <1>1, <1>2, <1>3, <1>4, <1>5, <1>6, <1>7 DEF Next, LoopStep

(***************************************************************************)
(* A timer is held by one goroutine, in one bucket, fired once or stopped: *)
(* none is lost between Flush's remove and Add, none fires twice, and none *)
(* fires after a Stop that returned true (bucket.go:53-72, 133-155).       *)
(***************************************************************************)
THEOREM OnePlaceHolds == Spec => []OnePlace
<1> DEFINE IInv == /\ TypeOK /\ Holding
                   /\ \A t \in Timer : Placed(t) /\ Removable(t)
<1>1. Init => IInv
  <2> SUFFICES ASSUME Init, NEW t \in Timer PROVE Placed(t) /\ Removable(t)
    BY TypesInitially
  <2>1. Holders(t) = {}
    BY NameAssumption DEF Init, Holders
  <2> QED
    BY <2>1 DEF Init, Placed, Nowhere, Removable
<1>2. IInv /\ [Next]_vars => IInv'
  BY TypesStep, PlacedStep
<1>3. IInv => OnePlace
  BY PlacedIsOnePlace
<1> HIDE DEF IInv
<1> QED
  BY <1>1, <1>2, <1>3, PTL DEF Spec
=============================================================================
