----------------------------- MODULE TimingWheel -----------------------------
(***************************************************************************)
(* The hierarchical timing wheel of pkg/timingwheel: goroutines call       *)
(* AfterFunc and Timer.Stop while the wheel's loop receives expired        *)
(* buckets, advances the clocks of the wheels and flushes the buckets.     *)
(* Every atomic load, store or swap and every critical section of a        *)
(* bucket's mutex is a step of its own, so that add may be overtaken at    *)
(* each of them.                                                           *)
(*                                                                         *)
(* The wheels are numbered from the one New makes (level 0) upwards.  The  *)
(* delay queue, detailed in DelayQueue, appears here as what ExpiryQueue   *)
(* promises: PollPick takes the earliest expired entry, the loop receives  *)
(* it.  The list of timers of a bucket is the set of the timers that point *)
(* to it: order within a bucket is left open.                              *)
(***************************************************************************)
EXTENDS Integers, FiniteSets, Bags

CONSTANTS Timer,     \* the timers, each armed at most once
          Goroutine, \* the goroutines that call AfterFunc
          Loop,      \* the goroutine of TimingWheel.Start
          Stoppable, \* the timers somebody may stop
          Delay,     \* the durations given to AfterFunc
          WheelSize, \* buckets per wheel
          MaxLevel,  \* bound: the highest wheel that may be needed
          LevelTick, \* the tick of each wheel
          MaxTime,   \* bound: the clock of the model stops here
          Lag,       \* FALSE: goroutines are prompt, see CallersQuiet below
          None       \* "no timer", "no bucket"

Level == 0 .. MaxLevel
Slot == 0 .. WheelSize - 1
Bucket == Level \X Slot
Proc == Goroutine \cup {Loop}
Interval(k) == LevelTick[k] * WheelSize

\* The tick of an overflow wheel is the interval of the wheel below it.
ASSUME WheelAssumption ==
  /\ WheelSize \in Nat /\ WheelSize >= 2
  /\ MaxLevel \in Nat
  /\ LevelTick \in [Level -> Nat \ {0}]
  /\ \A k \in Level : k < MaxLevel => LevelTick[k + 1] = Interval(k)
ASSUME NameAssumption ==
  /\ Loop \notin Goroutine
  /\ Stoppable \subseteq Timer
  /\ None \notin Timer \cup Bucket
ASSUME BoundAssumption ==
  /\ Delay \subseteq Nat
  /\ MaxTime \in Nat
  /\ Lag \in BOOLEAN

VARIABLES now,     \* the time in milliseconds
          top,     \* the highest wheel made so far
          ct,      \* currentTime of each wheel
          bexp,    \* expiration of each bucket, -1 when it is not queued
          where,   \* the bucket each timer points to
          expi,    \* expiration of each timer, -1 before it is armed
          fires,   \* how often the task of each timer has been started
          firedAt, \* when it was last started
          queue,   \* bag of the entries <<bucket, priority>> of the delay queue
          hand,    \* the bucket Poll is sending to C
          pc, tmr, \* where each goroutine is in add, and with which timer
          lvl,     \* the wheel it has reached
          lct,     \* the currentTime it has loaded
          off,     \* the expiration it is about to offer
          lb, lexp,\* the loop's bucket and the expiration it advances to
          spc, sb, \* where a Stop of each timer is, and the bucket it loaded
          stopped  \* the result of Stop

clockVars == <<now, top, ct>>
timerVars == <<expi, fires, firedAt>>
addVars == <<pc, tmr, lvl, lct, off>>
stopVars == <<spc, sb, stopped>>
vars == <<now, top, ct, bexp, where, expi, fires, firedAt, queue, hand, pc, tmr,
          lvl, lct, off, lb, lexp, spc, sb, stopped>>

Never == -1
Truncate(x, m) == (x \div m) * m
BucketAt(k, e) == <<k, (e \div LevelTick[k]) % WheelSize>>
Timers(b) == {t \in Timer : where[t] = b}

AddPC == {"load", "overflow", "run", "insert", "swap", "read", "push"}

\* The loop holds the mutex of its bucket from the start of Flush to its end.
Flushing(b) == lb = b /\ pc[Loop] \in AddPC \cup {"flush"}

Init ==
  /\ now = 0
  /\ top = 0
  /\ ct = [k \in Level |-> 0]
  /\ bexp = [b \in Bucket |-> Never]
  /\ where = [t \in Timer |-> None]
  /\ expi = [t \in Timer |-> Never]
  /\ fires = [t \in Timer |-> 0]
  /\ firedAt = [t \in Timer |-> Never]
  /\ queue = EmptyBag
  /\ hand = None
  /\ pc = [p \in Proc |-> IF p = Loop THEN "recv" ELSE "idle"]
  /\ tmr = [p \in Proc |-> None]
  /\ lvl = [p \in Proc |-> 0]
  /\ lct = [p \in Proc |-> 0]
  /\ off = [p \in Proc |-> 0]
  /\ lb = None
  /\ lexp = 0
  /\ spc = [t \in Timer |-> "look"]
  /\ sb = [t \in Timer |-> None]
  /\ stopped = [t \in Timer |-> FALSE]

\* Nothing in the code keeps a goroutine from being preempted anywhere: the
\* wheel as it is has Lag = TRUE.  With Lag = FALSE a call of add and the
\* handling of a bucket exclude each other, and the clock waits until the
\* calls have returned and the buckets that are due have been handled.
CallersQuiet == \A p \in Goroutine : pc[p] = "idle"
LoopQuiet == pc[Loop] = "recv"
NothingDue == hand = None /\ \A x \in BagToSet(queue) : x[2] > now

Advance ==
  /\ now < MaxTime
  /\ Lag \/ (CallersQuiet /\ LoopQuiet /\ NothingDue)
  /\ now' = now + 1
  /\ UNCHANGED <<top, ct, bexp, where, timerVars, queue, hand, addVars, lb,
                 lexp, stopVars>>

-------------------------------------------------------------------------------
(* add and addOrRun, as executed by goroutine p for the timer tmr[p]. *)

Goto(p, l) == pc' = [pc EXCEPT ![p] = l]

\* addOrRun returns: the caller is done, the loop goes on flushing.
Return(p) ==
  /\ Goto(p, IF p = Loop THEN "flush" ELSE "idle")
  /\ tmr' = [tmr EXCEPT ![p] = None]
  /\ lvl' = [lvl EXCEPT ![p] = 0]
  /\ lct' = [lct EXCEPT ![p] = 0]
  /\ off' = [off EXCEPT ![p] = 0]

AfterFunc(p, t, d) ==
  /\ pc[p] = "idle"
  /\ expi[t] = Never
  /\ Lag \/ LoopQuiet
  /\ expi' = [expi EXCEPT ![t] = now + d]
  /\ tmr' = [tmr EXCEPT ![p] = t]
  /\ Goto(p, "load")
  /\ UNCHANGED <<clockVars, bexp, where, fires, firedAt, queue, hand, lvl, lct,
                 off, lb, lexp, stopVars>>

\* Mutant: a timer that expires at the end of the interval stays in the wheel.
AddLoadOffByOne(p) ==
  /\ pc[p] = "load"
  /\ LET k == lvl[p]
         e == expi[tmr[p]]
     IN /\ lct' = [lct EXCEPT ![p] = ct[k]]
        /\ \/ e < ct[k] + LevelTick[k] /\ Goto(p, "run")
           \/ /\ e >= ct[k] + LevelTick[k]
              /\ e <= ct[k] + Interval(k)
              /\ Goto(p, "insert")
           \/ e > ct[k] + Interval(k) /\ Goto(p, "overflow")
  /\ UNCHANGED <<clockVars, bexp, where, timerVars, queue, hand, tmr, lvl, off,
                 lb, lexp, stopVars>>

\* Load currentTime and compare.
AddLoad(p) ==
  /\ pc[p] = "load"
  /\ LET k == lvl[p]
         e == expi[tmr[p]]
     IN /\ lct' = [lct EXCEPT ![p] = ct[k]]
        /\ \/ e < ct[k] + LevelTick[k] /\ Goto(p, "run")
           \/ /\ e >= ct[k] + LevelTick[k]
              /\ e < ct[k] + Interval(k)
              /\ Goto(p, "insert")
           \/ e >= ct[k] + Interval(k) /\ Goto(p, "overflow")
  /\ UNCHANGED <<clockVars, bexp, where, timerVars, queue, hand, tmr, lvl, off,
                 lb, lexp, stopVars>>

\* Mutant: a new overflow wheel each time one is needed.
AddOverflowAgain(p) ==
  /\ pc[p] = "overflow"
  /\ lvl[p] < MaxLevel
  /\ top' = top + 1
  /\ ct' = [ct EXCEPT ![lvl[p] + 1] = Truncate(lct[p], LevelTick[lvl[p] + 1])]
  /\ lvl' = [lvl EXCEPT ![p] = @ + 1]
  /\ Goto(p, "load")
  /\ UNCHANGED <<now, bexp, where, timerVars, queue, hand, tmr, lct, off, lb,
                 lexp, stopVars>>

\* Make the overflow wheel, at the time loaded before, unless it is there.
AddOverflow(p) ==
  /\ pc[p] = "overflow"
  /\ lvl[p] < MaxLevel
  /\ IF lvl[p] = top
       THEN /\ top' = top + 1
            /\ ct' = [ct EXCEPT ![top + 1] = Truncate(lct[p], LevelTick[top + 1])]
       ELSE UNCHANGED <<top, ct>>
  /\ lvl' = [lvl EXCEPT ![p] = @ + 1]
  /\ Goto(p, "load")
  /\ UNCHANGED <<now, bexp, where, timerVars, queue, hand, tmr, lct, off, lb,
                 lexp, stopVars>>

\* Already expired: Wrap starts the task.
AddRun(p) ==
  /\ pc[p] = "run"
  /\ fires' = [fires EXCEPT ![tmr[p]] = @ + 1]
  /\ firedAt' = [firedAt EXCEPT ![tmr[p]] = now]
  /\ Return(p)
  /\ UNCHANGED <<clockVars, bexp, where, expi, queue, hand, lb, lexp, stopVars>>

Target(p) == BucketAt(lvl[p], expi[tmr[p]])

\* b.Add(t), under the mutex of b.
AddInsert(p) ==
  /\ pc[p] = "insert"
  /\ ~Flushing(Target(p))
  /\ where' = [where EXCEPT ![tmr[p]] = Target(p)]
  /\ Goto(p, "swap")
  /\ UNCHANGED <<clockVars, bexp, timerVars, queue, hand, tmr, lvl, lct, off, lb,
                 lexp, stopVars>>

\* Mutant: the bucket gets the expiration of the timer, not of its tick.
AddSwapTimer(p) ==
  /\ pc[p] = "swap"
  /\ LET e == expi[tmr[p]]
     IN /\ bexp' = [bexp EXCEPT ![Target(p)] = e]
        /\ IF bexp[Target(p)] # e
             THEN Goto(p, "read") /\ UNCHANGED <<tmr, lvl, lct, off>>
             ELSE Return(p)
  /\ UNCHANGED <<clockVars, where, timerVars, queue, hand, lb, lexp, stopVars>>

\* b.SetExpiration: an unchanged expiration means the bucket is queued already.
AddSwap(p) ==
  /\ pc[p] = "swap"
  /\ LET e == Truncate(expi[tmr[p]], LevelTick[lvl[p]])
     IN /\ bexp' = [bexp EXCEPT ![Target(p)] = e]
        /\ IF bexp[Target(p)] # e
             THEN Goto(p, "read") /\ UNCHANGED <<tmr, lvl, lct, off>>
             ELSE Return(p)
  /\ UNCHANGED <<clockVars, where, timerVars, queue, hand, lb, lexp, stopVars>>

\* b.Expiration(), the argument of Offer, is a second load.
AddRead(p) ==
  /\ pc[p] = "read"
  /\ off' = [off EXCEPT ![p] = bexp[Target(p)]]
  /\ Goto(p, "push")
  /\ UNCHANGED <<clockVars, bexp, where, timerVars, queue, hand, tmr, lvl, lct,
                 lb, lexp, stopVars>>

AddPush(p) ==
  /\ pc[p] = "push"
  /\ queue' = queue (+) SetToBag({<<Target(p), off[p]>>})
  /\ Return(p)
  /\ UNCHANGED <<clockVars, bexp, where, timerVars, hand, lb, lexp, stopVars>>

AddStep(p) ==
  \/ AddLoad(p) \/ AddOverflow(p) \/ AddRun(p) \/ AddInsert(p)
  \/ AddSwap(p) \/ AddRead(p) \/ AddPush(p)

-------------------------------------------------------------------------------
(* The delay queue and the wheel's loop. *)

PollPick ==
  /\ hand = None
  /\ \E x \in BagToSet(queue) :
       /\ x[2] <= now
       /\ \A y \in BagToSet(queue) : x[2] <= y[2]
       /\ queue' = queue (-) SetToBag({x})
       /\ hand' = x[1]
  /\ UNCHANGED <<clockVars, bexp, where, timerVars, addVars, lb, lexp, stopVars>>

\* Receive a bucket and load its expiration, which need not be the priority
\* it was queued with.
LoopReceive ==
  /\ pc[Loop] = "recv"
  /\ hand # None
  /\ Lag \/ CallersQuiet
  /\ hand' = None
  /\ lb' = hand
  /\ lexp' = bexp[hand]
  /\ Goto(Loop, "adv")
  /\ UNCHANGED <<clockVars, bexp, where, timerVars, queue, tmr, lvl, lct, off,
                 stopVars>>

\* Mutant: the overflow wheel is not advanced.
LoopAdvanceLowest ==
  /\ pc[Loop] = "adv"
  /\ ct' = IF lexp >= ct[0] + LevelTick[0]
             THEN [ct EXCEPT ![0] = Truncate(lexp, LevelTick[0])] ELSE ct
  /\ lexp' = 0
  /\ Goto(Loop, "lock")
  /\ UNCHANGED <<now, top, bexp, where, timerVars, queue, hand, tmr, lvl, lct,
                 off, lb, stopVars>>

\* Mutant: the bucket is flushed without advancing the clock.
LoopAdvanceNot ==
  /\ pc[Loop] = "adv"
  /\ lexp' = 0
  /\ Goto(Loop, "lock")
  /\ UNCHANGED <<clockVars, bexp, where, timerVars, queue, hand, tmr, lvl, lct,
                 off, lb, stopVars>>

\* advanceClock of one wheel; the wheel above gets the truncated time.
LoopAdvance ==
  /\ pc[Loop] = "adv"
  /\ LET k == lvl[Loop]
         e == Truncate(lexp, LevelTick[k])
         moves == lexp >= ct[k] + LevelTick[k]
     IN /\ ct' = IF moves THEN [ct EXCEPT ![k] = e] ELSE ct
        /\ IF moves /\ k < top
             THEN /\ lvl' = [lvl EXCEPT ![Loop] = k + 1]
                  /\ lexp' = e
                  /\ UNCHANGED pc
             ELSE /\ lvl' = [lvl EXCEPT ![Loop] = 0]
                  /\ lexp' = 0
                  /\ Goto(Loop, "lock")
  /\ UNCHANGED <<now, top, bexp, where, timerVars, queue, hand, tmr, lct, off, lb,
                 stopVars>>

FlushLock ==
  /\ pc[Loop] = "lock"
  /\ Goto(Loop, "flush")
  /\ UNCHANGED <<clockVars, bexp, where, timerVars, queue, hand, tmr, lvl, lct,
                 off, lb, lexp, stopVars>>

\* Remove one timer and reinsert it, with the mutex held throughout.
FlushTimer(t) ==
  /\ pc[Loop] = "flush"
  /\ where[t] = lb
  /\ where' = [where EXCEPT ![t] = None]
  /\ tmr' = [tmr EXCEPT ![Loop] = t]
  /\ Goto(Loop, "load")
  /\ UNCHANGED <<clockVars, bexp, timerVars, queue, hand, lvl, lct, off, lb, lexp,
                 stopVars>>

\* Mutant: the expiration of the bucket is not reset.
FlushEndNoReset ==
  /\ pc[Loop] = "flush"
  /\ Timers(lb) = {}
  /\ lb' = None
  /\ Goto(Loop, "recv")
  /\ UNCHANGED <<clockVars, bexp, where, timerVars, queue, hand, tmr, lvl, lct,
                 off, lexp, stopVars>>

\* The bucket is empty: reset its expiration, only then release the mutex.
FlushEnd ==
  /\ pc[Loop] = "flush"
  /\ Timers(lb) = {}
  /\ bexp' = [bexp EXCEPT ![lb] = Never]
  /\ lb' = None
  /\ Goto(Loop, "recv")
  /\ UNCHANGED <<clockVars, where, timerVars, queue, hand, tmr, lvl, lct, off,
                 lexp, stopVars>>

LoopStep ==
  \/ LoopReceive \/ LoopAdvance \/ FlushLock \/ FlushEnd
  \/ \E t \in Timer : FlushTimer(t)

-------------------------------------------------------------------------------
(* Timer.Stop, called once AfterFunc has returned the timer. *)

Returned(t) == expi[t] # Never /\ \A p \in Goroutine : tmr[p] # t

StopLook(t) ==
  /\ t \in Stoppable
  /\ Returned(t)
  /\ spc[t] = "look"
  /\ sb' = [sb EXCEPT ![t] = where[t]]
  /\ spc' = [spc EXCEPT ![t] = IF where[t] = None THEN "done" ELSE "remove"]
  /\ UNCHANGED <<clockVars, bexp, where, timerVars, queue, hand, addVars, lb,
                 lexp, stopped>>

\* Mutant: Remove does not look whether the timer is still in the bucket.
StopRemoveUnchecked(t) ==
  /\ spc[t] = "remove"
  /\ ~Flushing(sb[t])
  /\ stopped' = [stopped EXCEPT ![t] = TRUE]
  /\ where' = [where EXCEPT ![t] = None]
  /\ spc' = [spc EXCEPT ![t] = "look"]
  /\ sb' = [sb EXCEPT ![t] = None]
  /\ UNCHANGED <<clockVars, bexp, timerVars, queue, hand, addVars, lb, lexp>>

\* b.Remove(t), under the mutex of b, then look again.
StopRemove(t) ==
  /\ spc[t] = "remove"
  /\ ~Flushing(sb[t])
  /\ stopped' = [stopped EXCEPT ![t] = (where[t] = sb[t])]
  /\ where' = IF where[t] = sb[t] THEN [where EXCEPT ![t] = None] ELSE where
  /\ spc' = [spc EXCEPT ![t] = "look"]
  /\ sb' = [sb EXCEPT ![t] = None]
  /\ UNCHANGED <<clockVars, bexp, timerVars, queue, hand, addVars, lb, lexp>>

-------------------------------------------------------------------------------
Next ==
  \/ Advance
  \/ \E p \in Goroutine, t \in Timer, d \in Delay : AfterFunc(p, t, d)
  \/ \E p \in Proc : AddStep(p)
  \/ PollPick
  \/ LoopStep
  \/ \E t \in Timer : StopLook(t) \/ StopRemove(t)

\* Goroutines that can run do run; time passes.  Nobody has to call AfterFunc
\* or Stop.
Fairness ==
  /\ WF_vars(Advance)
  /\ \A p \in Proc : WF_vars(AddStep(p))
  /\ WF_vars(PollPick)
  /\ WF_vars(LoopStep)

Spec == Init /\ [][Next]_vars /\ Fairness

-------------------------------------------------------------------------------
(* Properties *)

\* Every variable keeps its type.
TypeOK ==
  /\ now \in Nat
  /\ top \in Level
  /\ ct \in [Level -> Nat]
  /\ bexp \in [Bucket -> Nat \cup {Never}]
  /\ where \in [Timer -> Bucket \cup {None}]
  /\ expi \in [Timer -> Nat \cup {Never}]
  /\ fires \in [Timer -> Nat]
  /\ firedAt \in [Timer -> Nat \cup {Never}]
  /\ IsABag(queue)
  /\ BagToSet(queue) \subseteq Bucket \X (Nat \cup {Never})
  /\ hand \in Bucket \cup {None}
  /\ pc \in [Proc -> AddPC \cup {"idle", "recv", "adv", "lock", "flush"}]
  /\ tmr \in [Proc -> Timer \cup {None}]
  /\ lvl \in [Proc -> Level]
  /\ lct \in [Proc -> Nat]
  /\ off \in [Proc -> Nat \cup {Never}]
  /\ lb \in Bucket \cup {None}
  /\ lexp \in Nat \cup {Never}
  /\ spc \in [Timer -> {"look", "remove", "done"}]
  /\ sb \in [Timer -> Bucket \cup {None}]
  /\ stopped \in [Timer -> BOOLEAN]

Queued(b) == \E x \in BagToSet(queue) : x[1] = b

\* Bucket b is on its way through the delay queue to a Flush.
Covered(b) ==
  \/ Queued(b) \/ hand = b \/ lb = b
  \/ \E p \in Proc : pc[p] \in {"read", "push"} /\ Target(p) = b

\* No timer is stranded: a bucket that holds timers is queued, or a goroutine
\* is about to queue it (timingwheel.go:104-112).  A bucket marked as queued
\* really is, for SetExpiration then keeps every other caller from queueing it.
NoStranded ==
  \A b \in Bucket :
    /\ bexp[b] # Never => Covered(b)
    /\ Timers(b) # {} =>
         Covered(b) \/ \E p \in Proc : pc[p] = "swap" /\ Target(p) = b

\* The goroutines that have taken timer t and not yet put it anywhere.
Holders(t) ==
  {p \in Proc : tmr[p] = t /\ pc[p] \in {"load", "overflow", "run", "insert"}}

\* A timer is in one place: held by one goroutine, in one bucket, fired once,
\* or stopped.  None is lost between Flush's remove and Add, none fires twice,
\* and none fires after a Stop that returned true (bucket.go:53-72, 133-155).
OnePlace ==
  \A t \in Timer :
    Cardinality(Holders(t)) + (IF where[t] # None THEN 1 ELSE 0) + fires[t]
      + (IF stopped[t] THEN 1 ELSE 0) = (IF expi[t] = Never THEN 0 ELSE 1)

\* All timers of a bucket expire in the tick the bucket is queued for: slots
\* are reused by later cycles of the wheel, and two cycles never mix.
OneCycle ==
  \A t \in Timer, k \in Level, s \in Slot :
    /\ where[t] = <<k, s>>
    /\ \A p \in Proc : tmr[p] = t => pc[p] # "swap"
    => bexp[<<k, s>>] = Truncate(expi[t], LevelTick[k])

\* Between two buckets the wheels agree on the time, which is not in the
\* future (timingwheel.go:151-163): otherwise add would choose a wrong wheel.
ClocksAgree ==
  /\ ct[0] <= now
  /\ pc[Loop] # "adv" =>
       \A k \in 0 .. top : ct[k] = Truncate(ct[0], LevelTick[k])

\* The loop never waits for the mutex it holds (bucket.go:142-145: "no further
\* lock operation will happen to b.mu").  Lag breaks it: see the run
\* wheel_selflock.
NoSelfLock == pc[Loop] = "insert" => Target(Loop) # lb

\* Without lag, the wheel is the service its callers see.  With lag a task may
\* start before its tick, and Timer.Stop may return false for a timer that is
\* moving between two buckets and fires later.
phase ==
  [t \in Timer |-> CASE expi[t] = Never -> "new"
                     [] fires[t] > 0    -> "fired"
                     [] stopped[t]      -> "stopped"
                     [] OTHER           -> "pending"]
Service == INSTANCE TimerService WITH Tick <- LevelTick[0]
ImplementsTimerService == Service!Spec
=============================================================================
