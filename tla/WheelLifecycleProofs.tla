------------------------ MODULE WheelLifecycleProofs ------------------------
(***************************************************************************)
(* Proofs about WheelLifecycle: what Stop waits for, that orderly stops     *)
(* never close exitC twice, and that no flush is given up in a wheel with   *)
(* a blocking pool, for every set of jobs, size of the pool and number of   *)
(* goroutines that call Stop.                                               *)
(***************************************************************************)
EXTENDS WheelLifecycle, FiniteSetTheorems, TLAPS

StopState == {"idle", "close", "mark", "wait", "woken", "release", "returned"}

\* The types that the arguments below need.
Typed ==
  /\ st \in [Task -> State]
  /\ wg \subseteq Task
  /\ stop \in [Closer -> StopState]
  /\ start \in {"none", "poll", "loop", "ok", "failed"}

\* Whatever was accepted and has not ended is in the wait group.
Counted ==
  \A t \in Task : t \in Accepted \/ st[t] = "panicked" => t \in wg

\* The two goroutines are asked for once, by Start.
StartedOnce ==
  /\ start = "none" => st[PollTask] = "none"
  /\ start \in {"none", "poll"} => st[LoopTask] = "none"

WaitInv == Typed /\ Counted /\ StartedOnce

LEMMA TaskFacts ==
  /\ PollTask \in Task /\ LoopTask \in Task /\ PollTask # LoopTask
  /\ PollTask \notin Occ /\ LoopTask \notin Occ
  /\ \A j \in Job : <<j, 1>> \in Occ
  /\ \A t \in Occ : HasNext(t) => Next1(t) \in Occ
  /\ Occ \subseteq Task
<1>1. PollTask \in Task /\ LoopTask \in Task /\ PollTask # LoopTask /\ Occ \subseteq Task
  BY DEF Task, PollTask, LoopTask
<1>2. \A t : t \in Occ <=> \E j \in Job : t \in {j} \X (1 .. Runs[j])
  BY DEF Occ
<1>3. ASSUME NEW t \in Occ PROVE t[2] # 0
  <2>1. PICK j \in Job : t \in {j} \X (1 .. Runs[j])
    BY <1>2
  <2> QED BY <2>1
<1>4. PollTask \notin Occ /\ LoopTask \notin Occ
  BY <1>3 DEF PollTask, LoopTask
<1>5. ASSUME NEW j \in Job PROVE <<j, 1>> \in Occ
  <2>1. Runs[j] \in Nat /\ Runs[j] >= 1
    BY LifecycleAssumption
  <2>2. <<j, 1>> \in {j} \X (1 .. Runs[j])
    BY <2>1
  <2> QED BY <1>2, <2>2
<1>6. ASSUME NEW t \in Occ, HasNext(t) PROVE Next1(t) \in Occ
  <2>1. PICK j \in Job : t \in {j} \X (1 .. Runs[j])
    BY <1>2
  <2>2. Runs[j] \in Nat
    BY LifecycleAssumption
  <2>3. t[1] = j /\ t[2] \in Nat /\ t[2] + 1 \in 1 .. Runs[j]
    BY <1>6, <2>1, <2>2 DEF HasNext
  <2>4. Next1(t) \in {j} \X (1 .. Runs[j])
    BY <2>3 DEF Next1
  <2> QED BY <1>2, <2>4
<1> QED BY <1>1, <1>4, <1>5, <1>6

LEMMA WaitInit == Init => WaitInv
  BY TaskFacts DEF Init, WaitInv, Typed, Counted, Accepted, Busy, StartedOnce, State,
                   StopState

\* A task that was never asked for gets its state from Wrap, or is armed.
LEMMA WrapKeeps ==
  ASSUME WaitInv, NEW t \in Task, st[t] = "none",
         \/ Wrap(t, "waiting")
         \/ st' = [st EXCEPT ![t] = "armed"] /\ wg' = wg
  PROVE  /\ st' \in [Task -> State] /\ wg' \subseteq Task /\ Counted'
         /\ \A u \in Task : u # t => st'[u] = st[u]
<1> USE DEF WaitInv, Typed, State, Counted, Accepted, Busy
<1>1. CASE Wrap(t, "waiting")
  BY <1>1 DEF Wrap, Outcome
<1>2. CASE st' = [st EXCEPT ![t] = "armed"] /\ wg' = wg
  BY <1>2
<1> QED BY <1>1, <1>2

\* A task that is asked for already goes on, still counted, or ends.
LEMMA MoveKeeps ==
  ASSUME WaitInv, NEW t \in Task, NEW s \in State \ {"none"}, st[t] # "none",
         st' = [st EXCEPT ![t] = s], UNCHANGED <<start, stop>>,
         \/ wg' = wg /\ (t \in wg \/ s \in {"armed", "done"})
         \/ wg' = wg \cup {t}
         \/ wg' = wg \ {t} /\ s = "done"
  PROVE  WaitInv'
<1>1. \A u \in Task : st'[u] = IF u = t THEN s ELSE st[u]
  BY DEF WaitInv, Typed
<1>2. Typed'
  BY <1>1 DEF WaitInv, Typed
<1>3. Counted'
  BY <1>1 DEF WaitInv, Counted, Accepted, Busy
<1>4. StartedOnce'
  BY <1>1, TaskFacts DEF WaitInv, StartedOnce
<1> QED BY <1>2, <1>3, <1>4 DEF WaitInv

LEMMA WaitStep == WaitInv /\ [Next]_vars => WaitInv'
<1> SUFFICES ASSUME WaitInv, [Next]_vars PROVE WaitInv'
  OBVIOUS
<1> USE TaskFacts
<1>t. st \in [Task -> State] /\ \A t \in Task : t \in Accepted \/ st[t] = "panicked" => t \in wg
  BY DEF WaitInv, Typed, Counted
<1>1. ASSUME StartPoll PROVE WaitInv'
  <2>1. st[PollTask] = "none" /\ st[LoopTask] = "none" /\ Wrap(PollTask, "waiting")
    BY <1>1 DEF StartPoll, WaitInv, StartedOnce
  <2>2. /\ st' \in [Task -> State] /\ wg' \subseteq Task /\ Counted'
        /\ \A u \in Task : u # PollTask => st'[u] = st[u]
    BY <2>1, WrapKeeps
  <2> QED BY <1>1, <2>1, <2>2 DEF StartPoll, WaitInv, Typed, StartedOnce, stopVars
<1>2. ASSUME StartLoop PROVE WaitInv'
  <2>1. st[LoopTask] = "none" /\ Wrap(LoopTask, "waiting")
    BY <1>2 DEF StartLoop, WaitInv, StartedOnce
  <2>2. /\ st' \in [Task -> State] /\ wg' \subseteq Task /\ Counted'
        /\ \A u \in Task : u # LoopTask => st'[u] = st[u]
    BY <2>1, WrapKeeps
  <2> QED BY <1>2, <2>1, <2>2 DEF StartLoop, WaitInv, Typed, StartedOnce, stopVars
<1>3. ASSUME UNCHANGED <<st, wg, stop>>,
             \/ start' = start
             \/ start # "none" /\ start' \in {"ok", "failed"}
      PROVE  WaitInv'
  BY <1>3 DEF WaitInv, Typed, Counted, Accepted, Busy, StartedOnce
<1>4. ASSUME NEW t \in Occ, NEW who, st[t] = "none", AddOrRun(t, who),
             UNCHANGED <<start, stopVars>>
      PROVE  WaitInv'
  <2>1. /\ st' \in [Task -> State] /\ wg' \subseteq Task /\ Counted'
        /\ \A u \in Task : u # t => st'[u] = st[u]
    BY <1>4, WrapKeeps DEF AddOrRun
  <2>2. st'[PollTask] = st[PollTask] /\ st'[LoopTask] = st[LoopTask]
    BY <2>1
  <2> QED BY <1>4, <2>1, <2>2 DEF WaitInv, Typed, StartedOnce, stopVars
<1>5. ASSUME NEW j \in Job, Request(j) PROVE WaitInv'
  BY <1>5, <1>4 DEF Request
<1>6. ASSUME NEW t \in Task, Rearm(t) PROVE WaitInv'
  BY <1>6, <1>4 DEF Rearm
<1>7. ASSUME NEW t \in Task, TakeWorker(t) PROVE WaitInv'
  <2>1. t \in wg
    BY <1>7, <1>t DEF TakeWorker, Accepted
  <2> QED BY <1>7, <2>1, MoveKeeps DEF TakeWorker, State, stopVars
<1>8. ASSUME NEW t \in Task, EnterBody(t) PROVE WaitInv'
  <2>1. t \in wg
    BY <1>8, <1>t DEF EnterBody, Accepted, Busy
  <2> QED BY <1>8, <2>1, MoveKeeps DEF EnterBody, State, stopVars
<1>9. ASSUME NEW t \in Task, FlushOne(t) PROVE WaitInv'
  <2>1. st[t] = "flushing" /\ UNCHANGED <<start, stopVars>>
    BY <1>9 DEF FlushOne, Flushing
  <2>2. CASE Wrap(t, "held")
    <3>1. /\ st' = [st EXCEPT ![t] = Outcome("held")] /\ wg' = wg \cup {t}
          /\ Outcome("held") \in State \ {"none"}
      BY <2>2 DEF Wrap, Outcome, State
    <3> QED BY <2>1, <3>1, MoveKeeps DEF stopVars
  <2>3. CASE /\ wg' = wg \cup {t}
             /\ st' = [u \in Task |-> IF u = t THEN "refused"
                        ELSE IF st[u] = "flushing" THEN "stuck" ELSE st[u]]
    <3>1. /\ st' \in [Task -> State]
          /\ \A u \in Task : \/ st'[u] = st[u]
                             \/ st[u] = "flushing" /\ st'[u] \in {"stuck", "refused"}
      BY <1>t, <2>1, <2>3 DEF State
    <3>2. Counted'
      BY <1>t, <2>3, <3>1 DEF Counted, Accepted, Busy
    <3>3. StartedOnce'
      BY <2>1, <3>1 DEF WaitInv, StartedOnce
    <3> QED BY <2>1, <2>3, <3>1, <3>2, <3>3 DEF WaitInv, Typed, stopVars
  <2> QED BY <1>9, <2>2, <2>3 DEF FlushOne
<1>10. ASSUME NEW t \in Task, FlushMove(t) PROVE WaitInv'
  BY <1>10, MoveKeeps DEF FlushMove, Flushing, State, stopVars
<1>11. ASSUME NEW t \in Task, FlushLock(t) PROVE WaitInv'
  <2>1. LoopTask \in wg
    BY <1>11, <1>t DEF FlushLock, Flushing, Accepted, Busy
  <2> QED BY <1>11, <2>1, MoveKeeps DEF FlushLock, Flushing, State, stopVars
<1>12. ASSUME Goroutine PROVE WaitInv'
  <2>1. CASE PollReceive
    BY <2>1, <1>3 DEF PollReceive, stopVars
  <2>2. CASE PollLeave
    <3>1. PollTask \in wg
      BY <2>2, <1>t DEF PollLeave, Accepted, Busy
    <3> QED BY <2>2, <3>1, MoveKeeps DEF PollLeave, State, stopVars
  <2>3. CASE PollEnd
    BY <2>3, MoveKeeps DEF PollEnd, State, stopVars
  <2>4. CASE LoopEnd
    BY <2>4, MoveKeeps DEF LoopEnd, State, stopVars
  <2> QED BY <1>12, <2>1, <2>2, <2>3, <2>4 DEF Goroutine
<1>13. ASSUME NEW t \in Occ, Finish(t) PROVE WaitInv'
  <2>1. CASE EndBody(t)
    BY <2>1, MoveKeeps DEF EndBody, State, stopVars
  <2>2. CASE Panic(t)
    <3>1. t \in wg
      BY <2>2, <1>t DEF Panic, Accepted, Busy
    <3> QED BY <2>2, <3>1, MoveKeeps DEF Panic, State, stopVars
  <2> QED BY <1>13, <2>1, <2>2 DEF Finish
<1>14. ASSUME NEW S \in SUBSET Occ, Receive(S) PROVE WaitInv'
  <2>1. \A t \in Task : \/ st'[t] = st[t]
                        \/ st[t] \in {"armed", "stuck"} /\ st'[t] = "flushing"
    BY <1>14 DEF Receive
  <2>2. st' \in [Task -> State]
    BY <1>14, <1>t DEF Receive, State
  <2>3. Counted'
    BY <1>14, <1>t, <2>1 DEF Receive, Counted, Accepted, Busy
  <2> QED BY <1>14, <2>1, <2>2, <2>3 DEF Receive, WaitInv, Typed, StartedOnce, stopVars
<1>15. ASSUME NEW c \in Closer, StopCheck(c) \/ Stopping(c) PROVE WaitInv'
  <2>1. /\ UNCHANGED <<st, wg, start>>
        /\ \E to \in StopState : stop' = [stop EXCEPT ![c] = to]
    BY <1>15 DEF StopCheck, Stopping, StopClose, StopMark, StopWait, StopWake,
                 StopRelease, StopState
  <2> QED BY <2>1 DEF WaitInv, Typed, Counted, Accepted, Busy, StartedOnce
<1>16. CASE UNCHANGED vars
  BY <1>16, <1>3 DEF vars
<1>17. CASE StartReturn
  BY <1>17, <1>3 DEF StartReturn, stopVars
<1> QED BY <1>1, <1>2, <1>5, <1>6, <1>7, <1>8, <1>9, <1>10, <1>11, <1>12, <1>13, <1>14,
           <1>15, <1>16, <1>17
        DEF Next, Wheel, Functions, Callers, Starting, Advance, Flush

\* Whoever comes out of Wait with the pool still to be released finds no accepted
\* task that has not ended, however late it was accepted, and none that panicked
\* (Stop of timingwheel.go waits for tasks as well as for its goroutines).
THEOREM StopWaitsForTasks == Spec => StopWaits
<1> DEFINE Waits == \A c \in Closer : stop[c] = "wait" /\ stop'[c] # "wait" =>
                      Accepted = {} /\ \A t \in Task : st[t] # "panicked"
<1>1. WaitInv /\ [Next]_vars => [Waits]_vars
  <2> SUFFICES ASSUME WaitInv, Next PROVE Waits
    OBVIOUS
  <2>1. ASSUME NEW c \in Closer, StopWait(c) PROVE Waits
    <3>1. wg = {}
      BY <2>1 DEF StopWait
    <3>2. Accepted = {} /\ \A t \in Task : st[t] # "panicked"
      BY <3>1 DEF WaitInv, Counted, Accepted, Busy
    <3> QED BY <3>2
  <2>2. ASSUME NEW c \in Closer, NEW from, from # "wait", NEW to,
               stop[c] = from, stop' = [stop EXCEPT ![c] = to]
        PROVE  Waits
    BY <2>2 DEF WaitInv, Typed
  <2>3. ASSUME NEW c \in Closer, StopCheck(c) \/ Stopping(c) PROVE Waits
    BY <2>1, <2>2, <2>3 DEF StopCheck, Stopping, StopClose, StopMark, StopWake, StopRelease
  <2>4. CASE stop' = stop
    BY <2>4
  <2> QED BY <2>3, <2>4 DEF Next, Wheel, Functions, Callers, Starting, StartPoll, StartLoop,
             StartReturn, Advance, TakeWorker, Rearm, EnterBody, Flush, FlushOne, FlushMove,
             FlushLock, Goroutine, PollReceive, PollLeave, PollEnd, LoopEnd, Receive,
             Finish, EndBody, Panic, Request, stopVars
<1> QED BY <1>1, WaitInit, WaitStep, PTL DEF Spec, StopWaits

-------------------------------------------------------------------------------
(* Orderly stops. *)

Active == {"close", "mark", "wait", "woken", "release"}
Drained == released \/ \E c \in Closer : stop[c] \in {"woken", "release"}

\* The loop flushes only while it runs.
LoopFlushes ==
  \A t \in Occ : st[t] \in {"flushing", "held"} => st[LoopTask] \in {"running", "locked"}

\* Stop is not called before Start has returned, and so the loop, once it has
\* been waited for, is never asked for again.
AfterStart ==
  orderly /\ (released \/ \E c \in Closer : stop[c] # "idle") => start \in {"ok", "failed"}
LoopGone ==
  orderly /\ Drained => st[LoopTask] \notin {"waiting", "held", "running", "locked"}

OneAtATime ==
  orderly => \A c, d \in Closer : stop[c] \in Active /\ stop[d] \in Active => c = d
MarkedOrMarking == exit => isClosed \/ \E c \in Closer : stop[c] = "mark"
ClosesOnce ==
  orderly => crashed # "twice" /\ \A c \in Closer : stop[c] = "close" => ~exit

OrderInv ==
  /\ WaitInv
  /\ LoopFlushes /\ AfterStart /\ LoopGone /\ NoTimerStranded
  /\ OneAtATime /\ MarkedOrMarking /\ ClosesOnce

LEMMA OrderInit == Init => OrderInv
  BY WaitInit, TaskFacts DEF Init, OrderInv, LoopFlushes, AfterStart, LoopGone, Drained,
     NoTimerStranded, OneAtATime, MarkedOrMarking, ClosesOnce, Active

\* A step that leaves the variables of Stop and Start alone, and the loop where
\* it is, keeps everything but what it says of the tasks itself.
LEMMA TaskStep ==
  ASSUME OrderInv, UNCHANGED <<env, start, stopVars>>, st'[LoopTask] = st[LoopTask],
         \A t \in Occ : st'[t] \in {"flushing", "held"} => st[LoopTask] \in {"running", "locked"},
         \A t \in Occ : st'[t] = "stuck" /\ orderly /\ ~nonblocking => st[t] = "stuck"
  PROVE  /\ LoopFlushes' /\ AfterStart' /\ LoopGone' /\ NoTimerStranded'
         /\ OneAtATime' /\ MarkedOrMarking' /\ ClosesOnce'
<1>1. LoopFlushes'
  <2> SUFFICES ASSUME NEW t \in Occ, st'[t] \in {"flushing", "held"}
               PROVE  st'[LoopTask] \in {"running", "locked"}
    BY DEF LoopFlushes
  <2>1. st[LoopTask] \in {"running", "locked"}
    OBVIOUS
  <2> QED BY <2>1
<1>4. NoTimerStranded'
  <2>1. NoTimerStranded /\ orderly' = orderly /\ nonblocking' = nonblocking
    BY DEF OrderInv, env
  <2> SUFFICES ASSUME orderly, ~nonblocking, NEW t \in Occ PROVE st'[t] # "stuck"
    BY <2>1 DEF NoTimerStranded
  <2>2. st[t] # "stuck"
    BY <2>1 DEF NoTimerStranded
  <2> QED BY <2>2
<1>2. AfterStart' /\ OneAtATime' /\ MarkedOrMarking' /\ ClosesOnce'
  BY DEF OrderInv, AfterStart, OneAtATime, MarkedOrMarking, ClosesOnce, env, stopVars
<1>3. LoopGone'
  BY DEF OrderInv, LoopGone, Drained, env, stopVars
<1> QED BY <1>1, <1>2, <1>3, <1>4

LEMMA OrderStep == OrderInv /\ [Next]_vars => OrderInv'
<1> SUFFICES ASSUME OrderInv, [Next]_vars PROVE OrderInv'
  OBVIOUS
<1>0. WaitInv /\ WaitInv'
  BY WaitStep DEF OrderInv
<1>t. st \in [Task -> State]
  BY <1>0 DEF WaitInv, Typed
<1> USE TaskFacts
<1>1. ASSUME StartPoll PROVE OrderInv'
  <2>1. UNCHANGED <<env, stopVars>> /\ start = "none" /\ start' = "poll"
    BY <1>1 DEF StartPoll
  <2>2. \A t \in Task : t # PollTask => st'[t] = st[t]
    BY <1>1, <1>t DEF StartPoll, Wrap, Outcome
  <2> QED BY <1>0, <2>1, <2>2 DEF OrderInv, LoopFlushes, AfterStart, LoopGone, Drained,
             NoTimerStranded, OneAtATime, MarkedOrMarking, ClosesOnce, env, stopVars
<1>2. ASSUME StartLoop PROVE OrderInv'
  <2>1. UNCHANGED <<env, stopVars>> /\ start = "poll" /\ start' = "loop"
    BY <1>2 DEF StartLoop
  <2>2. \A t \in Task : t # LoopTask => st'[t] = st[t]
    BY <1>2, <1>t DEF StartLoop, Wrap, Outcome
  <2>3. \A t \in Occ : st[t] \notin {"flushing", "held"}
    BY <1>0, <2>1 DEF OrderInv, LoopFlushes, WaitInv, StartedOnce
  <2> QED BY <1>0, <2>1, <2>2, <2>3 DEF OrderInv, LoopFlushes, AfterStart, LoopGone,
             Drained, NoTimerStranded, OneAtATime, MarkedOrMarking, ClosesOnce, env,
             stopVars
<1>3. ASSUME StartReturn PROVE OrderInv'
  BY <1>3, <1>0 DEF StartReturn, OrderInv, LoopFlushes, AfterStart, LoopGone, Drained,
     NoTimerStranded, OneAtATime, MarkedOrMarking, ClosesOnce, env, stopVars
<1>4. ASSUME NEW t \in Occ, NEW who, AddOrRun(t, who), UNCHANGED <<env, start, stopVars>>
      PROVE  OrderInv'
  <2>1. \A u \in Task : u # t => st'[u] = st[u]
    BY <1>4, <1>t DEF AddOrRun, Wrap, Outcome
  <2>2. st'[t] \in {"armed", "waiting", "refused"}
    BY <1>4, <1>t DEF AddOrRun, Wrap, Outcome
  <2>3. t # LoopTask
    OBVIOUS
  <2> QED BY <1>0, <1>4, <2>1, <2>2, <2>3, TaskStep DEF OrderInv, LoopFlushes
<1>5. ASSUME NEW j \in Job, Request(j) PROVE OrderInv'
  BY <1>5, <1>4 DEF Request
<1>6. ASSUME NEW t \in Task, Rearm(t) PROVE OrderInv'
  BY <1>6, <1>4 DEF Rearm
<1>7. ASSUME NEW t \in Task, TakeWorker(t) PROVE OrderInv'
  <2>1. CASE t = LoopTask
    <3>1. ~(orderly /\ Drained)
      BY <1>7, <2>1 DEF TakeWorker, OrderInv, LoopGone
    <3>2. /\ \A u \in Task : u # LoopTask => st'[u] = st[u]
          /\ st'[LoopTask] = "running"
          /\ UNCHANGED <<env, start, stopVars>>
      BY <1>7, <2>1, <1>t DEF TakeWorker
    <3> QED BY <1>0, <3>1, <3>2 DEF OrderInv, LoopFlushes, AfterStart, LoopGone, Drained,
               NoTimerStranded, OneAtATime, MarkedOrMarking, ClosesOnce, env, stopVars
  <2>2. CASE t # LoopTask
    <3>1. /\ \A u \in Task : u # t => st'[u] = st[u]
          /\ st'[t] = "running"
          /\ UNCHANGED <<env, start, stopVars>>
      BY <1>7, <1>t DEF TakeWorker
    <3> QED BY <1>0, <2>2, <3>1, TaskStep DEF OrderInv, LoopFlushes
  <2> QED BY <2>1, <2>2
<1>8. ASSUME NEW t \in Occ, NEW s \in {"body", "done", "panicked"},
             st' = [st EXCEPT ![t] = s], UNCHANGED <<env, start, stopVars>>
      PROVE  OrderInv'
  <2>1. \A u \in Task : u # t => st'[u] = st[u]
    BY <1>8, <1>t
  <2>2. st'[t] = s /\ t # LoopTask
    BY <1>8, <1>t
  <2> QED BY <1>0, <1>8, <2>1, <2>2, TaskStep DEF OrderInv, LoopFlushes
<1>9. ASSUME NEW t \in Task, FlushOne(t) PROVE OrderInv'
  <2>1. st[t] = "flushing" /\ UNCHANGED <<env, start, stopVars>>
    BY <1>9 DEF FlushOne, Flushing
  <2>2. t \in Occ /\ st[LoopTask] = "running"
    BY <1>9 DEF FlushOne, Flushing
  <2>3. ~(orderly /\ released)
    BY <2>2 DEF OrderInv, LoopGone, Drained
  <2>4. st'[LoopTask] = st[LoopTask]
    BY <1>9, <2>2, <1>t DEF FlushOne, Wrap, Outcome
  <2>5. ASSUME NEW u \in Occ, st'[u] = "stuck", orderly, ~nonblocking
        PROVE  st[u] = "stuck"
    BY <1>9, <2>3, <2>5, <1>t DEF FlushOne, Wrap, Outcome
  <2> QED BY <1>0, <2>1, <2>2, <2>4, <2>5, TaskStep DEF OrderInv
<1>10. ASSUME NEW s, st' = [st EXCEPT ![LoopTask] = s], UNCHANGED <<env, start, stopVars>>,
             \/ s = "locked" /\ st[LoopTask] = "running"
             \/ s = "done" /\ \A u \in Occ : st[u] \notin {"flushing", "held"}
      PROVE  OrderInv'
  <2>1. \A u \in Task : u # LoopTask => st'[u] = st[u]
    BY <1>10, <1>t
  <2>2. st'[LoopTask] = s
    BY <1>10, <1>t
  <2>3. LoopFlushes' /\ LoopGone' /\ NoTimerStranded'
    BY <1>10, <2>1, <2>2 DEF OrderInv, LoopFlushes, LoopGone, Drained, NoTimerStranded, env,
                             stopVars
  <2>4. AfterStart' /\ OneAtATime' /\ MarkedOrMarking' /\ ClosesOnce'
    BY <1>10 DEF OrderInv, AfterStart, OneAtATime, MarkedOrMarking, ClosesOnce, env, stopVars
  <2> QED BY <1>0, <2>3, <2>4 DEF OrderInv
<1>21. ASSUME NEW t \in Task, FlushMove(t) PROVE OrderInv'
  <2>1. /\ \A u \in Task : u # t => st'[u] = st[u]
        /\ st'[t] = "armed" /\ t \in Occ /\ UNCHANGED <<env, start, stopVars>>
    BY <1>21, <1>t DEF FlushMove, Flushing
  <2>2. t # LoopTask
    BY <2>1
  <2> QED BY <1>0, <2>1, <2>2, TaskStep DEF OrderInv, LoopFlushes
<1>22. ASSUME NEW t \in Task, FlushLock(t) PROVE OrderInv'
  BY <1>22, <1>10 DEF FlushLock, Flushing
<1>23. ASSUME Goroutine PROVE OrderInv'
  <2>1. CASE PollReceive
    <3>1. UNCHANGED <<st, env, start, stopVars>>
      BY <2>1 DEF PollReceive
    <3> QED BY <1>0, <3>1, TaskStep DEF OrderInv, LoopFlushes
  <2>2. CASE PollLeave \/ PollEnd
    <3>1. /\ \A u \in Task : u # PollTask => st'[u] = st[u]
          /\ UNCHANGED <<env, start, stopVars>>
      BY <2>2, <1>t DEF PollLeave, PollEnd
    <3>2. \A u \in Occ : u # PollTask
      OBVIOUS
    <3> QED BY <1>0, <3>1, <3>2, TaskStep DEF OrderInv, LoopFlushes
  <2>3. CASE LoopEnd
    BY <2>3, <1>10 DEF LoopEnd, Idle
  <2> QED BY <1>23, <2>1, <2>2, <2>3 DEF Goroutine
<1>11. ASSUME NEW t \in Task, EnterBody(t) PROVE OrderInv'
  BY <1>11, <1>8 DEF EnterBody
<1>12. ASSUME NEW t \in Occ, Finish(t) PROVE OrderInv'
  BY <1>12, <1>8 DEF Finish, EndBody, Panic
<1>13. ASSUME NEW S \in SUBSET Occ, Receive(S) PROVE OrderInv'
  <2>1. st[LoopTask] = "running" /\ UNCHANGED <<env, start, stopVars>>
    BY <1>13 DEF Receive
  <2>2. st'[LoopTask] = st[LoopTask]
    BY <1>13 DEF Receive
  <2>3. \A u \in Occ : st'[u] = "stuck" => st[u] = "stuck"
    BY <1>13 DEF Receive
  <2> QED BY <1>0, <2>1, <2>2, <2>3, TaskStep DEF OrderInv
<1>14. ASSUME NEW c \in Closer, StopCheck(c) PROVE OrderInv'
  <2>0. stop \in [Closer -> StopState]
    BY <1>0 DEF WaitInv, Typed
  <2>1. /\ UNCHANGED <<st, start, env, exit, isClosed, released, crashed>>
        /\ stop' = [stop EXCEPT ![c] = IF isClosed THEN "returned" ELSE "close"]
        /\ stop[c] = "idle"
    BY <1>14 DEF StopCheck
  <2>2. Drained' => Drained
    BY <2>0, <2>1 DEF Drained
  <2>3. orderly => /\ start \in {"ok", "failed"}
                   /\ \A d \in Closer : stop[d] \in {"idle", "returned"}
    BY <1>14 DEF StopCheck
  <2>4. LoopFlushes' /\ AfterStart' /\ LoopGone' /\ NoTimerStranded'
    BY <2>1, <2>2, <2>3 DEF OrderInv, LoopFlushes, AfterStart, LoopGone,
       NoTimerStranded, env
  <2>5. OneAtATime'
    BY <2>0, <2>1, <2>3 DEF OneAtATime, Active, env
  <2>6. MarkedOrMarking'
    BY <2>0, <2>1 DEF OrderInv, MarkedOrMarking
  <2>7. ClosesOnce'
    BY <2>0, <2>1, <2>3 DEF OrderInv, MarkedOrMarking, ClosesOnce, env
  <2> QED BY <1>0, <2>4, <2>5, <2>6, <2>7 DEF OrderInv
<1>15. ASSUME NEW c \in Closer, NEW from \in Active, NEW to \in Active \cup {"returned"},
             to # "close", stop[c] = from, stop' = [stop EXCEPT ![c] = to],
             UNCHANGED <<st, start, env>>, exit => exit', isClosed => isClosed',
             released' => released \/ from = "release",
             to \in {"woken", "release"} => from = "woken" \/ wg = {},
             orderly => crashed' # "twice"
      PROVE  LoopFlushes' /\ AfterStart' /\ LoopGone' /\ NoTimerStranded' /\ OneAtATime'
  <2>0. stop \in [Closer -> StopState]
    BY <1>0 DEF WaitInv, Typed
  <2>1. LoopFlushes' /\ NoTimerStranded'
    BY <1>15 DEF OrderInv, LoopFlushes, NoTimerStranded, env
  <2>2. AfterStart'
    BY <1>15, <2>0 DEF OrderInv, AfterStart, Active, env
  <2>3. OneAtATime'
    BY <1>15, <2>0 DEF OrderInv, OneAtATime, Active, env
  <2>4. LoopGone'
    <3>1. Drained' => Drained \/ wg = {}
      BY <1>15, <2>0 DEF Drained
    <3>2. wg = {} => st[LoopTask] \notin {"waiting", "held", "running", "locked"}
      BY <1>0 DEF WaitInv, Counted, Accepted, Busy
    <3> QED BY <1>15, <3>1, <3>2 DEF OrderInv, LoopGone, env
  <2> QED BY <2>1, <2>2, <2>3, <2>4
<1>s. stop \in [Closer -> StopState]
  BY <1>0 DEF WaitInv, Typed
<1>16. ASSUME NEW c \in Closer, StopClose(c) PROVE OrderInv'
  <2>1. orderly => ~exit
    BY <1>16 DEF StopClose, OrderInv, ClosesOnce
  <2>2. LoopFlushes' /\ AfterStart' /\ LoopGone' /\ NoTimerStranded' /\ OneAtATime'
    <3>1. /\ stop[c] = "close" /\ stop' = [stop EXCEPT ![c] = "mark"]
          /\ UNCHANGED <<st, start, env>> /\ (exit => exit') /\ isClosed' = isClosed
          /\ released' = released /\ (orderly => crashed' # "twice")
      BY <1>16, <2>1 DEF StopClose, OrderInv, ClosesOnce
    <3> QED BY <3>1, <1>15 DEF Active
  <2>3. MarkedOrMarking'
    BY <1>16, <1>s DEF StopClose, MarkedOrMarking
  <2>4. ClosesOnce'
    <3>1. orderly => \A d \in Closer : d # c => stop[d] # "close"
      BY <1>16 DEF StopClose, OrderInv, OneAtATime, Active
    <3>2. orderly => crashed # "twice"
      BY DEF OrderInv, ClosesOnce
    <3> QED BY <1>16, <1>s, <2>1, <3>1, <3>2 DEF StopClose, ClosesOnce, env
  <2> QED BY <1>0, <2>2, <2>3, <2>4 DEF OrderInv
<1>17. ASSUME NEW c \in Closer, StopMark(c) PROVE OrderInv'
  <2>1. LoopFlushes' /\ AfterStart' /\ LoopGone' /\ NoTimerStranded' /\ OneAtATime'
    <3>1. /\ stop[c] = "mark" /\ stop' = [stop EXCEPT ![c] = "wait"]
          /\ UNCHANGED <<st, start, env>> /\ exit' = exit /\ isClosed'
          /\ released' = released /\ (orderly => crashed' # "twice")
      BY <1>17 DEF StopMark, OrderInv, ClosesOnce
    <3> QED BY <3>1, <1>15 DEF Active
  <2>2. MarkedOrMarking' /\ ClosesOnce'
    BY <1>17, <1>s DEF StopMark, MarkedOrMarking, OrderInv, ClosesOnce, env
  <2> QED BY <1>0, <2>1, <2>2 DEF OrderInv
<1>18. ASSUME NEW c \in Closer, StopWait(c) PROVE OrderInv'
  <2>1. PICK next \in {"woken", "release"} : stop' = [stop EXCEPT ![c] = next]
    BY <1>18 DEF StopWait
  <2>2. LoopFlushes' /\ AfterStart' /\ LoopGone' /\ NoTimerStranded' /\ OneAtATime'
    <3>1. /\ stop[c] = "wait" /\ wg = {}
          /\ UNCHANGED <<st, start, env>> /\ exit' = exit /\ isClosed' = isClosed
          /\ released' = released /\ (orderly => crashed' # "twice")
      BY <1>18 DEF StopWait, OrderInv, ClosesOnce
    <3> QED BY <3>1, <2>1, <1>15 DEF Active
  <2>3. MarkedOrMarking' /\ ClosesOnce'
    BY <1>18, <1>s, <2>1 DEF StopWait, MarkedOrMarking, OrderInv, ClosesOnce, env
  <2> QED BY <1>0, <2>2, <2>3 DEF OrderInv
<1>24. ASSUME NEW c \in Closer, StopWake(c) PROVE OrderInv'
  <2>1. LoopFlushes' /\ AfterStart' /\ LoopGone' /\ NoTimerStranded' /\ OneAtATime'
    <3>1. /\ stop[c] = "woken" /\ stop' = [stop EXCEPT ![c] = "release"]
          /\ UNCHANGED <<st, start, env>> /\ exit' = exit /\ isClosed' = isClosed
          /\ released' = released /\ (orderly => crashed' # "twice")
      BY <1>24 DEF StopWake, OrderInv, ClosesOnce
    <3> QED BY <3>1, <1>15 DEF Active
  <2>2. MarkedOrMarking' /\ ClosesOnce'
    BY <1>24, <1>s DEF StopWake, MarkedOrMarking, OrderInv, ClosesOnce, env
  <2> QED BY <1>0, <2>1, <2>2 DEF OrderInv
<1>19. ASSUME NEW c \in Closer, StopRelease(c) PROVE OrderInv'
  <2>1. LoopFlushes' /\ AfterStart' /\ LoopGone' /\ NoTimerStranded' /\ OneAtATime'
    <3>1. /\ stop[c] = "release" /\ stop' = [stop EXCEPT ![c] = "returned"]
          /\ UNCHANGED <<st, start, env>> /\ exit' = exit /\ isClosed' = isClosed
          /\ released' /\ (orderly => crashed' # "twice")
      BY <1>19 DEF StopRelease, OrderInv, ClosesOnce
    <3> QED BY <3>1, <1>15 DEF Active
  <2>2. MarkedOrMarking' /\ ClosesOnce'
    BY <1>19, <1>s DEF StopRelease, MarkedOrMarking, OrderInv, ClosesOnce, env
  <2> QED BY <1>0, <2>1, <2>2 DEF OrderInv
<1>20. CASE UNCHANGED vars
  BY <1>20, <1>0, TaskStep DEF vars, env, stopVars, OrderInv, LoopFlushes
<1> QED BY <1>1, <1>2, <1>3, <1>5, <1>6, <1>7, <1>9, <1>11, <1>12, <1>13,
           <1>14, <1>16, <1>17, <1>18, <1>19, <1>20, <1>21, <1>22, <1>23, <1>24
        DEF Next, Wheel, Functions, Callers, Starting, Advance, Flush, Stopping

\* In a wheel with a blocking pool that is stopped in order no flush is given up,
\* so that no timer stays in a bucket that nobody will empty (Flush of bucket.go
\* returns at the first error of addOrRun).
THEOREM NothingStranded == Spec => []NoTimerStranded
<1>1. OrderInv => NoTimerStranded
  BY DEF OrderInv
<1> QED BY <1>1, OrderInit, OrderStep, PTL DEF Spec

\* Stops in order close exitC once (isClosed is a plain field).
THEOREM ClosedOnce == Spec => []StopTwice
<1>1. OrderInv => StopTwice
  BY DEF OrderInv, ClosesOnce, StopTwice
<1> QED BY <1>1, OrderInit, OrderStep, PTL DEF Spec

-------------------------------------------------------------------------------
(* The size of the pool. *)

LEMMA TasksAreFinite == IsFiniteSet(Task)
<1>1. \A j \in Job : IsFiniteSet({j} \X (1 .. Runs[j]))
  <2> SUFFICES ASSUME NEW j \in Job PROVE IsFiniteSet({j} \X (1 .. Runs[j]))
    OBVIOUS
  <2>1. Runs[j] \in Int
    BY LifecycleAssumption
  <2>2. IsFiniteSet(1 .. Runs[j])
    BY <2>1, FS_Interval
  <2>3. IsFiniteSet({j})
    BY FS_Singleton
  <2> QED BY <2>2, <2>3, FS_Product
<1>2. IsFiniteSet({{j} \X (1 .. Runs[j]) : j \in Job})
  <2> DEFINE S == {{j} \X (1 .. Runs[j]) : j \in Job}
             f == [j \in Job |-> {j} \X (1 .. Runs[j])]
  <2>1. f \in Surjection(Job, S)
    BY DEF Surjection
  <2> HIDE DEF f, S
  <2>2. IsFiniteSet(S)
    BY <2>1, FS_Surjection, LifecycleAssumption
  <2> QED BY <2>2 DEF S
<1>3. IsFiniteSet(Occ)
  <2> DEFINE S == {{j} \X (1 .. Runs[j]) : j \in Job}
  <2>1. \A T \in S : IsFiniteSet(T)
    BY <1>1
  <2>2. IsFiniteSet(S)
    BY <1>2
  <2> HIDE DEF S
  <2>3. IsFiniteSet(UNION S)
    BY <2>1, <2>2, FS_UNION
  <2> QED BY <2>3 DEF S, Occ
<1>4. Task = (Occ \cup {PollTask}) \cup {LoopTask}
  BY DEF Task
<1> QED BY <1>3, <1>4, FS_AddElement

\* The members of TypeOK that WaitInv leaves out.
Rest ==
  /\ nonblocking \in BOOLEAN /\ orderly \in BOOLEAN
  /\ exit \in BOOLEAN /\ isClosed \in BOOLEAN /\ released \in BOOLEAN
  /\ crashed \in {"no", "twice", "reused"}
  /\ moves \in 0 .. MaxMoves
  /\ sender \in Occ \cup {LoopTask, Outside, Nobody}

BusyFits == Cardinality(Busy) <= PoolSize

LEMMA RestStep == Rest /\ [Next]_vars => Rest'
<1> SUFFICES ASSUME Rest, [Next]_vars PROVE Rest'
  OBVIOUS
<1> USE DEF Rest
<1>1. ASSUME NEW who \in Occ \cup {LoopTask, Outside}, Offer(who)
      PROVE  sender' \in Occ \cup {LoopTask, Outside, Nobody}
  BY <1>1 DEF Offer
<1>2. ASSUME NEW t, NEW who \in Occ \cup {LoopTask, Outside}, AddOrRun(t, who)
      PROVE  /\ sender' \in Occ \cup {LoopTask, Outside, Nobody}
             /\ moves' = moves
  BY <1>1, <1>2 DEF AddOrRun
<1>3. ASSUME NEW j \in Job, Request(j) PROVE Rest'
  BY <1>2, <1>3 DEF Request, env, stopVars
<1>4. ASSUME NEW t, Rearm(t) PROVE Rest'
  BY <1>2, <1>4 DEF Rearm, env, stopVars
<1>5. ASSUME NEW t, FlushMove(t) PROVE Rest'
  <2>1. moves' \in 0 .. MaxMoves
    BY <1>5, LifecycleAssumption DEF FlushMove
  <2>2. sender' \in Occ \cup {LoopTask, Outside, Nobody}
    BY <1>1, <1>5 DEF FlushMove
  <2> QED BY <1>5, <2>1, <2>2 DEF FlushMove, env, stopVars
<1>6. CASE Goroutine
  BY <1>6 DEF Goroutine, PollReceive, PollLeave, PollEnd, LoopEnd, env, queueVars, stopVars
<1>7. ASSUME NEW t, TakeWorker(t) \/ EnterBody(t) \/ FlushOne(t) \/ FlushLock(t) \/ Finish(t)
      PROVE  Rest'
  BY <1>7 DEF TakeWorker, EnterBody, FlushOne, FlushLock, Finish, EndBody, Panic, env,
              queueVars, stopVars
<1>8. ASSUME NEW S, Receive(S) PROVE Rest'
  BY <1>8 DEF Receive, env, queueVars, stopVars
<1>9. ASSUME NEW c, StopCheck(c) \/ Stopping(c) PROVE Rest'
  BY <1>9 DEF Stopping, StopCheck, StopClose, StopMark, StopWait, StopWake, StopRelease, env,
              queueVars
<1>10. CASE Starting
  BY <1>10 DEF Starting, StartPoll, StartLoop, StartReturn, env, queueVars, stopVars
<1>11. CASE UNCHANGED vars
  BY <1>11 DEF vars
<1> QED BY <1>3, <1>4, <1>5, <1>6, <1>7, <1>8, <1>9, <1>10, <1>11
        DEF Next, Wheel, Functions, Callers, Advance, Flush

\* Only TakeWorker makes a task busy, and it needs a free worker.
LEMMA BusyStep == WaitInv /\ BusyFits /\ [Next]_vars => BusyFits'
<1> SUFFICES ASSUME WaitInv, BusyFits, [Next]_vars PROVE BusyFits'
  OBVIOUS
<1> USE TaskFacts
<1>t. st \in [Task -> State]
  BY DEF WaitInv, Typed
<1>f. IsFiniteSet(Busy) /\ PoolSize \in Nat /\ Cardinality(Busy) \in Nat
  <2>1. Busy \in SUBSET Task
    BY DEF Busy
  <2>2. IsFiniteSet(Busy)
    BY <2>1, TasksAreFinite, FS_Subset
  <2> QED BY <2>2, FS_CardinalityType, LifecycleAssumption
<1>1. ASSUME \A t \in Task : t \in Busy' => t \in Busy
      PROVE  BusyFits'
  <2>1. Busy' \in SUBSET Busy
    BY <1>1 DEF Busy
  <2>2. Cardinality(Busy') <= Cardinality(Busy) /\ IsFiniteSet(Busy')
    BY <2>1, <1>f, FS_Subset
  <2>3. Cardinality(Busy') \in Nat
    BY <2>2, FS_CardinalityType
  <2> QED BY <1>f, <2>2, <2>3 DEF BusyFits
<1>2. ASSUME NEW t \in Task, TakeWorker(t) PROVE BusyFits'
  <2>1. st' = [st EXCEPT ![t] = "running"] /\ ~Full
    BY <1>2 DEF TakeWorker
  <2>2. Busy' = Busy \cup {t}
    BY <2>1, <1>t DEF Busy
  <2>3. Cardinality(Busy \cup {t}) <= Cardinality(Busy) + 1
    <3>1. Cardinality(Busy \cup {t}) =
            IF t \in Busy THEN Cardinality(Busy) ELSE Cardinality(Busy) + 1
      BY <1>f, FS_AddElement
    <3> QED BY <1>f, <3>1
  <2>4. Cardinality(Busy \cup {t}) \in Nat
    BY <1>f, FS_AddElement, FS_CardinalityType
  <2>5. Cardinality(Busy) < PoolSize
    BY <1>f, <2>1 DEF Full
  <2> QED BY <1>f, <2>2, <2>3, <2>4, <2>5 DEF BusyFits
<1>3. CASE StartPoll \/ StartLoop \/ StartReturn
  <2>1. \A t \in Task : t \in Busy' => t \in Busy
    BY <1>3, <1>t DEF StartPoll, StartLoop, StartReturn, Wrap, Outcome, Busy
  <2> QED BY <2>1, <1>1
<1>4. ASSUME NEW j \in Job, Request(j) PROVE BusyFits'
  <2>1. \A t \in Task : t \in Busy' => t \in Busy
    BY <1>4, <1>t DEF Request, AddOrRun, Wrap, Outcome, Busy
  <2> QED BY <2>1, <1>1
<1>5. ASSUME NEW t \in Task,
             Rearm(t) \/ EnterBody(t) \/ EndBody(t) \/ Panic(t) \/ FlushMove(t) \/ FlushLock(t)
      PROVE  BusyFits'
  <2>1. \A u \in Task : u \in Busy' => u \in Busy
    BY <1>5, <1>t DEF Rearm, AddOrRun, Wrap, Outcome, EnterBody, EndBody, Panic, FlushMove,
                      FlushLock, Flushing, Busy
  <2> QED BY <2>1, <1>1
<1>6. ASSUME NEW t \in Task, FlushOne(t) PROVE BusyFits'
  <2>1. \A u \in Task : u \in Busy' => u \in Busy
    BY <1>6, <1>t DEF FlushOne, Wrap, Outcome, Busy
  <2> QED BY <2>1, <1>1
<1>7. ASSUME NEW S \in SUBSET Occ, Receive(S) PROVE BusyFits'
  <2>1. \A u \in Task : u \in Busy' => u \in Busy
    BY <1>7, <1>t DEF Receive, Busy
  <2> QED BY <2>1, <1>1
<1>8. ASSUME NEW c \in Closer, StopCheck(c) \/ Stopping(c) PROVE BusyFits'
  <2>1. \A u \in Task : u \in Busy' => u \in Busy
    BY <1>8 DEF StopCheck, Stopping, StopClose, StopMark, StopWait, StopWake, StopRelease, Busy
  <2> QED BY <2>1, <1>1
<1>10. CASE Goroutine
  <2>1. \A t \in Task : t \in Busy' => t \in Busy
    BY <1>10, <1>t DEF Goroutine, PollReceive, PollLeave, PollEnd, LoopEnd, Busy
  <2> QED BY <2>1, <1>1
<1>9. CASE UNCHANGED vars
  <2>1. \A u \in Task : u \in Busy' => u \in Busy
    BY <1>9 DEF vars, Busy
  <2> QED BY <2>1, <1>1
<1> QED BY <1>2, <1>3, <1>4, <1>5, <1>6, <1>7, <1>8, <1>9, <1>10
        DEF Next, Wheel, Functions, Callers, Starting, Advance, Flush, Finish

LEMMA SizeInit == Init => Rest /\ BusyFits
<1> SUFFICES ASSUME Init PROVE Rest /\ BusyFits
  OBVIOUS
<1>1. Busy = {}
  BY DEF Init, Busy
<1>2. Cardinality(Busy) = 0
  BY <1>1, FS_EmptySet
<1>3. BusyFits
  BY <1>2, LifecycleAssumption DEF BusyFits
<1>4. 0 \in 0 .. MaxMoves
  BY LifecycleAssumption
<1>5. Rest
  BY <1>4 DEF Init, Rest, Nobody
<1> QED BY <1>3, <1>5

\* Every variable has its type, and no more tasks run than the pool has workers,
\* Poll and the loop among them.
THEOREM TypeCorrect == Spec => []TypeOK
<1>1. WaitInv /\ Rest /\ BusyFits => TypeOK
  BY DEF WaitInv, Typed, StopState, Rest, BusyFits, TypeOK
<1> QED BY <1>1, WaitInit, WaitStep, SizeInit, RestStep, BusyStep, PTL DEF Spec
==============================================================================
