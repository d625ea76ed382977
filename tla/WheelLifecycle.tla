---------------------------- MODULE WheelLifecycle ----------------------------
(***************************************************************************)
(* The goroutines of a timing wheel (pkg/timingwheel/timingwheel.go): Poll, *)
(* the loop of Start and every task share one worker pool of fixed size and *)
(* one wait group, through Wrap.  TimingWheel models where a timer goes and *)
(* when, DelayQueue when an Offer sends on wakeupC; here time and the queue *)
(* are abstracted away, and what matters is who waits for a worker, who     *)
(* waits for whom when the wheel stops, and what a refusal of the pool      *)
(* leaves behind.                                                           *)
(*                                                                          *)
(* The pool (github.com/panjf2000/ants v1.3.0) is external: Submit blocks   *)
(* until a worker is free, or fails at once in a pool made non-blocking; it *)
(* always fails after Release; a panic of a task ends with the task.        *)
(***************************************************************************)
EXTENDS Integers, FiniteSets

CONSTANTS Job,      \* calls of AfterFunc and ScheduleFunc
          Runs,     \* bound: how many occurrences a job has, 1 for AfterFunc
          Panics,   \* the jobs whose function may panic
          PoolSize,
          MaxMoves, \* bound: how often a flush puts a timer into a lower wheel
          Closer    \* goroutines that call Stop

Occ == UNION {{j} \X (1 .. Runs[j]) : j \in Job}
Schedules == {j \in Job : Runs[j] > 1}
PollTask == <<"poll", 0>>
LoopTask == <<"loop", 0>>
Outside == <<"outside", 0>> \* a caller of AfterFunc or ScheduleFunc
Nobody == <<"nobody", 0>>
Task == Occ \cup {PollTask, LoopTask}

ASSUME LifecycleAssumption ==
  /\ IsFiniteSet(Job)
  /\ Runs \in [Job -> Nat \ {0}]
  /\ Panics \subseteq Job
  /\ PoolSize \in Nat /\ MaxMoves \in Nat
  \* Poll and the loop keep a worker each, and a schedule that is late may
  \* keep one waiting: see Fires.
  /\ PoolSize > Cardinality(Schedules) + 2

VARIABLES nonblocking, \* ants.WithNonblocking was among the options of New
          orderly,     \* Stop is called after Start has returned, and once at a time
          st,          \* where each task is
          moves,       \* how often a flush has put a timer into a lower wheel
          sender,      \* who has won the flag of the queue and sends on wakeupC
          wg,          \* the tasks that Stop waits for
          start,       \* the call of Start
          stop,        \* the calls of Stop
          exit,        \* exitC is closed
          isClosed,
          released,    \* the pool is released
          crashed      \* "twice" if exitC was closed twice, "reused" if the
                       \* wait group was raised before its Wait had returned

vars == <<nonblocking, orderly, st, moves, sender, wg, start, stop, exit, isClosed,
          released, crashed>>
env == <<nonblocking, orderly>>
queueVars == <<moves, sender>>
stopVars == <<stop, exit, isClosed, released, crashed>>

State == {"none",     \* not asked for yet
          "armed",    \* in a bucket
          "flushing", \* in the bucket that the loop is flushing
          "stuck",    \* in a bucket whose flush was given up
          "waiting",  \* its Submit waits for a worker
          "held",     \* the same, and the Submit is the loop's
          "running",  \* has a worker; a schedule has yet to rearm
          "body",     \* in the function of the job
          "leaving",  \* Poll, which has taken exitC with its flag still set
          "locked",   \* the loop, which has locked the bucket it is flushing
          "done", "panicked", "refused"}

Next1(t) == <<t[1], t[2] + 1>>
HasNext(t) == t \in Occ /\ t[2] < Runs[t[1]]
Busy == {t \in Task : st[t] \in {"running", "body", "leaving", "locked"}}
Accepted == Busy \cup {t \in Task : st[t] \in {"waiting", "held"}}
Full == Cardinality(Busy) >= PoolSize

-------------------------------------------------------------------------------
(* Wrap: the wait group is told first, and of a refused task never again. *)

Outcome(how) == IF released \/ (nonblocking /\ Full) THEN "refused" ELSE how

\* Mutant: the wait group is told of accepted tasks of the loop only.
WrapUntold(t, how) ==
  /\ wg' = IF how = "held" THEN wg \cup {t} ELSE wg
  /\ st' = [st EXCEPT ![t] = Outcome(how)]

Wrap(t, how) ==
  /\ wg' = wg \cup {t}
  /\ st' = [st EXCEPT ![t] = Outcome(how)]

\* Mutant: the size of the pool is not a limit.
TakeWorkerAlways(t) ==
  /\ st[t] \in {"waiting", "held"}
  /\ st' = [st EXCEPT ![t] = "running"]
  /\ UNCHANGED <<env, queueVars, wg, start, stopVars>>

TakeWorker(t) ==
  /\ st[t] \in {"waiting", "held"}
  /\ ~Full
  /\ st' = [st EXCEPT ![t] = "running"]
  /\ UNCHANGED <<env, queueVars, wg, start, stopVars>>

-------------------------------------------------------------------------------
Init ==
  /\ nonblocking \in BOOLEAN
  /\ orderly \in BOOLEAN
  /\ st = [t \in Task |-> "none"]
  /\ moves = 0
  /\ sender = Nobody
  /\ wg = {}
  /\ start = "none"
  /\ stop = [c \in Closer |-> "idle"]
  /\ exit = FALSE
  /\ isClosed = FALSE
  /\ released = FALSE
  /\ crashed = "no"

(* Start: the two goroutines of the wheel, in turn. *)

StartPoll ==
  /\ start = "none"
  /\ Wrap(PollTask, "waiting")
  /\ start' = "poll"
  /\ UNCHANGED <<env, queueVars, stopVars>>

StartLoop ==
  /\ start = "poll"
  /\ st[PollTask] \notin {"waiting", "refused"}
  /\ Wrap(LoopTask, "waiting")
  /\ start' = "loop"
  /\ UNCHANGED <<env, queueVars, stopVars>>

StartReturn ==
  /\ \/ start = "poll" /\ st[PollTask] = "refused" /\ start' = "failed"
     \/ start = "loop" /\ st[LoopTask] = "refused" /\ start' = "failed"
     \/ start = "loop" /\ st[LoopTask] \notin {"waiting", "refused"} /\ start' = "ok"
  /\ UNCHANGED <<env, queueVars, st, wg, stopVars>>

-------------------------------------------------------------------------------
(* AfterFunc and ScheduleFunc, at any time: the first expiration is ahead, or *)
(* has passed and the caller submits the task itself. *)

\* An Offer may find its timer the earliest and the flag of Poll set: it then
\* sends on wakeupC.  Poll sets the flag while it runs and resets it at its end.
Offer(who) ==
  \/ sender' = sender
  \/ /\ sender = Nobody
     /\ st[PollTask] \in {"running", "leaving"}
     /\ sender' = who

AddOrRun(t, who) ==
  /\ \/ st' = [st EXCEPT ![t] = "armed"] /\ wg' = wg /\ Offer(who)
     \/ Wrap(t, "waiting") /\ sender' = sender
  /\ moves' = moves

Request(j) ==
  /\ st[<<j, 1>>] = "none"
  /\ AddOrRun(<<j, 1>>, Outside)
  /\ UNCHANGED <<env, start, stopVars>>

\* The task of a schedule, in its worker, first rearms its timer: it runs its
\* function only when the next occurrence is in a bucket or has its worker.
Rearm(t) ==
  /\ t \in Occ /\ st[t] = "running"
  /\ HasNext(t)
  /\ st[Next1(t)] = "none"
  /\ AddOrRun(Next1(t), t)
  /\ UNCHANGED <<env, start, stopVars>>

EnterBody(t) ==
  /\ t \in Occ /\ st[t] = "running"
  /\ HasNext(t) => st[Next1(t)] \notin {"none", "waiting"}
  /\ sender # t
  /\ st' = [st EXCEPT ![t] = "body"]
  /\ UNCHANGED <<env, queueVars, wg, start, stopVars>>

EndBody(t) ==
  /\ st[t] = "body"
  /\ st' = [st EXCEPT ![t] = "done"]
  /\ wg' = wg \ {t}
  /\ UNCHANGED <<env, queueVars, start, stopVars>>

\* The pool recovers; Done is not deferred and is never called.
Panic(t) ==
  /\ st[t] = "body"
  /\ t[1] \in Panics
  /\ st' = [st EXCEPT ![t] = "panicked"]
  /\ UNCHANGED <<env, queueVars, wg, start, stopVars>>

-------------------------------------------------------------------------------
(* Poll receives what an Offer sends, and hands a bucket to the loop, which    *)
(* flushes it.  A bucket whose flush was given up comes back when it is used   *)
(* again.                                                                      *)

PollReceive ==
  /\ st[PollTask] = "running"
  /\ sender # Nobody
  /\ sender' = Nobody
  /\ UNCHANGED <<env, st, moves, wg, start, stopVars>>

Idle == sender # LoopTask /\ \A t \in Occ : st[t] \notin {"flushing", "held"}

Receive(S) ==
  /\ st[PollTask] = "running" /\ st[LoopTask] = "running"
  /\ Idle
  /\ S \subseteq {t \in Occ : st[t] \in {"armed", "stuck"}}
  /\ \E t \in S : st[t] = "armed"
  /\ st' = [t \in Task |-> IF t \in S THEN "flushing" ELSE st[t]]
  /\ UNCHANGED <<env, queueVars, wg, start, stopVars>>

\* The loop comes to the timer t of the bucket it is flushing.
Flushing(t) ==
  /\ t \in Occ /\ st[t] = "flushing"
  /\ st[LoopTask] = "running" /\ sender # LoopTask
  /\ \A u \in Occ : st[u] # "held"

\* Mutant: Flush always returns after the first task it has submitted.
FlushOneOnly(t) ==
  /\ Flushing(t)
  /\ wg' = wg \cup {t}
  /\ st' = [u \in Task |-> IF u = t THEN "held"
                           ELSE IF st[u] = "flushing" THEN "stuck" ELSE st[u]]
  /\ UNCHANGED <<env, queueVars, start, stopVars>>

\* Flush gives the task to the pool.  When the pool refuses it Flush returns,
\* and the timers after it stay behind.
FlushOne(t) ==
  /\ Flushing(t)
  /\ \/ /\ ~(released \/ (nonblocking /\ Full))
        /\ Wrap(t, "held")
     \/ /\ released \/ (nonblocking /\ Full)
        /\ wg' = wg \cup {t}
        /\ st' = [u \in Task |-> IF u = t THEN "refused"
                                 ELSE IF st[u] = "flushing" THEN "stuck" ELSE st[u]]
  /\ UNCHANGED <<env, queueVars, start, stopVars>>

\* Flush puts the timer into a lower wheel.
FlushMove(t) ==
  /\ Flushing(t)
  /\ moves < MaxMoves
  /\ moves' = moves + 1
  /\ st' = [st EXCEPT ![t] = "armed"]
  /\ Offer(LoopTask)
  /\ UNCHANGED <<env, wg, start, stopVars>>

\* A caller was preempted between Add and SetExpiration, and Flush reinserts a
\* timer into the bucket whose lock it holds: TimingWheel and its run
\* wheel_selflock have the ways there.
FlushLock(t) ==
  /\ Flushing(t)
  /\ st' = [st EXCEPT ![LoopTask] = "locked"]
  /\ UNCHANGED <<env, queueVars, wg, start, stopVars>>

\* The loop watches exitC between two buckets.
LoopEnd ==
  /\ st[LoopTask] = "running"
  /\ exit
  /\ Idle
  /\ st' = [st EXCEPT ![LoopTask] = "done"]
  /\ wg' = wg \ {LoopTask}
  /\ UNCHANGED <<env, queueVars, start, stopVars>>

\* Mutant: Poll does not watch exitC.
PollLeaveNever ==
  /\ FALSE
  /\ UNCHANGED vars

\* Poll watches exitC wherever it waits, also with a sender on wakeupC
\* (DelayQueue has the ways); then it resets its flag, and returns.
PollLeave ==
  /\ st[PollTask] = "running"
  /\ exit
  /\ st' = [st EXCEPT ![PollTask] = "leaving"]
  /\ UNCHANGED <<env, queueVars, wg, start, stopVars>>

PollEnd ==
  /\ st[PollTask] = "leaving"
  /\ st' = [st EXCEPT ![PollTask] = "done"]
  /\ wg' = wg \ {PollTask}
  /\ UNCHANGED <<env, queueVars, start, stopVars>>

-------------------------------------------------------------------------------
(* Stop. *)

StopCheck(c) ==
  /\ stop[c] = "idle"
  /\ orderly => start \in {"ok", "failed"} /\ \A d \in Closer : stop[d] \in {"idle", "returned"}
  /\ stop' = [stop EXCEPT ![c] = IF isClosed THEN "returned" ELSE "close"]
  /\ UNCHANGED <<env, queueVars, st, wg, start, exit, isClosed, released, crashed>>

\* Closing a closed channel panics, in a goroutine that nobody recovers.
StopClose(c) ==
  /\ stop[c] = "close"
  /\ exit' = TRUE
  /\ crashed' = IF exit THEN "twice" ELSE crashed
  /\ stop' = [stop EXCEPT ![c] = "mark"]
  /\ UNCHANGED <<env, queueVars, st, wg, start, isClosed, released>>

\* Mutant: isClosed is forgotten.
StopMarkNot(c) ==
  /\ stop[c] = "mark"
  /\ stop' = [stop EXCEPT ![c] = "wait"]
  /\ UNCHANGED <<env, queueVars, st, wg, start, exit, isClosed, released, crashed>>

StopMark(c) ==
  /\ stop[c] = "mark"
  /\ isClosed' = TRUE
  /\ stop' = [stop EXCEPT ![c] = "wait"]
  /\ UNCHANGED <<env, queueVars, st, wg, start, exit, released, crashed>>

\* Wait returns at once, or was blocked and is woken.
StopWait(c) ==
  /\ stop[c] = "wait"
  /\ wg = {}
  /\ \E next \in {"woken", "release"} : stop' = [stop EXCEPT ![c] = next]
  /\ UNCHANGED <<env, queueVars, st, wg, start, exit, isClosed, released, crashed>>

\* A wait group that was raised again before the Wait it woke has returned
\* panics.
StopWake(c) ==
  /\ stop[c] = "woken"
  /\ crashed' = IF wg = {} THEN crashed ELSE "reused"
  /\ stop' = [stop EXCEPT ![c] = "release"]
  /\ UNCHANGED <<env, queueVars, st, wg, start, exit, isClosed, released>>

StopRelease(c) ==
  /\ stop[c] = "release"
  /\ released' = TRUE
  /\ stop' = [stop EXCEPT ![c] = "returned"]
  /\ UNCHANGED <<env, queueVars, st, wg, start, exit, isClosed, crashed>>

-------------------------------------------------------------------------------
Starting == StartPoll \/ StartLoop \/ StartReturn
Stopping(c) ==
  StopClose(c) \/ StopMark(c) \/ StopWait(c) \/ StopWake(c) \/ StopRelease(c)
Finish(t) == EndBody(t) \/ Panic(t)
Advance(t) == TakeWorker(t) \/ Rearm(t) \/ EnterBody(t)
Flush(t) == FlushOne(t) \/ FlushMove(t) \/ FlushLock(t)
Goroutine == PollReceive \/ PollLeave \/ PollEnd \/ LoopEnd

Wheel ==
  /\ crashed = "no"
  /\ \/ Starting
     \/ \E t \in Task : Advance(t) \/ Flush(t)
     \/ Goroutine
     \/ \E S \in SUBSET Occ : Receive(S)
     \/ \E c \in Closer : Stopping(c)
Functions ==
  /\ crashed = "no"
  /\ \E t \in Occ : Finish(t)
Callers ==
  /\ crashed = "no"
  /\ \/ \E j \in Job : Request(j)
     \/ \E c \in Closer : StopCheck(c)

Next == Wheel \/ Functions \/ Callers

\* Goroutines run and timers expire; no state comes back, so that one condition
\* says this of each of them.  The functions of jobs need not end.
Spec == Init /\ [][Next]_vars /\ WF_vars(Wheel)

\* They end as well.
SpecEnds == Spec /\ WF_vars(Functions)

-------------------------------------------------------------------------------
TypeOK ==
  /\ nonblocking \in BOOLEAN /\ orderly \in BOOLEAN
  /\ st \in [Task -> State]
  /\ moves \in 0 .. MaxMoves
  /\ sender \in Occ \cup {LoopTask, Outside, Nobody}
  /\ wg \subseteq Task
  /\ start \in {"none", "poll", "loop", "ok", "failed"}
  /\ stop \in [Closer -> {"idle", "close", "mark", "wait", "woken", "release", "returned"}]
  /\ exit \in BOOLEAN /\ isClosed \in BOOLEAN /\ released \in BOOLEAN
  /\ crashed \in {"no", "twice", "reused"}
  /\ Cardinality(Busy) <= PoolSize

\* When Stop goes on to release the pool, no task that was accepted, however
\* late, waits for a worker or runs, Poll and the loop included, and none has
\* panicked: every way into the pool raises the wait group before it hands the
\* task over.  (The comment of Stop, timingwheel.go:195-197, says that it does
\* not wait for tasks: StopDoesNotWait and its run stop_waits.)
StopWaits ==
  [][\A c \in Closer : stop[c] = "wait" /\ stop'[c] # "wait" =>
       Accepted = {} /\ \A t \in Task : st[t] # "panicked"]_vars

\* Without ants' non-blocking option, and when Stop is used in order, a flush
\* is never given up: no timer is left in a bucket that nobody will empty.
NoTimerStranded ==
  orderly /\ ~nonblocking => \A t \in Occ : st[t] # "stuck"

\* Calls of Stop that do not overlap never close exitC twice.
StopTwice == orderly => crashed # "twice"

\* A started wheel with a blocking pool, until it is stopped, comes to a rest
\* in which nothing waits: every timer has fired, every task has had a worker.
\* The loop and the workers never all wait for one another, however late the
\* schedules are.  Only a loop that has locked itself leaves timers behind.
Fires ==
  <>[](start = "ok" /\ ~nonblocking /\ ~exit =>
         \/ st[LoopTask] = "locked"
         \/ \A t \in Occ : st[t] \in {"none", "done", "panicked"})

\* What keeps the wait group above zero for good: a function that has panicked
\* and a task that the pool has refused, whose Done is never called; the loop
\* that has locked itself; the loop or a schedule's task whose Offer sends on
\* wakeupC after Poll has left through exitC.
Hung ==
  \/ \E t \in Task : st[t] \in {"panicked", "refused"}
  \/ st[LoopTask] = "locked"
  \/ st[PollTask] = "done" /\ sender \in Task

\* Stop returns once the functions that run have ended, unless one of the four
\* accidents of Hung has happened or the process has crashed in a Stop.
StopReturns ==
  <>[](Hung \/ crashed # "no" \/ \A c \in Closer : stop[c] \in {"idle", "returned"})

\* "If there is any timer's task being running in its own goroutine, Stop does
\* not wait for the task to complete before returning" (timingwheel.go:195-197):
\* without those accidents Stop returns even if a function never does.  It does
\* not: the run stop_waits finds a function that it waits for.
StopDoesNotWait ==
  <>[](Hung \/ crashed # "no" \/ \A c \in Closer : stop[c] \in {"idle", "returned"})
===============================================================================
