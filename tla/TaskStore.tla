------------------------------ MODULE TaskStore ------------------------------
(***************************************************************************)
(* The task table and the processes that work on it                        *)
(* (internal/service/storage/storage.go): a task is registered, fetched by *)
(* the pending cron of some process or taken on the fast path, waits in    *)
(* that process's timing wheel, is called back, and is stored as           *)
(* succeeded, failed for good, or to be retried.                           *)
(*                                                                         *)
(* Each SQL statement is one step.  The in-memory copy of a row (the       *)
(* *TaskEntity a closure holds) lives in a slot of its process; several    *)
(* copies of one row may exist.  Time is abstracted: a delay is "zero",    *)
(* "fast" (at most FastPathTime) or "slow", a pending row may be due at    *)
(* any moment, and a timer may fire at any moment.                         *)
(***************************************************************************)
EXTENDS Integers, Sequences, FiniteSetsExt

CONSTANTS Task,        \* the tasks clients register
          Node,        \* ordinals of the processes
          Slot,        \* bound: the copies that may be in memory at once
          Home,        \* the process of each slot
          Delay,       \* class of each task's delay_time
          Backoff,     \* classes of each task's retry delays
          CronOverlap, \* a run of the pending cron may overtake the one before
          MaxFaults,   \* bound: crashes and failing SQL statements
          None         \* "no task"

Class == {"zero", "fast", "slow"}

ASSUME NodeAssumption == Node \subseteq Nat /\ Home \in [Slot -> Node]
ASSUME TaskAssumption ==
  /\ None \notin Task
  /\ Delay \in [Task -> Class]
  /\ Backoff \in [Task -> Seq(Class)]
ASSUME BoundAssumption == CronOverlap \in BOOLEAN /\ MaxFaults \in Nat

VARIABLES status,   \* status of each row, Absent before it is inserted
          count,    \* fail_count of each row
          owner,    \* locked_by of each row
          job,      \* the copy of a row in each slot
          range,    \* the owners whose rows each process fetches (d.ns)
          attempts, \* how often each task has been called back
          accepted, \* tasks whose callback has answered SUCCESS
          faults,   \* crashes and failed statements so far
          twice     \* ghost: tasks fetched while another copy was in memory

rowVars == <<status, count, owner>>
vars == <<status, count, owner, job, range, attempts, accepted, faults, twice>>

Absent == -1
Statuses == {Absent, 0, 1, 2, 3}

Free == [task |-> None, pc |-> "free", count |-> 0, delay |-> "zero"]
JobPC == {"free", "submit", "timer", "running", "succeeded", "failed"}

Fast(class) == class \in {"zero", "fast"}

\* The rows process n fetches when it believes the processes live to be alive:
\* those of the owners after the previous live one, up to itself or, for the
\* last, without limit.  With no live ordinal from n on, nothing changes.
RangeOf(n, live, old) ==
  LET all   == IF live = {} THEN {n} ELSE live
      above == {m \in all : m >= n}
      self  == Min(above)
      below == {-1} \cup {m \in all : m < self}
  IN IF above = {}
       THEN old
       ELSE {o \in Node : o > Max(below) /\ (o <= self \/ self = Max(all))}

Init ==
  /\ status = [t \in Task |-> Absent]
  /\ count = [t \in Task |-> 0]
  /\ owner = [t \in Task |-> None]
  /\ job = [s \in Slot |-> Free]
  /\ range = [n \in Node |-> RangeOf(n, {n}, {})]
  /\ attempts = [t \in Task |-> 0]
  /\ accepted = {}
  /\ faults = 0
  /\ twice = {}

Copies(t) == {s \in Slot : job[s].task = t}

\* The end of Submit: a timer is armed unless DelayTime is 0.
Scheduled(t, c, d) ==
  IF d = "zero" THEN Free
  ELSE [task |-> t, pc |-> "timer", count |-> c, delay |-> d]

-------------------------------------------------------------------------------
(* Add: a fast task is inserted as running and submitted at once, any other *)
(* is left to the pending cron.                                             *)

AddFast(s, t) ==
  /\ status[t] = Absent
  /\ Fast(Delay[t])
  /\ job[s] = Free
  /\ status' = [status EXCEPT ![t] = 1]
  /\ count' = [count EXCEPT ![t] = 0]
  /\ owner' = [owner EXCEPT ![t] = Home[s]]
  /\ job' = [job EXCEPT ![s] = Scheduled(t, 0, Delay[t])]
  /\ UNCHANGED <<range, attempts, accepted, faults, twice>>

AddSlow(n, t) ==
  /\ status[t] = Absent
  /\ ~Fast(Delay[t])
  /\ status' = [status EXCEPT ![t] = 0]
  /\ count' = [count EXCEPT ![t] = -1]
  /\ owner' = [owner EXCEPT ![t] = n]
  /\ UNCHANGED <<job, range, attempts, accepted, faults, twice>>

-------------------------------------------------------------------------------
(* The pending cron.  SKIP LOCKED skips nothing that matters: outside a     *)
(* transaction the row locks are gone before the first Submit.              *)

Submitting(n, t) ==
  \E s \in Slot : Home[s] = n /\ job[s].task = t /\ job[s].pc = "submit"

\* Mutant: FailCount is not incremented.
FetchPendingNoCount(s, t) ==
  /\ status[t] = 0
  /\ owner[t] \in range[Home[s]]
  /\ job[s] = Free
  /\ CronOverlap \/ ~Submitting(Home[s], t)
  /\ job' = [job EXCEPT ![s] = [task |-> t, pc |-> "submit",
                                count |-> count[t], delay |-> Delay[t]]]
  /\ twice' = IF Copies(t) = {} THEN twice ELSE twice \cup {t}
  /\ UNCHANGED <<rowVars, range, attempts, accepted, faults>>

FetchPending(s, t) ==
  /\ status[t] = 0
  /\ owner[t] \in range[Home[s]]
  /\ job[s] = Free
  /\ CronOverlap \/ ~Submitting(Home[s], t)
  /\ job' = [job EXCEPT ![s] = [task |-> t, pc |-> "submit",
                                count |-> count[t] + 1, delay |-> Delay[t]]]
  /\ twice' = IF Copies(t) = {} THEN twice ELSE twice \cup {t}
  /\ UNCHANGED <<rowVars, range, attempts, accepted, faults>>

\* UPDATE ... SET status=1 WHERE status=0: the timer is armed whether or not
\* a row was affected.
SubmitPending(s) ==
  LET t == job[s].task
  IN /\ job[s].pc = "submit"
     /\ IF status[t] = 0
          THEN /\ status' = [status EXCEPT ![t] = 1]
               /\ count' = [count EXCEPT ![t] = job[s].count]
          ELSE UNCHANGED <<status, count>>
     /\ job' = [job EXCEPT ![s] = Scheduled(t, job[s].count, job[s].delay)]
     /\ UNCHANGED <<owner, range, attempts, accepted, faults, twice>>

-------------------------------------------------------------------------------
(* Execute *)

Fire(s) ==
  /\ job[s].pc = "timer"
  /\ job' = [job EXCEPT ![s].pc = "running"]
  /\ attempts' = [attempts EXCEPT ![job[s].task] = @ + 1]
  /\ UNCHANGED <<rowVars, range, accepted, faults, twice>>

\* adapter.Request returns SUCCESS, or anything else: an error, a timeout, an
\* unknown schema, another body.
Respond(s) ==
  /\ job[s].pc = "running"
  /\ \/ /\ job' = [job EXCEPT ![s].pc = "succeeded"]
        /\ accepted' = accepted \cup {job[s].task}
     \/ /\ job' = [job EXCEPT ![s].pc = "failed"]
        /\ UNCHANGED accepted
  /\ UNCHANGED <<rowVars, range, attempts, faults, twice>>

\* Mutant: what follows a success is the handling of a failure.
SuccessThenFailure(s) ==
  LET t == job[s].task
  IN /\ job[s].pc = "succeeded"
     /\ status' = IF status[t] = 1 THEN [status EXCEPT ![t] = 2] ELSE status
     /\ job' = [job EXCEPT ![s].pc = "failed"]
     /\ UNCHANGED <<count, owner, range, attempts, accepted, faults, twice>>

Success(s) ==
  LET t == job[s].task
  IN /\ job[s].pc = "succeeded"
     /\ status' = IF status[t] = 1 THEN [status EXCEPT ![t] = 2] ELSE status
     /\ job' = [job EXCEPT ![s] = Free]
     /\ UNCHANGED <<count, owner, range, attempts, accepted, faults, twice>>

\* A failed attempt with another to come soon: Submit(ctx, task, 1).
RetryFast(s) ==
  LET t == job[s].task
      c == job[s].count
  IN /\ job[s].pc = "failed"
     /\ c < Len(Backoff[t])
     /\ Fast(Backoff[t][c + 1])
     /\ count' = IF status[t] = 1 THEN [count EXCEPT ![t] = c + 1] ELSE count
     /\ job' = [job EXCEPT ![s] = Scheduled(t, c + 1, Backoff[t][c + 1])]
     /\ UNCHANGED <<status, owner, range, attempts, accepted, faults, twice>>

\* Mutants: the row stays marked as running; the count is raised twice; the
\* row is taken back whatever its status is.
RetrySlowMarked(s) ==
  LET t == job[s].task
      c == job[s].count
  IN /\ job[s].pc = "failed"
     /\ c < Len(Backoff[t])
     /\ ~Fast(Backoff[t][c + 1])
     /\ count' = IF status[t] = 1 THEN [count EXCEPT ![t] = c] ELSE count
     /\ job' = [job EXCEPT ![s] = Free]
     /\ UNCHANGED <<status, owner, range, attempts, accepted, faults, twice>>
RetrySlowTwice(s) ==
  LET t == job[s].task
      c == job[s].count
  IN /\ job[s].pc = "failed"
     /\ c < Len(Backoff[t])
     /\ ~Fast(Backoff[t][c + 1])
     /\ IF status[t] = 1
          THEN /\ status' = [status EXCEPT ![t] = 0]
               /\ count' = [count EXCEPT ![t] = c + 1]
          ELSE UNCHANGED <<status, count>>
     /\ job' = [job EXCEPT ![s] = Free]
     /\ UNCHANGED <<owner, range, attempts, accepted, faults, twice>>
RetrySlowAlways(s) ==
  LET t == job[s].task
      c == job[s].count
  IN /\ job[s].pc = "failed"
     /\ c < Len(Backoff[t])
     /\ ~Fast(Backoff[t][c + 1])
     /\ status' = [status EXCEPT ![t] = 0]
     /\ count' = [count EXCEPT ![t] = c]
     /\ job' = [job EXCEPT ![s] = Free]
     /\ UNCHANGED <<owner, range, attempts, accepted, faults, twice>>

\* A failed attempt with another to come later: back to the pending cron.
RetrySlow(s) ==
  LET t == job[s].task
      c == job[s].count
  IN /\ job[s].pc = "failed"
     /\ c < Len(Backoff[t])
     /\ ~Fast(Backoff[t][c + 1])
     /\ IF status[t] = 1
          THEN /\ status' = [status EXCEPT ![t] = 0]
               /\ count' = [count EXCEPT ![t] = c]
          ELSE UNCHANGED <<status, count>>
     /\ job' = [job EXCEPT ![s] = Free]
     /\ UNCHANGED <<owner, range, attempts, accepted, faults, twice>>

\* Mutant: the last retry is never made.
GiveUpEarly(s) ==
  LET t == job[s].task
  IN /\ job[s].pc = "failed"
     /\ job[s].count + 1 >= Len(Backoff[t])
     /\ status' = [status EXCEPT ![t] = 3]
     /\ job' = [job EXCEPT ![s] = Free]
     /\ UNCHANGED <<count, owner, range, attempts, accepted, faults, twice>>

\* The last attempt failed: UPDATE ... SET status=3, whatever the status is.
GiveUp(s) ==
  LET t == job[s].task
  IN /\ job[s].pc = "failed"
     /\ job[s].count >= Len(Backoff[t])
     /\ status' = [status EXCEPT ![t] = 3]
     /\ job' = [job EXCEPT ![s] = Free]
     /\ UNCHANGED <<count, owner, range, attempts, accepted, faults, twice>>

-------------------------------------------------------------------------------
(* Faults and membership. *)

\* A statement on behalf of a copy fails: the error is collected, the copy
\* forgotten.
StatementFails(s) ==
  /\ faults < MaxFaults
  /\ job[s].pc \in {"submit", "succeeded", "failed"}
  /\ job' = [job EXCEPT ![s] = Free]
  /\ faults' = faults + 1
  /\ UNCHANGED <<rowVars, range, attempts, accepted, twice>>

\* A process stops or crashes, and starts again as New and Start leave it: the
\* copies it held are gone, the rows are not.
Restart(n) ==
  /\ faults < MaxFaults
  /\ job' = [s \in Slot |-> IF Home[s] = n THEN Free ELSE job[s]]
  /\ range' = [range EXCEPT ![n] = RangeOf(n, {n}, {})]
  /\ faults' = faults + 1
  /\ UNCHANGED <<rowVars, attempts, accepted, twice>>

\* The watch or the cron of provider_set.go has a new view of who is alive.
SetNodes(n, live) ==
  /\ range' = [range EXCEPT ![n] = RangeOf(n, live, range[n])]
  /\ UNCHANGED <<rowVars, job, attempts, accepted, faults, twice>>

-------------------------------------------------------------------------------
JobStep(s) ==
  \/ SubmitPending(s) \/ Fire(s) \/ Respond(s) \/ Success(s)
  \/ RetryFast(s) \/ RetrySlow(s) \/ GiveUp(s)

Next ==
  \/ \E s \in Slot, t \in Task : AddFast(s, t) \/ FetchPending(s, t)
  \/ \E n \in Node, t \in Task : AddSlow(n, t)
  \/ \E s \in Slot : JobStep(s) \/ StatementFails(s)
  \/ \E n \in Node : Restart(n)
  \/ \E n \in Node, live \in SUBSET Node : SetNodes(n, live)

\* A process runs what it holds, the callback answers within the deadline of
\* its context, and the cron comes back to a row that stays pending.
Fairness ==
  /\ \A s \in Slot : WF_vars(JobStep(s))
  /\ \A t \in Task : SF_vars(\E s \in Slot : FetchPending(s, t))

Spec == Init /\ [][Next]_vars /\ Fairness

-------------------------------------------------------------------------------
(* Properties *)

Attempts(t) == Len(Backoff[t]) + 1

\* Every variable keeps its type.
TypeOK ==
  /\ status \in [Task -> Statuses]
  /\ count \in [Task -> Int]
  /\ owner \in [Task -> Node \cup {None}]
  /\ job \in [Slot -> [task : Task \cup {None}, pc : JobPC, count : Nat,
                       delay : Class]]
  /\ range \in [Node -> SUBSET Node]
  /\ attempts \in [Task -> Nat]
  /\ accepted \subseteq Task
  /\ faults \in 0 .. MaxFaults
  /\ twice \subseteq Task

\* GetDelayTime (storage.go:404-410) indexes Backoff by FailCount - 1 for
\* every copy that is submitted, executed, or stored: the index exists, also
\* for counts read back from a row that other copies have written.
CountInRange ==
  \A s \in Slot : job[s] # Free => job[s].count \in 0 .. Len(Backoff[job[s].task])

\* A row that is finished, succeeded or failed, is never run again, and a
\* failed one never becomes a success, whatever late copies of it still do.
FinishedIsFinal ==
  [][\A t \in Task :
       /\ status[t] \in {2, 3} => status'[t] \in {2, 3}
       /\ status[t] = 3 => status'[t] = 3]_vars

\* A task is given up only after all its attempts, none of which succeeded,
\* and is never called back more often than that, as long as its row was never
\* fetched while an earlier copy of it was in memory, whatever happens to the
\* copies of other rows.
GivesUpAfterAllAttempts ==
  \A t \in Task \ twice :
    /\ attempts[t] <= Attempts(t)
    /\ status[t] = 3 => attempts[t] = Attempts(t) /\ t \notin accepted

\* A stored success stays one, and the row is not run again, as long as it was
\* never fetched while an earlier copy of it was in memory.
SuccessIsKept ==
  [][\A t \in Task : status[t] = 2 /\ t \notin twice' => status'[t] = 2]_vars

\* "SUCCESS in the body means success" (README.md:67): once stored, it stays.
\* Copies of one row in two processes break it: see the run store_success.
SuccessIsFinal == [][\A t \in Task : status[t] = 2 => status'[t] = 2]_vars

\* Every registered task ends, as a success or a failure, unless a process or
\* a statement failed.  It needs delays above 0: a row with a delay of 0 stays
\* running (storage.go:483), as does, since the timeout cron is commented out
\* (storage.go:156-181), every row whose process has stopped.  Copies that lower
\* the count of a row they have fetched before only put the end off.
Terminates ==
  \A t \in Task : status[t] # Absent ~> (status[t] \in {2, 3} \/ faults > 0)
=============================================================================
