---------------------------- MODULE TaskStoreProofs ----------------------------
(***************************************************************************)
(* Theorems about TaskStore, for any tasks, delays, processes, views and    *)
(* number of faults.  Fairness plays no part in them.                        *)
(***************************************************************************)
EXTENDS TaskStore, WellFoundedInduction, TLAPS

Retries(t) == Len(Backoff[t])
Job == [task : Task \cup {None}, pc : JobPC, count : Nat, delay : Class]

\* A copy whose next index into Backoff exists.
Copy(j) == /\ j \in Job
           /\ j.task \in Task
           /\ j.pc # "free"
           /\ j.count <= Retries(j.task)

\* A pending row is one the cron may load: one attempt more than it says is in
\* range as well.
Loadable(t) == status[t] = 0 => count[t] \in -1 .. Retries(t) - 1

Counts == /\ \A s \in Slot : job[s] = Free \/ Copy(job[s])
          /\ \A t \in Task : Loadable(t)

CountInv == TypeOK /\ Counts

\* The pieces of data have their types, and None is not a task.
LEMMA Data ==
  /\ None \notin Task
  /\ \A s \in Slot : Home[s] \in Node
  /\ \A t \in Task : /\ Retries(t) \in Nat
                     /\ Delay[t] \in Class
                     /\ \A i \in 1 .. Retries(t) : Backoff[t][i] \in Class
BY TaskAssumption, NodeAssumption DEF Retries

\* A free slot is a job without a task, and no copy.
LEMMA FreeFacts ==
  /\ Free \in Job /\ Free.pc = "free" /\ Free.task = None /\ Free.count = 0
  /\ ~Copy(Free)
BY DEF Free, Job, JobPC, Class, Copy

\* A slot with a task has a copy.
LEMMA TaskIsCopy ==
  ASSUME Counts, NEW s \in Slot,
         job[s].task \in Task \/ job[s].pc # "free" \/ job[s] # Free
  PROVE  Copy(job[s])
BY Data, FreeFacts DEF Counts

\* What one slot is given keeps all slots in order.
LEMMA SlotSet ==
  ASSUME TypeOK, Counts, NEW s \in Slot, NEW j,
         job' = [job EXCEPT ![s] = j], j = Free \/ Copy(j)
  PROVE  /\ job' \in [Slot -> Job]
         /\ \A r \in Slot : job'[r] = Free \/ Copy(job'[r])
<1>1. j \in Job
  BY FreeFacts DEF Copy
<1>2. job \in [Slot -> Job]
  BY DEF TypeOK, Job
<1>3. \A r \in Slot : job'[r] = IF r = s THEN j ELSE job[r]
  BY <1>2
<1>4. \A r \in Slot : job'[r] = Free \/ Copy(job'[r])
  BY <1>3 DEF Counts
<1> QED BY <1>1, <1>2, <1>4

\* A timer that Submit arms, or does not for a delay of 0.
LEMMA ScheduledIsCopy ==
  ASSUME NEW t \in Task, NEW c \in 0 .. Retries(t), NEW d \in Class
  PROVE  /\ Scheduled(t, c, d) = Free \/ Copy(Scheduled(t, c, d))
         /\ Scheduled(t, c, d).task \in {t, None}
<1>1. CASE d = "zero"
  BY <1>1, FreeFacts DEF Scheduled
<1>2. CASE d # "zero"
  BY <1>2, Data DEF Scheduled, Copy, Job, JobPC, Class
<1> QED BY <1>1, <1>2

\* SetNodes gives a range of processes.
LEMMA RangeType ==
  ASSUME NEW n \in Node, NEW live, NEW old \in SUBSET Node
  PROVE  RangeOf(n, live, old) \in SUBSET Node
BY DEF RangeOf

LEMMA Initially == Init => CountInv
<1> SUFFICES ASSUME Init PROVE CountInv
  OBVIOUS
<1>1. job \in [Slot -> Job] /\ \A s \in Slot : job[s] = Free
  BY FreeFacts DEF Init
<1>2. range \in [Node -> SUBSET Node]
  BY RangeType DEF Init
<1>3. TypeOK
  BY <1>1, <1>2, BoundAssumption DEF Init, TypeOK, Job, Statuses, Absent
<1>4. Counts
  BY <1>1 DEF Init, Counts, Loadable, Absent
<1> QED BY <1>3, <1>4 DEF CountInv

\* The rows of a step that leaves status and count alone stay loadable.
LEMMA RowsKept ==
  ASSUME Counts, UNCHANGED <<status, count>>
  PROVE  \A t \in Task : Loadable(t)'
BY DEF Counts, Loadable

\* A step of one copy keeps types and counts.
LEMMA JobStepKeeps ==
  ASSUME CountInv, NEW s \in Slot, JobStep(s)
  PROVE  CountInv'
<1> DEFINE t == job[s].task
           c == job[s].count
<1>a. TypeOK /\ Counts
  BY DEF CountInv
<1>b. Copy(job[s])
  <2>1. job[s].pc # "free"
    BY DEF JobStep, SubmitPending, Fire, Respond, Success, RetryFast, RetrySlow, GiveUp
  <2> QED BY <1>a, <2>1, TaskIsCopy
<1>c. /\ t \in Task /\ c \in 0 .. Retries(t) /\ job[s].delay \in Class
      /\ Retries(t) \in Nat
  BY <1>b, Data DEF Copy, Job
<1>1. CASE SubmitPending(s)
  <2> DEFINE j == Scheduled(t, c, job[s].delay)
  <2>1. /\ job' \in [Slot -> Job]
        /\ \A r \in Slot : job'[r] = Free \/ Copy(job'[r])
    BY <1>1, <1>a, <1>c, SlotSet, ScheduledIsCopy DEF SubmitPending
  <2>2. TypeOK'
    BY <1>1, <1>a, <1>c, <2>1 DEF SubmitPending, TypeOK, Job, Statuses, Absent
  <2>3. \A u \in Task : Loadable(u)'
    BY <1>1, <1>a, <1>c DEF SubmitPending, Counts, Loadable, TypeOK
  <2> QED BY <2>1, <2>2, <2>3 DEF CountInv, Counts
<1>2. CASE Fire(s)
  <2>1. Copy([job[s] EXCEPT !.pc = "running"])
    BY <1>b DEF Copy, Job, JobPC
  <2>2. job' = [job EXCEPT ![s] = [job[s] EXCEPT !.pc = "running"]]
    BY <1>2 DEF Fire
  <2>3. /\ job' \in [Slot -> Job]
        /\ \A r \in Slot : job'[r] = Free \/ Copy(job'[r])
    BY <1>a, <2>1, <2>2, SlotSet
  <2>4. TypeOK'
    BY <1>2, <1>a, <1>c, <2>3 DEF Fire, TypeOK, Job, rowVars
  <2> QED BY <1>2, <1>a, <2>3, <2>4, RowsKept DEF Fire, CountInv, Counts, rowVars
<1>3. CASE Respond(s)
  <2>1. PICK p \in {"succeeded", "failed"} :
          job' = [job EXCEPT ![s] = [job[s] EXCEPT !.pc = p]]
    BY <1>3 DEF Respond
  <2>2. Copy([job[s] EXCEPT !.pc = p])
    BY <1>b DEF Copy, Job, JobPC
  <2>3. /\ job' \in [Slot -> Job]
        /\ \A r \in Slot : job'[r] = Free \/ Copy(job'[r])
    BY <1>a, <2>1, <2>2, SlotSet
  <2>4. TypeOK'
    BY <1>3, <1>a, <1>c, <2>3 DEF Respond, TypeOK, Job, rowVars
  <2> QED BY <1>3, <1>a, <2>3, <2>4, RowsKept DEF Respond, CountInv, Counts, rowVars
<1>4. CASE Success(s)
  <2>1. /\ job' \in [Slot -> Job]
        /\ \A r \in Slot : job'[r] = Free \/ Copy(job'[r])
    BY <1>4, <1>a, SlotSet DEF Success
  <2>2. TypeOK'
    BY <1>4, <1>a, <2>1 DEF Success, TypeOK, Job, Statuses, Absent
  <2>3. \A u \in Task : Loadable(u)'
    BY <1>4, <1>a DEF Success, Counts, Loadable, TypeOK
  <2> QED BY <2>1, <2>2, <2>3 DEF CountInv, Counts
<1>5. CASE RetryFast(s)
  <2>1. c + 1 \in 1 .. Retries(t)
    BY <1>5, <1>c DEF RetryFast, Retries
  <2>2. Backoff[t][c + 1] \in Class
    BY <1>c, <2>1, Data
  <2>3. /\ job' \in [Slot -> Job]
        /\ \A r \in Slot : job'[r] = Free \/ Copy(job'[r])
    <3> DEFINE j == Scheduled(t, c + 1, Backoff[t][c + 1])
    <3>1. j = Free \/ Copy(j)
      BY <1>c, <2>1, <2>2, ScheduledIsCopy
    <3>2. job' = [job EXCEPT ![s] = j]
      BY <1>5 DEF RetryFast
    <3> QED BY <1>a, <3>1, <3>2, SlotSet
  <2>4. TypeOK'
    BY <1>5, <1>a, <1>c, <2>3 DEF RetryFast, TypeOK, Job
  <2>5. \A u \in Task : Loadable(u)'
    BY <1>5, <1>a, <1>c DEF RetryFast, Counts, Loadable, TypeOK
  <2> QED BY <2>3, <2>4, <2>5 DEF CountInv, Counts
<1>6. CASE RetrySlow(s)
  <2>1. /\ job' \in [Slot -> Job]
        /\ \A r \in Slot : job'[r] = Free \/ Copy(job'[r])
    BY <1>6, <1>a, SlotSet DEF RetrySlow
  <2>2. TypeOK'
    <3>1. \/ status' = [status EXCEPT ![t] = 0] /\ count' = [count EXCEPT ![t] = c]
          \/ status' = status /\ count' = count
      BY <1>6 DEF RetrySlow
    <3>2. status' \in [Task -> Statuses]
      BY <1>a, <3>1 DEF TypeOK, Statuses
    <3>3. count' \in [Task -> Int]
      BY <1>a, <1>c, <3>1 DEF TypeOK
    <3> QED BY <1>6, <1>a, <2>1, <3>2, <3>3 DEF RetrySlow, TypeOK, Job
  <2>3. \A u \in Task : Loadable(u)'
    <3>1. \/ status' = [status EXCEPT ![t] = 0] /\ count' = [count EXCEPT ![t] = c]
          \/ status' = status /\ count' = count
      BY <1>6 DEF RetrySlow
    <3>2. c \in -1 .. Retries(t) - 1
      BY <1>6, <1>c DEF RetrySlow, Retries
    <3> HIDE DEF t, c
    <3> QED BY <1>a, <3>1, <3>2 DEF Counts, Loadable, TypeOK
  <2> QED BY <2>1, <2>2, <2>3 DEF CountInv, Counts
<1>7. CASE GiveUp(s)
  <2>1. /\ job' \in [Slot -> Job]
        /\ \A r \in Slot : job'[r] = Free \/ Copy(job'[r])
    BY <1>7, <1>a, SlotSet DEF GiveUp
  <2>2. TypeOK'
    BY <1>7, <1>a, <2>1 DEF GiveUp, TypeOK, Job, Statuses, Absent
  <2>3. \A u \in Task : Loadable(u)'
    BY <1>7, <1>a DEF GiveUp, Counts, Loadable, TypeOK
  <2> QED BY <2>1, <2>2, <2>3 DEF CountInv, Counts
<1> QED BY <1>1, <1>2, <1>3, <1>4, <1>5, <1>6, <1>7 DEF JobStep

LEMMA Preserved == CountInv /\ [Next]_vars => CountInv'
<1> SUFFICES ASSUME CountInv, [Next]_vars PROVE CountInv'
  OBVIOUS
<1>a. TypeOK /\ Counts
  BY DEF CountInv
<1>1. ASSUME NEW s \in Slot, NEW t \in Task, AddFast(s, t) PROVE CountInv'
  <2>1. 0 \in 0 .. Retries(t) /\ Delay[t] \in Class /\ Home[s] \in Node
    BY Data
  <2>2. /\ job' \in [Slot -> Job]
        /\ \A r \in Slot : job'[r] = Free \/ Copy(job'[r])
    <3> DEFINE j == Scheduled(t, 0, Delay[t])
    <3>1. j = Free \/ Copy(j)
      BY <2>1, ScheduledIsCopy
    <3>2. job' = [job EXCEPT ![s] = j]
      BY <1>1 DEF AddFast
    <3> QED BY <1>a, <3>1, <3>2, SlotSet
  <2>3. TypeOK'
    BY <1>1, <1>a, <2>1, <2>2 DEF AddFast, TypeOK, Job, Statuses, Absent
  <2>4. \A u \in Task : Loadable(u)'
    BY <1>1, <1>a DEF AddFast, Counts, Loadable, TypeOK
  <2> QED BY <2>2, <2>3, <2>4 DEF CountInv, Counts
<1>2. ASSUME NEW n \in Node, NEW t \in Task, AddSlow(n, t) PROVE CountInv'
  <2>1. TypeOK'
    BY <1>2, <1>a DEF AddSlow, TypeOK, Statuses, Absent
  <2>2. \A u \in Task : Loadable(u)'
    BY <1>2, <1>a, Data DEF AddSlow, Counts, Loadable, TypeOK
  <2> QED BY <1>2, <1>a, <2>1, <2>2 DEF AddSlow, CountInv, Counts
<1>3. ASSUME NEW s \in Slot, NEW t \in Task, FetchPending(s, t) PROVE CountInv'
  <2> DEFINE j == [task |-> t, pc |-> "submit", count |-> count[t] + 1, delay |-> Delay[t]]
  <2>1. count[t] \in -1 .. Retries(t) - 1
    BY <1>3, <1>a DEF FetchPending, Counts, Loadable
  <2>2. Copy(j)
    BY <2>1, Data DEF Copy, Job, JobPC
  <2>3. job' = [job EXCEPT ![s] = j]
    BY <1>3 DEF FetchPending
  <2>4. /\ job' \in [Slot -> Job]
        /\ \A r \in Slot : job'[r] = Free \/ Copy(job'[r])
    BY <1>a, <2>2, <2>3, SlotSet
  <2>5. TypeOK'
    BY <1>3, <1>a, <2>4 DEF FetchPending, TypeOK, Job, rowVars
  <2> QED BY <1>3, <1>a, <2>4, <2>5, RowsKept DEF FetchPending, CountInv, Counts, rowVars
<1>4. ASSUME NEW s \in Slot, StatementFails(s) PROVE CountInv'
  <2>1. /\ job' \in [Slot -> Job]
        /\ \A r \in Slot : job'[r] = Free \/ Copy(job'[r])
    BY <1>4, <1>a, SlotSet DEF StatementFails
  <2>2. faults' \in 0 .. MaxFaults
    BY <1>4, <1>a, BoundAssumption DEF StatementFails, TypeOK
  <2>3. TypeOK'
    BY <1>4, <1>a, <2>1, <2>2 DEF StatementFails, TypeOK, Job, rowVars
  <2> QED BY <1>4, <1>a, <2>1, <2>3, RowsKept DEF StatementFails, CountInv, Counts, rowVars
<1>5. ASSUME NEW n \in Node, Restart(n) PROVE CountInv'
  <2>1. \A r \in Slot : job'[r] = Free \/ job'[r] = job[r]
    BY <1>5 DEF Restart
  <2>2. /\ job' \in [Slot -> Job]
        /\ \A r \in Slot : job'[r] = Free \/ Copy(job'[r])
    BY <1>5, <1>a, <2>1, FreeFacts DEF Restart, Counts, TypeOK, Job
  <2>3. faults' \in 0 .. MaxFaults
    BY <1>5, <1>a, BoundAssumption DEF Restart, TypeOK
  <2>4. range' \in [Node -> SUBSET Node]
    BY <1>5, <1>a, RangeType DEF Restart, TypeOK
  <2>5. TypeOK'
    BY <1>5, <1>a, <2>2, <2>3, <2>4 DEF Restart, TypeOK, Job, rowVars
  <2> QED BY <1>5, <1>a, <2>2, <2>5, RowsKept DEF Restart, CountInv, Counts, rowVars
<1>6. ASSUME NEW n \in Node, NEW live \in SUBSET Node, SetNodes(n, live) PROVE CountInv'
  <2>1. range' \in [Node -> SUBSET Node]
    BY <1>6, <1>a, RangeType DEF SetNodes, TypeOK
  <2>2. TypeOK'
    BY <1>6, <1>a, <2>1 DEF SetNodes, TypeOK, rowVars
  <2> QED BY <1>6, <1>a, <2>2, RowsKept DEF SetNodes, CountInv, Counts, rowVars
<1>7. CASE UNCHANGED vars
  BY <1>7, <1>a DEF vars, rowVars, CountInv, TypeOK, Counts, Loadable
<1> QED BY <1>1, <1>2, <1>3, <1>4, <1>5, <1>6, <1>7, JobStepKeeps DEF Next

\* Every variable has its type in every behaviour.
THEOREM TypeCorrect == Spec => []TypeOK
<1>1. CountInv => TypeOK
  BY DEF CountInv
<1> QED BY <1>1, Initially, Preserved, PTL DEF Spec

\* No copy of a row, however stale, has a count that GetDelayTime cannot use as
\* an index: also with several processes and overlapping runs of the cron.
THEOREM CountStaysInRange == Spec => []CountInRange
<1>1. CountInv => CountInRange
  BY Data DEF CountInv, Counts, CountInRange, Copy, Job, Retries
<1> QED BY <1>1, Initially, Preserved, PTL DEF Spec

-------------------------------------------------------------------------------
\* A finished row stays finished, a failed one stays failed.
Final == \A t \in Task : /\ status[t] \in {2, 3} => status'[t] \in {2, 3}
                         /\ status[t] = 3 => status'[t] = 3

LEMMA JobStepFinal ==
  ASSUME TypeOK, NEW s \in Slot, JobStep(s)
  PROVE  Final
<1> DEFINE t == job[s].task
<1>1. \/ status' = status
      \/ status[t] \in {0, 1} /\ \E x : status' = [status EXCEPT ![t] = x]
      \/ status' = [status EXCEPT ![t] = 3]
  BY DEF JobStep, SubmitPending, Fire, Respond, Success, RetryFast, RetrySlow, GiveUp,
         rowVars
<1> QED BY <1>1 DEF Final, TypeOK

\* A row that has ended, as a success or a failure, never runs again, and a
\* failure is never turned into a success, by any number of stale copies.
THEOREM FinishedStays == Spec => FinishedIsFinal
<1>1. TypeOK /\ [Next]_vars => [Final]_vars
  <2> SUFFICES ASSUME TypeOK, Next PROVE Final
    OBVIOUS
  <2>1. ASSUME NEW s \in Slot, NEW t \in Task, AddFast(s, t) PROVE Final
    BY <2>1 DEF AddFast, Absent, Final, TypeOK
  <2>2. ASSUME NEW n \in Node, NEW t \in Task, AddSlow(n, t) PROVE Final
    BY <2>2 DEF AddSlow, Absent, Final, TypeOK
  <2>3. CASE UNCHANGED status
    BY <2>3 DEF Final
  <2> QED BY <2>1, <2>2, <2>3, JobStepFinal
          DEF Next, FetchPending, StatementFails, Restart, SetNodes, rowVars
<1> QED BY <1>1, TypeCorrect, PTL DEF Spec, FinishedIsFinal, Final

-------------------------------------------------------------------------------
(* Rows that were never fetched while another copy of them was in memory.     *)

\* There is one copy of a row at most, and where it is tells how often the task
\* has been called back.
Only(t) == \A r, s \in Slot : job[r].task = t /\ job[s].task = t => r = s

\* What a copy knows: a callback is counted when it is made, a success recorded
\* until it is stored.
Knows(t, s) ==
  LET made == job[s].count + IF job[s].pc \in {"submit", "timer"} THEN 0 ELSE 1
  IN /\ attempts[t] = made
     /\ t \in accepted => job[s].pc = "succeeded"
     /\ job[s].pc = "submit" <=> status[t] = 0

Solo(t) ==
  /\ Only(t)
  /\ \A s \in Slot : job[s].task = t => status[t] \in {0, 1} /\ Knows(t, s)
  /\ attempts[t] \in 0 .. Retries(t) + 1
  /\ status[t] = Absent => attempts[t] = 0 /\ t \notin accepted
  /\ status[t] = 0 => attempts[t] = count[t] + 1 /\ t \notin accepted
  /\ status[t] = 3 => attempts[t] = Retries(t) + 1 /\ t \notin accepted

\* What holds of every row that was never fetched a second time too early; one
\* that was has been registered.
SoloInv == /\ CountInv
           /\ \A t \in Task \ twice : Solo(t)
           /\ \A t \in twice : status[t] # Absent

\* A task whose row, record and copies a step leaves alone (or forgets).
LEMMA Untouched ==
  ASSUME NEW u \in Task, Solo(u),
         status'[u] = status[u], count'[u] = count[u], attempts'[u] = attempts[u],
         u \in accepted' <=> u \in accepted,
         \A r \in Slot : job'[r].task = u => job'[r] = job[r]
  PROVE  Solo(u)'
<1>1. Only(u)'
  BY DEF Solo, Only
<1>2. \A s \in Slot : job'[s].task = u => status'[u] \in {0, 1} /\ Knows(u, s)'
  BY DEF Solo, Knows
<1> QED BY <1>1, <1>2 DEF Solo

\* A step that works on one slot, for one task.
LEMMA Elsewhere ==
  ASSUME CountInv, NEW s \in Slot, NEW t \in Task, NEW j,
         job' = [job EXCEPT ![s] = j], j.task \in {t, None}, job[s].task \in {t, None}
  PROVE  \A u \in Task \ {t} : \A r \in Slot : job'[r].task = u => job'[r] = job[r]
<1>1. \A r \in Slot : job'[r] = IF r = s THEN j ELSE job[r]
  BY DEF CountInv, TypeOK
<1> QED BY <1>1, Data

\* A task that the step leaves without a copy.
LEMMA NoCopyLeft ==
  ASSUME CountInv, NEW s \in Slot, NEW t \in Task, Only(t), job[s].task = t,
         job' = [job EXCEPT ![s] = Free]
  PROVE  \A r \in Slot : job'[r].task # t
<1>1. \A r \in Slot : job'[r] = IF r = s THEN Free ELSE job[r]
  BY DEF CountInv, TypeOK
<1> QED BY <1>1, Data, FreeFacts DEF Only

\* A task whose one copy the step changes.
LEMMA CopyLeft ==
  ASSUME CountInv, NEW s \in Slot, NEW t \in Task, NEW j,
         \A r \in Slot : job[r].task = t => r = s,
         job' = [job EXCEPT ![s] = j]
  PROVE  /\ job'[s] = j
         /\ \A r \in Slot : job'[r].task = t => r = s
         /\ Only(t)'
<1>1. \A r \in Slot : job'[r] = IF r = s THEN j ELSE job[r]
  BY DEF CountInv, TypeOK
<1> QED BY <1>1 DEF Only

LEMMA SoloInitially == Init => SoloInv
<1> SUFFICES ASSUME Init, NEW t \in Task PROVE Solo(t)
  BY Initially DEF SoloInv, Init
<1>1. \A s \in Slot : job[s].task # t
  BY Data, FreeFacts DEF Init
<1> QED BY <1>1, Data DEF Init, Solo, Only, Absent

\* A step of one copy changes that copy, and the row of its task.
LEMMA OthersOfCopy ==
  ASSUME SoloInv, NEW s \in Slot, JobStep(s), Copy(job[s])
  PROVE  /\ twice' = twice
         /\ \A u \in Task : status[u] # Absent => status'[u] # Absent
         /\ \A u \in Task \ twice : u # job[s].task => Solo(u)'
<1> DEFINE t == job[s].task
           c == job[s].count
<1>a. CountInv /\ TypeOK /\ \A u \in Task \ twice : Solo(u)
  BY DEF SoloInv, CountInv
<1>b. /\ t \in Task /\ c \in 0 .. Retries(t) /\ job[s].delay \in Class
      /\ Retries(t) \in Nat /\ job[s] \in Job
  BY Data DEF Copy, Job
<1>1. ASSUME NEW j, job' = [job EXCEPT ![s] = j], j.task \in {t, None},
             \A u \in Task \ {t} : /\ status'[u] = status[u] /\ count'[u] = count[u]
                                   /\ attempts'[u] = attempts[u]
                                   /\ u \in accepted' <=> u \in accepted
      PROVE  \A u \in Task \ twice : u # t => Solo(u)'
  <2>1. \A u \in Task \ {t} : \A r \in Slot : job'[r].task = u => job'[r] = job[r]
    BY <1>a, <1>b, <1>1, Elsewhere
  <2> QED BY <1>a, <1>1, <2>1, Untouched
<1>2. /\ twice' = twice
      /\ \/ status' = status
         \/ \E x \in {0, 1, 2, 3} : status' = [status EXCEPT ![t] = x]
  BY DEF JobStep, SubmitPending, Fire, Respond, Success, RetryFast, RetrySlow, GiveUp,
         rowVars
<1>3. /\ count' = count \/ \E x : count' = [count EXCEPT ![t] = x]
      /\ attempts' = attempts \/ \E x : attempts' = [attempts EXCEPT ![t] = x]
      /\ accepted' = accepted \/ accepted' = accepted \cup {t}
  BY DEF JobStep, SubmitPending, Fire, Respond, Success, RetryFast, RetrySlow, GiveUp,
         rowVars
<1>4. \E j : job' = [job EXCEPT ![s] = j] /\ j.task \in {t, None}
  <2>1. CASE Fire(s) \/ Respond(s)
    <3>1. \E x \in {"running", "succeeded", "failed"} :
            job' = [job EXCEPT ![s] = [job[s] EXCEPT !.pc = x]]
      BY <2>1 DEF Fire, Respond
    <3>2. \A x : [job[s] EXCEPT !.pc = x].task = t
      BY <1>b DEF Job
    <3> QED BY <3>1, <3>2
  <2>2. \A d : Scheduled(t, c, d).task \in {t, None} /\ Scheduled(t, c + 1, d).task \in {t, None}
    BY FreeFacts DEF Scheduled
  <2>3. CASE SubmitPending(s) \/ Success(s) \/ RetryFast(s) \/ RetrySlow(s) \/ GiveUp(s)
    BY <2>2, <2>3, FreeFacts DEF SubmitPending, Success, RetryFast, RetrySlow, GiveUp
  <2> QED BY <2>1, <2>3 DEF JobStep
<1>5. \A u \in Task \ {t} : /\ status'[u] = status[u] /\ count'[u] = count[u]
                            /\ attempts'[u] = attempts[u]
                            /\ u \in accepted' <=> u \in accepted
  BY <1>a, <1>2, <1>3 DEF TypeOK
<1>6. \A u \in Task : status[u] # Absent => status'[u] # Absent
  BY <1>a, <1>2 DEF TypeOK, Absent
<1> QED BY <1>1, <1>2, <1>4, <1>5, <1>6

\* A step of the one copy of a task: that task, then all others.
LEMMA SoloOfCopy ==
  ASSUME SoloInv, NEW s \in Slot, JobStep(s), Copy(job[s]),
         NEW t \in Task \ twice, t = job[s].task, NEW c \in Nat, c = job[s].count
  PROVE  \A u \in Task \ twice : Solo(u)'
<1>a. CountInv /\ TypeOK /\ Counts /\ \A u \in Task \ twice : Solo(u)
  BY DEF SoloInv, CountInv
<1>c. /\ t \in Task \ twice /\ c \in 0 .. Retries(t) /\ job[s].delay \in Class
      /\ Retries(t) \in Nat /\ job[s].task = t /\ job[s].count = c
      /\ job[s] \in Job
  BY Data DEF Copy, Job
<1>d. /\ Only(t) /\ status[t] \in {0, 1} /\ Knows(t, s)
      /\ attempts[t] \in 0 .. Retries(t) + 1
      /\ \A r \in Slot : job[r].task = t => r = s
  BY <1>a, <1>c DEF Solo, Only
<1>e. ASSUME NEW j, job' = [job EXCEPT ![s] = j], j.task \in {t, None},
             \A u \in Task \ {t} : /\ status'[u] = status[u] /\ count'[u] = count[u]
                                   /\ attempts'[u] = attempts[u]
                                   /\ u \in accepted' <=> u \in accepted
      PROVE  \A u \in Task \ twice : u # t => Solo(u)'
  <2>1. \A u \in Task \ {t} : \A r \in Slot : job'[r].task = u => job'[r] = job[r]
    BY <1>a, <1>c, <1>e, Elsewhere
  <2> QED BY <1>a, <1>e, <2>1, Untouched
<1>f. ASSUME job' = [job EXCEPT ![s] = Free],
             attempts'[t] \in 0 .. Retries(t) + 1,
             status'[t] # Absent,
             status'[t] = 0 => attempts'[t] = count'[t] + 1 /\ t \notin accepted',
             status'[t] = 3 => attempts'[t] = Retries(t) + 1 /\ t \notin accepted'
      PROVE  Solo(t)'
  <2>1. \A r \in Slot : job'[r].task # t
    BY <1>a, <1>c, <1>d, <1>f, NoCopyLeft
  <2> QED BY <1>f, <2>1 DEF Solo, Only
<1>g. ASSUME NEW j, job' = [job EXCEPT ![s] = j],
             status'[t] = 1, Knows(t, s)', attempts'[t] \in 0 .. Retries(t) + 1
      PROVE  Solo(t)'
  <2>1. /\ \A r \in Slot : job'[r].task = t => r = s
        /\ Only(t)'
    BY <1>a, <1>c, <1>d, <1>g, CopyLeft
  <2> QED BY <1>g, <2>1 DEF Solo, Absent
<1>1. CASE SubmitPending(s)
  <2> DEFINE j == Scheduled(t, c, job[s].delay)
  <2>1. /\ job' = [job EXCEPT ![s] = j] /\ j.task \in {t, None}
        /\ job[s].pc = "submit"
    BY <1>1, <1>c, ScheduledIsCopy DEF SubmitPending
  <2>2. status[t] = 0 /\ attempts[t] = c /\ t \notin accepted
    BY <1>a, <1>c, <1>d, <2>1 DEF Knows, Solo
  <2>3. /\ status' = [status EXCEPT ![t] = 1] /\ count' = [count EXCEPT ![t] = c]
        /\ attempts' = attempts /\ accepted' = accepted
    BY <1>1, <2>2 DEF SubmitPending
  <2>4. status'[t] = 1 /\ attempts'[t] \in 0 .. Retries(t) + 1
    BY <1>a, <1>c, <1>d, <2>3 DEF TypeOK
  <2>5. Solo(t)'
    <3>1. CASE job[s].delay = "zero"
      BY <1>f, <2>1, <2>4, <3>1 DEF Scheduled, Absent
    <3>2. CASE job[s].delay # "zero"
      <4>1. job'[s] = [task |-> t, pc |-> "timer", count |-> c, delay |-> job[s].delay]
        BY <1>a, <2>1, <3>2 DEF TypeOK, Scheduled
      <4>2. Knows(t, s)'
        BY <2>2, <2>3, <2>4, <4>1, <1>c DEF Knows
      <4> QED BY <1>g, <2>1, <2>4, <4>2
    <3> QED BY <3>1, <3>2
  <2> QED BY <1>a, <1>e, <2>1, <2>3, <2>5 DEF TypeOK
<1>2. CASE Fire(s)
  <2> DEFINE j == [job[s] EXCEPT !.pc = "running"]
  <2>1. /\ job' = [job EXCEPT ![s] = j] /\ job[s].pc = "timer"
        /\ attempts' = [attempts EXCEPT ![t] = @ + 1]
        /\ status' = status /\ count' = count /\ accepted' = accepted
    BY <1>2 DEF Fire, rowVars
  <2>2. j.task = t /\ j.pc = "running" /\ j.count = c
    BY <1>c DEF Job
  <2>3. status[t] = 1 /\ attempts[t] = c /\ t \notin accepted
    BY <1>c, <1>d, <2>1 DEF Knows
  <2>4. attempts'[t] = c + 1 /\ job'[s] = j
    BY <1>a, <1>c, <2>1, <2>3 DEF TypeOK
  <2>5. Knows(t, s)'
    <3>1. job'[s].pc = "running" /\ job'[s].count = c
      BY <2>2, <2>4
    <3>2. attempts'[t] = c + 1 /\ status'[t] = 1 /\ t \notin accepted'
      BY <2>1, <2>3, <2>4
    <3> HIDE DEF j
    <3> QED BY <3>1, <3>2, <1>c DEF Knows
  <2>6. Solo(t)'
    <3>1. attempts'[t] \in 0 .. Retries(t) + 1 /\ status'[t] = 1
      BY <1>c, <2>1, <2>3, <2>4
    <3>2. job' = [job EXCEPT ![s] = j]
      BY <2>1
    <3> HIDE DEF j
    <3> QED BY <1>g, <2>5, <3>1, <3>2
  <2> QED
    <3> HIDE DEF j
    <3> QED BY <1>a, <1>e, <2>1, <2>2, <2>6 DEF TypeOK
<1>3. CASE Respond(s)
  <2>1. PICK p \in {"succeeded", "failed"} :
          /\ job' = [job EXCEPT ![s] = [job[s] EXCEPT !.pc = p]]
          /\ \/ p = "succeeded" /\ accepted' = accepted \cup {t}
             \/ p = "failed" /\ accepted' = accepted
    BY <1>3 DEF Respond
  <2> DEFINE j == [job[s] EXCEPT !.pc = p]
  <2>2. j.task = t /\ j.pc = p /\ j.count = c
    BY <1>c DEF Job
  <2>3. /\ status' = status /\ count' = count /\ attempts' = attempts
        /\ job[s].pc = "running"
    BY <1>3 DEF Respond, rowVars
  <2>4. status[t] = 1 /\ attempts[t] = c + 1 /\ t \notin accepted
    BY <1>c, <1>d, <2>3 DEF Knows
  <2>5. job'[s] = j
    BY <1>a, <2>1 DEF TypeOK
  <2>6. Knows(t, s)'
    <3>1. job'[s].pc = p /\ job'[s].count = c
      BY <2>2, <2>5
    <3>2. attempts'[t] = c + 1 /\ status'[t] = 1
      BY <2>3, <2>4
    <3>3. t \in accepted' => p = "succeeded"
      BY <2>1, <2>4
    <3> HIDE DEF j
    <3> QED BY <3>1, <3>2, <3>3, <1>c DEF Knows
  <2>7. job' = [job EXCEPT ![s] = j]
    BY <2>1
  <2>8. \A u \in Task \ {t} : u \in accepted' <=> u \in accepted
    BY <2>1
  <2> HIDE DEF j
  <2>9. Solo(t)'
    BY <1>d, <1>g, <2>3, <2>4, <2>6, <2>7
  <2> QED BY <1>a, <1>e, <2>2, <2>3, <2>7, <2>8, <2>9
<1>4. CASE Success(s)
  <2>1. /\ job' = [job EXCEPT ![s] = Free]
        /\ status' = [status EXCEPT ![t] = 2]
        /\ count' = count /\ attempts' = attempts /\ accepted' = accepted
    BY <1>4, <1>d DEF Success, Knows
  <2>2. status'[t] = 2
    BY <1>a, <1>c, <2>1 DEF TypeOK
  <2>3. Solo(t)'
    BY <1>d, <1>f, <2>1, <2>2 DEF Absent
  <2> QED BY <1>a, <1>e, <2>1, <2>3, FreeFacts DEF TypeOK
<1>5. CASE RetryFast(s)
  <2> DEFINE j == Scheduled(t, c + 1, Backoff[t][c + 1])
  <2>1. c + 1 \in 1 .. Retries(t)
    BY <1>5, <1>c DEF RetryFast, Retries
  <2>2. Backoff[t][c + 1] \in Class
    BY <1>c, <2>1, Data
  <2>3. /\ job' = [job EXCEPT ![s] = j] /\ job[s].pc = "failed"
        /\ status' = status /\ attempts' = attempts /\ accepted' = accepted
        /\ count' = [count EXCEPT ![t] = c + 1] \/ count' = count
    BY <1>5 DEF RetryFast
  <2>4. j.task \in {t, None}
    BY <1>c, <2>1, <2>2, ScheduledIsCopy
  <2>5. status[t] = 1 /\ attempts[t] = c + 1 /\ t \notin accepted
    BY <1>c, <1>d, <2>3 DEF Knows
  <2>6. Solo(t)'
    <3>1. CASE Backoff[t][c + 1] = "zero"
      BY <1>d, <1>f, <2>3, <2>5, <3>1 DEF Scheduled, Absent
    <3>2. CASE Backoff[t][c + 1] # "zero"
      <4>1. job'[s] = [task |-> t, pc |-> "timer", count |-> c + 1,
                       delay |-> Backoff[t][c + 1]]
        BY <1>a, <2>3, <3>2 DEF TypeOK, Scheduled
      <4>2. Knows(t, s)'
        BY <2>3, <2>5, <4>1, <1>c DEF Knows
      <4> QED BY <1>d, <1>g, <2>3, <2>5, <4>2
    <3> QED BY <3>1, <3>2
  <2> HIDE DEF j
  <2> QED BY <1>a, <1>e, <2>3, <2>4, <2>6 DEF TypeOK
<1>6. CASE RetrySlow(s)
  <2>1. job[s].pc = "failed"
    BY <1>6 DEF RetrySlow
  <2>2. status[t] = 1 /\ attempts[t] = c + 1 /\ t \notin accepted
    BY <1>c, <1>d, <2>1 DEF Knows
  <2>3. /\ job' = [job EXCEPT ![s] = Free]
        /\ status' = [status EXCEPT ![t] = 0] /\ count' = [count EXCEPT ![t] = c]
        /\ attempts' = attempts /\ accepted' = accepted
    BY <1>6, <2>2 DEF RetrySlow
  <2>4. status'[t] = 0 /\ count'[t] = c
    BY <1>a, <1>c, <2>3 DEF TypeOK
  <2>5. Solo(t)'
    BY <1>d, <1>f, <2>2, <2>3, <2>4 DEF Absent
  <2> QED BY <1>a, <1>e, <2>3, <2>5, FreeFacts DEF TypeOK
<1>7. CASE GiveUp(s)
  <2>1. /\ job' = [job EXCEPT ![s] = Free] /\ job[s].pc = "failed"
        /\ status' = [status EXCEPT ![t] = 3]
        /\ count' = count /\ attempts' = attempts /\ accepted' = accepted
    BY <1>7 DEF GiveUp
  <2>2. attempts[t] = c + 1 /\ t \notin accepted
    BY <1>c, <1>d, <2>1 DEF Knows
  <2>3. c = Retries(t)
    BY <1>7, <1>c DEF GiveUp, Retries
  <2>4. status'[t] = 3
    BY <1>a, <1>c, <2>1 DEF TypeOK
  <2>5. Solo(t)'
    BY <1>d, <1>f, <2>1, <2>2, <2>3, <2>4 DEF Absent
  <2> QED BY <1>a, <1>e, <2>1, <2>5, FreeFacts DEF TypeOK
<1> QED BY <1>1, <1>2, <1>3, <1>4, <1>5, <1>6, <1>7 DEF JobStep

LEMMA SoloJobStep ==
  ASSUME SoloInv, NEW s \in Slot, JobStep(s)
  PROVE  /\ \A u \in Task \ twice' : Solo(u)'
         /\ \A u \in twice' : status'[u] # Absent
<1>1. job[s].pc # "free"
  BY DEF JobStep, SubmitPending, Fire, Respond, Success, RetryFast, RetrySlow, GiveUp
<1>2. Copy(job[s])
  BY <1>1, TaskIsCopy DEF SoloInv, CountInv
<1>3. /\ twice' = twice
      /\ \A u \in Task : status[u] # Absent => status'[u] # Absent
      /\ \A u \in Task \ twice : u # job[s].task => Solo(u)'
  BY <1>2, OthersOfCopy
<1>4. job[s].task \notin twice => \A u \in Task \ twice : Solo(u)'
  BY <1>2, SoloOfCopy DEF Copy, Job
<1> QED BY <1>3, <1>4 DEF SoloInv, CountInv, TypeOK

LEMMA SoloPreserved == SoloInv /\ [Next]_vars => SoloInv'
<1> DEFINE Goal == /\ \A u \in Task \ twice' : Solo(u)'
                   /\ \A u \in twice' : status'[u] # Absent
<1> SUFFICES ASSUME SoloInv, [Next]_vars PROVE Goal
  BY Preserved DEF SoloInv
<1>a. /\ CountInv /\ TypeOK /\ Counts
      /\ \A u \in Task \ twice : Solo(u)
      /\ \A u \in twice : u \in Task /\ status[u] # Absent
  BY DEF SoloInv, CountInv, TypeOK
<1>1. ASSUME NEW s \in Slot, NEW t \in Task, AddFast(s, t) PROVE Goal
  <2> DEFINE j == Scheduled(t, 0, Delay[t])
  <2>1. /\ job' = [job EXCEPT ![s] = j] /\ job[s] = Free /\ status[t] = Absent
        /\ status' = [status EXCEPT ![t] = 1] /\ count' = [count EXCEPT ![t] = 0]
        /\ attempts' = attempts /\ accepted' = accepted /\ twice' = twice
    BY <1>1 DEF AddFast
  <2>2. attempts[t] = 0 /\ t \notin accepted \cup twice /\ \A r \in Slot : job[r].task # t
    BY <1>a, <2>1 DEF Solo, Absent
  <2>3. j.task \in {t, None}
    BY Data, ScheduledIsCopy
  <2>4. status'[t] = 1 /\ attempts'[t] = 0 /\ t \notin accepted'
    BY <1>a, <2>1, <2>2 DEF TypeOK
  <2>5. \A r \in Slot : job'[r] = IF r = s THEN j ELSE job[r]
    BY <1>a, <2>1 DEF TypeOK
  <2>6. ASSUME j.task = t PROVE j.pc = "timer" /\ j.count = 0
    BY <2>6, FreeFacts, Data DEF Scheduled
  <2> HIDE DEF j
  <2>7. Only(t)' /\ \A r \in Slot : job'[r].task = t => r = s /\ j.task = t
    BY <2>2, <2>5 DEF Only
  <2>8. \A r \in Slot : job'[r].task = t => Knows(t, r)'
    BY <2>4, <2>5, <2>6, <2>7 DEF Knows
  <2>9. Solo(t)'
    BY <2>4, <2>7, <2>8, Data DEF Solo, Absent
  <2>10. \A u \in Task \ {t} : \A r \in Slot : job'[r].task = u => job'[r] = job[r]
    BY <1>a, <2>1, <2>3, FreeFacts, Elsewhere
  <2>11. \A u \in Task \ {t} : status'[u] = status[u] /\ count'[u] = count[u]
    BY <1>a, <2>1 DEF TypeOK
  <2>12. \A u \in Task \ twice : u # t => Solo(u)'
    BY <1>a, <2>1, <2>10, <2>11, Untouched
  <2> QED BY <1>a, <2>1, <2>4, <2>9, <2>11, <2>12 DEF Absent
<1>2. ASSUME NEW n \in Node, NEW t \in Task, AddSlow(n, t) PROVE Goal
  <2>1. /\ status[t] = Absent /\ status' = [status EXCEPT ![t] = 0]
        /\ count' = [count EXCEPT ![t] = -1]
        /\ job' = job /\ attempts' = attempts /\ accepted' = accepted /\ twice' = twice
    BY <1>2 DEF AddSlow
  <2>2. attempts[t] = 0 /\ t \notin accepted \cup twice /\ \A r \in Slot : job[r].task # t
    BY <1>a, <2>1 DEF Solo, Absent
  <2>3. status'[t] = 0 /\ count'[t] = -1
    BY <1>a, <2>1 DEF TypeOK
  <2>4. Solo(t)'
    BY <2>1, <2>2, <2>3, Data DEF Solo, Only, Absent
  <2>5. \A u \in Task \ {t} : status'[u] = status[u] /\ count'[u] = count[u]
    BY <1>a, <2>1 DEF TypeOK
  <2>6. \A u \in Task \ twice : u # t => Solo(u)'
    BY <1>a, <2>1, <2>5, Untouched
  <2> QED BY <1>a, <2>1, <2>3, <2>4, <2>5, <2>6 DEF Absent
<1>3. ASSUME NEW s \in Slot, NEW t \in Task, FetchPending(s, t)
      PROVE Goal
  <2> DEFINE j == [task |-> t, pc |-> "submit", count |-> count[t] + 1, delay |-> Delay[t]]
  <2>1. /\ job' = [job EXCEPT ![s] = j] /\ job[s] = Free /\ status[t] = 0
        /\ UNCHANGED <<status, count, attempts, accepted>>
    BY <1>3 DEF FetchPending, rowVars
  <2>2. twice' = IF Copies(t) = {} THEN twice ELSE twice \cup {t}
    BY <1>3 DEF FetchPending
  <2>5. \A r \in Slot : job'[r] = IF r = s THEN j ELSE job[r]
    BY <1>a, <2>1 DEF TypeOK
  <2>6. j.task = t /\ j.pc = "submit" /\ j.count = count[t] + 1
    OBVIOUS
  <2> HIDE DEF j
  <2>9. ASSUME t \notin twice' PROVE Solo(t)'
    <3>1. t \notin twice /\ \A r \in Slot : job[r].task # t
      BY <2>2, <2>9 DEF Copies
    <3>2. attempts[t] = count[t] + 1 /\ t \notin accepted
      BY <1>a, <2>1, <3>1 DEF Solo
    <3>3. Only(t)' /\ \A r \in Slot : job'[r].task = t => r = s
      BY <2>5, <3>1 DEF Only
    <3>4. Knows(t, s)'
      <4>1. job'[s].pc = "submit" /\ job'[s].count = attempts'[t]
        BY <2>1, <2>5, <2>6, <3>2
      <4>2. attempts'[t] \in Nat
        BY <1>a, <2>1 DEF TypeOK
      <4> QED BY <2>1, <3>2, <4>1, <4>2 DEF Knows
    <3> QED BY <1>a, <2>1, <3>1, <3>3, <3>4 DEF Solo
  <2>10. \A u \in Task \ {t} : \A r \in Slot : job'[r].task = u => job'[r] = job[r]
    BY <1>a, <2>1, <2>6, FreeFacts, Elsewhere
  <2>11. \A u \in Task \ twice : u # t => Solo(u)'
    BY <1>a, <2>1, <2>10, Untouched
  <2>12. status'[t] # Absent
    BY <2>1 DEF Absent
  <2> QED BY <1>a, <2>1, <2>2, <2>9, <2>11, <2>12
<1>4. ASSUME UNCHANGED <<status, count, attempts, accepted, twice>>,
             \A r \in Slot : job'[r] = Free \/ job'[r] = job[r]
      PROVE Goal
  BY <1>a, <1>4, Data, FreeFacts, Untouched
<1>5. ASSUME NEW s \in Slot, StatementFails(s) PROVE Goal
  <2>1. \A r \in Slot : job'[r] = Free \/ job'[r] = job[r]
    BY <1>a, <1>5 DEF StatementFails, TypeOK
  <2> QED BY <1>4, <1>5, <2>1 DEF StatementFails, rowVars
<1>6. ASSUME NEW n \in Node, Restart(n) PROVE Goal
  BY <1>4, <1>6 DEF Restart, rowVars
<1>7. ASSUME NEW n \in Node, NEW live \in SUBSET Node, SetNodes(n, live)
      PROVE Goal
  BY <1>4, <1>7 DEF SetNodes, rowVars
<1>8. CASE UNCHANGED vars
  BY <1>4, <1>8 DEF vars, rowVars
<1> QED BY <1>1, <1>2, <1>3, <1>5, <1>6, <1>7, <1>8, SoloJobStep DEF Next

LEMMA SoloAlways == Spec => []SoloInv
BY SoloInitially, SoloPreserved, PTL DEF Spec

LEMMA SoloGivesUp == SoloInv => GivesUpAfterAllAttempts
BY Data DEF SoloInv, Solo, GivesUpAfterAllAttempts, Attempts, Retries

Stays == \A t \in Task : status[t] = 2 /\ t \notin twice' => status'[t] = 2

LEMMA SoloStays == SoloInv /\ [Next]_vars => [Stays]_vars
<1> SUFFICES ASSUME SoloInv, Next PROVE Stays
  OBVIOUS
<1> USE DEF Stays
<1>a. TypeOK /\ Counts /\ \A u \in Task \ twice : Solo(u)
  BY DEF SoloInv, CountInv
<1>1. ASSUME NEW s \in Slot, NEW t \in Task, AddFast(s, t) PROVE Stays
  BY <1>1, <1>a DEF AddFast, Absent, TypeOK
<1>2. ASSUME NEW n \in Node, NEW t \in Task, AddSlow(n, t) PROVE Stays
  BY <1>2, <1>a DEF AddSlow, Absent, TypeOK
<1>3. ASSUME NEW s \in Slot, JobStep(s) PROVE Stays
  <2>1. job[s].pc # "free"
    BY <1>3 DEF JobStep, SubmitPending, Fire, Respond, Success, RetryFast, RetrySlow, GiveUp
  <2>2. Copy(job[s])
    BY <1>a, <2>1, TaskIsCopy
  <2>3. job[s].task \in Task /\ (job[s].task \notin twice => status[job[s].task] # 2)
    BY <1>a, <2>2 DEF Copy, Solo
  <2>4. status' = status \/ \E x : status' = [status EXCEPT ![job[s].task] = x]
    BY <1>3 DEF JobStep, SubmitPending, Fire, Respond, Success, RetryFast, RetrySlow,
                GiveUp, rowVars
  <2>5. twice' = twice
    BY <1>3, <2>2, OthersOfCopy
  <2> QED BY <1>a, <2>3, <2>4, <2>5 DEF TypeOK
<1>4. CASE UNCHANGED status
  BY <1>4
<1> QED BY <1>1, <1>2, <1>3, <1>4
        DEF Next, FetchPending, StatementFails, Restart, SetNodes, rowVars

\* A row that was never fetched while an earlier copy of it was in memory is given
\* up only after all its attempts and no success, and is never called back once
\* more, whatever happens to other rows and whatever is lost in between.
THEOREM GivesUpLate == Spec => []GivesUpAfterAllAttempts
BY SoloAlways, SoloGivesUp, PTL

\* A stored success of such a row is never overwritten.
THEOREM SuccessStays == Spec => SuccessIsKept
BY SoloAlways, SoloStays, PTL DEF Spec, SuccessIsKept, Stays

-------------------------------------------------------------------------------
(* When no row is fetched while another copy of it is in memory: only one      *)
(* process at a time has fetched it and not yet submitted it.                  *)

Exclusive ==
  \A s \in Slot, t \in Task : FetchPending(s, t) => \A n \in Node : ~Submitting(n, t)

Once == SoloInv /\ twice = {}

LEMMA OncePreserved == Once /\ [Next]_vars /\ [Exclusive]_vars => Once'
<1> SUFFICES ASSUME Once, [Next]_vars, [Exclusive]_vars PROVE twice' = {}
  BY SoloPreserved DEF Once
<1>a. TypeOK /\ twice = {} /\ SoloInv /\ Counts /\ \A u \in Task : Solo(u)
  BY DEF Once, SoloInv, CountInv
<1>1. ASSUME NEW s \in Slot, NEW t \in Task, FetchPending(s, t) PROVE twice' = {}
  <2>1. job[s] = Free /\ status[t] = 0 /\ job'[s].task = t
    BY <1>1, <1>a DEF FetchPending, TypeOK
  <2>2. job'[s] # job[s]
    BY <2>1, FreeFacts, Data
  <2>3. \A n \in Node : ~Submitting(n, t)
    BY <1>1, <2>2 DEF Exclusive, vars
  <2>4. \A r \in Slot : job[r].task # t
    BY <1>a, <2>1, <2>3, Data DEF Solo, Knows, Submitting
  <2> QED BY <1>1, <1>a, <2>4 DEF FetchPending, Copies
<1>2. ASSUME NEW s \in Slot, JobStep(s) PROVE twice' = {}
  BY <1>2, <1>a DEF JobStep, SubmitPending, Fire, Respond, Success, RetryFast, RetrySlow,
                    GiveUp
<1> QED BY <1>1, <1>2, <1>a
        DEF Next, AddFast, AddSlow, StatementFails, Restart, SetNodes, vars

LEMMA OnceFinal == Once' /\ Once /\ [Next]_vars
                     => [\A t \in Task : status[t] = 2 => status'[t] = 2]_vars
BY SoloStays DEF Once, Stays

\* One process, whose cron runs do not overtake each other.
Alone == ~CronOverlap /\ \E n : Node = {n}

\* A single process does not fetch what it is about to submit.
LEMMA AloneIsExclusive == Alone => Exclusive
<1> SUFFICES ASSUME Alone, NEW s \in Slot, NEW t \in Task, FetchPending(s, t), NEW n \in Node
             PROVE  ~Submitting(n, t)
  BY DEF Exclusive
<1>1. n = Home[s]
  BY Data DEF Alone
<1> QED BY <1>1 DEF FetchPending, Alone

\* A single process never has two copies of a row, and so the two theorems above
\* hold of all its rows.
THEOREM NeverTwiceAlone == Alone /\ Spec => [](twice = {}) /\ SuccessIsFinal
<1> SUFFICES ASSUME Alone PROVE Spec => [](twice = {}) /\ SuccessIsFinal
  OBVIOUS
<1>1. Init => Once
  BY SoloInitially DEF Once, Init
<1>2. Once /\ [Next]_vars => Once'
  BY AloneIsExclusive, OncePreserved
<1>3. Once => twice = {}
  BY DEF Once
<1> QED BY <1>1, <1>2, <1>3, OnceFinal, PTL DEF Spec, SuccessIsFinal

-------------------------------------------------------------------------------
(* Several processes, of which those that fetch have the same view of who is *)
(* alive.  Whoever has no such view yet may hold copies, add rows, restart.   *)

SameView(live) ==
  \A s \in Slot, t \in Task :
    FetchPending(s, t) => Home[s] \in live /\ range[Home[s]] = RangeOf(Home[s], live, {})

\* A copy that is about to be submitted is of a row of its process.
Kept(live) ==
  \A s \in Slot : job[s].pc = "submit" =>
    Home[s] \in live /\ owner[job[s].task] \in RangeOf(Home[s], live, {})

\* A set of numbers with a bound has a greatest one.
LEMMA Greatest ==
  ASSUME NEW S, NEW b \in Nat, NEW a \in S, \A x \in S : x \in Int /\ -1 <= x /\ x <= b
  PROVE  Max(S) \in S /\ \A x \in S : x <= Max(S)
<1> DEFINE T == {b - x : x \in S}
           R == OpToRel(<, Nat)
<1>1. T \subseteq Nat /\ T # {}
  <2>1. \A t \in T : t \in Nat
    OBVIOUS
  <2> QED BY <2>1
<1>2. \A x, y \in Nat : <<y, x>> \in R <=> y < x
  BY DEF OpToRel
<1>3. PICK t \in T : \A y \in T : <<y, t>> \notin R
  <2>1. IsWellFoundedOn(R, Nat)
    BY NatLessThanWellFounded
  <2> HIDE DEF T, R
  <2> QED BY <1>1, <2>1, WFMin
<1>4. PICK m \in S : t = b - m
  OBVIOUS
<1>5. \A x \in S : x <= m
  <2> SUFFICES ASSUME NEW x \in S PROVE x <= m
    OBVIOUS
  <2>1. b - x \in T /\ b - m \in T
    OBVIOUS
  <2>2. ~(b - x < b - m)
    <3> HIDE DEF R, T
    <3>1. b - x \in Nat /\ b - m \in Nat
      BY <1>1, <2>1
    <3> QED BY <1>2, <1>3, <1>4, <2>1, <3>1
  <2> QED BY <2>2
<1> QED BY <1>5 DEF Max

\* Two processes that are in one view fetch the rows of different owners.
LEMMA RangesApart ==
  ASSUME NEW live \in SUBSET Node, NEW last \in live, \A m \in live : m <= last,
         NEW n \in live, NEW m \in live, NEW old, NEW o,
         o \in RangeOf(n, live, old), o \in RangeOf(m, live, old)
  PROVE  n = m
<1>a. \A k \in live : k \in Nat
  BY NodeAssumption
<1>1. ASSUME NEW k \in live
      PROVE  RangeOf(k, live, old) =
               {x \in Node : /\ x > Max({-1} \cup {j \in live : j < k})
                             /\ x <= k \/ k = Max(live)}
  <2> DEFINE above == {j \in live : j >= k}
  <2>1. k \in above /\ \A j \in above : k <= j
    BY <1>a
  <2>2. Min(above) = k
    <3> HIDE DEF above
    <3>1. \A x \in above : x \in Nat
      BY <1>a DEF above
    <3> QED BY <2>1, <3>1 DEF Min
  <2> HIDE DEF above
  <2>3. above # {} /\ live # {}
    BY <2>1
  <2> QED BY <2>2, <2>3 DEF RangeOf, above
<1>2. ASSUME NEW j \in live, NEW k \in live, j < k, o \in RangeOf(j, live, old),
             o \in RangeOf(k, live, old)
      PROVE  FALSE
  <2>1. o \in Nat /\ o > Max({-1} \cup {x \in live : x < k}) /\ (o <= j \/ j = Max(live))
    BY <1>1, <1>2, NodeAssumption
  <2>2. Max(live) \in live /\ k <= Max(live)
    BY <1>a, Greatest
  <2>3. /\ Max({-1} \cup {x \in live : x < k}) \in {-1} \cup {x \in live : x < k}
        /\ j <= Max({-1} \cup {x \in live : x < k})
    <3> DEFINE S == {-1} \cup {x \in live : x < k}
    <3>1. j \in S /\ k \in Nat /\ \A x \in S : x \in Int /\ -1 <= x /\ x <= k
      BY <1>a, <1>2
    <3> HIDE DEF S
    <3>2. Max(S) \in S /\ \A x \in S : x <= Max(S)
      BY <3>1, Greatest
    <3> QED BY <3>1, <3>2 DEF S
  <2> QED BY <1>a, <1>2, <2>1, <2>2, <2>3
<1> QED BY <1>a, <1>2

\* Only a fetch makes a copy that is to be submitted, and owners never change.
LEMMA KeptPreserved ==
  ASSUME NEW live \in SUBSET Node, SoloInv, Kept(live), [Next]_vars, [SameView(live)]_vars
  PROVE  Kept(live)'
<1>a. TypeOK /\ Counts /\ \A t \in Task : status[t] = Absent => Solo(t)
  BY DEF SoloInv, CountInv
<1>1. ASSUME owner' = owner, \A r \in Slot : job'[r] = job[r] \/ job'[r].pc # "submit"
      PROVE  Kept(live)'
  BY <1>1 DEF Kept
<1>2. ASSUME NEW s \in Slot, NEW t \in Task, AddFast(s, t) PROVE Kept(live)'
  <2>1. /\ job' = [job EXCEPT ![s] = Scheduled(t, 0, Delay[t])] /\ status[t] = Absent
        /\ owner' = [owner EXCEPT ![t] = Home[s]]
    BY <1>2 DEF AddFast
  <2>2. Scheduled(t, 0, Delay[t]).pc # "submit"
    BY FreeFacts DEF Scheduled
  <2>3. \A r \in Slot : job'[r].pc = "submit" => job'[r] = job[r] /\ job[r].task # t
    BY <1>a, <2>1, <2>2 DEF TypeOK, Solo, Absent
  <2>4. \A u : u # t => owner'[u] = owner[u]
    BY <1>a, <2>1 DEF TypeOK
  <2> QED BY <2>3, <2>4 DEF Kept
<1>3. ASSUME NEW n \in Node, NEW t \in Task, AddSlow(n, t) PROVE Kept(live)'
  <2>1. job' = job /\ status[t] = Absent /\ owner' = [owner EXCEPT ![t] = n]
    BY <1>3 DEF AddSlow
  <2>2. \A r \in Slot : job[r].task # t
    BY <1>a, <2>1 DEF Solo, Absent
  <2>3. \A u : u # t => owner'[u] = owner[u]
    BY <1>a, <2>1 DEF TypeOK
  <2> QED BY <2>1, <2>2, <2>3 DEF Kept
<1>4. ASSUME NEW s \in Slot, NEW t \in Task, FetchPending(s, t) PROVE Kept(live)'
  <2> DEFINE j == [task |-> t, pc |-> "submit", count |-> count[t] + 1, delay |-> Delay[t]]
  <2>1. /\ job' = [job EXCEPT ![s] = j] /\ job[s] = Free /\ owner' = owner
        /\ owner[t] \in range[Home[s]]
    BY <1>4 DEF FetchPending, rowVars
  <2>2. j.task = t
    OBVIOUS
  <2> HIDE DEF j
  <2>3. \A r \in Slot : job'[r] = IF r = s THEN j ELSE job[r]
    BY <1>a, <2>1 DEF TypeOK
  <2>4. job' # job
    BY <2>1, <2>2, <2>3, FreeFacts, Data
  <2>5. Home[s] \in live /\ range[Home[s]] = RangeOf(Home[s], live, {})
    BY <1>4, <2>4 DEF SameView, vars
  <2> QED BY <2>1, <2>2, <2>3, <2>5 DEF Kept
<1>5. ASSUME NEW s \in Slot, JobStep(s) PROVE Kept(live)'
  <2>1. \A t, c, d : Scheduled(t, c, d).pc # "submit"
    BY FreeFacts DEF Scheduled
  <2>2. owner' = owner /\ \E j : j.pc # "submit" /\ job' = [job EXCEPT ![s] = j]
    <3>1. ASSUME NEW x PROVE [job[s] EXCEPT !.pc = x].pc = x \/ job[s] \notin Job
      BY DEF Job
    <3>2. job[s] \in Job
      BY <1>a DEF TypeOK, Job
    <3>3. CASE Fire(s) \/ Respond(s)
      <4>1. owner' = owner /\ \E x \in {"running", "succeeded", "failed"} :
                                  job' = [job EXCEPT ![s] = [job[s] EXCEPT !.pc = x]]
        BY <1>a, <3>3 DEF Fire, Respond, rowVars, TypeOK
      <4> QED BY <3>1, <3>2, <4>1
    <3>4. CASE SubmitPending(s) \/ Success(s) \/ RetryFast(s) \/ RetrySlow(s) \/ GiveUp(s)
      BY <2>1, <3>4, FreeFacts DEF SubmitPending, Success, RetryFast, RetrySlow, GiveUp
    <3> QED BY <1>5, <3>3, <3>4 DEF JobStep
  <2>3. \A r \in Slot : job'[r] = job[r] \/ job'[r].pc # "submit"
    BY <1>a, <2>2 DEF TypeOK
  <2> QED BY <1>1, <2>2, <2>3
<1>6. ASSUME NEW s \in Slot, StatementFails(s) PROVE Kept(live)'
  BY <1>a, <1>1, <1>6, FreeFacts DEF StatementFails, rowVars, TypeOK
<1>7. ASSUME NEW n \in Node, Restart(n) PROVE Kept(live)'
  BY <1>a, <1>1, <1>7, FreeFacts DEF Restart, rowVars, TypeOK
<1>8. ASSUME NEW n \in Node, NEW view \in SUBSET Node, SetNodes(n, view) PROVE Kept(live)'
  BY <1>1, <1>8 DEF SetNodes, rowVars
<1>9. CASE UNCHANGED vars
  BY <1>1, <1>9 DEF vars, rowVars
<1> QED BY <1>2, <1>3, <1>4, <1>5, <1>6, <1>7, <1>8, <1>9 DEF Next

\* A row that one process has fetched is in no other's range.
LEMMA KeptIsExclusive ==
  ASSUME NEW live \in SUBSET Node, NEW last \in live, \A m \in live : m <= last,
         ~CronOverlap, SoloInv, Kept(live), SameView(live)
  PROVE  Exclusive
<1> SUFFICES ASSUME NEW s \in Slot, NEW t \in Task, FetchPending(s, t),
                    NEW n \in Node, Submitting(n, t)
             PROVE  FALSE
  BY DEF Exclusive
<1>1. PICK r \in Slot : Home[r] = n /\ job[r].task = t /\ job[r].pc = "submit"
  BY DEF Submitting
<1>2. n \in live /\ owner[t] \in RangeOf(n, live, {})
  BY <1>1 DEF Kept
<1>3. Home[s] \in live /\ owner[t] \in RangeOf(Home[s], live, {})
  BY DEF SameView, FetchPending
<1>4. Home[s] = n
  BY <1>2, <1>3, RangesApart
<1> QED BY <1>4 DEF FetchPending

\* While all that fetch have the same view of who is alive, no row is fetched
\* while another copy of it is in memory, however many processes there are and
\* whatever statements or processes fail: the ranges of SetNodes
\* (storage.go:110-128) divide the rows among those processes.
THEOREM NeverTwiceDivided ==
  ASSUME NEW CONSTANT live \in SUBSET Node, NEW CONSTANT last \in live,
         \A m \in live : m <= last, ~CronOverlap
  PROVE  Spec /\ [][SameView(live)]_vars => [](twice = {}) /\ SuccessIsFinal
<1>1. Init => Once /\ Kept(live)
  BY SoloInitially, FreeFacts DEF Init, Kept, Once
<1>2. Once /\ Kept(live) /\ [Next]_vars /\ [SameView(live)]_vars => Once' /\ Kept(live)'
  <2>1. Once /\ Kept(live) /\ [Next]_vars /\ [SameView(live)]_vars => Kept(live)'
    BY KeptPreserved DEF Once
  <2>2. Once /\ Kept(live) /\ [SameView(live)]_vars => [Exclusive]_vars
    BY KeptIsExclusive DEF Once
  <2> QED BY <2>1, <2>2, OncePreserved
<1>3. Once => twice = {}
  BY DEF Once
<1> QED BY <1>1, <1>2, <1>3, OnceFinal, PTL DEF Spec, SuccessIsFinal
=============================================================================
