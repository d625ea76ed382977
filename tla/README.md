# Timing wheel and delayed tasks: formal models

This directory holds TLA+ models of the delayed-task service in this
repository, TLC configurations that check them on small instances, and proofs
checked by TLAPS. Paths below are relative to the repository; `storage.go` is
`internal/service/storage/storage.go`, `queue.go`, `bucket.go`, `timingwheel.go`
and `utils.go` are under `pkg/timingwheel/`.

## The system

A client registers a task (a callback, a delay, a list of retry delays) over
gRPC or HTTP. The task becomes a row of a MySQL table. Each process has an
ordinal in a Kubernetes stateful set, runs cron functions on a timing wheel,
fetches the rows it is responsible for, arms a timer in the wheel for each,
calls the client back, and writes the result.

    client -> delay service -> Storage.Add -> table task_queue
                                  |  ^             ^   |
                      fast path   |  | result      |   | FetchPendingTasks
                                  v  |             |   v  (cron)
          callback <- Execute <- timer of the wheel <- Submit
                                   ^
     bucket flushed by the loop <- C <- Poll <- delay queue <- Offer <- add

| component | code | state | operations |
|---|---|---|---|
| delay queue | `queue/queue.go` | heap under `mu`, flag `sleeping`, channels `C`, `wakeupC`, `exitC` | `Offer` (any goroutine), `Poll` (one goroutine), receive from `C` (the loop) |
| timing wheel, buckets | `timingwheel.go`, `bucket/bucket.go`, `utils.go` | per wheel `currentTime`, `overflowWheel`, buckets with `expiration` and a list under `mu`; per timer a bucket pointer | `AfterFunc`, `ScheduleFunc`, `add`, `addOrRun`, `advanceClock`, `Flush`, `Timer.Stop`, `Start`, `Stop` |
| task store | `storage.go`, `options.go`, `utils.go` of the package, `task_queue.sql` | rows (`status`, `fail_count`, `locked_by`), copies of rows held by closures, the range `d.ns` | `Add`, `FetchPendingTasks`, `Submit`, `Execute`, `Success`, `Failure`, `SetNodes`, `Start` |
| node membership | `internal/service/provider_set.go`, `SetNodes` and `FetchPendingTasks` of `storage.go` | the map of live ordinals, the range `d.ns` | watch of pods, periodic pull, `SetNodes`, the query |
| delay service and validation | `internal/service/delay/service.go`, `api/delay/*.go`, `internal/server/grpc/middleware/*.go`, `pkg/util/`, `pkg/trace` | none | decoding, validation, trace ids, `Register` |
| callbacks | `storage/callback/*.go`, `Execute` | gRPC connections by target | `Request`, `getClient`, `Close` |
| application | `pkg/app/app.go`, `cmd/delay/*.go`, `internal/server/...`, `internal/boot` | error group, signals, fields `srv` and `gs` | building the parts, `Run`, `Stop`, `Start` and `Stop` of each server |
| configuration types, log lines, SQL hooks | `internal/config`, `pkg/log`, `internal/boot` | none of their own | formatting |
| generated code, the example service | `api/` | none | relay of the gateway, answer of the example receiver |

How they interact:

- The wheel's loop (`timingwheel.go:175-191`) is the only receiver of `C`, and
  calls `Offer` itself when `Flush` reinserts a timer in a lower wheel. `Poll`
  is the only receiver of `wakeupC`.
- All wheels of the hierarchy share one queue. Only the loop advances clocks;
  callers of `AfterFunc` read them, and may create overflow wheels.
- A bucket's mutex is held by `Flush` while it reinserts every timer, which
  locks the mutexes of other buckets.
- The wheel's tasks are closures over a copy of a row. Several copies of one row
  may exist, in one process or in several: every `UPDATE` has to bear that.
- The watch and the pull change one map of ordinals and then call `SetNodes`,
  each in a goroutine of its own; the cron that reads `d.ns` is a third.
- `Poll`, the loop, every task and every schedule take a worker of one pool, and
  `TimingWheel.Stop` waits for all of them in one wait group, without a limit of
  time: `Storage.Stop` does not hand its context on.
- A `Start` and a `Stop` of a server are two goroutines that share a field and a
  context, and nothing else. A request may go through the HTTP server to the
  gRPC server, so that stopping one cuts what the other relays.

What is hard: the wake-up protocol between `Offer` and `Poll` (an atomic flag,
an unbuffered channel and a timer); `add` overtaken by the loop at any of its
atomic steps; moving a timer between buckets while `Stop` looks for it; two
copies of a row writing results in any order; crashes and failed statements
between the callback and the `UPDATE`; the index arithmetic of the retries; a
pool in which those who wait for a worker hold one; a panic or a refusal halfway
through a flush; a list of pods that is older than the events applied before it;
two attempts that find no connection at once; a stop that comes before the start.
PROJECT.json lists these hazards, each at its line, with the properties about it.

What makes each part correct:

- delay queue: no lost wake-up, no sender left blocked, no circular wait between
  `Poll` and the loop, due elements handed out, each once, earliest first;
- wheel: no timer lost, fired twice, fired early, or fired after a successful
  `Stop`; no bucket forgotten; the loop never blocks on itself;
- task store: every task ends; a result, once stored, stays; a task is given up
  only after all its attempts;
- membership: processes with the same view divide the rows among them; a view
  settles on the pods there are;
- intake: only documented requests become tasks, and the client learns all its
  mistakes; the trace id of a request reaches the receiver;
- callbacks: a stored result is what the receiver said; connections are kept; no
  receiver that hangs keeps a task from ending;
- application: a signal ends the process, cleanly when nothing fails; a failure is
  never taken for a stop; the logger is cleaned up last.

## Modules

| module | what it is |
|---|---|
| `ExpiryQueue` | abstract: pending entries, handed over one by one, earliest due entry first |
| `DelayQueue` | `Offer`, `Poll` and the receiving loop, one action per atomic step |
| `DelayQueueProofs` | theorems about `DelayQueue` |
| `TimerService` | abstract: timers armed, fired or stopped |
| `TimingWheel` | wheels, buckets, `add`, the loop, `Flush` and `Timer.Stop`, one action per atomic step; uses the queue as `ExpiryQueue` promises it |
| `TimingWheelProofs` | theorems about `TimingWheel` that hold with and without lag |
| `TimingWheelPromptProofs` | theorems about `TimingWheel` without lag: the arithmetic of the wheels, and that it implements `TimerService` |
| `TaskStore` | rows, copies, cron runs, callbacks, retries, faults, ranges of ordinals |
| `TaskStoreProofs` | theorems about `TaskStore` |
| `WheelLifecycle` | the worker pool, the wait group, `Start`, `Stop`, `ScheduleFunc`, tasks that panic or are refused |
| `WheelLifecycleProofs` | theorems about `WheelLifecycle` |
| `NodeRange` | watch, pull, `SetNodes`, the query of the cron |
| `NodeRangeProofs` | theorems about `NodeRange` |
| `Intake` | what a request goes through before it is a row, as functions |
| `Callbacks` | from a request to the verdict on its task, with the adapters; uses `Intake` |
| `CallbacksProofs` | theorems about `Callbacks` |
| `AppLifecycle` | `main`, `App.Run`, the three servers, signals, requests |
| `AppLifecycleProofs` | theorems about `AppLifecycle` |
| `MC...` | instances for TLC |

### DelayQueue

`pq` is the set of items in the heap and `prio` their priorities: `PeekShift`
takes some item of least priority, and an item pushed is at index 0 exactly when
it is below all others (`heap.Push` moves it up only past greater ones).
`opc[i]` is where a call of `Offer` is: before the `CompareAndSwap`, or blocked
on `wakeupC`. `ppc` is where `Poll` is: reading the clock (`top`), about to lock
(`peek`), parked on an empty queue or on a timer, past the timer and about to
swap the flag (`fired`), draining `wakeupC`, sending on `C`, leaving. Send and
receive on an unbuffered channel are one joint action (`Wakeup`, `Deliver`).
The loop is busy from a receive until its own calls of `Offer` have returned.
Closing `exitC` may happen at any time.

### TimingWheel

The wheels are levels `0..MaxLevel`; `top` is the highest one made. `where[t]` is
a timer's bucket pointer, and a bucket's list is the set of timers that point to
it. Each goroutine in `add` is at one of `load` (load `currentTime`, compare),
`overflow` (make the overflow wheel if missing), `insert` (`b.Add` under the
mutex), `swap` (`SetExpiration`), `read` (the second load, for the argument of
`Offer`), `push` (`Offer`), or `run` (`Wrap` starts the task). The loop walks
`recv`, `adv` (one wheel of `advanceClock` at a time), `lock`, `flush`, and
through the steps of `add` for each timer it reinserts, holding the mutex of its
bucket `lb` throughout. `Timer.Stop` is a load of the pointer and a `Remove`
under the mutex, repeated.

The queue appears as a bag of pairs (bucket, priority), since a bucket may be
queued twice; `PollPick` and `LoopReceive` are `Pick` and `HandOver` of
`ExpiryQueue`, which `DelayQueue` implements.

The constant `Lag` states a hypothesis about scheduling. With `Lag = TRUE`
nothing is assumed, as in Go. With `Lag = FALSE` a call of `add` and the handling
of a bucket exclude each other, and the clock advances only when no call is
under way and no due bucket is waiting: goroutines are fast compared with a
tick. The hypothesis separates what the algorithm achieves from what only
preemption breaks; each property says which it needs.

### TaskStore

A row has `status` (0 pending, 1 running, 2 success, 3 failure), `fail_count`
and `locked_by`. A slot of a process holds one copy of a row, the `*TaskEntity`
of a closure, with its own count: fetched and to be submitted, waiting in the
wheel, being called back, answered. Each SQL statement is one step with its
`WHERE` clause as the condition of its effect; what the code does whether or not
a row was affected (`storage.go:464-484`) happens in both cases. A delay is
`zero`, `fast` (at most `FastPathTime`) or `slow`; a slow row may become due at
any moment and a timer may fire at any moment, so that all orders are covered.
`RangeOf` is `SetNodes`: the ordinals whose rows a process fetches, given a view
of who is alive; views are arbitrary and independent. A process may restart, and
a statement may fail, `MaxFaults` times in all.

`CronOverlap` says whether a run of the pending cron may start before the one
before it has submitted what it fetched. The ghost variable `twice` records the
tasks whose row was fetched while another copy of it was in memory. What is lost
through such copies is the finding of `store_success`; what must hold without them
is stated of the other tasks, whatever happens around them.

### WheelLifecycle

`TimingWheel` has where a timer goes and when; this module has who runs and who
waits. A task is an occurrence of a job (`AfterFunc` has one, `ScheduleFunc` up to
`Runs`), `Poll`, or the loop, and `st` says where it is: in a bucket, waiting in
`Submit` for a worker, with a worker, in its function, ended, panicked, refused.
`Wrap` adds to the wait group before it submits; `Done` is called at the end of
the function and is skipped by a panic and by a refusal. The task of a schedule
rearms its timer before its function, so that an occurrence that is already due
waits for a worker while the one before it holds one.

The queue is reduced to who sends on `wakeupC`: an `Offer`, of a caller, of the task
of a schedule, or of the loop, may win the flag while `Poll` has it set (`sender`),
and is then blocked until `Poll` receives. `Poll` may leave through `exitC` with its
flag still set (`leaving`), so that a last `Offer` can win it with nobody to receive. `Flush` handles
each timer of its bucket in one of three ways: `FlushOne` submits its task, and a
refusal ends the flush and leaves the others behind; `FlushMove` puts it into a
lower wheel, which takes an `Offer` (`MaxMoves` times in all); in `FlushLock` the
loop locks the mutex it holds, as in `wheel_selflock`.

`Stop` is its steps: the look at `isClosed`, the close, the mark, the wait, which
may return at once or be woken, and the release. A wait group that is raised again
between the wake-up and the return of `Wait` panics (`StopWake`). `nonblocking` and
`orderly` are chosen in `Init`: how the pool was made, and whether `Stop` is called
after `Start` and one call at a time. The pool is ants v1.3.0 and external.

### NodeRange

`known` is the map, `events` the changes of each pod that the watch has yet to
receive (the API server reports one pod's changes in order), `listed` what a pull
has listed and not yet stored. `WatchEvent` and `PullStore` change the map;
`ReadKeys` and `SetNodes` follow in either goroutine with anything in between.
`RangeOf` is the search of `SetNodes`, with the range kept when no node is at or
above the process. `FetchLow` and `FetchHigh` are the two reads of `d.ns`. A pod
that stops loses the memory of its process. A watch may end at any time, and is
then not restarted.

### Intake and Callbacks

A request is a record of the fields of `RegisterRequest`, the transport it came
by and its trace header; a string stands for itself and `Runes` is its length.
`Broken` has the rules of the generated validator, `Validate` its two modes (an
error is the place of its field in the order of the rules, so that the first is
the least), `Verdict` the map of messages that the interceptor returns. `TraceOf` and
`Append2` are the trace ids of a request and of a cron run. `UrlOf`, `FmtReply`
and `IsSuccess` are what the adapters make of the payload and of a reply.

`Callbacks` runs requests through `Register`, the row, the cron, `Execute` and the
adapters. `Look` is `getClient` under the mutex; `PutBegin` and `PutEnd` are the
write of the map outside it, and any use of the map between the two may end the
process, as the Go runtime does on a concurrent use it notices. `DialFails` is the
error of `grpc.NewClient`. `Close` is
`Storage.Stop` closing the adapters while attempts go on, and `Halt` is `tw.Stop`
after it: from then on the cron does not come back and no timer fires, while the
attempts under way end and handlers may still add tasks. `said`, `seen` and
`tried` record what receivers were sent and answered, and exist for the
properties. Crashes and several processes are left to `TaskStore`.

### AppLifecycle

Six goroutines (a `starting` and a `stopping` per server), `main`, and the one that
waits for a signal. `first` is the error the group keeps; `CtxDone` is its
context. `set` are the servers whose field has been assigned, which is what
their `Stop` looks at. `call` is one request, which may be served by either
server or relayed from one to the other. `Fault` is anything that goes wrong in
the code's error returns: a part that cannot be built, a hook, a listener, an
adapter that does not close. `net/http`, grpc and the error group are external.

`wheel` is how far the storage's wheel is: `Storage.Start` submits `Poll` and then
the loop, and its `Stop` may come before, between or after them. `tw.Stop` waits
(`stopping`) until the group empties (`woken`) or for ever (`hung`, for the reasons
that `Hung` of `WheelLifecycle` has), and then releases the pool. A request that
arms a timer meanwhile may be blocked for ever in `Offer` (`jammed`), have its task
accepted after the wait (`late`), or raise the wait group under a `Wait` that is
about to return, which ends the process (`reused`). `watcher` is the goroutine that
`RegisterStorage` starts in a pod for `WatchOrdinal`: its context is never
cancelled, and it logs whenever it calls `SetNodes`. `LoggerUsers` is who may still
write to the logger: servers that start or serve, a request in the gRPC server
(the gateway has no logger), the wheel, a late task, and the watcher.

## Runs

| run | instance | properties | result |
|---|---|---|---|
| `queue` | 3 calls of `Offer` (1 by the loop), priorities 0..2, clock to 2 | `TypeOK`, `WakeProtocol`, `NoLostWakeup`, `NoCircularWait`, `OfferReturns`, `ImplementsExpiryQueue` | hold |
| `queue_stop` | the same | `StopCompletes` | violated |
| `wheel_prompt` | no lag; 3 timers, 1 caller, 3 wheels of 2 buckets, ticks 2, 4, 8, delays 1, 4, 5, clock to 6 | `OneCycle`, `ClocksAgree`, `NoSelfLock`, `ImplementsTimerService` | hold |
| `wheel_lag` | lag; 3 timers, 2 callers, ticks 1, 2, 4, delays 1, 2, clock to 2 | `TypeOK`, `NoStranded`, `OnePlace` | hold |
| `wheel_selflock` | lag; the same, clock to 3 | `NoSelfLock` | violated |
| `lifecycle` | an `AfterFunc` that may panic, a schedule of two occurrences, 4 workers, 1 timer moved to a lower wheel, 2 callers of `Stop` | `TypeOK`, `StopWaits`, `NoTimerStranded`, `StopTwice`, `Fires`, `StopReturns` | hold |
| `stop_waits` | the same, 1 caller of `Stop`, functions need not end | `StopDoesNotWait` | violated |
| `store` | 2 processes with a copy each, overlapping runs, any views, a slow task with a fast and a slow retry and a fast one with a slow retry, 1 fault | `TypeOK`, `CountInRange`, `GivesUpAfterAllAttempts`, `FinishedIsFinal`, `SuccessIsKept`, `Terminates` | hold |
| `store_success` | 2 processes, no fault | `SuccessIsFinal` | violated |
| `nodes` | the process of pod 1 of 0..2, 5 starts and stops of pods | `TypeOK`, `OwnRows`, `FetchesItsShare`, `Settles`, `Learns` | hold |
| `callbacks` | 2 requests; one over all adapters, edges and broken rules, the other a gRPC task for the same URL | `TypeOK`, `IntakeIsFaithful`, `ResultIsTrue`, `ConnectionsKept`, `Judged` | hold |
| `app` | 3 servers, 1 request, 1 signal, 2 faults | `TypeOK`, `CleanExit`, `FailureIsReported`, `CleanedUpLast`, `Ends` | hold |

Deadlock is not checked: every instance really stops, by its bounds (the clock at
its end, all calls made) or because the process has ended. Where stopping would
be wrong a liveness property or an invariant says so (`OfferReturns`,
`NoCircularWait`, `NoSelfLock`, `Terminates`, `Fires`, `StopReturns`, `Settles`,
`Judged`, `Ends`).

Each property of a passing run is paired in PROJECT.json with a mutant: a
definition marked "Mutant" in the module, which is the action above or below it
with a plausible mistake (a dropped reset, an unchecked removal, an off-by-one).
Put in the place of that action, it makes TLC report the property.

Why the bounds are enough to meet the interesting cases:

- queue: two outside callers and one loop call let an earlier item arrive before,
  between and after each step of `Poll`, with a second sender competing for the
  flag; three priorities and three instants give past, present and future.
- `wheel_prompt`: delays of 1, 4 and 5 at ticks 2, 4, 8 give a timer that runs at
  once, one at the boundary of the first wheel, and ones that go through the
  overflow wheels and come back by reinsertion; slots are reused by the next cycle.
- `wheel_lag`: two callers and the loop may be anywhere in `add` at once, with an
  overflow wheel made while the lower clock moves, and a `Stop` anywhere. The
  theorems below remove these bounds.
- `store`: retries of both classes put the count on all three paths that write it,
  the copies of two processes let a stale one meet a current one of the same row
  while the other task goes its own way, and one fault may fall between any two
  steps. A process has one copy at a time, so that a run of the cron which
  overtakes another in the same process is left to the theorems, which have no
  such bound. No delay is zero: see below for what a delay of 0 does.
- `lifecycle`: 4 workers are the least with which the wheel cannot block itself
  (`LifecycleAssumption`: `Poll` and the loop keep one each, and each late
  schedule may keep one while it waits for the next). With fewer, all workers can
  be held by tasks that wait for a worker; `PoolSize` of the code's pool is set by
  the configuration and nothing relates it to the number of schedules. One job
  that panics and one that rearms meet the pool full, released and refusing. One
  timer that moves to a lower wheel is one `Offer` of the loop, which is what it
  takes to block it; two callers of `Stop` are what it takes to close `exitC` twice.
- `nodes`: a pod below and a pod above the process give every shape of the range;
  five changes let a pod come, go and come back while a list is being stored.
- `callbacks`: each rule is broken by one on either side, alone and together with
  others; two gRPC attempts for one URL are what a lost connection takes.
- `app`: two faults let a failure meet a failure of the stop it causes. The
  theorems remove the bound.

`MaxTime`, `MaxLevel`, `Slot`, `MaxFaults`, `MaxMoves`, `MaxChurn`, `Runs`, `MaxOrdinal`
and the finite sets of requests are bounds of the models: the clock, the height of
the hierarchy, the memory of the processes, the number of faults, of timers moved
to a lower wheel, of pods that come and go, and of occurrences have no such limit
in the code. `NodeRange` has one goroutine that pulls: pulls that overlap, as they
may, add ordinals that were listed just as one pull does.

Two abstractions hide behaviour of the code on purpose: two timers are never
armed with the same `Timer` value (each call of `AfterFunc` makes a new one), and
the heap's choice among equal priorities is left open. A schedule, which does
reuse its timer, is in `WheelLifecycle`, where buckets are abstracted away.

## Fairness

- Queue: the goroutines that can take a step do (`WF` on each call of `Offer`, on
  `Poll`, on the loop), and time passes. Go's scheduler starves no runnable
  goroutine. Nobody has to call `Offer` or `Stop`. A `Poll` at a `select` with
  several ready cases is not required to choose any particular one.
- Wheel: the same for each goroutine in `add`, `Poll`'s pick, the loop and the
  clock. `AfterFunc` and `Stop` are never required to be called.
- Store: a copy in memory makes progress (the wheel fires timers, a callback ends
  at its deadline at the latest), and the cron comes back to a row that is
  pending again and again (`SF` on fetching a row, for a copy needs a free slot).
  Nothing is assumed about answers, so `Terminates` holds for callbacks that
  always fail.
- Lifecycle: something of the wheel that can go on does (no state of it comes
  back, so that one condition says this of every goroutine), and in `SpecEnds` the
  functions of jobs end; `stop_waits` does without that. Nobody has to call
  `AfterFunc`, `Start` has no deadline, and no function has to panic.
- Nodes: the watch handles what it receives and the pull comes back, every
  `NodeInterval`, since `ScheduleFunc` rearms it before it runs. Pods and cron
  runs are not required. `Settles` adds, as its hypothesis, that the watch lasts.
- Callbacks: handlers and attempts go on, and a request that nobody answers meets
  its deadline: each task has one (`storage.go:376`) and the HTTP client has 5 s of
  its own. Until the wheel halts, the cron comes back and timers fire; after that
  neither does, and the tasks that wait for them stay where they are. Receivers
  need not answer, and the storage need not stop.
- Application: every goroutine runs on and a handler returns, unless it is one that
  is blocked for ever. Whether the wait of `tw.Stop` ends is left open, and `Ends`
  names the case that it does not. Nobody has to send a signal or a request, and
  nothing has to fail.

## What is proved

The theorems hold for all values of the constants that satisfy the named
assumptions of the modules: any number of callers, timers, wheels, buckets,
items, any priorities, delays and clock bounds, with and without lag unless a
theorem says which. Every invariant that a passing run checks is stated by one of
them; the safety half of both refinements is as well.

`DelayQueueProofs`:

- `TypeCorrect`: `Spec => []TypeOK`.
- `WakeProtocolHolds`, `NoCircularWaitHolds`: `TypeOK /\ WakeProtocol` is
  inductive. `WakeProtocol` says that whoever clears the flag owes one send, that
  nobody else does, and that the flag is down in a parked `Poll` only while a send
  is owed. `NoCircularWait` follows, for `Poll` at `send` excludes senders.
- `NoLostWakeupHolds`: inductive on top of the former. When an item is pushed
  while `Poll` sleeps, it either is earlier than all others, and its `Offer` has
  yet to try the flag, or some earlier item already accounts for it; when an
  `Offer` fails its `CompareAndSwap`, the protocol says somebody else owes the send.
- `StepsOfExpiryQueue`: the safety part of `ImplementsExpiryQueue`. It needs that
  an item is in one place only (heap, hand, handed over).

`TimingWheelProofs`:

- `TypeCorrect`, from the inductive `TypeOK /\ Holding`. `Holding` says that a
  goroutine in `add` has an armed timer, that a timer in a bucket is armed, and
  that the loop has a bucket exactly while it handles one. Without it neither
  `Target` nor the bag of the queue would have a type.
- `NoStrandedHolds`: inductive with the former. `Safe(b)` is its part for one
  bucket; most steps leave it alone (`Frame`), and lemma `Kept` shows that a step
  of one goroutine cannot take from another what it is about to queue. The two
  interesting steps are `AddSwap`, which finds the bucket marked and relies on the
  mark, and `FlushEnd`, which resets the mark of an empty bucket.
- `OnePlaceHolds`: the counting of `OnePlace` is replaced by naming the place
  (`Held`, `InBucket`, `Fired`, `Cancelled`), inductive with `Removable`: a `Stop`
  that is about to remove a timer has a bucket, and no `Stop` of that timer has
  succeeded. The names give the count by the library's facts about cardinalities
  of singletons.

`TimingWheelPromptProofs`, under `~Lag`, the hypothesis without which
`wheel_selflock` refutes the first three, for any ticks that the wheels may have
(each a multiple of the one below by the size of its bucket array):

- `PromptInvariant`: `PInv` is inductive. `OneCycle` alone is far from it: that a
  timer goes into a bucket of its own cycle depends on the clock the caller has
  read, hence on what the clocks of all wheels agree on, hence on the bucket the
  loop received being the earliest of all. So `PInv` says, beside the invariants
  of `TimingWheelProofs`, that the loop and the callers take turns (`Turns`);
  that no timer and no bucket is overdue unless it is being handled (`Prompt`);
  how far the clocks of the wheels have come, also halfway through `advanceClock`
  (`Clocks`); that the expiration of a queued bucket is a tick of its slot within
  one turn of its wheel (`Window`), and no earlier than the one to which the
  clocks advance (`Earliest`); that a bucket is on its way through the queue once,
  with its expiration (`Once`); that what a goroutine has found out about the
  wheel it has reached stays true (`Adding`); and that the timers of a bucket
  that is flushed belong to it (`Reinserting`).
- `OneCycleHolds`, `ClocksAgreeHolds`, `NoSelfLockHolds` are consequences. For the
  last: a timer that is reinserted is due within one turn of the wheel below, so
  it goes there or starts, and never to the bucket that is locked.
- `StepsOfTimerService`: every step of a goroutine, the loop or a `Stop` is a step
  of `TimerService` or a stutter; a timer starts only when its tick has come,
  which is what `Clocks` and `Prompt` say of `addOrRun`.
- `FiresOnTime`: `OnTime`, which bounds the start of a task from both sides by the
  tick of the lowest wheel.

The arithmetic (`Truncate` is the only multiple within a tick below, slots
repeat with the period of the wheel, ticks of wheels divide one another) is
proved as lemmas. Where it needs an induction over the levels, lemma `Least`
takes the least counterexample instead, from the library's theorem that the
natural numbers are well founded, which has no operator as its parameter.

`WheelLifecycleProofs`, for any jobs, pool and callers of `Stop`:

- `TypeCorrect`: with the size of the pool, which no step exceeds.
- `StopWaitsForTasks`, an action property: whoever comes out of `Wait` finds no
  accepted task that has not ended. The invariant ties the wait group to the state
  of each task: one that waits, runs, has panicked or was refused is in it.
- `NothingStranded`: when `Stop` is used in order and the pool blocks, a flush is
  under way only while the loop has its worker, hence before the release.
- `ClosedOnce`: calls of `Stop` that do not overlap see `isClosed` in time.

`NodeRangeProofs`, for any number of pods and processes:

- `RowsAreDivided`: for a set of live ordinals, every row has exactly one process
  whose range contains it, those of pods that are gone included.
- `TypeCorrect`, `FetchesOwnRows` (also when the two ends of a query come from two
  calls of `SetNodes`: every range a process ever has contains its ordinal),
  `FetchesShare`, from lemmas about least and greatest elements.

`AppLifecycleProofs`, for any number of faults:

- `TypeCorrect`, `FailuresAreReported`, `ExitIsClean`: from an inductive invariant
  that ties the error the group keeps to what has happened to the servers.
  What remains is the crash of the wait group under a request that is served.
- `CleansUpLast`: from a second one, `Quiet`, about what each server, request and the
  wheel may still be doing once `Run` has returned. The logger is cleaned up once,
  and `LoggerUsers` then has nobody of what `Run` started but a late task, or the
  wheel of a storage whose `Stop` failed, unless an `afterStart` hook failed. The
  watcher, which `Run` did not start and nothing stops, may be there always.

`TaskStoreProofs`, for any tasks, delays, retries, processes, views and faults:

- `TypeCorrect`, `CountStaysInRange`: inductive with `Loadable`, which says that a
  pending row's count leaves room for the attempt the cron will count; only `Add`
  and a slow retry make a row pending, and no copy writes the count of one.
- `FinishedStays`: from the types alone, since every `UPDATE` but that of the last
  failure has a condition on the status.
- `GivesUpLate`, `SuccessStays`: for every task that is not in `twice`. `Solo` says
  that such a row has one copy at most, and that its place and count tell how often
  the receiver has been called.
- `NeverTwiceAlone`: under `Alone`, one process whose runs of the cron do not
  overtake each other, `twice` stays empty, so that the former hold of every task
  and `SuccessIsFinal`, which `store_success` refutes without this hypothesis, holds.
- `NeverTwiceDivided`: the same for any number of processes under
  `[][SameView(live)]_vars` and `~CronOverlap`, that is, as long as every run of the
  cron that fetches belongs to a process of `live` whose range `SetNodes` computed
  from `live`. Processes without that view may hold copies, add rows and restart.
  It follows from `Kept`, which says that a copy about to be submitted has its
  owner in the range of its process, and `RangesApart`, by which the ranges of one
  view are disjoint. `live` needs a greatest member, which every finite set of
  nodes has. This is the counterpart of `store_success`, whose two processes have
  different views.

`CallbacksProofs`, for any requests, receivers and interleavings of attempts:

- `FewConnections`: until a connection is kept for a URL, every attempt that
  dialled it is between the lookup and the write (`Kept`), so that they are as
  many as were dialled, and no more than there are tasks for the URL.
- `ResultsAreTrue`: `Known` ties the count and the messages of a task, in memory
  or in its row, to the results it has had, at every place it may be.

- `TypeCorrect`, `IntakeIsFaithfulHolds`: on top of the former, `Detail` says of
  each task what is in memory of it, within which bounds its counts are, what the
  validator let through or answered, and which traces its row, its copy and its
  receivers have; `Sockets` ties the map of connections to the attempts that are
  writing it. `RulesAgree` compares the validator's rules with the documented
  ones field by field. The verdict is a set over the places of the fields, so no
  induction over a list is needed; `CallbacksAssumption` gives the fields of a
  request the types of `delay.proto`.

Only model-checked: everything about liveness (`OfferReturns`, `Terminates`,
`Fires`, `StopReturns`, `Settles`, `Learns`, `Judged`, `Ends`, the fairness part of
the refinements), since proofs about fairness and `ENABLED` are out of the
prover's reach.

## Findings

Each is shown by a run in which the code violates a sentence of the repository.

1. `queue_stop`: `Poll` may take `exitC` while its flag is still 1. An `Offer`
   that then wins the flag blocks on `wakeupC` for ever; if the loop made it,
   `TimingWheel.Stop` never returns.
2. `wheel_selflock`: a caller preempted between `Bucket.Add` and `SetExpiration`
   for about a tick can queue its bucket a second time with a stale expiration.
   The loop flushes it, and a timer of the next cycle goes back to the bucket
   whose mutex the loop holds (`bucket.go:142-145` says this cannot happen).
3. `stop_waits`: the comment on `TimingWheel.Stop` (`timingwheel.go:195-197`) says that
   it does not wait for a task that is running. It does: `Wrap` counts every task in
   the wait group that `Stop` waits for, and a function that never returns keeps
   `Stop` from returning. `StopWaits` and its theorem state what the code does.
4. `store_success`: two processes whose ranges overlap, as they do from the start,
   both call back one task; a late failure overwrites a success.

Other behaviour met while modelling, which no sentence of the repository rules
out, or which the models above contain without a run of its own:

- a timer may fire before its tick when a caller of `add` is preempted, or because
  `b.Expiration()` is read when the bucket is received and not when it was queued;
- `Timer.Stop` returns false for a timer that `Flush` is moving to another bucket,
  and the timer fires later;
- a task that panics, or that the pool refuses, keeps `TimingWheel.Stop` waiting
  for ever (`timingwheel.go:266-272`);
- `Storage.Stop` does not hand its context to `tw.Stop` (`storage.go:191`), so that
  `stopTimeout` does not bound it: with any of the four accidents of `Hung` the
  process does not end on a signal;
- a task that is accepted while `tw.Stop` comes out of its wait crashes the process
  (the wait group is reused before `Wait` has returned), and one that is accepted
  between the wait and the release runs on while `main` cleans up;
- `WatchOrdinal` runs on a context nothing cancels (`provider_set.go:58-69`) and logs
  after the logger has been cleaned up;
- tasks that wait for a timer or for the cron when the storage stops stay as their
  rows say, those of status 1 for good;
- a refusal of the pool in the middle of a flush leaves the other timers in a
  bucket that is no longer queued;
- `delay_time` 0, and a retry of 0, pass validation, are stored as running, and
  are never executed (`storage.go:321-324`, `432`, `483`): the state `parked` of `Callbacks`;
- rows a process was running stay in status 1 when it restarts; the cron for
  timeouts that the configuration documents is commented out;
- a pull that lists a pod before its removal and stores it after brings it back
  for good, since only an event removes one: `Misled` in `NodeRange`;
- the watch is not restarted once it ends; removals are then never learnt;
- the map of gRPC clients is written outside its mutex: the runtime may end the
  process, or a connection is dialled twice and one of them never closed;
- the `afterStop` hooks never run, for the group's error is never nil after a stop
  (`ErrServerClosed`);
- a stop before `srv` is assigned leaves the HTTP server running and `Run`
  waiting; the gRPC server's `Stop` then dereferences nil;
- the gateway's connection is closed as soon as the context is done, before
  `Shutdown` has drained the requests it relays.

## Not modelled, and why

- The array layout of the heap (`Push`, `Pop`, growth and shrinking): the queue's
  properties need only which element is least. Planned as a pure algorithm.
- `CronExpr`, which the service never sets; `FetchTimeoutTasks`, which nothing
  calls; the channel that collects errors, which nothing reads.
- Log lines, SQL formatting and the types of the configuration: input and output
  without state of their own. The stream interceptors: no method streams.
- Generated descriptors and getters, and the example's generated code.
- The text of messages: `Intake` tells which field a message is about and whether
  it is the custom or the generated one.

## Plan

What is left, in this order:

1. `PriorityQueue`: `Push`, `Pop` and `Remove` on the array against a bag.
2. `WheelLifecycle` with `Timer.Stop` on a schedule, whose timer is reused.
