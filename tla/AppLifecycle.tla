------------------------------ MODULE AppLifecycle ------------------------------
(***************************************************************************)
(* The life of the process: main builds its parts, App.Run (pkg/app/app.go)  *)
(* starts and stops the three servers, each with a goroutine that runs its   *)
(* Start and one that waits to run its Stop, and an error group keeps the    *)
(* first error.  Nothing orders a server's Start and its Stop but the        *)
(* context both look at.                                                     *)
(*                                                                          *)
(* External: the error group, net/http's Server (Shutdown makes              *)
(* ListenAndServe return ErrServerClosed, at once or when it is called       *)
(* later), grpc's Server (GracefulStop waits for the calls; Serve then        *)
(* returns nil, or ErrServerStopped when it is called later), and the Go      *)
(* runtime, which ends a process by default on a signal nobody has asked for. *)
(***************************************************************************)
EXTENDS Integers

CONSTANTS MaxFaults \* bound: how many things go wrong in a run

ASSUME AppAssumption == MaxFaults \in Nat

Server == {"http", "grpc", "storage"}
NetServer == {"http", "grpc"}

VARIABLES main,      \* where the main goroutine is
          spawned,   \* how many servers have been given their goroutines
          starting,  \* the goroutine that runs Start, per server
          stopping,  \* the goroutine that runs Stop, per server
          set,       \* the servers whose field srv or gs has been assigned
          shut,      \* the servers whose Shutdown or GracefulStop has begun
          wheel,     \* the timing wheel of the storage, and how far tw.Stop is
          watch,     \* the goroutine that waits for a signal
          signal,    \* a signal has been delivered to its channel
          cancelled, \* Stop has cancelled the application's context
          first,     \* the error the group keeps
          err,       \* what Run has returned
          cleanups,  \* calls of the logger's clean-up
          call,      \* a request of a client, and where it is
          left,      \* what a stopping wheel leaves of requests and of Start
          watcher,   \* the goroutine of RegisterStorage that watches the pods
          ready,     \* every server was up when the signal was taken
          faults

boot == <<main, err, cleanups>>
servers == <<spawned, starting, stopping, set, shut, wheel, first>>
signals == <<watch, signal, cancelled, ready>>
users == <<call, left, watcher>>
vars == <<boot, servers, signals, users, faults>>

Booting == {"config", "logger", "db", "storage"}
Before == Booting \cup {"beforeStart", "spawn", "started", "afterStart", "notify"}
Over == {"exited", "aborted", "panicked", "crashed", "reused", "killed"}
Alive == main \notin Over

\* Mutant: the context of the application, which no failure cancels.
CtxDoneApp == cancelled

\* ctx.Done() of the error group: a goroutine failed, or Stop was called.
CtxDone == cancelled \/ first # "nil"
Order == <<"http", "grpc", "storage">>

Init ==
  /\ main = "config" /\ err = "nil" /\ cleanups = 0
  /\ spawned = 0
  /\ starting = [s \in Server |-> "none"]
  /\ stopping = [s \in Server |-> "none"]
  /\ set = {} /\ shut = {} /\ wheel = "new" /\ first = "nil"
  /\ watch = "none" /\ signal = FALSE /\ cancelled = FALSE /\ ready = FALSE
  /\ call = "none" /\ left = {} /\ watcher = "none" /\ faults = 0

\* Something goes wrong here, within the bound.
Fault == faults < MaxFaults /\ faults' = faults + 1

-------------------------------------------------------------------------------
(* main: LoadConfig, then wireApp, whose later steps clean up on an error. *)

Panic(how, cleaned) == main' = how /\ cleanups' = cleanups + cleaned

Built(next) == main' = next /\ UNCHANGED <<cleanups, faults>>

LoadConfig == main = "config" /\ (Built("logger") \/ (Fault /\ Panic("aborted", 0)))
InitLogger == main = "logger" /\ Built("db") \* it never fails
InitSQLX == main = "db" /\ (Built("storage") \/ (Fault /\ Panic("panicked", 1)))

\* In a pod it also starts WatchOrdinal, on a context nothing cancels, and arms
\* the pull; it may fail before the one or because of the other.
RegisterStorage ==
  /\ main = "storage"
  /\ Built("beforeStart") \/ (Fault /\ Panic("panicked", 1))
  /\ watcher' \in {"none", "runs"}
  /\ UNCHANGED <<err, servers, signals, call, left>>

\* The API server closes the watch, or an event cannot be read.
WatchOrdinalEnds ==
  /\ Alive /\ watcher = "runs" /\ watcher' = "none"
  /\ UNCHANGED <<boot, servers, signals, call, left, faults>>

Boot ==
  \/ RegisterStorage
  \/ (LoadConfig \/ InitLogger \/ InitSQLX) /\ UNCHANGED <<err, servers, signals, users>>

\* A hook that fails ends Run at once: goroutines that run are left running.
Hook ==
  /\ main \in {"beforeStart", "afterStart"}
  /\ \/ /\ main' = IF main = "beforeStart" THEN "spawn" ELSE "notify"
        /\ UNCHANGED <<err, faults>>
     \/ /\ Fault /\ err' = main /\ main' = "returned"
  /\ UNCHANGED <<cleanups, servers, signals, users>>

Spawn ==
  /\ main = "spawn"
  /\ LET s == Order[spawned + 1]
     IN /\ stopping' = [stopping EXCEPT ![s] = "waits"]
        /\ starting' = [starting EXCEPT ![s] = "asked"]
  /\ spawned' = spawned + 1
  /\ main' = IF spawned' = 3 THEN "started" ELSE "spawn"
  /\ UNCHANGED <<err, cleanups, set, shut, wheel, first, signals, users, faults>>

\* wg.Wait(): every Start goroutine has begun, whatever its Start has done.
Started ==
  /\ main = "started" /\ \A s \in Server : starting[s] # "asked"
  /\ main' = "afterStart"
  /\ UNCHANGED <<err, cleanups, servers, signals, users, faults>>

Notify ==
  /\ main = "notify" /\ main' = "wait" /\ watch' = "waits"
  /\ UNCHANGED <<err, cleanups, servers, signal, cancelled, ready, users, faults>>

\* eg.Wait(), then the error it kept.  One of the servers always fails, be it
\* with ErrServerClosed, so the afterStop hooks are never reached.
RunReturns ==
  /\ main = "wait"
  /\ \A s \in Server : starting[s] = "returned" /\ stopping[s] \in {"returned", "failed"}
  /\ watch = "returned"
  /\ main' = "returned" /\ err' = first
  /\ UNCHANGED <<cleanups, servers, signals, users, faults>>

\* The deferred clean-up runs whether or not main panics.
End ==
  /\ main = "returned"
  /\ main' = IF err \in {"nil", "ErrServerClosed"} THEN "exited" ELSE "panicked"
  /\ cleanups' = cleanups + 1
  /\ UNCHANGED <<err, servers, signals, users, faults>>

-------------------------------------------------------------------------------
(* The error group keeps the first error that is not nil. *)

\* Mutant: the last error wins.
KeepLast(e) == first' = IF e = "nil" THEN first ELSE e

Keep(e) == first' = IF first = "nil" THEN e ELSE first

StartReturns(s, e) ==
  /\ starting' = [starting EXCEPT ![s] = "returned"]
  /\ Keep(e)

StopReturns(s, e) ==
  /\ stopping' = [stopping EXCEPT ![s] = IF e = "nil" THEN "returned" ELSE "failed"]
  /\ Keep(e)

StartBegin(s) ==
  /\ Alive /\ starting[s] = "asked"
  /\ starting' = [starting EXCEPT ![s] = "begun"]
  /\ UNCHANGED <<boot, spawned, stopping, set, shut, wheel, first, signals, users, faults>>

\* The gateway's handlers, or the gRPC listener, then the server itself.
NetBuild(s) ==
  /\ Alive /\ starting[s] = "begun"
  /\ \/ /\ starting' = [starting EXCEPT ![s] = "built"]
        /\ set' = set \cup {s}
        /\ UNCHANGED <<first, faults>>
     \/ /\ Fault /\ StartReturns(s, "build") /\ UNCHANGED set
  /\ UNCHANGED <<boot, spawned, stopping, shut, wheel, signals, users>>

\* ListenAndServe or Serve, before or after the server was told to stop.
NetServe(s) ==
  /\ Alive /\ starting[s] = "built"
  /\ \/ /\ s \notin shut
        /\ starting' = [starting EXCEPT ![s] = "serving"]
        /\ UNCHANGED <<first, faults>>
     \/ /\ s \notin shut /\ s = "http" /\ Fault \* the port is in use
        /\ StartReturns(s, "listen")
     \/ /\ s \in shut
        /\ StartReturns(s, IF s = "http" THEN "ErrServerClosed" ELSE "ErrServerStopped")
        /\ UNCHANGED faults
  /\ UNCHANGED <<boot, spawned, stopping, set, shut, wheel, signals, users>>

\* A server that serves returns when it is shut down, grpc's once its calls
\* have ended, or when its listener fails.
NetServed(s) ==
  /\ Alive /\ starting[s] = "serving"
  /\ s \in shut /\ (s = "grpc" => stopping[s] = "returned")
  /\ StartReturns(s, IF s = "http" THEN "ErrServerClosed" ELSE "nil")
  /\ UNCHANGED <<boot, spawned, stopping, set, shut, wheel, signals, users, faults>>

NetFails(s) ==
  /\ Alive /\ starting[s] = "serving" /\ s \notin shut
  /\ Fault /\ StartReturns(s, "accept")
  /\ UNCHANGED <<boot, spawned, stopping, set, shut, wheel, signals, users>>

\* Storage.Start arms the pending cron, then submits Poll and the loop to the
\* wheel's pool, which refuses once tw.Stop has released it.  What it accepts
\* after tw.Stop has waited, tw.Stop does not wait for.
Wrap(next, up) ==
  IF wheel = "stopped"
    THEN StartReturns("storage", "ErrPoolClosed") /\ UNCHANGED <<wheel, left>>
    ELSE /\ starting' = [starting EXCEPT !["storage"] = next]
         /\ wheel' = IF wheel \in {"new", "polls"} THEN up ELSE wheel
         /\ left' = IF wheel = "woken" THEN left \cup {"late"} ELSE left
         /\ UNCHANGED first

StorageStart ==
  /\ Alive
  /\ \/ starting["storage"] = "begun" /\ Wrap("built", "polls")
     \/ starting["storage"] = "built" /\ Wrap("returned", "running")
  /\ UNCHANGED <<boot, spawned, stopping, set, shut, signals, call, watcher, faults>>

-------------------------------------------------------------------------------
(* The Stop of each server, once the context is done. *)

\* A server that is not there yet: http's Stop does nothing, grpc's panics.
HttpMiss ==
  /\ Alive /\ stopping["http"] = "waits" /\ CtxDone /\ "http" \notin set
  /\ StopReturns("http", "nil")
  /\ UNCHANGED <<boot, spawned, starting, set, shut, wheel, signals, users, faults>>

GrpcCrash ==
  /\ Alive /\ stopping["grpc"] = "waits" /\ CtxDone /\ "grpc" \notin set
  /\ main' = "crashed"
  /\ UNCHANGED <<err, cleanups, servers, signals, users, faults>>

\* Mutant: Shutdown without the look at s.srv.
NetStopBlind(s) ==
  /\ Alive /\ stopping[s] = "waits" /\ CtxDone
  /\ stopping' = [stopping EXCEPT ![s] = "drains"]
  /\ shut' = shut \cup {s}
  /\ UNCHANGED <<boot, spawned, starting, set, wheel, first, signals, users, faults>>

NetStop(s) ==
  /\ Alive /\ stopping[s] = "waits" /\ CtxDone /\ s \in set
  /\ stopping' = [stopping EXCEPT ![s] = "drains"]
  /\ shut' = shut \cup {s}
  /\ UNCHANGED <<boot, spawned, starting, set, wheel, first, signals, users, faults>>

\* Mutant: grpc's Stop instead of GracefulStop.
NetDrainedHard(s) ==
  /\ Alive /\ stopping[s] = "drains"
  /\ \/ s = "grpc" /\ StopReturns(s, "nil")
     \/ s = "http" /\ call \notin {"http", "relayed"} /\ StopReturns(s, "nil")
     \/ /\ s = "http" /\ call \in {"http", "relayed"}
        /\ starting["http"] = "returned" /\ StopReturns(s, "DeadlineExceeded")
  /\ UNCHANGED <<boot, spawned, starting, set, shut, wheel, signals, users, faults>>

\* Shutdown and GracefulStop wait for the requests; Shutdown for no more than
\* stopTimeout, long after ListenAndServe has seen its listener close.
NetDrained(s) ==
  /\ Alive /\ stopping[s] = "drains"
  /\ \/ s = "grpc" /\ call \notin {"rpc", "relayed"} /\ StopReturns(s, "nil")
     \/ s = "http" /\ call \notin {"http", "relayed"} /\ StopReturns(s, "nil")
     \/ /\ s = "http" /\ call \in {"http", "relayed"}
        /\ starting["http"] = "returned" /\ StopReturns(s, "DeadlineExceeded")
  /\ UNCHANGED <<boot, spawned, starting, set, shut, wheel, signals, users, faults>>

\* An adapter whose Close fails leaves the wheel as it is; otherwise tw.Stop
\* closes exitC and waits, whatever becomes of stopCtx.
StorageStop ==
  /\ Alive /\ stopping["storage"] = "waits" /\ CtxDone
  /\ \/ /\ stopping' = [stopping EXCEPT !["storage"] = "drains"]
        /\ wheel' = "stopping"
        /\ UNCHANGED <<first, faults>>
     \/ /\ Fault /\ StopReturns("storage", "close") /\ UNCHANGED wheel
  /\ UNCHANGED <<boot, spawned, starting, set, shut, signals, users>>

\* The wait group empties, or never does: see Hung of WheelLifecycle, which
\* has the loop in Offer, a refused Wrap and a function that does not return.
StorageDrained ==
  /\ Alive /\ wheel = "stopping" /\ wheel' \in {"woken", "hung"}
  /\ UNCHANGED <<boot, spawned, starting, stopping, set, shut, first, signals, users, faults>>

StorageReleased ==
  /\ Alive /\ wheel = "woken" /\ wheel' = "stopped"
  /\ StopReturns("storage", "nil")
  /\ UNCHANGED <<boot, spawned, starting, set, shut, signals, users, faults>>

-------------------------------------------------------------------------------
(* Signals and requests. *)

\* Before signal.Notify a signal ends the process; after it, one is kept.
Signal ==
  /\ Alive /\ ~signal /\ signal' = TRUE
  /\ main' = IF main \in Before THEN "killed" ELSE main
  /\ UNCHANGED <<err, cleanups, servers, watch, cancelled, ready, users, faults>>

Up == /\ \A s \in NetServer : starting[s] = "serving"
      /\ wheel = "running"

\* App.Stop: the beforeStop hooks, whose errors do not stop it, and cancel.
WatchStops ==
  /\ Alive /\ watch = "waits" /\ signal
  /\ \/ watch' = "nil" /\ UNCHANGED faults
     \/ watch' = "beforeStop" /\ Fault
  /\ cancelled' = TRUE
  /\ ready' = (Up /\ first = "nil")
  /\ UNCHANGED <<boot, servers, signal, users>>

\* It returns that error only after the cancel, or was never needed.
WatchReturns ==
  /\ Alive
  /\ \/ watch \in {"nil", "beforeStop"} /\ Keep(watch)
     \/ watch = "waits" /\ CtxDone /\ UNCHANGED first
  /\ watch' = "returned"
  /\ UNCHANGED <<boot, spawned, starting, stopping, set, shut, wheel, signal,
                 cancelled, ready, users, faults>>

Serving(s) == starting[s] = "serving" /\ s \notin shut

\* A request to the gRPC server, to the HTTP server, from there to the gRPC
\* server (or an error when that does not serve), and its answer.
Call ==
  /\ Alive
  /\ \/ call = "none" /\ Serving("grpc") /\ call' = "rpc"
     \/ call = "none" /\ Serving("http") /\ call' = "http"
  /\ UNCHANGED <<boot, servers, signals, left, watcher, faults>>

Relay ==
  /\ Alive /\ call = "http"
  /\ call' = IF Serving("grpc") THEN "relayed" ELSE "none"
  /\ UNCHANGED <<boot, servers, signals, left, watcher, faults>>

InStorage == call \in {"rpc", "relayed"} /\ "jammed" \notin left

Answer ==
  /\ Alive /\ InStorage /\ call' = "none"
  /\ UNCHANGED <<boot, servers, signals, left, watcher, faults>>

\* A request that arms a timer of a wheel being stopped may stay in Offer for
\* ever, or behind the lock of a bucket the loop is blocked with; a task that
\* has come due while its row was inserted is submitted to the pool at once,
\* and may be so after the wait.
Arm ==
  /\ Alive /\ InStorage
  /\ \/ wheel \in {"stopping", "hung"} /\ left' = left \cup {"jammed"}
     \/ wheel = "woken" /\ left' = left \cup {"late"}
  /\ UNCHANGED <<boot, servers, signals, call, watcher, faults>>

LateEnds ==
  /\ Alive /\ "late" \in left /\ left' = left \ {"late"}
  /\ UNCHANGED <<boot, servers, signals, call, watcher, faults>>

\* The wait group is raised again, by such a request or by the loop's Wrap,
\* before the wait it has just ended has returned: tw.Stop panics.
WaitReused ==
  /\ Alive /\ wheel = "stopping"
  /\ InStorage \/ starting["storage"] = "built"
  /\ main' = "reused"
  /\ UNCHANGED <<err, cleanups, servers, signals, users, faults>>

\* The gateway closes its connection when the application's context is done:
\* what it relays then fails, and what it has relayed goes on without it.
GatewayCut ==
  /\ Alive /\ cancelled
  /\ \/ call = "http" /\ call' = "none"
     \/ call = "relayed" /\ call' = "rpc"
  /\ UNCHANGED <<boot, servers, signals, left, watcher, faults>>

-------------------------------------------------------------------------------
MainStep == Boot \/ Hook \/ Spawn \/ Started \/ Notify \/ RunReturns \/ End
StartStep(s) ==
  \/ StartBegin(s)
  \/ s \in NetServer /\ (NetBuild(s) \/ NetServe(s) \/ NetServed(s))
  \/ s = "storage" /\ StorageStart
StopStep(s) ==
  \/ s = "http" /\ HttpMiss
  \/ s = "grpc" /\ GrpcCrash
  \/ s \in NetServer /\ (NetStop(s) \/ NetDrained(s))
  \/ s = "storage" /\ (StorageStop \/ StorageDrained \/ StorageReleased)
WatchStep == WatchStops \/ WatchReturns

Next ==
  \/ MainStep \/ WatchStep
  \/ \E s \in Server : StartStep(s) \/ StopStep(s)
  \/ \E s \in NetServer : NetFails(s)
  \/ Signal \/ Call \/ Relay \/ Answer \/ GatewayCut
  \/ Arm \/ LateEnds \/ WaitReused \/ WatchOrdinalEnds

\* Every goroutine runs on, and a handler returns; nobody has to send a signal
\* or a request, and no listener has to fail.
Fairness ==
  /\ WF_vars(MainStep) /\ WF_vars(WatchStep) /\ WF_vars(Relay \/ Answer)
  /\ \A s \in Server : WF_vars(StartStep(s)) /\ WF_vars(StopStep(s))

Spec == Init /\ [][Next]_vars
FairSpec == Spec /\ Fairness

-------------------------------------------------------------------------------
Errors == {"nil", "build", "listen", "accept", "close", "beforeStop", "ErrServerClosed",
           "ErrServerStopped", "ErrPoolClosed", "DeadlineExceeded"}

\* The states of the goroutines (app.go), with the counters in their bounds.
TypeOK ==
  /\ main \in Before \cup Over \cup {"wait", "returned"}
  /\ spawned \in 0 .. 3
  /\ starting \in [Server -> {"none", "asked", "begun", "built", "serving", "returned"}]
  /\ stopping \in [Server -> {"none", "waits", "drains", "returned", "failed"}]
  /\ set \subseteq NetServer /\ shut \subseteq set
  /\ wheel \in {"new", "polls", "running", "stopping", "woken", "hung", "stopped"}
  /\ watch \in {"none", "waits", "nil", "beforeStop", "returned"}
  /\ signal \in BOOLEAN /\ cancelled \in BOOLEAN /\ ready \in BOOLEAN
  /\ first \in Errors /\ err \in Errors \cup {"beforeStart", "afterStart"}
  /\ cleanups \in 0 .. 1
  /\ call \in {"none", "rpc", "http", "relayed"}
  /\ left \subseteq {"jammed", "late"} /\ watcher \in {"none", "runs"}
  /\ faults \in 0 .. MaxFaults

\* A signal that finds every server up, in a run in which nothing fails, does
\* not end in a panic: whatever the order of the six goroutines, and also when
\* Shutdown gives up on a request, the first error of the group is
\* ErrServerClosed, the one main forgives (main.go:60), and no Stop meets a
\* server that is not there (app.go:74-83).  The one crash left is the wait
\* group's, and it needs a request that is served while tw.Stop waits.
CleanExit ==
  ready /\ faults = 0 => /\ main \notin {"panicked", "crashed"}
                         /\ main = "reused" => InStorage

\* An application that was not told to stop never exits as if it had been:
\* the error of the server that failed is the one Run returns, although the
\* others are then stopped and http's Start fails with ErrServerClosed too.
FailureIsReported == main = "exited" => cancelled

\* Who may still write to the logger: servers whose Start has not returned,
\* requests the gRPC server is serving (the gateway has no logger), the wheel's
\* goroutines and the tasks on its pool, and WatchOrdinal (storage.go:111,127).
LoggerUsers ==
  {s \in Server : starting[s] \notin {"none", "returned"}}
    \cup {u \in {"call"} : call \in {"rpc", "relayed"}}
    \cup {u \in {"wheel"} : wheel \notin {"new", "stopped"}}
    \cup {u \in {"late"} : "late" \in left}
    \cup {u \in {"watcher"} : watcher = "runs"}

\* However main ends once the logger is there (main.go:52-62, wire_gen.go:24-52)
\* it is cleaned up once.  In a pod WatchOrdinal goes on after that: nothing
\* stops it (provider_set.go:58-69).  Of what Run started, nothing that writes
\* to the logger is left but for three reasons: an afterStart hook failed
\* (app.go:87-91), and everything is left; an adapter's Close failed, and the
\* wheel is (storage.go:187-190); the pool accepted a task, or the loop of a
\* Start overtaken, between tw.Stop's wait and its Release
\* (timingwheel.go:204-205).
CleanedUpLast ==
  /\ main \in {"exited", "panicked"} => cleanups = 1
  /\ cleanups > 0 /\ err # "afterStart" =>
       LoggerUsers \subseteq {"watcher", "late"}
         \cup {u \in {"wheel"} : stopping["storage"] = "failed"}

\* Stop, or the failure of a server, ends the process, whatever else fails and
\* whatever order the goroutines run in, unless Run waits for ever for one of
\* three: an http server whose Stop came before its Start had assigned srv, and
\* stopped nothing (http.go:77-85); a tw.Stop whose wait group never empties,
\* which stopTimeout does not bound (storage.go:191); and a GracefulStop, for a
\* request that stays in Offer (queue.go:117-121).
Missed == stopping["http"] = "returned" /\ "http" \notin shut

Ends ==
  <>[](cancelled \/ first # "nil" =>
         ~Alive \/ Missed \/ wheel = "hung" \/ "jammed" \in left)

=============================================================================
