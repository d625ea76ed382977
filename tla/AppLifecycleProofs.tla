--------------------------- MODULE AppLifecycleProofs ---------------------------
(***************************************************************************)
(* Proofs about AppLifecycle, for any number of faults: how a run ends, and  *)
(* what is left when the logger is cleaned up.                               *)
(***************************************************************************)
EXTENDS AppLifecycle, TLAPS

\* The types that the arguments need.
Typed ==
  /\ starting \in [Server -> {"none", "asked", "begun", "built", "serving", "returned"}]
  /\ stopping \in [Server -> {"none", "waits", "drains", "returned", "failed"}]
  /\ spawned \in 0 .. 3 /\ (main = "spawn" => spawned < 3)
  /\ set \subseteq NetServer /\ shut \subseteq set
  /\ wheel \in {"new", "polls", "running", "stopping", "woken", "hung", "stopped"}
  /\ faults \in Nat
  /\ cleanups \in Nat

\* Nothing is shut down unless the context is done, the first ErrServerClosed
\* needs a Shutdown, and an HTTP server that has returned has left an error.
Cause ==
  /\ shut # {} => cancelled \/ first # "nil"
  /\ first = "ErrServerClosed" => cancelled
  /\ starting["http"] = "returned" => first # "nil"
  /\ main = "returned" => err # "nil" /\ (err = "ErrServerClosed" => cancelled)
  /\ main = "exited" => cancelled

\* Where a run that a signal has reached may end.
Ended == {"exited", "panicked", "crashed", "reused"}

\* A goroutine exists once its server has had its turn; a field is set when
\* its Start has come so far.
Placed ==
  /\ main \in Booting \cup {"beforeStart"} => spawned = 0
  /\ spawned = 0 => starting["http"] = "none" /\ starting["grpc"] = "none"
                    /\ starting["storage"] = "none"
  /\ spawned < 2 => starting["grpc"] = "none"
  /\ spawned < 3 => starting["storage"] = "none"
  /\ wheel = "polls" => starting["storage"] = "built"
  /\ wheel = "running" => starting["storage"] = "returned"
  /\ main \in Before \cup {"aborted", "killed"} => watch = "none"
  /\ watch \in {"waits", "nil", "beforeStop"} => main \in {"wait", "crashed", "reused"}
  /\ watch = "returned" => main \in {"wait", "returned"} \cup Ended
  /\ \A s \in NetServer : starting[s] \in {"built", "serving"} => s \in set
  /\ \A s \in NetServer : starting[s] \in {"none", "asked", "begun"} => s \notin set

\* What a signal that finds every server up leaves possible.
Ready ==
  ready => /\ cancelled
           /\ watch \in {"nil", "beforeStop", "returned"}
           /\ main \in {"wait", "returned"} \cup Ended
           /\ NetServer \subseteq set
           /\ \A s \in NetServer : starting[s] \in {"serving", "returned"}
           /\ starting["storage"] = "returned"
           /\ faults = 0 => /\ first \in {"nil", "ErrServerClosed"}
                            /\ watch # "beforeStop"
                            /\ main = "returned" => err = "ErrServerClosed"
                            /\ main \notin {"panicked", "crashed"}
                            /\ main = "reused" => InStorage

EndInv == Typed /\ Cause /\ Placed /\ Ready

LEMMA EndInit == Init => EndInv
  BY DEF Init, EndInv, Typed, Cause, Placed, Ready, Before, Booting, Server, NetServer

USE DEF Server, NetServer

LEMMA EndStep == EndInv /\ [Next]_vars => EndInv'
<1> SUFFICES ASSUME EndInv, Next PROVE EndInv'
  <2>1. EndInv /\ UNCHANGED vars => EndInv'
    BY DEF EndInv, Typed, Cause, Placed, Ready, Ended, InStorage, vars, boot, servers, signals, users
  <2> QED BY <2>1
<1>1. CASE Boot
  <2>1. CASE RegisterStorage
    BY <2>1 DEF EndInv, Typed, Cause, Placed, Ready, Ended, InStorage, RegisterStorage, Built, Booting, Before, Panic, Fault, servers, signals
  <2>2. CASE /\ LoadConfig \/ InitLogger \/ InitSQLX
             /\ UNCHANGED <<err, servers, signals, users>>
    BY <2>2 DEF EndInv, Typed, Cause, Placed, Ready, Ended, InStorage, LoadConfig, InitLogger, InitSQLX, Built, Booting, Before, Panic, Fault, servers, signals, users
  <2> QED BY <1>1, <2>1, <2>2 DEF Boot
<1>2. CASE Hook
  BY <1>2 DEF EndInv, Typed, Cause, Placed, Ready, Ended, InStorage, Hook, Booting, Before, Fault, boot, servers, signals, users
<1>3. CASE Spawn
  BY <1>3 DEF EndInv, Typed, Cause, Placed, Ready, Ended, InStorage, Spawn, Booting, Before, Order, boot, servers, signals, users
<1>4. CASE Started
  BY <1>4 DEF EndInv, Typed, Cause, Placed, Ready, Ended, InStorage, Started, Booting, Before, boot, servers, signals, users
<1>5. CASE Notify
  BY <1>5 DEF EndInv, Typed, Cause, Placed, Ready, Ended, InStorage, Notify, Booting, Before, boot, servers, signals, users
<1>6. CASE RunReturns
  BY <1>6 DEF EndInv, Typed, Cause, Placed, Ready, Ended, InStorage, RunReturns, Booting, Before, boot, servers, signals, users
<1>7. CASE End
  BY <1>7 DEF EndInv, Typed, Cause, Placed, Ready, Ended, InStorage, End, Booting, Before, boot, servers, signals, users
<1>8. CASE WatchStops
  <2>1. Typed' /\ Cause' /\ Placed'
    BY <1>8 DEF EndInv, Typed, Cause, Placed, Ready, Ended, InStorage, WatchStops, Alive, Over, Fault, Booting, Before, boot, servers, signals, users
  <2>2. ready' => Up /\ first = "nil"
    BY <1>8 DEF WatchStops
  <2>3. Up => /\ starting["http"] = "serving" /\ starting["grpc"] = "serving"
              /\ wheel = "running"
    BY DEF Up
  <2>4. Ready'
    BY <1>8, <2>2, <2>3 DEF EndInv, Typed, Cause, Placed, Ready, Ended, InStorage, WatchStops, Alive, Over, Fault, Booting, Before, boot, servers, signals, users
  <2> QED BY <2>1, <2>4 DEF EndInv
<1>9. CASE WatchReturns
  <2>1. Typed'
    BY <1>9 DEF EndInv, Typed, Cause, Placed, Ready, Ended, InStorage, WatchReturns, Alive, Over, CtxDone, Keep, Booting, Before, boot, servers, signals, users
  <2>2. Cause'
    BY <1>9 DEF EndInv, Typed, Cause, Placed, Ready, Ended, InStorage, WatchReturns, Alive, Over, CtxDone, Keep, Booting, Before, boot, servers, signals, users
  <2>3. Placed'
    BY <1>9 DEF EndInv, Typed, Cause, Placed, Ready, Ended, InStorage, WatchReturns, Alive, Over, CtxDone, Keep, Booting, Before, boot, servers, signals, users
  <2>4. Ready'
    BY <1>9 DEF EndInv, Typed, Cause, Placed, Ready, Ended, InStorage, WatchReturns, Alive, Over, CtxDone, Keep, Booting, Before, boot, servers, signals, users
  <2> QED BY <2>1, <2>2, <2>3, <2>4 DEF EndInv
<1>10. ASSUME NEW s \in Server, StartBegin(s) PROVE EndInv'
  BY <1>10 DEF EndInv, Typed, Cause, Placed, Ready, Ended, InStorage, StartBegin, Alive, Over, boot, servers, signals, users
<1>11. ASSUME NEW s \in NetServer, NetBuild(s) PROVE EndInv'
  <2>1. Typed'
    <3>1. CASE /\ starting' = [starting EXCEPT ![s] = "built"]
               /\ set' = set \cup {s} /\ UNCHANGED <<first, faults>>
      BY <1>11, <3>1 DEF EndInv, Typed, NetBuild, boot
    <3>2. CASE Fault /\ StartReturns(s, "build") /\ UNCHANGED set
      BY <1>11, <3>2 DEF EndInv, Typed, NetBuild, Fault, StartReturns, boot
    <3> QED BY <1>11, <3>1, <3>2 DEF NetBuild
  <2>2. Cause'
    BY <1>11 DEF EndInv, Typed, Cause, Placed, Ready, Ended, InStorage, NetBuild, Alive, Over, Fault, StartReturns, Keep, boot, servers, signals, users
  <2>3. Placed'
    BY <1>11 DEF EndInv, Typed, Cause, Placed, Ready, Ended, InStorage, NetBuild, Alive, Over, Fault, StartReturns, Keep, boot, servers, signals, users
  <2>4. Ready'
    BY <1>11 DEF EndInv, Typed, Cause, Placed, Ready, Ended, InStorage, NetBuild, Alive, Over, Fault, StartReturns, Keep, boot, servers, signals, users
  <2> QED BY <2>1, <2>2, <2>3, <2>4 DEF EndInv
<1>12. ASSUME NEW s \in NetServer, NetServe(s) PROVE EndInv'
  BY <1>12 DEF EndInv, Typed, Cause, Placed, Ready, Ended, InStorage, NetServe, Alive, Over, Fault, StartReturns, Keep, boot, servers, signals, users
<1>13. ASSUME NEW s \in NetServer, NetServed(s) PROVE EndInv'
  BY <1>13 DEF EndInv, Typed, Cause, Placed, Ready, Ended, InStorage, NetServed, Alive, Over, StartReturns, Keep, boot, servers, signals, users
<1>14. ASSUME NEW s \in NetServer, NetFails(s) PROVE EndInv'
  BY <1>14 DEF EndInv, Typed, Cause, Placed, Ready, Ended, InStorage, NetFails, Alive, Over, Fault, StartReturns, Keep, boot, servers, signals, users
<1>15. CASE StorageStart
  BY <1>15 DEF EndInv, Typed, Cause, Placed, Ready, Ended, InStorage, StorageStart, Wrap, Alive, Over, StartReturns, Keep, boot, servers, signals, users
<1>16. CASE HttpMiss
  BY <1>16 DEF EndInv, Typed, Cause, Placed, Ready, Ended, InStorage, HttpMiss, Alive, Over, CtxDone, StopReturns, Keep, boot, servers, signals, users
<1>17. CASE GrpcCrash
  BY <1>17 DEF EndInv, Typed, Cause, Placed, Ready, Ended, InStorage, GrpcCrash, Alive, Over, CtxDone, Booting, Before, boot, servers, signals, users
<1>18. ASSUME NEW s \in NetServer, NetStop(s) PROVE EndInv'
  BY <1>18 DEF EndInv, Typed, Cause, Placed, Ready, Ended, InStorage, NetStop, Alive, Over, CtxDone, boot, servers, signals, users
<1>19. ASSUME NEW s \in NetServer, NetDrained(s) PROVE EndInv'
  BY <1>19 DEF EndInv, Typed, Cause, Placed, Ready, Ended, InStorage, NetDrained, Alive, Over, StopReturns, Keep, boot, servers, signals, users
<1>20. CASE StorageStop
  BY <1>20 DEF EndInv, Typed, Cause, Placed, Ready, Ended, InStorage, StorageStop, Alive, Over, CtxDone, Fault, StopReturns, Keep, boot, servers, signals, users
<1>21. CASE Signal
  BY <1>21 DEF EndInv, Typed, Cause, Placed, Ready, Ended, InStorage, Signal, Alive, Over, Booting, Before, boot, servers, signals, users
<1>22. CASE Call
  BY <1>22 DEF EndInv, Typed, Cause, Placed, Ready, Ended, InStorage, Call, Alive, Over, Serving, boot, servers, signals, users
<1>23. CASE Relay
  BY <1>23 DEF EndInv, Typed, Cause, Placed, Ready, Ended, InStorage, Relay, Alive, Over, Serving, boot, servers, signals, users
<1>24. CASE Answer
  BY <1>24 DEF EndInv, Typed, Cause, Placed, Ready, Ended, InStorage, Answer, Alive, Over, boot, servers, signals, users
<1>25. CASE GatewayCut
  BY <1>25 DEF EndInv, Typed, Cause, Placed, Ready, Ended, InStorage, GatewayCut, Alive, Over, boot, servers, signals, users
<1>26. CASE StorageDrained
  BY <1>26 DEF EndInv, Typed, Cause, Placed, Ready, Ended, InStorage, StorageDrained, Alive, Over, boot, servers, signals, users
<1>27. CASE StorageReleased
  BY <1>27 DEF EndInv, Typed, Cause, Placed, Ready, Ended, InStorage, StorageReleased, Alive, Over, StopReturns, Keep, boot, servers, signals, users
<1>28. CASE Arm
  BY <1>28 DEF EndInv, Typed, Cause, Placed, Ready, Ended, InStorage, Arm, Alive, Over, boot, servers, signals, users
<1>29. CASE LateEnds
  BY <1>29 DEF EndInv, Typed, Cause, Placed, Ready, Ended, InStorage, LateEnds, Alive, Over, boot, servers, signals, users
<1>30. CASE WaitReused
  BY <1>30 DEF EndInv, Typed, Cause, Placed, Ready, Ended, InStorage, WaitReused, Alive, Over, Booting, Before, boot, servers, signals, users
<1>31. CASE WatchOrdinalEnds
  BY <1>31 DEF EndInv, Typed, Cause, Placed, Ready, Ended, InStorage, WatchOrdinalEnds, Alive, Over, boot, servers, signals, users
<1> QED
  BY <1>1, <1>2, <1>3, <1>4, <1>5, <1>6, <1>7, <1>8, <1>9, <1>10, <1>11, <1>12, <1>13, <1>14, <1>15, <1>16, <1>17, <1>18, <1>19, <1>20, <1>21, <1>22, <1>23, <1>24, <1>25, <1>26, <1>27, <1>28, <1>29, <1>30, <1>31
    DEF Next, MainStep, WatchStep, StartStep, StopStep

\* Once Run has returned, but for an afterStart hook.
Quiet ==
  /\ \A s \in Server : /\ starting[s] \in {"none", "returned"}
                       /\ stopping[s] \in {"none", "returned", "failed"}
  /\ call \notin {"rpc", "relayed"}
  /\ wheel \in {"new", "stopped"} \/ stopping["storage"] = "failed"

\* Which state of the wheel goes with which of the storage's Stop, and what a
\* grpc Stop that has returned says of the requests.
QuietInv ==
  /\ main \in {"exited", "panicked"} => cleanups = 1
  /\ main \notin {"exited", "panicked"} => cleanups = 0
  /\ main \in {"returned", "exited", "panicked"} /\ err # "afterStart" => Quiet
  /\ stopping["storage"] = "returned" => wheel = "stopped"
  /\ wheel \in {"stopping", "woken", "hung"} => stopping["storage"] = "drains"
  /\ spawned = 0 => \A s \in Server : stopping[s] = "none"
  /\ spawned < 3 => stopping["storage"] = "none"
  /\ stopping["grpc"] = "drains" => "grpc" \in shut
  /\ stopping["grpc"] \in {"returned", "failed"} =>
       "grpc" \in shut /\ call \notin {"rpc", "relayed"}
  /\ call \in {"rpc", "relayed"} => "grpc" \in set

LEMMA QuietStep == EndInv /\ QuietInv /\ [Next]_vars => QuietInv'
<1> SUFFICES ASSUME EndInv, QuietInv, Next PROVE QuietInv'
  <2>1. EndInv /\ QuietInv /\ UNCHANGED vars => QuietInv'
    BY DEF EndInv, QuietInv, Typed, Placed, Quiet, vars, boot, servers, signals, users
  <2> QED BY <2>1
<1>1. CASE Boot
  <2>1. CASE RegisterStorage
    BY <2>1 DEF EndInv, QuietInv, Typed, Placed, Quiet, RegisterStorage, Built, Booting, Before, Panic, Fault, servers, signals
  <2>2. CASE /\ LoadConfig \/ InitLogger \/ InitSQLX
             /\ UNCHANGED <<err, servers, signals, users>>
    BY <2>2 DEF EndInv, QuietInv, Typed, Placed, Quiet, LoadConfig, InitLogger, InitSQLX, Built, Booting, Before, Panic, Fault, servers, signals, users
  <2> QED BY <1>1, <2>1, <2>2 DEF Boot
<1>2. CASE Hook
  BY <1>2 DEF EndInv, QuietInv, Typed, Placed, Quiet, Hook, Booting, Before, Fault, boot, servers, signals, users
<1>3. CASE Spawn
  BY <1>3 DEF EndInv, QuietInv, Typed, Placed, Quiet, Spawn, Booting, Before, Order, boot, servers, signals, users
<1>4. CASE Started
  BY <1>4 DEF EndInv, QuietInv, Typed, Placed, Quiet, Started, Booting, Before, boot, servers, signals, users
<1>5. CASE Notify
  BY <1>5 DEF EndInv, QuietInv, Typed, Placed, Quiet, Notify, Booting, Before, boot, servers, signals, users
<1>6. CASE RunReturns
  BY <1>6 DEF EndInv, QuietInv, Typed, Placed, Quiet, RunReturns, Booting, Before, boot, servers, signals, users
<1>7. CASE End
  BY <1>7 DEF EndInv, QuietInv, Typed, Placed, Quiet, End, Booting, Before, boot, servers, signals, users
<1>8. CASE WatchStops
  BY <1>8 DEF EndInv, QuietInv, Typed, Placed, Quiet, WatchStops, Alive, Over, Up, Fault, Booting, Before, boot, servers, signals, users
<1>9. CASE WatchReturns
  BY <1>9 DEF EndInv, QuietInv, Typed, Placed, Quiet, WatchReturns, Alive, Over, CtxDone, Keep, Booting, Before, boot, servers, signals, users
<1>10. ASSUME NEW s \in Server, StartBegin(s) PROVE QuietInv'
  BY <1>10 DEF EndInv, QuietInv, Typed, Placed, Quiet, StartBegin, Alive, Over, boot, servers, signals, users
<1>11. ASSUME NEW s \in NetServer, NetBuild(s) PROVE QuietInv'
  BY <1>11 DEF EndInv, QuietInv, Typed, Placed, Quiet, NetBuild, Alive, Over, Fault, StartReturns, Keep, boot, servers, signals, users
<1>12. ASSUME NEW s \in NetServer, NetServe(s) PROVE QuietInv'
  BY <1>12 DEF EndInv, QuietInv, Typed, Placed, Quiet, NetServe, Alive, Over, Fault, StartReturns, Keep, boot, servers, signals, users
<1>13. ASSUME NEW s \in NetServer, NetServed(s) PROVE QuietInv'
  BY <1>13 DEF EndInv, QuietInv, Typed, Placed, Quiet, NetServed, Alive, Over, StartReturns, Keep, boot, servers, signals, users
<1>14. ASSUME NEW s \in NetServer, NetFails(s) PROVE QuietInv'
  BY <1>14 DEF EndInv, QuietInv, Typed, Placed, Quiet, NetFails, Alive, Over, Fault, StartReturns, Keep, boot, servers, signals, users
<1>15. CASE StorageStart
  BY <1>15 DEF EndInv, QuietInv, Typed, Placed, Quiet, StorageStart, Wrap, Alive, Over, StartReturns, Keep, boot, servers, signals, users
<1>16. CASE HttpMiss
  BY <1>16 DEF EndInv, QuietInv, Typed, Placed, Quiet, HttpMiss, Alive, Over, CtxDone, StopReturns, Keep, boot, servers, signals, users
<1>17. CASE GrpcCrash
  BY <1>17 DEF EndInv, QuietInv, Typed, Placed, Quiet, GrpcCrash, Alive, Over, CtxDone, Booting, Before, boot, servers, signals, users
<1>18. ASSUME NEW s \in NetServer, NetStop(s) PROVE QuietInv'
  BY <1>18 DEF EndInv, QuietInv, Typed, Placed, Quiet, NetStop, Alive, Over, CtxDone, boot, servers, signals, users
<1>19. ASSUME NEW s \in NetServer, NetDrained(s) PROVE QuietInv'
  BY <1>19 DEF EndInv, QuietInv, Typed, Placed, Quiet, NetDrained, Alive, Over, StopReturns, Keep, boot, servers, signals, users
<1>20. CASE StorageStop
  BY <1>20 DEF EndInv, QuietInv, Typed, Placed, Quiet, StorageStop, Alive, Over, CtxDone, Fault, StopReturns, Keep, boot, servers, signals, users
<1>21. CASE Signal
  BY <1>21 DEF EndInv, QuietInv, Typed, Placed, Quiet, Signal, Alive, Over, Booting, Before, boot, servers, signals, users
<1>22. CASE Call
  BY <1>22 DEF EndInv, QuietInv, Typed, Placed, Quiet, Call, Alive, Over, Serving, boot, servers, signals, users
<1>23. CASE Relay
  BY <1>23 DEF EndInv, QuietInv, Typed, Placed, Quiet, Relay, Alive, Over, Serving, boot, servers, signals, users
<1>24. CASE Answer
  BY <1>24 DEF EndInv, QuietInv, Typed, Placed, Quiet, Answer, Alive, Over, boot, servers, signals, users
<1>25. CASE GatewayCut
  BY <1>25 DEF EndInv, QuietInv, Typed, Placed, Quiet, GatewayCut, Alive, Over, boot, servers, signals, users
<1>26. CASE StorageDrained
  BY <1>26 DEF EndInv, QuietInv, Typed, Placed, Quiet, InStorage, StorageDrained, Alive, Over, boot, servers, signals, users
<1>27. CASE StorageReleased
  BY <1>27 DEF EndInv, QuietInv, Typed, Placed, Quiet, InStorage, StorageReleased, Alive, Over, StopReturns, Keep, boot, servers, signals, users
<1>28. CASE Arm
  BY <1>28 DEF EndInv, QuietInv, Typed, Placed, Quiet, InStorage, Arm, Alive, Over, boot, servers, signals, users
<1>29. CASE LateEnds
  BY <1>29 DEF EndInv, QuietInv, Typed, Placed, Quiet, InStorage, LateEnds, Alive, Over, boot, servers, signals, users
<1>30. CASE WaitReused
  BY <1>30 DEF EndInv, QuietInv, Typed, Placed, Quiet, InStorage, WaitReused, Alive, Over, Booting, Before, boot, servers, signals, users
<1>31. CASE WatchOrdinalEnds
  BY <1>31 DEF EndInv, QuietInv, Typed, Placed, Quiet, InStorage, WatchOrdinalEnds, Alive, Over, boot, servers, signals, users
<1> QED
  BY <1>1, <1>2, <1>3, <1>4, <1>5, <1>6, <1>7, <1>8, <1>9, <1>10, <1>11, <1>12, <1>13, <1>14, <1>15, <1>16, <1>17, <1>18, <1>19, <1>20, <1>21, <1>22, <1>23, <1>24, <1>25, <1>26, <1>27, <1>28, <1>29, <1>30, <1>31
    DEF Next, MainStep, WatchStep, StartStep, StopStep

LEMMA FaultBound == faults \in 0 .. MaxFaults /\ Fault => faults' \in 0 .. MaxFaults
  BY AppAssumption DEF Fault

LEMMA TypeStep == EndInv /\ QuietInv /\ TypeOK /\ [Next]_vars => TypeOK'
<1> SUFFICES ASSUME EndInv, QuietInv, TypeOK, Next PROVE TypeOK'
  <2>1. TypeOK /\ UNCHANGED vars => TypeOK'
    BY DEF EndInv, Typed, TypeOK, QuietInv, Errors, vars, Booting, Before, Over, boot, servers, signals, users
  <2> QED BY <2>1
<1>1. CASE Boot
  <2>1. CASE RegisterStorage
    BY <2>1, FaultBound DEF TypeOK, QuietInv, Errors, Booting, Before, Over, RegisterStorage, Built, Panic, servers, signals
  <2>2. CASE /\ LoadConfig \/ InitLogger \/ InitSQLX
             /\ UNCHANGED <<err, servers, signals, users>>
    BY <2>2, FaultBound DEF TypeOK, QuietInv, Errors, Booting, Before, Over, LoadConfig, InitLogger, InitSQLX, Built, Panic, servers, signals, users
  <2> QED BY <1>1, <2>1, <2>2 DEF Boot
<1>2. CASE Hook
  BY <1>2, FaultBound DEF EndInv, Typed, TypeOK, QuietInv, Errors, Booting, Before, Over, Hook, boot, servers, signals, users
<1>3. CASE Spawn
  BY <1>3 DEF EndInv, Typed, TypeOK, QuietInv, Errors, Booting, Before, Over, Spawn, Order, boot, servers, signals, users
<1>4. CASE Started
  BY <1>4 DEF EndInv, Typed, TypeOK, QuietInv, Errors, Booting, Before, Over, Started, boot, servers, signals, users
<1>5. CASE Notify
  BY <1>5 DEF EndInv, Typed, TypeOK, QuietInv, Errors, Booting, Before, Over, Notify, boot, servers, signals, users
<1>6. CASE RunReturns
  BY <1>6 DEF EndInv, Typed, TypeOK, QuietInv, Errors, Booting, Before, Over, RunReturns, boot, servers, signals, users
<1>7. CASE End
  BY <1>7 DEF EndInv, Typed, TypeOK, QuietInv, Errors, Booting, Before, Over, End, boot, servers, signals, users
<1>8. CASE WatchStops
  <2>1. ready' \in BOOLEAN
    BY <1>8 DEF WatchStops, Up
  <2>2. cancelled' \in BOOLEAN /\ signal' \in BOOLEAN
    BY <1>8 DEF WatchStops, TypeOK
  <2>3. watch' \in {"nil", "beforeStop"} /\ faults' \in 0 .. MaxFaults
    BY <1>8, FaultBound DEF WatchStops, TypeOK
  <2>4. UNCHANGED <<boot, servers, users>>
    BY <1>8 DEF WatchStops
  <2> QED BY <2>1, <2>2, <2>3, <2>4 DEF TypeOK, boot, servers, users
<1>9. CASE WatchReturns
  BY <1>9 DEF EndInv, Typed, TypeOK, QuietInv, Errors, Booting, Before, Over, WatchReturns, Alive, CtxDone, Keep, boot, servers, signals, users
<1>10. ASSUME NEW s \in Server, StartBegin(s) PROVE TypeOK'
  BY <1>10 DEF EndInv, Typed, TypeOK, QuietInv, Errors, Booting, Before, Over, StartBegin, Alive, boot, servers, signals, users
<1>11. ASSUME NEW s \in NetServer, NetBuild(s) PROVE TypeOK'
  <2>1. CASE /\ starting' = [starting EXCEPT ![s] = "built"]
             /\ set' = set \cup {s} /\ UNCHANGED <<first, faults>>
    BY <1>11, <2>1 DEF TypeOK, NetBuild, boot, signals, users
  <2>2. CASE Fault /\ StartReturns(s, "build") /\ UNCHANGED set
    BY <1>11, <2>2, FaultBound DEF TypeOK, Errors, NetBuild, StartReturns, Keep, boot, signals, users
  <2> QED BY <1>11, <2>1, <2>2 DEF NetBuild
<1>12. ASSUME NEW s \in NetServer, NetServe(s) PROVE TypeOK'
  BY <1>12, FaultBound DEF EndInv, Typed, TypeOK, QuietInv, Errors, Booting, Before, Over, NetServe, Alive, StartReturns, Keep, boot, servers, signals, users
<1>13. ASSUME NEW s \in NetServer, NetServed(s) PROVE TypeOK'
  BY <1>13 DEF EndInv, Typed, TypeOK, QuietInv, Errors, Booting, Before, Over, NetServed, Alive, StartReturns, Keep, boot, servers, signals, users
<1>14. ASSUME NEW s \in NetServer, NetFails(s) PROVE TypeOK'
  BY <1>14, FaultBound DEF EndInv, Typed, TypeOK, QuietInv, Errors, Booting, Before, Over, NetFails, Alive, StartReturns, Keep, boot, servers, signals, users
<1>15. CASE StorageStart
  <2>1. /\ starting' \in [Server -> {"none", "asked", "begun", "built", "serving", "returned"}]
        /\ first' \in Errors
    BY <1>15 DEF TypeOK, Errors, StorageStart, Wrap, StartReturns, Keep
  <2>2. /\ wheel' \in {"new", "polls", "running", "stopping", "woken", "hung", "stopped"}
        /\ left' \subseteq {"jammed", "late"}
    BY <1>15 DEF TypeOK, StorageStart, Wrap
  <2>3. UNCHANGED <<boot, spawned, stopping, set, shut, signals, call, watcher, faults>>
    BY <1>15 DEF StorageStart
  <2> QED BY <2>1, <2>2, <2>3 DEF TypeOK, boot, signals
<1>16. CASE HttpMiss
  BY <1>16 DEF EndInv, Typed, TypeOK, QuietInv, Errors, Booting, Before, Over, HttpMiss, Alive, CtxDone, StopReturns, Keep, boot, servers, signals, users
<1>17. CASE GrpcCrash
  BY <1>17 DEF EndInv, Typed, TypeOK, QuietInv, Errors, Booting, Before, Over, GrpcCrash, Alive, CtxDone, boot, servers, signals, users
<1>18. ASSUME NEW s \in NetServer, NetStop(s) PROVE TypeOK'
  BY <1>18 DEF EndInv, Typed, TypeOK, QuietInv, Errors, Booting, Before, Over, NetStop, Alive, CtxDone, boot, servers, signals, users
<1>19. ASSUME NEW s \in NetServer, NetDrained(s) PROVE TypeOK'
  BY <1>19 DEF EndInv, Typed, TypeOK, QuietInv, Errors, Booting, Before, Over, NetDrained, Alive, StopReturns, Keep, boot, servers, signals, users
<1>20. CASE StorageStop
  BY <1>20, FaultBound DEF EndInv, Typed, TypeOK, QuietInv, Errors, Booting, Before, Over, StorageStop, Alive, CtxDone, StopReturns, Keep, boot, servers, signals, users
<1>21. CASE Signal
  BY <1>21 DEF EndInv, Typed, TypeOK, QuietInv, Errors, Booting, Before, Over, Signal, Alive, boot, servers, signals, users
<1>22. CASE Call
  BY <1>22 DEF EndInv, Typed, TypeOK, QuietInv, Errors, Booting, Before, Over, Call, Alive, Serving, boot, servers, signals, users
<1>23. CASE Relay
  BY <1>23 DEF EndInv, Typed, TypeOK, QuietInv, Errors, Booting, Before, Over, Relay, Alive, Serving, boot, servers, signals, users
<1>24. CASE Answer
  BY <1>24 DEF EndInv, Typed, TypeOK, QuietInv, Errors, Booting, Before, Over, Answer, Alive, boot, servers, signals, users
<1>25. CASE GatewayCut
  BY <1>25 DEF EndInv, Typed, TypeOK, QuietInv, Errors, Booting, Before, Over, GatewayCut, Alive, boot, servers, signals, users
<1>26. CASE StorageDrained
  BY <1>26 DEF EndInv, Typed, TypeOK, QuietInv, Errors, Booting, Before, Over, StorageDrained, Alive, Over, boot, servers, signals, users
<1>27. CASE StorageReleased
  BY <1>27 DEF EndInv, Typed, TypeOK, QuietInv, Errors, Booting, Before, Over, StorageReleased, Alive, Over, StopReturns, Keep, boot, servers, signals, users
<1>28. CASE Arm
  <2>1. left' \subseteq {"jammed", "late"}
    BY <1>28 DEF TypeOK, Arm
  <2> QED BY <1>28, <2>1 DEF TypeOK, Arm, boot, servers, signals
<1>29. CASE LateEnds
  BY <1>29 DEF EndInv, Typed, TypeOK, QuietInv, Errors, Booting, Before, Over, LateEnds, Alive, Over, boot, servers, signals, users
<1>30. CASE WaitReused
  BY <1>30 DEF EndInv, Typed, TypeOK, QuietInv, Errors, Booting, Before, Over, WaitReused, Alive, Over, Booting, Before, boot, servers, signals, users
<1>31. CASE WatchOrdinalEnds
  BY <1>31 DEF EndInv, Typed, TypeOK, QuietInv, Errors, Booting, Before, Over, WatchOrdinalEnds, Alive, Over, boot, servers, signals, users
<1> QED
  BY <1>1, <1>2, <1>3, <1>4, <1>5, <1>6, <1>7, <1>8, <1>9, <1>10, <1>11, <1>12, <1>13, <1>14, <1>15, <1>16, <1>17, <1>18, <1>19, <1>20, <1>21, <1>22, <1>23, <1>24, <1>25, <1>26, <1>27, <1>28, <1>29, <1>30, <1>31
    DEF Next, MainStep, WatchStep, StartStep, StopStep

LEMMA EndInvariant == Spec => [](EndInv /\ QuietInv)
<1>1. Init => EndInv /\ QuietInv
  BY EndInit DEF Init, QuietInv
<1> QED BY <1>1, EndStep, QuietStep, PTL DEF Spec

\* The goroutines, the fields they share and the group's error stay in their
\* types (app.go:55-110), whatever fails.
THEOREM TypeCorrect == Spec => []TypeOK
<1>1. Init => TypeOK
  <2>1. 0 \in 0 .. 3 /\ 0 \in 0 .. 1 /\ 0 \in 0 .. MaxFaults
    BY AppAssumption
  <2> QED BY <2>1 DEF Init, TypeOK, Before, Booting, Over, Errors
<1> QED BY <1>1, EndInvariant, TypeStep, PTL DEF Spec

\* A signal that finds every server up, in a run without a fault, never ends in
\* a panic, and in no crash (App.Run, main.go:60) but that of the wheel's wait
\* group under a request that is being served, for any bound on the faults.
THEOREM ExitIsClean == Spec => []CleanExit
<1>1. EndInv => CleanExit
  BY DEF EndInv, Ready, CleanExit
<1> QED BY <1>1, EndInvariant, PTL

\* The failure of a server is never taken for an orderly stop (main.go:60).
THEOREM FailuresAreReported == Spec => []FailureIsReported
<1>1. EndInv => FailureIsReported
  BY DEF EndInv, Cause, FailureIsReported
<1> QED BY <1>1, EndInvariant, PTL

\* The logger is cleaned up once (main.go:56-58); of what Run started nothing
\* that writes to it is left then (app.go:103), but for the reasons that
\* CleanedUpLast names, and WatchOrdinal, which nothing stops, may go on.
THEOREM CleansUpLast == Spec => []CleanedUpLast
<1>1. QuietInv => CleanedUpLast
  <2>1. Quiet => LoggerUsers \subseteq {"watcher", "late"}
                   \cup {u \in {"wheel"} : stopping["storage"] = "failed"}
    BY DEF Quiet, LoggerUsers
  <2> QED BY <2>1 DEF QuietInv, CleanedUpLast
<1> QED BY <1>1, EndInvariant, PTL

=============================================================================
