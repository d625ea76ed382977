------------------------------ MODULE NodeRange ------------------------------
(***************************************************************************)
(* How a process learns which pods of its stateful set are alive, and      *)
(* which rows it therefore fetches (internal/service/provider_set.go,      *)
(* Storage.SetNodes and FetchPendingTasks).                                *)
(*                                                                         *)
(* Two goroutines of a process work on one SafeMap of ordinals: the watch, *)
(* which is started once and applies the events of the API server, and the *)
(* pull, a periodic task that lists the pods.  Each then reads the keys and *)
(* calls SetNodes, with nothing that keeps the other out in between.  The  *)
(* pending cron reads the two ends of d.ns one after the other.  The API   *)
(* server is external: it reports the changes of one pod in order and      *)
(* starts a watch with the pods there are.                                 *)
(***************************************************************************)
EXTENDS Integers, Sequences, FiniteSets

CONSTANTS MaxOrdinal, \* the highest ordinal of a pod
          Node,       \* the pods whose process is modelled
          Last,       \* math.MaxInt64, the end of the last range
          MaxChurn    \* bound: pods that start or stop

Ordinal == 0 .. MaxOrdinal
Thread == {"watch", "pull"}

ASSUME OrdinalAssumption ==
  /\ MaxOrdinal \in Nat
  /\ Node \subseteq Ordinal
  /\ Last \in Nat /\ Last > MaxOrdinal
  /\ MaxChurn \in Nat

VARIABLES alive,  \* the pods there are
          churn,  \* how many have started or stopped
          watch,  \* WatchOrdinal: "none" yet, "on", or "ended" for good
          events, \* the events of each pod the watch has still to receive
          known,  \* ss.ordinals
          pc,     \* where each goroutine is between its change and SetNodes
          listed, \* the pods a pull has listed and not yet stored
          keys,   \* the keys a goroutine has read
          view,   \* the list last given to SetNodes
          ns,     \* d.ns
          lo      \* the lower end a cron run has read, Last when there is none

vars == <<alive, churn, watch, events, known, pc, listed, keys, view, ns, lo>>

Least(S) == CHOOSE x \in S : \A y \in S : x <= y
Greatest(S) == CHOOSE x \in S : \A y \in S : x >= y

\* Mutant: the search skips the node's own ordinal.
RangeOfStrict(n, nodes, old) ==
  LET all   == IF nodes = {} THEN {n} ELSE nodes
      above == {m \in all : m > n}
  IN IF above = {} THEN old
     ELSE <<Greatest({-1} \cup {m \in all : m < Least(above)}),
            IF Least(above) = Greatest(all) THEN Last ELSE Least(above)>>

\* Mutant: the range begins at the node found, not at the one before.
RangeOfAtSelf(n, nodes, old) ==
  LET all   == IF nodes = {} THEN {n} ELSE nodes
      above == {m \in all : m >= n}
  IN IF above = {} THEN old ELSE <<Least(above), Least(above)>>

\* Mutant: the last node ends at its own ordinal as every other does.
RangeOfBounded(n, nodes, old) ==
  LET all   == IF nodes = {} THEN {n} ELSE nodes
      above == {m \in all : m >= n}
  IN IF above = {} THEN old
     ELSE <<Greatest({-1} \cup {m \in all : m < Least(above)}), Least(above)>>

\* The range SetNodes computes from a sorted list: it ends at the first node
\* that is not below n, and starts after the one before that.
RangeOf(n, nodes, old) ==
  LET all   == IF nodes = {} THEN {n} ELSE nodes
      above == {m \in all : m >= n}
      below == {-1} \cup {m \in all : m < Least(above)}
  IN IF above = {}
       THEN old
       ELSE <<Greatest(below),
              IF Least(above) = Greatest(all) THEN Last ELSE Least(above)>>

InRange(o, r) == r[1] < o /\ o <= r[2]
\* New: until it hears of others a process fetches every row.
Fresh(n) == RangeOf(n, {n}, <<-1, Last>>)

Init ==
  /\ alive = {}
  /\ churn = 0
  /\ watch = [n \in Node |-> "none"]
  /\ events = [n \in Node |-> [o \in Ordinal |-> << >>]]
  /\ known = [n \in Node |-> {}]
  /\ pc = [n \in Node |-> [g \in Thread |-> "idle"]]
  /\ listed = [n \in Node |-> {}]
  /\ keys = [n \in Node |-> [g \in Thread |-> {}]]
  /\ view = [n \in Node |-> {n}]
  /\ ns = [n \in Node |-> Fresh(n)]
  /\ lo = [n \in Node |-> Last]

-------------------------------------------------------------------------------
(* Pods.  Every process with a watch is told of every change. *)

Told(o, what) ==
  [n \in Node |-> IF watch[n] = "on"
                    THEN [events[n] EXCEPT ![o] = Append(@, what)]
                    ELSE events[n]]

PodStart(o) ==
  /\ churn < MaxChurn
  /\ o \notin alive
  /\ alive' = alive \cup {o}
  /\ churn' = churn + 1
  /\ events' = Told(o, "Added")
  /\ UNCHANGED <<watch, known, pc, listed, keys, view, ns, lo>>

\* The memory of a process goes with its pod.
PodStop(o) ==
  /\ churn < MaxChurn
  /\ o \in alive
  /\ alive' = alive \ {o}
  /\ churn' = churn + 1
  /\ events' = [n \in Node |-> IF n = o THEN [p \in Ordinal |-> << >>]
                                        ELSE Told(o, "Deleted")[n]]
  /\ watch' = [n \in Node |-> IF n = o THEN "none" ELSE watch[n]]
  /\ known' = [n \in Node |-> IF n = o THEN {} ELSE known[n]]
  /\ pc' = [n \in Node |-> IF n = o THEN [g \in Thread |-> "idle"] ELSE pc[n]]
  /\ listed' = [n \in Node |-> IF n = o THEN {} ELSE listed[n]]
  /\ keys' = [n \in Node |-> IF n = o THEN [g \in Thread |-> {}] ELSE keys[n]]
  /\ view' = [n \in Node |-> IF n = o THEN {n} ELSE view[n]]
  /\ ns' = [n \in Node |-> IF n = o THEN Fresh(n) ELSE ns[n]]
  /\ lo' = [n \in Node |-> IF n = o THEN Last ELSE lo[n]]

-------------------------------------------------------------------------------
(* The watch. *)

WatchStart(n) ==
  /\ n \in alive
  /\ watch[n] = "none"
  /\ watch' = [watch EXCEPT ![n] = "on"]
  /\ events' = [events EXCEPT ![n] =
                  [o \in Ordinal |-> IF o \in alive THEN <<"Added">> ELSE << >>]]
  /\ UNCHANGED <<alive, churn, known, pc, listed, keys, view, ns, lo>>

\* The channel is closed, or an event names a pod without an ordinal (or the
\* watch could not be started): WatchOrdinal returns and nobody calls it again.
WatchEnd(n) ==
  /\ n \in alive
  /\ watch[n] # "ended"
  /\ pc[n]["watch"] = "idle"
  /\ watch' = [watch EXCEPT ![n] = "ended"]
  /\ events' = [events EXCEPT ![n] = [o \in Ordinal |-> << >>]]
  /\ UNCHANGED <<alive, churn, known, pc, listed, keys, view, ns, lo>>

\* Mutant: the deletion of a pod is not applied.
WatchEventAddOnly(n, o) ==
  /\ watch[n] = "on"
  /\ pc[n]["watch"] = "idle"
  /\ events[n][o] # << >>
  /\ events' = [events EXCEPT ![n][o] = Tail(@)]
  /\ known' = [known EXCEPT ![n] = @ \cup {o}]
  /\ pc' = [pc EXCEPT ![n]["watch"] = "keys"]
  /\ UNCHANGED <<alive, churn, watch, listed, keys, view, ns, lo>>

\* Modified events, and events without a pod, change nothing.
WatchEvent(n, o) ==
  /\ watch[n] = "on"
  /\ pc[n]["watch"] = "idle"
  /\ events[n][o] # << >>
  /\ events' = [events EXCEPT ![n][o] = Tail(@)]
  /\ known' = [known EXCEPT ![n] = IF Head(events[n][o]) = "Added"
                                     THEN @ \cup {o} ELSE @ \ {o}]
  /\ pc' = [pc EXCEPT ![n]["watch"] = "keys"]
  /\ UNCHANGED <<alive, churn, watch, listed, keys, view, ns, lo>>

-------------------------------------------------------------------------------
(* The pull.  A list that fails leaves the map nil: the task panics in      *)
(* GetSortOrdinal, after the next one has been scheduled, and changes       *)
(* nothing here (WheelLifecycle has tasks that panic).                      *)

PullList(n) ==
  /\ n \in alive
  /\ pc[n]["pull"] = "idle"
  /\ listed' = [listed EXCEPT ![n] = alive]
  /\ pc' = [pc EXCEPT ![n]["pull"] = "store"]
  /\ UNCHANGED <<alive, churn, watch, events, known, keys, view, ns, lo>>

\* Mutant: only the first pod of the list is stored.
PullStoreFirst(n, o) ==
  /\ pc[n]["pull"] = "store"
  /\ o \in listed[n]
  /\ listed' = [listed EXCEPT ![n] = {}]
  /\ known' = [known EXCEPT ![n] = @ \cup {o}]
  /\ pc' = [pc EXCEPT ![n]["pull"] = "keys"]
  /\ UNCHANGED <<alive, churn, watch, events, keys, view, ns, lo>>

PullStore(n, o) ==
  /\ pc[n]["pull"] = "store"
  /\ o \in listed[n]
  /\ listed' = [listed EXCEPT ![n] = @ \ {o}]
  /\ known' = [known EXCEPT ![n] = @ \cup {o}]
  /\ pc' = [pc EXCEPT ![n]["pull"] = IF listed[n] = {o} THEN "keys" ELSE "store"]
  /\ UNCHANGED <<alive, churn, watch, events, keys, view, ns, lo>>

-------------------------------------------------------------------------------
(* Both: GetSortOrdinal, then SetNodes. *)

ReadKeys(n, g) ==
  /\ pc[n][g] = "keys"
  /\ keys' = [keys EXCEPT ![n][g] = known[n]]
  /\ pc' = [pc EXCEPT ![n][g] = "set"]
  /\ UNCHANGED <<alive, churn, watch, events, known, listed, view, ns, lo>>

SetNodes(n, g) ==
  /\ pc[n][g] = "set"
  /\ ns' = [ns EXCEPT ![n] = RangeOf(n, keys[n][g], @)]
  /\ view' = [view EXCEPT ![n] = keys[n][g]]
  /\ keys' = [keys EXCEPT ![n][g] = {}]
  /\ pc' = [pc EXCEPT ![n][g] = "idle"]
  /\ UNCHANGED <<alive, churn, watch, events, known, listed, lo>>

-------------------------------------------------------------------------------
(* FetchPendingTasks evaluates d.ns[0], then d.ns[1]. *)

FetchLow(n) ==
  /\ n \in alive
  /\ lo[n] = Last
  /\ lo' = [lo EXCEPT ![n] = ns[n][1]]
  /\ UNCHANGED <<alive, churn, watch, events, known, pc, listed, keys, view, ns>>

\* The rows asked for are those in <<lo[n], ns[n][2]>>.
FetchHigh(n) ==
  /\ lo[n] # Last
  /\ lo' = [lo EXCEPT ![n] = Last]
  /\ UNCHANGED <<alive, churn, watch, events, known, pc, listed, keys, view, ns>>

-------------------------------------------------------------------------------
Pod(o) == PodStart(o) \/ PodStop(o)

WatchStep(n) == \E o \in Ordinal : WatchEvent(n, o)
PullStep(n) == PullList(n) \/ \E o \in Ordinal : PullStore(n, o)
ThreadStep(n, g) ==
  \/ ReadKeys(n, g) \/ SetNodes(n, g)
  \/ IF g = "watch" THEN WatchStep(n) ELSE PullStep(n)

Next ==
  \/ \E o \in Ordinal : Pod(o)
  \/ \E n \in Node : WatchStart(n) \/ WatchEnd(n) \/ FetchLow(n) \/ FetchHigh(n)
  \/ \E n \in Node, g \in Thread : ThreadStep(n, g)

\* The watch goroutine handles what it receives, and the pull comes back every
\* NodeInterval.  Neither pods nor cron runs are required.
Spec ==
  /\ Init
  /\ [][Next]_vars
  /\ \A n \in Node, g \in Thread : WF_vars(ThreadStep(n, g))

-------------------------------------------------------------------------------
Range == {r \in ((-1) .. MaxOrdinal) \X (Ordinal \cup {Last}) : r[1] < r[2]}

\* Every variable has its type (d.ns always holds a range that is not empty).
TypeOK ==
  /\ alive \subseteq Ordinal
  /\ churn \in 0 .. MaxChurn
  /\ watch \in [Node -> {"none", "on", "ended"}]
  /\ events \in [Node -> [Ordinal -> Seq({"Added", "Deleted"})]]
  /\ known \in [Node -> SUBSET Ordinal]
  /\ pc \in [Node -> [Thread -> {"idle", "store", "keys", "set"}]]
  /\ listed \in [Node -> SUBSET Ordinal]
  /\ keys \in [Node -> [Thread -> SUBSET Ordinal]]
  /\ view \in [Node -> SUBSET Ordinal]
  /\ ns \in [Node -> Range]
  /\ lo \in [Node -> (-1 .. MaxOrdinal) \cup {Last}]

\* A process fetches its own rows whatever it believes about the others, also
\* when the two ends a query reads come from two different calls of SetNodes.
OwnRows ==
  \A n \in Node : /\ InRange(n, ns[n])
                  /\ lo[n] # Last => InRange(n, <<lo[n], ns[n][2]>>)

\* Who fetches the rows of o (a node that lives or has gone), to a process
\* that takes nodes to be alive: the first that is not below o, else the last.
Keeper(o, nodes) ==
  LET above == {m \in nodes : m >= o}
  IN IF above = {} THEN Greatest(nodes) ELSE Least(above)

\* A process that sees itself in its view fetches exactly the rows that the
\* view makes it the keeper of.  Processes with the same view therefore divide
\* all rows among them, those of nodes that are gone included: none is fetched
\* twice and none by nobody.
FetchesItsShare ==
  \A n \in Node : n \in view[n] =>
    \A o \in 0 .. Last : InRange(o, ns[n]) <=> Keeper(o, view[n]) = n

\* The pull is about to bring back a pod whose removal the watch has already
\* applied, or the watch was not there yet when a known pod went.  Nothing but
\* an event removes an ordinal, so n keeps such a pod for good.
Misled(n) ==
  \/ \E o \in listed[n] \ alive : events[n][o] = << >>
  \/ watch[n] = "none" /\ known[n] \ alive # {}

\* A process whose watch lasts, and that is not misled, comes to know exactly
\* the pods there are, in whatever order the two goroutines finish.
Settles ==
  \A n \in Node :
    [](~Misled(n)) /\ <>[](n \in alive /\ watch[n] = "on") =>
      <>[](view[n] = alive)

\* With or without a watch, a process comes to know every pod that stays: the
\* pull makes up for lost additions (and for no lost removal).
Learns ==
  \A n \in Node : <>[](n \in alive) => <>[](alive \subseteq view[n])
=============================================================================
