--------------------------- MODULE NodeRangeProofs ---------------------------
(***************************************************************************)
(* Proofs about NodeRange: type correctness, and that a process fetches     *)
(* its own rows and exactly its share, for every number of pods, every      *)
(* order of the two goroutines and every history of pods.                   *)
(***************************************************************************)
EXTENDS NodeRange, WellFoundedInduction, TLAPS

(* Lists of ordinals. *)

Less == {ss \in Nat \X Nat : ss[1] < ss[2]}

LEMMA LessWellFounded == IsWellFoundedOn(Less, Nat)
  BY NatLessThanWellFounded DEF OpToRel, Less

LEMMA NatMinimum ==
  ASSUME NEW T \in SUBSET Nat, T # {}
  PROVE  \E x \in T : \A y \in T : x <= y
<1>1. PICK x \in T : \A y \in T : ~ (<<y, x>> \in Less)
  BY LessWellFounded, WFMin
<1>2. ASSUME NEW y \in T PROVE x <= y
  <2>1. <<y, x>> \notin Less
    BY <1>1
  <2>2. x \in Nat /\ y \in Nat
    OBVIOUS
  <2>3. ~ (y < x)
    BY <2>1, <2>2 DEF Less
  <2> QED BY <2>2, <2>3
<1> QED BY <1>2

LEMMA OrdinalFact == \A m \in Ordinal : m \in Int /\ 0 <= m /\ m <= MaxOrdinal
  BY OrdinalAssumption DEF Ordinal

\* Least and Greatest return what they are named for.
LEMMA LeastOf ==
  ASSUME NEW S, S # {}, \A y \in S : y \in Int /\ -1 <= y /\ y <= MaxOrdinal
  PROVE  Least(S) \in S /\ \A y \in S : Least(S) <= y
<1> DEFINE T == {x + 1 : x \in S}
<1>1. T \in SUBSET Nat /\ T # {}
  <2>1. \A t \in T : t \in Nat
    BY OrdinalAssumption
  <2> QED BY <2>1
<1>2. PICK t \in T : \A y \in T : t <= y
  <2> HIDE DEF T
  <2> QED BY <1>1, NatMinimum
<1>3. PICK x \in S : t = x + 1
  BY <1>2
<1>4. ASSUME NEW y \in S PROVE x <= y
  <2>1. y + 1 \in T
    OBVIOUS
  <2>2. x + 1 <= y + 1
    BY <1>2, <1>3, <2>1
  <2>3. x \in Int /\ y \in Int
    BY OrdinalAssumption
  <2> QED BY <2>2, <2>3
<1>5. \E z \in S : \A y \in S : z <= y
  BY <1>4
<1> QED BY <1>5 DEF Least

LEMMA GreatestOf ==
  ASSUME NEW S, S # {}, \A y \in S : y \in Int /\ -1 <= y /\ y <= MaxOrdinal
  PROVE  Greatest(S) \in S /\ \A y \in S : Greatest(S) >= y
<1> DEFINE T == {MaxOrdinal - x : x \in S}
<1>1. T \in SUBSET Nat /\ T # {}
  <2>1. \A t \in T : t \in Nat
    BY OrdinalAssumption
  <2> QED BY <2>1
<1>2. PICK t \in T : \A y \in T : t <= y
  <2> HIDE DEF T
  <2> QED BY <1>1, NatMinimum
<1>3. PICK x \in S : t = MaxOrdinal - x
  BY <1>2
<1>4. ASSUME NEW y \in S PROVE x >= y
  <2>1. MaxOrdinal - y \in T
    OBVIOUS
  <2>2. MaxOrdinal - x <= MaxOrdinal - y
    BY <1>2, <1>3, <2>1
  <2>3. x \in Int /\ y \in Int /\ MaxOrdinal \in Int
    BY OrdinalAssumption
  <2> QED BY <2>2, <2>3
<1>5. \E z \in S : \A y \in S : z >= y
  BY <1>4
<1> QED BY <1>5 DEF Greatest

\* What SetNodes computes: a range that holds the node's own rows, or the old one.
LEMMA RangeOfNode ==
  ASSUME NEW n \in Ordinal, NEW nodes \in SUBSET Ordinal, NEW old \in Range,
         InRange(n, old)
  PROVE  RangeOf(n, nodes, old) \in Range /\ InRange(n, RangeOf(n, nodes, old))
<1> DEFINE all   == IF nodes = {} THEN {n} ELSE nodes
           above == {m \in all : m >= n}
           below == {-1} \cup {m \in all : m < Least(above)}
           end   == IF Least(above) = Greatest(all) THEN Last ELSE Least(above)
<1>0. RangeOf(n, nodes, old) = IF above = {} THEN old ELSE <<Greatest(below), end>>
  BY DEF RangeOf
<1>1. CASE above = {}
  BY <1>0, <1>1
<1>2. CASE above # {}
  <2>1. Least(above) \in above /\ \A y \in above : Least(above) <= y
    <3>1. \A y \in above : y \in Int /\ -1 <= y /\ y <= MaxOrdinal
      BY OrdinalFact
    <3> HIDE DEF above
    <3> QED BY <1>2, <3>1, LeastOf
  <2>2. below # {} /\ \A y \in below : y \in Int /\ -1 <= y /\ y <= MaxOrdinal
    BY OrdinalFact, OrdinalAssumption
  <2>3. Greatest(below) \in below
    <3> HIDE DEF below
    <3> QED BY <2>2, GreatestOf
  <2>4. Least(above) \in Ordinal /\ Least(above) >= n
    BY <2>1
  <2>5. Greatest(below) \in (-1) .. MaxOrdinal
    <3> HIDE DEF below
    <3> QED BY <2>2, <2>3, OrdinalAssumption
  <2>6. Greatest(below) < n
    <3>1. CASE Greatest(below) = -1
      BY <3>1 DEF Ordinal
    <3>2. CASE Greatest(below) # -1
      <4>1. Greatest(below) \in all /\ Greatest(below) < Least(above)
        BY <2>3, <3>2
      <4>2. ~ (Greatest(below) >= n)
        BY <2>1, <2>4, <2>5, <4>1, OrdinalAssumption DEF Ordinal
      <4> QED BY <2>5, <4>2, OrdinalAssumption DEF Ordinal
    <3> QED BY <3>1, <3>2
  <2>7. end \in Ordinal \cup {Last} /\ n <= end
    BY <2>4, OrdinalAssumption DEF Ordinal
  <2>8. Greatest(below) < end
    BY <2>5, <2>6, <2>7, OrdinalAssumption DEF Ordinal
  <2>9. RangeOf(n, nodes, old) = <<Greatest(below), end>>
    BY <1>0, <1>2
  <2> HIDE DEF below, end
  <2>10. <<Greatest(below), end>> \in Range
    BY <2>5, <2>7, <2>8 DEF Range
  <2>11. InRange(n, <<Greatest(below), end>>)
    BY <2>6, <2>7 DEF InRange
  <2> QED BY <2>9, <2>10, <2>11
<1> QED BY <1>1, <1>2

\* A node of the list gets exactly the rows the list makes it the keeper of.
LEMMA RangeIsShare ==
  ASSUME NEW nodes \in SUBSET Ordinal, NEW n \in nodes, NEW old,
         NEW o \in 0 .. Last
  PROVE  InRange(o, RangeOf(n, nodes, old)) <=> Keeper(o, nodes) = n
<1> DEFINE above == {m \in nodes : m >= n}
           below == {-1} \cup {m \in nodes : m < n}
           after == {m \in nodes : m >= o}
<1>1. nodes # {} /\ \A y \in nodes : y \in Int /\ -1 <= y /\ y <= MaxOrdinal
  BY OrdinalFact
<1>2. Greatest(nodes) \in nodes /\ \A y \in nodes : Greatest(nodes) >= y
  BY <1>1, GreatestOf
<1>3. n \in above /\ \A y \in above : y \in Int /\ -1 <= y /\ y <= MaxOrdinal
  BY OrdinalFact
<1>4. Least(above) \in above /\ \A y \in above : Least(above) <= y
  <2> HIDE DEF above
  <2> QED BY <1>3, LeastOf
<1>5. Least(above) = n
  <2>1. Least(above) >= n /\ Least(above) \in Int
    BY <1>4, OrdinalFact
  <2>2. Least(above) <= n /\ n \in Int
    BY <1>3, <1>4
  <2> HIDE DEF above
  <2> QED BY <2>1, <2>2
<1>6. below # {} /\ \A y \in below : y \in Int /\ -1 <= y /\ y <= MaxOrdinal
  BY OrdinalFact, OrdinalAssumption
<1>7. Greatest(below) \in below /\ \A y \in below : Greatest(below) >= y
  <2> HIDE DEF below
  <2> QED BY <1>6, GreatestOf
<1>8. RangeOf(n, nodes, old) =
        <<Greatest(below), IF n = Greatest(nodes) THEN Last ELSE n>>
  <2>1. nodes # {} /\ above # {}
    BY <1>3
  <2> QED BY <2>1, <1>5 DEF RangeOf
<1>9. InRange(o, RangeOf(n, nodes, old)) <=>
        Greatest(below) < o /\ (n = Greatest(nodes) \/ o <= n)
  <2>1. o <= Last
    BY OrdinalAssumption
  <2> HIDE DEF below
  <2> QED BY <1>8, <2>1 DEF InRange
<1>10. ASSUME after # {}
       PROVE  Least(after) \in after /\ \A y \in after : Least(after) <= y
  <2>1. \A y \in after : y \in Int /\ -1 <= y /\ y <= MaxOrdinal
    BY OrdinalFact
  <2> HIDE DEF after
  <2> QED BY <1>10, <2>1, LeastOf
<1>11. Keeper(o, nodes) = IF after = {} THEN Greatest(nodes) ELSE Least(after)
  BY DEF Keeper
<1>12. \A m \in nodes : m \in Int /\ m >= 0 /\ m <= MaxOrdinal
  BY OrdinalFact
<1>13. o \in Int /\ o >= 0 /\ Last \in Int
  BY OrdinalAssumption
<1>14. Greatest(below) < o <=> \A m \in nodes : m < n => m < o
  <2>1. Greatest(below) \in Int
    BY <1>6, <1>7, OrdinalAssumption
  <2>2. ASSUME Greatest(below) < o, NEW m \in nodes, m < n PROVE m < o
    <3>1. m \in below
      BY <2>2
    <3>2. Greatest(below) >= m
      BY <1>7, <3>1
    <3> HIDE DEF below
    <3> QED BY <2>1, <2>2, <3>2, <1>12, <1>13
  <2>3. ASSUME \A m \in nodes : m < n => m < o PROVE Greatest(below) < o
    <3>1. Greatest(below) = -1 \/ (Greatest(below) \in nodes /\ Greatest(below) < n)
      BY <1>7
    <3> HIDE DEF below
    <3> QED BY <2>3, <3>1, <1>13
  <2> HIDE DEF below
  <2> QED BY <2>2, <2>3
<1> HIDE DEF below, above
<1>15. CASE after = {}
  <2>1. \A m \in nodes : m < o
    BY <1>15, <1>12, <1>13
  <2>2. Keeper(o, nodes) = Greatest(nodes)
    BY <1>11, <1>15
  <2>3. ~ (o <= n)
    BY <2>1, <1>12, <1>13
  <2>4. Greatest(below) < o
    BY <1>14, <2>1
  <2> HIDE DEF after
  <2> QED BY <1>9, <2>2, <2>3, <2>4
<1>16. CASE after # {}
  <2>1. Least(after) \in nodes /\ Least(after) >= o /\
          \A y \in nodes : y >= o => Least(after) <= y
    BY <1>10, <1>16
  <2>2. Keeper(o, nodes) = Least(after)
    BY <1>11, <1>16
  <2> HIDE DEF after
  <2>3. ASSUME Least(after) = n PROVE InRange(o, RangeOf(n, nodes, old))
    <3>1. o <= n
      BY <2>1, <2>3, <1>12, <1>13
    <3>2. \A m \in nodes : m < n => m < o
      BY <2>1, <2>3, <1>12, <1>13
    <3> QED BY <1>9, <1>14, <3>1, <3>2
  <2>4. ASSUME InRange(o, RangeOf(n, nodes, old)) PROVE Least(after) = n
    <3>1. \A m \in nodes : m < n => m < o
      BY <1>9, <1>14, <2>4
    <3>2. Least(after) >= n
      BY <3>1, <2>1, <1>12, <1>13
    <3>3. o <= n
      <4>1. CASE n = Greatest(nodes)
        <5>1. n >= Least(after)
          BY <4>1, <1>2, <2>1
        <5> QED BY <5>1, <2>1, <1>12, <1>13
      <4> QED BY <4>1, <1>9, <2>4
    <3>4. Least(after) <= n
      BY <3>3, <2>1, <1>12, <1>13
    <3> QED BY <3>2, <3>4, <2>1, <1>12
  <2> QED BY <2>2, <2>3, <2>4
<1> QED BY <1>15, <1>16

\* Nodes with one list divide the rows: every owner's rows are fetched by
\* exactly one of them, whatever each had before.
THEOREM RowsAreDivided ==
  ASSUME NEW nodes \in SUBSET Ordinal, nodes # {},
         NEW old, NEW o \in 0 .. Last
  PROVE  \E n \in nodes :
           /\ InRange(o, RangeOf(n, nodes, old[n]))
           /\ \A m \in nodes : InRange(o, RangeOf(m, nodes, old[m])) => m = n
<1> DEFINE after == {m \in nodes : m >= o}
<1>1. Keeper(o, nodes) \in nodes
  <2>1. CASE after = {}
    <3>1. Greatest(nodes) \in nodes
      <4>1. \A y \in nodes : y \in Int /\ -1 <= y /\ y <= MaxOrdinal
        BY OrdinalFact
      <4> QED BY <4>1, GreatestOf
    <3>2. Keeper(o, nodes) = Greatest(nodes)
      BY <2>1 DEF Keeper
    <3> QED BY <3>1, <3>2
  <2>2. CASE after # {}
    <3>1. Least(after) \in after
      <4>1. \A y \in after : y \in Int /\ -1 <= y /\ y <= MaxOrdinal
        BY OrdinalFact
      <4> HIDE DEF after
      <4> QED BY <2>2, <4>1, LeastOf
    <3>2. Keeper(o, nodes) = Least(after)
      BY <2>2 DEF Keeper
    <3>3. Least(after) \in nodes
      BY <3>1
    <3> QED BY <3>2, <3>3
  <2> QED BY <2>1, <2>2
<1>2. \A m \in nodes : InRange(o, RangeOf(m, nodes, old[m])) <=> Keeper(o, nodes) = m
  BY RangeIsShare
<1> QED BY <1>1, <1>2

-------------------------------------------------------------------------------
(* The steps. *)

LEMMA FreshRange ==
  ASSUME NEW n \in Node
  PROVE  Fresh(n) \in Range /\ InRange(n, Fresh(n))
<1>1. n \in Ordinal /\ n \in Int /\ 0 <= n /\ n <= MaxOrdinal
  BY OrdinalAssumption, OrdinalFact
<1>2. <<-1, Last>> \in Range /\ InRange(n, <<-1, Last>>)
  BY <1>1, OrdinalAssumption DEF Range, InRange
<1> QED BY <1>1, <1>2, RangeOfNode DEF Fresh

Inv == TypeOK /\ OwnRows /\ FetchesItsShare

LEMMA Initially == Init => Inv
<1> SUFFICES ASSUME Init PROVE Inv
  OBVIOUS
<1> USE DEF Init
<1>1. \A n \in Node : Fresh(n) \in Range /\ InRange(n, Fresh(n))
  BY FreshRange
<1>2. TypeOK
  <2>1. events \in [Node -> [Ordinal -> Seq({"Added", "Deleted"})]]
    OBVIOUS
  <2>2. \A n \in Node : {n} \in SUBSET Ordinal
    BY OrdinalAssumption
  <2>3. ns \in [Node -> Range]
    BY <1>1
  <2>4. churn \in 0 .. MaxChurn /\ alive \subseteq Ordinal
    BY OrdinalAssumption
  <2> QED BY <2>1, <2>2, <2>3, <2>4 DEF TypeOK, Thread
<1>3. OwnRows
  BY <1>1 DEF OwnRows
<1>4. FetchesItsShare
  <2>1. ASSUME NEW n \in Node, NEW o \in 0 .. Last
        PROVE  InRange(o, ns[n]) <=> Keeper(o, view[n]) = n
    <3>1. n \in Ordinal
      BY OrdinalAssumption
    <3>2. ns[n] = RangeOf(n, {n}, <<-1, Last>>) /\ view[n] = {n}
      BY DEF Fresh
    <3> QED BY <3>1, <3>2, RangeIsShare
  <2> QED BY <2>1 DEF FetchesItsShare
<1> QED BY <1>2, <1>3, <1>4 DEF Inv

\* SetNodes, the step all three parts turn on.
LEMMA SetNodesStep ==
  ASSUME Inv, NEW n \in Node, NEW g \in Thread, SetNodes(n, g)
  PROVE  Inv'
<1> DEFINE new == RangeOf(n, keys[n][g], ns[n])
<1>1. /\ n \in Ordinal /\ keys[n][g] \in SUBSET Ordinal
      /\ ns[n] \in Range /\ InRange(n, ns[n])
  <2>1. n \in Ordinal
    BY OrdinalAssumption
  <2>2. keys[n][g] \in SUBSET Ordinal
    BY DEF Inv, TypeOK
  <2>3. ns[n] \in Range /\ InRange(n, ns[n])
    BY DEF Inv, TypeOK, OwnRows
  <2> QED BY <2>1, <2>2, <2>3
<1>2. new \in Range /\ InRange(n, new)
  BY <1>1, RangeOfNode
<1>3. ns' = [ns EXCEPT ![n] = new] /\ view' = [view EXCEPT ![n] = keys[n][g]]
  BY DEF SetNodes
<1> HIDE DEF new
<1>4. TypeOK'
  BY <1>1, <1>2, <1>3 DEF Inv, TypeOK, SetNodes
<1>5. OwnRows'
  <2> SUFFICES ASSUME NEW m \in Node
               PROVE  /\ InRange(m, ns'[m])
                      /\ lo'[m] # Last => InRange(m, <<lo'[m], ns'[m][2]>>)
    BY DEF OwnRows
  <2>1. lo' = lo
    BY DEF SetNodes
  <2>2. CASE m # n
    <3>1. ns'[m] = ns[m]
      BY <1>3, <2>2 DEF Inv, TypeOK
    <3> QED BY <2>1, <3>1 DEF Inv, OwnRows
  <2>3. CASE m = n
    <3>1. ns'[n] = new
      BY <1>3 DEF Inv, TypeOK
    <3>2. lo[n] # Last => lo[n] < n
      BY DEF Inv, OwnRows, InRange
    <3>3. n <= new[2]
      BY <1>2 DEF InRange
    <3> QED BY <1>2, <2>1, <2>3, <3>1, <3>2, <3>3 DEF InRange
  <2> QED BY <2>2, <2>3
<1>6. FetchesItsShare'
  <2> SUFFICES ASSUME NEW m \in Node, m \in view'[m], NEW o \in 0 .. Last
               PROVE  InRange(o, ns'[m]) <=> Keeper(o, view'[m]) = m
    BY DEF FetchesItsShare
  <2>1. CASE m # n
    <3>1. ns'[m] = ns[m] /\ view'[m] = view[m]
      BY <1>3, <2>1 DEF Inv, TypeOK
    <3> QED BY <3>1 DEF Inv, FetchesItsShare
  <2>2. CASE m = n
    <3>1. ns'[n] = new /\ view'[n] = keys[n][g]
      BY <1>3 DEF Inv, TypeOK
    <3>2. n \in keys[n][g]
      BY <2>2, <3>1
    <3>3. InRange(o, new) <=> Keeper(o, keys[n][g]) = n
      BY <1>1, <3>2, RangeIsShare DEF new
    <3> QED BY <2>2, <3>1, <3>3
  <2> QED BY <2>1, <2>2
<1> QED BY <1>4, <1>5, <1>6 DEF Inv

\* A pod that stops takes its process's memory with it.
LEMMA PodStopStep ==
  ASSUME Inv, NEW o \in Ordinal, PodStop(o)
  PROVE  Inv'
<1>1. \A n \in Node : Fresh(n) \in Range /\ InRange(n, Fresh(n))
  BY FreshRange
<1>2. /\ view' = [n \in Node |-> IF n = o THEN {n} ELSE view[n]]
      /\ ns' = [n \in Node |-> IF n = o THEN Fresh(n) ELSE ns[n]]
      /\ lo' = [n \in Node |-> IF n = o THEN Last ELSE lo[n]]
  BY DEF PodStop
<1>3. TypeOK'
  <2>1. ns' \in [Node -> Range]
    BY <1>1, <1>2 DEF Inv, TypeOK
  <2>2. \A n \in Node : Told(o, "Deleted")[n] \in [Ordinal -> Seq({"Added", "Deleted"})]
    BY DEF Told, Inv, TypeOK
  <2>3. events' \in [Node -> [Ordinal -> Seq({"Added", "Deleted"})]]
    BY <2>2 DEF PodStop, Inv, TypeOK
  <2>4. view' \in [Node -> SUBSET Ordinal] /\ lo' \in [Node -> (-1 .. MaxOrdinal) \cup {Last}]
    BY <1>2 DEF Inv, TypeOK
  <2>5. alive' \subseteq Ordinal /\ churn' \in 0 .. MaxChurn
    BY OrdinalAssumption DEF PodStop, Inv, TypeOK
  <2>6. /\ watch' \in [Node -> {"none", "on", "ended"}]
        /\ known' \in [Node -> SUBSET Ordinal]
        /\ pc' \in [Node -> [Thread -> {"idle", "store", "keys", "set"}]]
        /\ listed' \in [Node -> SUBSET Ordinal]
        /\ keys' \in [Node -> [Thread -> SUBSET Ordinal]]
    BY DEF PodStop, Inv, TypeOK
  <2> QED BY <2>1, <2>3, <2>4, <2>5, <2>6 DEF TypeOK
<1>4. OwnRows'
  BY <1>1, <1>2 DEF Inv, OwnRows
<1>5. FetchesItsShare'
  <2> SUFFICES ASSUME NEW m \in Node, m \in view'[m], NEW q \in 0 .. Last
               PROVE  InRange(q, ns'[m]) <=> Keeper(q, view'[m]) = m
    BY DEF FetchesItsShare
  <2>1. CASE m = o
    <3>1. ns'[m] = RangeOf(m, {m}, <<-1, Last>>) /\ view'[m] = {m}
      BY <1>2, <2>1 DEF Fresh
    <3> QED BY <2>1, <3>1, RangeIsShare
  <2>2. CASE m # o
    BY <1>2, <2>2 DEF Inv, FetchesItsShare
  <2> QED BY <2>1, <2>2
<1> QED BY <1>3, <1>4, <1>5 DEF Inv

\* The other steps change neither a view nor a range.
LEMMA OtherSteps ==
  ASSUME TypeOK, OwnRows, FetchesItsShare, ns' = ns, view' = view,
         \A n \in Node : lo'[n] = lo[n] \/ lo'[n] = Last \/ lo'[n] = ns[n][1]
  PROVE  OwnRows' /\ FetchesItsShare'
  BY DEF OwnRows, FetchesItsShare, InRange

LEMMA Preserved == Inv /\ [Next]_vars => Inv'
<1> SUFFICES ASSUME Inv, [Next]_vars PROVE Inv'
  OBVIOUS
<1> USE DEF Inv
<1>1. ASSUME NEW o \in Ordinal, PodStart(o) PROVE Inv'
  <2>1. events' \in [Node -> [Ordinal -> Seq({"Added", "Deleted"})]]
    BY <1>1 DEF PodStart, Told, TypeOK
  <2>2. TypeOK'
    BY <1>1, <2>1, OrdinalAssumption DEF PodStart, TypeOK
  <2> QED BY <1>1, <2>2, OtherSteps DEF PodStart
<1>2. ASSUME NEW o \in Ordinal, PodStop(o) PROVE Inv'
  BY <1>2, PodStopStep
<1>3. ASSUME NEW n \in Node, WatchStart(n) PROVE Inv'
  <2>1. events' \in [Node -> [Ordinal -> Seq({"Added", "Deleted"})]]
    <3> DEFINE H == [Ordinal -> Seq({"Added", "Deleted"})]
               e == [o \in Ordinal |-> IF o \in alive THEN <<"Added">> ELSE << >>]
    <3>1. e \in H
      <4>1. <<"Added">> \in Seq({"Added", "Deleted"}) /\ << >> \in Seq({"Added", "Deleted"})
        OBVIOUS
      <4> QED BY <4>1
    <3>2. events \in [Node -> H] /\ events' = [events EXCEPT ![n] = e]
      BY <1>3 DEF WatchStart, TypeOK
    <3> HIDE DEF H, e
    <3>3. events' \in [Node -> H]
      BY <3>1, <3>2
    <3> QED BY <3>3 DEF H
  <2>2. TypeOK'
    BY <1>3, <2>1 DEF WatchStart, TypeOK
  <2> QED BY <1>3, <2>2, OtherSteps DEF WatchStart
<1>4. ASSUME NEW n \in Node, WatchEnd(n) PROVE Inv'
  <2>1. events' \in [Node -> [Ordinal -> Seq({"Added", "Deleted"})]]
    BY <1>4 DEF WatchEnd, TypeOK
  <2>2. TypeOK'
    BY <1>4, <2>1 DEF WatchEnd, TypeOK
  <2> QED BY <1>4, <2>2, OtherSteps DEF WatchEnd
<1>5. ASSUME NEW n \in Node, FetchLow(n) PROVE Inv'
  <2>1. ns[n][1] \in -1 .. MaxOrdinal
    BY DEF TypeOK, Range
  <2>2. lo' \in [Node -> (-1 .. MaxOrdinal) \cup {Last}]
    BY <1>5, <2>1 DEF FetchLow, TypeOK
  <2>3. TypeOK'
    BY <1>5, <2>2 DEF FetchLow, TypeOK
  <2>4. \A m \in Node : lo'[m] = lo[m] \/ lo'[m] = Last \/ lo'[m] = ns[m][1]
    BY <1>5 DEF FetchLow, TypeOK
  <2> QED BY <1>5, <2>3, <2>4, OtherSteps DEF FetchLow
<1>6. ASSUME NEW n \in Node, FetchHigh(n) PROVE Inv'
  <2>1. TypeOK'
    BY <1>6 DEF FetchHigh, TypeOK
  <2>2. \A m \in Node : lo'[m] = lo[m] \/ lo'[m] = Last \/ lo'[m] = ns[m][1]
    BY <1>6 DEF FetchHigh, TypeOK
  <2> QED BY <1>6, <2>1, <2>2, OtherSteps DEF FetchHigh
<1>7. ASSUME NEW n \in Node, NEW g \in Thread, ReadKeys(n, g) PROVE Inv'
  <2>1. TypeOK'
    BY <1>7 DEF ReadKeys, TypeOK
  <2> QED BY <1>7, <2>1, OtherSteps DEF ReadKeys
<1>8. ASSUME NEW n \in Node, NEW g \in Thread, SetNodes(n, g) PROVE Inv'
  BY <1>8, SetNodesStep
<1>9. ASSUME NEW n \in Node, NEW o \in Ordinal, WatchEvent(n, o) PROVE Inv'
  <2>1. Tail(events[n][o]) \in Seq({"Added", "Deleted"})
    BY <1>9 DEF WatchEvent, TypeOK
  <2>2. [events[n] EXCEPT ![o] = Tail(@)] \in [Ordinal -> Seq({"Added", "Deleted"})]
    BY <2>1 DEF TypeOK
  <2>3. events' = [events EXCEPT ![n] = [events[n] EXCEPT ![o] = Tail(@)]]
    BY <1>9 DEF WatchEvent, TypeOK
  <2>4. events' \in [Node -> [Ordinal -> Seq({"Added", "Deleted"})]]
    <3> DEFINE H == [Ordinal -> Seq({"Added", "Deleted"})]
               e == [events[n] EXCEPT ![o] = Tail(@)]
    <3>1. events \in [Node -> H] /\ e \in H /\ events' = [events EXCEPT ![n] = e]
      BY <2>2, <2>3 DEF TypeOK
    <3> HIDE DEF H, e
    <3>2. events' \in [Node -> H]
      BY <3>1
    <3> QED BY <3>2 DEF H
  <2>5. TypeOK'
    BY <1>9, <2>4 DEF WatchEvent, TypeOK
  <2> QED BY <1>9, <2>5, OtherSteps DEF WatchEvent
<1>10. ASSUME NEW n \in Node, PullList(n) PROVE Inv'
  <2>1. TypeOK'
    BY <1>10 DEF PullList, TypeOK
  <2> QED BY <1>10, <2>1, OtherSteps DEF PullList
<1>11. ASSUME NEW n \in Node, NEW o \in Ordinal, PullStore(n, o) PROVE Inv'
  <2>1. TypeOK'
    BY <1>11 DEF PullStore, TypeOK
  <2> QED BY <1>11, <2>1, OtherSteps DEF PullStore
<1>12. CASE UNCHANGED vars
  <2>1. TypeOK'
    BY <1>12 DEF vars, TypeOK
  <2> QED BY <1>12, <2>1, OtherSteps DEF vars
<1> QED BY <1>1, <1>2, <1>3, <1>4, <1>5, <1>6, <1>7, <1>8, <1>9, <1>10, <1>11,
           <1>12 DEF Next, Pod, ThreadStep, WatchStep, PullStep

\* Every variable has its type in every behaviour: in particular d.ns is never
\* an empty range.
THEOREM TypeCorrect == Spec => []TypeOK
<1>1. Inv => TypeOK
  BY DEF Inv
<1> QED BY <1>1, Initially, Preserved, PTL DEF Spec

\* A process never stops fetching its own rows, whatever the watch and the pull
\* believe and in whatever order they call SetNodes around a query.
THEOREM FetchesOwnRows == Spec => []OwnRows
<1>1. Inv => OwnRows
  BY DEF Inv
<1> QED BY <1>1, Initially, Preserved, PTL DEF Spec

\* A process that sees itself fetches what its view makes it the keeper of, no
\* more and no less; with RowsAreDivided, processes of one view share all rows.
THEOREM FetchesShare == Spec => []FetchesItsShare
<1>1. Inv => FetchesItsShare
  BY DEF Inv
<1> QED BY <1>1, Initially, Preserved, PTL DEF Spec
==============================================================================
