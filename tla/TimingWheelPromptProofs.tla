------------------------ MODULE TimingWheelPromptProofs ------------------------
(***************************************************************************)
(* Proofs about TimingWheel without lag, for any number of timers,         *)
(* goroutines, buckets and wheels: the arithmetic of the wheels, from      *)
(* which the properties of the run wheel_prompt follow.                    *)
(***************************************************************************)
EXTENDS TimingWheelProofs, WellFoundedInduction

Tick(k) == LevelTick[k]

\* x is a multiple of m.
Aligned(x, m) == Truncate(x, m) = x

-------------------------------------------------------------------------------
(***************************************************************************)
(* Induction over the natural numbers, as a fact about sets.               *)
(***************************************************************************)
LEMMA Least ==
  ASSUME NEW T, T \subseteq Nat, T # {}
  PROVE  \E x \in T : \A y \in T : x <= y
<1> DEFINE R == OpToRel(<, Nat)
<1>1. IsWellFoundedOn(R, Nat)
  BY NatLessThanWellFounded
<1>2. \A x, y \in Nat : <<y, x>> \in R <=> y < x
  BY DEF OpToRel
<1> HIDE DEF R
<1>3. PICK x \in T : \A y \in T : <<y, x>> \notin R
  BY <1>1, WFMin
<1>4. \A y \in T : ~(y < x)
  BY <1>2, <1>3
<1>5. x \in Nat /\ \A y \in T : y \in Nat
  OBVIOUS
<1> QED
  BY <1>4, <1>5

(***************************************************************************)
(* Truncate (utils.go:9-14): the multiple of m below x, and the only one   *)
(* that is less than m below it.                                           *)
(***************************************************************************)
LEMMA TruncateBelow ==
  ASSUME NEW x \in Nat, NEW m \in Nat \ {0}
  PROVE  /\ Truncate(x, m) \in Nat
         /\ Truncate(x, m) <= x /\ x < Truncate(x, m) + m
         /\ \E q \in Nat : Truncate(x, m) = q * m
<1>1. /\ x \div m \in Nat
      /\ (x \div m) * m <= x /\ x < (x \div m) * m + m
  OBVIOUS
<1> QED
  BY <1>1, TruncateNat DEF Truncate

LEMMA Product == \A i, j \in Nat : i * j \in Nat
OBVIOUS

LEMMA ProductLess ==
  ASSUME NEW i \in Nat, NEW j \in Nat, NEW m \in Nat \ {0}, i * m < j * m + m
  PROVE  i <= j /\ i * m <= j * m
<1>1. i <= j
  OBVIOUS
<1> QED
  BY <1>1

LEMMA TruncateIs ==
  ASSUME NEW x \in Nat, NEW m \in Nat \ {0}, NEW q \in Nat,
         q * m <= x, x < q * m + m
  PROVE  Truncate(x, m) = q * m
<1>1. PICK p \in Nat : Truncate(x, m) = p * m
  BY TruncateBelow
<1>2. p * m <= x /\ x < p * m + m
  BY <1>1, TruncateBelow
<1>3. p * m \in Nat /\ q * m \in Nat
  BY Product
<1>4. p * m < q * m + m /\ q * m < p * m + m
  BY <1>2, <1>3
<1>5. p * m <= q * m /\ q * m <= p * m
  BY <1>4, ProductLess
<1> QED
  BY <1>1, <1>3, <1>5

LEMMA AlignedIs ==
  ASSUME NEW x \in Nat, NEW m \in Nat \ {0}
  PROVE  Aligned(x, m) <=> \E q \in Nat : x = q * m
<1>1. Aligned(x, m) => \E q \in Nat : x = q * m
  BY TruncateBelow DEF Aligned
<1>2. ASSUME NEW q \in Nat, x = q * m PROVE Aligned(x, m)
  <2>1. q * m <= x /\ x < q * m + m
    BY <1>2
  <2> QED
    BY <1>2, <2>1, TruncateIs DEF Aligned
<1> QED
  BY <1>1, <1>2

LEMMA TruncateAligned ==
  ASSUME NEW x \in Nat, NEW m \in Nat \ {0}
  PROVE  Aligned(Truncate(x, m), m)
BY TruncateBelow, AlignedIs

LEMMA AlignedNext ==
  ASSUME NEW a \in Nat, NEW c \in Nat, NEW m \in Nat \ {0},
         Aligned(a, m), Aligned(c, m), a < c + m
  PROVE  a <= c
<1>1. PICK i \in Nat, j \in Nat : a = i * m /\ c = j * m
  BY AlignedIs
<1> QED
  BY <1>1, ProductLess

LEMMA AlignedBelow ==
  ASSUME NEW a \in Nat, NEW x \in Nat, NEW m \in Nat \ {0}, Aligned(a, m), a <= x
  PROVE  a <= Truncate(x, m)
<1>1. Truncate(x, m) \in Nat /\ x < Truncate(x, m) + m
  BY TruncateBelow
<1>2. Aligned(Truncate(x, m), m)
  BY TruncateAligned
<1>3. a < Truncate(x, m) + m
  BY <1>1
<1> QED
  BY <1>1, <1>2, <1>3, AlignedNext

LEMMA TruncateMonotone ==
  ASSUME NEW x \in Nat, NEW y \in Nat, NEW m \in Nat \ {0}, x <= y
  PROVE  Truncate(x, m) <= Truncate(y, m)
<1>1. Truncate(x, m) \in Nat /\ Truncate(x, m) <= y
  BY TruncateBelow
<1> QED
  BY <1>1, TruncateAligned, AlignedBelow

(***************************************************************************)
(* The ticks of the wheels divide each other (timingwheel.go:119-126), so  *)
(* that the wheel above may truncate the time of the wheel below.          *)
(***************************************************************************)
LEMMA Sizes ==
  /\ WheelSize \in Nat \ {0}
  /\ \A k \in Level : Tick(k) \in Nat \ {0} /\ Interval(k) \in Nat \ {0}
  /\ \A k \in Level : k < MaxLevel => Tick(k + 1) = Interval(k)
<1>1. \A i, j \in Nat \ {0} : i * j \in Nat \ {0}
  OBVIOUS
<1>2. WheelSize \in Nat \ {0} /\ \A k \in Level : Tick(k) \in Nat \ {0}
  BY WheelAssumption DEF Tick
<1> QED
  BY <1>1, <1>2, WheelAssumption DEF Tick, Interval

Divides(j, k) == \E n \in Nat \ {0} : Tick(k) = n * Tick(j)

LEMMA TicksDivide ==
  ASSUME NEW j \in Level, NEW k \in Level, j <= k
  PROVE  Divides(j, k)
<1> DEFINE T == {i \in Nat : i \in Level /\ j <= i /\ ~Divides(j, i)}
<1>1. \A i \in Level : i \in Nat
  BY WheelAssumption DEF Level
<1>2. SUFFICES ASSUME T # {} PROVE FALSE
  BY <1>1
<1>3. PICK i \in T : \A h \in T : i <= h
  <2>1. T \subseteq Nat
    OBVIOUS
  <2> HIDE DEF T
  <2> QED
    BY <1>2, <2>1, Least
<1>4. CASE i = j
  <2>1. Tick(j) = 1 * Tick(j)
    BY Sizes
  <2> QED
    BY <1>4, <2>1 DEF Divides
<1>5. CASE i # j
  <2>1. i - 1 \in Level /\ j <= i - 1 /\ i - 1 < MaxLevel /\ i - 1 \in Nat
    BY <1>1, <1>5, WheelAssumption DEF Level
  <2>2. Divides(j, i - 1)
    BY <1>1, <1>3, <2>1
  <2>3. PICK n \in Nat \ {0} : Tick(i - 1) = n * Tick(j)
    BY <2>2 DEF Divides
  <2>4. Tick(i) = Tick(i - 1) * WheelSize
    BY <1>1, <2>1, Sizes DEF Interval, Tick
  <2>5. /\ WheelSize * n \in Nat \ {0}
        /\ (n * Tick(j)) * WheelSize = (WheelSize * n) * Tick(j)
    BY Sizes
  <2> QED
    BY <2>3, <2>4, <2>5 DEF Divides
<1> QED
  BY <1>4, <1>5

LEMMA AlignedDown ==
  ASSUME NEW j \in Level, NEW k \in Level, j <= k, NEW x \in Nat,
         Aligned(x, Tick(k))
  PROVE  Aligned(x, Tick(j))
<1>1. PICK n \in Nat \ {0} : Tick(k) = n * Tick(j)
  BY TicksDivide DEF Divides
<1>2. PICK q \in Nat : x = q * Tick(k)
  BY Sizes, AlignedIs
<1>3. q * (n * Tick(j)) = (q * n) * Tick(j) /\ q * n \in Nat
  BY Sizes
<1> QED
  BY <1>1, <1>2, <1>3, Sizes, AlignedIs

LEMMA TruncateTwice ==
  ASSUME NEW j \in Level, NEW k \in Level, j <= k, NEW x \in Nat
  PROVE  Truncate(Truncate(x, Tick(j)), Tick(k)) = Truncate(x, Tick(k))
<1> DEFINE a == Truncate(x, Tick(j))
           c == Truncate(x, Tick(k))
<1>1. Tick(j) \in Nat \ {0} /\ Tick(k) \in Nat \ {0}
  BY Sizes
<1>2. /\ a \in Nat /\ a <= x
      /\ c \in Nat /\ c <= x /\ x < c + Tick(k)
  BY <1>1, TruncateBelow
<1>3. PICK q \in Nat : c = q * Tick(k)
  BY <1>1, TruncateBelow
<1>4. Aligned(c, Tick(j))
  BY <1>1, <1>2, TruncateAligned, AlignedDown
<1> HIDE DEF c
<1>5. c <= a
  BY <1>1, <1>2, <1>4, AlignedBelow
<1> HIDE DEF a
<1>6. a < c + Tick(k)
  BY <1>1, <1>2
<1>7. Truncate(a, Tick(k)) = c
  BY <1>1, <1>2, <1>3, <1>5, <1>6, TruncateIs
<1> QED
  BY <1>7 DEF a, c

(***************************************************************************)
(* A slot of a wheel stands for one tick of its interval: two ticks with   *)
(* the same slot are a whole interval apart (timingwheel.go:99-102).       *)
(***************************************************************************)
LEMMA SameRemainder ==
  ASSUME NEW i \in Nat, NEW j \in Nat, NEW w \in Nat \ {0},
         i % w = j % w, i < j + w, j < i + w
  PROVE  i = j
<1> DEFINE p == i \div w
           q == j \div w
           a == p * w
           b == q * w
<1>1. p \in Nat /\ q \in Nat
  OBVIOUS
<1>2. i % w = i - a
  OBVIOUS
<1>3. j % w = j - b
  OBVIOUS
<1> HIDE DEF p, q
<1>4. a \in Nat /\ b \in Nat
  BY <1>1, Product
<1> HIDE DEF a, b
<1>5. i - a = j - b
  BY <1>2, <1>3
<1>6. a < b + w /\ b < a + w
  BY <1>4, <1>5
<1>7. a <= b /\ b <= a
  BY <1>1, <1>6, ProductLess DEF a, b
<1> QED
  BY <1>4, <1>5, <1>7

LEMMA SameSlot ==
  ASSUME NEW k \in Level, NEW c \in Nat, NEW d \in Nat, NEW e \in Nat,
         c <= d, d < c + Interval(k), c <= e, e < c + Interval(k),
         Aligned(d, Tick(k)), Aligned(e, Tick(k)), BucketAt(k, d) = BucketAt(k, e)
  PROVE  d = e
<1> DEFINE m == Tick(k)
           i == d \div m
           j == e \div m
<1>1. m \in Nat \ {0} /\ WheelSize \in Nat \ {0}
  BY Sizes
<1>2. i \in Nat /\ j \in Nat /\ d = i * m /\ e = j * m
  BY <1>1 DEF Aligned, Truncate
<1>3. i % WheelSize = j % WheelSize
  BY DEF BucketAt, Tick
<1>4. d < e + m * WheelSize /\ e < d + m * WheelSize
  <2>1. Interval(k) = m * WheelSize /\ Interval(k) \in Nat
    BY Sizes DEF Interval, Tick
  <2> HIDE DEF m
  <2> QED
    BY <2>1
<1> HIDE DEF i, j, m
<1>5. i < j + WheelSize /\ j < i + WheelSize
  <2>1. \A g, h \in Nat : g * m < h * m + m * WheelSize => g < h + WheelSize
    <3> SUFFICES ASSUME NEW g \in Nat, NEW h \in Nat, g >= h + WheelSize
                 PROVE  g * m >= h * m + m * WheelSize
      BY <1>1, Product
    <3>1. h + WheelSize \in Nat
      BY <1>1
    <3>2. g * m >= (h + WheelSize) * m
      BY <1>1, <3>1
    <3> QED
      BY <1>1, <3>2
  <2> QED
    BY <1>2, <1>4, <2>1
<1>6. i = j
  BY <1>1, <1>2, <1>3, <1>5, SameRemainder
<1> QED
  BY <1>2, <1>6

\* The slot of a time is that of its tick.
LEMMA SlotOfTick ==
  ASSUME NEW k \in Level, NEW e \in Nat
  PROVE  BucketAt(k, Truncate(e, Tick(k))) = BucketAt(k, e)
<1> DEFINE m == Tick(k)
           q == e \div m
<1>1. m \in Nat \ {0}
  BY Sizes
<1>2. q \in Nat
  BY <1>1
<1> HIDE DEF q, m
<1>3. (q * m) \div m = q
  BY <1>1, <1>2
<1> QED
  BY <1>3 DEF q, m, BucketAt, Truncate, Tick

-------------------------------------------------------------------------------
(***************************************************************************)
(* The inductive invariant.  Without lag the loop and the callers take     *)
(* turns, and nothing that is still to run is overdue.  From that follow   *)
(* the facts about clocks and buckets: each bucket in the delay queue is   *)
(* in the window of its wheel, the bucket that is handled next is not      *)
(* later than any other, and it is on its way once.                        *)
(***************************************************************************)
Busy(p) == pc[p] \in AddPC
Exp(p) == expi[tmr[p]]
Marked(b) == bexp[b] # Never
Pushing(p) == pc[p] \in {"read", "push"}

\* Callers and the loop exclude each other, and no two goroutines hold the
\* same timer.
Distinct == \A p, q \in Proc : p # q /\ Busy(p) /\ Busy(q) => tmr[p] # tmr[q]
FromBottom == \A p \in Proc : ~Busy(p) /\ pc[p] # "adv" => lvl[p] = 0
Turns == (pc[Loop] # "recv" => CallersQuiet) /\ Distinct /\ FromBottom

\* No timer is overdue; a bucket that was taken out of the queue is due.
Prompt ==
  /\ \A t \in Timer : where[t] # None => now <= expi[t]
  /\ \A p \in Proc : Busy(p) => now <= Exp(p)
  /\ \A b \in Bucket : b = hand \/ b = lb => Marked(b) /\ bexp[b] <= now

\* The wheels agree, also while the clocks of the first n have been advanced.
Advancing(n, e) ==
  /\ n <= top
  /\ lexp = IF n = 0 THEN e ELSE Truncate(e, Tick(n - 1))
  /\ n > 0 => ct[n] <= lexp
  /\ \A k \in 0 .. n - 1 : ct[k] = Truncate(e, Tick(k))
  /\ \A k \in n .. top : ct[k] = Truncate(ct[n], Tick(k))
Clocks ==
  /\ ct[0] <= now
  /\ \A k \in 0 .. top : Aligned(ct[k], Tick(k))
  /\ pc[Loop] # "adv" => \A k \in 0 .. top : ct[k] = Truncate(ct[0], Tick(k))
  /\ pc[Loop] = "adv" => Advancing(lvl[Loop], bexp[lb])
  /\ pc[Loop] \notin {"recv", "adv"} => bexp[lb] <= ct[0]

\* The expiration of a bucket is a tick of its slot within one turn of its wheel.
InWindow(b) ==
  /\ b[1] <= top
  /\ Aligned(bexp[b], Tick(b[1])) /\ BucketAt(b[1], bexp[b]) = b
  /\ ct[b[1]] <= bexp[b] /\ bexp[b] < ct[b[1]] + Interval(b[1])
Window == \A b \in Bucket : Marked(b) => InWindow(b)

\* No bucket is for an earlier tick than the one to which the clocks advance.
Earliest ==
  \A b \in Bucket : Marked(b) =>
    /\ hand # None /\ b # lb => Truncate(bexp[hand], Tick(b[1])) <= bexp[b]
    /\ pc[Loop] = "adv" => Truncate(bexp[lb], Tick(b[1])) <= bexp[b]

\* A bucket is once on its way through the queue, with its expiration.
Pushes(p) ==
  /\ ~Queued(Target(p)) /\ Target(p) # hand /\ Target(p) # lb
  /\ \A q \in Proc \ {p} : Pushing(q) => Target(q) # Target(p)
  /\ bexp[Target(p)] = Truncate(Exp(p), Tick(lvl[p]))
  /\ pc[p] = "push" => off[p] = bexp[Target(p)]
Once ==
  /\ \A x \in BagToSet(queue) : x[2] = bexp[x[1]] /\ x[2] # Never /\ queue[x] = 1
  /\ \A b \in Bucket : b = hand \/ b = lb => ~Queued(b)
  /\ hand # None => hand # lb
  /\ \A p \in Proc : Pushing(p) => Pushes(p)

\* What a goroutine has found out about the wheel it has reached stays true.
Adds(p) ==
  /\ lvl[p] <= top
  /\ pc[p] = "load" /\ lvl[p] > 0 => ct[lvl[p]] + Tick(lvl[p]) <= Exp(p)
  /\ pc[p] = "overflow" =>
       lct[p] = ct[lvl[p]] /\ ct[lvl[p]] + Interval(lvl[p]) <= Exp(p)
  /\ pc[p] = "run" => lvl[p] = 0 /\ Exp(p) < ct[0] + Tick(0)
  /\ pc[p] \in {"insert", "swap"} =>
       /\ ct[lvl[p]] + Tick(lvl[p]) <= Exp(p)
       /\ Exp(p) < ct[lvl[p]] + Interval(lvl[p])
  /\ pc[p] = "swap" => where[tmr[p]] = Target(p) \/ where[tmr[p]] = None
Adding == \A p \in Proc : Busy(p) => Adds(p)

\* The loop reinserts the timers of its bucket.
Reinserting == Busy(Loop) => Truncate(Exp(Loop), Tick(lb[1])) = bexp[lb]

PInv ==
  /\ TypeOK /\ Holding /\ NoStranded
  /\ Turns /\ Prompt /\ Clocks /\ Window /\ Earliest /\ Once /\ Adding
  /\ Reinserting /\ OneCycle

-------------------------------------------------------------------------------
(* Consequences of the invariant, and what a step of add may change.       *)

LEMMA Places ==
  /\ Loop \in Proc /\ Loop \notin Goroutine
  /\ \A p \in Proc : p \in Goroutine \/ p = Loop
  /\ None \notin Bucket /\ None \notin Timer
  /\ 0 \in Level /\ \A k \in Level : k \in Nat
  /\ \A b \in Bucket : b[1] \in Level
BY NameAssumption, WheelAssumption DEF Proc, Bucket, Level

LEMMA BusyHolds ==
  ASSUME PInv, NEW p \in Proc, Busy(p)
  PROVE  /\ tmr[p] \in Timer /\ Exp(p) \in Nat /\ now <= Exp(p)
         /\ lvl[p] \in Level /\ Target(p) \in Bucket /\ Target(p)[1] = lvl[p]
         /\ Truncate(Exp(p), Tick(lvl[p])) \in Nat
         /\ p \in Goroutine => pc[Loop] = "recv" /\ lb = None
         /\ p = Loop => CallersQuiet /\ lb \in Bucket
<1>1. tmr[p] \in Timer /\ Exp(p) \in Nat
  BY DEF PInv, Holding, TypeOK, Busy, Exp
<1>2. now <= Exp(p) /\ lvl[p] \in Level
  BY DEF PInv, Prompt, TypeOK
<1>3. Target(p) \in Bucket /\ Target(p)[1] = lvl[p]
  BY <1>1, <1>2, BucketAtBucket DEF Target, BucketAt, Exp
<1>4. Truncate(Exp(p), Tick(lvl[p])) \in Nat
  BY <1>1, <1>2, Sizes, TruncateBelow
<1>5. ASSUME p \in Goroutine PROVE pc[Loop] = "recv" /\ lb = None
  <2>1. pc[p] # "idle"
    BY DEF Busy, AddPC
  <2> QED
    BY <1>5, <2>1 DEF PInv, Turns, CallersQuiet, Holding
<1>6. ASSUME p = Loop PROVE CallersQuiet /\ lb \in Bucket
  <2>1. pc[Loop] # "recv"
    BY <1>6 DEF Busy, AddPC
  <2> QED
    BY <2>1 DEF PInv, Turns, Holding, TypeOK
<1> QED
  BY <1>1, <1>2, <1>3, <1>4, <1>5, <1>6

\* SetExpiration gives a bucket a tick of its slot within the turn of its wheel.
LEMMA SwapTick ==
  ASSUME PInv, NEW p \in Proc, AddSwap(p)
  PROVE  LET k == lvl[p]
             b == Target(p)
             e == Truncate(Exp(p), Tick(k))
         IN /\ k \in Level /\ k <= top /\ b \in Bucket /\ b[1] = k
            /\ e \in Nat /\ ct[k] \in Nat /\ bexp' = [bexp EXCEPT ![b] = e]
            /\ Aligned(e, Tick(k)) /\ BucketAt(k, e) = b
            /\ ct[k] <= e /\ e < ct[k] + Interval(k)
            /\ Exp(p) \in Nat /\ now <= Exp(p)
<1> DEFINE k == lvl[p]
           b == Target(p)
           e == Truncate(Exp(p), Tick(k))
<1>1. Busy(p)
  BY DEF AddSwap, Busy, AddPC
<1>2. /\ Exp(p) \in Nat /\ now <= Exp(p) /\ k \in Level /\ b \in Bucket /\ b[1] = k
      /\ e \in Nat /\ ct[k] \in Nat
  BY <1>1, BusyHolds DEF PInv, TypeOK
<1>3. k <= top /\ ct[k] + Tick(k) <= Exp(p) /\ Exp(p) < ct[k] + Interval(k)
  BY <1>1 DEF PInv, Adding, Adds, AddSwap
<1>4. Aligned(ct[k], Tick(k))
  BY <1>2, <1>3, Places DEF PInv, Clocks, TypeOK
<1>5. Tick(k) \in Nat \ {0} /\ Interval(k) \in Nat
  BY <1>2, Sizes
<1>6. ct[k] <= e /\ e < ct[k] + Interval(k) /\ Aligned(e, Tick(k))
  <2>1. ct[k] <= Exp(p)
    BY <1>2, <1>3, <1>5
  <2>2. e <= Exp(p) /\ Aligned(e, Tick(k)) /\ ct[k] <= e
    BY <1>2, <1>4, <1>5, <2>1, TruncateBelow, TruncateAligned, AlignedBelow
  <2> QED
    BY <1>2, <1>3, <1>5, <2>2
<1>7. BucketAt(k, e) = b
  BY <1>2, SlotOfTick DEF Target, Exp
<1>8. bexp' = [bexp EXCEPT ![b] = e]
  BY DEF AddSwap, Exp, Tick
<1> HIDE DEF k, b, e
<1> QED
  BY <1>2, <1>3, <1>6, <1>7, <1>8 DEF k, b, e

\* SetExpiration never changes the expiration of a bucket that is queued.
LEMMA SwapKeeps ==
  ASSUME PInv, NEW p \in Proc, AddSwap(p), Marked(Target(p))
  PROVE  bexp[Target(p)] = Truncate(Exp(p), Tick(lvl[p])) /\ bexp' = bexp
<1> DEFINE k == lvl[p]
           b == Target(p)
           e == Truncate(Exp(p), Tick(k))
<1>1. /\ k \in Level /\ b \in Bucket /\ b[1] = k /\ e \in Nat /\ ct[k] \in Nat
      /\ bexp' = [bexp EXCEPT ![b] = e]
      /\ Aligned(e, Tick(k)) /\ BucketAt(k, e) = b
      /\ ct[k] <= e /\ e < ct[k] + Interval(k)
  BY SwapTick
<1>2. bexp[b] \in Nat /\ InWindow(b)
  BY <1>1 DEF PInv, TypeOK, Window, Marked
<1>3. /\ ct[k] <= bexp[b] /\ bexp[b] < ct[k] + Interval(k)
      /\ Aligned(bexp[b], Tick(k)) /\ BucketAt(k, bexp[b]) = b
  BY <1>1, <1>2 DEF InWindow
<1> HIDE DEF k, b, e
<1>4. bexp[b] = e
  BY <1>1, <1>2, <1>3, SameSlot
<1> QED
  BY <1>1, <1>4 DEF PInv, TypeOK, b, e, k

\* The loop never reinserts a timer into the bucket it is flushing: the clocks
\* have passed the tick of that bucket.
LEMMA NotOwnBucket ==
  ASSUME PInv, Busy(Loop), pc[Loop] \in {"insert", "swap"}
  PROVE  Target(Loop) # lb
<1> DEFINE k == lvl[Loop]
<1>1. SUFFICES ASSUME Target(Loop) = lb PROVE FALSE
  OBVIOUS
<1>2. /\ Exp(Loop) \in Nat /\ k \in Level /\ lb \in Bucket /\ lb[1] = k
      /\ Truncate(Exp(Loop), Tick(k)) = bexp[lb]
  BY <1>1, BusyHolds, Places DEF PInv, Reinserting
<1>3. bexp[lb] \in Nat /\ ct[0] \in Nat /\ ct[k] \in Nat /\ bexp[lb] <= ct[0]
  BY <1>2, Places, Sizes, TruncateBelow DEF PInv, Clocks, TypeOK
<1>4. k <= top /\ ct[k] + Tick(k) <= Exp(Loop)
  BY Places DEF PInv, Adding, Adds
<1>5. ct[k] = Truncate(ct[0], Tick(k))
  BY <1>2, <1>4, Places DEF PInv, Clocks, TypeOK
<1>6. Tick(k) \in Nat \ {0}
  BY <1>2, Sizes
<1>7. Aligned(bexp[lb], Tick(k))
  BY <1>2, <1>6, TruncateAligned
<1> HIDE DEF k
<1>8. bexp[lb] <= ct[k]
  BY <1>3, <1>5, <1>6, <1>7, AlignedBelow
<1>9. Exp(Loop) < bexp[lb] + Tick(k)
  BY <1>2, <1>6, TruncateBelow
<1> QED
  BY <1>2, <1>3, <1>4, <1>6, <1>8, <1>9

LEMMA AddChanges ==
  ASSUME PInv, NEW p \in Proc, AddStep(p)
  PROVE  /\ UNCHANGED <<now, expi, hand, lb, lexp>> /\ Busy(p)
         /\ \A q \in Proc \ {p} :
              /\ pc'[q] = pc[q] /\ tmr'[q] = tmr[q] /\ lvl'[q] = lvl[q]
              /\ lct'[q] = lct[q] /\ off'[q] = off[q]
         /\ Busy(p)' => tmr'[p] = tmr[p]
         /\ Busy(p)' <=> pc'[p] # (IF p = Loop THEN "flush" ELSE "idle")
         /\ ~Busy(p)' => lvl'[p] = 0
         /\ top <= top' /\ \A k \in 0 .. top : ct'[k] = ct[k]
         /\ \A b \in Bucket : Marked(b) \/ b # Target(p) => bexp'[b] = bexp[b]
         /\ \A t \in Timer : t # tmr[p] => where'[t] = where[t]
         /\ pc[Loop] # "adv" /\ pc'[Loop] # "adv"
         /\ pc'[Loop] = "recv" <=> pc[Loop] = "recv"
<1> DEFINE home == IF p = Loop THEN "flush" ELSE "idle"
           Stays == /\ UNCHANGED tmr /\ pc'[p] \in AddPC
           Leaves == /\ pc'[p] = home /\ lvl'[p] = 0
           Others == \A q \in Proc \ {p} :
                       /\ pc'[q] = pc[q] /\ tmr'[q] = tmr[q] /\ lvl'[q] = lvl[q]
                       /\ lct'[q] = lct[q] /\ off'[q] = off[q]
<1>1. TypeOK
  BY DEF PInv
<1>2. UNCHANGED <<now, expi, hand, lb, lexp>> /\ Busy(p)
  BY DEF AddStep, AddLoad, AddOverflow, AddRun, AddInsert, AddSwap, AddRead, AddPush,
         Busy, AddPC, clockVars, timerVars
<1>3. pc[Loop] # "adv"
  BY <1>2, BusyHolds, Places DEF Busy, AddPC
<1>4. Others /\ (Stays \/ Leaves)
  <2>1. CASE AddLoad(p)
    <3>1. \E l \in {"run", "insert", "overflow"} : pc' = [pc EXCEPT ![p] = l]
      BY <2>1 DEF AddLoad, Goto
    <3>2. UNCHANGED <<tmr, lvl, off>> /\ lct' = [lct EXCEPT ![p] = ct[lvl[p]]]
      BY <2>1 DEF AddLoad
    <3> QED
      BY <1>1, <3>1, <3>2 DEF TypeOK, AddPC
  <2>2. CASE AddOverflow(p)
    <3>1. /\ pc' = [pc EXCEPT ![p] = "load"] /\ lvl' = [lvl EXCEPT ![p] = @ + 1]
          /\ UNCHANGED <<tmr, lct, off>>
      BY <2>2 DEF AddOverflow, Goto
    <3> QED
      BY <1>1, <3>1 DEF TypeOK, AddPC
  <2>3. CASE AddInsert(p)
    <3>1. pc' = [pc EXCEPT ![p] = "swap"] /\ UNCHANGED <<tmr, lvl, lct, off>>
      BY <2>3 DEF AddInsert, Goto
    <3> QED
      BY <1>1, <3>1 DEF TypeOK, AddPC
  <2>4. CASE AddRead(p)
    <3>1. /\ pc' = [pc EXCEPT ![p] = "push"] /\ UNCHANGED <<tmr, lvl, lct>>
          /\ off' = [off EXCEPT ![p] = bexp[Target(p)]]
      BY <2>4 DEF AddRead, Goto
    <3> QED
      BY <1>1, <3>1 DEF TypeOK, AddPC
  <2>5. CASE Return(p)
    BY <1>1, <2>5 DEF Return, Goto, TypeOK
  <2>6. CASE AddSwap(p)
    <3>1. \/ pc' = [pc EXCEPT ![p] = "read"] /\ UNCHANGED <<tmr, lvl, lct, off>>
          \/ Return(p)
      BY <2>6 DEF AddSwap, Goto
    <3> QED
      BY <1>1, <2>5, <3>1 DEF TypeOK, AddPC
  <2> QED
    BY <2>1, <2>2, <2>3, <2>4, <2>5, <2>6 DEF AddStep, AddRun, AddPush
<1>5. Busy(p)' => tmr'[p] = tmr[p]
  BY <1>4 DEF Busy, AddPC
<1>6. /\ Busy(p)' <=> pc'[p] # home
      /\ ~Busy(p)' => lvl'[p] = 0
  BY <1>4 DEF Busy, AddPC
<1>7. top <= top' /\ \A k \in 0 .. top : ct'[k] = ct[k]
  <2>1. CASE AddOverflow(p) /\ lvl[p] = top
    <3>1. /\ top' = top + 1
          /\ ct' = [ct EXCEPT ![top + 1] = Truncate(lct[p], LevelTick[top + 1])]
      BY <2>1 DEF AddOverflow
    <3>2. top \in Nat /\ \A k \in 0 .. top : k \in Level /\ k # top + 1
      BY <1>1, WheelAssumption DEF TypeOK, Level
    <3> QED
      BY <1>1, <3>1, <3>2 DEF TypeOK
  <2>2. CASE ~(AddOverflow(p) /\ lvl[p] = top)
    <3>1. top' = top /\ ct' = ct
      BY <2>2 DEF AddStep, AddLoad, AddOverflow, AddRun, AddInsert, AddSwap, AddRead,
                  AddPush, clockVars
    <3> QED
      BY <1>1, <3>1, WheelAssumption DEF TypeOK, Level
  <2> QED
    BY <2>1, <2>2
<1>8. \A b \in Bucket : Marked(b) \/ b # Target(p) => bexp'[b] = bexp[b]
  <2>1. CASE AddSwap(p)
    <3>1. bexp' = [bexp EXCEPT ![Target(p)] = Truncate(expi[tmr[p]], LevelTick[lvl[p]])]
      BY <2>1 DEF AddSwap
    <3> QED
      BY <1>1, <2>1, <3>1, SwapKeeps DEF TypeOK
  <2>2. CASE ~AddSwap(p)
    BY <2>2 DEF AddStep, AddLoad, AddOverflow, AddRun, AddInsert, AddRead, AddPush
  <2> QED
    BY <2>1, <2>2
<1>9. \A t \in Timer : t # tmr[p] => where'[t] = where[t]
  BY <1>1 DEF AddStep, AddLoad, AddOverflow, AddRun, AddInsert, AddSwap, AddRead,
              AddPush, TypeOK
<1>10. pc'[Loop] # "adv" /\ (pc'[Loop] = "recv" <=> pc[Loop] = "recv")
  BY <1>2, <1>3, <1>4, Places DEF Busy, AddPC
<1> HIDE DEF Stays, Leaves
<1> QED
  BY <1>2, <1>3, <1>4, <1>5, <1>6, <1>7, <1>8, <1>9, <1>10

(***************************************************************************)
(* An entry of a bag that is there once: added, and removed for good.      *)
(***************************************************************************)
LEMMA BagAddOnce ==
  ASSUME NEW B, NEW x, IsABag(B), x \notin BagToSet(B)
  PROVE  /\ (B (+) SetToBag({x}))[x] = 1
         /\ \A y \in BagToSet(B) : (B (+) SetToBag({x}))[y] = B[y]
BY DEF (+), SetToBag, BagToSet, IsABag

LEMMA BagRemoveOnce ==
  ASSUME NEW B, NEW x, IsABag(B), x \in BagToSet(B), B[x] = 1
  PROVE  /\ x \notin BagToSet(B (-) SetToBag({x}))
         /\ \A y \in BagToSet(B (-) SetToBag({x})) : (B (-) SetToBag({x}))[y] = B[y]
<1> DEFINE C == B (-) SetToBag({x})
           D == [e \in DOMAIN B |-> IF e \in DOMAIN SetToBag({x})
                                      THEN B[e] - SetToBag({x})[e] ELSE B[e]]
<1>1. C = [e \in {d \in DOMAIN D : D[d] > 0} |-> D[e]]
  BY DEF (-)
<1>2. DOMAIN D = DOMAIN B /\ \A e \in DOMAIN B : e # x => D[e] = B[e]
  BY DEF SetToBag
<1>3. D[x] = 0
  BY DEF SetToBag, BagToSet
<1> HIDE DEF C, D
<1>4. BagToSet(C) = {d \in DOMAIN B : D[d] > 0}
  BY <1>1, <1>2 DEF BagToSet
<1>5. x \notin BagToSet(C)
  BY <1>3, <1>4
<1>6. \A y \in BagToSet(C) : C[y] = B[y]
  BY <1>1, <1>2, <1>4, <1>5
<1> QED
  BY <1>5, <1>6 DEF C

-------------------------------------------------------------------------------
(***************************************************************************)
(* Every step keeps the invariant, one conjunct at a time.                 *)
(***************************************************************************)
LEMMA TurnsStep == PInv /\ ~Lag /\ [Next]_vars => Turns'
<1> SUFFICES ASSUME PInv, ~Lag, [Next]_vars PROVE Turns'
  OBVIOUS
<1>a. TypeOK /\ Turns /\ Holding
  BY DEF PInv
<1>b. TypeOK'
  BY TypesStep DEF PInv
<1> USE DEF Busy, AddPC, CallersQuiet, Distinct, FromBottom
<1>1. CASE UNCHANGED <<pc, tmr, lvl>>
  BY <1>a, <1>1 DEF Turns
<1>2. ASSUME NEW p \in Goroutine, NEW t \in Timer, NEW d \in Delay,
             AfterFunc(p, t, d)
      PROVE  Turns'
  <2>1. /\ pc[p] = "idle" /\ pc[Loop] = "recv" /\ expi[t] = Never
        /\ pc' = [pc EXCEPT ![p] = "load"] /\ tmr' = [tmr EXCEPT ![p] = t]
        /\ lvl' = lvl
    BY <1>2 DEF AfterFunc, Goto, LoopQuiet
  <2>2. /\ p \in Proc /\ p # Loop
        /\ \A q \in Proc : /\ pc'[q] = IF q = p THEN "load" ELSE pc[q]
                           /\ tmr'[q] = IF q = p THEN t ELSE tmr[q]
    BY <1>a, <2>1, Places DEF TypeOK, Proc
  <2>3. \A q \in Proc : Busy(q) => tmr[q] # t
    BY <1>a, <2>1 DEF Holding
  <2> QED
    BY <1>a, <2>1, <2>2, <2>3, Places DEF Turns
<1>3. ASSUME NEW p \in Proc, AddStep(p) PROVE Turns'
  <2> HIDE DEF Busy, AddPC, Distinct, FromBottom
  <2>1. pc'[Loop] # "recv" => \A q \in Goroutine : pc'[q] = "idle"
    <3>1. CASE p = Loop
      BY <1>3, <3>1, AddChanges, BusyHolds, Places DEF Proc
    <3>2. CASE p \in Goroutine
      BY <1>3, <3>2, AddChanges, BusyHolds, Places
    <3> QED
      BY <3>1, <3>2, Places
  <2>2. \A q \in Proc \ {p} : /\ Busy(q)' <=> Busy(q)
                              /\ tmr'[q] = tmr[q] /\ lvl'[q] = lvl[q]
    BY <1>3, AddChanges DEF Busy
  <2>3. /\ Busy(p) /\ (Busy(p)' => tmr'[p] = tmr[p])
        /\ ~Busy(p)' => lvl'[p] = 0
    BY <1>3, AddChanges
  <2>4. \A q \in Proc \ {p} : pc'[q] = pc[q]
    BY <1>3, AddChanges
  <2>5. Distinct'
    BY <1>a, <2>2, <2>3 DEF Turns, Distinct
  <2>6. FromBottom'
    BY <1>a, <2>2, <2>3, <2>4 DEF Turns, FromBottom
  <2> QED
    BY <2>1, <2>5, <2>6 DEF Turns
<1>4. CASE LoopReceive
  <2>1. /\ pc[Loop] = "recv" /\ pc' = [pc EXCEPT ![Loop] = "adv"]
        /\ CallersQuiet /\ UNCHANGED <<tmr, lvl>>
    BY <1>4 DEF LoopReceive, Goto
  <2> QED
    BY <1>a, <2>1, Places DEF Turns, TypeOK
<1>5. CASE LoopAdvance
  <2>1. /\ pc[Loop] = "adv" /\ UNCHANGED tmr
        /\ \/ pc' = pc /\ \E n : lvl' = [lvl EXCEPT ![Loop] = n]
           \/ pc' = [pc EXCEPT ![Loop] = "lock"] /\ lvl' = [lvl EXCEPT ![Loop] = 0]
    BY <1>5 DEF LoopAdvance, Goto
  <2>2. \A q \in Goroutine : pc[q] = "idle" /\ lvl[q] = 0
    BY <1>a, <2>1, Places DEF Turns, Proc
  <2>3. \A q \in Goroutine : pc'[q] = "idle" /\ lvl'[q] = 0
    BY <1>a, <2>1, <2>2, Places DEF TypeOK, Proc
  <2>4. \/ pc'[Loop] = "adv"
        \/ pc'[Loop] = "lock" /\ lvl'[Loop] = 0
    <3>1. CASE pc' = pc
      BY <2>1, <3>1
    <3>2. CASE pc' = [pc EXCEPT ![Loop] = "lock"] /\ lvl' = [lvl EXCEPT ![Loop] = 0]
      BY <1>a, <3>2, Places DEF TypeOK
    <3> QED
      BY <2>1, <3>1, <3>2
  <2>5. \A q \in Proc : ~Busy(q)' /\ (pc'[q] # "adv" => lvl'[q] = 0)
    BY <2>3, <2>4, Places
  <2> QED
    BY <2>3, <2>5 DEF Turns
<1>6. CASE FlushLock \/ FlushEnd
  <2>1. /\ pc[Loop] \in {"lock", "flush"} /\ UNCHANGED <<tmr, lvl>>
        /\ \/ pc' = [pc EXCEPT ![Loop] = "flush"] \/ pc' = [pc EXCEPT ![Loop] = "recv"]
    BY <1>6 DEF FlushLock, FlushEnd, Goto
  <2>2. \A q \in Goroutine : pc[q] = "idle"
    BY <1>a, <2>1 DEF Turns
  <2>3. /\ \A q \in Goroutine : pc'[q] = "idle"
        /\ pc'[Loop] \in {"flush", "recv"}
    BY <1>a, <2>1, <2>2, Places DEF TypeOK, Proc
  <2>4. \A q \in Proc : ~Busy(q) /\ ~Busy(q)' /\ pc[q] # "adv" /\ lvl'[q] = lvl[q]
    BY <2>1, <2>2, <2>3, Places
  <2> QED
    BY <1>a, <2>3, <2>4 DEF Turns
<1>7. ASSUME NEW t \in Timer, FlushTimer(t) PROVE Turns'
  <2>1. /\ pc[Loop] = "flush" /\ pc' = [pc EXCEPT ![Loop] = "load"] /\ UNCHANGED lvl
        /\ tmr' = [tmr EXCEPT ![Loop] = t]
    BY <1>7 DEF FlushTimer, Goto
  <2>2. \A q \in Goroutine : pc[q] = "idle"
    BY <1>a, <2>1 DEF Turns
  <2> QED
    BY <1>a, <2>1, <2>2, Places DEF Turns, TypeOK
<1> QED
  BY <1>1, <1>2, <1>3, <1>4, <1>5, <1>6, <1>7
  DEF Next, LoopStep, Advance, PollPick, StopLook, StopRemove, vars, addVars

LEMMA PromptStep == PInv /\ ~Lag /\ [Next]_vars => Prompt'
<1> SUFFICES ASSUME PInv, ~Lag, [Next]_vars PROVE Prompt'
  OBVIOUS
<1>a. TypeOK /\ Prompt /\ Holding
  BY DEF PInv
<1>1. CASE UNCHANGED <<now, where, expi, pc, tmr, hand, lb, bexp>>
  BY <1>a, <1>1 DEF Prompt, Busy, Exp, Marked
<1>2. CASE Advance
  <2>1. /\ \A p \in Proc : ~Busy(p)
        /\ hand = None /\ lb = None /\ \A x \in BagToSet(queue) : x[2] > now
        /\ now' = now + 1 /\ UNCHANGED <<where, expi, pc, tmr, hand, lb, bexp>>
    BY <1>2, <1>a, Places DEF Advance, CallersQuiet, LoopQuiet, NothingDue, Busy, AddPC,
                              Holding, timerVars, addVars
  <2>2. ASSUME NEW t \in Timer, where[t] # None PROVE now + 1 <= expi[t]
    <3> DEFINE b == where[t]
    <3>1. b \in Bucket /\ b = <<b[1], b[2]>> /\ b[1] \in Level /\ b[2] \in Slot
      BY <1>a, <2>2 DEF TypeOK, Bucket
    <3>2. expi[t] \in Nat
      BY <1>a, <2>2 DEF TypeOK, Holding
    <3>3. bexp[b] = Truncate(expi[t], Tick(b[1]))
      <4>1. \A p \in Proc : pc[p] # "swap"
        BY <2>1 DEF Busy, AddPC
      <4> QED
        BY <3>1, <4>1 DEF PInv, OneCycle, Tick
    <3>4. bexp[b] \in Nat /\ bexp[b] <= expi[t]
      BY <3>1, <3>2, <3>3, Sizes, TruncateBelow
    <3>5. Covered(b)
      BY <3>1, <3>4 DEF PInv, NoStranded, Never
    <3>6. Queued(b)
      <4>1. \A p \in Proc : pc[p] \notin {"read", "push"}
        BY <2>1 DEF Busy, AddPC
      <4> QED
        BY <2>1, <3>1, <3>5, <4>1, Places DEF Covered
    <3>7. PICK x \in BagToSet(queue) : x[1] = b
      BY <3>6 DEF Queued
    <3>8. x[2] = bexp[b] /\ bexp[b] > now
      BY <2>1, <3>7 DEF PInv, Once
    <3> QED
      BY <1>a, <3>2, <3>4, <3>8 DEF TypeOK
  <2>3. \A p \in Proc : ~Busy(p)'
    BY <2>1 DEF Busy
  <2> QED
    BY <2>1, <2>2, <2>3, Places DEF Prompt
<1>3. ASSUME NEW p \in Goroutine, NEW t \in Timer, NEW d \in Delay,
             AfterFunc(p, t, d)
      PROVE  Prompt'
  <2>1. /\ expi[t] = Never /\ expi' = [expi EXCEPT ![t] = now + d]
        /\ pc' = [pc EXCEPT ![p] = "load"] /\ tmr' = [tmr EXCEPT ![p] = t]
        /\ UNCHANGED <<now, where, hand, lb, bexp>>
    BY <1>3 DEF AfterFunc, Goto, clockVars
  <2>2. d \in Nat /\ now <= now + d
    BY <1>a, BoundAssumption DEF TypeOK
  <2>3. where[t] = None /\ \A q \in Proc : Busy(q) => tmr[q] # t
    BY <1>a, <2>1 DEF Holding, Busy
  <2>4. \A q \in Proc \ {p} : Busy(q)' => Busy(q) /\ Exp(q)' = Exp(q)
    BY <1>a, <2>1, <2>3, BusyHolds DEF TypeOK, Busy, Exp
  <2>5. p \in Proc /\ Exp(p)' = now + d
    BY <1>a, <2>1, Places DEF TypeOK, Exp, Proc
  <2>6. \A u \in Timer : where'[u] # None => now' <= expi'[u]
    BY <1>a, <2>1, <2>3 DEF TypeOK, Prompt
  <2>7. \A q \in Proc : Busy(q)' => now' <= Exp(q)'
    BY <1>a, <2>1, <2>2, <2>4, <2>5 DEF Prompt
  <2> QED
    BY <1>a, <2>1, <2>6, <2>7 DEF Prompt, Marked
<1>4. ASSUME NEW p \in Proc, AddStep(p) PROVE Prompt'
  <2>1. /\ UNCHANGED <<now, expi, hand, lb>> /\ Busy(p)
        /\ \A q \in Proc \ {p} : pc'[q] = pc[q] /\ tmr'[q] = tmr[q]
        /\ Busy(p)' => tmr'[p] = tmr[p]
        /\ \A b \in Bucket : Marked(b) => bexp'[b] = bexp[b]
        /\ \A t \in Timer : t # tmr[p] => where'[t] = where[t]
    BY <1>4, AddChanges
  <2>2. now <= Exp(p)
    BY <2>1, BusyHolds
  <2>3. \A t \in Timer : where'[t] # None => now' <= expi'[t]
    BY <1>a, <2>1, <2>2 DEF Prompt, Exp
  <2>4. \A q \in Proc : Busy(q)' => now' <= Exp(q)'
    BY <1>a, <2>1, <2>2 DEF Prompt, Busy, Exp
  <2>5. \A b \in Bucket : b = hand' \/ b = lb' => Marked(b)' /\ bexp'[b] <= now'
    BY <1>a, <2>1 DEF Prompt, Marked
  <2> QED
    BY <2>3, <2>4, <2>5 DEF Prompt
<1>5. CASE PollPick
  <2>1. PICK x \in BagToSet(queue) : x[2] <= now /\ hand' = x[1]
    BY <1>5 DEF PollPick
  <2>2. UNCHANGED <<now, where, expi, pc, tmr, lb, bexp>>
    BY <1>5 DEF PollPick, clockVars, timerVars, addVars
  <2>3. bexp[x[1]] = x[2] /\ x[2] # Never
    BY <2>1 DEF PInv, Once
  <2> QED
    BY <1>a, <2>1, <2>2, <2>3 DEF Prompt, Marked, Busy, Exp
<1>6. CASE LoopReceive
  <2>1. /\ hand' = None /\ lb' = hand /\ UNCHANGED <<now, where, expi, tmr, bexp>>
        /\ pc' = [pc EXCEPT ![Loop] = "adv"]
    BY <1>6 DEF LoopReceive, Goto, clockVars, timerVars
  <2>2. \A q \in Proc : Busy(q)' => Busy(q)
    BY <1>a, <2>1 DEF TypeOK, Busy, AddPC
  <2> QED
    BY <1>a, <2>1, <2>2, Places DEF Prompt, Marked, Exp
<1>7. CASE LoopAdvance \/ FlushLock
  <2>1. /\ UNCHANGED <<now, where, expi, tmr, hand, lb, bexp>>
        /\ pc' = pc \/ pc' = [pc EXCEPT ![Loop] = "lock"]
           \/ pc' = [pc EXCEPT ![Loop] = "flush"]
    BY <1>7 DEF LoopAdvance, FlushLock, Goto, clockVars, timerVars
  <2>2. \A q \in Proc : Busy(q)' => Busy(q)
    BY <1>a, <2>1 DEF TypeOK, Busy, AddPC
  <2> QED
    BY <1>a, <2>1, <2>2 DEF Prompt, Marked, Exp
<1>8. CASE FlushEnd
  <2>1. /\ lb' = None /\ bexp' = [bexp EXCEPT ![lb] = Never]
        /\ pc' = [pc EXCEPT ![Loop] = "recv"] /\ UNCHANGED <<now, where, expi, tmr, hand>>
    BY <1>8 DEF FlushEnd, Goto, clockVars, timerVars
  <2>2. \A q \in Proc : Busy(q)' => Busy(q)
    BY <1>a, <2>1 DEF TypeOK, Busy, AddPC
  <2>3. hand # None => hand # lb
    BY DEF PInv, Once
  <2> QED
    BY <1>a, <2>1, <2>2, <2>3, Places DEF Prompt, Marked, Exp, TypeOK
<1>9. ASSUME NEW t \in Timer, FlushTimer(t) PROVE Prompt'
  <2>1. /\ pc[Loop] = "flush" /\ where[t] = lb /\ where' = [where EXCEPT ![t] = None]
        /\ tmr' = [tmr EXCEPT ![Loop] = t] /\ pc' = [pc EXCEPT ![Loop] = "load"]
        /\ UNCHANGED <<now, expi, hand, lb, bexp>>
    BY <1>9 DEF FlushTimer, Goto, clockVars, timerVars
  <2>2. lb # None
    BY <1>a, <2>1 DEF Holding
  <2>3. now <= expi[t]
    BY <1>a, <2>1, <2>2 DEF Prompt
  <2>4. \A u \in Timer : where'[u] # None => now' <= expi'[u]
    BY <1>a, <2>1 DEF Prompt, TypeOK
  <2>5. \A q \in Proc : Busy(q)' => now' <= Exp(q)'
    BY <1>a, <2>1, <2>3 DEF Prompt, TypeOK, Busy, Exp
  <2> QED
    BY <1>a, <2>1, <2>4, <2>5 DEF Prompt, Marked
<1>10. ASSUME NEW t \in Timer, StopRemove(t) PROVE Prompt'
  <2>1. /\ where' = where \/ where' = [where EXCEPT ![t] = None]
        /\ UNCHANGED <<now, expi, pc, tmr, hand, lb, bexp>>
    BY <1>10 DEF StopRemove, clockVars, timerVars, addVars
  <2>2. \A u \in Timer : where'[u] # None => where[u] # None
    BY <1>a, <2>1 DEF TypeOK
  <2> QED
    BY <1>a, <2>1, <2>2 DEF Prompt, Busy, Exp, Marked
<1> QED
  BY <1>1, <1>2, <1>3, <1>4, <1>5, <1>6, <1>7, <1>8, <1>9, <1>10
  DEF Next, LoopStep, StopLook, vars, clockVars, timerVars, addVars, stopVars

\* advanceClock of one wheel sets its clock to the tick of the bucket, which is
\* not earlier, or leaves it.
LEMMA AdvanceMoves ==
  ASSUME PInv, LoopAdvance
  PROVE  LET n == lvl[Loop]
             m == Tick(n)
             e == bexp[lb]
         IN /\ n \in 0 .. top /\ e \in Nat /\ e <= now /\ Aligned(e, Tick(0))
            /\ lexp \in Nat /\ ct[n] \in Nat /\ Truncate(lexp, m) = Truncate(e, m)
            /\ lexp >= ct[n] + m =>
                 /\ ct[n] <= Truncate(e, m)
                 /\ \A k \in 0 .. top :
                      ct'[k] = IF k = n THEN Truncate(e, m) ELSE ct[k]
            /\ ~(lexp >= ct[n] + m) =>
                 ct' = ct /\ (n > 0 => ct[n] = Truncate(e, m))
<1> DEFINE n == lvl[Loop]
           m == Tick(n)
           e == bexp[lb]
<1>1. /\ TypeOK /\ pc[Loop] = "adv" /\ Advancing(n, e)
      /\ \A k \in 0 .. top : Aligned(ct[k], Tick(k))
  BY DEF PInv, Clocks, LoopAdvance
<1>2. /\ n \in Level /\ top \in Nat /\ n \in 0 .. top
      /\ \A k \in 0 .. top : k \in Level /\ k \in Nat
  BY <1>1, Places, WheelAssumption DEF TypeOK, Level, Advancing
<1>3. m \in Nat \ {0}
  BY <1>2, Sizes
<1>4. lb \in Bucket /\ e \in Nat /\ e <= now
  <2>1. lb \in Bucket
    BY <1>1, Places DEF PInv, Holding, TypeOK
  <2> QED
    BY <1>1, <2>1 DEF PInv, Prompt, Marked, TypeOK
<1>5. Aligned(e, Tick(0))
  <2>1. lb[1] \in Level /\ 0 \in Level /\ 0 <= lb[1] /\ Aligned(e, Tick(lb[1]))
    BY <1>4, Places DEF PInv, Window, InWindow, Prompt
  <2> QED
    BY <1>4, <2>1, AlignedDown
<1>6. ct[n] \in Nat /\ Aligned(ct[n], m)
  BY <1>1, <1>2 DEF TypeOK
<1>7. lexp \in Nat /\ Truncate(lexp, m) = Truncate(e, m)
  <2>1. CASE n = 0
    BY <1>1, <1>4, <2>1 DEF Advancing
  <2>2. CASE n # 0
    <3>1. n - 1 \in Level /\ n - 1 <= n
      BY <1>2, <2>2 DEF Level
    <3>2. lexp = Truncate(e, Tick(n - 1))
      BY <1>1, <2>2 DEF Advancing
    <3> HIDE DEF n, e
    <3>3. Truncate(Truncate(e, Tick(n - 1)), Tick(n)) = Truncate(e, Tick(n))
      BY <1>2, <1>4, <3>1, TruncateTwice
    <3>4. Truncate(e, Tick(n - 1)) \in Nat
      BY <1>4, <3>1, Sizes, TruncateBelow
    <3> QED
      BY <3>2, <3>3, <3>4
  <2> QED
    BY <2>1, <2>2
<1>8. ct' = IF lexp >= ct[n] + m THEN [ct EXCEPT ![n] = Truncate(lexp, m)] ELSE ct
  BY DEF LoopAdvance, Tick
<1>9. n > 0 => ct[n] <= lexp
  BY <1>1 DEF Advancing
<1> HIDE DEF m, e, n
<1>10. ASSUME lexp >= ct[n] + m
       PROVE  /\ ct[n] <= Truncate(e, m)
              /\ \A k \in 0 .. top :
                   ct'[k] = IF k = n THEN Truncate(e, m) ELSE ct[k]
  <2>1. ct[n] <= lexp
    BY <1>3, <1>6, <1>7, <1>10
  <2>2. ct[n] <= Truncate(lexp, m)
    BY <1>3, <1>6, <1>7, <2>1, AlignedBelow
  <2>3. \A k \in 0 .. top : ct'[k] = IF k = n THEN Truncate(lexp, m) ELSE ct[k]
    BY <1>1, <1>2, <1>8, <1>10 DEF TypeOK
  <2> QED
    BY <1>7, <2>2, <2>3
<1>11. ASSUME ~(lexp >= ct[n] + m)
       PROVE  ct' = ct /\ (n > 0 => ct[n] = Truncate(e, m))
  <2>1. ct' = ct
    BY <1>8, <1>11
  <2>2. ASSUME n > 0 PROVE ct[n] = Truncate(e, m)
    <3>1. PICK q \in Nat : ct[n] = q * m
      BY <1>3, <1>6, AlignedIs
    <3>2. q * m <= lexp /\ lexp < q * m + m
      BY <1>3, <1>6, <1>7, <1>9, <1>11, <2>2, <3>1
    <3> QED
      BY <1>3, <1>7, <3>1, <3>2, TruncateIs
  <2> QED
    BY <2>1, <2>2
<1>12. /\ n \in 0 .. top /\ e \in Nat /\ e <= now /\ Aligned(e, Tick(0))
       /\ lexp \in Nat /\ ct[n] \in Nat /\ Truncate(lexp, m) = Truncate(e, m)
  BY <1>2, <1>4, <1>5, <1>6, <1>7
<1> QED
  BY <1>10, <1>11, <1>12 DEF n, m, e

LEMMA ClocksAdvance ==
  ASSUME PInv, LoopAdvance
  PROVE  Clocks'
<1> DEFINE n == lvl[Loop]
           m == Tick(n)
           e == bexp[lb]
           moves == lexp >= ct[n] + m
           At(c, k) == c[k] = Truncate(e, Tick(k))
<1>1. /\ TypeOK /\ pc[Loop] = "adv" /\ Advancing(n, e) /\ ct[0] <= now
      /\ \A k \in 0 .. top : Aligned(ct[k], Tick(k))
  BY DEF PInv, Clocks, LoopAdvance
<1>2. UNCHANGED <<now, top, bexp, lb>>
  BY DEF LoopAdvance
<1>3. /\ n \in 0 .. top /\ e \in Nat /\ e <= now /\ Aligned(e, Tick(0))
      /\ lexp \in Nat /\ ct[n] \in Nat /\ Truncate(lexp, m) = Truncate(e, m)
      /\ moves =>
           /\ ct[n] <= Truncate(e, m)
           /\ \A k \in 0 .. top :
                ct'[k] = IF k = n THEN Truncate(e, m) ELSE ct[k]
      /\ ~moves => ct' = ct /\ (n > 0 => ct[n] = Truncate(e, m))
  BY AdvanceMoves
<1>4. /\ top \in Nat /\ n \in Level /\ 0 \in 0 .. top
      /\ \A k \in 0 .. top : k \in Level /\ k \in Nat /\ Tick(k) \in Nat \ {0}
  <2>1. /\ top \in Nat /\ n \in Level /\ 0 \in 0 .. top
        /\ \A k \in 0 .. top : k \in Level /\ k \in Nat
    BY <1>1, <1>3, WheelAssumption DEF TypeOK, Level
  <2> QED
    BY <2>1, Sizes
<1>5. \A k \in 0 .. top : Truncate(e, Tick(k)) \in Nat /\ Truncate(e, Tick(k)) <= e
  BY <1>3, <1>4, TruncateBelow
<1>6. \A k \in 0 .. n - 1 : At(ct, k)
  BY <1>1 DEF Advancing
<1>7. \A k \in n .. top : ct[k] = Truncate(ct[n], Tick(k))
  BY <1>1 DEF Advancing
<1>a. \A j, k \in 0 .. top : j <= k =>
        Truncate(Truncate(e, Tick(j)), Tick(k)) = Truncate(e, Tick(k))
  BY <1>3, <1>4, TruncateTwice
<1>8. IF moves /\ n < top
        THEN /\ lvl' = [lvl EXCEPT ![Loop] = n + 1]
             /\ lexp' = Truncate(lexp, m) /\ pc' = pc
        ELSE pc' = [pc EXCEPT ![Loop] = "lock"]
  BY DEF LoopAdvance, Goto, Tick
<1>9. ct'[0] <= now /\ \A k \in 0 .. top : Aligned(ct'[k], Tick(k))
  <2>1. CASE ~moves
    BY <1>1, <1>3, <2>1
  <2>2. CASE moves
    <3>1. Truncate(e, m) <= now
      BY <1>1, <1>3, <1>4, <1>5 DEF TypeOK
    <3>2. Aligned(Truncate(e, m), m)
      BY <1>3, <1>4, TruncateAligned
    <3> HIDE DEF moves, e
    <3> QED
      BY <1>1, <1>3, <1>4, <2>2, <3>1, <3>2
  <2> QED
    BY <2>1, <2>2
\* The clocks have all been advanced: they agree on the expiration.
<1>10. ASSUME \A k \in 0 .. top : At(ct', k), pc'[Loop] = "lock"
       PROVE  Clocks'
  <2>1. ct'[0] = e
    BY <1>3, <1>4, <1>10 DEF Aligned
  <2>2. \A k \in 0 .. top : ct'[k] = Truncate(ct'[0], Tick(k))
    BY <1>10, <2>1
  <2> QED
    BY <1>2, <1>3, <1>9, <1>10, <2>1, <2>2 DEF Clocks
<1>11. CASE moves /\ n < top
  <2>1. lexp' = Truncate(e, m) /\ pc'[Loop] = "adv" /\ lvl'[Loop] = n + 1
    BY <1>1, <1>3, <1>8, <1>11, Places DEF TypeOK
  <2>2. \A k \in 0 .. n : At(ct', k)
    BY <1>3, <1>4, <1>6, <1>11
  <2>3. n + 1 \in 0 .. top /\ (n + 1) - 1 = n
    BY <1>3, <1>4, <1>11
  <2>4. \A k \in n + 1 .. top : ct'[k] = ct[k] /\ k \in 0 .. top /\ k \in n .. top
    BY <1>3, <1>4, <1>11
  <2>5. ct'[n + 1] <= lexp'
    <3>1. ct'[n + 1] = Truncate(ct[n], Tick(n + 1))
      BY <1>7, <2>3, <2>4
    <3>2. Truncate(ct[n], Tick(n + 1)) <= ct[n] /\ Truncate(ct[n], Tick(n + 1)) \in Nat
      BY <1>3, <1>4, <2>3, TruncateBelow
    <3>3. ct[n] <= Truncate(e, m) /\ Truncate(e, m) \in Nat
      BY <1>3, <1>4, <1>5, <1>11
    <3> HIDE DEF e, m, n
    <3> QED
      BY <1>3, <2>1, <3>1, <3>2, <3>3
  <2>6. \A k \in n + 1 .. top : ct'[k] = Truncate(ct'[n + 1], Tick(k))
    <3>1. ct'[n + 1] = Truncate(ct[n], Tick(n + 1))
      BY <1>7, <2>3, <2>4
    <3>2. \A k \in n + 1 .. top :
            Truncate(Truncate(ct[n], Tick(n + 1)), Tick(k)) = Truncate(ct[n], Tick(k))
      BY <1>3, <1>4, <2>3, <2>4, TruncateTwice
    <3> HIDE DEF e, m, n
    <3> QED
      BY <1>7, <2>4, <3>1, <3>2
  <2>7. Advancing(lvl[Loop], bexp[lb])'
    <3> DEFINE h == lvl'[Loop]
    <3>1. h = n + 1 /\ h \in Nat /\ h - 1 = n /\ h # 0 /\ h <= top /\ bexp'[lb'] = e
      BY <1>2, <1>3, <1>4, <2>1, <2>3
    <3> HIDE DEF n, m, e, h
    <3>2. ct'[h] <= lexp' /\ \A k \in h .. top : ct'[k] = Truncate(ct'[h], Tick(k))
      BY <2>5, <2>6, <3>1
    <3>3. lexp' = Truncate(e, Tick(h - 1)) /\ \A k \in 0 .. h - 1 : At(ct', k)
      BY <2>1, <2>2, <3>1 DEF m
    <3> QED
      BY <1>2, <3>1, <3>2, <3>3 DEF Advancing, h
  <2> QED
    BY <1>2, <1>9, <2>1, <2>7 DEF Clocks
<1>12. CASE moves /\ n = top
  <2>1. \A k \in 0 .. top : At(ct', k)
    BY <1>3, <1>4, <1>6, <1>12
  <2>2. pc'[Loop] = "lock"
    BY <1>1, <1>8, <1>12, Places DEF TypeOK
  <2> QED
    BY <1>10, <2>1, <2>2
<1>13. CASE ~moves /\ n > 0
  <2>1. \A k \in n .. top : At(ct, k)
    <3>1. ct[n] = Truncate(e, m)
      BY <1>3, <1>13
    <3> QED
      BY <1>3, <1>4, <1>7, <1>a, <3>1
  <2>2. \A k \in 0 .. top : At(ct', k)
    BY <1>3, <1>4, <1>6, <1>13, <2>1
  <2>3. pc'[Loop] = "lock"
    BY <1>1, <1>8, <1>13, Places DEF TypeOK
  <2> QED
    BY <1>10, <2>2, <2>3
<1>14. CASE ~moves /\ n = 0
  <2>1. pc'[Loop] = "lock" /\ ct' = ct /\ lexp = e
    BY <1>1, <1>3, <1>8, <1>14, Places DEF TypeOK, Advancing
  <2>2. e <= ct[0]
    <3>1. e < ct[0] + Tick(0)
      BY <1>3, <1>4, <1>14, <2>1
    <3> HIDE DEF e
    <3> QED
      BY <1>1, <1>3, <1>4, <1>14, <3>1, AlignedNext
  <2>3. \A k \in 0 .. top : ct'[k] = Truncate(ct'[0], Tick(k))
    BY <1>7, <1>14, <2>1
  <2> QED
    BY <1>2, <1>9, <2>1, <2>2, <2>3 DEF Clocks
<1> QED
  BY <1>3, <1>4, <1>11, <1>12, <1>13, <1>14

LEMMA ClocksStep == PInv /\ ~Lag /\ [Next]_vars => Clocks'
<1> SUFFICES ASSUME PInv, ~Lag, [Next]_vars PROVE Clocks'
  OBVIOUS
<1>a. TypeOK /\ Clocks /\ Holding
  BY DEF PInv
<1>1. CASE /\ UNCHANGED <<now, top, ct, bexp, lb, lexp>>
           /\ pc'[Loop] = pc[Loop] /\ lvl'[Loop] = lvl[Loop]
  BY <1>a, <1>1 DEF Clocks, Advancing
<1>2. CASE Advance
  <2>1. now' = now + 1 /\ pc'[Loop] = "recv" /\ pc[Loop] = "recv" /\ UNCHANGED <<top, ct>>
    BY <1>2 DEF Advance, LoopQuiet, addVars
  <2>2. ct[0] \in Nat /\ now \in Nat /\ ct[0] <= now
    BY <1>a, Places DEF TypeOK, Clocks
  <2> QED
    BY <1>a, <2>1, <2>2 DEF Clocks
<1>3. ASSUME NEW p \in Goroutine, NEW t \in Timer, NEW d \in Delay,
             AfterFunc(p, t, d)
      PROVE  Clocks'
  <2>1. /\ UNCHANGED <<now, top, ct, bexp, lb, lexp, lvl>>
        /\ pc' = [pc EXCEPT ![p] = "load"]
    BY <1>3 DEF AfterFunc, Goto, clockVars
  <2>2. pc'[Loop] = pc[Loop]
    BY <1>a, <2>1, Places DEF TypeOK
  <2> QED
    BY <1>1, <2>1, <2>2
<1>4. ASSUME NEW p \in Proc, AddStep(p) PROVE Clocks'
  <2>1. /\ now' = now /\ lb' = lb /\ Busy(p)
        /\ top <= top' /\ \A k \in 0 .. top : ct'[k] = ct[k]
        /\ \A b \in Bucket : Marked(b) => bexp'[b] = bexp[b]
        /\ pc[Loop] # "adv" /\ pc'[Loop] # "adv"
        /\ pc'[Loop] = "recv" <=> pc[Loop] = "recv"
    BY <1>4, AddChanges
  <2>2. /\ 0 \in 0 .. top /\ top \in Nat /\ \A k \in 0 .. top : k \in Level
        /\ \A k \in 0 .. top : Aligned(ct[k], Tick(k)) /\ ct[k] = Truncate(ct[0], Tick(k))
        /\ ct[0] <= now /\ ct[0] \in Nat
    BY <1>a, <2>1, Places, WheelAssumption DEF Clocks, TypeOK, Level
  <2>3. CASE top' = top
    <3>1. pc'[Loop] # "recv" => bexp'[lb'] <= ct'[0]
      <4>1. pc[Loop] # "recv" => lb \in Bucket
        BY <1>a, Places DEF Holding, TypeOK
      <4> QED
        BY <1>a, <2>1, <2>2, <4>1 DEF Clocks, PInv, Prompt
    <3> QED
      BY <2>1, <2>2, <2>3, <3>1 DEF Clocks
  <2>4. CASE top' # top
    <3>1. /\ pc[p] = "overflow" /\ lvl[p] < MaxLevel /\ lvl[p] = top /\ top' = top + 1
          /\ ct' = [ct EXCEPT ![top + 1] = Truncate(lct[p], LevelTick[top + 1])]
          /\ pc'[Loop] = "recv" \/ bexp' = bexp
      BY <1>4, <2>4 DEF AddStep, AddLoad, AddOverflow, AddRun, AddInsert, AddSwap, AddRead,
                        AddPush, clockVars
    <3>2. lct[p] = ct[top]
      BY <2>1, <3>1 DEF PInv, Adding, Adds
    <3>3. top + 1 \in Level /\ top \in Level /\ top <= top + 1 /\ top \in 0 .. top
      BY <1>a, <2>2, <3>1, WheelAssumption DEF TypeOK, Level
    <3>4. /\ ct'[top + 1] = Truncate(ct[top], Tick(top + 1))
          /\ ct[top] = Truncate(ct[0], Tick(top))
      BY <1>a, <2>2, <3>1, <3>2, <3>3 DEF TypeOK, Tick
    <3>5. ct'[top + 1] = Truncate(ct[0], Tick(top + 1))
      BY <2>2, <3>3, <3>4, TruncateTwice
    <3>6. Aligned(ct'[top + 1], Tick(top + 1))
      BY <2>2, <3>3, <3>5, Sizes, TruncateAligned
    <3>7. \A k \in 0 .. top + 1 : k \in 0 .. top \/ k = top + 1
      BY <2>2
    <3>8. pc'[Loop] # "recv" => bexp'[lb'] <= ct'[0]
      BY <1>a, <2>1, <2>2, <3>1 DEF Clocks
    <3>9. /\ \A k \in 0 .. top' : Aligned(ct'[k], Tick(k))
          /\ \A k \in 0 .. top' : ct'[k] = Truncate(ct'[0], Tick(k))
      BY <2>1, <2>2, <3>1, <3>5, <3>6, <3>7
    <3> QED
      BY <2>1, <2>2, <3>8, <3>9 DEF Clocks
  <2> QED
    BY <2>3, <2>4
<1>5. CASE LoopReceive
  <2>1. /\ pc[Loop] = "recv" /\ pc' = [pc EXCEPT ![Loop] = "adv"]
        /\ lb' = hand /\ lexp' = bexp[hand] /\ UNCHANGED <<now, top, ct, bexp, lvl>>
    BY <1>5 DEF LoopReceive, Goto, clockVars
  <2>2. lvl[Loop] = 0
    BY <2>1, Places DEF PInv, Turns, FromBottom, Busy, AddPC
  <2>3. pc'[Loop] = "adv"
    BY <1>a, <2>1, Places DEF TypeOK
  <2>4. top \in Nat /\ \A k \in 0 .. top : ct[k] = Truncate(ct[0], Tick(k))
    BY <1>a, <2>1, WheelAssumption DEF TypeOK, Level, Clocks
  <2> QED
    BY <1>a, <2>1, <2>2, <2>3, <2>4 DEF Clocks, Advancing
<1>6. CASE LoopAdvance
  BY <1>6, ClocksAdvance
<1>7. CASE FlushLock \/ FlushEnd \/ \E t \in Timer : FlushTimer(t)
  <2>1. /\ UNCHANGED <<now, top, ct>> /\ pc[Loop] \in {"lock", "flush"}
        /\ \/ UNCHANGED <<bexp, lb>> /\ \E l \in {"flush", "load"} : pc' = [pc EXCEPT ![Loop] = l]
           \/ pc' = [pc EXCEPT ![Loop] = "recv"]
    BY <1>7 DEF FlushLock, FlushEnd, FlushTimer, Goto, clockVars
  <2>2. \/ UNCHANGED <<bexp, lb>> /\ pc'[Loop] \in {"flush", "load"}
        \/ pc'[Loop] = "recv"
    BY <1>a, <2>1, Places DEF TypeOK
  <2> QED
    BY <1>a, <2>1, <2>2 DEF Clocks
<1>8. CASE PollPick \/ (\E t \in Timer : StopLook(t) \/ StopRemove(t)) \/ UNCHANGED vars
  BY <1>1, <1>8 DEF PollPick, StopLook, StopRemove, vars, clockVars, addVars
<1> QED
  BY <1>2, <1>3, <1>4, <1>5, <1>6, <1>7, <1>8 DEF Next, LoopStep

LEMMA WindowStep == PInv /\ ~Lag /\ [Next]_vars => Window'
<1> SUFFICES ASSUME PInv, ~Lag, [Next]_vars PROVE Window'
  OBVIOUS
<1>a. TypeOK /\ Window
  BY DEF PInv
<1>b. top \in Level /\ \A b \in Bucket : b[1] \in Level
  BY <1>a, Places DEF TypeOK
<1>1. CASE UNCHANGED <<top, ct, bexp>>
  BY <1>a, <1>1 DEF Window, InWindow, Marked
<1>2. ASSUME NEW p \in Proc, AddStep(p) PROVE Window'
  <2>1. /\ top <= top' /\ \A k \in 0 .. top : ct'[k] = ct[k]
        /\ \A b \in Bucket : Marked(b) \/ b # Target(p) => bexp'[b] = bexp[b]
    BY <1>2, AddChanges
  <2>2. top' \in Level
    BY <1>2, TypesStep DEF PInv, TypeOK, Next
  <2> SUFFICES ASSUME NEW b \in Bucket, Marked(b)' PROVE InWindow(b)'
    BY DEF Window
  <2>3. CASE Marked(b) \/ b # Target(p)
    <3>1. bexp'[b] = bexp[b]
      BY <2>1, <2>3
    <3>2. InWindow(b)
      BY <1>a, <3>1 DEF Window, Marked
    <3>3. b[1] <= top' /\ ct'[b[1]] = ct[b[1]]
      BY <1>b, <2>1, <2>2, <3>2, WheelAssumption DEF InWindow, Level
    <3> QED
      BY <3>1, <3>2, <3>3 DEF InWindow
  <2>4. CASE ~Marked(b) /\ b = Target(p)
    <3>1. AddSwap(p)
      BY <1>2, <2>4 DEF AddStep, AddLoad, AddOverflow, AddRun, AddInsert, AddRead, AddPush,
                        Marked
    <3> DEFINE k == lvl[p]
               e == Truncate(Exp(p), Tick(k))
    <3>2. /\ k \in Level /\ k <= top /\ b[1] = k
          /\ e \in Nat /\ bexp' = [bexp EXCEPT ![b] = e]
          /\ Aligned(e, Tick(k)) /\ BucketAt(k, e) = b
          /\ ct[k] <= e /\ e < ct[k] + Interval(k)
      BY <2>4, <3>1, SwapTick
    <3>3. bexp'[b] = e
      BY <1>a, <3>2 DEF TypeOK
    <3>4. k <= top' /\ ct'[k] = ct[k]
      BY <1>b, <2>1, <2>2, <3>2, WheelAssumption DEF Level
    <3> HIDE DEF k, e
    <3> QED
      BY <3>2, <3>3, <3>4 DEF InWindow
  <2> QED
    BY <2>3, <2>4
<1>3. CASE LoopAdvance
  <2> DEFINE n == lvl[Loop]
             m == Tick(n)
             e == bexp[lb]
  <2>1. /\ n \in 0 .. top /\ e \in Nat /\ ct[n] \in Nat
        /\ lexp >= ct[n] + m =>
             /\ ct[n] <= Truncate(e, m)
             /\ \A k \in 0 .. top :
                  ct'[k] = IF k = n THEN Truncate(e, m) ELSE ct[k]
        /\ ~(lexp >= ct[n] + m) => ct' = ct
    BY <1>3, AdvanceMoves
  <2>2. UNCHANGED <<top, bexp>> /\ pc[Loop] = "adv"
    BY <1>3 DEF LoopAdvance
  <2> SUFFICES ASSUME NEW b \in Bucket, Marked(b)' PROVE InWindow(b)'
    BY DEF Window
  <2>3. Marked(b) /\ InWindow(b)
    BY <1>a, <2>2 DEF Marked, Window
  <2>4. Truncate(e, Tick(b[1])) <= bexp[b]
    BY <2>2, <2>3 DEF PInv, Earliest
  <2>5. /\ b[1] \in 0 .. top /\ ct[b[1]] \in Nat /\ bexp[b] \in Nat
        /\ Interval(b[1]) \in Nat
    BY <1>a, <1>b, <2>3, Sizes, WheelAssumption DEF InWindow, TypeOK, Level, Marked
  <2>6. /\ Tick(b[1]) \in Nat \ {0} /\ Truncate(e, Tick(b[1])) \in Nat
    BY <1>b, <2>1, Sizes, TruncateBelow
  <2> HIDE DEF e, n
  <2>7. ct'[b[1]] <= bexp[b] /\ bexp[b] < ct'[b[1]] + Interval(b[1])
    <3>1. CASE ct' = ct \/ b[1] # n
      <4>1. ct'[b[1]] = ct[b[1]]
        BY <2>1, <2>5, <3>1
      <4> QED
        BY <2>3, <4>1 DEF InWindow
    <3>2. CASE ct' # ct /\ b[1] = n
      <4>1. ct'[b[1]] = Truncate(e, Tick(b[1])) /\ ct[b[1]] <= ct'[b[1]]
        BY <2>1, <2>5, <3>2
      <4>2. ct[b[1]] <= bexp[b] /\ bexp[b] < ct[b[1]] + Interval(b[1])
        BY <2>3 DEF InWindow
      <4> QED
        BY <2>4, <2>5, <2>6, <4>1, <4>2
    <3> QED
      BY <3>1, <3>2
  <2> QED
    BY <2>2, <2>3, <2>7 DEF InWindow
<1>4. CASE FlushEnd
  <2>1. bexp' = [bexp EXCEPT ![lb] = Never] /\ UNCHANGED <<top, ct>>
    BY <1>4 DEF FlushEnd, clockVars
  <2>2. \A b \in Bucket : bexp'[b] = bexp[b] \/ bexp'[b] = Never
    BY <1>a, <2>1 DEF TypeOK
  <2> QED
    BY <1>a, <2>1, <2>2 DEF Window, InWindow, Marked
<1> QED
  BY <1>1, <1>2, <1>3, <1>4
  DEF Next, LoopStep, Advance, AfterFunc, PollPick, LoopReceive, FlushLock, FlushTimer,
      StopLook, StopRemove, vars, clockVars

LEMMA EarliestStep == PInv /\ ~Lag /\ [Next]_vars => Earliest'
<1> SUFFICES ASSUME PInv, ~Lag, [Next]_vars PROVE Earliest'
  OBVIOUS
<1>a. TypeOK /\ Earliest /\ Holding /\ Prompt
  BY DEF PInv
<1>b. \A b \in Bucket : b[1] \in Level /\ Tick(b[1]) \in Nat \ {0}
  BY Places, Sizes
<1>1. CASE UNCHANGED <<bexp, hand, lb>> /\ (pc'[Loop] = "adv" => pc[Loop] = "adv")
  BY <1>a, <1>1 DEF Earliest, Marked
<1>2. ASSUME NEW p \in Goroutine, NEW t \in Timer, NEW d \in Delay,
             AfterFunc(p, t, d)
      PROVE  Earliest'
  <2>1. pc' = [pc EXCEPT ![p] = "load"] /\ UNCHANGED <<bexp, hand, lb>>
    BY <1>2 DEF AfterFunc, Goto
  <2>2. pc'[Loop] = pc[Loop]
    BY <1>a, <2>1, Places DEF TypeOK
  <2> QED
    BY <1>1, <2>1, <2>2
<1>3. ASSUME NEW p \in Proc, AddStep(p) PROVE Earliest'
  <2>1. /\ UNCHANGED <<hand, lb>> /\ pc'[Loop] # "adv" /\ Busy(p)
        /\ \A b \in Bucket : Marked(b) \/ b # Target(p) => bexp'[b] = bexp[b]
    BY <1>3, AddChanges
  <2> SUFFICES ASSUME NEW b \in Bucket, Marked(b)', hand # None, b # lb
               PROVE  Truncate(bexp'[hand], Tick(b[1])) <= bexp'[b]
    BY <2>1 DEF Earliest
  <2>2. hand \in Bucket /\ Marked(hand) /\ bexp[hand] \in Nat /\ bexp[hand] <= now
    BY <1>a DEF TypeOK, Prompt, Marked
  <2>3. bexp'[hand] = bexp[hand]
    BY <2>1, <2>2
  <2>4. CASE Marked(b) \/ b # Target(p)
    <3>1. bexp'[b] = bexp[b]
      BY <2>1, <2>4
    <3> QED
      BY <1>a, <2>3, <3>1 DEF Earliest, Marked
  <2>5. CASE ~Marked(b) /\ b = Target(p)
    <3>1. AddSwap(p)
      BY <1>3, <2>5 DEF AddStep, AddLoad, AddOverflow, AddRun, AddInsert, AddRead, AddPush,
                        Marked
    <3>2. /\ b[1] = lvl[p] /\ Exp(p) \in Nat /\ now <= Exp(p)
          /\ bexp' = [bexp EXCEPT ![b] = Truncate(Exp(p), Tick(lvl[p]))]
      BY <2>5, <3>1, SwapTick
    <3>3. bexp'[b] = Truncate(Exp(p), Tick(b[1]))
      BY <1>a, <3>2 DEF TypeOK
    <3>4. bexp[hand] <= Exp(p)
      BY <1>a, <2>2, <3>2 DEF TypeOK
    <3> QED
      BY <1>b, <2>2, <2>3, <3>2, <3>3, <3>4, TruncateMonotone
  <2> QED
    BY <2>4, <2>5
<1>4. CASE PollPick
  <2>1. PICK x \in BagToSet(queue) :
          /\ x[2] <= now /\ \A y \in BagToSet(queue) : x[2] <= y[2]
          /\ hand' = x[1]
    BY <1>4 DEF PollPick
  <2>2. hand = None /\ UNCHANGED <<bexp, lb, pc>>
    BY <1>4 DEF PollPick, addVars
  <2>3. x[1] \in Bucket /\ bexp[x[1]] = x[2] /\ x[2] \in Nat
    BY <1>a, <2>1 DEF PInv, Once, TypeOK
  <2>4. ASSUME NEW b \in Bucket, Marked(b), b # lb
        PROVE  Truncate(x[2], Tick(b[1])) <= bexp[b]
    <3>1. \/ Queued(b)
          \/ \E p \in Proc : Pushing(p) /\ Target(p) = b
      BY <2>2, <2>4, Places DEF PInv, NoStranded, Covered, Marked, Pushing
    <3>2. CASE Queued(b)
      <4>1. PICK y \in BagToSet(queue) : y[1] = b
        BY <3>2 DEF Queued
      <4>2. x[2] <= bexp[b] /\ bexp[b] \in Nat
        BY <1>a, <2>1, <2>4, <4>1 DEF PInv, Once, TypeOK, Marked
      <4>3. Truncate(x[2], Tick(b[1])) <= x[2] /\ Truncate(x[2], Tick(b[1])) \in Nat
        BY <1>b, <2>3, TruncateBelow
      <4> QED
        BY <2>3, <4>2, <4>3
    <3>3. ASSUME NEW p \in Proc, Pushing(p), Target(p) = b
          PROVE  Truncate(x[2], Tick(b[1])) <= bexp[b]
      <4>1. bexp[b] = Truncate(Exp(p), Tick(lvl[p]))
        BY <3>3 DEF PInv, Once, Pushes
      <4>2. Busy(p)
        BY <3>3 DEF Pushing, Busy, AddPC
      <4>3. Exp(p) \in Nat /\ now <= Exp(p) /\ b[1] = lvl[p]
        BY <3>3, <4>2, BusyHolds
      <4>4. x[2] <= Exp(p)
        BY <1>a, <2>1, <2>3, <4>3 DEF TypeOK
      <4> QED
        BY <1>b, <2>3, <4>1, <4>3, <4>4, TruncateMonotone
    <3> QED
      BY <3>1, <3>2, <3>3
  <2> QED
    BY <1>a, <2>1, <2>2, <2>3, <2>4 DEF Earliest, Marked
<1>5. CASE LoopReceive
  <2>1. /\ pc[Loop] = "recv" /\ hand' = None /\ lb' = hand /\ hand # None
        /\ UNCHANGED bexp
    BY <1>5 DEF LoopReceive
  <2>2. lb = None
    BY <1>a, <2>1 DEF Holding
  <2> QED
    BY <1>a, <2>1, <2>2, Places DEF Earliest, Marked
<1>6. CASE LoopAdvance \/ FlushLock \/ \E t \in Timer : FlushTimer(t)
  <2>1. /\ UNCHANGED <<bexp, hand, lb>>
        /\ \/ pc' = pc
           \/ \E l \in {"lock", "flush", "load"} : pc' = [pc EXCEPT ![Loop] = l]
    BY <1>6 DEF LoopAdvance, FlushLock, FlushTimer, Goto
  <2>2. pc'[Loop] = "adv" => pc[Loop] = "adv"
    BY <1>a, <2>1, Places DEF TypeOK
  <2> QED
    BY <1>1, <2>1, <2>2
<1>7. CASE FlushEnd
  <2>1. /\ bexp' = [bexp EXCEPT ![lb] = Never] /\ lb' = None /\ hand' = hand
        /\ pc' = [pc EXCEPT ![Loop] = "recv"]
    BY <1>7 DEF FlushEnd, Goto
  <2>2. pc'[Loop] # "adv"
    BY <1>a, <2>1, Places DEF TypeOK
  <2>3. \A b \in Bucket : bexp'[b] = IF b = lb THEN Never ELSE bexp[b]
    BY <1>a, <2>1 DEF TypeOK
  <2>4. hand # None => hand # lb /\ hand \in Bucket
    BY <1>a DEF PInv, Once, TypeOK
  <2> QED
    BY <1>a, <2>1, <2>2, <2>3, <2>4 DEF Earliest, Marked
<1>8. CASE Advance \/ (\E t \in Timer : StopLook(t) \/ StopRemove(t)) \/ UNCHANGED vars
  BY <1>1, <1>8 DEF Advance, StopLook, StopRemove, vars, addVars
<1> QED
  BY <1>2, <1>3, <1>4, <1>5, <1>6, <1>7, <1>8 DEF Next, LoopStep

LEMMA OnceStep == PInv /\ ~Lag /\ [Next]_vars => Once'
<1> SUFFICES ASSUME PInv, ~Lag, [Next]_vars PROVE Once'
  OBVIOUS
<1>a. TypeOK /\ Once /\ Holding /\ Prompt
  BY DEF PInv
<1>b. ASSUME NEW p \in Proc, Pushing(p)
      PROVE  /\ Busy(p) /\ Pushes(p) /\ Target(p) \in Bucket /\ Marked(Target(p))
             /\ bexp[Target(p)] \in Nat
  <2>1. Busy(p) /\ Pushes(p)
    BY <1>b, <1>a DEF Pushing, Busy, AddPC, Once
  <2>2. Target(p) \in Bucket /\ Truncate(Exp(p), Tick(lvl[p])) \in Nat
    BY <2>1, BusyHolds
  <2> QED
    BY <2>1, <2>2 DEF Pushes, Marked, Never
<1>c. \A p \in Goroutine : pc[p] = "idle" => ~Pushing(p)
  BY DEF Pushing
\* The steps that neither touch the queue nor make anybody push a bucket.
<1>1. ASSUME UNCHANGED <<queue, bexp, hand, lb>>,
             \A q \in Proc : Pushing(q)' =>
               /\ Pushing(q) /\ Target(q)' = Target(q) /\ Exp(q)' = Exp(q)
               /\ lvl'[q] = lvl[q] /\ (pc'[q] = "push" => off'[q] = bexp[Target(q)])
      PROVE  Once'
  <2>1. ASSUME NEW q \in Proc, Pushing(q)' PROVE Pushes(q)'
    <3>1. Pushes(q)
      BY <1>1, <1>b, <2>1
    <3> QED
      BY <1>1, <2>1, <3>1 DEF Pushes, Queued
  <2> QED
    BY <1>a, <1>1, <2>1 DEF Once, Queued
<1>2. ASSUME NEW p \in Goroutine, NEW t \in Timer, NEW d \in Delay,
             AfterFunc(p, t, d)
      PROVE  Once'
  <2>1. /\ expi[t] = Never /\ expi' = [expi EXCEPT ![t] = now + d]
        /\ pc' = [pc EXCEPT ![p] = "load"] /\ tmr' = [tmr EXCEPT ![p] = t]
        /\ UNCHANGED <<queue, bexp, hand, lb, lvl, off>>
    BY <1>2 DEF AfterFunc, Goto
  <2>2. ASSUME NEW q \in Proc, Pushing(q)'
        PROVE  /\ Pushing(q) /\ Target(q)' = Target(q) /\ Exp(q)' = Exp(q)
               /\ lvl'[q] = lvl[q] /\ (pc'[q] = "push" => off'[q] = bexp[Target(q)])
    <3>1. q # p /\ pc'[q] = pc[q] /\ tmr'[q] = tmr[q]
      BY <1>a, <2>1, <2>2 DEF TypeOK, Pushing
    <3>2. Pushing(q) /\ Busy(q) /\ Pushes(q)
      BY <1>b, <2>2, <3>1 DEF Pushing
    <3>3. tmr[q] # t /\ tmr[q] \in Timer
      BY <1>a, <2>1, <3>2, BusyHolds DEF Holding, Busy
    <3>4. Exp(q)' = Exp(q)
      BY <1>a, <2>1, <3>1, <3>3 DEF TypeOK, Exp
    <3> QED
      BY <2>1, <3>1, <3>2, <3>4 DEF Pushes, Target, Exp
  <2> QED
    BY <1>1, <2>1, <2>2
<1>3. ASSUME NEW p \in Proc, AddStep(p) PROVE Once'
  <2>1. /\ UNCHANGED <<expi, hand, lb>> /\ Busy(p)
        /\ \A q \in Proc \ {p} :
              /\ pc'[q] = pc[q] /\ tmr'[q] = tmr[q] /\ lvl'[q] = lvl[q]
              /\ off'[q] = off[q]
        /\ Busy(p)' => tmr'[p] = tmr[p]
    BY <1>3, AddChanges
  <2>2. \A q \in Proc \ {p} :
          /\ Pushing(q)' <=> Pushing(q)
          /\ Target(q)' = Target(q) /\ Exp(q)' = Exp(q) /\ lvl'[q] = lvl[q]
    BY <2>1 DEF Pushing, Target, Exp, BucketAt
  <2>3. \A q \in Proc \ {p} : Pushing(q)' /\ pc'[q] = "push" => off'[q] = bexp[Target(q)]
    BY <1>b, <2>1, <2>2 DEF Pushes
  <2>4. CASE ~Pushing(p)' /\ UNCHANGED <<queue, bexp>>
    BY <1>1, <2>1, <2>2, <2>3, <2>4
  <2>5. CASE AddLoad(p) \/ AddOverflow(p) \/ AddRun(p) \/ AddInsert(p)
    <3>1. /\ UNCHANGED <<queue, bexp>>
          /\ \E l \in AddPC \cup {"idle", "flush"} :
               l \notin {"read", "push"} /\ pc' = [pc EXCEPT ![p] = l]
      BY <2>5 DEF AddLoad, AddOverflow, AddRun, AddInsert, Goto, Return, AddPC
    <3>2. ~Pushing(p)'
      BY <1>a, <3>1 DEF TypeOK, Pushing
    <3> QED
      BY <2>4, <3>1, <3>2
  <2>6. CASE AddSwap(p)
    <3> DEFINE T == Target(p)
               e == Truncate(Exp(p), Tick(lvl[p]))
    <3>1. /\ T \in Bucket /\ e \in Nat /\ bexp' = [bexp EXCEPT ![T] = e]
      BY <2>6, SwapTick
    <3>2. /\ queue' = queue
          /\ IF bexp[T] # e
               THEN pc' = [pc EXCEPT ![p] = "read"] /\ UNCHANGED <<tmr, lvl>>
               ELSE Return(p)
      BY <2>6 DEF AddSwap, Goto, Exp, Tick
    <3>3. CASE Marked(T)
      <4>1. bexp' = bexp /\ Return(p)
        BY <2>6, <3>2, <3>3, SwapKeeps
      <4>2. ~Pushing(p)'
        BY <1>a, <4>1 DEF TypeOK, Return, Goto, Pushing
      <4> QED
        BY <2>4, <3>2, <4>1, <4>2
    <3>4. CASE ~Marked(T)
      <4>1. pc'[p] = "read" /\ UNCHANGED <<tmr, lvl>>
        BY <1>a, <3>1, <3>2, <3>4 DEF TypeOK, Marked, Never
      <4>2. T # hand /\ T # lb
        BY <1>a, <3>1, <3>4 DEF Prompt
      <4>3. ~Queued(T)
        BY <1>a, <3>4 DEF Once, Queued, Marked
      <4>4. \A q \in Proc : Pushing(q) => Target(q) # T
        BY <1>b, <3>4
      <4>5. \A b \in Bucket : b # T => bexp'[b] = bexp[b]
        BY <1>a, <3>1 DEF TypeOK
      <4>6. bexp'[T] = e
        BY <1>a, <3>1 DEF TypeOK
      <4>7. Target(p)' = T /\ Exp(p)' = Exp(p)
        BY <2>1, <4>1 DEF Target, Exp, BucketAt
      <4>8. \A x \in BagToSet(queue') : x[2] = bexp'[x[1]] /\ x[2] # Never /\ queue'[x] = 1
        <5>1. \A x \in BagToSet(queue) : x[1] \in Bucket /\ x[1] # T
          BY <1>a, <4>3 DEF TypeOK, Queued
        <5> QED
          BY <1>a, <3>2, <4>5, <5>1 DEF Once
      <4>9. ASSUME NEW q \in Proc, Pushing(q)' PROVE Pushes(q)'
        <5>1. CASE q = p
          <6>1. \A r \in Proc \ {p} : Pushing(r)' => Target(r)' # T
            BY <2>2, <4>4
          <6>2. bexp'[T] = Truncate(Exp(p), Tick(lvl[p]))
            BY <4>6
          <6>3. pc'[p] # "push"
            BY <4>1
          <6> HIDE DEF T, e
          <6> QED
            BY <2>1, <3>2, <4>1, <4>2, <4>3, <4>7, <5>1, <6>1, <6>2, <6>3 DEF Pushes, Queued
        <5>2. CASE q # p
          <6>1. Pushing(q) /\ Pushes(q) /\ Target(q) \in Bucket /\ Target(q) # T
            BY <1>b, <2>2, <4>4, <4>9, <5>2
          <6>2. bexp'[Target(q)] = bexp[Target(q)] /\ Target(q)' = Target(q)
            BY <2>2, <4>5, <5>2, <6>1
          <6>3. \A r \in Proc \ {q} : Pushing(r)' => Target(r)' # Target(q)
            BY <2>2, <4>7, <6>1 DEF Pushes
          <6>4. pc'[q] = "push" => off'[q] = bexp[Target(q)]
            BY <2>3, <4>9, <5>2
          <6> HIDE DEF T, e
          <6> QED
            BY <2>1, <2>2, <3>2, <5>2, <6>1, <6>2, <6>3, <6>4 DEF Pushes, Queued
        <5> QED
          BY <5>1, <5>2
      <4> QED
        BY <1>a, <2>1, <3>2, <4>8, <4>9 DEF Once, Queued
    <3> QED
      BY <3>3, <3>4
  <2>7. CASE AddRead(p)
    <3>1. /\ pc[p] = "read" /\ pc' = [pc EXCEPT ![p] = "push"] /\ UNCHANGED <<tmr, lvl>>
          /\ off' = [off EXCEPT ![p] = bexp[Target(p)]] /\ UNCHANGED <<queue, bexp>>
      BY <2>7 DEF AddRead, Goto
    <3>2. /\ Pushing(p) /\ off'[p] = bexp[Target(p)]
          /\ Target(p)' = Target(p) /\ Exp(p)' = Exp(p) /\ lvl'[p] = lvl[p]
      BY <1>a, <2>1, <3>1 DEF TypeOK, Pushing, Target, Exp, BucketAt
    <3> QED
      BY <1>1, <2>1, <2>2, <2>3, <3>1, <3>2
  <2>8. CASE AddPush(p)
    <3> DEFINE x == <<Target(p), off[p]>>
    <3>1. /\ Pushing(p) /\ queue' = queue (+) SetToBag({x}) /\ bexp' = bexp
          /\ pc' = [pc EXCEPT ![p] = IF p = Loop THEN "flush" ELSE "idle"]
      BY <2>8 DEF AddPush, Return, Goto, Pushing
    <3>2. /\ Pushes(p) /\ Marked(Target(p)) /\ off[p] = bexp[Target(p)]
      BY <1>b, <2>8, <3>1 DEF Pushes, AddPush
    <3>3. x \notin BagToSet(queue)
      BY <3>2 DEF Pushes, Queued
    <3>4. IsABag(queue)
      BY <1>a DEF TypeOK
    <3>5. ~Pushing(p)'
      BY <1>a, <3>1 DEF TypeOK, Pushing
    <3>6. x[1] = Target(p) /\ x[2] = off[p]
      OBVIOUS
    <3> HIDE DEF x
    <3>7. /\ BagToSet(queue') = BagToSet(queue) \cup {x}
          /\ queue'[x] = 1 /\ \A y \in BagToSet(queue) : queue'[y] = queue[y]
      BY <3>1, <3>3, <3>4, BagAdd, BagAddOnce
    <3>8. \A b : Queued(b)' => Queued(b) \/ b = Target(p)
      BY <3>6, <3>7 DEF Queued
    <3>9. \A y \in BagToSet(queue') : y[2] = bexp'[y[1]] /\ y[2] # Never /\ queue'[y] = 1
      BY <1>a, <3>1, <3>2, <3>6, <3>7 DEF Once, Marked
    <3>10. \A b \in Bucket : b = hand' \/ b = lb' => ~Queued(b)'
      BY <1>a, <2>1, <3>2, <3>8 DEF Once, Pushes
    <3>11. ASSUME NEW q \in Proc, Pushing(q)' PROVE Pushes(q)'
      <4>1. q # p /\ Pushing(q) /\ Pushes(q)
        BY <1>b, <2>2, <3>5, <3>11
      <4>2. Target(q) # Target(p) /\ Target(q)' = Target(q)
        BY <2>2, <3>1, <4>1 DEF Pushes
      <4>3. ~Queued(Target(q))'
        BY <3>8, <4>1, <4>2 DEF Pushes
      <4>4. \A r \in Proc \ {q} : Pushing(r)' => Target(r)' # Target(q)
        BY <2>2, <3>5, <4>1 DEF Pushes
      <4>5. pc'[q] = "push" => off'[q] = bexp[Target(q)]
        BY <2>3, <3>11, <4>1
      <4> QED
        BY <2>1, <2>2, <3>1, <4>1, <4>2, <4>3, <4>4, <4>5 DEF Pushes
    <3> QED
      BY <1>a, <2>1, <3>9, <3>10, <3>11 DEF Once
  <2> QED
    BY <1>3, <2>5, <2>6, <2>7, <2>8 DEF AddStep
<1>4. CASE PollPick
  <2>1. PICK x \in BagToSet(queue) : hand' = x[1] /\ queue' = queue (-) SetToBag({x})
    BY <1>4 DEF PollPick
  <2>2. hand = None /\ UNCHANGED <<bexp, lb, pc, tmr, lvl, off, expi>>
    BY <1>4 DEF PollPick, addVars, timerVars
  <2>3. /\ IsABag(queue) /\ queue[x] = 1 /\ x[1] \in Bucket
        /\ \A y \in BagToSet(queue) : y = <<y[1], y[2]>> /\ y[2] = bexp[y[1]]
    BY <1>a DEF TypeOK, Once
  <2>4. /\ BagToSet(queue') \subseteq BagToSet(queue) /\ x \notin BagToSet(queue')
        /\ \A y \in BagToSet(queue') : queue'[y] = queue[y]
    <3> DEFINE C == queue (-) SetToBag({x})
    <3>1. BagToSet(C) \subseteq BagToSet(queue)
      BY <2>3, BagRemove
    <3>2. x \notin BagToSet(C) /\ \A y \in BagToSet(C) : C[y] = queue[y]
      BY <2>3, BagRemoveOnce
    <3> HIDE DEF C
    <3>3. queue' = C
      BY <2>1 DEF C
    <3> QED
      BY <3>1, <3>2, <3>3
  <2>5. \A b : Queued(b)' => Queued(b) /\ b # x[1]
    BY <2>3, <2>4 DEF Queued
  <2>6. Queued(x[1])
    BY DEF Queued
  <2>7. hand' # lb'
    BY <1>a, <2>1, <2>2, <2>3, <2>6 DEF Once
  <2>8. ASSUME NEW q \in Proc, Pushing(q)' PROVE Pushes(q)'
    <3>1. Pushing(q) /\ Pushes(q)
      BY <1>b, <2>2, <2>8 DEF Pushing
    <3>2. Target(q)' = Target(q) /\ ~Queued(Target(q))' /\ Target(q) # hand'
      BY <2>1, <2>2, <2>5, <2>6, <3>1 DEF Pushes, Target, BucketAt
    <3> QED
      BY <2>2, <3>1, <3>2 DEF Pushes, Pushing, Target, Exp, BucketAt
  <2>9. \A b \in Bucket : b = hand' \/ b = lb' => ~Queued(b)'
    BY <1>a, <2>1, <2>2, <2>5 DEF Once
  <2>10. \A y \in BagToSet(queue') : y[2] = bexp'[y[1]] /\ y[2] # Never /\ queue'[y] = 1
    BY <1>a, <2>2, <2>4 DEF Once
  <2> QED
    BY <2>7, <2>8, <2>9, <2>10 DEF Once
<1>5. CASE LoopReceive
  <2>1. /\ pc[Loop] = "recv" /\ CallersQuiet /\ pc' = [pc EXCEPT ![Loop] = "adv"]
        /\ hand' = None /\ lb' = hand /\ hand # None /\ UNCHANGED <<queue, bexp>>
    BY <1>5 DEF LoopReceive, Goto
  <2>2. \A q \in Proc : ~Pushing(q)'
    BY <1>a, <2>1, Places DEF TypeOK, Pushing, CallersQuiet, Proc
  <2> QED
    BY <1>a, <2>1, <2>2, Places DEF Once, Queued
<1>6. CASE LoopAdvance \/ FlushLock \/ \E t \in Timer : FlushTimer(t)
  <2>1. /\ UNCHANGED <<queue, bexp, hand, lb>> /\ pc[Loop] # "recv"
        /\ \/ pc' = pc /\ pc[Loop] = "adv"
           \/ \E l \in {"lock", "flush", "load"} : pc' = [pc EXCEPT ![Loop] = l]
    BY <1>6 DEF LoopAdvance, FlushLock, FlushTimer, Goto
  <2>2. CallersQuiet
    BY <2>1 DEF PInv, Turns
  <2>3. \A q \in Proc : ~Pushing(q)'
    BY <1>a, <2>1, <2>2, Places DEF TypeOK, Pushing, CallersQuiet, Proc
  <2> QED
    BY <1>1, <2>1, <2>3
<1>7. CASE FlushEnd
  <2>1. /\ pc[Loop] = "flush" /\ pc' = [pc EXCEPT ![Loop] = "recv"]
        /\ bexp' = [bexp EXCEPT ![lb] = Never] /\ lb' = None /\ UNCHANGED <<queue, hand>>
    BY <1>7 DEF FlushEnd, Goto
  <2>2. CallersQuiet /\ lb \in Bucket
    BY <1>a, <2>1, Places DEF PInv, Turns, Holding, TypeOK
  <2>3. \A q \in Proc : ~Pushing(q)'
    BY <1>a, <2>1, <2>2, Places DEF TypeOK, Pushing, CallersQuiet, Proc
  <2>4. \A x \in BagToSet(queue) : x[1] \in Bucket /\ x[1] # lb
    BY <1>a, <2>2 DEF TypeOK, Once, Queued
  <2>5. \A b \in Bucket : b # lb => bexp'[b] = bexp[b]
    BY <1>a, <2>1 DEF TypeOK
  <2> QED
    BY <1>a, <2>1, <2>3, <2>4, <2>5, Places DEF Once, Queued
<1>8. CASE Advance \/ (\E t \in Timer : StopLook(t) \/ StopRemove(t)) \/ UNCHANGED vars
  <2>1. UNCHANGED <<queue, bexp, hand, lb, pc, tmr, lvl, off, expi>>
    BY <1>8 DEF Advance, StopLook, StopRemove, vars, addVars, timerVars
  <2>2. \A q \in Proc : Pushing(q) /\ pc[q] = "push" => off[q] = bexp[Target(q)]
    BY <1>b DEF Pushes
  <2> QED
    BY <1>1, <2>1, <2>2 DEF Pushing, Target, Exp, BucketAt
<1> QED
  BY <1>2, <1>3, <1>4, <1>5, <1>6, <1>7, <1>8 DEF Next, LoopStep

LEMMA AddingStep == PInv /\ ~Lag /\ [Next]_vars => Adding'
<1> SUFFICES ASSUME PInv, ~Lag, [Next]_vars PROVE Adding'
  OBVIOUS
<1>a. TypeOK /\ Adding /\ Holding /\ Turns
  BY DEF PInv
<1>1. ASSUME UNCHANGED <<top, ct>>,
             \A q \in Proc : Busy(q)' =>
               /\ Busy(q) /\ pc'[q] = pc[q] /\ tmr'[q] = tmr[q] /\ lvl'[q] = lvl[q]
               /\ lct'[q] = lct[q] /\ expi'[tmr[q]] = expi[tmr[q]]
               /\ where'[tmr[q]] = where[tmr[q]] \/ where'[tmr[q]] = None
      PROVE  Adding'
  <2> SUFFICES ASSUME NEW q \in Proc, Busy(q)' PROVE Adds(q)'
    BY DEF Adding
  <2>1. /\ Adds(q) /\ pc'[q] = pc[q] /\ tmr'[q] = tmr[q] /\ lvl'[q] = lvl[q]
        /\ lct'[q] = lct[q]
        /\ where'[tmr[q]] = where[tmr[q]] \/ where'[tmr[q]] = None
    BY <1>1, <1>a DEF Adding
  <2>2. Exp(q)' = Exp(q) /\ Target(q)' = Target(q)
    BY <1>1, <2>1 DEF Exp, Target, BucketAt
  <2> QED
    BY <1>1, <2>1, <2>2 DEF Adds
<1>2. ASSUME NEW p \in Goroutine, NEW t \in Timer, NEW d \in Delay,
             AfterFunc(p, t, d)
      PROVE  Adding'
  <2>1. /\ pc[p] = "idle" /\ expi[t] = Never /\ expi' = [expi EXCEPT ![t] = now + d]
        /\ pc' = [pc EXCEPT ![p] = "load"] /\ tmr' = [tmr EXCEPT ![p] = t]
        /\ UNCHANGED <<top, ct, where, lvl, lct>>
    BY <1>2 DEF AfterFunc, Goto, clockVars
  <2> SUFFICES ASSUME NEW q \in Proc, Busy(q)' PROVE Adds(q)'
    BY DEF Adding
  <2>2. CASE q = p
    <3>1. lvl[p] = 0 /\ pc'[p] = "load"
      BY <1>a, <2>1, <2>2 DEF Turns, FromBottom, Busy, AddPC, TypeOK
    <3>2. 0 <= top
      BY <1>a, WheelAssumption DEF TypeOK, Level
    <3> QED
      BY <2>1, <2>2, <3>1, <3>2 DEF Adds
  <2>3. CASE q # p
    <3>1. pc'[q] = pc[q] /\ tmr'[q] = tmr[q]
      BY <1>a, <2>1, <2>3 DEF TypeOK
    <3>2. Busy(q) /\ Adds(q)
      BY <1>a, <3>1 DEF Busy, Adding
    <3>3. tmr[q] # t /\ tmr[q] \in Timer
      BY <1>a, <2>1, <3>2, BusyHolds DEF Holding, Busy
    <3>4. Exp(q)' = Exp(q) /\ Target(q)' = Target(q)
      BY <1>a, <2>1, <3>1, <3>3 DEF TypeOK, Exp, Target, BucketAt
    <3> QED
      BY <2>1, <3>1, <3>2, <3>4 DEF Adds
  <2> QED
    BY <2>2, <2>3
<1>3. ASSUME NEW p \in Proc, AddStep(p) PROVE Adding'
  <2>1. /\ UNCHANGED expi /\ Busy(p)
        /\ \A q \in Proc \ {p} :
              /\ pc'[q] = pc[q] /\ tmr'[q] = tmr[q] /\ lvl'[q] = lvl[q]
              /\ lct'[q] = lct[q]
        /\ Busy(p)' => tmr'[p] = tmr[p]
        /\ top <= top' /\ \A k \in 0 .. top : ct'[k] = ct[k]
        /\ \A t \in Timer : t # tmr[p] => where'[t] = where[t]
        /\ pc[Loop] # "adv"
    BY <1>3, AddChanges
  <2>2. top \in Level /\ top' \in Level
    BY <1>3, TypesStep DEF PInv, TypeOK, Next
  <2> SUFFICES ASSUME NEW q \in Proc, Busy(q)' PROVE Adds(q)'
    BY DEF Adding
  <2>3. CASE q # p
    <3>1. Busy(q) /\ Adds(q)
      BY <1>a, <2>1, <2>3 DEF Busy, Adding
    <3>2. tmr[q] \in Timer /\ tmr[q] # tmr[p] /\ lvl[q] \in Level
      BY <1>a, <2>1, <2>3, <3>1, BusyHolds DEF Turns, Distinct
    <3>3. ct'[lvl[q]] = ct[lvl[q]] /\ lvl[q] <= top'
      BY <2>1, <2>2, <3>1, <3>2, WheelAssumption DEF Adds, Level
    <3>4. Exp(q)' = Exp(q) /\ Target(q)' = Target(q) /\ where'[tmr[q]] = where[tmr[q]]
      BY <2>1, <2>3, <3>2 DEF Exp, Target, BucketAt
    <3>5. 0 \in 0 .. top
      BY <2>2, WheelAssumption DEF Level
    <3>6. pc'[q] = "run" => lvl'[q] = 0 /\ Exp(q)' < ct'[0] + Tick(0)
      BY <2>1, <2>3, <3>1, <3>4, <3>5 DEF Adds
    <3>7. pc'[q] = "swap" => where'[tmr'[q]] = Target(q)' \/ where'[tmr'[q]] = None
      BY <2>1, <2>3, <3>1, <3>4 DEF Adds
    <3> QED
      BY <2>1, <2>3, <3>1, <3>3, <3>4, <3>6, <3>7 DEF Adds
  <2>4. CASE q = p
    <3> DEFINE k == lvl[p]
               e == Exp(p)
    <3>1. /\ Adds(p) /\ tmr[p] \in Timer /\ e \in Nat /\ k \in Level /\ ct[k] \in Nat
          /\ tmr'[p] = tmr[p] /\ Exp(p)' = e /\ k <= top
      BY <1>a, <2>1, <2>4, BusyHolds DEF Adding, Adds, Exp, TypeOK
    <3>2. /\ Tick(k) \in Nat /\ Interval(k) \in Nat /\ k \in 0 .. top
          /\ k \in Nat /\ top \in Nat
      BY <2>2, <3>1, Sizes, WheelAssumption DEF Level
    <3>3. CASE AddLoad(p)
      <4>1. /\ UNCHANGED <<top, ct, lvl>> /\ pc[p] = "load" /\ lct'[p] = ct[k]
            /\ \/ e < ct[k] + Tick(k) /\ pc'[p] = "run"
               \/ e >= ct[k] + Tick(k) /\ e < ct[k] + Interval(k) /\ pc'[p] = "insert"
               \/ e >= ct[k] + Interval(k) /\ pc'[p] = "overflow"
        BY <1>a, <3>3 DEF AddLoad, Goto, clockVars, TypeOK, Exp, Tick
      <4>2. e < ct[k] + Tick(k) => k = 0
        BY <3>1, <3>2, <4>1 DEF Adds
      <4> HIDE DEF k, e
      <4>3. lvl'[p] = k /\ ct'[k] = ct[k]
        BY <4>1 DEF k
      <4> QED
        BY <2>4, <3>1, <3>2, <4>1, <4>2, <4>3 DEF Adds
    <3>4. CASE AddOverflow(p)
      <4>1. /\ pc[p] = "overflow" /\ k < MaxLevel /\ pc'[p] = "load" /\ lvl'[p] = k + 1
            /\ IF k = top
                 THEN /\ top' = top + 1
                      /\ ct' = [ct EXCEPT ![top + 1] = Truncate(lct[p], Tick(top + 1))]
                 ELSE UNCHANGED <<top, ct>>
        BY <1>a, <3>4 DEF AddOverflow, Goto, TypeOK, Tick
      <4>2. lct[p] = ct[k] /\ ct[k] + Interval(k) <= e
        BY <3>1, <4>1 DEF Adds
      <4>3. k + 1 \in Level /\ Tick(k + 1) = Interval(k) /\ Tick(k + 1) \in Nat \ {0}
        BY <3>1, <4>1, Levels, Sizes
      <4>4. k + 1 <= top' /\ ct'[k + 1] = Truncate(ct[k], Tick(k + 1))
        <5>1. CASE k = top
          <6>1. /\ top' = k + 1 /\ k + 1 \in Nat
                /\ ct' = [ct EXCEPT ![k + 1] = Truncate(ct[k], Tick(k + 1))]
            BY <3>2, <4>1, <4>2, <5>1
          <6> HIDE DEF k
          <6> QED
            BY <1>a, <4>3, <6>1 DEF TypeOK
        <5>2. CASE k # top
          <6>1. k + 1 \in 0 .. top /\ top' = top /\ ct' = ct
            BY <3>1, <3>2, <4>1, <5>2
          <6>2. ct[k + 1] = Truncate(ct[0], Tick(k + 1)) /\ ct[k] = Truncate(ct[0], Tick(k))
            BY <2>1, <3>2, <6>1 DEF PInv, Clocks
          <6>3. ct[0] \in Nat /\ k <= k + 1
            BY <1>a, <3>2, Places DEF TypeOK
          <6> HIDE DEF k
          <6>4. Truncate(Truncate(ct[0], Tick(k)), Tick(k + 1)) = Truncate(ct[0], Tick(k + 1))
            BY <3>1, <4>3, <6>3, TruncateTwice
          <6> QED
            BY <6>1, <6>2, <6>4
        <5> QED
          BY <5>1, <5>2
      <4>5. ct'[k + 1] <= ct[k] /\ ct'[k + 1] \in Nat
        BY <3>1, <4>3, <4>4, TruncateBelow
      <4> HIDE DEF k, e
      <4>6. ct'[k + 1] + Tick(k + 1) <= e
        BY <3>1, <3>2, <4>2, <4>3, <4>5
      <4> QED
        BY <2>4, <3>1, <4>1, <4>4, <4>6 DEF Adds
    <3>5. CASE AddInsert(p)
      <4>1. /\ pc[p] = "insert" /\ pc'[p] = "swap" /\ UNCHANGED <<top, ct, tmr, lvl>>
            /\ where'[tmr[p]] = Target(p)
        BY <1>a, <3>1, <3>5 DEF AddInsert, Goto, clockVars, TypeOK
      <4>2. Target(p)' = Target(p)
        BY <2>1, <4>1 DEF Target, BucketAt
      <4> QED
        BY <2>4, <3>1, <4>1, <4>2 DEF Adds
    <3>6. CASE AddRun(p) \/ AddSwap(p) \/ AddRead(p) \/ AddPush(p)
      <4>1. /\ UNCHANGED <<top, ct>>
            /\ \/ \E l \in {"read", "push"} : pc' = [pc EXCEPT ![p] = l] /\ lvl' = lvl
               \/ pc' = [pc EXCEPT ![p] = IF p = Loop THEN "flush" ELSE "idle"]
        BY <3>6 DEF AddRun, AddSwap, AddRead, AddPush, Return, Goto, clockVars
      <4>2. pc'[p] \in {"read", "push"} /\ lvl' = lvl
        BY <1>a, <2>4, <4>1 DEF TypeOK, Busy, AddPC
      <4> QED
        BY <2>4, <3>1, <4>1, <4>2 DEF Adds
    <3> QED
      BY <1>3, <3>3, <3>4, <3>5, <3>6 DEF AddStep
  <2> QED
    BY <2>3, <2>4
<1>4. CASE LoopReceive \/ LoopAdvance \/ FlushLock \/ FlushEnd
  <2>1. /\ CallersQuiet
        /\ \/ pc' = pc /\ pc[Loop] = "adv"
           \/ \E l \in {"adv", "lock", "flush", "recv"} : pc' = [pc EXCEPT ![Loop] = l]
    BY <1>4, <1>a DEF LoopReceive, LoopAdvance, FlushLock, FlushEnd, Goto, Turns
  <2>2. \A q \in Proc : ~Busy(q)'
    BY <1>a, <2>1, Places DEF TypeOK, Busy, AddPC, CallersQuiet, Proc
  <2> QED
    BY <2>2 DEF Adding
<1>5. ASSUME NEW t \in Timer, FlushTimer(t) PROVE Adding'
  <2>1. /\ pc[Loop] = "flush" /\ pc' = [pc EXCEPT ![Loop] = "load"]
        /\ UNCHANGED <<top, ct, lvl>>
    BY <1>5 DEF FlushTimer, Goto, clockVars
  <2>2. lvl[Loop] = 0 /\ CallersQuiet
    BY <1>a, <2>1, Places DEF Turns, FromBottom, Busy, AddPC
  <2>3. pc'[Loop] = "load" /\ \A q \in Proc : Busy(q)' => q = Loop
    BY <1>a, <2>1, <2>2, Places DEF TypeOK, Busy, AddPC, CallersQuiet, Proc
  <2>4. 0 <= top
    BY <1>a, WheelAssumption DEF TypeOK, Level
  <2> QED
    BY <2>1, <2>2, <2>3, <2>4 DEF Adding, Adds
<1>6. ASSUME NEW t \in Timer, StopRemove(t) PROVE Adding'
  <2>1. /\ where' = where \/ where' = [where EXCEPT ![t] = None]
        /\ UNCHANGED <<top, ct, pc, tmr, lvl, lct, expi>>
    BY <1>6 DEF StopRemove, clockVars, timerVars, addVars
  <2>2. \A u \in Timer : where'[u] = where[u] \/ where'[u] = None
    BY <1>a, <2>1 DEF TypeOK
  <2>3. \A q \in Proc : Busy(q) => tmr[q] \in Timer
    BY BusyHolds
  <2>4. \A q \in Proc : Busy(q)' => Busy(q)
    BY <2>1 DEF Busy
  <2> QED
    BY <1>1, <2>1, <2>2, <2>3, <2>4
<1>7. CASE Advance \/ PollPick \/ (\E t \in Timer : StopLook(t)) \/ UNCHANGED vars
  <2>1. UNCHANGED <<top, ct, pc, tmr, lvl, lct, expi, where>>
    BY <1>7 DEF Advance, PollPick, StopLook, vars, clockVars, timerVars, addVars
  <2> QED
    BY <1>1, <2>1 DEF Busy
<1> QED
  BY <1>2, <1>3, <1>4, <1>5, <1>6, <1>7 DEF Next, LoopStep

LEMMA ReinsertingStep == PInv /\ ~Lag /\ [Next]_vars => Reinserting'
<1> SUFFICES ASSUME PInv, ~Lag, [Next]_vars, Busy(Loop)'
             PROVE  Truncate(Exp(Loop), Tick(lb[1]))' = bexp'[lb']
  BY DEF Reinserting
<1>a. TypeOK /\ Reinserting /\ Holding /\ Prompt
  BY DEF PInv
<1>1. CASE /\ UNCHANGED <<expi, bexp, lb>> /\ Busy(Loop) /\ tmr'[Loop] = tmr[Loop]
  BY <1>a, <1>1 DEF Reinserting, Exp
<1>2. ASSUME NEW p \in Goroutine, NEW t \in Timer, NEW d \in Delay,
             AfterFunc(p, t, d)
      PROVE  FALSE
  <2>1. pc[Loop] = "recv" /\ pc' = [pc EXCEPT ![p] = "load"]
    BY <1>2 DEF AfterFunc, Goto, LoopQuiet
  <2> QED
    BY <1>a, <2>1, Places DEF TypeOK, Busy, AddPC
<1>3. ASSUME NEW p \in Proc, AddStep(p)
      PROVE  Truncate(Exp(Loop), Tick(lb[1]))' = bexp'[lb']
  <2>1. /\ UNCHANGED <<expi, lb>> /\ Busy(p)
        /\ Busy(p)' => tmr'[p] = tmr[p]
        /\ pc'[Loop] = "recv" <=> pc[Loop] = "recv"
        /\ \A b \in Bucket : Marked(b) => bexp'[b] = bexp[b]
    BY <1>3, AddChanges
  <2>2. p = Loop
    BY <2>1, BusyHolds, Places DEF Busy, AddPC
  <2>3. lb \in Bucket /\ Marked(lb)
    BY <1>a, <2>1, <2>2, BusyHolds DEF Prompt
  <2>4. Truncate(Exp(Loop), Tick(lb[1])) = bexp[lb]
    BY <1>a, <2>1, <2>2 DEF Reinserting
  <2>5. Exp(Loop)' = Exp(Loop)
    BY <2>1, <2>2 DEF Exp
  <2> QED
    BY <2>1, <2>3, <2>4, <2>5
<1>4. CASE LoopReceive \/ LoopAdvance \/ FlushLock \/ FlushEnd
  <2>1. \/ pc' = pc /\ pc[Loop] = "adv"
        \/ \E l \in {"adv", "lock", "flush", "recv"} : pc' = [pc EXCEPT ![Loop] = l]
    BY <1>4 DEF LoopReceive, LoopAdvance, FlushLock, FlushEnd, Goto
  <2>2. ~Busy(Loop)'
    BY <1>a, <2>1, Places DEF TypeOK, Busy, AddPC
  <2> QED
    BY <2>2
<1>5. ASSUME NEW t \in Timer, FlushTimer(t)
      PROVE  Truncate(Exp(Loop), Tick(lb[1]))' = bexp'[lb']
  <2>1. /\ pc[Loop] = "flush" /\ where[t] = lb /\ tmr' = [tmr EXCEPT ![Loop] = t]
        /\ UNCHANGED <<expi, bexp, lb>>
    BY <1>5 DEF FlushTimer, timerVars
  <2>2. lb \in Bucket /\ lb = <<lb[1], lb[2]>> /\ lb[1] \in Level /\ lb[2] \in Slot
    BY <1>a, <2>1, Places DEF Holding, TypeOK, Bucket
  <2>3. \A p \in Proc : pc[p] # "swap"
    BY <2>1, Places DEF PInv, Turns, CallersQuiet
  <2>4. bexp[lb] = Truncate(expi[t], Tick(lb[1]))
    BY <2>1, <2>2, <2>3 DEF PInv, OneCycle, Tick
  <2>5. Exp(Loop)' = expi[t]
    BY <1>a, <2>1, Places DEF TypeOK, Exp
  <2> QED
    BY <2>1, <2>4, <2>5
<1>6. CASE \/ Advance \/ PollPick \/ UNCHANGED vars
           \/ \E t \in Timer : StopLook(t) \/ StopRemove(t)
  BY <1>1, <1>6 DEF Advance, PollPick, StopLook, StopRemove, vars, timerVars, addVars, Busy
<1> QED
  BY <1>2, <1>3, <1>4, <1>5, <1>6 DEF Next, LoopStep

LEMMA OneCycleStep == PInv /\ ~Lag /\ [Next]_vars => OneCycle'
<1> SUFFICES ASSUME PInv, ~Lag, [Next]_vars PROVE OneCycle'
  OBVIOUS
<1>a. TypeOK /\ OneCycle /\ Holding
  BY DEF PInv
<1>b. \A k \in Level, s \in Slot : <<k, s>> \in Bucket
  BY DEF Bucket
<1>1. ASSUME UNCHANGED <<bexp, expi>>,
             \A u \in Timer : where'[u] = where[u] \/ where'[u] = None,
             \A q \in Proc : pc[q] = "swap" => pc'[q] = "swap" /\ tmr'[q] = tmr[q]
      PROVE  OneCycle'
  BY <1>a, <1>b, <1>1, Places DEF OneCycle
<1>2. ASSUME NEW p \in Goroutine, NEW t \in Timer, NEW d \in Delay,
             AfterFunc(p, t, d)
      PROVE  OneCycle'
  <2>1. /\ pc[p] = "idle" /\ expi[t] = Never /\ expi' = [expi EXCEPT ![t] = now + d]
        /\ pc' = [pc EXCEPT ![p] = "load"] /\ tmr' = [tmr EXCEPT ![p] = t]
        /\ UNCHANGED <<where, bexp>>
    BY <1>2 DEF AfterFunc, Goto
  <2>2. where[t] = None
    BY <1>a, <2>1 DEF Holding
  <2>3. \A q \in Proc : pc[q] = "swap" => pc'[q] = "swap" /\ tmr'[q] = tmr[q]
    BY <1>a, <2>1 DEF TypeOK
  <2>4. \A u \in Timer : u # t => expi'[u] = expi[u]
    BY <1>a, <2>1 DEF TypeOK
  <2> QED
    BY <1>a, <1>b, <2>1, <2>2, <2>3, <2>4, Places DEF OneCycle
<1>3. ASSUME NEW p \in Proc, AddStep(p) PROVE OneCycle'
  <2>1. /\ UNCHANGED expi /\ Busy(p)
        /\ \A q \in Proc \ {p} : pc'[q] = pc[q] /\ tmr'[q] = tmr[q]
        /\ Busy(p)' => tmr'[p] = tmr[p]
        /\ \A b \in Bucket : Marked(b) => bexp'[b] = bexp[b]
        /\ \A t \in Timer : t # tmr[p] => where'[t] = where[t]
    BY <1>3, AddChanges
  <2>2. tmr[p] \in Timer
    BY <2>1, BusyHolds
  <2> SUFFICES ASSUME NEW t \in Timer, NEW k \in Level, NEW s \in Slot,
                      where'[t] = <<k, s>>,
                      \A q \in Proc : tmr'[q] = t => pc'[q] # "swap"
               PROVE  bexp'[<<k, s>>] = Truncate(expi'[t], LevelTick[k])
    BY DEF OneCycle
\* Before the step timer t was in the same bucket, put there completely.
  <2>3. ASSUME where[t] = <<k, s>>, \A q \in Proc : tmr[q] = t => pc[q] # "swap"
        PROVE  bexp'[<<k, s>>] = Truncate(expi'[t], LevelTick[k])
    <3>1. bexp[<<k, s>>] = Truncate(expi[t], Tick(k))
      BY <1>a, <2>3 DEF OneCycle, Tick
    <3>2. expi[t] \in Nat
      <4>1. where[t] # None
        BY <1>b, <2>3, Places
      <4>2. expi[t] # Never
        BY <1>a, <4>1 DEF Holding
      <4> QED
        BY <1>a, <4>2 DEF TypeOK
    <3>3. Marked(<<k, s>>)
      <4>1. Truncate(expi[t], Tick(k)) \in Nat
        BY <3>2, Sizes, TruncateBelow
      <4> QED
        BY <3>1, <4>1 DEF Marked, Never
    <3> QED
      BY <1>b, <2>1, <3>1, <3>3 DEF Tick
  <2>4. CASE t # tmr[p]
    <3>1. where[t] = <<k, s>> /\ \A q \in Proc : tmr[q] = t => pc[q] # "swap"
      BY <2>1, <2>4
    <3> QED
      BY <2>3, <3>1
  <2>5. CASE t = tmr[p] /\ (AddLoad(p) \/ AddOverflow(p) \/ AddRun(p) \/ AddRead(p) \/ AddPush(p))
    <3>1. where' = where /\ pc[p] # "swap"
      BY <2>5 DEF AddLoad, AddOverflow, AddRun, AddRead, AddPush
    <3>2. \A q \in Proc : tmr[q] = t => pc[q] # "swap"
      BY <2>1, <3>1
    <3> QED
      BY <2>3, <3>1, <3>2
  <2>6. CASE t = tmr[p] /\ AddInsert(p)
    <3>1. pc'[p] = "swap" /\ tmr'[p] = t
      BY <1>a, <2>6 DEF AddInsert, Goto, TypeOK
    <3> QED
      BY <3>1
  <2>7. CASE t = tmr[p] /\ AddSwap(p)
    <3>1. where[t] = Target(p)
      <4>1. where'[t] = where[t] /\ pc[p] = "swap"
        BY <2>7 DEF AddSwap
      <4>2. where[t] # None
        BY <1>b, <4>1, Places
      <4> QED
        BY <2>1, <2>7, <4>1, <4>2 DEF PInv, Adding, Adds
    <3>2. <<k, s>> = Target(p) /\ k = lvl[p]
      BY <2>7, <3>1 DEF AddSwap, Target, BucketAt
    <3>3. /\ Target(p) \in Bucket
          /\ bexp' = [bexp EXCEPT ![Target(p)] = Truncate(Exp(p), Tick(lvl[p]))]
      BY <2>7, SwapTick
    <3> QED
      BY <1>a, <2>1, <2>7, <3>2, <3>3 DEF TypeOK, Exp, Tick
  <2> QED
    BY <1>3, <2>4, <2>5, <2>6, <2>7 DEF AddStep
<1>4. CASE LoopReceive \/ LoopAdvance \/ FlushLock
  <2>1. /\ UNCHANGED <<bexp, expi, where, tmr>> /\ pc[Loop] # "swap"
        /\ \/ pc' = pc
           \/ \E l \in {"adv", "lock", "flush"} : pc' = [pc EXCEPT ![Loop] = l]
    BY <1>4 DEF LoopReceive, LoopAdvance, FlushLock, Goto, timerVars
  <2>2. \A q \in Proc : pc[q] = "swap" => pc'[q] = "swap"
    BY <1>a, <2>1 DEF TypeOK
  <2> QED
    BY <1>1, <2>1, <2>2
<1>5. CASE FlushEnd
  <2>1. /\ bexp' = [bexp EXCEPT ![lb] = Never] /\ Timers(lb) = {}
        /\ UNCHANGED <<expi, where, tmr>> /\ pc[Loop] # "swap"
        /\ pc' = [pc EXCEPT ![Loop] = "recv"]
    BY <1>5 DEF FlushEnd, Goto, timerVars
  <2>2. \A q \in Proc : pc[q] = "swap" => pc'[q] = "swap"
    BY <1>a, <2>1 DEF TypeOK
  <2>3. \A t \in Timer : where[t] # lb
    BY <2>1 DEF Timers
  <2>4. \A b \in Bucket : b # lb => bexp'[b] = bexp[b]
    BY <1>a, <2>1 DEF TypeOK
  <2> QED
    BY <1>a, <1>b, <2>1, <2>2, <2>3, <2>4 DEF OneCycle
<1>6. ASSUME NEW t \in Timer, FlushTimer(t) PROVE OneCycle'
  <2>1. /\ where' = [where EXCEPT ![t] = None] /\ tmr' = [tmr EXCEPT ![Loop] = t]
        /\ pc[Loop] # "swap" /\ pc' = [pc EXCEPT ![Loop] = "load"]
        /\ UNCHANGED <<bexp, expi>>
    BY <1>6 DEF FlushTimer, Goto, timerVars
  <2>2. \A q \in Proc : pc[q] = "swap" => pc'[q] = "swap" /\ tmr'[q] = tmr[q]
    BY <1>a, <2>1 DEF TypeOK
  <2>3. \A u \in Timer : where'[u] = where[u] \/ where'[u] = None
    BY <1>a, <2>1 DEF TypeOK
  <2> QED
    BY <1>1, <2>1, <2>2, <2>3
<1>7. ASSUME NEW t \in Timer, StopRemove(t) PROVE OneCycle'
  <2>1. /\ where' = where \/ where' = [where EXCEPT ![t] = None]
        /\ UNCHANGED <<bexp, expi, pc, tmr>>
    BY <1>7 DEF StopRemove, timerVars, addVars
  <2>2. \A u \in Timer : where'[u] = where[u] \/ where'[u] = None
    BY <1>a, <2>1 DEF TypeOK
  <2> QED
    BY <1>1, <2>1, <2>2
<1>8. CASE Advance \/ PollPick \/ (\E t \in Timer : StopLook(t)) \/ UNCHANGED vars
  BY <1>1, <1>8 DEF Advance, PollPick, StopLook, vars, timerVars, addVars
<1> QED
  BY <1>2, <1>3, <1>4, <1>5, <1>6, <1>7, <1>8 DEF Next, LoopStep

LEMMA PInvInitially == Init => PInv
<1> SUFFICES ASSUME Init PROVE PInv
  OBVIOUS
<1>a. TypeOK /\ Holding
  BY TypesInitially
<1>1. /\ now = 0 /\ top = 0 /\ hand = None /\ lb = None /\ queue = EmptyBag
      /\ \A k \in Level : ct[k] = 0
      /\ \A b \in Bucket : ~Marked(b)
      /\ \A t \in Timer : where[t] = None
      /\ pc[Loop] = "recv" /\ \A p \in Proc : lvl[p] = 0
      /\ \A p \in Proc : pc[p] \in {"recv", "idle"}
  BY DEF Init, Marked, Proc
<1>2. \A p \in Proc : ~Busy(p) /\ ~Pushing(p)
  BY <1>1 DEF Busy, AddPC, Pushing
<1>3. BagToSet(queue) = {}
  BY <1>1 DEF EmptyBag, SetToBag, BagToSet
<1>4. NoStranded
  BY <1>1, Places DEF NoStranded, Timers, Marked
<1>5. Turns /\ Prompt
  BY <1>1, <1>2, Places DEF Turns, Distinct, FromBottom, Prompt
<1>6. Clocks
  <2>1. \A k \in 0 .. top : ct[k] = 0 /\ Truncate(0, Tick(k)) = 0
    <3>1. \A k \in 0 .. top : k \in Level
      BY <1>1, Places
    <3>2. \A m \in Nat \ {0} : Truncate(0, m) = 0
      <4>1. ASSUME NEW m \in Nat \ {0} PROVE Truncate(0, m) = 0
        <5>1. Truncate(0, m) \in Nat /\ Truncate(0, m) <= 0
          BY TruncateBelow
        <5> QED
          BY <5>1
      <4> QED
        BY <4>1
    <3> QED
      BY <1>1, <3>1, <3>2, Sizes
  <2> QED
    BY <1>1, <2>1, Places DEF Clocks, Aligned
<1>7. Window /\ Earliest
  BY <1>1 DEF Window, Earliest
<1>8. Once
  BY <1>1, <1>2, <1>3, Places DEF Once, Queued
<1>9. Adding /\ Reinserting
  BY <1>2, Places DEF Adding, Reinserting
<1>10. OneCycle
  <2>1. \A k \in Level, s \in Slot : <<k, s>> # None
    BY Places DEF Bucket
  <2> QED
    BY <1>1, <2>1 DEF OneCycle
<1> QED
  BY <1>a, <1>4, <1>5, <1>6, <1>7, <1>8, <1>9, <1>10 DEF PInv

LEMMA PInvStep == PInv /\ ~Lag /\ [Next]_vars => PInv'
<1> SUFFICES ASSUME PInv, ~Lag, [Next]_vars PROVE PInv'
  OBVIOUS
<1>1. TypeOK' /\ Holding' /\ NoStranded'
  BY TypesStep, NoStrandedStep DEF PInv
<1>2. Turns' /\ Prompt' /\ Clocks' /\ Window' /\ Earliest' /\ Once'
  BY TurnsStep, PromptStep, ClocksStep, WindowStep, EarliestStep, OnceStep
<1>3. Adding' /\ Reinserting' /\ OneCycle'
  BY AddingStep, ReinsertingStep, OneCycleStep
<1> QED
  BY <1>1, <1>2, <1>3 DEF PInv

-------------------------------------------------------------------------------
(***************************************************************************)
(* Without lag the whole invariant holds: the arithmetic of slots, ticks   *)
(* and turns of the wheels (timingwheel.go:91-163) is right for every      *)
(* wheel size and every tick.                                              *)
(***************************************************************************)
THEOREM PromptInvariant == ~Lag /\ Spec => []PInv
<1> SUFFICES ASSUME ~Lag PROVE Spec => []PInv
  OBVIOUS
<1>1. PInv /\ [Next]_vars => PInv'
  BY PInvStep
<1> QED
  BY <1>1, PInvInitially, PTL DEF Spec

(***************************************************************************)
(* The timers of a bucket expire in the tick the bucket is queued for      *)
(* (timingwheel.go:99-112): without lag, no bucket mixes two turns.        *)
(***************************************************************************)
THEOREM OneCycleHolds == ~Lag /\ Spec => []OneCycle
<1>1. PInv => OneCycle
  BY DEF PInv
<1> QED
  BY <1>1, PromptInvariant, PTL

(***************************************************************************)
(* Between two buckets the clocks of the wheels agree and are not ahead of *)
(* the time (timingwheel.go:151-163).                                      *)
(***************************************************************************)
THEOREM ClocksAgreeHolds == ~Lag /\ Spec => []ClocksAgree
<1>1. PInv => ClocksAgree
  BY DEF PInv, Clocks, ClocksAgree, Tick
<1> QED
  BY <1>1, PromptInvariant, PTL

(***************************************************************************)
(* Without lag the loop never waits for the mutex it holds                 *)
(* (bucket.go:142-145).                                                    *)
(***************************************************************************)
THEOREM NoSelfLockHolds == ~Lag /\ Spec => []NoSelfLock
<1>1. PInv => NoSelfLock
  <2> SUFFICES ASSUME PInv, pc[Loop] = "insert" PROVE Target(Loop) # lb
    BY DEF NoSelfLock
  <2> QED
    BY NotOwnBucket DEF Busy, AddPC
<1> QED
  BY <1>1, PromptInvariant, PTL

-------------------------------------------------------------------------------
(***************************************************************************)
(* The wheel without lag is the service its callers see.                   *)
(***************************************************************************)
AllPlaced == \A t \in Timer : Placed(t) /\ Removable(t)

LEMMA AllPlacedAlways == Spec => [](TypeOK /\ Holding /\ AllPlaced)
<1>1. Init => AllPlaced
  <2> SUFFICES ASSUME Init, NEW t \in Timer PROVE Placed(t) /\ Removable(t)
    BY DEF AllPlaced
  <2>1. Holders(t) = {}
    BY NameAssumption DEF Init, Holders
  <2> QED
    BY <2>1 DEF Init, Placed, Nowhere, Removable
<1>2. TypeOK /\ Holding /\ AllPlaced /\ [Next]_vars => (TypeOK /\ Holding /\ AllPlaced)'
  BY TypesStep, PlacedStep DEF AllPlaced
<1> QED
  BY <1>1, <1>2, TypesInitially, PTL DEF Spec

\* The phase of a timer: its place leaves no doubt.
PhaseOf(e, f, s) ==
  IF e = Never THEN "new" ELSE IF f > 0 THEN "fired" ELSE IF s THEN "stopped" ELSE "pending"

LEMMA Phases ==
  /\ phase = [t \in Timer |-> phase[t]] /\ phase' = [t \in Timer |-> phase'[t]]
  /\ TypeOK /\ AllPlaced =>
       \A t \in Timer : phase[t] = PhaseOf(expi[t], fires[t], stopped[t])
  /\ TypeOK' /\ AllPlaced' =>
       \A t \in Timer : phase'[t] = PhaseOf(expi'[t], fires'[t], stopped'[t])
<1>1. ASSUME TypeOK, AllPlaced, NEW t \in Timer
      PROVE  phase[t] = PhaseOf(expi[t], fires[t], stopped[t])
  <2>1. /\ expi[t] = Never => fires[t] = 0 /\ ~stopped[t]
        /\ fires[t] > 0 => ~stopped[t]
    BY <1>1 DEF AllPlaced, Placed, Nowhere, Held, InBucket, Fired, Cancelled
  <2> QED
    BY <2>1 DEF phase, PhaseOf
<1>2. ASSUME TypeOK', AllPlaced', NEW t \in Timer
      PROVE  phase'[t] = PhaseOf(expi'[t], fires'[t], stopped'[t])
  <2>1. /\ expi'[t] = Never => fires'[t] = 0 /\ ~stopped'[t]
        /\ fires'[t] > 0 => ~stopped'[t]
    BY <1>2 DEF AllPlaced, Placed, Nowhere, Held, InBucket, Fired, Cancelled
  <2> QED
    BY <2>1 DEF phase, PhaseOf
<1>3. phase = [t \in Timer |-> phase[t]]
  BY DEF phase
<1>4. phase' = [t \in Timer |-> phase'[t]]
  BY DEF phase
<1> QED
  BY <1>1, <1>2, <1>3, <1>4

\* A task is started in the tick of its timer.
LEMMA RunsInTime ==
  ASSUME PInv, NEW p \in Proc, AddRun(p)
  PROVE  /\ tmr[p] \in Timer /\ Exp(p) \in Nat
         /\ Truncate(Exp(p), LevelTick[0]) <= now /\ now <= Exp(p)
<1>1. Busy(p) /\ pc[p] = "run"
  BY DEF AddRun, Busy, AddPC
<1>2. tmr[p] \in Timer /\ Exp(p) \in Nat /\ now <= Exp(p)
  BY <1>1, BusyHolds
<1>3. Exp(p) < ct[0] + Tick(0)
  BY <1>1 DEF PInv, Adding, Adds
<1>4. /\ ct[0] \in Nat /\ ct[0] <= now /\ now \in Nat
      /\ Aligned(ct[0], Tick(0)) /\ Tick(0) \in Nat \ {0}
  <2>1. 0 \in 0 .. top
    BY WheelAssumption DEF PInv, TypeOK, Level
  <2> QED
    BY <2>1, Places, Sizes DEF PInv, TypeOK, Clocks
<1> DEFINE e == Truncate(Exp(p), Tick(0))
<1>5. e \in Nat /\ e <= Exp(p) /\ Aligned(e, Tick(0))
  BY <1>2, <1>4, TruncateBelow, TruncateAligned
<1> HIDE DEF e
<1>6. e < ct[0] + Tick(0)
  BY <1>2, <1>3, <1>4, <1>5
<1>7. e <= ct[0]
  BY <1>4, <1>5, <1>6, AlignedNext
<1>8. e <= now
  BY <1>4, <1>5, <1>7
<1> QED
  BY <1>2, <1>8 DEF e, Tick

(***************************************************************************)
(* The safety part of ImplementsTimerService: without lag, every step of   *)
(* the goroutines, the loop and Stop is a step of the service or changes   *)
(* nothing it shows.  No task starts before its tick, twice, or after a    *)
(* Stop that returned true (timingwheel.go:65-76, 91-163, bucket.go).      *)
(***************************************************************************)
THEOREM StepsOfTimerService ==
  ~Lag /\ Spec => Service!Init /\ [][Service!Next]_(Service!vars)
<1> SUFFICES ASSUME ~Lag
             PROVE  Spec => Service!Init /\ [][Service!Next]_(Service!vars)
  OBVIOUS
<1>1. Init /\ TypeOK /\ AllPlaced => Service!Init
  <2> SUFFICES ASSUME Init, TypeOK, AllPlaced PROVE Service!Init
    OBVIOUS
  <2>1. phase = [t \in Timer |-> "new"]
    BY Phases DEF Init, PhaseOf, phase
  <2> QED
    BY <2>1 DEF Init, Service!Init
<1>2. /\ PInv /\ TypeOK /\ AllPlaced /\ TypeOK' /\ AllPlaced' /\ [Next]_vars
      => [Service!Next]_(Service!vars)
  <2> SUFFICES ASSUME PInv, TypeOK, Holding, AllPlaced, TypeOK', AllPlaced', [Next]_vars
               PROVE  [Service!Next]_(Service!vars)
    BY DEF PInv
  <2>a. /\ \A t \in Timer : phase[t] = PhaseOf(expi[t], fires[t], stopped[t])
        /\ \A t \in Timer : phase'[t] = PhaseOf(expi'[t], fires'[t], stopped'[t])
    BY Phases
  <2>b. UNCHANGED <<expi, fires, stopped>> => phase' = phase
    BY DEF phase
  <2>c. ASSUME NEW t \in Timer, NEW f, phase'[t] = f,
               \A u \in Timer : u # t => phase'[u] = phase[u]
        PROVE  phase' = [phase EXCEPT ![t] = f]
    BY <2>c, Phases
  <2>1. CASE Advance
    <3>1. now < MaxTime /\ now' = now + 1 /\ UNCHANGED <<expi, fires, stopped>>
      BY <2>1 DEF Advance, timerVars, stopVars
    <3> QED
      BY <2>b, <3>1 DEF Service!Next, Service!Advance
  <2>2. ASSUME NEW p \in Goroutine, NEW t \in Timer, NEW d \in Delay,
               AfterFunc(p, t, d)
        PROVE  Service!Next
    <3>1. /\ expi[t] = Never /\ expi' = [expi EXCEPT ![t] = now + d]
          /\ UNCHANGED <<now, fires, stopped>>
      BY <2>2 DEF AfterFunc, clockVars, stopVars
    <3>2. now + d # Never /\ expi'[t] = now + d /\ \A u \in Timer : u # t => expi'[u] = expi[u]
      BY <3>1, BoundAssumption DEF TypeOK, Never
    <3>3. fires[t] = 0 /\ ~stopped[t]
      BY <3>1 DEF AllPlaced, Placed, Nowhere
    <3>4. phase[t] = "new" /\ phase'[t] = "pending"
      BY <2>a, <3>1, <3>2, <3>3 DEF PhaseOf
    <3>5. \A u \in Timer : u # t => phase'[u] = phase[u]
      BY <2>a, <3>1, <3>2
    <3>6. Service!Arm(t, d)
      BY <2>c, <3>1, <3>4, <3>5 DEF Service!Arm
    <3> QED
      BY <3>6 DEF Service!Next
  <2>3. ASSUME NEW p \in Proc, AddRun(p) PROVE Service!Next
    <3> DEFINE t == tmr[p]
    <3>1. /\ t \in Timer /\ Exp(p) \in Nat /\ Truncate(Exp(p), LevelTick[0]) <= now
      BY <2>3, RunsInTime
    <3>2. /\ fires' = [fires EXCEPT ![t] = @ + 1] /\ UNCHANGED <<now, expi, stopped>>
          /\ pc[p] = "run"
      BY <2>3 DEF AddRun, clockVars, stopVars
    <3>3. p \in Holders(t)
      BY <3>2 DEF Holders
    <3>4. expi[t] # Never /\ fires[t] = 0 /\ ~stopped[t]
      BY <3>1, <3>3 DEF AllPlaced, Placed, Nowhere, Held, InBucket, Fired, Cancelled
    <3>5. fires'[t] = 1 /\ \A u \in Timer : u # t => fires'[u] = fires[u]
      BY <3>1, <3>2, <3>4 DEF TypeOK
    <3> HIDE DEF t
    <3>6. phase[t] = "pending" /\ phase'[t] = "fired"
      BY <2>a, <3>1, <3>2, <3>4, <3>5 DEF PhaseOf
    <3>7. \A u \in Timer : u # t => phase'[u] = phase[u]
      BY <2>a, <3>2, <3>5
    <3>8. Service!Due(t)
      BY <3>1 DEF Service!Due, Truncate, Exp, t
    <3>9. Service!Fire(t)
      BY <2>c, <3>1, <3>2, <3>6, <3>7, <3>8 DEF Service!Fire
    <3> QED
      BY <3>1, <3>9 DEF Service!Next
  <2>4. ASSUME NEW p \in Proc, AddStep(p), ~AddRun(p) PROVE UNCHANGED Service!vars
    <3>1. UNCHANGED <<now, expi, fires, stopped>>
      BY <2>4 DEF AddStep, AddLoad, AddOverflow, AddInsert, AddSwap, AddRead, AddPush,
                  clockVars, timerVars, stopVars
    <3> QED
      BY <2>b, <3>1 DEF Service!vars
  <2>5. ASSUME NEW t \in Timer, StopRemove(t) PROVE [Service!Next]_(Service!vars)
    <3>1. /\ spc[t] = "remove" /\ UNCHANGED <<now, expi, fires>>
          /\ stopped' = [stopped EXCEPT ![t] = (where[t] = sb[t])]
      BY <2>5 DEF StopRemove, clockVars, timerVars
    <3>2. sb[t] # None /\ ~stopped[t]
      BY <3>1 DEF AllPlaced, Removable
    <3>3. CASE where[t] = sb[t]
      <4>1. expi[t] # Never /\ fires[t] = 0
        BY <3>2, <3>3 DEF AllPlaced, Placed, Nowhere, Held, InBucket, Fired, Cancelled
      <4>2. stopped'[t] /\ \A u \in Timer : u # t => stopped'[u] = stopped[u]
        BY <3>1, <3>3 DEF TypeOK
      <4>3. phase[t] = "pending" /\ phase'[t] = "stopped"
        BY <2>a, <3>1, <3>2, <4>1, <4>2 DEF PhaseOf
      <4>4. \A u \in Timer : u # t => phase'[u] = phase[u]
        BY <2>a, <3>1, <4>2
      <4>5. Service!Cancel(t)
        BY <2>c, <3>1, <4>3, <4>4 DEF Service!Cancel
      <4> QED
        BY <4>5 DEF Service!Next
    <3>4. CASE where[t] # sb[t]
      <4>1. stopped' = stopped
        BY <3>1, <3>2, <3>4 DEF TypeOK
      <4> QED
        BY <2>b, <3>1, <4>1 DEF Service!vars
    <3> QED
      BY <3>3, <3>4
  <2>6. CASE PollPick \/ LoopStep \/ (\E t \in Timer : StopLook(t)) \/ UNCHANGED vars
    <3>1. UNCHANGED <<now, expi, fires, stopped>>
      BY <2>6 DEF PollPick, LoopStep, LoopReceive, LoopAdvance, FlushLock, FlushEnd,
                  FlushTimer, StopLook, vars, clockVars, timerVars, stopVars
    <3> QED
      BY <2>b, <3>1 DEF Service!vars
  <2> QED
    BY <2>1, <2>2, <2>3, <2>4, <2>5, <2>6 DEF Next
<1> QED
  BY <1>1, <1>2, PromptInvariant, AllPlacedAlways, PTL DEF Spec

(***************************************************************************)
(* Without lag the wheel is as accurate as its lowest tick: a task starts  *)
(* in the tick of its timer and not after the timer expires                *)
(* (timingwheel.go:96-98, 151-163).                                        *)
(***************************************************************************)
OnTime ==
  \A t \in Timer : firedAt[t] # Never =>
    Truncate(expi[t], LevelTick[0]) <= firedAt[t] /\ firedAt[t] <= expi[t]

THEOREM FiresOnTime == ~Lag /\ Spec => []OnTime
<1> SUFFICES ASSUME ~Lag PROVE Spec => []OnTime
  OBVIOUS
<1>1. Init => OnTime
  BY DEF Init, OnTime
<1>2. PInv /\ OnTime /\ [Next]_vars => OnTime'
  <2> SUFFICES ASSUME PInv, TypeOK, OnTime, [Next]_vars PROVE OnTime'
    BY DEF PInv
  <2>1. ASSUME NEW p \in Goroutine, NEW t \in Timer, NEW d \in Delay,
               AfterFunc(p, t, d)
        PROVE  OnTime'
    <3>1. /\ expi[t] = Never /\ expi' = [expi EXCEPT ![t] = now + d]
          /\ firedAt' = firedAt
      BY <2>1 DEF AfterFunc
    <3>2. firedAt[t] = Never
      BY <3>1 DEF OnTime, TypeOK, Never
    <3>3. \A u \in Timer : u # t => expi'[u] = expi[u]
      BY <3>1 DEF TypeOK
    <3> QED
      BY <3>1, <3>2, <3>3 DEF OnTime
  <2>2. ASSUME NEW p \in Proc, AddRun(p) PROVE OnTime'
    <3>1. /\ tmr[p] \in Timer
          /\ Truncate(expi[tmr[p]], LevelTick[0]) <= now /\ now <= expi[tmr[p]]
      BY <2>2, RunsInTime DEF Exp
    <3>2. /\ expi' = expi
          /\ \A u \in Timer : firedAt'[u] = IF u = tmr[p] THEN now ELSE firedAt[u]
      BY <2>2 DEF AddRun, TypeOK
    <3> QED
      BY <3>1, <3>2 DEF OnTime
  <2>3. CASE UNCHANGED <<expi, firedAt>>
    BY <2>3 DEF OnTime
  <2> QED
    BY <2>1, <2>2, <2>3
    DEF Next, LoopStep, AddStep, Advance, AddLoad, AddOverflow, AddInsert, AddSwap,
        AddRead, AddPush, PollPick, LoopReceive, LoopAdvance, FlushLock, FlushEnd,
        FlushTimer, StopLook, StopRemove, vars, timerVars
<1> QED
  BY <1>1, <1>2, PromptInvariant, PTL DEF Spec
=============================================================================
