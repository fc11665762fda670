-------------------------- MODULE TimerWheelProofs --------------------------
(***************************************************************************)
(* Proofs about TimerWheel, for any waits, delays and sizes of the levels. *)
(***************************************************************************)
EXTENDS TimerWheel, Integers, FiniteSetTheorems, TLAPS

\* Zenon proves most leaves; one with arithmetic, records or sequences cites SMT.
USE ZenonT(30)

Ceil(a, n) == (a + (n - 1)) \div n

\* The slots of level l that lie behind the wheel, the one in hand included.
Passed(l) == Ceil(IF l + 1 < todo THEN Ticks(now) - 1 ELSE Ticks(now), Span(l))

\* The delay of the wait is below the threshold of level 2.
Short(w) == asked[w].delay < Span(2) * Units

(***************************************************************************)
(* The clock and the positions of the levels agree: current_slot[l] is the *)
(* number of slots of level l passed, modulo the size of the level.        *)
(***************************************************************************)
ClockInv ==
  /\ now = Units * Ticks(now)
  /\ todo > 0 => Ticks(now) > 0 /\ (Ticks(now) - 1) % Span(todo - 1) = 0
  /\ \A l \in Levels :
       current_slot[l] = (IF l + 1 = todo THEN Passed(l) - 1 ELSE Passed(l)) % LevelSize(l)
  /\ todo = 0 => slots[InHand] = <<>>

\* No id is twice in the wheel.
Once(f) ==
  \A p, q \in Places : \A i \in DOMAIN f[p], j \in DOMAIN f[q] :
    f[p][i] = f[q][j] => p = q /\ i = j

\* No id is of a generation its index has not reached yet.
IdsIssued ==
  \A p \in Places : \A id \in Range(slots[p]) :
    id[1] \in DOMAIN slotmap /\ id[2] <= slotmap[id[1]].generation

FreeList ==
  /\ IsInjective(free_indices)
  /\ Range(free_indices) = DOMAIN slotmap \ ActiveIndices
  /\ active_count = Cardinality(ActiveIndices)

\* The id of the entry of index i is in place p.
Holds(p, i) == IdAt(i) \in Range(slots[p])

\* An active entry is in the wheel, and its wait is suspended and knows it.
EntriesPlaced == \A i \in ActiveIndices : \E p \in Places : Holds(p, i)

EntriesOwned ==
  \A i \in ActiveIndices :
    LET w == slotmap[i].wait
    IN /\ state[w] \in {"Pending", "Ready"}
       /\ timer_id[w] = IdAt(i)
       /\ slotmap[i].deadline = asked[w].deadline
       /\ slotmap[i].deadline > 0

PendingLive == \A w \in Waits : state[w] = "Pending" => Live(slotmap, timer_id[w])

\* A wait's timer id was issued, and while it is live the entry is the wait's own.
HandlesOwn ==
  \A w \in Waits :
    /\ timer_id[w] # NoId => /\ timer_id[w][1] \in DOMAIN slotmap
                             /\ timer_id[w][2] <= slotmap[timer_id[w][1]].generation
    /\ Live(slotmap, timer_id[w]) => slotmap[timer_id[w][1]].wait = w

(***************************************************************************)
(* An entry due in tick D waits in the slot of its level that D's digits   *)
(* name, and that slot is not passed; with a short delay it is less than a *)
(* lap ahead.  One in hand is due in this tick or later, and the slot that *)
(* was taken out is its own lap's when its delay is short.                 *)
(***************************************************************************)
InTime(p, i) ==
  LET due == Ticks(slotmap[i].deadline)
      short == Short(slotmap[i].wait)
      l == IF p = InHand THEN todo - 1 ELSE p[1]
      digits == due \div Span(l)
  IN IF p = InHand
     THEN /\ Ticks(now) <= due + 1
          /\ short => todo <= 2 /\ digits + 1 = Passed(l)
     ELSE /\ p[2] = digits % LevelSize(l)
          /\ Passed(l) <= digits
          /\ short => l <= 1 /\ digits < Passed(l) + LevelSize(l)

EntriesInTime == \A i \in ActiveIndices, p \in Places : Holds(p, i) => InTime(p, i)

FiredInTime ==
  \A w \in Waits :
    LET last == Ticks(asked[w].deadline) + 1
    IN /\ asked[w].fired <= last
       /\ asked[w].fired # 0 /\ Short(w) => asked[w].fired = last

WheelInv ==
  /\ WheelTypeOK
  /\ ClockInv
  /\ Once(slots)
  /\ IdsIssued
  /\ FreeList
  /\ EntriesPlaced
  /\ EntriesOwned
  /\ PendingLive
  /\ HandlesOwn
  /\ EntriesInTime
  /\ FiredInTime

-----------------------------------------------------------------------------
\* What \div and % compute.
LEMMA DivDef ==
  ASSUME NEW a \in Nat, NEW n \in Nat \ {0}
  PROVE  /\ a \div n \in Nat
         /\ a % n \in 0 .. n - 1
         /\ a = n * (a \div n) + (a % n)
<1>1. a \div n \in Int /\ a % n \in 0 .. n - 1 /\ a = n * (a \div n) + (a % n)
  BY SMTT(20)
<1>2. ASSUME a \div n < 0
      PROVE  FALSE
  <2>1. a \div n + 1 <= 0
    BY <1>1, <1>2, SMTT(20)
  <2>2. n * (a \div n + 1) <= 0
    BY <1>1, <2>1, SMTT(20)
  <2> QED BY <1>1, <2>2, SMTT(20)
<1> QED BY <1>1, <1>2, SMTT(20)

\* The product with a larger factor is larger.
LEMMA TimesMono ==
  ASSUME NEW n \in Nat, NEW a \in Nat, NEW b \in Nat, a <= b
  PROVE  n * a <= n * b
<1>1. PICK d \in Nat : b = a + d
  BY SMTT(20)
<1>2. n * d \in Nat /\ n * (a + d) = n * a + n * d
  BY SMTT(20)
<1> QED BY <1>1, <1>2, SMTT(20)

\* A quotient is determined by its bounds.
LEMMA DivUnique ==
  ASSUME NEW a \in Nat, NEW n \in Nat \ {0}, NEW q \in Nat, n * q <= a, a < n * q + n
  PROVE  a \div n = q
  BY SMTT(20)

\* A quotient is at least q when the dividend reaches n * q.
LEMMA DivAtLeast ==
  ASSUME NEW a \in Nat, NEW n \in Nat \ {0}, NEW q \in Nat, n * q <= a
  PROVE  q <= a \div n
<1> DEFINE d == a \div n
           r == a % n
<1>1. d \in Nat /\ r \in 0 .. n - 1 /\ a = n * d + r
  BY DivDef
<1> HIDE DEF d, r
<1>2. ASSUME d + 1 <= q
      PROVE  FALSE
  <2>1. n * (d + 1) <= n * q
    BY <1>1, <1>2, TimesMono, SMTT(20)
  <2>2. n * (d + 1) = n * d + n
    BY <1>1, SMTT(20)
  <2> QED BY <1>1, <2>1, <2>2, SMTT(20)
<1>3. q <= d
  BY <1>1, <1>2, SMTT(20)
<1> QED BY <1>3 DEF d

\* A quotient is below q when the dividend does not reach n * q.
LEMMA DivBelow ==
  ASSUME NEW a \in Nat, NEW n \in Nat \ {0}, NEW q \in Nat, a < n * q
  PROVE  a \div n < q
<1> DEFINE d == a \div n
           r == a % n
<1>1. d \in Nat /\ r \in 0 .. n - 1 /\ a = n * d + r
  BY DivDef
<1> HIDE DEF d, r
<1>2. ~ q <= d
  <2>1. q <= d => n * q <= n * d
    BY <1>1, TimesMono, SMTT(20)
  <2> QED BY <1>1, <2>1, SMTT(20)
<1>3. d < q
  BY <1>1, <1>2, SMTT(20)
<1> QED BY <1>3 DEF d

\* Division by one.
LEMMA DivOne ==
  ASSUME NEW a \in Nat
  PROVE  a \div 1 = a
  BY SMTT(20)

\* The remainder of the successor.
LEMMA ModNext ==
  ASSUME NEW a \in Nat, NEW n \in Nat \ {0}
  PROVE  (a + 1) % n = ((a % n) + 1) % n
<1> DEFINE q == a \div n
           r == a % n
<1>1. q \in Nat /\ r \in 0 .. n - 1 /\ a = n * q + r
  BY DivDef
<1> HIDE DEF q, r
<1>2. a + 1 \in Nat /\ r + 1 \in Nat
  BY <1>1, SMTT(20)
<1>3. CASE r + 1 < n
  <2>1. (a + 1) \div n = q
    BY <1>1, <1>3, DivUnique, SMTT(20)
  <2>2. (r + 1) \div n = 0
    BY <1>1, <1>3, DivUnique, SMTT(20)
  <2>3. a + 1 = n * q + ((a + 1) % n) /\ r + 1 = n * 0 + ((r + 1) % n)
    BY <1>2, <2>1, <2>2, DivDef
  <2>4. (a + 1) % n \in Nat /\ (r + 1) % n \in Nat
    BY <1>1, DivDef, SMTT(20)
  <2>5. (a + 1) % n = r + 1 /\ (r + 1) % n = r + 1
    BY <1>1, <2>3, <2>4, SMTT(20)
  <2> QED BY <2>5 DEF r
<1>4. CASE r + 1 = n
  <2>1. n * (q + 1) = n * q + n
    BY <1>1, SMTT(20)
  <2>2. (a + 1) \div n = q + 1
    BY <1>1, <1>4, <2>1, DivUnique, SMTT(20)
  <2>3. (r + 1) \div n = 1
    BY <1>1, <1>4, DivUnique, SMTT(20)
  <2>4. a + 1 = n * (q + 1) + ((a + 1) % n) /\ r + 1 = n * 1 + ((r + 1) % n)
    BY <1>2, <2>2, <2>3, DivDef
  <2>5. (a + 1) % n \in Nat /\ (r + 1) % n \in Nat
    BY <1>1, DivDef, SMTT(20)
  <2>6. (a + 1) % n = 0 /\ (r + 1) % n = 0
    BY <1>1, <1>4, <2>1, <2>4, <2>5, SMTT(20)
  <2> QED BY <2>6 DEF r
<1> QED BY <1>1, <1>3, <1>4, SMTT(20)

\* Two numbers in the same slot of a level are a lap apart.
LEMMA LapApart ==
  ASSUME NEW a \in Nat, NEW b \in Nat, NEW n \in Nat \ {0}, a % n = b % n, a < b
  PROVE  a + n <= b
<1> DEFINE p == a \div n
           q == b \div n
           r == a % n
<1>1. p \in Nat /\ q \in Nat /\ r \in 0 .. n - 1 /\ a = n * p + r /\ b = n * q + r
  BY DivDef
<1> HIDE DEF p, q, r
<1>2. n * p < n * q
  BY <1>1, SMTT(20)
<1>3. ~ q <= p
  BY <1>1, <1>2, TimesMono, SMTT(20)
<1>4. n * (p + 1) <= n * q
  BY <1>1, <1>3, TimesMono, SMTT(20)
<1>5. n * (p + 1) = n * p + n
  BY <1>1, SMTT(20)
<1> QED BY <1>1, <1>4, <1>5, SMTT(20)

\* The bounds of a quotient rounded up.
LEMMA CeilDef ==
  ASSUME NEW a \in Nat, NEW n \in Nat \ {0}
  PROVE  Ceil(a, n) \in Nat /\ a <= n * Ceil(a, n) /\ n * Ceil(a, n) < a + n
<1> DEFINE q == Ceil(a, n)
           r == (a + (n - 1)) % n
<1>1. a + (n - 1) \in Nat
  BY SMTT(20)
<1>2. q \in Nat /\ r \in 0 .. n - 1 /\ a + (n - 1) = n * q + r
  BY <1>1, DivDef DEF Ceil
<1> HIDE DEF q, r
<1>3. a <= n * q /\ n * q < a + n
  BY <1>2, SMTT(20)
<1> QED BY <1>2, <1>3 DEF q

\* A quotient rounded up is determined by its bounds.
LEMMA CeilUnique ==
  ASSUME NEW a \in Nat, NEW n \in Nat \ {0}, NEW q \in Nat, a <= n * q, n * q < a + n
  PROVE  Ceil(a, n) = q
<1>1. a + (n - 1) \in Nat /\ n * q <= a + (n - 1) /\ a + (n - 1) < n * q + n
  BY SMTT(20)
<1> QED BY <1>1, DivUnique DEF Ceil

\* The slots passed of a level change in the tick that enters a slot, and only then.
LEMMA CeilNext ==
  ASSUME NEW a \in Nat, NEW n \in Nat \ {0}
  PROVE  /\ a % n = 0 => Ceil(a, n) = a \div n /\ Ceil(a + 1, n) = (a \div n) + 1
         /\ a % n # 0 => Ceil(a + 1, n) = Ceil(a, n)
<1> DEFINE q == a \div n
           r == a % n
<1>1. q \in Nat /\ r \in 0 .. n - 1 /\ a = n * q + r
  BY DivDef
<1> HIDE DEF q, r
<1>2. n * (q + 1) = n * q + n
  BY <1>1, SMTT(20)
<1>3. CASE r = 0
  <2>1. Ceil(a, n) = q
    BY <1>1, <1>3, CeilUnique, SMTT(20)
  <2>2. Ceil(a + 1, n) = q + 1
    BY <1>1, <1>2, <1>3, CeilUnique, SMTT(20)
  <2> QED BY <1>3, <2>1, <2>2 DEF q, r
<1>4. CASE r # 0
  <2>1. Ceil(a, n) = q + 1
    BY <1>1, <1>2, <1>4, CeilUnique, SMTT(20)
  <2>2. Ceil(a + 1, n) = q + 1
    BY <1>1, <1>2, <1>4, CeilUnique, SMTT(20)
  <2> QED BY <1>4, <2>1, <2>2 DEF q, r
<1> QED BY <1>3, <1>4

\* A number is a multiple of m * n when its digits above m are a multiple of n.
LEMMA MultipleOfProduct ==
  ASSUME NEW a \in Nat, NEW m \in Nat \ {0}, NEW n \in Nat \ {0}
  PROVE  a % (m * n) = 0 <=> a % m = 0 /\ (a \div m) % n = 0
<1> DEFINE q == a \div m
           r == a % m
           s == q \div n
           u == q % n
<1>1. q \in Nat /\ r \in 0 .. m - 1 /\ a = m * q + r
  BY DivDef
<1> HIDE DEF q, r
<1>2. s \in Nat /\ u \in 0 .. n - 1 /\ q = n * s + u
  BY <1>1, DivDef
<1> HIDE DEF s, u
<1>3. m * n \in Nat \ {0}
  BY SMTT(20)
<1> DEFINE x == a \div (m * n)
           y == a % (m * n)
<1>4. x \in Nat /\ y \in 0 .. m * n - 1 /\ a = (m * n) * x + y
  BY <1>3, DivDef
<1> HIDE DEF x, y
<1>5. ASSUME y = 0
      PROVE  r = 0 /\ u = 0
  <2>1. n * x \in Nat /\ a = m * (n * x)
    BY <1>4, <1>5, SMTT(20)
  <2>2. q = n * x
    BY <2>1, DivUnique, SMTT(20) DEF q
  <2>3. r = 0
    BY <1>1, <2>1, <2>2, SMTT(20)
  <2>4. s = x
    BY <1>1, <1>4, <2>2, DivUnique, SMTT(20) DEF s
  <2> QED BY <1>2, <2>2, <2>3, <2>4, SMTT(20)
<1>6. ASSUME r = 0, u = 0
      PROVE  y = 0
  <2>1. a = (m * n) * s
    BY <1>1, <1>2, <1>6, SMTT(20)
  <2>2. x = s
    BY <1>2, <1>3, <2>1, DivUnique, SMTT(20) DEF x
  <2> QED BY <1>2, <1>3, <1>4, <2>1, <2>2, SMTT(20)
<1> QED BY <1>5, <1>6 DEF q, r, u, y

\* The levels: a slot of one spans a lap of the one below.
LEMMA SpanFacts ==
  /\ \A l \in Levels : Span(l) \in Nat \ {0} /\ LevelSize(l) \in Nat \ {0}
  /\ \A l \in 0 .. 2 : l \in Levels /\ l + 1 \in Levels /\ Span(l + 1) = Span(l) * LevelSize(l)
  /\ Span(0) = 1
  /\ Levels = 0 .. 3
<1>1. Levels = 0 .. 3
  BY SMTT(20) DEF Levels, kNumLevels
<1>2. Span(0) = 1 /\ Span(1) = Level0Size /\ Span(2) = Level0Size * LevelNSize
      /\ Span(3) = Level0Size * LevelNSize * LevelNSize
  BY SMTT(20) DEF Span
<1>3. Level0Size \in Nat \ {0} /\ LevelNSize \in Nat \ {0}
  BY SizesAssumption
<1>4. Level0Size * LevelNSize \in Nat \ {0}
  BY <1>3, SMTT(20)
<1>5. Level0Size * LevelNSize * LevelNSize \in Nat \ {0}
  BY <1>3, <1>4, SMTT(20)
<1>6. LevelSize(0) = Level0Size /\ LevelSize(1) = LevelNSize /\ LevelSize(2) = LevelNSize
      /\ LevelSize(3) = LevelNSize
  BY SMTT(20) DEF LevelSize
<1>7. \A l \in Levels : Span(l) \in Nat \ {0} /\ LevelSize(l) \in Nat \ {0}
  BY <1>1, <1>2, <1>3, <1>4, <1>5, <1>6, SMTT(20)
<1>8. \A l \in 0 .. 2 : l \in Levels /\ l + 1 \in Levels /\ Span(l + 1) = Span(l) * LevelSize(l)
  BY <1>1, <1>2, <1>3, <1>4, <1>5, <1>6, SMTT(20)
<1> QED BY <1>1, <1>2, <1>7, <1>8

\* The places of the wheel.
LEMMA PlaceFacts ==
  /\ InHand \in Places
  /\ \A l \in Levels : \A k \in 0 .. LevelSize(l) - 1 :
       <<l, k>> \in Places /\ <<l, k>> # InHand
  /\ \A p \in Places : p # InHand =>
       p[1] \in Levels /\ p[2] \in 0 .. LevelSize(p[1]) - 1 /\ p = <<p[1], p[2]>>
<1>1. InHand \in Places
  BY DEF Places
<1>2. \A l \in Levels : l # kNumLevels
  BY SpanFacts, SMTT(20) DEF kNumLevels
<1>3. \A l \in Levels : \A k \in 0 .. LevelSize(l) - 1 :
        <<l, k>> \in Places /\ <<l, k>> # InHand
  BY <1>2, SMTT(20) DEF Places, Slots, InHand
<1>4. ASSUME NEW p \in Places, p # InHand
      PROVE  p[1] \in Levels /\ p[2] \in 0 .. LevelSize(p[1]) - 1 /\ p = <<p[1], p[2]>>
  <2>1. PICK l \in Levels : p \in {l} \X (0 .. LevelSize(l) - 1)
    BY <1>4 DEF Places, Slots
  <2> QED BY <2>1, SMTT(20)
<1> QED BY <1>1, <1>3, <1>4

\* The level of a distance.
LEMMA LevelOfFacts ==
  ASSUME NEW d \in Nat
  PROVE  /\ LevelOf(d) \in Levels
         /\ LevelOf(d) # 0 => Span(LevelOf(d)) <= d
         /\ LevelOf(d) = 0 => d < Span(1)
         /\ d < Span(2) => LevelOf(d) <= 1
         /\ d < Span(1) => LevelOf(d) = 0
<1>1. 1 \in Levels /\ 2 \in Levels /\ 3 \in Levels /\ Levels = 0 .. 3
  BY SpanFacts, SMTT(20)
<1>2. Span(1) \in Nat /\ Span(2) \in Nat /\ Span(3) \in Nat
  BY <1>1, SpanFacts
<1> QED BY <1>1, <1>2, SMTT(20) DEF LevelOf

\* A time of the wheel is a whole number of ticks.
LEMMA TicksFacts ==
  ASSUME NEW t \in Nat, NEW d \in Nat
  PROVE  /\ Units * t \in Nat
         /\ Ticks(Units * t + d) = t + Ticks(d)
         /\ Ticks(d) \in Nat
         /\ Ticks(Units * t) = t
         /\ Units * t + Units = Units * (t + 1)
<1>1. Units \in Nat \ {0}
  BY SizesAssumption
<1> DEFINE q == d \div Units
           r == d % Units
<1>2. q \in Nat /\ r \in 0 .. Units - 1 /\ d = Units * q + r
  BY <1>1, DivDef
<1> HIDE DEF q, r
<1>3. Units * t \in Nat /\ Units * t + Units = Units * (t + 1)
  BY <1>1, SMTT(20)
<1>4. Units * (t + q) = Units * t + Units * q /\ Units * q \in Nat
  BY <1>1, <1>2, SMTT(20)
<1>5. (Units * t + d) \div Units = t + q
  BY <1>1, <1>2, <1>3, <1>4, DivUnique, SMTT(20)
<1>6. (Units * t) \div Units = t
  BY <1>1, <1>3, DivUnique, SMTT(20)
<1> QED BY <1>2, <1>3, <1>5, <1>6 DEF Ticks, q

\* The distance place() computes is counted in whole ticks.
LEMMA DistanceFacts ==
  ASSUME NEW t \in Nat, now = Units * t, NEW e \in Nat
  PROVE  Distance(e) = IF t <= Ticks(e) THEN Ticks(e) - t ELSE 0
<1>1. Units \in Nat \ {0} /\ Units * t \in Nat
  BY SizesAssumption, TicksFacts
<1>2. CASE t <= Ticks(e)
  <2>1. Units * t <= e
    <3> DEFINE q == e \div Units
               r == e % Units
    <3>1. q \in Nat /\ r \in Nat /\ e = Units * q + r
      BY <1>1, DivDef, SMTT(20)
    <3>2. t <= q
      BY <1>2 DEF Ticks
    <3> HIDE DEF q, r
    <3>3. Units * t <= Units * q /\ Units * q \in Nat
      BY <1>1, <3>1, <3>2, TimesMono, SMTT(20)
    <3> QED BY <1>1, <3>1, <3>3, SMTT(20)
  <2>2. PICK d \in Nat : e = Units * t + d
    BY <1>1, <2>1, SMTT(20)
  <2>3. Ticks(e) = t + Ticks(d) /\ Ticks(d) \in Nat
    BY <2>2, TicksFacts
  <2>4. CASE e > now
    <3>1. Distance(e) = Ticks(d)
      BY <1>1, <2>2, <2>4, SMTT(20) DEF Distance, Ticks
    <3> QED BY <1>2, <2>3, <3>1, SMTT(20)
  <2>5. CASE ~ e > now
    <3>1. Distance(e) = 0 /\ d = 0
      BY <1>1, <2>2, <2>5, SMTT(20) DEF Distance
    <3>2. Ticks(e) = t
      BY <1>1, <2>2, <3>1, TicksFacts, SMTT(20)
    <3> QED BY <1>2, <3>1, <3>2, SMTT(20)
  <2> QED BY <2>4, <2>5
<1>3. CASE ~ t <= Ticks(e)
  <2>1. ~ e > now
    <3>1. CASE e >= Units * t
      BY <1>1, <1>3, <3>1, DivAtLeast, SMTT(20) DEF Ticks
    <3> QED BY <1>1, <3>1, SMTT(20)
  <2> QED BY <1>3, <2>1 DEF Distance
<1> QED BY <1>2, <1>3

\* Between ticks, and while a level is cascaded, the slots passed are counted from a tick.
LEMMA PassedFacts ==
  ASSUME WheelTypeOK, ClockInv
  PROVE  /\ Ticks(now) \in Nat
         /\ todo > 0 => Ticks(now) - 1 \in Nat
         /\ \A l \in Levels : Passed(l) \in Nat
<1>1. Ticks(now) \in Nat
  BY TicksFacts DEF WheelTypeOK
<1>2. todo > 0 => Ticks(now) - 1 \in Nat
  BY <1>1, SMTT(20) DEF ClockInv
<1>3. ASSUME NEW l \in Levels
      PROVE  Passed(l) \in Nat
  <2>1. l + 1 < todo => todo > 0
    <3>1. l \in 0 .. 3 /\ todo \in 0 .. kNumLevels
      BY SpanFacts DEF WheelTypeOK
    <3> QED BY <3>1, SMTT(20) DEF kNumLevels
  <2> QED BY <1>1, <1>2, <2>1, SpanFacts, CeilDef DEF Passed
<1> QED BY <1>1, <1>2, <1>3

(***************************************************************************)
(* place() puts an entry into a slot that is not passed, and one with a    *)
(* short delay less than a lap ahead.                                      *)
(***************************************************************************)
LEMMA PlacedInTime ==
  ASSUME WheelTypeOK, ClockInv, todo # 1, NEW e \in Nat,
         Ticks(now) <= Ticks(e) + 1, todo = 0 => Ticks(now) <= Ticks(e)
  PROVE  LET l == LevelOf(Distance(e))
             digits == Ticks(e) \div Span(l)
         IN /\ l \in Levels
            /\ SlotOf(e, Distance(e), l) = <<l, digits % LevelSize(l)>>
            /\ digits \in Nat
            /\ Passed(l) <= digits
            /\ todo = 0 /\ Ticks(e) < Ticks(now) + Span(2)
                 => l <= 1 /\ digits < Passed(l) + LevelSize(l)
            /\ todo = 2 /\ (Ticks(e) \div Span(1)) + 1 = Passed(1)
                 => l <= 1 /\ digits < Passed(l) + LevelSize(l)
<1> DEFINE t == Ticks(now)
           due == Ticks(e)
           d == Distance(e)
           l == LevelOf(d)
           s == Span(l)
           digits == due \div s
<1>1. t \in Nat /\ due \in Nat /\ now = Units * t /\ (todo > 0 => t - 1 \in Nat)
  BY PassedFacts, TicksFacts DEF ClockInv
<1>2. d = IF t <= due THEN due - t ELSE 0
  BY <1>1, DistanceFacts
<1>3. d \in Nat
  BY <1>1, <1>2, SMTT(20)
<1>4. l \in Levels /\ s \in Nat \ {0} /\ LevelSize(l) \in Nat \ {0}
  BY <1>3, LevelOfFacts, SpanFacts
<1>5. digits \in Nat
  BY <1>1, <1>4, DivDef
<1>6. SlotOf(e, d, l) = <<l, digits % LevelSize(l)>>
  BY DEF SlotOf, Ticks
<1>7. Passed(0) = IF todo = 0 THEN t ELSE t - 1
  <2>1. \A x \in Nat : Ceil(x, 1) = x
    BY CeilUnique, SMTT(20)
  <2>2. 0 + 1 < todo <=> todo # 0
    BY SMTT(20) DEF WheelTypeOK
  <2>3. Passed(0) = Ceil(IF todo # 0 THEN t - 1 ELSE t, 1)
    BY <2>2, SpanFacts DEF Passed
  <2>4. CASE todo = 0
    BY <1>1, <2>1, <2>3, <2>4
  <2>5. CASE todo # 0
    <3>1. t - 1 \in Nat
      BY <1>1, <2>5, SMTT(20) DEF WheelTypeOK
    <3> QED BY <2>1, <2>3, <2>5, <3>1
  <2> QED BY <2>4, <2>5
<1>8. due \div Span(0) = due /\ Span(0) = 1
  BY <1>1, DivOne, SpanFacts
<1>9. Passed(l) <= digits
  <2>1. CASE l = 0
    BY <1>1, <1>7, <1>8, <2>1, SMTT(20) DEF WheelTypeOK
  <2>2. CASE l # 0
    <3>1. s <= d
      BY <1>3, <2>2, LevelOfFacts
    <3>2. t + s <= due
      BY <1>1, <1>2, <1>4, <3>1, SMTT(20)
    <3>3. PICK x \in Nat : x <= t /\ Passed(l) = Ceil(x, s)
      <4>1. CASE l + 1 < todo
        <5>1. t - 1 \in Nat /\ t - 1 <= t
          <6>1. todo > 0
            <7>1. l \in 0 .. 3
              BY <1>4, SpanFacts
            <7>2. todo \in 0 .. 4
              BY DEF WheelTypeOK, kNumLevels
            <7> HIDE DEF l
            <7> QED BY <4>1, <7>1, <7>2, SMTT(20)
          <6>2. t \in Nat /\ t - 1 \in Nat
            BY <1>1, <6>1
          <6> QED BY <6>2, SMTT(20)
        <5> QED BY <4>1, <5>1 DEF Passed
      <4>2. CASE ~ l + 1 < todo
        <5>1. t <= t
          BY <1>1, SMTT(20)
        <5> QED BY <1>1, <4>2, <5>1 DEF Passed
      <4> QED BY <4>1, <4>2
    <3>4. Passed(l) \in Nat /\ s * Passed(l) < x + s
      BY <1>4, <3>3, CeilDef
    <3> HIDE DEF s, d, l, due, t
    <3>5. s * Passed(l) <= due
      BY <1>1, <1>4, <3>2, <3>3, <3>4, SMTT(20)
    <3> USE DEF digits
    <3> QED BY <1>1, <1>4, <3>4, <3>5, DivAtLeast
  <2> QED BY <2>1, <2>2
<1>10. ASSUME todo = 0, due < t + Span(2)
       PROVE  l <= 1 /\ digits < Passed(l) + LevelSize(l)
  <2>1. Span(2) \in Nat \ {0} /\ Span(1) \in Nat \ {0} /\ Span(2) = Span(1) * LevelSize(1)
        /\ LevelSize(1) \in Nat \ {0} /\ Span(1) = LevelSize(0)
    <3>1. 0 \in 0 .. 2 /\ 1 \in 0 .. 2 /\ 1 + 1 = 2 /\ 0 + 1 = 1
      BY SMTT(20)
    <3>2. Span(2) = Span(1) * LevelSize(1) /\ Span(1) = Span(0) * LevelSize(0)
          /\ 0 \in Levels /\ 1 \in Levels /\ 2 \in Levels
      BY <3>1, SpanFacts
    <3> QED BY <3>2, SpanFacts, SMTT(20)
  <2>2. d < Span(2)
    BY <1>1, <1>2, <1>10, <2>1, SMTT(20)
  <2>3. l <= 1
    BY <1>3, <2>2, LevelOfFacts
  <2>4. CASE l = 0
    <3>1. d < Span(1)
      BY <1>3, <2>4, LevelOfFacts
    <3>2. due < t + Span(1)
      BY <1>1, <1>2, <2>1, <3>1, <1>10, SMTT(20)
    <3> QED BY <1>7, <1>8, <1>10, <2>1, <2>4, <3>2, SMTT(20)
  <2>5. CASE l = 1
    <3>1. Passed(1) = Ceil(t, Span(1))
      <4>1. ~ 1 + 1 < todo
        BY <1>10, SMTT(20)
      <4> QED BY <4>1 DEF Passed
    <3>2. Passed(1) \in Nat /\ t <= Span(1) * Passed(1)
      BY <1>1, <2>1, <3>1, CeilDef
    <3>3. Span(1) * (Passed(1) + LevelSize(1)) = Span(1) * Passed(1) + Span(2)
      BY <2>1, <3>2, SMTT(20)
    <3> HIDE DEF due, t
    <3>4. due < Span(1) * (Passed(1) + LevelSize(1))
      BY <1>1, <1>10, <2>1, <3>2, <3>3, SMTT(20)
    <3>5. Passed(1) + LevelSize(1) \in Nat
      BY <2>1, <3>2, SMTT(20)
    <3>6. due \div Span(1) < Passed(1) + LevelSize(1)
      BY <1>1, <2>1, <3>4, <3>5, DivBelow
    <3> QED BY <2>3, <2>5, <3>6
  <2> QED BY <1>4, <2>3, <2>4, <2>5, SpanFacts, SMTT(20)
<1>11. ASSUME todo = 2, (due \div Span(1)) + 1 = Passed(1)
       PROVE  l <= 1 /\ digits < Passed(l) + LevelSize(l)
  <2>1. Span(1) \in Nat \ {0} /\ Span(1) = LevelSize(0)
    <3>1. 0 \in 0 .. 2 /\ 0 + 1 = 1
      BY SMTT(20)
    <3>2. Span(1) = Span(0) * LevelSize(0) /\ 0 \in Levels /\ 1 \in Levels
      BY <3>1, SpanFacts
    <3> QED BY <3>2, SpanFacts, SMTT(20)
  <2>2. Passed(1) = Ceil(t, Span(1))
    <3>1. ~ 1 + 1 < todo
      BY <1>11, SMTT(20)
    <3> QED BY <3>1 DEF Passed
  <2>3. t - 1 \in Nat /\ (t - 1) % Span(1) = 0
    <3>1. todo > 0 /\ todo - 1 = 1
      BY <1>11, SMTT(20)
    <3> QED BY <1>1, <3>1 DEF ClockInv
  <2>4. Passed(1) = ((t - 1) \div Span(1)) + 1
    <3>1. t = (t - 1) + 1
      BY <1>1, SMTT(20)
    <3> QED BY <2>1, <2>2, <2>3, <3>1, CeilNext
  <2> DEFINE c == (t - 1) \div Span(1)
             f == due \div Span(1)
  <2>5. c \in Nat /\ f \in Nat /\ t - 1 = Span(1) * c + 0
    BY <1>1, <2>1, <2>3, DivDef
  <2>6. f = c
    BY <1>11, <2>4, <2>5, SMTT(20)
  <2>7. due < Span(1) * f + Span(1)
    <3>1. due % Span(1) \in 0 .. Span(1) - 1 /\ due = Span(1) * f + (due % Span(1))
      BY <1>1, <2>1, DivDef
    <3> HIDE DEF f
    <3> QED BY <2>1, <2>5, <3>1, SMTT(20)
  <2> HIDE DEF c, f
  <2>8. due < (t - 1) + Span(1)
    BY <1>1, <2>1, <2>5, <2>6, <2>7, SMTT(20)
  <2>9. d < Span(1)
    BY <1>1, <1>2, <2>1, <2>8, SMTT(20)
  <2>10. l = 0
    BY <1>3, <2>9, LevelOfFacts
  <2>11. due < Passed(0) + LevelSize(0)
    BY <1>1, <1>7, <1>11, <2>1, <2>8, SMTT(20)
  <2> QED BY <1>8, <2>10, <2>11, SMTT(20)
<1> QED BY <1>4, <1>5, <1>6, <1>9, <1>10, <1>11

\* The entries of the slot map.
LEMMA EntryFacts ==
  ASSUME WheelTypeOK
  PROVE  \A i \in DOMAIN slotmap :
           /\ i \in Nat \ {0}
           /\ slotmap[i].generation \in Nat
           /\ slotmap[i].active \in BOOLEAN
           /\ slotmap[i].deadline \in Nat
           /\ slotmap[i].wait \in Waits
           /\ IdAt(i) \in TimerIds
<1> DEFINE E == [generation : Nat, active : BOOLEAN, deadline : Nat, wait : Waits]
<1>1. slotmap \in Seq(E)
  BY DEF WheelTypeOK
<1> HIDE DEF E
<1>2. \A i \in DOMAIN slotmap : i \in Nat \ {0} /\ slotmap[i] \in E
  BY <1>1, SMTT(20)
<1> QED BY <1>2, SMTT(20) DEF E, IdAt, TimerIds

(***************************************************************************)
(* Taking out the current slot of level l, the c-th of its level, keeps    *)
(* every entry in time: those taken out are due in this lap or a later     *)
(* one, and those that stay in the level are due in a later slot.          *)
(***************************************************************************)
LEMMA TakeInTime ==
  ASSUME WheelTypeOK, EntriesInTime, slots[InHand] = <<>>,
         NEW l \in Levels, Take(l), UNCHANGED <<slotmap, asked>>,
         NEW c \in Nat, Passed(l) = c, Passed(l)' = c + 1,
         \A m \in Levels : Passed(m) \in Nat /\ (m # l => Passed(m)' = Passed(m)),
         Ticks(now)' = Span(l) * c + 1,
         current_slot[l] = c % LevelSize(l)
  PROVE  EntriesInTime'
<1> DEFINE here == <<l, current_slot[l]>>
<1>1. Span(l) \in Nat \ {0} /\ LevelSize(l) \in Nat \ {0} /\ l \in 0 .. 3
  BY SpanFacts
<1>2. current_slot[l] \in 0 .. LevelSize(l) - 1
  BY <1>1, DivDef
<1>3. here \in Places /\ here # InHand /\ here[1] = l /\ here[2] = current_slot[l]
  BY <1>2, PlaceFacts
<1>4. /\ slots'[InHand] = slots[here]
      /\ slots'[here] = <<>>
      /\ \A p \in Places : p # InHand /\ p # here => slots'[p] = slots[p]
      /\ todo' = l + 1
  BY <1>3, PlaceFacts DEF Take, WheelTypeOK
<1> HIDE DEF here
<1>5. ActiveIndices' = ActiveIndices /\ \A i : IdAt(i)' = IdAt(i)
  BY DEF ActiveIndices, IdAt
<1>6. ASSUME NEW i \in ActiveIndices, NEW p \in Places, Holds(p, i)'
      PROVE  InTime(p, i)'
  <2> DEFINE due == Ticks(slotmap[i].deadline)
             wt == slotmap[i].wait
  <2>1. IdAt(i) \in Range(slots'[p])
    BY <1>6, <1>5 DEF Holds
  <2>2. slotmap[i].deadline \in Nat /\ due \in Nat
    BY EntryFacts, TicksFacts DEF ActiveIndices
  <2>3. slotmap'[i] = slotmap[i] /\ Short(wt)' = Short(wt)
    BY DEF Short
  <2>4. CASE p = InHand
    <3> DEFINE digits == due \div Span(l)
    <3>1. InTime(here, i)
      BY <1>3, <1>4, <2>1, <2>4 DEF EntriesInTime, Holds
    <3>2. current_slot[l] = digits % LevelSize(l) /\ c <= digits
          /\ (Short(wt) => l <= 1 /\ digits < c + LevelSize(l))
      BY <1>3, <3>1 DEF InTime
    <3>3. digits \in Nat /\ Span(l) * digits <= due
      <4>1. digits \in Nat /\ due % Span(l) \in 0 .. Span(l) - 1
            /\ due = Span(l) * digits + (due % Span(l))
        BY <1>1, <2>2, DivDef
      <4> HIDE DEF digits
      <4> QED BY <1>1, <2>2, <4>1, SMTT(20)
    <3>4. Span(l) * c <= Span(l) * digits
      BY <1>1, <3>2, <3>3, TimesMono
    <3>5. Ticks(now)' <= due + 1
      <4> HIDE DEF digits, due
      <4> QED BY <1>1, <2>2, <3>3, <3>4, SMTT(20)
    <3>6. ASSUME Short(wt)
          PROVE  l <= 1 /\ digits = c
      <4>1. l <= 1 /\ digits < c + LevelSize(l)
        BY <3>2, <3>6
      <4>2. c < digits => c + LevelSize(l) <= digits
        BY <1>1, <3>2, <3>3, LapApart
      <4> HIDE DEF digits
      <4> QED BY <1>1, <3>2, <3>3, <4>1, <4>2, SMTT(20)
    <3>7. todo' - 1 = l /\ (l <= 1 => todo' <= 2)
      BY <1>1, <1>4, SMTT(20)
    <3> QED BY <2>3, <2>4, <3>5, <3>6, <3>7 DEF InTime
  <2>5. CASE p # InHand
    <3>1. p # here
      <4>1. Range(<<>>) = {}
        BY SMTT(20) DEF Range
      <4> QED BY <1>4, <2>1, <4>1
    <3>2. InTime(p, i)
      BY <1>4, <2>1, <2>5, <3>1 DEF EntriesInTime, Holds
    <3>3. p[1] \in Levels /\ p = <<p[1], p[2]>>
      BY <2>5, PlaceFacts
    <3> DEFINE digits == due \div Span(p[1])
    <3>4. p[2] = digits % LevelSize(p[1]) /\ Passed(p[1]) <= digits
          /\ (Short(wt) => p[1] <= 1 /\ digits < Passed(p[1]) + LevelSize(p[1]))
      BY <2>5, <3>2 DEF InTime
    <3>5. CASE p[1] # l
      <4>1. Passed(p[1])' = Passed(p[1])
        BY <3>3, <3>5
      <4> QED BY <2>3, <2>5, <3>4, <4>1 DEF InTime
    <3>6. CASE p[1] = l
      <4>1. digits # c
        BY <3>1, <3>3, <3>4, <3>6 DEF here
      <4>2. digits \in Nat
        BY <1>1, <2>2, <3>6, DivDef
      <4>3. c + 1 <= digits /\ (Short(wt) => digits < (c + 1) + LevelSize(l))
        <5> HIDE DEF digits
        <5> QED BY <1>1, <3>4, <3>6, <4>1, <4>2, SMTT(20)
      <4> QED BY <2>3, <2>5, <3>4, <3>6, <4>3 DEF InTime
    <3> QED BY <3>5, <3>6
  <2> QED BY <2>4, <2>5
<1> QED BY <1>6, <1>5 DEF EntriesInTime

(***************************************************************************)
(* Between ticks: the tick is a multiple of the span of level m + 1 when   *)
(* it is one of level m and that level is at slot 0.                       *)
(***************************************************************************)
LEMMA WrapFacts ==
  ASSUME WheelTypeOK, ClockInv, todo = 0, NEW m \in 0 .. 2
  PROVE  Ticks(now) % Span(m + 1) = 0 <=> Ticks(now) % Span(m) = 0 /\ current_slot[m] = 0
<1> DEFINE t == Ticks(now)
<1>1. t \in Nat
  BY PassedFacts
<1>2. m \in Levels /\ Span(m) \in Nat \ {0} /\ LevelSize(m) \in Nat \ {0}
      /\ Span(m + 1) = Span(m) * LevelSize(m)
  BY SpanFacts
<1>3. current_slot[m] = Ceil(t, Span(m)) % LevelSize(m)
  <2>1. m + 1 # todo /\ ~ m + 1 < todo
    BY SMTT(20)
  <2> QED BY <1>2, <2>1 DEF ClockInv, Passed
<1> HIDE DEF t
<1>4. t % Span(m) = 0 => Ceil(t, Span(m)) = t \div Span(m)
  BY <1>1, <1>2, CeilNext
<1>5. t % (Span(m) * LevelSize(m)) = 0
        <=> t % Span(m) = 0 /\ (t \div Span(m)) % LevelSize(m) = 0
  BY <1>1, <1>2, MultipleOfProduct
<1> QED BY <1>2, <1>3, <1>4, <1>5 DEF t

\* The level a tick begins with is the highest one that enters a new slot.
LEMMA TopLevel ==
  ASSUME WheelTypeOK, ClockInv, todo = 0, NEW l \in Levels,
         \A m \in 0 .. l - 1 : current_slot[m] = 0,
         l = kNumLevels - 1 \/ current_slot[l] # 0
  PROVE  /\ Ticks(now) % Span(l) = 0
         /\ \A m \in Levels : l < m => Ticks(now) % Span(m) # 0
<1> DEFINE z(m) == Ticks(now) % Span(m) = 0
<1>1. z(0)
  <2>1. Ticks(now) \in Nat
    BY PassedFacts
  <2>2. \A a \in Nat : a % 1 = 0
    BY SMTT(20)
  <2> QED BY <2>1, <2>2, SpanFacts
<1>2. /\ z(1) <=> z(0) /\ current_slot[0] = 0
      /\ z(2) <=> z(1) /\ current_slot[1] = 0
      /\ z(3) <=> z(2) /\ current_slot[2] = 0
  <2>1. 0 \in 0 .. 2 /\ 1 \in 0 .. 2 /\ 2 \in 0 .. 2 /\ 0 + 1 = 1 /\ 1 + 1 = 2 /\ 2 + 1 = 3
    BY SMTT(20)
  <2> QED BY <2>1, WrapFacts
<1> HIDE DEF z
<1>3. l \in 0 .. 3 /\ Levels = 0 .. 3 /\ (l = 3 \/ current_slot[l] # 0)
  <2>1. kNumLevels - 1 = 3
    BY SMTT(20) DEF kNumLevels
  <2> QED BY <2>1, SpanFacts
<1>4. z(l) /\ \A m \in Levels : l < m => ~ z(m)
  <2>1. CASE l = 0
    BY <1>1, <1>2, <1>3, <2>1, SMTT(20)
  <2>2. CASE l = 1
    BY <1>1, <1>2, <1>3, <2>2, SMTT(20)
  <2>3. CASE l = 2
    BY <1>1, <1>2, <1>3, <2>3, SMTT(20)
  <2>4. CASE l = 3
    BY <1>1, <1>2, <1>3, <2>4, SMTT(20)
  <2> QED BY <1>3, <2>1, <2>2, <2>3, <2>4, SMTT(20)
<1> QED BY <1>4 DEF z

\* A tick begins: the clock and the entries stay in step.
LEMMA TickInTime ==
  ASSUME WheelTypeOK, ClockInv, EntriesInTime, todo = 0, Tick
  PROVE  ClockInv' /\ EntriesInTime'
<1>1. PICK l \in Levels :
        /\ \A m \in 0 .. l - 1 : current_slot[m] = 0
        /\ l = kNumLevels - 1 \/ current_slot[l] # 0
        /\ Take(l)
  BY DEF Tick
<1> DEFINE t == Ticks(now)
<1>2. t \in Nat /\ now = Units * t
  BY PassedFacts DEF ClockInv
<1>3. Ticks(now)' = t + 1 /\ now' = Units * (t + 1)
  <2>1. now' = Units * (t + 1)
    BY <1>2, TicksFacts DEF Tick
  <2>2. Ticks(Units * (t + 1)) = t + 1
    BY <1>2, TicksFacts, SMTT(20)
  <2>3. Ticks(now)' = now' \div Units
    BY DEF Ticks
  <2> QED BY <2>1, <2>2, <2>3 DEF Ticks
<1>4. t % Span(l) = 0 /\ \A m \in Levels : l < m => t % Span(m) # 0
  BY <1>1, TopLevel
<1>5. \A m \in Levels : Span(m) \in Nat \ {0} /\ LevelSize(m) \in Nat \ {0} /\ m \in 0 .. 3
  BY SpanFacts
<1>6. todo' = l + 1
  BY <1>1 DEF Take
<1> HIDE DEF t
<1>7. \A m \in Levels : Passed(m) = Ceil(t, Span(m)) /\ Passed(m) \in Nat
  <2>1. \A m \in Levels : ~ m + 1 < todo
    BY <1>5, SMTT(20)
  <2> QED BY <1>2, <1>5, <2>1, CeilDef DEF Passed, t
<1>8. \A m \in Levels : Passed(m)' = Ceil(IF m < l THEN t ELSE t + 1, Span(m))
  <2>1. \A m \in Levels : m + 1 < l + 1 <=> m < l
    BY <1>5, SMTT(20)
  <2>2. (t + 1) - 1 = t
    BY <1>2, SMTT(20)
  <2> QED BY <1>3, <1>6, <2>1, <2>2 DEF Passed
<1>9. Passed(l) = t \div Span(l) /\ Passed(l)' = Passed(l) + 1
  <2>1. ~ l < l
    BY <1>5, SMTT(20)
  <2>2. Passed(l)' = Ceil(t + 1, Span(l))
    BY <1>8, <2>1
  <2>3. Ceil(t, Span(l)) = t \div Span(l) /\ Ceil(t + 1, Span(l)) = (t \div Span(l)) + 1
    BY <1>2, <1>4, <1>5, CeilNext
  <2> QED BY <1>7, <2>2, <2>3
<1>10. ASSUME NEW m \in Levels, m # l
       PROVE  Passed(m)' = Passed(m)
  <2>1. CASE m < l
    BY <1>7, <1>8, <2>1
  <2>2. CASE ~ m < l
    <3>1. l < m
      BY <1>5, <1>10, <2>2, SMTT(20)
    <3>2. t % Span(m) # 0
      BY <1>4, <3>1
    <3> QED BY <1>2, <1>5, <1>7, <1>8, <2>2, <3>2, CeilNext
  <2> QED BY <2>1, <2>2
<1>11. \A m \in Levels : current_slot[m] = Passed(m) % LevelSize(m)
  <2>1. \A m \in Levels : m + 1 # todo
    BY <1>5, SMTT(20)
  <2> QED BY <2>1 DEF ClockInv
<1>12. Ticks(now)' = Span(l) * Passed(l) + 1
  <2>1. t = Span(l) * (t \div Span(l)) + 0
    BY <1>2, <1>4, <1>5, DivDef
  <2>2. Span(l) * Passed(l) + 0 = Span(l) * Passed(l)
    BY <1>5, <1>7, SMTT(20)
  <2> QED BY <1>3, <1>9, <2>1, <2>2
<1>13. EntriesInTime'
  <2>1. UNCHANGED <<slotmap, asked>>
    BY DEF Tick, tableVars, timedVars
  <2>2. slots[InHand] = <<>>
    BY DEF ClockInv
  <2> QED BY <1>1, <1>7, <1>9, <1>10, <1>11, <1>12, <2>1, <2>2, TakeInTime
<1>14. ClockInv'
  <2>1. now' = Units * Ticks(now)'
    BY <1>3
  <2>2. Ticks(now)' > 0 /\ (Ticks(now)' - 1) % Span(todo' - 1) = 0
    <3>1. (t + 1) - 1 = t /\ (l + 1) - 1 = l /\ t + 1 > 0
      BY <1>2, <1>5, SMTT(20)
    <3> QED BY <1>3, <1>4, <1>6, <3>1
  <2>3. ASSUME NEW m \in Levels
        PROVE  current_slot'[m]
                 = (IF m + 1 = todo' THEN Passed(m)' - 1 ELSE Passed(m)') % LevelSize(m)
    <3>1. m + 1 = todo' <=> m = l
      BY <1>5, <1>6, SMTT(20)
    <3>2. (Passed(l) + 1) - 1 = Passed(l)
      BY <1>7, SMTT(20)
    <3>3. current_slot' = current_slot
      BY DEF Tick
    <3> QED BY <1>9, <1>10, <1>11, <3>1, <3>2, <3>3
  <2>4. todo' # 0
    BY <1>5, <1>6, SMTT(20)
  <2> QED BY <2>1, <2>2, <2>3, <2>4 DEF ClockInv
<1> QED BY <1>13, <1>14

\* The level in hand is left for the one below.
LEMMA CascadeEndInTime ==
  ASSUME WheelTypeOK, ClockInv, EntriesInTime, CascadeEnd
  PROVE  ClockInv' /\ EntriesInTime'
<1> DEFINE t == Ticks(now)
<1>1. PICK l \in 0 .. 2 : todo = l + 2
  BY SMTT(20) DEF CascadeEnd, WheelTypeOK, kNumLevels
<1>2. l \in 0 .. 2 /\ l \in Levels /\ l + 1 \in Levels /\ todo = l + 2 /\ todo - 1 = l + 1
      /\ todo - 2 = l /\ todo > 0
  BY <1>1, SpanFacts, SMTT(20)
<1>3. t \in Nat /\ t - 1 \in Nat /\ (t - 1) + 1 = t /\ (t - 1) % Span(l + 1) = 0 /\ t > 0
  BY <1>2, PassedFacts, SMTT(20) DEF ClockInv
<1>4. /\ \A m \in Levels : Span(m) \in Nat \ {0} /\ LevelSize(m) \in Nat \ {0} /\ m \in 0 .. 3
      /\ Span(l + 1) = Span(l) * LevelSize(l)
  BY <1>2, SpanFacts
<1>5. (t - 1) % Span(l) = 0
  <2>1. (t - 1) % (Span(l) * LevelSize(l)) = 0
    BY <1>3, <1>4
  <2>2. Span(l) \in Nat \ {0} /\ LevelSize(l) \in Nat \ {0} /\ t - 1 \in Nat
    BY <1>2, <1>3, <1>4
  <2> QED BY <2>1, <2>2, MultipleOfProduct
<1>6. Take(l) /\ todo' = l + 1 /\ now' = now /\ Ticks(now)' = t
  BY <1>2 DEF CascadeEnd, Take, Ticks
<1> HIDE DEF t
<1>7. /\ \A m \in Levels : Passed(m) = Ceil(IF m < l + 1 THEN t - 1 ELSE t, Span(m))
      /\ \A m \in Levels : Passed(m)' = Ceil(IF m < l THEN t - 1 ELSE t, Span(m))
  <2>1. \A m \in Levels : (m + 1 < l + 2 <=> m < l + 1) /\ (m + 1 < l + 1 <=> m < l)
    BY <1>2, <1>4, SMTT(20)
  <2> QED BY <1>2, <1>6, <2>1 DEF Passed, t
<1>8. \A m \in Levels : Passed(m) \in Nat
  BY PassedFacts
<1>9. Passed(l) = (t - 1) \div Span(l) /\ Passed(l)' = Passed(l) + 1
  <2>1. l < l + 1 /\ ~ l < l
    BY <1>2, SMTT(20)
  <2>2. Passed(l) = Ceil(t - 1, Span(l)) /\ Passed(l)' = Ceil((t - 1) + 1, Span(l))
    BY <1>2, <1>3, <1>7, <2>1
  <2>3. Ceil(t - 1, Span(l)) = (t - 1) \div Span(l)
        /\ Ceil((t - 1) + 1, Span(l)) = ((t - 1) \div Span(l)) + 1
    BY <1>2, <1>3, <1>4, <1>5, CeilNext
  <2> QED BY <2>2, <2>3
<1>10. \A m \in Levels : m # l => Passed(m)' = Passed(m)
  <2>1. \A m \in Levels : m # l => (m < l + 1 <=> m < l)
    BY <1>2, <1>4, SMTT(20)
  <2> QED BY <1>7, <2>1
<1>11. current_slot[l] = Passed(l) % LevelSize(l)
  <2>1. l + 1 # todo
    BY <1>2, SMTT(20)
  <2> QED BY <1>2, <2>1 DEF ClockInv
<1>12. Ticks(now)' = Span(l) * Passed(l) + 1
  <2>1. t - 1 = Span(l) * ((t - 1) \div Span(l)) + 0
    BY <1>2, <1>3, <1>4, <1>5, DivDef
  <2>2. Span(l) * Passed(l) + 0 = Span(l) * Passed(l)
    BY <1>2, <1>4, <1>8, SMTT(20)
  <2> QED BY <1>3, <1>6, <1>9, <2>1, <2>2
<1>13. EntriesInTime'
  <2>1. UNCHANGED <<slotmap, asked>> /\ slots[InHand] = <<>>
    BY DEF CascadeEnd, tableVars, timedVars
  <2> QED BY <1>2, <1>6, <1>8, <1>9, <1>10, <1>11, <1>12, <2>1, TakeInTime
<1>14. ClockInv'
  <2>1. now' = Units * Ticks(now)' /\ Ticks(now)' > 0
    BY <1>3, <1>6 DEF ClockInv, t
  <2>2. (Ticks(now)' - 1) % Span(todo' - 1) = 0
    <3>1. (l + 1) - 1 = l
      BY <1>2, SMTT(20)
    <3> QED BY <1>5, <1>6, <3>1
  <2>3. ASSUME NEW m \in Levels
        PROVE  current_slot'[m]
                 = (IF m + 1 = todo' THEN Passed(m)' - 1 ELSE Passed(m)') % LevelSize(m)
    <3>1. current_slot' = [current_slot EXCEPT ![l + 1] = (@ + 1) % LevelSize(l + 1)]
      BY <1>2 DEF CascadeEnd, Advance
    <3>2. DOMAIN current_slot = Levels
      BY DEF WheelTypeOK
    <3>3. CASE m = l + 1
      <4>1. current_slot'[m] = (current_slot[m] + 1) % LevelSize(m)
        BY <1>2, <3>1, <3>2, <3>3
      <4>2. current_slot[m] = (Passed(m) - 1) % LevelSize(m)
        <5>1. m + 1 = todo
          BY <1>2, <3>3, SMTT(20)
        <5> QED BY <5>1 DEF ClockInv
      <4>3. Passed(m) - 1 \in Nat /\ (Passed(m) - 1) + 1 = Passed(m)
        <5>1. Passed(m) = Ceil(t, Span(m))
          <6>1. ~ m < l + 1
            BY <1>2, <3>3, SMTT(20)
          <6> QED BY <1>7, <6>1
        <5>2. Passed(m) \in Nat /\ Span(m) \in Nat \ {0} /\ t <= Span(m) * Passed(m)
          BY <1>3, <1>4, <5>1, CeilDef
        <5>3. Passed(m) # 0
          BY <1>3, <5>2, SMTT(20)
        <5> QED BY <5>2, <5>3, SMTT(20)
      <4>4. current_slot'[m] = Passed(m) % LevelSize(m)
        BY <1>4, <4>1, <4>2, <4>3, ModNext
      <4>5. m + 1 # todo' /\ m # l
        BY <1>2, <1>6, <3>3, SMTT(20)
      <4> QED BY <1>10, <4>4, <4>5
    <3>4. CASE m = l
      <4>1. current_slot'[m] = current_slot[m]
        <5>1. l # l + 1
          BY <1>2, SMTT(20)
        <5> QED BY <1>2, <3>1, <3>2, <3>4, <5>1
      <4>2. (Passed(l) + 1) - 1 = Passed(l)
        BY <1>2, <1>8, SMTT(20)
      <4> QED BY <1>6, <1>9, <1>11, <3>4, <4>1, <4>2
    <3>5. CASE m # l /\ m # l + 1
      <4>1. current_slot'[m] = current_slot[m]
        BY <3>1, <3>2, <3>5
      <4>2. m + 1 # todo /\ m + 1 # todo'
        BY <1>2, <1>4, <1>6, <3>5, SMTT(20)
      <4> QED BY <1>10, <3>5, <4>1, <4>2 DEF ClockInv
    <3> QED BY <3>3, <3>4, <3>5
  <2>4. todo' # 0
    BY <1>2, <1>6, SMTT(20)
  <2> QED BY <2>1, <2>2, <2>3, <2>4 DEF ClockInv
<1> QED BY <1>13, <1>14

\* The tick ends: level 0 is left too.
LEMMA TickEndInTime ==
  ASSUME WheelTypeOK, ClockInv, EntriesInTime, TickEnd
  PROVE  ClockInv' /\ EntriesInTime'
<1>1. /\ todo = 1
      /\ todo' = 0
      /\ slots[InHand] = <<>>
      /\ current_slot' = [current_slot EXCEPT ![0] = (@ + 1) % LevelSize(0)]
      /\ UNCHANGED <<now, slots, slotmap, asked>>
      /\ Ticks(now)' = Ticks(now)
  BY DEF TickEnd, Advance, tableVars, timedVars, Ticks
<1>2. \A m \in Levels : Span(m) \in Nat \ {0} /\ LevelSize(m) \in Nat \ {0} /\ m \in 0 .. 3
  BY SpanFacts
<1>3. \A m \in Levels : Passed(m) = Ceil(Ticks(now), Span(m)) /\ Passed(m)' = Passed(m)
  <2>1. \A m \in Levels : ~ m + 1 < 1 /\ ~ m + 1 < 0
    BY <1>2, SMTT(20)
  <2> QED BY <1>1, <2>1 DEF Passed
<1>4. ClockInv'
  <2>1. ASSUME NEW m \in Levels
        PROVE  current_slot'[m] = Passed(m) % LevelSize(m)
    <3>1. DOMAIN current_slot = Levels
      BY DEF WheelTypeOK
    <3>2. CASE m = 0
      <4>1. current_slot'[m] = (current_slot[m] + 1) % LevelSize(m)
        BY <1>1, <3>1, <3>2
      <4>2. current_slot[m] = (Passed(m) - 1) % LevelSize(m)
        <5>1. m + 1 = todo
          BY <1>1, <3>2, SMTT(20)
        <5> QED BY <5>1 DEF ClockInv
      <4>3. Passed(m) - 1 \in Nat /\ (Passed(m) - 1) + 1 = Passed(m)
        <5>1. Ticks(now) \in Nat /\ Ticks(now) > 0
          BY <1>1, PassedFacts, SMTT(20) DEF ClockInv
        <5>2. Passed(m) \in Nat /\ Span(m) \in Nat \ {0} /\ Ticks(now) <= Span(m) * Passed(m)
          BY <1>2, <1>3, <5>1, CeilDef
        <5>3. Passed(m) # 0
          BY <5>1, <5>2, SMTT(20)
        <5> QED BY <5>2, <5>3, SMTT(20)
      <4> QED BY <1>2, <4>1, <4>2, <4>3, ModNext
    <3>3. CASE m # 0
      <4>1. m + 1 # todo
        BY <1>1, <1>2, <3>3, SMTT(20)
      <4> QED BY <1>1, <3>1, <3>3, <4>1 DEF ClockInv
    <3> QED BY <3>2, <3>3
  <2>2. \A m \in Levels : m + 1 # todo'
    BY <1>1, <1>2, SMTT(20)
  <2>3. ~ todo' > 0
    BY <1>1, SMTT(20)
  <2> QED BY <1>1, <1>3, <2>1, <2>2, <2>3 DEF ClockInv
<1>5. EntriesInTime'
  <2>1. ActiveIndices' = ActiveIndices /\ \A i : IdAt(i)' = IdAt(i) /\ slotmap'[i] = slotmap[i]
    BY <1>1 DEF ActiveIndices, IdAt
  <2>2. ASSUME NEW i \in ActiveIndices, NEW p \in Places, Holds(p, i)'
        PROVE  InTime(p, i)'
    <3>1. Holds(p, i)
      BY <1>1, <2>1, <2>2 DEF Holds
    <3>2. p # InHand
      <4>1. Range(<<>>) = {}
        BY SMTT(20) DEF Range
      <4> QED BY <1>1, <3>1, <4>1 DEF Holds
    <3>3. p[1] \in Levels /\ InTime(p, i)
      BY <3>1, <3>2, PlaceFacts DEF EntriesInTime
    <3>4. Short(slotmap[i].wait)' = Short(slotmap[i].wait)
      BY <1>1 DEF Short
    <3> QED BY <1>3, <2>1, <3>2, <3>3, <3>4 DEF InTime
  <2> QED BY <2>1, <2>2 DEF EntriesInTime
<1> QED BY <1>4, <1>5

\* The active entries are finitely many.
LEMMA ActiveFinite ==
  ASSUME WheelTypeOK
  PROVE  IsFiniteSet(ActiveIndices)
<1>1. DOMAIN slotmap = 1 .. Len(slotmap) /\ Len(slotmap) \in Nat
  BY SMTT(20) DEF WheelTypeOK
<1>2. IsFiniteSet(DOMAIN slotmap)
  BY <1>1, FS_Interval, SMTT(20)
<1> QED BY <1>2, FS_Subset DEF ActiveIndices

\* Appending to a sequence.
LEMMA AppendIs ==
  ASSUME NEW S, NEW q \in Seq(S), NEW x \in S
  PROVE  /\ Append(q, x) \in Seq(S)
         /\ DOMAIN q = 1 .. Len(q) /\ Len(q) \in Nat
         /\ DOMAIN Append(q, x) = 1 .. Len(q) + 1
         /\ \A j \in 1 .. Len(q) : Append(q, x)[j] = q[j] /\ q[j] \in S
         /\ Append(q, x)[Len(q) + 1] = x
  BY SMTT(20)

\* Without its first element a sequence keeps the others.
LEMMA TailIs ==
  ASSUME NEW S, NEW q \in Seq(S), q # <<>>
  PROVE  /\ Tail(q) \in Seq(S) /\ Head(q) \in S
         /\ DOMAIN q = 1 .. Len(q) /\ Len(q) \in Nat \ {0} /\ Head(q) = q[1]
         /\ DOMAIN Tail(q) = 1 .. Len(q) - 1
         /\ \A j \in 1 .. Len(q) - 1 : Tail(q)[j] = q[j + 1]
  BY SMTT(20)

\* Without its last element a sequence keeps the others.
LEMMA FrontIs ==
  ASSUME NEW S, NEW q \in Seq(S), q # <<>>
  PROVE  LET front == SubSeq(q, 1, Len(q) - 1)
         IN /\ front \in Seq(S)
            /\ DOMAIN q = 1 .. Len(q) /\ Len(q) \in Nat \ {0}
            /\ DOMAIN front = 1 .. Len(q) - 1
            /\ \A j \in 1 .. Len(q) - 1 : front[j] = q[j]
  BY SMTT(20)

(***************************************************************************)
(* cancel() and release(): the id is no longer live, nothing else of the   *)
(* entries changes, and the free list stays exact.                         *)
(***************************************************************************)
LEMMA ReleaseFacts ==
  ASSUME WheelTypeOK, FreeList, NEW id \in TimerIds, Release(id)
  PROVE  /\ slotmap' \in Seq([generation : Nat, active : BOOLEAN, deadline : Nat, wait : Waits])
         /\ free_indices' \in Seq(Nat) /\ active_count' \in Nat
         /\ DOMAIN slotmap' = DOMAIN slotmap
         /\ \A i \in DOMAIN slotmap : /\ slotmap'[i].generation = slotmap[i].generation
                                      /\ slotmap'[i].deadline = slotmap[i].deadline
                                      /\ slotmap'[i].wait = slotmap[i].wait
                                      /\ IdAt(i)' = IdAt(i)
         /\ \A x \in TimerIds : Live(slotmap', x) <=> Live(slotmap, x) /\ x # id
         /\ ActiveIndices' = {i \in ActiveIndices : IdAt(i) # id}
         /\ FreeList'
<1> DEFINE E == [generation : Nat, active : BOOLEAN, deadline : Nat, wait : Waits]
           k == id[1]
<1>1. slotmap \in Seq(E) /\ free_indices \in Seq(Nat) /\ active_count \in Nat
  BY DEF WheelTypeOK
<1>2. id = <<id[1], id[2]>>
  BY SMTT(20) DEF TimerIds
<1>3. CASE ~ Live(slotmap, id)
  <2>1. UNCHANGED tableVars
    BY <1>3 DEF Release
  <2>2. slotmap' = slotmap /\ free_indices' = free_indices /\ active_count' = active_count
    BY <2>1 DEF tableVars
  <2>3. \A i : IdAt(i)' = IdAt(i)
    BY <2>2 DEF IdAt
  <2>4. ActiveIndices' = ActiveIndices
    BY <2>2 DEF ActiveIndices
  <2>5. \A i \in ActiveIndices : IdAt(i) # id
    <3>1. \A i \in ActiveIndices : Live(slotmap, IdAt(i))
      BY SMTT(20) DEF ActiveIndices, IdAt, Live
    <3> QED BY <1>3, <3>1
  <2>6. FreeList'
    BY <2>2, <2>4 DEF FreeList
  <2> QED BY <1>1, <1>3, <2>2, <2>3, <2>4, <2>5, <2>6
<1>4. CASE Live(slotmap, id)
  <2>1. /\ k \in DOMAIN slotmap /\ slotmap[k].active /\ slotmap[k].generation = id[2]
        /\ IdAt(k) = id /\ k \in ActiveIndices
    BY <1>2, <1>4 DEF Live, IdAt, ActiveIndices
  <2>2. /\ slotmap' = [slotmap EXCEPT ![k].active = FALSE]
        /\ free_indices' = Append(free_indices, k)
        /\ active_count' = active_count - 1
    BY <1>4 DEF Release
  <2>3. slotmap[k] \in E /\ k \in Nat
    <3> HIDE DEF E
    <3> QED BY <1>1, <2>1, SMTT(20)
  <2>4. [slotmap[k] EXCEPT !.active = FALSE] \in E
    <3>1. ASSUME NEW e \in E
          PROVE  [e EXCEPT !.active = FALSE] \in E
      OBVIOUS
    <3> QED BY <2>3, <3>1
  <2>5. /\ DOMAIN slotmap' = DOMAIN slotmap
        /\ slotmap'[k] = [slotmap[k] EXCEPT !.active = FALSE]
        /\ \A i \in DOMAIN slotmap : i # k => slotmap'[i] = slotmap[i]
    BY <2>1, <2>2
  <2>6. slotmap' \in Seq(E)
    <3> HIDE DEF E
    <3>1. slotmap' = [slotmap EXCEPT ![k] = [slotmap[k] EXCEPT !.active = FALSE]]
      BY <2>2
    <3> QED BY <1>1, <2>1, <2>4, <3>1, SMTT(20)
  <2>7. /\ slotmap'[k].active = FALSE
        /\ slotmap'[k].generation = slotmap[k].generation
        /\ slotmap'[k].deadline = slotmap[k].deadline
        /\ slotmap'[k].wait = slotmap[k].wait
    BY <2>3, <2>5, SMTT(20)
  <2>8. \A i \in DOMAIN slotmap : /\ slotmap'[i].generation = slotmap[i].generation
                                  /\ slotmap'[i].deadline = slotmap[i].deadline
                                  /\ slotmap'[i].wait = slotmap[i].wait
                                  /\ IdAt(i)' = IdAt(i)
    BY <2>5, <2>7 DEF IdAt
  <2>9. \A x \in TimerIds : Live(slotmap', x) <=> Live(slotmap, x) /\ x # id
    <3>1. ASSUME NEW x \in TimerIds
          PROVE  Live(slotmap', x) <=> Live(slotmap, x) /\ x # id
      <4>1. x = <<x[1], x[2]>>
        BY SMTT(20) DEF TimerIds
      <4>2. CASE x[1] # k
        BY <2>5, <4>2 DEF Live
      <4>3. CASE x[1] = k
        <5>1. ~ Live(slotmap', x)
          BY <2>7, <4>3 DEF Live
        <5>2. Live(slotmap, x) => x = id
          BY <1>2, <2>1, <4>1, <4>3 DEF Live
        <5> QED BY <5>1, <5>2
      <4> QED BY <4>2, <4>3
    <3> QED BY <3>1
  <2>10. ActiveIndices' = ActiveIndices \ {k}
    <3>1. \A i \in DOMAIN slotmap : slotmap'[i].active <=> slotmap[i].active /\ i # k
      BY <2>5, <2>7
    <3> QED BY <2>5, <3>1 DEF ActiveIndices
  <2>11. ActiveIndices' = {i \in ActiveIndices : IdAt(i) # id}
    <3>1. \A i \in ActiveIndices : IdAt(i) # id <=> i # k
      BY <2>1, SMTT(20) DEF IdAt
    <3> QED BY <2>10, <3>1
  <2>12. FreeList'
    <3>1. k \notin Range(free_indices)
      BY <2>1 DEF FreeList
    <3>2. \A j \in DOMAIN free_indices : free_indices[j] # k
      BY <3>1 DEF Range
    <3>3. /\ DOMAIN free_indices = 1 .. Len(free_indices) /\ Len(free_indices) \in Nat
          /\ DOMAIN free_indices' = 1 .. Len(free_indices) + 1
          /\ \A j \in 1 .. Len(free_indices) : free_indices'[j] = free_indices[j]
          /\ free_indices'[Len(free_indices) + 1] = k
      <4> HIDE DEF k
      <4> QED BY <1>1, <2>2, <2>3, AppendIs, SMTT(20)
    <3>4. IsInjective(free_indices')
      BY <3>2, <3>3, SMTT(20) DEF FreeList, IsInjective
    <3>5. Range(free_indices') = Range(free_indices) \cup {k}
      BY <3>3, SMTT(20) DEF Range
    <3>6. Range(free_indices') = DOMAIN slotmap' \ ActiveIndices'
      BY <2>1, <2>5, <2>10, <3>5 DEF FreeList
    <3>7. active_count' = Cardinality(ActiveIndices')
      BY <2>1, <2>2, <2>10, ActiveFinite, FS_RemoveElement DEF FreeList
    <3> QED BY <3>4, <3>6, <3>7 DEF FreeList
  <2>13. free_indices' \in Seq(Nat) /\ active_count' \in Nat
    <3>1. free_indices' \in Seq(Nat)
      BY <1>1, <2>2, <2>3, AppendIs
    <3>2. IsFiniteSet(ActiveIndices')
      BY <2>10, ActiveFinite, FS_Subset
    <3> QED BY <2>12, <3>1, <3>2, FS_CardinalityType DEF FreeList
  <2> QED BY <2>5, <2>6, <2>8, <2>9, <2>11, <2>12, <2>13
<1> QED BY <1>3, <1>4

(***************************************************************************)
(* schedule_at(): the index was not in use, its generation is a new one,   *)
(* no other entry changes, and the free list stays exact.                  *)
(***************************************************************************)
LEMMA ScheduleFacts ==
  ASSUME WheelTypeOK, FreeList, NEW w \in Waits, NEW d \in Delays, Schedule(w, d)
  PROVE  \E k \in Nat \ {0}, g \in Nat :
           /\ k \notin ActiveIndices
           /\ DOMAIN slotmap' = DOMAIN slotmap \cup {k}
           /\ slotmap'[k] = [generation |-> g, active |-> TRUE, deadline |-> now + d, wait |-> w]
           /\ \A i \in DOMAIN slotmap : i # k => slotmap'[i] = slotmap[i]
           /\ k \in DOMAIN slotmap => slotmap[k].generation < g
           /\ slots' = Place(slots, <<k, g>>, now + d)
           /\ timer_id' = [timer_id EXCEPT ![w] = <<k, g>>]
           /\ slotmap' \in Seq([generation : Nat, active : BOOLEAN, deadline : Nat, wait : Waits])
           /\ free_indices' \in Seq(Nat) /\ active_count' \in Nat
           /\ FreeList'
<1> DEFINE E == [generation : Nat, active : BOOLEAN, deadline : Nat, wait : Waits]
           entry(g) == [generation |-> g, active |-> TRUE, deadline |-> now + d, wait |-> w]
           n == Len(free_indices)
<1>1. slotmap \in Seq(E) /\ free_indices \in Seq(Nat) /\ active_count \in Nat /\ now \in Nat
  BY DEF WheelTypeOK
<1>2. d \in Nat /\ now + d \in Nat
  BY <1>1, DelaysAssumption, SMTT(20)
<1>3. \A g \in Nat : entry(g) \in E
  BY <1>2, SMTT(20)
<1>4. DOMAIN slotmap = 1 .. Len(slotmap) /\ Len(slotmap) \in Nat
  BY <1>1, SMTT(20)
<1>5. active_count' = active_count + 1
  BY DEF Schedule
<1>6. ASSUME NEW k \in Nat \ {0}, k \notin ActiveIndices,
             ActiveIndices' = ActiveIndices \cup {k},
             IsInjective(free_indices'),
             Range(free_indices') = DOMAIN slotmap' \ ActiveIndices'
      PROVE  FreeList' /\ active_count' \in Nat
  <2>1. Cardinality(ActiveIndices') = Cardinality(ActiveIndices) + 1
    BY <1>6, ActiveFinite, FS_AddElement
  <2>2. active_count' = Cardinality(ActiveIndices')
    BY <1>5, <2>1 DEF FreeList
  <2>3. active_count' \in Nat
    BY <1>1, <1>5, SMTT(20)
  <2> QED BY <1>6, <2>2, <2>3 DEF FreeList
<1>7. ASSUME NEW k \in Nat \ {0}, NEW g \in Nat,
             DOMAIN slotmap' = DOMAIN slotmap \cup {k},
             slotmap'[k] = entry(g),
             \A i \in DOMAIN slotmap : i # k => slotmap'[i] = slotmap[i]
      PROVE  ActiveIndices' = ActiveIndices \cup {k}
  <2>1. slotmap'[k].active = TRUE
    BY <1>7, SMTT(20)
  <2> QED BY <1>7, <2>1 DEF ActiveIndices
<1>8. CASE free_indices = <<>>
  <2> DEFINE k == Len(slotmap) + 1
  <2>1. /\ free_indices' = free_indices
        /\ slotmap' = Append(slotmap, entry(1))
        /\ slots' = Place(slots, <<k, 1>>, now + d)
        /\ timer_id' = [timer_id EXCEPT ![w] = <<k, 1>>]
    BY <1>8 DEF Schedule
  <2>2. k \in Nat \ {0} /\ k \notin DOMAIN slotmap /\ 1 \in Nat
    BY <1>4, SMTT(20)
  <2>3. k \notin ActiveIndices
    BY <2>2 DEF ActiveIndices
  <2>4. slotmap' \in Seq(E) /\ DOMAIN slotmap' = DOMAIN slotmap \cup {k}
        /\ slotmap'[k] = entry(1)
        /\ \A i \in DOMAIN slotmap : i # k => slotmap'[i] = slotmap[i]
    <3>1. entry(1) \in E
      BY <1>3, <2>2
    <3> HIDE DEF E, entry
    <3> QED BY <1>1, <1>4, <2>1, <3>1, AppendIs, SMTT(20)
  <2>5. ActiveIndices' = ActiveIndices \cup {k}
    <3> HIDE DEF k, entry
    <3> QED BY <1>7, <2>2, <2>4
  <2>6. Range(free_indices') = DOMAIN slotmap' \ ActiveIndices' /\ IsInjective(free_indices')
    BY <2>1, <2>2, <2>3, <2>4, <2>5 DEF FreeList
  <2>7. FreeList' /\ active_count' \in Nat
    BY <1>6, <2>2, <2>3, <2>5, <2>6
  <2> HIDE DEF k
  <2> QED BY <1>1, <2>1, <2>2, <2>3, <2>4, <2>7
<1>9. CASE free_indices # <<>>
  <2> DEFINE k == free_indices[n]
             g == slotmap[k].generation + 1
             front == SubSeq(free_indices, 1, n - 1)
  <2>1. /\ free_indices' = front
        /\ slotmap' = [slotmap EXCEPT ![k] = entry(g)]
        /\ slots' = Place(slots, <<k, g>>, now + d)
        /\ timer_id' = [timer_id EXCEPT ![w] = <<k, g>>]
    BY <1>9 DEF Schedule, NextGeneration
  <2>2. /\ front \in Seq(Nat)
        /\ DOMAIN free_indices = 1 .. n /\ n \in Nat \ {0}
        /\ DOMAIN front = 1 .. n - 1
        /\ \A j \in 1 .. n - 1 : front[j] = free_indices[j]
    BY <1>1, <1>9, FrontIs
  <2>3. n \in DOMAIN free_indices
    BY <2>2, SMTT(20)
  <2>4. k \in DOMAIN slotmap /\ k \notin ActiveIndices
    BY <2>3 DEF FreeList, Range
  <2>5. slotmap[k].generation \in Nat /\ k \in Nat \ {0}
    BY <2>4, EntryFacts
  <2> HIDE DEF k, front, n
  <2>6. g \in Nat /\ slotmap[k].generation < g
    BY <2>5, SMTT(20)
  <2> HIDE DEF g
  <2>7. /\ DOMAIN slotmap' = DOMAIN slotmap \cup {k}
        /\ slotmap'[k] = entry(g)
        /\ \A i \in DOMAIN slotmap : i # k => slotmap'[i] = slotmap[i]
    BY <2>1, <2>4
  <2>8. slotmap' \in Seq(E)
    <3>1. entry(g) \in E
      BY <1>3, <2>6
    <3> HIDE DEF E, entry
    <3> QED BY <1>1, <2>1, <2>4, <3>1, SMTT(20)
  <2>9. ActiveIndices' = ActiveIndices \cup {k}
    <3> HIDE DEF entry
    <3> QED BY <1>7, <2>5, <2>6, <2>7
  <2>10. IsInjective(front)
    BY <2>2, SMTT(20) DEF FreeList, IsInjective
  <2>11. Range(front) = Range(free_indices) \ {k}
    <3>1. \A j \in DOMAIN free_indices : free_indices[j] = k => j = n
      BY <2>3 DEF FreeList, IsInjective, k
    <3>2. \A j \in DOMAIN free_indices : j # n => j \in DOMAIN front
      BY <2>2, SMTT(20)
    <3>3. \A j \in DOMAIN front : j \in DOMAIN free_indices /\ j # n /\ front[j] = free_indices[j]
      BY <2>2, SMTT(20)
    <3>4. \A x \in Range(front) : x \in Range(free_indices) \ {k}
      BY <3>1, <3>3 DEF Range
    <3>5. \A x \in Range(free_indices) \ {k} : x \in Range(front)
      <4>1. ASSUME NEW j \in DOMAIN free_indices, free_indices[j] # k
            PROVE  free_indices[j] \in Range(front)
        <5>1. j \in DOMAIN front
          BY <3>2, <4>1 DEF k
        <5> QED BY <3>3, <5>1 DEF Range
      <4> QED BY <4>1 DEF Range
    <3> QED BY <3>4, <3>5
  <2>12. Range(free_indices') = DOMAIN slotmap' \ ActiveIndices'
    BY <2>1, <2>4, <2>7, <2>9, <2>11 DEF FreeList
  <2>13. FreeList' /\ active_count' \in Nat
    BY <1>6, <2>1, <2>4, <2>5, <2>9, <2>10, <2>12
  <2> QED BY <2>1, <2>2, <2>4, <2>5, <2>6, <2>7, <2>8, <2>13
<1> QED BY <1>8, <1>9

\* The first id of the places taken from one that holds no other copy of it.
LEMMA OnceTail ==
  ASSUME NEW f \in [Places -> Seq(TimerIds)], Once(f), f[InHand] # <<>>
  PROVE  LET x == Head(f[InHand])
             h == [f EXCEPT ![InHand] = Tail(@)]
         IN /\ h \in [Places -> Seq(TimerIds)] /\ Once(h)
            /\ x \in TimerIds /\ x \in Range(f[InHand])
            /\ \A p \in Places : x \notin Range(h[p])
            /\ \A p \in Places : \A y : y # x => (y \in Range(h[p]) <=> y \in Range(f[p]))
<1> DEFINE q == f[InHand]
           x == Head(q)
           h == [f EXCEPT ![InHand] = Tail(q)]
<1>1. InHand \in Places /\ q \in Seq(TimerIds)
  BY PlaceFacts
<1>2. /\ Tail(q) \in Seq(TimerIds) /\ x \in TimerIds
      /\ DOMAIN q = 1 .. Len(q) /\ Len(q) \in Nat \ {0} /\ x = q[1]
      /\ DOMAIN Tail(q) = 1 .. Len(q) - 1
      /\ \A j \in 1 .. Len(q) - 1 : Tail(q)[j] = q[j + 1]
  BY <1>1, TailIs
<1>3. h \in [Places -> Seq(TimerIds)] /\ h[InHand] = Tail(q)
      /\ \A p \in Places : p # InHand => h[p] = f[p]
  BY <1>1, <1>2
<1> HIDE DEF h, x
<1>4. 1 \in DOMAIN q
  BY <1>2, SMTT(20)
<1>5. x \in Range(q)
  BY <1>2, <1>4 DEF Range
<1>6. \A j \in DOMAIN Tail(q) : j + 1 \in DOMAIN q /\ j + 1 # 1 /\ Tail(q)[j] = q[j + 1]
  BY <1>2, SMTT(20)
<1>7. \A i, j \in DOMAIN Tail(q) : i + 1 = j + 1 => i = j
  BY <1>2, SMTT(20)
<1>8. \A m \in DOMAIN q, r \in Places : \A j \in DOMAIN f[r] :
        q[m] = f[r][j] => r = InHand /\ j = m
  BY <1>1 DEF Once
<1>9. Once(h)
  <2>1. ASSUME NEW p \in Places, NEW r \in Places, NEW i \in DOMAIN h[p], NEW j \in DOMAIN h[r],
               h[p][i] = h[r][j]
        PROVE  p = r /\ i = j
    <3>1. CASE p # InHand /\ r # InHand
      <4>1. f[p][i] = f[r][j] /\ i \in DOMAIN f[p] /\ j \in DOMAIN f[r]
        BY <1>3, <2>1, <3>1
      <4> QED BY <4>1 DEF Once
    <3>2. CASE p = InHand /\ r = InHand
      <4>1. q[i + 1] = q[j + 1] /\ i + 1 \in DOMAIN q /\ j + 1 \in DOMAIN q
        BY <1>3, <1>6, <2>1, <3>2
      <4>2. i + 1 = j + 1
        BY <1>1, <1>8, <4>1
      <4> QED BY <1>3, <1>7, <2>1, <3>2, <4>2
    <3>3. CASE p = InHand /\ r # InHand
      <4>1. q[i + 1] = f[r][j] /\ i + 1 \in DOMAIN q /\ j \in DOMAIN f[r]
        BY <1>3, <1>6, <2>1, <3>3
      <4> QED BY <1>8, <3>3, <4>1
    <3>4. CASE p # InHand /\ r = InHand
      <4>1. q[j + 1] = f[p][i] /\ j + 1 \in DOMAIN q /\ i \in DOMAIN f[p]
        BY <1>3, <1>6, <2>1, <3>4
      <4> QED BY <1>8, <3>4, <4>1
    <3> QED BY <3>1, <3>2, <3>3, <3>4
  <2> QED BY <2>1 DEF Once
<1>10. ASSUME NEW p \in Places
      PROVE  x \notin Range(h[p])
  <2>1. ASSUME NEW j \in DOMAIN h[p], h[p][j] = x
        PROVE  FALSE
    <3>1. CASE p = InHand
      <4>1. q[j + 1] = q[1] /\ j + 1 \in DOMAIN q /\ j + 1 # 1
        BY <1>2, <1>3, <1>6, <2>1, <3>1
      <4> QED BY <1>1, <1>4, <4>1 DEF Once
    <3>2. CASE p # InHand
      <4>1. f[p][j] = q[1] /\ j \in DOMAIN f[p]
        BY <1>2, <1>3, <2>1, <3>2
      <4> QED BY <1>1, <1>4, <3>2, <4>1 DEF Once
    <3> QED BY <3>1, <3>2
  <2> QED BY <2>1 DEF Range
<1>11. ASSUME NEW p \in Places, NEW y, y # x
       PROVE  y \in Range(h[p]) <=> y \in Range(f[p])
  <2>1. CASE p # InHand
    BY <1>3, <2>1
  <2>2. CASE p = InHand
    <3>1. ASSUME NEW j \in DOMAIN q, q[j] = y
          PROVE  y \in Range(Tail(q))
      <4>1. j # 1
        BY <1>2, <1>11, <3>1
      <4>2. j - 1 \in DOMAIN Tail(q) /\ Tail(q)[j - 1] = q[j]
        BY <1>2, <4>1, SMTT(20)
      <4> QED BY <3>1, <4>2 DEF Range
    <3>2. ASSUME NEW j \in DOMAIN Tail(q), Tail(q)[j] = y
          PROVE  y \in Range(q)
      BY <1>6, <3>2 DEF Range
    <3>3. y \in Range(Tail(q)) <=> y \in Range(q)
      BY <3>1, <3>2 DEF Range
    <3> QED BY <1>3, <2>2, <3>3
  <2> QED BY <2>1, <2>2
<1> QED BY <1>2, <1>3, <1>5, <1>9, <1>10, <1>11 DEF h, x

\* An id that is nowhere in the wheel is put into one place.
LEMMA OnceAppend ==
  ASSUME NEW f \in [Places -> Seq(TimerIds)], Once(f), NEW s \in Places, NEW x \in TimerIds,
         \A p \in Places : x \notin Range(f[p])
  PROVE  LET h == [f EXCEPT ![s] = Append(@, x)]
         IN /\ h \in [Places -> Seq(TimerIds)] /\ Once(h)
            /\ \A p \in Places : p # s => h[p] = f[p]
            /\ Range(h[s]) = Range(f[s]) \cup {x}
<1> DEFINE q == f[s]
           h == [f EXCEPT ![s] = Append(q, x)]
           n == Len(q)
<1>1. /\ Append(q, x) \in Seq(TimerIds)
      /\ DOMAIN q = 1 .. n /\ n \in Nat
      /\ DOMAIN Append(q, x) = 1 .. n + 1
      /\ \A j \in 1 .. n : Append(q, x)[j] = q[j]
      /\ Append(q, x)[n + 1] = x
  <2>1. q \in Seq(TimerIds)
    OBVIOUS
  <2> HIDE DEF q
  <2> QED BY <2>1, AppendIs, SMTT(20)
<1>2. h \in [Places -> Seq(TimerIds)] /\ h[s] = Append(q, x)
      /\ \A p \in Places : p # s => h[p] = f[p]
  BY <1>1
<1> HIDE DEF h, n
<1>3. \A j \in DOMAIN h[s] : j = n + 1 \/ (j \in DOMAIN q /\ h[s][j] = q[j])
  BY <1>1, <1>2, SMTT(20)
<1>4. n + 1 \in DOMAIN h[s] /\ h[s][n + 1] = x
      /\ \A j \in DOMAIN q : j \in DOMAIN h[s] /\ h[s][j] = q[j]
  BY <1>1, <1>2, SMTT(20)
<1>5. \A p \in Places : \A i \in DOMAIN f[p] : f[p][i] # x
  BY DEF Range
<1>6. ASSUME NEW p \in Places, NEW i \in DOMAIN h[p], ~ (p = s /\ i = n + 1)
      PROVE  i \in DOMAIN f[p] /\ h[p][i] = f[p][i]
  BY <1>2, <1>3, <1>6
<1>7. Once(h)
  <2>1. ASSUME NEW p \in Places, NEW r \in Places, NEW i \in DOMAIN h[p], NEW j \in DOMAIN h[r],
               h[p][i] = h[r][j]
        PROVE  p = r /\ i = j
    <3>1. CASE p = s /\ i = n + 1 /\ r = s /\ j = n + 1
      BY <3>1
    <3>2. CASE ~ (p = s /\ i = n + 1) /\ ~ (r = s /\ j = n + 1)
      <4>1. i \in DOMAIN f[p] /\ h[p][i] = f[p][i] /\ j \in DOMAIN f[r] /\ h[r][j] = f[r][j]
        BY <1>6, <3>2
      <4>2. f[p][i] = f[r][j]
        BY <2>1, <4>1
      <4> QED BY <4>1, <4>2, SMTT(20) DEF Once
    <3>3. CASE p = s /\ i = n + 1 /\ ~ (r = s /\ j = n + 1)
      <4>1. j \in DOMAIN f[r] /\ h[r][j] = f[r][j] /\ h[p][i] = x
        BY <1>4, <1>6, <3>3
      <4>2. f[r][j] = x
        BY <2>1, <4>1
      <4> QED BY <1>5, <4>1, <4>2
    <3>4. CASE ~ (p = s /\ i = n + 1) /\ r = s /\ j = n + 1
      <4>1. i \in DOMAIN f[p] /\ h[p][i] = f[p][i] /\ h[r][j] = x
        BY <1>4, <1>6, <3>4
      <4>2. f[p][i] = x
        BY <2>1, <4>1
      <4> QED BY <1>5, <4>1, <4>2
    <3> QED BY <3>1, <3>2, <3>3, <3>4
  <2> QED BY <2>1 DEF Once
<1>8. Range(h[s]) = Range(q) \cup {x}
  <2>1. \A y \in Range(h[s]) : y \in Range(q) \cup {x}
    BY <1>3, <1>4 DEF Range
  <2>2. \A y \in Range(q) \cup {x} : y \in Range(h[s])
    BY <1>4 DEF Range
  <2> QED BY <2>1, <2>2
<1> QED BY <1>2, <1>7, <1>8 DEF h

\* A slot is exchanged with the empty hand.
LEMMA OnceTake ==
  ASSUME NEW f \in [Places -> Seq(TimerIds)], Once(f), NEW s \in Places, s # InHand
  PROVE  LET h == [f EXCEPT ![InHand] = f[s], ![s] = <<>>]
         IN /\ h \in [Places -> Seq(TimerIds)] /\ Once(h)
            /\ h[InHand] = f[s] /\ h[s] = <<>>
            /\ \A p \in Places : p # s /\ p # InHand => h[p] = f[p]
<1> DEFINE h == [f EXCEPT ![InHand] = f[s], ![s] = <<>>]
<1>1. InHand \in Places /\ <<>> \in Seq(TimerIds) /\ DOMAIN <<>> = {}
  BY PlaceFacts, SMTT(20)
<1>2. /\ h[InHand] = f[s] /\ h[s] = <<>>
      /\ \A p \in Places : p # s /\ p # InHand => h[p] = f[p]
  BY <1>1
<1>3. h \in [Places -> Seq(TimerIds)]
  BY <1>1
<1> HIDE DEF h
<1>4. ASSUME NEW p \in Places, NEW r \in Places, NEW i \in DOMAIN h[p], NEW j \in DOMAIN h[r],
             h[p][i] = h[r][j]
      PROVE  p = r /\ i = j
  <2>1. p # s /\ r # s
    BY <1>1, <1>2, <1>4
  <2>2. CASE p = InHand /\ r = InHand
    <3>1. f[s][i] = f[s][j] /\ i \in DOMAIN f[s] /\ j \in DOMAIN f[s]
      BY <1>2, <1>4, <2>1, <2>2
    <3>2. s = s /\ i = j
      BY <3>1 DEF Once
    <3> QED BY <2>1, <2>2, <3>2
  <2>3. CASE p = InHand /\ r # InHand
    <3>1. f[s][i] = f[r][j] /\ i \in DOMAIN f[s] /\ j \in DOMAIN f[r]
      BY <1>2, <1>4, <2>1, <2>3
    <3>2. s = r /\ i = j
      BY <3>1 DEF Once
    <3> QED BY <2>1, <2>3, <3>2
  <2>4. CASE p # InHand /\ r = InHand
    <3>1. f[p][i] = f[s][j] /\ i \in DOMAIN f[p] /\ j \in DOMAIN f[s]
      BY <1>2, <1>4, <2>1, <2>4
    <3>2. p = s /\ i = j
      BY <3>1, SMTT(20) DEF Once
    <3> QED BY <2>1, <2>4, <3>2
  <2>5. CASE p # InHand /\ r # InHand
    <3>1. f[p][i] = f[r][j] /\ i \in DOMAIN f[p] /\ j \in DOMAIN f[r]
      BY <1>2, <1>4, <2>1, <2>5
    <3>2. p = r /\ i = j
      BY <3>1 DEF Once
    <3> QED BY <2>1, <2>5, <3>2
  <2> QED BY <2>2, <2>3, <2>4, <2>5
<1>5. Once(h)
  BY <1>4 DEF Once
<1> QED BY <1>2, <1>3, <1>5 DEF h

\* The initial state.
LEMMA WheelInitInv == WheelInit => WheelInv
<1> SUFFICES ASSUME WheelInit PROVE WheelInv
  OBVIOUS
<1> USE DEF WheelInit
<1>1. InHand \in Places /\ <<>> \in Seq(TimerIds) /\ Range(<<>>) = {} /\ DOMAIN <<>> = {}
  BY PlaceFacts, SMTT(20) DEF Range
<1>2. WheelTypeOK
  <2>1. slots \in [Places -> Seq(TimerIds)] /\ current_slot \in [Levels -> Nat]
    BY <1>1, SMTT(20)
  <2>2. now \in Nat /\ todo \in 0 .. kNumLevels /\ active_count \in Nat
    BY SMTT(20) DEF kNumLevels
  <2>3. /\ slotmap \in Seq([generation : Nat, active : BOOLEAN, deadline : Nat, wait : Waits])
        /\ free_indices \in Seq(Nat) /\ ready \in Seq(Waits)
    BY SMTT(20)
  <2>4. state \in [Waits -> {"idle", "Pending", "Ready", "TimedOut", "Cancelled", "resumed"}]
    BY SMTT(20)
  <2>5. timer_id \in [Waits -> TimerIds]
    BY SMTT(20) DEF NoId, TimerIds
  <2>6. asked \in [Waits -> [delay : Nat, deadline : Nat, fired : Nat]]
    BY SMTT(20)
  <2> QED BY <2>1, <2>2, <2>3, <2>4, <2>5, <2>6 DEF WheelTypeOK
<1>3. ActiveIndices = {}
  BY <1>1 DEF ActiveIndices
<1>4. Ticks(0) = 0 /\ Units * 0 = 0
  BY TicksFacts, SizesAssumption, SMTT(20)
<1>5. ClockInv
  <2>1. now = Units * Ticks(now)
    BY <1>4
  <2>2. ASSUME NEW l \in Levels
        PROVE  current_slot[l] = Passed(l) % LevelSize(l) /\ l + 1 # todo
    <3>1. Span(l) \in Nat \ {0} /\ LevelSize(l) \in Nat \ {0} /\ l \in 0 .. 3
      BY SpanFacts
    <3>2. l + 1 # todo /\ ~ l + 1 < todo
      BY <3>1, SMTT(20)
    <3>3. Passed(l) = Ceil(0, Span(l))
      BY <1>4, <3>2 DEF Passed
    <3>4. Ceil(0, Span(l)) = 0
      BY <3>1, CeilUnique, SMTT(20)
    <3>5. 0 % LevelSize(l) = 0
      BY <3>1, SMTT(20)
    <3> QED BY <3>2, <3>3, <3>4, <3>5
  <2>3. ~ todo > 0 /\ slots[InHand] = <<>>
    BY <1>1, SMTT(20)
  <2> QED BY <2>1, <2>2, <2>3 DEF ClockInv
<1>6. Once(slots) /\ IdsIssued
  BY <1>1 DEF Once, IdsIssued
<1>7. FreeList
  BY <1>1, <1>3, FS_EmptySet DEF FreeList, IsInjective
<1>8. EntriesPlaced /\ EntriesOwned /\ EntriesInTime
  BY <1>3 DEF EntriesPlaced, EntriesOwned, EntriesInTime
<1>9. PendingLive /\ HandlesOwn
  BY <1>1 DEF PendingLive, HandlesOwn, Live
<1>10. FiredInTime
  BY <1>4, SMTT(20) DEF FiredInTime
<1> QED BY <1>2, <1>5, <1>6, <1>7, <1>8, <1>9, <1>10 DEF WheelInv

\* What holds of the places stays true when the slots do not change and an id is released.
LEMMA ReleaseKeeps ==
  ASSUME WheelInv, NEW id \in TimerIds, Release(id),
         UNCHANGED <<now, slots, current_slot, todo, timer_id, asked>>
  PROVE  /\ ClockInv' /\ Once(slots') /\ IdsIssued' /\ FreeList'
         /\ EntriesPlaced' /\ HandlesOwn' /\ EntriesInTime' /\ FiredInTime'
<1> USE DEF WheelInv
<1>1. /\ DOMAIN slotmap' = DOMAIN slotmap
      /\ \A i \in DOMAIN slotmap : /\ slotmap'[i].generation = slotmap[i].generation
                                   /\ slotmap'[i].deadline = slotmap[i].deadline
                                   /\ slotmap'[i].wait = slotmap[i].wait
                                   /\ IdAt(i)' = IdAt(i)
      /\ \A x \in TimerIds : Live(slotmap', x) <=> Live(slotmap, x) /\ x # id
      /\ \A i \in ActiveIndices' : i \in ActiveIndices /\ i \in DOMAIN slotmap
      /\ FreeList'
  BY ReleaseFacts DEF ActiveIndices
<1>2. Ticks(now)' = Ticks(now) /\ \A l : Passed(l)' = Passed(l)
  BY DEF Passed, Ticks
<1>3. ClockInv'
  BY <1>2 DEF ClockInv
<1>4. Once(slots')
  OBVIOUS
<1>5. IdsIssued'
  BY <1>1 DEF IdsIssued
<1>6. \A p, i : i \in DOMAIN slotmap => Holds(p, i)' = Holds(p, i)
  BY <1>1 DEF Holds
<1>7. EntriesPlaced'
  BY <1>1, <1>6 DEF EntriesPlaced
<1>8. HandlesOwn'
  <2>1. \A w \in Waits : timer_id[w] \in TimerIds
    BY DEF WheelTypeOK
  <2>2. \A w \in Waits : Live(slotmap', timer_id[w]) => Live(slotmap, timer_id[w])
    BY <1>1, <2>1
  <2>3. \A w \in Waits : Live(slotmap, timer_id[w]) => timer_id[w][1] \in DOMAIN slotmap
    BY DEF Live
  <2> QED BY <1>1, <2>2, <2>3 DEF HandlesOwn
<1>9. EntriesInTime'
  <2>1. ASSUME NEW i \in ActiveIndices', NEW p \in Places, Holds(p, i)'
        PROVE  InTime(p, i)'
    <3>1. InTime(p, i) /\ i \in DOMAIN slotmap
      BY <1>1, <1>6, <2>1 DEF EntriesInTime
    <3>2. Short(slotmap[i].wait)' = Short(slotmap[i].wait) /\ slotmap'[i].wait = slotmap[i].wait
          /\ slotmap'[i].deadline = slotmap[i].deadline
          /\ Ticks(slotmap[i].deadline)' = Ticks(slotmap[i].deadline)
      BY <1>1, <3>1 DEF Short, Ticks
    <3> QED BY <1>2, <3>1, <3>2 DEF InTime
  <2> QED BY <2>1 DEF EntriesInTime
<1>10. FiredInTime'
  BY DEF FiredInTime, Ticks, Short
<1> QED BY <1>1, <1>3, <1>4, <1>5, <1>7, <1>8, <1>9, <1>10

\* An active entry's wait holds its id, so the entry released is the wait's only one.
LEMMA OwnerFacts ==
  ASSUME WheelInv
  PROVE  /\ \A i \in ActiveIndices : Live(slotmap, IdAt(i)) /\ i \in DOMAIN slotmap
                                     /\ slotmap[i].wait \in Waits
         /\ \A w \in Waits : timer_id[w] \in TimerIds
         /\ \A i \in ActiveIndices, w \in Waits : timer_id[w] # IdAt(i) => slotmap[i].wait # w
         /\ \A v, w \in Waits : Live(slotmap, timer_id[v]) /\ timer_id[v] = timer_id[w] => v = w
<1> USE DEF WheelInv
<1>1. \A i \in ActiveIndices : Live(slotmap, IdAt(i)) /\ i \in DOMAIN slotmap
  BY SMTT(20) DEF ActiveIndices, Live, IdAt
<1>2. \A i \in ActiveIndices : slotmap[i].wait \in Waits
  BY <1>1, EntryFacts
<1>3. \A w \in Waits : timer_id[w] \in TimerIds
  BY DEF WheelTypeOK
<1>4. \A i \in ActiveIndices, w \in Waits : timer_id[w] # IdAt(i) => slotmap[i].wait # w
  BY DEF EntriesOwned
<1>5. \A v, w \in Waits : Live(slotmap, timer_id[v]) /\ timer_id[v] = timer_id[w] => v = w
  BY DEF HandlesOwn
<1> QED BY <1>1, <1>2, <1>3, <1>4, <1>5

(***************************************************************************)
(* A wait leaves Pending or Ready and its timer is released: what is left  *)
(* of the entries is owned, and the other pending waits keep theirs.       *)
(***************************************************************************)
LEMMA ReleaseOwned ==
  ASSUME WheelInv, NEW w \in Waits, NEW s, Release(timer_id[w]), s # "Pending",
         state' = [state EXCEPT ![w] = s],
         UNCHANGED <<timer_id, asked>>
  PROVE  EntriesOwned' /\ PendingLive'
<1> USE DEF WheelInv
<1>1. /\ \A i \in DOMAIN slotmap : /\ slotmap'[i].deadline = slotmap[i].deadline
                                   /\ slotmap'[i].wait = slotmap[i].wait
                                   /\ IdAt(i)' = IdAt(i)
      /\ \A x \in TimerIds : Live(slotmap', x) <=> Live(slotmap, x) /\ x # timer_id[w]
      /\ ActiveIndices' = {i \in ActiveIndices : IdAt(i) # timer_id[w]}
  BY OwnerFacts, ReleaseFacts
<1>2. \A v \in Waits : v # w => state'[v] = state[v]
  BY DEF WheelTypeOK
<1>3. state'[w] # "Pending"
  BY DEF WheelTypeOK
<1>4. EntriesOwned'
  <2>1. ASSUME NEW i \in ActiveIndices'
        PROVE  LET v == slotmap'[i].wait
               IN /\ state'[v] \in {"Pending", "Ready"}
                  /\ timer_id'[v] = IdAt(i)'
                  /\ slotmap'[i].deadline = asked'[v].deadline
                  /\ slotmap'[i].deadline > 0
    <3>1. i \in ActiveIndices /\ IdAt(i) # timer_id[w]
      BY <1>1
    <3>2. slotmap[i].wait # w /\ slotmap[i].wait \in Waits /\ i \in DOMAIN slotmap
      BY <3>1, OwnerFacts
    <3>3. state'[slotmap[i].wait] = state[slotmap[i].wait]
      BY <1>2, <3>2
    <3>4. /\ state[slotmap[i].wait] \in {"Pending", "Ready"}
          /\ timer_id[slotmap[i].wait] = IdAt(i)
          /\ slotmap[i].deadline = asked[slotmap[i].wait].deadline
          /\ slotmap[i].deadline > 0
      BY <3>1 DEF EntriesOwned
    <3> QED BY <1>1, <3>2, <3>3, <3>4
  <2> QED BY <2>1 DEF EntriesOwned
<1>5. PendingLive'
  <2>1. ASSUME NEW v \in Waits, state'[v] = "Pending"
        PROVE  Live(slotmap', timer_id[v])
    <3>1. v # w /\ state[v] = "Pending"
      BY <1>2, <1>3, <2>1
    <3>2. Live(slotmap, timer_id[v])
      BY <3>1 DEF PendingLive
    <3> QED BY <1>1, <3>1, <3>2, OwnerFacts
  <2> QED BY <2>1 DEF PendingLive
<1> QED BY <1>4, <1>5

\* The stop callback.
LEMMA CancelWaitInv ==
  ASSUME WheelInv, NEW w \in Waits, CancelWait(w)
  PROVE  WheelInv'
<1> USE DEF WheelInv, CancelWait
<1>1. timer_id[w] \in TimerIds
  BY OwnerFacts
<1>2. /\ ClockInv' /\ Once(slots') /\ IdsIssued' /\ FreeList'
      /\ EntriesPlaced' /\ HandlesOwn' /\ EntriesInTime' /\ FiredInTime'
  BY <1>1, ReleaseKeeps
<1>3. EntriesOwned' /\ PendingLive'
  BY ReleaseOwned
<1>4. WheelTypeOK'
  <2>1. /\ slotmap' \in Seq([generation : Nat, active : BOOLEAN, deadline : Nat, wait : Waits])
        /\ free_indices' \in Seq(Nat) /\ active_count' \in Nat
    BY <1>1, ReleaseFacts
  <2>2. ready' \in Seq(Waits)
    BY AppendIs DEF WheelTypeOK
  <2>3. state' \in [Waits -> {"idle", "Pending", "Ready", "TimedOut", "Cancelled", "resumed"}]
    BY DEF WheelTypeOK
  <2> QED BY <2>1, <2>2, <2>3 DEF WheelTypeOK
<1> QED BY <1>2, <1>3, <1>4

\* The reactor wins.
LEMMA ReactorFiresInv ==
  ASSUME WheelInv, NEW w \in Waits, ReactorFires(w)
  PROVE  WheelInv'
<1> USE DEF WheelInv, ReactorFires
<1>1. NoId \in TimerIds /\ Release(NoId)
  <2>1. NoId \in TimerIds /\ NoId[1] = 0
    BY SMTT(20) DEF NoId, TimerIds
  <2>2. 0 \notin DOMAIN slotmap
    BY EntryFacts, SMTT(20)
  <2> QED BY <2>1, <2>2 DEF Release, Live
<1>2. /\ ClockInv' /\ Once(slots') /\ IdsIssued' /\ FreeList'
      /\ EntriesPlaced' /\ HandlesOwn' /\ EntriesInTime' /\ FiredInTime'
  BY <1>1, ReleaseKeeps
<1>3. slotmap' = slotmap /\ ActiveIndices' = ActiveIndices /\ \A i : IdAt(i)' = IdAt(i)
  BY DEF tableVars, ActiveIndices, IdAt
<1>4. /\ \A v \in Waits : v # w => state'[v] = state[v]
      /\ state'[w] = "Ready"
  BY DEF WheelTypeOK
<1>5. EntriesOwned'
  <2>1. ASSUME NEW i \in ActiveIndices
        PROVE  /\ state'[slotmap[i].wait] \in {"Pending", "Ready"}
               /\ timer_id[slotmap[i].wait] = IdAt(i)
               /\ slotmap[i].deadline = asked[slotmap[i].wait].deadline
               /\ slotmap[i].deadline > 0
    <3>1. PICK v \in Waits : v = slotmap[i].wait
      BY OwnerFacts
    <3>2. /\ state[v] \in {"Pending", "Ready"} /\ timer_id[v] = IdAt(i)
          /\ slotmap[i].deadline = asked[v].deadline /\ slotmap[i].deadline > 0
      BY <3>1 DEF EntriesOwned
    <3>3. state'[v] \in {"Pending", "Ready"}
      BY <1>4, <3>2
    <3> QED BY <3>1, <3>2, <3>3
  <2> QED BY <1>3, <2>1 DEF EntriesOwned
<1>6. PendingLive'
  BY <1>3, <1>4 DEF PendingLive
<1>7. WheelTypeOK'
  <2>1. ready' \in Seq(Waits)
    BY AppendIs DEF WheelTypeOK
  <2>2. state' \in [Waits -> {"idle", "Pending", "Ready", "TimedOut", "Cancelled", "resumed"}]
    BY DEF WheelTypeOK
  <2> QED BY <2>1, <2>2 DEF WheelTypeOK, tableVars
<1> QED BY <1>2, <1>5, <1>6, <1>7

\* await_resume().
LEMMA ResumeWaitInv ==
  ASSUME WheelInv, ResumeWait
  PROVE  WheelInv'
<1> USE DEF WheelInv, ResumeWait
<1>1. Head(ready) \in Waits /\ Tail(ready) \in Seq(Waits)
  BY TailIs DEF WheelTypeOK
<1>2. timer_id[Head(ready)] \in TimerIds
  BY <1>1, OwnerFacts
<1>3. /\ ClockInv' /\ Once(slots') /\ IdsIssued' /\ FreeList'
      /\ EntriesPlaced' /\ HandlesOwn' /\ EntriesInTime' /\ FiredInTime'
  BY <1>2, ReleaseKeeps
<1>4. EntriesOwned' /\ PendingLive'
  BY <1>1, ReleaseOwned
<1>5. WheelTypeOK'
  <2>1. /\ slotmap' \in Seq([generation : Nat, active : BOOLEAN, deadline : Nat, wait : Waits])
        /\ free_indices' \in Seq(Nat) /\ active_count' \in Nat
    BY <1>2, ReleaseFacts
  <2>2. state' \in [Waits -> {"idle", "Pending", "Ready", "TimedOut", "Cancelled", "resumed"}]
    BY DEF WheelTypeOK
  <2> QED BY <1>1, <2>1, <2>2 DEF WheelTypeOK
<1> QED BY <1>3, <1>4, <1>5

\* std::exchange of a slot moves its ids and no others.
LEMMA TakeKeeps ==
  ASSUME WheelInv, NEW l \in Levels, Take(l), slots[InHand] = <<>>,
         l + 1 # todo, UNCHANGED <<tableVars, timedVars>>
  PROVE  /\ slots' \in [Places -> Seq(TimerIds)] /\ todo' \in 0 .. kNumLevels
         /\ Once(slots') /\ IdsIssued' /\ EntriesPlaced'
         /\ FreeList' /\ EntriesOwned' /\ PendingLive' /\ HandlesOwn' /\ FiredInTime'
<1> USE DEF WheelInv
<1> DEFINE here == <<l, current_slot[l]>>
<1>1. here \in Places /\ here # InHand
  <2>1. current_slot[l] = Passed(l) % LevelSize(l)
    BY DEF ClockInv
  <2>2. Passed(l) \in Nat /\ LevelSize(l) \in Nat \ {0}
    BY PassedFacts, SpanFacts
  <2>3. current_slot[l] \in 0 .. LevelSize(l) - 1
    BY <2>1, <2>2, DivDef
  <2> QED BY <2>3, PlaceFacts
<1>2. /\ slots' \in [Places -> Seq(TimerIds)] /\ Once(slots')
      /\ slots'[InHand] = slots[here] /\ slots'[here] = <<>>
      /\ \A p \in Places : p # here /\ p # InHand => slots'[p] = slots[p]
  <2>1. slots' = [slots EXCEPT ![InHand] = slots[here], ![here] = <<>>]
    BY DEF Take
  <2>2. slots \in [Places -> Seq(TimerIds)] /\ Once(slots)
    BY DEF WheelTypeOK
  <2> HIDE DEF here
  <2>3. LET h == [slots EXCEPT ![InHand] = slots[here], ![here] = <<>>]
        IN /\ h \in [Places -> Seq(TimerIds)] /\ Once(h)
           /\ h[InHand] = slots[here] /\ h[here] = <<>>
           /\ \A p \in Places : p # here /\ p # InHand => h[p] = slots[p]
    BY <1>1, <2>2, OnceTake
  <2> QED BY <2>1, <2>3
<1> HIDE DEF here
<1>3. InHand \in Places /\ Range(<<>>) = {}
  BY PlaceFacts, SMTT(20) DEF Range
<1>4. \A p \in Places : \A x \in Range(slots'[p]) : \E q \in Places : x \in Range(slots[q])
  BY <1>1, <1>2, <1>3
<1>5. \A p \in Places : \A x \in Range(slots[p]) : \E q \in Places : x \in Range(slots'[q])
  BY <1>1, <1>2, <1>3
<1>6. slotmap' = slotmap /\ free_indices' = free_indices /\ active_count' = active_count
      /\ state' = state /\ timer_id' = timer_id /\ asked' = asked
  BY DEF tableVars, timedVars
<1>7. ActiveIndices' = ActiveIndices /\ \A i : IdAt(i)' = IdAt(i)
  BY <1>6 DEF ActiveIndices, IdAt
<1>8. IdsIssued'
  BY <1>4, <1>6 DEF IdsIssued
<1>9. EntriesPlaced'
  BY <1>5, <1>7 DEF EntriesPlaced, Holds
<1>10. FreeList' /\ EntriesOwned' /\ PendingLive' /\ HandlesOwn' /\ FiredInTime'
  BY <1>6, <1>7 DEF FreeList, EntriesOwned, PendingLive, HandlesOwn, FiredInTime, Ticks, Short
<1>11. todo' \in 0 .. kNumLevels
  BY SpanFacts, SMTT(20) DEF Take, kNumLevels
<1> QED BY <1>2, <1>8, <1>9, <1>10, <1>11

\* tick() begins.
LEMMA TickInv ==
  ASSUME WheelInv, todo = 0, Tick
  PROVE  WheelInv'
<1> USE DEF WheelInv
<1>1. PICK l \in Levels : Take(l)
  BY DEF Tick
<1>2. l + 1 # todo /\ slots[InHand] = <<>> /\ UNCHANGED <<tableVars, timedVars>>
  BY SpanFacts, SMTT(20) DEF ClockInv, Tick
<1>3. /\ slots' \in [Places -> Seq(TimerIds)] /\ todo' \in 0 .. kNumLevels
      /\ Once(slots') /\ IdsIssued' /\ EntriesPlaced'
      /\ FreeList' /\ EntriesOwned' /\ PendingLive' /\ HandlesOwn' /\ FiredInTime'
  BY <1>1, <1>2, TakeKeeps
<1>4. ClockInv' /\ EntriesInTime'
  BY TickInTime
<1>5. now' \in Nat
  BY SizesAssumption, SMTT(20) DEF Tick, WheelTypeOK
<1>6. WheelTypeOK'
  BY <1>3, <1>5 DEF WheelTypeOK, Tick, tableVars, timedVars
<1> QED BY <1>3, <1>4, <1>6

\* A level of the cascade ends.
LEMMA CascadeEndInv ==
  ASSUME WheelInv, CascadeEnd
  PROVE  WheelInv'
<1>1. PICK l \in Levels : todo = l + 2 /\ l + 1 \in Levels
  <2>1. todo \in 0 .. kNumLevels /\ todo > 1
    BY DEF WheelInv, WheelTypeOK, CascadeEnd
  <2>2. PICK l \in 0 .. 2 : todo = l + 2
    BY <2>1, SMTT(20) DEF kNumLevels
  <2> QED BY <2>2, SpanFacts
<1> USE DEF WheelInv
<1>2. l + 1 # todo /\ todo - 2 = l /\ todo - 1 = l + 1
  BY <1>1, SpanFacts, SMTT(20)
<1>3. /\ slots' \in [Places -> Seq(TimerIds)] /\ todo' \in 0 .. kNumLevels
      /\ Once(slots') /\ IdsIssued' /\ EntriesPlaced'
      /\ FreeList' /\ EntriesOwned' /\ PendingLive' /\ HandlesOwn' /\ FiredInTime'
  BY <1>2, TakeKeeps DEF CascadeEnd
<1>4. ClockInv' /\ EntriesInTime'
  BY CascadeEndInTime
<1>5. current_slot' \in [Levels -> Nat]
  <2>1. LevelSize(l + 1) \in Nat \ {0} /\ current_slot \in [Levels -> Nat]
    BY <1>1, SpanFacts DEF WheelTypeOK
  <2>2. current_slot[l + 1] + 1 \in Nat
    BY <1>1, <2>1, SMTT(20)
  <2>3. (current_slot[l + 1] + 1) % LevelSize(l + 1) \in Nat
    <3>1. \A a \in Nat, n \in Nat \ {0} : a % n \in Nat
      BY SMTT(20)
    <3> QED BY <2>1, <2>2, <3>1
  <2> QED BY <1>1, <1>2, <2>1, <2>3 DEF CascadeEnd, Advance
<1>6. WheelTypeOK'
  BY <1>3, <1>5 DEF WheelTypeOK, CascadeEnd, tableVars, timedVars
<1> QED BY <1>3, <1>4, <1>6

\* The tick ends.
LEMMA TickEndInv ==
  ASSUME WheelInv, TickEnd
  PROVE  WheelInv'
<1> USE DEF WheelInv
<1>1. ClockInv' /\ EntriesInTime'
  BY TickEndInTime
<1>2. /\ UNCHANGED <<now, slots, slotmap, free_indices, active_count>>
      /\ UNCHANGED <<ready, state, timer_id, asked>>
      /\ todo' = 0
  BY DEF TickEnd, tableVars, timedVars
<1>3. ActiveIndices' = ActiveIndices /\ \A i : IdAt(i)' = IdAt(i)
  BY <1>2 DEF ActiveIndices, IdAt
<1>4. /\ Once(slots') /\ IdsIssued' /\ EntriesPlaced' /\ FreeList' /\ EntriesOwned'
      /\ PendingLive' /\ HandlesOwn' /\ FiredInTime'
  BY <1>2, <1>3 DEF IdsIssued, EntriesPlaced, Holds, FreeList, EntriesOwned, PendingLive,
                    HandlesOwn, FiredInTime, Ticks, Short
<1>5. current_slot' \in [Levels -> Nat]
  <2>1. 0 \in Levels /\ LevelSize(0) \in Nat \ {0} /\ current_slot \in [Levels -> Nat]
    BY SpanFacts, SMTT(20) DEF WheelTypeOK
  <2>2. (current_slot[0] + 1) % LevelSize(0) \in Nat
    BY <2>1, DivDef, SMTT(20)
  <2> QED BY <2>1, <2>2 DEF TickEnd, Advance
<1>6. todo' \in 0 .. kNumLevels
  BY <1>2, SMTT(20) DEF kNumLevels
<1>7. WheelTypeOK'
  BY <1>2, <1>5, <1>6 DEF WheelTypeOK
<1> QED BY <1>1, <1>4, <1>7

\* A step of cascade() changes the slots only: the invariant asks no more than that the
\* new slots hold every active id once, and each where it is in time.
LEMMA SlotsOnly ==
  ASSUME WheelInv, todo > 1, UNCHANGED <<now, current_slot, todo, tableVars, timedVars>>,
         slots' \in [Places -> Seq(TimerIds)], Once(slots'),
         \A p \in Places : \A y \in Range(slots'[p]) : \E q \in Places : y \in Range(slots[q]),
         \A i \in ActiveIndices : \E p \in Places : IdAt(i) \in Range(slots'[p]),
         \A i \in ActiveIndices, p \in Places : IdAt(i) \in Range(slots'[p]) => InTime(p, i)
  PROVE  WheelInv'
<1> USE DEF WheelInv
<1>1. /\ now' = now /\ current_slot' = current_slot /\ todo' = todo /\ slotmap' = slotmap
      /\ free_indices' = free_indices /\ active_count' = active_count /\ ready' = ready
      /\ state' = state /\ timer_id' = timer_id /\ asked' = asked
  BY DEF tableVars, timedVars
<1>2. ActiveIndices' = ActiveIndices /\ \A i : IdAt(i)' = IdAt(i)
  BY <1>1 DEF ActiveIndices, IdAt
<1>3. Ticks(now)' = Ticks(now) /\ \A l : Passed(l)' = Passed(l)
  BY <1>1 DEF Passed, Ticks
<1>4. WheelTypeOK'
  BY <1>1 DEF WheelTypeOK
<1>5. ClockInv'
  <2>1. todo # 0
    BY SMTT(20) DEF WheelTypeOK
  <2> QED BY <1>1, <1>3, <2>1 DEF ClockInv
<1>6. IdsIssued'
  BY <1>1 DEF IdsIssued
<1>7. EntriesPlaced'
  BY <1>1, <1>2 DEF EntriesPlaced, Holds
<1>8. FreeList' /\ EntriesOwned' /\ PendingLive' /\ HandlesOwn' /\ FiredInTime'
  BY <1>1, <1>2 DEF FreeList, EntriesOwned, PendingLive, HandlesOwn, FiredInTime, Ticks, Short
<1>9. EntriesInTime'
  <2>1. ASSUME NEW i \in ActiveIndices, NEW p \in Places, Holds(p, i)'
        PROVE  InTime(p, i)'
    <3>1. InTime(p, i)
      BY <1>2, <2>1 DEF Holds
    <3>2. Short(slotmap[i].wait)' = Short(slotmap[i].wait)
          /\ Ticks(slotmap[i].deadline)' = Ticks(slotmap[i].deadline)
      BY <1>1 DEF Short, Ticks
    <3> QED BY <1>1, <1>3, <3>1, <3>2 DEF InTime
  <2> QED BY <1>2, <2>1 DEF EntriesInTime
<1> QED BY <1>4, <1>5, <1>6, <1>7, <1>8, <1>9

\* A live id is the id of the active entry of its index.
LEMMA LiveIs ==
  ASSUME NEW x \in TimerIds, Live(slotmap, x)
  PROVE  x[1] \in ActiveIndices /\ IdAt(x[1]) = x
<1>1. x = <<x[1], x[2]>>
  BY SMTT(20) DEF TimerIds
<1> QED BY <1>1 DEF Live, ActiveIndices, IdAt

\* The loop of cascade().
LEMMA CascadeIdInv ==
  ASSUME WheelInv, CascadeId
  PROVE  WheelInv'
<1> USE DEF WheelInv
<1>1. PICK x \in TimerIds, rest \in [Places -> Seq(TimerIds)] :
        /\ Once(rest)
        /\ x \in Range(slots[InHand])
        /\ \A p \in Places : x \notin Range(rest[p])
        /\ \A p \in Places : \A y : y # x => (y \in Range(rest[p]) <=> y \in Range(slots[p]))
        /\ slots' = IF Live(slotmap, x) THEN Place(rest, x, slotmap[x[1]].deadline) ELSE rest
  <2>1. slots \in [Places -> Seq(TimerIds)] /\ Once(slots) /\ slots[InHand] # <<>>
    BY DEF WheelTypeOK, CascadeId
  <2>2. LET x == Head(slots[InHand])
            h == [slots EXCEPT ![InHand] = Tail(@)]
        IN /\ h \in [Places -> Seq(TimerIds)] /\ Once(h)
           /\ x \in TimerIds /\ x \in Range(slots[InHand])
           /\ \A p \in Places : x \notin Range(h[p])
           /\ \A p \in Places : \A y : y # x => (y \in Range(h[p]) <=> y \in Range(slots[p]))
    BY <2>1, OnceTail
  <2> QED BY <2>2 DEF CascadeId
<1>2. todo > 1 /\ UNCHANGED <<now, current_slot, todo, tableVars, timedVars>>
  BY DEF CascadeId
<1>3. InHand \in Places
  BY PlaceFacts
<1>4. CASE ~ Live(slotmap, x)
  <2>1. slots' = rest
    BY <1>1, <1>4
  <2>2. \A i \in ActiveIndices : IdAt(i) # x
    BY <1>4, OwnerFacts
  <2>3. \A i \in ActiveIndices : \E p \in Places : IdAt(i) \in Range(rest[p])
    BY <1>1, <2>2 DEF EntriesPlaced, Holds
  <2>4. \A i \in ActiveIndices, p \in Places : IdAt(i) \in Range(rest[p]) => InTime(p, i)
    BY <1>1, <2>2 DEF EntriesInTime, Holds
  <2>5. \A p \in Places : \A y \in Range(rest[p]) : \E q \in Places : y \in Range(slots[q])
    BY <1>1
  <2> QED BY <1>1, <1>2, <2>1, <2>3, <2>4, <2>5, SlotsOnly
<1>5. CASE Live(slotmap, x)
  <2>1. PICK k \in ActiveIndices : k = x[1] /\ IdAt(k) = x
    BY <1>5, LiveIs
  <2>2. k \in DOMAIN slotmap /\ slotmap[k].deadline \in Nat
    BY <2>1, OwnerFacts, EntryFacts
  <2>3. PICK e \in Nat : e = slotmap[k].deadline
    BY <2>2
  <2>4. InTime(InHand, k)
    BY <1>1, <1>3, <2>1 DEF EntriesInTime, Holds
  <2>5. /\ Ticks(now) <= Ticks(e) + 1
        /\ Short(slotmap[k].wait) =>
             todo <= 2 /\ (Ticks(e) \div Span(todo - 1)) + 1 = Passed(todo - 1)
    BY <2>3, <2>4 DEF InTime
  <2>6. todo # 1 /\ todo # 0 /\ (todo <= 2 => todo = 2 /\ todo - 1 = 1)
    BY <1>2, SMTT(20) DEF WheelTypeOK
  <2>7. PICK l \in Levels :
          /\ l = LevelOf(Distance(e))
          /\ SlotOf(e, Distance(e), l) = <<l, (Ticks(e) \div Span(l)) % LevelSize(l)>>
          /\ Ticks(e) \div Span(l) \in Nat
          /\ Passed(l) <= Ticks(e) \div Span(l)
          /\ todo = 2 /\ (Ticks(e) \div Span(1)) + 1 = Passed(1)
               => l <= 1 /\ Ticks(e) \div Span(l) < Passed(l) + LevelSize(l)
    BY <2>5, <2>6, PlacedInTime
  <2>8. PICK s \in Places : /\ s # InHand /\ s = SlotOf(e, Distance(e), l)
                            /\ s[1] = l /\ s[2] = (Ticks(e) \div Span(l)) % LevelSize(l)
    <3>1. (Ticks(e) \div Span(l)) % LevelSize(l) \in 0 .. LevelSize(l) - 1
      BY <2>7, SpanFacts, DivDef
    <3> QED BY <2>7, <3>1, PlaceFacts
  <2>9. slots' = [rest EXCEPT ![s] = Append(@, x)]
    BY <1>1, <1>5, <2>1, <2>3, <2>7, <2>8 DEF Place
  <2>10. /\ slots' \in [Places -> Seq(TimerIds)] /\ Once(slots')
         /\ \A p \in Places : p # s => slots'[p] = rest[p]
         /\ Range(slots'[s]) = Range(rest[s]) \cup {x}
    <3>1. LET h == [rest EXCEPT ![s] = Append(@, x)]
          IN /\ h \in [Places -> Seq(TimerIds)] /\ Once(h)
             /\ \A p \in Places : p # s => h[p] = rest[p]
             /\ Range(h[s]) = Range(rest[s]) \cup {x}
      BY <1>1, OnceAppend
    <3> QED BY <2>9, <3>1
  <2>11. \A p \in Places : \A y : y \in Range(slots'[p]) <=>
                                    \/ y # x /\ y \in Range(slots[p])
                                    \/ y = x /\ p = s
    BY <1>1, <2>10
  <2>12. \A p \in Places : \A y \in Range(slots'[p]) : \E q \in Places : y \in Range(slots[q])
    BY <1>1, <1>3, <2>11
  <2>13. \A i \in ActiveIndices : \E p \in Places : IdAt(i) \in Range(slots'[p])
    BY <2>11 DEF EntriesPlaced, Holds
  <2>14. InTime(s, k)
    BY <2>3, <2>5, <2>6, <2>7, <2>8 DEF InTime
  <2>15. \A i \in ActiveIndices, p \in Places : IdAt(i) \in Range(slots'[p]) => InTime(p, i)
    <3>1. \A i \in ActiveIndices : IdAt(i) = x => i = k
      BY <2>1, SMTT(20) DEF IdAt
    <3> QED BY <2>11, <2>14, <3>1 DEF EntriesInTime, Holds
  <2> QED BY <1>2, <2>10, <2>12, <2>13, <2>15, SlotsOnly
<1> QED BY <1>4, <1>5

(***************************************************************************)
(* The loop of process_current_slot(): an id in hand on level 0 is due.    *)
(***************************************************************************)
LEMMA FireIdInv ==
  ASSUME WheelInv, FireId
  PROVE  WheelInv'
<1> USE DEF WheelInv
<1>1. PICK x \in TimerIds, rest \in [Places -> Seq(TimerIds)] :
        /\ x = Head(slots[InHand])
        /\ Once(rest)
        /\ x \in Range(slots[InHand])
        /\ \A p \in Places : x \notin Range(rest[p])
        /\ \A p \in Places : \A y : y # x => (y \in Range(rest[p]) <=> y \in Range(slots[p]))
        /\ slots' = rest
  <2>1. slots \in [Places -> Seq(TimerIds)] /\ Once(slots) /\ slots[InHand] # <<>>
    BY DEF WheelTypeOK, FireId
  <2>2. LET x == Head(slots[InHand])
            h == [slots EXCEPT ![InHand] = Tail(@)]
        IN /\ h \in [Places -> Seq(TimerIds)] /\ Once(h)
           /\ x \in TimerIds /\ x \in Range(slots[InHand])
           /\ \A p \in Places : x \notin Range(h[p])
           /\ \A p \in Places : \A y : y # x => (y \in Range(h[p]) <=> y \in Range(slots[p]))
    BY <2>1, OnceTail
  <2> QED BY <2>2 DEF FireId
<1>2. /\ todo = 1 /\ Release(x)
      /\ UNCHANGED <<now, current_slot, todo, timer_id>>
      /\ IF Live(slotmap, x) /\ state[slotmap[x[1]].wait] = "Pending"
         THEN /\ state' = [state EXCEPT ![slotmap[x[1]].wait] = "TimedOut"]
              /\ ready' = Append(ready, slotmap[x[1]].wait)
              /\ asked' = [asked EXCEPT ![slotmap[x[1]].wait].fired = now \div Units]
         ELSE UNCHANGED <<state, ready, asked>>
  BY <1>1 DEF FireId
<1>3. /\ slotmap' \in Seq([generation : Nat, active : BOOLEAN, deadline : Nat, wait : Waits])
      /\ free_indices' \in Seq(Nat) /\ active_count' \in Nat
      /\ DOMAIN slotmap' = DOMAIN slotmap
      /\ \A i \in DOMAIN slotmap : /\ slotmap'[i].generation = slotmap[i].generation
                                   /\ slotmap'[i].deadline = slotmap[i].deadline
                                   /\ slotmap'[i].wait = slotmap[i].wait
                                   /\ IdAt(i)' = IdAt(i)
      /\ \A y \in TimerIds : Live(slotmap', y) <=> Live(slotmap, y) /\ y # x
      /\ ActiveIndices' = {i \in ActiveIndices : IdAt(i) # x}
      /\ FreeList'
  BY <1>2, ReleaseFacts
<1>4. InHand \in Places
  BY PlaceFacts
<1>5. /\ asked' \in [Waits -> [delay : Nat, deadline : Nat, fired : Nat]]
      /\ ready' \in Seq(Waits)
      /\ state' \in [Waits -> {"idle", "Pending", "Ready", "TimedOut", "Cancelled", "resumed"}]
      /\ \A w \in Waits : /\ asked'[w].delay = asked[w].delay
                          /\ asked'[w].deadline = asked[w].deadline
      /\ \A w \in Waits : /\ asked'[w].fired = asked[w].fired
                             \/ /\ Live(slotmap, x) /\ w = slotmap[x[1]].wait
                                /\ asked'[w].fired = Ticks(now)
      /\ \A w \in Waits : \/ state'[w] = state[w]
                          \/ /\ Live(slotmap, x) /\ w = slotmap[x[1]].wait
                             /\ state'[w] = "TimedOut"
      /\ Live(slotmap, x) => state'[slotmap[x[1]].wait] # "Pending"
  <2> DEFINE w == slotmap[x[1]].wait
             R == [delay : Nat, deadline : Nat, fired : Nat]
  <2>1. asked \in [Waits -> R] /\ ready \in Seq(Waits)
        /\ state \in [Waits -> {"idle", "Pending", "Ready", "TimedOut", "Cancelled", "resumed"}]
    BY DEF WheelTypeOK
  <2>2. CASE Live(slotmap, x) /\ state[w] = "Pending"
    <3>1. w \in Waits
      BY <2>2, LiveIs, OwnerFacts
    <3>2. Ticks(now) \in Nat /\ Ticks(now) = now \div Units
      BY PassedFacts DEF Ticks
    <3>3. /\ state' = [state EXCEPT ![w] = "TimedOut"]
          /\ ready' = Append(ready, w)
          /\ asked' = [asked EXCEPT ![w].fired = Ticks(now)]
      BY <1>2, <2>2, <3>2
    <3> HIDE DEF w
    <3>4. asked' \in [Waits -> R]
          /\ \A v \in Waits : /\ asked'[v].delay = asked[v].delay
                              /\ asked'[v].deadline = asked[v].deadline
                              /\ asked'[v].fired = IF v = w THEN Ticks(now) ELSE asked[v].fired
      <4>1. \A r \in R : \A n \in Nat :
              /\ [r EXCEPT !.fired = n] \in R /\ [r EXCEPT !.fired = n].fired = n
              /\ [r EXCEPT !.fired = n].delay = r.delay
              /\ [r EXCEPT !.fired = n].deadline = r.deadline
        BY SMTT(20)
      <4>2. \A v \in Waits : asked[v] \in R
        BY <2>1
      <4>3. asked' = [asked EXCEPT ![w] = [asked[w] EXCEPT !.fired = Ticks(now)]]
        BY <3>3
      <4>4. asked' \in [Waits -> R] /\ asked'[w] = [asked[w] EXCEPT !.fired = Ticks(now)]
            /\ \A v \in Waits : v # w => asked'[v] = asked[v]
        <5> HIDE DEF R
        <5> QED BY <2>1, <3>1, <3>2, <4>1, <4>2, <4>3
      <4> HIDE DEF R
      <4>5. /\ asked'[w].delay = asked[w].delay /\ asked'[w].deadline = asked[w].deadline
            /\ asked'[w].fired = Ticks(now)
        <5>1. PICK r \in R, n \in Nat : r = asked[w] /\ n = Ticks(now)
          BY <3>1, <3>2, <4>2
        <5>2. asked'[w] = [r EXCEPT !.fired = n]
          BY <4>4, <5>1
        <5>3. asked'[w].delay = r.delay /\ asked'[w].deadline = r.deadline /\ asked'[w].fired = n
          BY <5>2, SMTT(20) DEF R
        <5> QED BY <5>1, <5>3
      <4> QED BY <4>4, <4>5
    <3>5. ready' \in Seq(Waits)
      BY <2>1, <3>1, <3>3, AppendIs
    <3>6. state' \in [Waits -> {"idle", "Pending", "Ready", "TimedOut", "Cancelled", "resumed"}]
          /\ state'[w] = "TimedOut" /\ \A v \in Waits : v # w => state'[v] = state[v]
      BY <2>1, <3>1, <3>3
    <3> QED BY <2>2, <3>4, <3>5, <3>6 DEF w
  <2>3. CASE ~(Live(slotmap, x) /\ state[w] = "Pending")
    BY <1>2, <2>1, <2>3
  <2> QED BY <2>2, <2>3
<1>6. WheelTypeOK'
  BY <1>1, <1>2, <1>3, <1>5 DEF WheelTypeOK
<1>7. Ticks(now)' = Ticks(now) /\ (\A l : Passed(l)' = Passed(l)) /\ \A d : Ticks(d)' = Ticks(d)
  BY <1>2 DEF Passed, Ticks
<1>8. ClockInv'
  <2>1. todo # 0
    BY <1>2, SMTT(20)
  <2> QED BY <1>2, <1>7, <2>1 DEF ClockInv
<1>9. IdsIssued'
  BY <1>1, <1>3 DEF IdsIssued
<1>10. \A i \in ActiveIndices' : i \in ActiveIndices /\ i \in DOMAIN slotmap /\ IdAt(i) # x
  BY <1>3, OwnerFacts
<1>11. EntriesPlaced'
  <2>1. ASSUME NEW i \in ActiveIndices'
        PROVE  \E p \in Places : Holds(p, i)'
    <3>1. i \in ActiveIndices /\ IdAt(i) # x /\ IdAt(i)' = IdAt(i)
      BY <1>3, <1>10
    <3>2. PICK p \in Places : IdAt(i) \in Range(slots[p])
      BY <3>1 DEF EntriesPlaced, Holds
    <3>3. IdAt(i) \in Range(slots'[p])
      BY <1>1, <3>1, <3>2
    <3> QED BY <3>1, <3>3 DEF Holds
  <2> QED BY <2>1 DEF EntriesPlaced
<1>12. \A i \in ActiveIndices' : ~(Live(slotmap, x) /\ slotmap[i].wait = slotmap[x[1]].wait)
  <2>1. ASSUME NEW i \in ActiveIndices', Live(slotmap, x), slotmap[i].wait = slotmap[x[1]].wait
        PROVE  FALSE
    <3>1. x[1] \in ActiveIndices /\ IdAt(x[1]) = x
      BY <2>1, LiveIs
    <3>2. timer_id[slotmap[x[1]].wait] = x
      BY <3>1 DEF EntriesOwned
    <3>3. timer_id[slotmap[i].wait] = IdAt(i)
      BY <1>10 DEF EntriesOwned
    <3> QED BY <1>10, <2>1, <3>2, <3>3
  <2> QED BY <2>1
<1>13. EntriesOwned'
  <2>1. ASSUME NEW i \in ActiveIndices'
        PROVE  LET v == slotmap'[i].wait
               IN /\ state'[v] \in {"Pending", "Ready"}
                  /\ timer_id'[v] = IdAt(i)'
                  /\ slotmap'[i].deadline = asked'[v].deadline
                  /\ slotmap'[i].deadline > 0
    <3>1. i \in ActiveIndices /\ i \in DOMAIN slotmap
      BY <1>10
    <3>2. PICK v \in Waits : v = slotmap[i].wait /\ state'[v] = state[v]
      BY <1>5, <1>12, <3>1, OwnerFacts
    <3>3. /\ state[v] \in {"Pending", "Ready"} /\ timer_id[v] = IdAt(i)
          /\ slotmap[i].deadline = asked[v].deadline /\ slotmap[i].deadline > 0
      BY <3>1, <3>2 DEF EntriesOwned
    <3>4. /\ slotmap'[i].wait = v /\ IdAt(i)' = IdAt(i)
          /\ slotmap'[i].deadline = slotmap[i].deadline
      BY <1>3, <3>1, <3>2
    <3>5. timer_id' = timer_id /\ asked'[v].deadline = asked[v].deadline
      BY <1>2, <1>5
    <3> QED BY <3>2, <3>3, <3>4, <3>5
  <2> QED BY <2>1 DEF EntriesOwned
<1>14. PendingLive'
  <2>1. ASSUME NEW v \in Waits, state'[v] = "Pending"
        PROVE  Live(slotmap', timer_id[v])
    <3>1. state[v] = "Pending" /\ ~(Live(slotmap, x) /\ v = slotmap[x[1]].wait)
      BY <1>5, <2>1
    <3>2. Live(slotmap, timer_id[v]) /\ timer_id[v] \in TimerIds
      BY <3>1, OwnerFacts DEF PendingLive
    <3>3. timer_id[v] # x
      BY <3>1, <3>2 DEF HandlesOwn
    <3> QED BY <1>3, <3>2, <3>3
  <2> QED BY <1>2, <2>1 DEF PendingLive
<1>15. HandlesOwn'
  <2>1. \A w \in Waits : Live(slotmap', timer_id[w]) => Live(slotmap, timer_id[w])
    BY <1>3, OwnerFacts
  <2>2. \A w \in Waits : Live(slotmap, timer_id[w]) => timer_id[w][1] \in DOMAIN slotmap
    BY DEF Live
  <2> QED BY <1>2, <1>3, <2>1, <2>2 DEF HandlesOwn
<1>16. \A w \in Waits : Short(w)' = Short(w)
  BY <1>5 DEF Short
<1>17. EntriesInTime'
  <2>1. ASSUME NEW i \in ActiveIndices', NEW p \in Places, Holds(p, i)'
        PROVE  InTime(p, i)'
    <3>1. i \in ActiveIndices /\ Holds(p, i) /\ i \in DOMAIN slotmap
      BY <1>1, <1>3, <1>10, <2>1 DEF Holds
    <3>2. InTime(p, i) /\ slotmap[i].wait \in Waits
      BY <3>1, OwnerFacts DEF EntriesInTime
    <3>3. /\ Short(slotmap[i].wait)' = Short(slotmap[i].wait)
          /\ Ticks(slotmap[i].deadline)' = Ticks(slotmap[i].deadline)
      BY <1>3, <1>5, <3>1, <3>2 DEF Short, Ticks
    <3>4. slotmap'[i].wait = slotmap[i].wait /\ slotmap'[i].deadline = slotmap[i].deadline
      BY <1>3, <3>1
    <3> QED BY <1>2, <1>7, <3>2, <3>3, <3>4 DEF InTime
  <2> QED BY <2>1 DEF EntriesInTime
<1>18. ASSUME Live(slotmap, x)
       PROVE  LET w == slotmap[x[1]].wait
                  last == Ticks(asked[w].deadline) + 1
              IN Ticks(now) <= last /\ (Short(w) => Ticks(now) = last)
  <2>1. PICK k \in ActiveIndices : k = x[1] /\ IdAt(k) = x
    BY <1>18, LiveIs
  <2>2. PICK due \in Nat : due = Ticks(slotmap[k].deadline)
    BY <2>1, OwnerFacts, EntryFacts, TicksFacts
  <2>3. InTime(InHand, k)
    BY <1>1, <1>4, <2>1 DEF EntriesInTime, Holds
  <2>4. todo - 1 = 0 /\ Span(0) = 1 /\ 0 \in Levels /\ ~(0 + 1 < todo)
    BY <1>2, SpanFacts, SMTT(20)
  <2>5. /\ Ticks(now) <= due + 1
        /\ Short(slotmap[k].wait) => (due \div 1) + 1 = Passed(0)
    BY <2>2, <2>3, <2>4 DEF InTime
  <2>6. due \div 1 = due
    BY SMTT(20)
  <2>7. Ticks(now) \in Nat
    BY PassedFacts
  <2>8. Passed(0) = Ticks(now)
    BY <2>4, <2>7, SMTT(20) DEF Passed, Ceil
  <2>9. slotmap[k].deadline = asked[slotmap[k].wait].deadline
    BY <2>1 DEF EntriesOwned
  <2> QED BY <2>1, <2>2, <2>5, <2>6, <2>8, <2>9
<1>19. FiredInTime'
  <2>1. ASSUME NEW w \in Waits
        PROVE  LET last == Ticks(asked[w].deadline) + 1
               IN /\ asked'[w].fired <= last
                  /\ asked'[w].fired # 0 /\ Short(w) => asked'[w].fired = last
    <3>1. CASE asked'[w].fired = asked[w].fired
      BY <3>1 DEF FiredInTime
    <3>2. CASE Live(slotmap, x) /\ w = slotmap[x[1]].wait /\ asked'[w].fired = Ticks(now)
      BY <1>18, <3>2
    <3> QED BY <1>5, <3>1, <3>2
  <2>2. \A w \in Waits : Ticks(asked[w].deadline)' = Ticks(asked[w].deadline)
    BY <1>5 DEF Ticks
  <2> QED BY <1>5, <1>16, <2>1, <2>2 DEF FiredInTime
<1> QED BY <1>1, <1>3, <1>6, <1>8, <1>9, <1>11, <1>13, <1>14, <1>15, <1>17, <1>19

(***************************************************************************)
(* schedule(): the new id was never in the wheel, and its slot is ahead.   *)
(***************************************************************************)
LEMMA ScheduleInv ==
  ASSUME WheelInv, todo = 0, NEW w \in Waits, NEW d \in Delays, Schedule(w, d)
  PROVE  WheelInv'
<1> USE DEF WheelInv
<1>1. PICK k \in Nat \ {0}, g \in Nat :
           /\ k \notin ActiveIndices
           /\ DOMAIN slotmap' = DOMAIN slotmap \cup {k}
           /\ slotmap'[k] = [generation |-> g, active |-> TRUE, deadline |-> now + d, wait |-> w]
           /\ \A i \in DOMAIN slotmap : i # k => slotmap'[i] = slotmap[i]
           /\ k \in DOMAIN slotmap => slotmap[k].generation < g
           /\ slots' = Place(slots, <<k, g>>, now + d)
           /\ timer_id' = [timer_id EXCEPT ![w] = <<k, g>>]
           /\ slotmap' \in Seq([generation : Nat, active : BOOLEAN, deadline : Nat, wait : Waits])
           /\ free_indices' \in Seq(Nat) /\ active_count' \in Nat
           /\ FreeList'
  BY ScheduleFacts
<1>2. PICK x \in TimerIds : x = <<k, g>> /\ x[1] = k /\ x[2] = g
  <2>1. <<k, g>> \in TimerIds /\ <<k, g>>[1] = k /\ <<k, g>>[2] = g
    BY SMTT(20) DEF TimerIds
  <2> QED BY <2>1
<1>3. PICK e \in Nat : e = now + d /\ e > 0 /\ d \in Nat
  BY DelaysAssumption, SMTT(20) DEF WheelTypeOK
<1>4. /\ slotmap'[k].generation = g /\ slotmap'[k].active = TRUE
      /\ slotmap'[k].deadline = e /\ slotmap'[k].wait = w
  BY <1>1, <1>3, SMTT(20)
<1>5. /\ asked' = [asked EXCEPT ![w] = [delay |-> d, deadline |-> e, fired |-> 0]]
      /\ state[w] = "idle" /\ state' = [state EXCEPT ![w] = "Pending"]
      /\ UNCHANGED <<now, current_slot, todo, ready>>
  BY <1>3 DEF Schedule
<1>6. /\ asked' \in [Waits -> [delay : Nat, deadline : Nat, fired : Nat]]
      /\ asked'[w].delay = d /\ asked'[w].deadline = e /\ asked'[w].fired = 0
      /\ \A v \in Waits : v # w => asked'[v] = asked[v]
  BY <1>3, <1>5, SMTT(20) DEF WheelTypeOK
<1>7. /\ state' \in [Waits -> {"idle", "Pending", "Ready", "TimedOut", "Cancelled", "resumed"}]
      /\ state'[w] = "Pending" /\ \A v \in Waits : v # w => state'[v] = state[v]
  BY <1>5 DEF WheelTypeOK
<1>8. /\ timer_id' \in [Waits -> TimerIds]
      /\ timer_id'[w] = x /\ \A v \in Waits : v # w => timer_id'[v] = timer_id[v]
  BY <1>1, <1>2 DEF WheelTypeOK
<1>9. /\ ActiveIndices' = ActiveIndices \cup {k}
      /\ IdAt(k)' = x
      /\ \A i \in DOMAIN slotmap : i # k => IdAt(i)' = IdAt(i)
  <2>1. ActiveIndices' = ActiveIndices \cup {k}
    BY <1>1, <1>4 DEF ActiveIndices
  <2>2. \A i \in DOMAIN slotmap : i # k => slotmap'[i].generation = slotmap[i].generation
    BY <1>1
  <2> QED BY <1>2, <1>4, <2>1, <2>2 DEF IdAt
<1>10. \A p \in Places : x \notin Range(slots[p])
  <2>1. ASSUME NEW p \in Places, x \in Range(slots[p])
        PROVE  FALSE
    <3>1. k \in DOMAIN slotmap /\ g <= slotmap[k].generation
      BY <1>2, <2>1 DEF IdsIssued
    <3>2. slotmap[k].generation \in Nat
      BY <3>1, EntryFacts
    <3> QED BY <1>1, <3>1, <3>2, SMTT(20)
  <2> QED BY <2>1
<1>11. /\ Ticks(now) \in Nat /\ Ticks(e) \in Nat /\ Ticks(d) \in Nat
       /\ Ticks(e) = Ticks(now) + Ticks(d)
  <2>1. Ticks(now) \in Nat /\ now = Units * Ticks(now)
    BY PassedFacts DEF ClockInv
  <2>2. Ticks(e) \in Nat /\ Ticks(d) \in Nat
    BY <1>3, TicksFacts
  <2>3. Ticks(Units * Ticks(now) + d) = Ticks(now) + Ticks(d)
    BY <1>3, <2>1, TicksFacts
  <2> QED BY <1>3, <2>1, <2>2, <2>3
<1>12. d < Span(2) * Units => Ticks(e) < Ticks(now) + Span(2)
  <2>1. Span(2) \in Nat \ {0} /\ Units \in Nat \ {0}
    BY SpanFacts, SizesAssumption, SMTT(20)
  <2>2. ASSUME d < Span(2) * Units
        PROVE  Ticks(d) < Span(2)
    <3>1. Span(2) * Units = Units * Span(2)
      BY <2>1, SMTT(20)
    <3> QED BY <1>3, <2>1, <2>2, <3>1, DivBelow DEF Ticks
  <2>3. Ticks(d) < Span(2) => Ticks(now) + Ticks(d) < Ticks(now) + Span(2)
    BY <1>11, <2>1, SMTT(20)
  <2> QED BY <1>11, <2>2, <2>3
<1>13. Ticks(now) <= Ticks(e) /\ Ticks(now) <= Ticks(e) + 1 /\ todo # 1
  BY <1>11, SMTT(20)
<1>14. PICK l \in Levels :
          /\ l = LevelOf(Distance(e))
          /\ SlotOf(e, Distance(e), l) = <<l, (Ticks(e) \div Span(l)) % LevelSize(l)>>
          /\ Ticks(e) \div Span(l) \in Nat
          /\ Passed(l) <= Ticks(e) \div Span(l)
          /\ Ticks(e) < Ticks(now) + Span(2)
               => l <= 1 /\ Ticks(e) \div Span(l) < Passed(l) + LevelSize(l)
  BY <1>13, PlacedInTime
<1>15. PICK s \in Places : /\ s # InHand /\ s = SlotOf(e, Distance(e), l)
                           /\ s[1] = l /\ s[2] = (Ticks(e) \div Span(l)) % LevelSize(l)
  <2>1. (Ticks(e) \div Span(l)) % LevelSize(l) \in 0 .. LevelSize(l) - 1
    BY <1>14, SpanFacts, DivDef
  <2> QED BY <1>14, <2>1, PlaceFacts
<1>16. /\ slots' \in [Places -> Seq(TimerIds)] /\ Once(slots')
       /\ \A p \in Places : p # s => slots'[p] = slots[p]
       /\ Range(slots'[s]) = Range(slots[s]) \cup {x}
  <2>1. slots' = [slots EXCEPT ![s] = Append(@, x)]
    BY <1>1, <1>2, <1>3, <1>14, <1>15 DEF Place
  <2>2. slots \in [Places -> Seq(TimerIds)] /\ Once(slots)
    BY DEF WheelTypeOK
  <2>3. LET h == [slots EXCEPT ![s] = Append(@, x)]
        IN /\ h \in [Places -> Seq(TimerIds)] /\ Once(h)
           /\ \A p \in Places : p # s => h[p] = slots[p]
           /\ Range(h[s]) = Range(slots[s]) \cup {x}
    BY <1>10, <2>2, OnceAppend
  <2> QED BY <2>1, <2>3
<1>17. \A p \in Places : \A y : y \in Range(slots'[p]) <=>
                                  \/ y # x /\ y \in Range(slots[p])
                                  \/ y = x /\ p = s
  BY <1>10, <1>16
<1>18. WheelTypeOK'
  BY <1>1, <1>5, <1>6, <1>7, <1>8, <1>16 DEF WheelTypeOK
<1>19. Ticks(now)' = Ticks(now) /\ (\A m : Passed(m)' = Passed(m)) /\ \A a : Ticks(a)' = Ticks(a)
  BY <1>5 DEF Passed, Ticks
<1>20. ClockInv'
  <2>1. slots'[InHand] = slots[InHand]
    BY <1>15, <1>16, PlaceFacts
  <2> QED BY <1>5, <1>19, <2>1 DEF ClockInv
<1>21. \A y \in TimerIds : y[1] \in DOMAIN slotmap /\ y[2] <= slotmap[y[1]].generation
         => y[1] \in DOMAIN slotmap' /\ y[2] <= slotmap'[y[1]].generation /\ y # x
  <2>1. ASSUME NEW y \in TimerIds, y[1] \in DOMAIN slotmap, y[2] <= slotmap[y[1]].generation
        PROVE  y[1] \in DOMAIN slotmap' /\ y[2] <= slotmap'[y[1]].generation /\ y # x
    <3>1. slotmap[y[1]].generation \in Nat /\ y[2] \in Nat
      BY <2>1, EntryFacts, SMTT(20) DEF TimerIds
    <3>2. CASE y[1] = k
      <4>1. y[2] < g
        BY <1>1, <2>1, <3>1, <3>2, SMTT(20)
      <4> QED BY <1>1, <1>2, <1>4, <3>1, <3>2, <4>1, SMTT(20)
    <3>3. CASE y[1] # k
      BY <1>1, <1>2, <2>1, <3>3
    <3> QED BY <3>2, <3>3
  <2> QED BY <2>1
<1>22. x[1] \in DOMAIN slotmap' /\ x[2] <= slotmap'[x[1]].generation
  <2>1. g <= g
    BY SMTT(20)
  <2> QED BY <1>1, <1>2, <1>4, <2>1
<1>23. IdsIssued'
  <2>1. \A p \in Places : \A y \in Range(slots[p]) : y \in TimerIds
    <3>1. \A q \in Seq(TimerIds) : \A j \in DOMAIN q : q[j] \in TimerIds
      BY SMTT(20)
    <3>2. \A p \in Places : slots[p] \in Seq(TimerIds)
      BY DEF WheelTypeOK
    <3> QED BY <3>1, <3>2 DEF Range
  <2> QED BY <1>17, <1>21, <1>22, <2>1 DEF IdsIssued
<1>24. \A i \in ActiveIndices : /\ i \in DOMAIN slotmap /\ i # k
                                /\ slotmap'[i] = slotmap[i] /\ IdAt(i)' = IdAt(i)
                                /\ IdAt(i) # x
                                /\ slotmap[i].wait \in Waits /\ slotmap[i].wait # w
  <2>1. \A i \in ActiveIndices : i \in DOMAIN slotmap /\ i # k /\ slotmap[i].wait \in Waits
    BY <1>1, OwnerFacts
  <2>2. \A i \in ActiveIndices : slotmap[i].wait # w
    BY <1>5 DEF EntriesOwned
  <2>3. \A i \in ActiveIndices : IdAt(i) # x
    BY <1>2, <2>1, SMTT(20) DEF IdAt
  <2> QED BY <1>1, <1>9, <2>1, <2>2, <2>3
<1>25. EntriesPlaced'
  <2>1. ASSUME NEW i \in ActiveIndices
        PROVE  \E p \in Places : Holds(p, i)'
    <3>1. PICK p \in Places : IdAt(i) \in Range(slots[p])
      BY DEF EntriesPlaced, Holds
    <3>2. IdAt(i)' \in Range(slots'[p])
      BY <1>17, <1>24, <3>1
    <3> QED BY <3>2 DEF Holds
  <2>2. Holds(s, k)'
    BY <1>9, <1>17 DEF Holds
  <2> QED BY <1>9, <2>1, <2>2 DEF EntriesPlaced
<1>26. EntriesOwned'
  <2>1. ASSUME NEW i \in ActiveIndices
        PROVE  LET v == slotmap'[i].wait
               IN /\ state'[v] \in {"Pending", "Ready"}
                  /\ timer_id'[v] = IdAt(i)'
                  /\ slotmap'[i].deadline = asked'[v].deadline
                  /\ slotmap'[i].deadline > 0
    <3>1. PICK v \in Waits : v = slotmap[i].wait /\ v # w
      BY <1>24
    <3>2. /\ state[v] \in {"Pending", "Ready"} /\ timer_id[v] = IdAt(i)
          /\ slotmap[i].deadline = asked[v].deadline /\ slotmap[i].deadline > 0
      BY <3>1 DEF EntriesOwned
    <3>3. slotmap'[i] = slotmap[i] /\ IdAt(i)' = IdAt(i) /\ slotmap'[i].wait = v
      BY <1>24, <3>1
    <3>4. state'[v] = state[v] /\ timer_id'[v] = timer_id[v] /\ asked'[v] = asked[v]
      BY <1>6, <1>7, <1>8, <3>1
    <3> QED BY <3>2, <3>3, <3>4
  <2>2. LET v == slotmap'[k].wait
        IN /\ state'[v] \in {"Pending", "Ready"}
           /\ timer_id'[v] = IdAt(k)'
           /\ slotmap'[k].deadline = asked'[v].deadline
           /\ slotmap'[k].deadline > 0
    BY <1>3, <1>4, <1>6, <1>7, <1>8, <1>9
  <2> QED BY <1>9, <2>1, <2>2 DEF EntriesOwned
<1>27. Live(slotmap', x) /\ slotmap'[x[1]].wait = w
  BY <1>1, <1>2, <1>4 DEF Live
<1>28. PendingLive'
  <2>1. ASSUME NEW v \in Waits, v # w, state[v] = "Pending"
        PROVE  Live(slotmap', timer_id[v])
    <3>1. Live(slotmap, timer_id[v]) /\ timer_id[v] \in TimerIds
      BY <2>1, OwnerFacts DEF PendingLive
    <3>2. timer_id[v][1] \in ActiveIndices
      BY <3>1, LiveIs
    <3> QED BY <1>1, <1>24, <3>1, <3>2 DEF Live
  <2> QED BY <1>7, <1>8, <1>27, <2>1 DEF PendingLive
<1>29. HandlesOwn'
  <2>1. ASSUME NEW v \in Waits, v # w
        PROVE  /\ timer_id[v] # NoId => /\ timer_id[v][1] \in DOMAIN slotmap'
                                        /\ timer_id[v][2] <= slotmap'[timer_id[v][1]].generation
               /\ Live(slotmap', timer_id[v]) => slotmap'[timer_id[v][1]].wait = v
    <3>1. timer_id[v] \in TimerIds /\ timer_id[v] = <<timer_id[v][1], timer_id[v][2]>>
      BY OwnerFacts, SMTT(20) DEF TimerIds
    <3>2. timer_id[v] # NoId => /\ timer_id[v][1] \in DOMAIN slotmap
                                /\ timer_id[v][2] <= slotmap[timer_id[v][1]].generation
      BY DEF HandlesOwn
    <3>3. timer_id[v] # NoId => /\ timer_id[v][1] \in DOMAIN slotmap'
                                /\ timer_id[v][2] <= slotmap'[timer_id[v][1]].generation
                                /\ timer_id[v] # x
      BY <1>21, <3>1, <3>2
    <3>4. timer_id[v] # x
      <4>1. NoId # x
        BY <1>2, SMTT(20) DEF NoId
      <4> QED BY <3>3, <4>1
    <3>5. ASSUME Live(slotmap', timer_id[v])
          PROVE  slotmap'[timer_id[v][1]].wait = v
      <4>1. timer_id[v][1] # k
        BY <1>2, <1>4, <3>1, <3>4, <3>5 DEF Live
      <4>2. timer_id[v][1] \in DOMAIN slotmap
        BY <1>1, <3>5, <4>1 DEF Live
      <4>3. Live(slotmap, timer_id[v])
        BY <1>1, <3>5, <4>1, <4>2 DEF Live
      <4> QED BY <1>1, <4>1, <4>2, <4>3 DEF HandlesOwn
    <3> QED BY <3>3, <3>5
  <2> QED BY <1>8, <1>22, <1>27, <2>1 DEF HandlesOwn
<1>30. /\ Short(w)' <=> d < Span(2) * Units
       /\ \A v \in Waits : v # w => (Short(v)' <=> Short(v))
  BY <1>6 DEF Short
<1>31. EntriesInTime'
  <2>1. ASSUME NEW i \in ActiveIndices, NEW p \in Places, Holds(p, i)'
        PROVE  InTime(p, i)'
    <3>1. Holds(p, i)
      BY <1>17, <1>24, <2>1 DEF Holds
    <3>2. InTime(p, i)
      BY <3>1 DEF EntriesInTime
    <3>3. /\ Short(slotmap[i].wait)' <=> Short(slotmap[i].wait)
          /\ Ticks(slotmap[i].deadline)' = Ticks(slotmap[i].deadline)
      BY <1>6, <1>24 DEF Short, Ticks
    <3> QED BY <1>5, <1>19, <1>24, <3>2, <3>3 DEF InTime
  <2>2. ASSUME NEW p \in Places, Holds(p, k)'
        PROVE  InTime(p, k)'
    <3>1. p = s
      BY <1>9, <1>17, <2>2 DEF Holds
    <3>2. /\ Short(slotmap[k].wait)' <=> d < Span(2) * Units
          /\ Ticks(slotmap[k].deadline)' = Ticks(e)
      BY <1>4, <1>6 DEF Short, Ticks
    <3> QED BY <1>12, <1>14, <1>15, <1>19, <3>1, <3>2 DEF InTime
  <2> QED BY <1>9, <2>1, <2>2 DEF EntriesInTime
<1>32. FiredInTime'
  <2>1. 0 <= Ticks(e) + 1
    BY <1>11, SMTT(20)
  <2>2. Ticks(asked[w].deadline)' = Ticks(e)
        /\ \A v \in Waits : v # w => Ticks(asked[v].deadline)' = Ticks(asked[v].deadline)
    BY <1>6 DEF Ticks
  <2> QED BY <1>6, <1>30, <2>1, <2>2 DEF FiredInTime
<1> QED BY <1>1, <1>16, <1>18, <1>20, <1>23, <1>25, <1>26, <1>28, <1>29, <1>31, <1>32

\* Every step of the wheel.
LEMMA WheelStep == WheelInv /\ [WheelNext]_wheelVars => WheelInv'
<1> SUFFICES ASSUME WheelInv, [WheelNext]_wheelVars PROVE WheelInv'
  OBVIOUS
<1>1. CASE todo = 0 /\ Tick
  BY <1>1, TickInv
<1>2. CASE ResumeWait
  BY <1>2, ResumeWaitInv
<1>3. CASE \E w \in Waits : CancelWait(w)
  BY <1>3, CancelWaitInv
<1>4. CASE \E w \in Waits : ReactorFires(w)
  BY <1>4, ReactorFiresInv
<1>5. CASE todo = 0 /\ \E w \in Waits : \E d \in Delays : Schedule(w, d)
  BY <1>5, ScheduleInv
<1>6. CASE CascadeId
  BY <1>6, CascadeIdInv
<1>7. CASE CascadeEnd
  BY <1>7, CascadeEndInv
<1>8. CASE FireId
  BY <1>8, FireIdInv
<1>9. CASE TickEnd
  BY <1>9, TickEndInv
<1>10. CASE UNCHANGED wheelVars
  <2>1. /\ UNCHANGED <<now, slots, current_slot, todo, slotmap, free_indices, active_count>>
        /\ UNCHANGED <<ready, state, timer_id, asked>>
    BY <1>10 DEF wheelVars, tableVars, timedVars
  <2>2. ActiveIndices' = ActiveIndices /\ (\A i : IdAt(i)' = IdAt(i))
        /\ \A l : Passed(l)' = Passed(l)
    BY <2>1 DEF ActiveIndices, IdAt, Passed, Ticks
  <2>3. WheelTypeOK' /\ ClockInv' /\ Once(slots') /\ IdsIssued' /\ FreeList'
    <3>1. WheelTypeOK'
      BY <2>1 DEF WheelInv, WheelTypeOK
    <3>2. ClockInv'
      BY <2>1, <2>2 DEF WheelInv, ClockInv, Ticks
    <3> QED BY <2>1, <2>2, <3>1, <3>2 DEF WheelInv, IdsIssued, FreeList
  <2>4. EntriesPlaced' /\ EntriesOwned' /\ PendingLive' /\ HandlesOwn' /\ FiredInTime'
    BY <2>1, <2>2 DEF WheelInv, EntriesPlaced, Holds, EntriesOwned, PendingLive, HandlesOwn,
                      FiredInTime, Ticks, Short
  <2>5. EntriesInTime'
    BY <2>1, <2>2 DEF WheelInv, EntriesInTime, Holds, InTime, Ticks, Short
  <2> QED BY <2>3, <2>4, <2>5 DEF WheelInv
<1> QED BY <1>1, <1>2, <1>3, <1>4, <1>5, <1>6, <1>7, <1>8, <1>9, <1>10 DEF WheelNext, Call

\* The wheel's inductive invariant holds in every reachable state.
THEOREM WheelInvariant == WheelSpec => []WheelInv
<1>1. WheelInit => WheelInv
  BY WheelInitInv
<1>2. WheelInv /\ [WheelNext]_wheelVars => WheelInv'
  BY WheelStep
<1> QED BY <1>1, <1>2, PTL DEF WheelSpec

(***************************************************************************)
(* Between ticks the slot of a pending timer is not passed, so its         *)
(* deadline's tick is not over.                                            *)
(***************************************************************************)
LEMMA PendingNotLate ==
  ASSUME WheelInv, todo = 0, NEW w \in Waits, state[w] = "Pending"
  PROVE  Ticks(now) < Ticks(asked[w].deadline) + 1
<1> USE DEF WheelInv
<1>1. Live(slotmap, timer_id[w]) /\ timer_id[w] \in TimerIds
  BY OwnerFacts DEF PendingLive
<1>2. PICK i \in ActiveIndices : i = timer_id[w][1] /\ IdAt(i) = timer_id[w]
  BY <1>1, LiveIs
<1>3. slotmap[i].wait = w
  BY <1>1, <1>2 DEF HandlesOwn
<1>4. slotmap[i].deadline = asked[w].deadline
  BY <1>2, <1>3 DEF EntriesOwned
<1>5. PICK p \in Places : Holds(p, i)
  BY <1>2 DEF EntriesPlaced
<1>6. p # InHand
  <2>1. Range(<<>>) = {}
    BY SMTT(20) DEF Range
  <2> QED BY <1>5, <2>1 DEF Holds, ClockInv
<1>7. PICK l \in Levels : l = p[1]
  BY <1>6, PlaceFacts
<1>8. PICK t \in Nat : t = Ticks(now)
  BY PassedFacts
<1>9. PICK due \in Nat : due = Ticks(asked[w].deadline)
  BY <1>2, <1>4, OwnerFacts, EntryFacts, TicksFacts
<1>10. PICK n \in Nat \ {0} : n = Span(l)
  BY <1>7, SpanFacts
<1>11. Passed(l) <= due \div n
  BY <1>2, <1>4, <1>5, <1>6, <1>7, <1>9, <1>10 DEF EntriesInTime, InTime
<1>12. Passed(l) = Ceil(t, n)
  <2>1. ~ l + 1 < todo
    BY <1>7, SpanFacts, SMTT(20)
  <2> QED BY <1>8, <1>10, <2>1 DEF Passed
<1>13. t <= due
  <2> DEFINE c == Ceil(t, n)
             q == due \div n
             r == due % n
             m == (t + (n - 1)) % n
  <2>1. q \in Nat /\ r \in 0 .. n - 1 /\ due = n * q + r
    BY DivDef
  <2>2. t + (n - 1) \in Nat
    BY SMTT(20)
  <2>3. c \in Nat /\ m \in 0 .. n - 1 /\ t + (n - 1) = n * c + m
    BY <2>2, DivDef DEF Ceil
  <2>4. c <= q
    BY <1>11, <1>12
  <2> HIDE DEF c, q, r, m
  <2>5. n * c <= n * q
    BY <2>1, <2>3, <2>4, TimesMono
  <2>6. n * c \in Nat /\ n * q \in Nat
    BY <2>1, <2>3, SMTT(20)
  <2> QED BY <2>1, <2>3, <2>5, <2>6, SMTT(20)
<1> QED BY <1>8, <1>9, <1>13, SMTT(20)

(***************************************************************************)
(* No timer of the wheel is a lap late, for every size of the levels and   *)
(* every delay: place(), cascade() and process_current_slot() of timer.hpp *)
(* visit each timer no later than the tick after that of its deadline.     *)
(***************************************************************************)
THEOREM TimersFireOnTime == WheelSpec => []FiresOnTime
<1>1. WheelInv => FiresOnTime
  <2> SUFFICES ASSUME WheelInv PROVE FiresOnTime
    OBVIOUS
  <2>1. \A w \in Waits : todo = 0 /\ state[w] = "Pending"
                           => Ticks(now) < Ticks(asked[w].deadline) + 1
    BY PendingNotLate
  <2>2. FiredInTime
    BY DEF WheelInv
  <2> QED BY <2>1, <2>2 DEF FiresOnTime, FiredInTime, Short
<1> QED BY <1>1, WheelInvariant, PTL

\* Type correctness of the wheel.
THEOREM WheelTypeCorrect == WheelSpec => []WheelTypeOK
<1>1. WheelInv => WheelTypeOK
  BY DEF WheelInv
<1> QED BY <1>1, WheelInvariant, PTL

\* A set of naturals that is not empty has a minimum.
LEMMA MinIn ==
  ASSUME NEW S, S \subseteq Nat, S # {}
  PROVE  Min(S) \in S
<1>1. PICK x \in S : \A y \in S : ~ (<<y, x>> \in OpToRel(<, Nat))
  BY NatLessThanWellFounded, WFMin
<1>2. \A y \in S : ~ (y < x)
  <2>1. ASSUME NEW y \in S, y < x
        PROVE  <<y, x>> \in OpToRel(<, Nat)
    <3>1. y \in Nat /\ x \in Nat
      OBVIOUS
    <3>2. <<y, x>> \in Nat \X Nat
      BY <3>1, SMTT(20)
    <3> QED BY <2>1, <3>1, <3>2 DEF OpToRel
  <2> QED BY <1>1, <2>1
<1>3. \A y \in S : x <= y
  BY <1>2, SMTT(20)
<1> QED BY <1>3, Zenon DEF Min

\* The scan of next_deadline() from the current slot meets every slot of the level.
LEMMA ScanReaches ==
  ASSUME NEW n \in Nat \ {0}, NEW c \in 0 .. n - 1, NEW k \in 0 .. n - 1
  PROVE  \E i \in 0 .. n - 1 : (c + i) % n = k
<1>1. CASE c <= k
  <2>1. k - c \in 0 .. n - 1 /\ c + (k - c) = k
    BY <1>1, SMTT(20)
  <2>2. k % n = k
    BY SMTT(20)
  <2> QED BY <2>1, <2>2
<1>2. CASE k < c
  <2>1. (k + n) - c \in 0 .. n - 1 /\ c + ((k + n) - c) = k + n
    BY <1>2, SMTT(20)
  <2>2. k + n \in Nat /\ 1 \in Nat /\ n * 1 <= k + n /\ k + n < n * 1 + n /\ n * 1 = n
    BY SMTT(20)
  <2>3. (k + n) % n = k
    <3>1. (k + n) \div n = 1
      BY <2>2, DivUnique
    <3>2. (k + n) % n \in 0 .. n - 1 /\ k + n = n * 1 + ((k + n) % n)
      BY <2>2, <3>1, DivDef
    <3> QED BY <2>2, <3>2, SMTT(20)
  <2> QED BY <2>1, <2>3
<1> QED BY <1>1, <1>2, SMTT(20)

(***************************************************************************)
(* next_deadline() finds a deadline exactly when a timer is active.        *)
(***************************************************************************)
LEMMA NextDeadlineFinds ==
  ASSUME WheelInv, todo = 0
  PROVE  NextDeadline = 0 <=> ActiveIndices = {}
<1> USE DEF WheelInv
<1> DEFINE found == {l \in Levels : \E k \in 0 .. LevelSize(l) - 1 : LiveIds(<<l, k>>) # {}}
           m == Min(found)
           p == FirstSlot(m)
           js == {j \in DOMAIN slots[p] : Live(slotmap, slots[p][j])}
           ds == {slotmap[id[1]].deadline : id \in LiveIds(p)}
<1>1. active_count = 0 <=> ActiveIndices = {}
  BY ActiveFinite, FS_EmptySet DEF FreeList
<1>2. CASE ActiveIndices = {}
  BY <1>1, <1>2 DEF NextDeadline
<1>3. CASE ActiveIndices # {}
  <2>1. PICK i \in ActiveIndices : TRUE
    BY <1>3
  <2>2. PICK q \in Places : Holds(q, i)
    BY DEF EntriesPlaced
  <2>3. q # InHand
    <3>1. Range(<<>>) = {}
      BY SMTT(20) DEF Range
    <3> QED BY <2>2, <3>1 DEF Holds, ClockInv
  <2>4. found # {} /\ found \subseteq Nat
    <3>1. IdAt(i) \in LiveIds(q)
      BY <2>2, OwnerFacts DEF Holds, LiveIds
    <3>2. q[1] \in Levels /\ q[2] \in 0 .. LevelSize(q[1]) - 1 /\ q = <<q[1], q[2]>>
      BY <2>3, PlaceFacts
    <3>3. q[1] \in found
      BY <3>1, <3>2
    <3>4. found \subseteq Nat
      BY SpanFacts, SMTT(20)
    <3> QED BY <3>3, <3>4
  <2>5. m \in found
    <3> HIDE DEF found
    <3> QED BY <2>4, MinIn
  <2>6. PICK l \in Levels : l = m /\ \E k \in 0 .. LevelSize(l) - 1 : LiveIds(<<l, k>>) # {}
    BY <2>5
  <2> HIDE DEF m
  <2>7. LiveIds(p) # {} /\ p \in Places
    <3>1. LevelSize(l) \in Nat \ {0}
      BY SpanFacts
    <3>2. current_slot[l] \in 0 .. LevelSize(l) - 1
      <4>1. l + 1 # todo /\ Passed(l) \in Nat
        BY SpanFacts, PassedFacts, SMTT(20)
      <4>2. current_slot[l] = Passed(l) % LevelSize(l)
        BY <4>1 DEF ClockInv
      <4> QED BY <3>1, <4>1, <4>2, DivDef
    <3> DEFINE At(j) == <<l, (current_slot[l] + j) % LevelSize(l)>>
               scan == {j \in 0 .. LevelSize(l) - 1 : LiveIds(At(j)) # {}}
    <3>3. p = At(Min(scan))
      BY <2>6 DEF FirstSlot
    <3>4. scan # {} /\ scan \subseteq Nat
      <4> PICK k \in 0 .. LevelSize(l) - 1 : LiveIds(<<l, k>>) # {}
        BY <2>6
      <4>1. PICK j \in 0 .. LevelSize(l) - 1 : (current_slot[l] + j) % LevelSize(l) = k
        BY <3>1, <3>2, ScanReaches
      <4>2. j \in scan
        BY <4>1
      <4>3. \A j1 \in 0 .. LevelSize(l) - 1 : j1 \in Nat
        BY SMTT(20)
      <4> QED BY <4>2, <4>3
    <3>5. Min(scan) \in scan
      <4> HIDE DEF scan
      <4> QED BY <3>4, MinIn
    <3>6. LiveIds(At(Min(scan))) # {}
      BY <3>5
    <3>7. (current_slot[l] + Min(scan)) % LevelSize(l) \in 0 .. LevelSize(l) - 1
      <4>1. current_slot[l] + Min(scan) \in Nat
        <5>1. Min(scan) \in Nat
          BY <3>4, <3>5
        <5> HIDE DEF scan
        <5> QED BY <3>1, <3>2, <5>1, SMTT(20)
      <4> HIDE DEF scan
      <4> QED BY <3>1, <4>1, DivDef
    <3>8. At(Min(scan)) \in Places
      BY <3>7, PlaceFacts
    <3> QED BY <3>3, <3>6, <3>8
  <2> HIDE DEF p
  <2>8. \A id \in LiveIds(p) : slotmap[id[1]].deadline \in Nat /\ slotmap[id[1]].deadline > 0
    <3>1. \A x \in TimerIds : Live(slotmap, x) => x[1] \in ActiveIndices
      BY LiveIs
    <3>2. \A x \in ActiveIndices : slotmap[x].deadline \in Nat /\ slotmap[x].deadline > 0
      BY OwnerFacts, EntryFacts DEF EntriesOwned
    <3>3. \A y \in Range(slots[p]) : y \in TimerIds
      <4>1. slots[p] \in Seq(TimerIds)
        BY <2>7 DEF WheelTypeOK
      <4>2. \A j \in DOMAIN slots[p] : slots[p][j] \in TimerIds
        BY <4>1, SMTT(20)
      <4> QED BY <4>2 DEF Range
    <3> QED BY <3>1, <3>2, <3>3 DEF LiveIds
  <2>9. Min(js) \in js /\ slots[p][Min(js)] \in LiveIds(p)
    <3>1. js # {}
      BY <2>7 DEF LiveIds, Range
    <3>2. slots[p] \in Seq(TimerIds)
      BY <2>7 DEF WheelTypeOK
    <3>3. DOMAIN slots[p] \subseteq Nat
      BY <3>2, SMTT(20)
    <3>4. js \subseteq Nat
      BY <3>3
    <3>5. Min(js) \in js
      <4> HIDE DEF js
      <4> QED BY <3>1, <3>4, MinIn
    <3> QED BY <3>5 DEF LiveIds, Range
  <2>10. Min(ds) \in ds
    <3>1. ds # {} /\ ds \subseteq Nat
      BY <2>7, <2>8
    <3> HIDE DEF ds
    <3> QED BY <3>1, MinIn
  <2>11. slotmap[slots[p][Min(js)][1]].deadline # 0 /\ Min(ds) # 0
    <3>1. \A a \in Nat : a > 0 => a # 0
      BY SMTT(20)
    <3>2. slotmap[slots[p][Min(js)][1]].deadline # 0
      BY <2>8, <2>9, <3>1
    <3>3. \A a \in ds : a # 0
      BY <2>8, <3>1
    <3> QED BY <2>10, <3>2, <3>3
  <2>12. NextDeadline = IF active_count = 0 \/ found = {} THEN 0
                        ELSE IF m = 0 THEN slotmap[slots[p][Min(js)][1]].deadline
                        ELSE Min(ds)
    BY DEF NextDeadline, p, m
  <2> HIDE DEF found, js, ds
  <2> QED BY <1>1, <1>3, <2>4, <2>11, <2>12
<1> QED BY <1>2, <1>3

(***************************************************************************)
(* The slot map of the wheel is consistent in every reachable state: no    *)
(* index is free twice or free while active, no id is visited twice, every *)
(* active entry is in the wheel and belongs to a coroutine still suspended.*)
(***************************************************************************)
THEOREM SlotMapAlwaysConsistent == WheelSpec => []SlotMapConsistent
<1>1. WheelInv => SlotMapConsistent
  <2> SUFFICES ASSUME WheelInv PROVE SlotMapConsistent
    OBVIOUS
  <2>1. todo = 0 => (NextDeadline = 0 <=> ActiveIndices = {})
    BY NextDeadlineFinds
  <2>2. /\ IsInjective(free_indices)
        /\ Range(free_indices) = DOMAIN slotmap \ ActiveIndices
        /\ active_count = Cardinality(ActiveIndices)
    BY DEF WheelInv, FreeList
  <2>3. Once(slots) /\ EntriesPlaced /\ EntriesOwned /\ PendingLive
    BY DEF WheelInv
  <2> QED BY <2>1, <2>2, <2>3
             DEF SlotMapConsistent, Once, EntriesPlaced, Holds, EntriesOwned, PendingLive
<1> QED BY <1>1, WheelInvariant, PTL
=============================================================================
