------------------------- MODULE CombinatorsProofs -------------------------
(***************************************************************************)
(* Proofs about Combinators, for every finite set of tasks and however     *)
(* often they suspend.                                                     *)
(***************************************************************************)
EXTENDS Combinators, QueueLemmas, FiniteSetTheorems, TLAPS

\* Zenon proves most leaves; one with arithmetic, records or sequences cites SMT.
USE ZenonT(30)
USE DEF Woken, LastOne, Decides

\* What the loop and the racers may count on: nothing has happened before the parent
\* suspends, a racer that has returned waits in no leaf, and remaining is the number of
\* racers that have not returned.
CountInv ==
  /\ IsFiniteSet(racers)
  /\ Timer \in racers <=> kind = "timeout"
  /\ parent = "start" =>
       /\ ready = <<>> /\ done = {} /\ finishes = <<>> /\ ~resolved
       /\ \A t \in racers : leaf[t] = "none"
  /\ \A t \in done : leaf[t] = "none"
  /\ kind # "timeout" =>
       /\ remaining = Cardinality(racers \ done)
       /\ remaining + Len(finishes) = Cardinality(racers)

\* The result of a racer of when_all is at its place from the moment it returns.
ResultsInv ==
  kind = "all" => \A t \in done : results[t] \in Range(finishes) /\ results[t][1] = t

IInv ==
  TypeOK /\ CountInv /\ ResultsInv /\ WinnerStands /\ WokenOnce /\ AllResultsInPlace
-----------------------------------------------------------------------------
\* Handle h is resumed and the handles in q stay ready.
Rest(h, q) ==
  /\ h \in Range(ready) /\ q \in Seq(racers \cup {Parent})
  /\ Range(q) = Range(ready) \ {h} /\ IsInjective(q)

\* SetToSeq lists every element of a finite set once.
LEMMA SetListed ==
  ASSUME NEW S, NEW T, T \subseteq S, IsFiniteSet(T)
  PROVE  SetToSeq(T) \in Seq(S) /\ Range(SetToSeq(T)) = T /\ IsInjective(SetToSeq(T))
BY Listed DEF SetToSeq

\* RemoveAt takes out the element at its position.
LEMMA Removed ==
  ASSUME NEW S, NEW q \in Seq(S), NEW i \in DOMAIN q
  PROVE  /\ q[i] \in Range(q)
         /\ RemoveAt(q, i) \in Seq(S)
         /\ IsInjective(q) => /\ Range(RemoveAt(q, i)) = Range(q) \ {q[i]}
                              /\ IsInjective(RemoveAt(q, i))
<1> DEFINE a == SubSeq(q, 1, i - 1)
           b == SubSeq(q, i + 1, Len(q))
           r == RemoveAt(q, i)
<1>1. Len(q) \in Nat /\ i \in 1..Len(q) /\ DOMAIN q = 1..Len(q)
  BY SMTT(20)
<1>2. a \in Seq(S) /\ Len(a) = i - 1 /\ \A j \in 1..(i - 1) : a[j] = q[j]
  BY <1>1, SMTT(20)
<1>3. b \in Seq(S) /\ Len(b) = Len(q) - i /\ \A j \in 1..(Len(q) - i) : b[j] = q[i + j]
  BY <1>1, SMTT(20)
<1>4. r = a \o b
  BY DEF RemoveAt
<1> HIDE DEF a, b, r
<1>5. /\ r \in Seq(S) /\ Len(r) = Len(q) - 1
      /\ \A j \in 1..Len(r) : r[j] = IF j < i THEN q[j] ELSE q[j + 1]
  <2>0. a \in Seq(S) /\ b \in Seq(S)
    BY <1>2, <1>3
  <2>1. r \in Seq(S) /\ Len(r) = Len(a) + Len(b)
    <3>1. a \o b \in Seq(S) /\ Len(a \o b) = Len(a) + Len(b)
      BY <2>0, SMTT(20)
    <3> QED
      BY <1>4, <3>1
  <2>2. \A j \in 1..Len(r) : r[j] = IF j <= Len(a) THEN a[j] ELSE b[j - Len(a)]
    <3>1. \A j \in 1..Len(a \o b) : (a \o b)[j] = IF j <= Len(a) THEN a[j] ELSE b[j - Len(a)]
      BY <2>0, SMTT(20)
    <3> QED
      BY <1>4, <3>1
  <2>3. Len(r) = Len(q) - 1
    BY <1>1, <1>2, <1>3, <2>1, SMTT(20)
  <2>4. ASSUME NEW j \in 1..Len(r)
        PROVE  r[j] = IF j < i THEN q[j] ELSE q[j + 1]
    <3>1. CASE j < i
      BY <1>1, <1>2, <2>2, <2>3, <3>1, SMTT(20)
    <3>2. CASE ~(j < i)
      <4>1. r[j] = b[j - (i - 1)] /\ j - (i - 1) \in 1..(Len(q) - i)
        BY <1>1, <1>2, <2>2, <2>3, <3>2, SMTT(20)
      <4>2. b[j - (i - 1)] = q[i + (j - (i - 1))] /\ i + (j - (i - 1)) = j + 1
        BY <1>1, <1>3, <2>3, <4>1, SMTT(20)
      <4> QED
        BY <3>2, <4>1, <4>2
    <3> QED
      BY <3>1, <3>2
  <2> QED
    BY <2>1, <2>3, <2>4
<1>6. /\ \A u : u \in Range(q) <=> \E k \in 1..Len(q) : q[k] = u
      /\ \A u : u \in Range(r) <=> \E k \in 1..Len(r) : r[k] = u
      /\ IsInjective(r) <=> \A k, l \in 1..Len(r) : r[k] = r[l] => k = l
  BY <1>5, ElementsOf
<1>7. ASSUME IsInjective(q)
      PROVE  Range(r) = Range(q) \ {q[i]} /\ IsInjective(r)
  <2>1. \A k, l \in 1..Len(q) : q[k] = q[l] => k = l
    BY <1>7, ElementsOf
  <2>2. ASSUME NEW k \in 1..Len(r)
        PROVE  \E l \in 1..Len(q) : l # i /\ r[k] = q[l] /\ l = IF k < i THEN k ELSE k + 1
    <3>1. CASE k < i
      BY <1>1, <1>5, <3>1, SMTT(20)
    <3>2. CASE ~(k < i)
      <4>1. r[k] = q[k + 1] /\ k + 1 \in 1..Len(q) /\ k + 1 # i
        BY <1>1, <1>5, <3>2, SMTT(20)
      <4> QED
        BY <3>2, <4>1
    <3> QED
      BY <3>1, <3>2
  <2>3. ASSUME NEW l \in 1..Len(q), l # i
        PROVE  \E k \in 1..Len(r) : r[k] = q[l]
    <3>1. CASE l < i
      BY <1>1, <1>5, <3>1, SMTT(20)
    <3>2. CASE l > i
      <4>1. l - 1 \in 1..Len(r) /\ ~(l - 1 < i) /\ (l - 1) + 1 = l
        BY <1>1, <1>5, <3>2, SMTT(20)
      <4> QED
        BY <1>5, <4>1
    <3> QED
      BY <1>1, <2>3, <3>1, <3>2, SMTT(20)
  <2>4. Range(r) \subseteq Range(q) \ {q[i]}
    <3> SUFFICES ASSUME NEW u \in Range(r)
                 PROVE  u \in Range(q) /\ u # q[i]
      OBVIOUS
    <3>1. PICK k \in 1..Len(r) : r[k] = u
      BY <1>6
    <3>2. PICK l \in 1..Len(q) : l # i /\ u = q[l]
      BY <2>2, <3>1
    <3> QED
      BY <1>1, <1>6, <2>1, <3>2
  <2>5. Range(q) \ {q[i]} \subseteq Range(r)
    <3> SUFFICES ASSUME NEW u \in Range(q), u # q[i]
                 PROVE  u \in Range(r)
      OBVIOUS
    <3>1. PICK l \in 1..Len(q) : q[l] = u
      BY <1>6
    <3> QED
      BY <1>6, <2>3, <3>1
  <2>6. ASSUME NEW k \in 1..Len(r), NEW l \in 1..Len(r), r[k] = r[l]
        PROVE  k = l
    <3>1. PICK m \in 1..Len(q) : r[k] = q[m] /\ m = IF k < i THEN k ELSE k + 1
      BY <2>2
    <3>2. PICK o \in 1..Len(q) : r[l] = q[o] /\ o = IF l < i THEN l ELSE l + 1
      BY <2>2
    <3>3. m = o
      BY <2>1, <2>6, <3>1, <3>2
    <3> QED
      BY <1>1, <1>5, <3>1, <3>2, <3>3, SMTT(20)
  <2>7. IsInjective(r)
    BY <1>6, <2>6
  <2> QED
    BY <2>4, <2>5, <2>7
<1>8. q[i] \in Range(q)
  BY <1>1, <1>6
<1> QED
  BY <1>5, <1>7, <1>8 DEF r

\* The loop resumes a handle and takes it out of its queue.
LEMMA Resumed ==
  ASSUME IInv, NEW i \in DOMAIN ready
  PROVE  Rest(ready[i], RemoveAt(ready, i))
BY Removed DEF IInv, TypeOK, WokenOnce, Rest

\* The parent is none of its racers.
LEMMA ParentApart == TypeOK => Parent \notin racers
BY RacersAssumption DEF TypeOK

\* A handle that is resumed belongs to a racer that has not returned, or to the parent of a
\* combinator that is settled.
LEMMA HandleFacts ==
  ASSUME IInv, NEW h, NEW q, Rest(h, q)
  PROVE  /\ parent # "start" /\ h \in racers \cup {Parent}
         /\ h \in racers => h # Parent /\ h \notin done /\ leaf[h] # "Pending"
         /\ h = Parent => parent = "waiting" /\ Settled
<1>1. ready # <<>>
  BY EmptyQueue DEF Rest
<1>2. parent # "start"
  BY <1>1 DEF IInv, CountInv
<1>3. ready \in Seq(racers \cup {Parent})
  BY DEF IInv, TypeOK
<1>4. h \in racers \cup {Parent}
  BY <1>3, ElementsOf DEF Rest
<1> QED
  BY <1>2, <1>4, ParentApart DEF IInv, WokenOnce, Rest

\* No handle is ready, and no racer has begun, before the parent runs.
LEMMA InitInv == Init => IInv
<1> SUFFICES ASSUME Init
             PROVE  IInv
  OBVIOUS
<1>1. /\ racers \subseteq Tasks \cup {Timer} /\ (Timer \in racers <=> kind = "timeout")
      /\ kind \in Kinds /\ deaf \subseteq racers \ {Timer}
  BY RacersAssumption DEF Init
<1>2. IsFiniteSet(Tasks \cup {Timer})
  BY RacersAssumption, FS_AddElement
<1>3. IsFiniteSet(racers) /\ Cardinality(racers) \in Nat
  BY <1>1, <1>2, FS_Subset, FS_CardinalityType
<1>4. /\ parent = "start" /\ ready = <<>> /\ done = {} /\ stop = {} /\ finishes = <<>>
      /\ leaf = [t \in racers |-> "none"] /\ waits = [t \in racers |-> 0]
      /\ results = [t \in racers |-> Cancelled] /\ remaining = Cardinality(racers)
      /\ resolved = FALSE /\ result = Cancelled /\ returned = Cancelled
  BY DEF Init
<1>5. TypeOK
  <2>1. leaf \in [racers -> {"none", "Pending", "Ready", "Cancelled"}]
    BY <1>4
  <2>2. waits \in [racers -> 0..MaxWaits]
    BY <1>4, WaitsAssumption, SMTT(20)
  <2>3. Cancelled \in Values /\ results \in [racers -> Values]
    BY <1>4 DEF Values
  <2>4. remaining \in 0..Cardinality(racers)
    BY <1>3, <1>4, SMTT(20)
  <2>5. ready \in Seq(racers \cup {Parent}) /\ finishes \in Seq(Values)
    BY <1>4, SMTT(20)
  <2> QED
    BY <1>1, <1>4, <2>1, <2>2, <2>3, <2>4, <2>5 DEF TypeOK
<1>6. CountInv
  <2>1. racers \ done = racers /\ Len(finishes) = 0
    BY <1>4
  <2> QED
    BY <1>1, <1>3, <1>4, <2>1, SMTT(20) DEF CountInv
<1>7. ResultsInv /\ AllResultsInPlace
  BY <1>4 DEF ResultsInv, AllResultsInPlace
<1>8. WinnerStands
  <2>1. DOMAIN finishes = {}
    BY <1>4, SMTT(20)
  <2> QED
    BY <1>4, <2>1 DEF WinnerStands, Deciding
<1>9. WokenOnce
  BY <1>4, EmptyQueue DEF WokenOnce
<1> QED
  BY <1>5, <1>6, <1>7, <1>8, <1>9 DEF IInv

\* The variables that only a racer that returns, or the parent, changes.
LEMMA OutcomesUntouched ==
  ASSUME IInv, UNCHANGED <<kind, racers, parent, done, remaining, resolved, result, results,
                           returned, finishes>>
  PROVE  ResultsInv' /\ WinnerStands' /\ AllResultsInPlace'
<1>1. ResultsInv' /\ AllResultsInPlace'
  BY DEF IInv, ResultsInv, AllResultsInPlace
<1>2. Deciding' = Deciding
  BY DEF Deciding
<1> QED
  BY <1>1, <1>2 DEF IInv, WinnerStands

\* A leaf that completes makes its racer ready once.
LEMMA FireInv ==
  ASSUME IInv, NEW t \in racers, Fire(t)
  PROVE  IInv'
<1>1. /\ leaf[t] = "Pending" /\ leaf' = [leaf EXCEPT ![t] = "Ready"] /\ ready' = Append(ready, t)
      /\ UNCHANGED <<kind, racers, deaf, parent, done, waits, stop, remaining, resolved, result,
                     results, returned, finishes>>
  BY DEF Fire, inputVars, sharedVars
<1>2. parent # "start" /\ t \notin Range(ready) /\ t \notin done
  BY <1>1 DEF IInv, CountInv, WokenOnce
<1>3. /\ leaf' \in [racers -> {"none", "Pending", "Ready", "Cancelled"}] /\ leaf'[t] = "Ready"
      /\ \A u \in racers : u # t => leaf'[u] = leaf[u]
  BY <1>1 DEF IInv, TypeOK
<1>4. /\ ready' \in Seq(racers \cup {Parent}) /\ Range(ready') = Range(ready) \cup {t}
      /\ IsInjective(ready')
  BY <1>1, <1>2, Appended, SMTT(20) DEF IInv, TypeOK, WokenOnce
<1>5. TypeOK'
  BY <1>1, <1>3, <1>4 DEF IInv, TypeOK
<1>6. CountInv'
  BY <1>1, <1>2, <1>3 DEF IInv, CountInv, TypeOK
<1>7. WokenOnce'
  <2>1. Settled' = Settled /\ t # Parent
    BY <1>1, ParentApart DEF Settled, IInv
  <2>2. \A u \in racers : u \in Range(ready') <=> u \notin done' /\ leaf'[u] # "Pending"
    BY <1>1, <1>2, <1>3, <1>4 DEF IInv, WokenOnce
  <2> QED
    BY <1>1, <1>4, <2>1, <2>2 DEF IInv, WokenOnce
<1> QED
  BY <1>1, <1>5, <1>6, <1>7, OutcomesUntouched DEF IInv

\* A racer that suspends is ready again at once if its token was stopped before.
LEMMA SuspendInv ==
  ASSUME IInv, NEW t \in racers, NEW q, Rest(t, q), Suspend(t, q)
  PROVE  IInv'
<1> DEFINE stopped == t \in stop \ deaf
<1>1. /\ waits[t] < (IF t = Timer THEN 1 ELSE MaxWaits) /\ waits' = [waits EXCEPT ![t] = @ + 1]
      /\ leaf' = [leaf EXCEPT ![t] = IF stopped THEN "Cancelled" ELSE "Pending"]
      /\ ready' = IF stopped THEN Append(q, t) ELSE q
      /\ UNCHANGED <<kind, racers, deaf, parent, done, stop, remaining, resolved, result,
                     results, returned, finishes>>
  BY DEF Suspend, inputVars, sharedVars
<1>2. parent # "start" /\ t \notin done /\ t # Parent
  BY HandleFacts
<1>3. /\ leaf' \in [racers -> {"none", "Pending", "Ready", "Cancelled"}]
      /\ leaf'[t] = IF stopped THEN "Cancelled" ELSE "Pending"
      /\ \A u \in racers : u # t => leaf'[u] = leaf[u]
  BY <1>1 DEF IInv, TypeOK
<1>4. /\ ready' \in Seq(racers \cup {Parent}) /\ IsInjective(ready')
      /\ Range(ready') = IF stopped THEN Range(ready) ELSE Range(ready) \ {t}
  <2>1. t \notin Range(q) /\ q \in Seq(racers \cup {Parent}) /\ IsInjective(q)
    BY DEF Rest
  <2>2. CASE stopped
    <3>1. /\ Append(q, t) \in Seq(racers \cup {Parent}) /\ IsInjective(Append(q, t))
          /\ Range(Append(q, t)) = Range(q) \cup {t}
      BY <2>1, Appended, SMTT(20)
    <3> QED
      BY <1>1, <2>2, <3>1 DEF Rest
  <2>3. CASE ~stopped
    BY <1>1, <2>1, <2>3 DEF Rest
  <2> QED
    BY <2>2, <2>3
<1>5. waits' \in [racers -> 0..MaxWaits]
  <2>1. waits[t] \in 0..MaxWaits /\ waits[t] + 1 \in 0..MaxWaits
    BY <1>1, WaitsAssumption, SMTT(20) DEF IInv, TypeOK
  <2> QED
    BY <1>1, <2>1 DEF IInv, TypeOK
<1>6. TypeOK'
  BY <1>1, <1>3, <1>4, <1>5 DEF IInv, TypeOK
<1>7. CountInv'
  BY <1>1, <1>2, <1>3 DEF IInv, CountInv, TypeOK
<1>8. WokenOnce'
  <2>1. Settled' = Settled
    BY <1>1 DEF Settled
  <2>2. t \in Range(ready') <=> leaf'[t] # "Pending"
    BY <1>3, <1>4 DEF Rest
  <2>3. \A u \in racers : u # t => (u \in Range(ready') <=> u \in Range(ready))
    BY <1>4
  <2>4. \A u \in racers : u \in Range(ready') <=> u \notin done' /\ leaf'[u] # "Pending"
    BY <1>1, <1>2, <1>3, <2>2, <2>3 DEF IInv, WokenOnce
  <2>5. Parent \in Range(ready') <=> Parent \in Range(ready)
    BY <1>2, <1>4
  <2> QED
    BY <1>1, <1>4, <2>1, <2>4, <2>5 DEF IInv, WokenOnce
<1> QED
  BY <1>1, <1>6, <1>7, <1>8, OutcomesUntouched DEF IInv

\* The racers are ready when the parent suspends; without racers it returns.
LEMMA StartInv ==
  ASSUME IInv, Start
  PROVE  IInv'
<1>1. /\ parent = "start" /\ parent' = (IF racers = {} THEN "returned" ELSE "waiting")
      /\ returned' = IF racers = {} /\ kind = "all" THEN results ELSE returned
      /\ ready' = SetToSeq(racers)
      /\ UNCHANGED <<kind, racers, deaf, leaf, done, waits, stop, remaining, resolved, result,
                     results, finishes>>
  BY DEF Start, inputVars, sharedVars
<1>2. done = {} /\ ~resolved /\ (\A t \in racers : leaf[t] = "none") /\ IsFiniteSet(racers)
  BY <1>1 DEF IInv, CountInv
<1>3. /\ ready' \in Seq(racers \cup {Parent}) /\ Range(ready') = racers /\ IsInjective(ready')
  BY <1>1, <1>2, SetListed
<1>4. TypeOK'
  <2>1. returned' \in IF kind = "all" /\ parent' = "returned" THEN [racers -> Values] ELSE Values
    BY <1>1 DEF IInv, TypeOK
  <2> QED
    BY <1>1, <1>3, <2>1 DEF IInv, TypeOK
<1>5. CountInv'
  BY <1>1, <1>2 DEF IInv, CountInv
<1>6. ResultsInv' /\ AllResultsInPlace'
  BY <1>1, <1>2 DEF ResultsInv, AllResultsInPlace
<1>7. WinnerStands'
  <2>1. Deciding' = Deciding
    BY <1>1 DEF Deciding
  <2> QED
    BY <1>1, <2>1 DEF IInv, WinnerStands
<1>8. WokenOnce'
  <2>1. racers # {} => ~Settled'
    <3>1. racers # {} => Cardinality(racers) # 0
      BY <1>2, FS_EmptySet
    <3>2. kind # "timeout" => remaining = Cardinality(racers)
      <4>1. racers \ done = racers
        BY <1>2
      <4> QED
        BY <4>1 DEF IInv, CountInv
    <3> QED
      BY <1>1, <1>2, <3>1, <3>2 DEF Settled
  <2> QED
    BY <1>1, <1>2, <1>3, <2>1, ParentApart DEF IInv, WokenOnce
<1> QED
  BY <1>4, <1>5, <1>6, <1>7, <1>8 DEF IInv

\* The parent returns once; when_all returns what every racer has put in its place.
LEMMA ParentInv ==
  ASSUME IInv, NEW q, Rest(Parent, q), ParentReturns(q)
  PROVE  IInv'
<1>1. /\ parent' = "returned" /\ ready' = q
      /\ returned' = IF kind = "all" THEN results ELSE IF TrivialMove THEN result ELSE Moved
      /\ UNCHANGED <<kind, racers, deaf, leaf, done, waits, stop, remaining, resolved, result,
                     results, finishes>>
  BY DEF ParentReturns, inputVars, sharedVars
<1>2. parent = "waiting" /\ Settled
  BY HandleFacts
<1>3. TypeOK'
  <2>1. Moved \in Values
    BY DEF Values
  <2>2. returned' \in IF kind = "all" THEN [racers -> Values] ELSE Values
    BY <1>1, <2>1 DEF IInv, TypeOK
  <2>3. ready' \in Seq(racers \cup {Parent})
    BY <1>1 DEF Rest
  <2> QED
    BY <1>1, <2>2, <2>3 DEF IInv, TypeOK
<1>4. CountInv' /\ ResultsInv'
  BY <1>1 DEF IInv, CountInv, ResultsInv
<1>5. WinnerStands'
  <2>1. Deciding' = Deciding
    BY <1>1 DEF Deciding
  <2> QED
    BY <1>1, <2>1 DEF IInv, WinnerStands
<1>6. WokenOnce'
  <2>1. Settled'
    BY <1>1, <1>2 DEF Settled
  <2>2. Parent \notin Range(ready') /\ \A t \in racers : t \in Range(ready') <=> t \in Range(ready)
    BY <1>1, ParentApart DEF Rest, IInv
  <2>3. \A t \in racers : t \in Range(ready') <=> t \notin done' /\ leaf'[t] # "Pending"
    BY <1>1, <1>2, <2>2 DEF IInv, WokenOnce
  <2> QED
    BY <1>1, <2>1, <2>2, <2>3 DEF WokenOnce, Rest
<1>7. AllResultsInPlace'
  <2> SUFFICES ASSUME kind = "all"
               PROVE  done = racers /\ \A t \in racers : results[t] \in Range(finishes)
                                                          /\ results[t][1] = t
    BY <1>1 DEF AllResultsInPlace
  <2>1. IsFiniteSet(racers \ done) /\ Cardinality(racers \ done) = 0
    BY <1>2, FS_Difference DEF IInv, CountInv, Settled
  <2>2. racers \ done = {}
    BY <2>1, FS_EmptySet
  <2>3. done = racers
    BY <2>2 DEF IInv, TypeOK
  <2> QED
    BY <2>3 DEF IInv, ResultsInv
<1> QED
  BY <1>3, <1>4, <1>5, <1>6, <1>7 DEF IInv
-----------------------------------------------------------------------------
\* The queue and the leaves after racer t has returned.
EndedQueue(t) ==
  /\ ready' \in Seq(racers \cup {Parent}) /\ IsInjective(ready')
  /\ leaf' \in [racers -> {"none", "Pending", "Ready", "Cancelled"}]
  /\ stop' \subseteq racers
  /\ \A u \in racers : u \in Range(ready') <=> u \notin done \cup {t} /\ leaf'[u] # "Pending"
  /\ \A u \in done \cup {t} : leaf'[u] = "none"

\* A racer that returns quietly leaves every other handle where it was.
LEMMA QuietQueue ==
  ASSUME IInv, NEW t \in racers, NEW q, Rest(t, q), Quiet(t, q)
  PROVE  EndedQueue(t) /\ (Parent \in Range(ready') <=> Parent \in Range(ready))
<1>1. leaf' = [leaf EXCEPT ![t] = "none"] /\ ready' = q /\ stop' = stop
  BY DEF Quiet
<1>2. /\ leaf' \in [racers -> {"none", "Pending", "Ready", "Cancelled"}] /\ leaf'[t] = "none"
      /\ \A u \in racers : u # t => leaf'[u] = leaf[u]
  BY <1>1 DEF IInv, TypeOK
<1>3. t # Parent /\ parent # "start"
  BY HandleFacts
<1>4. \A u \in racers : u \in Range(ready') <=> u \notin done \cup {t} /\ leaf'[u] # "Pending"
  BY <1>1, <1>2, <1>3 DEF IInv, WokenOnce, Rest
<1>5. \A u \in done \cup {t} : leaf'[u] = "none"
  BY <1>2 DEF IInv, CountInv, TypeOK
<1>6. stop' \subseteq racers
  BY <1>1 DEF IInv, TypeOK
<1> QED
  BY <1>1, <1>2, <1>3, <1>4, <1>5, <1>6 DEF EndedQueue, Rest

\* A racer that settles the combinator wakes the losers that wait, each once, and the
\* parent, which nobody has woken yet.
LEMMA NotifyQueue ==
  ASSUME IInv, NEW t \in racers, NEW q, Rest(t, q), NEW S \in SUBSET racers,
         StopAndNotify(t, S, q), Parent \notin Range(ready)
  PROVE  EndedQueue(t) /\ Parent \in Range(ready')
<1> DEFINE W == Woken(t, S)
           H == racers \cup {Parent}
<1>1. /\ stop' = stop \cup S /\ ready' = q \o SetToSeq(W) \o <<Parent>>
      /\ leaf' = [u \in racers |-> IF u = t THEN "none"
                                  ELSE IF u \in W THEN "Cancelled" ELSE leaf[u]]
  BY DEF StopAndNotify
<1>2. W \subseteq racers /\ \A u \in W : leaf[u] = "Pending"
  OBVIOUS
<1> HIDE DEF W
<1>3. /\ leaf' \in [racers -> {"none", "Pending", "Ready", "Cancelled"}] /\ leaf'[t] = "none"
      /\ \A u \in racers : u # t => leaf'[u] = IF u \in W THEN "Cancelled" ELSE leaf[u]
  BY <1>1 DEF IInv, TypeOK
<1>4. t # Parent /\ parent # "start" /\ leaf[t] # "Pending" /\ t \notin done /\ Parent \notin racers
  BY HandleFacts, ParentApart DEF IInv
<1>5. SetToSeq(W) \in Seq(H) /\ Range(SetToSeq(W)) = W /\ IsInjective(SetToSeq(W))
  <2>1. IsFiniteSet(W)
    BY <1>2, FS_Subset DEF IInv, CountInv
  <2> QED
    BY <1>2, <2>1, SetListed
<1>6. W \cap Range(q) = {} /\ t \notin W
  BY <1>2, <1>4 DEF IInv, WokenOnce, Rest
<1> DEFINE a == q \o SetToSeq(W)
<1>7. a \in Seq(H) /\ Range(a) = Range(q) \cup W /\ IsInjective(a)
  BY <1>5, <1>6, Joined, SMTT(20) DEF Rest
<1> HIDE DEF a
<1>8. <<Parent>> \in Seq(H) /\ Range(<<Parent>>) = {Parent} /\ IsInjective(<<Parent>>)
  BY OneQueued
<1>9. Parent \notin Range(a)
  BY <1>2, <1>4, <1>7 DEF Rest
<1>10. /\ ready' \in Seq(H) /\ Range(ready') = Range(q) \cup W \cup {Parent}
       /\ IsInjective(ready')
  <2>1. ready' = a \o <<Parent>>
    BY <1>1 DEF a
  <2>2. Range(a) \cap Range(<<Parent>>) = {}
    BY <1>8, <1>9
  <2> HIDE DEF H
  <2>3. /\ a \o <<Parent>> \in Seq(H) /\ IsInjective(a \o <<Parent>>)
        /\ Range(a \o <<Parent>>) = Range(a) \cup Range(<<Parent>>)
    BY <1>7, <1>8, <2>2, Joined
  <2> QED
    BY <1>7, <1>8, <2>1, <2>3
<1>11. \A u \in racers : u \in Range(ready') <=> u \notin done \cup {t} /\ leaf'[u] # "Pending"
  <2> SUFFICES ASSUME NEW u \in racers
               PROVE  u \in Range(ready') <=> u \notin done \cup {t} /\ leaf'[u] # "Pending"
    OBVIOUS
  <2>1. u \in Range(ready') <=> (u \in Range(ready) /\ u # t) \/ u \in W
    BY <1>4, <1>10 DEF Rest
  <2>2. u \in Range(ready) <=> u \notin done /\ leaf[u] # "Pending"
    BY <1>4 DEF IInv, WokenOnce
  <2>3. u \in W => u \notin done
    BY <1>2 DEF IInv, CountInv
  <2> QED
    BY <1>3, <1>6, <2>1, <2>2, <2>3
<1>12. \A u \in done \cup {t} : leaf'[u] = "none"
  BY <1>2, <1>3 DEF IInv, CountInv, TypeOK
<1>13. stop' \subseteq racers
  BY <1>1 DEF IInv, TypeOK
<1> QED
  BY <1>3, <1>10, <1>11, <1>12, <1>13 DEF EndedQueue

\* One racer less is left, and there was one.
LEMMA OneLess ==
  ASSUME IInv, NEW t \in racers, t \notin done, kind # "timeout"
  PROVE  /\ remaining \in Nat \ {0} /\ remaining - 1 = Cardinality(racers \ (done \cup {t}))
         /\ Cardinality(racers) \in Nat /\ remaining + Len(finishes) = Cardinality(racers)
<1> DEFINE L == racers \ done
<1>1. IsFiniteSet(racers) /\ remaining = Cardinality(L)
      /\ remaining + Len(finishes) = Cardinality(racers)
  BY DEF IInv, CountInv
<1>2. IsFiniteSet(L) /\ Cardinality(L) \in Nat /\ t \in L /\ Cardinality(racers) \in Nat
  BY <1>1, FS_Difference, FS_CardinalityType
<1>3. L \ {t} = racers \ (done \cup {t})
  OBVIOUS
<1> HIDE DEF L
<1>4. Cardinality(L \ {t}) = Cardinality(L) - 1 /\ Cardinality(L \ {t}) \in Nat
  BY <1>2, FS_RemoveElement, FS_CardinalityType
<1>5. Cardinality(racers \ (done \cup {t})) = Cardinality(L) - 1
  BY <1>3, <1>4
<1>6. Cardinality(L) \in Nat \ {0}
  BY <1>2, <1>4, SMTT(20)
<1> QED
  BY <1>1, <1>2, <1>5, <1>6

\* What every racer does when it returns, whatever the combinator.
LEMMA EndInv ==
  ASSUME IInv, NEW t \in racers, NEW q, Rest(t, q), RacerReturns(t), EndedQueue(t),
         Parent \in Range(ready') <=> parent = "waiting" /\ Settled',
         Settled => Settled',
         finishes' \in Seq(Values), resolved' \in BOOLEAN, result' \in Values,
         results' \in [racers -> Values],
         kind # "timeout" => remaining' = remaining - 1 /\ Len(finishes') = Len(finishes) + 1,
         kind = "timeout" => remaining' = remaining
  PROVE  TypeOK' /\ CountInv' /\ WokenOnce'
<1>1. done' = done \cup {t} /\ UNCHANGED <<kind, racers, deaf, parent, waits, returned>>
  BY DEF RacerReturns, inputVars
<1>2. t \notin done /\ parent # "start"
  BY HandleFacts
<1>3. kind # "timeout" =>
        /\ remaining' = Cardinality(racers \ done') /\ remaining' + Len(finishes') = Cardinality(racers)
        /\ remaining' \in 0..Cardinality(racers)
  <2> SUFFICES ASSUME kind # "timeout"
               PROVE  /\ remaining' = Cardinality(racers \ done')
                      /\ remaining' + Len(finishes') = Cardinality(racers)
                      /\ remaining' \in 0..Cardinality(racers)
    OBVIOUS
  <2>1. /\ remaining \in Nat \ {0} /\ remaining - 1 = Cardinality(racers \ (done \cup {t}))
        /\ Cardinality(racers) \in Nat /\ remaining + Len(finishes) = Cardinality(racers)
    BY <1>2, OneLess
  <2>2. Len(finishes) \in Nat
    BY SMTT(20) DEF IInv, TypeOK
  <2>3. remaining' = remaining - 1 /\ Len(finishes') = Len(finishes) + 1
    OBVIOUS
  <2>4. remaining' = Cardinality(racers \ done')
    BY <1>1, <2>1, <2>3
  <2> QED
    BY <2>1, <2>2, <2>3, <2>4, SMTT(20)
<1>4. TypeOK'
  <2>1. remaining' \in 0..Cardinality(racers)
    BY <1>3 DEF IInv, TypeOK
  <2>2. done' \subseteq racers
    BY <1>1 DEF IInv, TypeOK
  <2> QED
    BY <1>1, <2>1, <2>2 DEF IInv, TypeOK, EndedQueue
<1>5. CountInv'
  BY <1>1, <1>2, <1>3 DEF IInv, CountInv, EndedQueue
<1>6. WokenOnce'
  <2>1. parent = "returned" /\ racers # {} => Settled'
    BY DEF IInv, WokenOnce
  <2> QED
    BY <1>1, <2>1 DEF WokenOnce, EndedQueue
<1> QED
  BY <1>4, <1>5, <1>6

\* when_all_racer(): the last one wakes the parent.
LEMMA FinishAllInv ==
  ASSUME IInv, NEW t \in racers, NEW q, Rest(t, q), NEW r \in Outcomes, kind = "all",
         FinishAll(t, r, q), finishes' = Append(finishes, <<t, r>>), RacerReturns(t)
  PROVE  IInv'
<1>1. /\ results' = [results EXCEPT ![t] = <<t, r>>] /\ remaining' = remaining - 1
      /\ IF remaining' = 0 THEN StopAndNotify(t, {}, q) ELSE Quiet(t, q)
      /\ UNCHANGED <<resolved, result>>
  BY DEF FinishAll
<1>2. /\ t \notin done /\ parent # "start" /\ t \in Tasks
      /\ done' = done \cup {t} /\ UNCHANGED <<kind, racers, parent, returned>>
  <2>1. t # Timer
    BY DEF IInv, CountInv
  <2> QED
    BY <2>1, HandleFacts DEF RacerReturns, inputVars, IInv, TypeOK
<1>3. remaining \in Nat \ {0}
  BY <1>2, OneLess
<1>4. ~Settled /\ (Settled' <=> remaining' = 0) /\ Parent \notin Range(ready) /\ parent = "waiting"
  <2>1. ~Settled /\ (Settled' <=> remaining' = 0)
    BY <1>2, <1>3 DEF Settled
  <2>2. Parent \notin Range(ready) /\ parent # "returned"
    BY <2>1 DEF IInv, WokenOnce
  <2> QED
    BY <1>2, <2>1, <2>2 DEF IInv, TypeOK
<1>5. EndedQueue(t) /\ (Parent \in Range(ready') <=> parent = "waiting" /\ Settled')
  <2>1. CASE remaining' = 0
    BY <1>1, <1>4, <2>1, NotifyQueue
  <2>2. CASE remaining' # 0
    BY <1>1, <1>4, <2>2, QuietQueue
  <2> QED
    BY <2>1, <2>2
<1>6. /\ <<t, r>> \in Values /\ results' \in [racers -> Values] /\ results'[t] = <<t, r>>
      /\ \A u \in racers : u # t => results'[u] = results[u]
  <2>1. <<t, r>> \in Values
    BY <1>2 DEF Values
  <2> QED
    BY <1>1, <2>1 DEF IInv, TypeOK
<1>7. /\ finishes' \in Seq(Values) /\ Len(finishes') = Len(finishes) + 1
      /\ Range(finishes') = Range(finishes) \cup {<<t, r>>}
  <2> DEFINE v == <<t, r>>
  <2>1. finishes \in Seq(Values) /\ v \in Values /\ finishes' = Append(finishes, v)
    BY <1>6 DEF IInv, TypeOK
  <2> HIDE DEF v
  <2>2. /\ Append(finishes, v) \in Seq(Values) /\ Len(Append(finishes, v)) = Len(finishes) + 1
        /\ Range(Append(finishes, v)) = Range(finishes) \cup {v}
    BY <2>1, Appended, SMTT(20)
  <2> QED
    BY <2>1, <2>2 DEF v
<1>8. resolved' \in BOOLEAN /\ result' \in Values
  BY <1>1 DEF IInv, TypeOK
<1>9. TypeOK' /\ CountInv' /\ WokenOnce'
  BY <1>1, <1>4, <1>5, <1>6, <1>7, <1>8, EndInv
<1>10. ResultsInv'
  <2>1. \A u \in done : results[u] \in Range(finishes) /\ results[u][1] = u /\ u \in racers
    BY DEF IInv, ResultsInv, TypeOK
  <2>2. <<t, r>>[1] = t
    OBVIOUS
  <2> QED
    BY <1>2, <1>6, <1>7, <2>1, <2>2 DEF ResultsInv
<1>11. WinnerStands' /\ AllResultsInPlace'
  BY <1>2, <1>4 DEF WinnerStands, AllResultsInPlace
<1> QED
  BY <1>9, <1>10, <1>11 DEF IInv

\* A finish is added at the end of the history.
LEMMA OneMore ==
  ASSUME IInv, NEW v \in Values, finishes' = Append(finishes, v)
  PROVE  /\ finishes' \in Seq(Values) /\ Len(finishes) \in Nat
         /\ Len(finishes') = Len(finishes) + 1
         /\ DOMAIN finishes = 1..Len(finishes) /\ DOMAIN finishes' = 1..(Len(finishes) + 1)
         /\ \A i \in 1..Len(finishes) : finishes'[i] = finishes[i]
         /\ finishes'[Len(finishes) + 1] = v
<1>1. finishes \in Seq(Values)
  BY DEF IInv, TypeOK
<1> QED
  BY <1>1, SMTT(20)

\* when_any_racer(): the first success, or the last failure, wins, and nobody after it.
LEMMA AnyWinner ==
  ASSUME IInv, NEW t \in racers, t \notin done, NEW r \in Outcomes, kind = "any",
         <<t, r>> \in Values, finishes' = Append(finishes, <<t, r>>),
         UNCHANGED <<kind, racers>>, remaining' = remaining - 1,
         IF Decides(r, remaining') THEN resolved' = TRUE /\ result' = <<t, r>>
                                   ELSE UNCHANGED <<resolved, result>>
  PROVE  WinnerStands'
<1> DEFINE n == Len(finishes)
           C == Cardinality(racers)
           good == {i \in DOMAIN finishes : finishes[i][2] = "Ok"}
<1>1. /\ n \in Nat /\ DOMAIN finishes = 1..n /\ DOMAIN finishes' = 1..(n + 1)
      /\ \A i \in 1..n : finishes'[i] = finishes[i]
      /\ finishes'[n + 1] = <<t, r>> /\ finishes'[n + 1][2] = r
  <2> DEFINE v == <<t, r>>
  <2>1. v[2] = r
    OBVIOUS
  <2> HIDE DEF v
  <2>2. finishes' = Append(finishes, v) /\ v \in Values
    BY DEF v
  <2>3. /\ n \in Nat /\ DOMAIN finishes = 1..n /\ DOMAIN finishes' = 1..(n + 1)
        /\ (\A i \in 1..n : finishes'[i] = finishes[i]) /\ finishes'[n + 1] = v
    BY <2>2, OneMore
  <2> QED
    BY <2>1, <2>3 DEF v
<1>2. remaining \in Nat \ {0} /\ C \in Nat /\ remaining + n = C
  BY OneLess
<1>3. remaining' = 0 <=> n + 1 = C
  BY <1>1, <1>2, SMTT(20)
<1>4. C \notin 1..n
  BY <1>1, <1>2, SMTT(20)
<1>5. Deciding = IF good # {} THEN good ELSE {i \in 1..n : i = C}
  BY <1>1 DEF Deciding
<1>6. Deciding = good
  BY <1>4, <1>5
<1>7. Deciding' = LET g == {i \in 1..(n + 1) : finishes'[i][2] = "Ok"}
                  IN IF g # {} THEN g ELSE {i \in 1..(n + 1) : i = C}
  BY <1>1 DEF Deciding
<1> DEFINE g == {i \in 1..(n + 1) : finishes'[i][2] = "Ok"}
<1>8. g = IF r = "Ok" THEN good \cup {n + 1} ELSE good
  <2>1. \A i \in 1..(n + 1) : i \in 1..n \/ i = n + 1
    BY <1>1, SMTT(20)
  <2>2. \A i \in 1..n : i \in 1..(n + 1) /\ i # n + 1
    BY <1>1, SMTT(20)
  <2>3. n + 1 \in 1..(n + 1)
    BY <1>1, SMTT(20)
  <2> HIDE DEF n
  <2> QED
    BY <1>1, <2>1, <2>2, <2>3
<1>9. resolved <=> good # {}
  BY <1>6 DEF IInv, WinnerStands
<1>10. good \subseteq 1..n
  BY <1>1
<1>11. Deciding' = IF g # {} THEN g ELSE {i \in 1..(n + 1) : i = C}
  BY <1>7
<1> HIDE DEF g, good, n, C
<1>12. CASE resolved
  <2>1. UNCHANGED <<resolved, result>>
    BY <1>12
  <2>2. PICK i \in good : result = finishes[i] /\ \A j \in good : i <= j
    BY <1>6, <1>12 DEF IInv, WinnerStands
  <2>3. i \in Deciding' /\ result' = finishes'[i] /\ \A j \in Deciding' : i <= j
    <3>1. i \in g /\ Deciding' = g /\ i \in 1..n
      BY <1>8, <1>10, <1>11, <2>2
    <3>2. \A j \in g : i <= j
      BY <1>1, <1>8, <2>2, <3>1, SMTT(20)
    <3> QED
      BY <1>1, <2>1, <2>2, <3>1, <3>2
  <2> QED
    BY <1>12, <2>1, <2>3 DEF WinnerStands
<1>13. CASE ~resolved
  <2>1. good = {}
    BY <1>9, <1>13
  <2>2. CASE r = "Ok" \/ remaining' = 0
    <3>1. resolved' /\ result' = <<t, r>>
      BY <1>13, <2>2
    <3>2. Deciding' = {n + 1}
      <4>1. CASE r = "Ok"
        BY <1>8, <1>11, <2>1, <4>1
      <4>2. CASE r # "Ok"
        BY <1>1, <1>3, <1>8, <1>11, <2>1, <2>2, <4>2, SMTT(20)
      <4> QED
        BY <4>1, <4>2
    <3> QED
      BY <1>1, <3>1, <3>2, SMTT(20) DEF WinnerStands
  <2>3. CASE ~(r = "Ok" \/ remaining' = 0)
    <3>1. UNCHANGED <<resolved, result>>
      BY <1>13, <2>3
    <3>2. \A i \in 1..(n + 1) : i # C
      BY <1>1, <1>3, <1>4, <2>3, SMTT(20)
    <3>3. Deciding' = {}
      BY <1>8, <1>11, <2>1, <2>3, <3>2
    <3> QED
      BY <1>13, <3>1, <3>3 DEF WinnerStands
  <2> QED
    BY <2>2, <2>3
<1> QED
  BY <1>12, <1>13

\* when_any_racer(): the winner stops the others and wakes the parent, which nobody did
\* before; a loser changes the count only.
LEMMA FinishAnyInv ==
  ASSUME IInv, NEW t \in racers, NEW q, Rest(t, q), NEW r \in Outcomes, kind = "any",
         FinishAny(t, r, q), finishes' = Append(finishes, <<t, r>>), RacerReturns(t)
  PROVE  IInv'
<1>1. /\ remaining' = remaining - 1 /\ results' = results
      /\ Decides(r, remaining') =>
           ~resolved /\ resolved' = TRUE /\ result' = <<t, r>> /\ StopAndNotify(t, racers, q)
      /\ ~Decides(r, remaining') => Quiet(t, q) /\ UNCHANGED <<resolved, result>>
  BY DEF FinishAny
<1>2. /\ t \notin done /\ parent # "start" /\ t \in Tasks
      /\ UNCHANGED <<kind, racers, parent, returned>>
  <2>1. t # Timer
    BY DEF IInv, CountInv
  <2> QED
    BY <2>1, HandleFacts DEF RacerReturns, inputVars, IInv, TypeOK
<1>3. <<t, r>> \in Values
  BY <1>2 DEF Values
<1>4. WinnerStands'
  BY <1>1, <1>2, <1>3, AnyWinner
<1>5. (Settled <=> resolved) /\ (Settled' <=> resolved')
  BY <1>2 DEF Settled
<1> HIDE DEF Decides
<1>6. EndedQueue(t) /\ (Parent \in Range(ready') <=> parent = "waiting" /\ Settled')
  <2>1. CASE Decides(r, remaining')
    <3>1. Parent \notin Range(ready) /\ parent # "returned"
      BY <1>1, <1>5, <2>1 DEF IInv, WokenOnce
    <3>2. parent = "waiting"
      BY <1>2, <3>1 DEF IInv, TypeOK
    <3> QED
      BY <1>1, <1>5, <2>1, <3>1, <3>2, NotifyQueue
  <2>2. CASE ~Decides(r, remaining')
    <3>1. EndedQueue(t) /\ (Parent \in Range(ready') <=> Parent \in Range(ready))
      BY <1>1, <2>2, QuietQueue
    <3>2. Settled' <=> Settled
      BY <1>1, <1>5, <2>2
    <3> QED
      BY <3>1, <3>2 DEF IInv, WokenOnce
  <2> QED
    BY <2>1, <2>2
<1>7. Settled => Settled'
  BY <1>1, <1>5
<1>8. finishes' \in Seq(Values) /\ Len(finishes') = Len(finishes) + 1
  BY <1>3, OneMore
<1>9. resolved' \in BOOLEAN /\ result' \in Values /\ results' \in [racers -> Values]
  BY <1>1, <1>3 DEF IInv, TypeOK
<1>10. TypeOK' /\ CountInv' /\ WokenOnce'
  BY <1>1, <1>6, <1>7, <1>8, <1>9, EndInv
<1>11. ResultsInv' /\ AllResultsInPlace'
  BY <1>2 DEF ResultsInv, AllResultsInPlace
<1> QED
  BY <1>4, <1>10, <1>11 DEF IInv

\* The racers of a timeout: the first that completes gives the result.
LEMMA FinishTimeoutInv ==
  ASSUME IInv, NEW t \in racers, NEW q, Rest(t, q), NEW v \in Values, kind = "timeout",
         FinishTimeout(t, v, q), finishes' = Append(finishes, v), RacerReturns(t)
  PROVE  IInv'
<1>1. /\ UNCHANGED <<remaining, results>>
      /\ ~resolved => resolved' = TRUE /\ result' = v /\ StopAndNotify(t, racers \ {t}, q)
      /\ resolved => Quiet(t, q) /\ UNCHANGED <<resolved, result>>
  BY DEF FinishTimeout
<1>2. parent # "start" /\ UNCHANGED <<kind, racers, parent, returned>>
  BY HandleFacts DEF RacerReturns, inputVars
<1>3. (Settled <=> resolved) /\ (Settled' <=> resolved')
  BY <1>2 DEF Settled
<1>4. EndedQueue(t) /\ (Parent \in Range(ready') <=> parent = "waiting" /\ Settled')
  <2>1. CASE ~resolved
    <3>1. Parent \notin Range(ready) /\ parent # "returned"
      BY <1>3, <2>1 DEF IInv, WokenOnce
    <3>2. parent = "waiting"
      BY <1>2, <3>1 DEF IInv, TypeOK
    <3>3. racers \ {t} \in SUBSET racers
      OBVIOUS
    <3> QED
      BY <1>1, <1>3, <2>1, <3>1, <3>2, <3>3, NotifyQueue
  <2>2. CASE resolved
    <3>1. EndedQueue(t) /\ (Parent \in Range(ready') <=> Parent \in Range(ready))
      BY <1>1, <2>2, QuietQueue
    <3>2. Settled' <=> Settled
      BY <1>1, <1>3, <2>2
    <3> QED
      BY <3>1, <3>2 DEF IInv, WokenOnce
  <2> QED
    BY <2>1, <2>2
<1>5. Settled => Settled'
  BY <1>1, <1>3
<1>6. /\ finishes' \in Seq(Values) /\ Len(finishes) \in Nat
      /\ DOMAIN finishes = 1..Len(finishes) /\ DOMAIN finishes' = 1..(Len(finishes) + 1)
      /\ \A i \in 1..Len(finishes) : finishes'[i] = finishes[i]
      /\ finishes'[Len(finishes) + 1] = v
  BY OneMore
<1>7. resolved' \in BOOLEAN /\ result' \in Values /\ results' \in [racers -> Values]
  BY <1>1 DEF IInv, TypeOK
<1>8. TypeOK' /\ CountInv' /\ WokenOnce'
  BY <1>1, <1>4, <1>5, <1>6, <1>7, EndInv
<1>9. WinnerStands'
  <2>1. Deciding = 1..Len(finishes) /\ Deciding' = 1..(Len(finishes) + 1)
    BY <1>2, <1>6 DEF Deciding
  <2>2. resolved <=> Deciding # {}
    BY DEF IInv, WinnerStands
  <2>3. CASE ~resolved
    <3>1. Len(finishes) = 0
      BY <1>6, <2>1, <2>2, <2>3, SMTT(20)
    <3>2. 1 \in Deciding' /\ result' = finishes'[1] /\ \A j \in Deciding' : 1 <= j
      BY <1>1, <1>6, <2>1, <2>3, <3>1, SMTT(20)
    <3> QED
      BY <1>1, <2>3, <3>2 DEF WinnerStands
  <2>4. CASE resolved
    <3>1. PICK i \in Deciding : result = finishes[i] /\ \A j \in Deciding : i <= j
      BY <2>4 DEF IInv, WinnerStands
    <3>2. i \in Deciding' /\ result' = finishes'[i] /\ \A j \in Deciding' : i <= j
      BY <1>1, <1>6, <2>1, <2>4, <3>1, SMTT(20)
    <3> QED
      BY <1>1, <2>4, <3>2 DEF WinnerStands
  <2> QED
    BY <2>3, <2>4
<1>10. ResultsInv' /\ AllResultsInPlace'
  BY <1>2 DEF ResultsInv, AllResultsInPlace
<1> QED
  BY <1>8, <1>9, <1>10 DEF IInv

\* timeout_timer_racer(): the end of a cancelled sleep changes nothing but the racer.
LEMMA TimerInv ==
  ASSUME IInv, NEW q, Rest(Timer, q), TimerEnds(q)
  PROVE  IInv'
<1>1. Timer \in racers /\ kind = "timeout"
  <2>1. Timer \in racers
    BY HandleFacts, RacersAssumption
  <2> QED
    BY <2>1 DEF IInv, CountInv
<1>2. CASE leaf[Timer] # "Cancelled"
  <2>1. TimedOut \in Values
    BY DEF Values
  <2>2. /\ FinishTimeout(Timer, TimedOut, q) /\ finishes' = Append(finishes, TimedOut)
        /\ RacerReturns(Timer)
    BY <1>2 DEF TimerEnds
  <2> QED
    BY <1>1, <2>1, <2>2, FinishTimeoutInv
<1>3. CASE leaf[Timer] = "Cancelled"
  <2>1. Quiet(Timer, q) /\ UNCHANGED <<remaining, resolved, result, results, finishes>>
        /\ RacerReturns(Timer)
    BY <1>3 DEF TimerEnds, sharedVars
  <2>2. UNCHANGED <<kind, racers, parent, returned>>
    BY <2>1 DEF RacerReturns, inputVars
  <2>3. EndedQueue(Timer) /\ (Parent \in Range(ready') <=> Parent \in Range(ready))
    BY <1>1, <2>1, QuietQueue
  <2>4. Settled' <=> Settled
    BY <2>1, <2>2 DEF Settled
  <2>5. Parent \in Range(ready') <=> parent = "waiting" /\ Settled'
    BY <2>3, <2>4 DEF IInv, WokenOnce
  <2>6. /\ finishes' \in Seq(Values) /\ resolved' \in BOOLEAN /\ result' \in Values
        /\ results' \in [racers -> Values]
    BY <2>1 DEF IInv, TypeOK
  <2>7. TypeOK' /\ CountInv' /\ WokenOnce'
    BY <1>1, <2>1, <2>3, <2>4, <2>5, <2>6, EndInv
  <2>8. Deciding' = Deciding
    BY <2>1, <2>2 DEF Deciding
  <2>9. WinnerStands'
    BY <2>1, <2>2, <2>8 DEF IInv, WinnerStands
  <2>10. ResultsInv' /\ AllResultsInPlace'
    BY <1>1, <2>2 DEF ResultsInv, AllResultsInPlace
  <2> QED
    BY <2>7, <2>9, <2>10 DEF IInv
<1> QED
  BY <1>2, <1>3

\* A task that ends, in each of the three combinators.
LEMMA TaskInv ==
  ASSUME IInv, NEW t \in racers \ {Timer}, NEW q, Rest(t, q), NEW r \in Outcomes,
         TaskEnds(t, r, q)
  PROVE  IInv'
<1>1. finishes' = Append(finishes, <<t, r>>) /\ RacerReturns(t)
  BY DEF TaskEnds
<1>2. CASE kind = "all" /\ FinishAll(t, r, q)
  BY <1>1, <1>2, FinishAllInv
<1>3. CASE kind = "any" /\ FinishAny(t, r, q)
  BY <1>1, <1>3, FinishAnyInv
<1>4. CASE kind = "timeout" /\ FinishTimeout(t, <<t, r>>, q)
  <2>1. <<t, r>> \in Values
    BY DEF Values, IInv, TypeOK
  <2> QED
    BY <1>1, <1>4, <2>1, FinishTimeoutInv
<1> QED
  BY <1>2, <1>3, <1>4 DEF TaskEnds

\* The invariant is inductive for every set of racers, every set of them that is deaf to
\* its token, and every order in which leaves complete and the loop resumes.
THEOREM Invariance == Spec => []IInv
<1>1. IInv /\ [Next]_vars => IInv'
  <2> SUFFICES ASSUME IInv, [Next]_vars
               PROVE  IInv'
    OBVIOUS
  <2>1. CASE Start
    BY <2>1, StartInv
  <2>2. ASSUME NEW t \in racers, Fire(t)
        PROVE  IInv'
    BY <2>2, FireInv
  <2>3. CASE Resume
    <3>1. PICK i \in DOMAIN ready :
            LET h == ready[i]
                q == RemoveAt(ready, i)
            IN \/ h = Parent /\ ParentReturns(q)
               \/ h # Parent /\ Suspend(h, q)
               \/ h = Timer /\ TimerEnds(q)
               \/ h \in racers \ {Timer} /\ \E r \in Outcomes : TaskEnds(h, r, q)
      BY <2>3 DEF Resume
    <3> DEFINE h == ready[i]
               q == RemoveAt(ready, i)
    <3>2. Rest(h, q) /\ h \in racers \cup {Parent}
      BY Resumed, HandleFacts
    <3> HIDE DEF h, q
    <3>3. CASE h = Parent /\ ParentReturns(q)
      BY <3>2, <3>3, ParentInv
    <3>4. CASE h # Parent /\ Suspend(h, q)
      BY <3>2, <3>4, SuspendInv
    <3>5. CASE h = Timer /\ TimerEnds(q)
      BY <3>2, <3>5, TimerInv
    <3>6. CASE h \in racers \ {Timer} /\ \E r \in Outcomes : TaskEnds(h, r, q)
      BY <3>2, <3>6, TaskInv
    <3> QED
      BY <3>1, <3>3, <3>4, <3>5, <3>6 DEF h, q
  <2>4. CASE UNCHANGED vars
    <3>1. UNCHANGED <<kind, racers, deaf, parent, ready, leaf, done, waits, stop, remaining,
                      resolved, result, results, returned, finishes>>
      BY <2>4 DEF vars, inputVars, sharedVars
    <3>2. TypeOK' /\ CountInv'
      BY <3>1 DEF IInv, TypeOK, CountInv
    <3>3. Settled' = Settled
      BY <3>1 DEF Settled
    <3>4. WokenOnce'
      BY <3>1, <3>3 DEF IInv, WokenOnce
    <3> QED
      BY <3>1, <3>2, <3>4, OutcomesUntouched DEF IInv
  <2> QED
    BY <2>1, <2>2, <2>3, <2>4 DEF Next
<1> QED
  BY InitInv, <1>1, PTL DEF Spec

\* The first outcome that decides a when_any or a timeout resolves it in the step in which
\* it comes, and no later one replaces it.
THEOREM FirstWins == Spec => []WinnerStands
<1>1. IInv => WinnerStands
  BY DEF IInv
<1> QED
  BY Invariance, <1>1, PTL

\* The handle of the parent is queued once, when the combinator is settled, and never after
\* its return; a racer is queued once per suspension, whoever wakes it.
THEOREM NobodyWokenTwice == Spec => []WokenOnce
<1>1. IInv => WokenOnce
  BY DEF IInv
<1> QED
  BY Invariance, <1>1, PTL

\* when_all returns when all its racers have, with the result of each at its own place.
THEOREM AllResults == Spec => []AllResultsInPlace
<1>1. IInv => AllResultsInPlace
  BY DEF IInv
<1> QED
  BY Invariance, <1>1, PTL
=============================================================================
