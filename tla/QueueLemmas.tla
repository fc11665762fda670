---------------------------- MODULE QueueLemmas ----------------------------
(***************************************************************************)
(* What the queue operations do to the elements of a queue: Range, and     *)
(* IsInjective for a queue that holds each of them once.                   *)
(***************************************************************************)
EXTENDS Naturals, Sequences, Functions, FiniteSetTheorems, TLAPS

\* The domain of a queue, and its elements by position.
LEMMA ElementsOf ==
  ASSUME NEW S, NEW q \in Seq(S)
  PROVE  /\ Len(q) \in Nat /\ DOMAIN q = 1..Len(q)
         /\ Range(q) \subseteq S
         /\ \A u : u \in Range(q) <=> \E i \in 1..Len(q) : q[i] = u
         /\ IsInjective(q) <=> \A i, j \in 1..Len(q) : q[i] = q[j] => i = j
BY DEF Range, IsInjective

\* The empty queue.
LEMMA EmptyQueue ==
  ASSUME NEW S
  PROVE  <<>> \in Seq(S) /\ Range(<<>>) = {} /\ IsInjective(<<>>)
BY DEF Range, IsInjective

\* A queue of one element.
LEMMA OneQueued ==
  ASSUME NEW S, NEW t \in S
  PROVE  <<t>> \in Seq(S) /\ Range(<<t>>) = {t} /\ IsInjective(<<t>>)
BY DEF Range, IsInjective

\* Append adds its element, and keeps a queue injective if it was not there.
LEMMA Appended ==
  ASSUME NEW S, NEW q \in Seq(S), NEW t \in S
  PROVE  /\ Append(q, t) \in Seq(S)
         /\ Range(Append(q, t)) = Range(q) \cup {t}
         /\ IsInjective(q) /\ t \notin Range(q) => IsInjective(Append(q, t))
<1> DEFINE r == Append(q, t)
<1>1. /\ r \in Seq(S) /\ Len(r) = Len(q) + 1 /\ Len(q) \in Nat
      /\ \A i \in 1..Len(q) : r[i] = q[i]
      /\ r[Len(q) + 1] = t
      /\ \A i \in 1..Len(r) : i \in 1..Len(q) \/ i = Len(q) + 1
  OBVIOUS
<1> HIDE DEF r
<1>2. Range(r) = Range(q) \cup {t}
  BY <1>1, ElementsOf
<1>3. ASSUME IsInjective(q), t \notin Range(q) PROVE IsInjective(r)
  BY <1>1, <1>3, ElementsOf
<1> QED BY <1>1, <1>2, <1>3 DEF r

\* Head and Tail take a queue apart.
LEMMA Popped ==
  ASSUME NEW S, NEW q \in Seq(S), q # <<>>
  PROVE  /\ Tail(q) \in Seq(S)
         /\ Head(q) \in S
         /\ Range(q) = Range(Tail(q)) \cup {Head(q)}
         /\ IsInjective(q) => IsInjective(Tail(q)) /\ Head(q) \notin Range(Tail(q))
<1>1. Len(q) \in Nat /\ Len(q) # 0
  OBVIOUS
<1>2. /\ Tail(q) \in Seq(S) /\ Len(Tail(q)) = Len(q) - 1
      /\ \A i \in 1..Len(Tail(q)) : Tail(q)[i] = q[i + 1] /\ i + 1 \in 1..Len(q)
  BY <1>1
<1>3. Head(q) = q[1] /\ 1 \in 1..Len(q) /\ Head(q) \in S
  BY <1>1
<1>4. \A i \in 1..Len(q) : i = 1 \/ (i - 1 \in 1..Len(Tail(q)) /\ Tail(q)[i - 1] = q[i])
  BY <1>1, <1>2
<1> DEFINE r == Tail(q)
<1>5. /\ \A u : u \in Range(q) <=> \E i \in 1..Len(q) : q[i] = u
      /\ \A u : u \in Range(r) <=> \E i \in 1..Len(r) : r[i] = u
      /\ IsInjective(r) <=> \A i, j \in 1..Len(r) : r[i] = r[j] => i = j
  BY <1>2, ElementsOf, Zenon
<1>6. Range(q) = Range(Tail(q)) \cup {Head(q)}
  <2>1. ASSUME NEW u \in Range(q)
        PROVE  u \in Range(r) \/ u = Head(q)
    <3>1. PICK i \in 1..Len(q) : q[i] = u
      BY <1>5, Zenon
    <3> QED
      BY <1>3, <1>4, <1>5, <3>1, Zenon
  <2>2. Range(r) \subseteq Range(q)
    BY <1>2, <1>5
  <2>3. Head(q) \in Range(q)
    BY <1>3, <1>5
  <2> QED BY <2>1, <2>2, <2>3
<1>7. ASSUME IsInjective(q) PROVE IsInjective(Tail(q)) /\ Head(q) \notin Range(Tail(q))
  <2>1. \A i, j \in 1..Len(q) : q[i] = q[j] => i = j
    BY <1>7, ElementsOf
  <2>2. IsInjective(Tail(q))
    <3>1. \A i, j \in 1..Len(Tail(q)) : Tail(q)[i] = Tail(q)[j] => i + 1 = j + 1
      BY <1>2, <2>1
    <3> QED BY <1>1, <1>2, <3>1, <1>5
  <2>3. ASSUME Head(q) \in Range(Tail(q)) PROVE FALSE
    <3>1. PICK i \in 1..Len(Tail(q)) : Tail(q)[i] = Head(q)
      BY <2>3, <1>5
    <3>2. i + 1 = 1
      BY <1>2, <1>3, <2>1, <3>1
    <3> QED BY <1>1, <1>2, <3>2
  <2> QED BY <2>2, <2>3
<1> QED BY <1>2, <1>3, <1>6, <1>7

\* Concatenation joins them.
LEMMA Joined ==
  ASSUME NEW S, NEW p \in Seq(S), NEW q \in Seq(S)
  PROVE  /\ p \o q \in Seq(S)
         /\ Range(p \o q) = Range(p) \cup Range(q)
         /\ IsInjective(p \o q) <=>
              IsInjective(p) /\ IsInjective(q) /\ Range(p) \cap Range(q) = {}
<1> DEFINE r == p \o q
<1>1. /\ r \in Seq(S) /\ Len(r) = Len(p) + Len(q)
      /\ Len(p) \in Nat /\ Len(q) \in Nat
      /\ \A i \in 1..Len(p) : r[i] = p[i] /\ i \in 1..Len(r)
      /\ \A j \in 1..Len(q) : r[Len(p) + j] = q[j] /\ Len(p) + j \in 1..Len(r)
      /\ \A k \in 1..Len(r) : k \in 1..Len(p) \/ (k - Len(p) \in 1..Len(q)
                                                  /\ r[k] = q[k - Len(p)])
  OBVIOUS
<1> HIDE DEF r
<1>2. Range(r) = Range(p) \cup Range(q)
  <2>0. r \in Seq(S)
    BY <1>1
  <2>1. \A u : u \in Range(r) <=> \E i \in 1..Len(r) : r[i] = u
    BY <2>0, ElementsOf
  <2>2. \A u : u \in Range(p) <=> \E i \in 1..Len(p) : p[i] = u
    BY ElementsOf
  <2>3. \A u : u \in Range(q) <=> \E i \in 1..Len(q) : q[i] = u
    BY ElementsOf
  <2>4. Range(p) \subseteq Range(r)
    BY <1>1, <2>1, <2>2, Zenon
  <2>5. Range(q) \subseteq Range(r)
    BY <1>1, <2>1, <2>3, Zenon
  <2>6. \A u \in Range(r) : u \in Range(p) \/ u \in Range(q)
    BY <1>1, <2>1, <2>2, <2>3, SMTT(20)
  <2> QED BY <2>4, <2>5, <2>6
<1>3. ASSUME IsInjective(r)
      PROVE  IsInjective(p) /\ IsInjective(q) /\ Range(p) \cap Range(q) = {}
  <2>0. r \in Seq(S)
    BY <1>1
  <2>1. \A i, j \in 1..Len(r) : r[i] = r[j] => i = j
    BY <1>3, <2>0, ElementsOf
  <2>2. IsInjective(p)
    BY <1>1, <2>1, ElementsOf
  <2>3. \A i, j \in 1..Len(q) : q[i] = q[j] => i = j
    <3> SUFFICES ASSUME NEW i \in 1..Len(q), NEW j \in 1..Len(q), q[i] = q[j]
                 PROVE  i = j
      OBVIOUS
    <3>0. /\ r[Len(p) + i] = q[i] /\ Len(p) + i \in 1..Len(r)
          /\ r[Len(p) + j] = q[j] /\ Len(p) + j \in 1..Len(r)
      BY <1>1
    <3>1. Len(p) + i = Len(p) + j
      BY <2>1, <3>0
    <3> QED BY <1>1, <3>1
  <2>4. ASSUME NEW u \in Range(p) \cap Range(q) PROVE FALSE
    <3>1. PICK i \in 1..Len(p) : p[i] = u
      BY ElementsOf
    <3>2. PICK j \in 1..Len(q) : q[j] = u
      BY ElementsOf
    <3>3. i = Len(p) + j
      BY <1>1, <2>1, <3>1, <3>2
    <3> QED BY <1>1, <3>3
  <2> QED BY <2>2, <2>3, <2>4, ElementsOf
<1>4. ASSUME IsInjective(p), IsInjective(q), Range(p) \cap Range(q) = {} PROVE IsInjective(r)
  <2> SUFFICES ASSUME NEW i \in 1..Len(r), NEW j \in 1..Len(r), r[i] = r[j]
               PROVE  i = j
    BY <1>1, ElementsOf
  <2>0. /\ \A k, l \in 1..Len(p) : p[k] = p[l] => k = l
        /\ \A k, l \in 1..Len(q) : q[k] = q[l] => k = l
        /\ \A k \in 1..Len(p), l \in 1..Len(q) : p[k] # q[l]
    <3>1. \A k, l \in 1..Len(p) : p[k] = p[l] => k = l
      BY <1>4, ElementsOf
    <3>2. \A k, l \in 1..Len(q) : q[k] = q[l] => k = l
      BY <1>4, ElementsOf
    <3>3. ASSUME NEW k \in 1..Len(p), NEW l \in 1..Len(q), p[k] = q[l] PROVE FALSE
      <4>1. p[k] \in Range(p)
        BY ElementsOf
      <4>2. p[k] \in Range(q)
        BY <3>3, ElementsOf
      <4> QED BY <1>4, <4>1, <4>2
    <3> QED BY <3>1, <3>2, <3>3
  <2>1. CASE i \in 1..Len(p) /\ j \in 1..Len(p)
    BY <1>1, <2>0, <2>1
  <2>2. CASE i \notin 1..Len(p) /\ j \notin 1..Len(p)
    <3>1. i - Len(p) = j - Len(p)
      BY <1>1, <2>0, <2>2
    <3> QED BY <1>1, <3>1
  <2>3. CASE i \in 1..Len(p) /\ j \notin 1..Len(p)
    BY <1>1, <2>0, <2>3
  <2>4. CASE i \notin 1..Len(p) /\ j \in 1..Len(p)
    BY <1>1, <2>0, <2>4
  <2> QED BY <2>1, <2>2, <2>3, <2>4
<1> QED BY <1>1, <1>2, <1>3, <1>4 DEF r

\* An injective listing of a finite set in as many places as it has elements has them all,
\* and there is one.
LEMMA Listed ==
  ASSUME NEW S, NEW T, T \subseteq S, IsFiniteSet(T),
         NEW f, f = CHOOSE g \in [1..Cardinality(T) -> T] : IsInjective(g)
  PROVE  f \in Seq(S) /\ Range(f) = T /\ IsInjective(f)
<1> DEFINE n == Cardinality(T)
<1>1. n \in Nat /\ ExistsBijection(1..n, T)
  BY FS_CardinalityType
<1>2. \E g \in [1..n -> T] : IsInjective(g)
  BY <1>1 DEF ExistsBijection, Bijection, Injection
<1>3. f \in [1..n -> T] /\ IsInjective(f)
  BY <1>2
<1>4. f \in Injection(1..n, T)
  BY <1>3 DEF Injection
<1>5. Cardinality(1..n) = n
  BY <1>1, FS_Interval
<1> HIDE DEF n
<1>6. f \in Surjection(1..n, T)
  BY <1>4, <1>5, FS_Injection DEF n
<1>7. \A u \in T : \E i \in 1..n : f[i] = u
  BY <1>6 DEF Surjection
<1>8. f \in Seq(T) /\ f \in Seq(S) /\ DOMAIN f = 1..n
  BY <1>1, <1>3
<1>9. \A u : u \in Range(f) <=> \E i \in 1..n : f[i] = u
  BY <1>8, Zenon DEF Range
<1>10. \A i \in 1..n : f[i] \in T
  BY <1>3, Zenon
<1>11. Range(f) = T
  BY <1>7, <1>9, <1>10, Zenon
<1> QED
  BY <1>3, <1>8, <1>11
=============================================================================
