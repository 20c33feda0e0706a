------------------------- MODULE ModuleLoaderProofs -------------------------
(***************************************************************************)
(* Proofs about ModuleLoader and Messenger for any configuration, bindings *)
(* and messages: the best instance of each name runs, the registry of the  *)
(* delegates stays exact, a module runs exactly if its required messages   *)
(* came, and it finds all of its messages in the order of their dispatch.  *)
(***************************************************************************)
EXTENDS ModuleLoader, SequenceTheorems, FiniteSetTheorems, WellFoundedInduction, TLAPS

-----------------------------------------------------------------------------
(* Numbers and sequences *)

\* A set of natural numbers that is not empty has a least element.
LEMMA LeastNat ==
  ASSUME NEW S, S \subseteq Nat, S # {}
  PROVE  \E x \in S : \A y \in S : x <= y
  <1>1. PICK x \in S : \A y \in S : ~(<<y, x>> \in OpToRel(<, Nat))
    BY NatLessThanWellFounded, WFMin
  <1>2. \A y \in S : <<y, x>> \notin OpToRel(<, Nat) => x <= y
    BY DEF OpToRel
  <1> QED BY <1>1, <1>2

Rank(K, i) == Cardinality({x \in K : x <= i})

\* The ranks of the elements of a set are 1, 2, ... in their order.
LEMMA Ranks ==
  ASSUME NEW n \in Nat, NEW K \in SUBSET (1 .. n)
  PROVE  /\ Cardinality(K) \in Nat
         /\ \A i \in K : Rank(K, i) \in 1 .. Cardinality(K)
         /\ \A i, j \in K : i < j => Rank(K, i) < Rank(K, j)
         /\ \A k \in 1 .. Cardinality(K) : \E i \in K : Rank(K, i) = k
  <1> DEFINE upTo(i) == {x \in K : x <= i}
  <1>0. \A i \in K : i \in Nat
    OBVIOUS
  <1>1. IsFiniteSet(1 .. n)
    BY FS_Interval
  <1>2. IsFiniteSet(K) /\ Cardinality(K) \in Nat
    BY <1>1, FS_Subset, FS_CardinalityType
  <1>3. \A i \in K : IsFiniteSet(upTo(i)) /\ Cardinality(upTo(i)) \in Nat
                     /\ Cardinality(upTo(i)) <= Cardinality(K)
    <2> SUFFICES ASSUME NEW i \in K
                 PROVE  IsFiniteSet(upTo(i)) /\ Cardinality(upTo(i)) \in Nat
                        /\ Cardinality(upTo(i)) <= Cardinality(K)
      OBVIOUS
    <2>1. upTo(i) \in SUBSET K
      OBVIOUS
    <2> HIDE DEF upTo
    <2> QED BY <1>2, <2>1, FS_Subset, FS_CardinalityType
  <1>4. \A i \in K : Cardinality(upTo(i)) # 0
    <2> SUFFICES ASSUME NEW i \in K PROVE Cardinality(upTo(i)) # 0
      OBVIOUS
    <2>1. i \in upTo(i)
      OBVIOUS
    <2>2. IsFiniteSet(upTo(i))
      BY <1>3
    <2> HIDE DEF upTo
    <2> QED BY <2>1, <2>2, FS_EmptySet
  <1>5. \A i \in K : Rank(K, i) \in 1 .. Cardinality(K)
    BY <1>2, <1>3, <1>4 DEF Rank
  <1>6. \A i, j \in K : i < j => Rank(K, i) < Rank(K, j)
    <2> SUFFICES ASSUME NEW i \in K, NEW j \in K, i < j
                 PROVE  Cardinality(upTo(i)) < Cardinality(upTo(j))
      BY DEF Rank
    <2>1. upTo(i) \in SUBSET upTo(j) /\ j \in upTo(j) /\ j \notin upTo(i)
      <3>1. i \in Nat /\ j \in Nat
        BY <1>0
      <3>2. \A x \in K : x <= i => x <= j
        BY <1>0, <3>1
      <3>3. \A x \in upTo(i) : x \in upTo(j)
        BY <3>2
      <3>4. j \in upTo(j) /\ j \notin upTo(i)
        BY <3>1
      <3> QED BY <3>3, <3>4
    <2>2. IsFiniteSet(upTo(j)) /\ Cardinality(upTo(j)) \in Nat /\ Cardinality(upTo(i)) \in Nat
      BY <1>3
    <2> HIDE DEF upTo
    <2>3. Cardinality(upTo(i)) <= Cardinality(upTo(j)) /\ Cardinality(upTo(i)) # Cardinality(upTo(j))
      BY <2>1, <2>2, FS_Subset
    <2> QED BY <2>2, <2>3
  <1>7. \A k \in 1 .. Cardinality(K) : \E i \in K : Rank(K, i) = k
    <2> DEFINE f == [i \in K |-> Rank(K, i)]
    <2>1. f \in [K -> 1 .. Cardinality(K)]
      BY <1>5
    <2>2. \A i, j \in K : f[i] = f[j] => i = j
      <3> SUFFICES ASSUME NEW i \in K, NEW j \in K, f[i] = f[j], i # j PROVE FALSE
        OBVIOUS
      <3>1. i < j \/ j < i
        OBVIOUS
      <3>2. f[i] < f[j] \/ f[j] < f[i]
        BY <1>6, <3>1
      <3> QED BY <1>5, <3>2
    <2>3. f \in Injection(K, 1 .. Cardinality(K))
      BY <2>1, <2>2 DEF Injection, IsInjective
    <2>4. IsFiniteSet(1 .. Cardinality(K)) /\ Cardinality(1 .. Cardinality(K)) = Cardinality(K)
      BY <1>2, FS_Interval
    <2> HIDE DEF f
    <2>5. f \in Surjection(K, 1 .. Cardinality(K))
      BY <2>3, <2>4, FS_Injection
    <2>6. \A k \in 1 .. Cardinality(K) : \E i \in K : f[i] = k
      BY <2>5 DEF Surjection
    <2> QED BY <2>6 DEF f
  <1> QED BY <1>2, <1>5, <1>6, <1>7

\* Picked() takes the elements at the given places and at no other.
LEMMA PickedAt ==
  ASSUME NEW S, NEW s \in Seq(S), NEW K \in SUBSET (1 .. Len(s))
  PROVE  /\ Picked(s, K) \in Seq(S) /\ Len(Picked(s, K)) = Cardinality(K) /\ Cardinality(K) \in Nat
         /\ DOMAIN Picked(s, K) = 1 .. Cardinality(K)
         /\ \A i \in K : Rank(K, i) \in 1 .. Cardinality(K) /\ Picked(s, K)[Rank(K, i)] = s[i]
         /\ \A k \in 1 .. Cardinality(K) : \E i \in K : Rank(K, i) = k /\ Picked(s, K)[k] = s[i]
  <1> DEFINE C == Cardinality(K)
             nth(k) == CHOOSE i \in K : Rank(K, i) = k
  <1>1. Len(s) \in Nat
    OBVIOUS
  <1>2. /\ C \in Nat
        /\ \A i \in K : Rank(K, i) \in 1 .. C
        /\ \A i, j \in K : i < j => Rank(K, i) < Rank(K, j)
        /\ \A k \in 1 .. C : \E i \in K : Rank(K, i) = k
    BY <1>1, Ranks
  <1>3. \A k \in 1 .. C : nth(k) \in K /\ Rank(K, nth(k)) = k
    BY <1>2
  <1>4. \A i \in K : nth(Rank(K, i)) = i
    <2> SUFFICES ASSUME NEW i \in K, nth(Rank(K, i)) # i PROVE FALSE
      OBVIOUS
    <2>1. PICK a \in K : Rank(K, a) = Rank(K, i) /\ a # i
      BY <1>2, <1>3
    <2>2. a \in Nat /\ i \in Nat
      OBVIOUS
    <2>3. Rank(K, a) < Rank(K, i) \/ Rank(K, i) < Rank(K, a)
      BY <1>2, <2>1, <2>2
    <2> QED BY <1>2, <2>1, <2>3
  <1>5. Picked(s, K) = [k \in 1 .. C |-> s[nth(k)]]
    BY DEF Picked, Rank
  <1> HIDE DEF nth, C
  <1>6. \A k \in 1 .. C : s[nth(k)] \in S
    <2> SUFFICES ASSUME NEW k \in 1 .. C PROVE s[nth(k)] \in S
      OBVIOUS
    <2>1. nth(k) \in 1 .. Len(s)
      BY <1>3
    <2> QED BY <2>1, ElementOfSeq
  <1>7. Picked(s, K) \in [1 .. C -> S]
    BY <1>5, <1>6
  <1>8. Picked(s, K) \in Seq(S) /\ Len(Picked(s, K)) = C /\ DOMAIN Picked(s, K) = 1 .. C
    BY <1>2, <1>7
  <1> QED BY <1>2, <1>3, <1>4, <1>5, <1>8 DEF C

\* Picked() in terms of sets, and of sequences without repetitions.
LEMMA PickedSet ==
  ASSUME NEW S, NEW s \in Seq(S), NEW K \in SUBSET (1 .. Len(s))
  PROVE  /\ ToSet(Picked(s, K)) = {s[i] : i \in K}
         /\ IsInjective(s) => IsInjective(Picked(s, K))
  <1>1. ToSet(Picked(s, K)) = {s[i] : i \in K}
    <2> DEFINE t == Picked(s, K)
    <2>1. /\ DOMAIN t = 1 .. Cardinality(K)
          /\ \A i \in K : Rank(K, i) \in 1 .. Cardinality(K) /\ t[Rank(K, i)] = s[i]
          /\ \A k \in 1 .. Cardinality(K) : \E i \in K : t[k] = s[i]
      BY PickedAt
    <2> HIDE DEF t
    <2>2. \A x \in {s[i] : i \in K} : \E k \in DOMAIN t : t[k] = x
      BY <2>1
    <2>3. \A k \in DOMAIN t : t[k] \in {s[i] : i \in K}
      BY <2>1
    <2>4. ToSet(t) = {s[i] : i \in K}
      BY <2>2, <2>3 DEF ToSet
    <2> QED BY <2>4 DEF t
  <1>2. ASSUME IsInjective(s) PROVE IsInjective(Picked(s, K))
    <2> SUFFICES ASSUME NEW k \in 1 .. Cardinality(K), NEW l \in 1 .. Cardinality(K),
                        Picked(s, K)[k] = Picked(s, K)[l]
                 PROVE  k = l
      BY PickedAt DEF IsInjective
    <2>1. PICK i \in K : Rank(K, i) = k /\ Picked(s, K)[k] = s[i]
      BY PickedAt
    <2>2. PICK j \in K : Rank(K, j) = l /\ Picked(s, K)[l] = s[j]
      BY PickedAt
    <2>3. i = j
      <3>1. i \in DOMAIN s /\ j \in DOMAIN s
        OBVIOUS
      <3> QED BY <3>1, <1>2, <2>1, <2>2 DEF IsInjective
    <2> QED BY <2>1, <2>2, <2>3
  <1> QED BY <1>1, <1>2

\* Picked() from a sequence that has grown.
LEMMA PickedAppend ==
  ASSUME NEW S, NEW s \in Seq(S), NEW x \in S, NEW K \in SUBSET (1 .. Len(s))
  PROVE  /\ Picked(Append(s, x), K) = Picked(s, K)
         /\ Picked(Append(s, x), K \cup {Len(s) + 1}) = Append(Picked(s, K), x)
  <1> DEFINE n == Len(s)
             t == Append(s, x)
             L == K \cup {n + 1}
  <1>1. /\ n \in Nat /\ t \in Seq(S) /\ Len(t) = n + 1 /\ t[n + 1] = x
        /\ \A i \in 1 .. n : t[i] = s[i]
    BY AppendProperties, LenProperties
  <1>2. K \in SUBSET (1 .. Len(t)) /\ L \in SUBSET (1 .. Len(t)) /\ K \in SUBSET (1 .. n)
    <2>1. K \in SUBSET (1 .. n)
      OBVIOUS
    <2> HIDE DEF n, t
    <2>2. 1 .. n \subseteq 1 .. n + 1 /\ n + 1 \in 1 .. n + 1
      BY <1>1
    <2> QED BY <1>1, <2>1, <2>2
  <1>3. /\ Picked(s, K) \in Seq(S) /\ Len(Picked(s, K)) = Cardinality(K) /\ Cardinality(K) \in Nat
        /\ DOMAIN Picked(s, K) = 1 .. Cardinality(K)
        /\ \A i \in K : Rank(K, i) \in 1 .. Cardinality(K) /\ Picked(s, K)[Rank(K, i)] = s[i]
        /\ \A k \in 1 .. Cardinality(K) : \E i \in K : Rank(K, i) = k /\ Picked(s, K)[k] = s[i]
    BY PickedAt
  <1> HIDE DEF n, t, L
  <1>4. /\ Picked(t, K) \in Seq(S) /\ Len(Picked(t, K)) = Cardinality(K)
        /\ \A i \in K : Picked(t, K)[Rank(K, i)] = t[i]
    BY <1>1, <1>2, PickedAt
  <1>5. /\ Picked(t, L) \in Seq(S) /\ Len(Picked(t, L)) = Cardinality(L)
        /\ \A i \in L : Picked(t, L)[Rank(L, i)] = t[i]
    BY <1>1, <1>2, PickedAt
  <1>6. Picked(t, K) = Picked(s, K)
    <2>1. \A k \in 1 .. Cardinality(K) : Picked(t, K)[k] = Picked(s, K)[k]
      <3> SUFFICES ASSUME NEW k \in 1 .. Cardinality(K) PROVE Picked(t, K)[k] = Picked(s, K)[k]
        OBVIOUS
      <3>1. PICK i \in K : Rank(K, i) = k /\ Picked(s, K)[k] = s[i]
        BY <1>3
      <3> QED BY <1>1, <1>2, <1>4, <3>1
    <2> QED BY <1>3, <1>4, <2>1, SeqEqual
  <1>7. Cardinality(L) = Cardinality(K) + 1
    <2>1. IsFiniteSet(1 .. n)
      BY <1>1, FS_Interval
    <2>2. IsFiniteSet(K)
      BY <1>2, <2>1, FS_Subset
    <2>3. n + 1 \notin K
      BY <1>1, <1>2
    <2> QED BY <2>2, <2>3, FS_AddElement DEF L
  <1>8. \A i \in K : Rank(L, i) = Rank(K, i)
    <2> SUFFICES ASSUME NEW i \in K PROVE Rank(L, i) = Rank(K, i)
      OBVIOUS
    <2>1. i \in 1 .. n
      BY <1>2
    <2>2. ~(n + 1 <= i)
      BY <1>1, <2>1
    <2>3. {y \in L : y <= i} = {y \in K : y <= i}
      BY <2>2 DEF L
    <2> QED BY <2>3 DEF Rank
  <1>9. Rank(L, n + 1) = Cardinality(K) + 1
    <2>1. \A y \in K : y <= n + 1
      BY <1>1, <1>2
    <2>2. {y \in L : y <= n + 1} = L
      <3>1. \A y \in L : y <= n + 1
        BY <1>1, <2>1 DEF L
      <3> QED BY <3>1
    <2> QED BY <1>7, <2>2 DEF Rank
  <1>10. Picked(t, L) = Append(Picked(s, K), x)
    <2> DEFINE p == Picked(s, K)
               q == Append(p, x)
    <2>1. /\ q \in Seq(S) /\ Len(q) = Cardinality(K) + 1 /\ q[Cardinality(K) + 1] = x
          /\ \A k \in 1 .. Cardinality(K) : q[k] = p[k]
      BY <1>3, AppendProperties
    <2>2. ASSUME NEW k \in 1 .. Cardinality(K) PROVE Picked(t, L)[k] = q[k]
      <3>1. PICK i \in K : Rank(K, i) = k /\ p[k] = s[i]
        BY <1>3
      <3>2. i \in L /\ i \in 1 .. n
        BY <1>2 DEF L
      <3>3. Picked(t, L)[k] = t[i]
        BY <1>5, <1>8, <3>1, <3>2
      <3>4. t[i] = s[i]
        BY <1>1, <3>2
      <3> QED BY <2>1, <3>1, <3>3, <3>4
    <2>3. Picked(t, L)[Cardinality(K) + 1] = x
      <3>1. n + 1 \in L
        BY DEF L
      <3> QED BY <1>1, <1>5, <1>9, <3>1
    <2> HIDE DEF q
    <2>4. \A k \in 1 .. Cardinality(K) + 1 : Picked(t, L)[k] = q[k]
      BY <1>3, <2>1, <2>2, <2>3
    <2>5. Picked(t, L) = q
      BY <1>5, <1>7, <2>1, <2>4, SeqEqual
    <2> QED BY <2>5 DEF q
  <1> QED BY <1>6, <1>10 DEF n, t, L

\* What erase() leaves.
LEMMA RemoveAtProperties ==
  ASSUME NEW S, NEW s \in Seq(S), NEW i \in 1 .. Len(s)
  PROVE  /\ RemoveAt(s, i) \in Seq(S) /\ Len(RemoveAt(s, i)) = Len(s) - 1
         /\ \A k \in 1 .. Len(s) - 1 : RemoveAt(s, i)[k] = IF k < i THEN s[k] ELSE s[k + 1]
         /\ ToSet(RemoveAt(s, i)) = {s[j] : j \in (1 .. Len(s)) \ {i}}
  <1> DEFINE t == RemoveAt(s, i)
             n == Len(s)
  <1>1. n \in Nat /\ i \in 1 .. n
    OBVIOUS
  <1>2. \A j \in 1 .. n : s[j] \in S
    OBVIOUS
  <1>3. /\ SubSeq(s, 1, i - 1) \in Seq(S) /\ Len(SubSeq(s, 1, i - 1)) = i - 1
        /\ \A k \in 1 .. i - 1 : SubSeq(s, 1, i - 1)[k] = s[k]
    BY <1>1, <1>2
  <1>4. /\ SubSeq(s, i + 1, n) \in Seq(S) /\ Len(SubSeq(s, i + 1, n)) = n - i
        /\ \A k \in 1 .. n - i : SubSeq(s, i + 1, n)[k] = s[i + k]
    BY <1>1, <1>2
  <1>5. /\ t \in Seq(S) /\ Len(t) = n - 1
        /\ \A k \in 1 .. n - 1 : t[k] = IF k < i THEN s[k] ELSE s[k + 1]
    <2> DEFINE a == SubSeq(s, 1, i - 1)
               b == SubSeq(s, i + 1, n)
    <2>1. t = a \o b
      BY DEF RemoveAt
    <2>2. /\ a \in Seq(S) /\ Len(a) = i - 1 /\ \A k \in 1 .. i - 1 : a[k] = s[k]
          /\ b \in Seq(S) /\ Len(b) = n - i /\ \A k \in 1 .. n - i : b[k] = s[i + k]
      BY <1>3, <1>4
    <2> HIDE DEF a, b, n, t
    <2>3. /\ a \o b \in Seq(S) /\ Len(a \o b) = (i - 1) + (n - i)
          /\ \A k \in 1 .. (i - 1) + (n - i) :
               (a \o b)[k] = IF k <= i - 1 THEN a[k] ELSE b[k - (i - 1)]
      <3>1. a \in Seq(S) /\ b \in Seq(S)
        BY <2>2
      <3>2. /\ a \o b \in Seq(S) /\ Len(a \o b) = Len(a) + Len(b)
            /\ \A k \in 1 .. Len(a) + Len(b) :
                 (a \o b)[k] = IF k <= Len(a) THEN a[k] ELSE b[k - Len(a)]
        BY <3>1, ConcatProperties
      <3>3. Len(a) = i - 1 /\ Len(b) = n - i
        BY <2>2
      <3> QED BY <3>2, <3>3
    <2>4. Len(t) = n - 1 /\ t \in Seq(S)
      BY <1>1, <2>1, <2>3
    <2>5. ASSUME NEW k \in 1 .. n - 1 PROVE t[k] = IF k < i THEN s[k] ELSE s[k + 1]
      <3>1. CASE k < i
        <4>1. k \in 1 .. (i - 1) + (n - i) /\ k <= i - 1 /\ k \in 1 .. i - 1
          BY <1>1, <3>1
        <4> QED BY <2>1, <2>2, <2>3, <3>1, <4>1
      <3>2. CASE ~(k < i)
        <4>1. /\ k \in 1 .. (i - 1) + (n - i) /\ ~(k <= i - 1)
              /\ k - (i - 1) \in 1 .. n - i /\ i + (k - (i - 1)) = k + 1
          BY <1>1, <3>2
        <4> QED BY <2>1, <2>2, <2>3, <3>2, <4>1
      <3> QED BY <3>1, <3>2
    <2> QED BY <2>4, <2>5
  <1>6. ToSet(t) = {s[j] : j \in (1 .. n) \ {i}}
    <2>1. DOMAIN t = 1 .. n - 1
      BY <1>5, LenProperties
    <2> HIDE DEF t, n
    <2>2. \A k \in 1 .. n - 1 : t[k] \in {s[j] : j \in (1 .. n) \ {i}}
      <3> SUFFICES ASSUME NEW k \in 1 .. n - 1 PROVE \E j \in (1 .. n) \ {i} : t[k] = s[j]
        OBVIOUS
      <3>1. CASE k < i
        BY <1>1, <1>5, <3>1
      <3>2. CASE ~(k < i)
        <4>1. k + 1 \in (1 .. n) \ {i} /\ t[k] = s[k + 1]
          BY <1>1, <1>5, <3>2
        <4> QED BY <4>1
      <3> QED BY <3>1, <3>2
    <2>3. \A j \in (1 .. n) \ {i} : \E k \in 1 .. n - 1 : t[k] = s[j]
      <3> SUFFICES ASSUME NEW j \in (1 .. n) \ {i} PROVE \E k \in 1 .. n - 1 : t[k] = s[j]
        OBVIOUS
      <3>1. CASE j < i
        BY <1>1, <1>5, <3>1
      <3>2. CASE ~(j < i)
        <4>1. j - 1 \in 1 .. n - 1 /\ ~(j - 1 < i) /\ (j - 1) + 1 = j
          BY <1>1, <3>2
        <4> QED BY <1>5, <4>1
      <3> QED BY <3>1, <3>2
    <2> QED BY <2>1, <2>2, <2>3 DEF ToSet
  <1> QED BY <1>5, <1>6 DEF t, n

-----------------------------------------------------------------------------
(* The run list *)

\* The instances that came are used, or a better one of the same name is.
Used(m) == \E n \in ToSet(modules) :
             n = m \/ (n \in Rivals(m) /\ priority[n] < priority[m])

ListInv ==
    /\ phase \in {"load", "event", "destroy", "over"} /\ priority \in [Modules -> 0 .. 2]
    /\ next \in 1 .. NumModules + 1 /\ configs \subseteq Modules
    /\ created \in Seq(Modules) /\ modules \in Seq(Modules)
    /\ IsInjective(created) /\ ToSet(created) \cap ToSet(modules) = {}
    /\ \A i, j \in DOMAIN modules : UniqueName[modules[i]] = UniqueName[modules[j]] => i = j
    /\ phase \in {"load", "event"} =>
         /\ \A m \in ToSet(created) \cup ToSet(modules) : m < next
         /\ \A m \in Modules : m < next => m \in ToSet(created) \/ Used(m)
         /\ configs \ {next} = ToSet(created) \cup ToSet(modules)
    /\ phase = "event" => created = <<>> /\ next = NumModules + 1

\* The elements of a sequence that grows at its end or loses its head.
LEMMA AppendSet ==
  ASSUME NEW S, NEW s \in Seq(S), NEW x \in S
  PROVE  /\ Append(s, x) \in Seq(S) /\ ToSet(Append(s, x)) = ToSet(s) \cup {x}
         /\ DOMAIN Append(s, x) = 1 .. Len(s) + 1 /\ Append(s, x)[Len(s) + 1] = x
         /\ DOMAIN s = 1 .. Len(s) /\ Len(s) \in Nat
         /\ \A k \in DOMAIN s : Append(s, x)[k] = s[k]
         /\ IsInjective(s) /\ x \notin ToSet(s) => IsInjective(Append(s, x))
  <1> DEFINE t == Append(s, x)
  <1>1. /\ t \in Seq(S) /\ DOMAIN t = 1 .. Len(s) + 1 /\ t[Len(s) + 1] = x
        /\ DOMAIN s = 1 .. Len(s) /\ Len(s) \in Nat
        /\ \A k \in DOMAIN s : t[k] = s[k]
    BY AppendProperties, LenProperties
  <1> HIDE DEF t
  <1>2. DOMAIN t = DOMAIN s \cup {Len(s) + 1} /\ Len(s) + 1 \notin DOMAIN s
    BY <1>1
  <1>3. ToSet(t) = ToSet(s) \cup {x}
    BY <1>1, <1>2 DEF ToSet
  <1>4. IsInjective(s) /\ x \notin ToSet(s) => IsInjective(t)
    BY <1>1, <1>2 DEF IsInjective, ToSet
  <1> QED BY <1>1, <1>3, <1>4 DEF t

LEMMA TailSet ==
  ASSUME NEW S, NEW s \in Seq(S), s # <<>>
  PROVE  /\ Head(s) \in S /\ Tail(s) \in Seq(S) /\ ToSet(s) = ToSet(Tail(s)) \cup {Head(s)}
         /\ IsInjective(s) => IsInjective(Tail(s)) /\ Head(s) \notin ToSet(Tail(s))
         /\ \A k \in DOMAIN Tail(s) : k \in Nat /\ k + 1 \in DOMAIN s /\ Tail(s)[k] = s[k + 1]
  <1> DEFINE t == Tail(s)
             n == Len(s)
  <1>1. /\ n \in Nat \ {0} /\ DOMAIN s = 1 .. n /\ Head(s) = s[1]
    BY EmptySeq, LenProperties
  <1>2. /\ Head(s) \in S /\ t \in Seq(S) /\ Len(t) = n - 1
        /\ \A k \in 1 .. Len(t) : t[k] = s[k + 1]
    BY HeadTailProperties
  <1>3. DOMAIN t = 1 .. n - 1
    BY <1>2, LenProperties
  <1> HIDE DEF t, n
  <1>4. \A k \in DOMAIN t : k \in Nat /\ k + 1 \in DOMAIN s /\ t[k] = s[k + 1] /\ k + 1 # 1
    BY <1>1, <1>2, <1>3
  <1>5. \A j \in DOMAIN s : j = 1 \/ (j - 1 \in DOMAIN t /\ t[j - 1] = s[j])
    <2> SUFFICES ASSUME NEW j \in DOMAIN s, j # 1 PROVE j - 1 \in DOMAIN t /\ t[j - 1] = s[j]
      OBVIOUS
    <2>1. j - 1 \in 1 .. n - 1 /\ (j - 1) + 1 = j
      BY <1>1
    <2> QED BY <1>2, <1>3, <2>1
  <1>6. ToSet(s) = ToSet(t) \cup {Head(s)}
    <2>1. 1 \in DOMAIN s
      BY <1>1
    <2>2. ToSet(t) \cup {Head(s)} \subseteq ToSet(s)
      BY <1>1, <1>4, <2>1 DEF ToSet
    <2>3. ToSet(s) \subseteq ToSet(t) \cup {Head(s)}
      BY <1>1, <1>5 DEF ToSet
    <2> QED BY <2>2, <2>3
  <1>7. ASSUME IsInjective(s) PROVE IsInjective(t) /\ Head(s) \notin ToSet(t)
    <2>1. IsInjective(t)
      <3> SUFFICES ASSUME NEW k \in DOMAIN t, NEW l \in DOMAIN t, t[k] = t[l] PROVE k = l
        BY DEF IsInjective
      <3>1. k + 1 = l + 1
        BY <1>4, <1>7 DEF IsInjective
      <3> QED BY <1>4, <3>1
    <2>2. Head(s) \notin ToSet(t)
      <3>1. 1 \in DOMAIN s
        BY <1>1
      <3> QED BY <1>1, <1>4, <1>7, <3>1 DEF IsInjective, ToSet
    <2> QED BY <2>1, <2>2
  <1> QED BY <1>2, <1>4, <1>6, <1>7 DEF t

\* The list does not change while events run, and is of no concern afterwards.
LEMMA ListKept ==
  ASSUME ListInv, UNCHANGED <<listVars, priority>>,
         phase' = phase \/ phase' \in {"destroy", "over"}
  PROVE  ListInv'
  BY DEF ListInv, listVars, Used, Rivals

\* Instances are counted as they are constructed.
LEMMA ListConstructed ==
  ASSUME ListInv, Constructed
  PROVE  ListInv'
  <1>1. /\ phase = "load" /\ next <= NumModules /\ next \in configs
        /\ created' = Append(created, next) /\ next' = next + 1
        /\ UNCHANGED <<priority, phase, configs, modules>>
    BY DEF Constructed, Constructing, Setup
  <1>2. NumModules \in Nat \ {0} /\ Modules = 1 .. NumModules
    BY MessengerAssumption DEF Modules
  <1>3. next \in Modules /\ next \in Nat /\ next' \in 1 .. NumModules + 1
    BY <1>1, <1>2 DEF ListInv
  <1>4. /\ created' \in Seq(Modules) /\ ToSet(created') = ToSet(created) \cup {next}
        /\ next \notin ToSet(created) => IsInjective(created')
    BY <1>1, <1>3, AppendSet DEF ListInv
  <1>5. /\ \A m \in ToSet(created) \cup ToSet(modules) : m < next
        /\ configs \ {next} = ToSet(created) \cup ToSet(modules)
        /\ \A m \in Modules : m < next => m \in ToSet(created) \/ Used(m)
        /\ configs \subseteq Modules
    BY <1>1 DEF ListInv
  <1>6. next \notin ToSet(created) /\ next \notin ToSet(modules)
    BY <1>3, <1>5
  <1>7. \A m \in ToSet(created') \cup ToSet(modules) : m \in Modules /\ m < next + 1 /\ m # next + 1
    <2>1. \A m \in ToSet(created) \cup ToSet(modules) : m \in Modules
      BY <1>5
    <2> QED BY <1>2, <1>3, <1>4, <1>5, <2>1
  <1>8. configs \ {next + 1} = ToSet(created') \cup ToSet(modules)
    <2>1. configs = ToSet(created) \cup ToSet(modules) \cup {next}
      BY <1>1, <1>5
    <2> QED BY <1>4, <1>7, <2>1
  <1>9. \A m \in Modules : m < next + 1 => m < next \/ m = next
    BY <1>2, <1>3
  <1>10. \A m \in Modules : Used(m) => Used(m)'
    BY <1>1 DEF Used, Rivals
  <1>11. \A m \in Modules : m < next' => m \in ToSet(created') \/ Used(m)'
    BY <1>1, <1>4, <1>5, <1>9, <1>10
  <1>12. ToSet(created') \cap ToSet(modules') = {}
    BY <1>1, <1>4, <1>6 DEF ListInv
  <1> QED BY <1>1, <1>3, <1>4, <1>6, <1>7, <1>8, <1>11, <1>12 DEF ListInv

\* What a step that takes the head of mod_list starts from.
LEMMA Heading ==
  ASSUME ListInv, phase = "load", created # <<>>
  PROVE  /\ Head(created) \in Modules /\ Tail(created) \in Seq(Modules)
         /\ ToSet(created) = ToSet(Tail(created)) \cup {Head(created)}
         /\ IsInjective(Tail(created)) /\ Head(created) \notin ToSet(Tail(created))
         /\ Head(created) \notin ToSet(modules) /\ Head(created) # next
         /\ ToSet(Tail(created)) \cap ToSet(modules) = {}
         /\ ToSet(modules) \subseteq Modules /\ ToSet(created) \subseteq Modules
  <1>1. /\ Head(created) \in Modules /\ Tail(created) \in Seq(Modules)
        /\ ToSet(created) = ToSet(Tail(created)) \cup {Head(created)}
        /\ IsInjective(Tail(created)) /\ Head(created) \notin ToSet(Tail(created))
    BY TailSet DEF ListInv
  <1>2. ToSet(modules) \subseteq Modules /\ ToSet(created) \subseteq Modules
    BY ElementOfSeq DEF ListInv, ToSet
  <1>3. Head(created) < next
    BY <1>1 DEF ListInv
  <1>4. Head(created) # next
    BY <1>1, <1>3, MessengerAssumption DEF Modules, ListInv
  <1> QED BY <1>1, <1>2, <1>4 DEF ListInv

\* A place for an instance that has no rival in the list.
LEMMA ListPlaced ==
  ASSUME ListInv, Place
  PROVE  ListInv'
  <1> DEFINE h == Head(created)
  <1>1. /\ phase = "load" /\ created # <<>> /\ ToSet(modules) \cap Rivals(h) = {}
        /\ modules' = Append(modules, h) /\ created' = Tail(created)
        /\ UNCHANGED <<priority, phase, next, configs>>
    BY DEF Place, Placing, Listed, Setup
  <1>2. /\ h \in Modules /\ created' \in Seq(Modules)
        /\ ToSet(created) = ToSet(created') \cup {h}
        /\ IsInjective(created') /\ h \notin ToSet(created')
        /\ h \notin ToSet(modules) /\ ToSet(created') \cap ToSet(modules) = {}
        /\ ToSet(modules) \subseteq Modules
    BY <1>1, Heading
  <1> HIDE DEF h
  <1>3. /\ modules' \in Seq(Modules) /\ ToSet(modules') = ToSet(modules) \cup {h}
        /\ DOMAIN modules' = 1 .. Len(modules) + 1 /\ modules'[Len(modules) + 1] = h
        /\ DOMAIN modules = 1 .. Len(modules) /\ Len(modules) \in Nat
        /\ \A k \in DOMAIN modules : modules'[k] = modules[k]
    <2>1. modules \in Seq(Modules)
      BY DEF ListInv
    <2> QED BY <1>1, <1>2, <2>1, AppendSet
  <1>4. \A i, j \in DOMAIN modules' : UniqueName[modules'[i]] = UniqueName[modules'[j]] => i = j
    <2>1. \A i \in DOMAIN modules : UniqueName[modules[i]] # UniqueName[h]
      <3> SUFFICES ASSUME NEW i \in DOMAIN modules, UniqueName[modules[i]] = UniqueName[h] PROVE FALSE
        OBVIOUS
      <3>1. modules[i] \in ToSet(modules)
        BY DEF ToSet
      <3> QED BY <1>1, <1>2, <3>1 DEF Rivals
    <2>2. \A i \in DOMAIN modules' : i \in DOMAIN modules \/ (modules'[i] = h /\ i = Len(modules) + 1)
      BY <1>3
    <2>3. \A i, j \in DOMAIN modules : UniqueName[modules[i]] = UniqueName[modules[j]] => i = j
      BY DEF ListInv
    <2> QED BY <1>3, <2>1, <2>2, <2>3
  <1>5. \A m \in Modules : m < next => m \in ToSet(created') \/ Used(m)'
    <2>1. \A m \in Modules : Used(m) => Used(m)'
      BY <1>1, <1>3 DEF Used, Rivals
    <2>3. \A m \in Modules : m < next => m \in ToSet(created) \/ Used(m)
      BY <1>1 DEF ListInv
    <2>4. \A m \in Modules : m = h => Used(m)'
      <3>1. h \in ToSet(modules')
        BY <1>3
      <3> QED BY <3>1 DEF Used
    <2> QED BY <1>2, <2>1, <2>3, <2>4
  <1>6. ToSet(created') \cap ToSet(modules') = {}
    BY <1>2, <1>3
  <1>7. /\ \A m \in ToSet(created) \cup ToSet(modules) : m < next
        /\ configs \ {next} = ToSet(created) \cup ToSet(modules)
    BY <1>1 DEF ListInv
  <1>8. /\ \A m \in ToSet(created') \cup ToSet(modules') : m < next
        /\ configs \ {next} = ToSet(created') \cup ToSet(modules')
    BY <1>2, <1>3, <1>7
  <1> QED BY <1>1, <1>2, <1>3, <1>4, <1>5, <1>6, <1>8 DEF ListInv

\* A listed instance makes room for a better one of the same name.
LEMMA ListReplaced ==
  ASSUME ListInv, PlaceReplacing
  PROVE  ListInv'
  <1> DEFINE h == Head(created)
  <1>1. PICK i \in DOMAIN modules :
          /\ modules[i] \in ToSet(modules) \cap Rivals(h) /\ priority[h] < priority[modules[i]]
          /\ configs' = configs \ {modules[i]}
          /\ modules' = Append(RemoveAt(modules, i), h)
    BY DEF PlaceReplacing, Listed
  <1>2. /\ phase = "load" /\ created # <<>> /\ created' = Tail(created)
        /\ UNCHANGED <<priority, phase, next>>
    BY DEF PlaceReplacing, Placing, Setup
  <1>3. /\ h \in Modules /\ created' \in Seq(Modules)
        /\ ToSet(created) = ToSet(created') \cup {h}
        /\ IsInjective(created') /\ h \notin ToSet(created')
        /\ h \notin ToSet(modules) /\ h # next /\ ToSet(created') \cap ToSet(modules) = {}
        /\ ToSet(modules) \subseteq Modules
    BY <1>2, Heading
  <1> DEFINE r == RemoveAt(modules, i)
             n == Len(modules)
             m == modules[i]
  <1>4. modules \in Seq(Modules) /\ i \in 1 .. n /\ n \in Nat /\ DOMAIN modules = 1 .. n
    <2>1. modules \in Seq(Modules)
      BY DEF ListInv
    <2> QED BY <2>1, LenProperties
  <1>5. /\ r \in Seq(Modules) /\ Len(r) = n - 1
        /\ \A k \in 1 .. n - 1 : r[k] = IF k < i THEN modules[k] ELSE modules[k + 1]
        /\ ToSet(r) = {modules[j] : j \in (1 .. n) \ {i}}
    BY <1>4, RemoveAtProperties
  <1>6. \A j, k \in DOMAIN modules : UniqueName[modules[j]] = UniqueName[modules[k]] => j = k
    BY DEF ListInv
  <1>7. ToSet(r) = ToSet(modules) \ {m}
    <2>1. \A j \in (1 .. n) \ {i} : modules[j] # m
      BY <1>4, <1>6
    <2> HIDE DEF r, n, m
    <2>2. ToSet(modules) = {modules[j] : j \in 1 .. n}
      BY <1>4 DEF ToSet
    <2>3. \A j \in 1 .. n : modules[j] # m => j # i
      BY DEF m
    <2> QED BY <1>5, <2>1, <2>2, <2>3
  <1>8. modules' = Append(r, h) /\ m \in Rivals(h) /\ m \in ToSet(modules) /\ configs' = configs \ {m}
        /\ priority[h] < priority[m] /\ UniqueName[m] = UniqueName[h]
    BY <1>1 DEF Rivals
  <1> HIDE DEF h, r, m, n
  <1>9. /\ modules' \in Seq(Modules) /\ ToSet(modules') = (ToSet(modules) \ {m}) \cup {h}
        /\ DOMAIN modules' = 1 .. Len(r) + 1 /\ modules'[Len(r) + 1] = h
        /\ DOMAIN r = 1 .. Len(r) /\ Len(r) \in Nat
        /\ \A k \in DOMAIN r : modules'[k] = r[k]
    BY <1>3, <1>5, <1>7, <1>8, AppendSet
  <1>10. \A j, k \in DOMAIN modules' : UniqueName[modules'[j]] = UniqueName[modules'[k]] => j = k
    <2>1. \A j, k \in DOMAIN r : UniqueName[r[j]] = UniqueName[r[k]] => j = k
      <3> DEFINE from(k) == IF k < i THEN k ELSE k + 1
      <3>1. \A k \in DOMAIN r : from(k) \in DOMAIN modules /\ r[k] = modules[from(k)]
        BY <1>4, <1>5, <1>9
      <3>2. \A j, k \in DOMAIN r : from(j) = from(k) => j = k
        BY <1>4, <1>9
      <3> HIDE DEF from
      <3> QED BY <1>6, <3>1, <3>2
    <2>2. \A k \in DOMAIN r : UniqueName[r[k]] # UniqueName[h]
      <3> SUFFICES ASSUME NEW k \in DOMAIN r, UniqueName[r[k]] = UniqueName[h] PROVE FALSE
        OBVIOUS
      <3>1. r[k] \in ToSet(r)
        BY DEF ToSet
      <3>2. PICK j \in 1 .. n : j # i /\ r[k] = modules[j]
        BY <1>5, <3>1
      <3> QED BY <1>4, <1>6, <1>8, <3>2 DEF m
    <2>3. \A k \in DOMAIN modules' : k \in DOMAIN r \/ (modules'[k] = h /\ k = Len(r) + 1)
      BY <1>9
    <2> QED BY <1>9, <2>1, <2>2, <2>3
  <1>11. \A x \in Modules : x < next => x \in ToSet(created') \/ Used(x)'
    <2>1. \A x \in Modules : Used(x) => Used(x)'
      <3> SUFFICES ASSUME NEW x \in Modules, NEW y \in ToSet(modules),
                          y = x \/ (y \in Rivals(x) /\ priority[y] < priority[x])
                   PROVE  \E z \in ToSet(modules') : z = x \/ (z \in Rivals(x) /\ priority[z] < priority[x])
        BY <1>2 DEF Used, Rivals
      <3>1. CASE y # m
        BY <1>9, <3>1
      <3>2. CASE y = m
        <4>1. h \in ToSet(modules')
          BY <1>9
        <4>2. CASE x = h
          BY <4>1, <4>2
        <4>3. CASE x # h
          <5>1. UniqueName[x] = UniqueName[m]
            BY <3>2 DEF Rivals
          <5>2. h \in Rivals(x)
            BY <1>3, <1>8, <4>3, <5>1 DEF Rivals
          <5>3. priority[h] \in Nat /\ priority[m] \in Nat /\ priority[x] \in Nat /\ y \in Modules
            BY <1>3, <1>8 DEF ListInv
          <5>4. priority[h] < priority[x]
            <6>1. CASE y = x
              BY <1>8, <3>2, <6>1
            <6>2. CASE priority[y] < priority[x]
              BY <1>8, <3>2, <5>3, <6>2
            <6> QED BY <6>1, <6>2
          <5> QED BY <4>1, <5>2, <5>4
        <4> QED BY <4>2, <4>3
      <3> QED BY <3>1, <3>2
    <2>2. \A x \in Modules : x = h => Used(x)'
      <3>1. h \in ToSet(modules')
        BY <1>9
      <3> QED BY <3>1 DEF Used
    <2>3. \A x \in Modules : x < next => x \in ToSet(created) \/ Used(x)
      BY <1>2 DEF ListInv
    <2> QED BY <1>3, <2>1, <2>2, <2>3
  <1>12. ToSet(created') \cap ToSet(modules') = {}
    BY <1>3, <1>9
  <1>13. /\ \A x \in ToSet(created) \cup ToSet(modules) : x < next
         /\ configs \ {next} = ToSet(created) \cup ToSet(modules)
         /\ configs \subseteq Modules
    BY <1>2 DEF ListInv
  <1>14. \A x \in ToSet(created') \cup ToSet(modules') : x < next
    BY <1>3, <1>9, <1>13
  <1>15. configs' \ {next} = ToSet(created') \cup ToSet(modules')
    <2>1. m \notin ToSet(created') /\ m # h
      BY <1>3, <1>8
    <2> QED BY <1>3, <1>8, <1>9, <1>13, <2>1
  <1>16. configs' \subseteq Modules
    BY <1>8, <1>13
  <1> QED BY <1>2, <1>3, <1>9, <1>10, <1>11, <1>12, <1>14, <1>15, <1>16 DEF ListInv

\* An instance that is not better than the listed one is dropped.
LEMMA ListDropped ==
  ASSUME ListInv, PlaceDropped
  PROVE  ListInv'
  <1> DEFINE h == Head(created)
  <1>1. PICK m \in ToSet(modules) \cap Rivals(h) : priority[h] > priority[m]
    BY DEF PlaceDropped, Listed
  <1>2. /\ phase = "load" /\ created # <<>> /\ created' = Tail(created) /\ configs' = configs \ {h}
        /\ UNCHANGED <<priority, phase, next, modules>>
    BY DEF PlaceDropped, Placing, Setup
  <1>3. /\ h \in Modules /\ created' \in Seq(Modules)
        /\ ToSet(created) = ToSet(created') \cup {h}
        /\ IsInjective(created') /\ h \notin ToSet(created')
        /\ h \notin ToSet(modules) /\ h # next /\ ToSet(created') \cap ToSet(modules) = {}
        /\ ToSet(modules) \subseteq Modules
    BY <1>2, Heading
  <1> HIDE DEF h
  <1>4. \A x \in Modules : Used(x) => Used(x)'
    BY <1>2 DEF Used, Rivals
  <1>5. \A x : x = h => Used(x)'
    <2>1. priority[m] < priority[h]
      BY <1>1, <1>3 DEF ListInv
    <2> QED BY <1>1, <1>2, <2>1 DEF Used, Rivals
  <1>6. /\ \A x \in ToSet(created) \cup ToSet(modules) : x < next
        /\ configs \ {next} = ToSet(created) \cup ToSet(modules)
        /\ configs \subseteq Modules
        /\ \A x \in Modules : x < next => x \in ToSet(created) \/ Used(x)
    BY <1>2 DEF ListInv
  <1>7. configs' \ {next} = ToSet(created') \cup ToSet(modules)
    BY <1>2, <1>3, <1>6
  <1> QED BY <1>2, <1>3, <1>4, <1>5, <1>6, <1>7 DEF ListInv

\* The run list is emptied from its front.
LEMMA ListDestroyed ==
  ASSUME ListInv, DestroyModule
  PROVE  ListInv'
  <1>1. /\ phase = "destroy" /\ modules # <<>> /\ modules' = Tail(modules)
        /\ UNCHANGED <<priority, phase, next, configs, created>>
    BY DEF DestroyModule, Setup
  <1>2. /\ modules' \in Seq(Modules) /\ ToSet(modules) = ToSet(modules') \cup {Head(modules)}
        /\ \A k \in DOMAIN modules' : k \in Nat /\ k + 1 \in DOMAIN modules /\ modules'[k] = modules[k + 1]
    BY <1>1, TailSet DEF ListInv
  <1>3. \A i, j \in DOMAIN modules' : UniqueName[modules'[i]] = UniqueName[modules'[j]] => i = j
    <2> SUFFICES ASSUME NEW i \in DOMAIN modules', NEW j \in DOMAIN modules',
                        UniqueName[modules'[i]] = UniqueName[modules'[j]]
                 PROVE  i = j
      OBVIOUS
    <2>1. i + 1 = j + 1
      BY <1>2 DEF ListInv
    <2> QED BY <1>2, <2>1
  <1> QED BY <1>1, <1>2, <1>3 DEF ListInv

LEMMA Numbers == NumModules \in Nat \ {0} /\ Modules = 1 .. NumModules
  BY MessengerAssumption DEF Modules

LEMMA ListStep ==
  ASSUME ListInv, [Next]_vars
  PROVE  ListInv'
  <1> USE DEF Setup
  <1>1. CASE AddConfiguration
    <2>1. /\ phase = "load" /\ next <= NumModules /\ configs' = configs \cup {next}
          /\ UNCHANGED <<priority, phase, next, created, modules>>
      BY <1>1 DEF AddConfiguration, Constructing
    <2>2. next \in Modules
      BY <2>1, Numbers DEF ListInv
    <2>3. configs' \subseteq Modules /\ configs' \ {next} = configs \ {next}
      BY <2>1, <2>2 DEF ListInv
    <2> QED BY <2>1, <2>3 DEF ListInv, Used, Rivals
  <1>2. CASE ConfigurationExists
    BY <1>2, ListKept DEF ConfigurationExists
  <1>3. CASE Bind
    BY <1>3, ListKept DEF Bind
  <1>4. CASE Constructed
    BY <1>4, ListConstructed
  <1>5. CASE ConstructorThrows
    BY <1>5, ListKept DEF ConstructorThrows
  <1>15. CASE InvalidState
    <2>1. /\ phase = "load" /\ next <= NumModules /\ next \in configs
          /\ created' = Append(created, next) /\ phase' = "destroy"
          /\ UNCHANGED <<priority, next, configs, modules>>
      BY <1>15 DEF InvalidState, Constructing
    <2>2. next \in Modules /\ next \in Nat
      BY <2>1, Numbers DEF ListInv
    <2>3. \A m \in ToSet(created) \cup ToSet(modules) : m < next
      BY <2>1 DEF ListInv
    <2>4. next \notin ToSet(created) /\ next \notin ToSet(modules)
      BY <2>2, <2>3
    <2>5. /\ created' \in Seq(Modules) /\ ToSet(created') = ToSet(created) \cup {next}
          /\ IsInjective(created')
      BY <2>1, <2>2, <2>4, AppendSet DEF ListInv
    <2> QED BY <2>1, <2>4, <2>5 DEF ListInv
  <1>6. CASE Place
    BY <1>6, ListPlaced
  <1>7. CASE PlaceReplacing
    BY <1>7, ListReplaced
  <1>8. CASE PlaceDropped
    BY <1>8, ListDropped
  <1>9. CASE Loaded
    <2>1. /\ phase = "load" /\ next > NumModules /\ created = <<>> /\ phase' = "event"
          /\ UNCHANGED <<priority, next, configs, created, modules>>
      BY <1>9 DEF Loaded, listVars
    <2>2. next = NumModules + 1
      BY <2>1, Numbers DEF ListInv
    <2> QED BY <2>1, <2>2 DEF ListInv, Used, Rivals
  <1>10. CASE SkipModule \/ EnterModule \/ LeaveModule
    BY <1>10, ListKept DEF SkipModule, EnterModule, LeaveModule, TakeTurn
  <1>11. CASE DispatchMessage
    <2>1. UNCHANGED <<listVars, priority>> /\ (phase' = phase \/ phase' = "destroy")
      BY <1>11 DEF DispatchMessage
    <2> QED BY <2>1, ListKept
  <1>12. CASE EventDone \/ AllDestroyed
    BY <1>12, ListKept DEF EventDone, AllDestroyed
  <1>13. CASE DestroyModule
    BY <1>13, ListDestroyed
  <1>14. CASE UNCHANGED vars
    BY <1>14, ListKept DEF vars, listVars
  <1> QED BY <1>1, <1>2, <1>3, <1>4, <1>5, <1>6, <1>7, <1>8, <1>9, <1>10, <1>11, <1>12, <1>13, <1>14, <1>15 DEF Next

LEMMA ListInvariant == Spec => []ListInv
  <1>1. Init => ListInv
    <2> SUFFICES ASSUME Init PROVE ListInv
      OBVIOUS
    <2>1. /\ phase = "load" /\ priority \in [Modules -> 0 .. 2]
          /\ next = 1 /\ configs = {} /\ created = <<>> /\ modules = <<>>
      BY DEF Init
    <2>2. ToSet(<<>>) = {} /\ DOMAIN <<>> = {} /\ IsInjective(<<>>) /\ <<>> \in Seq(Modules)
      BY DEF ToSet, IsInjective
    <2>3. 1 \in 1 .. NumModules + 1 /\ \A m \in Modules : ~(m < 1)
      BY Numbers
    <2> QED BY <2>1, <2>2, <2>3 DEF ListInv
  <1> QED BY <1>1, ListStep, PTL DEF Spec

\* The run list has one instance of each name, the best one that was asked for, and
\* just the configurations of the listed instances are kept.
THEOREM BestInstanceRunsHolds == Spec => []BestInstanceRuns
  <1>1. ListInv => BestInstanceRuns
    <2> SUFFICES ASSUME ListInv, phase = "event" PROVE BestInstanceRuns
      BY DEF BestInstanceRuns
    <2>1. created = <<>> /\ next = NumModules + 1 /\ ToSet(<<>>) = {}
      BY DEF ListInv, ToSet
    <2>2. \A m \in Modules : m < next /\ m # next
      BY <2>1, Numbers
    <2>3. \A m \in Modules : Used(m)
      BY <2>1, <2>2 DEF ListInv
    <2>4. configs = ToSet(modules)
      <3>1. next \notin configs
        BY <2>2 DEF ListInv
      <3> QED BY <2>1, <3>1 DEF ListInv
    <2> QED BY <2>3, <2>4 DEF BestInstanceRuns, ListInv, Used
  <1> QED BY <1>1, ListInvariant, PTL

-----------------------------------------------------------------------------
(* The registry of the delegates *)

\* Where a delegate that was bound is registered.
PlaceOf(id) == <<Delegate(id).type, ListensTo(id)>>

Bound ==
    /\ binds \in [Modules -> Seq(Delegates)]
    /\ \A m \in Modules : \A i, j \in DOMAIN binds[m] : binds[m][i].type = binds[m][j].type => i = j

\* The delegates of a module are registered in the order in which it binds them.
Registered ==
    /\ own \in [Modules -> Seq(Modules \X Nat)] /\ listeners \in [Places -> Seq(Modules \X Nat)]
    /\ \A m \in Modules : /\ Len(own[m]) <= Len(binds[m])
                          /\ \A k \in DOMAIN own[m] : own[m][k] = <<m, k>>
    /\ DOMAIN location = UNION {ToSet(own[m]) : m \in Modules}
    /\ \A id \in DOMAIN location : location[id] = PlaceOf(id)
    /\ \A p \in Places : /\ ToSet(listeners[p]) = {id \in DOMAIN location : location[id] = p}
                         /\ IsInjective(listeners[p])

RegInv ==
    /\ Bound /\ Registered
    /\ \A m \in Modules \ Existing : own[m] = <<>>
    /\ (phase = "load" /\ next <= NumModules /\ next \notin configs) => own[next] = <<>>
    /\ phase \in {"load", "event"} =>
         \A m \in ToSet(created) \cup ToSet(modules) : Len(own[m]) = Len(binds[m])

\* The delegates of a module by their numbers.
LEMMA OwnIds ==
  ASSUME Registered, NEW m \in Modules
  PROVE  /\ ToSet(own[m]) = {<<m, k>> : k \in DOMAIN own[m]}
         /\ own[m] \in Seq(Modules \X Nat) /\ Len(own[m]) \in Nat /\ DOMAIN own[m] = 1 .. Len(own[m])
  <1>1. own[m] \in Seq(Modules \X Nat) /\ \A k \in DOMAIN own[m] : own[m][k] = <<m, k>>
    BY DEF Registered
  <1>2. Len(own[m]) \in Nat /\ DOMAIN own[m] = 1 .. Len(own[m])
    BY <1>1, LenProperties
  <1>3. ToSet(own[m]) = {<<m, k>> : k \in DOMAIN own[m]}
    BY <1>1 DEF ToSet
  <1> QED BY <1>1, <1>2, <1>3

LEMMA InDomain ==
  ASSUME Registered, NEW id
  PROVE  id \in DOMAIN location <=> \E m \in Modules : \E k \in DOMAIN own[m] : id = <<m, k>>
  <1>1. id \in DOMAIN location <=> \E m \in Modules : id \in ToSet(own[m])
    BY DEF Registered
  <1> QED BY <1>1, OwnIds

\* remove_delegate() finds all delegates of the module, and no other.
LEMMA DelegatesRemoved ==
  ASSUME Bound, Registered, UNCHANGED binds, NEW m \in Modules, RemoveDelegates(m)
  PROVE  Registered' /\ own' = [own EXCEPT ![m] = <<>>]
  <1>1. /\ own' = [own EXCEPT ![m] = <<>>]
        /\ location' = [d \in DOMAIN location \ ToSet(own[m]) |-> location[d]]
    BY DEF RemoveDelegates
  <1>2. own' \in [Modules -> Seq(Modules \X Nat)]
    BY <1>1 DEF Registered
  <1>3. own'[m] = <<>> /\ \A x \in Modules : x # m => own'[x] = own[x]
    BY <1>1 DEF Registered
  <1>4. \A x \in Modules : /\ Len(own'[x]) <= Len(binds[x])
                           /\ \A k \in DOMAIN own'[x] : own'[x][k] = <<x, k>>
    <2>1. Len(<<>>) = 0 /\ DOMAIN <<>> = {}
      OBVIOUS
    <2>2. 0 <= Len(binds[m])
      <3>1. binds[m] \in Seq(Delegates)
        BY DEF Bound
      <3>2. Len(binds[m]) \in Nat
        BY <3>1, LenProperties
      <3> QED BY <3>2
    <2> QED BY <1>3, <2>1, <2>2 DEF Registered
  <1>5. DOMAIN location' = UNION {ToSet(own'[x]) : x \in Modules}
    <2>1. DOMAIN location' = DOMAIN location \ ToSet(own[m])
      BY <1>1
    <2>2. ToSet(own'[m]) = {}
      BY <1>3 DEF ToSet
    <2>3. ASSUME NEW x \in Modules, x # m PROVE ToSet(own[x]) \cap ToSet(own[m]) = {}
      <3>1. \A d \in ToSet(own[x]) : d[1] = x
        BY OwnIds
      <3>2. \A d \in ToSet(own[m]) : d[1] = m
        BY OwnIds
      <3> QED BY <2>3, <3>1, <3>2
    <2> DEFINE domain == DOMAIN location
    <2>6. \A d : d \in domain <=> \E x \in Modules : d \in ToSet(own[x])
      BY DEF Registered
    <2> HIDE DEF domain
    <2>7. \A d : d \in DOMAIN location' <=> d \in domain /\ d \notin ToSet(own[m])
      BY <2>1 DEF domain
    <2>4. \A d : d \in DOMAIN location' => \E x \in Modules : d \in ToSet(own'[x])
      BY <1>3, <2>6, <2>7
    <2>5. \A x \in Modules : \A d \in ToSet(own'[x]) : d \in DOMAIN location'
      BY <1>3, <2>2, <2>3, <2>6, <2>7
    <2> QED BY <2>4, <2>5
  <1>6. \A id \in DOMAIN location' : location'[id] = location[id] /\ id \in DOMAIN location
    BY <1>1
  <1>7. \A id : PlaceOf(id)' = PlaceOf(id)
    BY DEF PlaceOf, Delegate, ListensTo
  <1>8. \A id \in DOMAIN location' : location'[id] = PlaceOf(id)'
    BY <1>6, <1>7 DEF Registered
  <1>9. ASSUME NEW p \in Places
        PROVE  /\ listeners'[p] \in Seq(Modules \X Nat) /\ IsInjective(listeners'[p])
               /\ ToSet(listeners'[p]) = {id \in DOMAIN location' : location'[id] = p}
    <2> DEFINE s == listeners[p]
               K == {i \in DOMAIN s : s[i] \notin ToSet(own[m]) \/ location[s[i]] # p}
    <2>1. listeners'[p] = Picked(s, K)
      BY DEF RemoveDelegates
    <2>2. /\ s \in Seq(Modules \X Nat) /\ IsInjective(s)
          /\ ToSet(s) = {id \in DOMAIN location : location[id] = p}
      BY DEF Registered
    <2>3. K \in SUBSET (1 .. Len(s)) /\ DOMAIN s = 1 .. Len(s)
      BY <2>2, LenProperties
    <2> HIDE DEF s
    <2>4. \A i \in DOMAIN s : i \in K <=> s[i] \notin ToSet(own[m])
      BY <2>2 DEF ToSet
    <2>5. DOMAIN location' = DOMAIN location \ ToSet(own[m])
      BY <1>1
    <2> HIDE DEF K
    <2>6. /\ Picked(s, K) \in Seq(Modules \X Nat) /\ IsInjective(Picked(s, K))
          /\ ToSet(Picked(s, K)) = {s[i] : i \in K}
      <3>1. Picked(s, K) \in Seq(Modules \X Nat)
        BY <2>2, <2>3, PickedAt
      <3>2. IsInjective(Picked(s, K)) /\ ToSet(Picked(s, K)) = {s[i] : i \in K}
        BY <2>2, <2>3, PickedSet
      <3> QED BY <3>1, <3>2
    <2>7. {s[i] : i \in K} = {id \in DOMAIN location' : location'[id] = p}
      <3>1. \A i \in K : s[i] \in ToSet(s) /\ s[i] \notin ToSet(own[m])
        BY <2>3, <2>4 DEF ToSet
      <3>2. \A i \in K : s[i] \in DOMAIN location' /\ location'[s[i]] = p
        BY <1>6, <2>2, <2>5, <3>1
      <3>3. \A id \in DOMAIN location' : location'[id] = p => \E i \in K : id = s[i]
        BY <1>6, <2>2, <2>4, <2>5 DEF ToSet
      <3> QED BY <3>2, <3>3
    <2> QED BY <2>1, <2>6, <2>7
  <1>10. listeners' \in [Places -> Seq(Modules \X Nat)]
    <2>1. DOMAIN listeners' = Places /\ listeners' = [p \in Places |-> listeners'[p]]
      BY DEF RemoveDelegates
    <2> QED BY <1>9, <2>1
  <1> QED BY <1>1, <1>2, <1>4, <1>5, <1>8, <1>9, <1>10 DEF Registered

\* add_delegate() puts a new delegate to the others of its type and name.
LEMMA DelegateAdded ==
  ASSUME Bound, Registered, UNCHANGED binds, NEW m \in Modules, AddDelegate(m)
  PROVE  Registered' /\ \E s : own' = [own EXCEPT ![m] = s]
  <1> DEFINE n == Len(own[m])
             id == <<m, n + 1>>
             place == PlaceOf(id)
  <1>1. /\ n < Len(binds[m])
        /\ listeners' = [listeners EXCEPT ![place] = Append(@, id)]
        /\ location' = [d \in DOMAIN location \cup {id} |-> IF d = id THEN place ELSE location[d]]
        /\ own' = [own EXCEPT ![m] = Append(@, id)]
    BY DEF AddDelegate, PlaceOf
  <1>2. /\ own[m] \in Seq(Modules \X Nat) /\ n \in Nat /\ DOMAIN own[m] = 1 .. n
        /\ ToSet(own[m]) = {<<m, k>> : k \in DOMAIN own[m]}
    BY OwnIds
  <1>3. binds[m] \in Seq(Delegates) /\ n + 1 \in DOMAIN binds[m]
    <2>1. binds[m] \in Seq(Delegates)
      BY DEF Bound
    <2>2. Len(binds[m]) \in Nat /\ DOMAIN binds[m] = 1 .. Len(binds[m])
      BY <2>1, LenProperties
    <2> QED BY <1>1, <1>2, <2>1, <2>2
  <1>4. place \in Places
    <2>1. Delegate(id) \in Delegates
      BY <1>3 DEF Delegate
    <2>2. Delegate(id).type \in AllTypes
      BY <2>1 DEF Delegates
    <2>3. Input[m] \in Names \cup {"*"}
      BY MessengerAssumption
    <2>4. ListensTo(id) \in Names \cup {"*", "?"}
      BY <2>3 DEF ListensTo
    <2> QED BY <2>2, <2>4 DEF Places, PlaceOf
  <1>5. id \in Modules \X Nat
    BY <1>2
  <1>6. id \notin DOMAIN location
    <2> SUFFICES ASSUME id \in DOMAIN location PROVE FALSE
      OBVIOUS
    <2>1. PICK x \in Modules : \E k \in DOMAIN own[x] : id = <<x, k>>
      BY InDomain
    <2>2. x = m /\ n + 1 \in DOMAIN own[m]
      BY <2>1
    <2> QED BY <1>2, <2>1, <2>2
  <1>7. \A d : PlaceOf(d)' = PlaceOf(d)
    BY DEF PlaceOf, Delegate, ListensTo
  <1>8. place = PlaceOf(id)
    OBVIOUS
  <1>9. id[1] = m /\ id[2] = n + 1 /\ id = <<m, n + 1>>
    OBVIOUS
  <1> HIDE DEF n, id, place
  <1>10. /\ own' \in [Modules -> Seq(Modules \X Nat)]
         /\ own'[m] = Append(own[m], id) /\ \A x \in Modules : x # m => own'[x] = own[x]
    BY <1>1, <1>2, <1>5, AppendProperties DEF Registered
  <1>11. /\ Append(own[m], id) \in Seq(Modules \X Nat) /\ DOMAIN Append(own[m], id) = 1 .. n + 1
         /\ Append(own[m], id)[n + 1] = id /\ Len(Append(own[m], id)) = n + 1
         /\ \A k \in 1 .. n : Append(own[m], id)[k] = own[m][k]
         /\ ToSet(Append(own[m], id)) = ToSet(own[m]) \cup {id}
    <2>1. /\ Append(own[m], id) \in Seq(Modules \X Nat) /\ Len(Append(own[m], id)) = Len(own[m]) + 1
      BY <1>2, <1>5, AppendProperties
    <2>2. /\ ToSet(Append(own[m], id)) = ToSet(own[m]) \cup {id}
          /\ DOMAIN Append(own[m], id) = 1 .. Len(own[m]) + 1 /\ Append(own[m], id)[Len(own[m]) + 1] = id
          /\ DOMAIN own[m] = 1 .. Len(own[m])
          /\ \A k \in DOMAIN own[m] : Append(own[m], id)[k] = own[m][k]
      BY <1>2, <1>5, AppendSet
    <2> QED BY <1>2, <2>1, <2>2 DEF n
  <1>12. \A x \in Modules : /\ Len(own'[x]) <= Len(binds[x])
                            /\ \A k \in DOMAIN own'[x] : own'[x][k] = <<x, k>>
    <2> SUFFICES ASSUME NEW x \in Modules
                 PROVE  /\ Len(own'[x]) <= Len(binds[x])
                        /\ \A k \in DOMAIN own'[x] : own'[x][k] = <<x, k>>
      OBVIOUS
    <2>1. CASE x # m
      BY <1>10, <2>1 DEF Registered
    <2>2. CASE x = m
      <3>1. n + 1 <= Len(binds[m])
        <4>1. Len(binds[m]) \in Nat
          BY <1>3, LenProperties
        <4> QED BY <1>1, <1>2, <4>1
      <3>2. \A k \in 1 .. n + 1 : k \in 1 .. n \/ k = n + 1
        BY <1>2
      <3>3. \A k \in 1 .. n : own[m][k] = <<m, k>>
        BY <1>2 DEF Registered
      <3> QED BY <1>9, <1>10, <1>11, <2>2, <3>1, <3>2, <3>3
    <2> QED BY <2>1, <2>2
  <1>13. DOMAIN location' = UNION {ToSet(own'[x]) : x \in Modules}
    <2>1. DOMAIN location' = DOMAIN location \cup {id}
      BY <1>1
    <2>2. ToSet(own'[m]) = ToSet(own[m]) \cup {id}
      BY <1>10, <1>11
    <2> DEFINE domain == DOMAIN location
    <2>5. \A d : d \in domain <=> \E x \in Modules : d \in ToSet(own[x])
      BY DEF Registered
    <2> HIDE DEF domain
    <2>6. \A d : d \in DOMAIN location' <=> d \in domain \/ d = id
      BY <2>1 DEF domain
    <2>3. \A d : d \in DOMAIN location' => \E x \in Modules : d \in ToSet(own'[x])
      BY <1>10, <2>2, <2>5, <2>6
    <2>4. \A x \in Modules : \A d \in ToSet(own'[x]) : d \in DOMAIN location'
      BY <1>10, <2>2, <2>5, <2>6
    <2> QED BY <2>3, <2>4
  <1>14. /\ location'[id] = place
         /\ \A d \in DOMAIN location : location'[d] = location[d]
         /\ DOMAIN location' = DOMAIN location \cup {id}
    BY <1>1, <1>6
  <1>15. \A d \in DOMAIN location' : location'[d] = PlaceOf(d)'
    BY <1>7, <1>8, <1>14 DEF Registered
  <1>16. listeners'[place] = Append(listeners[place], id)
         /\ \A p \in Places : p # place => listeners'[p] = listeners[p]
    BY <1>1, <1>4 DEF Registered
  <1>17. ASSUME NEW p \in Places
         PROVE  /\ listeners'[p] \in Seq(Modules \X Nat) /\ IsInjective(listeners'[p])
                /\ ToSet(listeners'[p]) = {d \in DOMAIN location' : location'[d] = p}
    <2>1. /\ listeners[p] \in Seq(Modules \X Nat) /\ IsInjective(listeners[p])
          /\ ToSet(listeners[p]) = {d \in DOMAIN location : location[d] = p}
      BY DEF Registered
    <2>2. CASE p # place
      BY <1>14, <1>16, <2>1, <2>2
    <2>3. CASE p = place
      <3>1. id \notin ToSet(listeners[p])
        BY <1>6, <2>1
      <3>2. /\ Append(listeners[p], id) \in Seq(Modules \X Nat)
            /\ ToSet(Append(listeners[p], id)) = ToSet(listeners[p]) \cup {id}
            /\ IsInjective(Append(listeners[p], id))
        BY <1>5, <2>1, <3>1, AppendSet
      <3>3. listeners'[p] = Append(listeners[p], id)
        BY <1>16, <2>3
      <3>4. ToSet(listeners[p]) \cup {id} = {d \in DOMAIN location' : location'[d] = p}
        BY <1>6, <1>14, <2>1, <2>3
      <3> QED BY <3>2, <3>3, <3>4
    <2> QED BY <2>2, <2>3
  <1>18. listeners' \in [Places -> Seq(Modules \X Nat)]
    <2>1. DOMAIN listeners' = Places /\ listeners' = [p \in Places |-> listeners'[p]]
      BY <1>1 DEF Registered
    <2> QED BY <1>17, <2>1
  <1>19. Registered'
    BY <1>10, <1>12, <1>13, <1>15, <1>17, <1>18 DEF Registered
  <1> QED BY <1>1, <1>19

\* The registry as long as nothing is registered or removed.
LEMMA RegistryKept ==
  ASSUME RegInv, UNCHANGED <<registryVars, binds>>
  PROVE  Bound' /\ Registered' /\ \A id : PlaceOf(id)' = PlaceOf(id)
  <1>1. \A id : PlaceOf(id)' = PlaceOf(id)
    BY DEF PlaceOf, Delegate, ListensTo
  <1>2. Bound'
    BY DEF RegInv, Bound
  <1>3. own' = own /\ listeners' = listeners /\ location' = location /\ binds' = binds
    BY DEF registryVars
  <1>4. Registered'
    BY <1>1, <1>3 DEF RegInv, Registered
  <1> QED BY <1>1, <1>2, <1>4

\* A step in which the same instances exist, with the same delegates.
LEMMA RegKept ==
  ASSUME RegInv, UNCHANGED <<registryVars, binds, created, modules, next>>, configs \subseteq configs',
         phase' = phase \/ (phase = "load" /\ phase' = "event" /\ ~(next <= NumModules))
                        \/ phase' = "over" \/ (phase = "event" /\ phase' = "destroy")
                        \/ (phase' = "destroy" /\ next <= NumModules /\ next \notin configs),
         phase' = "over" => phase \notin {"load", "event"},
         phase \in {"load", "event", "destroy", "over"}
  PROVE  RegInv'
  <1>1. Bound' /\ Registered'
    BY RegistryKept
  <1>2. \A m \in Modules \ Existing : own[m] = <<>>
    BY DEF RegInv
  <1>3. \A m \in Modules \ Existing' : own'[m] = <<>>
    <2> SUFFICES ASSUME NEW m \in Modules, m \notin Existing' PROVE own[m] = <<>>
      BY DEF registryVars
    <2>1. CASE m \notin Existing
      BY <1>2, <2>1
    <2>2. CASE m \in Existing
      <3>1. phase = "load" /\ next <= NumModules /\ m = next /\ phase' # phase
        BY <2>2 DEF Existing
      <3>2. next \notin configs
        BY <3>1
      <3> QED BY <3>1, <3>2 DEF RegInv
    <2> QED BY <2>1, <2>2
  <1>4. (phase' = "load" /\ next' <= NumModules /\ next' \notin configs') => own'[next'] = <<>>
    BY DEF RegInv, registryVars
  <1>5. phase' \in {"load", "event"} =>
          \A m \in ToSet(created') \cup ToSet(modules') : Len(own'[m]) = Len(binds'[m])
    BY DEF RegInv, registryVars
  <1> QED BY <1>1, <1>3, <1>4, <1>5 DEF RegInv

\* A constructor binds one more delegate.
LEMMA RegBound ==
  ASSUME ListInv, RegInv, Bind
  PROVE  RegInv'
  <1>1. /\ phase = "load" /\ next <= NumModules /\ next \in configs /\ AddDelegate(next)
        /\ UNCHANGED <<binds, phase, next, configs, created, modules>>
    BY DEF Bind, Constructing, Setup, listVars
  <1>2. next \in Modules
    BY <1>1, Numbers DEF ListInv
  <1>3. PICK s : own' = [own EXCEPT ![next] = s]
    BY <1>1, <1>2, DelegateAdded DEF RegInv
  <1>4. Registered'
    BY <1>1, <1>2, DelegateAdded DEF RegInv
  <1>5. \A m \in Modules : m # next => own'[m] = own[m]
    BY <1>3 DEF RegInv, Registered
  <1>6. next \in Existing /\ Existing' = Existing
    BY <1>1 DEF Existing
  <1>7. \A m \in ToSet(created) \cup ToSet(modules) : m # next /\ m \in Modules
    <2>1. \A m \in ToSet(created) \cup ToSet(modules) : m < next /\ m \in configs
      BY <1>1 DEF ListInv
    <2>2. configs \subseteq Modules /\ \A m \in Modules : m < next => m # next
      BY <1>2, Numbers DEF ListInv
    <2> QED BY <2>1, <2>2
  <1>8. \A m \in Modules \ Existing' : own'[m] = <<>>
    BY <1>5, <1>6 DEF RegInv
  <1>9. \A m \in ToSet(created') \cup ToSet(modules') : Len(own'[m]) = Len(binds'[m])
    BY <1>1, <1>5, <1>7 DEF RegInv
  <1>10. Bound'
    BY <1>1 DEF RegInv, Bound
  <1> QED BY <1>1, <1>4, <1>8, <1>9, <1>10 DEF RegInv

\* A constructor that has bound all of its delegates is done.
LEMMA RegConstructed ==
  ASSUME ListInv, RegInv, Constructed
  PROVE  RegInv'
  <1>1. /\ phase = "load" /\ next <= NumModules /\ next \in configs
        /\ Len(own[next]) = Len(binds[next])
        /\ created' = Append(created, next) /\ next' = next + 1
        /\ UNCHANGED <<binds, phase, configs, modules, registryVars>>
    BY DEF Constructed, Constructing, Setup
  <1>2. next \in Modules /\ next \in Nat /\ next + 1 # next
    BY <1>1, Numbers DEF ListInv
  <1>3. ToSet(created') = ToSet(created) \cup {next}
    BY <1>1, <1>2, AppendSet DEF ListInv
  <1>4. Bound' /\ Registered' /\ own' = own
    BY <1>1, RegistryKept DEF registryVars
  <1>5. Existing \subseteq Existing'
    BY <1>1, <1>3 DEF Existing
  <1>6. \A m \in Modules \ Existing' : own'[m] = <<>>
    BY <1>4, <1>5 DEF RegInv
  <1>7. next + 1 <= NumModules => own[next + 1] = <<>>
    <2> SUFFICES ASSUME next + 1 <= NumModules PROVE next + 1 \in Modules \ Existing
      BY DEF RegInv
    <2>1. next + 1 \in Modules
      BY <1>2, Numbers
    <2>2. \A m \in ToSet(created) \cup ToSet(modules) : m < next
      BY <1>1 DEF ListInv
    <2>3. ~(next + 1 < next)
      BY <1>2
    <2> QED BY <1>2, <2>1, <2>2, <2>3 DEF Existing
  <1>8. \A m \in ToSet(created') \cup ToSet(modules') : Len(own'[m]) = Len(binds'[m])
    BY <1>1, <1>3, <1>4 DEF RegInv
  <1> QED BY <1>1, <1>4, <1>6, <1>7, <1>8 DEF RegInv

\* Destroying an instance removes its delegates, whatever becomes of the rest.
LEMMA RegDestroyed ==
  ASSUME RegInv, UNCHANGED binds, NEW m \in Modules, RemoveDelegates(m),
         \A x \in Existing : x = m \/ x \in Existing'
  PROVE  /\ Bound' /\ Registered' /\ own' = [own EXCEPT ![m] = <<>>]
         /\ \A x \in Modules : x # m => own'[x] = own[x]
         /\ \A x \in Modules : own[x] = <<>> => own'[x] = <<>>
         /\ \A x \in Modules \ Existing' : own'[x] = <<>>
  <1>1. Bound'
    BY DEF RegInv, Bound
  <1>2. Registered' /\ own' = [own EXCEPT ![m] = <<>>]
    BY DelegatesRemoved DEF RegInv
  <1>3. own'[m] = <<>> /\ \A x \in Modules : x # m => own'[x] = own[x]
    BY <1>2 DEF RegInv, Registered
  <1>4. \A x \in Modules \ Existing' : own'[x] = <<>>
    BY <1>3 DEF RegInv
  <1> QED BY <1>1, <1>2, <1>3, <1>4

\* An instance is destroyed while the list is made: it was created or listed, and
\* all others keep their delegates.
LEMMA RegUnused ==
  ASSUME ListInv, ListInv', RegInv, phase = "load", UNCHANGED <<binds, phase, next>>,
         NEW m \in ToSet(created) \cup ToSet(modules), RemoveDelegates(m), configs' = configs \ {m}
  PROVE  RegInv'
  <1> DEFINE present == ToSet(created) \cup ToSet(modules)
  <1>1. /\ configs \ {next} = present /\ \A x \in present : x < next
        /\ configs \subseteq Modules /\ next \in 1 .. NumModules + 1
    BY DEF ListInv
  <1>2. configs' \ {next} = ToSet(created') \cup ToSet(modules')
    BY DEF ListInv
  <1>3. m \in Modules /\ m # next
    BY <1>1, Numbers
  <1>4. ToSet(created') \cup ToSet(modules') = present \ {m}
    BY <1>1, <1>2, <1>3
  <1>5. \A x \in Existing : x = m \/ x \in Existing'
    BY <1>4 DEF Existing
  <1>6. /\ Bound' /\ Registered'
        /\ \A x \in Modules : x # m => own'[x] = own[x]
        /\ \A x \in Modules : own[x] = <<>> => own'[x] = <<>>
        /\ \A x \in Modules \ Existing' : own'[x] = <<>>
    BY <1>3, <1>5, RegDestroyed
  <1>7. (phase' = "load" /\ next' <= NumModules /\ next' \notin configs') => own'[next'] = <<>>
    <2> SUFFICES ASSUME next <= NumModules, next \notin configs' PROVE own'[next] = <<>>
      OBVIOUS
    <2>1. next \notin configs /\ next \in Modules
      BY <1>1, <1>3, Numbers
    <2> QED BY <1>6, <2>1 DEF RegInv
  <1>8. \A x \in ToSet(created') \cup ToSet(modules') : Len(own'[x]) = Len(binds'[x])
    <2>1. \A x \in present : x \in Modules
      BY <1>1
    <2>2. \A x \in present : Len(own[x]) = Len(binds[x])
      BY DEF RegInv
    <2> HIDE DEF present
    <2> QED BY <1>4, <1>6, <2>1, <2>2
  <1> QED BY <1>6, <1>7, <1>8 DEF RegInv

LEMMA RegStep ==
  ASSUME ListInv, ListInv', RegInv, [Next]_vars
  PROVE  RegInv'
  <1> USE DEF Setup
  <1>0. phase \in {"load", "event", "destroy", "over"}
    BY DEF ListInv
  <1>1. CASE AddConfiguration
    <2>1. /\ UNCHANGED <<registryVars, binds, created, modules, next, phase>>
          /\ configs \subseteq configs' /\ phase = "load"
      BY <1>1 DEF AddConfiguration, Constructing
    <2> QED BY <1>0, <2>1, RegKept
  <1>2. CASE ConfigurationExists
    <2>1. /\ UNCHANGED <<registryVars, binds, created, modules, next, configs>>
          /\ phase' = "destroy" /\ next <= NumModules /\ next \notin configs
      BY <1>2 DEF ConfigurationExists, Constructing, listVars
    <2> QED BY <1>0, <2>1, RegKept
  <1>3. CASE Bind
    BY <1>3, RegBound
  <1>4. CASE Constructed
    BY <1>4, RegConstructed
  <1>5. CASE ConstructorThrows
    <2>1. /\ phase = "load" /\ next <= NumModules /\ RemoveDelegates(next)
          /\ phase' = "destroy" /\ UNCHANGED <<binds, next, configs, created, modules>>
      BY <1>5 DEF ConstructorThrows, Constructing, listVars
    <2>2. next \in Modules
      BY <2>1, Numbers DEF ListInv
    <2>3. \A x \in Existing : x = next \/ x \in Existing'
      BY <2>1 DEF Existing
    <2>4. Bound' /\ Registered' /\ \A x \in Modules \ Existing' : own'[x] = <<>>
      BY <2>1, <2>2, <2>3, RegDestroyed
    <2> QED BY <2>1, <2>4 DEF RegInv
  <1>16. CASE InvalidState
    <2>1. /\ phase = "load" /\ next <= NumModules /\ created' = Append(created, next)
          /\ phase' = "destroy" /\ UNCHANGED <<registryVars, binds, next, configs, modules>>
      BY <1>16 DEF InvalidState, Constructing
    <2>2. next \in Modules
      BY <2>1, Numbers DEF ListInv
    <2>3. ToSet(created') = ToSet(created) \cup {next}
      BY <2>1, <2>2, AppendSet DEF ListInv
    <2>4. Existing \subseteq Existing'
      BY <2>1, <2>3 DEF Existing
    <2>5. Bound' /\ Registered' /\ own' = own
      BY <2>1, RegistryKept DEF registryVars
    <2>6. \A x \in Modules \ Existing' : own'[x] = <<>>
      BY <2>4, <2>5 DEF RegInv
    <2> QED BY <2>1, <2>5, <2>6 DEF RegInv
  <1>6. CASE Place
    <2>1. /\ phase = "load" /\ created # <<>>
          /\ UNCHANGED <<registryVars, binds, phase, next, configs>>
      BY <1>6 DEF Place, Placing
    <2>2. ToSet(created') \cup ToSet(modules') = ToSet(created) \cup ToSet(modules)
      BY <2>1 DEF ListInv
    <2>3. Existing' = Existing
      BY <2>1, <2>2 DEF Existing
    <2>4. Bound' /\ Registered' /\ own' = own
      BY <2>1, RegistryKept DEF registryVars
    <2> QED BY <2>1, <2>2, <2>3, <2>4 DEF RegInv
  <1>7. CASE PlaceReplacing
    <2>1. PICK i \in DOMAIN modules : RemoveDelegates(modules[i]) /\ configs' = configs \ {modules[i]}
      BY <1>7 DEF PlaceReplacing
    <2>2. phase = "load" /\ UNCHANGED <<binds, phase, next>>
      BY <1>7 DEF PlaceReplacing, Placing
    <2>3. modules[i] \in ToSet(modules)
      BY DEF ToSet
    <2> QED BY <2>1, <2>2, <2>3, RegUnused
  <1>8. CASE PlaceDropped
    <2>1. /\ phase = "load" /\ created # <<>> /\ UNCHANGED <<binds, phase, next>>
          /\ RemoveDelegates(Head(created)) /\ configs' = configs \ {Head(created)}
      BY <1>8 DEF PlaceDropped, Placing
    <2>2. Head(created) \in ToSet(created)
      BY <2>1, Heading
    <2> QED BY <2>1, <2>2, RegUnused
  <1>9. CASE Loaded
    <2>1. /\ phase = "load" /\ next > NumModules /\ phase' = "event"
          /\ UNCHANGED <<registryVars, binds, created, modules, next, configs>>
      BY <1>9 DEF Loaded, listVars
    <2>2. ~(next <= NumModules)
      BY <2>1, Numbers DEF ListInv
    <2> QED BY <1>0, <2>1, <2>2, RegKept
  <1>10. CASE SkipModule \/ EnterModule \/ LeaveModule
    <2>1. /\ phase = "event" /\ phase' = phase
          /\ UNCHANGED <<registryVars, binds, created, modules, next, configs>>
      BY <1>10 DEF SkipModule, EnterModule, LeaveModule, TakeTurn, listVars
    <2> QED BY <1>0, <2>1, RegKept
  <1>11. CASE DispatchMessage
    <2>1. /\ phase = "event" /\ (phase' = phase \/ phase' = "destroy")
          /\ UNCHANGED <<registryVars, binds, created, modules, next, configs>>
      BY <1>11 DEF DispatchMessage, listVars
    <2> QED BY <1>0, <2>1, RegKept
  <1>12. CASE EventDone
    <2>1. /\ phase = "event" /\ phase' = "destroy"
          /\ UNCHANGED <<registryVars, binds, created, modules, next, configs>>
      BY <1>12 DEF EventDone, listVars
    <2> QED BY <1>0, <2>1, RegKept
  <1>13. CASE DestroyModule
    <2>1. /\ phase = "destroy" /\ modules # <<>> /\ RemoveDelegates(Head(modules))
          /\ modules' = Tail(modules) /\ UNCHANGED <<binds, phase, created>>
      BY <1>13 DEF DestroyModule
    <2>2. Head(modules) \in Modules /\ ToSet(modules) = ToSet(modules') \cup {Head(modules)}
      BY <2>1, TailSet DEF ListInv
    <2>3. \A x \in Existing : x = Head(modules) \/ x \in Existing'
      BY <2>1, <2>2 DEF Existing
    <2>4. Bound' /\ Registered' /\ \A x \in Modules \ Existing' : own'[x] = <<>>
      BY <2>1, <2>2, <2>3, RegDestroyed
    <2> QED BY <2>1, <2>4 DEF RegInv
  <1>14. CASE AllDestroyed
    <2>1. /\ phase = "destroy" /\ phase' = "over"
          /\ UNCHANGED <<registryVars, binds, created, modules, next, configs>>
      BY <1>14 DEF AllDestroyed, listVars
    <2> QED BY <1>0, <2>1, RegKept
  <1>15. CASE UNCHANGED vars
    <2>1. phase' = phase /\ UNCHANGED <<registryVars, binds, created, modules, next, configs>>
      BY <1>15 DEF vars, registryVars
    <2> QED BY <1>0, <2>1, RegKept
  <1> QED BY <1>1, <1>2, <1>3, <1>4, <1>5, <1>6, <1>7, <1>8, <1>9, <1>10, <1>11, <1>12, <1>13,
             <1>14, <1>15, <1>16 DEF Next

LEMMA BoundAtInit ==
  ASSUME MessengerInit
  PROVE  Bound
  <1>1. binds \in [Modules -> UNION {Bindings[m] : m \in Modules}] /\ \A m \in Modules : binds[m] \in Bindings[m]
    BY DEF MessengerInit
  <1>2. \A m \in Modules : /\ binds[m] \in Seq(Delegates)
                           /\ \A i, j \in DOMAIN binds[m] : binds[m][i].type = binds[m][j].type => i = j
    BY <1>1, MessengerAssumption
  <1> QED BY <1>1, <1>2 DEF Bound

LEMMA RegInvariant == Spec => [](ListInv /\ RegInv)
  <1>1. Init => RegInv
    <2> SUFFICES ASSUME Init PROVE RegInv
      OBVIOUS
    <2>1. /\ own = [m \in Modules |-> <<>>] /\ listeners = [p \in Places |-> <<>>]
          /\ location = [d \in {} |-> <<>>] /\ created = <<>> /\ modules = <<>> /\ next = 1
      BY DEF Init, MessengerInit
    <2>2. ToSet(<<>>) = {} /\ DOMAIN <<>> = {} /\ IsInjective(<<>>) /\ Len(<<>>) = 0
          /\ <<>> \in Seq(Modules \X Nat)
      BY DEF ToSet, IsInjective
    <2>3. Bound
      BY BoundAtInit DEF Init
    <2>4. \A m \in Modules : 0 <= Len(binds[m])
      <3>1. \A m \in Modules : Len(binds[m]) \in Nat
        BY <2>3, LenProperties DEF Bound
      <3> QED BY <3>1
    <2>5. DOMAIN location = {}
      BY <2>1
    <2>6. UNION {ToSet(own[m]) : m \in Modules} = {}
      BY <2>1, <2>2
    <2>7. Registered
      BY <2>1, <2>2, <2>4, <2>5, <2>6 DEF Registered
    <2>8. own[1] = <<>>
      BY <2>1, Numbers
    <2> QED BY <2>1, <2>2, <2>3, <2>7, <2>8 DEF RegInv
  <1>2. Spec => []ListInv
    BY ListInvariant
  <1>3. ListInv /\ ListInv' /\ RegInv /\ [Next]_vars => RegInv'
    BY RegStep
  <1> QED BY <1>1, <1>2, <1>3, PTL DEF Spec

\* The delegates in the registry are those of the modules that exist, each of them
\* once, under its type and name, whatever instances came and went.
THEOREM RegistryExactHolds == Spec => []RegistryExact
  <1>1. RegInv => RegistryExact
    BY DEF RegInv, Registered, RegistryExact
  <1> QED BY <1>1, RegInvariant, PTL

-----------------------------------------------------------------------------
(* The receivers of a message *)

LEMMA ConcatSet ==
  ASSUME NEW S, NEW s \in Seq(S), NEW t \in Seq(S), IsInjective(s), IsInjective(t),
         ToSet(s) \cap ToSet(t) = {}
  PROVE  s \o t \in Seq(S) /\ ToSet(s \o t) = ToSet(s) \cup ToSet(t) /\ IsInjective(s \o t)
  <1> DEFINE u == s \o t
             m == Len(s)
             n == Len(t)
  <1>1. /\ u \in Seq(S) /\ Len(u) = m + n
        /\ \A k \in 1 .. m + n : u[k] = IF k <= m THEN s[k] ELSE t[k - m]
    BY ConcatProperties
  <1>2. DOMAIN s = 1 .. m /\ m \in Nat /\ DOMAIN t = 1 .. n /\ n \in Nat
    BY LenProperties
  <1>3. DOMAIN u = 1 .. m + n
    BY <1>1, LenProperties
  <1> HIDE DEF u, m, n
  <1>4. \A k \in DOMAIN u : \/ k \in DOMAIN s /\ u[k] = s[k]
                            \/ k - m \in DOMAIN t /\ u[k] = t[k - m] /\ k \in Int
    BY <1>1, <1>2, <1>3
  <1>5. \A k \in DOMAIN s : k \in DOMAIN u /\ u[k] = s[k]
    BY <1>1, <1>2, <1>3
  <1>6. \A k \in DOMAIN t : m + k \in DOMAIN u /\ u[m + k] = t[k]
    <2> SUFFICES ASSUME NEW k \in DOMAIN t PROVE m + k \in DOMAIN u /\ u[m + k] = t[k]
      OBVIOUS
    <2>1. m + k \in 1 .. m + n /\ ~(m + k <= m) /\ (m + k) - m = k
      BY <1>2
    <2> QED BY <1>1, <1>3, <2>1
  <1>7. ToSet(u) = ToSet(s) \cup ToSet(t)
    <2>1. \A k \in DOMAIN u : u[k] \in ToSet(s) \cup ToSet(t)
      BY <1>4 DEF ToSet
    <2>2. \A x \in ToSet(s) \cup ToSet(t) : \E k \in DOMAIN u : u[k] = x
      BY <1>5, <1>6 DEF ToSet
    <2>3. ToSet(u) = {u[k] : k \in DOMAIN u}
      BY DEF ToSet
    <2> QED BY <2>1, <2>2, <2>3
  <1>8. IsInjective(u)
    <2> SUFFICES ASSUME NEW k \in DOMAIN u, NEW l \in DOMAIN u, u[k] = u[l] PROVE k = l
      BY DEF IsInjective
    <2>1. CASE k \in DOMAIN s /\ u[k] = s[k] /\ l \in DOMAIN s /\ u[l] = s[l]
      BY <2>1 DEF IsInjective
    <2>2. CASE /\ k - m \in DOMAIN t /\ u[k] = t[k - m] /\ k \in Int
               /\ l - m \in DOMAIN t /\ u[l] = t[l - m] /\ l \in Int
      <3>1. k - m = l - m
        BY <2>2 DEF IsInjective
      <3> QED BY <1>2, <2>2, <3>1
    <2>3. \A i \in DOMAIN s : \A j \in DOMAIN t : s[i] # t[j]
      BY DEF ToSet
    <2> QED BY <1>4, <2>1, <2>2, <2>3
  <1> QED BY <1>1, <1>7, <1>8 DEF u

\* The entry of the box that a delegate writes to.
Slot(id) == <<id[1], Delegate(id).type>>

\* A registered delegate is one that its module binds, and has its own entry.
LEMMA RegisteredId ==
  ASSUME Bound, Registered, NEW id \in DOMAIN location
  PROVE  /\ id \in Modules \X Nat /\ id = <<id[1], id[2]>> /\ id[2] \in DOMAIN own[id[1]]
         /\ Delegate(id) \in Delegates /\ Slot(id) \in Modules \X AllTypes
         /\ location[id] = PlaceOf(id) /\ Input[id[1]] \in Names \cup {"*"}
         /\ \A other \in DOMAIN location : Slot(other) = Slot(id) => other = id
  <1>1. \A d \in DOMAIN location :
          /\ d \in Modules \X Nat /\ d = <<d[1], d[2]>> /\ d[2] \in DOMAIN own[d[1]]
          /\ d[2] \in DOMAIN binds[d[1]]
    <2> SUFFICES ASSUME NEW d \in DOMAIN location
                 PROVE  /\ d \in Modules \X Nat /\ d = <<d[1], d[2]>> /\ d[2] \in DOMAIN own[d[1]]
                        /\ d[2] \in DOMAIN binds[d[1]]
      OBVIOUS
    <2>1. PICK m \in Modules : \E k \in DOMAIN own[m] : d = <<m, k>>
      BY InDomain
    <2>2. PICK k \in DOMAIN own[m] : d = <<m, k>>
      BY <2>1
    <2>3. Len(own[m]) \in Nat /\ DOMAIN own[m] = 1 .. Len(own[m])
      BY OwnIds
    <2>4. binds[m] \in Seq(Delegates)
      BY DEF Bound
    <2>5. Len(binds[m]) \in Nat /\ DOMAIN binds[m] = 1 .. Len(binds[m])
      BY <2>4, LenProperties
    <2>6. Len(own[m]) <= Len(binds[m])
      BY DEF Registered
    <2>7. k \in Nat /\ k \in DOMAIN binds[m]
      BY <2>3, <2>5, <2>6
    <2> QED BY <2>2, <2>7
  <1>2. Delegate(id) \in Delegates
    <2>1. id[1] \in Modules
      BY <1>1
    <2>2. binds[id[1]] \in Seq(Delegates)
      BY <2>1 DEF Bound
    <2> QED BY <1>1, <2>2 DEF Delegate
  <1>3. Slot(id) \in Modules \X AllTypes
    BY <1>1, <1>2 DEF Slot, Delegates
  <1>4. ASSUME NEW d \in DOMAIN location, Slot(d) = Slot(id) PROVE d = id
    <2>1. d[1] = id[1] /\ binds[id[1]][d[2]].type = binds[id[1]][id[2]].type
      BY <1>4 DEF Slot, Delegate
    <2>2. id[1] \in Modules /\ d[2] \in DOMAIN binds[id[1]] /\ id[2] \in DOMAIN binds[id[1]]
      BY <1>1, <2>1
    <2>3. d[2] = id[2]
      BY <2>1, <2>2 DEF Bound
    <2>4. d = <<d[1], d[2]>> /\ id = <<id[1], id[2]>>
      BY <1>1
    <2> QED BY <2>1, <2>3, <2>4
  <1>5. Input[id[1]] \in Names \cup {"*"}
    BY <1>1, MessengerAssumption
  <1> QED BY <1>1, <1>2, <1>3, <1>4, <1>5 DEF Registered

LEMMA AddressedExact ==
  ASSUME Registered, NEW source, NEW detector, NEW place \in Places
  PROVE  LET s == Addressed(source, detector, place)
         IN /\ s \in Seq(Modules \X Nat) /\ IsInjective(s)
            /\ ToSet(s) = {id \in DOMAIN location : location[id] = place /\ CheckSend(source, detector, id)}
  <1> DEFINE s == listeners[place]
             K == {i \in DOMAIN s : CheckSend(source, detector, s[i])}
  <1>1. /\ s \in Seq(Modules \X Nat) /\ IsInjective(s)
        /\ ToSet(s) = {id \in DOMAIN location : location[id] = place}
    BY DEF Registered
  <1>2. K \in SUBSET (1 .. Len(s))
    BY <1>1, LenProperties
  <1>3. Addressed(source, detector, place) = Picked(s, K)
    BY DEF Addressed
  <1>4. \A i : i \in K <=> i \in DOMAIN s /\ CheckSend(source, detector, s[i])
    OBVIOUS
  <1> HIDE DEF s, K
  <1>5. Picked(s, K) \in Seq(Modules \X Nat)
    BY <1>1, <1>2, PickedAt
  <1>6. IsInjective(Picked(s, K)) /\ ToSet(Picked(s, K)) = {s[i] : i \in K}
    BY <1>1, <1>2, PickedSet
  <1>7. {s[i] : i \in K} = {id \in DOMAIN location : location[id] = place /\ CheckSend(source, detector, id)}
    <2>1. \A i \in K : /\ s[i] \in DOMAIN location /\ location[s[i]] = place
                       /\ CheckSend(source, detector, s[i])
      BY <1>1, <1>4 DEF ToSet
    <2>2. \A id \in DOMAIN location : location[id] = place /\ CheckSend(source, detector, id)
                                        => \E i \in K : id = s[i]
      BY <1>1, <1>4 DEF ToSet
    <2> QED BY <2>1, <2>2
  <1> QED BY <1>3, <1>5, <1>6, <1>7

\* The delegates that a message is looked up for under a key.
Meant(source, type, detector, key) ==
  {id \in DOMAIN location : /\ location[id] \in {<<type, key>>, <<"BaseMessage", key>>}
                            /\ CheckSend(source, detector, id)}

LEMMA ListeningExact ==
  ASSUME Registered, NEW source, NEW type \in MessageTypes, NEW detector, NEW key \in Names \cup {"*", "?"}
  PROVE  LET s == Listening(source, type, detector, key)
         IN /\ s \in Seq(Modules \X Nat) /\ IsInjective(s)
            /\ ToSet(s) = Meant(source, type, detector, key)
  <1> DEFINE s == Addressed(source, detector, <<type, key>>)
             t == Addressed(source, detector, <<"BaseMessage", key>>)
  <1>1. <<type, key>> \in Places /\ <<"BaseMessage", key>> \in Places
    BY DEF Places, AllTypes
  <1>2. type # "BaseMessage"
    BY MessengerAssumption
  <1>3. /\ s \in Seq(Modules \X Nat) /\ IsInjective(s)
        /\ ToSet(s) = {id \in DOMAIN location : location[id] = <<type, key>> /\ CheckSend(source, detector, id)}
    BY <1>1, AddressedExact
  <1>4. /\ t \in Seq(Modules \X Nat) /\ IsInjective(t)
        /\ ToSet(t) = {id \in DOMAIN location : location[id] = <<"BaseMessage", key>> /\ CheckSend(source, detector, id)}
    BY <1>1, AddressedExact
  <1>5. Listening(source, type, detector, key) = s \o t
    BY DEF Listening
  <1> HIDE DEF s, t
  <1>6. ToSet(s) \cap ToSet(t) = {}
    BY <1>2, <1>3, <1>4
  <1>7. s \o t \in Seq(Modules \X Nat) /\ ToSet(s \o t) = ToSet(s) \cup ToSet(t) /\ IsInjective(s \o t)
    BY <1>3, <1>4, <1>6, ConcatSet
  <1>8. ToSet(s) \cup ToSet(t) = Meant(source, type, detector, key)
    BY <1>3, <1>4 DEF Meant
  <1> QED BY <1>5, <1>7, <1>8

\* The keys that a message of this name is looked up under.
Keys(name) == {name, "*"} \cup (IF name = "" THEN {"?"} ELSE {})

LEMMA ReceiversListening ==
  ASSUME Registered, NEW source, NEW type \in MessageTypes, NEW detector, NEW name \in Names
  PROVE  LET s == Receivers(source, type, detector, name)
         IN /\ s \in Seq(Modules \X Nat) /\ IsInjective(s)
            /\ ToSet(s) = {id \in DOMAIN location :
                             /\ location[id] \in {type, "BaseMessage"} \X Keys(name)
                             /\ CheckSend(source, detector, id)}
  <1> DEFINE At(key) == Meant(source, type, detector, key)
             s == Listening(source, type, detector, name)
             t == Listening(source, type, detector, "*")
             u == IF name = "" THEN Listening(source, type, detector, "?") ELSE <<>>
  <1>0. \A k, l : k # l => At(k) \cap At(l) = {}
    BY DEF Meant
  <1>1. name # "*" /\ name # "?" /\ "*" # "?"
    BY MessengerAssumption
  <1>2. s \in Seq(Modules \X Nat) /\ IsInjective(s) /\ ToSet(s) = At(name)
    BY ListeningExact
  <1>3. t \in Seq(Modules \X Nat) /\ IsInjective(t) /\ ToSet(t) = At("*")
    BY ListeningExact
  <1>4. /\ u \in Seq(Modules \X Nat) /\ IsInjective(u)
        /\ ToSet(u) = IF name = "" THEN At("?") ELSE {}
    <2>1. CASE name = ""
      BY <2>1, ListeningExact
    <2>2. CASE name # ""
      <3>1. u = <<>>
        BY <2>2
      <3>2. <<>> \in Seq(Modules \X Nat) /\ IsInjective(<<>>) /\ ToSet(<<>>) = {}
        BY DEF IsInjective, ToSet
      <3> HIDE DEF u
      <3> QED BY <2>2, <3>1, <3>2
    <2> QED BY <2>1, <2>2
  <1>5. Receivers(source, type, detector, name) = (s \o t) \o u
    BY DEF Receivers
  <1> HIDE DEF s, t, u, At
  <1>6. ToSet(s) \cap ToSet(t) = {}
    BY <1>1, <1>2, <1>3, <1>0
  <1>7. s \o t \in Seq(Modules \X Nat) /\ ToSet(s \o t) = ToSet(s) \cup ToSet(t) /\ IsInjective(s \o t)
    BY <1>2, <1>3, <1>6, ConcatSet
  <1>8. ToSet(s \o t) \cap ToSet(u) = {}
    <2>1. At(name) \cap At("?") = {} /\ At("*") \cap At("?") = {}
      BY <1>1, <1>0
    <2>2. ToSet(s \o t) = At(name) \cup At("*") /\ (ToSet(u) = At("?") \/ ToSet(u) = {})
      BY <1>2, <1>3, <1>4, <1>7
    <2> QED BY <2>1, <2>2
  <1>9. /\ (s \o t) \o u \in Seq(Modules \X Nat) /\ ToSet((s \o t) \o u) = ToSet(s \o t) \cup ToSet(u)
        /\ IsInjective((s \o t) \o u)
    <2> DEFINE v == s \o t
    <2>1. v \in Seq(Modules \X Nat) /\ IsInjective(v) /\ ToSet(v) \cap ToSet(u) = {}
      BY <1>7, <1>8
    <2>2. u \in Seq(Modules \X Nat) /\ IsInjective(u)
      BY <1>4
    <2> HIDE DEF v
    <2>3. v \o u \in Seq(Modules \X Nat) /\ ToSet(v \o u) = ToSet(v) \cup ToSet(u) /\ IsInjective(v \o u)
      BY <2>1, <2>2, ConcatSet
    <2> QED BY <2>3 DEF v
  <1>10. ToSet(s) \cup ToSet(t) \cup ToSet(u)
           = {id \in DOMAIN location : /\ location[id] \in {type, "BaseMessage"} \X Keys(name)
                                       /\ CheckSend(source, detector, id)}
    <2>1. \A key, id : id \in At(key) <=> /\ id \in DOMAIN location /\ CheckSend(source, detector, id)
                                          /\ location[id] \in {<<type, key>>, <<"BaseMessage", key>>}
      BY DEF At, Meant
    <2>2. \A id : id \in ToSet(s) \cup ToSet(t) \cup ToSet(u) <=> \E key \in Keys(name) : id \in At(key)
      BY <1>2, <1>3, <1>4 DEF Keys
    <2> QED BY <2>1, <2>2
  <1> QED BY <1>5, <1>7, <1>9, <1>10

\* A message goes to the delegates that it is meant for, once to each of them.
LEMMA ReceiversExact ==
  ASSUME Bound, Registered, NEW source, NEW type \in MessageTypes, NEW detector, NEW name \in Names,
         NEW message, message.source = source, message.type = type, message.detector = detector,
         message.name = name
  PROVE  LET s == Receivers(source, type, detector, name)
         IN /\ s \in Seq(Modules \X Nat) /\ IsInjective(s)
            /\ ToSet(s) = {id \in DOMAIN location : Heard(id, message)}
  <1>1. ASSUME NEW id \in DOMAIN location
        PROVE  location[id] \in {type, "BaseMessage"} \X Keys(name) /\ CheckSend(source, detector, id)
                 <=> Heard(id, message)
    <2>1. location[id] = <<Delegate(id).type, ListensTo(id)>> /\ Delegate(id) \in Delegates
          /\ Input[id[1]] \in Names \cup {"*"}
      BY RegisteredId DEF PlaceOf
    <2>2. Delegate(id).name \in {"input", "ignore", "unnamed"}
      BY <2>1 DEF Delegates
    <2>3. "*" \notin Names /\ "?" \notin Names
      BY MessengerAssumption
    <2>4. ListensTo(id) \in Keys(name) <=>
             \/ Delegate(id).name = "ignore"
             \/ Delegate(id).name = "unnamed" /\ name = ""
             \/ Delegate(id).name = "input" /\ Input[id[1]] \in {"*", name}
      <3>1. CASE Delegate(id).name = "ignore"
        BY <3>1 DEF ListensTo, Keys
      <3>2. CASE Delegate(id).name = "unnamed"
        <4>1. ListensTo(id) = "?"
          BY <3>2 DEF ListensTo
        <4> QED BY <2>3, <3>2, <4>1 DEF Keys
      <3>3. CASE Delegate(id).name = "input"
        <4>1. ListensTo(id) = Input[id[1]]
          BY <3>3 DEF ListensTo
        <4>2. Input[id[1]] # "?"
          BY <2>1, <2>3
        <4> QED BY <3>3, <4>1, <4>2 DEF Keys
      <3> QED BY <2>2, <3>1, <3>2, <3>3
    <2>5. CheckSend(source, detector, id) <=> id[1] # source /\ Detector[id[1]] \in {NoDetector, detector}
      BY DEF CheckSend
    <2>6. location[id] \in {type, "BaseMessage"} \X Keys(name)
            <=> Delegate(id).type \in {type, "BaseMessage"} /\ ListensTo(id) \in Keys(name)
      BY <2>1
    <2> QED BY <2>4, <2>5, <2>6 DEF Heard
  <1>2. {id \in DOMAIN location : /\ location[id] \in {type, "BaseMessage"} \X Keys(name)
                                  /\ CheckSend(source, detector, id)}
          = {id \in DOMAIN location : Heard(id, message)}
    BY <1>1
  <1> QED BY <1>2, ReceiversListening

-----------------------------------------------------------------------------
(* The delivery of a message *)

Boxes == [present  : SUBSET (Modules \X AllTypes),
          single   : [Modules \X AllTypes -> Nat],
          multi    : [Modules \X AllTypes -> Seq(Nat)],
          filtered : [Modules \X AllTypes -> Seq(Nat)]]

\* Nothing has come to this entry of the box.
Same(b, c, slot) ==
    c.single[slot] = b.single[slot] /\ c.multi[slot] = b.multi[slot] /\ c.filtered[slot] = b.filtered[slot]

\* The message has come to the entry of a delegate.
Came(b, c, id, message, rejected) ==
    LET slot == Slot(id)
    IN /\ Delegate(id).kind = "single" =>
            c.single[slot] = message /\ (~Delegate(id).overwrite => b.single[slot] = 0)
       /\ Delegate(id).kind = "multi" => c.multi[slot] = Append(b.multi[slot], message)
       /\ Delegate(id).kind = "filter" =>
            c.filtered[slot] = IF id \in rejected THEN b.filtered[slot]
                               ELSE Append(b.filtered[slot], message)

\* One receiver has its message, or throws.
LEMMA ReceivedByOne ==
  ASSUME NEW b \in Boxes, NEW id, Delegate(id) \in Delegates, Slot(id) \in Modules \X AllTypes,
         NEW message \in Nat, NEW rejected
  PROVE  LET r == Receive([box |-> b, thrown |-> FALSE], id, message, rejected)
         IN /\ r \in [box : Boxes, thrown : BOOLEAN]
            /\ ~r.thrown =>
                 /\ r.box.present = b.present \cup {Slot(id)}
                 /\ Came(b, r.box, id, message, rejected)
                 /\ \A slot \in Modules \X AllTypes : slot # Slot(id) => Same(b, r.box, slot)
  <1> DEFINE slot == Slot(id)
             d == Delegate(id)
             entered == [b EXCEPT !.present = @ \cup {slot}]
             processed == Process(entered, id, message, rejected)
             r == Receive([box |-> b, thrown |-> FALSE], id, message, rejected)
  <1>1. r = IF Unexpected(entered, id) THEN [box |-> entered, thrown |-> TRUE]
            ELSE [box |-> processed, thrown |-> FALSE]
    BY DEF Receive, Slot
  <1>2. slot = <<id[1], Delegate(id).type>> /\ slot \in Modules \X AllTypes
    BY DEF Slot
  <1>3. d.kind \in {"single", "multi", "filter"}
    BY DEF Delegates
  <1>4. /\ b.single \in [Modules \X AllTypes -> Nat] /\ b.multi \in [Modules \X AllTypes -> Seq(Nat)]
        /\ b.filtered \in [Modules \X AllTypes -> Seq(Nat)] /\ b.present \in SUBSET (Modules \X AllTypes)
    BY DEF Boxes
  <1>5. /\ entered \in Boxes /\ entered.present = b.present \cup {slot}
        /\ entered.single = b.single /\ entered.multi = b.multi /\ entered.filtered = b.filtered
    <2>1. b = [present |-> b.present, single |-> b.single, multi |-> b.multi, filtered |-> b.filtered]
      BY DEF Boxes
    <2>2. entered = [present |-> b.present \cup {slot}, single |-> b.single, multi |-> b.multi,
                     filtered |-> b.filtered]
      BY <2>1
    <2>3. b.present \cup {slot} \in SUBSET (Modules \X AllTypes)
      BY <1>2, <1>4
    <2> HIDE DEF entered, slot
    <2> QED BY <1>4, <2>2, <2>3 DEF Boxes
  <1>6. Unexpected(entered, id) <=> /\ d.kind = "single" /\ ~d.overwrite /\ b.single[slot] # 0
    BY <1>2, <1>5 DEF Unexpected
  <1>7. processed = CASE d.kind = "single" -> [entered EXCEPT !.single[slot] = message]
                      [] d.kind = "multi"  -> [entered EXCEPT !.multi[slot] = Append(@, message)]
                      [] d.kind = "filter" -> IF id \in rejected THEN entered
                                              ELSE [entered EXCEPT !.filtered[slot] = Append(@, message)]
    BY DEF Process, Slot
  <1> HIDE DEF processed, entered, slot
  <1>8. entered = [present |-> b.present \cup {slot}, single |-> b.single, multi |-> b.multi,
                   filtered |-> b.filtered]
    BY <1>5 DEF Boxes
  <1>9. /\ processed \in Boxes /\ processed.present = entered.present
        /\ ~Unexpected(entered, id) => Came(b, processed, id, message, rejected)
        /\ \A other \in Modules \X AllTypes : other # slot => Same(b, processed, other)
    <2>1. CASE d.kind = "single"
      <3>1. processed = [present |-> b.present \cup {slot}, single |-> [b.single EXCEPT ![slot] = message],
                         multi |-> b.multi, filtered |-> b.filtered]
        BY <1>7, <1>8, <2>1
      <3>2. /\ [b.single EXCEPT ![slot] = message] \in [Modules \X AllTypes -> Nat]
            /\ [b.single EXCEPT ![slot] = message][slot] = message
            /\ \A other \in Modules \X AllTypes :
                 other # slot => [b.single EXCEPT ![slot] = message][other] = b.single[other]
        BY <1>2, <1>4
      <3>3. processed \in Boxes /\ processed.present = entered.present
        BY <1>4, <1>5, <1>8, <3>1, <3>2 DEF Boxes
      <3>4. ~Unexpected(entered, id) => Came(b, processed, id, message, rejected)
        BY <1>6, <2>1, <3>1, <3>2 DEF Came, slot
      <3>5. \A other \in Modules \X AllTypes : other # slot => Same(b, processed, other)
        BY <3>1, <3>2 DEF Same
      <3> QED BY <3>3, <3>4, <3>5
    <2>2. CASE d.kind = "multi"
      <3> DEFINE longer == Append(b.multi[slot], message)
      <3>1. processed = [present |-> b.present \cup {slot}, single |-> b.single,
                         multi |-> [b.multi EXCEPT ![slot] = longer], filtered |-> b.filtered]
        BY <1>7, <1>8, <2>2
      <3>2. longer \in Seq(Nat)
        BY <1>2, <1>4, AppendProperties
      <3>3. /\ [b.multi EXCEPT ![slot] = longer] \in [Modules \X AllTypes -> Seq(Nat)]
            /\ [b.multi EXCEPT ![slot] = longer][slot] = longer
            /\ \A other \in Modules \X AllTypes :
                 other # slot => [b.multi EXCEPT ![slot] = longer][other] = b.multi[other]
        BY <1>2, <1>4, <3>2
      <3>4. processed \in Boxes /\ processed.present = entered.present
        BY <1>4, <1>5, <1>8, <3>1, <3>3 DEF Boxes
      <3>5. Came(b, processed, id, message, rejected)
        BY <2>2, <3>1, <3>3 DEF Came, slot
      <3>6. \A other \in Modules \X AllTypes : other # slot => Same(b, processed, other)
        BY <3>1, <3>3 DEF Same
      <3> QED BY <3>4, <3>5, <3>6
    <2>3. CASE d.kind = "filter" /\ id \in rejected
      <3>1. processed = entered
        BY <1>7, <2>3
      <3>2. Came(b, processed, id, message, rejected)
        BY <1>5, <2>3, <3>1 DEF Came, slot
      <3> QED BY <1>5, <3>1, <3>2 DEF Same
    <2>4. CASE d.kind = "filter" /\ id \notin rejected
      <3> DEFINE longer == Append(b.filtered[slot], message)
      <3>1. processed = [present |-> b.present \cup {slot}, single |-> b.single, multi |-> b.multi,
                         filtered |-> [b.filtered EXCEPT ![slot] = longer]]
        BY <1>7, <1>8, <2>4
      <3>2. longer \in Seq(Nat)
        BY <1>2, <1>4, AppendProperties
      <3>3. /\ [b.filtered EXCEPT ![slot] = longer] \in [Modules \X AllTypes -> Seq(Nat)]
            /\ [b.filtered EXCEPT ![slot] = longer][slot] = longer
            /\ \A other \in Modules \X AllTypes :
                 other # slot => [b.filtered EXCEPT ![slot] = longer][other] = b.filtered[other]
        BY <1>2, <1>4, <3>2
      <3>4. processed \in Boxes /\ processed.present = entered.present
        BY <1>4, <1>5, <1>8, <3>1, <3>3 DEF Boxes
      <3>5. Came(b, processed, id, message, rejected)
        BY <2>4, <3>1, <3>3 DEF Came, slot
      <3>6. \A other \in Modules \X AllTypes : other # slot => Same(b, processed, other)
        BY <3>1, <3>3 DEF Same
      <3> QED BY <3>4, <3>5, <3>6
    <2> QED BY <1>3, <2>1, <2>2, <2>3, <2>4
  <1>10. r \in [box : Boxes, thrown : BOOLEAN]
    <2>1. entered \in Boxes /\ processed \in Boxes
      BY <1>5, <1>9
    <2> HIDE DEF r
    <2> QED BY <1>1, <2>1
  <1>11. ~r.thrown => r.box = processed /\ ~Unexpected(entered, id)
    BY <1>1
  <1> HIDE DEF r
  <1>12. ~r.thrown => /\ r.box.present = b.present \cup {slot}
                      /\ Came(b, r.box, id, message, rejected)
                      /\ \A other \in Modules \X AllTypes : other # slot => Same(b, r.box, other)
    BY <1>5, <1>9, <1>11
  <1> QED BY <1>10, <1>12 DEF r, slot

\* The recursion over the receivers is well-founded: there is such a function.
IsDelivery(f, rs, message, rejected, n) ==
    f = [i \in 0 .. n |-> IF i = 0 THEN [box |-> box, thrown |-> FALSE]
                          ELSE Receive(f[i - 1], rs[i], message, rejected)]

LEMMA DeliveryExists ==
  ASSUME NEW rs, NEW message, NEW rejected, NEW n \in Nat
  PROVE  \E f : IsDelivery(f, rs, message, rejected, n)
  <1> DEFINE bad == {k \in Nat : ~\E f : IsDelivery(f, rs, message, rejected, k)}
  <1> SUFFICES ASSUME bad # {} PROVE FALSE
    OBVIOUS
  <1>1. PICK k \in bad : \A l \in bad : k <= l
    BY LeastNat
  <1>2. k # 0
    <2>1. IsDelivery([i \in 0 .. 0 |-> [box |-> box, thrown |-> FALSE]], rs, message, rejected, 0)
      BY DEF IsDelivery
    <2> QED BY <1>1, <2>1
  <1>3. k - 1 \in Nat /\ k - 1 \notin bad
    BY <1>1, <1>2
  <1>4. PICK g : IsDelivery(g, rs, message, rejected, k - 1)
    BY <1>3
  <1> DEFINE f == [i \in 0 .. k |-> IF i = k THEN Receive(g[k - 1], rs[k], message, rejected) ELSE g[i]]
  <1>5. \A i \in 0 .. k - 1 : g[i] = IF i = 0 THEN [box |-> box, thrown |-> FALSE]
                                     ELSE Receive(g[i - 1], rs[i], message, rejected)
    BY <1>3, <1>4 DEF IsDelivery
  <1>6. ASSUME NEW i \in 0 .. k
        PROVE  f[i] = IF i = 0 THEN [box |-> box, thrown |-> FALSE]
                      ELSE Receive(f[i - 1], rs[i], message, rejected)
    <2>1. CASE i = 0
      <3>1. 0 \in 0 .. k - 1 /\ 0 # k
        BY <1>2, <1>3
      <3>2. g[0] = [box |-> box, thrown |-> FALSE]
        BY <1>5, <3>1
      <3>3. f[i] = g[0]
        BY <2>1, <3>1
      <3> HIDE DEF f
      <3> QED BY <2>1, <3>2, <3>3
    <2>2. CASE i = k
      <3>1. f[i] = Receive(g[k - 1], rs[k], message, rejected) /\ f[k - 1] = g[k - 1]
        BY <1>1, <1>2, <1>3, <2>2
      <3> QED BY <1>2, <2>2, <3>1
    <2>3. CASE i # 0 /\ i # k
      <3>1. i \in 0 .. k - 1 /\ i - 1 \in 0 .. k /\ i - 1 # k
        BY <1>1, <1>3, <2>3
      <3>2. f[i] = g[i] /\ f[i - 1] = g[i - 1]
        BY <2>3, <3>1
      <3> HIDE DEF f
      <3> QED BY <1>5, <2>3, <3>1, <3>2
    <2> QED BY <2>1, <2>2, <2>3
  <1>7. f = [i \in 0 .. k |-> f[i]]
    OBVIOUS
  <1> HIDE DEF f
  <1>8. IsDelivery(f, rs, message, rejected, k)
    BY <1>6, <1>7 DEF IsDelivery
  <1> QED BY <1>1, <1>8

\* What is delivered when the first i receivers are through.
Delivered(c, rs, i, message, rejected) ==
    /\ c.present = box.present \cup {Slot(rs[k]) : k \in 1 .. i}
    /\ \A k \in 1 .. i : Came(box, c, rs[k], message, rejected)
    /\ \A slot \in Modules \X AllTypes : (\A k \in 1 .. i : slot # Slot(rs[k])) => Same(box, c, slot)

\* One more receiver.  Each has an entry of its own, so that the ones before it
\* keep what they have.
LEMMA DeliveredToNext ==
  ASSUME NEW rs, NEW i \in Nat, NEW message \in Nat, NEW rejected, NEW c \in Boxes, box \in Boxes,
         Delivered(c, rs, i, message, rejected),
         \A k \in 1 .. i + 1 : Delegate(rs[k]) \in Delegates /\ Slot(rs[k]) \in Modules \X AllTypes,
         \A k \in 1 .. i : Slot(rs[k]) # Slot(rs[i + 1])
  PROVE  LET r == Receive([box |-> c, thrown |-> FALSE], rs[i + 1], message, rejected)
         IN /\ r \in [box : Boxes, thrown : BOOLEAN]
            /\ ~r.thrown => Delivered(r.box, rs, i + 1, message, rejected)
  <1> DEFINE r == Receive([box |-> c, thrown |-> FALSE], rs[i + 1], message, rejected)
             id == rs[i + 1]
  <1>1. /\ i + 1 \in 1 .. i + 1 /\ \A k \in 1 .. i + 1 : k \in 1 .. i \/ k = i + 1
        /\ \A k \in 1 .. i : k \in 1 .. i + 1
    OBVIOUS
  <1>2. Delegate(id) \in Delegates /\ Slot(id) \in Modules \X AllTypes
    BY <1>1
  <1> HIDE DEF id
  <1>3. /\ r \in [box : Boxes, thrown : BOOLEAN]
        /\ ~r.thrown =>
             /\ r.box.present = c.present \cup {Slot(id)}
             /\ Came(c, r.box, id, message, rejected)
             /\ \A slot \in Modules \X AllTypes : slot # Slot(id) => Same(c, r.box, slot)
    BY <1>2, ReceivedByOne DEF id
  <1> HIDE DEF r
  <1>4. ASSUME ~r.thrown PROVE Delivered(r.box, rs, i + 1, message, rejected)
    <2> DEFINE e == r.box
    <2>1. /\ e.present = c.present \cup {Slot(id)} /\ Came(c, e, id, message, rejected)
          /\ \A slot \in Modules \X AllTypes : slot # Slot(id) => Same(c, e, slot)
      BY <1>3, <1>4
    <2> HIDE DEF e
    <2>2. e.present = box.present \cup {Slot(rs[k]) : k \in 1 .. i + 1}
      <3>1. c.present = box.present \cup {Slot(rs[k]) : k \in 1 .. i}
        BY DEF Delivered
      <3>2. {Slot(rs[k]) : k \in 1 .. i + 1} = {Slot(rs[k]) : k \in 1 .. i} \cup {Slot(rs[i + 1])}
        BY <1>1
      <3> QED BY <2>1, <3>1, <3>2 DEF id
    <2>3. ASSUME NEW k \in 1 .. i + 1 PROVE Came(box, e, rs[k], message, rejected)
      <3>1. CASE k \in 1 .. i
        <4>1. Slot(rs[k]) # Slot(id) /\ Slot(rs[k]) \in Modules \X AllTypes
          BY <1>1, <3>1 DEF id
        <4>2. Same(c, e, Slot(rs[k]))
          BY <2>1, <4>1
        <4>3. Came(box, c, rs[k], message, rejected)
          BY <3>1 DEF Delivered
        <4> QED BY <4>2, <4>3 DEF Came, Same
      <3>2. CASE k = i + 1
        <4>1. \A l \in 1 .. i : Slot(id) # Slot(rs[l])
          BY DEF id
        <4>2. Same(box, c, Slot(id))
          BY <1>2, <4>1 DEF Delivered
        <4>3. Came(box, e, id, message, rejected)
          BY <2>1, <4>2 DEF Came, Same
        <4> QED BY <3>2, <4>3 DEF id
      <3> QED BY <1>1, <3>1, <3>2
    <2>4. ASSUME NEW slot \in Modules \X AllTypes, \A k \in 1 .. i + 1 : slot # Slot(rs[k])
          PROVE  Same(box, e, slot)
      <3>1. slot # Slot(id) /\ \A k \in 1 .. i : slot # Slot(rs[k])
        BY <1>1, <2>4 DEF id
      <3>2. Same(c, e, slot)
        BY <2>1, <3>1
      <3>3. Same(box, c, slot)
        BY <3>1 DEF Delivered
      <3> QED BY <3>2, <3>3 DEF Same
    <2>5. Delivered(e, rs, i + 1, message, rejected)
      BY <2>2, <2>3, <2>4 DEF Delivered
    <2> QED BY <2>5 DEF e
  <1> QED BY <1>3, <1>4 DEF r, id

\* After all receivers, or after one that threw.
LEMMA DeliveredToAll ==
  ASSUME box \in Boxes, NEW rs, NEW n \in Nat, NEW message \in Nat, NEW rejected, NEW f,
         IsDelivery(f, rs, message, rejected, n),
         \A k \in 1 .. n : Delegate(rs[k]) \in Delegates /\ Slot(rs[k]) \in Modules \X AllTypes,
         \A k, l \in 1 .. n : Slot(rs[k]) = Slot(rs[l]) => k = l
  PROVE  /\ f[n] \in [box : Boxes, thrown : BOOLEAN]
         /\ ~f[n].thrown => Delivered(f[n].box, rs, n, message, rejected)
  <1> DEFINE Good(k) == /\ f[k] \in [box : Boxes, thrown : BOOLEAN]
                        /\ ~f[k].thrown => Delivered(f[k].box, rs, k, message, rejected)
             bad == {k \in 0 .. n : ~Good(k)}
  <1>1. \A i \in 0 .. n : f[i] = IF i = 0 THEN [box |-> box, thrown |-> FALSE]
                                 ELSE Receive(f[i - 1], rs[i], message, rejected)
    BY DEF IsDelivery
  <1>2. Good(0)
    <2>1. f[0] = [box |-> box, thrown |-> FALSE]
      <3>1. 0 \in 0 .. n
        OBVIOUS
      <3> QED BY <1>1, <3>1
    <2>2. {Slot(rs[k]) : k \in 1 .. 0} = {} /\ \A k \in 1 .. 0 : FALSE
      OBVIOUS
    <2>3. Delivered(box, rs, 0, message, rejected)
      BY <2>2 DEF Delivered, Same
    <2> QED BY <2>1, <2>3
  <1>3. ASSUME NEW i \in 0 .. n, i + 1 \in 0 .. n, Good(i) PROVE Good(i + 1)
    <2>1. f[i + 1] = Receive(f[i], rs[i + 1], message, rejected)
      <3>1. i + 1 # 0 /\ (i + 1) - 1 = i
        OBVIOUS
      <3> QED BY <1>1, <1>3, <3>1
    <2>2. CASE f[i].thrown
      <3>1. f[i + 1] = f[i]
        BY <2>1, <2>2 DEF Receive
      <3> QED BY <1>3, <2>2, <3>1
    <2>3. CASE ~f[i].thrown
      <3> DEFINE c == f[i].box
      <3>1. f[i] = [box |-> c, thrown |-> FALSE] /\ c \in Boxes /\ Delivered(c, rs, i, message, rejected)
        BY <1>3, <2>3
      <3>2. /\ i \in Nat /\ \A k \in 1 .. i + 1 : k \in 1 .. n
            /\ \A k \in 1 .. i : k \in 1 .. n /\ i + 1 \in 1 .. n /\ k # i + 1
        BY <1>3
      <3> HIDE DEF c
      <3>3. /\ \A k \in 1 .. i + 1 : Delegate(rs[k]) \in Delegates /\ Slot(rs[k]) \in Modules \X AllTypes
            /\ \A k \in 1 .. i : Slot(rs[k]) # Slot(rs[i + 1])
        BY <3>2
      <3> DEFINE r == Receive([box |-> c, thrown |-> FALSE], rs[i + 1], message, rejected)
      <3>4. /\ r \in [box : Boxes, thrown : BOOLEAN]
            /\ ~r.thrown => Delivered(r.box, rs, i + 1, message, rejected)
        BY <3>1, <3>2, <3>3, DeliveredToNext
      <3>5. f[i + 1] = r
        BY <2>1, <3>1
      <3> HIDE DEF r
      <3> QED BY <3>4, <3>5
    <2> QED BY <2>2, <2>3
  <1> HIDE DEF Good
  <1>4. ASSUME bad # {} PROVE FALSE
    <2>1. bad \subseteq Nat
      OBVIOUS
    <2> HIDE DEF bad
    <2>2. PICK k \in bad : \A l \in bad : k <= l
      BY <1>4, <2>1, LeastNat
    <2>3. k \in 0 .. n /\ ~Good(k)
      BY <2>2 DEF bad
    <2>4. k # 0
      BY <1>2, <2>3
    <2>5. k - 1 \in 0 .. n /\ (k - 1) + 1 = k /\ ~(k <= k - 1)
      BY <2>3, <2>4
    <2>6. Good(k - 1)
      BY <2>2, <2>5 DEF bad
    <2>7. Good((k - 1) + 1)
      BY <1>3, <2>3, <2>5, <2>6
    <2> QED BY <2>3, <2>5, <2>7
  <1>5. Good(n)
    BY <1>4
  <1> QED BY <1>5 DEF Good

\* Deliver() for receivers with entries of their own.
LEMMA DeliverExact ==
  ASSUME box \in Boxes, NEW rs \in Seq(Modules \X Nat), NEW message \in Nat, NEW rejected,
         \A id \in ToSet(rs) : Delegate(id) \in Delegates /\ Slot(id) \in Modules \X AllTypes,
         \A a, b \in ToSet(rs) : Slot(a) = Slot(b) => a = b, IsInjective(rs)
  PROVE  LET d == Deliver(rs, message, rejected)
         IN /\ d \in [box : Boxes, thrown : BOOLEAN]
            /\ ~d.thrown =>
                 /\ d.box.present = box.present \cup {Slot(id) : id \in ToSet(rs)}
                 /\ \A id \in ToSet(rs) : Came(box, d.box, id, message, rejected)
                 /\ \A slot \in Modules \X AllTypes :
                      (\A id \in ToSet(rs) : slot # Slot(id)) => Same(box, d.box, slot)
  <1> DEFINE n == Len(rs)
             d == Deliver(rs, message, rejected)
             f == CHOOSE g : IsDelivery(g, rs, message, rejected, n)
  <1>1. n \in Nat /\ DOMAIN rs = 1 .. n
    BY LenProperties
  <1>2. IsDelivery(f, rs, message, rejected, n)
    BY <1>1, DeliveryExists
  <1>3. d = f[n]
    BY DEF Deliver, IsDelivery
  <1> HIDE DEF f, d, n
  <1>4. \A k \in 1 .. n : rs[k] \in ToSet(rs)
    BY <1>1 DEF ToSet
  <1>5. /\ \A k \in 1 .. n : Delegate(rs[k]) \in Delegates /\ Slot(rs[k]) \in Modules \X AllTypes
        /\ \A k, l \in 1 .. n : Slot(rs[k]) = Slot(rs[l]) => k = l
    BY <1>1, <1>4 DEF IsInjective
  <1>6. /\ f[n] \in [box : Boxes, thrown : BOOLEAN]
        /\ ~f[n].thrown => Delivered(f[n].box, rs, n, message, rejected)
    BY <1>1, <1>2, <1>5, DeliveredToAll
  <1>7. \A id : id \in ToSet(rs) <=> \E k \in 1 .. n : id = rs[k]
    BY <1>1 DEF ToSet
  <1>8. {Slot(rs[k]) : k \in 1 .. n} = {Slot(id) : id \in ToSet(rs)}
    BY <1>7
  <1>9. ~d.thrown => Delivered(d.box, rs, n, message, rejected)
    BY <1>3, <1>6
  <1>10. d \in [box : Boxes, thrown : BOOLEAN]
    BY <1>3, <1>6
  <1>11. ~d.thrown =>
           /\ d.box.present = box.present \cup {Slot(id) : id \in ToSet(rs)}
           /\ \A id \in ToSet(rs) : Came(box, d.box, id, message, rejected)
           /\ \A slot \in Modules \X AllTypes :
                (\A id \in ToSet(rs) : slot # Slot(id)) => Same(box, d.box, slot)
    BY <1>7, <1>8, <1>9 DEF Delivered
  <1> QED BY <1>10, <1>11 DEF d

-----------------------------------------------------------------------------
(* What a delegate finds in its entry of the box *)

Messages == [source : Modules, type : MessageTypes, detector : Detectors \cup {NoDetector},
             name : Names, rejected : SUBSET (Modules \X Nat)]

\* The messages of a delegate, however it binds them.
Reads(id) ==
    LET slot == Slot(id)
    IN /\ slot \in box.present <=> AllHeard(id) # {}
       /\ Delegate(id).kind = "multi" => box.multi[slot] = HeardBy(id)
       /\ Delegate(id).kind = "filter" =>
            box.filtered[slot] = Picked([n \in DOMAIN sent |-> n],
                                        {n \in AllHeard(id) : id \notin sent[n].rejected})
       /\ Delegate(id).kind = "single" =>
            /\ ~Delegate(id).overwrite => Len(HeardBy(id)) <= 1
            /\ box.single[slot] = IF HeardBy(id) = <<>> THEN 0 ELSE Last(HeardBy(id))

\* The places in a sequence, as a sequence.
LEMMA Numbering ==
  ASSUME NEW S, NEW s \in Seq(S), NEW x \in S
  PROVE  /\ [n \in DOMAIN s |-> n] \in Seq(Nat) /\ Len([n \in DOMAIN s |-> n]) = Len(s)
         /\ DOMAIN s = 1 .. Len(s) /\ Len(s) \in Nat
         /\ [n \in DOMAIN Append(s, x) |-> n] = Append([n \in DOMAIN s |-> n], Len(s) + 1)
  <1> DEFINE m == Len(s)
             N == [n \in DOMAIN s |-> n]
             M == [n \in DOMAIN Append(s, x) |-> n]
  <1>1. DOMAIN s = 1 .. m /\ m \in Nat
    BY LenProperties
  <1>2. N \in Seq(Nat) /\ Len(N) = m /\ \A k \in 1 .. m : N[k] = k
    <2>1. N \in [1 .. m -> Nat]
      BY <1>1
    <2> QED BY <1>1, <2>1
  <1>3. DOMAIN Append(s, x) = 1 .. m + 1
    BY AppendSet
  <1>4. M \in Seq(Nat) /\ Len(M) = m + 1 /\ \A k \in 1 .. m + 1 : M[k] = k
    <2>1. M \in [1 .. m + 1 -> Nat]
      BY <1>1, <1>3
    <2>2. m + 1 \in Nat
      BY <1>1
    <2> QED BY <1>3, <2>1, <2>2
  <1> HIDE DEF N, M, m
  <1>5. m + 1 \in Nat
    BY <1>1
  <1>6. /\ Append(N, m + 1) \in Seq(Nat) /\ Len(Append(N, m + 1)) = m + 1
        /\ Append(N, m + 1)[m + 1] = m + 1 /\ \A k \in 1 .. m : Append(N, m + 1)[k] = k
    BY <1>2, <1>5, AppendProperties
  <1>7. \A k \in 1 .. m + 1 : M[k] = Append(N, m + 1)[k]
    BY <1>1, <1>4, <1>6
  <1>8. M = Append(N, m + 1)
    BY <1>4, <1>6, <1>7, SeqEqual
  <1> QED BY <1>1, <1>2, <1>8 DEF M, N, m

\* One more number.
LEMMA NextPicked ==
  ASSUME NEW N \in Seq(Nat), NEW n \in Nat, Len(N) = n, NEW K \in SUBSET (1 .. n)
  PROVE  /\ Picked(Append(N, n + 1), K) = Picked(N, K)
         /\ Picked(Append(N, n + 1), K \cup {n + 1}) = Append(Picked(N, K), n + 1)
  <1> DEFINE x == n + 1
             S == Nat
  <1>1. N \in Seq(S) /\ x \in S
    OBVIOUS
  <1>2. K \in SUBSET (1 .. Len(N))
    OBVIOUS
  <1>3. Len(N) + 1 = x
    OBVIOUS
  <1> HIDE DEF x, S
  <1>4. /\ Picked(Append(N, x), K) = Picked(N, K)
        /\ Picked(Append(N, x), K \cup {Len(N) + 1}) = Append(Picked(N, K), x)
    BY <1>1, <1>2, PickedAppend
  <1> QED BY <1>3, <1>4 DEF x

\* Messages that were picked have a number.
LEMMA PickedNumbers ==
  ASSUME NEW S, NEW s \in Seq(S), NEW K \in SUBSET DOMAIN s
  PROVE  LET h == Picked([n \in DOMAIN s |-> n], K)
         IN h \in Seq(Nat) /\ (h = <<>> <=> K = {}) /\ (h # <<>> => Last(h) \in K)
  <1> DEFINE N == [n \in DOMAIN s |-> n]
             h == Picked(N, K)
  <1>1. DOMAIN s = 1 .. Len(s) /\ Len(s) \in Nat
    BY LenProperties
  <1>2. N \in Seq(Nat) /\ Len(N) = Len(s) /\ \A k \in 1 .. Len(s) : N[k] = k
    <2>1. N \in [1 .. Len(s) -> Nat]
      BY <1>1
    <2> QED BY <1>1, <2>1
  <1>3. K \in SUBSET (1 .. Len(N))
    BY <1>1, <1>2
  <1> HIDE DEF N
  <1>4. /\ h \in Seq(Nat) /\ Len(h) = Cardinality(K) /\ Cardinality(K) \in Nat
        /\ DOMAIN h = 1 .. Cardinality(K)
        /\ \A i \in K : Rank(K, i) \in 1 .. Cardinality(K) /\ h[Rank(K, i)] = N[i]
        /\ \A k \in 1 .. Cardinality(K) : \E i \in K : Rank(K, i) = k /\ h[k] = N[i]
    BY <1>2, <1>3, PickedAt
  <1> HIDE DEF h
  <1>5. h = <<>> <=> K = {}
    <2>1. h = <<>> <=> Cardinality(K) = 0
      BY <1>4, EmptySeq
    <2>2. \A i \in K : 1 .. Cardinality(K) # {}
      BY <1>4
    <2>3. Cardinality(K) # 0 => K # {}
      BY <1>4
    <2>4. Cardinality(K) = 0 => 1 .. Cardinality(K) = {}
      OBVIOUS
    <2> QED BY <2>1, <2>2, <2>3, <2>4
  <1>6. ASSUME h # <<>> PROVE Last(h) \in K
    <2>1. Last(h) = h[Len(h)]
      BY DEF Last
    <2>2. Len(h) # 0
      BY <1>4, <1>6, EmptySeq
    <2>3. Len(h) \in 1 .. Cardinality(K)
      BY <1>4, <2>2
    <2>4. PICK i \in K : h[Len(h)] = N[i]
      BY <1>4, <2>3
    <2>5. N[i] = i
      BY <1>1, <1>2
    <2> QED BY <2>1, <2>4, <2>5
  <1> QED BY <1>4, <1>5, <1>6 DEF h, N

\* One more message was sent: the delegates it is for have it, the others keep
\* what they had.
LEMMA ReadsOn ==
  ASSUME NEW message \in Messages, sent \in Seq(Messages), sent' = Append(sent, message),
         UNCHANGED binds, box \in Boxes, box' \in Boxes, NEW id, Reads(id),
         Delegate(id) \in Delegates, Slot(id) \in Modules \X AllTypes,
         Heard(id, message) => /\ Slot(id) \in box'.present
                               /\ Came(box, box', id, Len(sent) + 1, message.rejected),
         ~Heard(id, message) => /\ Slot(id) \in box'.present <=> Slot(id) \in box.present
                                /\ Same(box, box', Slot(id))
  PROVE  Reads(id)'
  <1> DEFINE n == Len(sent)
             N == [k \in DOMAIN sent |-> k]
             all == AllHeard(id)
             kept == {k \in all : id \notin sent[k].rejected}
             slot == Slot(id)
             d == Delegate(id)
  <1>1. /\ N \in Seq(Nat) /\ Len(N) = n /\ DOMAIN sent = 1 .. n /\ n \in Nat
        /\ [k \in DOMAIN sent' |-> k] = Append(N, n + 1)
    BY Numbering
  <1>2. /\ DOMAIN sent' = 1 .. n + 1 /\ sent'[n + 1] = message
        /\ \A k \in 1 .. n : sent'[k] = sent[k]
    BY AppendSet
  <1>3. /\ \A k \in DOMAIN sent' : k \in DOMAIN sent \/ k = n + 1
        /\ \A k \in DOMAIN sent : k \in DOMAIN sent' /\ sent'[k] = sent[k] /\ k # n + 1
        /\ n + 1 \in DOMAIN sent'
    BY <1>1, <1>2
  <1>4. AllHeard(id)' = IF Heard(id, message) THEN all \cup {n + 1} ELSE all
    <2>1. \A k : k \in AllHeard(id)' <=> k \in DOMAIN sent' /\ Heard(id, sent'[k])
      BY DEF AllHeard, Heard, Delegate
    <2>2. \A k : k \in all <=> k \in DOMAIN sent /\ Heard(id, sent[k])
      BY DEF AllHeard
    <2> HIDE DEF all
    <2>3. \A k : k \in AllHeard(id)' <=> k \in all \/ (k = n + 1 /\ Heard(id, message))
      BY <1>2, <1>3, <2>1, <2>2
    <2> QED BY <2>3
  <1>5. all \in SUBSET (1 .. n) /\ kept \in SUBSET (1 .. n)
    BY <1>1 DEF AllHeard
  <1>6. {k \in AllHeard(id)' : id \notin sent'[k].rejected}
          = IF Heard(id, message) /\ id \notin message.rejected THEN kept \cup {n + 1} ELSE kept
    <2> DEFINE now == {k \in AllHeard(id)' : id \notin sent'[k].rejected}
    <2>1. \A k \in all : k \in 1 .. n /\ sent'[k] = sent[k] /\ k # n + 1
      BY <1>1, <1>2, <1>3, <1>5
    <2>2. \A k : k \in kept <=> k \in all /\ id \notin sent[k].rejected
      OBVIOUS
    <2> HIDE DEF kept, all
    <2>3. \A k : k \in now <=> \/ k \in kept
                               \/ k = n + 1 /\ Heard(id, message) /\ id \notin message.rejected
      BY <1>2, <1>4, <2>1, <2>2
    <2> HIDE DEF now
    <2>4. now = IF Heard(id, message) /\ id \notin message.rejected THEN kept \cup {n + 1} ELSE kept
      BY <2>3
    <2> QED BY <2>4 DEF now
  <1>7. \A K \in SUBSET (1 .. n) : /\ Picked(Append(N, n + 1), K) = Picked(N, K)
                                   /\ Picked(Append(N, n + 1), K \cup {n + 1}) = Append(Picked(N, K), n + 1)
    <2> SUFFICES ASSUME NEW K \in SUBSET (1 .. n)
                 PROVE  /\ Picked(Append(N, n + 1), K) = Picked(N, K)
                        /\ Picked(Append(N, n + 1), K \cup {n + 1}) = Append(Picked(N, K), n + 1)
      OBVIOUS
    <2>1. N \in Seq(Nat) /\ Len(N) = n /\ n \in Nat
      BY <1>1
    <2> HIDE DEF N, n
    <2> QED BY <2>1, NextPicked
  <1>8. HeardBy(id)' = Picked(Append(N, n + 1), AllHeard(id)') /\ HeardBy(id) = Picked(N, all)
    BY <1>1 DEF HeardBy
  <1>9. Slot(id)' = slot /\ Delegate(id)' = d
    BY DEF Slot, Delegate
  <1>10. d.kind \in {"single", "multi", "filter"}
    BY DEF Delegates
  <1>11. /\ slot \in box.present <=> all # {}
         /\ d.kind = "multi" => box.multi[slot] = HeardBy(id)
         /\ d.kind = "filter" => box.filtered[slot] = Picked(N, kept)
         /\ d.kind = "single" =>
              /\ ~d.overwrite => Len(HeardBy(id)) <= 1
              /\ box.single[slot] = IF HeardBy(id) = <<>> THEN 0 ELSE Last(HeardBy(id))
    BY DEF Reads
  <1>12. SUFFICES /\ slot \in box'.present <=> AllHeard(id)' # {}
                  /\ d.kind = "multi" => box'.multi[slot] = HeardBy(id)'
                  /\ d.kind = "filter" =>
                       box'.filtered[slot] = Picked([k \in DOMAIN sent' |-> k],
                                                {k \in AllHeard(id)' : id \notin sent'[k].rejected})
                  /\ d.kind = "single" =>
                       /\ ~d.overwrite => Len(HeardBy(id)') <= 1
                       /\ box'.single[slot] = IF HeardBy(id)' = <<>> THEN 0 ELSE Last(HeardBy(id)')
    BY <1>9 DEF Reads
  <1>13. HeardBy(id) \in Seq(Nat) /\ (HeardBy(id) # <<>> => Last(HeardBy(id)) # 0)
    <2>1. all \in SUBSET DOMAIN sent
      BY DEF AllHeard
    <2>2. HeardBy(id) \in Seq(Nat) /\ (HeardBy(id) # <<>> => Last(HeardBy(id)) \in all)
      BY <2>1, PickedNumbers DEF HeardBy
    <2>3. 0 \notin all
      BY <1>5
    <2> QED BY <2>2, <2>3
  <1> HIDE DEF n, N, all, kept, slot, d
  <1>14. CASE ~Heard(id, message)
    <2>1. AllHeard(id)' = all /\ HeardBy(id)' = HeardBy(id)
      BY <1>4, <1>5, <1>7, <1>8, <1>14
    <2>2. Picked([k \in DOMAIN sent' |-> k], {k \in AllHeard(id)' : id \notin sent'[k].rejected}) = Picked(N, kept)
      BY <1>1, <1>5, <1>6, <1>7, <1>14
    <2>3. (slot \in box'.present <=> slot \in box.present) /\ Same(box, box', slot)
      BY <1>14 DEF slot
    <2> QED BY <1>11, <2>1, <2>2, <2>3 DEF Same
  <1>15. CASE Heard(id, message)
    <2>1. AllHeard(id)' = all \cup {n + 1} /\ HeardBy(id)' = Append(HeardBy(id), n + 1)
      BY <1>4, <1>5, <1>7, <1>8, <1>15
    <2>2. Picked([k \in DOMAIN sent' |-> k], {k \in AllHeard(id)' : id \notin sent'[k].rejected})
            = IF id \in message.rejected THEN Picked(N, kept) ELSE Append(Picked(N, kept), n + 1)
      BY <1>1, <1>5, <1>6, <1>7, <1>15
    <2>3. slot \in box'.present /\ AllHeard(id)' # {}
      BY <1>15, <2>1 DEF slot
    <2>4. Came(box, box', id, n + 1, message.rejected)
      BY <1>15 DEF n
    <2>5. d.kind = "multi" => box'.multi[slot] = HeardBy(id)'
      BY <1>11, <2>1, <2>4 DEF Came, d, slot
    <2>6. d.kind = "filter" =>
             box'.filtered[slot] = Picked([k \in DOMAIN sent' |-> k],
                                          {k \in AllHeard(id)' : id \notin sent'[k].rejected})
      BY <1>11, <2>2, <2>4 DEF Came, d, slot
    <2>7. ASSUME d.kind = "single"
          PROVE  /\ ~d.overwrite => Len(HeardBy(id)') <= 1
                 /\ box'.single[slot] = IF HeardBy(id)' = <<>> THEN 0 ELSE Last(HeardBy(id)')
      <3>1. n + 1 \in Nat
        BY <1>1
      <3>2. /\ HeardBy(id)' \in Seq(Nat) /\ Len(HeardBy(id)') = Len(HeardBy(id)) + 1
            /\ HeardBy(id)'[Len(HeardBy(id)) + 1] = n + 1
        BY <1>13, <2>1, <3>1, AppendProperties
      <3>3. Last(HeardBy(id)') = n + 1
        BY <3>2 DEF Last
      <3>4. HeardBy(id)' # <<>>
        <4>1. Len(HeardBy(id)) \in Nat
          BY <1>13, LenProperties
        <4>2. Len(HeardBy(id)') # 0
          BY <3>2, <4>1
        <4> QED BY <3>2, <4>2, EmptySeq
      <3>5. box'.single[slot] = n + 1 /\ (~d.overwrite => box.single[slot] = 0)
        BY <2>4, <2>7 DEF Came, d, slot
      <3>6. ~d.overwrite => HeardBy(id) = <<>>
        BY <1>11, <1>13, <2>7, <3>5
      <3>7. HeardBy(id) = <<>> => Len(HeardBy(id)) = 0
        OBVIOUS
      <3> QED BY <3>2, <3>3, <3>4, <3>5, <3>6, <3>7
    <2> QED BY <2>3, <2>5, <2>6, <2>7
  <1> QED BY <1>14, <1>15

-----------------------------------------------------------------------------
(* The event *)

\* The module has had its turn, or has it.
Turned(i) == i < at \/ (i = at /\ inside)

\* run() was called exactly if the required messages had come by then.
JustRun(m) ==
    /\ turn[m] <= Len(sent)
    /\ m \in ran <=> \A id \in ToSet(own[m]) : Delegate(id).required =>
                        \E n \in AllHeard(id) : n <= turn[m]

EventInv ==
    /\ phase = "load" => /\ box = EmptyBox /\ sent = <<>> /\ at = 1 /\ inside = FALSE
                         /\ ran = {} /\ turn = [m \in Modules |-> 0]
    /\ phase = "event" =>
         /\ box \in Boxes /\ sent \in Seq(Messages) /\ turn \in [Modules -> Nat]
         /\ at \in 1 .. Len(modules) + 1 /\ inside \in BOOLEAN /\ (inside => at <= Len(modules))
         /\ \A id \in DOMAIN location : Reads(id)
         /\ \A i \in DOMAIN modules : IF Turned(i) THEN JustRun(modules[i]) ELSE modules[i] \notin ran

\* Before the first message all entries of the box are empty.
LEMMA ReadsNothing ==
  ASSUME box = EmptyBox, sent = <<>>, NEW id, Slot(id) \in Modules \X AllTypes
  PROVE  box \in Boxes /\ Reads(id)
  <1>1. /\ box.present = {} /\ box.single[Slot(id)] = 0
        /\ box.multi[Slot(id)] = <<>> /\ box.filtered[Slot(id)] = <<>>
    BY DEF EmptyBox
  <1>2. box \in Boxes
    BY DEF EmptyBox, Boxes
  <1>3. DOMAIN sent = {} /\ sent \in Seq(Messages)
    OBVIOUS
  <1>4. AllHeard(id) = {}
    BY <1>3 DEF AllHeard
  <1>5. Picked([n \in DOMAIN sent |-> n], {}) = <<>>
    BY <1>3, PickedNumbers
  <1>6. HeardBy(id) = <<>>
    BY <1>4, <1>5 DEF HeardBy
  <1>7. {n \in AllHeard(id) : id \notin sent[n].rejected} = {}
    BY <1>4
  <1>8. Len(<<>>) <= 1
    OBVIOUS
  <1> QED BY <1>1, <1>2, <1>4, <1>5, <1>6, <1>7, <1>8 DEF Reads

\* check_delegates() sees which of the required messages have been sent.
LEMMA Checked ==
  ASSUME RegInv, NEW m \in Modules, \A id \in DOMAIN location : Reads(id)
  PROVE  CheckDelegates(m) <=> \A id \in ToSet(own[m]) : Delegate(id).required => AllHeard(id) # {}
  <1>1. Bound /\ Registered
    BY DEF RegInv
  <1>2. ASSUME NEW id \in ToSet(own[m]) PROVE IsSatisfied(id) <=> AllHeard(id) # {}
    <2>1. id \in DOMAIN location
      BY <1>1 DEF Registered
    <2>2. location[id] = <<Delegate(id).type, ListensTo(id)>>
      BY <1>1, <2>1, RegisteredId DEF PlaceOf
    <2>3. IsSatisfied(id) <=> Slot(id) \in box.present
      BY <2>2 DEF IsSatisfied, Slot
    <2>4. Slot(id) \in box.present <=> AllHeard(id) # {}
      BY <2>1 DEF Reads
    <2> QED BY <2>3, <2>4
  <1>3. CheckDelegates(m) <=> \A id \in ToSet(own[m]) : Delegate(id).required => IsSatisfied(id)
    BY DEF CheckDelegates, ToSet
  <1> QED BY <1>2, <1>3

\* The boxes as long as no message is sent.
LEMMA ReadsKept ==
  ASSUME UNCHANGED <<binds, box, sent>>
  PROVE  \A id : Reads(id)' <=> Reads(id)
  <1>1. \A id : Delegate(id)' = Delegate(id) /\ Slot(id)' = Slot(id)
    BY DEF Delegate, Slot
  <1>2. \A id : AllHeard(id)' = AllHeard(id)
    BY DEF AllHeard, Heard, Delegate
  <1>3. \A id : HeardBy(id)' = HeardBy(id)
    BY <1>2 DEF HeardBy
  <1> QED BY <1>1, <1>2, <1>3 DEF Reads

\* A message that is sent later changes nothing about the earlier ones.
LEMMA HeardOn ==
  ASSUME UNCHANGED binds, sent \in Seq(Messages), NEW x \in Messages, sent' = Append(sent, x)
  PROVE  /\ Len(sent) \in Nat /\ Len(sent') = Len(sent) + 1
         /\ \A id : AllHeard(id) \subseteq 1 .. Len(sent)
         /\ \A id : \A n \in 1 .. Len(sent) : n \in AllHeard(id)' <=> n \in AllHeard(id)
         /\ \A id : AllHeard(id)' \subseteq 1 .. Len(sent) + 1
  <1>1. /\ Len(sent) \in Nat /\ DOMAIN sent = 1 .. Len(sent)
        /\ DOMAIN sent' = 1 .. Len(sent) + 1
        /\ \A n \in 1 .. Len(sent) : sent'[n] = sent[n]
    BY AppendSet
  <1>2. Len(sent') = Len(sent) + 1
    BY AppendProperties
  <1>3. \A n \in 1 .. Len(sent) : n \in 1 .. Len(sent) + 1
    BY <1>1
  <1>4. \A id, n : n \in AllHeard(id) <=> n \in DOMAIN sent /\ Heard(id, sent[n])
    BY DEF AllHeard
  <1>5. \A id, n : n \in AllHeard(id)' <=> n \in DOMAIN sent' /\ Heard(id, sent'[n])
    BY DEF AllHeard, Heard, Delegate
  <1> QED BY <1>1, <1>2, <1>3, <1>4, <1>5

\* A module whose turn is over stays as it was, whatever is sent afterwards.
LEMMA JustRunKept ==
  ASSUME own' = own, binds' = binds, NEW m, JustRun(m), turn[m] \in Nat, sent \in Seq(Messages),
         sent' = sent \/ \E x \in Messages : sent' = Append(sent, x),
         turn'[m] = turn[m], m \in ran' <=> m \in ran
  PROVE  JustRun(m)'
  <1>1. Len(sent) \in Nat /\ DOMAIN sent = 1 .. Len(sent)
    BY LenProperties
  <1>2. \A id : Delegate(id)' = Delegate(id)
    BY DEF Delegate
  <1>3. turn[m] <= Len(sent)
    BY DEF JustRun
  <1>4. /\ Len(sent') \in Nat /\ Len(sent) <= Len(sent')
        /\ \A id : (\E n \in AllHeard(id)' : n <= turn[m]) <=> \E n \in AllHeard(id) : n <= turn[m]
    <2>1. CASE sent' = sent
      <3>1. \A id : AllHeard(id)' = AllHeard(id)
        BY <2>1 DEF AllHeard, Heard, Delegate
      <3> QED BY <1>1, <2>1, <3>1
    <2>2. CASE \E x \in Messages : sent' = Append(sent, x)
      <3>1. PICK x \in Messages : sent' = Append(sent, x)
        BY <2>2
      <3>2. /\ Len(sent') = Len(sent) + 1
            /\ \A id : AllHeard(id) \subseteq 1 .. Len(sent)
            /\ \A id : \A n \in 1 .. Len(sent) : n \in AllHeard(id)' <=> n \in AllHeard(id)
            /\ \A id : AllHeard(id)' \subseteq 1 .. Len(sent) + 1
        BY <3>1, HeardOn
      <3>3. Len(sent') \in Nat /\ Len(sent) <= Len(sent')
        BY <1>1, <3>2
      <3>4. \A n \in 1 .. Len(sent) + 1 : n <= turn[m] => n \in 1 .. Len(sent)
        BY <1>1, <1>3
      <3>5. ASSUME NEW id
            PROVE  (\E n \in AllHeard(id)' : n <= turn[m]) <=> \E n \in AllHeard(id) : n <= turn[m]
        BY <3>2, <3>4
      <3> QED BY <3>3, <3>5
    <2> QED BY <2>1, <2>2
  <1>5. turn'[m] <= Len(sent')
    BY <1>1, <1>3, <1>4
  <1>6. m \in ran <=> \A id \in ToSet(own[m]) : Delegate(id).required =>
                         \E n \in AllHeard(id) : n <= turn[m]
    BY DEF JustRun
  <1>7. m \in ran' <=> \A id \in ToSet(own'[m]) : Delegate(id)'.required =>
                          \E n \in AllHeard(id)' : n <= turn'[m]
    BY <1>2, <1>4, <1>6
  <1> QED BY <1>5, <1>7 DEF JustRun

\* The turn of a module, which is skipped or entered.
LEMMA EventTurn ==
  ASSUME ListInv, RegInv, EventInv, SkipModule \/ EnterModule
  PROVE  EventInv'
  <1> DEFINE c == modules[at]
  <1>1. /\ phase = "event" /\ phase' = phase /\ at <= Len(modules) /\ inside = FALSE
        /\ turn' = [turn EXCEPT ![c] = Len(sent)]
        /\ UNCHANGED <<binds, box, sent, own, location, modules>>
    BY DEF SkipModule, EnterModule, TakeTurn, Current, Setup, listVars, registryVars, localVars, EventInv
  <1>2. /\ box \in Boxes /\ sent \in Seq(Messages) /\ turn \in [Modules -> Nat]
        /\ at \in 1 .. Len(modules) + 1 /\ \A id \in DOMAIN location : Reads(id)
        /\ \A i \in DOMAIN modules : IF Turned(i) THEN JustRun(modules[i]) ELSE modules[i] \notin ran
    BY <1>1 DEF EventInv
  <1>3. /\ modules \in Seq(Modules) /\ Len(modules) \in Nat /\ DOMAIN modules = 1 .. Len(modules)
        /\ \A i \in DOMAIN modules : modules[i] \in Modules
    <2>1. modules \in Seq(Modules)
      BY DEF ListInv
    <2> QED BY <2>1, LenProperties, ElementOfSeq
  <1>4. at \in DOMAIN modules /\ c \in Modules /\ at \in Nat
    BY <1>1, <1>2, <1>3
  <1>5. \A i, j \in DOMAIN modules : modules[i] = modules[j] => i = j
    BY DEF ListInv
  <1>6. Len(sent) \in Nat /\ DOMAIN sent = 1 .. Len(sent)
    BY <1>2, LenProperties
  <1>7. /\ turn' \in [Modules -> Nat] /\ turn'[c] = Len(sent)
        /\ \A m \in Modules : m # c => turn'[m] = turn[m]
    BY <1>1, <1>2, <1>4, <1>6
  <1>8. c \notin ran
    <2>1. ~Turned(at)
      BY <1>1, <1>4 DEF Turned
    <2> QED BY <1>2, <1>4, <2>1
  <1>9. \A id \in DOMAIN location' : Reads(id)'
    BY <1>1, <1>2, ReadsKept
  <1>10. c \in ran' <=> CheckDelegates(c)
    BY <1>8 DEF SkipModule, EnterModule, Current
  <1>11. \A m : m # c => (m \in ran' <=> m \in ran)
    BY DEF SkipModule, EnterModule, Current
  <1>12. /\ at' \in 1 .. Len(modules) + 1 /\ inside' \in BOOLEAN /\ (inside' => at' <= Len(modules))
         /\ \A i \in DOMAIN modules : Turned(i)' <=> i <= at
    <2>1. CASE SkipModule
      <3>1. at' = at + 1 /\ inside' = FALSE
        BY <1>1, <2>1 DEF SkipModule
      <3>2. \A i \in DOMAIN modules : Turned(i)' <=> i < at + 1
        BY <1>3, <3>1 DEF Turned
      <3>3. \A i \in DOMAIN modules : i < at + 1 <=> i <= at
        BY <1>3, <1>4
      <3>4. at' \in 1 .. Len(modules) + 1
        <4>1. at' = at + 1
          BY <3>1
        <4> QED BY <1>3, <1>4, <4>1
      <3>5. inside' = FALSE
        BY <3>1
      <3> QED BY <3>2, <3>3, <3>4, <3>5
    <2>2. CASE EnterModule
      <3>1. at' = at /\ inside' = TRUE
        BY <2>2 DEF EnterModule
      <3> QED BY <1>1, <1>2, <1>3, <3>1 DEF Turned
    <2> QED BY <2>1, <2>2
  <1>13. \A m : m = c => JustRun(m)'
    <2> SUFFICES ASSUME NEW m, m = c PROVE JustRun(m)'
      OBVIOUS
    <2>1. turn'[m] = Len(sent) /\ sent' = sent /\ own' = own /\ binds' = binds
      BY <1>1, <1>7
    <2>4. \A id : Delegate(id)' = Delegate(id) /\ AllHeard(id)' = AllHeard(id)
      BY <2>1 DEF Delegate, AllHeard, Heard
    <2>5. \A id : \A n \in AllHeard(id) : n <= Len(sent)
      BY <1>6 DEF AllHeard
    <2>6. m \in ran' <=> \A id \in ToSet(own[m]) : Delegate(id).required => AllHeard(id) # {}
      BY <1>2, <1>4, <1>10, Checked
    <2>7. \A id : AllHeard(id) # {} <=> \E n \in AllHeard(id) : n <= turn'[m]
      BY <2>1, <2>5
    <2>2. m \in ran' <=> \A id \in ToSet(own'[m]) : Delegate(id)'.required =>
                            \E n \in AllHeard(id)' : n <= turn'[m]
      BY <2>1, <2>4, <2>6, <2>7
    <2>3. turn'[m] <= Len(sent')
      BY <1>6, <2>1
    <2> HIDE DEF c
    <2> QED BY <2>2, <2>3 DEF JustRun
  <1>14. ASSUME NEW i \in DOMAIN modules'
         PROVE  IF Turned(i)' THEN JustRun(modules[i])' ELSE modules'[i] \notin ran'
    <2>0. i \in DOMAIN modules /\ i \in Nat /\ modules[i] \in Modules
      BY <1>1, <1>3
    <2>1. CASE i = at
      <3>1. Turned(i)'
        BY <1>4, <1>12, <2>0, <2>1
      <3>2. \A m : m = modules[i] => JustRun(m)'
        BY <1>13, <2>1
      <3>3. JustRun(modules[i])'
        BY <1>1, <3>2 DEF JustRun
      <3> QED BY <3>1, <3>3
    <2>2. CASE i # at
      <3>1. modules[i] # c
        BY <1>4, <1>5, <2>0, <2>2
      <3>2. Turned(i)' <=> Turned(i)
        <4>1. Turned(i) <=> i < at
          BY <1>1, <2>2 DEF Turned
        <4>2. Turned(i)' <=> i <= at
          BY <1>12, <2>0
        <4> QED BY <1>4, <2>0, <2>2, <4>1, <4>2
      <3>3. CASE Turned(i)
        <4>1. JustRun(modules[i])
          BY <1>2, <2>0, <3>3
        <4>2. ASSUME NEW m, m = modules[i] PROVE JustRun(m)'
          <5>1. JustRun(m)
            BY <4>1, <4>2
          <5>2. turn'[m] = turn[m] /\ turn[m] \in Nat /\ (m \in ran' <=> m \in ran)
            BY <1>2, <1>7, <1>11, <2>0, <3>1, <4>2
          <5>3. binds' = binds /\ own' = own /\ sent' = sent /\ sent \in Seq(Messages)
            BY <1>1, <1>2
          <5> QED BY <5>1, <5>2, <5>3, JustRunKept
        <4>3. JustRun(modules[i])'
          BY <1>1, <4>2 DEF JustRun
        <4> QED BY <3>2, <3>3, <4>3
      <3>4. CASE ~Turned(i)
        BY <1>1, <1>2, <1>11, <2>0, <3>1, <3>2, <3>4
      <3> QED BY <3>3, <3>4
    <2> QED BY <2>1, <2>2
  <1> HIDE DEF c
  <1> QED BY <1>1, <1>2, <1>7, <1>9, <1>12, <1>14 DEF EventInv

\* A message is dispatched, and no receiver throws.
LEMMA EventSent ==
  ASSUME ListInv, RegInv, EventInv, DispatchMessage
  PROVE  EventInv'
  <1> SUFFICES ASSUME phase' = "event" PROVE EventInv'
    <2>1. phase = "event" /\ (phase' = "event" \/ phase' = "destroy")
      BY DEF DispatchMessage
    <2> QED BY <2>1 DEF EventInv
  <1> DEFINE c == modules[at]
  <1>1. /\ phase = "event" /\ inside /\ sent' # sent
        /\ UNCHANGED <<binds, own, location, modules, at, inside, ran, turn>>
    BY DEF DispatchMessage, Setup, listVars, registryVars, runVars
  <1>2. /\ box \in Boxes /\ sent \in Seq(Messages) /\ turn \in [Modules -> Nat]
        /\ at \in 1 .. Len(modules) + 1 /\ inside \in BOOLEAN /\ (inside => at <= Len(modules))
        /\ \A id \in DOMAIN location : Reads(id)
        /\ \A i \in DOMAIN modules : IF Turned(i) THEN JustRun(modules[i]) ELSE modules[i] \notin ran
    BY <1>1 DEF EventInv
  <1>3. /\ modules \in Seq(Modules) /\ Len(modules) \in Nat /\ DOMAIN modules = 1 .. Len(modules)
        /\ \A i \in DOMAIN modules : modules[i] \in Modules
    <2>1. modules \in Seq(Modules)
      BY DEF ListInv
    <2> QED BY <2>1, LenProperties, ElementOfSeq
  <1>4. c \in Modules
    BY <1>1, <1>2, <1>3
  <1>5. PICK type \in MessageTypes, detector \in Detectors \cup {NoDetector}, name \in Names :
          Dispatch(c, type, detector, name)
    BY DEF DispatchMessage, Current
  <1> DEFINE rs == Receivers(c, type, detector, name)
  <1>6. PICK rejected \in SUBSET {id \in ToSet(rs) : Delegate(id).kind = "filter"} :
          /\ box' = Deliver(rs, Len(sent) + 1, rejected).box
          /\ sent' = IF Deliver(rs, Len(sent) + 1, rejected).thrown THEN sent
                     ELSE Append(sent, [source |-> c, type |-> type, detector |-> detector,
                                        name |-> name, rejected |-> rejected])
    BY <1>5 DEF Dispatch
  <1> DEFINE message == [source |-> c, type |-> type, detector |-> detector, name |-> name,
                         rejected |-> rejected]
             d == Deliver(rs, Len(sent) + 1, rejected)
  <1>7. Bound /\ Registered
    BY DEF RegInv
  <1>8. /\ message.source = c /\ message.type = type /\ message.detector = detector
        /\ message.name = name /\ message.rejected = rejected
    OBVIOUS
  <1> HIDE DEF c
  <1>9. ~d.thrown /\ sent' = Append(sent, message) /\ box' = d.box
    BY <1>1, <1>6
  <1>10. message \in [source : {c}, type : MessageTypes, detector : Detectors \cup {NoDetector},
                      name : Names, rejected : {rejected}]
    OBVIOUS
  <1> HIDE DEF d, message
  <1>11. rs \in Seq(Modules \X Nat) /\ IsInjective(rs)
         /\ ToSet(rs) = {id \in DOMAIN location : Heard(id, message)}
    BY <1>7, <1>8, ReceiversExact
  <1> HIDE DEF rs
  <1>12. /\ \A id \in DOMAIN location :
              /\ id \in Modules \X Nat /\ Delegate(id) \in Delegates /\ Slot(id) \in Modules \X AllTypes
              /\ \A other \in DOMAIN location : Slot(other) = Slot(id) => other = id
    BY <1>7, RegisteredId
  <1>13. \A id \in ToSet(rs) : id \in DOMAIN location
    BY <1>11
  <1>14. message \in Messages
    <2>1. rejected \in SUBSET (Modules \X Nat)
      BY <1>12, <1>13
    <2> QED BY <1>4, <1>10, <2>1 DEF Messages
  <1>15. Len(sent) \in Nat /\ Len(sent) + 1 \in Nat
    <2>1. Len(sent) \in Nat
      BY <1>2, LenProperties
    <2> QED BY <2>1
  <1>16. /\ d \in [box : Boxes, thrown : BOOLEAN]
         /\ d.box.present = box.present \cup {Slot(id) : id \in ToSet(rs)}
         /\ \A id \in ToSet(rs) : Came(box, d.box, id, Len(sent) + 1, rejected)
         /\ \A slot \in Modules \X AllTypes :
              (\A id \in ToSet(rs) : slot # Slot(id)) => Same(box, d.box, slot)
    <2>1. \A id \in ToSet(rs) : Delegate(id) \in Delegates /\ Slot(id) \in Modules \X AllTypes
      BY <1>12, <1>13
    <2>2. \A x, y \in ToSet(rs) : Slot(x) = Slot(y) => x = y
      BY <1>12, <1>13
    <2> DEFINE number == Len(sent) + 1
    <2>3. number \in Nat
      BY <1>15
    <2> HIDE DEF number
    <2>4. LET e == Deliver(rs, number, rejected)
          IN /\ e \in [box : Boxes, thrown : BOOLEAN]
             /\ ~e.thrown =>
                  /\ e.box.present = box.present \cup {Slot(id) : id \in ToSet(rs)}
                  /\ \A id \in ToSet(rs) : Came(box, e.box, id, number, rejected)
                  /\ \A slot \in Modules \X AllTypes :
                       (\A id \in ToSet(rs) : slot # Slot(id)) => Same(box, e.box, slot)
      BY <1>2, <1>11, <2>1, <2>2, <2>3, DeliverExact
    <2>5. d = Deliver(rs, number, rejected)
      BY DEF d, number
    <2> QED BY <1>9, <2>4, <2>5 DEF number
  <1>17. ASSUME NEW id \in DOMAIN location PROVE Reads(id)'
    <2>1. Delegate(id) \in Delegates /\ Slot(id) \in Modules \X AllTypes /\ Reads(id)
      BY <1>2, <1>12
    <2>2. Heard(id, message) => /\ Slot(id) \in box'.present
                                /\ Came(box, box', id, Len(sent) + 1, message.rejected)
      BY <1>8, <1>9, <1>11, <1>16
    <2>3. ASSUME ~Heard(id, message)
          PROVE  /\ Slot(id) \in box'.present <=> Slot(id) \in box.present
                 /\ Same(box, box', Slot(id))
      <3>1. \A other \in ToSet(rs) : Slot(id) # Slot(other)
        BY <1>11, <1>12, <1>13, <2>3
      <3>2. Same(box, box', Slot(id))
        BY <1>9, <1>16, <2>1, <3>1
      <3>3. Slot(id) \in box'.present <=> Slot(id) \in box.present
        BY <1>9, <1>16, <3>1
      <3> QED BY <3>2, <3>3
    <2>4. box' \in Boxes /\ binds' = binds
      BY <1>1, <1>9, <1>16
    <2> QED BY <1>2, <1>9, <1>14, <2>1, <2>2, <2>3, <2>4, ReadsOn
  <1>18. ASSUME NEW i \in DOMAIN modules'
         PROVE  IF Turned(i)' THEN JustRun(modules[i])' ELSE modules'[i] \notin ran'
    <2>1. i \in DOMAIN modules /\ modules[i] \in Modules /\ (Turned(i)' <=> Turned(i))
      BY <1>1, <1>3 DEF Turned
    <2>2. ASSUME Turned(i) PROVE JustRun(modules[i])'
      <3>1. ASSUME NEW m, m = modules[i] PROVE JustRun(m)'
        <4>1. JustRun(m) /\ turn[m] \in Nat
          BY <1>2, <2>1, <2>2, <3>1
        <4>2. own' = own /\ binds' = binds /\ turn'[m] = turn[m] /\ (m \in ran' <=> m \in ran)
          BY <1>1
        <4>3. \E x \in Messages : sent' = Append(sent, x)
          BY <1>9, <1>14
        <4> QED BY <1>2, <4>1, <4>2, <4>3, JustRunKept
      <3> QED BY <1>1, <3>1 DEF JustRun
    <2> QED BY <1>1, <1>2, <2>1, <2>2
  <1>19. sent' \in Seq(Messages)
    BY <1>2, <1>9, <1>14, AppendProperties
  <1>20. box' \in Boxes
    BY <1>9, <1>16
  <1>21. \A id \in DOMAIN location' : Reads(id)'
    BY <1>1, <1>17
  <1> QED BY <1>1, <1>2, <1>18, <1>19, <1>20, <1>21 DEF EventInv

\* The end of run() ends the turn of the module.
LEMMA EventLeft ==
  ASSUME ListInv, EventInv, LeaveModule
  PROVE  EventInv'
  <1>1. /\ phase = "event" /\ phase' = phase /\ inside /\ inside' = FALSE /\ at' = at + 1
        /\ UNCHANGED <<binds, own, location, modules, ran, turn, box, sent>>
    BY DEF LeaveModule, Setup, listVars, registryVars, localVars
  <1>2. /\ box \in Boxes /\ sent \in Seq(Messages) /\ turn \in [Modules -> Nat]
        /\ at \in 1 .. Len(modules) + 1 /\ at <= Len(modules)
        /\ \A id \in DOMAIN location : Reads(id)
        /\ \A i \in DOMAIN modules : IF Turned(i) THEN JustRun(modules[i]) ELSE modules[i] \notin ran
    BY <1>1 DEF EventInv
  <1>3. Len(modules) \in Nat /\ DOMAIN modules = 1 .. Len(modules)
    <2>1. modules \in Seq(Modules)
      BY DEF ListInv
    <2> QED BY <2>1, LenProperties
  <1>4. at' \in 1 .. Len(modules) + 1
    BY <1>1, <1>2, <1>3
  <1>5. ASSUME NEW i \in DOMAIN modules PROVE Turned(i)' <=> Turned(i)
    <2>1. i \in Nat /\ at \in Nat
      BY <1>2, <1>3
    <2>2. Turned(i)' <=> i < at + 1
      BY <1>1 DEF Turned
    <2>3. Turned(i) <=> i < at \/ i = at
      BY <1>1 DEF Turned
    <2> QED BY <2>1, <2>2, <2>3
  <1>6. \A id \in DOMAIN location' : Reads(id)'
    BY <1>1, <1>2, ReadsKept
  <1>7. ASSUME NEW i \in DOMAIN modules'
        PROVE  IF Turned(i)' THEN JustRun(modules[i])' ELSE modules'[i] \notin ran'
    <2>1. i \in DOMAIN modules /\ (Turned(i)' <=> Turned(i))
      BY <1>1, <1>5
    <2>2. \A m : JustRun(m)' <=> JustRun(m)
      <3>1. \A id : Delegate(id)' = Delegate(id) /\ AllHeard(id)' = AllHeard(id)
        BY <1>1 DEF Delegate, AllHeard, Heard
      <3> QED BY <1>1, <3>1 DEF JustRun
    <2>3. ASSUME Turned(i) PROVE JustRun(modules[i])'
      <3>1. ASSUME NEW m, m = modules[i] PROVE JustRun(m)'
        BY <1>2, <2>1, <2>2, <2>3, <3>1
      <3> QED BY <1>1, <3>1 DEF JustRun
    <2> QED BY <1>1, <1>2, <2>1, <2>3
  <1> QED BY <1>1, <1>2, <1>4, <1>6, <1>7 DEF EventInv

\* All instances are placed: the event begins with empty boxes.
LEMMA EventBegins ==
  ASSUME ListInv, RegInv, EventInv, Loaded
  PROVE  EventInv'
  <1>1. /\ phase = "load" /\ phase' = "event"
        /\ UNCHANGED <<binds, box, sent, location, modules, at, inside, ran, turn>>
    BY DEF Loaded, Setup, listVars, registryVars, runVars, localVars
  <1>2. /\ box = EmptyBox /\ sent = <<>> /\ at = 1 /\ inside = FALSE
        /\ ran = {} /\ turn = [m \in Modules |-> 0]
    BY <1>1 DEF EventInv
  <1>3. \A id \in DOMAIN location : Slot(id) \in Modules \X AllTypes
    BY RegisteredId DEF RegInv
  <1>4. \A id \in DOMAIN location : Reads(id)
    BY <1>2, <1>3, ReadsNothing
  <1>5. box \in Boxes
    BY <1>2 DEF EmptyBox, Boxes
  <1>6. \A id \in DOMAIN location' : Reads(id)'
    BY <1>1, <1>4, ReadsKept
  <1>7. Len(modules) \in Nat /\ DOMAIN modules = 1 .. Len(modules)
    <2>1. modules \in Seq(Modules)
      BY DEF ListInv
    <2> QED BY <2>1, LenProperties
  <1>8. \A i \in DOMAIN modules : ~Turned(i)'
    BY <1>1, <1>2, <1>7 DEF Turned
  <1>9. turn' \in [Modules -> Nat] /\ sent' \in Seq(Messages) /\ at' \in 1 .. Len(modules') + 1
    BY <1>1, <1>2, <1>7
  <1>10. \A i \in DOMAIN modules' : ~Turned(i)' /\ modules'[i] \notin ran'
    BY <1>1, <1>2, <1>8
  <1>11. inside' = FALSE /\ box' \in Boxes
    BY <1>1, <1>2, <1>5
  <1> QED BY <1>1, <1>6, <1>9, <1>10, <1>11 DEF EventInv

\* Nothing else concerns the event.
LEMMA EventKept ==
  ASSUME EventInv, UNCHANGED <<runVars, localVars>>, (phase = "load" /\ phase' = "load") \/ phase' \in {"destroy", "over"}
  PROVE  EventInv'
  BY DEF EventInv, runVars, localVars

LEMMA EventStep ==
  ASSUME ListInv, RegInv, EventInv, [Next]_vars
  PROVE  EventInv'
  <1>1. CASE \/ AddConfiguration \/ ConfigurationExists \/ Bind \/ Constructed \/ ConstructorThrows
             \/ InvalidState \/ Place \/ PlaceReplacing \/ PlaceDropped
    <2>1. /\ UNCHANGED <<runVars, localVars>>
          /\ (phase = "load" /\ phase' = "load") \/ phase' \in {"destroy", "over"}
      BY <1>1 DEF AddConfiguration, ConfigurationExists, Bind, Constructed, ConstructorThrows, InvalidState,
                  Place, PlaceReplacing, PlaceDropped, Constructing, Placing
    <2> QED BY <2>1, EventKept
  <1>2. CASE Loaded
    BY <1>2, EventBegins
  <1>3. CASE SkipModule \/ EnterModule
    BY <1>3, EventTurn
  <1>4. CASE DispatchMessage
    BY <1>4, EventSent
  <1>5. CASE LeaveModule
    BY <1>5, EventLeft
  <1>6. CASE EventDone \/ DestroyModule \/ AllDestroyed
    <2>1. UNCHANGED <<runVars, localVars>> /\ phase' \in {"destroy", "over"}
      BY <1>6 DEF EventDone, DestroyModule, AllDestroyed
    <2> QED BY <2>1, EventKept
  <1>7. CASE UNCHANGED vars
    <2>1. /\ binds' = binds /\ own' = own /\ location' = location /\ modules' = modules /\ ran' = ran
          /\ turn' = turn /\ box' = box /\ sent' = sent /\ at' = at /\ inside' = inside /\ phase' = phase
      BY <1>7 DEF vars
    <2>2. \A id : Reads(id)' <=> Reads(id)
      BY <2>1, ReadsKept
    <2>3. \A m : JustRun(m)' <=> JustRun(m)
      <3>1. \A id : Delegate(id)' = Delegate(id) /\ AllHeard(id)' = AllHeard(id)
        BY <2>1 DEF Delegate, AllHeard, Heard
      <3> QED BY <2>1, <3>1 DEF JustRun
    <2>4. ASSUME phase = "event", NEW i \in DOMAIN modules'
          PROVE  IF Turned(i)' THEN JustRun(modules[i])' ELSE modules'[i] \notin ran'
      <3>1. i \in DOMAIN modules /\ (Turned(i)' <=> Turned(i))
        BY <2>1, <2>4 DEF Turned
      <3>2. IF Turned(i) THEN JustRun(modules[i]) ELSE modules[i] \notin ran
        BY <2>4, <3>1 DEF EventInv
      <3>3. ASSUME Turned(i) PROVE JustRun(modules[i])'
        <4>1. ASSUME NEW m, m = modules[i] PROVE JustRun(m)'
          BY <2>3, <3>2, <3>3, <4>1
        <4> QED BY <2>1, <4>1 DEF JustRun
      <3> QED BY <2>1, <3>1, <3>2, <3>3
    <2>5. \A id \in DOMAIN location' : phase = "event" => Reads(id)'
      BY <2>1, <2>2 DEF EventInv
    <2> QED BY <2>1, <2>4, <2>5 DEF EventInv
  <1> QED BY <1>1, <1>2, <1>3, <1>4, <1>5, <1>6, <1>7 DEF Next

LEMMA EventInvariant == Spec => [](ListInv /\ RegInv /\ EventInv)
  <1>1. Init => EventInv
    BY DEF Init, MessengerInit, EventInv
  <1>2. Spec => [](ListInv /\ RegInv)
    BY RegInvariant
  <1>3. ListInv /\ RegInv /\ EventInv /\ [Next]_vars => EventInv'
    BY EventStep
  <1> QED BY <1>1, <1>2, <1>3, PTL DEF Spec

\* A module that was passed over or has run did so by what had been sent by then.
THEOREM RequiredBeforeRunHolds == Spec => []RequiredBeforeRun
  <1>1. ListInv /\ RegInv /\ EventInv => RequiredBeforeRun
    <2> SUFFICES ASSUME ListInv, RegInv, EventInv, phase = "event", NEW i \in 1 .. at - 1
                 PROVE  modules[i] \in ran <=>
                          \A k \in DOMAIN own[modules[i]] : Delegate(own[modules[i]][k]).required =>
                             \E n \in 1 .. turn[modules[i]] : Heard(own[modules[i]][k], sent[n])
      BY DEF RequiredBeforeRun
    <2> DEFINE m == modules[i]
    <2>1. /\ sent \in Seq(Messages) /\ turn \in [Modules -> Nat] /\ at \in 1 .. Len(modules) + 1
          /\ \A j \in DOMAIN modules : IF Turned(j) THEN JustRun(modules[j]) ELSE modules[j] \notin ran
      BY DEF EventInv
    <2>2. /\ Len(modules) \in Nat /\ DOMAIN modules = 1 .. Len(modules)
          /\ \A j \in DOMAIN modules : modules[j] \in Modules
      <3>1. modules \in Seq(Modules)
        BY DEF ListInv
      <3> QED BY <3>1, LenProperties, ElementOfSeq
    <2>3. i \in DOMAIN modules /\ Turned(i)
      BY <2>1, <2>2 DEF Turned
    <2>4. JustRun(m) /\ turn[m] \in Nat
      BY <2>1, <2>2, <2>3
    <2>5. Len(sent) \in Nat /\ DOMAIN sent = 1 .. Len(sent)
      BY <2>1, LenProperties
    <2> HIDE DEF m
    <2>6. turn[m] <= Len(sent)
      BY <2>4 DEF JustRun
    <2>7. \A n : n \in DOMAIN sent /\ n <= turn[m] <=> n \in 1 .. turn[m]
      BY <2>4, <2>5, <2>6
    <2>8. \A id : (\E n \in AllHeard(id) : n <= turn[m]) <=> \E n \in 1 .. turn[m] : Heard(id, sent[n])
      BY <2>7 DEF AllHeard
    <2>9. m \in ran <=> \A id \in ToSet(own[m]) : Delegate(id).required =>
                          \E n \in 1 .. turn[m] : Heard(id, sent[n])
      BY <2>4, <2>8 DEF JustRun
    <2>10. ToSet(own[m]) = {own[m][k] : k \in DOMAIN own[m]}
      BY DEF ToSet
    <2> QED BY <2>9, <2>10 DEF m
  <1> QED BY <1>1, EventInvariant, PTL

\* Every module finds each message that is meant for it, once and in the order of
\* the dispatch, whichever way it binds them and however many listen.
THEOREM MessagesTrueHolds == Spec => []MessagesTrue
  <1>1. ListInv /\ RegInv /\ EventInv => MessagesTrue
    <2> SUFFICES ASSUME ListInv, RegInv, EventInv, phase = "event", NEW m \in ToSet(modules),
                        NEW i \in DOMAIN own[m]
                 PROVE  LET id == own[m][i]
                            place == <<m, Delegate(id).type>>
                        IN /\ Delegate(id).kind = "multi" => box.multi[place] = HeardBy(id)
                           /\ Delegate(id).kind = "filter" =>
                                box.filtered[place] =
                                  Picked([n \in DOMAIN sent |-> n],
                                         {n \in AllHeard(id) : id \notin sent[n].rejected})
                           /\ Delegate(id).kind = "single" =>
                                /\ ~Delegate(id).overwrite => Len(HeardBy(id)) <= 1
                                /\ box.single[place] = IF HeardBy(id) = <<>> THEN 0 ELSE Last(HeardBy(id))
      BY DEF MessagesTrue, ReceivedInOrder, SingleUnambiguous
    <2> DEFINE id == own[m][i]
    <2>1. m \in Modules
      <3>1. modules \in Seq(Modules)
        BY DEF ListInv
      <3> QED BY <3>1, ElementOfSeq DEF ToSet
    <2>2. id = <<m, i>> /\ id \in DOMAIN location
      <3>1. Registered
        BY DEF RegInv
      <3>2. id = <<m, i>>
        BY <2>1, <3>1 DEF Registered
      <3> HIDE DEF id
      <3> QED BY <2>1, <3>1, <3>2, InDomain
    <2> HIDE DEF id
    <2>3. Slot(id) = <<m, Delegate(id).type>>
      BY <2>2 DEF Slot
    <2>4. Reads(id)
      BY <2>2 DEF EventInv
    <2> QED BY <2>3, <2>4 DEF Reads, id
  <1> QED BY <1>1, EventInvariant, PTL

\* hasReceiver() foretells what a dispatch would do now, but for the listeners to
\* unnamed messages.
THEOREM HasReceiverAgreesHolds == Spec => []HasReceiverAgrees
  <1>1. ListInv /\ RegInv /\ EventInv => HasReceiverAgrees
    <2> SUFFICES ASSUME ListInv, RegInv, EventInv, NEW type \in MessageTypes,
                        NEW detector \in Detectors \cup {NoDetector}, NEW name \in Names
                 PROVE  HasReceiver(Current, type, detector, name) <=>
                          \E id \in ToSet(Receivers(Current, type, detector, name)) :
                             Delegate(id).name # "unnamed"
      BY DEF HasReceiverAgrees
    <2> DEFINE c == Current
    <2>1. Bound /\ Registered
      BY DEF RegInv
    <2>2. "*" \notin Names /\ "?" \notin Names
      BY MessengerAssumption
    <2>3. ToSet(Receivers(c, type, detector, name)) =
            {id \in DOMAIN location : /\ location[id] \in {type, "BaseMessage"} \X Keys(name)
                                      /\ CheckSend(c, detector, id)}
      <3> HIDE DEF c
      <3> QED BY <2>1, ReceiversListening
    <2> HIDE DEF c
    <2>4. HasReceiver(c, type, detector, name) <=>
            \E id \in DOMAIN location : /\ location[id] \in {type, "BaseMessage"} \X {name, "*"}
                                        /\ CheckSend(c, detector, id)
      <3>1. \A listened \in {type, "BaseMessage"}, key \in {name, "*"} : <<listened, key>> \in Places
        BY DEF Places, AllTypes
      <3>2. \A place \in Places : ToSet(listeners[place]) = {id \in DOMAIN location : location[id] = place}
        BY <2>1 DEF Registered
      <3>3. \A listened \in {type, "BaseMessage"}, key \in {name, "*"} : \A id :
              id \in ToSet(listeners[<<listened, key>>]) <=>
                id \in DOMAIN location /\ location[id] = <<listened, key>>
        BY <3>1, <3>2
      <3> QED BY <3>3 DEF HasReceiver
    <2>5. ASSUME NEW id \in DOMAIN location
          PROVE  location[id] \in {type, "BaseMessage"} \X {name, "*"} <=>
                   /\ location[id] \in {type, "BaseMessage"} \X Keys(name)
                   /\ Delegate(id).name # "unnamed"
      <3>1. /\ location[id] = <<Delegate(id).type, ListensTo(id)>> /\ Delegate(id) \in Delegates
            /\ Input[id[1]] \in Names \cup {"*"}
        BY <2>1, RegisteredId DEF PlaceOf
      <3>2. Delegate(id).name \in {"input", "ignore", "unnamed"}
        BY <3>1 DEF Delegates
      <3>3. ListensTo(id) \in {name, "*"} <=> ListensTo(id) \in Keys(name) /\ Delegate(id).name # "unnamed"
        <4>1. CASE Delegate(id).name = "ignore"
          BY <4>1 DEF ListensTo, Keys
        <4>2. CASE Delegate(id).name = "unnamed"
          <5>1. ListensTo(id) = "?"
            BY <4>2 DEF ListensTo
          <5> QED BY <2>2, <4>2, <5>1
        <4>3. CASE Delegate(id).name = "input"
          <5>1. ListensTo(id) = Input[id[1]]
            BY <4>3 DEF ListensTo
          <5>2. Input[id[1]] # "?"
            BY <2>2, <3>1
          <5> QED BY <4>3, <5>1, <5>2 DEF Keys
        <4> QED BY <3>2, <4>1, <4>2, <4>3
      <3> QED BY <3>1, <3>3
    <2>6. HasReceiver(c, type, detector, name) <=>
            \E id \in ToSet(Receivers(c, type, detector, name)) : Delegate(id).name # "unnamed"
      BY <2>3, <2>4, <2>5
    <2> QED BY <2>6 DEF c
  <1> QED BY <1>1, EventInvariant, PTL
=============================================================================
