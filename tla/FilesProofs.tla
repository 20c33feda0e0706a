----------------------------- MODULE FilesProofs -----------------------------
(***************************************************************************)
(* The safety properties of the modules that read and write files:         *)
(* ObjectStore, for any number of events, any contents and filters, and    *)
(* any number of events alive at a time, and InputReaders, for any files   *)
(* and any number of events.                                               *)
(***************************************************************************)
EXTENDS ObjectStore, InputReaders, FiniteSetTheorems, SequenceTheorems, WellFoundedInduction, TLAPS

-----------------------------------------------------------------------------
(* Sequences that are concatenated and selected.                           *)

LEMMA LeastNat ==
  ASSUME NEW S, S \subseteq Nat, S # {}
  PROVE  \E x \in S : \A y \in S : x <= y
<1>1. PICK x \in S : \A y \in S : ~(<<y, x>> \in OpToRel(<, Nat))
  BY NatLessThanWellFounded, WFMin
<1>2. \A y \in S : <<y, x>> \notin OpToRel(<, Nat) => x <= y
  BY DEF OpToRel
<1> QED BY <1>1, <1>2

\* Min of the community modules is that element.
LEMMA MinNat ==
  ASSUME NEW S, S \subseteq Nat, S # {}
  PROVE  Min(S) \in S /\ \A y \in S : Min(S) <= y
<1>1. \E x \in S : \A y \in S : x <= y
  BY LeastNat
<1> QED BY <1>1 DEF Min

\* f[i] is the concatenation of the first i sequences.
Flattens(f, ss, n) ==
    f = [i \in 1 .. n |-> IF i = 1 THEN ss[i] ELSE f[i - 1] \o ss[i]]

LEMMA FlattensExists ==
  ASSUME NEW ss, NEW n \in Nat
  PROVE  \E f : Flattens(f, ss, n)
<1> DEFINE bad == {k \in Nat : ~\E f : Flattens(f, ss, k)}
<1>1. bad = {}
  <2> SUFFICES ASSUME bad # {} PROVE FALSE
    OBVIOUS
  <2>0. bad \subseteq Nat
    OBVIOUS
  <2>1. PICK k \in bad : \A l \in bad : k <= l
    <3> HIDE DEF bad
    <3> QED BY <2>0, LeastNat
  <2>2. k # 0
    <3>1. Flattens(<<>>, ss, 0)
      BY DEF Flattens
    <3> QED BY <2>1, <3>1
  <2> DEFINE p == k - 1
  <2>3. p \in Nat /\ p < k /\ p + 1 = k
    BY <2>1, <2>2
  <2>4. p \notin bad
    <3> HIDE DEF bad, p
    <3> QED BY <2>0, <2>1, <2>3
  <2>5. PICK f : Flattens(f, ss, p)
    <3> HIDE DEF p
    <3> QED BY <2>3, <2>4
  <2> DEFINE new(i) == IF i = 1 THEN ss[i] ELSE f[i - 1] \o ss[i]
             g == [i \in 1 .. k |-> new(i)]
  <2>6. \A i \in 1 .. p : f[i] = new(i)
    BY <2>5 DEF Flattens
  <2>7. \A i \in 1 .. k : i # 1 => g[i - 1] = f[i - 1]
    <3> TAKE i \in 1 .. k
    <3>1. i # 1 => i - 1 \in 1 .. p /\ i - 1 \in 1 .. k
      BY <2>1, <2>3
    <3> HIDE DEF new
    <3> QED BY <2>6, <3>1
  <2>8. \A i \in 1 .. k : new(i) = IF i = 1 THEN ss[i] ELSE g[i - 1] \o ss[i]
    <3> HIDE DEF g
    <3> QED BY <2>7
  <2>9. Flattens(g, ss, k)
    BY <2>8 DEF Flattens
  <2> QED BY <2>1, <2>9
<1> QED BY <1>1

\* What holds of the first part, and of a part if it does of that before, holds of all.
LEMMA Stepwise ==
  ASSUME NEW n \in Nat, NEW P, 1 \in P,
         \A i \in 1 .. n : i # 1 /\ i - 1 \in P => i \in P
  PROVE  1 .. n \subseteq P
<1> DEFINE bad == {i \in 1 .. n : i \notin P}
<1> SUFFICES ASSUME bad # {} PROVE FALSE
  OBVIOUS
<1>1. bad \subseteq Nat
  OBVIOUS
<1>2. PICK k \in bad : \A l \in bad : k <= l
  <2> HIDE DEF bad
  <2> QED BY <1>1, LeastNat
<1>3. k \in 1 .. n /\ k # 1 /\ k - 1 \notin P
  BY <1>2
<1>4. k - 1 \in bad
  BY <1>3
<1>5. k - 1 < k
  BY <1>3
<1> HIDE DEF bad
<1> QED BY <1>1, <1>2, <1>3, <1>4, <1>5

\* The range of a concatenation.
LEMMA ConcatRange ==
  ASSUME NEW X, NEW s \in Seq(X), NEW t \in Seq(X)
  PROVE  s \o t \in Seq(X) /\ ToSet(s \o t) = ToSet(s) \union ToSet(t)
<1> DEFINE u == s \o t
<1>1. /\ u \in Seq(X) /\ Len(s) \in Nat /\ Len(t) \in Nat
      /\ DOMAIN s = 1 .. Len(s) /\ DOMAIN t = 1 .. Len(t)
      /\ DOMAIN u = 1 .. (Len(s) + Len(t))
      /\ \A k \in 1 .. (Len(s) + Len(t)) : u[k] = IF k <= Len(s) THEN s[k] ELSE t[k - Len(s)]
  OBVIOUS
<1> HIDE DEF u
<1>2. \A x \in ToSet(u) : x \in ToSet(s) \union ToSet(t)
  <2> TAKE x \in ToSet(u)
  <2>1. PICK k \in 1 .. (Len(s) + Len(t)) : x = u[k]
    BY <1>1 DEF ToSet
  <2>2. CASE k <= Len(s)
    <3>1. k \in 1 .. Len(s) /\ x = s[k]
      BY <1>1, <2>1, <2>2
    <3> QED BY <1>1, <3>1 DEF ToSet
  <2>3. CASE ~(k <= Len(s))
    <3>1. k - Len(s) \in 1 .. Len(t) /\ x = t[k - Len(s)]
      BY <1>1, <2>1, <2>3
    <3> QED BY <1>1, <3>1 DEF ToSet
  <2> QED BY <2>2, <2>3
<1>3. \A x \in ToSet(s) : x \in ToSet(u)
  <2> TAKE x \in ToSet(s)
  <2>1. PICK k \in 1 .. Len(s) : x = s[k]
    BY <1>1 DEF ToSet
  <2>2. k \in 1 .. (Len(s) + Len(t)) /\ u[k] = x
    BY <1>1, <2>1
  <2> QED BY <1>1, <2>2 DEF ToSet
<1>4. \A x \in ToSet(t) : x \in ToSet(u)
  <2> TAKE x \in ToSet(t)
  <2>1. PICK k \in 1 .. Len(t) : x = t[k]
    BY <1>1 DEF ToSet
  <2> DEFINE l == k + Len(s)
  <2>2. l \in 1 .. (Len(s) + Len(t)) /\ ~(l <= Len(s)) /\ l - Len(s) = k
    BY <1>1, <2>1
  <2> HIDE DEF l
  <2>3. u[l] = x
    BY <1>1, <2>1, <2>2
  <2> QED BY <1>1, <2>2, <2>3 DEF ToSet
<1> QED BY <1>1, <1>2, <1>3, <1>4 DEF u

\* What FlattenSeq computes, element by element.
LEMMA FlattenSteps ==
  ASSUME NEW X, NEW ss \in Seq(Seq(X)), ss # <<>>
  PROVE  \E F : /\ FlattenSeq(ss) = F[Len(ss)]
                /\ F[1] = ss[1]
                /\ \A i \in 1 .. Len(ss) : i # 1 => F[i] = F[i - 1] \o ss[i]
<1> DEFINE n == Len(ss)
           Solves(f) == f = [i \in 1 .. Len(ss) |-> IF i = 1 THEN ss[i] ELSE f[i - 1] \o ss[i]]
           F == CHOOSE f : Solves(f)
<1>1. n \in Nat /\ n # 0
  OBVIOUS
<1>2. FlattenSeq(ss) = F[n]
  BY <1>1 DEF FlattenSeq
<1>3. \A f : Solves(f) <=> Flattens(f, ss, n)
  BY DEF Flattens
<1>4. \E f : Solves(f)
  BY <1>1, <1>3, FlattensExists
<1>5. Solves(F)
  <2> HIDE DEF Solves
  <2> QED BY <1>4
<1>6. \A i \in 1 .. n : F[i] = IF i = 1 THEN ss[i] ELSE F[i - 1] \o ss[i]
  <2> HIDE DEF F
  <2> QED BY <1>5
<1>7. 1 \in 1 .. n
  BY <1>1
<1> HIDE DEF F
<1> QED BY <1>2, <1>6, <1>7

LEMMA FlattenRange ==
  ASSUME NEW X, NEW ss \in Seq(Seq(X))
  PROVE  /\ FlattenSeq(ss) \in Seq(X)
         /\ ToSet(FlattenSeq(ss)) = UNION {ToSet(ss[i]) : i \in DOMAIN ss}
<1> DEFINE n == Len(ss)
<1>1. /\ n \in Nat /\ DOMAIN ss = 1 .. n /\ \A i \in 1 .. n : ss[i] \in Seq(X)
  OBVIOUS
<1>2. CASE ss = <<>>
  <2>1. FlattenSeq(ss) = <<>>
    BY <1>2 DEF FlattenSeq
  <2>2. ToSet(<<>>) = {} /\ DOMAIN ss = {}
    BY <1>2 DEF ToSet
  <2> QED BY <2>1, <2>2
<1>3. CASE ss # <<>>
  <2>1. PICK F : /\ FlattenSeq(ss) = F[n]
                 /\ F[1] = ss[1]
                 /\ \A i \in 1 .. n : i # 1 => F[i] = F[i - 1] \o ss[i]
    BY <1>3, FlattenSteps
  <2>2. n # 0
    BY <1>3
  <2> HIDE DEF n
  <2> DEFINE U(i) == UNION {ToSet(ss[j]) : j \in 1 .. i}
             P == {i \in 1 .. n : F[i] \in Seq(X) /\ ToSet(F[i]) = U(i)}
  <2>3. 1 \in P
    <3>1. 1 \in 1 .. n /\ 1 .. 1 = {1}
      BY <1>1, <2>2
    <3> QED BY <1>1, <2>1, <3>1
  <2>4. ASSUME NEW i \in 1 .. n, i # 1, i - 1 \in P
        PROVE  i \in P
    <3> DEFINE s == F[i - 1]
               t == ss[i]
    <3>1. F[i] = s \o t /\ s \in Seq(X) /\ t \in Seq(X)
      BY <1>1, <2>1, <2>4
    <3>2. 1 .. i = (1 .. (i - 1)) \union {i}
      BY <1>1, <2>4
    <3>3. U(i) = U(i - 1) \union ToSet(t)
      BY <3>2
    <3>4. ToSet(s) = U(i - 1)
      BY <2>4
    <3> HIDE DEF U, s, t
    <3>5. F[i] \in Seq(X) /\ ToSet(F[i]) = ToSet(s) \union ToSet(t)
      BY <3>1, ConcatRange
    <3> QED BY <3>3, <3>4, <3>5
  <2>5. 1 .. n \subseteq P
    <3> HIDE DEF P
    <3> QED BY <1>1, <2>3, <2>4, Stepwise
  <2>6. n \in 1 .. n
    BY <1>1, <2>2
  <2> QED BY <1>1, <2>1, <2>5, <2>6
<1> QED BY <1>2, <1>3

LEMMA OnlyRange ==
  ASSUME NEW X, NEW s \in Seq(X), NEW S
  PROVE  /\ Only(s, S) \in Seq(X)
         /\ \A x : x \in ToSet(Only(s, S)) <=> x \in ToSet(s) /\ x \in S
<1> DEFINE ss == [i \in DOMAIN s |-> IF s[i] \in S THEN <<s[i]>> ELSE <<>>]
<1>1. DOMAIN s = 1 .. Len(s) /\ Len(s) \in Nat /\ \A i \in 1 .. Len(s) : s[i] \in X
  OBVIOUS
<1>2. \A x \in X : <<x>> \in Seq(X) /\ ToSet(<<x>>) = {x}
  BY DEF ToSet
<1>3. <<>> \in Seq(X) /\ ToSet(<<>>) = {}
  BY DEF ToSet
<1>4. \A i \in 1 .. Len(s) : /\ ss[i] \in Seq(X)
                             /\ ToSet(ss[i]) = IF s[i] \in S THEN {s[i]} ELSE {}
  BY <1>1, <1>2, <1>3
<1>5. ss \in [1 .. Len(s) -> Seq(X)] /\ DOMAIN ss = 1 .. Len(s)
  <2>1. DOMAIN ss = 1 .. Len(s) /\ ss = [i \in 1 .. Len(s) |-> ss[i]]
    BY <1>1
  <2> HIDE DEF ss
  <2> QED BY <1>4, <2>1
<1>6. Only(s, S) = FlattenSeq(ss)
  BY DEF Only
<1> HIDE DEF ss
<1>7. ss \in Seq(Seq(X))
  BY <1>1, <1>5
<1>8. /\ FlattenSeq(ss) \in Seq(X)
      /\ ToSet(FlattenSeq(ss)) = UNION {ToSet(ss[i]) : i \in DOMAIN ss}
  BY <1>7, FlattenRange
<1>9. \A x : x \in ToSet(Only(s, S)) <=> \E i \in 1 .. Len(s) : x = s[i] /\ s[i] \in S
  BY <1>4, <1>5, <1>6, <1>8
<1>10. \A x : x \in ToSet(s) <=> \E i \in 1 .. Len(s) : x = s[i]
  BY <1>1 DEF ToSet
<1>11. Only(s, S) \in Seq(X)
  BY <1>6, <1>8
<1> HIDE DEF Only
<1> QED
  <2>1. ASSUME NEW x
        PROVE  x \in ToSet(Only(s, S)) <=> x \in ToSet(s) /\ x \in S
    BY <1>9, <1>10
  <2> QED BY <1>11, <2>1

\* A finite set is arranged in a sequence of its elements.
LEMMA SetToSeqType ==
  ASSUME NEW S, IsFiniteSet(S)
  PROVE  SetToSeq(S) \in Seq(S)
<1> DEFINE n == Cardinality(S)
<1>1. n \in Nat /\ ExistsBijection(1 .. n, S)
  BY FS_CardinalityType
<1>2. \E f \in [1 .. n -> S] : IsInjective(f)
  BY <1>1 DEF ExistsBijection, Bijection, Injection
<1>3. SetToSeq(S) \in [1 .. n -> S]
  BY <1>2 DEF SetToSeq
<1> HIDE DEF n
<1> QED BY <1>1, <1>3

-----------------------------------------------------------------------------
(* Numbers of the references: different objects have different numbers.    *)

LEMMA FirstIn ==
  ASSUME NEW X, NEW s \in Seq(X), NEW x \in ToSet(s)
  PROVE  First(s, x) \in DOMAIN s /\ s[First(s, x)] = x
<1> DEFINE I == {i \in DOMAIN s : s[i] = x}
<1>1. I \subseteq Nat /\ I # {}
  BY DEF ToSet
<1>2. Min(I) \in I
  <2> HIDE DEF I
  <2> QED BY <1>1, MinNat
<1> QED BY <1>2 DEF First

LEMMA RangeFinite ==
  ASSUME NEW X, NEW s \in Seq(X)
  PROVE  IsFiniteSet(ToSet(s))
<1>1. IsFiniteSet(1 .. Len(s))
  BY FS_Interval
<1>2. s \in Surjection(1 .. Len(s), ToSet(s))
  BY DEF Surjection, ToSet
<1> QED BY <1>1, <1>2, FS_Surjection

\* What is not later in the sequence than x.
Before(s, x) == {t \in ToSet(s) : First(s, t) <= First(s, x)}

LEMMA BeforeSizes ==
  ASSUME NEW X, NEW s \in Seq(X), NEW x \in ToSet(s)
  PROVE  /\ Cardinality(Before(s, x)) \in Nat \ {0}
         /\ \A y \in ToSet(s) :
              First(s, y) < First(s, x) =>
                Cardinality(Before(s, y)) < Cardinality(Before(s, x))
<1>1. IsFiniteSet(ToSet(s))
  BY RangeFinite
<1>2. \A t \in ToSet(s) : First(s, t) \in Nat
  <2> TAKE t \in ToSet(s)
  <2>1. First(s, t) \in DOMAIN s
    BY FirstIn
  <2> QED BY <2>1
<1>3. Before(s, x) \in SUBSET ToSet(s) /\ x \in Before(s, x)
  BY <1>2 DEF Before
<1>4. IsFiniteSet(Before(s, x))
  BY <1>1, <1>3, FS_Subset
<1>5. Cardinality(Before(s, x)) \in Nat \ {0}
  BY <1>3, <1>4, FS_CardinalityType, FS_EmptySet
<1>6. ASSUME NEW y \in ToSet(s), First(s, y) < First(s, x)
      PROVE  Cardinality(Before(s, y)) < Cardinality(Before(s, x))
  <2>1. Before(s, y) \in SUBSET Before(s, x) /\ x \notin Before(s, y)
    BY <1>2, <1>6 DEF Before
  <2>2. /\ IsFiniteSet(Before(s, y))
        /\ Cardinality(Before(s, y)) <= Cardinality(Before(s, x))
        /\ Cardinality(Before(s, x)) = Cardinality(Before(s, y)) => Before(s, x) = Before(s, y)
    BY <1>4, <2>1, FS_Subset
  <2>3. Cardinality(Before(s, y)) \in Nat
    BY <2>2, FS_CardinalityType
  <2>4. Before(s, x) # Before(s, y)
    BY <1>3, <2>1
  <2> QED BY <1>5, <2>2, <2>3, <2>4
<1> QED BY <1>5, <1>6

LEMMA NumberInjective ==
  ASSUME NEW X, NEW s \in Seq(X), NEW x \in ToSet(s)
  PROVE  /\ NumberIn(s, x) \in Nat \ {0}
         /\ \A y : NumberIn(s, y) = NumberIn(s, x) => y = x
<1>1. \A y \in ToSet(s) : NumberIn(s, y) = Cardinality(Before(s, y))
  BY DEF NumberIn, Before
<1>2. NumberIn(s, x) \in Nat \ {0}
  BY <1>1, BeforeSizes
<1>3. ASSUME NEW y, NumberIn(s, y) = NumberIn(s, x)
      PROVE  y = x
  <2>1. y \in ToSet(s)
    BY <1>2, <1>3 DEF NumberIn
  <2>2. /\ First(s, x) \in DOMAIN s /\ s[First(s, x)] = x
        /\ First(s, y) \in DOMAIN s /\ s[First(s, y)] = y
    BY <2>1, FirstIn
  <2>3. First(s, x) \in Nat /\ First(s, y) \in Nat
    BY <2>2
  <2>4. /\ Cardinality(Before(s, x)) \in Nat /\ Cardinality(Before(s, y)) \in Nat
        /\ Cardinality(Before(s, x)) = Cardinality(Before(s, y))
    BY <1>1, <1>3, <2>1, BeforeSizes
  <2>5. ~(First(s, x) < First(s, y)) /\ ~(First(s, y) < First(s, x))
    <3>1. First(s, x) < First(s, y) => Cardinality(Before(s, x)) < Cardinality(Before(s, y))
      BY <2>1, BeforeSizes
    <3>2. First(s, y) < First(s, x) => Cardinality(Before(s, y)) < Cardinality(Before(s, x))
      BY <2>1, BeforeSizes
    <3> QED BY <2>4, <3>1, <3>2
  <2>6. First(s, x) = First(s, y)
    BY <2>3, <2>5
  <2> QED BY <2>2, <2>6
<1> QED BY <1>2, <1>3

-----------------------------------------------------------------------------
(* The messages of an event and the objects in them.                       *)

Branches == ToSet(Classes) \X (Detectors \cup {Global})
Objects == ToSet(Classes) \X (Detectors \cup {Global}) \X Nat

LEMMA ClassRange ==
  ToSet(Classes) = {"MCTrack", "MCParticle", "DepositedCharge", "PropagatedCharge",
                    "PixelCharge", "PixelPulse", "PixelHit"}
<1>1. DOMAIN Classes = 1 .. 7 /\ 1 .. 7 = {1, 2, 3, 4, 5, 6, 7}
  BY DEF Classes
<1> QED BY <1>1 DEF ToSet, Classes

LEMMA ContentType ==
  ASSUME NEW c \in Contents
  PROVE  c.tracks \in 1 .. 2 /\ c.detectors \subseteq Detectors /\ IsFiniteSet(c.detectors)
<1>1. c \in [classes : SUBSET ToSet(Classes), detectors : SUBSET Detectors, tracks : 1 .. 2]
  BY StoreAssumption
<1>2. c.tracks \in 1 .. 2 /\ c.detectors \in SUBSET Detectors
  BY <1>1
<1> QED BY <1>2, EventsAssumption, FS_Subset

LEMMA KeysType ==
  ASSUME NEW c \in Contents
  PROVE  KeysOf[c] \in Seq(Branches)
<1> DEFINE keys == [k \in DOMAIN Classes |-> KeysOfClass(c, Classes[k])]
<1>1. ASSUME NEW class \in ToSet(Classes)
      PROVE  KeysOfClass(c, class) \in Seq(Branches)
  <2>1. <<>> \in Seq(Branches)
    OBVIOUS
  <2>2. <<class, Global>> \in Branches
    BY DEF Branches
  <2>3. <<<<class, Global>>>> \in Seq(Branches)
    BY <2>2
  <2> DEFINE dets == SetToSeq(c.detectors)
             all == [i \in DOMAIN dets |-> <<class, dets[i]>>]
  <2>4. all \in Seq(Branches)
    <3>1. dets \in Seq(c.detectors)
      BY ContentType, SetToSeqType
    <3>2. Len(dets) \in Nat /\ DOMAIN dets = 1 .. Len(dets)
      BY <3>1
    <3>3. \A i \in 1 .. Len(dets) : dets[i] \in Detectors
      BY <3>1, ContentType
    <3>4. \A i \in 1 .. Len(dets) : <<class, dets[i]>> \in Branches
      BY <3>3 DEF Branches
    <3> HIDE DEF dets
    <3> QED BY <3>2, <3>4
  <2>5. KeysOfClass(c, class) \in {<<>>, <<<<class, Global>>>>, all}
    BY DEF KeysOfClass
  <2> HIDE DEF all
  <2> QED BY <2>1, <2>3, <2>4, <2>5
<1>2. Len(Classes) = 7 /\ DOMAIN Classes = 1 .. 7 /\ \A k \in 1 .. 7 : Classes[k] \in ToSet(Classes)
  <2>1. Len(Classes) = 7 /\ DOMAIN Classes = 1 .. 7
    BY DEF Classes
  <2> QED BY <2>1 DEF ToSet
<1>3. \A k \in 1 .. 7 : keys[k] \in Seq(Branches)
  BY <1>1, <1>2
<1>4. keys = [k \in 1 .. 7 |-> keys[k]]
  BY <1>2
<1> HIDE DEF keys
<1>5. keys \in Seq(Seq(Branches))
  BY <1>3, <1>4
<1>6. FlattenSeq(keys) \in Seq(Branches)
  BY <1>5, FlattenRange
<1> QED BY <1>6 DEF KeysOf, keys

LEMMA MessageType ==
  ASSUME NEW c \in Contents, NEW class \in ToSet(Classes), NEW d \in Detectors \cup {Global}
  PROVE  /\ MessageOf(c, class, d) \in Seq(Objects)
         /\ BranchOf(MessageOf(c, class, d)) = <<class, d>>
         /\ \A o \in ToSet(MessageOf(c, class, d)) :
              o \in Objects /\ o[1] = class /\ o[2] = d
<1> DEFINE n == Generations(c, class)
           msg == [j \in 1 .. n |-> <<class, d, j>>]
<1>1. n \in 1 .. 2
  BY ContentType DEF Generations
<1>2. MessageOf(c, class, d) = msg
  BY DEF MessageOf
<1> HIDE DEF n
<1>3. /\ DOMAIN msg = 1 .. n
      /\ \A j \in 1 .. n : msg[j] \in Objects /\ msg[j][1] = class /\ msg[j][2] = d
  BY <1>1 DEF Objects
<1>4. msg \in Seq(Objects)
  BY <1>1, <1>3
<1>5. 1 \in 1 .. n
  BY <1>1
<1> HIDE DEF msg
<1> QED BY <1>2, <1>3, <1>4, <1>5 DEF BranchOf, ToSet

LEMMA MessageIs ==
  ASSUME NEW c \in Contents, NEW m \in ToSet(MessagesOf[c])
  PROVE  /\ m \in Seq(Objects) /\ m[1][1] = BranchOf(m)[1]
         /\ BranchOf(m) \in Branches
         /\ \A o \in ToSet(m) : /\ o \in Objects /\ o \in ObjectsOf[c]
                                /\ o[1] = BranchOf(m)[1] /\ o[2] = BranchOf(m)[2]
<1>1. PICK i \in DOMAIN KeysOf[c] : m = MessageOf(c, KeysOf[c][i][1], KeysOf[c][i][2])
  BY DEF MessagesOf, ToSet
<1>2. KeysOf[c][i] \in Branches
  BY KeysType
<1> DEFINE class == KeysOf[c][i][1]
           d == KeysOf[c][i][2]
<1>3. class \in ToSet(Classes) /\ d \in Detectors \cup {Global} /\ m = MessageOf(c, class, d)
  BY <1>1, <1>2 DEF Branches
<1> HIDE DEF class, d
<1>4. /\ m \in Seq(Objects) /\ BranchOf(m) = <<class, d>>
      /\ \A o \in ToSet(m) : o \in Objects /\ o[1] = class /\ o[2] = d
  BY <1>3, MessageType
<1>5. \A o \in ToSet(m) : o \in ObjectsOf[c]
  BY DEF ObjectsOf
<1>6. BranchOf(m) \in Branches /\ BranchOf(m)[1] = class /\ BranchOf(m)[2] = d
  BY <1>3, <1>4 DEF Branches
<1>7. m[1][1] = BranchOf(m)[1]
  BY DEF BranchOf
<1> QED BY <1>4, <1>5, <1>6, <1>7

LEMMA MessagesType ==
  ASSUME NEW c \in Contents
  PROVE  MessagesOf[c] \in Seq(Seq(Objects))
<1> DEFINE n == Len(KeysOf[c])
<1>1. n \in Nat /\ DOMAIN KeysOf[c] = 1 .. n
  BY KeysType
<1>2. /\ DOMAIN MessagesOf[c] = 1 .. n
      /\ MessagesOf[c] = [i \in 1 .. n |-> MessagesOf[c][i]]
  BY <1>1 DEF MessagesOf
<1> HIDE DEF n
<1>3. \A i \in 1 .. n : MessagesOf[c][i] \in ToSet(MessagesOf[c])
  BY <1>2 DEF ToSet
<1>4. \A i \in 1 .. n : MessagesOf[c][i] \in Seq(Objects)
  BY <1>3, MessageIs
<1> QED BY <1>1, <1>2, <1>4

\* What the writer lets through, as messages and as objects.
LEMMA FilteredType ==
  ASSUME NEW c \in Contents, NEW keep
  PROVE  /\ Filtered(c, keep) \in Seq(Seq(Objects))
         /\ \A m : m \in ToSet(Filtered(c, keep)) <=>
                     m \in ToSet(MessagesOf[c]) /\ BranchOf(m)[1] \in keep
<1> DEFINE S == {m \in ToSet(MessagesOf[c]) : m[1][1] \in keep}
<1>1. /\ Only(MessagesOf[c], S) \in Seq(Seq(Objects))
      /\ \A m : m \in ToSet(Only(MessagesOf[c], S)) <=> m \in ToSet(MessagesOf[c]) /\ m \in S
  <2> HIDE DEF S
  <2> QED BY MessagesType, OnlyRange
<1>2. Filtered(c, keep) = Only(MessagesOf[c], S)
  BY DEF Filtered
<1>3. \A m \in ToSet(MessagesOf[c]) : m \in S <=> BranchOf(m)[1] \in keep
  BY MessageIs
<1> HIDE DEF S
<1> QED BY <1>1, <1>2, <1>3

LEMMA FilteredObjects ==
  ASSUME NEW c \in Contents, NEW keep
  PROVE  /\ FlattenSeq(Filtered(c, keep)) \in Seq(Objects)
         /\ \A o : o \in ToSet(FlattenSeq(Filtered(c, keep))) <=>
                     o \in ObjectsOf[c] /\ o[1] \in keep
<1> DEFINE ms == Filtered(c, keep)
<1>1. ms \in Seq(Seq(Objects))
  BY FilteredType
<1>2. /\ FlattenSeq(ms) \in Seq(Objects)
      /\ ToSet(FlattenSeq(ms)) = UNION {ToSet(ms[i]) : i \in DOMAIN ms}
  <2> HIDE DEF ms
  <2> QED BY <1>1, FlattenRange
<1>3. \A m : m \in ToSet(ms) <=> m \in ToSet(MessagesOf[c]) /\ BranchOf(m)[1] \in keep
  BY FilteredType
<1>4. \A o : o \in ToSet(FlattenSeq(ms)) <=> \E m \in ToSet(ms) : o \in ToSet(m)
  <2> HIDE DEF ms
  <2>1. \A m : m \in ToSet(ms) <=> \E i \in DOMAIN ms : m = ms[i]
    BY DEF ToSet
  <2> QED BY <1>2, <2>1
<1>5. \A o : o \in ObjectsOf[c] <=> \E m \in ToSet(MessagesOf[c]) : o \in ToSet(m)
  BY DEF ObjectsOf
<1>6. \A m \in ToSet(MessagesOf[c]) : \A o \in ToSet(m) : o[1] = BranchOf(m)[1]
  BY MessageIs
<1>7. ASSUME NEW o
      PROVE  o \in ToSet(FlattenSeq(ms)) <=> o \in ObjectsOf[c] /\ o[1] \in keep
  <2> HIDE DEF ms
  <2> QED BY <1>3, <1>4, <1>5, <1>6
<1> QED BY <1>2, <1>7

-----------------------------------------------------------------------------
(* References.  Every stored pointer to an object that is stored as well   *)
(* has a number, and no other object of the event has it.                  *)

Names == {"parent", "track", "mc_particle", "mc_particles", "deposited_charge",
          "propagated_charges", "pixel_charge", "pixel_pulse"}

LEMMA FieldsType ==
  ASSUME NEW class \in ToSet(Classes)
  PROVE  /\ Fields[class] \in Seq(ToSet(Fields[class]))
         /\ Petrified(class) \subseteq ToSet(Fields[class])
<1>1. Fields[class] \in Seq(Names)
  <2>1. CASE class = "MCTrack"
    BY <2>1 DEF Fields, Names
  <2>2. CASE class = "MCParticle"
    BY <2>2 DEF Fields, Names
  <2>3. CASE class = "DepositedCharge"
    BY <2>3 DEF Fields, Names
  <2>4. CASE class = "PropagatedCharge"
    BY <2>4 DEF Fields, Names
  <2>5. CASE class = "PixelCharge"
    BY <2>5 DEF Fields, Names
  <2>6. CASE class = "PixelPulse"
    BY <2>6 DEF Fields, Names
  <2>7. CASE class = "PixelHit"
    BY <2>7 DEF Fields, Names
  <2> QED BY <2>1, <2>2, <2>3, <2>4, <2>5, <2>6, <2>7, ClassRange
<1> DEFINE s == Fields[class]
<1>2. Len(s) \in Nat /\ DOMAIN s = 1 .. Len(s) /\ s = [i \in 1 .. Len(s) |-> s[i]]
  BY <1>1
<1> HIDE DEF s
<1>3. \A i \in 1 .. Len(s) : s[i] \in ToSet(s)
  BY <1>2 DEF ToSet
<1>4. s \in Seq(ToSet(s))
  BY <1>2, <1>3
<1>5. Petrified(class) \subseteq ToSet(s)
  BY DEF Petrified, s
<1> QED BY <1>4, <1>5 DEF s

Nodes(c) == ObjectsOf[c] \cup {NULL}

LEMMA ObjectClass ==
  ASSUME NEW c \in Contents, NEW o \in ObjectsOf[c]
  PROVE  /\ o \in Objects /\ o[1] \in ToSet(Classes)
         /\ \E m \in ToSet(MessagesOf[c]) : o \in ToSet(m) /\ BranchOf(m)[1] = o[1]
<1>1. PICK m \in ToSet(MessagesOf[c]) : o \in ToSet(m)
  BY DEF ObjectsOf
<1>2. o \in Objects /\ BranchOf(m)[1] = o[1]
  BY <1>1, MessageIs
<1> QED BY <1>1, <1>2 DEF Objects

LEMMA TargetType ==
  ASSUME NEW c \in Contents, NEW o \in ObjectsOf[c], NEW f \in ToSet(Fields[o[1]])
  PROVE  Target[c][o][f] \in Nodes(c)
<1>1. Target[c][o][f] = TargetOf(c, o, f)
  BY DEF Target
<1>2. TargetOf(c, o, f) \in Nodes(c)
  BY DEF TargetOf, Nodes
<1> QED BY <1>1, <1>2

LEMMA PetrifyIs ==
  ASSUME NEW c \in Contents, NEW o \in ObjectsOf[c], NEW marked
  PROVE  /\ Petrify(c, o, marked) \in Seq(Nodes(c))
         /\ \A f \in Petrified(o[1]) :
              Target[c][o][f] \in marked => Target[c][o][f] \in ToSet(Petrify(c, o, marked))
<1> DEFINE all == Fields[o[1]]
           stored == Only(all, Petrified(o[1]))
           targets == [k \in DOMAIN stored |-> Target[c][o][stored[k]]]
<1>1. all \in Seq(ToSet(all)) /\ Petrified(o[1]) \subseteq ToSet(all)
  BY ObjectClass, FieldsType
<1>2. /\ stored \in Seq(ToSet(all))
      /\ \A f : f \in ToSet(stored) <=> f \in ToSet(all) /\ f \in Petrified(o[1])
  BY <1>1, OnlyRange
<1>3. \A f \in ToSet(all) : Target[c][o][f] \in Nodes(c)
  BY TargetType
<1>4. Petrify(c, o, marked) = Only(targets, marked)
  BY DEF Petrify
<1> HIDE DEF stored, all
<1>5. Len(stored) \in Nat /\ DOMAIN stored = 1 .. Len(stored)
  BY <1>2
<1>6. \A k \in 1 .. Len(stored) : stored[k] \in ToSet(all)
  BY <1>2
<1>7. \A k \in 1 .. Len(stored) : targets[k] = Target[c][o][stored[k]]
  BY <1>5
<1>8. targets = [k \in 1 .. Len(stored) |-> targets[k]] /\ DOMAIN targets = 1 .. Len(stored)
  BY <1>5
<1> HIDE DEF targets
<1>9. targets \in Seq(Nodes(c))
  <2>1. \A k \in 1 .. Len(stored) : targets[k] \in Nodes(c)
    BY <1>3, <1>6, <1>7
  <2> QED BY <1>5, <1>8, <2>1
<1>10. /\ Only(targets, marked) \in Seq(Nodes(c))
       /\ \A t : t \in ToSet(Only(targets, marked)) <=> t \in ToSet(targets) /\ t \in marked
  BY <1>9, OnlyRange
<1>11. \A f \in Petrified(o[1]) : Target[c][o][f] \in ToSet(targets)
  <2> TAKE f \in Petrified(o[1])
  <2>1. f \in ToSet(stored)
    BY <1>1, <1>2
  <2>2. PICK k \in 1 .. Len(stored) : f = stored[k]
    BY <1>5, <2>1 DEF ToSet
  <2> QED BY <1>7, <1>8, <2>2 DEF ToSet
<1> QED BY <1>4, <1>10, <1>11

LEMMA ReferencesAre ==
  ASSUME NEW c \in Contents, NEW keep
  PROVE  /\ References(c, keep) \in Seq(Nodes(c))
         /\ \A o \in ObjectsOf[c] : o[1] \in keep =>
              \A f \in Petrified(o[1]) :
                 /\ Target[c][o][f] \in ObjectsOf[c]
                 /\ Target[c][o][f][1] \in keep
                 => Target[c][o][f] \in ToSet(References(c, keep))
<1> DEFINE objects == FlattenSeq(Filtered(c, keep))
           lists == [i \in DOMAIN objects |-> Petrify(c, objects[i], ToSet(objects))]
<1>1. /\ objects \in Seq(Objects)
      /\ \A o : o \in ToSet(objects) <=> o \in ObjectsOf[c] /\ o[1] \in keep
  BY FilteredObjects
<1>2. References(c, keep) = FlattenSeq(lists)
  BY DEF References
<1> HIDE DEF objects
<1>3. Len(objects) \in Nat /\ DOMAIN objects = 1 .. Len(objects)
  BY <1>1
<1>4. \A i \in 1 .. Len(objects) : objects[i] \in ObjectsOf[c]
  BY <1>1, <1>3 DEF ToSet
<1>5. /\ DOMAIN lists = 1 .. Len(objects)
      /\ lists = [i \in 1 .. Len(objects) |-> lists[i]]
      /\ \A i \in 1 .. Len(objects) : lists[i] = Petrify(c, objects[i], ToSet(objects))
  BY <1>3
<1> HIDE DEF lists
<1>6. \A i \in 1 .. Len(objects) : lists[i] \in Seq(Nodes(c))
  BY <1>4, <1>5, PetrifyIs
<1>7. lists \in Seq(Seq(Nodes(c)))
  BY <1>3, <1>5, <1>6
<1>8. /\ FlattenSeq(lists) \in Seq(Nodes(c))
      /\ ToSet(FlattenSeq(lists)) = UNION {ToSet(lists[i]) : i \in DOMAIN lists}
  BY <1>7, FlattenRange
<1>9. ASSUME NEW o \in ObjectsOf[c], o[1] \in keep, NEW f \in Petrified(o[1]),
             Target[c][o][f] \in ObjectsOf[c], Target[c][o][f][1] \in keep
      PROVE  Target[c][o][f] \in ToSet(References(c, keep))
  <2> DEFINE t == Target[c][o][f]
  <2>1. t \in ToSet(objects) /\ o \in ToSet(objects)
    BY <1>1, <1>9
  <2>2. PICK i \in 1 .. Len(objects) : o = objects[i]
    BY <1>3, <2>1 DEF ToSet
  <2>3. t \in ToSet(lists[i])
    BY <1>5, <2>1, <2>2, PetrifyIs
  <2> HIDE DEF t
  <2>4. t \in ToSet(References(c, keep))
    BY <1>2, <1>5, <1>8, <2>3
  <2> QED BY <2>4 DEF t
<1> QED BY <1>2, <1>8, <1>9

-----------------------------------------------------------------------------
(* The stored objects of an event.                                         *)

StoredIn(c, keep, S) == {Stored[c][keep][o] : o \in S}

LEMMA StoredIs ==
  ASSUME NEW c \in Contents, NEW keep \in WriteFilters, NEW o \in ObjectsOf[c]
  PROVE  /\ Stored[c][keep][o].object = o
         /\ Stored[c][keep][o].uid = NumberIn(References(c, keep), o)
         /\ DOMAIN Stored[c][keep][o].refs = ToSet(Fields[o[1]])
         /\ \A f \in Petrified(o[1]) :
              Stored[c][keep][o].refs[f] = NumberIn(References(c, keep), Target[c][o][f])
<1>1. \A x \in Nodes(c) : Uids[c][keep][x] = NumberIn(References(c, keep), x)
  BY DEF Uids, Nodes
<1>2. Stored[c][keep][o] = [object |-> o, uid |-> Uids[c][keep][o],
        refs |-> [f \in ToSet(Fields[o[1]]) |->
          IF f \in Petrified(o[1]) THEN Uids[c][keep][Target[c][o][f]] ELSE 0]]
  BY DEF Stored
<1>3. Petrified(o[1]) \subseteq ToSet(Fields[o[1]])
  BY ObjectClass, FieldsType
<1>4. o \in Nodes(c) /\ \A f \in ToSet(Fields[o[1]]) : Target[c][o][f] \in Nodes(c)
  BY TargetType DEF Nodes
<1> QED BY <1>1, <1>2, <1>3, <1>4

LEMMA NumberZero ==
  ASSUME NEW s, NEW x, x \notin ToSet(s)
  PROVE  NumberIn(s, x) = 0
BY DEF NumberIn

LEMMA UidType ==
  ASSUME NEW c \in Contents, NEW keep, NEW x
  PROVE  /\ NumberIn(References(c, keep), x) # 0 <=> x \in ToSet(References(c, keep))
         /\ NumberIn(References(c, keep), x) # 0 =>
              \A y : NumberIn(References(c, keep), y) = NumberIn(References(c, keep), x) => y = x
<1>1. References(c, keep) \in Seq(Nodes(c))
  BY ReferencesAre
<1>2. CASE x \in ToSet(References(c, keep))
  BY <1>1, <1>2, NumberInjective
<1>3. CASE x \notin ToSet(References(c, keep))
  BY <1>3, NumberZero
<1> QED BY <1>2, <1>3

-----------------------------------------------------------------------------
(* The invariant of ObjectStore.                                           *)

\* The entry of the branch b for an event of content c.
EntryFor(c, keep, b) == StoredIn(c, keep, ObjectsIn(ToSet(Filtered(c, keep)), b))

\* Each branch holds, for every event written, the objects of the messages that
\* belong into it, also for the events before it was created; and each message
\* that was written has its branch.
FileInv ==
    /\ filters \in [write : WriteFilters, read : ReadFilters]
    /\ content \in [Events -> Contents]
    /\ eventTree \in Seq(Events)
    /\ DOMAIN entries = {b[1] : b \in DOMAIN columns}
    /\ \A class \in DOMAIN entries : entries[class] = Len(eventTree)
    /\ \A b \in DOMAIN columns :
         columns[b] = [i \in 1 .. Len(eventTree) |->
                         EntryFor(content[eventTree[i]], filters.write, b)]
    /\ \A i \in 1 .. Len(eventTree) :
         \A m \in ToSet(Filtered(content[eventTree[i]], filters.write)) :
           BranchOf(m) \in DOMAIN columns

\* In sequence, the events before the one whose turn it is have been written, each
\* as the entry of its number, unless one of them was aborted.
InOrderUpTo(p) ==
    /\ pending = p .. NumEvents
    /\ Len(eventTree) <= p - 1
    /\ Len(eventTree) = p - 1 => \A i \in 1 .. p - 1 : eventTree[i] = i

SequenceInv ==
    /\ pending \subseteq Events
    /\ inSequence => \E p \in 1 .. NumEvents + 1 : InOrderUpTo(p)

\* The objects of an event of the reading job and their pointers: the last
\* argument are the events that were read while others were alive.
Restored(m, c, objects, held, others) ==
    /\ {r.object : r \in held} = objects
    /\ \A r \in held : \A f \in Petrified(r.object[1]) :
         LET t == Target[c][r.object][f]
         IN  IF t \in objects THEN r.links[f] = Copy(m, t)
             ELSE m \notin others => r.links[f] = NULL

LiveInv == \A m \in DOMAIN live :
    m \in Events /\ Restored(m, Written(m), KeptObjects(m), live[m], crowded)

\* The process table refers to objects of events that are alive.
TableInv == \A u \in DOMAIN table : u # 0 /\ table[u].event \in DOMAIN live

Inv ==
    /\ FileInv /\ SequenceInv /\ LiveInv /\ TableInv
    /\ phase = "write" => DOMAIN live = {}

LEMMA InitInv == Init => Inv
<1> SUFFICES ASSUME Init PROVE Inv
  OBVIOUS
<1>1. NumEvents \in Nat
  BY EventsAssumption
<1>2. FileInv
  <2>1. eventTree \in Seq(Events) /\ Len(eventTree) = 0
    BY DEF Init
  <2>2. DOMAIN entries = {} /\ DOMAIN columns = {}
    BY DEF Init
  <2>3. /\ filters \in [write : WriteFilters, read : ReadFilters]
        /\ content \in [Events -> Contents]
    BY DEF Init
  <2> QED BY <2>1, <2>2, <2>3 DEF FileInv
<1>3. SequenceInv
  <2>1. pending = 1 .. NumEvents /\ Len(eventTree) = 0
    BY DEF Init, Events
  <2>2. 1 \in 1 .. NumEvents + 1 /\ InOrderUpTo(1)
    BY <1>1, <2>1 DEF InOrderUpTo
  <2> QED BY <2>1, <2>2 DEF SequenceInv, Events
<1>4. DOMAIN live = {} /\ DOMAIN table = {}
  BY DEF Init
<1> QED BY <1>2, <1>3, <1>4 DEF Inv, LiveInv, TableInv

-----------------------------------------------------------------------------
(* Writing.                                                                *)

LEMMA Extended ==
  ASSUME NEW n \in Nat, NEW s, s = [i \in 1 .. n |-> s[i]], NEW x
  PROVE  Append(s, x) = [i \in 1 .. n + 1 |-> IF i \in 1 .. n THEN s[i] ELSE x]
<1> DEFINE X == {s[i] : i \in 1 .. n} \cup {x}
<1>1. \A i \in 1 .. n : s[i] \in X
  OBVIOUS
<1>2. x \in X
  OBVIOUS
<1> HIDE DEF X
<1>3. s \in Seq(X) /\ Len(s) = n
  BY <1>1
<1> QED BY <1>2, <1>3

\* An event without a message for a branch has nothing in it.
LEMMA NothingForBranch ==
  ASSUME NEW c, NEW keep, NEW b,
         \A m \in ToSet(Filtered(c, keep)) : BranchOf(m) # b
  PROVE  EntryFor(c, keep, b) = {}
<1>1. ObjectsIn(ToSet(Filtered(c, keep)), b) = {}
  BY DEF ObjectsIn
<1> QED BY <1>1 DEF EntryFor, StoredIn

LEMMA WriteEventInv ==
  ASSUME FileInv, NEW n \in Events, WriteEvent(n), UNCHANGED Setup
  PROVE  FileInv'
<1> DEFINE c == content[n]
           w == filters.write
           N == Len(eventTree)
           msgs == ToSet(Filtered(c, w))
           branches == DOMAIN columns \cup {BranchOf(m) : m \in msgs}
           Past(b) == IF b \in DOMAIN columns THEN columns[b] ELSE Prefill(Missed)
           At(i, b) == EntryFor(content[eventTree[i]], w, b)
<1>1. filters' = filters /\ content' = content
  BY DEF Setup
<1>2. N \in Nat /\ eventTree \in Seq(Events)
  BY DEF FileInv
<1>3. /\ eventTree' \in Seq(Events) /\ Len(eventTree') = N + 1
      /\ \A i \in 1 .. N : eventTree'[i] = eventTree[i]
      /\ eventTree'[N + 1] = n
  BY <1>2 DEF WriteEvent
<1>4. columns' = [b \in branches |-> Append(Past(b), EntryFor(c, w, b))]
  BY DEF WriteEvent, EntryFor, StoredIn
<1>5. entries' = [class \in {b[1] : b \in branches} |->
                    (IF class \in DOMAIN entries THEN entries[class] ELSE Missed) + 1]
  BY DEF WriteEvent
<1>6. \A i \in 1 .. N : \A m \in ToSet(Filtered(content[eventTree[i]], w)) :
        BranchOf(m) \in DOMAIN columns
  BY DEF FileInv
<1>7. ASSUME NEW b \in branches
      PROVE  Past(b) = [i \in 1 .. N |-> At(i, b)]
  <2>1. CASE b \in DOMAIN columns
    BY <2>1 DEF FileInv
  <2>2. CASE b \notin DOMAIN columns
    <3>1. \A i \in 1 .. N : At(i, b) = {}
      BY <1>6, <2>2, NothingForBranch
    <3>2. Past(b) = [i \in 1 .. N |-> {}]
      BY <2>2 DEF Prefill, Missed
    <3> HIDE DEF At, Past
    <3> QED BY <3>1, <3>2
  <2> QED BY <2>1, <2>2
<1>8. ASSUME NEW b \in branches
      PROVE  columns'[b] = [i \in 1 .. N + 1 |-> EntryFor(content[eventTree'[i]], w, b)]
  <2>1. columns'[b] = Append(Past(b), EntryFor(c, w, b))
    BY <1>4
  <2>2. Past(b) = [i \in 1 .. N |-> At(i, b)]
    BY <1>7
  <2> DEFINE s == Past(b)
             x == EntryFor(c, w, b)
             New(i) == EntryFor(content[eventTree'[i]], w, b)
  <2>3. \A i \in 1 .. N : s[i] = At(i, b)
    <3> HIDE DEF At, Past
    <3> QED BY <2>2
  <2>4. s = [i \in 1 .. N |-> s[i]]
    <3> HIDE DEF At, Past
    <3> QED BY <2>2
  <2>5. columns'[b] = [i \in 1 .. N + 1 |-> IF i \in 1 .. N THEN s[i] ELSE x]
    <3> HIDE DEF s, x
    <3>1. Append(s, x) = [i \in 1 .. N + 1 |-> IF i \in 1 .. N THEN s[i] ELSE x]
      BY <1>2, <2>4, Extended
    <3> QED BY <2>1, <3>1 DEF s, x
  <2>6. \A i \in 1 .. N : New(i) = At(i, b)
    BY <1>3
  <2>7. New(N + 1) = x
    BY <1>3
  <2> HIDE DEF s, x, At, New
  <2>8. \A i \in 1 .. N + 1 : (IF i \in 1 .. N THEN s[i] ELSE x) = New(i)
    <3> TAKE i \in 1 .. N + 1
    <3>1. i \in 1 .. N \/ i = N + 1
      BY <1>2
    <3>2. N + 1 \notin 1 .. N
      BY <1>2
    <3> QED BY <2>3, <2>6, <2>7, <3>1, <3>2
  <2>9. columns'[b] = [i \in 1 .. N + 1 |-> New(i)]
    BY <2>5, <2>8
  <2> QED BY <2>9 DEF New
<1>9. DOMAIN columns' = branches /\ DOMAIN entries' = {b[1] : b \in branches}
  BY <1>4, <1>5
<1>10. \A class \in DOMAIN entries' : entries'[class] = N + 1
  BY <1>5 DEF FileInv, Missed
<1>11. ASSUME NEW i \in 1 .. N + 1, NEW m \in ToSet(Filtered(content[eventTree'[i]], w))
       PROVE  BranchOf(m) \in branches
  <2>1. CASE i \in 1 .. N
    BY <1>3, <1>6, <1>11, <2>1
  <2>2. CASE i = N + 1
    BY <1>3, <1>11, <2>2
  <2> QED BY <1>2, <2>1, <2>2
<1>12. /\ filters \in [write : WriteFilters, read : ReadFilters]
       /\ content \in [Events -> Contents]
  BY DEF FileInv
<1> HIDE DEF branches, N, Past
<1>13. /\ DOMAIN entries' = {b[1] : b \in DOMAIN columns'}
       /\ \A class \in DOMAIN entries' : entries'[class] = Len(eventTree')
  BY <1>3, <1>9, <1>10
<1>14. \A b \in DOMAIN columns' :
         columns'[b] = [i \in 1 .. Len(eventTree') |->
                          EntryFor(content'[eventTree'[i]], filters'.write, b)]
  BY <1>1, <1>3, <1>8, <1>9
<1>15. \A i \in 1 .. Len(eventTree') :
         \A m \in ToSet(Filtered(content'[eventTree'[i]], filters'.write)) :
           BranchOf(m) \in DOMAIN columns'
  BY <1>1, <1>3, <1>9, <1>11
<1> QED BY <1>1, <1>3, <1>12, <1>13, <1>14, <1>15 DEF FileInv

LEMMA FileFrame ==
  ASSUME FileInv, UNCHANGED <<Setup, fileVars>>
  PROVE  FileInv'
BY DEF FileInv, Setup, fileVars

\* The turn of an event leaves the order as it is, whether it is written or not.
LEMMA TurnInOrder ==
  ASSUME FileInv, SequenceInv, UNCHANGED Setup,
         NEW n \in Events, Turn(n), pending' = pending \ {n},
         \/ eventTree' = Append(eventTree, n)
         \/ eventTree' = eventTree
  PROVE  SequenceInv'
<1> DEFINE N == Len(eventTree)
<1>1. N \in Nat /\ eventTree \in Seq(Events) /\ NumEvents \in Nat
  BY EventsAssumption DEF FileInv
<1>2. pending' \subseteq Events
  BY DEF SequenceInv
<1>3. ASSUME inSequence
      PROVE  \E p \in 1 .. NumEvents + 1 : InOrderUpTo(p)'
  <2>1. PICK p \in 1 .. NumEvents + 1 : InOrderUpTo(p)
    BY <1>3 DEF SequenceInv
  <2>2. n \in pending /\ \A i \in pending : n <= i
    BY <1>3 DEF Turn
  <2>3. n = p /\ p \in 1 .. NumEvents
    <3>1. n \in Nat /\ p \in Nat /\ n \in p .. NumEvents
      BY <2>1, <2>2 DEF InOrderUpTo, Events
    <3>2. p \in pending
      BY <1>1, <2>1, <3>1 DEF InOrderUpTo
    <3> QED BY <1>1, <2>1, <2>2, <3>1, <3>2
  <2>4. pending' = p + 1 .. NumEvents
    BY <1>1, <2>1, <2>3 DEF InOrderUpTo
  <2>5. N <= p - 1 /\ (N = p - 1 => \A i \in 1 .. p - 1 : eventTree[i] = i)
    BY <2>1 DEF InOrderUpTo
  <2>6. CASE eventTree' = eventTree
    <3>1. Len(eventTree') <= p /\ Len(eventTree') # p
      BY <1>1, <2>3, <2>5, <2>6
    <3>2. p + 1 - 1 = p /\ p + 1 \in 1 .. NumEvents + 1
      BY <1>1, <2>3
    <3> QED BY <2>4, <3>1, <3>2 DEF InOrderUpTo
  <2>7. CASE eventTree' = Append(eventTree, n)
    <3>1. /\ Len(eventTree') = N + 1 /\ eventTree'[N + 1] = n
          /\ \A i \in 1 .. N : eventTree'[i] = eventTree[i]
      BY <1>1, <2>7
    <3>2. p + 1 - 1 = p /\ p + 1 \in 1 .. NumEvents + 1 /\ N + 1 <= p
      BY <1>1, <2>3, <2>5
    <3> HIDE DEF N
    <3>3. ASSUME N + 1 = p
          PROVE  \A i \in 1 .. p : eventTree'[i] = i
      <4> TAKE i \in 1 .. p
      <4>1. N = p - 1 /\ (i \in 1 .. p - 1 \/ i = p)
        BY <1>1, <2>3, <3>3
      <4>2. CASE i \in 1 .. p - 1
        BY <2>5, <3>1, <4>1, <4>2
      <4>3. CASE i = p
        BY <2>3, <3>1, <3>3, <4>3
      <4> QED BY <4>1, <4>2, <4>3
    <3> QED BY <2>4, <3>1, <3>2, <3>3 DEF InOrderUpTo
  <2> QED BY <2>6, <2>7
<1> QED BY <1>2, <1>3 DEF SequenceInv, Setup

-----------------------------------------------------------------------------
(* Reading.                                                                *)

LEMMA KeptType ==
  ASSUME FileInv, NEW m \in DOMAIN eventTree
  PROVE  /\ m \in 1 .. Len(eventTree) /\ eventTree[m] \in Events
         /\ Written(m) \in Contents /\ filters.write \in WriteFilters
<1>1. m \in 1 .. Len(eventTree) /\ eventTree[m] \in Events
  BY DEF FileInv
<1> QED BY <1>1 DEF FileInv, Written

\* An object that the file holds for entry m is in the branch of its message.
LEMMA ColumnObjects ==
  ASSUME FileInv, NEW m \in DOMAIN eventTree
  PROVE  /\ \A b \in DOMAIN columns :
              columns[b][m] = EntryFor(Written(m), filters.write, b)
         /\ \A b \in DOMAIN columns :
              \A o \in ObjectsIn(ToSet(Filtered(Written(m), filters.write)), b) :
                o \in ObjectsOf[Written(m)] /\ o[1] = b[1] /\ o[1] \in filters.write
         /\ \A o \in ObjectsOf[Written(m)] : o[1] \in filters.write =>
              \E b \in DOMAIN columns :
                 o[1] = b[1] /\ o \in ObjectsIn(ToSet(Filtered(Written(m), filters.write)), b)
<1> DEFINE c == Written(m)
           w == filters.write
           msgs == ToSet(Filtered(c, w))
<1>1. m \in 1 .. Len(eventTree) /\ c \in Contents
  BY KeptType
<1>2. \A b \in DOMAIN columns : columns[b][m] = EntryFor(c, w, b)
  BY <1>1 DEF FileInv, Written
<1>3. \A x : x \in msgs <=> x \in ToSet(MessagesOf[c]) /\ BranchOf(x)[1] \in w
  BY <1>1, FilteredType
<1>4. ASSUME NEW b, NEW o \in ObjectsIn(msgs, b)
      PROVE  o \in ObjectsOf[c] /\ o[1] = b[1] /\ o[1] \in w
  <2>1. PICK x \in msgs : o \in ToSet(x) /\ BranchOf(x) = b
    BY <1>4 DEF ObjectsIn
  <2>2. x \in ToSet(MessagesOf[c]) /\ b[1] \in w
    BY <1>3, <2>1
  <2>3. o \in ObjectsOf[c] /\ o[1] = b[1]
    BY <1>1, <2>1, <2>2, MessageIs
  <2> QED BY <2>2, <2>3
<1>5. ASSUME NEW o \in ObjectsOf[c], o[1] \in w
      PROVE  \E b \in DOMAIN columns : o[1] = b[1] /\ o \in ObjectsIn(msgs, b)
  <2>1. PICK x \in ToSet(MessagesOf[c]) : o \in ToSet(x) /\ BranchOf(x)[1] = o[1]
    BY <1>1, ObjectClass
  <2>2. x \in msgs
    BY <1>3, <1>5, <2>1
  <2>3. BranchOf(x) \in DOMAIN columns
    BY <1>1, <2>2 DEF FileInv, Written
  <2>4. o \in ObjectsIn(msgs, BranchOf(x))
    BY <2>1, <2>2 DEF ObjectsIn
  <2> QED BY <2>1, <2>3, <2>4
<1> QED BY <1>2, <1>4, <1>5

\* One entry number selects the records of one event in all trees.
LEMMA RecordsExact ==
  ASSUME FileInv, NEW m \in Events, \A class \in TreesRead : EntryOf(m) <= entries[class]
  PROVE  Records(m) = StoredIn(Written(m), filters.write, KeptObjects(m))
<1> DEFINE c == Written(m)
           w == filters.write
           read == {br \in DOMAIN columns : br[1] \in TreesRead \cap Creators}
<1>1. \A b \in DOMAIN columns : b[1] \in DOMAIN entries
  BY DEF FileInv
<1>2. Records(m) = UNION {columns[b][m] : b \in read}
  BY DEF Records, EntryOf
<1>3. CASE m \notin DOMAIN eventTree
  <2>1. m \in Nat \ {0} /\ Len(eventTree) \in Nat /\ DOMAIN eventTree = 1 .. Len(eventTree)
    BY EventsAssumption DEF Events, FileInv
  <2>2. ~(m <= Len(eventTree))
    BY <1>3, <2>1
  <2>3. TreesRead = {}
    BY <2>2 DEF TreesRead, FileInv, EntryOf
  <2>4. read = {}
    BY <2>3
  <2>5. KeptObjects(m) = {}
    BY <1>3 DEF KeptObjects
  <2> HIDE DEF read
  <2> QED BY <1>2, <2>4, <2>5 DEF StoredIn
<1>4. CASE m \in DOMAIN eventTree
  <2>1. KeptObjects(m) = {o \in ObjectsOf[c] : o[1] \in Kept}
    BY <1>4 DEF KeptObjects, KeptOf
  <2>2. ASSUME NEW b \in read, NEW r \in columns[b][m]
        PROVE  r \in StoredIn(c, w, KeptObjects(m))
    <3>1. r \in EntryFor(c, w, b) /\ b \in DOMAIN columns
      BY <1>4, <2>2, ColumnObjects
    <3>2. PICK o \in ObjectsIn(ToSet(Filtered(c, w)), b) : r = Stored[c][w][o]
      BY <3>1 DEF EntryFor, StoredIn
    <3>3. o \in ObjectsOf[c] /\ o[1] = b[1] /\ o[1] \in w
      BY <1>4, <3>1, ColumnObjects
    <3>4. b[1] \in filters.read /\ b[1] \in Creators
      BY <2>2 DEF TreesRead
    <3>5. o \in KeptObjects(m)
      BY <2>1, <3>3, <3>4 DEF Kept
    <3> QED BY <3>2, <3>5 DEF StoredIn
  <2>3. ASSUME NEW o \in KeptObjects(m)
        PROVE  \E b \in read : Stored[c][w][o] \in columns[b][m]
    <3>1. o \in ObjectsOf[c] /\ o[1] \in w /\ o[1] \in filters.read /\ o[1] \in Creators
      BY <2>1, <2>3 DEF Kept
    <3>2. PICK b \in DOMAIN columns :
            o[1] = b[1] /\ o \in ObjectsIn(ToSet(Filtered(c, w)), b)
      BY <1>4, <3>1, ColumnObjects
    <3>3. b[1] \in TreesRead \cap Creators
      BY <1>1, <3>1, <3>2 DEF TreesRead
    <3>4. b \in read
      BY <3>3
    <3>5. Stored[c][w][o] \in EntryFor(c, w, b)
      BY <3>2 DEF EntryFor, StoredIn
    <3>6. columns[b][m] = EntryFor(c, w, b)
      BY <1>4, ColumnObjects
    <3> QED BY <3>4, <3>5, <3>6
  <2>4. \A r : r \in Records(m) <=> \E b \in read : r \in columns[b][m]
    <3> HIDE DEF read
    <3> QED BY <1>2
  <2>5. \A r : r \in StoredIn(c, w, KeptObjects(m)) <=>
                 \E o \in KeptObjects(m) : r = Stored[c][w][o]
    BY DEF StoredIn
  <2>6. \A r : r \in Records(m) <=> r \in StoredIn(c, w, KeptObjects(m))
    <3> HIDE DEF read, c, w
    <3> QED BY <2>2, <2>3, <2>4, <2>5
  <2> DEFINE A == Records(m)
             B == StoredIn(c, w, KeptObjects(m))
  <2>7. \A r : r \in A <=> r \in B
    BY <2>6
  <2>8. A = B
    <3> HIDE DEF A, B
    <3> QED BY <2>7
  <2> QED BY <2>8
<1> QED BY <1>3, <1>4

\* The table t after the records have been put into the table of before.
Registered(t, before, records, m) ==
    LET referenced == {r \in records : r.uid # 0}
        uids == {r.uid : r \in referenced}
    IN  t = [u \in DOMAIN before \cup uids |->
               IF u \in uids THEN Copy(m, (CHOOSE r \in referenced : r.uid = u).object)
               ELSE before[u]]

LEMMA RegisterIs == \A m : Registered(Register(m), table, Records(m), m)
BY DEF Registered, Register

LEMMA RegisteredTable ==
  ASSUME NEW t, NEW before, NEW records, NEW m, Registered(t, before, records, m)
  PROVE  \A u \in DOMAIN t :
            \/ u \in DOMAIN before /\ t[u] = before[u]
            \/ u # 0 /\ t[u].event = m
<1> DEFINE referenced == {r \in records : r.uid # 0}
           uids == {r.uid : r \in referenced}
           Of(u) == CHOOSE r \in referenced : r.uid = u
<1>1. \A u \in uids : u # 0
  OBVIOUS
<1>2. /\ DOMAIN t = DOMAIN before \cup uids
      /\ \A u \in DOMAIN t : t[u] = IF u \in uids THEN Copy(m, Of(u).object) ELSE before[u]
  BY DEF Registered
<1> HIDE DEF uids, Of
<1> TAKE u \in DOMAIN t
<1>3. CASE u \in uids
  <2>1. t[u] = Copy(m, Of(u).object)
    BY <1>2, <1>3
  <2> QED BY <1>1, <1>3, <2>1 DEF Copy
<1>4. CASE u \notin uids
  BY <1>2, <1>4
<1> QED BY <1>3, <1>4

\* Every number of a stored object of the event leads to the copy of that object,
\* and in a table that was empty no other number leads anywhere.
LEMMA RegisteredCopies ==
  ASSUME NEW c \in Contents, NEW keep \in WriteFilters, NEW S, S \subseteq ObjectsOf[c],
         NEW m, NEW t, NEW before, Registered(t, before, StoredIn(c, keep, S), m)
  PROVE  /\ \A o \in S : o \in ToSet(References(c, keep)) =>
              LET u == NumberIn(References(c, keep), o)
              IN  u \in DOMAIN t /\ t[u] = Copy(m, o)
         /\ \A u \in DOMAIN t : u \notin DOMAIN before =>
              \E o \in S : /\ o \in ToSet(References(c, keep))
                           /\ u = NumberIn(References(c, keep), o)
<1> DEFINE N(o) == NumberIn(References(c, keep), o)
           referenced == {r \in StoredIn(c, keep, S) : r.uid # 0}
           uids == {r.uid : r \in referenced}
           Of(u) == CHOOSE r \in referenced : r.uid = u
<1>1. \A o \in S : Stored[c][keep][o].object = o /\ Stored[c][keep][o].uid = N(o)
  BY StoredIs
<1>2. \A o : N(o) # 0 <=> o \in ToSet(References(c, keep))
  BY UidType
<1>3. \A o : N(o) # 0 => \A y : N(y) = N(o) => y = o
  BY UidType
<1>4. \A r : r \in referenced <=> r \in StoredIn(c, keep, S) /\ r.uid # 0
  OBVIOUS
<1>5. \A r : r \in StoredIn(c, keep, S) <=> \E o \in S : r = Stored[c][keep][o]
  BY DEF StoredIn
<1>6. \A u : u \in uids <=> \E r \in referenced : r.uid = u
  OBVIOUS
<1>7. \A u \in uids : Of(u) \in referenced /\ Of(u).uid = u
  BY <1>6
<1>8. /\ DOMAIN t = DOMAIN before \cup uids
      /\ \A u \in DOMAIN t : t[u] = IF u \in uids THEN Copy(m, Of(u).object) ELSE before[u]
  BY DEF Registered
<1> HIDE DEF N, referenced, uids, Of
<1>9. \A u \in uids : \E o \in S : Of(u).object = o /\ N(o) = u /\ u # 0
  BY <1>1, <1>4, <1>5, <1>7
<1>10. \A o \in S : N(o) # 0 => N(o) \in uids
  BY <1>1, <1>4, <1>5, <1>6
<1>11. ASSUME NEW o \in S, o \in ToSet(References(c, keep))
       PROVE  N(o) \in DOMAIN t /\ t[N(o)] = Copy(m, o)
  <2>1. N(o) \in uids /\ N(o) # 0
    BY <1>2, <1>10, <1>11
  <2>2. Of(N(o)).object = o
    BY <1>3, <1>9, <2>1
  <2> QED BY <1>8, <2>1, <2>2
<1>12. ASSUME NEW u \in DOMAIN t, u \notin DOMAIN before
       PROVE  \E o \in S : o \in ToSet(References(c, keep)) /\ u = N(o)
  <2>1. u \in uids
    BY <1>8, <1>12
  <2> QED BY <1>2, <1>9, <2>1
<1> QED BY <1>11, <1>12 DEF N

\* Loading the records restores the objects and their pointers.
LEMMA LoadRestores ==
  ASSUME NEW c \in Contents, NEW keep \in WriteFilters, NEW S,
         \A o \in S : o \in ObjectsOf[c] /\ o[1] \in keep,
         NEW m, NEW t, NEW before, NEW others,
         Registered(t, before, StoredIn(c, keep, S), m),
         0 \notin DOMAIN t, m \notin others => DOMAIN before = {}
  PROVE  Restored(m, c, S, {Load(r, t) : r \in StoredIn(c, keep, S)}, others)
<1> DEFINE N(o) == NumberIn(References(c, keep), o)
           held == {Load(r, t) : r \in StoredIn(c, keep, S)}
           Linked(o) == Load(Stored[c][keep][o], t)
<1>1. S \subseteq ObjectsOf[c]
  OBVIOUS
<1>2. /\ \A o \in S : o \in ToSet(References(c, keep)) =>
           N(o) \in DOMAIN t /\ t[N(o)] = Copy(m, o)
      /\ \A u \in DOMAIN t : u \notin DOMAIN before =>
           \E o \in S : o \in ToSet(References(c, keep)) /\ u = N(o)
  BY <1>1, RegisteredCopies
<1>3. \A r : r \in held <=> \E o \in S : r = Linked(o)
  BY DEF StoredIn
<1>4. \A o \in S : /\ Linked(o).object = o
                   /\ \A f \in Petrified(o[1]) :
                        Linked(o).links[f] = Resolve(N(Target[c][o][f]), t)
  <2> TAKE o \in S
  <2>1. /\ Stored[c][keep][o].object = o
        /\ DOMAIN Stored[c][keep][o].refs = ToSet(Fields[o[1]])
        /\ \A f \in Petrified(o[1]) : Stored[c][keep][o].refs[f] = N(Target[c][o][f])
    BY StoredIs
  <2>2. Petrified(o[1]) \subseteq ToSet(Fields[o[1]])
    BY ObjectClass, FieldsType
  <2> HIDE DEF N
  <2> QED BY <2>1, <2>2 DEF Load
<1> HIDE DEF Linked, held
<1>5. {r.object : r \in held} = S
  BY <1>3, <1>4
<1>6. ASSUME NEW o \in S, NEW f \in Petrified(o[1]), Target[c][o][f] \in S
      PROVE  Linked(o).links[f] = Copy(m, Target[c][o][f])
  <2> DEFINE x == Target[c][o][f]
  <2>1. x \in ToSet(References(c, keep))
    BY <1>6, ReferencesAre
  <2>2. N(x) \in DOMAIN t /\ t[N(x)] = Copy(m, x)
    BY <1>2, <1>6, <2>1
  <2>3. Linked(o).links[f] = Resolve(N(x), t)
    BY <1>4
  <2> HIDE DEF x, N
  <2>4. Linked(o).links[f] = Copy(m, x)
    BY <2>2, <2>3 DEF Resolve
  <2> QED BY <2>4 DEF x
<1>7. ASSUME NEW o \in S, NEW f \in Petrified(o[1]), Target[c][o][f] \notin S, m \notin others
      PROVE  Linked(o).links[f] = NULL
  <2> DEFINE x == Target[c][o][f]
  <2>1. N(x) \notin DOMAIN t
    <3> SUFFICES ASSUME N(x) \in DOMAIN t PROVE FALSE
      OBVIOUS
    <3>1. PICK y \in S : y \in ToSet(References(c, keep)) /\ N(x) = N(y)
      BY <1>2, <1>7
    <3>2. x = y
      BY <3>1, UidType
    <3> QED BY <1>7, <3>2
  <2>2. Linked(o).links[f] = Resolve(N(x), t)
    BY <1>4
  <2> HIDE DEF x, N
  <2> QED BY <2>1, <2>2 DEF Resolve
<1>8. \A r \in held : \A f \in Petrified(r.object[1]) :
        LET x == Target[c][r.object][f]
        IN  IF x \in S THEN r.links[f] = Copy(m, x) ELSE m \notin others => r.links[f] = NULL
  <2> TAKE r \in held
  <2>1. PICK o \in S : r = Linked(o)
    BY <1>3
  <2>2. r.object = o
    BY <1>4, <2>1
  <2> QED BY <1>6, <1>7, <2>1, <2>2
<1>9. Restored(m, c, S, held, others)
  BY <1>5, <1>8 DEF Restored
<1> QED BY <1>9 DEF held

LEMMA ReadFrame ==
  ASSUME UNCHANGED <<Setup, fileVars>>
  PROVE  \A k : Written(k)' = Written(k) /\ KeptObjects(k)' = KeptObjects(k)
BY DEF Setup, fileVars, Written, KeptObjects, KeptOf, Kept

\* An event stays as it was restored; what it does not resolve may be forgiven later.
LEMMA RestoredStays ==
  ASSUME NEW k, NEW c, NEW S, NEW held, NEW others, NEW more,
         Restored(k, c, S, held, others), k \in others => k \in more
  PROVE  Restored(k, c, S, held, more)
BY DEF Restored

LEMMA NoTable ==
  ASSUME TableInv, DOMAIN live = {}
  PROVE  DOMAIN table = {}
BY DEF TableInv

LEMMA NotReading ==
  ASSUME Inv, DOMAIN live = {}, UNCHANGED <<live, table>>
  PROVE  LiveInv' /\ TableInv' /\ DOMAIN live' = {}
<1>1. DOMAIN table = {}
  BY NoTable DEF Inv
<1>2. DOMAIN live' = {} /\ DOMAIN table' = {}
  BY <1>1
<1> QED BY <1>2 DEF LiveInv, TableInv

LEMMA SequenceFrame ==
  ASSUME SequenceInv, UNCHANGED <<Setup, pending, fileVars>>
  PROVE  SequenceInv'
<1>1. \A p : InOrderUpTo(p)' <=> InOrderUpTo(p)
  BY DEF InOrderUpTo, fileVars
<1>2. pending' = pending /\ inSequence' = inSequence
  BY DEF Setup
<1> QED BY <1>1, <1>2 DEF SequenceInv

LEMMA WriteInv ==
  ASSUME Inv, NEW n \in Events, Write(n) \/ Abort(n)
  PROVE  Inv'
<1>1. /\ phase = "write" /\ phase' = "write" /\ Turn(n) /\ pending' = pending \ {n}
      /\ UNCHANGED Setup /\ UNCHANGED <<live, table>>
  BY DEF Write, Abort, readVars
<1>2. FileInv /\ SequenceInv /\ DOMAIN live = {}
  BY <1>1 DEF Inv
<1>3. LiveInv' /\ TableInv' /\ DOMAIN live' = {}
  BY <1>1, <1>2, NotReading
<1>4. CASE Write(n)
  <2>1. WriteEvent(n) /\ eventTree' = Append(eventTree, n)
    BY <1>4 DEF Write, WriteEvent
  <2>2. FileInv'
    BY <1>1, <1>2, <2>1, WriteEventInv
  <2>3. SequenceInv'
    BY <1>1, <1>2, <2>1, TurnInOrder
  <2> QED BY <1>3, <2>2, <2>3 DEF Inv
<1>5. CASE Abort(n)
  <2>1. UNCHANGED fileVars /\ eventTree' = eventTree
    BY <1>5 DEF Abort, fileVars
  <2>2. FileInv'
    BY <1>1, <1>2, <2>1, FileFrame
  <2>3. SequenceInv'
    BY <1>1, <1>2, <2>1, TurnInOrder
  <2> QED BY <1>3, <2>2, <2>3 DEF Inv
<1> QED BY <1>4, <1>5

LEMMA CloseFileInv ==
  ASSUME Inv, CloseFile
  PROVE  Inv'
<1>1. /\ phase = "write" /\ UNCHANGED <<Setup, pending, fileVars>>
      /\ UNCHANGED <<Setup, fileVars>> /\ UNCHANGED <<live, table>>
  BY DEF CloseFile, readVars
<1>2. FileInv /\ SequenceInv /\ DOMAIN live = {}
  BY <1>1 DEF Inv
<1>3. LiveInv' /\ TableInv' /\ DOMAIN live' = {}
  BY <1>1, <1>2, NotReading
<1>4. FileInv' /\ SequenceInv'
  BY <1>1, <1>2, FileFrame, SequenceFrame
<1> QED BY <1>3, <1>4 DEF Inv

\* What the reading steps leave alone.
LEMMA ReadingFrame ==
  ASSUME Inv, phase' = phase, UNCHANGED <<Setup, pending, fileVars>>
  PROVE  /\ FileInv' /\ SequenceInv'
         /\ \A k : Written(k)' = Written(k) /\ KeptObjects(k)' = KeptObjects(k)
<1>1. UNCHANGED <<Setup, fileVars>>
  OBVIOUS
<1>2. FileInv' /\ SequenceInv'
  BY <1>1, FileFrame, SequenceFrame DEF Inv
<1> QED BY <1>1, <1>2, ReadFrame

LEMMA ReadInv ==
  ASSUME Inv, NEW m \in Events, Read(m)
  PROVE  Inv'
<1> DEFINE held == {Load(r, table') : r \in Records(m)}
<1>1. /\ phase = "read" /\ phase' = phase /\ UNCHANGED <<Setup, pending, fileVars>>
      /\ \A class \in TreesRead : EntryOf(m) <= entries[class]
      /\ table' = Register(m)
      /\ live' = [k \in DOMAIN live \cup {m} |-> IF k = m THEN held ELSE live[k]]
      /\ crowded' = IF DOMAIN live = {} THEN crowded ELSE crowded \cup {m}
  BY DEF Read
<1>2. FileInv /\ LiveInv /\ TableInv
  BY DEF Inv
<1>3. /\ FileInv' /\ SequenceInv'
      /\ \A k : Written(k)' = Written(k) /\ KeptObjects(k)' = KeptObjects(k)
  BY <1>1, ReadingFrame
<1>4. Records(m) = StoredIn(Written(m), filters.write, KeptObjects(m))
  BY <1>1, <1>2, RecordsExact
<1>5. Registered(table', table, Records(m), m)
  BY <1>1, RegisterIs
<1>6. \A u \in DOMAIN table' : \/ u \in DOMAIN table /\ table'[u] = table[u]
                               \/ u # 0 /\ table'[u].event = m
  BY <1>5, RegisteredTable
<1>7. DOMAIN live' = DOMAIN live \cup {m}
  BY <1>1
<1>8. TableInv'
  <2>1. ASSUME NEW u \in DOMAIN table'
        PROVE  u # 0 /\ table'[u].event \in DOMAIN live'
    BY <1>2, <1>6, <1>7 DEF TableInv
  <2> QED BY <2>1 DEF TableInv
<1>9. 0 \notin DOMAIN table'
  BY <1>8 DEF TableInv
<1>10. m \notin crowded' => DOMAIN table = {}
  BY <1>1, <1>2, NoTable
<1>11. Restored(m, Written(m), KeptObjects(m), held, crowded')
  <2>1. CASE m \in DOMAIN eventTree
    <3>1. Written(m) \in Contents /\ filters.write \in WriteFilters
      BY <1>2, <2>1, KeptType
    <3>2. \A o \in KeptObjects(m) : o \in ObjectsOf[Written(m)] /\ o[1] \in filters.write
      BY <2>1 DEF KeptObjects, KeptOf, Kept
    <3>3. Registered(table', table, StoredIn(Written(m), filters.write, KeptObjects(m)), m)
      BY <1>4, <1>5
    <3>4. Restored(m, Written(m), KeptObjects(m),
            {Load(r, table') : r \in StoredIn(Written(m), filters.write, KeptObjects(m))},
            crowded')
      BY <1>9, <1>10, <3>1, <3>2, <3>3, LoadRestores
    <3> QED BY <1>4, <3>4
  <2>2. CASE m \notin DOMAIN eventTree
    <3>1. KeptObjects(m) = {}
      BY <2>2 DEF KeptObjects
    <3>2. Records(m) = {}
      BY <1>4, <3>1 DEF StoredIn
    <3>3. held = {}
      BY <3>2
    <3> HIDE DEF held
    <3> QED BY <3>1, <3>3 DEF Restored
  <2> QED BY <2>1, <2>2
<1> HIDE DEF held
<1>12. ASSUME NEW k \in DOMAIN live'
       PROVE  k \in Events /\ Restored(k, Written(k)', KeptObjects(k)', live'[k], crowded')
  <2>1. CASE k = m
    BY <1>1, <1>3, <1>7, <1>11, <2>1
  <2>2. CASE k # m
    <3>1. k \in DOMAIN live /\ live'[k] = live[k]
      BY <1>1, <1>7, <1>12, <2>2
    <3>2. k \in Events /\ Restored(k, Written(k), KeptObjects(k), live[k], crowded)
      BY <1>2, <3>1 DEF LiveInv
    <3>3. k \in crowded => k \in crowded'
      BY <1>1
    <3>4. Restored(k, Written(k), KeptObjects(k), live[k], crowded')
      BY <3>2, <3>3, RestoredStays
    <3> QED BY <1>3, <3>1, <3>2, <3>4
  <2> QED BY <2>1, <2>2
<1>13. LiveInv'
  BY <1>12 DEF LiveInv
<1> QED BY <1>1, <1>3, <1>8, <1>13 DEF Inv

LEMMA EndOfRunInv ==
  ASSUME Inv, NEW m \in Events, EndOfRun(m)
  PROVE  Inv'
<1>1. /\ phase = "read" /\ phase' = phase /\ UNCHANGED <<Setup, pending, fileVars>>
      /\ live' = live /\ table' = table /\ crowded' = crowded
  BY DEF EndOfRun
<1>2. /\ FileInv' /\ SequenceInv'
      /\ \A k : Written(k)' = Written(k) /\ KeptObjects(k)' = KeptObjects(k)
  BY <1>1, ReadingFrame
<1>3. LiveInv' /\ TableInv'
  BY <1>1, <1>2 DEF Inv, LiveInv, TableInv
<1> QED BY <1>1, <1>2, <1>3 DEF Inv

LEMMA FinishInv ==
  ASSUME Inv, NEW m \in Events, Finish(m)
  PROVE  Inv'
<1>1. /\ m \in DOMAIN live /\ phase' = phase /\ UNCHANGED <<Setup, pending, fileVars>>
      /\ live' = Restrict(live, DOMAIN live \ {m})
      /\ table' = Restrict(table, Remaining(m)) /\ crowded' = crowded
  BY DEF Finish
<1>2. FileInv /\ LiveInv /\ TableInv /\ phase # "write"
  BY <1>1 DEF Inv
<1>3. /\ FileInv' /\ SequenceInv'
      /\ \A k : Written(k)' = Written(k) /\ KeptObjects(k)' = KeptObjects(k)
  BY <1>1, ReadingFrame
<1>4. /\ DOMAIN live' = DOMAIN live \ {m}
      /\ \A k \in DOMAIN live' : live'[k] = live[k]
  BY <1>1 DEF Restrict
<1>5. \A u \in DOMAIN table' :
        u \in DOMAIN table /\ table'[u] = table[u] /\ table[u].event # m
  BY <1>1 DEF Restrict, Remaining
<1>6. TableInv'
  <2>1. \A u \in DOMAIN table' : u # 0 /\ table'[u].event \in DOMAIN live'
    BY <1>2, <1>4, <1>5 DEF TableInv
  <2> QED BY <2>1 DEF TableInv
<1>7. LiveInv'
  <2>1. \A k \in DOMAIN live' :
          k \in Events /\ Restored(k, Written(k)', KeptObjects(k)', live'[k], crowded')
    BY <1>1, <1>2, <1>3, <1>4 DEF LiveInv
  <2> QED BY <2>1 DEF LiveInv
<1> QED BY <1>1, <1>2, <1>3, <1>6, <1>7 DEF Inv

LEMMA NextInv == Inv /\ [Next]_vars => Inv'
<1> SUFFICES ASSUME Inv, [Next]_vars PROVE Inv'
  OBVIOUS
<1>1. ASSUME NEW n \in Events, Write(n) \/ Abort(n)
      PROVE  Inv'
  BY <1>1, WriteInv
<1>2. CASE CloseFile
  BY <1>2, CloseFileInv
<1>3. ASSUME NEW m \in Events, Read(m)
      PROVE  Inv'
  BY <1>3, ReadInv
<1>4. ASSUME NEW m \in Events, EndOfRun(m)
      PROVE  Inv'
  BY <1>4, EndOfRunInv
<1>5. ASSUME NEW m \in Events, Finish(m)
      PROVE  Inv'
  BY <1>5, FinishInv
<1>6. CASE UNCHANGED vars
  <2>1. /\ phase' = phase /\ UNCHANGED <<Setup, pending, fileVars>>
        /\ live' = live /\ table' = table /\ crowded' = crowded
    BY <1>6 DEF vars, Setup, readVars
  <2>2. /\ FileInv' /\ SequenceInv'
        /\ \A k : Written(k)' = Written(k) /\ KeptObjects(k)' = KeptObjects(k)
    BY <2>1, ReadingFrame
  <2>3. LiveInv' /\ TableInv'
    BY <2>1, <2>2 DEF Inv, LiveInv, TableInv
  <2> QED BY <2>1, <2>2, <2>3 DEF Inv
<1> QED BY <1>1, <1>2, <1>3, <1>4, <1>5, <1>6 DEF Next

-----------------------------------------------------------------------------
(* The properties of ObjectStore.                                          *)

\* At any time of the two jobs, for any contents, filters and aborted events.
LEMMA StoreInvariant == Spec => []Inv
<1>1. Init => Inv
  BY InitInv
<1>2. Inv /\ [Next]_vars => Inv'
  BY NextInv
<1> QED BY <1>1, <1>2, PTL DEF Spec

LEMMA InvAligned == Inv => TreesAligned
<1> SUFFICES ASSUME Inv PROVE TreesAligned
  OBVIOUS
<1>1. \A class \in DOMAIN entries : entries[class] = Len(eventTree)
  BY DEF Inv, FileInv
<1>2. ASSUME NEW b \in DOMAIN columns
      PROVE  Len(columns[b]) = Len(eventTree)
  <2> DEFINE Of(i) == EntryFor(content[eventTree[i]], filters.write, b)
             X == {Of(i) : i \in 1 .. Len(eventTree)}
  <2>1. columns[b] = [i \in 1 .. Len(eventTree) |-> Of(i)] /\ Len(eventTree) \in Nat
    BY DEF Inv, FileInv
  <2> HIDE DEF Of
  <2>2. \A i \in 1 .. Len(eventTree) : Of(i) \in X
    OBVIOUS
  <2> HIDE DEF X
  <2>3. columns[b] \in [1 .. Len(eventTree) -> X]
    BY <2>1, <2>2
  <2> QED BY <2>1, <2>3
<1> QED BY <1>1, <1>2 DEF TreesAligned

LEMMA InvReadBack == Inv => ReadBackExact
<1> SUFFICES ASSUME Inv, NEW m \in DOMAIN live
             PROVE  /\ {r.object : r \in live[m]} = KeptObjects(m)
                    /\ inSequence /\ Len(eventTree) = NumEvents
                         => {r.object : r \in live[m]} = KeptOf(content[m])
  BY DEF ReadBackExact
<1>1. m \in Events /\ {r.object : r \in live[m]} = KeptObjects(m)
  BY DEF Inv, LiveInv, Restored
<1>2. ASSUME inSequence, Len(eventTree) = NumEvents
      PROVE  KeptObjects(m) = KeptOf(content[m])
  <2>1. NumEvents \in Nat /\ m \in 1 .. NumEvents
    BY <1>1, EventsAssumption DEF Events
  <2>2. PICK p \in 1 .. NumEvents + 1 : InOrderUpTo(p)
    BY <1>2 DEF Inv, SequenceInv
  <2>3. p - 1 = NumEvents
    BY <1>2, <2>1, <2>2 DEF InOrderUpTo
  <2>4. eventTree[m] = m
    BY <1>2, <2>1, <2>2, <2>3 DEF InOrderUpTo
  <2>5. m \in DOMAIN eventTree
    BY <1>2, <2>1 DEF Inv, FileInv
  <2> QED BY <2>4, <2>5 DEF KeptObjects, Written
<1> QED BY <1>1, <1>2

\* ReadBackExact: a reading job gets, with entry m, exactly the kept objects of
\* the m-th event written (ROOTObjectWriterModule::run() with its prefilling of
\* new trees and branches, ROOTObjectReaderModule::run()).
THEOREM ReadBackExactHolds == Spec => []ReadBackExact
BY StoreInvariant, InvReadBack, PTL

\* TreesAligned: all trees and branches have one entry per event written.
THEOREM TreesAlignedHolds == Spec => []TreesAligned
BY StoreInvariant, InvAligned, PTL

\* LinksRestored: every pointer that was stored leads to the object of its own
\* event, whatever other events put into the process table (petrifyHistory(),
\* loadHistory() and the reset of the reference numbers in every event).
THEOREM LinksRestoredHolds == Spec => []LinksRestored
<1>1. Inv => LinksRestored
  <2> SUFFICES ASSUME Inv, NEW m \in DOMAIN live, NEW r \in live[m],
                      NEW f \in Petrified(r.object[1])
               PROVE  LET t == Target[Written(m)][r.object][f]
                      IN  IF t \in KeptObjects(m) THEN r.links[f] = Copy(m, t)
                          ELSE m \notin crowded => r.links[f] = NULL
    BY DEF LinksRestored
  <2>1. Restored(m, Written(m), KeptObjects(m), live[m], crowded)
    BY DEF Inv, LiveInv
  <2> QED BY <2>1 DEF Restored
<1> QED BY <1>1, StoreInvariant, PTL

-----------------------------------------------------------------------------
(* InputReaders.  Sequences whose elements are in an order, given as a set *)
(* of pairs.                                                               *)

Pairwise(s, R) == \A i, j \in DOMAIN s : i < j => <<s[i], s[j]>> \in R
Across(s, t, R) == \A x \in ToSet(s) : \A y \in ToSet(t) : <<x, y>> \in R

LEMMA PairwiseConcat ==
  ASSUME NEW X, NEW s \in Seq(X), NEW t \in Seq(X), NEW R,
         Pairwise(s, R), Pairwise(t, R), Across(s, t, R)
  PROVE  Pairwise(s \o t, R)
<1> DEFINE u == s \o t
<1>1. /\ Len(s) \in Nat /\ Len(t) \in Nat
      /\ DOMAIN s = 1 .. Len(s) /\ DOMAIN t = 1 .. Len(t)
      /\ DOMAIN u = 1 .. (Len(s) + Len(t))
      /\ \A k \in 1 .. (Len(s) + Len(t)) : u[k] = IF k <= Len(s) THEN s[k] ELSE t[k - Len(s)]
  OBVIOUS
<1> HIDE DEF u
<1> SUFFICES ASSUME NEW i \in DOMAIN u, NEW j \in DOMAIN u, i < j
             PROVE  <<u[i], u[j]>> \in R
  BY DEF Pairwise, u
<1>2. CASE j <= Len(s)
  <2>1. i \in DOMAIN s /\ j \in DOMAIN s /\ u[i] = s[i] /\ u[j] = s[j]
    BY <1>1, <1>2
  <2> QED BY <2>1 DEF Pairwise
<1>3. CASE ~(i <= Len(s))
  <2> DEFINE k == i - Len(s)
             l == j - Len(s)
  <2>1. k \in DOMAIN t /\ l \in DOMAIN t /\ k < l /\ u[i] = t[k] /\ u[j] = t[l]
    BY <1>1, <1>3
  <2> HIDE DEF k, l
  <2> QED BY <2>1 DEF Pairwise
<1>4. CASE i <= Len(s) /\ ~(j <= Len(s))
  <2> DEFINE l == j - Len(s)
  <2>1. i \in DOMAIN s /\ l \in DOMAIN t /\ u[i] = s[i] /\ u[j] = t[l]
    BY <1>1, <1>4
  <2> HIDE DEF l
  <2>2. u[i] \in ToSet(s) /\ u[j] \in ToSet(t)
    BY <2>1 DEF ToSet
  <2> QED BY <2>2 DEF Across
<1> QED BY <1>2, <1>3, <1>4

LEMMA PairwiseFlatten ==
  ASSUME NEW X, NEW ss \in Seq(Seq(X)), NEW R,
         \A i \in DOMAIN ss : Pairwise(ss[i], R),
         \A i, j \in DOMAIN ss : i < j => Across(ss[i], ss[j], R)
  PROVE  Pairwise(FlattenSeq(ss), R)
<1> DEFINE n == Len(ss)
<1>1. /\ n \in Nat /\ DOMAIN ss = 1 .. n /\ \A i \in 1 .. n : ss[i] \in Seq(X)
  OBVIOUS
<1>2. CASE ss = <<>>
  <2>1. FlattenSeq(ss) = <<>>
    BY <1>2 DEF FlattenSeq
  <2> QED BY <2>1 DEF Pairwise
<1>3. CASE ss # <<>>
  <2>1. PICK F : /\ FlattenSeq(ss) = F[n]
                 /\ F[1] = ss[1]
                 /\ \A i \in 1 .. n : i # 1 => F[i] = F[i - 1] \o ss[i]
    BY <1>3, FlattenSteps
  <2>2. n # 0
    BY <1>3
  <2> HIDE DEF n
  <2> DEFINE Below(k) == \A j \in k + 1 .. n : Across(F[k], ss[j], R)
             P == {k \in 1 .. n : F[k] \in Seq(X) /\ Pairwise(F[k], R) /\ Below(k)}
  <2>3. 1 \in P
    <3>1. 1 \in 1 .. n
      BY <1>1, <2>2
    <3>2. ASSUME NEW j \in 1 + 1 .. n
          PROVE  Across(ss[1], ss[j], R)
      <4>1. j \in DOMAIN ss /\ 1 \in DOMAIN ss /\ 1 < j
        BY <1>1, <3>1
      <4> QED BY <4>1
    <3> QED BY <1>1, <2>1, <3>1, <3>2
  <2>4. ASSUME NEW i \in 1 .. n, i # 1, i - 1 \in P
        PROVE  i \in P
    <3> DEFINE s == F[i - 1]
               t == ss[i]
    <3>1. s \in Seq(X) /\ Pairwise(s, R) /\ Below(i - 1)
      BY <2>4
    <3>2. t \in Seq(X) /\ Pairwise(t, R) /\ F[i] = s \o t
      BY <1>1, <2>1, <2>4
    <3>3. Across(s, t, R)
      <4>1. i \in (i - 1) + 1 .. n
        BY <1>1, <2>4
      <4> HIDE DEF s, t
      <4> QED BY <3>1, <4>1 DEF s, t
    <3>4. ASSUME NEW j \in i + 1 .. n
          PROVE  Across(F[i], ss[j], R)
      <4>1. j \in (i - 1) + 1 .. n /\ i \in DOMAIN ss /\ j \in DOMAIN ss /\ i < j
        BY <1>1, <2>4
      <4>2. Across(s, ss[j], R)
        <5> HIDE DEF s
        <5> QED BY <3>1, <4>1 DEF s
      <4>3. Across(t, ss[j], R)
        BY <4>1
      <4> HIDE DEF s, t
      <4>4. ToSet(F[i]) = ToSet(s) \union ToSet(t)
        BY <3>1, <3>2, ConcatRange
      <4> QED BY <4>2, <4>3, <4>4 DEF Across
    <3> HIDE DEF s, t
    <3>5. F[i] \in Seq(X) /\ Pairwise(F[i], R)
      BY <3>1, <3>2, <3>3, PairwiseConcat, ConcatRange
    <3> QED BY <3>4, <3>5
  <2>5. 1 .. n \subseteq P
    <3> HIDE DEF P
    <3> QED BY <1>1, <2>3, <2>4, Stepwise
  <2>6. n \in 1 .. n
    BY <1>1, <2>2
  <2> QED BY <2>1, <2>5, <2>6
<1> QED BY <1>2, <1>3

\* A part of a sequence in order is in order.
LEMMA PairwiseOnly ==
  ASSUME NEW X, NEW s \in Seq(X), NEW S, NEW R, Pairwise(s, R)
  PROVE  Pairwise(Only(s, S), R)
<1> DEFINE ss == [i \in DOMAIN s |-> IF s[i] \in S THEN <<s[i]>> ELSE <<>>]
<1>1. DOMAIN s = 1 .. Len(s) /\ Len(s) \in Nat /\ \A i \in 1 .. Len(s) : s[i] \in X
  OBVIOUS
<1>2. \A x \in X : <<x>> \in Seq(X) /\ ToSet(<<x>>) = {x} /\ Pairwise(<<x>>, R)
  BY DEF ToSet, Pairwise
<1>3. <<>> \in Seq(X) /\ ToSet(<<>>) = {} /\ Pairwise(<<>>, R)
  BY DEF ToSet, Pairwise
<1>4. \A i \in 1 .. Len(s) : /\ ss[i] \in Seq(X) /\ Pairwise(ss[i], R)
                             /\ \A x \in ToSet(ss[i]) : x = s[i]
  BY <1>1, <1>2, <1>3
<1>5. ss \in [1 .. Len(s) -> Seq(X)] /\ DOMAIN ss = 1 .. Len(s)
  <2>1. DOMAIN ss = 1 .. Len(s) /\ ss = [i \in 1 .. Len(s) |-> ss[i]]
    BY <1>1
  <2> HIDE DEF ss
  <2> QED BY <1>4, <2>1
<1>6. Only(s, S) = FlattenSeq(ss)
  BY DEF Only
<1> HIDE DEF ss
<1>7. ss \in Seq(Seq(X))
  BY <1>1, <1>5
<1>8. \A i, j \in DOMAIN ss : i < j => Across(ss[i], ss[j], R)
  <2> TAKE i, j \in DOMAIN ss
  <2> HAVE i < j
  <2>1. <<s[i], s[j]>> \in R
    BY <1>1, <1>5 DEF Pairwise
  <2> QED BY <1>4, <1>5, <2>1 DEF Across
<1>9. \A i \in DOMAIN ss : Pairwise(ss[i], R)
  BY <1>4, <1>5
<1> QED BY <1>6, <1>7, <1>8, <1>9, PairwiseFlatten

-----------------------------------------------------------------------------
(* The invariant of InputReaders.                                          *)

ById == {p \in Items \X Items : p[1].id < p[2].id}

ItemsOf(m) == [i \in DOMAIN m.deposits |-> m.deposits[i].item]

\* An item that counts, and one of record j that does.
Counts(f, x) == x.inside /\ (f \in Deposited => x.detector \in Detectors)
Holds(f, rs, j, x) == x \in ToSet(rs[j].items) /\ Counts(f, x)

\* What each event was given and, last, what the event being read has in hand.
Handed(del, col, p) ==
    [n \in 1 .. Len(del) + (IF p = "read" THEN 1 ELSE 0) |->
       IF n <= Len(del) THEN ItemsOf(del[n]) ELSE col]

\* Regular and read whole, of any file; and what holds of the event that gets items of number r.
RegularFile(f, c, w, k) ==
    /\ w
    /\ \A i \in DOMAIN c : c[i].number = i - 1
    /\ k = 0 \/ f = "HEPMC"
    /\ f = "BLOCKS" => \A i \in DOMAIN c : c[i].items # <<>>
Fits(f, c, w, k, r, n) ==
    /\ f \in {"ROOT"} \cup Generated => r + 1 <= k + n
    /\ RegularFile(f, c, w, k) => r + 1 = k + n

\* Items come from the records before nx and fit; they are in the order of the file;
\* readers of deposits leave none out.
Sourced(f, c, w, k, rs, hs, nx) ==
    \A n \in DOMAIN hs : \A x \in ToSet(hs[n]) : \E j \in 1 .. nx - 1 :
      Holds(f, rs, j, x) /\ Fits(f, c, w, k, rs[j].number, n)
Sorted(hs) ==
    /\ \A n \in DOMAIN hs : Pairwise(hs[n], ById)
    /\ \A m, n \in DOMAIN hs : m < n => Across(hs[m], hs[n], ById)
Taken(f, rs, hs, nx) ==
    f \in Deposited => \A j \in 1 .. nx - 1 : \A x \in ToSet(rs[j].items) :
      Counts(f, x) => \E n \in DOMAIN hs : x \in ToSet(hs[n])
Book(f, c, w, k, rs, hs, nx) ==
    Sourced(f, c, w, k, rs, hs, nx) /\ Sorted(hs) /\ Taken(f, rs, hs, nx)

\* Generators: all items of its number are given to an event.
Complete(f, k, rs, hs, given) ==
    f \in Generated => \A n \in 1 .. given : \A j \in DOMAIN rs :
      rs[j].number + 1 = k + n => \A x \in ToSet(rs[j].items) :
        Counts(f, x) => x \in ToSet(hs[n])

\* A regular file: the records before nx have numbers below that of the event that is
\* read, one more if this event has begun, and the others have not, but HepMC files
\* can be entered later.
Bounds(f, rs, base, begun, nx) ==
    /\ f # "HEPMC" => \A j \in nx .. Len(rs) : base <= rs[j].number
    /\ f # "ROOT" => \A j \in 1 .. nx - 1 : rs[j].number < base + begun

\* The next record to give: HepMC reads one ahead.
NextRecord == IF format = "HEPMC" /\ block # NULL /\ pc = "read" THEN block ELSE position
Begun == IF format = "CSV" \/ (format = "BLOCKS" /\ pc = "read" /\ block # NULL) THEN 1 ELSE 0
InHands == Handed(delivered, collected, pc)

InputTypeInv ==
    /\ format \in Formats /\ file \in Files /\ skip \in Skips
    /\ Len(delivered) \in Nat
    /\ delivered = [n \in 1 .. Len(delivered) |-> delivered[n]]
    /\ \A n \in 1 .. Len(delivered) : ItemsOf(delivered[n]) \in Seq(Items)
    /\ collected \in Seq(Items)
    /\ number = skip + Len(delivered) + (IF pc = "read" THEN 1 ELSE 0)
    /\ pc \in {"idle", "read", "end"}
    /\ position \in 1 .. Len(Input) + 1
    /\ block \in Nat \cup {NULL}
    /\ format \in Generated => collected = <<>>
    /\ format = "HEPMC" /\ block # NULL => block \in DOMAIN Input /\ position = block + 1
    /\ format = "GENIE" => block = NULL
    /\ newline \in BOOLEAN /\ (newline \/ format = "CSV") /\ position <= Readable + 1
    /\ pc = "end" /\ format \in Deposited => position = Readable + 1

GivenInv == Book(format, file, newline, skip, Input, InHands, NextRecord)

RegularInv == RegularFile(format, file, newline, skip) =>
    /\ Complete(format, skip, Input, InHands, Len(delivered))
    /\ Bounds(format, Input, skip + Len(delivered), Begun, NextRecord)
    /\ format = "BLOCKS" /\ pc = "read" /\ block # NULL => block = skip + Len(delivered)

\* The particles of some deposits: all charge of the track in the detector, and the
\* parent of its first deposit; and the messages with them.
FirstOf(items, p) == CHOOSE i \in DOMAIN items :
    ParticleOf(items[i]) = p /\ \A l \in DOMAIN items : ParticleOf(items[l]) = p => i <= l
ParticlesFor(items) == [p \in {ParticleOf(x) : x \in ToSet(items)} |->
    [charge |-> ChargeOf(items, p[1], p[2]), parent |-> items[FirstOf(items, p)].parent]]
MessageFor(items, ps) ==
    [deposits |-> [i \in DOMAIN items |-> [item |-> items[i], particle |-> ParticleOf(items[i])]],
     particles |-> [p \in DOMAIN ps |-> [charge |-> ps[p].charge, parent |-> Parent(ps, p)]]]

ParticleInv ==
    /\ particles = ParticlesFor(collected)
    /\ format \in Deposited => \A n \in DOMAIN delivered :
         LET items == ItemsOf(delivered[n])
         IN  delivered[n] = MessageFor(items, ParticlesFor(items))

InputInv == InputTypeInv /\ GivenInv /\ RegularInv /\ ParticleInv

-----------------------------------------------------------------------------
(* Sequences of items in order: they are known by the items they have.     *)

LEMMA SameSoFar ==
  ASSUME NEW s \in Seq(Items), NEW t \in Seq(Items),
         Pairwise(s, ById), Pairwise(t, ById), ToSet(s) = ToSet(t),
         NEW i \in DOMAIN s,
         \A l \in 1 .. i - 1 : l \in DOMAIN t /\ t[l] = s[l]
  PROVE  i \in DOMAIN t /\ t[i] = s[i]
<1>1. /\ Len(s) \in Nat /\ DOMAIN s = 1 .. Len(s) /\ \A l \in DOMAIN s : s[l] \in Items
      /\ Len(t) \in Nat /\ DOMAIN t = 1 .. Len(t) /\ \A l \in DOMAIN t : t[l] \in Items
  OBVIOUS
<1>2. \A x \in Items : x.id \in Nat
  BY DEF Items
<1>3. \A k, l \in DOMAIN s : k < l => s[k].id < s[l].id
  BY DEF Pairwise, ById
<1>4. \A k, l \in DOMAIN t : k < l => t[k].id < t[l].id
  BY DEF Pairwise, ById
<1>5. PICK j \in DOMAIN t : s[i] = t[j]
  BY DEF ToSet
<1>6. ~(j < i)
  <2> SUFFICES ASSUME j < i PROVE FALSE
    OBVIOUS
  <2>1. j \in 1 .. i - 1 /\ j \in DOMAIN s
    BY <1>1
  <2>2. s[j] = s[i]
    BY <1>5, <2>1
  <2>3. s[j].id < s[i].id /\ s[i].id \in Nat
    BY <1>1, <1>2, <1>3, <2>1
  <2> QED BY <2>2, <2>3
<1>7. i \in DOMAIN t
  BY <1>1, <1>5, <1>6
<1>8. PICK l \in DOMAIN s : t[i] = s[l]
  BY <1>7 DEF ToSet
<1>9. ~(l < i)
  <2> SUFFICES ASSUME l < i PROVE FALSE
    OBVIOUS
  <2>1. l \in 1 .. i - 1
    BY <1>1
  <2>2. l \in DOMAIN t /\ t[l] = t[i]
    BY <1>8, <2>1
  <2>3. t[l].id < t[i].id /\ t[i].id \in Nat
    BY <1>1, <1>2, <1>4, <1>7, <2>2
  <2> QED BY <2>2, <2>3
<1>10. CASE j = i
  BY <1>5, <1>7, <1>10
<1>11. CASE j # i
  <2>1. i < j
    BY <1>1, <1>6, <1>11
  <2>2. t[i].id < t[j].id
    BY <1>4, <1>7, <2>1
  <2>3. CASE l = i
    BY <1>7, <1>8, <2>3
  <2>4. CASE l # i
    <3>1. i < l
      BY <1>1, <1>9, <2>4
    <3>2. s[i].id < s[l].id
      BY <1>3, <3>1
    <3>3. s[i].id \in Nat /\ t[i].id \in Nat
      BY <1>1, <1>2, <1>7
    <3> QED BY <1>5, <1>8, <2>2, <3>2, <3>3
  <2> QED BY <2>3, <2>4
<1> QED BY <1>10, <1>11

LEMMA SameInterval ==
  ASSUME NEW a \in Nat, NEW b \in Nat, 1 .. a = 1 .. b
  PROVE  a = b
<1>1. a = 0 \/ a \in 1 .. b
  <2>1. a = 0 \/ a \in 1 .. a
    OBVIOUS
  <2> QED BY <2>1
<1>2. b = 0 \/ b \in 1 .. a
  <2>1. b = 0 \/ b \in 1 .. b
    OBVIOUS
  <2> QED BY <2>1
<1>3. a <= b /\ b <= a
  BY <1>1, <1>2
<1> QED BY <1>3

LEMMA SortedUnique ==
  ASSUME NEW s \in Seq(Items), NEW t \in Seq(Items),
         Pairwise(s, ById), Pairwise(t, ById), ToSet(s) = ToSet(t)
  PROVE  s = t
<1>1. /\ Len(s) \in Nat /\ DOMAIN s = 1 .. Len(s)
      /\ Len(t) \in Nat /\ DOMAIN t = 1 .. Len(t)
  OBVIOUS
<1> DEFINE Same(i) == i \in DOMAIN s /\ i \in DOMAIN t /\ s[i] = t[i]
           bad == {i \in DOMAIN s \union DOMAIN t : ~Same(i)}
<1>2. bad = {}
  <2> SUFFICES ASSUME bad # {} PROVE FALSE
    OBVIOUS
  <2>1. bad \subseteq Nat
    BY <1>1
  <2>2. PICK i \in bad : \A l \in bad : i <= l
    <3> HIDE DEF bad
    <3> QED BY <2>1, LeastNat
  <2>3. i \in Nat /\ i # 0 /\ i \in DOMAIN s \union DOMAIN t /\ ~Same(i)
    BY <1>1, <2>2
  <2>4. \A l \in 1 .. i - 1 : l \in DOMAIN s \union DOMAIN t /\ l \notin bad
    BY <1>1, <2>2, <2>3
  <2>5. \A l \in 1 .. i - 1 : Same(l)
    BY <2>4
  <2>6. CASE i \in DOMAIN s
    <3>1. \A l \in 1 .. i - 1 : l \in DOMAIN t /\ t[l] = s[l]
      BY <2>5
    <3>2. i \in DOMAIN t /\ t[i] = s[i]
      BY <2>6, <3>1, SameSoFar
    <3> QED BY <2>3, <2>6, <3>2
  <2>7. CASE i \in DOMAIN t
    <3>1. \A l \in 1 .. i - 1 : l \in DOMAIN s /\ s[l] = t[l]
      BY <2>5
    <3>2. i \in DOMAIN s /\ s[i] = t[i]
      BY <2>7, <3>1, SameSoFar
    <3> QED BY <2>3, <2>7, <3>2
  <2> QED BY <2>3, <2>6, <2>7
<1>3. DOMAIN s = DOMAIN t /\ \A i \in DOMAIN s : s[i] = t[i]
  BY <1>2
<1>4. Len(s) = Len(t)
  BY <1>1, <1>3, SameInterval
<1> QED BY <1>1, <1>3, <1>4, SeqEqual

-----------------------------------------------------------------------------
(* The records of a file.                                                  *)

Recs == [kind : {"header", "deposit", "event"}, number : Nat, items : Seq(Items)]

\* A record before another one: headers and entries start a later number.
InOrder == {p \in Recs \X Recs :
    /\ p[1].number <= p[2].number
    /\ p[2].kind # "deposit" => p[1].number < p[2].number
    /\ Across(p[1].items, p[2].items, ById)}

\* The kinds of records that a format has.
KindOf(f, r) ==
    /\ f \in {"ROOT", "BLOCKS"} => r.kind = "deposit"
    /\ f = "CSV" => r.kind \in {"header", "deposit"}
    /\ f \in Generated => r.kind = "event"
    /\ r.kind = "header" => r.items = <<>>
    /\ r.kind = "deposit" => Len(r.items) = 1

\* The records of an event, of the file or of one of its events.
RecordsAre(f, rs, e) ==
    /\ rs \in Seq(Recs)
    /\ \A r \in ToSet(rs) : /\ r.number = e.number /\ ToSet(r.items) \subseteq ToSet(e.items)
                            /\ KindOf(f, r) /\ Pairwise(r.items, ById)
    /\ \A x \in ToSet(e.items) : \E r \in ToSet(rs) : x \in ToSet(r.items)
    /\ f = "CSV" => \E r \in ToSet(rs) : r.kind = "header"
    /\ f \in Generated => \E r \in ToSet(rs) : r.kind = "event"

LEMMA DepositRecords ==
  ASSUME NEW e, e.number \in Nat, e.items \in Seq(Items), Pairwise(e.items, ById)
  PROVE  /\ Deposits(e) \in Seq(Recs) /\ Pairwise(Deposits(e), InOrder)
         /\ \A r \in ToSet(Deposits(e)) : /\ r.number = e.number /\ r.kind = "deposit"
                                          /\ Len(r.items) = 1 /\ Pairwise(r.items, ById)
                                          /\ ToSet(r.items) \subseteq ToSet(e.items)
         /\ \A x \in ToSet(e.items) : \E r \in ToSet(Deposits(e)) : x \in ToSet(r.items)
<1> DEFINE s == e.items
           rec(i) == Record("deposit", e, <<s[i]>>)
           ds == [i \in 1 .. Len(s) |-> rec(i)]
<1>1. Len(s) \in Nat /\ DOMAIN s = 1 .. Len(s) /\ \A i \in 1 .. Len(s) : s[i] \in Items
  OBVIOUS
<1>2. Deposits(e) = ds
  BY <1>1 DEF Deposits
<1>3. \A x \in Items : <<x>> \in Seq(Items) /\ ToSet(<<x>>) = {x} /\ Len(<<x>>) = 1
                       /\ Pairwise(<<x>>, ById)
  BY DEF ToSet, Pairwise
<1>4. \A i \in 1 .. Len(s) : /\ rec(i).kind = "deposit" /\ rec(i).number = e.number
                             /\ rec(i).items = <<s[i]>> /\ rec(i) \in Recs
  <2> TAKE i \in 1 .. Len(s)
  <2>1. <<s[i]>> \in Seq(Items)
    BY <1>1, <1>3
  <2> QED BY <2>1 DEF Record, Recs
<1> HIDE DEF rec
<1>5. DOMAIN ds = 1 .. Len(s) /\ \A i \in 1 .. Len(s) : ds[i] = rec(i)
  OBVIOUS
<1>6. ds \in Seq(Recs)
  BY <1>1, <1>4
<1> HIDE DEF ds
<1>7. Pairwise(ds, InOrder)
  <2> SUFFICES ASSUME NEW i \in DOMAIN ds, NEW j \in DOMAIN ds, i < j
               PROVE  <<ds[i], ds[j]>> \in InOrder
    BY DEF Pairwise
  <2>1. i \in 1 .. Len(s) /\ j \in 1 .. Len(s)
    BY <1>5
  <2>2. <<s[i], s[j]>> \in ById
    BY <1>1, <2>1 DEF Pairwise
  <2>3. Across(<<s[i]>>, <<s[j]>>, ById)
    BY <1>1, <1>3, <2>1, <2>2 DEF Across
  <2>4. ds[i] \in Recs /\ ds[j] \in Recs /\ ds[i].items = <<s[i]>> /\ ds[j].items = <<s[j]>>
        /\ ds[i].number = e.number /\ ds[j].number = e.number /\ ds[j].kind = "deposit"
    BY <1>4, <1>5, <2>1
  <2> QED BY <2>3, <2>4 DEF InOrder
<1>8. \A r \in ToSet(ds) : \E i \in 1 .. Len(s) : r = rec(i)
  BY <1>5 DEF ToSet
<1>9. \A i \in 1 .. Len(s) : s[i] \in ToSet(s) /\ rec(i) \in ToSet(ds)
  BY <1>1, <1>5 DEF ToSet
<1>10. \A r \in ToSet(ds) : /\ r.number = e.number /\ r.kind = "deposit"
                            /\ Len(r.items) = 1 /\ Pairwise(r.items, ById)
                            /\ ToSet(r.items) \subseteq ToSet(s)
  <2> TAKE r \in ToSet(ds)
  <2>1. PICK i \in 1 .. Len(s) : r = rec(i)
    BY <1>8
  <2> QED BY <1>1, <1>3, <1>4, <1>9, <2>1
<1>11. \A x \in ToSet(s) : \E r \in ToSet(ds) : x \in ToSet(r.items)
  <2> TAKE x \in ToSet(s)
  <2>1. PICK i \in 1 .. Len(s) : x = s[i]
    BY <1>1 DEF ToSet
  <2>2. x \in ToSet(rec(i).items)
    BY <1>1, <1>3, <1>4, <2>1
  <2> QED BY <1>9, <2>2
<1> QED BY <1>2, <1>6, <1>7, <1>10, <1>11

LEMMA EventRecords ==
  ASSUME NEW f \in Deposited \union Generated, NEW e, e.number \in Nat, e.items \in Seq(Items),
         Pairwise(e.items, ById)
  PROVE  RecordsAre(f, RecordsOf(e, f), e) /\ Pairwise(RecordsOf(e, f), InOrder)
<1> DEFINE h == Record("header", e, <<>>)
           g == Record("event", e, e.items)
           ds == Deposits(e)
<1>1. /\ ds \in Seq(Recs) /\ Pairwise(ds, InOrder)
      /\ \A r \in ToSet(ds) : /\ r.number = e.number /\ r.kind = "deposit"
                              /\ Len(r.items) = 1 /\ Pairwise(r.items, ById)
                              /\ ToSet(r.items) \subseteq ToSet(e.items)
      /\ \A x \in ToSet(e.items) : \E r \in ToSet(ds) : x \in ToSet(r.items)
  BY DepositRecords
<1>2. \A r \in Recs : <<r>> \in Seq(Recs) /\ ToSet(<<r>>) = {r} /\ Pairwise(<<r>>, InOrder)
  BY DEF ToSet, Pairwise
<1>3. <<>> \in Seq(Items) /\ ToSet(<<>>) = {} /\ Pairwise(<<>>, ById)
  BY DEF ToSet, Pairwise
<1>4. h \in Recs /\ h.kind = "header" /\ h.number = e.number /\ h.items = <<>>
  BY <1>3 DEF Record, Recs
<1>5. g \in Recs /\ g.kind = "event" /\ g.number = e.number /\ g.items = e.items
  BY DEF Record, Recs
<1> HIDE DEF h, g, ds
<1>6. \A r \in ToSet(ds) : r \in Recs
  BY <1>1 DEF ToSet
<1>7. CASE f \in {"ROOT", "BLOCKS"}
  <2>1. RecordsOf(e, f) = ds
    BY <1>7 DEF RecordsOf, ds
  <2>2. f # "CSV" /\ f \notin Generated
    BY <1>7 DEF Generated
  <2>3. \A r \in ToSet(ds) : KindOf(f, r)
    BY <1>1, <2>2 DEF KindOf
  <2> QED BY <1>1, <2>1, <2>2, <2>3 DEF RecordsAre
<1>8. CASE f = "CSV"
  <2> DEFINE rs == <<h>> \o ds
  <2>1. RecordsOf(e, f) = rs
    BY <1>8 DEF RecordsOf, ds, h
  <2>2. f \notin {"ROOT", "BLOCKS"} /\ f \notin Generated
    BY <1>8 DEF Generated
  <2>3. <<h>> \in Seq(Recs) /\ ToSet(<<h>>) = {h} /\ Pairwise(<<h>>, InOrder)
    BY <1>2, <1>4
  <2>4. Across(<<h>>, ds, InOrder)
    <3> SUFFICES ASSUME NEW r \in ToSet(ds)
                 PROVE  <<h, r>> \in InOrder
      BY <2>3 DEF Across
    <3>1. r \in Recs /\ r.number = e.number /\ r.kind = "deposit"
      BY <1>1, <1>6
    <3>2. Across(h.items, r.items, ById)
      BY <1>3, <1>4 DEF Across
    <3> QED BY <1>4, <3>1, <3>2 DEF InOrder
  <2> DEFINE hs == <<h>>
  <2> HIDE DEF hs
  <2>5. hs \o ds \in Seq(Recs) /\ ToSet(hs \o ds) = ToSet(hs) \union ToSet(ds)
    <3>1. hs \in Seq(Recs)
      BY <2>3 DEF hs
    <3> QED BY <1>1, <3>1, ConcatRange
  <2>6. Pairwise(hs \o ds, InOrder)
    <3>1. hs \in Seq(Recs) /\ Pairwise(hs, InOrder) /\ Across(hs, ds, InOrder)
      BY <2>3, <2>4 DEF hs
    <3> QED BY <1>1, <3>1, PairwiseConcat
  <2>7. rs = hs \o ds /\ ToSet(hs) = {h}
    BY <2>3 DEF hs
  <2> HIDE DEF rs
  <2>8. rs \in Seq(Recs) /\ Pairwise(rs, InOrder)
        /\ \A r : r \in ToSet(rs) <=> r = h \/ r \in ToSet(ds)
    BY <2>5, <2>6, <2>7
  <2>9. \A r \in ToSet(ds) : KindOf(f, r)
    BY <1>1, <2>2 DEF KindOf
  <2>10. KindOf(f, h)
    BY <1>4, <2>2 DEF KindOf
  <2>11. Pairwise(h.items, ById) /\ ToSet(h.items) \subseteq ToSet(e.items)
    BY <1>3, <1>4
  <2> QED BY <1>1, <1>4, <2>1, <2>2, <2>8, <2>9, <2>10, <2>11 DEF RecordsAre
<1>9. CASE f \in Generated
  <2>1. f # "CSV" /\ f \notin {"ROOT", "BLOCKS"}
    BY <1>9 DEF Generated
  <2>2. RecordsOf(e, f) = <<g>>
    BY <2>1 DEF RecordsOf, g
  <2>3. <<g>> \in Seq(Recs) /\ ToSet(<<g>>) = {g} /\ Pairwise(<<g>>, InOrder)
    BY <1>2, <1>5
  <2>4. KindOf(f, g)
    BY <1>5, <2>1 DEF KindOf
  <2> DEFINE gs == <<g>>
  <2> HIDE DEF gs
  <2>5. gs \in Seq(Recs) /\ (\A r : r \in ToSet(gs) <=> r = g) /\ Pairwise(gs, InOrder)
    BY <2>3 DEF gs
  <2>6. RecordsOf(e, f) = gs
    BY <2>2 DEF gs
  <2> QED BY <1>5, <2>1, <2>4, <2>5, <2>6 DEF RecordsAre
<1> QED BY <1>7, <1>8, <1>9 DEF Deposited

\* What the records of a file are.
FileRecords(f, c, rs) ==
    /\ rs \in Seq(Recs) /\ Pairwise(rs, InOrder)
    /\ \A j \in DOMAIN rs : KindOf(f, rs[j]) /\ Pairwise(rs[j].items, ById)
    /\ \A j \in DOMAIN rs : \E i \in DOMAIN c :
         rs[j].number = c[i].number /\ ToSet(rs[j].items) \subseteq ToSet(c[i].items)
    /\ \A i \in DOMAIN c : \A x \in ToSet(c[i].items) : \E j \in DOMAIN rs :
         rs[j].number = c[i].number /\ x \in ToSet(rs[j].items)
    /\ f = "CSV" => \A i \in DOMAIN c : \E j \in DOMAIN rs :
         rs[j].number = c[i].number /\ rs[j].kind = "header"
    /\ f \in Generated => \A i \in DOMAIN c : \E j \in DOMAIN rs : rs[j].number = c[i].number

LEMMA FileFacts ==
  ASSUME NEW c \in Files
  PROVE  /\ Len(c) \in Nat /\ DOMAIN c = 1 .. Len(c)
         /\ \A i \in DOMAIN c : /\ c[i].number \in Nat /\ c[i].items \in Seq(Items)
                                /\ Pairwise(c[i].items, ById)
         /\ \A i, j \in DOMAIN c : i < j => /\ c[i].number < c[j].number
                                            /\ Across(c[i].items, c[j].items, ById)
<1>1. c \in Seq([number : Nat, items : Seq(Items)]) /\ Ordered(c)
  BY InputAssumption
<1>2. Len(c) \in Nat /\ DOMAIN c = 1 .. Len(c)
  BY <1>1
<1>3. \A i \in DOMAIN c : c[i].number \in Nat /\ c[i].items \in Seq(Items)
  <2> DEFINE E == [number : Nat, items : Seq(Items)]
  <2>1. \A e \in E : e.number \in Nat /\ e.items \in Seq(Items)
    OBVIOUS
  <2>2. c \in Seq(E)
    BY <1>1
  <2> HIDE DEF E
  <2>3. \A i \in DOMAIN c : c[i] \in E
    BY <2>2
  <2> QED BY <2>1, <2>3
<1>4. \A i \in DOMAIN c : Len(c[i].items) \in Nat /\ DOMAIN c[i].items = 1 .. Len(c[i].items)
                          /\ \A k \in DOMAIN c[i].items : c[i].items[k] \in Items
  BY <1>3
<1>5. ASSUME NEW i \in DOMAIN c
      PROVE  Pairwise(c[i].items, ById)
  <2> SUFFICES ASSUME NEW k \in DOMAIN c[i].items, NEW l \in DOMAIN c[i].items, k < l
               PROVE  <<c[i].items[k], c[i].items[l]>> \in ById
    BY DEF Pairwise
  <2>1. c[i].items[k].id < c[i].items[l].id
    BY <1>1 DEF Ordered
  <2> QED BY <1>4, <2>1 DEF ById
<1>6. ASSUME NEW i \in DOMAIN c, NEW j \in DOMAIN c, i < j
      PROVE  Across(c[i].items, c[j].items, ById)
  <2> SUFFICES ASSUME NEW x \in ToSet(c[i].items), NEW y \in ToSet(c[j].items)
               PROVE  <<x, y>> \in ById
    BY DEF Across
  <2>1. PICK k \in DOMAIN c[i].items : x = c[i].items[k]
    BY DEF ToSet
  <2>2. PICK l \in DOMAIN c[j].items : y = c[j].items[l]
    BY DEF ToSet
  <2>3. c[i].items[k].id < c[j].items[l].id
    BY <1>1, <1>6 DEF Ordered
  <2> QED BY <1>4, <2>1, <2>2, <2>3 DEF ById
<1>7. \A i, j \in DOMAIN c : i < j => c[i].number < c[j].number
  BY <1>1 DEF Ordered
<1> QED BY <1>2, <1>3, <1>5, <1>6, <1>7

LEMMA InputFacts ==
  ASSUME NEW f \in Formats, NEW c \in Files
  PROVE  FileRecords(f, c, InputRecords[f][c])
<1> DEFINE ss == [i \in DOMAIN c |-> RecordsOf(c[i], f)]
           rs == FlattenSeq(ss)
<1>1. /\ Len(c) \in Nat /\ DOMAIN c = 1 .. Len(c)
      /\ \A i \in DOMAIN c : /\ c[i].number \in Nat /\ c[i].items \in Seq(Items)
                             /\ Pairwise(c[i].items, ById)
      /\ \A i, j \in DOMAIN c : i < j => /\ c[i].number < c[j].number
                                         /\ Across(c[i].items, c[j].items, ById)
  BY FileFacts
<1>2. f \in Deposited \union Generated
  BY InputAssumption
<1>3. InputRecords[f][c] = rs
  BY DEF InputRecords
<1>4. \A i \in DOMAIN c : RecordsAre(f, RecordsOf(c[i], f), c[i])
                          /\ Pairwise(RecordsOf(c[i], f), InOrder)
  <2> TAKE i \in DOMAIN c
  <2> DEFINE e == c[i]
  <2>1. e.number \in Nat /\ e.items \in Seq(Items) /\ Pairwise(e.items, ById)
    BY <1>1
  <2> HIDE DEF e
  <2>2. RecordsAre(f, RecordsOf(e, f), e) /\ Pairwise(RecordsOf(e, f), InOrder)
    BY <1>2, <2>1, EventRecords
  <2> QED BY <2>2 DEF e
<1>5. DOMAIN ss = DOMAIN c /\ \A i \in DOMAIN c : ss[i] = RecordsOf(c[i], f)
  OBVIOUS
<1>6. ss = [i \in DOMAIN c |-> ss[i]]
  OBVIOUS
<1> HIDE DEF ss
<1>7. \A i \in DOMAIN c : RecordsAre(f, ss[i], c[i]) /\ Pairwise(ss[i], InOrder)
                          /\ ss[i] \in Seq(Recs)
  BY <1>4, <1>5 DEF RecordsAre
<1>8. ss \in Seq(Seq(Recs))
  BY <1>1, <1>6, <1>7
<1>9. \A i \in DOMAIN c : \A r \in ToSet(ss[i]) : r \in Recs
  BY <1>7 DEF ToSet
<1>10. \A i, j \in DOMAIN ss : i < j => Across(ss[i], ss[j], InOrder)
  <2> SUFFICES ASSUME NEW i \in DOMAIN c, NEW j \in DOMAIN c, i < j,
                      NEW x \in ToSet(ss[i]), NEW y \in ToSet(ss[j])
               PROVE  <<x, y>> \in InOrder
    BY <1>5 DEF Across
  <2>1. x \in Recs /\ y \in Recs /\ x.number = c[i].number /\ y.number = c[j].number
        /\ ToSet(x.items) \subseteq ToSet(c[i].items) /\ ToSet(y.items) \subseteq ToSet(c[j].items)
    BY <1>7, <1>9 DEF RecordsAre
  <2>2. c[i].number \in Nat /\ c[j].number \in Nat /\ c[i].number < c[j].number
        /\ Across(c[i].items, c[j].items, ById)
    BY <1>1
  <2>3. Across(x.items, y.items, ById)
    BY <2>1, <2>2 DEF Across
  <2>4. x.number < y.number /\ x.number <= y.number
    BY <2>1, <2>2
  <2> QED BY <2>1, <2>3, <2>4 DEF InOrder
<1>11. Pairwise(rs, InOrder)
  BY <1>5, <1>7, <1>8, <1>10, PairwiseFlatten
<1>12. rs \in Seq(Recs) /\ ToSet(rs) = UNION {ToSet(ss[i]) : i \in DOMAIN ss}
  BY <1>8, FlattenRange
<1> HIDE DEF rs
<1>13. \A j \in DOMAIN rs : \E i \in DOMAIN c : rs[j] \in ToSet(ss[i])
  <2> TAKE j \in DOMAIN rs
  <2>1. rs[j] \in ToSet(rs)
    BY DEF ToSet
  <2> QED BY <1>5, <1>12, <2>1
<1>14. \A i \in DOMAIN c : \A r \in ToSet(ss[i]) : \E j \in DOMAIN rs : rs[j] = r
  <2> TAKE i \in DOMAIN c
  <2> TAKE r \in ToSet(ss[i])
  <2>1. r \in ToSet(rs)
    BY <1>5, <1>12
  <2> QED BY <2>1 DEF ToSet
<1>15. \A i \in DOMAIN c : \A r \in ToSet(ss[i]) :
         /\ r.number = c[i].number /\ ToSet(r.items) \subseteq ToSet(c[i].items)
         /\ KindOf(f, r) /\ Pairwise(r.items, ById)
  BY <1>7 DEF RecordsAre
<1>16. \A j \in DOMAIN rs : KindOf(f, rs[j]) /\ Pairwise(rs[j].items, ById)
  BY <1>13, <1>15
<1>17. \A j \in DOMAIN rs : \E i \in DOMAIN c :
         rs[j].number = c[i].number /\ ToSet(rs[j].items) \subseteq ToSet(c[i].items)
  BY <1>13, <1>15
<1>18. \A i \in DOMAIN c : \A x \in ToSet(c[i].items) : \E j \in DOMAIN rs :
         rs[j].number = c[i].number /\ x \in ToSet(rs[j].items)
  <2> TAKE i \in DOMAIN c
  <2> TAKE x \in ToSet(c[i].items)
  <2>1. PICK r \in ToSet(ss[i]) : x \in ToSet(r.items)
    BY <1>7 DEF RecordsAre
  <2> QED BY <1>14, <1>15, <2>1
<1>19. f = "CSV" => \A i \in DOMAIN c : \E j \in DOMAIN rs :
         rs[j].number = c[i].number /\ rs[j].kind = "header"
  <2> HAVE f = "CSV"
  <2> TAKE i \in DOMAIN c
  <2>1. PICK r \in ToSet(ss[i]) : r.kind = "header"
    BY <1>7 DEF RecordsAre
  <2> QED BY <1>14, <1>15, <2>1
<1>20. f \in Generated => \A i \in DOMAIN c : \E j \in DOMAIN rs : rs[j].number = c[i].number
  <2> HAVE f \in Generated
  <2> TAKE i \in DOMAIN c
  <2>1. PICK r \in ToSet(ss[i]) : r.kind = "event"
    BY <1>7 DEF RecordsAre
  <2> QED BY <1>14, <1>15, <2>1
<1>21. FileRecords(f, c, rs)
  BY <1>11, <1>12, <1>16, <1>17, <1>18, <1>19, <1>20 DEF FileRecords
<1> QED BY <1>3, <1>21

\* The order of the records.
LEMMA RecordOrder ==
  ASSUME NEW f, NEW c, NEW rs, FileRecords(f, c, rs)
  PROVE  /\ Len(rs) \in Nat /\ DOMAIN rs = 1 .. Len(rs)
         /\ \A j \in DOMAIN rs : rs[j].number \in Nat /\ rs[j].items \in Seq(Items)
         /\ \A i, j \in DOMAIN rs : i < j => /\ rs[i].number <= rs[j].number
                                             /\ rs[j].kind # "deposit" => rs[i].number < rs[j].number
                                             /\ Across(rs[i].items, rs[j].items, ById)
<1>1. rs \in Seq(Recs) /\ Pairwise(rs, InOrder)
  BY DEF FileRecords
<1>2. Len(rs) \in Nat /\ DOMAIN rs = 1 .. Len(rs) /\ \A j \in DOMAIN rs : rs[j] \in Recs
  BY <1>1
<1>3. \A r \in Recs : r.number \in Nat /\ r.items \in Seq(Items)
  BY DEF Recs
<1>4. ASSUME NEW i \in DOMAIN rs, NEW j \in DOMAIN rs, i < j
      PROVE  /\ rs[i].number <= rs[j].number
             /\ rs[j].kind # "deposit" => rs[i].number < rs[j].number
             /\ Across(rs[i].items, rs[j].items, ById)
  <2> DEFINE p == <<rs[i], rs[j]>>
  <2>1. p \in InOrder
    BY <1>1, <1>4 DEF Pairwise
  <2>2. p[1] = rs[i] /\ p[2] = rs[j]
    OBVIOUS
  <2> HIDE DEF p
  <2> QED BY <2>1, <2>2 DEF InOrder
<1> QED BY <1>2, <1>3, <1>4

\* A regular file has no gaps, and in CSV a header precedes the deposits.
LEMMA Gapless ==
  ASSUME NEW f, NEW c \in Files, NEW w, NEW k, NEW rs, FileRecords(f, c, rs), RegularFile(f, c, w, k),
         f # "ROOT", NEW j \in DOMAIN rs, f \in Deposited \union Generated
  PROVE  /\ rs[j].number # 0 => \E i \in 1 .. j - 1 : rs[i].number = rs[j].number - 1
         /\ rs[j].kind = "deposit" /\ f = "CSV" =>
              \E i \in 1 .. j - 1 : rs[i].number = rs[j].number
<1>1. /\ Len(rs) \in Nat /\ DOMAIN rs = 1 .. Len(rs)
      /\ \A i \in DOMAIN rs : rs[i].number \in Nat
      /\ \A i, l \in DOMAIN rs : i < l =>
           /\ rs[i].number <= rs[l].number
           /\ rs[l].kind # "deposit" => rs[i].number < rs[l].number
  BY RecordOrder
<1>2. Len(c) \in Nat /\ DOMAIN c = 1 .. Len(c) /\ \A e \in DOMAIN c : c[e].items \in Seq(Items)
  BY FileFacts
<1>3. PICK e \in DOMAIN c : rs[j].number = c[e].number
  BY DEF FileRecords
<1>4. \A d \in DOMAIN c : c[d].number = d - 1
  BY DEF RegularFile
<1>5. \A d \in DOMAIN c : \E i \in DOMAIN rs : rs[i].number = c[d].number
  <2> TAKE d \in DOMAIN c
  <2>1. CASE f = "CSV"
    BY <2>1 DEF FileRecords
  <2>2. CASE f \in Generated
    BY <2>2 DEF FileRecords
  <2>3. CASE f = "BLOCKS"
    <3>1. c[d].items # <<>> /\ c[d].items \in Seq(Items)
      BY <1>2, <2>3 DEF RegularFile
    <3>2. \E x : x \in ToSet(c[d].items)
      <4> DEFINE s == c[d].items
      <4>1. s \in Seq(Items) /\ s # <<>>
        BY <3>1
      <4> HIDE DEF s
      <4>2. 1 \in DOMAIN s
        BY <4>1
      <4>3. s[1] \in ToSet(s)
        BY <4>2 DEF ToSet
      <4> QED BY <4>3 DEF s
    <3> QED BY <3>2 DEF FileRecords
  <2> QED BY <2>1, <2>2, <2>3 DEF Deposited
<1>6. ASSUME rs[j].number # 0
      PROVE  \E i \in 1 .. j - 1 : rs[i].number = rs[j].number - 1
  <2>1. e - 1 \in DOMAIN c
    BY <1>1, <1>2, <1>3, <1>4, <1>6
  <2>2. PICK i \in DOMAIN rs : rs[i].number = c[e - 1].number
    BY <1>5, <2>1
  <2>3. rs[i].number = rs[j].number - 1
    BY <1>2, <1>3, <1>4, <2>1, <2>2
  <2>4. i < j
    <3> SUFFICES ASSUME ~(i < j) PROVE FALSE
      OBVIOUS
    <3>1. i = j \/ j < i
      BY <1>1
    <3>2. rs[j].number <= rs[i].number
      BY <1>1, <3>1
    <3> QED BY <1>1, <2>3, <3>2
  <2> QED BY <1>1, <2>3, <2>4
<1>7. ASSUME rs[j].kind = "deposit", f = "CSV"
      PROVE  \E i \in 1 .. j - 1 : rs[i].number = rs[j].number
  <2>1. PICK i \in DOMAIN rs : rs[i].number = c[e].number /\ rs[i].kind = "header"
    BY <1>7 DEF FileRecords
  <2>2. rs[i].kind # rs[j].kind
    BY <1>7, <2>1
  <2>3. i < j
    <3> SUFFICES ASSUME ~(i < j) PROVE FALSE
      OBVIOUS
    <3>1. j < i
      BY <1>1, <2>2
    <3>2. rs[j].number < rs[i].number
      BY <1>1, <2>1, <3>1
    <3> QED BY <1>1, <1>3, <2>1, <3>2
  <2> QED BY <1>1, <1>3, <2>1, <2>3
<1> QED BY <1>6, <1>7

\* In CSV a deposit follows the header of its event.
LEMMA HeaderBefore ==
  ASSUME NEW c \in Files, NEW w, NEW k, NEW rs, FileRecords("CSV", c, rs),
         RegularFile("CSV", c, w, k), NEW j \in DOMAIN rs, rs[j].kind = "deposit"
  PROVE  \E i \in 1 .. j - 1 : rs[i].number = rs[j].number
<1> DEFINE f == "CSV"
<1>1. f \in Deposited \union Generated /\ f # "ROOT" /\ f = "CSV"
  BY DEF Deposited
<1>2. FileRecords(f, c, rs) /\ RegularFile(f, c, w, k)
  OBVIOUS
<1> HIDE DEF f
<1> QED BY <1>1, <1>2, Gapless

-----------------------------------------------------------------------------
(* How the record of what was given changes.                               *)

LEMMA BookAppend ==
  ASSUME NEW f, NEW c, NEW w, NEW k, NEW rs, NEW hs \in Seq(Seq(Items)), NEW nx \in Nat,
         Book(f, c, w, k, rs, hs, nx), NEW new,
         new \in Seq(Seq(Items)), Len(new) = Len(hs) + 1,
         \A n \in 1 .. Len(hs) : new[n] = hs[n], new[Len(hs) + 1] = <<>>
  PROVE  Book(f, c, w, k, rs, new, nx)
<1>1. /\ Len(hs) \in Nat /\ DOMAIN hs = 1 .. Len(hs)
      /\ DOMAIN new = 1 .. Len(hs) + 1
  OBVIOUS
<1>2. ToSet(<<>>) = {} /\ Pairwise(<<>>, ById)
  BY DEF ToSet, Pairwise
<1>3. \A n \in DOMAIN new : \/ n \in DOMAIN hs /\ new[n] = hs[n]
                            \/ n = Len(hs) + 1 /\ new[n] = <<>>
  BY <1>1
<1>4. Sourced(f, c, w, k, rs, new, nx)
  BY <1>2, <1>3 DEF Book, Sourced
<1>5. Sorted(new)
  <2>1. \A n \in DOMAIN new : Pairwise(new[n], ById)
    BY <1>2, <1>3 DEF Book, Sorted
  <2>2. ASSUME NEW m \in DOMAIN new, NEW n \in DOMAIN new, m < n
        PROVE  Across(new[m], new[n], ById)
    <3>1. CASE n \in DOMAIN hs /\ new[n] = hs[n]
      <4>1. m \in DOMAIN hs /\ new[m] = hs[m]
        BY <1>1, <1>3, <2>2, <3>1
      <4> QED BY <2>2, <3>1, <4>1 DEF Book, Sorted
    <3>2. CASE new[n] = <<>>
      BY <1>2, <3>2 DEF Across
    <3> QED BY <1>3, <3>1, <3>2
  <2> QED BY <2>1, <2>2 DEF Sorted
<1>6. Taken(f, rs, new, nx)
  <2>1. \A n \in DOMAIN hs : n \in DOMAIN new /\ new[n] = hs[n]
    BY <1>1
  <2> QED BY <2>1 DEF Book, Taken
<1> QED BY <1>4, <1>5, <1>6 DEF Book

LEMMA BookSkip ==
  ASSUME NEW f, NEW c, NEW w, NEW k, NEW rs, NEW hs, NEW nx \in Nat \ {0},
         Book(f, c, w, k, rs, hs, nx),
         f \in Deposited => \A x \in ToSet(rs[nx].items) : ~Counts(f, x)
  PROVE  Book(f, c, w, k, rs, hs, nx + 1)
<1>1. \A j : j \in 1 .. (nx + 1) - 1 <=> j \in 1 .. nx - 1 \/ j = nx
  OBVIOUS
<1>2. Sourced(f, c, w, k, rs, hs, nx + 1)
  BY <1>1 DEF Book, Sourced
<1>3. Taken(f, rs, hs, nx + 1)
  BY <1>1 DEF Book, Taken
<1> QED BY <1>2, <1>3 DEF Book

LEMMA BookExtend ==
  ASSUME NEW f, NEW c, NEW w, NEW k, NEW rs, FileRecords(f, c, rs),
         NEW hs \in Seq(Seq(Items)), NEW nx \in DOMAIN rs, Book(f, c, w, k, rs, hs, nx),
         NEW L \in Nat \ {0}, Len(hs) = L,
         NEW s \in Seq(Items), Pairwise(s, ById),
         \A x \in ToSet(s) : Holds(f, rs, nx, x),
         f \in Deposited => \A x \in ToSet(rs[nx].items) : Counts(f, x) => x \in ToSet(s),
         s # <<>> => Fits(f, c, w, k, rs[nx].number, L),
         NEW new \in Seq(Seq(Items)), Len(new) = L,
         \A n \in 1 .. L - 1 : new[n] = hs[n], new[L] = hs[L] \o s
  PROVE  Book(f, c, w, k, rs, new, nx + 1)
<1>1. /\ DOMAIN hs = 1 .. L /\ DOMAIN new = 1 .. L /\ L \in 1 .. L
      /\ \A n \in 1 .. L : hs[n] \in Seq(Items)
  OBVIOUS
<1>2. /\ Len(rs) \in Nat /\ DOMAIN rs = 1 .. Len(rs)
      /\ \A i, j \in DOMAIN rs : i < j => Across(rs[i].items, rs[j].items, ById)
  BY RecordOrder
<1>3. \A j : j \in 1 .. (nx + 1) - 1 <=> j \in 1 .. nx - 1 \/ j = nx
  BY <1>2
<1>4. ToSet(new[L]) = ToSet(hs[L]) \union ToSet(s)
  BY <1>1, ConcatRange
<1>5. \A n \in 1 .. L : n \in 1 .. L - 1 \/ n = L
  OBVIOUS
<1>6. \A x \in ToSet(s) : s # <<>>
  BY DEF ToSet
<1>7. Sourced(f, c, w, k, rs, new, nx + 1)
  <2> SUFFICES ASSUME NEW n \in 1 .. L, NEW x \in ToSet(new[n])
               PROVE  \E j \in 1 .. (nx + 1) - 1 :
                        Holds(f, rs, j, x) /\ Fits(f, c, w, k, rs[j].number, n)
    BY <1>1 DEF Sourced
  <2>1. CASE x \in ToSet(hs[n])
    BY <1>1, <1>3, <2>1 DEF Book, Sourced
  <2>2. CASE n = L /\ x \in ToSet(s)
    BY <1>3, <1>6, <2>2
  <2> QED BY <1>4, <1>5, <2>1, <2>2
\* What was given comes from earlier records, what is added from this one.
<1>8. \A n \in 1 .. L : Across(hs[n], s, ById)
  <2> SUFFICES ASSUME NEW n \in 1 .. L, NEW x \in ToSet(hs[n]), NEW y \in ToSet(s)
               PROVE  <<x, y>> \in ById
    BY DEF Across
  <2>1. PICK j \in 1 .. nx - 1 : Holds(f, rs, j, x)
    BY <1>1 DEF Book, Sourced
  <2>2. j \in DOMAIN rs /\ j < nx
    BY <1>2
  <2>3. Across(rs[j].items, rs[nx].items, ById)
    BY <1>2, <2>2
  <2> QED BY <2>1, <2>3 DEF Across, Holds
<1>9. Sorted(new)
  <2>1. \A n \in 1 .. L : Pairwise(hs[n], ById)
    BY <1>1 DEF Book, Sorted
  <2>2. Pairwise(new[L], ById)
    BY <1>1, <1>8, <2>1, PairwiseConcat
  <2>3. \A n \in 1 .. L : Pairwise(new[n], ById)
    BY <1>5, <2>1, <2>2
  <2>4. ASSUME NEW m \in 1 .. L, NEW n \in 1 .. L, m < n
        PROVE  Across(new[m], new[n], ById)
    <3>1. m \in 1 .. L - 1 /\ new[m] = hs[m]
      BY <2>4
    <3>2. Across(hs[m], hs[n], ById)
      BY <1>1, <2>4 DEF Book, Sorted
    <3>3. CASE n \in 1 .. L - 1
      BY <3>1, <3>2, <3>3
    <3>4. CASE n = L
      BY <1>4, <1>8, <3>1, <3>2, <3>4 DEF Across
    <3> QED BY <1>5, <3>3, <3>4
  <2> QED BY <1>1, <2>3, <2>4 DEF Sorted
<1>10. Taken(f, rs, new, nx + 1)
  <2> SUFFICES ASSUME f \in Deposited, NEW j \in 1 .. (nx + 1) - 1,
                      NEW x \in ToSet(rs[j].items), Counts(f, x)
               PROVE  \E n \in DOMAIN new : x \in ToSet(new[n])
    BY DEF Taken
  <2>1. CASE j \in 1 .. nx - 1
    <3>1. PICK n \in 1 .. L : x \in ToSet(hs[n])
      BY <1>1, <2>1 DEF Book, Taken
    <3> QED BY <1>1, <1>4, <1>5, <3>1
  <2>2. CASE j = nx
    BY <1>1, <1>4, <2>2
  <2> QED BY <1>3, <2>1, <2>2
<1> QED BY <1>7, <1>9, <1>10 DEF Book

LEMMA HandedIs ==
  ASSUME NEW del, Len(del) \in Nat, NEW col \in Seq(Items), NEW p,
         \A n \in 1 .. Len(del) : ItemsOf(del[n]) \in Seq(Items)
  PROVE  /\ Handed(del, col, p) \in Seq(Seq(Items))
         /\ Len(Handed(del, col, p)) = Len(del) + (IF p = "read" THEN 1 ELSE 0)
         /\ \A n \in 1 .. Len(del) : Handed(del, col, p)[n] = ItemsOf(del[n])
         /\ p = "read" => Handed(del, col, p)[Len(del) + 1] = col
<1> DEFINE L == Len(del) + (IF p = "read" THEN 1 ELSE 0)
           h(n) == IF n <= Len(del) THEN ItemsOf(del[n]) ELSE col
           hs == [n \in 1 .. L |-> h(n)]
<1>1. L \in Nat /\ (p = "read" => Len(del) + 1 \in 1 .. L) /\ \A n \in 1 .. Len(del) : n \in 1 .. L
  OBVIOUS
<1>2. \A n \in 1 .. L : h(n) \in Seq(Items)
  <2> HIDE DEF L
  <2> QED BY <1>1
<1>3. h(Len(del) + 1) = col /\ \A n \in 1 .. Len(del) : h(n) = ItemsOf(del[n])
  OBVIOUS
<1>4. Handed(del, col, p) = hs
  BY DEF Handed
<1> HIDE DEF L, h
<1>5. hs \in Seq(Seq(Items)) /\ Len(hs) = L /\ \A n \in 1 .. L : hs[n] = h(n)
  BY <1>1, <1>2
<1> HIDE DEF hs
<1> QED BY <1>1, <1>3, <1>4, <1>5 DEF L

\* A message is added to those that were delivered.
Adds(new, del, m) ==
    /\ Len(new) = Len(del) + 1 /\ new = [n \in 1 .. Len(new) |-> new[n]]
    /\ \A n \in 1 .. Len(del) : new[n] = del[n]
    /\ new[Len(del) + 1] = m
    /\ \A n \in 1 .. Len(new) : ItemsOf(new[n]) \in Seq(Items)

LEMMA HandedOver ==
  ASSUME NEW del, Len(del) \in Nat, del = [n \in 1 .. Len(del) |-> del[n]],
         \A n \in 1 .. Len(del) : ItemsOf(del[n]) \in Seq(Items),
         NEW m, ItemsOf(m) \in Seq(Items)
  PROVE  Adds(Append(del, m), del, m)
<1> DEFINE d == Len(del)
           new == Append(del, m)
<1>1. d \in Nat
  OBVIOUS
<1>2. new = [i \in 1 .. d + 1 |-> IF i \in 1 .. d THEN del[i] ELSE m]
  <2>1. del = [n \in 1 .. d |-> del[n]]
    OBVIOUS
  <2> HIDE DEF d
  <2> QED BY <1>1, <2>1, Extended
<1> HIDE DEF d, new
<1>3. Len(new) = d + 1 /\ DOMAIN new = 1 .. d + 1
  <2> DEFINE X == {del[i] : i \in 1 .. d} \cup {m}
             e(i) == IF i \in 1 .. d THEN del[i] ELSE m
  <2>1. \A i \in 1 .. d + 1 : e(i) \in X
    OBVIOUS
  <2>2. new = [i \in 1 .. d + 1 |-> e(i)]
    BY <1>2
  <2> DEFINE l == d + 1
             g == [i \in 1 .. l |-> e(i)]
  <2> HIDE DEF X, e
  <2>3. l \in Nat /\ new = g /\ \A i \in 1 .. l : e(i) \in X
    BY <1>1, <2>1, <2>2
  <2> HIDE DEF l
  <2>4. g \in Seq(X) /\ Len(g) = l
    BY <2>3
  <2>5. new \in Seq(X) /\ Len(new) = d + 1
    BY <2>3, <2>4 DEF l
  <2> QED BY <1>1, <2>5
<1>4. \A i \in 1 .. d : new[i] = del[i]
  BY <1>1, <1>2
<1>5. new[d + 1] = m
  BY <1>1, <1>2
<1>6. new = [n \in 1 .. d + 1 |-> new[n]]
  BY <1>2
<1>7. \A n \in 1 .. d + 1 : n \in 1 .. d \/ n = d + 1
  BY <1>1
<1>8. \A n \in 1 .. d + 1 : ItemsOf(new[n]) \in Seq(Items)
  BY <1>4, <1>5, <1>7 DEF d
<1>9. Adds(new, del, m)
  BY <1>3, <1>4, <1>5, <1>6, <1>8 DEF d, Adds
<1> QED BY <1>9 DEF new

-----------------------------------------------------------------------------
(* The steps of the readers.                                               *)

LEMMA InputIs ==
  ASSUME InputTypeInv
  PROVE  /\ FileRecords(format, file, Input) /\ format \in Deposited \union Generated
         /\ skip \in Nat /\ number \in Nat /\ Len(Input) \in Nat /\ DOMAIN Input = 1 .. Len(Input)
         /\ \A j \in DOMAIN Input : Input[j].number \in Nat /\ Input[j].items \in Seq(Items)
                                    /\ KindOf(format, Input[j])
         /\ file \in Files /\ NULL \notin Nat /\ Deposited \intersect Generated = {}
<1>1. FileRecords(format, file, Input)
  BY InputFacts DEF InputTypeInv, Input
<1>2. /\ Len(Input) \in Nat /\ DOMAIN Input = 1 .. Len(Input)
      /\ \A j \in DOMAIN Input : Input[j].number \in Nat /\ Input[j].items \in Seq(Items)
  BY <1>1, RecordOrder
<1>3. \A j \in DOMAIN Input : KindOf(format, Input[j])
  BY <1>1 DEF FileRecords
<1>4. skip \in Nat /\ format \in Deposited \union Generated /\ NULL \notin Nat
  BY InputAssumption DEF InputTypeInv
<1>5. number \in Nat
  BY <1>4 DEF InputTypeInv
<1> QED BY <1>1, <1>2, <1>3, <1>4, <1>5 DEF InputTypeInv, Deposited, Generated

LEMMA HandsAre ==
  ASSUME InputTypeInv
  PROVE  /\ InHands \in Seq(Seq(Items))
         /\ Len(InHands) = Len(delivered) + (IF pc = "read" THEN 1 ELSE 0)
         /\ \A n \in 1 .. Len(delivered) : InHands[n] = ItemsOf(delivered[n])
         /\ pc = "read" => InHands[Len(delivered) + 1] = collected
<1>1. /\ Len(delivered) \in Nat /\ collected \in Seq(Items)
      /\ \A n \in 1 .. Len(delivered) : ItemsOf(delivered[n]) \in Seq(Items)
  BY DEF InputTypeInv
<1>2. InHands = Handed(delivered, collected, pc)
  BY DEF InHands
<1> QED BY <1>1, <1>2, HandedIs

LEMMA RecordBound ==
  ASSUME InputTypeInv
  PROVE  NextRecord \in 1 .. Len(Input) + 1 /\ (format # "HEPMC" => NextRecord = position)
BY InputIs DEF InputTypeInv, NextRecord

StateInv == InputTypeInv /\ GivenInv /\ RegularInv

LEMMA ReadableIs ==
  ASSUME InputTypeInv
  PROVE  /\ Readable \in Int /\ Readable <= Len(Input) /\ position <= Readable + 1
         /\ newline => Readable = Len(Input)
         /\ ~AtEnd => position + 1 <= Readable + 1
         /\ format \in Generated => newline
BY InputIs DEF InputTypeInv, Readable, AtEnd, Generated

LEMMA SameLines ==
  ASSUME newline' = newline, Input' = Input
  PROVE  Readable' = Readable
BY DEF Readable

LEMMA StartInv ==
  ASSUME StateInv, StartEvent
  PROVE  StateInv'
<1> USE DEF StateInv
<1> DEFINE d == Len(delivered)
           hs == InHands
           new == Handed(delivered, <<>>, "read")
<1>1. /\ UNCHANGED <<format, file, newline, skip, position, delivered>>
      /\ number' = number + 1 /\ pc' = "read" /\ pc # "read"
      /\ block' = NULL /\ collected' = <<>>
  BY DEF StartEvent, InputSetup
<1>2. Input' = Input
  BY <1>1 DEF Input
<1>3. d \in Nat /\ skip \in Nat /\ number = skip + d
  BY <1>1, InputIs DEF InputTypeInv
<1>4. InputTypeInv'
  <2>1. Readable' = Readable
    BY <1>1, <1>2, SameLines
  <2> QED BY <1>1, <1>2, <1>3, <2>1 DEF InputTypeInv
<1>5. NextRecord' = NextRecord /\ NextRecord \in Nat
  <2>1. NextRecord' = position /\ NextRecord = position
    BY <1>1 DEF NextRecord
  <2> QED BY <2>1, InputIs DEF InputTypeInv
<1>6. /\ hs \in Seq(Seq(Items)) /\ Len(hs) = d
      /\ \A n \in 1 .. d : hs[n] = ItemsOf(delivered[n])
  BY <1>1, <1>3, HandsAre
<1>7. /\ new \in Seq(Seq(Items)) /\ Len(new) = d + 1
      /\ \A n \in 1 .. d : new[n] = ItemsOf(delivered[n])
      /\ new[d + 1] = <<>>
  <2>1. <<>> \in Seq(Items)
    OBVIOUS
  <2> QED BY <2>1, HandedIs DEF InputTypeInv
<1>8. InHands' = new
  BY <1>1 DEF InHands
<1>9. Book(format, file, newline, skip, Input, hs, NextRecord)
  BY DEF GivenInv
<1> HIDE DEF hs, new, d
<1>10. \A n \in 1 .. d : new[n] = hs[n]
  BY <1>6, <1>7
<1>11. GivenInv'
  <2>1. Book(format, file, newline, skip, Input, new, NextRecord)
    BY <1>5, <1>6, <1>7, <1>9, <1>10, BookAppend
  <2> QED BY <1>1, <1>2, <1>5, <1>8, <2>1 DEF GivenInv
<1>12. Begun' = Begun
  BY <1>1 DEF Begun
<1>13. RegularInv'
  <2> SUFFICES ASSUME RegularFile(format, file, newline, skip)
               PROVE  /\ Complete(format, skip, Input, new, d)
                      /\ Bounds(format, Input, skip + d, Begun, NextRecord)
    BY <1>1, <1>2, <1>5, <1>8, <1>12 DEF RegularInv, d
  <2>1. Complete(format, skip, Input, hs, d) /\ Bounds(format, Input, skip + d, Begun, NextRecord)
    BY DEF RegularInv, hs, d
  <2>2. Complete(format, skip, Input, new, d)
    BY <1>10, <2>1 DEF Complete
  <2> QED BY <2>1, <2>2
<1> QED BY <1>4, <1>11, <1>13

\* The numbers of a state in which an event is being read.
LEMMA ReadingIs ==
  ASSUME InputTypeInv, pc = "read"
  PROVE  /\ Len(delivered) \in Nat /\ skip \in Nat /\ number = skip + Len(delivered) + 1
         /\ position \in 1 .. Len(Input) + 1
         /\ ~AtEnd => position \in DOMAIN Input /\ Current = Input[position]
         /\ AtEnd => position = Readable + 1
         /\ newline => Readable = Len(Input)
         /\ (format # "HEPMC" \/ block = NULL) => NextRecord = position
BY InputIs DEF InputTypeInv, AtEnd, Readable, Current, NextRecord

LEMMA BeginningIs == Begun \in {0, 1} /\ Begun' \in {0, 1}
BY DEF Begun

\* A deposit is added to those in hand, or passed over.
LEMMA CollectInv ==
  ASSUME StateInv, pc = "read", ~AtEnd, Collect, format \in Deposited,
         Current.kind = "deposit", block' \in Nat \cup {NULL},
         format = "ROOT" => Current.number + 1 <= number,
         format = "BLOCKS" => block' = Current.number,
         RegularFile(format, file, newline, skip) =>
           /\ Current.number = skip + Len(delivered)
           /\ format # "ROOT" => Begun' = 1
  PROVE  StateInv'
<1> USE DEF StateInv
<1> DEFINE d == Len(delivered)
           item == Current.items[1]
           s == <<item>>
           more == collected \o s
           takes == item.detector \in Detectors /\ item.inside
<1>1. /\ UNCHANGED <<format, file, newline, skip, number, pc, delivered>>
      /\ position' = position + 1
      /\ IF takes THEN collected' = Append(collected, item) ELSE collected' = collected
  BY DEF Collect, InputSetup
<1>2. Input' = Input
  BY <1>1 DEF Input
<1>3. /\ d \in Nat /\ skip \in Nat /\ number = skip + d + 1
      /\ position \in DOMAIN Input /\ Current = Input[position] /\ NextRecord = position
      /\ DOMAIN Input = 1 .. Len(Input) /\ Len(Input) \in Nat
      /\ format # "HEPMC" /\ format \notin Generated
  BY ReadingIs, InputIs DEF Deposited, Generated
<1>4. /\ Current.items \in Seq(Items) /\ Len(Current.items) = 1 /\ Current.number \in Nat
  BY <1>3, InputIs DEF KindOf
<1>5. item \in Items /\ \A x : x \in ToSet(Current.items) <=> x = item
  BY <1>4 DEF ToSet
<1>6. s \in Seq(Items) /\ s # <<>> /\ Pairwise(s, ById) /\ \A x : x \in ToSet(s) <=> x = item
  <2> HIDE DEF item
  <2> QED BY <1>5 DEF Pairwise, ToSet
<1>7. collected \in Seq(Items)
  BY DEF InputTypeInv
<1>8. more \in Seq(Items) /\ Append(collected, item) = more
  BY <1>5, <1>7
<1>9. takes <=> Counts(format, item)
  BY DEF Counts
<1> HIDE DEF item, s, more, takes, d
<1>10. NextRecord' = position + 1
  BY <1>1, <1>3 DEF NextRecord
<1>11. collected' \in Seq(Items)
  BY <1>1, <1>7, <1>8
<1>12. InputTypeInv'
  <2>1. format \notin Generated /\ format # "HEPMC" /\ format # "GENIE"
    BY <1>3 DEF Generated
  <2>2. position' \in 1 .. Len(Input') + 1
    BY <1>1, <1>2, <1>3
  <2>3. position' <= Readable' + 1
    BY <1>1, <1>2, ReadableIs, SameLines
  <2> QED BY <1>1, <1>11, <2>1, <2>2, <2>3 DEF InputTypeInv
<1>13. Book(format, file, newline, skip, Input, InHands, position) /\ FileRecords(format, file, Input)
  BY <1>3, InputIs DEF GivenInv
<1>14. /\ InHands \in Seq(Seq(Items)) /\ Len(InHands) = d + 1
       /\ \A n \in 1 .. d : InHands[n] = ItemsOf(delivered[n])
       /\ InHands[d + 1] = collected
  BY HandsAre DEF d
<1>15. Fits(format, file, newline, skip, Current.number, d + 1)
  <2>1. format \in {"ROOT"} \cup Generated => format = "ROOT"
    BY <1>3
  <2>2. format = "ROOT" => Current.number + 1 <= skip + (d + 1)
    BY <1>3, <1>4
  <2>3. RegularFile(format, file, newline, skip) => Current.number + 1 = skip + (d + 1)
    BY <1>3, <1>4 DEF d
  <2> QED BY <2>1, <2>2, <2>3 DEF Fits
<1>16. Book(format, file, newline, skip, Input, InHands', position + 1)
  <2>1. CASE takes
    <3> DEFINE new == Handed(delivered, more, "read")
    <3>1. InHands' = new
      BY <1>1, <1>8, <2>1 DEF InHands
    <3>2. /\ new \in Seq(Seq(Items)) /\ Len(new) = d + 1
          /\ \A n \in 1 .. d : new[n] = ItemsOf(delivered[n])
          /\ new[d + 1] = more
      BY <1>8, HandedIs DEF InputTypeInv, d
    <3> HIDE DEF new
    <3>3. \A x \in ToSet(s) : Holds(format, Input, position, x)
      BY <1>3, <1>5, <1>6, <1>9, <2>1 DEF Holds
    <3>4. \A x \in ToSet(Input[position].items) : Counts(format, x) => x \in ToSet(s)
      BY <1>3, <1>5, <1>6
    <3>5. new[d + 1] = InHands[d + 1] \o s /\ \A n \in 1 .. (d + 1) - 1 : new[n] = InHands[n]
      BY <1>3, <1>14, <3>2 DEF more
    <3>6. d + 1 \in Nat \ {0}
      BY <1>3
    <3>7. Fits(format, file, newline, skip, Input[position].number, d + 1)
      BY <1>3, <1>15
    <3> DEFINE L == d + 1
    <3>8. /\ L \in Nat \ {0} /\ Len(InHands) = L /\ Len(new) = L
          /\ new[L] = InHands[L] \o s /\ \A n \in 1 .. L - 1 : new[n] = InHands[n]
          /\ Fits(format, file, newline, skip, Input[position].number, L)
      BY <1>14, <3>2, <3>5, <3>6, <3>7
    <3> HIDE DEF L
    <3>9. Book(format, file, newline, skip, Input, new, position + 1)
      BY <1>3, <1>6, <1>13, <1>14, <3>2, <3>3, <3>4, <3>8, BookExtend
    <3> QED BY <3>1, <3>9
  <2>2. CASE ~takes
    <3>1. InHands' = InHands
      BY <1>1, <2>2 DEF InHands
    <3>2. \A x \in ToSet(Input[position].items) : ~Counts(format, x)
      BY <1>3, <1>5, <1>9, <2>2
    <3>3. position \in Nat \ {0}
      BY <1>3
    <3>4. Book(format, file, newline, skip, Input, InHands, position + 1)
      BY <1>13, <3>2, <3>3, BookSkip
    <3> QED BY <3>1, <3>4
  <2> QED BY <2>1, <2>2
<1>17. GivenInv'
  BY <1>1, <1>2, <1>10, <1>16 DEF GivenInv
<1>18. RegularInv'
  <2> SUFFICES ASSUME RegularFile(format, file, newline, skip)
               PROVE  /\ Bounds(format, Input, skip + d, Begun', position + 1)
                      /\ format = "BLOCKS" => block' = skip + d
    BY <1>1, <1>2, <1>3, <1>10 DEF RegularInv, Complete, d
  <2>1. Bounds(format, Input, skip + d, Begun, position)
    BY <1>3 DEF RegularInv, d
  <2>2. Current.number = skip + d /\ (format # "ROOT" => Begun' = 1)
    BY DEF d
  <2>3. \A j \in position + 1 .. Len(Input) : j \in position .. Len(Input)
    BY <1>3
  <2>4. \A j \in 1 .. (position + 1) - 1 : j \in 1 .. position - 1 \/ j = position
    BY <1>3
  <2>5. ASSUME format # "ROOT", NEW j \in 1 .. (position + 1) - 1
        PROVE  Input[j].number < skip + d + Begun'
    <3>1. Input[j].number \in Nat /\ skip + d \in Nat
      BY <1>3, InputIs
    <3>2. CASE j \in 1 .. position - 1
      <4>1. Input[j].number < skip + d + Begun
        BY <2>1, <2>5, <3>2 DEF Bounds
      <4> QED BY <2>2, <2>5, <3>1, <4>1, BeginningIs
    <3>3. CASE j = position
      BY <1>3, <2>2, <2>5, <3>1, <3>3
    <3> QED BY <2>4, <3>2, <3>3
  <2>6. \A j \in position + 1 .. Len(Input) : skip + d <= Input[j].number
    BY <1>3, <2>1, <2>3 DEF Bounds
  <2> QED BY <2>2, <2>5, <2>6 DEF Bounds
<1> QED BY <1>12, <1>17, <1>18

\* The message of the items in hand is dispatched.
LEMMA DispatchInv ==
  ASSUME StateInv, pc = "read", NEW q \in {"idle", "end"}, Dispatch(q), format \in Deposited,
         \/ position' = position
         \/ position' = position + 1 /\ ~AtEnd /\ Current.kind = "header",
         q = "end" => position' = Readable + 1,
         RegularFile(format, file, newline, skip) =>
           Bounds(format, Input, skip + Len(delivered) + 1, Begun', position')
  PROVE  StateInv'
<1> USE DEF StateInv
<1> DEFINE d == Len(delivered)
<1>1. /\ UNCHANGED <<format, file, newline, skip, number, block, collected>>
      /\ pc' = q /\ delivered' = Append(delivered, Message)
  BY DEF Dispatch, InputSetup
<1>2. Input' = Input
  BY <1>1 DEF Input
<1>3. /\ d \in Nat /\ skip \in Nat /\ number = skip + d + 1
      /\ position \in 1 .. Len(Input) + 1 /\ NextRecord = position
      /\ ~AtEnd => position \in DOMAIN Input /\ Current = Input[position]
      /\ DOMAIN Input = 1 .. Len(Input) /\ Len(Input) \in Nat
      /\ format # "HEPMC" /\ format # "GENIE" /\ format \notin Generated
      /\ collected \in Seq(Items)
  BY ReadingIs, InputIs DEF Deposited, Generated, InputTypeInv
<1>4. ItemsOf(Message) = collected
  <2>1. ItemsOf(Message) = [i \in DOMAIN collected |-> collected[i]]
    BY DEF ItemsOf, Message
  <2>2. collected = [i \in DOMAIN collected |-> collected[i]]
    BY <1>3
  <2> QED BY <2>1, <2>2
<1>5. /\ Len(delivered') = d + 1 /\ delivered' = [n \in 1 .. Len(delivered') |-> delivered'[n]]
      /\ \A n \in 1 .. d : delivered'[n] = delivered[n]
      /\ delivered'[d + 1] = Message
      /\ \A n \in 1 .. Len(delivered') : ItemsOf(delivered'[n]) \in Seq(Items)
  <2> DEFINE new == delivered'
             m == Message
  <2>1. ItemsOf(m) \in Seq(Items) /\ new = Append(delivered, m)
    BY <1>1, <1>3, <1>4
  <2> HIDE DEF new, m
  <2>2. Adds(new, delivered, m)
    BY <2>1, HandedOver DEF InputTypeInv
  <2> QED BY <2>2 DEF new, m, Adds
<1> HIDE DEF d
<1>6. NextRecord' = position'
  BY <1>1, <1>3 DEF NextRecord
<1>7. position' \in 1 .. Len(Input) + 1
  BY <1>3
<1>8. InputTypeInv'
  <2>1. number' = skip' + Len(delivered)' + (IF pc' = "read" THEN 1 ELSE 0)
    BY <1>1, <1>3, <1>5
  <2>2. pc' \in {"idle", "read", "end"}
    BY <1>1
  <2>3. position' <= Readable' + 1 /\ (q = "end" => position' = Readable' + 1)
    BY <1>1, <1>2, ReadableIs, SameLines
  <2> QED BY <1>1, <1>2, <1>3, <1>5, <1>7, <2>1, <2>2, <2>3 DEF InputTypeInv
<1>9. InHands' = InHands
  <2> DEFINE old(n) == IF n <= d THEN ItemsOf(delivered[n]) ELSE collected
             new(n) == IF n <= d + 1 THEN ItemsOf(delivered'[n]) ELSE collected
  <2>1. InHands = [n \in 1 .. d + 1 |-> old(n)]
    BY DEF InHands, Handed, d
  <2>2. InHands' = [n \in 1 .. (d + 1) + 0 |-> new(n)]
    BY <1>1, <1>5 DEF InHands, Handed
  <2>3. \A n \in 1 .. d + 1 : new(n) = old(n)
    <3> TAKE n \in 1 .. d + 1
    <3>1. CASE n \in 1 .. d
      BY <1>3, <1>5, <3>1
    <3>2. CASE n = d + 1
      BY <1>3, <1>4, <1>5, <3>2
    <3> QED BY <1>3, <3>1, <3>2
  <2> HIDE DEF old, new
  <2>4. 1 .. (d + 1) + 0 = 1 .. d + 1
    BY <1>3
  <2> QED BY <2>1, <2>2, <2>3, <2>4
<1>10. Book(format, file, newline, skip, Input, InHands, position)
  BY <1>3 DEF GivenInv
<1>11. Book(format, file, newline, skip, Input, InHands, position')
  <2>1. CASE position' = position
    BY <1>10, <2>1
  <2>2. CASE position' = position + 1 /\ ~AtEnd /\ Current.kind = "header"
    <3>1. \A x \in ToSet(Input[position].items) : ~Counts(format, x)
      <4>1. Input[position].items = <<>>
        BY <1>3, <2>2, InputIs DEF KindOf
      <4> QED BY <4>1 DEF ToSet
    <3>2. position \in Nat \ {0}
      BY <1>3
    <3>3. Book(format, file, newline, skip, Input, InHands, position + 1)
      BY <1>10, <3>1, <3>2, BookSkip
    <3> QED BY <2>2, <3>3
  <2> QED BY <2>1, <2>2
<1>12. GivenInv'
  BY <1>1, <1>2, <1>6, <1>9, <1>11 DEF GivenInv
<1>13. RegularInv'
  <2> SUFFICES ASSUME RegularFile(format, file, newline, skip)
               PROVE  Bounds(format, Input, skip + (d + 1), Begun', position')
    BY <1>1, <1>2, <1>3, <1>5, <1>6 DEF RegularInv, Complete
  <2>1. Bounds(format, Input, skip + d + 1, Begun', position')
    BY DEF d
  <2>2. skip + d + 1 = skip + (d + 1)
    BY <1>3
  <2> QED BY <2>1, <2>2
<1> QED BY <1>8, <1>12, <1>13

-----------------------------------------------------------------------------
(* DepositionReader, format by format.                                     *)

LEMMA LaterIs == \A r : Later(r) <=> r.number + 1 > number
BY DEF Later

LEMMA EndOfInputInv ==
  ASSUME StateInv, EndOfInput
  PROVE  StateInv'
<1>1. pc = "read" /\ format \in Deposited /\ AtEnd /\ Dispatch("end") /\ position' = position
      /\ block' = block
  BY DEF EndOfInput, EndOfRunNow, Dispatch
<1>2. /\ Len(delivered) \in Nat /\ skip \in Nat /\ position = Readable + 1
      /\ (newline => Readable = Len(Input)) /\ Len(Input) \in Nat /\ NextRecord = position
      /\ position \in 1 .. Len(Input) + 1
      /\ \A j \in 1 .. Len(Input) : Input[j].number \in Nat
  BY <1>1, ReadingIs, InputIs DEF StateInv, Deposited
<1>3. ASSUME RegularFile(format, file, newline, skip)
      PROVE  Bounds(format, Input, skip + Len(delivered) + 1, Begun', position')
  <2>1. Bounds(format, Input, skip + Len(delivered), Begun, position)
    BY <1>2, <1>3 DEF StateInv, RegularInv
  <2>2. ASSUME format # "ROOT", NEW j \in 1 .. position - 1
        PROVE  Input[j].number < skip + Len(delivered) + 1 + Begun'
    <3>1. Input[j].number < skip + Len(delivered) + Begun /\ Input[j].number \in Nat
      BY <1>2, <2>1, <2>2 DEF Bounds
    <3> QED BY <1>2, <3>1, BeginningIs
  <2>3. \A j \in position .. Len(Input) : FALSE
    BY <1>2, <1>3 DEF RegularFile
  <2> QED BY <1>1, <2>2, <2>3 DEF Bounds
<1> QED BY <1>1, <1>2, <1>3, DispatchInv

LEMMA ReadHeaderInv ==
  ASSUME StateInv, ReadHeader
  PROVE  StateInv'
<1> DEFINE base == skip + Len(delivered)
           r == Current.number
<1>1. /\ pc = "read" /\ format = "CSV" /\ ~AtEnd /\ Current.kind = "header"
      /\ position' = position + 1 /\ format \in Deposited
      /\ IF Later(Current) THEN Dispatch("idle")
         ELSE UNCHANGED <<InputSetup, number, pc, block, collected, particles, delivered>>
  BY DEF ReadHeader, Deposited
<1>2. /\ base \in Nat /\ number = base + 1 /\ Len(delivered) \in Nat /\ skip \in Nat
      /\ position \in DOMAIN Input /\ Current = Input[position]
      /\ DOMAIN Input = 1 .. Len(Input) /\ Len(Input) \in Nat /\ NextRecord = position
      /\ FileRecords(format, file, Input) /\ file \in Files /\ format \in Deposited \union Generated
      /\ \A j \in DOMAIN Input : Input[j].number \in Nat
  BY <1>1, ReadingIs, InputIs DEF StateInv
<1>3. format' = "CSV" => Begun' = 1
  BY DEF Begun
<1>4. \A i, j \in DOMAIN Input : i < j => Input[i].number <= Input[j].number
  BY <1>2, RecordOrder
<1>5. r \in Nat
  BY <1>2
<1>6. ASSUME RegularFile(format, file, newline, skip)
      PROVE  /\ \A j \in position .. Len(Input) : base <= Input[j].number
             /\ \A j \in 1 .. position - 1 : Input[j].number < base + 1
             /\ r <= base + 1
  <2>1. Bounds(format, Input, base, 1, position)
    <3>1. Begun = 1
      BY <1>1 DEF Begun
    <3> QED BY <1>2, <1>6, <3>1 DEF StateInv, RegularInv
  <2>2. \A j \in 1 .. position - 1 : Input[j].number < base + 1
    BY <1>1, <2>1 DEF Bounds
  <2>3. r # 0 => \E i \in 1 .. position - 1 : Input[i].number = r - 1
    BY <1>1, <1>2, <1>6, Gapless
  <2> HIDE DEF r, base
  <2>4. r <= base + 1
    BY <1>2, <1>5, <2>2, <2>3
  <2> QED BY <1>1, <2>1, <2>2, <2>4 DEF Bounds
<1> HIDE DEF base
<1>7. CASE Later(Current)
  <2>1. Dispatch("idle")
    BY <1>1, <1>7
  <2>2. base + 1 <= r
    BY <1>2, <1>5, <1>7, LaterIs
  <2>3. Begun' = 1
    BY <1>1, <1>3, <2>1 DEF Dispatch, InputSetup
  <2>4. ASSUME RegularFile(format, file, newline, skip)
        PROVE  Bounds(format, Input, base + 1, 1, position + 1)
    <3>1. ASSUME NEW j \in position + 1 .. Len(Input)
          PROVE  base + 1 <= Input[j].number
      <4>1. position < j /\ j \in DOMAIN Input
        BY <1>2
      <4>2. r <= Input[j].number /\ Input[j].number \in Nat
        BY <1>2, <1>4, <4>1
      <4> QED BY <1>2, <1>5, <2>2, <4>2
    <3>2. ASSUME NEW j \in 1 .. (position + 1) - 1
          PROVE  Input[j].number < base + 1 + 1
      <4>1. Input[j].number \in Nat
        BY <1>2
      <4>2. CASE j \in 1 .. position - 1
        BY <1>2, <1>6, <2>4, <4>1, <4>2
      <4>3. CASE j = position
        BY <1>2, <1>6, <2>4, <4>1, <4>3
      <4> QED BY <1>2, <4>2, <4>3
    <3> QED BY <3>1, <3>2 DEF Bounds
  <2>5. RegularFile(format, file, newline, skip) =>
          Bounds(format, Input, skip + Len(delivered) + 1, Begun', position')
    BY <1>1, <2>3, <2>4 DEF base
  <2> QED BY <1>1, <2>1, <2>5, DispatchInv
<1>8. CASE ~Later(Current)
  <2>1. UNCHANGED <<InputSetup, number, pc, block, collected, delivered>>
    BY <1>1, <1>8
  <2>2. Input' = Input /\ InHands' = InHands /\ Begun' = 1
    BY <1>1, <1>3, <2>1 DEF InputSetup, Input, InHands
  <2>3. NextRecord' = position + 1
    BY <1>1, <2>1 DEF NextRecord, InputSetup
  <2>4. r < base + 1
    BY <1>2, <1>5, <1>8, LaterIs
  <2>5. InputTypeInv'
    <3>1. position' \in 1 .. Len(Input') + 1
      BY <1>1, <1>2, <2>2
    <3>2. format # "HEPMC"
      BY <1>1
    <3>3. position' <= Readable' + 1
      BY <1>1, <2>1, <2>2, ReadableIs, SameLines DEF StateInv, InputSetup
    <3> QED BY <1>1, <2>1, <3>1, <3>2, <3>3 DEF StateInv, InputTypeInv, InputSetup
  <2>6. Book(format, file, newline, skip, Input, InHands, position + 1)
    <3>1. Book(format, file, newline, skip, Input, InHands, position)
      BY <1>2 DEF StateInv, GivenInv
    <3>2. \A x \in ToSet(Input[position].items) : ~Counts(format, x)
      <4>1. Input[position].items = <<>>
        BY <1>1, <1>2, InputIs DEF StateInv, KindOf
      <4> QED BY <4>1 DEF ToSet
    <3>3. position \in Nat \ {0}
      BY <1>2
    <3> QED BY <3>1, <3>2, <3>3, BookSkip
  <2>7. GivenInv'
    BY <2>1, <2>2, <2>3, <2>6 DEF GivenInv, InputSetup
  <2>8. RegularInv'
    <3> SUFFICES ASSUME RegularFile(format, file, newline, skip)
                 PROVE  Bounds(format, Input, base, 1, position + 1)
      BY <1>1, <2>1, <2>2, <2>3 DEF RegularInv, InputSetup, Complete, Generated, base
    <3>1. \A j \in position + 1 .. Len(Input) : j \in position .. Len(Input)
      BY <1>2
    <3>2. \A j \in 1 .. (position + 1) - 1 : j \in 1 .. position - 1 \/ j = position
      BY <1>2
    <3>3. \A j \in position + 1 .. Len(Input) : base <= Input[j].number
      BY <1>6, <3>1
    <3>4. \A j \in 1 .. (position + 1) - 1 : Input[j].number < base + 1
      BY <1>2, <1>6, <2>4, <3>2
    <3> QED BY <3>3, <3>4 DEF Bounds
  <2> QED BY <2>5, <2>7, <2>8 DEF StateInv
<1> QED BY <1>7, <1>8

LEMMA ReadLineInv ==
  ASSUME StateInv, ReadLine
  PROVE  StateInv'
<1> DEFINE base == skip + Len(delivered)
           r == Current.number
<1>1. /\ pc = "read" /\ format = "CSV" /\ ~AtEnd /\ Current.kind = "deposit"
      /\ format \in Deposited /\ Collect /\ block' = block
  BY DEF ReadLine, Deposited
<1>2. /\ base \in Nat /\ Len(delivered) \in Nat /\ skip \in Nat
      /\ position \in DOMAIN Input /\ Current = Input[position]
      /\ DOMAIN Input = 1 .. Len(Input) /\ Len(Input) \in Nat /\ NextRecord = position
      /\ FileRecords(format, file, Input) /\ file \in Files /\ format \in Deposited \union Generated
      /\ \A j \in DOMAIN Input : Input[j].number \in Nat
      /\ block \in Nat \cup {NULL}
  BY <1>1, ReadingIs, InputIs DEF StateInv, InputTypeInv
<1>3. Begun' = 1
  BY <1>1 DEF Begun, Collect, InputSetup
<1>4. ASSUME RegularFile(format, file, newline, skip)
      PROVE  r = base
  <2>1. Bounds(format, Input, base, 1, position)
    <3>1. Begun = 1
      BY <1>1 DEF Begun
    <3> QED BY <1>2, <1>4, <3>1 DEF StateInv, RegularInv
  <2>2. PICK i \in 1 .. position - 1 : Input[i].number = r
    <3>1. Input[position].kind = "deposit" /\ Input[position].number = r
      BY <1>1, <1>2
    <3>2. \E i \in 1 .. position - 1 : Input[i].number = Input[position].number
      <4>1. /\ file \in Files /\ FileRecords("CSV", file, Input)
            /\ RegularFile("CSV", file, newline, skip) /\ position \in DOMAIN Input
        BY <1>1, <1>2, <1>4
      <4> DEFINE rs == Input
                 j == position
      <4>2. rs[j].kind = "deposit" /\ j \in DOMAIN rs
        BY <3>1, <4>1
      <4>3. FileRecords("CSV", file, rs) /\ RegularFile("CSV", file, newline, skip)
        BY <4>1
      <4> HIDE DEF rs, j
      <4>4. \E i \in 1 .. j - 1 : rs[i].number = rs[j].number
        BY <4>1, <4>2, <4>3, HeaderBefore
      <4> QED BY <4>4 DEF rs, j
    <3> QED BY <3>1, <3>2
  <2>3. Input[i].number < base + 1
    BY <1>1, <2>1, <2>2 DEF Bounds
  <2>4. position \in position .. Len(Input)
    BY <1>2
  <2>5. base <= r
    BY <1>1, <1>2, <2>1, <2>4 DEF Bounds
  <2>6. r \in Nat
    BY <1>2
  <2> HIDE DEF r, base
  <2> QED BY <1>2, <2>2, <2>3, <2>5, <2>6
<1> QED BY <1>1, <1>2, <1>3, <1>4, CollectInv

LEMMA ReadEntryInv ==
  ASSUME StateInv, ReadEntry
  PROVE  StateInv'
<1> DEFINE base == skip + Len(delivered)
           r == Current.number
<1>1. /\ pc = "read" /\ format = "ROOT" /\ ~AtEnd /\ format \in Deposited
      /\ IF Later(Current) THEN Dispatch("idle") /\ position' = position
         ELSE Collect /\ block' = block
  BY DEF ReadEntry, Deposited
<1>2. /\ base \in Nat /\ Len(delivered) \in Nat /\ skip \in Nat /\ number = base + 1
      /\ position \in DOMAIN Input /\ Current = Input[position]
      /\ DOMAIN Input = 1 .. Len(Input) /\ Len(Input) \in Nat /\ NextRecord = position
      /\ FileRecords(format, file, Input)
      /\ \A j \in DOMAIN Input : Input[j].number \in Nat
      /\ block \in Nat \cup {NULL} /\ Current.kind = "deposit"
  BY <1>1, ReadingIs, InputIs DEF StateInv, InputTypeInv, KindOf
<1>3. r \in Nat
  BY <1>2
<1>4. CASE Later(Current)
  <2>1. base + 1 <= r
    BY <1>2, <1>3, <1>4, LaterIs
  <2>2. \A j \in position .. Len(Input) : base + 1 <= Input[j].number
    <3> TAKE j \in position .. Len(Input)
    <3>1. j \in DOMAIN Input /\ (position < j \/ position = j)
      BY <1>2
    <3>2. r <= Input[j].number /\ Input[j].number \in Nat
      BY <1>2, <1>3, <3>1, RecordOrder
    <3> HIDE DEF r, base
    <3> QED BY <1>2, <1>3, <2>1, <3>2
  <2>3. Bounds(format, Input, base + 1, Begun', position)
    BY <1>1, <2>2 DEF Bounds
  <2> QED BY <1>1, <1>4, <2>3, DispatchInv
<1>5. CASE ~Later(Current)
  <2>1. r + 1 <= number
    BY <1>2, <1>3, <1>5, LaterIs
  <2>2. ASSUME RegularFile(format, file, newline, skip)
        PROVE  r = base
    <3>1. Bounds(format, Input, base, Begun, position)
      BY <1>2, <2>2 DEF StateInv, RegularInv
    <3>2. position \in position .. Len(Input)
      BY <1>2
    <3>3. base <= r
      BY <1>1, <1>2, <3>1, <3>2 DEF Bounds
    <3> HIDE DEF r, base
    <3> QED BY <1>2, <1>3, <2>1, <3>3
  <2>3. Collect /\ block' \in Nat \cup {NULL} /\ format # "BLOCKS"
    BY <1>1, <1>2, <1>5
  <2> QED BY <1>1, <1>2, <2>1, <2>2, <2>3, CollectInv
<1> QED BY <1>4, <1>5

LEMMA ReadBlockInv ==
  ASSUME StateInv, ReadBlock
  PROVE  StateInv'
<1> DEFINE base == skip + Len(delivered)
           r == Current.number
<1>1. /\ pc = "read" /\ format = "BLOCKS" /\ ~AtEnd /\ format \in Deposited
      /\ IF block \notin {NULL, r} THEN Dispatch("idle") /\ position' = position
         ELSE Collect /\ block' = r
  BY DEF ReadBlock, Deposited
<1>2. /\ base \in Nat /\ Len(delivered) \in Nat /\ skip \in Nat
      /\ position \in DOMAIN Input /\ Current = Input[position]
      /\ DOMAIN Input = 1 .. Len(Input) /\ Len(Input) \in Nat /\ NextRecord = position
      /\ FileRecords(format, file, Input) /\ file \in Files /\ format \in Deposited \union Generated
      /\ \A j \in DOMAIN Input : Input[j].number \in Nat
      /\ block \in Nat \cup {NULL} /\ NULL \notin Nat /\ Current.kind = "deposit"
  BY <1>1, ReadingIs, InputIs DEF StateInv, InputTypeInv, KindOf
<1>3. r \in Nat
  BY <1>2
<1>4. ASSUME RegularFile(format, file, newline, skip)
      PROVE  /\ Bounds(format, Input, base, Begun, position)
             /\ block # NULL => block = base
             /\ base <= r
  <2>1. Bounds(format, Input, base, Begun, position) /\ (block # NULL => block = base)
    BY <1>1, <1>2, <1>4 DEF StateInv, RegularInv
  <2>2. position \in position .. Len(Input)
    BY <1>2
  <2> QED BY <1>1, <1>2, <2>1, <2>2 DEF Bounds
<1>5. CASE block \notin {NULL, r}
  <2>1. ASSUME RegularFile(format, file, newline, skip)
        PROVE  Bounds(format, Input, base + 1, Begun', position)
    <3>1. base + 1 <= r
      BY <1>2, <1>3, <1>4, <1>5, <2>1
    <3>2. \A j \in position .. Len(Input) : base + 1 <= Input[j].number
      <4> TAKE j \in position .. Len(Input)
      <4>1. j \in DOMAIN Input /\ (position < j \/ position = j)
        BY <1>2
      <4>2. r <= Input[j].number /\ Input[j].number \in Nat
        BY <1>2, <1>3, <4>1, RecordOrder
      <4> HIDE DEF r, base
      <4> QED BY <1>2, <1>3, <3>1, <4>2
    <3>3. \A j \in 1 .. position - 1 : Input[j].number < base + 1 + Begun'
      <4> TAKE j \in 1 .. position - 1
      <4>1. Input[j].number < base + Begun
        BY <1>1, <1>4, <2>1 DEF Bounds
      <4>2. Input[j].number \in Nat
        BY <1>2
      <4> HIDE DEF base
      <4> QED BY <1>2, <4>1, <4>2, BeginningIs
    <3> QED BY <3>2, <3>3 DEF Bounds
  <2> QED BY <1>1, <1>5, <2>1, DispatchInv
<1>6. CASE block \in {NULL, r}
  <2>1. Collect /\ block' = r
    BY <1>1, <1>6
  <2>2. Begun' = 1
    <3>1. format' = format /\ pc' = pc
      BY <2>1 DEF Collect, InputSetup
    <3>2. block' # NULL
      BY <1>2, <1>3, <2>1
    <3> QED BY <1>1, <3>1, <3>2 DEF Begun
  <2>3. ASSUME RegularFile(format, file, newline, skip)
        PROVE  r = base
    <3>1. CASE block = NULL
      <4>1. Begun = 0
        BY <1>1, <3>1 DEF Begun
      <4>2. \A i \in 1 .. position - 1 : Input[i].number < base + 0
        BY <1>1, <1>4, <2>3, <4>1 DEF Bounds
      <4>3. r # 0 => \E i \in 1 .. position - 1 : Input[i].number = r - 1
        BY <1>1, <1>2, <2>3, Gapless
      <4>4. base <= r
        BY <1>4, <2>3
      <4> HIDE DEF r, base
      <4> QED BY <1>2, <1>3, <4>2, <4>3, <4>4
    <3>2. CASE block # NULL
      BY <1>4, <1>6, <2>3, <3>2
    <3> QED BY <3>1, <3>2
  <2> QED BY <1>1, <1>2, <1>3, <2>1, <2>2, <2>3, CollectInv
<1> QED BY <1>5, <1>6

-----------------------------------------------------------------------------
(* DepositionGenerator.                                                    *)

\* What an event got so far, with the items that are now given to it.
Gets(new, hs, d, items) ==
    /\ hs \in Seq(Seq(Items)) /\ new \in Seq(Seq(Items)) /\ Len(hs) = d + 1 /\ Len(new) = d + 1
    /\ \A n \in 1 .. d : new[n] = hs[n]
    /\ hs[d + 1] = <<>> /\ new[d + 1] = items

LEMMA GenerateHands ==
  ASSUME InputTypeInv, pc = "read", format \in Generated, NEW items \in Seq(Items),
         NEW q \in {"idle", "end"}, Generate(items, q), block' = block,
         position' \in 1 .. Len(Input) + 1, format = "HEPMC" => position' = position
  PROVE  /\ InputTypeInv' /\ Input' = Input /\ Len(delivered)' = Len(delivered) + 1
         /\ UNCHANGED <<format, file, newline, skip>> /\ pc' # "read"
         /\ Gets(InHands', InHands, Len(delivered), items)
<1> DEFINE d == Len(delivered)
           m == [deposits |-> [i \in DOMAIN items |-> [item |-> items[i], particle |-> NULL]],
                 particles |-> <<>>]
<1>1. /\ UNCHANGED <<format, file, newline, skip, number, collected>>
      /\ pc' = q /\ delivered' = Append(delivered, m)
  BY DEF Generate, InputSetup
<1>2. Input' = Input
  BY <1>1 DEF Input
<1>3. /\ d \in Nat /\ skip \in Nat /\ number = skip + d + 1 /\ collected = <<>>
  BY ReadingIs DEF InputTypeInv
<1>4. ItemsOf(m) = items
  <2>1. ItemsOf(m) = [i \in DOMAIN items |-> items[i]]
    BY DEF ItemsOf
  <2>2. items = [i \in DOMAIN items |-> items[i]]
    OBVIOUS
  <2> QED BY <2>1, <2>2
<1>5. Adds(delivered', delivered, m)
  <2> HIDE DEF m
  <2> QED BY <1>1, <1>4, HandedOver DEF InputTypeInv
<1>6. InputTypeInv'
  <2>1. number' = skip' + Len(delivered)' + (IF pc' = "read" THEN 1 ELSE 0)
    <3>1. Len(delivered') = d + 1 /\ pc' # "read"
      BY <1>1, <1>5 DEF Adds
    <3>2. number' = number /\ skip' = skip
      BY <1>1
    <3>3. number = skip + (d + 1) + 0
      BY <1>3
    <3> QED BY <3>1, <3>2, <3>3
  <2>2. pc' \in {"idle", "read", "end"}
    BY <1>1
  <2>3. /\ Len(delivered') \in Nat /\ delivered' = [n \in 1 .. Len(delivered') |-> delivered'[n]]
        /\ \A n \in 1 .. Len(delivered') : ItemsOf(delivered'[n]) \in Seq(Items)
    BY <1>3, <1>5 DEF Adds
  <2>4. position' <= Readable' + 1 /\ format \notin Deposited
    <3>1. newline /\ Readable' = Readable /\ Readable = Len(Input)
      BY <1>1, <1>2, ReadableIs, SameLines
    <3>2. format \notin Deposited /\ Len(Input) \in Nat
      BY InputIs
    <3> QED BY <3>1, <3>2
  <2> QED BY <1>1, <1>2, <2>1, <2>2, <2>3, <2>4 DEF InputTypeInv
<1>7. /\ InHands \in Seq(Seq(Items)) /\ Len(InHands) = d + 1
      /\ \A n \in 1 .. d : InHands[n] = ItemsOf(delivered[n])
      /\ InHands[d + 1] = <<>>
  BY <1>3, HandsAre
<1> DEFINE new == Handed(delivered', collected', pc')
<1>8. InHands' = new
  BY DEF InHands
<1>9. /\ new \in Seq(Seq(Items)) /\ Len(new) = Len(delivered') + 0
      /\ \A n \in 1 .. Len(delivered') : new[n] = ItemsOf(delivered'[n])
  <2>1. /\ Len(delivered') \in Nat /\ collected' \in Seq(Items)
        /\ \A n \in 1 .. Len(delivered') : ItemsOf(delivered'[n]) \in Seq(Items)
    BY <1>6 DEF InputTypeInv
  <2>2. pc' # "read"
    BY <1>1
  <2> DEFINE del == delivered'
             col == collected'
             p == pc'
  <2>3. /\ Len(del) \in Nat /\ col \in Seq(Items) /\ p # "read"
        /\ \A n \in 1 .. Len(del) : ItemsOf(del[n]) \in Seq(Items)
    BY <2>1, <2>2
  <2> HIDE DEF del, col, p
  <2>4. /\ Handed(del, col, p) \in Seq(Seq(Items)) /\ Len(Handed(del, col, p)) = Len(del) + 0
        /\ \A n \in 1 .. Len(del) : Handed(del, col, p)[n] = ItemsOf(del[n])
    BY <2>3, HandedIs
  <2> QED BY <2>4 DEF del, col, p
<1>10. Len(delivered') = d + 1 /\ delivered'[d + 1] = m
       /\ \A n \in 1 .. d : delivered'[n] = delivered[n]
  BY <1>5 DEF Adds
<1> HIDE DEF new, m, d
<1>11. Gets(new, InHands, d, items)
  <2>1. d + 1 \in 1 .. d + 1 /\ (\A n \in 1 .. d : n \in 1 .. d + 1) /\ (d + 1) + 0 = d + 1
    BY <1>3
  <2>2. Len(new) = d + 1 /\ \A n \in 1 .. d + 1 : new[n] = ItemsOf(delivered'[n])
    BY <1>9, <1>10, <2>1
  <2> QED BY <1>4, <1>7, <1>9, <1>10, <2>1, <2>2 DEF Gets
<1>12. pc' # "read"
  BY <1>1
<1> QED BY <1>1, <1>2, <1>6, <1>8, <1>10, <1>11, <1>12 DEF d

\* The items of an event of a generator are those that count.
LEMMA AcceptedIs ==
  ASSUME InputTypeInv, format \in Generated, NEW j \in DOMAIN Input
  PROVE  /\ Accepted(Input[j]) \in Seq(Items) /\ Pairwise(Accepted(Input[j]), ById)
         /\ \A x : x \in ToSet(Accepted(Input[j])) <=> Holds(format, Input, j, x)
<1> DEFINE s == Input[j].items
           S == {item \in ToSet(s) : item.inside}
<1>1. s \in Seq(Items) /\ Pairwise(s, ById) /\ format \notin Deposited
  BY InputIs DEF FileRecords
<1>2. Accepted(Input[j]) = Only(s, S)
  BY DEF Accepted
<1>3. \A x : x \in ToSet(s) /\ x \in S <=> Holds(format, Input, j, x)
  BY <1>1 DEF Holds, Counts
<1> HIDE DEF s, S
<1>4. Only(s, S) \in Seq(Items) /\ \A x : x \in ToSet(Only(s, S)) <=> x \in ToSet(s) /\ x \in S
  BY <1>1, OnlyRange
<1>5. Pairwise(Only(s, S), ById)
  BY <1>1, PairwiseOnly
<1> QED BY <1>2, <1>3, <1>4, <1>5

\* One event of the file is used up for an event of the run.
LEMMA GiveInv ==
  ASSUME StateInv, pc = "read", format \in Generated, NextRecord \in DOMAIN Input,
         NEW items, Generate(items, "idle"), block' = block,
         items = IF Later(Input[NextRecord]) THEN <<>> ELSE Accepted(Input[NextRecord]),
         position' = NextRecord + 1, format = "HEPMC" => position' = position,
         RegularFile(format, file, newline, skip) =>
           /\ Input[NextRecord].number = skip + Len(delivered)
  PROVE  StateInv'
<1> USE DEF StateInv
<1> DEFINE d == Len(delivered)
           nx == NextRecord
           base == skip + d
           hs == InHands
           new == InHands'
<1>1. /\ d \in Nat /\ skip \in Nat /\ number = base + 1 /\ base \in Nat
      /\ FileRecords(format, file, Input) /\ file \in Files /\ format \notin Deposited
      /\ Len(Input) \in Nat /\ DOMAIN Input = 1 .. Len(Input)
      /\ \A j \in DOMAIN Input : Input[j].number \in Nat /\ Input[j].kind = "event"
  BY ReadingIs, InputIs DEF KindOf
<1>2. /\ Accepted(Input[nx]) \in Seq(Items) /\ Pairwise(Accepted(Input[nx]), ById)
      /\ \A x : x \in ToSet(Accepted(Input[nx])) <=> Holds(format, Input, nx, x)
  BY AcceptedIs
<1>3. <<>> \in Seq(Items) /\ Pairwise(<<>>, ById) /\ ToSet(<<>>) = {}
  BY DEF Pairwise, ToSet
<1>4. items \in Seq(Items) /\ Pairwise(items, ById)
      /\ \A x \in ToSet(items) : Holds(format, Input, nx, x)
  BY <1>2, <1>3
<1>5. position' \in 1 .. Len(Input) + 1
  BY <1>1
<1>6. /\ InputTypeInv' /\ Input' = Input /\ Len(delivered)' = d + 1
      /\ UNCHANGED <<format, file, newline, skip>> /\ pc' # "read"
      /\ Gets(new, hs, d, items)
  BY <1>4, <1>5, GenerateHands
<1>7. NextRecord' = nx + 1
  BY <1>6 DEF NextRecord
<1>8. Book(format, file, newline, skip, Input, hs, nx)
  BY DEF GivenInv
<1>9. RegularFile(format, file, newline, skip) => Input[nx].number = base
  OBVIOUS
<1>10. ~Later(Input[nx]) => Input[nx].number + 1 <= number
  BY <1>1, LaterIs
<1> HIDE DEF hs, new, nx
<1> DEFINE L == d + 1
<1>11. /\ L \in Nat \ {0} /\ new \in Seq(Seq(Items)) /\ hs \in Seq(Seq(Items))
       /\ Len(hs) = L /\ Len(new) = L /\ new[L] = hs[L] \o items
       /\ \A n \in 1 .. L - 1 : new[n] = hs[n]
  <2>1. <<>> \o items = items
    BY <1>4
  <2>2. \A n \in 1 .. L - 1 : n \in 1 .. d
    BY <1>1
  <2> QED BY <1>1, <1>6, <2>1, <2>2 DEF Gets
<1>12. items # <<>> => Fits(format, file, newline, skip, Input[nx].number, L)
  <2> HAVE items # <<>>
  <2>1. ~Later(Input[nx])
    BY DEF nx
  <2>2. Input[nx].number \in Nat
    BY <1>1 DEF nx
  <2>3. Input[nx].number + 1 <= skip + L
    BY <1>1, <1>10, <2>1, <2>2
  <2>4. RegularFile(format, file, newline, skip) => Input[nx].number + 1 = skip + L
    BY <1>1, <1>9, <2>2
  <2> QED BY <2>3, <2>4 DEF Fits
<1> HIDE DEF L
<1>13. Book(format, file, newline, skip, Input, new, nx + 1)
  <2>1. nx \in DOMAIN Input
    BY DEF nx
  <2> QED BY <1>1, <1>4, <1>8, <1>11, <1>12, <2>1, BookExtend
<1>14. GivenInv'
  BY <1>6, <1>7, <1>13 DEF GivenInv, new
<1>15. RegularInv'
  <2> SUFFICES ASSUME RegularFile(format, file, newline, skip)
               PROVE  /\ Complete(format, skip, Input, new, d + 1)
                      /\ Bounds(format, Input, skip + (d + 1), Begun', nx + 1)
    BY <1>6, <1>7 DEF RegularInv, new, Generated
  <2>1. Complete(format, skip, Input, hs, d) /\ Bounds(format, Input, base, Begun, nx)
    BY DEF RegularInv, hs, nx
  <2>2. Begun = 0 /\ Begun' = 0
    <3>1. format # "CSV" /\ format # "BLOCKS" /\ format' = format
      BY <1>6 DEF Generated
    <3> QED BY <3>1 DEF Begun
  <2>3. nx \in DOMAIN Input /\ Input[nx].number = base
    BY <1>9 DEF nx
  <2> HIDE DEF base
  <2>4. items = Accepted(Input[nx])
    <3>1. ~Later(Input[nx])
      BY <1>1, <2>3, LaterIs
    <3> QED BY <3>1 DEF nx
  <2>5. \A j \in DOMAIN Input : /\ j < nx => Input[j].number < base
                                /\ nx < j => base < Input[j].number
    BY <1>1, <2>3, RecordOrder
  <2>6. Complete(format, skip, Input, new, d + 1)
    <3> SUFFICES ASSUME NEW n \in 1 .. d + 1, NEW j \in DOMAIN Input,
                        Input[j].number + 1 = skip + n,
                        NEW x \in ToSet(Input[j].items), Counts(format, x)
                 PROVE  x \in ToSet(new[n])
      BY DEF Complete
    <3>1. CASE n \in 1 .. d
      BY <1>6, <2>1, <3>1 DEF Complete, Gets
    <3>2. CASE n = d + 1
      <4>1. Input[j].number = base
        BY <1>1, <3>2 DEF base
      <4>2. j = nx
        BY <1>1, <2>3, <2>5, <4>1
      <4>3. new[d + 1] = Accepted(Input[nx])
        BY <1>6, <2>4 DEF Gets
      <4> QED BY <1>2, <3>2, <4>2, <4>3 DEF Holds
    <3> QED BY <1>1, <3>1, <3>2
  <2>7. ASSUME NEW j \in nx + 1 .. Len(Input)
        PROVE  base + 1 <= Input[j].number
    <3>1. j \in DOMAIN Input /\ nx < j
      BY <1>1, <2>3
    <3> QED BY <1>1, <2>5, <3>1
  <2>8. ASSUME NEW j \in 1 .. (nx + 1) - 1
        PROVE  Input[j].number < base + 1 + 0
    <3>1. j \in DOMAIN Input /\ (j < nx \/ j = nx)
      BY <1>1, <2>3
    <3> QED BY <1>1, <2>3, <2>5, <3>1
  <2>9. Bounds(format, Input, base + 1, Begun', nx + 1)
    BY <2>2, <2>7, <2>8 DEF Bounds
  <2>10. base + 1 = skip + (d + 1)
    BY <1>1 DEF base
  <2> QED BY <2>6, <2>9, <2>10
<1> QED BY <1>6, <1>14, <1>15

LEMMA EndOfGeneratorInv ==
  ASSUME StateInv, EndOfGenerator
  PROVE  StateInv'
<1> USE DEF StateInv
<1> DEFINE d == Len(delivered)
<1>1. /\ pc = "read" /\ format \in Generated /\ AtEnd /\ block = NULL
      /\ Generate(<<>>, "end") /\ position' = position /\ block' = block
  BY DEF EndOfGenerator
<1>2. /\ d \in Nat /\ skip \in Nat /\ position = Len(Input) + 1 /\ NextRecord = position
      /\ Len(Input) \in Nat /\ DOMAIN Input = 1 .. Len(Input)
      /\ \A j \in DOMAIN Input : Input[j].number \in Nat
  BY <1>1, ReadingIs, ReadableIs, InputIs
<1>3. <<>> \in Seq(Items) /\ position' \in 1 .. Len(Input) + 1
  BY <1>1, <1>2
<1>4. /\ InputTypeInv' /\ Input' = Input /\ Len(delivered)' = d + 1
      /\ UNCHANGED <<format, file, newline, skip>> /\ pc' # "read"
      /\ Gets(InHands', InHands, d, <<>>)
  BY <1>1, <1>3, GenerateHands
<1>5. InHands' = InHands
  <2> DEFINE new == InHands'
             hs == InHands
  <2>1. Gets(new, hs, d, <<>>)
    BY <1>4
  <2> HIDE DEF new, hs, d
  <2>2. \A n \in 1 .. d + 1 : n \in 1 .. d \/ n = d + 1
    BY <1>2
  <2>3. \A n \in 1 .. Len(new) : new[n] = hs[n]
    BY <2>1, <2>2 DEF Gets
  <2>4. new \in Seq(Seq(Items)) /\ hs \in Seq(Seq(Items)) /\ Len(new) = Len(hs)
    BY <2>1 DEF Gets
  <2>5. new = hs
    BY <2>3, <2>4, SeqEqual
  <2> QED BY <2>5 DEF new, hs
<1>6. NextRecord' = NextRecord
  BY <1>1, <1>2, <1>4 DEF NextRecord
<1>7. GivenInv'
  BY <1>4, <1>5, <1>6 DEF GivenInv
<1>8. RegularInv'
  <2> SUFFICES ASSUME RegularFile(format, file, newline, skip)
               PROVE  /\ Complete(format, skip, Input, InHands, d + 1)
                      /\ Bounds(format, Input, skip + (d + 1), Begun', position)
    BY <1>1, <1>2, <1>4, <1>5, <1>6 DEF RegularInv, Generated
  <2>1. /\ Complete(format, skip, Input, InHands, d)
        /\ Bounds(format, Input, skip + d, Begun, position)
    BY <1>2 DEF RegularInv
  <2>2. Begun = 0 /\ Begun' = 0 /\ format # "ROOT"
    <3>1. format # "CSV" /\ format # "BLOCKS" /\ format # "ROOT" /\ format' = format
      BY <1>1, <1>4 DEF Generated
    <3> QED BY <3>1 DEF Begun
  <2> HIDE DEF d
  <2>3. \A j \in DOMAIN Input : Input[j].number < skip + d
    <3> TAKE j \in DOMAIN Input
    <3>1. j \in 1 .. position - 1
      BY <1>2
    <3>2. Input[j].number < skip + d + 0
      BY <2>1, <2>2, <3>1 DEF Bounds
    <3> QED BY <1>2, <3>2
  <2>4. Complete(format, skip, Input, InHands, d + 1)
    <3> SUFFICES ASSUME NEW n \in 1 .. d + 1, NEW j \in DOMAIN Input,
                        Input[j].number + 1 = skip + n,
                        NEW x \in ToSet(Input[j].items), Counts(format, x)
                 PROVE  x \in ToSet(InHands[n])
      BY DEF Complete
    <3>1. CASE n \in 1 .. d
      BY <1>1, <2>1, <3>1 DEF Complete
    <3>2. CASE n = d + 1
      BY <1>2, <2>3, <3>2
    <3> QED BY <1>2, <3>1, <3>2
  <2>5. Bounds(format, Input, skip + (d + 1), Begun', position)
    <3>1. \A j \in position .. Len(Input) : FALSE
      BY <1>2
    <3>2. ASSUME NEW j \in 1 .. position - 1
          PROVE  Input[j].number < skip + (d + 1) + 0
      BY <1>2, <2>3
    <3> QED BY <2>2, <3>1, <3>2 DEF Bounds
  <2> QED BY <2>4, <2>5
<1> QED BY <1>4, <1>7, <1>8

LEMMA ReadGenieInv ==
  ASSUME StateInv, ReadGenie
  PROVE  StateInv'
<1> DEFINE base == skip + Len(delivered)
           nx == NextRecord
           r == Input[nx].number
<1>1. /\ pc = "read" /\ format = "GENIE" /\ ~AtEnd /\ format \in Generated
      /\ Generate(IF Later(Current) THEN <<>> ELSE Accepted(Current), "idle")
      /\ position' = position + 1 /\ block' = block
  BY DEF ReadGenie, Generated
<1>2. /\ base \in Nat /\ nx = position /\ position \in DOMAIN Input /\ Current = Input[nx]
      /\ FileRecords(format, file, Input) /\ file \in Files /\ format \in Deposited \union Generated
      /\ Len(Input) \in Nat /\ DOMAIN Input = 1 .. Len(Input)
      /\ \A j \in DOMAIN Input : Input[j].number \in Nat
  BY <1>1, ReadingIs, InputIs DEF StateInv
<1>3. ASSUME RegularFile(format, file, newline, skip)
      PROVE  r = base
  <2>1. Bounds(format, Input, base, 0, nx)
    <3>1. Begun = 0
      BY <1>1 DEF Begun
    <3> QED BY <1>3, <3>1 DEF StateInv, RegularInv
  <2>2. \A j \in 1 .. nx - 1 : Input[j].number < base + 0
    BY <1>1, <2>1 DEF Bounds
  <2>3. nx \in nx .. Len(Input) /\ nx \in DOMAIN Input
    BY <1>2
  <2>4. base <= r
    BY <1>1, <2>1, <2>3 DEF Bounds
  <2> HIDE DEF nx
  <2>5. r # 0 => \E i \in 1 .. nx - 1 : Input[i].number = r - 1
    <3>1. format # "ROOT"
      BY <1>1
    <3>2. Input[nx].number # 0 => \E i \in 1 .. nx - 1 : Input[i].number = Input[nx].number - 1
      <4>1. /\ FileRecords(format, file, Input) /\ file \in Files /\ nx \in DOMAIN Input
            /\ format \in Deposited \union Generated /\ RegularFile(format, file, newline, skip)
        BY <1>2, <1>3, <2>3
      <4> QED BY <3>1, <4>1, Gapless
    <3> QED BY <3>2
  <2>6. r \in Nat
    BY <1>2, <2>3
  <2> HIDE DEF r, base
  <2> QED BY <1>2, <2>2, <2>4, <2>5, <2>6
<1> QED BY <1>1, <1>2, <1>3, GiveInv

LEMMA TakeHepMCInv ==
  ASSUME StateInv, TakeHepMC
  PROVE  StateInv'
<1> DEFINE base == skip + Len(delivered)
           nx == NextRecord
           r == Input[nx].number
<1>1. /\ pc = "read" /\ format = "HEPMC" /\ block # NULL /\ format \in Generated
      /\ ~TooEarly(Input[block])
      /\ Generate(IF Later(Input[block]) THEN <<>> ELSE Accepted(Input[block]), "idle")
      /\ position' = position /\ block' = block
  BY DEF TakeHepMC, Generated
<1>2. /\ base \in Nat /\ nx = block /\ nx \in DOMAIN Input /\ position = nx + 1
      /\ number = base + 1
      /\ FileRecords(format, file, Input) /\ file \in Files /\ format \in Deposited \union Generated
      /\ Len(Input) \in Nat /\ DOMAIN Input = 1 .. Len(Input)
      /\ \A j \in DOMAIN Input : Input[j].number \in Nat
  BY <1>1, ReadingIs, InputIs DEF StateInv, InputTypeInv, NextRecord
<1>3. ASSUME RegularFile(format, file, newline, skip)
      PROVE  r = base
  <2>1. Bounds(format, Input, base, 0, nx)
    <3>1. Begun = 0
      BY <1>1 DEF Begun
    <3> QED BY <1>3, <3>1 DEF StateInv, RegularInv
  <2>2. \A j \in 1 .. nx - 1 : Input[j].number < base + 0
    BY <1>1, <2>1 DEF Bounds
  <2>3. r \in Nat /\ ~(r + 1 < number)
    BY <1>1, <1>2 DEF TooEarly
  <2>4. nx \in DOMAIN Input
    BY <1>2
  <2> HIDE DEF nx
  <2>5. r # 0 => \E i \in 1 .. nx - 1 : Input[i].number = r - 1
    <3>1. format # "ROOT"
      BY <1>1
    <3>2. Input[nx].number # 0 => \E i \in 1 .. nx - 1 : Input[i].number = Input[nx].number - 1
      <4>1. /\ FileRecords(format, file, Input) /\ file \in Files
            /\ format \in Deposited \union Generated /\ RegularFile(format, file, newline, skip)
        BY <1>2, <1>3
      <4> QED BY <2>4, <3>1, <4>1, Gapless
    <3> QED BY <3>2
  <2> HIDE DEF r, base
  <2> QED BY <1>2, <2>2, <2>3, <2>5
<1>4. Input[block] = Input[nx]
  BY <1>2
<1> HIDE DEF nx
<1>5. Generate(IF Later(Input[nx]) THEN <<>> ELSE Accepted(Input[nx]), "idle")
  BY <1>1, <1>4
<1> QED BY <1>1, <1>2, <1>3, <1>5, GiveInv DEF nx

\* HepMC: an event is read ahead, or dropped and the next one read.
LEMMA AheadInv ==
  ASSUME StateInv, ReadHepMC \/ DropHepMC
  PROVE  StateInv'
<1> USE DEF StateInv
<1> DEFINE base == skip + Len(delivered)
<1>1. /\ pc = "read" /\ format = "HEPMC" /\ format \in Generated /\ format \notin Deposited
      /\ UNCHANGED <<format, file, newline, skip, number, pc, collected, delivered>>
  BY DEF ReadHepMC, DropHepMC, InputSetup, Generated, Deposited
<1>2. /\ base \in Nat /\ skip \in Nat /\ number = base + 1 /\ position \in 1 .. Len(Input) + 1
      /\ ~AtEnd => position \in DOMAIN Input
      /\ block = NULL => NextRecord = position
      /\ block # NULL => NextRecord = block /\ block \in DOMAIN Input /\ position = block + 1
      /\ Len(Input) \in Nat /\ DOMAIN Input = 1 .. Len(Input) /\ NULL \notin Nat
      /\ \A j \in DOMAIN Input : Input[j].number \in Nat
  BY <1>1, ReadingIs, InputIs DEF InputTypeInv, NextRecord
<1>3. Input' = Input /\ InHands' = InHands /\ Begun = 0 /\ Begun' = 0
  BY <1>1 DEF Input, InHands, Begun
<1>4. CASE block' = block /\ position' = position
  <2>1. NextRecord' = NextRecord
    BY <1>1, <1>4 DEF NextRecord
  <2>2. InputTypeInv'
    <3>1. Readable' = Readable
      BY <1>1, <1>3, SameLines
    <3> QED BY <1>1, <1>3, <1>4, <3>1 DEF InputTypeInv
  <2>3. GivenInv' /\ RegularInv'
    BY <1>1, <1>3, <1>4, <2>1 DEF GivenInv, RegularInv
  <2> QED BY <2>2, <2>3
<1>5. CASE /\ ~AtEnd /\ block' = position /\ position' = position + 1
           /\ block # NULL => Input[block].number + 1 < number
  <2>1. block' # NULL /\ NextRecord' = position
    BY <1>1, <1>2, <1>5 DEF NextRecord
  <2>2. InputTypeInv'
    <3>1. /\ block' \in Nat /\ position' \in 1 .. Len(Input') + 1
          /\ block' \in DOMAIN Input' /\ position' = block' + 1
      BY <1>2, <1>3, <1>5
    <3>2. format # "GENIE"
      BY <1>1
    <3>3. position' <= Readable' + 1
      BY <1>1, <1>3, <1>5, ReadableIs, SameLines
    <3> QED BY <1>1, <3>1, <3>2, <3>3 DEF InputTypeInv
  <2>3. Book(format, file, newline, skip, Input, InHands, NextRecord)
    BY DEF GivenInv
  <2>4. Book(format, file, newline, skip, Input, InHands, position)
    <3>1. CASE block = NULL
      BY <1>2, <2>3, <3>1
    <3>2. CASE block # NULL
      <4>1. NextRecord \in Nat \ {0} /\ position = NextRecord + 1
        BY <1>2, <3>2
      <4> QED BY <1>1, <2>3, <4>1, BookSkip
    <3> QED BY <3>1, <3>2
  <2>5. GivenInv'
    BY <1>1, <1>3, <2>1, <2>4 DEF GivenInv
  <2>6. RegularInv'
    <3> SUFFICES ASSUME RegularFile(format, file, newline, skip)
                 PROVE  Bounds(format, Input, base, 0, position)
      BY <1>1, <1>3, <2>1 DEF RegularInv
    <3>1. Bounds(format, Input, base, 0, NextRecord)
      BY <1>3 DEF RegularInv
    <3> HIDE DEF base
    <3>2. ASSUME NEW j \in 1 .. position - 1
          PROVE  Input[j].number < base + 0
      <4>1. CASE j \in 1 .. NextRecord - 1
        BY <1>1, <3>1, <4>1 DEF Bounds
      <4>2. CASE ~(j \in 1 .. NextRecord - 1)
        <5>1. block # NULL /\ j = block
          BY <1>2, <4>2
        <5>2. Input[j].number + 1 < number /\ Input[j].number \in Nat
          BY <1>2, <1>5, <5>1
        <5> QED BY <1>2, <5>2
      <4> QED BY <4>1, <4>2
    <3> QED BY <1>1, <3>2 DEF Bounds
  <2> QED BY <2>2, <2>5, <2>6
<1>6. CASE ReadHepMC
  <2>1. ~AtEnd /\ block = NULL /\ block' = position /\ position' = position + 1
    BY <1>6 DEF ReadHepMC
  <2> QED BY <1>5, <2>1
<1>7. CASE DropHepMC
  <2>1. /\ block # NULL /\ Input[block].number + 1 < number
        /\ IF AtEnd THEN block' = block /\ position' = position
           ELSE block' = position /\ position' = position + 1
    BY <1>7 DEF DropHepMC, TooEarly
  <2> QED BY <1>4, <1>5, <2>1
<1> QED BY <1>6, <1>7

LEMMA StateNext == StateInv /\ [InputNext]_inputVars => StateInv'
<1> SUFFICES ASSUME StateInv, [InputNext]_inputVars
             PROVE  StateInv'
  OBVIOUS
<1>1. CASE UNCHANGED inputVars
  <2>1. UNCHANGED <<format, file, newline, skip, number, pc, position, block, collected, delivered>>
    BY <1>1 DEF inputVars, InputSetup
  <2>2. Input' = Input /\ InHands' = InHands /\ Begun' = Begun /\ NextRecord' = NextRecord
    BY <2>1 DEF Input, InHands, Begun, NextRecord
  <2>3. InputTypeInv'
    <3>1. Readable' = Readable
      BY <2>1, <2>2, SameLines
    <3> QED BY <2>1, <2>2, <3>1 DEF StateInv, InputTypeInv
  <2>4. GivenInv' /\ RegularInv'
    BY <2>1, <2>2 DEF StateInv, GivenInv, RegularInv
  <2> QED BY <2>3, <2>4 DEF StateInv
<1>2. CASE InputNext
  BY <1>2, StartInv, EndOfInputInv, ReadHeaderInv, ReadLineInv, ReadEntryInv, ReadBlockInv,
     EndOfGeneratorInv, ReadGenieInv, AheadInv, TakeHepMCInv DEF InputNext, ReadInput
<1> QED BY <1>1, <1>2

LEMMA StateInit == InputInit => StateInv
<1> SUFFICES ASSUME InputInit PROVE StateInv
  OBVIOUS
<1>1. /\ format \in Formats /\ file \in Files /\ skip \in Skips
      /\ number = skip /\ pc = "idle" /\ position = 1
      /\ block = NULL /\ collected = <<>> /\ delivered = <<>>
  BY DEF InputInit
<1>2. skip \in Nat /\ FileRecords(format, file, Input)
  BY <1>1, InputAssumption, InputFacts DEF Input
<1>3. Len(Input) \in Nat /\ \A j \in 1 .. Len(Input) : Input[j].number \in Nat
  BY <1>2, RecordOrder
<1>4. InputTypeInv
  <2>1. Len(delivered) = 0 /\ delivered = [n \in 1 .. Len(delivered) |-> delivered[n]]
    BY <1>1
  <2>2. position \in 1 .. Len(Input) + 1
    BY <1>1, <1>3
  <2>3. collected \in Seq(Items)
    BY <1>1
  <2>4. newline \in BOOLEAN /\ (newline \/ format = "CSV") /\ position <= Readable + 1
    <3>1. newline \in BOOLEAN /\ (newline \/ (format = "CSV" /\ Len(Input) > 0))
      BY DEF InputInit
    <3> QED BY <1>1, <1>3, <3>1 DEF Readable
  <2> QED BY <1>1, <1>2, <2>1, <2>2, <2>3, <2>4 DEF InputTypeInv
<1>5. DOMAIN InHands = {} /\ NextRecord = 1 /\ Begun \in {0, 1} /\ Len(delivered) = 0
  <2>1. Len(delivered) + 0 = 0 /\ 1 .. 0 = {}
    BY <1>1
  <2> QED BY <1>1, <2>1 DEF InHands, Handed, NextRecord, Begun
<1>6. GivenInv
  <2>1. 1 .. 1 - 1 = {}
    OBVIOUS
  <2> QED BY <1>5, <2>1 DEF GivenInv, Book, Sourced, Sorted, Taken
<1>7. RegularInv
  <2> SUFFICES ASSUME RegularFile(format, file, newline, skip)
               PROVE  /\ Complete(format, skip, Input, InHands, Len(delivered))
                      /\ Bounds(format, Input, skip + Len(delivered), Begun, NextRecord)
    BY <1>1 DEF RegularInv
  <2>1. Complete(format, skip, Input, InHands, Len(delivered))
    BY <1>5 DEF Complete
  <2>2. format # "HEPMC" => skip = 0
    BY DEF RegularFile
  <2>3. format # "HEPMC" => \A j \in 1 .. Len(Input) : skip + 0 <= Input[j].number
    BY <1>3, <2>2
  <2>4. 1 .. 1 - 1 = {}
    OBVIOUS
  <2> QED BY <1>5, <2>1, <2>3, <2>4 DEF Bounds
<1> QED BY <1>4, <1>6, <1>7 DEF StateInv

-----------------------------------------------------------------------------
(* What the invariant says of the items that were given.                   *)

LEMMA UsableIs ==
  ASSUME NEW s \in Seq(Items), Pairwise(s, ById)
  PROVE  /\ Usable(s) \in Seq(Items) /\ Pairwise(Usable(s), ById)
         /\ \A x : x \in ToSet(Usable(s)) <=> x \in ToSet(s) /\ Counts(format, x)
<1> DEFINE S == {item \in ToSet(s) : item.inside /\ (format \in Deposited => item.detector \in Detectors)}
<1>1. Usable(s) = Only(s, S)
  BY DEF Usable
<1>2. \A x : x \in ToSet(s) /\ x \in S <=> x \in ToSet(s) /\ Counts(format, x)
  BY DEF Counts
<1> HIDE DEF S
<1>3. Only(s, S) \in Seq(Items) /\ \A x : x \in ToSet(Only(s, S)) <=> x \in ToSet(s) /\ x \in S
  BY OnlyRange
<1>4. Pairwise(Only(s, S), ById)
  BY PairwiseOnly
<1> QED BY <1>1, <1>2, <1>3, <1>4

\* An item is in one place only.
LEMMA Irreflexive == \A x : <<x, x>> \notin ById
<1> SUFFICES ASSUME NEW x, <<x, x>> \in ById PROVE FALSE
  OBVIOUS
<1>1. x \in Items /\ x.id < x.id
  BY DEF ById
<1>2. x.id \in Nat
  BY <1>1 DEF Items
<1> QED BY <1>1, <1>2

LEMMA OneRecord ==
  ASSUME InputTypeInv, NEW i \in DOMAIN Input, NEW j \in DOMAIN Input, NEW x,
         x \in ToSet(Input[i].items), x \in ToSet(Input[j].items)
  PROVE  i = j
<1>1. DOMAIN Input = 1 .. Len(Input) /\ FileRecords(format, file, Input)
  BY InputIs
<1>2. ~(i < j)
  BY <1>1, RecordOrder, Irreflexive DEF Across
<1>3. ~(j < i)
  BY <1>1, RecordOrder, Irreflexive DEF Across
<1> QED BY <1>1, <1>2, <1>3

LEMMA GivenIs ==
  ASSUME InputTypeInv, NEW n \in DOMAIN delivered
  PROVE  /\ n \in 1 .. Len(delivered) /\ n \in DOMAIN InHands
         /\ Given(n) = InHands[n] /\ Given(n) \in Seq(Items)
<1>1. DOMAIN delivered = 1 .. Len(delivered) /\ Len(delivered) \in Nat
  BY DEF InputTypeInv
<1>2. Given(n) = ItemsOf(delivered[n])
  BY DEF Given, ItemsOf
<1>3. /\ InHands \in Seq(Seq(Items))
      /\ Len(InHands) = Len(delivered) + (IF pc = "read" THEN 1 ELSE 0)
      /\ \A m \in 1 .. Len(delivered) : InHands[m] = ItemsOf(delivered[m])
  BY HandsAre
<1>4. n \in 1 .. Len(InHands) /\ InHands[n] = ItemsOf(delivered[n])
  BY <1>1, <1>3
<1>5. n \in DOMAIN InHands /\ InHands[n] \in Seq(Items)
  BY <1>3, <1>4
<1> QED BY <1>1, <1>2, <1>4, <1>5

LEMMA OwnIs ==
  ASSUME InputTypeInv, NEW n
  PROVE  /\ Own(n) \in Seq(Items) /\ Pairwise(Own(n), ById)
         /\ \A x : x \in ToSet(Own(n)) <=> \E i \in DOMAIN file :
              file[i].number + 1 = skip + n /\ x \in ToSet(file[i].items) /\ Counts(format, x)
<1> DEFINE mine(i) == file[i].number + 1 = skip + n
           part(i) == IF mine(i) THEN Usable(file[i].items) ELSE <<>>
           ss == [i \in DOMAIN file |-> part(i)]
<1>1. /\ Len(file) \in Nat /\ DOMAIN file = 1 .. Len(file)
      /\ \A i \in DOMAIN file : file[i].items \in Seq(Items) /\ Pairwise(file[i].items, ById)
      /\ \A i, j \in DOMAIN file : i < j => Across(file[i].items, file[j].items, ById)
  BY FileFacts, InputIs
<1>2. <<>> \in Seq(Items) /\ Pairwise(<<>>, ById) /\ ToSet(<<>>) = {}
  BY DEF Pairwise, ToSet
<1>3. ASSUME NEW i \in DOMAIN file
      PROVE  /\ part(i) \in Seq(Items) /\ Pairwise(part(i), ById)
             /\ \A x : x \in ToSet(part(i)) <=>
                  mine(i) /\ x \in ToSet(file[i].items) /\ Counts(format, x)
  <2> DEFINE s == file[i].items
  <2>1. s \in Seq(Items) /\ Pairwise(s, ById)
    BY <1>1
  <2> HIDE DEF s
  <2>2. /\ Usable(s) \in Seq(Items) /\ Pairwise(Usable(s), ById)
        /\ \A x : x \in ToSet(Usable(s)) <=> x \in ToSet(s) /\ Counts(format, x)
    BY <2>1, UsableIs
  <2>3. CASE mine(i)
    <3>1. part(i) = Usable(s)
      BY <2>3 DEF s
    <3> QED BY <2>2, <2>3, <3>1 DEF s
  <2>4. CASE ~mine(i)
    <3>1. part(i) = <<>>
      BY <2>4
    <3> QED BY <1>2, <2>4, <3>1
  <2> QED BY <2>3, <2>4
<1>4. Own(n) = FlattenSeq(ss)
  BY DEF Own
<1>5. DOMAIN ss = DOMAIN file /\ (\A i \in DOMAIN file : ss[i] = part(i))
      /\ ss = [i \in DOMAIN file |-> ss[i]]
  OBVIOUS
<1> HIDE DEF ss, part
<1>6. ss \in Seq(Seq(Items))
  BY <1>1, <1>3, <1>5
<1>7. \A i, j \in DOMAIN ss : i < j => Across(ss[i], ss[j], ById)
  BY <1>1, <1>3, <1>5 DEF Across
<1>8. \A i \in DOMAIN ss : Pairwise(ss[i], ById)
  BY <1>3, <1>5
<1>9. Pairwise(FlattenSeq(ss), ById)
  BY <1>6, <1>7, <1>8, PairwiseFlatten
<1>10. FlattenSeq(ss) \in Seq(Items)
       /\ ToSet(FlattenSeq(ss)) = UNION {ToSet(ss[i]) : i \in DOMAIN ss}
  BY <1>6, FlattenRange
<1>11. \A x : x \in ToSet(FlattenSeq(ss)) <=> \E i \in DOMAIN file : x \in ToSet(ss[i])
  BY <1>5, <1>10
<1> QED BY <1>3, <1>4, <1>5, <1>9, <1>10, <1>11

LEMMA MatchedIs == StateInv => EventsMatched
<1> SUFFICES ASSUME StateInv, Regular, newline, NEW n \in DOMAIN delivered
             PROVE  Given(n) = Own(n)
  BY DEF EventsMatched, Matched
<1> DEFINE d == Len(delivered)
<1>1. InputTypeInv /\ RegularFile(format, file, newline, skip)
  BY DEF StateInv, Regular, RegularFile
<1>2. /\ n \in 1 .. d /\ n \in DOMAIN InHands /\ Given(n) = InHands[n] /\ Given(n) \in Seq(Items)
  BY <1>1, GivenIs
<1>3. /\ Own(n) \in Seq(Items) /\ Pairwise(Own(n), ById)
      /\ \A x : x \in ToSet(Own(n)) <=> \E i \in DOMAIN file :
           file[i].number + 1 = skip + n /\ x \in ToSet(file[i].items) /\ Counts(format, x)
  BY <1>1, OwnIs
<1>4. /\ Sourced(format, file, newline, skip, Input, InHands, NextRecord) /\ Sorted(InHands)
      /\ Taken(format, Input, InHands, NextRecord)
      /\ Complete(format, skip, Input, InHands, d)
      /\ Bounds(format, Input, skip + d, Begun, NextRecord)
  BY <1>1 DEF StateInv, GivenInv, RegularInv, Book
<1>5. /\ FileRecords(format, file, Input) /\ format \in Deposited \union Generated
      /\ skip \in Nat /\ d \in Nat /\ Len(Input) \in Nat /\ DOMAIN Input = 1 .. Len(Input)
      /\ NextRecord \in 1 .. Len(Input) + 1
      /\ \A j \in DOMAIN Input : Input[j].number \in Nat
  BY <1>1, InputIs, RecordBound DEF InputTypeInv
<1> HIDE DEF d
<1>6. Pairwise(Given(n), ById)
  BY <1>2, <1>4 DEF Sorted
<1>7. \A m \in DOMAIN InHands : \A x \in ToSet(InHands[m]) : \E j \in DOMAIN Input :
        Holds(format, Input, j, x) /\ Input[j].number + 1 = skip + m
  <2> TAKE m \in DOMAIN InHands
  <2> TAKE x \in ToSet(InHands[m])
  <2>1. PICK j \in 1 .. NextRecord - 1 :
          Holds(format, Input, j, x) /\ Fits(format, file, newline, skip, Input[j].number, m)
    BY <1>4 DEF Sourced
  <2>2. j \in DOMAIN Input
    BY <1>5
  <2> QED BY <1>1, <2>1, <2>2 DEF Fits
<1>8. ASSUME NEW x \in ToSet(Given(n))
      PROVE  x \in ToSet(Own(n))
  <2>1. PICK j \in DOMAIN Input : Holds(format, Input, j, x) /\ Input[j].number + 1 = skip + n
    BY <1>2, <1>7
  <2>2. PICK i \in DOMAIN file : Input[j].number = file[i].number
                                 /\ ToSet(Input[j].items) \subseteq ToSet(file[i].items)
    BY <1>5 DEF FileRecords
  <2> QED BY <1>3, <2>1, <2>2 DEF Holds
<1>9. ASSUME NEW x \in ToSet(Own(n))
      PROVE  x \in ToSet(Given(n))
  <2>1. PICK i \in DOMAIN file :
          file[i].number + 1 = skip + n /\ x \in ToSet(file[i].items) /\ Counts(format, x)
    BY <1>3
  <2>2. PICK j \in DOMAIN Input : Input[j].number = file[i].number /\ x \in ToSet(Input[j].items)
    BY <1>5, <2>1 DEF FileRecords
  <2>3. Input[j].number + 1 = skip + n
    BY <2>1, <2>2
  <2>4. CASE format \in Generated
    BY <1>2, <1>4, <2>1, <2>2, <2>3, <2>4 DEF Complete
  <2>5. CASE format \in Deposited
    <3>1. j \in 1 .. NextRecord - 1
      <4>1. format # "HEPMC"
        BY <2>5 DEF Deposited
      <4>2. ~(skip + d <= Input[j].number)
        BY <1>2, <1>5, <2>3
      <4>3. j \notin NextRecord .. Len(Input)
        BY <1>4, <4>1, <4>2 DEF Bounds
      <4> QED BY <1>5, <4>3
    <3>2. PICK m \in DOMAIN InHands : x \in ToSet(InHands[m])
      BY <1>4, <2>1, <2>2, <2>5, <3>1 DEF Taken
    <3>3. PICK l \in DOMAIN Input : Holds(format, Input, l, x) /\ Input[l].number + 1 = skip + m
      BY <1>7, <3>2
    <3>4. l = j
      BY <1>1, <2>2, <3>3, OneRecord DEF Holds
    <3>5. m \in Nat
      <4>1. InHands \in Seq(Seq(Items))
        BY <1>1, HandsAre
      <4> QED BY <3>2, <4>1
    <3>6. m = n
      BY <1>2, <1>5, <2>3, <3>3, <3>4, <3>5
    <3> QED BY <1>2, <3>2, <3>6
  <2> QED BY <1>5, <2>4, <2>5
<1>10. ToSet(Given(n)) = ToSet(Own(n))
  BY <1>8, <1>9
<1> QED BY <1>2, <1>3, <1>6, <1>10, SortedUnique

LEMMA SoFarIs ==
  ASSUME StateInv
  PROVE  /\ GivenSoFar \in Seq(Items) /\ Pairwise(GivenSoFar, ById)
         /\ \A x : x \in ToSet(GivenSoFar) <=>
              \E n \in DOMAIN delivered : x \in ToSet(InHands[n])
<1> DEFINE gs == [n \in DOMAIN delivered |-> Given(n)]
<1>1. InputTypeInv /\ Sorted(InHands)
  BY DEF StateInv, GivenInv, Book
<1>2. DOMAIN delivered = 1 .. Len(delivered) /\ Len(delivered) \in Nat
  BY <1>1 DEF InputTypeInv
<1>3. \A n \in DOMAIN delivered : /\ n \in DOMAIN InHands /\ Given(n) = InHands[n]
                                  /\ Given(n) \in Seq(Items)
  BY <1>1, GivenIs
<1>4. GivenSoFar = FlattenSeq(gs)
  BY DEF GivenSoFar
<1>5. /\ DOMAIN gs = DOMAIN delivered /\ gs = [n \in DOMAIN delivered |-> gs[n]]
      /\ \A n \in DOMAIN delivered : gs[n] = InHands[n] /\ gs[n] \in Seq(Items)
  BY <1>3
<1> HIDE DEF gs
<1>6. gs \in Seq(Seq(Items))
  BY <1>2, <1>5
<1>7. \A i \in DOMAIN gs : Pairwise(gs[i], ById)
  BY <1>1, <1>3, <1>5 DEF Sorted
<1>8. \A i, j \in DOMAIN gs : i < j => Across(gs[i], gs[j], ById)
  BY <1>1, <1>3, <1>5 DEF Sorted
<1>9. Pairwise(FlattenSeq(gs), ById)
  BY <1>6, <1>7, <1>8, PairwiseFlatten
<1>10. FlattenSeq(gs) \in Seq(Items)
       /\ ToSet(FlattenSeq(gs)) = UNION {ToSet(gs[i]) : i \in DOMAIN gs}
  BY <1>6, FlattenRange
<1>11. \A x : x \in ToSet(FlattenSeq(gs)) <=> \E i \in DOMAIN gs : x \in ToSet(gs[i])
  BY <1>10
<1> QED BY <1>4, <1>5, <1>9, <1>10, <1>11

\* The items of the records that have been read.
LEMMA ReadSoFar ==
  ASSUME StateInv
  PROVE  LET read == FlattenSeq([i \in 1 .. position - 1 |-> Usable(Input[i].items)])
         IN  /\ read \in Seq(Items) /\ Pairwise(read, ById)
             /\ \A x : x \in ToSet(read) <=> \E i \in 1 .. position - 1 : Holds(format, Input, i, x)
<1> DEFINE p == position - 1
           ss == [i \in 1 .. p |-> Usable(Input[i].items)]
<1>1. /\ FileRecords(format, file, Input) /\ p \in Nat
      /\ \A i \in 1 .. p : i \in DOMAIN Input
  BY InputIs DEF StateInv, InputTypeInv
<1>2. \A i \in DOMAIN Input : Input[i].items \in Seq(Items) /\ Pairwise(Input[i].items, ById)
  <2>1. \A i \in DOMAIN Input : Input[i].items \in Seq(Items)
    BY <1>1, RecordOrder
  <2>2. \A i \in DOMAIN Input : Pairwise(Input[i].items, ById)
    BY <1>1 DEF FileRecords
  <2> QED BY <2>1, <2>2
<1>3. ASSUME NEW i \in 1 .. p
      PROVE  /\ Usable(Input[i].items) \in Seq(Items) /\ Pairwise(Usable(Input[i].items), ById)
             /\ \A x : x \in ToSet(Usable(Input[i].items)) <=> Holds(format, Input, i, x)
  <2> DEFINE s == Input[i].items
  <2>1. s \in Seq(Items) /\ Pairwise(s, ById)
    BY <1>1, <1>2
  <2> HIDE DEF s
  <2>2. /\ Usable(s) \in Seq(Items) /\ Pairwise(Usable(s), ById)
        /\ \A x : x \in ToSet(Usable(s)) <=> x \in ToSet(s) /\ Counts(format, x)
    BY <2>1, UsableIs
  <2> QED BY <2>2 DEF Holds, s
<1>4. DOMAIN ss = 1 .. p /\ (\A i \in 1 .. p : ss[i] = Usable(Input[i].items))
      /\ ss = [i \in 1 .. p |-> ss[i]]
  OBVIOUS
<1> HIDE DEF ss, p
<1>5. ss \in Seq(Seq(Items))
  BY <1>1, <1>3, <1>4
<1>6. ASSUME NEW i \in DOMAIN ss, NEW j \in DOMAIN ss, i < j
      PROVE  Across(ss[i], ss[j], ById)
  <2>1. i \in DOMAIN Input /\ j \in DOMAIN Input
    BY <1>1, <1>4
  <2>2. Across(Input[i].items, Input[j].items, ById)
    BY <1>1, <1>6, <2>1, RecordOrder
  <2> QED BY <1>3, <1>4, <2>2 DEF Across, Holds
<1>7. \A i \in DOMAIN ss : Pairwise(ss[i], ById)
  BY <1>3, <1>4
<1>8. Pairwise(FlattenSeq(ss), ById)
  BY <1>5, <1>6, <1>7, PairwiseFlatten
<1>9. FlattenSeq(ss) \in Seq(Items)
      /\ ToSet(FlattenSeq(ss)) = UNION {ToSet(ss[i]) : i \in DOMAIN ss}
  BY <1>5, FlattenRange
<1>10. \A x : x \in ToSet(FlattenSeq(ss)) <=> \E i \in DOMAIN ss : x \in ToSet(ss[i])
  BY <1>9
<1>11. \A x : x \in ToSet(FlattenSeq(ss)) <=> \E i \in 1 .. p : Holds(format, Input, i, x)
  BY <1>3, <1>4, <1>10
<1> QED BY <1>8, <1>9, <1>11 DEF ss, p

LEMMA OnceIs == StateInv => DeliveredOnce
<1> SUFFICES ASSUME StateInv PROVE DeliveredOnce
  OBVIOUS
<1>1. /\ InputTypeInv /\ Sourced(format, file, newline, skip, Input, InHands, NextRecord) /\ Sorted(InHands)
      /\ Taken(format, Input, InHands, NextRecord)
  BY DEF StateInv, GivenInv, Book
<1>2. /\ GivenSoFar \in Seq(Items) /\ Pairwise(GivenSoFar, ById)
      /\ \A x : x \in ToSet(GivenSoFar) <=>
           \E n \in DOMAIN delivered : x \in ToSet(InHands[n])
  BY SoFarIs
<1>3. /\ FileRecords(format, file, Input) /\ NextRecord \in 1 .. Len(Input) + 1
      /\ Len(Input) \in Nat /\ DOMAIN Input = 1 .. Len(Input) /\ collected \in Seq(Items)
  BY <1>1, InputIs, RecordBound DEF InputTypeInv
<1>4. /\ InHands \in Seq(Seq(Items)) /\ DOMAIN InHands = 1 .. Len(InHands)
      /\ Len(InHands) = Len(delivered) + (IF pc = "read" THEN 1 ELSE 0)
      /\ pc = "read" => InHands[Len(delivered) + 1] = collected
      /\ DOMAIN delivered = 1 .. Len(delivered) /\ Len(delivered) \in Nat
  BY <1>1, HandsAre DEF InputTypeInv
<1>5. ASSUME NEW i \in DOMAIN GivenSoFar, NEW j \in DOMAIN GivenSoFar, i < j
      PROVE  GivenSoFar[i].id < GivenSoFar[j].id
  BY <1>2, <1>5 DEF Pairwise, ById
<1>6. ASSUME format \in Deposited
      PROVE  GivenSoFar \o InHand =
               FlattenSeq([i \in 1 .. position - 1 |-> Usable(Input[i].items)])
  <2> DEFINE left == GivenSoFar \o InHand
             right == FlattenSeq([i \in 1 .. position - 1 |-> Usable(Input[i].items)])
  <2>1. /\ right \in Seq(Items) /\ Pairwise(right, ById)
        /\ \A x : x \in ToSet(right) <=> \E i \in 1 .. position - 1 : Holds(format, Input, i, x)
    BY ReadSoFar
  <2>2. NextRecord = position
    BY <1>1, <1>6, RecordBound DEF Deposited
  <2>3. InHand \in Seq(Items) /\ Pairwise(InHand, ById) /\ Across(GivenSoFar, InHand, ById)
        /\ \A x : x \in ToSet(InHand) <=> pc = "read" /\ x \in ToSet(InHands[Len(delivered) + 1])
    <3>1. CASE pc = "read"
      <4> DEFINE L == Len(delivered) + 1
      <4>1. L \in DOMAIN InHands /\ InHand = InHands[L] /\ InHand = collected
            /\ \A n \in DOMAIN delivered : n \in DOMAIN InHands /\ n < L
        BY <1>4, <3>1 DEF InHand
      <4>2. Pairwise(InHands[L], ById)
            /\ \A n \in DOMAIN delivered : Across(InHands[n], InHands[L], ById)
        BY <1>1, <4>1 DEF Sorted
      <4>3. Across(GivenSoFar, InHands[L], ById)
        BY <1>2, <4>2 DEF Across
      <4> QED BY <1>3, <3>1, <4>1, <4>2, <4>3
    <3>2. CASE pc # "read"
      <4>1. InHand = <<>>
        BY <3>2 DEF InHand
      <4> QED BY <3>2, <4>1 DEF Pairwise, Across, ToSet
    <3> QED BY <3>1, <3>2
  <2>4. left \in Seq(Items) /\ ToSet(left) = ToSet(GivenSoFar) \union ToSet(InHand)
    BY <1>2, <2>3, ConcatRange
  <2>5. Pairwise(left, ById)
    BY <1>2, <2>3, PairwiseConcat
  <2> HIDE DEF left, right
  <2>6. \A n \in DOMAIN InHands : n \in DOMAIN delivered \/ (pc = "read" /\ n = Len(delivered) + 1)
    BY <1>4
  <2>7. (\A n \in DOMAIN delivered : n \in DOMAIN InHands)
        /\ (pc = "read" => Len(delivered) + 1 \in DOMAIN InHands)
    BY <1>4
  <2>8. \A x : x \in ToSet(left) <=> \E n \in DOMAIN InHands : x \in ToSet(InHands[n])
    BY <1>2, <2>3, <2>4, <2>6, <2>7
  <2>9. \A x \in ToSet(left) : x \in ToSet(right)
    BY <1>1, <2>1, <2>2, <2>8 DEF Sourced
  <2>10. \A x \in ToSet(right) : x \in ToSet(left)
    BY <1>1, <1>6, <2>1, <2>2, <2>8 DEF Taken, Holds
  <2>11. ToSet(left) = ToSet(right)
    BY <2>9, <2>10
  <2>12. left = right
    BY <2>1, <2>4, <2>5, <2>11, SortedUnique
  <2> QED BY <2>12 DEF left, right
<1>7. ASSUME format \in {"ROOT"} \cup Generated, NEW n \in DOMAIN delivered, NEW e \in Range(file),
             e.number + 1 > skip + n, NEW x \in ToSet(Given(n)) \cap ToSet(e.items)
      PROVE  FALSE
  <2>1. n \in DOMAIN InHands /\ Given(n) = InHands[n]
    BY <1>1, GivenIs
  <2>2. PICK j \in 1 .. NextRecord - 1 :
          Holds(format, Input, j, x) /\ Fits(format, file, newline, skip, Input[j].number, n)
    BY <1>1, <1>7, <2>1 DEF Sourced
  <2>3. j \in DOMAIN Input /\ Input[j].number + 1 <= skip + n
    BY <1>3, <1>7, <2>2 DEF Fits
  <2>4. PICK i \in DOMAIN file : Input[j].number = file[i].number
                                 /\ ToSet(Input[j].items) \subseteq ToSet(file[i].items)
    BY <1>3, <2>3 DEF FileRecords
  <2>5. PICK l \in DOMAIN file : e = file[l]
    BY DEF Range
  <2>6. /\ DOMAIN file = 1 .. Len(file) /\ Len(file) \in Nat
        /\ \A a \in DOMAIN file : file[a].number \in Nat
        /\ \A a, b \in DOMAIN file : a < b => Across(file[a].items, file[b].items, ById)
    BY <1>1, FileFacts, InputIs
  <2>7. i # l
    <3>1. file[i].number + 1 <= skip + n /\ ~(file[l].number + 1 <= skip + n)
      <4>1. n \in Nat /\ skip \in Nat /\ file[l].number \in Nat
        BY <1>1, <1>4, <2>6, InputIs
      <4> QED BY <1>7, <2>3, <2>4, <2>5, <4>1
    <3> QED BY <3>1
  <2>8. i < l \/ l < i
    BY <2>6, <2>7
  <2>9. x \in ToSet(file[i].items) /\ x \in ToSet(file[l].items)
    BY <2>2, <2>4, <2>5 DEF Holds
  <2> QED BY <2>6, <2>8, <2>9, Irreflexive DEF Across
<1>8. \A n \in DOMAIN delivered : \A e \in Range(file) :
        format \in {"ROOT"} \cup Generated /\ e.number + 1 > skip + n =>
          ToSet(Given(n)) \cap ToSet(e.items) = {}
  BY <1>7
<1>9. format \in Deposited /\ pc = "end" => position = Readable + 1
  BY <1>1 DEF InputTypeInv
<1> QED BY <1>5, <1>6, <1>8, <1>9 DEF DeliveredOnce

-----------------------------------------------------------------------------
(* The particles of the deposits.                                          *)

\* The charge of the first n items.
Part(x, detector, track) == IF x.detector = detector /\ x.track = track THEN x.charge ELSE 0
Sums(f, s, detector, track, n) ==
    f = [i \in 0 .. n |-> IF i = 0 THEN 0 ELSE f[i - 1] + Part(s[i], detector, track)]

LEMMA SumsExist ==
  ASSUME NEW s, NEW a, NEW t, NEW n \in Nat
  PROVE  \E f : Sums(f, s, a, t, n)
<1> DEFINE bad == {k \in Nat : ~\E f : Sums(f, s, a, t, k)}
<1>1. bad = {}
  <2> SUFFICES ASSUME bad # {} PROVE FALSE
    OBVIOUS
  <2>0. bad \subseteq Nat
    OBVIOUS
  <2>1. PICK k \in bad : \A l \in bad : k <= l
    <3> HIDE DEF bad
    <3> QED BY <2>0, LeastNat
  <2>2. k # 0
    <3> DEFINE g == [i \in 0 .. 0 |-> 0]
    <3>1. g = [i \in 0 .. 0 |-> IF i = 0 THEN 0 ELSE g[i - 1] + Part(s[i], a, t)]
      <4>1. \A i \in 0 .. 0 : i = 0
        OBVIOUS
      <4> QED BY <4>1
    <3>2. Sums(g, s, a, t, 0)
      BY <3>1 DEF Sums
    <3> QED BY <2>1, <3>2
  <2> DEFINE p == k - 1
  <2>3. p \in Nat /\ p < k /\ p + 1 = k
    BY <2>1, <2>2
  <2>4. p \notin bad
    <3> HIDE DEF bad, p
    <3> QED BY <2>0, <2>1, <2>3
  <2>5. PICK f : Sums(f, s, a, t, p)
    <3> HIDE DEF p
    <3> QED BY <2>3, <2>4
  <2> DEFINE new(i) == IF i = 0 THEN 0 ELSE f[i - 1] + Part(s[i], a, t)
             g == [i \in 0 .. k |-> new(i)]
  <2>6. \A i \in 0 .. p : f[i] = new(i)
    BY <2>5 DEF Sums
  <2>7. \A i \in 0 .. k : i # 0 => g[i - 1] = f[i - 1]
    <3> TAKE i \in 0 .. k
    <3>1. i # 0 => i - 1 \in 0 .. p /\ i - 1 \in 0 .. k
      BY <2>1, <2>3
    <3> HIDE DEF new
    <3> QED BY <2>6, <3>1
  <2>8. \A i \in 0 .. k : new(i) = IF i = 0 THEN 0 ELSE g[i - 1] + Part(s[i], a, t)
    <3> HIDE DEF g
    <3> QED BY <2>7
  <2>9. Sums(g, s, a, t, k)
    BY <2>8 DEF Sums
  <2> QED BY <2>1, <2>9
<1> QED BY <1>1

LEMMA ChargeIs ==
  ASSUME NEW s, Len(s) \in Nat, NEW a, NEW t
  PROVE  \E F : /\ ChargeOf(s, a, t) = F[Len(s)]
                /\ F[0] = 0
                /\ \A i \in 1 .. Len(s) : F[i] = F[i - 1] + Part(s[i], a, t)
<1> DEFINE n == Len(s)
           Solves(f) == f = [i \in 0 .. Len(s) |->
             IF i = 0 THEN 0
             ELSE f[i - 1] + (IF s[i].detector = a /\ s[i].track = t THEN s[i].charge ELSE 0)]
           F == CHOOSE f : Solves(f)
<1>1. n \in Nat
  OBVIOUS
<1>2. ChargeOf(s, a, t) = F[n]
  BY DEF ChargeOf
<1>3. \A f : Solves(f) <=> Sums(f, s, a, t, n)
  BY DEF Sums, Part
<1>4. \E f : Solves(f)
  <2> HIDE DEF Solves, n
  <2> QED BY <1>1, <1>3, SumsExist
<1>5. Solves(F)
  <2> HIDE DEF Solves
  <2> QED BY <1>4
<1>6. Sums(F, s, a, t, n)
  <2> HIDE DEF Solves, F
  <2> QED BY <1>3, <1>5
<1> HIDE DEF F, Solves
<1>7. \A i \in 0 .. n : F[i] = IF i = 0 THEN 0 ELSE F[i - 1] + Part(s[i], a, t)
  BY <1>6 DEF Sums
<1>8. 0 \in 0 .. n /\ \A i \in 1 .. n : i \in 0 .. n /\ i # 0
  BY <1>1
<1> QED BY <1>2, <1>7, <1>8

LEMMA ChargeAppend ==
  ASSUME NEW s \in Seq(Items), NEW x \in Items, NEW a, NEW t
  PROVE  ChargeOf(Append(s, x), a, t) = ChargeOf(s, a, t) + Part(x, a, t)
<1> DEFINE n == Len(s)
           u == Append(s, x)
<1>1. /\ n \in Nat /\ Len(u) = n + 1 /\ u[n + 1] = x /\ \A i \in 1 .. n : u[i] = s[i]
  OBVIOUS
<1>2. PICK F : /\ ChargeOf(s, a, t) = F[n]
               /\ F[0] = 0
               /\ \A i \in 1 .. n : F[i] = F[i - 1] + Part(s[i], a, t)
  BY <1>1, ChargeIs
<1> HIDE DEF u
<1>3. Len(u) \in Nat
  BY <1>1
<1>4. PICK G : /\ ChargeOf(u, a, t) = G[Len(u)]
               /\ G[0] = 0
               /\ \A i \in 1 .. Len(u) : G[i] = G[i - 1] + Part(u[i], a, t)
  BY <1>3, ChargeIs
<1> HIDE DEF n
<1> DEFINE m == n + 1
           P == {k \in 1 .. m : F[k - 1] = G[k - 1]}
<1>5. m \in Nat /\ 1 \in 1 .. m /\ m \in 1 .. m
  BY <1>1
<1>6. 1 \in P
  <2>1. 1 - 1 = 0
    OBVIOUS
  <2>2. F[1 - 1] = G[1 - 1]
    BY <1>2, <1>4, <2>1
  <2> QED BY <1>5, <2>2
<1>7. ASSUME NEW i \in 1 .. m, i # 1, i - 1 \in P
      PROVE  i \in P
  <2> DEFINE j == i - 1
  <2>1. j \in 1 .. n /\ j \in 1 .. Len(u)
    BY <1>1, <1>7
  <2>2. F[j - 1] = G[j - 1]
    BY <1>7
  <2> HIDE DEF j
  <2>3. F[j] = G[j]
    BY <1>1, <1>2, <1>4, <2>1, <2>2
  <2> QED BY <2>3 DEF j
<1>8. 1 .. m \subseteq P
  <2> HIDE DEF P, m
  <2> QED BY <1>5, <1>6, <1>7, Stepwise
<1>9. F[n] = G[n]
  <2>1. F[m - 1] = G[m - 1]
    BY <1>5, <1>8
  <2>2. m - 1 = n
    BY <1>1
  <2> QED BY <2>1, <2>2
<1>10. G[n + 1] = G[n] + Part(x, a, t)
  <2> DEFINE l == n + 1
  <2>1. l \in 1 .. Len(u) /\ l - 1 = n /\ u[l] = x
    BY <1>1
  <2> HIDE DEF l
  <2>2. G[l] = G[n] + Part(x, a, t)
    BY <1>4, <2>1
  <2> QED BY <2>2 DEF l
<1> QED BY <1>1, <1>2, <1>4, <1>9, <1>10 DEF u

\* A track without deposits has no charge.
LEMMA ChargeNone ==
  ASSUME NEW s \in Seq(Items), NEW a, NEW t,
         \A i \in 1 .. Len(s) : Part(s[i], a, t) = 0
  PROVE  ChargeOf(s, a, t) = 0
<1> DEFINE n == Len(s)
<1>1. n \in Nat
  OBVIOUS
<1>2. PICK F : /\ ChargeOf(s, a, t) = F[n]
               /\ F[0] = 0
               /\ \A i \in 1 .. n : F[i] = F[i - 1] + Part(s[i], a, t)
  BY <1>1, ChargeIs
<1>3. \A i \in 1 .. n : Part(s[i], a, t) = 0
  OBVIOUS
<1> HIDE DEF n
<1> DEFINE m == n + 1
           P == {k \in 1 .. m : F[k - 1] = 0}
<1>4. m \in Nat /\ 1 \in 1 .. m /\ m \in 1 .. m
  BY <1>1
<1>5. 1 \in P
  <2>1. 1 - 1 = 0
    OBVIOUS
  <2>2. F[1 - 1] = 0
    BY <1>2, <2>1
  <2> QED BY <1>4, <2>2
<1>6. ASSUME NEW i \in 1 .. m, i # 1, i - 1 \in P
      PROVE  i \in P
  <2> DEFINE j == i - 1
  <2>1. j \in 1 .. n
    BY <1>1, <1>6
  <2>2. F[j - 1] = 0
    BY <1>6
  <2> HIDE DEF j
  <2>3. F[j] = 0
    BY <1>2, <1>3, <2>1, <2>2
  <2> QED BY <2>3 DEF j
<1>7. 1 .. m \subseteq P
  <2> HIDE DEF P, m
  <2> QED BY <1>4, <1>5, <1>6, Stepwise
<1>8. F[m - 1] = 0
  BY <1>4, <1>7
<1>9. m - 1 = n
  BY <1>1
<1> QED BY <1>2, <1>8, <1>9

LEMMA FirstIs ==
  ASSUME NEW s \in Seq(Items), NEW i \in DOMAIN s, NEW p, ParticleOf(s[i]) = p
  PROVE  /\ FirstOf(s, p) \in DOMAIN s /\ ParticleOf(s[FirstOf(s, p)]) = p
         /\ \A l \in DOMAIN s : ParticleOf(s[l]) = p => FirstOf(s, p) <= l
<1> DEFINE S == {l \in DOMAIN s : ParticleOf(s[l]) = p}
<1>1. S \subseteq Nat /\ S # {}
  OBVIOUS
<1>2. PICK k \in S : \A l \in S : k <= l
  <2> HIDE DEF S
  <2> QED BY <1>1, LeastNat
<1>3. \E l \in DOMAIN s : /\ ParticleOf(s[l]) = p
                          /\ \A m \in DOMAIN s : ParticleOf(s[m]) = p => l <= m
  BY <1>2
<1> QED BY <1>3 DEF FirstOf

LEMMA FirstUnique ==
  ASSUME NEW s \in Seq(Items), NEW p, NEW k \in DOMAIN s, ParticleOf(s[k]) = p,
         \A l \in DOMAIN s : ParticleOf(s[l]) = p => k <= l
  PROVE  FirstOf(s, p) = k
<1>1. /\ FirstOf(s, p) \in DOMAIN s /\ ParticleOf(s[FirstOf(s, p)]) = p
      /\ \A l \in DOMAIN s : ParticleOf(s[l]) = p => FirstOf(s, p) <= l
  BY FirstIs
<1>2. FirstOf(s, p) <= k /\ k <= FirstOf(s, p)
  BY <1>1
<1>3. FirstOf(s, p) \in Nat /\ k \in Nat
  BY <1>1
<1> QED BY <1>2, <1>3

LEMMA ChargeNat ==
  ASSUME NEW s \in Seq(Items), NEW a, NEW t
  PROVE  ChargeOf(s, a, t) \in Nat
<1> DEFINE n == Len(s)
<1>1. n \in Nat
  OBVIOUS
<1>2. PICK F : /\ ChargeOf(s, a, t) = F[n]
               /\ F[0] = 0
               /\ \A i \in 1 .. n : F[i] = F[i - 1] + Part(s[i], a, t)
  BY <1>1, ChargeIs
<1>3. \A i \in 1 .. n : Part(s[i], a, t) \in Nat
  <2> TAKE i \in 1 .. n
  <2>1. s[i] \in Items
    OBVIOUS
  <2>2. s[i].charge \in Nat
    BY <2>1 DEF Items
  <2> QED BY <2>2 DEF Part
<1> HIDE DEF n
<1> DEFINE m == n + 1
           P == {k \in 1 .. m : F[k - 1] \in Nat}
<1>4. m \in Nat /\ 1 \in 1 .. m /\ m \in 1 .. m
  BY <1>1
<1>5. 1 \in P
  <2>1. 1 - 1 = 0
    OBVIOUS
  <2>2. F[1 - 1] \in Nat
    BY <1>2, <2>1
  <2> QED BY <1>4, <2>2
<1>6. ASSUME NEW i \in 1 .. m, i # 1, i - 1 \in P
      PROVE  i \in P
  <2> DEFINE j == i - 1
  <2>1. j \in 1 .. n
    BY <1>1, <1>6
  <2>2. F[j - 1] \in Nat
    BY <1>6
  <2> HIDE DEF j
  <2>3. F[j] \in Nat
    BY <1>2, <1>3, <2>1, <2>2
  <2> QED BY <2>3 DEF j
<1>7. 1 .. m \subseteq P
  <2> HIDE DEF P, m
  <2> QED BY <1>4, <1>5, <1>6, Stepwise
<1>8. F[m - 1] \in Nat
  BY <1>4, <1>7
<1>9. m - 1 = n
  BY <1>1
<1> QED BY <1>2, <1>8, <1>9

\* A particle and its value for some deposits.
Value(s, p) == [charge |-> ChargeOf(s, p[1], p[2]), parent |-> s[FirstOf(s, p)].parent]

LEMMA ParticlesAre ==
  ASSUME NEW s \in Seq(Items)
  PROVE  /\ \A p : p \in DOMAIN ParticlesFor(s) <=> \E i \in 1 .. Len(s) : p = ParticleOf(s[i])
         /\ \A p \in DOMAIN ParticlesFor(s) : ParticlesFor(s)[p] = Value(s, p)
         /\ ParticlesFor(s) = [p \in DOMAIN ParticlesFor(s) |-> ParticlesFor(s)[p]]
<1> DEFINE D == {ParticleOf(x) : x \in ToSet(s)}
           ps == [p \in D |-> Value(s, p)]
<1>1. ParticlesFor(s) = ps
  BY DEF ParticlesFor, Value
<1>2. \A p : p \in D <=> \E i \in 1 .. Len(s) : p = ParticleOf(s[i])
  BY DEF ToSet
<1> HIDE DEF D
<1>3. DOMAIN ps = D /\ (\A p \in D : ps[p] = Value(s, p)) /\ ps = [p \in D |-> ps[p]]
  OBVIOUS
<1> HIDE DEF ps
<1> QED BY <1>1, <1>2, <1>3

LEMMA AddParticleIs ==
  ASSUME NEW s \in Seq(Items), NEW x \in Items
  PROVE  AddParticle(ParticlesFor(s), x) = ParticlesFor(Append(s, x))
<1> DEFINE n == Len(s)
           u == Append(s, x)
           q == ParticleOf(x)
           ps == ParticlesFor(s)
           us == ParticlesFor(u)
<1>1. /\ n \in Nat /\ u \in Seq(Items) /\ Len(u) = n + 1 /\ DOMAIN u = 1 .. n + 1
      /\ u[n + 1] = x /\ (\A i \in 1 .. n : u[i] = s[i]) /\ DOMAIN s = 1 .. n
  OBVIOUS
<1>2. \A i : i \in 1 .. n + 1 <=> i \in 1 .. n \/ i = n + 1
  BY <1>1
<1>3. /\ \A p : p \in DOMAIN ps <=> \E i \in 1 .. n : p = ParticleOf(s[i])
      /\ \A p \in DOMAIN ps : ps[p] = Value(s, p)
  BY ParticlesAre
<1>4. \A a, t : ChargeOf(u, a, t) = ChargeOf(s, a, t) + Part(x, a, t)
  BY ChargeAppend
<1> HIDE DEF u
<1>5. /\ \A p : p \in DOMAIN us <=> \E i \in 1 .. n + 1 : p = ParticleOf(u[i])
      /\ \A p \in DOMAIN us : us[p] = Value(u, p)
      /\ us = [p \in DOMAIN us |-> us[p]]
  BY <1>1, ParticlesAre
<1> HIDE DEF ps, us, q
<1>6. \A p : p \in DOMAIN us <=> p \in DOMAIN ps \/ p = q
  BY <1>1, <1>2, <1>3, <1>5 DEF q
<1>7. \A y : ParticleOf(y) = <<y.detector, y.track>>
             /\ ParticleOf(y)[1] = y.detector /\ ParticleOf(y)[2] = y.track
  BY DEF ParticleOf
\* The particles there were: the charge of the deposit is added to its own.
<1>8. ASSUME NEW p \in DOMAIN ps
      PROVE  us[p] = [charge |-> ps[p].charge + (IF p = q THEN x.charge ELSE 0),
                      parent |-> ps[p].parent]
  <2>1. PICK i \in 1 .. n : p = ParticleOf(s[i])
    BY <1>3
  <2> DEFINE k == FirstOf(s, p)
  <2>2. /\ k \in DOMAIN s /\ ParticleOf(s[k]) = p
        /\ \A l \in DOMAIN s : ParticleOf(s[l]) = p => k <= l
    BY <1>1, <2>1, FirstIs
  <2> HIDE DEF k
  <2>3. FirstOf(u, p) = k
    <3>1. k \in DOMAIN u /\ ParticleOf(u[k]) = p
      BY <1>1, <1>2, <2>2
    <3>2. \A l \in DOMAIN u : ParticleOf(u[l]) = p => k <= l
      <4> TAKE l \in DOMAIN u
      <4>1. CASE l \in 1 .. n
        BY <1>1, <2>2, <4>1
      <4>2. CASE l = n + 1
        BY <1>1, <2>2, <4>2
      <4> QED BY <1>1, <1>2, <4>1, <4>2
    <3> QED BY <1>1, <3>1, <3>2, FirstUnique
  <2>4. u[k] = s[k]
    BY <1>1, <2>2
  <2>5. Part(x, p[1], p[2]) = IF p = q THEN x.charge ELSE 0
    <3>1. p[1] = s[i].detector /\ p[2] = s[i].track /\ p = <<s[i].detector, s[i].track>>
      BY <1>7, <2>1
    <3>2. q = <<x.detector, x.track>>
      BY DEF q, ParticleOf
    <3> QED BY <3>1, <3>2 DEF Part
  <2>6. ps[p] = Value(s, p) /\ us[p] = Value(u, p)
    BY <1>3, <1>5, <1>6
  <2>7. ps[p].charge = ChargeOf(s, p[1], p[2]) /\ ps[p].parent = s[k].parent
    BY <2>6 DEF Value, k
  <2>8. us[p] = [charge |-> ChargeOf(u, p[1], p[2]), parent |-> u[FirstOf(u, p)].parent]
    BY <2>6 DEF Value
  <2> QED BY <1>4, <2>3, <2>4, <2>5, <2>7, <2>8
\* A new one.
<1>9. ASSUME q \notin DOMAIN ps
      PROVE  us[q] = [charge |-> x.charge, parent |-> x.parent]
  <2>1. \A i \in 1 .. n : ParticleOf(s[i]) # q
    BY <1>3, <1>9
  <2>2. q[1] = x.detector /\ q[2] = x.track /\ q = <<x.detector, x.track>>
    BY DEF q, ParticleOf
  <2>3. ChargeOf(s, q[1], q[2]) = 0
    <3>1. \A i \in 1 .. n : Part(s[i], q[1], q[2]) = 0
      BY <1>7, <2>1, <2>2 DEF Part
    <3> QED BY <3>1, ChargeNone
  <2>4. ChargeOf(u, q[1], q[2]) = x.charge
    <3>1. x.charge \in Nat
      BY DEF Items
    <3>2. Part(x, q[1], q[2]) = x.charge
      BY <2>2 DEF Part
    <3> QED BY <1>4, <2>3, <3>1, <3>2
  <2>5. FirstOf(u, q) = n + 1
    <3> DEFINE k == n + 1
    <3>1. k \in DOMAIN u /\ ParticleOf(u[k]) = q
      BY <1>1, <1>2 DEF q
    <3>2. \A l \in DOMAIN u : ParticleOf(u[l]) = q => k <= l
      BY <1>1, <1>2, <2>1
    <3> HIDE DEF k
    <3>3. FirstOf(u, q) = k
      BY <1>1, <3>1, <3>2, FirstUnique
    <3> QED BY <3>3 DEF k
  <2>6. us[q] = [charge |-> ChargeOf(u, q[1], q[2]), parent |-> u[FirstOf(u, q)].parent]
    BY <1>5, <1>6 DEF Value
  <2> QED BY <1>1, <2>4, <2>5, <2>6
<1>10. CASE q \in DOMAIN ps
  <2> DEFINE c == ps[q].charge + x.charge
             new(p) == IF p = q THEN [ps[q] EXCEPT !.charge = c] ELSE ps[p]
  <2>1. AddParticle(ps, x) = [p \in DOMAIN ps |-> new(p)]
    BY <1>10 DEF AddParticle, q
  <2>2. ASSUME NEW p \in DOMAIN ps
        PROVE  new(p) = us[p]
    <3>1. ps[p] = [charge |-> ChargeOf(s, p[1], p[2]), parent |-> s[FirstOf(s, p)].parent]
      BY <1>3 DEF Value
    <3>2. CASE p = q
      <4>1. new(p) = [charge |-> c, parent |-> ps[p].parent]
        BY <3>1, <3>2
      <4> HIDE DEF new
      <4> QED BY <1>8, <3>2, <4>1
    <3>3. CASE p # q
      <4>1. ps[p].charge + 0 = ps[p].charge
        <5>1. ps[p].charge \in Nat
          BY <3>1, ChargeNat
        <5> QED BY <5>1
      <4>2. us[p] = [charge |-> ps[p].charge, parent |-> ps[p].parent]
        BY <1>8, <3>3, <4>1
      <4>3. new(p) = ps[p]
        BY <3>3
      <4> HIDE DEF new
      <4> QED BY <3>1, <4>2, <4>3
    <3> QED BY <3>2, <3>3
  <2> HIDE DEF new
  <2>3. DOMAIN us = DOMAIN ps
    BY <1>6, <1>10
  <2>4. [p \in DOMAIN ps |-> new(p)] = [p \in DOMAIN us |-> us[p]]
    BY <2>2, <2>3
  <2> QED BY <1>5, <2>1, <2>4 DEF ps, us, u
<1>11. CASE q \notin DOMAIN ps
  <2> DEFINE new(p) == IF p = q THEN [charge |-> x.charge, parent |-> x.parent] ELSE ps[p]
  <2>1. AddParticle(ps, x) = [p \in DOMAIN ps \cup {q} |-> new(p)]
    BY <1>11 DEF AddParticle, q
  <2>2. ASSUME NEW p \in DOMAIN ps \cup {q}
        PROVE  new(p) = us[p]
    <3>1. CASE p = q
      BY <1>9, <1>11, <3>1
    <3>2. CASE p # q
      <4>1. p \in DOMAIN ps
        BY <3>2
      <4>2. ps[p] = [charge |-> ChargeOf(s, p[1], p[2]), parent |-> s[FirstOf(s, p)].parent]
        BY <1>3, <4>1 DEF Value
      <4>3. ps[p].charge + 0 = ps[p].charge
        <5>1. ps[p].charge \in Nat
          BY <4>2, ChargeNat
        <5> QED BY <5>1
      <4>4. us[p] = [charge |-> ps[p].charge, parent |-> ps[p].parent]
        BY <1>8, <3>2, <4>1, <4>3
      <4> QED BY <3>2, <4>2, <4>4
    <3> QED BY <3>1, <3>2
  <2> HIDE DEF new
  <2>3. DOMAIN us = DOMAIN ps \cup {q}
    BY <1>6
  <2>4. [p \in DOMAIN ps \cup {q} |-> new(p)] = [p \in DOMAIN us |-> us[p]]
    BY <2>2, <2>3
  <2> QED BY <1>5, <2>1, <2>4 DEF ps, us, u
<1> QED BY <1>10, <1>11

\* What ParticlesTrue says of one deposit of a message.
LEMMA ParticleIs ==
  ASSUME NEW s \in Seq(Items), Pairwise(s, ById), \A x \in ToSet(s) : x.detector \in Detectors,
         NEW i \in DOMAIN s
  PROVE  LET ps   == ParticlesFor(s)
             q    == ParticleOf(s[i])
             here == {item \in ToSet(s) : item.detector = s[i].detector}
         IN  /\ q \in DOMAIN ps
             /\ ps[q].charge = ChargeOf(s, s[i].detector, s[i].track)
             /\ (Parent(ps, q) # NULL) <=> \E item \in here : item.track # s[i].track
                  /\ \E first \in here : /\ first.track = s[i].track
                                         /\ first.parent = item.track
                                         /\ \A other \in here :
                                              other.track = first.track => first.id <= other.id
<1> DEFINE ps == ParticlesFor(s)
           q == ParticleOf(s[i])
           here == {item \in ToSet(s) : item.detector = s[i].detector}
           k == FirstOf(s, q)
           o == <<q[1], ps[q].parent>>
<1>1. /\ Len(s) \in Nat /\ DOMAIN s = 1 .. Len(s) /\ \A l \in DOMAIN s : s[l] \in Items
  OBVIOUS
<1>2. /\ \A p : p \in DOMAIN ps <=> \E l \in 1 .. Len(s) : p = ParticleOf(s[l])
      /\ \A p \in DOMAIN ps : ps[p] = Value(s, p)
  BY ParticlesAre
<1>3. \A y : ParticleOf(y) = <<y.detector, y.track>>
  BY DEF ParticleOf
<1>4. q = <<s[i].detector, s[i].track>> /\ q[1] = s[i].detector /\ q[2] = s[i].track
  BY <1>3
<1>5. /\ k \in DOMAIN s /\ ParticleOf(s[k]) = q
      /\ \A l \in DOMAIN s : ParticleOf(s[l]) = q => k <= l
  BY FirstIs
<1>6. q \in DOMAIN ps
  BY <1>1, <1>2
<1>7. ps[q].charge = ChargeOf(s, s[i].detector, s[i].track) /\ ps[q].parent = s[k].parent
  <2>1. ps[q] = [charge |-> ChargeOf(s, q[1], q[2]), parent |-> s[k].parent]
    BY <1>2, <1>6 DEF Value
  <2> QED BY <1>4, <2>1
<1>8. (Parent(ps, q) # NULL) <=> (o \in DOMAIN ps /\ o # q)
  <2>1. \A p \in DOMAIN ps : p # NULL
    <3> TAKE p \in DOMAIN ps
    <3>1. PICK l \in DOMAIN s : p = <<s[l].detector, s[l].track>>
      BY <1>1, <1>2, <1>3
    <3>2. s[l].track \in Nat /\ s[l].detector \in Detectors
      <4>1. s[l] \in Items /\ s[l] \in ToSet(s)
        BY <1>1 DEF ToSet
      <4> QED BY <4>1 DEF Items
    <3>3. p \in Detectors \X Nat
      BY <3>1, <3>2
    <3> QED BY <3>3, InputAssumption
  <2>2. Parent(ps, q) = IF o \in DOMAIN ps \ {q} THEN o ELSE NULL
    BY DEF Parent
  <2> HIDE DEF ps, q, o
  <2> QED BY <2>1, <2>2
<1>9. o = <<s[i].detector, s[k].parent>>
  BY <1>4, <1>7
<1> HIDE DEF ps, q, k, o
<1>10. \A l \in DOMAIN s : s[l] \in ToSet(s)
  BY DEF ToSet
<1>11. \A x \in ToSet(s) : \E l \in DOMAIN s : x = s[l]
  BY DEF ToSet
<1>12. \A a, b \in DOMAIN s : a < b => s[a].id < s[b].id
  BY DEF Pairwise, ById
<1>13. \A l \in DOMAIN s : s[l].id \in Nat
  BY <1>1 DEF Items
\* The first deposit of the track.
<1>14. s[k] \in here /\ s[k].track = s[i].track
  BY <1>3, <1>4, <1>5, <1>10
<1>15. \A other \in here : other.track = s[i].track => s[k].id <= other.id
  <2> TAKE other \in here
  <2> HAVE other.track = s[i].track
  <2>1. PICK l \in DOMAIN s : other = s[l]
    BY <1>11
  <2>2. ParticleOf(s[l]) = q
    BY <1>3, <1>4, <2>1
  <2>3. k <= l
    BY <1>5, <2>2
  <2>4. k < l \/ k = l
    BY <1>1, <1>5, <2>3
  <2> QED BY <1>5, <1>12, <1>13, <2>1, <2>4
<1>16. ASSUME NEW first \in here, first.track = s[i].track,
              \A other \in here : other.track = first.track => first.id <= other.id
       PROVE  first = s[k]
  <2>1. PICK l \in DOMAIN s : first = s[l]
    BY <1>11
  <2>2. s[l].id <= s[k].id /\ s[k].id <= s[l].id
    BY <1>14, <1>15, <1>16, <2>1
  <2>3. ~(l < k) /\ ~(k < l)
    BY <1>5, <1>12, <1>13, <2>2
  <2> QED BY <1>1, <1>5, <2>1, <2>3
<1>17. (o \in DOMAIN ps /\ o # q) <=>
         \E item \in here : item.track # s[i].track /\ s[k].parent = item.track
  <2>1. ASSUME o \in DOMAIN ps, o # q
        PROVE  \E item \in here : item.track # s[i].track /\ s[k].parent = item.track
    <3>1. PICK l \in DOMAIN s : o = <<s[l].detector, s[l].track>>
      BY <1>1, <1>2, <1>3, <2>1
    <3>2. s[l].detector = s[i].detector /\ s[l].track = s[k].parent
      BY <1>9, <3>1
    <3>3. s[k].parent # s[i].track
      BY <1>4, <1>9, <2>1
    <3> QED BY <1>10, <3>2, <3>3
  <2>2. ASSUME NEW item \in here, item.track # s[i].track, s[k].parent = item.track
        PROVE  o \in DOMAIN ps /\ o # q
    <3>1. PICK l \in DOMAIN s : item = s[l]
      BY <1>11
    <3>2. o = ParticleOf(s[l])
      BY <1>3, <1>9, <2>2, <3>1
    <3>3. o # q
      BY <1>4, <1>9, <2>2
    <3> QED BY <1>1, <1>2, <3>2, <3>3
  <2> QED BY <2>1, <2>2
<1>18. (Parent(ps, q) # NULL) <=> \E item \in here : item.track # s[i].track
         /\ \E first \in here : /\ first.track = s[i].track
                                /\ first.parent = item.track
                                /\ \A other \in here :
                                     other.track = first.track => first.id <= other.id
  <2> HIDE DEF here
  <2> QED BY <1>8, <1>14, <1>15, <1>16, <1>17
<1> QED BY <1>6, <1>7, <1>18 DEF ps, q

-----------------------------------------------------------------------------
(* The particles in the messages.                                          *)

LEMMA ParticlesNext ==
  ASSUME StateInv, ParticleInv, [InputNext]_inputVars
  PROVE  ParticleInv'
<1>1. /\ InputTypeInv /\ collected \in Seq(Items)
      /\ DOMAIN delivered = 1 .. Len(delivered) /\ Len(delivered) \in Nat
  BY DEF StateInv, InputTypeInv
<1>2. /\ particles = ParticlesFor(collected)
      /\ format \in Deposited => \A n \in DOMAIN delivered :
           delivered[n] = MessageFor(ItemsOf(delivered[n]), ParticlesFor(ItemsOf(delivered[n])))
  BY DEF ParticleInv
<1>3. ASSUME UNCHANGED <<format, collected, particles, delivered>>
      PROVE  ParticleInv'
  BY <1>3 DEF ParticleInv
<1>4. CASE StartEvent
  <2>1. collected' = <<>> /\ particles' = <<>> /\ format' = format /\ delivered' = delivered
    BY <1>4 DEF StartEvent, InputSetup
  <2>2. ParticlesFor(<<>>) = <<>>
    <3>1. ToSet(<<>>) = {}
      BY DEF ToSet
    <3>2. {ParticleOf(x) : x \in ToSet(<<>>)} = {}
      BY <3>1
    <3> QED BY <3>2 DEF ParticlesFor
  <2> QED BY <1>2, <2>1, <2>2 DEF ParticleInv
<1>5. ASSUME NEW q, Dispatch(q)
      PROVE  ParticleInv'
  <2>1. /\ format' = format /\ collected' = collected /\ particles' = particles
        /\ delivered' = Append(delivered, Message)
    BY <1>5 DEF Dispatch, InputSetup
  <2>2. ItemsOf(Message) = collected
    <3>1. ItemsOf(Message) = [i \in DOMAIN collected |-> collected[i]]
      BY DEF ItemsOf, Message
    <3>2. collected = [i \in DOMAIN collected |-> collected[i]]
      BY <1>1
    <3> QED BY <3>1, <3>2
  <2>3. Message = MessageFor(collected, ParticlesFor(collected))
    BY <1>2 DEF Message, MessageFor
  <2> DEFINE m == Message
             new == delivered'
  <2>4. Adds(new, delivered, m)
    <3>1. ItemsOf(m) \in Seq(Items) /\ new = Append(delivered, m)
      BY <1>1, <2>1, <2>2
    <3> HIDE DEF m, new
    <3> QED BY <1>1, <3>1, HandedOver DEF InputTypeInv
  <2>5. m = MessageFor(ItemsOf(m), ParticlesFor(ItemsOf(m)))
    BY <2>2, <2>3
  <2> HIDE DEF m, new
  <2>6. DOMAIN new = 1 .. Len(delivered) + 1
    <3>1. new = [n \in 1 .. Len(new) |-> new[n]] /\ Len(new) = Len(delivered) + 1
      BY <2>4 DEF Adds
    <3> QED BY <3>1
  <2>7. ASSUME format \in Deposited, NEW n \in DOMAIN new
        PROVE  new[n] = MessageFor(ItemsOf(new[n]), ParticlesFor(ItemsOf(new[n])))
    <3>1. CASE n \in 1 .. Len(delivered)
      BY <1>1, <1>2, <2>4, <2>7, <3>1 DEF Adds
    <3>2. CASE n = Len(delivered) + 1
      BY <2>4, <2>5, <3>2 DEF Adds
    <3> QED BY <1>1, <2>6, <3>1, <3>2
  <2> QED BY <1>2, <2>1, <2>7 DEF ParticleInv, new
<1>6. ASSUME NEW q, NEW items, Generate(items, q), format \in Generated
      PROVE  ParticleInv'
  <2>1. /\ format' = format /\ collected' = collected /\ particles' = particles
        /\ format \notin Deposited
    BY <1>1, <1>6, InputIs DEF Generate, InputSetup
  <2> QED BY <1>2, <2>1 DEF ParticleInv
<1>7. ASSUME pc = "read", ~AtEnd, Collect, format \in Deposited, Current.kind = "deposit"
      PROVE  ParticleInv'
  <2> DEFINE item == Current.items[1]
  <2>1. /\ format' = format /\ delivered' = delivered
        /\ IF item.detector \in Detectors /\ item.inside
           THEN /\ collected' = Append(collected, item)
                /\ particles' = AddParticle(particles, item)
           ELSE UNCHANGED <<collected, particles>>
    BY <1>7 DEF Collect, InputSetup
  <2>2. item \in Items
    <3>1. position \in DOMAIN Input /\ Current = Input[position]
      BY <1>1, <1>7, ReadingIs
    <3>2. Current.items \in Seq(Items) /\ Len(Current.items) = 1
      BY <1>1, <1>7, <3>1, InputIs DEF KindOf
    <3> QED BY <3>2
  <2> HIDE DEF item
  <2>3. AddParticle(particles, item) = ParticlesFor(Append(collected, item))
    BY <1>1, <1>2, <2>2, AddParticleIs
  <2>4. particles' = ParticlesFor(collected')
    BY <1>2, <2>1, <2>3
  <2> QED BY <1>2, <2>1, <2>4 DEF ParticleInv
<1>8. CASE EndOfInput \/ ReadHeader
  <2>1. \/ \E q \in {"idle", "end"} : Dispatch(q)
        \/ UNCHANGED <<format, collected, particles, delivered>>
    BY <1>8 DEF EndOfInput, EndOfRunNow, ReadHeader, InputSetup
  <2> QED BY <1>3, <1>5, <2>1
<1>9. CASE ReadLine \/ ReadEntry \/ ReadBlock
  <2>1. /\ pc = "read" /\ ~AtEnd /\ format \in Deposited
        /\ Dispatch("idle") \/ Collect
        /\ ReadLine \/ format \in {"ROOT", "BLOCKS"}
    BY <1>9 DEF ReadLine, ReadEntry, ReadBlock, Deposited
  <2>2. Current.kind = "deposit"
    <3>1. CASE ReadLine
      BY <3>1 DEF ReadLine
    <3>2. CASE format \in {"ROOT", "BLOCKS"}
      BY <1>1, <2>1, <3>2, ReadingIs, InputIs DEF KindOf
    <3> QED BY <2>1, <3>1, <3>2
  <2> QED BY <1>5, <1>7, <2>1, <2>2
<1>10. CASE EndOfGenerator \/ ReadGenie \/ TakeHepMC
  <2>1. format \in Generated
    BY <1>10 DEF EndOfGenerator, ReadGenie, TakeHepMC, Generated
  <2>2. CASE EndOfGenerator
    BY <1>6, <2>1, <2>2 DEF EndOfGenerator
  <2>3. CASE ReadGenie
    BY <1>6, <2>1, <2>3 DEF ReadGenie
  <2>4. CASE TakeHepMC
    BY <1>6, <2>1, <2>4 DEF TakeHepMC
  <2> QED BY <1>10, <2>2, <2>3, <2>4
<1>11. CASE ReadHepMC \/ DropHepMC
  BY <1>3, <1>11 DEF ReadHepMC, DropHepMC, InputSetup
<1>12. CASE UNCHANGED inputVars
  BY <1>3, <1>12 DEF inputVars, InputSetup
<1> QED BY <1>4, <1>8, <1>9, <1>10, <1>11, <1>12 DEF InputNext, ReadInput

LEMMA ParticlesInit == InputInit => ParticleInv
<1> SUFFICES ASSUME InputInit PROVE ParticleInv
  OBVIOUS
<1>1. collected = <<>> /\ particles = <<>> /\ delivered = <<>>
  BY DEF InputInit
<1>2. ToSet(<<>>) = {}
  BY DEF ToSet
<1>3. {ParticleOf(x) : x \in ToSet(<<>>)} = {}
  BY <1>2
<1>4. ParticlesFor(<<>>) = <<>>
  BY <1>3 DEF ParticlesFor
<1>5. DOMAIN <<>> = {}
  OBVIOUS
<1> QED BY <1>1, <1>4, <1>5 DEF ParticleInv

LEMMA ParticlesHold == StateInv /\ ParticleInv => ParticlesTrue
<1> SUFFICES ASSUME StateInv, ParticleInv, format \in Deposited, NEW n \in DOMAIN delivered,
                    NEW e \in ToSet(delivered[n].deposits)
             PROVE  LET p    == delivered[n].particles[e.particle]
                        here == {item \in ToSet(Given(n)) : item.detector = e.item.detector}
                    IN  /\ p.charge = ChargeOf(Given(n), e.item.detector, e.item.track)
                        /\ (p.parent # NULL) <=> \E item \in here : item.track # e.item.track
                             /\ \E first \in here : /\ first.track = e.item.track
                                                    /\ first.parent = item.track
                                                    /\ \A other \in here :
                                                         other.track = first.track => first.id <= other.id
  BY DEF ParticlesTrue
<1> DEFINE s == Given(n)
           ps == ParticlesFor(s)
<1>1. InputTypeInv /\ Sorted(InHands)
      /\ Sourced(format, file, newline, skip, Input, InHands, NextRecord)
  BY DEF StateInv, GivenInv, Book
<1>2. n \in DOMAIN InHands /\ s = InHands[n] /\ s \in Seq(Items)
  BY <1>1, GivenIs
<1>3. s = ItemsOf(delivered[n])
  BY DEF Given, ItemsOf
<1>4. delivered[n] = MessageFor(s, ps)
  BY <1>3 DEF ParticleInv
<1> HIDE DEF s
<1>5. Pairwise(s, ById)
  BY <1>1, <1>2 DEF Sorted
<1>6. \A x \in ToSet(s) : x.detector \in Detectors
  BY <1>1, <1>2 DEF Sourced, Holds, Counts
<1> HIDE DEF ps
<1>7. /\ delivered[n].deposits =
           [i \in DOMAIN s |-> [item |-> s[i], particle |-> ParticleOf(s[i])]]
      /\ delivered[n].particles =
           [p \in DOMAIN ps |-> [charge |-> ps[p].charge, parent |-> Parent(ps, p)]]
  BY <1>4 DEF MessageFor
<1>8. PICK i \in DOMAIN s : e.item = s[i] /\ e.particle = ParticleOf(s[i])
  <2> DEFINE rec(i) == [item |-> s[i], particle |-> ParticleOf(s[i])]
             ds == [i \in DOMAIN s |-> rec(i)]
  <2>1. e \in ToSet(ds)
    BY <1>7
  <2>2. PICK i \in DOMAIN ds : e = ds[i]
    BY <2>1 DEF ToSet
  <2>3. i \in DOMAIN s /\ e = rec(i)
    BY <2>2
  <2> QED BY <2>3
<1> DEFINE q == ParticleOf(s[i])
           p == delivered[n].particles[e.particle]
           here == {item \in ToSet(s) : item.detector = s[i].detector}
           parented == \E item \in here : item.track # s[i].track
                         /\ \E first \in here : /\ first.track = s[i].track
                                                /\ first.parent = item.track
                                                /\ \A other \in here :
                                                     other.track = first.track => first.id <= other.id
<1>9. /\ q \in DOMAIN ps /\ ps[q].charge = ChargeOf(s, s[i].detector, s[i].track)
      /\ (Parent(ps, q) # NULL) <=> parented
  BY <1>2, <1>5, <1>6, ParticleIs DEF ps
<1>10. p.charge = ps[q].charge /\ p.parent = Parent(ps, q)
  <2> HIDE DEF q
  <2>1. q \in DOMAIN ps /\ e.particle = q
    BY <1>8, <1>9 DEF q
  <2>2. p = [charge |-> ps[q].charge, parent |-> Parent(ps, q)]
    BY <1>7, <2>1
  <2> QED BY <2>2
<1>11. /\ p.charge = ChargeOf(s, s[i].detector, s[i].track)
       /\ (p.parent # NULL) <=> parented
  <2> HIDE DEF parented, p, q
  <2> QED BY <1>9, <1>10
<1> QED BY <1>8, <1>11 DEF s

-----------------------------------------------------------------------------
(* The properties of InputReaders.                                         *)

\* The invariant on which both rest.
LEMMA InputInvariant == InputSpec => [](StateInv /\ ParticleInv)
<1>1. InputInit => StateInv /\ ParticleInv
  BY StateInit, ParticlesInit
<1>2. StateInv /\ ParticleInv /\ [InputNext]_inputVars => (StateInv /\ ParticleInv)'
  BY StateNext, ParticlesNext
<1> QED BY <1>1, <1>2, PTL DEF InputSpec

\* No item goes to a wrong event of a regular file that ends with a newline; in any
\* file none is given twice, out of order or too early, and DepositionReader gives
\* every item it has passed and ends the run only when nothing is left but, in a CSV
\* file, a last line without a newline (run(), read_csv(), read_root() and
\* PrimariesReader::getParticles()).
THEOREM DeliveredExactlyHolds == InputSpec => []DeliveredExactly
<1>1. StateInv /\ ParticleInv => DeliveredExactly
  BY MatchedIs, OnceIs DEF DeliveredExactly
<1> QED BY <1>1, InputInvariant, PTL

\* The particle of each deposit has all charge of its track in its detector, and its
\* parent if that is there (DepositionReaderModule::run()).
THEOREM ParticlesTrueHolds == InputSpec => []ParticlesTrue
<1>1. StateInv /\ ParticleInv => ParticlesTrue
  BY ParticlesHold
<1> QED BY <1>1, InputInvariant, PTL
=============================================================================
