---------------------------- MODULE DataTheorems -----------------------------
(* Induction over the naturals in a form that speaks of sets only, what it     *)
(* says of a loop, and the facts about the operators of Lists and BitBlocks.   *)
EXTENDS Lists, BitBlocks, FiniteSetTheorems, WellFoundedInduction, TLAPS

(* Every set of naturals that is not empty has a least element. *)
LEMMA LeastNat ==
  ASSUME NEW T \in SUBSET Nat, T # {}
  PROVE  \E x \in T : \A y \in T : x <= y
<1> DEFINE R == OpToRel(<, Nat)
<1>1. \A x, y \in Nat : <<y, x>> \in R <=> y < x
  BY DEF OpToRel
<1>2. IsWellFoundedOn(R, Nat)
  BY NatLessThanWellFounded
<1> HIDE DEF R
<1>3. PICK x \in T : \A y \in T : ~ (<<y, x>> \in R)
  BY <1>2, WFMin
<1>4. ASSUME NEW y \in T
      PROVE  x <= y
  <2>1. x \in Nat /\ y \in Nat
    OBVIOUS
  <2>2. ~ (y < x)
    BY <1>1, <1>3, <2>1
  <2> QED BY <2>1, <2>2
<1> QED BY <1>4

(* A set of naturals with 0 and the successors of its elements has them all. *)
LEMMA SetInduction ==
  ASSUME NEW S \in SUBSET Nat, 0 \in S, \A n \in S : n + 1 \in S
  PROVE  \A n \in Nat : n \in S
<1> SUFFICES ASSUME Nat \ S # {}
             PROVE  FALSE
  OBVIOUS
<1>1. PICK x \in Nat \ S : \A y \in Nat \ S : x <= y
  BY LeastNat
<1>2. x # 0 /\ x - 1 \in Nat /\ x - 1 \in S
  BY <1>1
<1>3. (x - 1) + 1 = x
  BY <1>1
<1> QED BY <1>1, <1>2, <1>3

(* A set of naturals with an upper bound has a greatest element. *)
LEMMA GreatestBounded ==
  ASSUME NEW n \in Nat, NEW T \in SUBSET (0 .. n), T # {}
  PROVE  \E x \in T : \A y \in T : y <= x
<1> DEFINE U == {n - x : x \in T}
<1>1. U \in SUBSET Nat /\ U # {}
  <2>1. \A x \in T : x \in 0 .. n /\ n - x \in Nat
    OBVIOUS
  <2> QED BY <2>1
<1>2. PICK u \in U : \A w \in U : u <= w
  BY <1>1, LeastNat
<1>3. PICK x \in T : u = n - x
  BY <1>2
<1>4. ASSUME NEW y \in T
      PROVE  y <= x
  <2>1. n - y \in U /\ n - x <= n - y
    BY <1>2, <1>3
  <2>2. x \in 0 .. n /\ y \in 0 .. n
    OBVIOUS
  <2> QED BY <2>1, <2>2
<1> QED BY <1>4

(* What holds before a loop and is kept by each of its steps holds throughout. *)
LEMMA LoopInvariant ==
  ASSUME NEW n \in Nat, NEW T, NEW g, g[0] \in T[0],
         \A k \in 1 .. n : g[k - 1] \in T[k - 1] => g[k] \in T[k]
  PROVE  \A k \in 0 .. n : g[k] \in T[k]
<1> DEFINE S == {k \in Nat : k <= n => g[k] \in T[k]}
<1>1. S \in SUBSET Nat /\ 0 \in S
  OBVIOUS
<1>2. \A k \in S : k + 1 \in S
  <2> SUFFICES ASSUME NEW k \in S, k + 1 <= n
               PROVE  g[k + 1] \in T[k + 1]
    OBVIOUS
  <2>1. k + 1 \in 1 .. n /\ (k + 1) - 1 = k /\ k <= n
    OBVIOUS
  <2> QED BY <2>1
<1>3. \A k \in Nat : k \in S
  <2> HIDE DEF S
  <2> QED BY <1>1, <1>2, SetInduction
<1> QED BY <1>3

(* The states h[0], ..., h[n] of a loop that starts with s0 and whose step k,  *)
(* F[k], goes from T[k - 1] to T[k].                                           *)
IsRun(h, n, T, F, s0) == /\ h = [k \in 0 .. n |-> h[k]]
                         /\ h[0] = s0
                         /\ \A k \in 1 .. n : h[k] = F[k][h[k - 1]]
                         /\ \A k \in 0 .. n : h[k] \in T[k]

(* Such a loop has a run. *)
LEMMA LoopRuns ==
  ASSUME NEW n \in Nat, NEW T, NEW F, NEW s0 \in T[0],
         \A k \in 1 .. n : \A s \in T[k - 1] : F[k][s] \in T[k]
  PROVE  \E h : IsRun(h, n, T, F, s0)
<1> DEFINE Run(h, m) == /\ h = [k \in 0 .. m |-> h[k]]
                        /\ h[0] = s0
                        /\ \A k \in 1 .. m : h[k] = F[k][h[k - 1]]
                        /\ \A k \in 0 .. m : h[k] \in T[k]
           S == {m \in Nat : m <= n => \E h : Run(h, m)}
<1>1. 0 \in S
  <2>1. Run([k \in 0 .. 0 |-> s0], 0)
    OBVIOUS
  <2> QED BY <2>1
<1>2. \A m \in S : m + 1 \in S
  <2> SUFFICES ASSUME NEW m \in Nat, m <= n => \E h : Run(h, m), m + 1 <= n
               PROVE  \E h : Run(h, m + 1)
    <3> HIDE DEF Run
    <3> QED OBVIOUS
  <2>1. PICK h : Run(h, m)
    <3> HIDE DEF Run
    <3> QED OBVIOUS
  <2> DEFINE h2 == [k \in 0 .. m + 1 |-> IF k <= m THEN h[k] ELSE F[m + 1][h[m]]]
  <2>2. F[m + 1][h[m]] \in T[m + 1]
    <3>1. m + 1 \in 1 .. n /\ (m + 1) - 1 = m /\ m \in 0 .. m
      OBVIOUS
    <3> QED BY <2>1, <3>1
  <2>3. \A k \in 0 .. m : h2[k] = h[k]
    OBVIOUS
  <2>4. h2[m + 1] = F[m + 1][h[m]]
    OBVIOUS
  <2>5. h2 = [k \in 0 .. m + 1 |-> h2[k]]
    OBVIOUS
  <2> HIDE DEF h2
  <2>6. h2[0] = s0
    BY <2>1, <2>3
  <2>7. ASSUME NEW k \in 1 .. m + 1
        PROVE  h2[k] = F[k][h2[k - 1]]
    <3>1. CASE k = m + 1
      BY <3>1, <2>3, <2>4
    <3>2. CASE k <= m
      <4>1. k \in 0 .. m /\ k - 1 \in 0 .. m /\ k \in 1 .. m
        BY <3>2
      <4> QED BY <4>1, <2>1, <2>3
    <3> QED BY <3>1, <3>2
  <2>8. ASSUME NEW k \in 0 .. m + 1
        PROVE  h2[k] \in T[k]
    <3>1. CASE k = m + 1
      BY <3>1, <2>2, <2>4
    <3>2. CASE k <= m
      BY <3>2, <2>1, <2>3
    <3> QED BY <3>1, <3>2
  <2>9. Run(h2, m + 1)
    BY <2>5, <2>6, <2>7, <2>8
  <2> QED BY <2>9
<1>3. S \in SUBSET Nat
  OBVIOUS
<1>4. n \in S
  <2> HIDE DEF S
  <2> QED BY <1>1, <1>2, <1>3, SetInduction
<1> QED BY <1>4 DEF IsRun
-----------------------------------------------------------------------------
(* Counting the elements of a set of indexes up to k. *)
LEMMA CountUpTo ==
  ASSUME NEW I, NEW k \in Nat
  PROVE  /\ IsFiniteSet({i \in 1 .. k : i \in I})
         /\ Cardinality({i \in 1 .. k : i \in I}) \in 0 .. k
<1>1. IsFiniteSet(1 .. k) /\ Cardinality(1 .. k) = k
  BY FS_Interval
<1>2. {i \in 1 .. k : i \in I} \in SUBSET (1 .. k)
  OBVIOUS
<1>3. IsFiniteSet({i \in 1 .. k : i \in I}) /\ Cardinality({i \in 1 .. k : i \in I}) <= k
  BY <1>1, <1>2, FS_Subset
<1>4. Cardinality({i \in 1 .. k : i \in I}) \in Nat
  BY <1>3, FS_CardinalityType
<1> QED BY <1>3, <1>4

(* One more index is one more member at most. *)
LEMMA CountNext ==
  ASSUME NEW I, NEW k \in Nat \ {0}
  PROVE  Cardinality({i \in 1 .. k : i \in I})
           = Cardinality({i \in 1 .. k - 1 : i \in I}) + (IF k \in I THEN 1 ELSE 0)
<1> DEFINE J == {i \in 1 .. k - 1 : i \in I}
           K == {i \in 1 .. k : i \in I}
<1>1. IsFiniteSet(J) /\ Cardinality(J) \in Nat
  BY CountUpTo
<1>2. k \in I => K = J \cup {k} /\ k \notin J
  OBVIOUS
<1>3. k \notin I => K = J
  OBVIOUS
<1> SUFFICES Cardinality(K) = Cardinality(J) + (IF k \in I THEN 1 ELSE 0)
  OBVIOUS
<1> HIDE DEF J, K
<1>4. CASE k \in I
  BY <1>1, <1>2, <1>4, FS_AddElement
<1>5. CASE k \notin I
  BY <1>1, <1>3, <1>5
<1> QED BY <1>4, <1>5

(* The number of entries up to k that are e, and that are outside F. *)
EqualUpTo(list, e, k)   == Cardinality({i \in 1 .. k : list[i] = e})
OutsideUpTo(list, F, k) == Cardinality({i \in 1 .. k : list[i] \notin F})

(* The count of the entries that are e, from one index to the next. *)
LEMMA EqualNext ==
  ASSUME NEW list, NEW e
  PROVE  /\ EqualUpTo(list, e, 0) = 0
         /\ \A k \in Nat : EqualUpTo(list, e, k) \in Nat
         /\ \A k \in Nat \ {0} :
              EqualUpTo(list, e, k) = EqualUpTo(list, e, k - 1) + (IF list[k] = e THEN 1 ELSE 0)
<1>1. {i \in 1 .. 0 : list[i] = e} = {}
  OBVIOUS
<1>2. EqualUpTo(list, e, 0) = 0
  BY <1>1, FS_EmptySet DEF EqualUpTo
<1>3. ASSUME NEW k \in Nat
      PROVE  EqualUpTo(list, e, k) \in Nat
  <2> DEFINE I == {i \in 1 .. k : list[i] = e}
  <2>1. {i \in 1 .. k : list[i] = e} = {i \in 1 .. k : i \in I}
    OBVIOUS
  <2> HIDE DEF I
  <2>2. Cardinality({i \in 1 .. k : i \in I}) \in 0 .. k
    BY CountUpTo
  <2> QED BY <2>1, <2>2 DEF EqualUpTo
<1>4. ASSUME NEW k \in Nat \ {0}
      PROVE  EqualUpTo(list, e, k) = EqualUpTo(list, e, k - 1) + (IF list[k] = e THEN 1 ELSE 0)
  <2> DEFINE I == {i \in 1 .. k : list[i] = e}
  <2>1. {i \in 1 .. k : list[i] = e} = {i \in 1 .. k : i \in I}
    OBVIOUS
  <2>2. {i \in 1 .. k - 1 : list[i] = e} = {i \in 1 .. k - 1 : i \in I}
    OBVIOUS
  <2>3. k \in I <=> list[k] = e
    OBVIOUS
  <2> HIDE DEF I
  <2> QED BY <2>1, <2>2, <2>3, CountNext DEF EqualUpTo
<1> QED BY <1>2, <1>3, <1>4

(* The count of the entries outside F, from one index to the next. *)
LEMMA OutsideNext ==
  ASSUME NEW list, NEW F
  PROVE  /\ OutsideUpTo(list, F, 0) = 0
         /\ \A k \in Nat : OutsideUpTo(list, F, k) \in Nat
         /\ \A k \in Nat \ {0} :
              OutsideUpTo(list, F, k) = OutsideUpTo(list, F, k - 1) + (IF list[k] \in F THEN 0 ELSE 1)
<1>1. {i \in 1 .. 0 : list[i] \notin F} = {}
  OBVIOUS
<1>2. OutsideUpTo(list, F, 0) = 0
  BY <1>1, FS_EmptySet DEF OutsideUpTo
<1>3. ASSUME NEW k \in Nat
      PROVE  OutsideUpTo(list, F, k) \in Nat
  <2> DEFINE I == {i \in 1 .. k : list[i] \notin F}
  <2>1. {i \in 1 .. k : list[i] \notin F} = {i \in 1 .. k : i \in I}
    OBVIOUS
  <2> HIDE DEF I
  <2>2. Cardinality({i \in 1 .. k : i \in I}) \in 0 .. k
    BY CountUpTo
  <2> QED BY <2>1, <2>2 DEF OutsideUpTo
<1>4. ASSUME NEW k \in Nat \ {0}
      PROVE  OutsideUpTo(list, F, k) = OutsideUpTo(list, F, k - 1) + (IF list[k] \in F THEN 0 ELSE 1)
  <2> DEFINE I == {i \in 1 .. k : list[i] \notin F}
  <2>1. {i \in 1 .. k : list[i] \notin F} = {i \in 1 .. k : i \in I}
    OBVIOUS
  <2>2. {i \in 1 .. k - 1 : list[i] \notin F} = {i \in 1 .. k - 1 : i \in I}
    OBVIOUS
  <2>3. k \in I <=> list[k] \notin F
    OBVIOUS
  <2> HIDE DEF I
  <2> QED BY <2>1, <2>2, <2>3, CountNext DEF OutsideUpTo
<1> QED BY <1>2, <1>3, <1>4

(* A list over S whose entries are in T. *)
LEMMA ListOver ==
  ASSUME NEW S, NEW T, NEW list \in Seq(S), \A k \in 1 .. Len(list) : list[k] \in T
  PROVE  list \in Seq(T)
<1>1. Len(list) \in Nat /\ list = [k \in 1 .. Len(list) |-> list[k]]
  OBVIOUS
<1>2. list \in [1 .. Len(list) -> T]
  BY <1>1
<1> QED BY <1>1, <1>2

(* An element is named 0 times or is an entry. *)
LEMMA TimesNat ==
  ASSUME NEW S, NEW list \in Seq(S), NEW e
  PROVE  /\ Times(list, e) = EqualUpTo(list, e, Len(list))
         /\ Times(list, e) \in Nat
         /\ Times(list, e) > 0 <=> \E i \in 1 .. Len(list) : list[i] = e
<1> DEFINE I == {i \in 1 .. Len(list) : list[i] = e}
<1>1. Len(list) \in Nat
  OBVIOUS
<1>3. IsFiniteSet(I) /\ Cardinality(I) \in Nat
  <2>1. IsFiniteSet(1 .. Len(list))
    BY <1>1, FS_Interval
  <2>2. I \in SUBSET (1 .. Len(list))
    OBVIOUS
  <2> QED BY <2>1, <2>2, FS_Subset, FS_CardinalityType
<1>4. Cardinality(I) = 0 <=> I = {}
  BY <1>3, FS_EmptySet
<1>5. I # {} <=> \E i \in 1 .. Len(list) : list[i] = e
  OBVIOUS
<1>6. Times(list, e) = Cardinality(I) /\ EqualUpTo(list, e, Len(list)) = Cardinality(I)
  BY DEF Times, EqualUpTo
<1> HIDE DEF I
<1> QED BY <1>3, <1>4, <1>5, <1>6

(* An appended entry is named once more, the others as often as before. *)
LEMMA TimesAppend ==
  ASSUME NEW S, NEW list \in Seq(S), NEW x \in S, NEW e
  PROVE  Times(Append(list, x), e) = Times(list, e) + (IF x = e THEN 1 ELSE 0)
<1> DEFINE l == Append(list, x)
           n == Len(list) + 1
<1>1. l \in Seq(S) /\ n \in Nat \ {0} /\ Len(l) = n /\ n - 1 = Len(list) /\ l[n] = x
  OBVIOUS
<1>2. {i \in 1 .. n - 1 : l[i] = e} = {i \in 1 .. Len(list) : list[i] = e}
  OBVIOUS
<1> HIDE DEF l, n
<1>3. EqualUpTo(l, e, n - 1) = Times(list, e)
  BY <1>2 DEF EqualUpTo, Times
<1>4. EqualUpTo(l, e, n) = EqualUpTo(l, e, n - 1) + (IF l[n] = e THEN 1 ELSE 0)
  BY <1>1, EqualNext
<1>5. Times(l, e) = EqualUpTo(l, e, n)
  BY <1>1, TimesNat
<1> QED BY <1>1, <1>3, <1>4, <1>5 DEF l
-----------------------------------------------------------------------------
(* What Kept leaves of a list: as many entries as are not filtered, and every  *)
(* other element as often as before.                                           *)
LEMMA KeptFacts ==
  ASSUME NEW A, NEW list \in Seq(A), NEW F
  PROVE  /\ Kept(list, F) \in Seq(A)
         /\ Len(Kept(list, F)) = OutsideUpTo(list, F, Len(list))
         /\ \A e : Times(Kept(list, F), e) = IF e \in F THEN 0 ELSE Times(list, e)
<1> DEFINE n == Len(list)
           Step(s, k) == IF list[k] \in F THEN s ELSE Append(s, list[k])
           Rec(g) == g = [k \in 0 .. n |-> IF k = 0 THEN <<>> ELSE Step(g[k - 1], k)]
           T == [k \in 0 .. n |-> {s \in Seq(A) :
                   /\ Len(s) = OutsideUpTo(list, F, k)
                   /\ \A e : Times(s, e) = IF e \in F THEN 0 ELSE EqualUpTo(list, e, k)}]
<1>1. n \in Nat
  OBVIOUS
<1>2. <<>> \in T[0]
  <2>1. \A e : Times(<<>>, e) = 0
    <3> SUFFICES ASSUME NEW e PROVE Times(<<>>, e) = 0
      OBVIOUS
    <3>1. {i \in 1 .. Len(<<>>) : <<>>[i] = e} = {}
      OBVIOUS
    <3> QED BY <3>1, FS_EmptySet DEF Times
  <2>2. <<>> \in Seq(A) /\ Len(<<>>) = 0
    OBVIOUS
  <2>3. \A e : EqualUpTo(list, e, 0) = 0
    BY EqualNext
  <2> QED BY <1>1, <2>1, <2>2, <2>3, OutsideNext
<1>3. ASSUME NEW k \in 1 .. n, NEW s \in T[k - 1]
      PROVE  Step(s, k) \in T[k]
  <2>1. /\ s \in Seq(A) /\ Len(s) = OutsideUpTo(list, F, k - 1)
        /\ \A e : Times(s, e) = IF e \in F THEN 0 ELSE EqualUpTo(list, e, k - 1)
    BY <1>1
  <2>2. k \in Nat \ {0} /\ list[k] \in A /\ k \in 0 .. n
    BY <1>1
  <2>3. Step(s, k) \in Seq(A)
    BY <2>1, <2>2
  <2>4. Len(Step(s, k)) = OutsideUpTo(list, F, k)
    <3>1. OutsideUpTo(list, F, k) = OutsideUpTo(list, F, k - 1) + (IF list[k] \in F THEN 0 ELSE 1)
      BY <2>2, OutsideNext
    <3>2. OutsideUpTo(list, F, k - 1) \in Nat
      BY <2>2, OutsideNext
    <3> QED BY <2>1, <2>2, <3>1, <3>2
  <2>5. ASSUME NEW e
        PROVE  Times(Step(s, k), e) = IF e \in F THEN 0 ELSE EqualUpTo(list, e, k)
    <3>1. EqualUpTo(list, e, k) = EqualUpTo(list, e, k - 1) + (IF list[k] = e THEN 1 ELSE 0)
      BY <2>2, EqualNext
    <3>2. EqualUpTo(list, e, k - 1) \in Nat
      BY <2>2, EqualNext
    <3>3. Times(Append(s, list[k]), e) = Times(s, e) + (IF list[k] = e THEN 1 ELSE 0)
      BY <2>1, <2>2, TimesAppend
    <3>4. Times(s, e) = IF e \in F THEN 0 ELSE EqualUpTo(list, e, k - 1)
      BY <2>1
    <3> QED BY <3>1, <3>2, <3>3, <3>4
  <2> HIDE DEF Step
  <2> QED BY <2>2, <2>3, <2>4, <2>5
<1> HIDE DEF T, Step
<1> DEFINE F0 == [k \in 1 .. n |-> [s \in T[k - 1] |-> Step(s, k)]]
<1>4. \A k \in 1 .. n : \A s \in T[k - 1] : F0[k][s] = Step(s, k)
  OBVIOUS
<1>5. \A k \in 1 .. n : \A s \in T[k - 1] : F0[k][s] \in T[k]
  BY <1>3, <1>4
<1> HIDE DEF F0, n
<1>6. PICK h : IsRun(h, n, T, F0, <<>>)
  BY <1>1, <1>2, <1>5, LoopRuns
<1>7. Rec(h)
  <2>1. ASSUME NEW k \in 0 .. n
        PROVE  h[k] = IF k = 0 THEN <<>> ELSE Step(h[k - 1], k)
    <3>1. CASE k = 0
      BY <3>1, <1>6 DEF IsRun
    <3>2. CASE k # 0
      <4>1. k \in 1 .. n /\ k - 1 \in 0 .. n
        BY <1>1, <3>2
      <4> QED BY <4>1, <1>4, <1>6, <3>2 DEF IsRun
    <3> QED BY <3>1, <3>2
  <2> QED BY <1>6, <2>1 DEF IsRun
<1> DEFINE g == CHOOSE f : Rec(f)
<1>8. Rec(g)
  <2> HIDE DEF Rec
  <2> QED BY <1>7
<1>9. Kept(list, F) = g[n]
  BY DEF Kept, Step, n
<1> HIDE DEF g
<1>10. \A k \in 0 .. n : g[k] \in T[k]
  <2>1. g[0] \in T[0]
    BY <1>1, <1>2, <1>8
  <2>2. ASSUME NEW k \in 1 .. n, g[k - 1] \in T[k - 1]
        PROVE  g[k] \in T[k]
    <3>1. g[k] = Step(g[k - 1], k)
      BY <1>1, <1>8
    <3> QED BY <1>3, <2>2, <3>1
  <2> QED BY <1>1, <2>1, <2>2, LoopInvariant
<1>11. Kept(list, F) \in T[n]
  BY <1>1, <1>9, <1>10
<1>12. \A e : Times(list, e) = EqualUpTo(list, e, n)
  BY TimesNat DEF n
<1> QED BY <1>1, <1>11, <1>12 DEF T, n
-----------------------------------------------------------------------------
(* Sorting gives every entry a place of its own. *)
LEMMA Places ==
  ASSUME NEW list \in Seq(Int)
  PROVE  /\ \A i \in 1 .. Len(list) : Place(list, i) \in 1 .. Len(list)
         /\ \A i, j \in 1 .. Len(list) :
              Place(list, i) < Place(list, j) <=> (list[i] < list[j] \/ (list[i] = list[j] /\ i < j))
         /\ \A k \in 1 .. Len(list) : \E i \in 1 .. Len(list) : Place(list, i) = k
<1> DEFINE n == Len(list)
           Upto(i) == {j \in 1 .. n : list[j] < list[i] \/ (list[j] = list[i] /\ j <= i)}
<1>1. n \in Nat /\ \A i \in 1 .. n : list[i] \in Int
  OBVIOUS
<1>2. IsFiniteSet(1 .. n) /\ Cardinality(1 .. n) = n
  <2> HIDE DEF n
  <2> QED BY <1>1, FS_Interval
<1>3. ASSUME NEW i \in 1 .. n
      PROVE  /\ Place(list, i) = Cardinality(Upto(i)) /\ IsFiniteSet(Upto(i))
             /\ Place(list, i) \in 1 .. n
  <2>1. Upto(i) \in SUBSET (1 .. n) /\ i \in Upto(i)
    BY <1>1
  <2>2. Place(list, i) = Cardinality(Upto(i))
    BY DEF Place
  <2> HIDE DEF Upto
  <2>3. IsFiniteSet(Upto(i)) /\ Cardinality(Upto(i)) <= n
    BY <1>2, <2>1, FS_Subset
  <2>4. Cardinality(Upto(i)) \in Nat /\ Cardinality(Upto(i)) # 0
    BY <2>1, <2>3, FS_CardinalityType, FS_EmptySet
  <2> QED BY <1>1, <2>2, <2>3, <2>4
<1>4. ASSUME NEW i \in 1 .. n, NEW j \in 1 .. n,
             list[i] < list[j] \/ (list[i] = list[j] /\ i < j)
      PROVE  Place(list, i) < Place(list, j)
  <2>1. \A m \in 1 .. n : m \in Upto(i) => m \in Upto(j)
    <3> SUFFICES ASSUME NEW m \in 1 .. n, m \in Upto(i)
                 PROVE  m \in Upto(j)
      OBVIOUS
    <3>1. list[m] \in Int /\ list[i] \in Int /\ list[j] \in Int
      BY <1>1
    <3> QED BY <1>1, <1>4, <3>1
  <2>2. j \in Upto(j)
    BY <1>1
  <2>3. j \notin Upto(i)
    <3>1. list[i] \in Int /\ list[j] \in Int
      BY <1>1
    <3> QED BY <1>1, <1>4, <3>1
  <2>4. Upto(i) \in SUBSET (1 .. n)
    OBVIOUS
  <2> HIDE DEF Upto
  <2>5. Upto(i) \in SUBSET Upto(j) /\ Upto(i) # Upto(j)
    BY <2>1, <2>2, <2>3, <2>4
  <2>6. Cardinality(Upto(i)) <= Cardinality(Upto(j)) /\ Cardinality(Upto(i)) # Cardinality(Upto(j))
    BY <1>3, <2>5, FS_Subset
  <2>7. /\ Place(list, i) = Cardinality(Upto(i)) /\ Place(list, i) \in 1 .. n
        /\ Place(list, j) = Cardinality(Upto(j)) /\ Place(list, j) \in 1 .. n
    BY <1>3
  <2> QED BY <1>1, <2>6, <2>7
<1>5. ASSUME NEW i \in 1 .. n, NEW j \in 1 .. n
      PROVE  Place(list, i) < Place(list, j) <=> (list[i] < list[j] \/ (list[i] = list[j] /\ i < j))
  <2> HIDE DEF Upto
  <2>1. list[i] \in Int /\ list[j] \in Int /\ i \in Int /\ j \in Int
    BY <1>1
  <2>2. \/ list[i] < list[j] \/ (list[i] = list[j] /\ i < j)
        \/ list[j] < list[i] \/ (list[j] = list[i] /\ j < i)
        \/ i = j
    BY <2>1
  <2>3. Place(list, i) \in Int /\ Place(list, j) \in Int
    BY <1>1, <1>3
  <2>4. CASE list[i] < list[j] \/ (list[i] = list[j] /\ i < j)
    BY <2>4, <1>4
  <2>5. CASE list[j] < list[i] \/ (list[j] = list[i] /\ j < i)
    <3>1. Place(list, j) < Place(list, i)
      BY <2>5, <1>4
    <3> QED BY <3>1, <2>1, <2>3, <2>5
  <2>6. CASE i = j
    BY <2>6, <2>1, <2>3
  <2> QED BY <2>2, <2>4, <2>5, <2>6
<1>6. \A k \in 1 .. n : \E i \in 1 .. n : Place(list, i) = k
  <2> HIDE DEF n
  <2> DEFINE p == [i \in 1 .. n |-> Place(list, i)]
  <2>1. p \in [1 .. n -> 1 .. n]
    BY <1>3
  <2>2. \A i, j \in 1 .. n : p[i] = p[j] => i = j
    <3> SUFFICES ASSUME NEW i \in 1 .. n, NEW j \in 1 .. n, p[i] = p[j]
                 PROVE  i = j
      OBVIOUS
    <3>1. Place(list, i) = Place(list, j) /\ Place(list, i) \in Int
      <4>1. p[i] = Place(list, i) /\ p[j] = Place(list, j)
        OBVIOUS
      <4>2. Place(list, i) \in 1 .. n
        BY <1>3
      <4> QED BY <1>1, <4>1, <4>2
    <3>2. ~(Place(list, i) < Place(list, j)) /\ ~(Place(list, j) < Place(list, i))
      BY <3>1
    <3>3. list[i] \in Int /\ list[j] \in Int /\ i \in Int /\ j \in Int
      BY <1>1
    <3>4. /\ ~(list[i] < list[j] \/ (list[i] = list[j] /\ i < j))
          /\ ~(list[j] < list[i] \/ (list[j] = list[i] /\ j < i))
      BY <1>5, <3>2
    <3> QED BY <3>3, <3>4
  <2> HIDE DEF p
  <2>3. p \in Injection(1 .. n, 1 .. n)
    BY <2>1, <2>2 DEF Injection, IsInjective
  <2>4. p \in Surjection(1 .. n, 1 .. n)
    BY <1>2, <2>3, FS_Injection
  <2> QED BY <2>4 DEF Surjection, p
<1> QED BY <1>3, <1>5, <1>6

(* Sorting permutes the entries and leaves them in order. *)
LEMMA SortedFacts ==
  ASSUME NEW S \in SUBSET Int, NEW list \in Seq(S)
  PROVE  /\ Sorted(list) \in Seq(S)
         /\ Len(Sorted(list)) = Len(list)
         /\ \A i, j \in 1 .. Len(list) : i <= j => Sorted(list)[i] <= Sorted(list)[j]
         /\ \A e : Times(Sorted(list), e) = Times(list, e)
<1> DEFINE n == Len(list)
           from(k) == CHOOSE i \in 1 .. n : Place(list, i) = k
<1>1. n \in Nat /\ list \in Seq(Int) /\ \A i \in 1 .. n : list[i] \in S /\ list[i] \in Int
  <2>1. n \in Nat /\ \A i \in 1 .. n : list[i] \in S
    OBVIOUS
  <2>2. \A i \in 1 .. n : list[i] \in Int
    BY <2>1
  <2>3. list = [i \in 1 .. n |-> list[i]]
    OBVIOUS
  <2> HIDE DEF n
  <2> QED BY <2>1, <2>2, <2>3
<1>2. ASSUME NEW k \in 1 .. n
      PROVE  from(k) \in 1 .. n /\ Place(list, from(k)) = k
  <2>1. \E i \in 1 .. n : Place(list, i) = k
    BY <1>1, Places
  <2> QED BY <2>1
<1>3. Sorted(list) = [k \in 1 .. n |-> list[from(k)]]
  BY DEF Sorted
<1> HIDE DEF n, from
<1>4. Sorted(list) \in Seq(S) /\ Len(Sorted(list)) = n
  BY <1>1, <1>2, <1>3
<1>5. ASSUME NEW i \in 1 .. n, NEW j \in 1 .. n, i <= j
      PROVE  Sorted(list)[i] <= Sorted(list)[j]
  <2>1. ~(Place(list, from(j)) < Place(list, from(i)))
    BY <1>1, <1>2, <1>5
  <2>2. ~(list[from(j)] < list[from(i)])
    BY <1>1, <1>2, <2>1, Places DEF n
  <2>3. list[from(i)] \in Int /\ list[from(j)] \in Int
    BY <1>1, <1>2
  <2> QED BY <1>3, <2>2, <2>3
<1>6. ASSUME NEW e
      PROVE  Times(Sorted(list), e) = Times(list, e)
  <2> DEFINE A == {k \in 1 .. n : Sorted(list)[k] = e}
             B == {i \in 1 .. n : list[i] = e}
             f == [k \in A |-> from(k)]
  <2>1. IsFiniteSet(A)
    <3>1. IsFiniteSet(1 .. n)
      BY <1>1, FS_Interval
    <3>2. A \in SUBSET (1 .. n)
      OBVIOUS
    <3> QED BY <3>1, <3>2, FS_Subset
  <2>2. f \in [A -> B]
    BY <1>2, <1>3
  <2>3. \A k, m \in A : f[k] = f[m] => k = m
    BY <1>2
  <2>4. \A i \in B : \E k \in A : f[k] = i
    <3> SUFFICES ASSUME NEW i \in B
                 PROVE  \E k \in A : f[k] = i
      OBVIOUS
    <3>1. Place(list, i) \in 1 .. n
      BY <1>1, Places DEF n
    <3>2. from(Place(list, i)) = i
      <4> DEFINE m == from(Place(list, i))
      <4>1. m \in 1 .. n /\ Place(list, m) = Place(list, i)
        BY <1>2, <3>1
      <4> HIDE DEF m
      <4>2. /\ Place(list, m) < Place(list, i) <=> (list[m] < list[i] \/ (list[m] = list[i] /\ m < i))
            /\ Place(list, i) < Place(list, m) <=> (list[i] < list[m] \/ (list[i] = list[m] /\ i < m))
        BY <1>1, <4>1, Places DEF n
      <4>3. list[m] \in Int /\ list[i] \in Int /\ m \in Int /\ i \in Int
        BY <1>1, <4>1
      <4>4. m = i
        BY <1>1, <3>1, <4>1, <4>2, <4>3
      <4> QED BY <4>4 DEF m
    <3> QED BY <1>3, <3>1, <3>2
  <2>5. Times(Sorted(list), e) = Cardinality(A) /\ Times(list, e) = Cardinality(B)
    BY <1>4 DEF Times, n
  <2> HIDE DEF A, B, f
  <2>6. f \in Bijection(A, B)
    BY <2>2, <2>3, <2>4 DEF Bijection, Injection, Surjection, IsInjective
  <2>7. Cardinality(A) = Cardinality(B)
    BY <2>1, <2>6, FS_Bijection DEF ExistsBijection
  <2> QED BY <2>5, <2>7
<1> QED BY <1>4, <1>5, <1>6 DEF n

(* The elements of a finite set in their order, each of them once. *)
LEMMA AscendingFacts ==
  ASSUME NEW S \in SUBSET Int, IsFiniteSet(S)
  PROVE  /\ Ascending(S) \in Seq(S) /\ Len(Ascending(S)) = Cardinality(S)
         /\ \A i, j \in 1 .. Cardinality(S) : i < j => Ascending(S)[i] < Ascending(S)[j]
         /\ \A e : Times(Ascending(S), e) = IF e \in S THEN 1 ELSE 0
<1> DEFINE n == Cardinality(S)
           Upto(x) == {y \in S : y <= x}
           rank(x) == Cardinality(Upto(x))
           at(k) == CHOOSE x \in S : rank(x) = k
<1>1. n \in Nat /\ IsFiniteSet(1 .. n) /\ Cardinality(1 .. n) = n
  <2>1. n \in Nat
    BY FS_CardinalityType
  <2> HIDE DEF n
  <2> QED BY <2>1, FS_Interval
<1>2. ASSUME NEW x \in S
      PROVE  IsFiniteSet(Upto(x)) /\ rank(x) \in 1 .. n
  <2>1. Upto(x) \in SUBSET S /\ x \in Upto(x)
    OBVIOUS
  <2> HIDE DEF Upto
  <2>2. IsFiniteSet(Upto(x)) /\ Cardinality(Upto(x)) <= n
    BY <2>1, FS_Subset
  <2>3. Cardinality(Upto(x)) \in Nat /\ Cardinality(Upto(x)) # 0
    BY <2>1, <2>2, FS_CardinalityType, FS_EmptySet
  <2> QED BY <1>1, <2>2, <2>3
<1>3. ASSUME NEW x \in S, NEW y \in S, x < y
      PROVE  rank(x) < rank(y)
  <2>1. Upto(x) \in SUBSET Upto(y) /\ y \in Upto(y) /\ y \notin Upto(x)
    <3>1. x \in Int /\ y \in Int /\ \A z \in S : z \in Int
      OBVIOUS
    <3>2. \A z \in S : z <= x => z <= y
      BY <1>3, <3>1
    <3>3. y <= y /\ ~ (y <= x)
      BY <1>3, <3>1
    <3> QED BY <3>2, <3>3
  <2>2. IsFiniteSet(Upto(y)) /\ rank(x) \in 1 .. n /\ rank(y) \in 1 .. n
    BY <1>2
  <2> HIDE DEF Upto
  <2>3. Cardinality(Upto(x)) <= Cardinality(Upto(y)) /\ Cardinality(Upto(x)) # Cardinality(Upto(y))
    BY <2>1, <2>2, FS_Subset
  <2> QED BY <1>1, <2>2, <2>3
<1>4. Ascending(S) = [k \in 1 .. n |-> at(k)]
  BY DEF Ascending
<1> HIDE DEF rank
<1>5. \A x, y \in S : rank(x) = rank(y) => x = y
  <2> SUFFICES ASSUME NEW x \in S, NEW y \in S, rank(x) = rank(y)
               PROVE  x = y
    OBVIOUS
  <2>1. rank(x) \in Int /\ rank(y) \in Int /\ x \in Int /\ y \in Int
    <3>1. rank(x) \in 1 .. n /\ rank(y) \in 1 .. n
      BY <1>2
    <3> HIDE DEF n
    <3> QED BY <1>1, <3>1
  <2>2. ~ (x < y) /\ ~ (y < x)
    BY <1>3, <2>1
  <2> QED BY <2>1, <2>2
<1>6. \A k \in 1 .. n : \E x \in S : rank(x) = k
  <2> DEFINE p == [x \in S |-> rank(x)]
  <2> HIDE DEF n
  <2>1. p \in [S -> 1 .. n]
    BY <1>2
  <2>2. \A x, y \in S : p[x] = p[y] => x = y
    BY <1>5
  <2> HIDE DEF p
  <2>3. p \in Injection(S, 1 .. n)
    BY <2>1, <2>2 DEF Injection, IsInjective
  <2>4. p \in Surjection(S, 1 .. n)
    BY <1>1, <2>3, FS_Injection DEF n
  <2> QED BY <2>4 DEF Surjection, p
<1>7. \A k \in 1 .. n : at(k) \in S /\ rank(at(k)) = k
  BY <1>6
<1>8. \A x \in S : at(rank(x)) = x
  BY <1>2, <1>5, <1>7
<1> HIDE DEF at, n
<1>9. Ascending(S) \in Seq(S) /\ Len(Ascending(S)) = n
  BY <1>1, <1>4, <1>7
<1>10. ASSUME NEW i \in 1 .. n, NEW j \in 1 .. n, i < j
       PROVE  Ascending(S)[i] < Ascending(S)[j]
  <2>1. at(i) \in Int /\ at(j) \in Int /\ at(i) \in S /\ at(j) \in S /\ rank(at(i)) = i /\ rank(at(j)) = j
    BY <1>7
  <2>2. ~ (at(j) < at(i)) /\ at(i) # at(j)
    BY <1>1, <1>3, <1>10, <2>1
  <2> QED BY <1>4, <2>1, <2>2
<1>11. ASSUME NEW e
       PROVE  Times(Ascending(S), e) = IF e \in S THEN 1 ELSE 0
  <2> DEFINE K == {i \in 1 .. Len(Ascending(S)) : Ascending(S)[i] = e}
  <2>1. CASE e \in S
    <3>1. K = {rank(e)}
      <4>1. rank(e) \in 1 .. n
        BY <1>2, <2>1
      <4> QED BY <1>4, <1>7, <1>8, <1>9, <2>1, <4>1
    <3> QED BY <2>1, <3>1, FS_Singleton DEF Times
  <2>2. CASE e \notin S
    <3>1. K = {}
      BY <1>4, <1>7, <1>9, <2>2
    <3> QED BY <2>2, <3>1, FS_EmptySet DEF Times
  <2> QED BY <2>1, <2>2
<1> QED BY <1>9, <1>10, <1>11 DEF n
-----------------------------------------------------------------------------
(* A set of naturals has the minimum that Min names. *)
LEMMA MinFacts ==
  ASSUME NEW S \in SUBSET Nat, S # {}
  PROVE  Min(S) \in S /\ \A y \in S : Min(S) <= y
<1>1. \E x \in S : \A y \in S : x <= y
  BY LeastNat
<1> QED BY <1>1 DEF Min

(* Max, when the maximum is known. *)
LEMMA MaxFacts ==
  ASSUME NEW S \in SUBSET Nat, NEW x \in S, \A y \in S : y <= x
  PROVE  Max(S) = x
<1>1. \A y \in S : x >= y
  OBVIOUS
<1>2. Max(S) \in S /\ \A y \in S : Max(S) >= y
  BY <1>1 DEF Max
<1>3. Max(S) \in Nat /\ x \in Nat /\ Max(S) >= x /\ x >= Max(S)
  BY <1>1, <1>2
<1> QED BY <1>3

(* A finite table of naturals has a greatest value. *)
LEMMA GreatestValue ==
  ASSUME NEW n \in Nat, NEW f, \A i \in 0 .. n : f[i] \in Nat
  PROVE  \E i \in 0 .. n : \A j \in 0 .. n : f[j] <= f[i]
<1> DEFINE Top(k) == \E i \in 0 .. k : \A j \in 0 .. k : f[j] <= f[i]
           S == {k \in Nat : k <= n => Top(k)}
<1>1. S \in SUBSET Nat
  OBVIOUS
<1>2. 0 \in S
  <2>1. f[0] <= f[0]
    OBVIOUS
  <2>2. \A j \in 0 .. 0 : j = 0
    OBVIOUS
  <2>3. Top(0)
    BY <2>1, <2>2
  <2> QED BY <2>3
<1>3. \A k \in S : k + 1 \in S
  <2> SUFFICES ASSUME NEW k \in Nat, Top(k), k + 1 <= n
               PROVE  Top(k + 1)
    <3> HIDE DEF Top
    <3> QED OBVIOUS
  <2>1. PICK i \in 0 .. k : \A j \in 0 .. k : f[j] <= f[i]
    OBVIOUS
  <2>2. i \in 0 .. n /\ k + 1 \in 0 .. n /\ f[i] \in Nat /\ f[k + 1] \in Nat
    OBVIOUS
  <2>3. \A j \in 0 .. k + 1 : j \in 0 .. k \/ j = k + 1
    OBVIOUS
  <2>4. \A j \in 0 .. k + 1 : f[j] \in Nat
    OBVIOUS
  <2>5. CASE f[k + 1] <= f[i]
    BY <2>1, <2>3, <2>5
  <2>6. CASE f[i] <= f[k + 1]
    <3>1. ASSUME NEW j \in 0 .. k + 1
          PROVE  f[j] <= f[k + 1]
      <4>1. CASE j = k + 1
        BY <2>2, <4>1
      <4>2. CASE j \in 0 .. k
        <5>1. f[j] <= f[i] /\ f[j] \in Nat
          BY <2>1, <2>4, <4>2
        <5> QED BY <2>2, <2>6, <5>1
      <4> QED BY <2>3, <4>1, <4>2
    <3>2. k + 1 \in 0 .. k + 1
      OBVIOUS
    <3> QED BY <3>1, <3>2
  <2> QED BY <2>2, <2>5, <2>6
<1>4. n \in S
  <2> HIDE DEF S
  <2> QED BY <1>1, <1>2, <1>3, SetInduction
<1> QED BY <1>4

(* list holds w. *)
Names(list, w) == \E k \in 1 .. Len(list) : list[k] = w

(* erase of the first e leaves the other entries. *)
LEMMA WithoutFirstFacts ==
  ASSUME NEW S, NEW list \in Seq(S), NEW e, Names(list, e)
  PROVE  /\ WithoutFirst(list, e) \in Seq(S)
         /\ Len(WithoutFirst(list, e)) = Len(list) - 1
         /\ \A w : w # e /\ Names(list, w) => Names(WithoutFirst(list, e), w)
         /\ \A w : Names(WithoutFirst(list, e), w) => Names(list, w)
<1> DEFINE n == Len(list)
           I == {i \in 1 .. n : list[i] = e}
           first == Min(I)
           at(k) == IF k < first THEN k ELSE k + 1
           rest == [k \in 1 .. n - 1 |-> list[at(k)]]
<1>1. n \in Nat /\ I \in SUBSET Nat /\ I # {} /\ \A k \in 1 .. n : list[k] \in S
  BY DEF Names
<1>2. first \in I
  <2> HIDE DEF I
  <2> QED BY <1>1, MinFacts
<1>3. WithoutFirst(list, e) = rest
  BY DEF WithoutFirst
<1>4. first \in 1 .. n /\ list[first] = e
  BY <1>2
<1> HIDE DEF n, first
<1>5. \A k \in 1 .. n - 1 : at(k) \in 1 .. n
  BY <1>1, <1>4
<1>6. n - 1 \in Nat
  BY <1>1, <1>4
<1>7. rest \in Seq(S) /\ Len(rest) = n - 1
  BY <1>1, <1>5, <1>6
<1>8. ASSUME NEW w, w # e, Names(list, w)
      PROVE  Names(rest, w)
  <2>1. PICK j \in 1 .. n : list[j] = w
    BY <1>8 DEF Names, n
  <2>2. j # first
    BY <1>4, <1>8, <2>1
  <2>3. CASE j < first
    <3>1. j \in 1 .. n - 1 /\ at(j) = j
      BY <1>1, <1>4, <2>3
    <3>2. rest[j] = w
      BY <2>1, <3>1
    <3> QED BY <1>7, <3>1, <3>2 DEF Names
  <2>4. CASE j > first
    <3>1. j - 1 \in 1 .. n - 1 /\ at(j - 1) = j
      BY <1>1, <1>4, <2>4
    <3>2. rest[j - 1] = w
      BY <2>1, <3>1
    <3> QED BY <1>7, <3>1, <3>2 DEF Names
  <2> QED BY <1>1, <1>4, <2>2, <2>3, <2>4
<1>9. ASSUME NEW w, Names(rest, w)
      PROVE  Names(list, w)
  <2>1. PICK k \in 1 .. n - 1 : rest[k] = w
    BY <1>7, <1>9 DEF Names
  <2>2. list[at(k)] = w /\ at(k) \in 1 .. n
    BY <1>5, <2>1
  <2> HIDE DEF at
  <2> QED BY <2>2 DEF Names, n
<1> QED BY <1>3, <1>7, <1>8, <1>9 DEF n
-----------------------------------------------------------------------------
(* A number shifted one bit further is halved once more. *)
LEMMA ShiftedNext ==
  ASSUME NEW x \in Nat
  PROVE  /\ Shifted(x, 0) = x
         /\ \A n \in Nat : Shifted(x, n) \in Nat /\ Shifted(x, n + 1) = Shifted(x, n) \div 2
<1> DEFINE Rec(g, n) == g = [k \in 0 .. n |-> IF k = 0 THEN x ELSE g[k - 1] \div 2]
           run(n) == CHOOSE g : Rec(g, n)
<1>2. \A n : Shifted(x, n) = run(n)[n]
  BY DEF Shifted
<1>1. ASSUME NEW n \in Nat
      PROVE  \E g : Rec(g, n)
  <2> DEFINE T == [k \in 0 .. n |-> Nat]
             F == [k \in 1 .. n |-> [s \in Nat |-> s \div 2]]
  <2>1. \A k \in 0 .. n : T[k] = Nat
    OBVIOUS
  <2>2. \A k \in 1 .. n : \A s \in Nat : F[k][s] = s \div 2
    OBVIOUS
  <2> HIDE DEF T, F
  <2>3. \A k \in 1 .. n : k \in 0 .. n /\ k - 1 \in 0 .. n
    OBVIOUS
  <2>4. x \in T[0] /\ \A k \in 1 .. n : \A s \in T[k - 1] : F[k][s] \in T[k]
    BY <2>1, <2>2, <2>3
  <2>5. PICK h : IsRun(h, n, T, F, x)
    BY <2>4, LoopRuns
  <2>6. ASSUME NEW k \in 0 .. n
        PROVE  h[k] = IF k = 0 THEN x ELSE h[k - 1] \div 2
    <3>1. CASE k = 0
      BY <3>1, <2>5 DEF IsRun
    <3>2. CASE k # 0
      <4>1. k \in 1 .. n /\ k - 1 \in 0 .. n
        BY <3>2
      <4>2. h[k] = F[k][h[k - 1]] /\ h[k - 1] \in Nat
        BY <4>1, <2>1, <2>5 DEF IsRun
      <4> QED BY <4>1, <4>2, <2>2, <3>2
    <3> QED BY <3>1, <3>2
  <2>7. h = [k \in 0 .. n |-> h[k]]
    BY <2>5 DEF IsRun
  <2> QED BY <2>6, <2>7
<1>3. ASSUME NEW n \in Nat, NEW g, Rec(g, n)
      PROVE  /\ g[0] = x
             /\ \A k \in 1 .. n : g[k] = g[k - 1] \div 2
             /\ \A k \in 0 .. n : g[k] \in Nat
  <2>1. g[0] = x /\ \A k \in 1 .. n : g[k] = g[k - 1] \div 2
    <3>1. 0 \in 0 .. n /\ \A k \in 1 .. n : k \in 0 .. n /\ k # 0
      OBVIOUS
    <3> QED BY <1>3, <3>1
  <2> DEFINE T == [k \in 0 .. n |-> Nat]
  <2>2. \A k \in 0 .. n : T[k] = Nat
    OBVIOUS
  <2> HIDE DEF T
  <2>3. \A k \in 1 .. n : k \in 0 .. n /\ k - 1 \in 0 .. n
    OBVIOUS
  <2>4. g[0] \in T[0] /\ \A k \in 1 .. n : g[k - 1] \in T[k - 1] => g[k] \in T[k]
    BY <2>1, <2>2, <2>3
  <2>5. \A k \in 0 .. n : g[k] \in T[k]
    BY <2>4, LoopInvariant
  <2> QED BY <2>1, <2>2, <2>5
<1>4. ASSUME NEW n \in Nat
      PROVE  Rec(run(n), n)
  <2> HIDE DEF Rec
  <2> QED BY <1>1
<1> HIDE DEF Rec, run
<1>5. ASSUME NEW n \in Nat
      PROVE  run(n + 1)[n] = run(n)[n]
  <2> DEFINE S == {k \in Nat : k <= n => run(n + 1)[k] = run(n)[k]}
  <2>1. S \in SUBSET Nat /\ 0 \in S
    BY <1>3, <1>4
  <2>2. ASSUME NEW k \in S
        PROVE  k + 1 \in S
    <3> SUFFICES ASSUME k + 1 <= n
                 PROVE  run(n + 1)[k + 1] = run(n)[k + 1]
      OBVIOUS
    <3>1. k + 1 \in 1 .. n /\ k + 1 \in 1 .. n + 1 /\ (k + 1) - 1 = k
      OBVIOUS
    <3>2. run(n + 1)[k + 1] = run(n + 1)[k] \div 2 /\ run(n)[k + 1] = run(n)[k] \div 2
      BY <1>3, <1>4, <3>1
    <3> QED BY <3>2
  <2>3. n \in S
    <3> HIDE DEF S
    <3> QED BY <2>1, <2>2, SetInduction
  <2> QED BY <2>3
<1>6. Shifted(x, 0) = x
  BY <1>2, <1>3, <1>4
<1>7. ASSUME NEW n \in Nat
      PROVE  Shifted(x, n) \in Nat /\ Shifted(x, n + 1) = Shifted(x, n) \div 2
  <2>1. n \in 0 .. n /\ n + 1 \in 1 .. n + 1 /\ (n + 1) - 1 = n /\ n + 1 \in Nat
    OBVIOUS
  <2>2. run(n)[n] \in Nat /\ run(n + 1)[n + 1] = run(n + 1)[n] \div 2
    BY <1>3, <1>4, <2>1
  <2> QED BY <1>2, <1>5, <2>2
<1> QED BY <1>6, <1>7

(* What a block reads with one bit more. *)
LEMMA BlockGetNext ==
  ASSUME NEW ones, NEW begin \in Nat
  PROVE  /\ BlockGet(ones, begin, 0) = 0
         /\ \A n \in Nat :
              /\ BlockGet(ones, begin, n) \in Nat
              /\ BlockGet(ones, begin, n + 1)
                   = 2 * BlockGet(ones, begin, n) + (IF begin + n \in ones THEN 1 ELSE 0)
<1> DEFINE bit(k) == IF begin + k - 1 \in ones THEN 1 ELSE 0
           Rec(g, n) == g = [k \in 0 .. n |-> IF k = 0 THEN 0 ELSE 2 * g[k - 1] + bit(k)]
           run(n) == CHOOSE g : Rec(g, n)
<1>0. \A k : bit(k) \in {0, 1}
  OBVIOUS
<1>2. \A n : BlockGet(ones, begin, n) = run(n)[n]
  BY DEF BlockGet
<1> HIDE DEF bit
<1>1. ASSUME NEW n \in Nat
      PROVE  \E g : Rec(g, n)
  <2> DEFINE T == [k \in 0 .. n |-> Nat]
             F == [k \in 1 .. n |-> [s \in Nat |-> 2 * s + bit(k)]]
  <2>1. \A k \in 0 .. n : T[k] = Nat
    OBVIOUS
  <2>2. \A k \in 1 .. n : \A s \in Nat : F[k][s] = 2 * s + bit(k)
    OBVIOUS
  <2> HIDE DEF T, F
  <2>3. \A k \in 1 .. n : k \in 0 .. n /\ k - 1 \in 0 .. n
    OBVIOUS
  <2>4. 0 \in T[0] /\ \A k \in 1 .. n : \A s \in T[k - 1] : F[k][s] \in T[k]
    BY <1>0, <2>1, <2>2, <2>3
  <2>5. PICK h : IsRun(h, n, T, F, 0)
    BY <2>4, LoopRuns
  <2>6. ASSUME NEW k \in 0 .. n
        PROVE  h[k] = IF k = 0 THEN 0 ELSE 2 * h[k - 1] + bit(k)
    <3>1. CASE k = 0
      BY <3>1, <2>5 DEF IsRun
    <3>2. CASE k # 0
      <4>1. k \in 1 .. n /\ k - 1 \in 0 .. n
        BY <3>2
      <4>2. h[k] = F[k][h[k - 1]] /\ h[k - 1] \in Nat
        BY <4>1, <2>1, <2>5 DEF IsRun
      <4> QED BY <4>1, <4>2, <2>2, <3>2
    <3> QED BY <3>1, <3>2
  <2>7. h = [k \in 0 .. n |-> h[k]]
    BY <2>5 DEF IsRun
  <2> QED BY <2>6, <2>7
<1>3. ASSUME NEW n \in Nat, NEW g, Rec(g, n)
      PROVE  /\ g[0] = 0
             /\ \A k \in 1 .. n : g[k] = 2 * g[k - 1] + bit(k)
             /\ \A k \in 0 .. n : g[k] \in Nat
  <2>1. g[0] = 0 /\ \A k \in 1 .. n : g[k] = 2 * g[k - 1] + bit(k)
    <3>1. 0 \in 0 .. n /\ \A k \in 1 .. n : k \in 0 .. n /\ k # 0
      OBVIOUS
    <3> QED BY <1>3, <3>1
  <2> DEFINE T == [k \in 0 .. n |-> Nat]
  <2>2. \A k \in 0 .. n : T[k] = Nat
    OBVIOUS
  <2> HIDE DEF T
  <2>3. \A k \in 1 .. n : k \in 0 .. n /\ k - 1 \in 0 .. n
    OBVIOUS
  <2>4. g[0] \in T[0] /\ \A k \in 1 .. n : g[k - 1] \in T[k - 1] => g[k] \in T[k]
    BY <1>0, <2>1, <2>2, <2>3
  <2>5. \A k \in 0 .. n : g[k] \in T[k]
    BY <2>4, LoopInvariant
  <2> QED BY <2>1, <2>2, <2>5
<1>4. ASSUME NEW n \in Nat
      PROVE  Rec(run(n), n)
  <2> HIDE DEF Rec
  <2> QED BY <1>1
<1> HIDE DEF Rec, run
<1>5. ASSUME NEW n \in Nat
      PROVE  run(n + 1)[n] = run(n)[n]
  <2> DEFINE S == {k \in Nat : k <= n => run(n + 1)[k] = run(n)[k]}
  <2>1. S \in SUBSET Nat /\ 0 \in S
    BY <1>3, <1>4
  <2>2. ASSUME NEW k \in S
        PROVE  k + 1 \in S
    <3> SUFFICES ASSUME k + 1 <= n
                 PROVE  run(n + 1)[k + 1] = run(n)[k + 1]
      OBVIOUS
    <3>1. k + 1 \in 1 .. n /\ k + 1 \in 1 .. n + 1 /\ (k + 1) - 1 = k
      OBVIOUS
    <3>2. run(n + 1)[k + 1] = 2 * run(n + 1)[k] + bit(k + 1) /\ run(n)[k + 1] = 2 * run(n)[k] + bit(k + 1)
      BY <1>3, <1>4, <3>1
    <3> QED BY <3>2
  <2>3. n \in S
    <3> HIDE DEF S
    <3> QED BY <2>1, <2>2, SetInduction
  <2> QED BY <2>3
<1>6. BlockGet(ones, begin, 0) = 0
  BY <1>2, <1>3, <1>4
<1>7. ASSUME NEW n \in Nat
      PROVE  BlockGet(ones, begin, n) \in Nat /\ BlockGet(ones, begin, n + 1) = 2 * BlockGet(ones, begin, n) + bit(n + 1)
  <2>1. n \in 0 .. n /\ n + 1 \in 1 .. n + 1 /\ (n + 1) - 1 = n /\ n + 1 \in Nat
    OBVIOUS
  <2>2. run(n)[n] \in Nat /\ run(n + 1)[n + 1] = 2 * run(n + 1)[n] + bit(n + 1)
    BY <1>3, <1>4, <2>1
  <2> QED BY <1>2, <1>5, <2>2
<1>8. ASSUME NEW n \in Nat
      PROVE  bit(n + 1) = IF begin + n \in ones THEN 1 ELSE 0
  <2>1. begin + (n + 1) - 1 = begin + n
    OBVIOUS
  <2> QED BY <2>1 DEF bit
<1> QED BY <1>6, <1>7, <1>8

(* A number shifted by as much as its size, or more, is 0. *)
LEMMA ShiftedFacts ==
  ASSUME NEW x \in Nat
  PROVE  /\ \A m, n \in Nat : FitsIn(x, m) /\ m <= n => Shifted(x, n) = 0
         /\ \A n \in Nat : x <= n => FitsIn(x, n)
         /\ \A y \in Nat : y <= x => \A n \in Nat : FitsIn(x, n) => FitsIn(y, n)
<1>1. /\ Shifted(x, 0) = x
      /\ \A n \in Nat : Shifted(x, n) \in Nat /\ Shifted(x, n + 1) = Shifted(x, n) \div 2
  BY ShiftedNext
<1>2. ASSUME NEW m \in Nat, NEW n \in Nat, FitsIn(x, m), m <= n
      PROVE  Shifted(x, n) = 0
  <2> DEFINE S == {k \in Nat : Shifted(x, m + k) = 0}
  <2>1. 0 \in S
    <3>1. m + 0 = m
      OBVIOUS
    <3> QED BY <1>2, <3>1 DEF FitsIn
  <2>2. ASSUME NEW k \in S
        PROVE  k + 1 \in S
    <3>1. m + k \in Nat /\ m + (k + 1) = (m + k) + 1
      OBVIOUS
    <3>2. Shifted(x, (m + k) + 1) = Shifted(x, m + k) \div 2
      BY <1>1, <3>1
    <3> QED BY <3>1, <3>2
  <2>3. S \in SUBSET Nat
    OBVIOUS
  <2>4. n - m \in Nat /\ m + (n - m) = n
    BY <1>2
  <2>5. n - m \in S
    <3> HIDE DEF S
    <3> QED BY <2>1, <2>2, <2>3, <2>4, SetInduction
  <2> QED BY <2>4, <2>5
<1>3. ASSUME NEW n \in Nat, x <= n
      PROVE  FitsIn(x, n)
  <2> DEFINE S == {k \in Nat : Shifted(x, k) = 0 \/ Shifted(x, k) + k <= x}
  <2>1. S \in SUBSET Nat /\ 0 \in S
    BY <1>1
  <2>2. ASSUME NEW k \in S
        PROVE  k + 1 \in S
    <3>1. /\ Shifted(x, k) \in Nat /\ Shifted(x, k + 1) = Shifted(x, k) \div 2
          /\ Shifted(x, k) = 0 \/ Shifted(x, k) + k <= x
      BY <1>1
    <3>2. Shifted(x, k + 1) = 0 \/ Shifted(x, k + 1) + (k + 1) <= x
      BY <3>1
    <3> QED BY <3>2
  <2>3. n \in S
    <3> HIDE DEF S
    <3> QED BY <2>1, <2>2, SetInduction
  <2>4. Shifted(x, n) \in Nat
    BY <1>1
  <2> QED BY <1>3, <2>3, <2>4 DEF FitsIn
<1>4. ASSUME NEW y \in Nat, y <= x, NEW n \in Nat, FitsIn(x, n)
      PROVE  FitsIn(y, n)
  <2>1. /\ Shifted(y, 0) = y
        /\ \A k \in Nat : Shifted(y, k) \in Nat /\ Shifted(y, k + 1) = Shifted(y, k) \div 2
    BY ShiftedNext
  <2> DEFINE S == {k \in Nat : Shifted(y, k) <= Shifted(x, k)}
  <2>2. S \in SUBSET Nat /\ 0 \in S
    BY <1>1, <1>4, <2>1
  <2>3. ASSUME NEW k \in S
        PROVE  k + 1 \in S
    BY <1>1, <2>1
  <2>4. n \in S
    <3> HIDE DEF S
    <3> QED BY <2>2, <2>3, SetInduction
  <2> QED BY <1>1, <1>4, <2>1, <2>4 DEF FitsIn
<1> QED BY <1>2, <1>3, <1>4

(* The numbers below n fit in CeilLog2(n) bits. *)
LEMMA CeilLog2Facts ==
  ASSUME NEW n \in Nat, n > 0
  PROVE  /\ CeilLog2(n) \in Nat
         /\ n > 1 => CeilLog2(n) > 0
         /\ \A x \in Nat : x < n => FitsIn(x, CeilLog2(n))
<1> DEFINE T == {i \in Nat : FitsIn(n - 1, i)}
           Good(i) == FitsIn(n - 1, i) /\ (i > 0 => ~ FitsIn(n - 1, i - 1))
<1>1. n - 1 \in Nat /\ n - 1 <= n - 1
  OBVIOUS
<1>2. FitsIn(n - 1, n - 1)
  BY <1>1, ShiftedFacts
<1>3. T \in SUBSET Nat /\ n - 1 \in T
  BY <1>1, <1>2
<1>4. PICK i \in T : \A j \in T : i <= j
  BY <1>3, LeastNat
<1>5. i \in 0 .. n
  BY <1>3, <1>4
<1>6. Good(i)
  <2>1. i > 0 => i - 1 \in Nat /\ ~ (i <= i - 1)
    BY <1>5
  <2> QED BY <1>4, <2>1
<1> DEFINE c == CeilLog2(n)
<1>7. c \in 0 .. n /\ Good(c)
  <2> HIDE DEF Good
  <2>1. c = CHOOSE k \in 0 .. n : Good(k)
    BY DEF CeilLog2, Good
  <2> QED BY <1>5, <1>6, <2>1
<1> HIDE DEF c
<1>8. n > 1 => c > 0
  <2> SUFFICES ASSUME n > 1, c = 0
               PROVE  FALSE
    BY <1>7
  <2>1. Shifted(n - 1, 0) = n - 1
    BY <1>1, ShiftedNext
  <2> QED BY <1>7, <2>1 DEF FitsIn
<1>9. ASSUME NEW x \in Nat, x < n
      PROVE  FitsIn(x, c)
  <2>1. x <= n - 1 /\ c \in Nat
    BY <1>7, <1>9
  <2> QED BY <1>1, <1>7, <2>1, ShiftedFacts
<1> QED BY <1>7, <1>8, <1>9 DEF c

(* A block reads the bits of its own positions only. *)
LEMMA BlockSame ==
  ASSUME NEW S, NEW T, NEW begin \in Nat, NEW size \in Nat,
         \A p \in begin .. begin + size - 1 : p \in S <=> p \in T
  PROVE  BlockGet(S, begin, size) = BlockGet(T, begin, size)
<1> DEFINE I == {k \in Nat : k <= size => BlockGet(S, begin, k) = BlockGet(T, begin, k)}
<1>4. /\ BlockGet(S, begin, 0) = 0
      /\ \A n \in Nat :
           /\ BlockGet(S, begin, n) \in Nat
           /\ BlockGet(S, begin, n + 1) = 2 * BlockGet(S, begin, n) + (IF begin + n \in S THEN 1 ELSE 0)
  BY BlockGetNext
<1>5. /\ BlockGet(T, begin, 0) = 0
      /\ \A n \in Nat :
           /\ BlockGet(T, begin, n) \in Nat
           /\ BlockGet(T, begin, n + 1) = 2 * BlockGet(T, begin, n) + (IF begin + n \in T THEN 1 ELSE 0)
  BY BlockGetNext
<1>1. I \in SUBSET Nat /\ 0 \in I
  BY <1>4, <1>5
<1>2. ASSUME NEW k \in I
      PROVE  k + 1 \in I
  <2> SUFFICES ASSUME k + 1 <= size
               PROVE  BlockGet(S, begin, k + 1) = BlockGet(T, begin, k + 1)
    OBVIOUS
  <2>1. begin + k \in begin .. begin + size - 1 /\ k \in Nat
    OBVIOUS
  <2>2. BlockGet(S, begin, k) = BlockGet(T, begin, k)
    OBVIOUS
  <2>3. begin + k \in S <=> begin + k \in T
    BY <2>1
  <2>4. BlockGet(S, begin, k + 1) = 2 * BlockGet(S, begin, k) + (IF begin + k \in S THEN 1 ELSE 0)
    BY <1>4, <2>1
  <2>5. BlockGet(T, begin, k + 1) = 2 * BlockGet(T, begin, k) + (IF begin + k \in T THEN 1 ELSE 0)
    BY <1>5, <2>1
  <2> QED BY <2>2, <2>3, <2>4, <2>5
<1>3. size \in I
  <2> HIDE DEF I
  <2> QED BY <1>1, <1>2, SetInduction
<1> QED BY <1>3

(* A block reads 0 only where no bit is one. *)
LEMMA BlockOfZeros ==
  ASSUME NEW S, NEW begin \in Nat, NEW size \in Nat
  PROVE  BlockGet(S, begin, size) = 0 <=> \A p \in begin .. begin + size - 1 : p \notin S
<1>1. /\ BlockGet(S, begin, 0) = 0
      /\ \A n \in Nat :
           /\ BlockGet(S, begin, n) \in Nat
           /\ BlockGet(S, begin, n + 1) = 2 * BlockGet(S, begin, n) + (IF begin + n \in S THEN 1 ELSE 0)
  BY BlockGetNext
<1> DEFINE I == {j \in Nat : BlockGet(S, begin, j) = 0 <=> \A p \in begin .. begin + j - 1 : p \notin S}
<1>2. I \in SUBSET Nat /\ 0 \in I
  BY <1>1
<1>3. ASSUME NEW j \in I
      PROVE  j + 1 \in I
  <2>1. \A p : p \in begin .. begin + (j + 1) - 1 <=> p \in begin .. begin + j - 1 \/ p = begin + j
    OBVIOUS
  <2>2. BlockGet(S, begin, j + 1) = 0 <=> BlockGet(S, begin, j) = 0 /\ begin + j \notin S
    BY <1>1
  <2> QED BY <2>1, <2>2
<1>4. size \in I
  <2> HIDE DEF I
  <2> QED BY <1>2, <1>3, SetInduction
<1> QED BY <1>4

(* BlockSet writes a value that fits in the bits of its block and nowhere      *)
(* else.                                                                       *)
LEMMA BlockSetBits ==
  ASSUME NEW ones, NEW begin \in Nat, NEW size \in Nat, NEW x \in Nat, FitsIn(x, size), NEW p
  PROVE  p \in BlockSet(ones, begin, size, x)
           <=> IF p \in begin .. begin + size - 1 THEN BitOf(x, begin + size - 1 - p) = 1 ELSE p \in ones
<1>1. CASE p \in begin .. begin + size - 1
  <2>1. p \in 8 * (begin \div 8) .. begin + size - 1
    BY <1>1
  <2> QED BY <1>1, <2>1 DEF BlockSet
<1>2. CASE p \notin begin .. begin + size - 1
  <2>1. ASSUME p \in 8 * (begin \div 8) .. begin + size - 1
        PROVE  BitOf(x, begin + size - 1 - p) # 1
    <3>1. begin + size - 1 - p \in Nat /\ size <= begin + size - 1 - p
      BY <1>2, <2>1
    <3>2. Shifted(x, begin + size - 1 - p) = 0
      BY <3>1, ShiftedFacts
    <3> QED BY <3>2 DEF BitOf
  <2> QED BY <1>2, <2>1 DEF BlockSet
<1> QED BY <1>1, <1>2

(* A value that fits is read back, from any set with its bits. *)
LEMMA BlockSetGet ==
  ASSUME NEW S, NEW begin \in Nat, NEW size \in Nat, NEW x \in Nat, FitsIn(x, size),
         \A p \in begin .. begin + size - 1 : p \in S <=> BitOf(x, begin + size - 1 - p) = 1
  PROVE  BlockGet(S, begin, size) = x
<1> DEFINE I == {k \in Nat : k <= size => BlockGet(S, begin, k) = Shifted(x, size - k)}
<1>5. /\ BlockGet(S, begin, 0) = 0
      /\ \A n \in Nat :
           /\ BlockGet(S, begin, n) \in Nat
           /\ BlockGet(S, begin, n + 1) = 2 * BlockGet(S, begin, n) + (IF begin + n \in S THEN 1 ELSE 0)
  BY BlockGetNext
<1>1. I \in SUBSET Nat /\ 0 \in I
  <2>1. BlockGet(S, begin, 0) = 0 /\ size - 0 = size
    BY <1>5
  <2> QED BY <2>1 DEF FitsIn
<1>2. ASSUME NEW k \in I
      PROVE  k + 1 \in I
  <2> SUFFICES ASSUME k + 1 <= size
               PROVE  BlockGet(S, begin, k + 1) = Shifted(x, size - (k + 1))
    OBVIOUS
  <2> DEFINE n == size - (k + 1)
  <2>1. n \in Nat /\ n + 1 = size - k /\ k \in Nat /\ k <= size
    OBVIOUS
  <2>2. begin + k \in begin .. begin + size - 1 /\ begin + size - 1 - (begin + k) = n
    OBVIOUS
  <2>3. BlockGet(S, begin, k) = Shifted(x, n + 1)
    BY <2>1
  <2>4. begin + k \in S <=> BitOf(x, n) = 1
    BY <2>2
  <2> HIDE DEF n
  <2>5. Shifted(x, n) \in Nat /\ Shifted(x, n + 1) = Shifted(x, n) \div 2
    BY <2>1, ShiftedNext
  <2>6. BlockGet(S, begin, k + 1) = 2 * BlockGet(S, begin, k) + (IF begin + k \in S THEN 1 ELSE 0)
    BY <1>5, <2>1
  <2>7. BlockGet(S, begin, k + 1) = 2 * (Shifted(x, n) \div 2) + (IF Shifted(x, n) % 2 = 1 THEN 1 ELSE 0)
    BY <2>3, <2>4, <2>5, <2>6 DEF BitOf
  <2>8. \A a \in Nat : 2 * (a \div 2) + (IF a % 2 = 1 THEN 1 ELSE 0) = a
    OBVIOUS
  <2>9. BlockGet(S, begin, k + 1) = Shifted(x, n)
    BY <2>5, <2>7, <2>8
  <2> QED BY <2>9 DEF n
<1>3. size \in I
  <2> HIDE DEF I
  <2> QED BY <1>1, <1>2, SetInduction
<1>4. size - size = 0 /\ Shifted(x, 0) = x
  BY ShiftedNext
<1> QED BY <1>3, <1>4

(* Consecutive blocks do not overlap. *)
LEMMA BlockOrder ==
  ASSUME NEW i \in Nat, NEW j \in Nat, NEW size \in Nat, i < j
  PROVE  i * size \in Nat /\ j * size \in Nat /\ i * size + size <= j * size
<1> DEFINE d == j - i - 1
<1>1. d \in Nat /\ j = i + 1 + d
  OBVIOUS
<1> HIDE DEF d
<1>2. \A a, b \in Nat : a * b \in Nat
  OBVIOUS
<1>3. d * size \in Nat /\ i * size \in Nat
  BY <1>1, <1>2
<1>4. (i + 1 + d) * size = i * size + size + d * size
  BY <1>1
<1> QED BY <1>1, <1>3, <1>4

(* A block that is written leaves the blocks apart from it as they were. *)
LEMMA BlockApart ==
  ASSUME NEW ones, NEW begin \in Nat, NEW size \in Nat, NEW x \in Nat, FitsIn(x, size),
         NEW b \in Nat, NEW n \in Nat, b + n <= begin \/ begin + size <= b
  PROVE  BlockGet(BlockSet(ones, begin, size, x), b, n) = BlockGet(ones, b, n)
<1>1. ASSUME NEW p \in b .. b + n - 1
      PROVE  p \in BlockSet(ones, begin, size, x) <=> p \in ones
  <2>1. p \notin begin .. begin + size - 1
    OBVIOUS
  <2> QED BY <2>1, BlockSetBits
<1> QED BY <1>1, BlockSame

(* A list of numbers that fit in blocks of a size, blocks that hold it, and    *)
(* blocks from an index on, up to another, that are 0.                         *)
AllFit(nums, size) == nums \in Seq(Nat) /\ \A i \in 1 .. Len(nums) : FitsIn(nums[i], size)
Holds(S, begin, size, nums) ==
  \A i \in 1 .. Len(nums) : BlockGet(S, begin + (i - 1) * size, size) = nums[i]
ZeroFrom(S, begin, size, n, num) == \A i \in n .. num - 1 : BlockGet(S, begin + i * size, size) = 0

(* A list in consecutive blocks can be read back, and nothing else changes. *)
LEMMA BlocksSetFacts ==
  ASSUME NEW ones, NEW begin \in Nat, NEW size \in Nat, NEW nums, AllFit(nums, size)
  PROVE  /\ Holds(BlocksSet(ones, begin, size, nums), begin, size, nums)
         /\ \A p : p \notin begin .. begin + Len(nums) * size - 1
                     => (p \in BlocksSet(ones, begin, size, nums) <=> p \in ones)
<1> DEFINE n == Len(nums)
           at(i) == begin + (i - 1) * size
           Step(s, k) == BlockSet(s, begin + (k - 1) * size, size, nums[k])
           Rec(g) == g = [k \in 0 .. n |-> IF k = 0 THEN ones ELSE Step(g[k - 1], k)]
           Good(s, k) == /\ \A i \in 1 .. k : BlockGet(s, at(i), size) = nums[i]
                         /\ \A p : p \notin begin .. begin + k * size - 1 => (p \in s <=> p \in ones)
           T == [k \in 0 .. n |-> {s \in SUBSET (ones \cup Nat) : Good(s, k)}]
<1>1. n \in Nat /\ \A i \in 1 .. n : nums[i] \in Nat /\ FitsIn(nums[i], size)
  BY DEF AllFit
<1>2. ones \in T[0]
  OBVIOUS
<1>3. ASSUME NEW k \in 1 .. n, NEW s \in T[k - 1]
      PROVE  Step(s, k) \in T[k]
  <2>1. k - 1 \in 0 .. n /\ k \in 0 .. n /\ k - 1 \in Nat /\ k \in Nat /\ s \in SUBSET (ones \cup Nat) /\ Good(s, k - 1)
    BY <1>1
  <2>2. (k - 1) * size \in Nat /\ k * size \in Nat /\ k * size = (k - 1) * size + size
    <3>1. (k - 1) * size \in Nat /\ k * size \in Nat
      BY <2>1, BlockOrder
    <3>2. ((k - 1) + 1) * size = (k - 1) * size + size
      BY <2>1
    <3>3. (k - 1) + 1 = k
      BY <2>1
    <3> QED BY <3>1, <3>2, <3>3
  <2>3. at(k) \in Nat /\ at(k) + size = begin + k * size
    <3> DEFINE a == (k - 1) * size
               c == k * size
    <3>1. a \in Nat /\ c \in Nat /\ c = a + size /\ at(k) = begin + a
      BY <2>2
    <3> HIDE DEF a, c, at
    <3> QED BY <3>1 DEF c
  <2>4. nums[k] \in Nat /\ FitsIn(nums[k], size)
    BY <1>1
  <2>5. \A p : p \in Step(s, k) <=> IF p \in at(k) .. at(k) + size - 1
                                      THEN BitOf(nums[k], at(k) + size - 1 - p) = 1 ELSE p \in s
    BY <2>3, <2>4, BlockSetBits
  <2>6. Step(s, k) \in SUBSET (ones \cup Nat)
    <3> HIDE DEF Step, at
    <3> QED BY <2>1, <2>3, <2>5
  <2>7. ASSUME NEW i \in 1 .. k
        PROVE  BlockGet(Step(s, k), at(i), size) = nums[i]
    <3>1. CASE i = k
      <4>1. \A p \in at(k) .. at(k) + size - 1 : p \in Step(s, k) <=> BitOf(nums[k], at(k) + size - 1 - p) = 1
        BY <2>5
      <4> DEFINE b == at(k)
                 x == nums[k]
                 s2 == Step(s, k)
      <4>3. b \in Nat /\ x \in Nat /\ FitsIn(x, size) /\ \A p \in b .. b + size - 1 : p \in s2 <=> BitOf(x, b + size - 1 - p) = 1
        BY <2>3, <2>4, <4>1
      <4> HIDE DEF b, x, s2
      <4>4. BlockGet(s2, b, size) = x
        BY <4>3, BlockSetGet
      <4>2. BlockGet(Step(s, k), at(k), size) = nums[k]
        BY <4>4 DEF b, x, s2
      <4> QED BY <3>1, <4>2
    <3>2. CASE i # k
      <4>1. i \in 1 .. k - 1 /\ i - 1 \in Nat /\ i - 1 < k - 1
        BY <2>1, <3>2
      <4>2. (i - 1) * size \in Nat /\ (i - 1) * size + size <= (k - 1) * size
        BY <2>1, <4>1, BlockOrder
      <4>3. at(i) \in Nat /\ at(i) + size <= at(k)
        <5> DEFINE a == (i - 1) * size
                   c == (k - 1) * size
        <5>1. a \in Nat /\ c \in Nat /\ a + size <= c /\ at(i) = begin + a /\ at(k) = begin + c
          BY <2>2, <4>2
        <5> HIDE DEF a, c, at
        <5> QED BY <5>1
      <4>4. BlockGet(s, at(i), size) = nums[i]
        BY <2>1, <4>1
      <4> HIDE DEF at
      <4>5. BlockGet(BlockSet(s, at(k), size, nums[k]), at(i), size) = BlockGet(s, at(i), size)
        BY <2>3, <2>4, <4>3, BlockApart
      <4> QED BY <4>4, <4>5 DEF at
    <3> QED BY <3>1, <3>2
  <2>8. ASSUME NEW p, p \notin begin .. begin + k * size - 1
        PROVE  p \in Step(s, k) <=> p \in ones
    <3>1. p \notin at(k) .. at(k) + size - 1 /\ p \notin begin .. begin + (k - 1) * size - 1
      <4> DEFINE a == (k - 1) * size
                 c == k * size
      <4>1. /\ a \in Nat /\ c \in Nat /\ c = a + size /\ at(k) = begin + a
            /\ p \notin begin .. begin + c - 1
        BY <2>2, <2>8
      <4> HIDE DEF a, c, at
      <4>2. p \notin at(k) .. at(k) + size - 1 /\ p \notin begin .. begin + a - 1
        BY <4>1
      <4> QED BY <4>2 DEF a
    <3>2. p \in s <=> p \in ones
      BY <2>1, <3>1
    <3> HIDE DEF Step, at
    <3> QED BY <2>5, <3>1, <3>2
  <2>9. Good(Step(s, k), k)
    <3> HIDE DEF Step, at
    <3> QED BY <2>7, <2>8
  <2> HIDE DEF Step, Good
  <2> QED BY <2>1, <2>6, <2>9
<1>9. BlocksSet(ones, begin, size, nums) = (CHOOSE f : Rec(f))[n]
  BY DEF BlocksSet
<1> HIDE DEF T, Step
<1> DEFINE F0 == [k \in 1 .. n |-> [s \in T[k - 1] |-> Step(s, k)]]
<1>4. \A k \in 1 .. n : \A s \in T[k - 1] : F0[k][s] = Step(s, k)
  OBVIOUS
<1>5. \A k \in 1 .. n : \A s \in T[k - 1] : F0[k][s] \in T[k]
  BY <1>3, <1>4
<1> HIDE DEF F0, n
<1>6. PICK h : IsRun(h, n, T, F0, ones)
  BY <1>1, <1>2, <1>5, LoopRuns
<1>7. Rec(h)
  <2>1. ASSUME NEW k \in 0 .. n
        PROVE  h[k] = IF k = 0 THEN ones ELSE Step(h[k - 1], k)
    <3>1. CASE k = 0
      BY <3>1, <1>6 DEF IsRun
    <3>2. CASE k # 0
      <4>1. k \in 1 .. n /\ k - 1 \in 0 .. n
        BY <1>1, <3>2
      <4> QED BY <4>1, <1>4, <1>6, <3>2 DEF IsRun
    <3> QED BY <3>1, <3>2
  <2> QED BY <1>6, <2>1 DEF IsRun
<1> DEFINE g == CHOOSE f : Rec(f)
<1>8. Rec(g)
  <2> HIDE DEF Rec
  <2> QED BY <1>7
<1>10. BlocksSet(ones, begin, size, nums) = g[n]
  BY <1>9
<1> HIDE DEF g
<1>11. \A k \in 0 .. n : g[k] \in T[k]
  <2>1. g[0] \in T[0]
    BY <1>1, <1>2, <1>8
  <2>2. ASSUME NEW k \in 1 .. n, g[k - 1] \in T[k - 1]
        PROVE  g[k] \in T[k]
    <3>1. g[k] = Step(g[k - 1], k)
      BY <1>1, <1>8
    <3> QED BY <1>3, <2>2, <3>1
  <2> QED BY <1>1, <2>1, <2>2, LoopInvariant
<1>12. BlocksSet(ones, begin, size, nums) \in T[n]
  BY <1>1, <1>10, <1>11
<1> DEFINE W == BlocksSet(ones, begin, size, nums)
<1>13. Good(W, n)
  <2> HIDE DEF Good, W
  <2> QED BY <1>1, <1>12 DEF T, W
<1> QED BY <1>13 DEF n, Holds

(* The entries are in ascending order. *)
SortedList(L) == \A i, j \in 1 .. Len(L) : i <= j => L[i] <= L[j]

(* The right answer about w. *)
RightAnswer(L, w) == IF Names(L, w) THEN Neighbor ELSE NonNeighbor

(* What the searches find where the blocks hold a list in ascending order and  *)
(* nothing behind it; the one that looks at every block needs no order.        *)
LEMMA BlockFindFacts ==
  ASSUME NEW S, NEW begin \in Nat, NEW size \in Nat, NEW num \in Nat, NEW w \in Nat, w > 0,
         NEW L \in Seq(Nat), Len(L) <= num, Holds(S, begin, size, L), ZeroFrom(S, begin, size, Len(L), num)
  PROVE  /\ BlockFindSIMD(S, begin, size, num, w) = RightAnswer(L, w)
         /\ SortedList(L) => BlockFind(S, begin, size, num, w) = RightAnswer(L, w)
<1> DEFINE block(i) == BlockGet(S, begin + i * size, size)
           A == {i \in 0 .. num - 1 : block(i) >= w}
<1>1. Len(L) \in Nat /\ \A i \in 1 .. Len(L) : L[i] \in Nat
  OBVIOUS
<1>2. \A i \in 0 .. num - 1 : block(i) = IF i < Len(L) THEN L[i + 1] ELSE 0
  <2> SUFFICES ASSUME NEW i \in 0 .. num - 1
               PROVE  block(i) = IF i < Len(L) THEN L[i + 1] ELSE 0
    OBVIOUS
  <2>1. CASE i < Len(L)
    <3>1. i + 1 \in 1 .. Len(L) /\ (i + 1) - 1 = i
      BY <1>1, <2>1
    <3> QED BY <2>1, <3>1 DEF Holds
  <2>2. CASE ~ (i < Len(L))
    <3>1. i \in Len(L) .. num - 1
      BY <1>1, <2>2
    <3> QED BY <2>2, <3>1 DEF ZeroFrom
  <2> QED BY <2>1, <2>2
<1>10. /\ BlockFindSIMD(S, begin, size, num, w) = IF \E i \in 0 .. num - 1 : block(i) = w THEN Neighbor ELSE NonNeighbor
       /\ BlockFind(S, begin, size, num, w) = IF A # {} /\ block(Min(A)) = w THEN Neighbor ELSE NonNeighbor
  BY DEF BlockFind, BlockFindSIMD
<1> HIDE DEF block
<1>3. \A i \in 0 .. num - 1 : i < Len(L) => i + 1 \in 1 .. Len(L)
  BY <1>1
<1>4. ASSUME NEW i \in 0 .. num - 1, block(i) = w
      PROVE  Names(L, w)
  <2>1. i < Len(L) /\ L[i + 1] = w
    BY <1>2, <1>4
  <2> QED BY <1>3, <2>1 DEF Names
<1>5. ASSUME Names(L, w)
      PROVE  \E i \in 0 .. num - 1 : i + 1 \in 1 .. Len(L) /\ L[i + 1] = w /\ block(i) = w
  <2>1. PICK j \in 1 .. Len(L) : L[j] = w
    BY <1>5 DEF Names
  <2>2. j - 1 \in 0 .. num - 1 /\ j - 1 < Len(L) /\ (j - 1) + 1 = j
    BY <1>1
  <2> QED BY <1>2, <2>1, <2>2
<1>6. (\E i \in 0 .. num - 1 : block(i) = w) <=> Names(L, w)
  BY <1>4, <1>5
<1>7. ASSUME SortedList(L)
      PROVE  (A # {} /\ block(Min(A)) = w) <=> Names(L, w)
  <2>1. A \in SUBSET Int /\ A \in SUBSET Nat
    OBVIOUS
  <2>2. A # {} => Min(A) \in A /\ \A y \in A : Min(A) <= y
    <3> SUFFICES ASSUME A # {} PROVE Min(A) \in A /\ \A y \in A : Min(A) <= y
      OBVIOUS
    <3>1. \E x \in A : \A y \in A : x <= y
      BY <2>1, LeastNat
    <3> HIDE DEF A
    <3> QED BY <2>1, <3>1, MinFacts
  <2>3. A # {} /\ block(Min(A)) = w => Names(L, w)
    BY <1>4, <2>2
  <2>4. ASSUME Names(L, w)
        PROVE  A # {} /\ block(Min(A)) = w
    <3>1. PICK i \in 0 .. num - 1 : i + 1 \in 1 .. Len(L) /\ L[i + 1] = w /\ block(i) = w
      BY <1>5, <2>4
    <3>2. i \in A
      BY <3>1
    <3> DEFINE m == Min(A)
    <3>3. m \in 0 .. num - 1 /\ m <= i /\ block(m) >= w
      BY <2>2, <3>2
    <3> HIDE DEF m, A
    <3>4. m < Len(L) /\ m + 1 \in 1 .. Len(L) /\ m + 1 <= i + 1
      BY <1>1, <3>1, <3>3
    <3>5. L[m + 1] <= L[i + 1] /\ block(m) = L[m + 1] /\ L[m + 1] \in Nat
      BY <1>1, <1>2, <1>7, <3>1, <3>3, <3>4 DEF SortedList
    <3>6. block(m) = w
      BY <3>1, <3>3, <3>5
    <3> QED BY <3>2, <3>6 DEF m
  <2> QED BY <2>3, <2>4
<1> HIDE DEF A
<1>8. BlockFindSIMD(S, begin, size, num, w) = RightAnswer(L, w)
  BY <1>6, <1>10 DEF RightAnswer
<1>9. SortedList(L) => BlockFind(S, begin, size, num, w) = RightAnswer(L, w)
  BY <1>7, <1>10 DEF RightAnswer
<1> QED BY <1>8, <1>9

-----------------------------------------------------------------------------
(* Kept is the last state of its loop. *)
LEMMA KeptLoop ==
  ASSUME NEW A, NEW list \in Seq(A), NEW F
  PROVE  \E g : /\ g[0] = <<>> /\ Kept(list, F) = g[Len(list)]
                /\ \A k \in 1 .. Len(list) :
                     g[k] = IF list[k] \in F THEN g[k - 1] ELSE Append(g[k - 1], list[k])
<1> DEFINE n == Len(list)
           Step(s, k) == IF list[k] \in F THEN s ELSE Append(s, list[k])
           Rec(g) == g = [k \in 0 .. n |-> IF k = 0 THEN <<>> ELSE Step(g[k - 1], k)]
           T == [k \in 0 .. n |-> Seq(A)]
           F0 == [k \in 1 .. n |-> [s \in T[k - 1] |-> Step(s, k)]]
<1>1. n \in Nat /\ <<>> \in T[0] /\ \A k \in 0 .. n : T[k] = Seq(A)
  OBVIOUS
<1>2. ASSUME NEW k \in 1 .. n, NEW s \in Seq(A)
      PROVE  Step(s, k) \in Seq(A)
  <2>1. list[k] \in A
    OBVIOUS
  <2> QED BY <2>1
<1> HIDE DEF T, Step
<1>3. \A k \in 1 .. n : \A s \in T[k - 1] : F0[k][s] = Step(s, k)
  OBVIOUS
<1>4. \A k \in 1 .. n : \A s \in T[k - 1] : F0[k][s] \in T[k]
  <2>1. \A k \in 1 .. n : T[k - 1] = Seq(A) /\ T[k] = Seq(A)
    BY <1>1
  <2> HIDE DEF F0
  <2> QED BY <1>2, <1>3, <2>1
<1> HIDE DEF F0, n
<1>5. PICK h : IsRun(h, n, T, F0, <<>>)
  BY <1>1, <1>4, LoopRuns
<1>6. Rec(h)
  <2>1. ASSUME NEW k \in 0 .. n
        PROVE  h[k] = IF k = 0 THEN <<>> ELSE Step(h[k - 1], k)
    <3>1. CASE k = 0
      BY <3>1, <1>5 DEF IsRun
    <3>2. CASE k # 0
      <4>1. k \in 1 .. n /\ k - 1 \in 0 .. n
        BY <1>1, <3>2
      <4> QED BY <4>1, <1>3, <1>5, <3>2 DEF IsRun
    <3> QED BY <3>1, <3>2
  <2> QED BY <1>5, <2>1 DEF IsRun
<1> DEFINE g == CHOOSE f : Rec(f)
<1>7. Rec(g)
  <2> HIDE DEF Rec
  <2> QED BY <1>6
<1>8. Kept(list, F) = g[n]
  BY DEF Kept, Step, n
<1> HIDE DEF g
<1>9. g[0] = <<>> /\ \A k \in 1 .. n : g[k] = Step(g[k - 1], k)
  BY <1>1, <1>7
<1> QED BY <1>8, <1>9 DEF Step, n

(* What is left of a sorted list is sorted. *)
LEMMA KeptSorted ==
  ASSUME NEW A \in SUBSET Int, NEW list \in Seq(A), SortedList(list), NEW F
  PROVE  SortedList(Kept(list, F))
<1> DEFINE n == Len(list)
           Low(s, k) == \A i \in 1 .. Len(s) : \A j \in k + 1 .. n : s[i] <= list[j]
           T == [k \in 0 .. n |-> {s \in Seq(A) : SortedList(s) /\ Low(s, k)}]
<1>0. \A x \in A : x \in Int
  OBVIOUS
<1>1. n \in Nat /\ \A i \in 1 .. n : list[i] \in A /\ list[i] \in Int
  <2>1. n \in Nat /\ \A i \in 1 .. n : list[i] \in A
    OBVIOUS
  <2> QED BY <1>0, <2>1
<1>2. PICK g : /\ g[0] = <<>> /\ Kept(list, F) = g[n]
               /\ \A k \in 1 .. n : g[k] = IF list[k] \in F THEN g[k - 1] ELSE Append(g[k - 1], list[k])
  BY KeptLoop
<1> HIDE DEF n
<1>3. g[0] \in T[0]
  <2>1. SortedList(<<>>) /\ Low(<<>>, 0) /\ <<>> \in Seq(A)
    BY DEF SortedList
  <2> QED BY <1>1, <1>2, <2>1
<1>4. ASSUME NEW k \in 1 .. n, g[k - 1] \in T[k - 1]
      PROVE  g[k] \in T[k]
  <2> DEFINE s == g[k - 1]
             t == Append(s, list[k])
  <2>1. k - 1 \in 0 .. n /\ k \in 0 .. n
    BY <1>1
  <2>2. s \in Seq(A) /\ SortedList(s) /\ Low(s, k - 1)
    BY <1>4, <2>1
  <2> HIDE DEF s
  <2>3. Len(s) \in Nat /\ \A i \in 1 .. Len(s) : s[i] \in Int
    <3>1. Len(s) \in Nat /\ \A i \in 1 .. Len(s) : s[i] \in A
      BY <2>2
    <3> QED BY <1>0, <3>1
  <2>4. ASSUME NEW i \in 1 .. Len(s), NEW j \in k .. n
        PROVE  s[i] <= list[j]
    <3>1. j \in (k - 1) + 1 .. n
      BY <1>1
    <3> QED BY <2>2, <3>1
  <2>5. Low(s, k)
    BY <1>1, <2>4
  <2>6. /\ t \in Seq(A) /\ Len(t) = Len(s) + 1 /\ t[Len(s) + 1] = list[k]
        /\ \A i \in 1 .. Len(s) : t[i] = s[i]
    BY <1>1, <2>2
  <2> HIDE DEF t
  <2>7. SortedList(t)
    <3> SUFFICES ASSUME NEW i \in 1 .. Len(t), NEW j \in 1 .. Len(t), i <= j
                 PROVE  t[i] <= t[j]
      BY DEF SortedList
    <3>1. CASE j \in 1 .. Len(s)
      <4>1. i \in 1 .. Len(s)
        BY <2>3, <3>1
      <4>2. s[i] <= s[j]
        BY <2>2, <3>1, <4>1 DEF SortedList
      <4> QED BY <2>6, <3>1, <4>1, <4>2
    <3>2. CASE j = Len(s) + 1 /\ i \in 1 .. Len(s)
      <4>1. k \in k .. n
        BY <1>1
      <4> QED BY <2>4, <2>6, <3>2, <4>1
    <3>3. CASE j = Len(s) + 1 /\ i = Len(s) + 1
      BY <1>1, <2>6, <3>3
    <3> QED BY <2>3, <2>6, <3>1, <3>2, <3>3
  <2>8. Low(t, k)
    <3> SUFFICES ASSUME NEW i \in 1 .. Len(t), NEW j \in k + 1 .. n
                 PROVE  t[i] <= list[j]
      OBVIOUS
    <3>1. CASE i \in 1 .. Len(s)
      BY <2>5, <2>6, <3>1
    <3>2. CASE i = Len(s) + 1
      <4>1. j \in 1 .. Len(list) /\ k \in 1 .. Len(list) /\ k <= j
        BY <1>1 DEF n
      <4>2. list[k] <= list[j]
        BY <4>1 DEF SortedList
      <4> QED BY <2>6, <3>2, <4>2
    <3> QED BY <2>3, <2>6, <3>1, <3>2
  <2> HIDE DEF Low
  <2>9. s \in T[k] /\ t \in T[k]
    BY <2>1, <2>2, <2>5, <2>6, <2>7, <2>8
  <2> QED BY <1>2, <2>9 DEF s, t
<1> HIDE DEF T
<1>5. \A k \in 0 .. n : g[k] \in T[k]
  BY <1>1, <1>3, <1>4, LoopInvariant
<1>6. g[n] \in T[n]
  BY <1>1, <1>5
<1> QED BY <1>1, <1>2, <1>6 DEF T

(* A list in order stays so when it is extended by an entry that is not        *)
(* smaller than its last.                                                      *)
LEMMA AppendSorted ==
  ASSUME NEW A \in SUBSET Int, NEW l \in Seq(A), SortedList(l), NEW w \in A,
         l # <<>> => l[Len(l)] <= w
  PROVE  Append(l, w) \in Seq(A) /\ SortedList(Append(l, w))
<1> DEFINE m == Append(l, w)
           n == Len(l)
<1>1. /\ m \in Seq(A) /\ Len(m) = n + 1 /\ n \in Nat
      /\ \A i \in 1 .. n : m[i] = l[i]
      /\ m[n + 1] = w
  OBVIOUS
<1>2. \A x \in A : x \in Int
  OBVIOUS
<1>3. \A i \in 1 .. n : l[i] <= w
  <2> SUFFICES ASSUME NEW i \in 1 .. n
               PROVE  l[i] <= w
    OBVIOUS
  <2>1. l # <<>> /\ n \in 1 .. n /\ i <= n
    OBVIOUS
  <2>2. l[i] <= l[n] /\ l[n] <= w
    BY <2>1 DEF SortedList
  <2>3. l[i] \in A /\ l[n] \in A
    BY <2>1
  <2>4. l[i] \in Int /\ l[n] \in Int /\ w \in Int
    BY <1>2, <2>3
  <2> QED BY <2>2, <2>4
<1>4. SortedList(m)
  <2> HIDE DEF m, n
  <2> SUFFICES ASSUME NEW i \in 1 .. n + 1, NEW j \in 1 .. n + 1, i <= j
               PROVE  m[i] <= m[j]
    BY <1>1 DEF SortedList
  <2>1. CASE j = n + 1 /\ i = n + 1
    BY <1>1, <1>2, <2>1
  <2>2. CASE j = n + 1 /\ i # n + 1
    <3>1. i \in 1 .. n
      BY <1>1, <2>2
    <3> QED BY <1>1, <1>3, <2>2, <3>1
  <2>3. CASE j # n + 1
    <3>1. i \in 1 .. n /\ j \in 1 .. n
      BY <1>1, <2>3
    <3>2. l[i] <= l[j]
      BY <3>1 DEF SortedList, n
    <3> QED BY <1>1, <3>1, <3>2
  <2> QED BY <2>1, <2>2, <2>3
<1> QED BY <1>1, <1>4

(* A list read backwards names the same entries. *)
LEMMA ReadBackwards ==
  ASSUME NEW A, NEW l \in Seq(A)
  PROVE  LET r == [i \in 1 .. Len(l) |-> l[(Len(l) - i) + 1]]
         IN  r \in Seq(A) /\ Len(r) = Len(l) /\ \A w : Names(r, w) <=> Names(l, w)
<1> DEFINE r == [i \in 1 .. Len(l) |-> l[(Len(l) - i) + 1]]
<1>1. Len(l) \in Nat /\ \A i \in 1 .. Len(l) : l[i] \in A /\ (Len(l) - i) + 1 \in 1 .. Len(l)
  OBVIOUS
<1>2. /\ r \in Seq(A) /\ Len(r) = Len(l)
      /\ \A i \in 1 .. Len(l) : r[i] = l[(Len(l) - i) + 1]
  BY <1>1
<1> HIDE DEF r
<1>3. ASSUME NEW w, Names(l, w)
      PROVE  Names(r, w)
  <2>1. PICK i \in 1 .. Len(l) : l[i] = w
    BY <1>3 DEF Names
  <2>2. (Len(l) - ((Len(l) - i) + 1)) + 1 = i
    BY <1>1
  <2> QED BY <1>1, <1>2, <2>1, <2>2 DEF Names
<1>4. ASSUME NEW w, Names(r, w)
      PROVE  Names(l, w)
  BY <1>1, <1>2, <1>4 DEF Names
<1> QED BY <1>2, <1>3, <1>4 DEF r
=============================================================================
