---------------------------- MODULE EncoderProofs ----------------------------
(* What EncodeVertex of RangeEncode and of HybridEncode stores answers rightly *)
(* for every list of neighbours, and about every pair that two codes cover.    *)
EXTENDS Encoders, DataTheorems

Vertex == 1 .. V

(* EncodeVertex has room for the two bounds of a window. *)
HasRoom == V \in Nat /\ MaxInt \in Nat /\ MaxInt >= 2

(* Sorting a list of vertices. *)
LEMMA SortedNames ==
  ASSUME V \in Nat, NEW list \in Seq(Vertex)
  PROVE  /\ Sorted(list) \in Seq(Vertex)
         /\ Len(Sorted(list)) = Len(list)
         /\ \A i, j \in 1 .. Len(list) : i <= j => Sorted(list)[i] <= Sorted(list)[j]
         /\ \A w : Names(Sorted(list), w) <=> Names(list, w)
<1>1. Vertex \in SUBSET Int
  BY DEF Vertex
<1>2. /\ Sorted(list) \in Seq(Vertex)
      /\ Len(Sorted(list)) = Len(list)
      /\ \A i, j \in 1 .. Len(list) : i <= j => Sorted(list)[i] <= Sorted(list)[j]
      /\ \A e : Times(Sorted(list), e) = Times(list, e)
  BY <1>1, SortedFacts
<1>3. ASSUME NEW l \in Seq(Vertex), NEW w
      PROVE  Names(l, w) <=> Times(l, w) > 0
  BY TimesNat DEF Names
<1> QED BY <1>2, <1>3

(* The entries of a window. *)
LEMMA WindowEntries ==
  ASSUME HasRoom, NEW list \in Seq(Vertex), Len(list) > MaxInt, NEW s \in 0 .. Len(list) - MaxInt + 2,
         NEW i \in 1 .. MaxInt
  PROVE  /\ s + i - 1 \in 0 .. Len(list) + 1
         /\ Window(list, s)[i] = IF s + i - 1 = 0 THEN 0
                                    ELSE IF s + i - 1 > Len(list) THEN V + 1 ELSE list[s + i - 1]
         /\ Window(list, s)[i] \in 0 .. V + 1
<1>1. Len(list) \in Nat /\ \A k \in 1 .. Len(list) : list[k] \in 1 .. V
  <2>1. Len(list) \in Nat /\ \A k \in 1 .. Len(list) : list[k] \in Vertex
    OBVIOUS
  <2> QED BY <2>1 DEF Vertex
<1>2. s + i - 1 \in 0 .. Len(list) + 1
  BY <1>1 DEF HasRoom
<1>3. Window(list, s)[i] = IF s + i - 1 = 0 THEN 0
                              ELSE IF s + i - 1 > Len(list) THEN V + 1 ELSE list[s + i - 1]
  BY DEF Window, Slots, Upper
<1>4. s + i - 1 # 0 /\ ~ (s + i - 1 > Len(list)) => list[s + i - 1] \in 1 .. V
  <2>1. s + i - 1 # 0 /\ ~ (s + i - 1 > Len(list)) => s + i - 1 \in 1 .. Len(list)
    BY <1>1, <1>2
  <2> QED BY <1>1, <2>1
<1> QED BY <1>2, <1>3, <1>4 DEF HasRoom

(* A window of the largest span exists, and BestStart is one. *)
LEMMA BestStartFacts ==
  ASSUME HasRoom, NEW list \in Seq(Vertex), Len(list) > MaxInt
  PROVE  /\ BestStart(list) \in 0 .. Len(list) - MaxInt + 2
         /\ \A t \in 0 .. Len(list) - MaxInt + 2 : Span(list, t) <= Span(list, BestStart(list))
<1> DEFINE n == Len(list) - MaxInt + 2
           f == [t \in 0 .. n |-> Span(list, t) + V + 1]
           Best == {s \in 0 .. n : \A t \in 0 .. n : Span(list, t) <= Span(list, s)}
<1>1. n \in Nat
  BY DEF HasRoom
<1>2. \A t \in 0 .. n : Span(list, t) \in Int /\ f[t] \in Nat /\ f[t] = Span(list, t) + V + 1
  <2> SUFFICES ASSUME NEW t \in 0 .. n
               PROVE  Span(list, t) \in Int /\ Span(list, t) + V + 1 \in Nat
    BY DEF f
  <2>1. 1 \in 1 .. MaxInt /\ MaxInt \in 1 .. MaxInt
    BY DEF HasRoom
  <2>2. Window(list, t)[1] \in 0 .. V + 1 /\ Window(list, t)[MaxInt] \in 0 .. V + 1
    BY <2>1, WindowEntries
  <2> QED BY <2>2 DEF Span, HasRoom
<1> HIDE DEF n, f
<1>3. PICK s \in 0 .. n : \A t \in 0 .. n : f[t] <= f[s]
  BY <1>1, <1>2, GreatestValue, Zenon
<1>4. \A t \in 0 .. n : Span(list, t) <= Span(list, s)
  <2> SUFFICES ASSUME NEW t \in 0 .. n
               PROVE  Span(list, t) <= Span(list, s)
    OBVIOUS
  <2>1. f[t] <= f[s]
    BY <1>3
  <2> QED BY <1>2, <2>1 DEF HasRoom
<1>5. Best \in SUBSET Nat /\ s \in Best
  BY <1>1, <1>4
<1>6. BestStart(list) = Min(Best)
  BY DEF BestStart, n
<1> HIDE DEF Best
<1>7. Min(Best) \in Best
  BY <1>5, MinFacts
<1> QED BY <1>6, <1>7 DEF Best, n

(* What NonNeighborTest answers about w, for a list that is stored in full and *)
(* for one that is not.                                                        *)
LEMMA RangeTest ==
  ASSUME HasRoom, NEW list \in Seq(Vertex), NEW x, NEW w \in Vertex
  PROVE  LET answer == NonNeighborTest(EncodeVertex(x, list), w)
             told   == IF Names(list, w) THEN Neighbor ELSE NonNeighbor
         IN  /\ Len(list) <= MaxInt => answer = told
             /\ Len(list) > MaxInt => answer = told \/ answer = Uncertain
<1> DEFINE l == Sorted(list)
           c == EncodeVertex(x, list)
<1>1. /\ l \in Seq(Vertex) /\ Len(l) = Len(list) /\ Len(l) \in Nat
      /\ \A i, j \in 1 .. Len(l) : i <= j => l[i] <= l[j]
      /\ Names(l, w) <=> Names(list, w)
  BY SortedNames DEF HasRoom
<1>2. w \in Nat /\ w # 0 /\ w # V + 1
  BY DEF Vertex, HasRoom
<1>3. \A k \in 1 .. Len(l) : l[k] \in Nat
  <2>1. \A v \in Vertex : v \in Nat
    BY DEF Vertex
  <2> HIDE DEF l
  <2> QED BY <1>1, <2>1
<1>4. CASE Len(list) <= MaxInt
  <2>1. c = [flag |-> TRUE, slot |-> [i \in 1 .. MaxInt |-> IF i <= Len(l) THEN l[i] ELSE 0]]
    <3> HIDE DEF l
    <3> QED BY <1>1, <1>4 DEF EncodeVertex, l, Slots
  <2>2. (\E i \in 1 .. MaxInt : c.slot[i] = w) <=> Names(l, w)
    <3>1. \A i \in 1 .. MaxInt : c.slot[i] = IF i <= Len(l) THEN l[i] ELSE 0
      BY <2>1
    <3>2. \A k \in 1 .. Len(l) : k \in 1 .. MaxInt /\ k <= Len(l)
      BY <1>1, <1>4 DEF HasRoom
    <3>3. \A i \in 1 .. MaxInt : i <= Len(l) => i \in 1 .. Len(l)
      BY <1>1 DEF HasRoom
    <3> HIDE DEF l, c
    <3> QED BY <1>2, <3>1, <3>2, <3>3 DEF Names
  <2>3. c.flag = TRUE
    BY <2>1
  <2> HIDE DEF l, c
  <2>4. NonNeighborTest(c, w) = IF Names(l, w) THEN Neighbor ELSE NonNeighbor
    BY <2>2, <2>3 DEF NonNeighborTest, Slots, Neighbor, NonNeighbor, Uncertain
  <2>5. ~ (Len(list) > MaxInt)
    BY <1>1, <1>4 DEF HasRoom
  <2> QED BY <1>1, <2>4, <2>5 DEF c
<1>5. CASE Len(list) > MaxInt
  <2> DEFINE s == BestStart(l)
  <2>1. s \in 0 .. Len(l) - MaxInt + 2
    <3> HIDE DEF l
    <3> QED BY <1>1, <1>5, BestStartFacts
  <2>2. c = [flag |-> FALSE, slot |-> Window(l, s)]
    <3>1. ~ (Len(l) <= MaxInt)
      BY <1>1, <1>5 DEF HasRoom
    <3> HIDE DEF l
    <3> QED BY <3>1 DEF EncodeVertex, l
  <2> HIDE DEF l, s
  <2>3. \A i \in 1 .. MaxInt :
          /\ s + i - 1 \in 0 .. Len(l) + 1
          /\ c.slot[i] = IF s + i - 1 = 0 THEN 0 ELSE IF s + i - 1 > Len(l) THEN V + 1 ELSE l[s + i - 1]
          /\ c.slot[i] \in 0 .. V + 1
    BY <1>1, <1>5, <2>1, <2>2, WindowEntries
  <2>4. c.flag = FALSE
    BY <2>2
  <2> HIDE DEF c
  <2>5. ASSUME NEW i \in 1 .. MaxInt, c.slot[i] = w
        PROVE  Names(l, w)
    <3>1. s + i - 1 # 0 /\ ~ (s + i - 1 > Len(l)) /\ l[s + i - 1] = w
      BY <1>2, <2>3, <2>5
    <3>2. s + i - 1 \in 1 .. Len(l)
      BY <1>1, <2>3, <3>1
    <3> QED BY <3>1, <3>2 DEF Names
  <2>6. ASSUME Names(l, w), ~ \E i \in 1 .. MaxInt : c.slot[i] = w
        PROVE  ~ (c.slot[1] < w /\ w < c.slot[MaxInt])
    <3>1. PICK j \in 1 .. Len(l) : l[j] = w
      BY <2>6 DEF Names
    <3>2. 1 \in 1 .. MaxInt /\ MaxInt \in 1 .. MaxInt
      BY DEF HasRoom
    <3>3. CASE j < s
      <4>1. s \in 1 .. Len(l) /\ j <= s /\ s + 1 - 1 = s /\ s # 0 /\ ~ (s > Len(l))
        BY <1>1, <1>5, <2>1, <3>3 DEF HasRoom
      <4>2. c.slot[1] = l[s]
        BY <2>3, <3>2, <4>1
      <4>3. l[j] <= l[s] /\ l[s] \in Nat
        BY <1>1, <1>3, <4>1
      <4> QED BY <1>2, <3>1, <4>2, <4>3
    <3>4. CASE j > s + MaxInt - 1
      <4> DEFINE e == s + MaxInt - 1
      <4>1. e \in 1 .. Len(l) /\ j >= e /\ e # 0 /\ ~ (e > Len(l))
        BY <1>1, <1>5, <2>1, <3>4 DEF HasRoom
      <4>2. c.slot[MaxInt] = l[e]
        BY <2>3, <3>2, <4>1
      <4>3. l[e] <= l[j] /\ l[e] \in Nat
        BY <1>1, <1>3, <4>1
      <4> QED BY <1>2, <3>1, <4>2, <4>3
    <3>5. CASE ~ (j < s) /\ ~ (j > s + MaxInt - 1)
      <4>1. j - s + 1 \in 1 .. MaxInt /\ s + (j - s + 1) - 1 = j /\ j # 0 /\ ~ (j > Len(l))
        BY <1>1, <2>1, <3>5 DEF HasRoom
      <4>2. c.slot[j - s + 1] = l[j]
        BY <2>3, <4>1
      <4> QED BY <2>6, <3>1, <4>1, <4>2
    <3> QED BY <3>3, <3>4, <3>5
  <2>7. \/ NonNeighborTest(c, w) = IF Names(l, w) THEN Neighbor ELSE NonNeighbor
        \/ NonNeighborTest(c, w) = Uncertain
    BY <2>4, <2>5, <2>6 DEF NonNeighborTest, Slots, Neighbor, NonNeighbor, Uncertain
  <2>8. ~ (Len(list) <= MaxInt)
    BY <1>1, <1>5 DEF HasRoom
  <2> QED BY <1>1, <2>7, <2>8 DEF c
<1>6. Len(list) <= MaxInt \/ Len(list) > MaxInt
  BY <1>1 DEF HasRoom
<1> QED BY <1>4, <1>5, <1>6
-----------------------------------------------------------------------------
(* The codes of RangeEncode for the two ends of a pair.  The definitions are   *)
(* those of module RangeVendBuildProofs for this encoder.                      *)
RangeHolds(codes, u, L) == L \in Seq(Vertex) /\ codes[u] = EncodeVertex(BlankCode, L)

(* Either list names the other end, in a code that answers for all its list,   *)
(* or both do.                                                                 *)
Covers(codes, u, v, L, M) ==
  /\ RangeHolds(codes, u, L) /\ RangeHolds(codes, v, M)
  /\ \/ Names(L, v) /\ Names(M, u)
     \/ Names(L, v) /\ Len(L) <= MaxInt
     \/ Names(M, u) /\ Len(M) <= MaxInt

CoversAll(codes, E) ==
  /\ codes = [v \in 0 .. V |-> codes[v]]
  /\ \A u, v \in Vertex : u # v /\ {u, v} \in E => \E L, M : Covers(codes, u, v, L, M)

ListsName(lists, E) ==
  /\ \A v \in Vertex : lists[v] \in Seq(Vertex)
  /\ \A u, v \in Vertex : u # v /\ {u, v} \in E => Names(lists[u], v)

(* The answers about a pair of which either end has a list. *)
LEMMA HeldAnswers ==
  ASSUME HasRoom, NEW codes, NEW L, NEW u, NEW w \in Vertex, RangeHolds(codes, u, L)
  PROVE  LET answer == NonNeighborTest(codes[u], w)
         IN  /\ answer = Neighbor \/ answer = NonNeighbor \/ answer = Uncertain
             /\ answer = Neighbor => Names(L, w)
             /\ answer = NonNeighbor => ~ Names(L, w)
             /\ Len(L) <= MaxInt => answer # Uncertain
<1>1. L \in Seq(Vertex) /\ codes[u] = EncodeVertex(BlankCode, L)
  BY DEF RangeHolds
<1> DEFINE answer == NonNeighborTest(EncodeVertex(BlankCode, L), w)
           told   == IF Names(L, w) THEN Neighbor ELSE NonNeighbor
<1>2. /\ Len(L) <= MaxInt => answer = told
      /\ Len(L) > MaxInt => answer = told \/ answer = Uncertain
  BY <1>1, RangeTest
<1>3. Len(L) \in Nat /\ MaxInt \in Nat
  BY <1>1 DEF HasRoom
<1>4. Len(L) <= MaxInt \/ Len(L) > MaxInt
  BY <1>3
<1> HIDE DEF answer
<1>5. /\ answer = Neighbor \/ answer = NonNeighbor \/ answer = Uncertain
      /\ answer = Neighbor => Names(L, w)
      /\ answer = NonNeighbor => ~ Names(L, w)
      /\ Len(L) <= MaxInt => answer # Uncertain
  BY <1>2, <1>4 DEF Neighbor, NonNeighbor, Uncertain
<1> QED BY <1>1, <1>5 DEF answer

(* The pair test of RangeEncode denies no pair that its codes cover. *)
LEMMA RangeKeepsEdges ==
  ASSUME HasRoom
  PROVE  \A codes, L, M : \A u, v \in Vertex :
           u # v /\ Covers(codes, u, v, L, M) => NonNeighbor # NEpairTest(codes, u, v)
<1> SUFFICES ASSUME NEW codes, NEW L, NEW M, NEW u \in Vertex, NEW v \in Vertex, u # v,
                    Covers(codes, u, v, L, M)
             PROVE  NonNeighbor # NEpairTest(codes, u, v)
  OBVIOUS
<1> DEFINE a == NonNeighborTest(codes[u], v)
           b == NonNeighborTest(codes[v], u)
<1>1. RangeHolds(codes, u, L) /\ RangeHolds(codes, v, M)
  BY DEF Covers
<1>2. \/ Names(L, v) /\ Names(M, u)
      \/ Names(L, v) /\ Len(L) <= MaxInt
      \/ Names(M, u) /\ Len(M) <= MaxInt
  BY DEF Covers
<1>3. /\ a = Neighbor \/ a = NonNeighbor \/ a = Uncertain
      /\ a = NonNeighbor => ~ Names(L, v)
      /\ Len(L) <= MaxInt => a # Uncertain
  BY <1>1, HeldAnswers
<1>4. /\ b = Neighbor \/ b = NonNeighbor \/ b = Uncertain
      /\ b = NonNeighbor => ~ Names(M, u)
      /\ Len(M) <= MaxInt => b # Uncertain
  BY <1>1, HeldAnswers
<1>5. NEpairTest(codes, u, v) = MinType(a, b)
  BY DEF NEpairTest
<1> HIDE DEF a, b
<1>6. MinType(a, b) # NonNeighbor
  BY <1>2, <1>3, <1>4 DEF MinType, Neighbor, NonNeighbor, Uncertain
<1> QED BY <1>5, <1>6

(* It affirms no pair that neither list names. *)
LEMMA RangeAddsNone ==
  ASSUME HasRoom
  PROVE  \A codes, L, M : \A u, v \in Vertex :
           u # v /\ RangeHolds(codes, u, L) /\ RangeHolds(codes, v, M) /\ Neighbor = NEpairTest(codes, u, v)
             => Names(L, v) \/ Names(M, u)
<1> SUFFICES ASSUME NEW codes, NEW L, NEW M, NEW u \in Vertex, NEW v \in Vertex, u # v,
                    RangeHolds(codes, u, L), RangeHolds(codes, v, M), Neighbor = NEpairTest(codes, u, v)
             PROVE  Names(L, v) \/ Names(M, u)
  OBVIOUS
<1> DEFINE a == NonNeighborTest(codes[u], v)
           b == NonNeighborTest(codes[v], u)
<1>1. a = Neighbor => Names(L, v)
  BY HeldAnswers
<1>2. b = Neighbor => Names(M, u)
  BY HeldAnswers
<1>3. MinType(a, b) = Neighbor
  BY DEF NEpairTest
<1> HIDE DEF a, b
<1> QED BY <1>1, <1>2, <1>3 DEF MinType

(* A list that is stored in full is read back, whatever was stored. *)
LEMMA StoredList ==
  ASSUME HasRoom, NEW L \in Seq(Vertex), NEW c, c = EncodeVertex(BlankCode, L)
  PROVE  /\ c.flag => Len(L) <= MaxInt
         /\ ~ c.flag => Len(L) > MaxInt
         /\ c.flag /\ GetEncodeType(c) # Full =>
              \A n \in GetBlockInt(c) :
                n \in Seq(Vertex) /\ Len(n) <= MaxInt /\ \A w : Names(n, w) <=> Names(L, w)
<1> DEFINE l == Sorted(L)
<1>1. /\ l \in Seq(Vertex) /\ Len(l) = Len(L) /\ Len(l) \in Nat
      /\ \A w : Names(l, w) <=> Names(L, w)
  BY SortedNames DEF HasRoom
<1>2. ~ (Len(l) <= MaxInt) => c.flag = FALSE
  <2> HIDE DEF l
  <2> QED BY DEF EncodeVertex, l
<1>3. Len(l) <= MaxInt => c = [flag |-> TRUE, slot |-> [i \in 1 .. MaxInt |-> IF i <= Len(l) THEN l[i] ELSE 0]]
  <2> HIDE DEF l
  <2> QED BY DEF EncodeVertex, l, Slots
<1> HIDE DEF l
<1>4. Len(l) <= MaxInt \/ Len(l) > MaxInt
  BY <1>1 DEF HasRoom
<1>5. ASSUME Len(l) <= MaxInt, GetEncodeType(c) # Full, NEW n \in GetBlockInt(c)
      PROVE  n \in Seq(Vertex) /\ Len(n) <= MaxInt /\ \A w : Names(n, w) <=> Names(L, w)
  <2> DEFINE s == [i \in 1 .. MaxInt |-> IF i <= Len(l) THEN l[i] ELSE 0]
  <2>1. n = Kept([i \in Slots |-> c.slot[i]], {0})
    BY <1>5 DEF GetBlockInt
  <2>2. [i \in Slots |-> c.slot[i]] = s
    <3>1. c.slot = s
      BY <1>3, <1>5
    <3>2. \A i \in 1 .. MaxInt : c.slot[i] = s[i]
      BY <3>1
    <3> QED BY <3>2 DEF Slots
  <2>3. \A i \in 1 .. Len(l) : l[i] \in 1 .. V
    <3>1. \A i \in 1 .. Len(l) : l[i] \in Vertex
      BY <1>1
    <3> QED BY <3>1 DEF Vertex
  <2>4. s \in Seq(0 .. V) /\ Len(s) = MaxInt
    <3>1. \A i \in 1 .. MaxInt : i <= Len(l) => i \in 1 .. Len(l)
      BY <1>1 DEF HasRoom
    <3>2. \A i \in 1 .. MaxInt : (IF i <= Len(l) THEN l[i] ELSE 0) \in 0 .. V
      BY <2>3, <3>1 DEF HasRoom
    <3> QED BY <3>2 DEF HasRoom
  <2>5. ASSUME NEW w, w # 0
        PROVE  Names(s, w) <=> Names(l, w)
    <3>1. \A i \in 1 .. MaxInt : s[i] = w <=> (i <= Len(l) /\ l[i] = w)
      BY <2>5
    <3>2. \A i \in 1 .. Len(l) : i \in 1 .. MaxInt /\ i <= Len(l)
      BY <1>1, <1>5 DEF HasRoom
    <3>3. \A i \in 1 .. MaxInt : i <= Len(l) => i \in 1 .. Len(l)
      BY <1>1 DEF HasRoom
    <3> HIDE DEF s
    <3> QED BY <2>4, <3>1, <3>2, <3>3 DEF Names
  <2> HIDE DEF s
  <2>6. /\ n \in Seq(0 .. V)
        /\ Len(n) = OutsideUpTo(s, {0}, MaxInt)
        /\ \A e : Times(n, e) = IF e \in {0} THEN 0 ELSE Times(s, e)
    <3>1. n = Kept(s, {0})
      BY <2>1, <2>2
    <3>2. /\ Kept(s, {0}) \in Seq(0 .. V)
          /\ Len(Kept(s, {0})) = OutsideUpTo(s, {0}, Len(s))
          /\ \A e : Times(Kept(s, {0}), e) = IF e \in {0} THEN 0 ELSE Times(s, e)
      BY <2>4, KeptFacts
    <3> QED BY <2>4, <3>1, <3>2
  <2>7. Len(n) <= MaxInt
    <3> DEFINE I == {i \in 1 .. MaxInt : s[i] \notin {0}}
    <3>1. {i \in 1 .. MaxInt : s[i] \notin {0}} = {i \in 1 .. MaxInt : i \in I}
      OBVIOUS
    <3> HIDE DEF I
    <3>2. Cardinality({i \in 1 .. MaxInt : i \in I}) \in 0 .. MaxInt
      BY CountUpTo, Zenon DEF HasRoom
    <3>3. OutsideUpTo(s, {0}, MaxInt) \in 0 .. MaxInt
      BY <3>1, <3>2, Zenon DEF OutsideUpTo
    <3> QED BY <2>6, <3>3 DEF HasRoom
  <2>8. \A w : Names(n, w) <=> Times(n, w) > 0
    BY <2>6, TimesNat DEF Names
  <2>9. \A w : Names(s, w) <=> Times(s, w) > 0
    BY <2>4, TimesNat DEF Names
  <2>10. ~ Names(n, 0)
    BY <2>6, <2>8
  <2>11. \A w : w # 0 => (Names(n, w) <=> Names(s, w))
    BY <2>6, <2>8, <2>9
  <2>12. ~ Names(l, 0)
    BY <2>3 DEF Names
  <2>13. \A w : Names(n, w) <=> Names(L, w)
    BY <1>1, <2>5, <2>10, <2>11, <2>12
  <2>14. \A k \in 1 .. Len(n) : n[k] \in Vertex
    <3>1. \A k \in 1 .. Len(n) : n[k] \in 0 .. V /\ n[k] # 0
      <4>1. \A k \in 1 .. Len(n) : n[k] \in 0 .. V
        <5> DEFINE A == 0 .. V
        <5>1. n \in Seq(A)
          BY <2>6
        <5> HIDE DEF A
        <5>2. \A k \in 1 .. Len(n) : n[k] \in A
          BY <5>1
        <5> QED BY <5>2 DEF A
      <4>2. \A k \in 1 .. Len(n) : n[k] # 0
        BY <2>10 DEF Names
      <4> QED BY <4>1, <4>2
    <3> QED BY <3>1 DEF Vertex, HasRoom
  <2> QED BY <2>6, <2>7, <2>13, <2>14, ListOver
<1>6. Len(l) <= MaxInt => c.flag = TRUE
  BY <1>3
<1>7. ~ (Len(l) <= MaxInt /\ Len(l) > MaxInt)
  BY <1>1 DEF HasRoom
<1> QED BY <1>1, <1>2, <1>4, <1>5, <1>6, <1>7

(* There is a code for every vertex. *)
AreCodes(codes) == codes = [w \in 0 .. V |-> codes[w]]

(* r is what RemoveIfStored may leave without undefined behaviour. *)
Removal(r, codes, lists, a, b) == r \in RemoveIfStored(codes, lists, a, b) /\ r.defined

(* The list that codes[a] was read from, without b, is encoded as c. *)
EncodedAgain(c, codes, lists, a, b) ==
  /\ GetEncodeType(codes[a]) # Full
  /\ \E n \in GetAllNeighbors(codes, lists, a) :
       b \in Range(n) /\ c = EncodeVertex(codes[a], WithoutFirst(n, b))

(* What RemoveNeighbor changes, when it runs at all. *)
LEMMA RemoveShape ==
  ASSUME HasRoom, NEW codes, AreCodes(codes), NEW lists, NEW a \in Vertex, NEW b,
         NEW r, Removal(r, codes, lists, a, b)
  PROVE  /\ AreCodes(r.code)
         /\ \A w \in Vertex \ {a} : r.code[w] = codes[w]
         /\ r.code[a] = codes[a] \/ EncodedAgain(r.code[a], codes, lists, a, b)
<1>1. DOMAIN codes = 0 .. V /\ \A w \in Vertex : w \in 0 .. V
  BY DEF Vertex, HasRoom, AreCodes
<1>2. CASE NonNeighborTest(codes[a], b) = NonNeighbor
  <2>1. r = [code |-> codes, defined |-> TRUE]
    BY <1>2 DEF RemoveIfStored, Removal
  <2>2. r.code = codes
    BY <2>1
  <2> QED BY <2>2
<1>3. CASE NonNeighborTest(codes[a], b) # NonNeighbor
  <2>1. r \in RemoveNeighbor(codes, lists, a, b)
    BY <1>3 DEF RemoveIfStored, Removal
  <2>2. PICK n \in GetAllNeighbors(codes, lists, a) :
          r = Result(codes, a, IF b \in Range(n) THEN EncodeVertex(codes[a], WithoutFirst(n, b)) ELSE codes[a],
                     GetEncodeType(codes[a]) # Full)
    BY <2>1 DEF RemoveNeighbor
  <2> DEFINE new == IF b \in Range(n) THEN EncodeVertex(codes[a], WithoutFirst(n, b)) ELSE codes[a]
  <2>3. r.code = [w \in 0 .. V |-> IF w = a THEN new ELSE codes[w]] /\ r.defined = (GetEncodeType(codes[a]) # Full)
    <3> HIDE DEF new
    <3> QED BY <1>1, <2>2 DEF Result, new
  <2>4. r.code[a] = new /\ \A w \in Vertex \ {a} : r.code[w] = codes[w]
    <3> HIDE DEF new
    <3> QED BY <1>1, <2>3
  <2>5. AreCodes(r.code)
    <3> HIDE DEF new
    <3> QED BY <2>3 DEF AreCodes
  <2>6. r.code[a] = codes[a] \/ EncodedAgain(r.code[a], codes, lists, a, b)
    BY <2>2, <2>3, <2>4, Zenon DEF EncodedAgain, Removal
  <2> QED BY <2>4, <2>5, <2>6
<1> QED BY <1>2, <1>3

(* What it leaves of the list of a: a list stored in full keeps all but b, one *)
(* that is not is read again from the database.                                *)
LEMMA RemoveKeepsList ==
  ASSUME HasRoom, NEW codes, AreCodes(codes), NEW lists, NEW a \in Vertex, NEW b,
         NEW r, Removal(r, codes, lists, a, b),
         NEW L, RangeHolds(codes, a, L), lists[a] \in Seq(Vertex)
  PROVE  \E K : /\ RangeHolds(r.code, a, K)
                /\ \A w : w # b /\ Names(L, w) /\ Names(lists[a], w) => Names(K, w)
                /\ Len(L) <= MaxInt => Len(K) <= MaxInt
<1>1. L \in Seq(Vertex) /\ codes[a] = EncodeVertex(BlankCode, L)
  BY DEF RangeHolds
<1>2. CASE r.code[a] = codes[a]
  BY <1>1, <1>2 DEF RangeHolds
<1>3. CASE EncodedAgain(r.code[a], codes, lists, a, b)
  <2>1. PICK n \in GetAllNeighbors(codes, lists, a) :
          b \in Range(n) /\ r.code[a] = EncodeVertex(codes[a], WithoutFirst(n, b))
    BY <1>3 DEF EncodedAgain
  <2>2. /\ n \in Seq(Vertex)
        /\ \A w : Names(L, w) /\ Names(lists[a], w) => Names(n, w)
        /\ Len(L) <= MaxInt => Len(n) <= MaxInt
    <3>1. CASE codes[a].flag
      <4>1. n \in GetBlockInt(codes[a])
        BY <2>1, <3>1 DEF GetAllNeighbors
      <4>2. n \in Seq(Vertex) /\ Len(n) <= MaxInt /\ \A w : Names(n, w) <=> Names(L, w)
        BY <1>1, <1>3, <3>1, <4>1, StoredList DEF EncodedAgain
      <4> QED BY <4>2
    <3>2. CASE ~ codes[a].flag
      <4>1. n = lists[a]
        BY <2>1, <3>2 DEF GetAllNeighbors
      <4>2. Len(L) > MaxInt
        BY <1>1, <3>2, StoredList
      <4>3. ~ (Len(L) <= MaxInt)
        BY <1>1, <4>2 DEF HasRoom
      <4> QED BY <4>1, <4>3
    <3> QED BY <3>1, <3>2
  <2>3. Names(n, b)
    <3>1. DOMAIN n = 1 .. Len(n)
      BY <2>2
    <3> QED BY <2>1, <3>1 DEF Range, Names
  <2> DEFINE K == WithoutFirst(n, b)
  <2>4. /\ K \in Seq(Vertex) /\ Len(K) = Len(n) - 1
        /\ \A w : w # b /\ Names(n, w) => Names(K, w)
    BY <2>2, <2>3, WithoutFirstFacts
  <2>5. EncodeVertex(codes[a], K) = EncodeVertex(BlankCode, K)
    BY DEF EncodeVertex
  <2> HIDE DEF K
  <2>6. RangeHolds(r.code, a, K)
    BY <2>1, <2>4, <2>5 DEF RangeHolds, K
  <2>7. Len(n) <= MaxInt => Len(K) <= MaxInt
    BY <2>2, <2>4 DEF HasRoom
  <2> QED BY <2>2, <2>4, <2>6, <2>7
<1> QED BY <1>2, <1>3, RemoveShape

(* Removing b from the list of a leaves all other pairs told of. *)
LEMMA RemoveKeepsOthers ==
  ASSUME HasRoom, NEW codes, NEW lists, NEW E, CoversAll(codes, E), ListsName(lists, E),
         NEW a \in Vertex, NEW b, NEW r, Removal(r, codes, lists, a, b)
  PROVE  CoversAll(r.code, E \ {{a, b}})
<1>1. AreCodes(codes)
  BY DEF CoversAll, AreCodes
<1>2. AreCodes(r.code) /\ \A w \in Vertex \ {a} : r.code[w] = codes[w]
  BY <1>1, RemoveShape
<1>3. \A w, M : w \in Vertex \ {a} /\ RangeHolds(codes, w, M) => RangeHolds(r.code, w, M)
  BY <1>2 DEF RangeHolds
<1>4. lists[a] \in Seq(Vertex)
  BY DEF ListsName
<1>5. ASSUME NEW v \in Vertex, a # v, v # b, {a, v} \in E
      PROVE  \E K, M : Covers(r.code, a, v, K, M)
  <2>1. PICK L, M : Covers(codes, a, v, L, M)
    BY <1>5 DEF CoversAll
  <2>2. Names(lists[a], v)
    BY <1>5 DEF ListsName
  <2>3. RangeHolds(codes, a, L) /\ RangeHolds(r.code, v, M)
    BY <1>3, <1>5, <2>1 DEF Covers
  <2>4. PICK K : /\ RangeHolds(r.code, a, K)
                 /\ \A w : w # b /\ Names(L, w) /\ Names(lists[a], w) => Names(K, w)
                 /\ Len(L) <= MaxInt => Len(K) <= MaxInt
    BY <1>1, <1>4, <2>3, RemoveKeepsList
  <2>5. Names(L, v) => Names(K, v)
    BY <1>5, <2>2, <2>4
  <2>6. \/ Names(L, v) /\ Names(M, a)
        \/ Names(L, v) /\ Len(L) <= MaxInt
        \/ Names(M, a) /\ Len(M) <= MaxInt
    BY <2>1 DEF Covers
  <2>7. Covers(r.code, a, v, K, M)
    BY <2>3, <2>4, <2>5, <2>6 DEF Covers
  <2> QED BY <2>7
<1>6. \A K, M, v : Covers(r.code, a, v, K, M) => Covers(r.code, v, a, M, K)
  BY DEF Covers
<1>7. ASSUME NEW u \in Vertex, NEW v \in Vertex, u # v, {u, v} \in E \ {{a, b}}
      PROVE  \E L, M : Covers(r.code, u, v, L, M)
  <2>1. CASE u = a
    BY <1>5, <1>7, <2>1
  <2>2. CASE v = a
    <3>1. {v, u} = {u, v}
      OBVIOUS
    <3>2. \E K, M : Covers(r.code, a, u, K, M)
      BY <1>5, <1>7, <2>2, <3>1
    <3> QED BY <1>6, <2>2, <3>2
  <2>3. CASE u # a /\ v # a
    <3>1. PICK L, M : Covers(codes, u, v, L, M)
      BY <1>7 DEF CoversAll
    <3>2. Covers(r.code, u, v, L, M)
      BY <1>3, <2>3, <3>1 DEF Covers
    <3> QED BY <3>2
  <2> QED BY <2>1, <2>2, <2>3
<1> QED BY <1>2, <1>7 DEF CoversAll, AreCodes

(* DeletePair of RangeEncode leaves all other pairs told of. *)
LEMMA RangeKeepsOthers ==
  ASSUME HasRoom
  PROVE  \A codes, lists, E : \A u, v \in Vertex :
           u # v /\ CoversAll(codes, E) /\ ListsName(lists, E)
             => \A r \in DeletePair(codes, lists, u, v) :
                  r.defined => CoversAll(r.code, E \ {{u, v}})
<1> SUFFICES ASSUME NEW codes, NEW lists, NEW E, NEW u \in Vertex, NEW v \in Vertex, u # v,
                    CoversAll(codes, E), ListsName(lists, E),
                    NEW r \in DeletePair(codes, lists, u, v), r.defined
             PROVE  CoversAll(r.code, E \ {{u, v}})
  BY Zenon
<1>1. PICK r1 \in RemoveIfStored(codes, lists, u, v) :
        \E x \in RemoveIfStored(r1.code, lists, v, u) : r = [x EXCEPT !.defined = @ /\ r1.defined]
  BY DEF DeletePair
<1>2. PICK r2 \in RemoveIfStored(r1.code, lists, v, u) : r = [r2 EXCEPT !.defined = @ /\ r1.defined]
  BY <1>1
<1>3. r.code = r2.code /\ (r.defined <=> r2.defined /\ r1.defined)
  <2>1. PICK c, d : r2 = [code |-> c, defined |-> d]
    BY <1>2 DEF RemoveIfStored, RemoveNeighbor, Result
  <2> QED BY <1>2, <2>1, Zenon
<1>4. CoversAll(r1.code, E \ {{u, v}})
  BY <1>1, <1>3, RemoveKeepsOthers, Zenon DEF Removal
<1>5. ListsName(lists, E \ {{u, v}})
  BY DEF ListsName
<1>6. CoversAll(r2.code, (E \ {{u, v}}) \ {{v, u}})
  BY <1>2, <1>3, <1>4, <1>5, RemoveKeepsOthers, Zenon DEF Removal
<1>7. (E \ {{u, v}}) \ {{v, u}} = E \ {{u, v}}
  OBVIOUS
<1> QED BY <1>3, <1>6, <1>7, Zenon
-----------------------------------------------------------------------------
(* The bit operations of HybridEncode are those of BitBlocks. *)
LEMMA SameBits ==
  /\ \A c, b, n : H!BlockGet(c, b, n) = BlockGet(c, b, n)
  /\ \A c, b, n, x : H!BlockSet(c, b, n, x) = BlockSet(c, b, n, x)
  /\ \A c, b, n, l : H!BlocksSet(c, b, n, l) = BlocksSet(c, b, n, l)
  /\ \A c, b, n, m, w : H!BlockFind(c, b, n, m, w) = BlockFind(c, b, n, m, w)
  /\ \A x, n : H!FitsIn(x, n) <=> FitsIn(x, n)
  /\ \A n : H!CeilLog2(n) = CeilLog2(n)
  /\ H!Neighbor = Neighbor /\ H!NonNeighbor = NonNeighbor /\ H!Uncertain = Uncertain
<1>1. \A x, n : H!Shifted(x, n) = Shifted(x, n)
  BY DEF H!Shifted, Shifted
<1>2. \A x, i : H!BitOf(x, i) = BitOf(x, i)
  BY <1>1 DEF H!BitOf, BitOf
<1>3. \A c, b, n, x : H!BlockSet(c, b, n, x) = BlockSet(c, b, n, x)
  BY <1>2 DEF H!BlockSet, BlockSet
<1>4. \A c, b, n, l : H!BlocksSet(c, b, n, l) = BlocksSet(c, b, n, l)
  BY DEF H!BlocksSet, BlocksSet, H!BlockSet, BlockSet, H!BitOf, BitOf, H!Shifted, Shifted
<1>5. \A c, b, n : H!BlockGet(c, b, n) = BlockGet(c, b, n)
  BY DEF H!BlockGet, BlockGet
<1>6. \A x, n : H!FitsIn(x, n) <=> FitsIn(x, n)
  BY <1>1 DEF H!FitsIn, FitsIn
<1>7. \A n : H!CeilLog2(n) = CeilLog2(n)
  BY <1>6 DEF H!CeilLog2, CeilLog2
<1>8. H!Neighbor = Neighbor /\ H!NonNeighbor = NonNeighbor /\ H!Uncertain = Uncertain
  BY DEF H!Neighbor, Neighbor, H!NonNeighbor, NonNeighbor, H!Uncertain, Uncertain
<1>9. \A S : H!Min(S) = Min(S)
  BY DEF H!Min, Min
<1>10. \A c, b, n, m, w : H!BlockFind(c, b, n, m, w) = BlockFind(c, b, n, m, w)
  BY <1>5, <1>8, <1>9 DEF H!BlockFind, BlockFind
<1> QED BY <1>3, <1>4, <1>5, <1>6, <1>7, <1>8, <1>10

(* Rounding down. *)
LEMMA Divided ==
  ASSUME NEW a \in Int, NEW b \in Nat, b > 0
  PROVE  /\ a \div b \in Int
         /\ (a \div b) * b <= a
         /\ a < (a \div b) * b + b
         /\ \A c \in Int : a <= c => a \div b <= c \div b
  OBVIOUS

(* The fields of a code of HybridEncode have room for what is put there. *)
LEMMA HybridSizes ==
  ASSUME H!HasRoom, H!IdsFit
  PROVE  /\ V \in Nat /\ V > 1 /\ HybridBits \in Nat /\ HybridWord \in Nat /\ HybridWord > 4 * V
         /\ H!VBits \in Nat /\ H!VBits > 0 /\ H!LogK \in Nat
         /\ H!MaxKCoreSize \in Nat /\ 1 + H!MaxKCoreSize * H!VBits <= HybridBits
         /\ H!MaxIntegerSize \in Nat /\ H!MaxIntegerSize > 0 /\ H!MaxIntegerSize <= H!MaxKCoreSize
         /\ 3 + H!LogK + H!MaxIntegerSize * H!VBits <= HybridBits
         /\ \A x \in 0 .. V : FitsIn(x, H!VBits)
         /\ \A n \in 0 .. H!MaxKCoreSize : FitsIn(n, H!LogK)
<1>1. /\ V \in Nat /\ V > 1 /\ HybridBits \in Nat /\ HybridWord \in Nat /\ HybridWord > 4 * V
      /\ HybridBits > 0 /\ H!MaxIntegerSize > 0
  BY DEF H!HasRoom
<1>2. H!VBits \in Nat /\ H!VBits > 0
  BY <1>1, CeilLog2Facts, SameBits DEF H!VBits
<1>3. ASSUME NEW x \in 0 .. V
      PROVE  FitsIn(x, H!VBits)
  <2>1. FitsIn(V, H!VBits) /\ x \in Nat /\ x <= V
    BY <1>1, SameBits DEF H!IdsFit
  <2> QED BY <1>1, <1>2, <2>1, ShiftedFacts
<1> DEFINE b == H!VBits
           k == H!MaxKCoreSize
           m == H!MaxIntegerSize
<1>4. k \in Int /\ k * b <= HybridBits - 1
  BY <1>1, <1>2, Divided DEF H!MaxKCoreSize
<1>5. k \in Nat
  <2>1. HybridBits - 1 \in Int /\ k = (HybridBits - 1) \div b
    BY <1>1 DEF H!MaxKCoreSize
  <2>2. 0 \div b <= (HybridBits - 1) \div b
    BY <1>1, <1>2, Divided
  <2>3. 0 \div b = 0
    BY <1>2
  <2> QED BY <1>4, <2>1, <2>2, <2>3
<1>6. H!LogK \in Nat /\ \A n \in 0 .. k : FitsIn(n, H!LogK)
  <2>1. H!LogK = CeilLog2(k + 1)
    BY SameBits DEF H!LogK
  <2>2. k + 1 \in Nat /\ k + 1 > 0 /\ \A n \in 0 .. k : n \in Nat /\ n < k + 1
    BY <1>5
  <2> HIDE DEF k
  <2> QED BY <2>1, <2>2, CeilLog2Facts
<1>7. m \in Int /\ m * b <= HybridBits - 3 - H!LogK
  BY <1>1, <1>2, <1>6, Divided DEF H!MaxIntegerSize
<1>8. m <= k
  <2>1. HybridBits - 3 - H!LogK \in Int /\ HybridBits - 1 \in Int /\ HybridBits - 3 - H!LogK <= HybridBits - 1
    BY <1>1, <1>6
  <2>2. (HybridBits - 3 - H!LogK) \div b <= (HybridBits - 1) \div b
    BY <1>2, <2>1, Divided
  <2> QED BY <2>2 DEF H!MaxKCoreSize, H!MaxIntegerSize
<1>9. /\ 1 + k * b <= HybridBits
      /\ 3 + H!LogK + m * b <= HybridBits
  <2> DEFINE kb == k * b
             mb == m * b
  <2>1. kb \in Int /\ mb \in Int
    BY <1>2, <1>4, <1>7
  <2>2. kb <= HybridBits - 1 /\ mb <= HybridBits - 3 - H!LogK
    BY <1>4, <1>7
  <2> HIDE DEF kb, mb
  <2>3. 1 + kb <= HybridBits /\ 3 + H!LogK + mb <= HybridBits
    BY <1>1, <1>6, <2>1, <2>2
  <2> QED BY <2>3 DEF kb, mb
<1>10. m \in Nat
  BY <1>1, <1>7
<1> QED BY <1>1, <1>2, <1>3, <1>5, <1>6, <1>8, <1>9, <1>10

(* What the proofs assume of the sizes of HybridEncode. *)
HybridRoom == H!HasRoom /\ H!IdsFit

(* A list of vertices is one of numbers that fit in their slots. *)
LEMMA IdsInSlots ==
  ASSUME HybridRoom, NEW l \in Seq(Vertex)
  PROVE  /\ l \in Seq(Nat) /\ Len(l) \in Nat /\ AllFit(l, H!VBits)
         /\ \A i \in 1 .. Len(l) : l[i] \in 1 .. V /\ FitsIn(l[i], H!VBits)
<1>1. Len(l) \in Nat /\ \A i \in 1 .. Len(l) : l[i] \in Vertex
  OBVIOUS
<1>2. \A x \in Vertex : x \in Nat /\ x \in 0 .. V /\ x \in 1 .. V
  BY HybridSizes DEF Vertex, HybridRoom
<1>3. l \in Seq(Nat)
  BY <1>1, <1>2, ListOver
<1> QED BY <1>1, <1>2, <1>3, HybridSizes, Zenon DEF HybridRoom, AllFit

(* A list that is short enough is stored from bit 1 on, and nothing behind it. *)
LEMMA HybridStored ==
  ASSUME HybridRoom, NEW l \in Seq(Vertex), Len(l) <= H!MaxKCoreSize,
         NEW c, c = H!EncodeVertex({}, l)
  PROVE  /\ 0 \in c /\ c \in SUBSET (0 .. HybridBits - 1)
         /\ Holds(c, 1, H!VBits, l) /\ ZeroFrom(c, 1, H!VBits, Len(l), H!MaxKCoreSize)
<1> DEFINE b == H!VBits
           k == H!MaxKCoreSize
           n == Len(l)
<1>1. /\ b \in Nat /\ b > 0 /\ k \in Nat /\ 1 + k * b <= HybridBits /\ HybridBits \in Nat
  BY HybridSizes DEF HybridRoom
<1>2. n \in Nat /\ AllFit(l, b)
  BY IdsInSlots
<1>3. c = BlocksSet({0}, 1, b, l)
  BY SameBits DEF H!EncodeVertex, H!PutList
<1>4. n * b \in Nat /\ k * b \in Nat /\ n * b <= k * b
  <2>1. CASE n = k
    <3>1. k * b \in Nat
      BY <1>1
    <3> QED BY <2>1, <3>1
  <2>2. CASE n # k
    <3>1. n < k
      BY <1>1, <1>2, <2>2
    <3> HIDE DEF n, k, b
    <3>2. n * b \in Nat /\ k * b \in Nat /\ n * b + b <= k * b
      BY <1>1, <1>2, <3>1, BlockOrder
    <3> QED BY <1>1, <3>2
  <2> QED BY <2>1, <2>2
<1> HIDE DEF b, k
<1>5. /\ Holds(c, 1, b, l)
      /\ \A p : p \notin 1 .. 1 + n * b - 1 => (p \in c <=> p \in {0})
  BY <1>1, <1>2, <1>3, BlocksSetFacts
<1> DEFINE nb == n * b
           kb == k * b
<1>6. 0 \in c
  BY <1>5
<1>7. c \in SUBSET (0 .. HybridBits - 1)
  <2> SUFFICES ASSUME NEW p \in c
               PROVE  p \in 0 .. HybridBits - 1
    OBVIOUS
  <2>1. p \in 1 .. 1 + nb - 1 \/ p = 0
    BY <1>5
  <2>2. nb \in Nat /\ kb \in Nat /\ nb <= kb /\ 1 + kb <= HybridBits
    BY <1>1, <1>4
  <2> HIDE DEF nb, kb
  <2> QED BY <1>1, <2>1, <2>2
<1>8. ASSUME NEW i \in n .. k - 1
      PROVE  BlockGet(c, 1 + i * b, b) = 0
  <2> DEFINE ib == i * b
  <2>1. i \in Nat /\ ib \in Nat /\ nb <= ib
    <3>1. CASE i = n
      BY <1>2, <1>4, <3>1
    <3>2. CASE i # n
      <4>1. n < i /\ i \in Nat
        BY <1>1, <1>2, <3>2
      <4> HIDE DEF n
      <4>2. ib \in Nat /\ nb + b <= ib
        BY <1>1, <1>2, <4>1, BlockOrder
      <4>3. nb \in Nat
        BY <1>4
      <4> HIDE DEF nb, ib
      <4> QED BY <1>1, <4>1, <4>2, <4>3
    <3> QED BY <3>1, <3>2
  <2>2. nb \in Nat
    BY <1>4
  <2>3. ASSUME NEW p \in 1 + ib .. 1 + ib + b - 1
        PROVE  p \notin c
    <3>1. \A q : q \notin 1 .. 1 + nb - 1 => (q \in c <=> q \in {0})
      BY <1>5
    <3> HIDE DEF ib, nb
    <3>2. p \notin 1 .. 1 + nb - 1 /\ p # 0
      BY <1>1, <2>1, <2>2
    <3> QED BY <3>1, <3>2
  <2>4. 1 + ib \in Nat
    BY <2>1
  <2> HIDE DEF ib
  <2>5. BlockGet(c, 1 + ib, b) = 0
    <3>1. b \in Nat
      BY <1>1
    <3> DEFINE x == 1 + ib
    <3>2. x \in Nat /\ \A p \in x .. x + b - 1 : p \notin c
      BY ONLY <2>3, <2>4, Zenon
    <3> HIDE DEF x
    <3>3. BlockGet(c, x, b) = 0
      BY ONLY <3>1, <3>2, BlockOfZeros
    <3> QED BY ONLY <3>3, Zenon DEF x
  <2> QED BY <2>5 DEF ib
<1> QED BY <1>5, <1>6, <1>7, <1>8 DEF b, k, ZeroFrom

(* The code of a list that is stored in full. *)
LEMMA HybridFullTest ==
  ASSUME HybridRoom, NEW l \in Seq(Vertex), SortedList(l), Len(l) <= H!MaxKCoreSize,
         NEW c, c = H!EncodeVertex({}, l), NEW w \in Vertex
  PROVE  /\ H!IsDecodable(c)
         /\ H!NonNeighborTest(c, w) = RightAnswer(l, w)
         /\ BlockFindSIMD(c, 1, H!VBits, H!MaxKCoreSize, w) = RightAnswer(l, w)
<1>1. 0 \in c
  BY HybridStored
<1>2. Holds(c, 1, H!VBits, l) /\ ZeroFrom(c, 1, H!VBits, Len(l), H!MaxKCoreSize)
  BY HybridStored
<1>3. H!VBits \in Nat /\ H!MaxKCoreSize \in Nat /\ w \in Nat /\ w > 0 /\ l \in Seq(Nat)
  BY HybridSizes, IdsInSlots DEF HybridRoom, Vertex
<1>4. /\ BlockFindSIMD(c, 1, H!VBits, H!MaxKCoreSize, w) = RightAnswer(l, w)
      /\ BlockFind(c, 1, H!VBits, H!MaxKCoreSize, w) = RightAnswer(l, w)
  BY <1>2, <1>3, BlockFindFacts
<1> QED BY <1>1, <1>4, SameBits DEF H!NonNeighborTest, H!IsDecodable

(* The bits of the header of a code that is not decodable. *)
LEMMA HybridHeader ==
  ASSUME HybridRoom, NEW type \in {H!FullHash, H!LeftMost, H!RightMost, H!Middle},
         NEW n \in 0 .. H!MaxIntegerSize, NEW h,
         h = BlockSet(BlockSet({}, 1, 2, H!ModelBits(type)), 3, H!LogK, n)
  PROVE  /\ h \in SUBSET (1 .. 3 + H!LogK - 1)
         /\ 1 \in h <=> type = H!RightMost
         /\ 2 \in h <=> type # H!LeftMost
         /\ BlockGet(h, 3, H!LogK) = n
<1> DEFINE m == H!ModelBits(type)
           g == BlockSet({}, 1, 2, m)
<1>1. /\ H!LogK \in Nat /\ n \in Nat /\ FitsIn(n, H!LogK)
  BY HybridSizes DEF HybridRoom
<1>2. m = CASE type = 2 -> 0 [] type \in {1, 8} -> 1 [] type = 4 -> 3
  BY DEF H!ModelBits, H!LeftMost, H!FullHash, H!Middle, H!RightMost
<1>3. type \in {1, 2, 4, 8}
  BY DEF H!LeftMost, H!FullHash, H!Middle, H!RightMost
<1>4. m \in {0, 1, 3} /\ (m = 3 <=> type = 4) /\ (m = 0 <=> type = 2)
  BY <1>2, <1>3
<1> HIDE DEF m
<1>5. /\ Shifted(m, 0) = m /\ Shifted(m, 1) = m \div 2 /\ Shifted(m, 2) = (m \div 2) \div 2
  <2>1. m \in Nat
    BY <1>4
  <2>2. \A k \in Nat : Shifted(m, k + 1) = Shifted(m, k) \div 2
    BY <2>1, ShiftedNext
  <2>3. Shifted(m, 0) = m
    BY <2>1, ShiftedNext
  <2>4. Shifted(m, 0 + 1) = Shifted(m, 0) \div 2 /\ Shifted(m, 1 + 1) = Shifted(m, 1) \div 2
    BY <2>2
  <2> QED BY <2>3, <2>4
<1>6. m \in Nat /\ FitsIn(m, 2)
  BY <1>4, <1>5 DEF FitsIn
<1>7. BitOf(m, 1) = 1 <=> type = 4
  BY <1>4, <1>5 DEF BitOf
<1>8. BitOf(m, 0) = 1 <=> type # 2
  BY <1>3, <1>4, <1>5 DEF BitOf
<1>9. \A p : p \in g <=> IF p \in 1 .. 1 + 2 - 1 THEN BitOf(m, 1 + 2 - 1 - p) = 1 ELSE p \in {}
  BY <1>6, BlockSetBits
<1>10. \A p : p \in g <=> (p = 1 /\ type = 4) \/ (p = 2 /\ type # 2)
  <2>1. \A p : p \in 1 .. 1 + 2 - 1 <=> p = 1 \/ p = 2
    OBVIOUS
  <2>2. 1 + 2 - 1 - 1 = 1 /\ 1 + 2 - 1 - 2 = 0
    OBVIOUS
  <2> HIDE DEF g
  <2> QED BY <1>7, <1>8, <1>9, <2>1, <2>2
<1> HIDE DEF g
<1>11. h = BlockSet(g, 3, H!LogK, n)
  BY DEF g, m
<1>12. \A p : p \in h <=> IF p \in 3 .. 3 + H!LogK - 1 THEN BitOf(n, 3 + H!LogK - 1 - p) = 1 ELSE p \in g
  BY <1>1, <1>11, BlockSetBits
<1>13. BlockGet(h, 3, H!LogK) = n
  <2>1. \A p \in 3 .. 3 + H!LogK - 1 : p \in h <=> BitOf(n, 3 + H!LogK - 1 - p) = 1
    BY <1>12
  <2> QED BY <1>1, <2>1, BlockSetGet
<1>14. (1 \in h <=> type = 4) /\ (2 \in h <=> type # 2)
  <2>1. 1 \notin 3 .. 3 + H!LogK - 1 /\ 2 \notin 3 .. 3 + H!LogK - 1
    OBVIOUS
  <2> QED BY <1>10, <1>12, <2>1
<1>15. h \in SUBSET (1 .. 3 + H!LogK - 1)
  <2> SUFFICES ASSUME NEW p \in h
               PROVE  p \in 1 .. 3 + H!LogK - 1
    OBVIOUS
  <2>1. p \in 3 .. 3 + H!LogK - 1 \/ p = 1 \/ p = 2
    BY <1>10, <1>12
  <2> QED BY <1>1, <2>1
<1> QED BY <1>13, <1>14, <1>15 DEF H!LeftMost, H!RightMost

(* What is read of a code that is not decodable: its type, the block, and the  *)
(* bits of the neighbours outside the block.                                   *)
LEMMA HybridLayout ==
  ASSUME HybridRoom, NEW type \in {H!FullHash, H!LeftMost, H!RightMost, H!Middle},
         NEW block \in Seq(Vertex), Len(block) <= H!MaxIntegerSize, NEW left \in Seq(Vertex),
         NEW c, c = H!SetNonDecodable(block, left, type),
         NEW hb, hb = H!BlockBegin + Len(block) * H!VBits
  PROVE  /\ ~ H!IsDecodable(c) /\ c \in SUBSET (0 .. HybridBits - 1)
         /\ H!GetBlockNum(c) = Len(block)
         /\ H!GetBlockModel(c) = IF type = H!FullHash THEN H!Middle ELSE type
         /\ Holds(c, H!BlockBegin, H!VBits, block)
         /\ hb \in Nat /\ hb <= HybridBits
         /\ hb # HybridBits => \A i \in 1 .. Len(left) : H!Hash(left[i], hb) \in c
<1> DEFINE b == H!VBits
           n == Len(block)
           h == BlockSet(BlockSet({}, 1, 2, H!ModelBits(type)), 3, H!LogK, n)
           B0 == H!BlockBegin
           P == BlocksSet(h, B0, b, block)
           X == IF hb = HybridBits THEN {} ELSE {H!Hash(left[i], hb) : i \in DOMAIN left}
<1>1. /\ b \in Nat /\ b > 0 /\ H!LogK \in Nat /\ HybridBits \in Nat /\ H!MaxIntegerSize \in Nat
      /\ 3 + H!LogK + H!MaxIntegerSize * b <= HybridBits /\ B0 = 3 + H!LogK
  BY HybridSizes DEF HybridRoom, H!BlockBegin
<1>2. n \in Nat /\ n \in 0 .. H!MaxIntegerSize /\ AllFit(block, b)
  BY <1>1, IdsInSlots
<1>3. c = P \cup X
  BY SameBits DEF H!SetNonDecodable, H!PutList
<1>4. /\ h \in SUBSET (1 .. 3 + H!LogK - 1)
      /\ 1 \in h <=> type = H!RightMost
      /\ 2 \in h <=> type # H!LeftMost
      /\ BlockGet(h, 3, H!LogK) = n
  BY <1>2, HybridHeader
<1> DEFINE nb == n * b
           mb == H!MaxIntegerSize * b
<1>5. nb \in Nat /\ mb \in Nat /\ nb <= mb
  <2>1. CASE n = H!MaxIntegerSize
    <3>1. mb \in Nat
      BY <1>1
    <3> QED BY <2>1, <3>1
  <2>2. CASE n # H!MaxIntegerSize
    <3>1. n < H!MaxIntegerSize
      BY <1>1, <1>2, <2>2
    <3> HIDE DEF n, b
    <3>2. n * b \in Nat /\ mb \in Nat /\ n * b + b <= mb
      BY <1>1, <1>2, <3>1, BlockOrder
    <3> HIDE DEF mb
    <3> QED BY <1>1, <3>2
  <2> QED BY <2>1, <2>2
<1> HIDE DEF h, b, n, B0
<1>6. /\ Holds(P, B0, b, block)
      /\ \A p : p \notin B0 .. B0 + n * b - 1 => (p \in P <=> p \in h)
  <2>1. B0 \in Nat
    BY <1>1
  <2> QED BY <1>1, <1>2, <2>1, BlocksSetFacts DEF n
<1>7. hb \in Nat /\ hb = B0 + nb /\ hb <= HybridBits
  <2>1. hb = B0 + nb /\ 3 + H!LogK + mb <= HybridBits
    BY <1>1 DEF B0, n, b
  <2> HIDE DEF nb, mb
  <2> QED BY <1>1, <1>5, <2>1
<1>8. \A p \in X : p \in hb .. HybridBits - 1
  <2> SUFFICES ASSUME hb # HybridBits, NEW i \in DOMAIN left
               PROVE  H!Hash(left[i], hb) \in hb .. HybridBits - 1
    OBVIOUS
  <2>1. left[i] \in Vertex
    OBVIOUS
  <2>2. left[i] \in Nat /\ HybridBits - hb \in Nat /\ HybridBits - hb > 0
    BY <1>1, <1>7, <2>1 DEF Vertex
  <2> DEFINE d == HybridBits - hb
             r == left[i] % d
  <2>3. d \in Nat /\ d > 0 /\ left[i] \in Nat
    BY <2>2
  <2>4. r \in 0 .. d - 1
    <3> HIDE DEF d
    <3> QED BY <2>3
  <2>5. H!Hash(left[i], hb) = r + hb
    BY DEF H!Hash
  <2> HIDE DEF r
  <2> QED BY <1>1, <1>7, <2>4, <2>5
<1> HIDE DEF P, X
<1>9. \A p : p \in c /\ p < hb => p \in P
  <2> SUFFICES ASSUME NEW p, p \in c, p < hb, p \in X
               PROVE  FALSE
    BY <1>3
  <2> QED BY <1>7, <1>8
<1>10. \A p \in 0 .. hb - 1 : p \in c <=> p \in P
  BY <1>3, <1>7, <1>9
<1>11. \A p \in 0 .. B0 - 1 : p \in c <=> p \in h
  <2> SUFFICES ASSUME NEW p \in 0 .. B0 - 1
               PROVE  p \in c <=> p \in h
    OBVIOUS
  <2>1. p \in 0 .. hb - 1 /\ p \notin B0 .. B0 + nb - 1
    <3>1. nb \in Nat /\ B0 \in Nat
      BY <1>1, <1>5
    <3> HIDE DEF nb
    <3> QED BY <1>7, <3>1
  <2>2. p \in P <=> p \in h
    BY <1>6, <2>1
  <2> QED BY <1>10, <2>1, <2>2
<1>12. ~ H!IsDecodable(c)
  <2>1. 0 \in 0 .. B0 - 1 /\ 0 \notin 1 .. 3 + H!LogK - 1
    BY <1>1
  <2> QED BY <1>4, <1>11, <2>1 DEF H!IsDecodable
<1>13. H!GetBlockNum(c) = n
  <2>1. \A p \in 3 .. 3 + H!LogK - 1 : p \in 0 .. B0 - 1
    BY <1>1
  <2>2. \A p \in 3 .. 3 + H!LogK - 1 : p \in c <=> p \in h
    BY <1>11, <2>1
  <2>3. BlockGet(c, 3, H!LogK) = BlockGet(h, 3, H!LogK)
    BY <1>1, <2>2, BlockSame
  <2> QED BY <1>4, <2>3, SameBits DEF H!GetBlockNum
<1>14. H!GetBlockModel(c) = IF type = H!FullHash THEN H!Middle ELSE type
  <2>1. 1 \in 0 .. B0 - 1 /\ 2 \in 0 .. B0 - 1
    BY <1>1
  <2>2. (1 \in c <=> type = H!RightMost) /\ (2 \in c <=> type # H!LeftMost)
    BY <1>4, <1>11, <2>1
  <2> QED BY <2>2 DEF H!GetBlockModel, H!LeftMost, H!RightMost, H!FullHash, H!Middle
<1>15. Holds(c, B0, b, block)
  <2> SUFFICES ASSUME NEW i \in 1 .. Len(block)
               PROVE  BlockGet(c, B0 + (i - 1) * b, b) = block[i]
    BY DEF Holds
  <2> DEFINE ib == (i - 1) * b
  <2>1. BlockGet(P, B0 + ib, b) = block[i]
    BY <1>6 DEF Holds
  <2>2. ib \in Nat /\ ib + b <= nb
    <3>1. i - 1 \in Nat /\ i - 1 < n
      BY <1>2 DEF n
    <3> QED BY <1>1, <1>2, <3>1, BlockOrder
  <2>3. ASSUME NEW p \in B0 + ib .. B0 + ib + b - 1
        PROVE  p \in c <=> p \in P
    <3>1. nb \in Nat /\ B0 \in Nat
      BY <1>1, <1>5
    <3> HIDE DEF ib, nb
    <3>2. p \in 0 .. hb - 1
      BY <1>1, <1>7, <2>2, <3>1
    <3> QED BY <1>10, <3>2
  <2>4. B0 + ib \in Nat
    BY <1>1, <2>2
  <2> HIDE DEF ib
  <2>5. BlockGet(c, B0 + ib, b) = BlockGet(P, B0 + ib, b)
    BY <1>1, <2>3, <2>4, BlockSame
  <2> QED BY <2>1, <2>5 DEF ib
<1>16. c \in SUBSET (0 .. HybridBits - 1)
  <2> SUFFICES ASSUME NEW p \in c
               PROVE  p \in 0 .. HybridBits - 1
    OBVIOUS
  <2>1. p \in P \/ p \in X
    BY <1>3
  <2>2. p \in P => p \in B0 .. B0 + nb - 1 \/ p \in 1 .. 3 + H!LogK - 1
    BY <1>4, <1>6, Zenon
  <2>3. nb \in Nat
    BY <1>5
  <2> HIDE DEF nb
  <2> QED BY <1>1, <1>7, <1>8, <2>1, <2>2, <2>3
<1>17. ASSUME hb # HybridBits, NEW i \in 1 .. Len(left)
       PROVE  H!Hash(left[i], hb) \in c
  BY <1>3, <1>17 DEF X
<1> QED BY <1>7, <1>12, <1>13, <1>14, <1>15, <1>16, <1>17 DEF b, n, B0

(* The order in which DynamicChoose prefers its candidates: the higher score,  *)
(* then the candidate that is tried first.                                     *)
Prefers(f, c, d) == f[d] < f[c] \/ (f[d] = f[c] /\ H!Before(c, d))

(* Among finitely many candidates one is preferred to all others. *)
LEMMA FirstBest ==
  ASSUME NEW C, IsFiniteSet(C), C # {}, C \in SUBSET (Nat \X Nat), NEW f \in [C -> Int]
  PROVE  \E c \in C : \A d \in C \ {c} : Prefers(f, c, d)
<1> DEFINE Top(S) == \E c \in S : \A d \in S \ {c} : Prefers(f, c, d)
           N == {n \in Nat : \A S \in SUBSET C : Cardinality(S) = n /\ S # {} => Top(S)}
<1>1. \A c, d \in C : c # d => Prefers(f, c, d) \/ Prefers(f, d, c)
  <2> SUFFICES ASSUME NEW c \in C, NEW d \in C, c # d
               PROVE  Prefers(f, c, d) \/ Prefers(f, d, c)
    OBVIOUS
  <2>1. PICK a1, a2 \in Nat : c = <<a1, a2>>
    OBVIOUS
  <2>2. PICK b1, b2 \in Nat : d = <<b1, b2>>
    OBVIOUS
  <2>3. f[c] \in Int /\ f[d] \in Int
    OBVIOUS
  <2>4. c[1] = a1 /\ c[2] = a2 /\ d[1] = b1 /\ d[2] = b2 /\ (a1 # b1 \/ a2 # b2)
    BY <2>1, <2>2
  <2> QED BY <2>3, <2>4 DEF Prefers, H!Before
<1>2. \A c, d, e \in C : Prefers(f, c, d) /\ Prefers(f, d, e) => Prefers(f, c, e)
  <2> SUFFICES ASSUME NEW c \in C, NEW d \in C, NEW e \in C, Prefers(f, c, d), Prefers(f, d, e)
               PROVE  Prefers(f, c, e)
    OBVIOUS
  <2>1. /\ f[c] \in Int /\ f[d] \in Int /\ f[e] \in Int
        /\ c[1] \in Nat /\ c[2] \in Nat /\ d[1] \in Nat /\ d[2] \in Nat /\ e[1] \in Nat /\ e[2] \in Nat
    OBVIOUS
  <2> QED BY <2>1 DEF Prefers, H!Before
<1>3. \A S \in SUBSET C : IsFiniteSet(S) /\ Cardinality(S) \in Nat
  BY FS_Subset, FS_CardinalityType
<1>4. 0 \in N
  <2>1. \A S \in SUBSET C : Cardinality(S) = 0 => S = {}
    BY <1>3, FS_EmptySet
  <2> QED BY <2>1
<1>5. \A n \in N : n + 1 \in N
  <2> SUFFICES ASSUME NEW n \in N, NEW S \in SUBSET C, Cardinality(S) = n + 1, S # {}
               PROVE  Top(S)
    <3> HIDE DEF Top
    <3> QED OBVIOUS
  <2>1. PICK x : x \in S
    OBVIOUS
  <2> DEFINE T == S \ {x}
  <2>2. T \in SUBSET C /\ Cardinality(T) = n
    <3>1. Cardinality(T) = Cardinality(S) - 1
      BY <1>3, <2>1, FS_RemoveElement, Zenon
    <3> QED BY <3>1
  <2>3. CASE T = {}
    <3>1. S \ {x} = {}
      BY <2>3
    <3> QED BY <2>1, <3>1
  <2>4. CASE T # {}
    <3>1. Top(T)
      BY <2>2, <2>4, Zenon
    <3>2. PICK t \in T : \A d \in T \ {t} : Prefers(f, t, d)
      BY <3>1
    <3>3. t \in C /\ x \in C /\ t # x /\ t \in S
      BY <2>1
    <3>4. CASE Prefers(f, t, x)
      <4>1. \A d \in S \ {t} : Prefers(f, t, d)
        BY <3>2, <3>4
      <4> QED BY <3>3, <4>1
    <3>5. CASE Prefers(f, x, t)
      <4>1. ASSUME NEW d \in S \ {x}
            PROVE  Prefers(f, x, d)
        <5>1. CASE d = t
          BY <3>5, <5>1
        <5>2. CASE d # t
          <6>1. Prefers(f, t, d) /\ d \in C
            BY <3>2, <5>2
          <6> QED BY <1>2, <3>3, <3>5, <6>1
        <5> QED BY <5>1, <5>2
      <4> QED BY <2>1, <4>1
    <3> QED BY <1>1, <3>3, <3>4, <3>5
  <2> QED BY <2>3, <2>4
<1>6. N \in SUBSET Nat
  OBVIOUS
<1>7. Cardinality(C) \in N
  <2> HIDE DEF N
  <2> QED BY <1>3, <1>4, <1>5, <1>6, SetInduction
<1> QED BY <1>7

(* The candidates for a list of n neighbours. *)
LEMMA CandidateFacts ==
  ASSUME HybridRoom, NEW n \in Nat, n > 1
  PROVE  /\ IsFiniteSet(H!Candidates(n)) /\ H!Candidates(n) \in SUBSET (Nat \X Nat)
         /\ <<1, 0>> \in H!Candidates(n)
         /\ \A c \in H!Candidates(n) :
              /\ c[1] \in 0 .. H!MaxIntegerSize /\ c[2] \in Nat /\ c[1] + c[2] <= n
              /\ c[1] = 0 => c[2] = 0
              /\ c[1] = 1 => c[2] \in {0, n - 1}
<1> DEFINE m == H!MaxIntegerSize
           D == (0 .. m) \X (0 .. n)
<1>1. m \in Nat /\ m > 0
  BY HybridSizes DEF HybridRoom
<1> HIDE DEF m
<1>2. IsFiniteSet(D)
  <2>1. IsFiniteSet(0 .. m) /\ IsFiniteSet(0 .. n)
    BY <1>1, FS_Interval
  <2> QED BY <2>1, FS_Product, Zenon
<1>3. H!Candidates(n) \in SUBSET D
  BY <1>1 DEF H!Candidates, m
<1>4. IsFiniteSet(H!Candidates(n))
  BY <1>2, <1>3, FS_Subset
<1>5. D \in SUBSET (Nat \X Nat)
  OBVIOUS
<1>6. <<1, 0>> \in H!Candidates(n)
  BY <1>1 DEF H!Candidates, m
<1>7. ASSUME NEW c \in H!Candidates(n)
      PROVE  /\ c[1] \in 0 .. m /\ c[2] \in Nat /\ c[1] + c[2] <= n
             /\ c[1] = 0 => c[2] = 0
             /\ c[1] = 1 => c[2] \in {0, n - 1}
  BY <1>1 DEF H!Candidates, m
<1> QED BY <1>3, <1>4, <1>5, <1>6, <1>7 DEF m

(* The parts of a list that a candidate names. *)
LEMMA BlockAndLeft ==
  ASSUME HybridRoom, NEW l \in Seq(Vertex), Len(l) > 1, NEW c \in H!Candidates(Len(l))
  PROVE  /\ H!Block(l, c) \in Seq(Vertex) /\ Len(H!Block(l, c)) = c[1]
         /\ \A i \in 1 .. c[1] : H!Block(l, c)[i] = l[c[2] + i]
         /\ H!Left(l, c) \in Seq(Vertex)
         /\ \A j \in 1 .. Len(l) : \/ j \in c[2] + 1 .. c[2] + c[1]
                                   \/ \E i \in 1 .. Len(H!Left(l, c)) : H!Left(l, c)[i] = l[j]
<1> DEFINE n == Len(l)
           a == c[2]
           m == c[1]
           p == SubSeq(l, 1, a)
           q == SubSeq(l, a + m + 1, n)
<1>1. n \in Nat /\ a \in Nat /\ m \in Nat /\ m + a <= n
  <2>1. n \in Nat /\ n > 1 /\ c \in H!Candidates(n)
    OBVIOUS
  <2>2. c[1] \in 0 .. H!MaxIntegerSize /\ c[2] \in Nat /\ c[1] + c[2] <= n
    <3> HIDE DEF n
    <3> QED BY <2>1, CandidateFacts
  <2>3. H!MaxIntegerSize \in Nat
    BY HybridSizes DEF HybridRoom
  <2> QED BY <2>1, <2>2, <2>3
<1> HIDE DEF a, m
<1>2. /\ H!Block(l, c) \in Seq(Vertex) /\ Len(H!Block(l, c)) = m
      /\ \A i \in 1 .. m : H!Block(l, c)[i] = l[a + i]
  <2>1. H!Block(l, c) = SubSeq(l, a + 1, a + m)
    BY DEF H!Block, a, m
  <2> QED BY <1>1, <2>1
<1>3. p \in Seq(Vertex) /\ Len(p) = a /\ \A i \in 1 .. a : p[i] = l[i]
  BY <1>1
<1>4. /\ q \in Seq(Vertex) /\ Len(q) = n - (a + m)
      /\ \A i \in 1 .. n - (a + m) : q[i] = l[a + m + i]
  BY <1>1
<1>5. H!Left(l, c) = p \o q
  BY DEF H!Left, a, m
<1> HIDE DEF p, q
<1>6. /\ p \o q \in Seq(Vertex) /\ Len(p \o q) = Len(p) + Len(q)
      /\ \A i \in 1 .. Len(p) : (p \o q)[i] = p[i]
      /\ \A i \in 1 .. Len(q) : (p \o q)[Len(p) + i] = q[i]
  <2>1. p \in Seq(Vertex) /\ q \in Seq(Vertex)
    BY <1>3, <1>4
  <2>2. p \o q \in Seq(Vertex) /\ Len(p \o q) = Len(p) + Len(q)
    BY <2>1
  <2>3. \A i \in 1 .. Len(p) : (p \o q)[i] = p[i]
    BY <2>1
  <2>4. ASSUME NEW i \in 1 .. Len(q)
        PROVE  (p \o q)[Len(p) + i] = q[i]
    <3>1. Len(p) \in Nat /\ Len(q) \in Nat
      BY <2>1
    <3>2. Len(p) + i \in 1 .. Len(p) + Len(q) /\ ~ (Len(p) + i <= Len(p)) /\ (Len(p) + i) - Len(p) = i
      BY <3>1
    <3> QED BY <2>1, <3>2
  <2> QED BY <2>2, <2>3, <2>4
<1>7. ASSUME NEW j \in 1 .. n, j \notin a + 1 .. a + m
      PROVE  \E i \in 1 .. Len(p \o q) : (p \o q)[i] = l[j]
  <2>1. CASE j <= a
    <3>1. j \in 1 .. a /\ j \in 1 .. Len(p) /\ j \in 1 .. Len(p \o q)
      BY <1>1, <1>3, <1>4, <1>6, <2>1
    <3> QED BY <1>3, <1>6, <3>1
  <2>2. CASE j > a
    <3> DEFINE i == j - (a + m)
    <3>1. i \in 1 .. n - (a + m) /\ i \in 1 .. Len(q) /\ a + m + i = j /\ Len(p) + i \in 1 .. Len(p \o q)
      BY <1>1, <1>3, <1>4, <1>6, <1>7, <2>2
    <3>2. (p \o q)[Len(p) + i] = q[i] /\ q[i] = l[a + m + i]
      BY <1>4, <1>6, <3>1
    <3> QED BY <3>1, <3>2
  <2> QED BY <1>1, <2>1, <2>2
<1>8. H!Left(l, c) \in Seq(Vertex)
  BY <1>5, <1>6
<1>9. ASSUME NEW j \in 1 .. n
      PROVE  \/ j \in a + 1 .. a + m
             \/ \E i \in 1 .. Len(H!Left(l, c)) : H!Left(l, c)[i] = l[j]
  BY <1>5, <1>7
<1> HIDE DEF n
<1> QED BY <1>2, <1>8, <1>9, Zenon DEF a, m, n

(* The bits that are left for the hash, and how many of them are taken. *)
LEMMA HashRoom ==
  ASSUME HybridRoom, NEW l \in Seq(Vertex), Len(l) > 1, NEW c \in H!Candidates(Len(l))
  PROVE  /\ H!HashSize(c) \in Nat
         /\ H!HashCount(l, c) \in Nat /\ H!HashCount(l, c) <= H!HashSize(c)
<1> DEFINE b == H!VBits
           mb == H!MaxIntegerSize * b
           m == c[1]
           hs == H!HashSize(c)
<1>1. /\ b \in Nat /\ b > 0 /\ H!LogK \in Nat /\ HybridBits \in Nat /\ H!MaxIntegerSize \in Nat
      /\ 3 + H!LogK + mb <= HybridBits
  BY HybridSizes DEF HybridRoom
<1>2. m \in 0 .. H!MaxIntegerSize /\ m \in Nat
  <2>1. Len(l) \in Nat
    OBVIOUS
  <2> QED BY <1>1, <2>1, CandidateFacts
<1>3. m * b \in Nat /\ mb \in Nat /\ m * b <= mb
  <2>1. CASE m = H!MaxIntegerSize
    <3>1. mb \in Nat
      BY <1>1
    <3> QED BY <2>1, <3>1
  <2>2. CASE m # H!MaxIntegerSize
    <3>1. m < H!MaxIntegerSize
      BY <1>1, <1>2, <2>2
    <3> HIDE DEF m, b
    <3>2. m * b \in Nat /\ mb \in Nat /\ m * b + b <= mb
      BY <1>1, <1>2, <3>1, BlockOrder
    <3> HIDE DEF mb
    <3> QED BY <1>1, <3>2
  <2> QED BY <2>1, <2>2
<1>4. hs \in Nat
  <2> DEFINE ib == m * b
  <2>1. hs = HybridBits - (3 + H!LogK) - ib
    BY DEF H!HashSize, H!BlockBegin
  <2>2. ib \in Nat /\ mb \in Nat /\ ib <= mb /\ 3 + H!LogK + mb <= HybridBits
    BY <1>1, <1>3
  <2> HIDE DEF ib, mb, hs
  <2> QED BY <1>1, <2>1, <2>2
<1> DEFINE outside == H!Counted(l, c)
           K == {outside[i] % hs : i \in DOMAIN outside}
<1>5. outside \in Seq(Vertex)
  <2>1. SubSeq(l, 1, Len(l) - 2) \in Seq(Vertex)
    <3>1. Len(l) - 2 <= Len(l) /\ Len(l) - 2 \in Int
      OBVIOUS
    <3> QED BY <3>1
  <2>2. ASSUME c[2] > 0
        PROVE  H!Left(l, <<c[1], c[2] - 1>>) \in Seq(Vertex)
    <3> DEFINE d == <<c[1], c[2] - 1>>
               p == SubSeq(l, 1, c[2] - 1)
               q == SubSeq(l, c[2] - 1 + c[1] + 1, Len(l))
    <3>1. Len(l) \in Nat /\ c[1] \in Nat /\ c[2] \in Nat /\ c[1] + c[2] <= Len(l)
      BY <1>2, CandidateFacts
    <3>2. c[2] - 1 \in Nat /\ c[2] - 1 <= Len(l) /\ c[2] - 1 + c[1] + 1 \in Nat /\ c[2] - 1 + c[1] + 1 >= 1
      BY <2>2, <3>1
    <3>3. p \in Seq(Vertex)
      BY <3>1, <3>2
    <3>4. q \in Seq(Vertex)
      BY <3>1, <3>2
    <3>5. d[1] = c[1] /\ d[2] = c[2] - 1
      OBVIOUS
    <3>6. H!Left(l, d) = p \o q
      BY <3>5, Zenon DEF H!Left
    <3> HIDE DEF d, p, q
    <3>7. H!Left(l, d) \in Seq(Vertex)
      BY <3>3, <3>4, <3>6
    <3> QED BY <3>7 DEF d
  <2>3. H!Left(l, c) \in Seq(Vertex)
    BY BlockAndLeft
  <2>4. H!TypeOf(c, Len(l)) = H!RightMost => c[2] > 0
    <3>1. c[1] \in Nat /\ c[2] \in Nat
      BY <1>2, CandidateFacts
    <3> QED BY <3>1 DEF H!TypeOf, H!FullHash, H!LeftMost, H!RightMost, H!Middle
  <2> QED BY <2>1, <2>2, <2>3, <2>4 DEF H!Counted
<1>6. H!HashCount(l, c) = IF hs = 0 THEN 0 ELSE Cardinality(K)
  BY DEF H!HashCount, H!Cardinality, Cardinality
<1> HIDE DEF hs, outside
<1>7. CASE hs # 0
  <2>1. K \in SUBSET (0 .. hs - 1)
    <3> SUFFICES ASSUME NEW i \in DOMAIN outside
                 PROVE  outside[i] % hs \in 0 .. hs - 1
      OBVIOUS
    <3>1. outside[i] \in Vertex
      BY <1>5
    <3>2. outside[i] \in Nat
      BY <3>1 DEF Vertex
    <3> QED BY <1>4, <1>7, <3>2
  <2>2. IsFiniteSet(0 .. hs - 1) /\ Cardinality(0 .. hs - 1) = hs
    <3>1. 0 \in Int /\ hs - 1 \in Int /\ ~ (0 > hs - 1) /\ hs - 1 - 0 + 1 = hs
      BY <1>4, <1>7
    <3> QED BY <3>1, FS_Interval
  <2> HIDE DEF K
  <2>3. IsFiniteSet(K) /\ Cardinality(K) <= hs
    BY <2>1, <2>2, FS_Subset, Zenon
  <2>4. Cardinality(K) \in Nat
    BY <2>3, FS_CardinalityType
  <2> QED BY <1>4, <1>6, <1>7, <2>3, <2>4 DEF hs
<1>8. CASE hs = 0
  BY <1>4, <1>6, <1>8 DEF hs
<1> QED BY <1>4, <1>7, <1>8 DEF hs

(* The share of n vertices that the free bits of a hash deny. *)
LEMMA HashShare ==
  ASSUME NEW n \in Nat, NEW hs \in Nat, hs > 0, NEW free \in 0 .. hs
  PROVE  (n \div hs) * free \in Nat /\ (n \div hs) * free <= n
<1> DEFINE q == n \div hs
           qh == q * hs
           qf == q * free
<1>1. q \in Int /\ qh <= n
  BY Divided
<1>2. q \in Nat
  <2>1. 0 \div hs <= n \div hs /\ 0 \div hs = 0
    BY Divided
  <2> QED BY <1>1, <2>1
<1> HIDE DEF q
<1>3. qh \in Nat /\ qf \in Nat /\ qf <= qh
  <2>1. CASE free = hs
    BY <1>2, <2>1, TimesNat
  <2>2. CASE free # hs
    <3>1. free \in Nat /\ free < hs
      BY <2>2
    <3>2. free * q \in Nat /\ hs * q \in Nat /\ free * q + q <= hs * q
      BY <1>2, <3>1, BlockOrder
    <3>3. qh = hs * q /\ qf = free * q
      BY <1>2, <3>1
    <3> HIDE DEF qh, qf
    <3> QED BY <1>2, <3>2, <3>3
  <2> QED BY <2>1, <2>2
<1>4. qh <= n
  BY <1>1
<1> HIDE DEF qh, qf
<1>5. qf \in Nat /\ qf <= n
  BY <1>3, <1>4
<1> QED BY <1>5 DEF q, qf

(* Every score is a number, and that of the first neighbour alone as a         *)
(* left-most block is above zero.                                              *)
LEMMA Scores ==
  ASSUME HybridRoom, NEW l \in Seq(Vertex), Len(l) > 1, NEW c \in H!Candidates(Len(l))
  PROVE  /\ H!GetScore(l, c) \in Nat
         /\ c = <<1, 0>> => H!GetScore(l, c) > 0
<1> DEFINE n == Len(l)
           hs == H!HashSize(c)
           free == hs - H!HashCount(l, c)
           hashed(x) == IF hs = 0 THEN 0 ELSE (x \div hs) * free
           type == H!TypeOf(c, n)
           first == IF type = H!LeftMost THEN 0 ELSE l[c[2] + 1]
           last == IF type = H!RightMost THEN V ELSE l[c[2] + c[1]]
           W == HybridWord
<1>1. /\ V \in Nat /\ V > 1 /\ W \in Nat /\ W > 4 * V /\ n \in Nat
  BY HybridSizes DEF HybridRoom
<1>2. hs \in Nat /\ free \in 0 .. hs
  <2>1. H!HashSize(c) \in Nat /\ H!HashCount(l, c) \in Nat /\ H!HashCount(l, c) <= H!HashSize(c)
    BY HashRoom
  <2> QED BY <2>1
<1>3. ASSUME NEW x \in Nat
      PROVE  hashed(x) \in Nat /\ hashed(x) <= x
  <2>1. CASE hs = 0
    BY <2>1
  <2>2. CASE hs # 0
    <3>1. hs > 0
      BY <1>2, <2>2
    <3> HIDE DEF hs, free
    <3>2. (x \div hs) * free \in Nat /\ (x \div hs) * free <= x
      BY <1>2, <3>1, HashShare
    <3> QED BY <2>2, <3>2
  <2> QED BY <2>1, <2>2
<1>4. H!GetScore(l, c) = IF type = H!FullHash THEN hashed(V)
                         ELSE (((last - first + 1) % W) + hashed((V - last + first) % W)) % W
  BY DEF H!GetScore
<1> HIDE DEF hashed
<1>5. CASE type = H!FullHash
  <2>1. H!GetScore(l, c) \in Nat
    BY <1>1, <1>3, <1>4, <1>5
  <2>2. c # <<1, 0>>
    BY <1>5 DEF H!TypeOf, H!FullHash, H!LeftMost, H!RightMost, H!Middle
  <2> QED BY <2>1, <2>2
<1>6. CASE type # H!FullHash
  <2>0. /\ c[1] \in Nat /\ c[2] \in Nat /\ c[1] + c[2] <= n /\ (c[1] = 0 => c[2] = 0)
    <3>1. n \in Nat /\ n > 1 /\ c \in H!Candidates(n)
      OBVIOUS
    <3>2. H!MaxIntegerSize \in Nat
      BY HybridSizes DEF HybridRoom
    <3> HIDE DEF n
    <3>3. c[1] \in 0 .. H!MaxIntegerSize /\ c[2] \in Nat /\ c[1] + c[2] <= n /\ (c[1] = 0 => c[2] = 0)
      BY <3>1, CandidateFacts
    <3> QED BY <3>2, <3>3
  <2>1. c[1] > 0
    <3>1. c[1] = 0 => type = H!FullHash
      BY DEF H!TypeOf
    <3> QED BY <1>6, <2>0, <3>1
  <2>2. c[2] + 1 \in 1 .. n /\ c[2] + c[1] \in 1 .. n
    BY <1>1, <2>0, <2>1
  <2>3. l[c[2] + 1] \in 1 .. V /\ l[c[2] + c[1]] \in 1 .. V
    <3>1. \A i \in 1 .. n : l[i] \in Vertex
      OBVIOUS
    <3> QED BY <2>2, <3>1 DEF Vertex
  <2>4. first \in 0 .. V /\ last \in 0 .. V
    BY <1>1, <2>3
  <2>5. CASE c = <<1, 0>>
    <3>1. c[1] = 1 /\ c[2] = 0
      BY <2>5
    <3>2. type = H!LeftMost /\ type # H!RightMost
      BY <3>1 DEF H!TypeOf, H!FullHash, H!LeftMost, H!RightMost, H!Middle
    <3>3. first = 0 /\ last \in 1 .. V
      <4>1. c[2] + c[1] = 1
        BY <3>1
      <4> QED BY <2>3, <3>2
    <3> HIDE DEF type, first, last, W
    <3>4. (last - first + 1) % W = last + 1 /\ (V - last + first) % W = V - last
      <4>1. last + 1 \in 0 .. W - 1 /\ V - last \in 0 .. W - 1 /\ W > 0
        BY <1>1, <3>3
      <4>2. last - first + 1 = last + 1 /\ V - last + first = V - last
        BY <1>1, <3>3
      <4>3. \A x \in 0 .. W - 1 : x % W = x
        BY <1>1
      <4> QED BY <4>1, <4>2, <4>3
    <3> DEFINE z == hashed(V - last)
    <3>5. z \in Nat /\ z <= V - last
      BY <1>1, <1>3, <3>3
    <3>6. H!GetScore(l, c) = (last + 1 + z) % W
      BY <1>4, <1>6, <3>4
    <3> HIDE DEF z
    <3>7. last + 1 + z \in 0 .. W - 1 /\ last + 1 + z > 0 /\ W > 0
      BY <1>1, <3>3, <3>5
    <3>8. (last + 1 + z) % W = last + 1 + z
      BY <1>1, <3>7
    <3> QED BY <3>3, <3>5, <3>6, <3>7, <3>8
  <2>6. CASE c # <<1, 0>>
    <3> HIDE DEF type, first, last, W
    <3>1. W > 0
      BY <1>1
    <3> DEFINE x == (last - first + 1) % W
               y == (V - last + first) % W
    <3>2. x \in Nat /\ y \in Nat
      <4>1. last - first + 1 \in Int /\ V - last + first \in Int
        BY <1>1, <2>4
      <4> QED BY <1>1, <3>1, <4>1
    <3> HIDE DEF x, y
    <3> DEFINE z == hashed(y)
    <3>3. z \in Nat
      BY <1>3, <3>2
    <3> HIDE DEF z
    <3>4. (x + z) % W \in Nat
      BY <1>1, <3>1, <3>2, <3>3
    <3>5. H!GetScore(l, c) = (x + z) % W
      BY <1>4, <1>6 DEF x, y, z
    <3> QED BY <2>6, <3>4, <3>5
  <2> QED BY <2>5, <2>6
<1> QED BY <1>5, <1>6

(* DynamicChoose always finds a block: one candidate is preferred to all       *)
(* others, and its score is above zero, so a list that does not fit is never   *)
(* left without a code.                                                        *)
LEMMA BestIsChosen ==
  ASSUME HybridRoom, NEW l \in Seq(Vertex), Len(l) > 1
  PROVE  /\ H!Best(l) \in H!Candidates(Len(l))
         /\ H!GetScore(l, H!Best(l)) > 0
<1> DEFINE C == H!Candidates(Len(l))
           f == [c \in C |-> H!GetScore(l, c)]
<1>1. /\ IsFiniteSet(C) /\ C \in SUBSET (Nat \X Nat) /\ <<1, 0>> \in C
  <2>1. Len(l) \in Nat
    OBVIOUS
  <2> QED BY <2>1, CandidateFacts
<1>2. \A c \in C : H!GetScore(l, c) \in Nat /\ (c = <<1, 0>> => H!GetScore(l, c) > 0)
  BY Scores
<1> HIDE DEF C
<1>3. C # {} /\ f \in [C -> Int]
  BY <1>1, <1>2
<1>4. \E c \in C : \A d \in C \ {c} : Prefers(f, c, d)
  <2> HIDE DEF f
  <2> QED BY <1>1, <1>3, FirstBest, Zenon
<1>5. \E c \in C : \A d \in C \ {c} : \/ H!GetScore(l, d) < H!GetScore(l, c)
                                      \/ H!GetScore(l, d) = H!GetScore(l, c) /\ H!Before(c, d)
  BY <1>4 DEF Prefers
<1>6. /\ H!Best(l) \in C
      /\ \A d \in C \ {H!Best(l)} : \/ H!GetScore(l, d) < H!GetScore(l, H!Best(l))
                                    \/ H!GetScore(l, d) = H!GetScore(l, H!Best(l)) /\ H!Before(H!Best(l), d)
  BY <1>5 DEF H!Best, C
<1>7. H!GetScore(l, H!Best(l)) > 0
  <2>1. H!GetScore(l, H!Best(l)) \in Nat /\ H!GetScore(l, <<1, 0>>) \in Nat /\ H!GetScore(l, <<1, 0>>) > 0
    BY <1>1, <1>2, <1>6
  <2>2. H!Best(l) = <<1, 0>> \/ H!GetScore(l, <<1, 0>>) <= H!GetScore(l, H!Best(l))
    BY <1>1, <1>6, <2>1
  <2> QED BY <2>1, <2>2
<1> QED BY <1>6, <1>7 DEF C

(* One unsigned comparison tests both bounds of a range. *)
LEMMA UnsignedRange ==
  ASSUME HybridRoom, NEW min \in 0 .. V, NEW max \in min .. V + 1, NEW w \in Vertex
  PROVE  (w - min) % HybridWord <= (max - min) % HybridWord <=> w >= min /\ w <= max
<1> DEFINE W == HybridWord
<1>1. V \in Nat /\ V > 1 /\ W \in Nat /\ W > 4 * V /\ w \in 1 .. V
  BY HybridSizes DEF HybridRoom, Vertex
<1> HIDE DEF W
<1>2. \A x \in 0 .. W - 1 : x % W = x
  BY <1>1
<1>3. max - min \in 0 .. W - 1 /\ (max - min) % W = max - min
  <2>1. max - min \in 0 .. W - 1
    BY <1>1
  <2> QED BY <1>2, <2>1
<1>4. CASE w >= min
  <2>1. w - min \in 0 .. W - 1
    BY <1>1, <1>4
  <2>2. (w - min) % W = w - min
    BY <1>2, <2>1
  <2> QED BY <1>1, <1>3, <1>4, <2>2 DEF W
<1>5. CASE w < min
  <2>1. W + w - min \in 0 .. W - 1 /\ W + w - min > V + 1
    BY <1>1, <1>5
  <2>2. (W + w - min) % W = W + w - min
    BY <1>2, <2>1
  <2>3. (w - min) % W = W + w - min
    <3>1. w - min \in Int /\ w - min < 0 /\ w - min >= 0 - W
      BY <1>1, <1>5
    <3> DEFINE d == w - min
    <3>2. W + w - min = d + W
      BY <1>1
    <3>3. d % W = d + W
      <4> HIDE DEF d
      <4>1. d \in Int /\ d < 0 /\ d >= 0 - W
        BY <3>1 DEF d
      <4> QED BY <1>1, <4>1
    <3> QED BY <3>2, <3>3
  <2> QED BY <1>1, <1>3, <1>5, <2>1, <2>3 DEF W
<1> QED BY <1>1, <1>4, <1>5

(* The parts of the code of a list that does not fit: a block of consecutive   *)
(* neighbours, all of the first ones, all of the last ones or neither, and the *)
(* bits of the others.                                                         *)
Summary(c, l, a, block) ==
  LET num == Len(block)
      hb  == H!BlockBegin + num * H!VBits
  IN  /\ a \in Nat /\ block \in Seq(Vertex) /\ num \in 0 .. H!MaxIntegerSize /\ a + num <= Len(l)
      /\ \A i \in 1 .. num : block[i] = l[a + i]
      /\ ~ H!IsDecodable(c) /\ c \in SUBSET (0 .. HybridBits - 1)
      /\ H!GetBlockNum(c) = num /\ Holds(c, H!BlockBegin, H!VBits, block)
      /\ num = 0 => H!GetBlockModel(c) = H!Middle
      /\ num > 0 /\ H!GetBlockModel(c) = H!LeftMost => a = 0
      /\ num > 0 /\ H!GetBlockModel(c) = H!RightMost => a + num = Len(l)
      /\ \A j \in 1 .. Len(l) : \/ j \in a + 1 .. a + num
                                \/ hb = HybridBits
                                \/ H!Hash(l[j], hb) \in c

(* EncodeVertex gives a list that does not fit such a code, whatever the code  *)
(* was before.                                                                 *)
LEMMA HybridSummary ==
  ASSUME HybridRoom, NEW l \in Seq(Vertex), Len(l) > H!MaxKCoreSize, NEW c0
  PROVE  \E a, block : Summary(H!EncodeVertex(c0, l), l, a, block)
<1> DEFINE c == H!EncodeVertex(c0, l)
           best == H!Best(l)
           block == H!Block(l, best)
           left == H!Left(l, best)
           type == H!TypeOf(best, Len(l))
           a == best[2]
           num == Len(block)
           hb == H!BlockBegin + num * H!VBits
<1>1. H!MaxKCoreSize \in Nat /\ H!MaxKCoreSize > 0 /\ H!MaxIntegerSize \in Nat
  BY HybridSizes DEF HybridRoom
<1>2. Len(l) \in Nat /\ Len(l) > 1 /\ ~ (Len(l) <= H!MaxKCoreSize)
  BY <1>1
<1>3. best \in H!Candidates(Len(l)) /\ H!GetScore(l, best) # 0
  BY <1>2, BestIsChosen
<1>4. c = H!SetNonDecodable(block, left, type)
  BY <1>2, <1>3 DEF H!EncodeVertex, H!DynamicChoose
<1>5. /\ block \in Seq(Vertex) /\ Len(block) = best[1] /\ left \in Seq(Vertex)
      /\ \A i \in 1 .. best[1] : block[i] = l[a + i]
      /\ \A j \in 1 .. Len(l) : \/ j \in a + 1 .. a + best[1]
                                \/ \E i \in 1 .. Len(left) : left[i] = l[j]
  BY <1>2, <1>3, BlockAndLeft
<1>6. best[1] \in 0 .. H!MaxIntegerSize /\ a \in Nat /\ best[1] + a <= Len(l)
  BY <1>2, <1>3, CandidateFacts
<1> HIDE DEF c, best, block, left
<1>7. type \in {H!FullHash, H!LeftMost, H!RightMost, H!Middle}
  BY DEF H!TypeOf
<1>8. /\ best[1] = 0 => type = H!FullHash
      /\ best[1] > 0 /\ type = H!LeftMost => a = 0
      /\ best[1] > 0 /\ type = H!RightMost => a = Len(l) - best[1]
      /\ type = H!FullHash => best[1] = 0
  <2>1. best[1] \in Nat
    BY <1>1, <1>6
  <2> QED BY <2>1 DEF H!TypeOf, H!FullHash, H!LeftMost, H!RightMost, H!Middle
<1> HIDE DEF type
<1>9. /\ ~ H!IsDecodable(c) /\ c \in SUBSET (0 .. HybridBits - 1)
      /\ H!GetBlockNum(c) = Len(block)
      /\ H!GetBlockModel(c) = IF type = H!FullHash THEN H!Middle ELSE type
      /\ Holds(c, H!BlockBegin, H!VBits, block)
      /\ hb # HybridBits => \A i \in 1 .. Len(left) : H!Hash(left[i], hb) \in c
  <2>1. Len(block) <= H!MaxIntegerSize
    BY <1>1, <1>5, <1>6
  <2> HIDE DEF hb
  <2>2. hb = H!BlockBegin + Len(block) * H!VBits
    BY DEF hb
  <2>3. /\ ~ H!IsDecodable(c) /\ c \in SUBSET (0 .. HybridBits - 1)
        /\ H!GetBlockNum(c) = Len(block)
        /\ H!GetBlockModel(c) = IF type = H!FullHash THEN H!Middle ELSE type
        /\ Holds(c, H!BlockBegin, H!VBits, block)
        /\ hb \in Nat /\ hb <= HybridBits
        /\ hb # HybridBits => \A i \in 1 .. Len(left) : H!Hash(left[i], hb) \in c
    <3>1. block \in Seq(Vertex) /\ left \in Seq(Vertex)
      BY <1>5
    <3> QED BY ONLY HybridRoom, <1>4, <1>7, <2>1, <2>2, <3>1, HybridLayout, SMTT(30)
  <2> QED BY <2>3
<1>10. num = best[1] /\ num \in 0 .. H!MaxIntegerSize /\ num \in Nat /\ a + num <= Len(l)
  BY <1>1, <1>2, <1>5, <1>6
<1>11. \A i \in 1 .. num : block[i] = l[a + i]
  BY <1>5, <1>10
<1>12. /\ num = 0 => H!GetBlockModel(c) = H!Middle
       /\ num > 0 /\ H!GetBlockModel(c) = H!LeftMost => a = 0
       /\ num > 0 /\ H!GetBlockModel(c) = H!RightMost => a + num = Len(l)
  <2>1. num > 0 => H!GetBlockModel(c) = type
    BY <1>8, <1>9, <1>10
  <2>2. num = 0 => H!GetBlockModel(c) = H!Middle
    BY <1>8, <1>9, <1>10
  <2>3. a \in Nat /\ (num > 0 /\ type = H!RightMost => a + num = Len(l))
    BY <1>2, <1>6, <1>8, <1>10
  <2> QED BY <1>8, <1>10, <2>1, <2>2, <2>3
<1>13. ASSUME NEW j \in 1 .. Len(l), j \notin a + 1 .. a + num, hb # HybridBits
       PROVE  H!Hash(l[j], hb) \in c
  <2>1. PICK i \in 1 .. Len(left) : left[i] = l[j]
    BY <1>5, <1>10, <1>13, Zenon
  <2>2. H!Hash(left[i], hb) \in c
    BY <1>9, <1>13
  <2> QED BY <2>1, <2>2
<1>14. Summary(c, l, a, block)
  <2> HIDE DEF a
  <2> QED BY <1>5, <1>6, <1>9, <1>10, <1>11, <1>12, <1>13 DEF Summary
<1> QED BY <1>14 DEF c

(* The code of a list that does not fit: an answer other than Uncertain is the *)
(* right one, and the three ways to ask agree.                                 *)
LEMMA HybridSummaryTest ==
  ASSUME HybridRoom, NEW l \in Seq(Vertex), SortedList(l), NEW c, NEW a, NEW block,
         Summary(c, l, a, block), NEW w \in Vertex
  PROVE  /\ H!NonNeighborTest(c, w) \in {RightAnswer(l, w), Uncertain}
         /\ H!DecodedTest(c, H!Decode(c), w) = H!NonNeighborTest(c, w)
         /\ BlockFindSIMD(c, H!BlockBegin, H!VBits, H!GetBlockNum(c), w)
              = BlockFind(c, H!BlockBegin, H!VBits, H!GetBlockNum(c), w)
<1> DEFINE num == Len(block)
           b == H!VBits
           B0 == H!BlockBegin
           hb == B0 + num * b
           type == H!GetBlockModel(c)
           slot(i) == IF num = 0 THEN 0 ELSE BlockGet(c, B0 + i * b, b)
           min == IF type = H!LeftMost THEN 0 ELSE slot(0)
           max == IF type = H!RightMost THEN V + 1 ELSE slot(num - 1)
           hashed == IF hb = HybridBits \/ H!Hash(w, hb) \in c THEN Uncertain ELSE NonNeighbor
<1>1. /\ V \in Nat /\ V > 1 /\ b \in Nat /\ b > 0 /\ B0 \in Nat /\ H!MaxIntegerSize \in Nat
      /\ HybridBits \in Nat /\ w \in 1 .. V
  <2>1. /\ V \in Nat /\ V > 1 /\ H!VBits \in Nat /\ H!VBits > 0 /\ H!LogK \in Nat
        /\ H!MaxIntegerSize \in Nat /\ HybridBits \in Nat
    BY ONLY HybridRoom, HybridSizes DEF HybridRoom
  <2>2. H!BlockBegin \in Nat
    BY ONLY <2>1 DEF H!BlockBegin
  <2> QED BY <2>1, <2>2 DEF Vertex
<1>2. /\ a \in Nat /\ block \in Seq(Vertex) /\ num \in 0 .. H!MaxIntegerSize /\ a + num <= Len(l)
      /\ \A i \in 1 .. num : block[i] = l[a + i]
  BY DEF Summary
<1>3. /\ ~ H!IsDecodable(c)
      /\ H!GetBlockNum(c) = num /\ Holds(c, B0, b, block)
      /\ num = 0 => type = H!Middle
      /\ num > 0 /\ type = H!LeftMost => a = 0
      /\ num > 0 /\ type = H!RightMost => a + num = Len(l)
  BY DEF Summary
<1>4. \A j \in 1 .. Len(l) : \/ j \in a + 1 .. a + num
                             \/ hb = HybridBits
                             \/ H!Hash(l[j], hb) \in c
  BY DEF Summary
<1> HIDE DEF b, B0, type
<1>5. /\ num \in Nat /\ Len(l) \in Nat
      /\ \A i \in 1 .. Len(l) : l[i] \in 1 .. V
      /\ \A i \in 1 .. num : block[i] \in 1 .. V
  <2>1. Len(l) \in Nat /\ num \in Nat
    BY <1>2
  <2>2. \A i \in 1 .. Len(l) : l[i] \in Vertex
    OBVIOUS
  <2>3. \A i \in 1 .. num : block[i] \in Vertex
    BY <1>2
  <2> QED BY <2>1, <2>2, <2>3 DEF Vertex
<1>6. /\ BlockFindSIMD(c, B0, b, num, w) = RightAnswer(block, w)
      /\ BlockFind(c, B0, b, num, w) = RightAnswer(block, w)
  <2>1. SortedList(block)
    <3> SUFFICES ASSUME NEW i \in 1 .. num, NEW j \in 1 .. num, i <= j
                 PROVE  block[i] <= block[j]
      BY DEF SortedList
    <3>1. a + i \in 1 .. Len(l) /\ a + j \in 1 .. Len(l) /\ a + i <= a + j
      BY <1>2, <1>5
    <3>2. l[a + i] <= l[a + j]
      BY <3>1 DEF SortedList
    <3> QED BY <1>2, <3>2
  <2>2. block \in Seq(Nat) /\ w \in Nat /\ w > 0 /\ num <= num
    BY <1>1, <1>2, <1>5, IdsInSlots
  <2>3. ZeroFrom(c, B0, b, Len(block), num)
    BY <1>5 DEF ZeroFrom
  <2>4. Len(block) <= num /\ num \in Nat /\ b \in Nat /\ B0 \in Nat /\ Holds(c, B0, b, block)
    BY <1>1, <1>3, <1>5
  <2> HIDE DEF num
  <2>5. /\ BlockFindSIMD(c, B0, b, num, w) = RightAnswer(block, w)
        /\ SortedList(block) => BlockFind(c, B0, b, num, w) = RightAnswer(block, w)
    BY ONLY <2>2, <2>3, <2>4, BlockFindFacts, SMTT(30)
  <2> QED BY <2>1, <2>5, Zenon
<1>7. num > 0 => slot(0) = block[1] /\ slot(num - 1) = block[num]
  <2> SUFFICES ASSUME num > 0
               PROVE  slot(0) = block[1] /\ slot(num - 1) = block[num]
    OBVIOUS
  <2>1. 1 \in 1 .. num /\ num \in 1 .. num /\ 1 - 1 = 0
    BY <1>5
  <2>2. BlockGet(c, B0 + (1 - 1) * b, b) = block[1] /\ BlockGet(c, B0 + (num - 1) * b, b) = block[num]
    BY <1>3, <2>1 DEF Holds
  <2> QED BY <2>1, <2>2
<1> HIDE DEF slot
<1>8. /\ num = 0 => min = 0 /\ max = 0
      /\ num > 0 => /\ min = IF type = H!LeftMost THEN 0 ELSE block[1]
                    /\ max = IF type = H!RightMost THEN V + 1 ELSE block[num]
  <2>1. num = 0 => min = 0 /\ max = 0
    BY <1>3 DEF slot, H!Middle, H!LeftMost, H!RightMost
  <2> QED BY <1>7, <2>1
<1>9. H!NonNeighborTest(c, w) = IF w >= min /\ w <= max THEN RightAnswer(block, w) ELSE hashed
  BY <1>3, <1>6, SameBits DEF H!NonNeighborTest, H!Upper, slot, b, B0, type
<1>10. H!DecodedTest(c, H!Decode(c), w)
         = IF (w - min) % HybridWord <= (max - min) % HybridWord THEN RightAnswer(block, w) ELSE hashed
  <2> DEFINE dmin == IF num = 0 \/ type = H!LeftMost THEN 0 ELSE BlockGet(c, B0, b)
             dmax == IF num = 0 THEN 0 ELSE IF type = H!RightMost THEN V + 1
                     ELSE BlockGet(c, B0 + (num - 1) * b, b)
  <2>1. H!Decode(c) = [decodable |-> FALSE, block_num |-> num, hash_begin |-> hb, min |-> dmin, max |-> dmax]
    BY <1>3, SameBits, Zenon DEF H!Decode, H!Upper, b, B0, type
  <2>2. dmin = min /\ dmax = max
    <3>1. CASE num = 0
      BY <1>8, <3>1
    <3>2. CASE num # 0
      <4>1. B0 + 0 * b = B0
        BY <1>1
      <4>2. BlockGet(c, B0, b) = block[1] /\ BlockGet(c, B0 + (num - 1) * b, b) = block[num]
        BY <1>5, <1>7, <3>2, <4>1 DEF slot
      <4> QED BY <1>5, <1>8, <3>2, <4>2
    <3> QED BY <3>1, <3>2
  <2> HIDE DEF dmin, dmax, min, max, hb
  <2>3. /\ H!Decode(c).decodable = FALSE /\ H!Decode(c).block_num = num /\ H!Decode(c).hash_begin = hb
        /\ H!Decode(c).min = min /\ H!Decode(c).max = max
    BY <2>1, <2>2
  <2> QED BY <1>6, <2>3, SameBits DEF H!DecodedTest, b, B0
<1>11. min \in 0 .. V /\ max \in min .. V + 1
  <2>1. CASE num = 0
    BY <1>1, <1>8, <2>1
  <2>2. CASE num # 0
    <3>1. 1 \in 1 .. num /\ num \in 1 .. num /\ num > 0
      BY <1>5, <2>2
    <3>2. block[1] \in 1 .. V /\ block[num] \in 1 .. V
      BY <1>5, <3>1
    <3>3. block[1] <= block[num]
      <4>1. a + 1 \in 1 .. Len(l) /\ a + num \in 1 .. Len(l) /\ a + 1 <= a + num
        BY <1>2, <1>5, <3>1
      <4>2. l[a + 1] <= l[a + num]
        BY <4>1 DEF SortedList
      <4> QED BY <1>2, <3>1, <4>2
    <3> HIDE DEF min, max
    <3> QED BY <1>1, <1>8, <3>1, <3>2, <3>3
  <2> QED BY <2>1, <2>2
<1> HIDE DEF min, max
<1>12. H!DecodedTest(c, H!Decode(c), w) = H!NonNeighborTest(c, w)
  <2>1. (w - min) % HybridWord <= (max - min) % HybridWord <=> w >= min /\ w <= max
    BY <1>11, UnsignedRange
  <2> QED BY <1>9, <1>10, <2>1
<1>13. \A i \in 1 .. num : a + i \in 1 .. Len(l) /\ block[i] = l[a + i]
  BY <1>2, <1>5
<1>14. ASSUME w >= min, w <= max
       PROVE  RightAnswer(block, w) = RightAnswer(l, w)
  <2>0. num > 0
    BY <1>1, <1>5, <1>8, <1>14
  <2>1. Names(block, w) => Names(l, w)
    BY <1>13 DEF Names
  <2>2. ASSUME NEW j \in 1 .. Len(l), l[j] = w
        PROVE  Names(block, w)
    <3>1. CASE j \in a + 1 .. a + num
      <4>1. j - a \in 1 .. num /\ a + (j - a) = j
        BY <1>2, <1>5, <3>1
      <4>2. block[j - a] = w
        BY <1>2, <2>2, <4>1
      <4> QED BY <4>1, <4>2 DEF Names
    <3>2. CASE j < a + 1
      <4>1. a # 0 /\ a + 1 \in 1 .. Len(l) /\ j <= a + 1 /\ 1 \in 1 .. num
        BY <1>2, <1>5, <2>0, <3>2
      <4>2. l[j] <= l[a + 1] /\ block[1] = l[a + 1]
        BY <1>2, <4>1 DEF SortedList
      <4>3. min = block[1]
        BY <1>3, <1>8, <2>0, <4>1
      <4>4. block[1] \in Nat /\ w \in Nat
        BY <1>1, <1>5, <4>1
      <4>5. block[1] = w
        BY <1>14, <2>2, <4>2, <4>3, <4>4
      <4> QED BY <4>1, <4>5 DEF Names
    <3>3. CASE j > a + num
      <4>1. a + num # Len(l) /\ a + num \in 1 .. Len(l) /\ a + num <= j /\ num \in 1 .. num
        BY <1>2, <1>5, <2>0, <3>3
      <4>2. l[a + num] <= l[j] /\ block[num] = l[a + num]
        BY <1>2, <4>1 DEF SortedList
      <4>3. max = block[num]
        BY <1>3, <1>8, <2>0, <4>1
      <4>4. block[num] \in Nat /\ w \in Nat
        BY <1>1, <1>5, <4>1
      <4>5. block[num] = w
        BY <1>14, <2>2, <4>2, <4>3, <4>4
      <4> QED BY <4>1, <4>5 DEF Names
    <3> QED BY <1>2, <1>5, <3>1, <3>2, <3>3
  <2>3. Names(block, w) <=> Names(l, w)
    BY <2>1, <2>2 DEF Names
  <2> QED BY <2>3 DEF RightAnswer
<1>15. ASSUME ~ (w >= min /\ w <= max)
       PROVE  hashed \in {RightAnswer(l, w), Uncertain}
  <2>1. ASSUME Names(l, w)
        PROVE  hashed = Uncertain
    <3>1. PICK j \in 1 .. Len(l) : l[j] = w
      BY <2>1 DEF Names
    <3>2. j \notin a + 1 .. a + num
      <4> SUFFICES ASSUME j \in a + 1 .. a + num
                   PROVE  FALSE
        OBVIOUS
      <4> DEFINE i == j - a
      <4>1. i \in 1 .. num /\ a + i = j /\ num > 0 /\ 1 \in 1 .. num /\ num \in 1 .. num
        BY <1>2, <1>5
      <4>2. /\ a + 1 \in 1 .. Len(l) /\ a + num \in 1 .. Len(l)
            /\ a + 1 <= j /\ j <= a + num
        BY <1>13, <4>1
      <4>3. l[a + 1] <= w /\ w <= l[a + num]
        BY <3>1, <4>2 DEF SortedList
      <4>4. block[1] <= w /\ w <= block[num]
        BY <1>13, <4>1, <4>3
      <4>5. min = 0 \/ min = block[1]
        BY <1>8, <4>1
      <4>6. max = V + 1 \/ max = block[num]
        BY <1>8, <4>1
      <4> QED BY <1>1, <1>15, <4>4, <4>5, <4>6
    <3> QED BY <1>4, <3>1, <3>2
  <2>2. CASE Names(l, w)
    BY <2>1, <2>2
  <2>3. CASE ~ Names(l, w)
    BY <2>3 DEF RightAnswer
  <2> QED BY <2>2, <2>3
<1>16. H!NonNeighborTest(c, w) \in {RightAnswer(l, w), Uncertain}
  <2> HIDE DEF hashed
  <2> QED BY <1>9, <1>14, <1>15
<1> QED BY <1>3, <1>6, <1>12, <1>16 DEF b, B0

(* What EncodeVertex of HybridEncode leaves of a list, in all. *)
LEMMA HybridCode ==
  ASSUME HybridRoom, NEW l \in Seq(Vertex), SortedList(l), NEW c, c = H!EncodeVertex({}, l)
  PROVE  /\ c \in SUBSET (0 .. HybridBits - 1)
         /\ H!IsDecodable(c) <=> Len(l) <= H!MaxKCoreSize
         /\ \A w \in Vertex :
              /\ Len(l) <= H!MaxKCoreSize => H!NonNeighborTest(c, w) = RightAnswer(l, w)
              /\ H!NonNeighborTest(c, w) \in {RightAnswer(l, w), Uncertain}
              /\ H!DecodedTest(c, H!Decode(c), w) = H!NonNeighborTest(c, w)
<1>1. CASE Len(l) <= H!MaxKCoreSize
  <2>1. c \in SUBSET (0 .. HybridBits - 1)
    BY <1>1, HybridStored
  <2>2. 0 \in c
    BY <1>1, HybridStored
  <2>3. H!IsDecodable(c)
    BY <2>2 DEF H!IsDecodable
  <2>4. \A w \in Vertex : H!NonNeighborTest(c, w) = RightAnswer(l, w)
    BY <1>1, HybridFullTest
  <2>5. \A w \in Vertex : H!DecodedTest(c, H!Decode(c), w) = H!NonNeighborTest(c, w)
    BY <2>3, Zenon DEF H!DecodedTest, H!Decode, H!NonNeighborTest
  <2> QED BY <1>1, <2>1, <2>3, <2>4, <2>5
<1>2. CASE Len(l) > H!MaxKCoreSize
  <2>1. PICK a, block : Summary(c, l, a, block)
    BY <1>2, HybridSummary
  <2>2. /\ c \in SUBSET (0 .. HybridBits - 1) /\ ~ H!IsDecodable(c)
    BY <2>1 DEF Summary
  <2>3. \A w \in Vertex :
          /\ H!NonNeighborTest(c, w) \in {RightAnswer(l, w), Uncertain}
          /\ H!DecodedTest(c, H!Decode(c), w) = H!NonNeighborTest(c, w)
    BY <2>1, HybridSummaryTest
  <2>4. ~ (Len(l) <= H!MaxKCoreSize)
    BY <1>2, HybridSizes DEF HybridRoom
  <2> QED BY <2>2, <2>3, <2>4
<1>3. Len(l) <= H!MaxKCoreSize \/ Len(l) > H!MaxKCoreSize
  BY HybridSizes DEF HybridRoom
<1> QED BY <1>1, <1>2, <1>3
-----------------------------------------------------------------------------
(* The codes of HybridEncode for the two ends of a pair. *)
HybridHolds(codes, u, L) ==
  L \in Seq(Vertex) /\ SortedList(L) /\ codes[u] = H!EncodeVertex({}, L)

HybridCovers(codes, u, v, L, M) ==
  /\ HybridHolds(codes, u, L) /\ HybridHolds(codes, v, M)
  /\ \/ Names(L, v) /\ Names(M, u)
     \/ Names(L, v) /\ Len(L) <= H!MaxIntegerSize
     \/ Names(M, u) /\ Len(M) <= H!MaxIntegerSize

(* The numeric minimum of two answers. *)
LEMMA SameMin == \A a, b : H!MinType(a, b) = MinType(a, b)
BY DEF H!MinType, MinType

(* The answers about a pair of which either end has a list. *)
LEMMA HybridHeld ==
  ASSUME HybridRoom, NEW codes, NEW L, NEW u, NEW w \in Vertex, HybridHolds(codes, u, L)
  PROVE  LET answer == H!NonNeighborTest(codes[u], w)
             whole  == H!IsDecodable(codes[u])
         IN  /\ answer = Neighbor \/ answer = NonNeighbor \/ answer = Uncertain
             /\ answer = Neighbor => Names(L, w)
             /\ answer = NonNeighbor => ~ Names(L, w)
             /\ whole => answer # Uncertain
             /\ ~ whole => Len(L) > H!MaxIntegerSize
             /\ Len(L) <= H!MaxIntegerSize => whole
             /\ H!DecodedTest(codes[u], H!Decode(codes[u]), w) = answer
<1> DEFINE answer == H!NonNeighborTest(codes[u], w)
           whole  == H!IsDecodable(codes[u])
           told   == RightAnswer(L, w)
<1>1. L \in Seq(Vertex) /\ SortedList(L) /\ codes[u] = H!EncodeVertex({}, L)
  BY DEF HybridHolds
<1>2. /\ whole <=> Len(L) <= H!MaxKCoreSize
      /\ Len(L) <= H!MaxKCoreSize => answer = told
      /\ answer \in {told, Uncertain}
      /\ H!DecodedTest(codes[u], H!Decode(codes[u]), w) = answer
  BY <1>1, HybridCode, Zenon
<1>3. told = IF Names(L, w) THEN Neighbor ELSE NonNeighbor
  BY DEF RightAnswer
<1>4. /\ Len(L) \in Nat /\ H!MaxIntegerSize \in Nat /\ H!MaxKCoreSize \in Nat
      /\ H!MaxIntegerSize <= H!MaxKCoreSize
  BY <1>1, HybridSizes DEF HybridRoom
<1> HIDE DEF answer, whole, told
<1>5. /\ answer = Neighbor \/ answer = NonNeighbor \/ answer = Uncertain
      /\ answer = Neighbor => Names(L, w)
      /\ answer = NonNeighbor => ~ Names(L, w)
      /\ whole => answer # Uncertain
  BY <1>2, <1>3 DEF Neighbor, NonNeighbor, Uncertain
<1>6. /\ ~ whole => Len(L) > H!MaxIntegerSize
      /\ Len(L) <= H!MaxIntegerSize => whole
  BY <1>2, <1>4
<1> QED BY <1>2, <1>5, <1>6 DEF answer, whole

(* The pair test of HybridEncode denies no pair that its codes cover. *)
LEMMA HybridKeepsEdges ==
  ASSUME HybridRoom
  PROVE  \A codes, L, M : \A u, v \in Vertex :
           u # v /\ HybridCovers(codes, u, v, L, M) => NonNeighbor # H!NEpairTest(codes, u, v)
<1> SUFFICES ASSUME NEW codes, NEW L, NEW M, NEW u \in Vertex, NEW v \in Vertex, u # v,
                    HybridCovers(codes, u, v, L, M)
             PROVE  NonNeighbor # H!NEpairTest(codes, u, v)
  OBVIOUS
<1> DEFINE a == H!NonNeighborTest(codes[u], v)
           b == H!NonNeighborTest(codes[v], u)
           p == H!IsDecodable(codes[u])
           q == H!IsDecodable(codes[v])
<1>1. HybridHolds(codes, u, L) /\ HybridHolds(codes, v, M)
  BY DEF HybridCovers
<1>2. \/ Names(L, v) /\ Names(M, u)
      \/ Names(L, v) /\ Len(L) <= H!MaxIntegerSize
      \/ Names(M, u) /\ Len(M) <= H!MaxIntegerSize
  BY DEF HybridCovers
<1>3. /\ a = Neighbor \/ a = NonNeighbor \/ a = Uncertain
      /\ a = NonNeighbor => ~ Names(L, v)
      /\ p => a # Uncertain
      /\ Len(L) <= H!MaxIntegerSize => p
  BY <1>1, HybridHeld
<1>4. /\ b = Neighbor \/ b = NonNeighbor \/ b = Uncertain
      /\ b = NonNeighbor => ~ Names(M, u)
      /\ q => b # Uncertain
      /\ Len(M) <= H!MaxIntegerSize => q
  BY <1>1, HybridHeld
<1>5. H!NEpairTest(codes, u, v) = IF p = q THEN MinType(a, b) ELSE IF p THEN a ELSE b
  BY SameMin DEF H!NEpairTest
<1>6. p \in BOOLEAN /\ q \in BOOLEAN
  BY ONLY TRUE DEF H!IsDecodable
<1> HIDE DEF a, b, p, q
<1>7. (IF p = q THEN MinType(a, b) ELSE IF p THEN a ELSE b) # NonNeighbor
  BY <1>2, <1>3, <1>4, <1>6 DEF MinType, Neighbor, NonNeighbor, Uncertain
<1> QED BY <1>5, <1>7

(* It affirms no pair that neither list names. *)
LEMMA HybridAddsNone ==
  ASSUME HybridRoom
  PROVE  \A codes, L, M : \A u, v \in Vertex :
           u # v /\ HybridHolds(codes, u, L) /\ HybridHolds(codes, v, M) /\ Neighbor = H!NEpairTest(codes, u, v)
             => Names(L, v) \/ Names(M, u)
<1> SUFFICES ASSUME NEW codes, NEW L, NEW M, NEW u \in Vertex, NEW v \in Vertex, u # v,
                    HybridHolds(codes, u, L), HybridHolds(codes, v, M), Neighbor = H!NEpairTest(codes, u, v)
             PROVE  Names(L, v) \/ Names(M, u)
  OBVIOUS
<1> DEFINE a == H!NonNeighborTest(codes[u], v)
           b == H!NonNeighborTest(codes[v], u)
<1>1. a = Neighbor => Names(L, v)
  BY HybridHeld
<1>2. b = Neighbor => Names(M, u)
  BY HybridHeld
<1>3. MinType(a, b) = Neighbor \/ a = Neighbor \/ b = Neighbor
  BY SameMin DEF H!NEpairTest
<1> HIDE DEF a, b
<1> QED BY <1>1, <1>2, <1>3 DEF MinType

(* The ways to ask about a pair agree: two codes of which neither is decodable are of lists    *)
(* that name each other's vertex both or neither, so the first answer other    *)
(* than Uncertain is the smaller of the two.                                   *)
LEMMA PathsAgreeOn ==
  ASSUME HybridRoom, NEW code, NEW u \in Vertex, NEW v \in Vertex, NEW L, NEW M,
         HybridHolds(code, u, L), HybridHolds(code, v, M),
         Len(L) > H!MaxIntegerSize /\ Len(M) > H!MaxIntegerSize => (Names(L, v) <=> Names(M, u))
  PROVE  /\ H!NEpairTest(code, u, v) = H!NEpairTest(code, v, u)
         /\ H!DecodedNEpairTest(code, u, v) = H!NEpairTest(code, u, v)
<1> DEFINE a == H!NonNeighborTest(code[u], v)
           b == H!NonNeighborTest(code[v], u)
           p == H!IsDecodable(code[u])
           q == H!IsDecodable(code[v])
<1>1. /\ a = Neighbor \/ a = NonNeighbor \/ a = Uncertain
      /\ a = Neighbor => Names(L, v)
      /\ a = NonNeighbor => ~ Names(L, v)
      /\ p => a # Uncertain
      /\ ~ p => Len(L) > H!MaxIntegerSize
      /\ H!DecodedTest(code[u], H!Decode(code[u]), v) = a
  BY HybridHeld
<1>2. /\ b = Neighbor \/ b = NonNeighbor \/ b = Uncertain
      /\ b = Neighbor => Names(M, u)
      /\ b = NonNeighbor => ~ Names(M, u)
      /\ q => b # Uncertain
      /\ ~ q => Len(M) > H!MaxIntegerSize
      /\ H!DecodedTest(code[v], H!Decode(code[v]), u) = b
  BY HybridHeld
<1>3. p \in BOOLEAN /\ q \in BOOLEAN
  BY ONLY TRUE DEF H!IsDecodable
<1>4. /\ H!NEpairTest(code, u, v) = IF p = q THEN MinType(a, b) ELSE IF p THEN a ELSE b
      /\ H!NEpairTest(code, v, u) = IF q = p THEN MinType(b, a) ELSE IF q THEN b ELSE a
  BY SameMin DEF H!NEpairTest
<1>5. H!Decode(code[u]).decodable = p /\ H!Decode(code[v]).decodable = q
  BY <1>3, Zenon DEF H!Decode
<1>6. H!DecodedNEpairTest(code, u, v)
        = CASE p /\ ~ q  -> a
            [] ~ p /\ q  -> b
            [] p /\ q    -> IF a = Neighbor THEN a ELSE b
            [] ~ p /\ ~ q -> IF a # Uncertain THEN a ELSE b
  BY <1>1, <1>2, <1>5, SameBits DEF H!DecodedNEpairTest
<1> HIDE DEF a, b, p, q
<1>7. MinType(a, b) = MinType(b, a)
  BY <1>1, <1>2 DEF MinType, Neighbor, NonNeighbor, Uncertain
<1>8. H!NEpairTest(code, u, v) = H!NEpairTest(code, v, u)
  BY <1>3, <1>4, <1>7
<1>9. p /\ q => MinType(a, b) = IF a = Neighbor THEN a ELSE b
  BY <1>1, <1>2 DEF MinType, Neighbor, NonNeighbor, Uncertain
<1>10. ~ p /\ ~ q => MinType(a, b) = IF a # Uncertain THEN a ELSE b
  BY <1>1, <1>2 DEF MinType, Neighbor, NonNeighbor, Uncertain
<1>11. H!DecodedNEpairTest(code, u, v) = IF p = q THEN MinType(a, b) ELSE IF p THEN a ELSE b
  BY <1>3, <1>6, <1>9, <1>10
<1> QED BY <1>4, <1>8, <1>11

(* The search that stops at a greater id and the one that compares every slot  *)
(* agree on a code of HybridEncode.                                            *)
LEMMA HybridSearches ==
  ASSUME HybridRoom, NEW l \in Seq(Vertex), SortedList(l), NEW c, c = H!EncodeVertex({}, l),
         NEW w \in Vertex
  PROVE  LET begin == IF H!IsDecodable(c) THEN 1 ELSE H!BlockBegin
             num   == IF H!IsDecodable(c) THEN H!MaxKCoreSize ELSE H!GetBlockNum(c)
         IN  BlockFindSIMD(c, begin, H!VBits, num, w) = BlockFind(c, begin, H!VBits, num, w)
<1>1. H!IsDecodable(c) <=> Len(l) <= H!MaxKCoreSize
  BY HybridCode
<1>2. CASE Len(l) <= H!MaxKCoreSize
  <2>1. /\ H!NonNeighborTest(c, w) = RightAnswer(l, w)
        /\ BlockFindSIMD(c, 1, H!VBits, H!MaxKCoreSize, w) = RightAnswer(l, w)
    BY <1>2, HybridFullTest
  <2>2. BlockFind(c, 1, H!VBits, H!MaxKCoreSize, w) = H!NonNeighborTest(c, w)
    BY <1>1, <1>2, SameBits, Zenon DEF H!NonNeighborTest
  <2> QED BY <1>1, <1>2, <2>1, <2>2
<1>3. CASE ~ (Len(l) <= H!MaxKCoreSize)
  <2>1. Len(l) > H!MaxKCoreSize
    BY <1>3, HybridSizes DEF HybridRoom
  <2>2. PICK a, block : Summary(c, l, a, block)
    BY <2>1, HybridSummary
  <2>3. BlockFindSIMD(c, H!BlockBegin, H!VBits, H!GetBlockNum(c), w)
          = BlockFind(c, H!BlockBegin, H!VBits, H!GetBlockNum(c), w)
    BY <2>2, HybridSummaryTest
  <2> QED BY <1>1, <1>3, <2>3
<1> QED BY <1>2, <1>3
=============================================================================
