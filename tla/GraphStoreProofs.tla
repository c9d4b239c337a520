-------------------------- MODULE GraphStoreProofs ---------------------------
(* Query runs over complete files count every pair rightly, and without kills  *)
(* the lists an index is built from name every edge equally often: for every   *)
(* graph file, any index types and any number of runs.                         *)
EXTENDS GraphStore, DataTheorems

(* Binary search.  The parts of s that std::lower_bound may still search for x *)
(* when at most m entries are left.                                            *)
Parts(s, x, m) ==
  {p \in [first : Nat, n : Nat] :
     /\ p.first >= 1 /\ p.first + p.n <= Len(s) + 1 /\ p.n <= m
     /\ \A i \in 1 .. Len(s) : i < p.first => s[i] < x
     /\ \A i \in 1 .. Len(s) : i >= p.first + p.n => s[i] >= x}

Ordered(s) == \A i, j \in 1 .. Len(s) : i <= j => s[i] <= s[j]

(* One round keeps to such a part, and makes it smaller. *)
LEMMA HalvedPart ==
  ASSUME NEW s \in Seq(Nat), NEW x \in Nat, Ordered(s), NEW m \in Nat,
         NEW p \in Parts(s, x, m + 1)
  PROVE  Halved(s, x, p) \in Parts(s, x, m)
<1> DEFINE from == p.first
           left == p.n
           half == left \div 2
           mid  == from + half
<1>1. /\ p \in [first : Nat, n : Nat] /\ Len(s) \in Nat
      /\ p.first \in Nat /\ p.n \in Nat /\ p.first >= 1 /\ p.first + p.n <= Len(s) + 1 /\ p.n <= m + 1
      /\ \A i \in 1 .. Len(s) : s[i] \in Nat
  BY DEF Parts
<1>2. /\ \A i \in 1 .. Len(s) : i < p.first => s[i] < x
      /\ \A i \in 1 .. Len(s) : i >= p.first + p.n => s[i] >= x
  BY DEF Parts
<1>3. CASE p.n = 0
  <2>1. Halved(s, x, p) = p
    BY <1>3 DEF Halved
  <2>2. p.n <= m
    BY <1>1, <1>3
  <2> QED BY <1>1, <1>2, <2>1, <2>2 DEF Parts
<1>4. CASE p.n # 0
  <2>1. /\ from \in Nat /\ left \in Nat /\ from >= 1 /\ from + left <= Len(s) + 1 /\ left <= m + 1
        /\ left # 0 /\ Len(s) \in Nat
    BY <1>1, <1>4
  <2> HIDE DEF from, left
  <2>2. half \in Nat /\ half < left
    BY <2>1
  <2> HIDE DEF half
  <2>3. mid \in 1 .. Len(s) /\ mid \in Nat /\ mid >= from
    BY <2>1, <2>2
  <2>4. CASE s[mid] < x
    <3> DEFINE q == [first |-> mid + 1, n |-> left - half - 1]
    <3>1. Halved(s, x, p) = q
      BY <1>4, <2>4 DEF Halved, half, from, left
    <3>2. q.first = mid + 1 /\ q.n = left - half - 1
      OBVIOUS
    <3>3. mid + 1 \in Nat /\ left - half - 1 \in Nat
      BY <2>1, <2>2, <2>3
    <3>4. q \in [first : Nat, n : Nat]
      BY <3>3
    <3> HIDE DEF q
    <3>5. q.first >= 1 /\ q.first + q.n <= Len(s) + 1 /\ q.n <= m /\ q.first + q.n = from + left
      BY <2>1, <2>2, <2>3, <3>2
    <3>6. ASSUME NEW i \in 1 .. Len(s), i < q.first
          PROVE  s[i] < x
      <4>1. i <= mid
        BY <2>3, <3>2, <3>6
      <4>2. s[i] <= s[mid] /\ s[i] \in Nat /\ s[mid] \in Nat
        BY <1>1, <2>3, <4>1 DEF Ordered
      <4> QED BY <2>4, <4>2
    <3>7. \A i \in 1 .. Len(s) : i >= q.first + q.n => s[i] >= x
      BY <1>2, <3>5 DEF from, left
    <3> QED BY <3>1, <3>4, <3>5, <3>6, <3>7 DEF Parts
  <2>5. CASE ~(s[mid] < x)
    <3> DEFINE q == [first |-> from, n |-> half]
    <3>1. Halved(s, x, p) = q
      BY <1>4, <2>5 DEF Halved, half, from, left
    <3>2. q.first = from /\ q.n = half
      OBVIOUS
    <3>3. q \in [first : Nat, n : Nat]
      BY <2>1, <2>2
    <3> HIDE DEF q
    <3>4. q.first >= 1 /\ q.first + q.n <= Len(s) + 1 /\ q.n <= m
      BY <2>1, <2>2, <3>2
    <3>5. \A i \in 1 .. Len(s) : i < q.first => s[i] < x
      BY <1>2, <3>2 DEF from
    <3>6. ASSUME NEW i \in 1 .. Len(s), i >= q.first + q.n
          PROVE  s[i] >= x
      <4>1. mid <= i
        BY <2>1, <2>2, <3>2, <3>6
      <4>2. s[mid] <= s[i] /\ s[i] \in Nat /\ s[mid] \in Nat
        BY <1>1, <2>3, <4>1 DEF Ordered
      <4> QED BY <2>5, <4>2
    <3> QED BY <3>1, <3>3, <3>4, <3>5, <3>6 DEF Parts
  <2> QED BY <2>4, <2>5
<1> QED BY <1>3, <1>4

(* std::lower_bound separates the entries below x from the others. *)
LEMMA LowerBoundFacts ==
  ASSUME NEW s \in Seq(Nat), NEW x \in Nat, Ordered(s)
  PROVE  /\ LowerBound(s, x) \in 1 .. Len(s) + 1
         /\ \A i \in 1 .. Len(s) : i < LowerBound(s, x) <=> s[i] < x
<1> DEFINE n == Len(s)
           s0 == [first |-> 1, n |-> n]
           Step(p) == Halved(s, x, p)
           Rec(g) == g = [k \in 0 .. n |-> IF k = 0 THEN s0 ELSE Step(g[k - 1])]
           T == [k \in 0 .. n |-> Parts(s, x, n - k)]
<1>1. n \in Nat
  OBVIOUS
<1>2. s0 \in T[0]
  <2>1. s0 \in [first : Nat, n : Nat] /\ s0.first = 1 /\ s0.n = n
    BY <1>1
  <2> HIDE DEF s0
  <2>2. s0 \in Parts(s, x, n)
    BY <1>1, <2>1 DEF Parts
  <2>3. T[0] = Parts(s, x, n)
    BY <1>1
  <2> QED BY <2>2, <2>3
<1>3. ASSUME NEW k \in 1 .. n, NEW p \in T[k - 1]
      PROVE  Step(p) \in T[k]
  <2>1. n - k \in Nat /\ n - (k - 1) = (n - k) + 1 /\ k \in 0 .. n /\ k - 1 \in 0 .. n
    BY <1>1
  <2>2. p \in Parts(s, x, (n - k) + 1)
    BY <2>1
  <2>3. Halved(s, x, p) \in Parts(s, x, n - k)
    BY <2>1, <2>2, HalvedPart
  <2> QED BY <2>1, <2>3
<1> HIDE DEF T, Step, s0
<1> DEFINE F0 == [k \in 1 .. n |-> [p \in T[k - 1] |-> Step(p)]]
<1>4. \A k \in 1 .. n : \A p \in T[k - 1] : F0[k][p] = Step(p)
  OBVIOUS
<1>5. \A k \in 1 .. n : \A p \in T[k - 1] : F0[k][p] \in T[k]
  BY <1>3, <1>4
<1> HIDE DEF F0, n
<1>6. PICK h : IsRun(h, n, T, F0, s0)
  BY <1>1, <1>2, <1>5, LoopRuns
<1>7. Rec(h)
  <2>1. ASSUME NEW k \in 0 .. n
        PROVE  h[k] = IF k = 0 THEN s0 ELSE Step(h[k - 1])
    <3>1. CASE k = 0
      BY <3>1, <1>6 DEF IsRun
    <3>2. CASE k # 0
      <4>1. k \in 1 .. n /\ k - 1 \in 0 .. n
        BY <1>1, <3>2
      <4> QED BY <4>1, <1>4, <1>6, <3>2 DEF IsRun
    <3> QED BY <3>1, <3>2
  <2> QED BY <1>6, <2>1 DEF IsRun
<1> DEFINE g == CHOOSE f : Rec(f)
<1>8. Rec(g)
  <2> HIDE DEF Rec
  <2> QED BY <1>7
<1>9. LowerBound(s, x) = g[n].first
  BY DEF LowerBound, Step, n, s0
<1> HIDE DEF g
<1>10. \A k \in 0 .. n : g[k] \in T[k]
  <2>1. g[0] \in T[0]
    BY <1>1, <1>2, <1>8
  <2>2. ASSUME NEW k \in 1 .. n, g[k - 1] \in T[k - 1]
        PROVE  g[k] \in T[k]
    <3>1. g[k] = Step(g[k - 1])
      BY <1>1, <1>8
    <3> QED BY <1>3, <2>2, <3>1
  <2> QED BY <1>1, <2>1, <2>2, LoopInvariant
<1>11. g[n] \in Parts(s, x, 0)
  <2>1. n \in 0 .. n /\ n - n = 0
    BY <1>1
  <2>2. T[n] = Parts(s, x, n - n)
    BY <2>1 DEF T
  <2> QED BY <1>10, <2>1, <2>2
<1> DEFINE lb == g[n].first
<1>12. /\ lb \in Nat /\ lb >= 1 /\ g[n].n \in Nat /\ lb + g[n].n <= Len(s) + 1 /\ g[n].n <= 0
       /\ \A i \in 1 .. Len(s) : i < lb => s[i] < x
       /\ \A i \in 1 .. Len(s) : i >= lb + g[n].n => s[i] >= x
  BY <1>11 DEF Parts
<1> HIDE DEF lb
<1>13. Len(s) \in Nat /\ lb \in 1 .. Len(s) + 1 /\ lb + g[n].n = lb /\ \A i \in 1 .. Len(s) : s[i] \in Nat
  BY <1>1, <1>12 DEF n
<1>14. ASSUME NEW i \in 1 .. Len(s)
       PROVE  i < lb <=> s[i] < x
  <2>1. i >= lb => s[i] >= x
    BY <1>12, <1>13
  <2>2. i < lb => s[i] < x
    BY <1>12
  <2>3. s[i] \in Nat /\ i \in Nat /\ lb \in Nat
    BY <1>12, <1>13
  <2> QED BY <2>1, <2>2, <2>3
<1> QED BY <1>9, <1>13, <1>14 DEF lb

(* std::binary_search finds what an ordered list holds. *)
LEMMA SearchFinds ==
  ASSUME NEW s \in Seq(Nat), NEW x \in Nat, Ordered(s)
  PROVE  BinarySearch(s, x) <=> Names(s, x)
<1> DEFINE lb == LowerBound(s, x)
<1>1. lb \in 1 .. Len(s) + 1 /\ \A i \in 1 .. Len(s) : i < lb <=> s[i] < x
  BY LowerBoundFacts
<1>2. Len(s) \in Nat /\ \A i \in 1 .. Len(s) : s[i] \in Nat
  OBVIOUS
<1> HIDE DEF lb
<1>3. BinarySearch(s, x) <=> lb <= Len(s) /\ s[lb] = x
  BY DEF BinarySearch, lb
<1>4. ASSUME NEW i \in 1 .. Len(s), s[i] = x
      PROVE  lb <= Len(s) /\ s[lb] = x
  <2>1. ~(i < lb) /\ lb <= i
    BY <1>1, <1>2, <1>4
  <2>2. lb \in 1 .. Len(s)
    BY <1>1, <1>2, <2>1
  <2>3. s[lb] <= x /\ ~(s[lb] < x) /\ s[lb] \in Nat
    BY <1>1, <1>2, <1>4, <2>1, <2>2 DEF Ordered
  <2> QED BY <2>2, <2>3
<1>5. lb <= Len(s) /\ s[lb] = x => Names(s, x)
  BY <1>1, <1>2 DEF Names
<1>6. Names(s, x) => lb <= Len(s) /\ s[lb] = x
  BY <1>4 DEF Names
<1> QED BY <1>3, <1>5, <1>6
-----------------------------------------------------------------------------
(* Counting one entry further. *)
LEMMA CountsOn ==
  ASSUME NEW list, NEW e, NEW k \in Nat
  PROVE  EqualUpTo(list, e, k + 1) = EqualUpTo(list, e, k) + (IF list[k + 1] = e THEN 1 ELSE 0)
<1> DEFINE j == k + 1
<1>1. j \in Nat \ {0} /\ j - 1 = k
  OBVIOUS
<1> HIDE DEF j
<1>2. EqualUpTo(list, e, j) = EqualUpTo(list, e, j - 1) + (IF list[j] = e THEN 1 ELSE 0)
  BY <1>1, EqualNext
<1> QED BY <1>1, <1>2 DEF j

(* A list that is appended to names what both name. *)
LEMMA TimesConcat ==
  ASSUME NEW S, NEW a \in Seq(S), NEW b \in Seq(S), NEW e
  PROVE  Times(a \o b, e) = Times(a, e) + Times(b, e)
<1> DEFINE c == a \o b
           la == Len(a)
           lb == Len(b)
           K == {k \in Nat : k <= la => EqualUpTo(c, e, k) = EqualUpTo(a, e, k)}
           L == {k \in Nat : k <= lb => EqualUpTo(c, e, la + k) = EqualUpTo(a, e, la) + EqualUpTo(b, e, k)}
<1>1. /\ c \in Seq(S) /\ la \in Nat /\ lb \in Nat /\ Len(c) = la + lb
      /\ \A k \in 1 .. la : c[k] = a[k]
      /\ \A k \in 1 .. lb : c[la + k] = b[k]
  OBVIOUS
<1> HIDE DEF c, la, lb
<1>2. \A k \in Nat : k \in K
  <2>1. 0 \in K
    BY EqualNext
  <2>2. ASSUME NEW k \in K
        PROVE  k + 1 \in K
    <3>1. k \in Nat /\ k + 1 \in Nat \ {0} /\ (k + 1) - 1 = k
      OBVIOUS
    <3>2. SUFFICES ASSUME k + 1 <= la
                   PROVE  EqualUpTo(c, e, k + 1) = EqualUpTo(a, e, k + 1)
      BY <3>1
    <3>3. k <= la /\ k + 1 \in 1 .. la
      BY <1>1, <3>1, <3>2
    <3>4. c[k + 1] = a[k + 1] /\ EqualUpTo(c, e, k) = EqualUpTo(a, e, k)
      BY <1>1, <3>3
    <3>5. /\ EqualUpTo(c, e, k + 1) = EqualUpTo(c, e, k) + (IF c[k + 1] = e THEN 1 ELSE 0)
          /\ EqualUpTo(a, e, k + 1) = EqualUpTo(a, e, k) + (IF a[k + 1] = e THEN 1 ELSE 0)
      BY <3>1, CountsOn
    <3> QED BY <3>4, <3>5
  <2> HIDE DEF K
  <2>3. K \in SUBSET Nat
    BY DEF K
  <2> QED BY <2>1, <2>2, <2>3, SetInduction
<1>3. \A k \in Nat : k \in L
  <2>1. 0 \in L
    <3>1. la + 0 = la /\ EqualUpTo(c, e, la) = EqualUpTo(a, e, la)
      BY <1>1, <1>2
    <3>2. EqualUpTo(b, e, 0) = 0 /\ EqualUpTo(a, e, la) \in Nat
      BY <1>1, EqualNext
    <3> QED BY <3>1, <3>2
  <2>2. ASSUME NEW k \in L
        PROVE  k + 1 \in L
    <3>1. k \in Nat /\ k + 1 \in Nat \ {0} /\ (k + 1) - 1 = k
      OBVIOUS
    <3>2. SUFFICES ASSUME k + 1 <= lb
                   PROVE  EqualUpTo(c, e, la + (k + 1)) = EqualUpTo(a, e, la) + EqualUpTo(b, e, k + 1)
      BY <3>1
    <3>3. k <= lb /\ k + 1 \in 1 .. lb /\ la + (k + 1) \in Nat \ {0} /\ (la + (k + 1)) - 1 = la + k /\ la + k \in Nat
      BY <1>1, <3>1, <3>2
    <3>4. c[la + (k + 1)] = b[k + 1] /\ EqualUpTo(c, e, la + k) = EqualUpTo(a, e, la) + EqualUpTo(b, e, k)
      BY <1>1, <3>3
    <3>5. /\ EqualUpTo(c, e, la + (k + 1)) = EqualUpTo(c, e, la + k) + (IF c[la + (k + 1)] = e THEN 1 ELSE 0)
          /\ EqualUpTo(b, e, k + 1) = EqualUpTo(b, e, k) + (IF b[k + 1] = e THEN 1 ELSE 0)
      <4>1. la + (k + 1) = (la + k) + 1
        BY <1>1, <3>1
      <4> DEFINE j == la + k
      <4>2. j \in Nat
        BY <3>3
      <4> HIDE DEF j
      <4>3. EqualUpTo(c, e, j + 1) = EqualUpTo(c, e, j) + (IF c[j + 1] = e THEN 1 ELSE 0)
        BY <4>2, CountsOn
      <4>4. EqualUpTo(b, e, k + 1) = EqualUpTo(b, e, k) + (IF b[k + 1] = e THEN 1 ELSE 0)
        BY <3>1, CountsOn
      <4> QED BY <4>1, <4>3, <4>4 DEF j
    <3>6. EqualUpTo(a, e, la) \in Nat /\ EqualUpTo(b, e, k) \in Nat
      BY <1>1, <3>1, EqualNext
    <3> QED BY <3>4, <3>5, <3>6
  <2> HIDE DEF L
  <2>3. L \in SUBSET Nat
    BY DEF L
  <2> QED BY <2>1, <2>2, <2>3, SetInduction
<1>4. EqualUpTo(c, e, la + lb) = EqualUpTo(a, e, la) + EqualUpTo(b, e, lb)
  BY <1>1, <1>3
<1> QED BY <1>1, <1>4, TimesNat DEF c, la, lb

Linked(u, v) == u # v /\ {u, v} \in file

(* Sorting the lists of the database keeps what they name. *)
LEMMA LoadedFromDb ==
  ASSUME V \in Nat, db \in [Vertex -> Seq(Vertex)]
  PROVE  /\ LoadDataFromDb \in [Vertex -> Seq(Vertex)]
         /\ \A v \in Vertex : Ordered(LoadDataFromDb[v])
         /\ \A u, v \in Vertex : Times(LoadDataFromDb[u], v) = Times(db[u], v)
<1>1. Vertex \in SUBSET Int
  BY DEF Vertex
<1>2. ASSUME NEW v \in Vertex
      PROVE  /\ Sorted(db[v]) \in Seq(Vertex) /\ Ordered(Sorted(db[v]))
             /\ \A e : Times(Sorted(db[v]), e) = Times(db[v], e)
  <2>1. db[v] \in Seq(Vertex)
    OBVIOUS
  <2> QED BY <1>1, <2>1, SortedFacts DEF Ordered
<1> QED BY <1>2 DEF LoadDataFromDb

(* LoadData adds one entry for each edge. *)
LEMMA LoadedData ==
  ASSUME V \in Nat, NEW lists \in [Vertex -> Seq(Vertex)]
  PROVE  /\ LoadData(lists) \in [Vertex -> Seq(Vertex)]
         /\ \A u, v \in Vertex : Times(LoadData(lists)[u], v) = Times(lists[u], v) + (IF Linked(u, v) THEN 1 ELSE 0)
<1>1. Vertex \in SUBSET Int
  BY DEF Vertex
<1>2. ASSUME NEW u \in Vertex
      PROVE  /\ Sorted(lists[u] \o Ascending(Neighbours(u))) \in Seq(Vertex)
             /\ \A v \in Vertex : Times(Sorted(lists[u] \o Ascending(Neighbours(u))), v)
                                    = Times(lists[u], v) + (IF Linked(u, v) THEN 1 ELSE 0)
  <2> DEFINE N == Neighbours(u)
             A == Ascending(N)
             L == lists[u] \o A
  <2>1. L = lists[u] \o A /\ lists[u] \in Seq(Vertex)
    OBVIOUS
  <2>2. N \in SUBSET Vertex /\ N \in SUBSET Int
    BY <1>1 DEF Neighbours
  <2>3. \A v \in Vertex : v \in N <=> Linked(u, v)
    BY DEF Neighbours, Linked
  <2>4. IsFiniteSet(N)
    <3>1. IsFiniteSet(1 .. V)
      BY FS_Interval
    <3> QED BY <2>2, <3>1, FS_Subset DEF Vertex
  <2> HIDE DEF N
  <2>5. A \in Seq(N) /\ \A e : Times(A, e) = IF e \in N THEN 1 ELSE 0
    BY <2>2, <2>4, AscendingFacts
  <2> HIDE DEF A
  <2>6. A \in Seq(Vertex)
    <3>1. A \in Seq(N)
      BY <2>5
    <3>2. \A k \in 1 .. Len(A) : A[k] \in N
      BY <3>1
    <3>3. \A k \in 1 .. Len(A) : A[k] \in Vertex
      BY <2>2, <3>2
    <3> QED BY <3>1, <3>3, ListOver
  <2> HIDE DEF L
  <2>7. L \in Seq(Vertex)
    BY <2>1, <2>6
  <2>8. \A e : Times(L, e) = Times(lists[u], e) + Times(A, e)
    BY <2>1, <2>6, TimesConcat
  <2>9. Sorted(L) \in Seq(Vertex) /\ \A e : Times(Sorted(L), e) = Times(L, e)
    BY <1>1, <2>7, SortedFacts
  <2>10. ASSUME NEW v \in Vertex
         PROVE  Times(Sorted(L), v) = Times(lists[u], v) + (IF Linked(u, v) THEN 1 ELSE 0)
    BY <2>3, <2>5, <2>8, <2>9
  <2> QED BY <2>9, <2>10 DEF L, A, N
<1> QED BY <1>2 DEF LoadData
-----------------------------------------------------------------------------
Runs == {"nothing", "save", "persist", "query"}

Lines(t) == encodes[t] \in Seq(Code(Vertex)) /\ Len(encodes[t]) <= V

(* What the variables range over. *)
Typed ==
  /\ file \in SUBSET PairsOf(Vertex)
  /\ db \in [Vertex -> Seq(Vertex)]
  /\ adj \in [Vertex -> Seq(Vertex)]
  /\ mem \in [Vertex -> Code(Vertex)]
  /\ next \in 1 .. V + 1
  /\ run \in [does : Runs, type : VendTypes \cup {NoVend}]
  /\ saved \in BOOLEAN /\ killed \in BOOLEAN
  /\ DOMAIN encodes = VendTypes
  /\ \A t \in VendTypes : encodes[t] = NoFile \/ Lines(t)

(* The codes when the vertices of P were peeled. *)
Peeled(P) ==
  [v \in Vertex |-> Encoded(v \in P, {w \in Neighbours(v) : w \notin P \/ (v \in P /\ v < w)})]

(* The lists name exactly the edges. *)
Exact(lists) == \A u, v \in Vertex : Times(lists[u], v) > 0 <=> Linked(u, v)

(* The database names nothing but edges: all of them, of the vertices written  *)
(* by the run and, once it has been written as a whole, of all.                *)
StoredEdges ==
  /\ \A u, v \in Vertex : Times(db[u], v) > 0 => Linked(u, v)
  /\ \A u, v \in Vertex : saved \/ (run.does = "save" /\ u < next) => (Linked(u, v) => Times(db[u], v) > 0)

(* A build works on the edges, a query on the lists of the database. *)
LoadedEdges ==
  /\ run.does \in {"save", "persist"} => Exact(adj)
  /\ run.does = "query" => adj = LoadDataFromDb

(* The lines of a file are codes of one build, also while they are written. *)
StoredCodes ==
  \A t \in VendTypes :
    encodes[t] # NoFile =>
      \E P \in SUBSET Vertex : \A v \in 1 .. Len(encodes[t]) : encodes[t][v] = Peeled(P)[v]

LoadedCodes ==
  /\ run.does = "persist" =>
       /\ run.type \in VendTypes /\ encodes[run.type] # NoFile
       /\ Len(encodes[run.type]) = next - 1
       /\ \A v \in 1 .. Len(encodes[run.type]) : encodes[run.type][v] = mem[v]
       /\ \E P \in SUBSET Vertex : mem = Peeled(P)
  /\ run.does = "query" => mem = IF run.type = NoVend THEN Blanks ELSE LoadEncode(run.type)

StoreInv == Typed /\ StoredEdges /\ LoadedEdges /\ StoredCodes /\ LoadedCodes

(* c copies of every edge, and of nothing else. *)
Copies(lists, u, c) == \A v \in Vertex : Times(lists[u], v) = IF Linked(u, v) THEN c ELSE 0

(* Every complete run of the build of NoVend makes one more than twice as many *)
(* copies of what there was.                                                   *)
CopiesAre(c) ==
  /\ \A u \in Vertex :
       Copies(db, u, IF run.does = "save" /\ u < next THEN c + (c + 1) ELSE c)
  /\ run.does \in {"save", "persist"} => \A u \in Vertex : Copies(adj, u, c + 1)

CopyInv == ~killed => \E c \in Nat : CopiesAre(c)

(* The data file stays as it is, and all that depends on nothing else. *)
LEMMA SameFile ==
  ASSUME [Next]_vars
  PROVE  /\ file' = file
         /\ \A u, v : Linked(u, v)' <=> Linked(u, v)
         /\ \A P : Peeled(P)' = Peeled(P)
<1>1. file' = file
  BY DEF Next, vars, Start, BuildStore, BuildIndex, Query, SaveVertex, PersistVertex, Done, Kill
<1> QED BY <1>1 DEF Linked, Peeled, Neighbours

(* The lists that a build works on. *)
LEMMA BuildLists ==
  ASSUME V \in Nat, Typed, StoredEdges
  PROVE  /\ LoadData(LoadDataFromDb) \in [Vertex -> Seq(Vertex)]
         /\ \A u, v \in Vertex :
              Times(LoadData(LoadDataFromDb)[u], v) = Times(db[u], v) + (IF Linked(u, v) THEN 1 ELSE 0)
         /\ Exact(LoadData(LoadDataFromDb))
<1> DEFINE L == LoadDataFromDb
           A == LoadData(L)
<1>1. L \in [Vertex -> Seq(Vertex)] /\ \A u, v \in Vertex : Times(L[u], v) = Times(db[u], v)
  BY LoadedFromDb DEF Typed
<1> HIDE DEF L
<1>2. /\ A \in [Vertex -> Seq(Vertex)]
      /\ \A u, v \in Vertex : Times(A[u], v) = Times(L[u], v) + (IF Linked(u, v) THEN 1 ELSE 0)
  BY <1>1, LoadedData
<1> HIDE DEF A
<1>3. \A u, v \in Vertex : Times(A[u], v) = Times(db[u], v) + (IF Linked(u, v) THEN 1 ELSE 0)
  BY <1>1, <1>2
<1>4. ASSUME NEW u \in Vertex, NEW v \in Vertex
      PROVE  Times(A[u], v) > 0 <=> Linked(u, v)
  <2>1. Times(db[u], v) \in Nat
    BY TimesNat DEF Typed
  <2>2. Times(db[u], v) > 0 => Linked(u, v)
    BY DEF StoredEdges
  <2>3. Times(A[u], v) = Times(db[u], v) + (IF Linked(u, v) THEN 1 ELSE 0)
    BY <1>3
  <2>4. CASE Linked(u, v)
    BY <2>1, <2>3, <2>4
  <2>5. CASE ~Linked(u, v)
    BY <2>1, <2>2, <2>3, <2>5
  <2> QED BY <2>4, <2>5
<1> QED BY <1>2, <1>3, <1>4 DEF A, L, Exact

(* What BuildEncoding makes of lists that name exactly the edges. *)
LEMMA BuildCodes ==
  ASSUME NEW lists \in [Vertex -> Seq(Vertex)], Exact(lists), NEW codes \in Encodings(lists)
  PROVE  codes \in [Vertex -> Code(Vertex)] /\ \E P \in SUBSET Vertex : codes = Peeled(P)
<1>1. PICK P \in SUBSET Vertex :
        codes = [v \in Vertex |->
                  Encoded(v \in P, {w \in Range(lists[v]) : w \notin P \/ (v \in P /\ v < w)})]
  BY DEF Encodings
<1>2. ASSUME NEW v \in Vertex
      PROVE  Range(lists[v]) = Neighbours(v)
  <2>1. lists[v] \in Seq(Vertex) /\ DOMAIN lists[v] = 1 .. Len(lists[v])
    OBVIOUS
  <2>2. \A w \in Vertex : (\E i \in 1 .. Len(lists[v]) : lists[v][i] = w) <=> Linked(v, w)
    BY <2>1, TimesNat DEF Exact
  <2>3. \A i \in 1 .. Len(lists[v]) : lists[v][i] \in Vertex
    BY <2>1
  <2>4. Range(lists[v]) = {lists[v][i] : i \in 1 .. Len(lists[v])}
    BY <2>1 DEF Range
  <2> QED BY <2>2, <2>3, <2>4 DEF Neighbours, Linked
<1>3. codes = Peeled(P)
  BY <1>1, <1>2 DEF Peeled
<1>4. Peeled(P) \in [Vertex -> Code(Vertex)]
  BY DEF Peeled, Code, Encoded, Neighbours
<1> QED BY <1>3, <1>4

(* LoadEncode leaves a code for every vertex. *)
LEMMA LoadedLines ==
  ASSUME Typed, NEW t \in VendTypes
  PROVE  LoadEncode(t) \in [Vertex -> Code(Vertex)]
<1>1. Blank \in Code(Vertex)
  BY DEF Blank, Code
<1>2. ASSUME NEW v \in Vertex, encodes[t] # NoFile, v <= Len(encodes[t])
      PROVE  encodes[t][v] \in Code(Vertex)
  <2>1. encodes[t] \in Seq(Code(Vertex))
    BY <1>2 DEF Typed, Lines
  <2>2. v \in 1 .. Len(encodes[t])
    BY <1>2, <2>1 DEF Vertex
  <2> HIDE DEF Code
  <2> QED BY <2>1, <2>2
<1> QED BY <1>1, <1>2 DEF LoadEncode

(* The first run starts with an empty database and no files. *)
LEMMA TypedInit ==
  ASSUME Init
  PROVE  Typed
<1>1. Blank \in Code(Vertex)
  BY DEF Blank, Code
<1>2. V \in Nat
  BY StoreAssumption
<1>3. <<>> \in Seq(Vertex)
  OBVIOUS
<1>4. NoLists \in [Vertex -> Seq(Vertex)] /\ Blanks \in [Vertex -> Code(Vertex)]
  BY <1>1, <1>3 DEF NoLists, Blanks
<1>5. Idle \in [does : Runs, type : VendTypes \cup {NoVend}] /\ 1 \in 1 .. V + 1
  BY <1>2 DEF Idle, Runs
<1> HIDE DEF NoLists, Blanks, Idle
<1> QED BY <1>4, <1>5 DEF Init, Typed

(* No step leaves the types; PersistVertex has a line left to write. *)
LEMMA TypedStep ==
  ASSUME StoreInv, [Next]_vars
  PROVE  Typed'
<1> USE DEF StoreInv
<1>1. V \in Nat
  BY StoreAssumption
<1>2. NoLists \in [Vertex -> Seq(Vertex)] /\ Blanks \in [Vertex -> Code(Vertex)]
  BY DEF NoLists, Blanks, Blank, Code
<1>3. Idle \in [does : Runs, type : VendTypes \cup {NoVend}] /\ 1 \in 1 .. V + 1
  BY <1>1 DEF Idle, Runs
<1>4. file' \in SUBSET PairsOf(Vertex)
  BY SameFile DEF Typed
<1>5. ASSUME NEW does \in Runs, NEW t \in VendTypes \cup {NoVend}, Start(does, t)
      PROVE  /\ run' \in [does : Runs, type : VendTypes \cup {NoVend}]
             /\ next' \in 1 .. V + 1 /\ db' \in [Vertex -> Seq(Vertex)]
             /\ saved' \in BOOLEAN /\ killed' \in BOOLEAN
  BY <1>3, <1>5 DEF Start, Typed
<1>6. /\ LoadData(LoadDataFromDb) \in [Vertex -> Seq(Vertex)] /\ Exact(LoadData(LoadDataFromDb))
      /\ LoadDataFromDb \in [Vertex -> Seq(Vertex)]
  BY <1>1, BuildLists, LoadedFromDb DEF Typed
<1>7. CASE BuildStore
  <2>1. Start("save", NoVend) /\ adj' = LoadData(LoadDataFromDb) /\ encodes' = encodes /\ mem' = mem
    BY <1>7 DEF BuildStore
  <2>2. "save" \in Runs
    BY DEF Runs
  <2> QED BY <1>4, <1>5, <1>6, <2>1, <2>2 DEF Typed, Lines
<1>8. CASE \E t \in VendTypes : BuildIndex(t)
  <2>1. PICK t \in VendTypes : BuildIndex(t)
    BY <1>8
  <2>2. /\ Start("persist", t) /\ adj' = LoadData(LoadDataFromDb) /\ mem' \in Encodings(adj')
        /\ encodes' = [encodes EXCEPT ![t] = <<>>]
    BY <2>1 DEF BuildIndex
  <2>3. "persist" \in Runs
    BY DEF Runs
  <2>4. mem' \in [Vertex -> Code(Vertex)]
    BY <1>6, <2>2, BuildCodes
  <2>5. DOMAIN encodes' = VendTypes /\ \A x \in VendTypes : encodes'[x] = IF x = t THEN <<>> ELSE encodes[x]
    BY <2>2 DEF Typed
  <2>6. <<>> \in Seq(Code(Vertex)) /\ Len(<<>>) <= V
    BY <1>1
  <2>7. \A x \in VendTypes : encodes'[x] = NoFile \/ Lines(x)'
    BY <2>5, <2>6 DEF Typed, Lines
  <2> HIDE DEF Code, Lines
  <2> QED BY <1>4, <1>5, <1>6, <2>2, <2>3, <2>4, <2>5, <2>7 DEF Typed
<1>9. CASE \E t \in VendTypes \cup {NoVend} : Query(t)
  <2>1. PICK t \in VendTypes \cup {NoVend} : Query(t)
    BY <1>9
  <2>2. /\ Start("query", t) /\ adj' = LoadDataFromDb /\ encodes' = encodes
        /\ mem' = IF t = NoVend THEN Blanks ELSE LoadEncode(t)
    BY <2>1 DEF Query
  <2>3. "query" \in Runs
    BY DEF Runs
  <2>4. mem' \in [Vertex -> Code(Vertex)]
    BY <1>2, <2>2, LoadedLines
  <2> QED BY <1>4, <1>5, <1>6, <2>2, <2>3, <2>4 DEF Typed, Lines
<1>10. CASE SaveVertex
  <2>1. next \in Vertex /\ next + 1 \in 1 .. V + 1
    BY <1>1, <1>10 DEF SaveVertex, Typed, Vertex
  <2>2. db[next] \o adj[next] \in Seq(Vertex)
    BY <2>1 DEF Typed
  <2>3. db' \in [Vertex -> Seq(Vertex)]
    BY <1>10, <2>1, <2>2 DEF SaveVertex, Typed
  <2> QED BY <1>4, <1>10, <2>1, <2>3 DEF SaveVertex, Typed, Lines
<1>11. CASE PersistVertex
  <2> DEFINE t == run.type
  <2>1. next \in Vertex /\ next + 1 \in 1 .. V + 1
    BY <1>1, <1>11 DEF PersistVertex, Typed, Vertex
  <2>2. t \in VendTypes /\ encodes[t] # NoFile /\ Len(encodes[t]) = next - 1
    BY <1>11 DEF PersistVertex, LoadedCodes
  <2>3. encodes[t] \in Seq(Code(Vertex)) /\ mem[next] \in Code(Vertex)
    BY <2>1, <2>2 DEF Typed, Lines
  <2>4. /\ Append(encodes[t], mem[next]) \in Seq(Code(Vertex))
        /\ Len(Append(encodes[t], mem[next])) = Len(encodes[t]) + 1
    BY <2>3
  <2>5. Len(Append(encodes[t], mem[next])) <= V
    BY <1>1, <2>1, <2>2, <2>4 DEF Vertex
  <2>6. DOMAIN encodes' = VendTypes
        /\ \A x \in VendTypes : encodes'[x] = IF x = t THEN Append(encodes[t], mem[next]) ELSE encodes[x]
    BY <1>11, <2>2 DEF PersistVertex, Typed
  <2> HIDE DEF t
  <2>7. \A x \in VendTypes : encodes'[x] = NoFile \/ Lines(x)'
    BY <2>4, <2>5, <2>6 DEF Typed, Lines
  <2> HIDE DEF Lines, Code
  <2> QED BY <1>4, <1>11, <2>1, <2>6, <2>7 DEF PersistVertex, Typed
<1>12. CASE Done
  BY <1>2, <1>3, <1>4, <1>12 DEF Done, Exit, Typed, Lines
<1>13. CASE Kill
  BY <1>2, <1>3, <1>4, <1>13 DEF Kill, Exit, Typed, Lines
<1>14. CASE UNCHANGED vars
  BY <1>14 DEF vars, Typed, Lines
<1> QED BY <1>7, <1>8, <1>9, <1>10, <1>11, <1>12, <1>13, <1>14 DEF Next

(* What a run does to the database. *)
LEMMA EdgesStep ==
  ASSUME StoreInv, [Next]_vars
  PROVE  StoredEdges' /\ LoadedEdges'
<1> USE DEF StoreInv
<1>1. V \in Nat
  BY StoreAssumption
<1>2. \A u, v : Linked(u, v)' <=> Linked(u, v)
  BY SameFile
<1>3. ASSUME NEW does, NEW t, Start(does, t)
      PROVE  /\ run'.does = does /\ run'.type = t /\ next' = 1 /\ db' = db /\ saved' = saved
             /\ StoredEdges'
  <2>1. run'.does = does /\ run'.type = t /\ next' = 1 /\ db' = db /\ saved' = saved
    BY <1>3 DEF Start
  <2>2. \A u \in Vertex : ~(u < 1)
    BY <1>1 DEF Vertex
  <2> QED BY <1>2, <2>1, <2>2 DEF StoredEdges
<1>4. Exact(LoadData(LoadDataFromDb))
  BY <1>1, BuildLists
<1>5. adj' = LoadData(LoadDataFromDb) => Exact(adj)'
  <2> DEFINE A == LoadData(LoadDataFromDb)
  <2>1. \A u, v \in Vertex : Times(A[u], v) > 0 <=> Linked(u, v)
    BY <1>4 DEF Exact
  <2> HIDE DEF A
  <2>2. SUFFICES ASSUME adj' = A PROVE Exact(adj)'
    BY DEF A
  <2> QED BY <1>2, <2>1, <2>2 DEF Exact
<1>6. CASE BuildStore
  BY <1>3, <1>5, <1>6 DEF BuildStore, LoadedEdges
<1>7. CASE \E t \in VendTypes : BuildIndex(t)
  BY <1>3, <1>5, <1>7 DEF BuildIndex, LoadedEdges
<1>8. CASE \E t \in VendTypes \cup {NoVend} : Query(t)
  BY <1>3, <1>8 DEF Query, LoadedEdges, LoadDataFromDb
<1>9. CASE SaveVertex
  <2>1. run.does = "save" /\ run' = run /\ adj' = adj /\ saved' = saved /\ next' = next + 1
    BY <1>9 DEF SaveVertex
  <2>2. next \in Vertex /\ next \in Nat
    BY <1>1, <1>9 DEF SaveVertex, Typed, Vertex
  <2>3. Exact(adj)
    BY <2>1 DEF LoadedEdges
  <2>4. \A u, v \in Vertex : Times(db'[u], v) = IF u = next THEN Times(db[u], v) + Times(adj[u], v) ELSE Times(db[u], v)
    BY <1>9, <2>2, TimesConcat DEF SaveVertex, Typed
  <2>5. ASSUME NEW u \in Vertex, NEW v \in Vertex
        PROVE  /\ Times(db'[u], v) > 0 => Linked(u, v)
               /\ saved \/ u < next + 1 => (Linked(u, v) => Times(db'[u], v) > 0)
    <3>1. Times(db[u], v) \in Nat /\ Times(adj[u], v) \in Nat
      BY TimesNat DEF Typed
    <3>2. Times(adj[u], v) > 0 <=> Linked(u, v)
      BY <2>3 DEF Exact
    <3>3. Times(db[u], v) > 0 => Linked(u, v)
      BY DEF StoredEdges
    <3>4. saved \/ u < next => (Linked(u, v) => Times(db[u], v) > 0)
      BY <2>1 DEF StoredEdges
    <3>5. u < next + 1 <=> u < next \/ u = next
      BY <1>1, <2>2 DEF Vertex
    <3>6. CASE u = next
      <4>1. Times(db'[u], v) = Times(db[u], v) + Times(adj[u], v)
        BY <2>4, <3>6
      <4> QED BY <3>1, <3>2, <3>3, <4>1
    <3>7. CASE u # next
      <4>1. Times(db'[u], v) = Times(db[u], v)
        BY <2>4, <3>7
      <4> QED BY <3>3, <3>4, <3>5, <3>7, <4>1
    <3> QED BY <3>6, <3>7
  <2>6. StoredEdges'
    BY <1>2, <2>1, <2>5 DEF StoredEdges
  <2>7. LoadedEdges'
    BY <1>2, <2>1, <2>3 DEF LoadedEdges, Exact
  <2> QED BY <2>6, <2>7
<1>10. CASE PersistVertex
  BY <1>2, <1>10 DEF PersistVertex, StoredEdges, LoadedEdges, Exact
<1>11. CASE Done
  <2>1. run' = Idle /\ db' = db /\ saved' = (saved \/ run.does = "save")
    BY <1>11 DEF Done, Exit
  <2>2. run'.does = "nothing"
    BY <2>1 DEF Idle
  <2>3. LoadedEdges'
    BY <2>2 DEF LoadedEdges
  <2>4. run.does = "save" => next = V + 1
    BY <1>11 DEF Done
  <2>5. run.does = "save" => \A u \in Vertex : u < next
    BY <1>1, <2>4 DEF Vertex
  <2>6. StoredEdges'
    BY <1>2, <2>1, <2>2, <2>5 DEF StoredEdges
  <2> QED BY <2>3, <2>6
<1>12. CASE Kill
  <2>1. run' = Idle /\ db' = db /\ saved' = saved
    BY <1>12 DEF Kill, Exit
  <2>2. run'.does = "nothing"
    BY <2>1 DEF Idle
  <2> QED BY <1>2, <2>1, <2>2 DEF StoredEdges, LoadedEdges
<1>13. CASE UNCHANGED vars
  BY <1>2, <1>13 DEF vars, StoredEdges, LoadedEdges, Exact, LoadDataFromDb
<1> QED BY <1>6, <1>7, <1>8, <1>9, <1>10, <1>11, <1>12, <1>13 DEF Next

(* What a run does to the files of encodings. *)
LEMMA CodesStep ==
  ASSUME StoreInv, [Next]_vars
  PROVE  StoredCodes' /\ LoadedCodes'
<1> USE DEF StoreInv
<1>1. V \in Nat
  BY StoreAssumption
<1>2. \A P : Peeled(P)' = Peeled(P)
  BY SameFile
<1>3. encodes' = encodes => StoredCodes'
  BY <1>2 DEF StoredCodes
<1>4. ASSUME NEW does, NEW t, Start(does, t)
      PROVE  run'.does = does /\ run'.type = t /\ next' = 1
  BY <1>4 DEF Start
<1>5. CASE BuildStore
  <2>1. run'.does = "save" /\ encodes' = encodes
    BY <1>4, <1>5 DEF BuildStore
  <2> QED BY <1>3, <2>1 DEF LoadedCodes
<1>6. CASE \E t \in VendTypes : BuildIndex(t)
  <2>1. PICK t \in VendTypes : BuildIndex(t)
    BY <1>6
  <2>2. /\ Start("persist", t) /\ adj' = LoadData(LoadDataFromDb) /\ mem' \in Encodings(adj')
        /\ encodes' = [encodes EXCEPT ![t] = <<>>]
    BY <2>1 DEF BuildIndex
  <2>3. run'.does = "persist" /\ run'.type = t /\ next' = 1
    BY <1>4, <2>2
  <2>4. LoadData(LoadDataFromDb) \in [Vertex -> Seq(Vertex)] /\ Exact(LoadData(LoadDataFromDb))
    BY <1>1, BuildLists
  <2>5. PICK P \in SUBSET Vertex : mem' = Peeled(P)
    BY <2>2, <2>4, BuildCodes
  <2>6. \A x \in VendTypes : encodes'[x] = IF x = t THEN <<>> ELSE encodes[x]
    BY <2>2 DEF Typed
  <2>7. encodes'[t] # NoFile
    <3>1. <<>> \in Seq(Code(Vertex))
      OBVIOUS
    <3> QED BY <2>6, <3>1, StoreAssumption
  <2>8. Len(encodes'[t]) = 0 /\ 1 .. 0 = {}
    BY <2>6
  <2>9. LoadedCodes'
    BY <1>2, <2>3, <2>5, <2>7, <2>8 DEF LoadedCodes
  <2>10. StoredCodes'
    <3>1. ASSUME NEW x \in VendTypes, encodes'[x] # NoFile
          PROVE  \E Q \in SUBSET Vertex : \A v \in 1 .. Len(encodes'[x]) : encodes'[x][v] = Peeled(Q)[v]
      <4>1. CASE x = t
        BY <2>8, <4>1
      <4>2. CASE x # t
        BY <2>6, <3>1, <4>2 DEF StoredCodes
      <4> QED BY <4>1, <4>2
    <3> QED BY <1>2, <3>1 DEF StoredCodes
  <2> QED BY <2>9, <2>10
<1>7. CASE \E t \in VendTypes \cup {NoVend} : Query(t)
  <2>1. PICK t \in VendTypes \cup {NoVend} : Query(t)
    BY <1>7
  <2>2. run'.does = "query" /\ run'.type = t /\ encodes' = encodes
    BY <1>4, <2>1 DEF Query
  <2>3. mem' = IF t = NoVend THEN Blanks ELSE LoadEncode(t)
    BY <2>1 DEF Query
  <2>4. LoadedCodes'
    BY <2>2, <2>3 DEF LoadedCodes, LoadEncode, Blanks
  <2> QED BY <1>3, <2>2, <2>4
<1>8. CASE SaveVertex
  <2>1. run'.does = "save" /\ encodes' = encodes
    BY <1>8 DEF SaveVertex
  <2> QED BY <1>3, <2>1 DEF LoadedCodes
<1>9. CASE PersistVertex
  <2> DEFINE t == run.type
             more == Append(encodes[t], mem[next])
  <2>1. run.does = "persist" /\ run' = run /\ mem' = mem /\ next' = next + 1
    BY <1>9 DEF PersistVertex
  <2>2. next \in Vertex /\ next \in Nat
    BY <1>1, <1>9 DEF PersistVertex, Typed, Vertex
  <2>3. /\ t \in VendTypes /\ encodes[t] # NoFile /\ Len(encodes[t]) = next - 1
        /\ \A v \in 1 .. Len(encodes[t]) : encodes[t][v] = mem[v]
    BY <2>1 DEF LoadedCodes
  <2>4. PICK P \in SUBSET Vertex : mem = Peeled(P)
    BY <2>1 DEF LoadedCodes
  <2>5. encodes[t] \in Seq(Code(Vertex)) /\ mem[next] \in Code(Vertex)
    BY <2>2, <2>3 DEF Typed, Lines
  <2>6. \A x \in VendTypes : encodes'[x] = IF x = t THEN more ELSE encodes[x]
    BY <1>9, <2>3 DEF PersistVertex, Typed
  <2>7. /\ more \in Seq(Code(Vertex)) /\ Len(more) = Len(encodes[t]) + 1
        /\ \A v \in 1 .. Len(encodes[t]) : more[v] = encodes[t][v]
        /\ more[Len(encodes[t]) + 1] = mem[next]
    BY <2>5
  <2>8. more # NoFile
    BY <2>7, StoreAssumption
  <2> HIDE DEF more
  <2>9. Len(more) = next /\ Len(more) = (next + 1) - 1
    BY <2>2, <2>3, <2>7
  <2>10. \A v \in 1 .. Len(more) : more[v] = mem[v]
    <3>1. \A v \in 1 .. next : v \in 1 .. next - 1 \/ v = next
      BY <2>2
    <3>2. (next - 1) + 1 = next
      BY <2>2
    <3> QED BY <2>3, <2>7, <2>9, <3>1, <3>2
  <2> HIDE DEF t
  <2>11. LoadedCodes'
    <3>1. run'.does = "persist" /\ run'.type = t /\ encodes'[t] = more
      BY <2>1, <2>3, <2>6 DEF t
    <3> QED BY <1>2, <2>1, <2>3, <2>4, <2>8, <2>9, <2>10, <3>1 DEF LoadedCodes
  <2>12. StoredCodes'
    <3>1. ASSUME NEW x \in VendTypes, encodes'[x] # NoFile
          PROVE  \E Q \in SUBSET Vertex : \A v \in 1 .. Len(encodes'[x]) : encodes'[x][v] = Peeled(Q)[v]
      <4>1. CASE x = t
        BY <2>4, <2>6, <2>10, <4>1
      <4>2. CASE x # t
        BY <2>6, <3>1, <4>2 DEF StoredCodes
      <4> QED BY <4>1, <4>2
    <3> QED BY <1>2, <3>1 DEF StoredCodes
  <2> QED BY <2>11, <2>12
<1>10. CASE Done \/ Kill
  <2>1. run'.does = "nothing" /\ encodes' = encodes
    BY <1>10 DEF Done, Kill, Exit, Idle
  <2> QED BY <1>3, <2>1 DEF LoadedCodes
<1>11. CASE UNCHANGED vars
  BY <1>2, <1>3, <1>11 DEF vars, LoadedCodes, LoadEncode, Blanks
<1> QED BY <1>5, <1>6, <1>7, <1>8, <1>9, <1>10, <1>11 DEF Next

(* The invariant holds in every reachable state. *)
LEMMA StoreInvariant == Spec => []StoreInv
<1>1. Init => StoreInv
  <2>1. SUFFICES ASSUME Init PROVE StoreInv
    OBVIOUS
  <2>2. Typed
    BY <2>1, TypedInit
  <2>3. run.does = "nothing" /\ saved = FALSE
    BY <2>1 DEF Init, Idle
  <2>4. ASSUME NEW u \in Vertex, NEW v \in Vertex
        PROVE  ~(Times(db[u], v) > 0)
    <3>1. db[u] = <<>> /\ db[u] \in Seq(Vertex)
      BY <2>1, <2>2 DEF Init, NoLists, Typed
    <3>2. Len(db[u]) = 0 /\ 1 .. 0 = {}
      BY <3>1
    <3> QED BY <3>1, <3>2, TimesNat
  <2>5. StoredEdges
    BY <2>3, <2>4 DEF StoredEdges
  <2>6. StoredCodes
    BY <2>1 DEF Init, StoredCodes
  <2> QED BY <2>2, <2>3, <2>5, <2>6 DEF StoreInv, LoadedEdges, LoadedCodes
<1>2. StoreInv /\ [Next]_vars => StoreInv'
  BY TypedStep, EdgesStep, CodesStep DEF StoreInv
<1> QED BY <1>1, <1>2, PTL DEF Spec

(* The database and the lists in memory name vertices only, and no file gets   *)
(* more lines than there are vertices (SaveData, EncodePersistent).            *)
THEOREM StoreTypes == Spec => []TypeOK
<1>1. StoreInv => TypeOK
  BY DEF StoreInv, Typed, TypeOK, Lines
<1> QED BY <1>1, StoreInvariant, PTL
-----------------------------------------------------------------------------
(* A pair is counted by two codes of one build. *)
LEMMA PeeledAnswers ==
  ASSUME NEW P \in SUBSET Vertex, V \in Nat, NEW u \in Vertex, NEW v \in Vertex, u # v,
         NEW a \in PairAnswers(Peeled(P), u, v)
  PROVE  a = Uncertain \/ (a = Neighbor <=> Linked(u, v))
<1> DEFINE M == Peeled(P)
           cu == M[u]
           cv == M[v]
<1>1. Linked(u, v) <=> Linked(v, u)
  <2>1. {u, v} = {v, u}
    OBVIOUS
  <2> QED BY <2>1 DEF Linked
<1>2. /\ cu.dec <=> u \in P
      /\ cv.dec <=> v \in P
      /\ v \in cu.list <=> Linked(u, v) /\ (v \notin P \/ (u \in P /\ u < v))
      /\ u \in cv.list <=> Linked(u, v) /\ (u \notin P \/ (v \in P /\ v < u))
  BY <1>1 DEF Peeled, Encoded, Neighbours, Linked
<1>3. u < v \/ v < u
  BY DEF Vertex
<1>4. cu.dec # cv.dec => ~(u \in P <=> v \in P)
  <2>1. cu.dec = (u \in P) /\ cv.dec = (v \in P)
    BY DEF Peeled, Encoded
  <2> HIDE DEF cu, cv
  <2> QED BY <2>1
<1>5. a \in BothMin(Answers(cu, v), Answers(cv, u))
      \/ (cu.dec # cv.dec /\ a \in IF cu.dec THEN Answers(cu, v) ELSE Answers(cv, u))
  BY DEF PairAnswers, RangeNEpairTest, SIMDNEpairTest
<1> HIDE DEF cu, cv, M
<1>6. CASE a \in BothMin(Answers(cu, v), Answers(cv, u))
  <2>1. PICK x \in Answers(cu, v), y \in Answers(cv, u) : a = MinType(x, y)
    BY <1>6 DEF BothMin
  <2>2. /\ x = Uncertain \/ (x = Neighbor /\ v \in cu.list) \/ (x = NonNeighbor /\ v \notin cu.list)
        /\ y = Uncertain \/ (y = Neighbor /\ u \in cv.list) \/ (y = NonNeighbor /\ u \notin cv.list)
        /\ cu.dec => x # Uncertain
        /\ cv.dec => y # Uncertain
    BY <2>1 DEF Answers, Uncertain, Neighbor, NonNeighbor
  <2> QED BY <1>2, <1>3, <2>1, <2>2 DEF MinType, Uncertain, Neighbor, NonNeighbor
<1>7. CASE cu.dec # cv.dec /\ a \in IF cu.dec THEN Answers(cu, v) ELSE Answers(cv, u)
  BY <1>2, <1>3, <1>4, <1>7 DEF Answers, Uncertain, Neighbor, NonNeighbor
<1> QED BY <1>5, <1>6, <1>7

(* TestEdgeByAdj on the lists of a database that was written as a whole. *)
LEMMA AdjacencyTested ==
  ASSUME StoreInv, run.does = "query", saved, NEW u \in Vertex, NEW v \in Vertex, u # v
  PROVE  TestEdgeByAdj(u, v) <=> {u, v} \in file
<1>1. V \in Nat /\ db \in [Vertex -> Seq(Vertex)]
  BY StoreAssumption DEF StoreInv, Typed
<1>2. adj = LoadDataFromDb
  BY DEF StoreInv, LoadedEdges
<1>3. /\ adj \in [Vertex -> Seq(Vertex)]
      /\ \A x \in Vertex : Ordered(adj[x])
      /\ \A x, y \in Vertex : Times(adj[x], y) = Times(db[x], y)
  BY <1>1, <1>2, LoadedFromDb
<1>4. ASSUME NEW x \in Vertex, NEW y \in Vertex, x # y
      PROVE  BinarySearch(adj[x], y) <=> {x, y} \in file
  <2>1. adj[x] \in Seq(Vertex) /\ Ordered(adj[x]) /\ y \in Nat
    BY <1>1, <1>3 DEF Vertex
  <2>2. adj[x] \in Seq(Nat)
    <3>1. \A k \in 1 .. Len(adj[x]) : adj[x][k] \in Vertex
      BY <2>1
    <3>2. \A k \in 1 .. Len(adj[x]) : adj[x][k] \in Nat
      BY <1>1, <3>1 DEF Vertex
    <3> QED BY <2>1, <3>2, ListOver
  <2>3. BinarySearch(adj[x], y) <=> Names(adj[x], y)
    BY <2>1, <2>2, SearchFinds
  <2>4. Names(adj[x], y) <=> Times(db[x], y) > 0
    <3>1. Times(adj[x], y) > 0 <=> \E i \in 1 .. Len(adj[x]) : adj[x][i] = y
      BY <2>1, TimesNat
    <3>2. Times(adj[x], y) = Times(db[x], y)
      BY <1>3
    <3> QED BY <3>1, <3>2 DEF Names
  <2>5. Times(db[x], y) > 0 <=> Linked(x, y)
    BY DEF StoreInv, StoredEdges
  <2> QED BY <1>4, <2>3, <2>4, <2>5 DEF Linked
<1>5. {u, v} = {v, u}
  OBVIOUS
<1>6. (BinarySearch(adj[u], v) <=> {u, v} \in file) /\ (BinarySearch(adj[v], u) <=> {u, v} \in file)
  BY <1>4, <1>5
<1> QED BY <1>6 DEF TestEdgeByAdj

(* Once the database has been written as a whole, Execute counts every pair as *)
(* what it is in the data file: for NoVend, and for an index whose file is     *)
(* complete, after any sequence of builds, kills and rebuilds.                 *)
THEOREM QueriesExact == Spec => []QueryExact
<1>1. StoreInv => QueryExact
  <2> SUFFICES ASSUME StoreInv, run.does = "query", saved,
                      run.type # NoVend => encodes[run.type] # NoFile /\ Len(encodes[run.type]) = V,
                      NEW u \in Vertex, NEW v \in Vertex, u # v
               PROVE  Counted(u, v) = {{u, v} \in file}
    BY DEF QueryExact, Right
  <2>1. TestEdgeByAdj(u, v) <=> {u, v} \in file
    BY AdjacencyTested
  <2>2. TestEdgeByAdj(u, v) = ({u, v} \in file)
    <3>1. TestEdgeByAdj(u, v) \in BOOLEAN
      BY DEF TestEdgeByAdj, BinarySearch
    <3> HIDE DEF TestEdgeByAdj
    <3> QED BY <2>1, <3>1
  <2>3. CASE run.type = NoVend
    BY <2>2, <2>3 DEF Counted
  <2>4. CASE run.type # NoVend
    <3> DEFINE t == run.type
    <3>1. t \in VendTypes /\ encodes[t] # NoFile /\ Len(encodes[t]) = V
      BY <2>4 DEF StoreInv, Typed
    <3>2. PICK P \in SUBSET Vertex : \A w \in 1 .. Len(encodes[t]) : encodes[t][w] = Peeled(P)[w]
      BY <3>1 DEF StoreInv, StoredCodes
    <3>3. mem = LoadEncode(t)
      BY <2>4 DEF StoreInv, LoadedCodes
    <3>4. \A w \in Vertex : mem[w] = Peeled(P)[w]
      <4>1. \A w \in Vertex : w <= Len(encodes[t]) /\ w \in 1 .. Len(encodes[t])
        BY <3>1, StoreAssumption DEF Vertex
      <4> QED BY <3>1, <3>2, <3>3, <4>1 DEF LoadEncode
    <3>5. PairAnswers(mem, u, v) = PairAnswers(Peeled(P), u, v)
      BY <3>4 DEF PairAnswers, RangeNEpairTest, SIMDNEpairTest
    <3>6. ASSUME NEW a \in PairAnswers(mem, u, v)
          PROVE  (IF a = Uncertain THEN TestEdgeByAdj(u, v) ELSE a = Neighbor) = ({u, v} \in file)
      <4>1. a = Uncertain \/ (a = Neighbor <=> Linked(u, v))
        BY <3>5, PeeledAnswers, StoreAssumption
      <4>2. Linked(u, v) <=> {u, v} \in file
        BY DEF Linked
      <4> QED BY <2>2, <4>1, <4>2
    <3>7. PairAnswers(mem, u, v) # {}
      <4>1. PICK x, y : x \in Answers(mem[u], v) /\ y \in Answers(mem[v], u)
        BY DEF Answers
      <4>2. MinType(x, y) \in BothMin(Answers(mem[u], v), Answers(mem[v], u))
        BY <4>1 DEF BothMin
      <4> QED BY <4>2 DEF PairAnswers, RangeNEpairTest
    <3> HIDE DEF t
    <3> QED BY <2>4, <3>6, <3>7 DEF Counted
  <2> QED BY <2>3, <2>4
<1> QED BY <1>1, StoreInvariant, PTL
-----------------------------------------------------------------------------
(* One step multiplies the copies of all edges alike, or is a kill. *)
LEMMA CopyStep ==
  ASSUME StoreInv, CopyInv, [Next]_vars
  PROVE  CopyInv'
<1> USE DEF StoreInv
<1>1. V \in Nat
  BY StoreAssumption
<1>2. \A u, v : Linked(u, v)' <=> Linked(u, v)
  BY SameFile
<1>3. CASE killed'
  BY <1>3 DEF CopyInv
<1>4. CASE ~killed'
  <2>1. ~killed
    BY <1>4 DEF Next, vars, Start, BuildStore, BuildIndex, Query, SaveVertex, PersistVertex, Done, Kill
  <2>2. PICK c \in Nat : CopiesAre(c)
    BY <2>1 DEF CopyInv
  <2>3. SUFFICES \E d \in Nat : CopiesAre(d)'
    BY DEF CopyInv
  <2>4. \A u \in Vertex : ~(u < 1)
    BY <1>1 DEF Vertex
  <2>5. run.does # "save" => \A u, v \in Vertex : Times(db[u], v) = IF Linked(u, v) THEN c ELSE 0
    BY <2>2 DEF CopiesAre, Copies
  <2>6. ASSUME run = Idle, db' = db, next' = 1,
               run'.does \in {"save", "persist"} => adj' = LoadData(LoadDataFromDb)
        PROVE  CopiesAre(c)'
    <3>1. \A u, v \in Vertex : Times(db[u], v) = IF Linked(u, v) THEN c ELSE 0
      BY <2>5, <2>6 DEF Idle
    <3> DEFINE A == LoadData(LoadDataFromDb)
    <3>2. \A u, v \in Vertex : Times(A[u], v) = Times(db[u], v) + (IF Linked(u, v) THEN 1 ELSE 0)
      BY <1>1, BuildLists
    <3> HIDE DEF A
    <3>3. \A u, v \in Vertex : Times(A[u], v) = IF Linked(u, v) THEN c + 1 ELSE 0
      BY <3>1, <3>2
    <3>4. \A u \in Vertex : Copies(db, u, c)'
      BY <1>2, <2>6, <3>1 DEF Copies
    <3>5. run'.does \in {"save", "persist"} => \A u \in Vertex : Copies(adj, u, c + 1)'
      BY <1>2, <2>6, <3>3 DEF Copies, A
    <3> QED BY <2>4, <2>6, <3>4, <3>5 DEF CopiesAre
  <2>7. CASE BuildStore
    BY <2>6, <2>7 DEF BuildStore, Start
  <2>8. CASE \E t \in VendTypes : BuildIndex(t)
    BY <2>6, <2>8 DEF BuildIndex, Start
  <2>9. CASE \E t \in VendTypes \cup {NoVend} : Query(t)
    <3>1. run = Idle /\ db' = db /\ next' = 1 /\ run'.does = "query"
      BY <2>9 DEF Query, Start
    <3> QED BY <2>6, <3>1
  <2>10. CASE SaveVertex
    <3>1. run.does = "save" /\ run' = run /\ adj' = adj /\ next' = next + 1
      BY <2>10 DEF SaveVertex
    <3>2. next \in Vertex /\ next \in Nat
      BY <1>1, <2>10 DEF SaveVertex, Typed, Vertex
    <3>3. \A u, v \in Vertex : Times(db'[u], v) = IF u = next THEN Times(db[u], v) + Times(adj[u], v) ELSE Times(db[u], v)
      BY <2>10, <3>2, TimesConcat DEF SaveVertex, Typed
    <3>4. \A u, v \in Vertex : Times(adj[u], v) = IF Linked(u, v) THEN c + 1 ELSE 0
      BY <2>2, <3>1 DEF CopiesAre, Copies
    <3>5. \A u, v \in Vertex : Times(db[u], v) = IF Linked(u, v) THEN (IF u < next THEN c + (c + 1) ELSE c) ELSE 0
      BY <2>2, <3>1 DEF CopiesAre, Copies
    <3>6. ASSUME NEW u \in Vertex
          PROVE  Copies(db, u, IF u < next THEN c + (c + 1) ELSE c)'
      <4>1. u < next + 1 <=> u < next \/ u = next
        BY <1>1, <3>2 DEF Vertex
      <4>2. ~(next < next)
        BY <3>2
      <4>3. ASSUME NEW v \in Vertex
            PROVE  Times(db'[u], v) = IF Linked(u, v) THEN (IF u < next + 1 THEN c + (c + 1) ELSE c) ELSE 0
        <5>1. CASE u = next
          BY <3>3, <3>4, <3>5, <4>1, <4>2, <5>1
        <5>2. CASE u # next
          BY <3>3, <3>5, <4>1, <5>2
        <5> QED BY <5>1, <5>2
      <4> QED BY <1>2, <3>1, <4>3 DEF Copies
    <3>7. \A u \in Vertex : Copies(adj, u, c + 1)'
      BY <1>2, <3>1, <3>4 DEF Copies
    <3> QED BY <3>1, <3>6, <3>7 DEF CopiesAre
  <2>11. CASE PersistVertex
    <3>1. run.does = "persist" /\ run' = run /\ adj' = adj /\ db' = db
      BY <2>11 DEF PersistVertex
    <3>2. \A u \in Vertex : Copies(db, u, c) /\ Copies(adj, u, c + 1)
      BY <2>2, <3>1 DEF CopiesAre
    <3>3. \A u \in Vertex : Copies(db, u, c)' /\ Copies(adj, u, c + 1)'
      BY <1>2, <3>1, <3>2 DEF Copies
    <3> QED BY <3>1, <3>3 DEF CopiesAre
  <2>12. CASE Done
    <3>1. run'.does = "nothing" /\ db' = db
      BY <2>12 DEF Done, Exit, Idle
    <3>2. CASE run.does = "save"
      <4>1. next = V + 1 /\ \A u \in Vertex : u < next
        BY <1>1, <2>12, <3>2 DEF Done, Vertex
      <4>2. \A u \in Vertex : Copies(db, u, c + (c + 1))
        BY <2>2, <3>2, <4>1 DEF CopiesAre
      <4>3. \A u \in Vertex : Copies(db, u, c + (c + 1))'
        BY <1>2, <3>1, <4>2 DEF Copies
      <4>4. CopiesAre(c + (c + 1))'
        BY <3>1, <4>3 DEF CopiesAre
      <4> QED BY <4>4
    <3>3. CASE run.does # "save"
      <4>1. \A u \in Vertex : Copies(db, u, c)'
        BY <1>2, <2>5, <3>1, <3>3 DEF Copies
      <4>2. CopiesAre(c)'
        BY <3>1, <4>1 DEF CopiesAre
      <4> QED BY <4>2
    <3> QED BY <3>2, <3>3
  <2>13. CASE Kill
    BY <1>4, <2>13 DEF Kill
  <2>14. CASE UNCHANGED vars
    <3>1. CopiesAre(c)'
      BY <1>2, <2>2, <2>14 DEF CopiesAre, Copies, vars
    <3> QED BY <3>1
  <2> QED BY <2>7, <2>8, <2>9, <2>10, <2>11, <2>12, <2>13, <2>14 DEF Next
<1> QED BY <1>3, <1>4

(* As long as no run is killed, every edge has the same number of copies in    *)
(* the lists BuildEncoding works on, and nothing else has any: LoadData and    *)
(* SaveData append for all vertices alike, however often they are run.         *)
THEOREM CopiesUniform == Spec => []UniformCopies
<1>1. Init /\ StoreInv => CopyInv
  <2> SUFFICES ASSUME Init, StoreInv PROVE CopyInv
    OBVIOUS
  <2>1. ASSUME NEW u \in Vertex, NEW v \in Vertex
        PROVE  Times(db[u], v) = 0
    <3>1. db[u] = <<>> /\ db[u] \in Seq(Vertex)
      BY DEF Init, NoLists, StoreInv, Typed
    <3>2. Len(db[u]) = 0 /\ 1 .. 0 = {}
      BY <3>1
    <3>3. Times(db[u], v) \in Nat /\ ~(Times(db[u], v) > 0)
      BY <3>1, <3>2, TimesNat
    <3> QED BY <3>3
  <2>2. run.does = "nothing"
    BY DEF Init, Idle
  <2>3. CopiesAre(0)
    BY <2>1, <2>2 DEF CopiesAre, Copies
  <2> QED BY <2>3 DEF CopyInv
<1>2. StoreInv /\ CopyInv /\ [Next]_vars => CopyInv'
  BY CopyStep
<1>3. StoreInv /\ CopyInv => UniformCopies
  <2> SUFFICES ASSUME CopyInv, run.does = "persist", ~killed
               PROVE  \A u, v \in Vertex :
                        /\ Times(adj[u], v) > 0 <=> Linked(u, v)
                        /\ Linked(u, v) =>
                             \A x, y \in Vertex : Linked(x, y) => Times(adj[x], y) = Times(adj[u], v)
    BY DEF UniformCopies, Linked
  <2>1. PICK c \in Nat : CopiesAre(c)
    BY DEF CopyInv
  <2>2. \A u, v \in Vertex : Times(adj[u], v) = IF Linked(u, v) THEN c + 1 ELSE 0
    BY <2>1 DEF CopiesAre, Copies
  <2> QED BY <2>2
<1> QED BY <1>1, <1>2, <1>3, StoreInvariant, PTL DEF Spec
=============================================================================
