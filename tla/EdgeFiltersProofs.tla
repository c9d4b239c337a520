-------------------------- MODULE EdgeFiltersProofs --------------------------
(* Proofs about module EdgeFilters for every number of vertices, every graph,  *)
(* however often its lists were loaded, every size of the filters and any      *)
(* number of updates: the counters of BFilterIntEncode stay exact, and the bit *)
(* filters and the bit hash deny no edge of the graph they were built over.    *)
EXTENDS EdgeFilters, FiniteSetTheorems, TLAPS

Pairs == PairsOf(Vertex)

(* All entries of edges in lists. *)
EntrySet == Pairs \X (1 .. MaxCopies)

(* What the proofs need of the constants. *)
LEMMA Constants ==
  /\ V \in Nat /\ HashSize \in Nat /\ HashSize # 0
  /\ HashParams \in Seq(Nat \X Nat)
  /\ IntHashNums \in Nat /\ IntHashNums <= Len(HashParams)
  /\ MaxCopies \in Nat /\ Copies \subseteq [Vertex -> 1 .. MaxCopies]
<1>1. HashParams \in Seq(Nat \X Nat) /\ IntHashNums \in DOMAIN HashParams
  BY FilterAssumption
<1>2. IntHashNums \in Nat /\ IntHashNums <= Len(HashParams)
  BY <1>1
<1>3. MaxCopies \in Nat /\ Copies \subseteq [Vertex -> 1 .. MaxCopies]
  BY FilterAssumption DEF Vertex
<1> QED BY <1>1, <1>2, <1>3, FilterAssumption

(* The two ends of an edge are its smaller and its greater one. *)
LEMMA Ends ==
  ASSUME NEW e \in Pairs
  PROVE  Min(e) \in Vertex /\ Max(e) \in Vertex /\ Min(e) < Max(e) /\ e = {Min(e), Max(e)}
<1>1. PICK u \in Vertex, v \in Vertex : u # v /\ e = {u, v}
  BY DEF Pairs, PairsOf
<1>2. PICK a \in Vertex, b \in Vertex : a < b /\ e = {a, b}
  <2>1. u \in Int /\ v \in Int
    BY <1>1, Constants DEF Vertex
  <2>2. CASE u < v
    BY <1>1, <2>2
  <2>3. CASE v < u
    BY <1>1, <2>3
  <2> QED BY <1>1, <2>1, <2>2, <2>3
<1>3. a \in Int /\ b \in Int
  BY <1>2, Constants DEF Vertex
<1>4. Min(e) = a
  <2>1. a \in e /\ \A y \in e : a =< y
    BY <1>2, <1>3
  <2>2. \A x \in e : (\A y \in e : x =< y) => x = a
    BY <1>2, <1>3
  <2> QED BY <2>1, <2>2 DEF Min
<1>5. Max(e) = b
  <2>1. b \in e /\ \A y \in e : b >= y
    BY <1>2, <1>3
  <2>2. \A x \in e : (\A y \in e : x >= y) => x = b
    BY <1>2, <1>3
  <2> QED BY <2>1, <2>2 DEF Max
<1> QED BY <1>2, <1>4, <1>5

(* A hash value is a cell of the filter. *)
LEMMA HashInRange ==
  ASSUME NEW e \in Pairs, NEW i \in 1 .. IntHashNums
  PROVE  Hash(e, i) \in 0 .. HashSize - 1
<1>1. Min(e) \in Nat /\ Max(e) \in Nat
  <2>1. Min(e) \in Vertex /\ Max(e) \in Vertex
    BY Ends
  <2> QED BY <2>1, Constants DEF Vertex
<1>2. i \in 1 .. Len(HashParams)
  BY Constants
<1>3. HashParams[i][1] \in Nat /\ HashParams[i][2] \in Nat
  <2>1. HashParams[i] \in Nat \X Nat
    BY <1>2, Constants
  <2> QED BY <2>1
<1> DEFINE p == Min(e) * HashParams[i][1]
           q == Max(e) * HashParams[i][2]
<1>4. p \in Nat /\ q \in Nat
  BY <1>1, <1>3
<1>5. \A x \in Nat : x % HashSize \in 0 .. HashSize - 1
  BY Constants
<1> QED BY <1>4, <1>5 DEF Hash, Mix

(* The additions that Tally counts. *)
Additions(X, c) == {y \in X \X (1 .. IntHashNums) : Hash(y[1][1], y[2]) = c}

(* Entries and the additions to a cell are finitely many. *)
LEMMA FiniteAdditions ==
  ASSUME NEW X \in SUBSET EntrySet, NEW c
  PROVE  IsFiniteSet(Additions(X, c))
<1>1. IsFiniteSet(Vertex)
  BY FS_Interval, Constants DEF Vertex
<1>2. IsFiniteSet(SUBSET Vertex)
  BY <1>1, FS_SUBSET
<1>3. IsFiniteSet(Pairs)
  <2>1. Pairs \in SUBSET (SUBSET Vertex)
    BY DEF Pairs, PairsOf
  <2> QED BY <2>1, <1>2, FS_Subset
<1>4. IntHashNums \in Int /\ MaxCopies \in Int
  BY Constants
<1>5. IsFiniteSet(1 .. IntHashNums) /\ IsFiniteSet(1 .. MaxCopies)
  BY <1>4, FS_Interval
<1>6. IsFiniteSet(EntrySet)
  BY <1>3, <1>5, FS_Product, Zenon DEF EntrySet
<1>7. IsFiniteSet(X)
  BY <1>6, FS_Subset
<1>8. IsFiniteSet(X \X (1 .. IntHashNums))
  BY <1>5, <1>7, FS_Product, Zenon
<1>9. Additions(X, c) \in SUBSET (X \X (1 .. IntHashNums))
  BY DEF Additions
<1> QED BY <1>8, <1>9, FS_Subset

(* One more entry adds its own additions to a cell. *)
LEMMA TallyAdds ==
  ASSUME NEW X \in SUBSET EntrySet, NEW x \in EntrySet, x \notin X, NEW c
  PROVE  /\ Tally(X, c) \in Nat /\ Tally({x}, c) \in Nat
         /\ Tally(X \cup {x}, c) = Tally(X, c) + Tally({x}, c)
<1> DEFINE S == Additions(X, c)
           T == Additions({x}, c)
<1>1. IsFiniteSet(S) /\ IsFiniteSet(T)
  BY FiniteAdditions
<1>2. S \cap T = {}
  BY DEF Additions
<1>3. Additions(X \cup {x}, c) = S \cup T
  BY DEF Additions
<1>4. Cardinality(S \cup T) = Cardinality(S) + Cardinality(T) - Cardinality(S \cap T)
  BY <1>1, FS_Union
<1>5. Cardinality(S) \in Nat /\ Cardinality(T) \in Nat /\ Cardinality(S \cap T) = 0
  BY <1>1, <1>2, FS_CardinalityType, FS_EmptySet, Zenon
<1>6. Tally(X, c) = Cardinality(S) /\ Tally({x}, c) = Cardinality(T)
      /\ Tally(X \cup {x}, c) = Cardinality(Additions(X \cup {x}, c))
  BY DEF Tally, Additions
<1>7. Cardinality(S \cup T) = Cardinality(S) + Cardinality(T)
  BY <1>4, <1>5
<1> HIDE DEF S, T
<1> QED BY <1>3, <1>5, <1>6, <1>7, Zenon

(* A count is a number, and not zero when an entry has the cell. *)
LEMMA TallyNat ==
  ASSUME NEW X \in SUBSET EntrySet, NEW c
  PROVE  Tally(X, c) \in Nat /\ (\A x \in X : c \in IntCells(x[1]) => Tally(X, c) # 0)
<1>1. Tally(X, c) = Cardinality(Additions(X, c))
  BY DEF Tally, Additions
<1>2. IsFiniteSet(Additions(X, c))
  BY FiniteAdditions
<1>3. ASSUME NEW x \in X, c \in IntCells(x[1])
      PROVE  Additions(X, c) # {}
  <2>1. PICK i \in 1 .. IntHashNums : c = Hash(x[1], i)
    BY <1>3 DEF IntCells
  <2>2. <<x, i>> \in Additions(X, c)
    BY <2>1 DEF Additions
  <2> QED BY <2>2
<1> QED BY <1>1, <1>2, <1>3, FS_CardinalityType, FS_EmptySet

(* The entries that are to be counted; before any update they are those of the  *)
(* lists that are loaded.                                                       *)
LEMMA CountedEntries ==
  ASSUME db \in SUBSET Pairs, edges \in SUBSET Pairs, copies \in Copies
  PROVE  /\ Counted \in SUBSET EntrySet
         /\ \A e \in Pairs : <<e, 1>> \in EntrySet /\ (<<e, 1>> \in Counted <=> e \in edges)
         /\ edges = db => Counted = Entries(db)
<1>1. \A e \in Pairs : Min(e) \in Vertex /\ copies[Min(e)] \in 1 .. MaxCopies
  BY Ends, Constants
<1>2. \A e \in Pairs : 1 \in 1 .. MaxCopies /\ 1 <= copies[Min(e)]
  BY <1>1, Constants
<1>3. Counted \in SUBSET EntrySet
  BY <1>2 DEF Counted, Entries, EntrySet
<1>4. \A e \in Pairs : <<e, 1>> \in EntrySet /\ (<<e, 1>> \in Counted <=> e \in edges)
  BY <1>2 DEF Counted, Entries, EntrySet
<1>5. ASSUME edges = db PROVE Counted = Entries(db)
  <2>1. \A e \in db : <<e, 1>> \in Entries(db)
    BY <1>2 DEF Entries
  <2>2. Counted \subseteq Entries(db)
    BY <1>5, <2>1 DEF Counted
  <2>3. ASSUME NEW x \in Entries(db) PROVE x \in Counted
    <3>1. x = <<x[1], x[2]>> /\ x[1] \in db /\ x[2] \in 1 .. MaxCopies
      BY DEF Entries
    <3>2. x[2] = 1 \/ x[2] > 1
      BY <3>1, Constants
    <3> QED BY <1>5, <3>1, <3>2 DEF Counted
  <2> QED BY <2>2, <2>3
<1> QED BY <1>3, <1>4, <1>5
-----------------------------------------------------------------------------
CellRange == 0 .. HashSize - 1

(* The inductive invariant.  The graph may lose and regain edges of the        *)
(* database, so the bit filters cover the whole database, while the codes of   *)
(* BitHashEncode cover only what of it is left in the graph.                   *)
FilterInv ==
  /\ db \in SUBSET Pairs /\ edges \in SUBSET Pairs /\ copies \in Copies
  /\ counts \in [CellRange -> Nat]
  /\ codes = [v \in Vertex |-> codes[v]]
  /\ ~built => edges = db /\ \A c \in CellRange : counts[c] = 0
  /\ built => /\ \A c \in CellRange : counts[c] = Tally(Counted, c)
              /\ \A d \in db : Cells(d) \subseteq bits /\ BlockCells(d) \subseteq blocks
              /\ \A d \in edges \cap db : VertexHash(Max(d)) \in codes[Min(d)]

(* EncodeVertex keeps the bit of every neighbour it is given. *)
LEMMA EncodedFromDb ==
  ASSUME NEW d \in Pairs, d \in db, NEW gone, Max(d) # gone
  PROVE  VertexHash(Max(d)) \in EncodeVertex(Min(d), DbQuery(Min(d)) \ {gone})
<1>1. Min(d) \in Vertex /\ Max(d) \in Vertex /\ Min(d) < Max(d) /\ d = {Min(d), Max(d)}
  BY Ends
<1>2. Min(d) # Max(d)
  BY <1>1, Constants DEF Vertex
<1>3. Max(d) \in DbQuery(Min(d)) \ {gone}
  BY <1>1, <1>2 DEF DbQuery
<1> QED BY <1>1, <1>3 DEF EncodeVertex

(* The filter invariant holds before the build ... *)
LEMMA InitFilterInv == Init => FilterInv
<1> SUFFICES ASSUME Init PROVE FilterInv
  OBVIOUS
<1> QED BY DEF Init, FilterInv, Pairs, CellRange

(* ... the build over the whole graph establishes it for every index ... *)
LEMMA BuildInv ==
  ASSUME FilterInv, BuildEncoding
  PROVE  FilterInv'
<1>0. Counted = Entries(db) /\ Entries(db) \in SUBSET EntrySet
  BY CountedEntries DEF FilterInv, BuildEncoding
<1>1. \A c \in CellRange : Tally(Entries(db), c) \in Nat
  BY <1>0, TallyNat
<1>2. ~built /\ built' = TRUE /\ db' = db /\ edges' = edges /\ edges = db /\ copies' = copies
  BY DEF FilterInv, BuildEncoding
<1>3. counts' \in [CellRange -> Nat] /\ \A c \in CellRange : counts'[c] = Tally(Entries(db), c)
  BY <1>1, <1>2 DEF FilterInv, BuildEncoding
<1>4. \A d \in db : Cells(d) \subseteq bits' /\ BlockCells(d) \subseteq blocks'
  BY DEF BuildEncoding
<1>5. codes' = [v \in Vertex |-> EncodeVertex(v, DbQuery(v))]
  BY DEF BuildEncoding
<1>6. \A d \in db : VertexHash(Max(d)) \in codes'[Min(d)]
  <2> SUFFICES ASSUME NEW d \in db PROVE VertexHash(Max(d)) \in codes'[Min(d)]
    OBVIOUS
  <2>1. d \in Pairs /\ Min(d) \in Vertex
    BY Ends DEF FilterInv
  <2>2. PICK gone : gone \notin DbQuery(Min(d)) /\ Max(d) # gone
    <3>1. 0 \notin Vertex
      BY Constants DEF Vertex
    <3> QED BY <2>1, <3>1, Ends DEF DbQuery
  <2>3. DbQuery(Min(d)) \ {gone} = DbQuery(Min(d))
    BY <2>2
  <2>4. VertexHash(Max(d)) \in EncodeVertex(Min(d), DbQuery(Min(d)))
    BY <2>1, <2>2, <2>3, EncodedFromDb, Zenon
  <2> QED BY <2>1, <2>4, <1>5
<1>7. codes' = [v \in Vertex |-> codes'[v]]
  BY <1>5
<1>8. Counted' = Entries(db)
  BY <1>0, <1>2 DEF Counted, Entries
<1> QED BY <1>2, <1>3, <1>4, <1>6, <1>7, <1>8 DEF FilterInv, Tally

(* ... the insertion of a new edge, which adds to every index, keeps it ... *)
LEMMA InsertInv ==
  ASSUME FilterInv, NEW e \in Pairs, e \notin edges, Insert(e)
  PROVE  FilterInv'
<1>1. built /\ built' = built /\ db' = db /\ copies' = copies /\ edges' = edges \cup {e}
  BY DEF Insert
<1>2. /\ Counted \in SUBSET EntrySet /\ <<e, 1>> \in EntrySet /\ <<e, 1>> \notin Counted
      /\ Counted' = Counted \cup Once(e)
  <2>1. Counted' = Counted \cup Once(e)
    BY <1>1 DEF Counted, Once, Entries
  <2> QED BY <2>1, CountedEntries DEF FilterInv
<1>3. \A c \in CellRange : /\ Tally(Once(e), c) \in Nat
                           /\ Tally(Counted \cup Once(e), c) = Tally(Counted, c) + Tally(Once(e), c)
  BY <1>2, TallyAdds, Zenon DEF Once
<1>4. counts' \in [CellRange -> Nat] /\ \A c \in CellRange : counts'[c] = Tally(Counted', c)
  <2>1. \A c \in CellRange : counts[c] \in Nat /\ counts[c] = Tally(Counted, c)
    BY <1>1 DEF FilterInv
  <2>2. \A c \in CellRange : /\ counts[c] + Tally(Once(e), c) \in Nat
                             /\ counts[c] + Tally(Once(e), c) = Tally(Counted', c)
    <3> SUFFICES ASSUME NEW c \in CellRange
                 PROVE  /\ counts[c] + Tally(Once(e), c) \in Nat
                        /\ counts[c] + Tally(Once(e), c) = Tally(Counted', c)
      OBVIOUS
    <3>1. Tally(Counted', c) = Tally(Counted, c) + Tally(Once(e), c)
      BY <1>2, <1>3, Zenon
    <3>2. counts[c] \in Nat /\ counts[c] = Tally(Counted, c) /\ Tally(Once(e), c) \in Nat
      BY <1>3, <2>1
    <3> QED BY <3>1, <3>2
  <2>3. counts' = [c \in CellRange |-> counts[c] + Tally(Once(e), c)]
    BY DEF Insert, FilterInv
  <2> QED BY <2>2, <2>3
<1>5. \A d \in db : Cells(d) \subseteq bits' /\ BlockCells(d) \subseteq blocks'
  BY <1>1 DEF Insert, FilterInv
<1>6. codes' = [codes EXCEPT ![Min(e)] = codes[Min(e)] \cup {VertexHash(Max(e))}]
  BY DEF Insert
<1>7. codes' = [v \in Vertex |-> codes'[v]]
  BY <1>6, Zenon DEF FilterInv
<1>8. \A d \in edges' \cap db : VertexHash(Max(d)) \in codes'[Min(d)]
  <2> SUFFICES ASSUME NEW d \in edges' \cap db PROVE VertexHash(Max(d)) \in codes'[Min(d)]
    OBVIOUS
  <2>1. Min(d) \in Vertex /\ Min(e) \in Vertex
    BY Ends DEF FilterInv
  <2>2. CASE d = e
    BY <2>1, <2>2, <1>6 DEF FilterInv
  <2>3. CASE d # e
    <3>1. VertexHash(Max(d)) \in codes[Min(d)]
      BY <2>3, <1>1 DEF FilterInv
    <3> QED BY <3>1, <2>1, <1>6 DEF FilterInv
  <2> QED BY <2>2, <2>3
<1>9. edges' \in SUBSET Pairs
  BY <1>1 DEF FilterInv
<1> QED BY <1>1, <1>4, <1>5, <1>7, <1>8, <1>9 DEF FilterInv, Tally

(* ... the deletion of an edge, which lowers counters and rebuilds, keeps it ... *)
LEMMA DeleteInv ==
  ASSUME FilterInv, NEW e \in edges, Delete(e)
  PROVE  FilterInv'
<1>1. built /\ built' = built /\ db' = db /\ copies' = copies /\ edges' = edges \ {e}
  BY DEF Delete
<1>2. e \in Pairs /\ edges' \in SUBSET Pairs
  BY <1>1 DEF FilterInv
<1>3. \A c \in CellRange : /\ Tally(Counted', c) \in Nat /\ Tally(Once(e), c) \in Nat
                           /\ Tally(Counted, c) = Tally(Counted', c) + Tally(Once(e), c)
  <2> DEFINE X == Counted \ Once(e)
  <2>1. Counted' = X
    BY <1>1 DEF Counted, Once, Entries
  <2>2. /\ Counted \in SUBSET EntrySet /\ <<e, 1>> \in EntrySet /\ <<e, 1>> \in Counted
    BY <1>2, CountedEntries DEF FilterInv
  <2>3. X \in SUBSET EntrySet /\ <<e, 1>> \notin X /\ X \cup {<<e, 1>>} = Counted
    BY <2>2 DEF Once
  <2> HIDE DEF X
  <2> QED BY <2>1, <2>2, <2>3, TallyAdds DEF Once
<1>4. counts' = [c \in CellRange |-> Lowered(counts[c], Tally(Once(e), c))]
  BY DEF Delete, FilterInv
<1>5. counts' \in [CellRange -> Nat] /\ \A c \in CellRange : counts'[c] = Tally(Counted', c)
  <2>1. \A c \in CellRange : Lowered(counts[c], Tally(Once(e), c)) = Tally(Counted', c)
    <3> SUFFICES ASSUME NEW c \in CellRange
                 PROVE  Lowered(counts[c], Tally(Once(e), c)) = Tally(Counted', c)
      OBVIOUS
    <3>1. counts[c] = Tally(Counted', c) + Tally(Once(e), c)
      BY <1>1, <1>3 DEF FilterInv
    <3> QED BY <3>1, <1>3 DEF Lowered
  <2> QED BY <2>1, <1>3, <1>4
<1>6. \A d \in db : Cells(d) \subseteq bits' /\ BlockCells(d) \subseteq blocks'
  BY DEF Delete
<1>7. codes' = [codes EXCEPT ![Min(e)] = EncodeVertex(Min(e), DbQuery(Min(e)) \ {Max(e)})]
  BY DEF Delete
<1>8. codes' = [v \in Vertex |-> codes'[v]]
  BY <1>7 DEF FilterInv
<1>9. \A d \in edges' \cap db : VertexHash(Max(d)) \in codes'[Min(d)]
  <2> SUFFICES ASSUME NEW d \in edges' \cap db PROVE VertexHash(Max(d)) \in codes'[Min(d)]
    OBVIOUS
  <2>1. d \in Pairs /\ d # e /\ d \in edges \cap db
    BY <1>1 DEF FilterInv
  <2>2. Min(d) \in Vertex /\ Min(e) \in Vertex /\ d = {Min(d), Max(d)} /\ e = {Min(e), Max(e)}
    BY <1>2, <2>1, Ends
  <2>3. CASE Min(d) = Min(e)
    <3>1. Max(d) # Max(e)
      BY <2>1, <2>2, <2>3
    <3>2. VertexHash(Max(d)) \in EncodeVertex(Min(d), DbQuery(Min(d)) \ {Max(e)})
      BY <2>1, <3>1, EncodedFromDb
    <3> QED BY <2>2, <2>3, <3>2, <1>7 DEF FilterInv
  <2>4. CASE Min(d) # Min(e)
    <3>1. VertexHash(Max(d)) \in codes[Min(d)]
      BY <2>1, <1>1 DEF FilterInv
    <3> QED BY <2>2, <2>4, <3>1, <1>7 DEF FilterInv
  <2> QED BY <2>3, <2>4
<1> QED BY <1>1, <1>2, <1>5, <1>6, <1>8, <1>9 DEF FilterInv, Tally

(* ... and so does every step. *)
LEMMA NextFilterInv == FilterInv /\ [Next]_vars => FilterInv'
<1> SUFFICES ASSUME FilterInv, [Next]_vars PROVE FilterInv'
  OBVIOUS
<1>1. CASE BuildEncoding
  BY <1>1, BuildInv
<1>2. CASE \E e \in PairsOf(Vertex) \ edges : Insert(e)
  BY <1>2, InsertInv DEF Pairs
<1>3. CASE \E e \in edges : Delete(e)
  BY <1>3, DeleteInv
<1>4. CASE UNCHANGED vars
  BY <1>4 DEF vars, FilterInv, Cells, BlockCells, VertexHash, Tally, Counted, Entries
<1> QED BY <1>1, <1>2, <1>3, <1>4 DEF Next

(* The five indexes over insertions of new and deletions of existing edges: the *)
(* invariant holds in every reachable state.                                    *)
THEOREM FilterInvariant == Spec => []FilterInv
BY InitFilterInv, NextFilterInv, PTL DEF Spec

(* BFilterIntEncode: EdgeSet and DeletePair keep every counter equal to that of *)
(* a filter built from scratch, whatever cells the edges share, plus what the   *)
(* further copies in lists loaded several times have added.                     *)
THEOREM CountsStayExact == Spec => []CountsExact
<1>1. FilterInv => CountsExact
  BY DEF FilterInv, CountsExact
<1> QED BY <1>1, FilterInvariant, PTL

(* BFilterIntEncode::NEpairTest denies no edge of the graph, inserted ones      *)
(* included.                                                                    *)
IntEdgesNotDenied == built => \A e \in edges : IntNEpairTest(e) # NonNeighbor

(* BFilterIntEncode never denies an edge, after any updates. *)
THEOREM CountersDenyNoEdge == Spec => []IntEdgesNotDenied
<1>1. FilterInv => IntEdgesNotDenied
  <2> SUFFICES ASSUME FilterInv, built, NEW e \in edges
               PROVE  IntNEpairTest(e) # NonNeighbor
    BY DEF IntEdgesNotDenied
  <2>1. \A c \in IntCells(e) : c \in CellRange
    BY HashInRange DEF IntCells, CellRange, FilterInv
  <2>2. Counted \in SUBSET EntrySet /\ <<e, 1>> \in Counted /\ <<e, 1>>[1] = e
    BY CountedEntries DEF FilterInv
  <2>3. \A c \in IntCells(e) : counts[c] = Tally(Counted, c) /\ Tally(Counted, c) # 0
    <3> SUFFICES ASSUME NEW c \in IntCells(e)
                 PROVE  counts[c] = Tally(Counted, c) /\ Tally(Counted, c) # 0
      OBVIOUS
    <3>1. counts[c] = Tally(Counted, c)
      BY <2>1 DEF FilterInv
    <3>2. \A x \in Counted : c \in IntCells(x[1]) => Tally(Counted, c) # 0
      BY <2>2, TallyNat
    <3>3. c \in IntCells(<<e, 1>>[1])
      BY <2>2
    <3> QED BY <2>2, <3>1, <3>2, <3>3
  <2> QED BY <2>3 DEF IntNEpairTest, Uncertain, NonNeighbor
<1> QED BY <1>1, FilterInvariant, PTL

(* BFilterBitEncode, BBFilterEncode and BitHashEncode: no edge of the graph     *)
(* they were built over is denied, across the rebuilds that deletions cause and *)
(* after an edge was deleted and inserted again.                                *)
THEOREM BuiltEdgesKept == Spec => []BuiltEdgesNotDenied
<1>1. FilterInv => BuiltEdgesNotDenied
  <2> SUFFICES ASSUME FilterInv, built, NEW e \in edges \cap db
               PROVE  NonNeighbor \notin {BitNEpairTest(e), BlockNEpairTest(e), HashNEpairTest(e)}
    BY DEF BuiltEdgesNotDenied
  <2>1. Cells(e) \subseteq bits /\ BlockCells(e) \subseteq blocks
        /\ VertexHash(Max(e)) \in codes[Min(e)]
    BY DEF FilterInv
  <2> QED BY <2>1 DEF BitNEpairTest, BlockNEpairTest, HashNEpairTest, Uncertain, NonNeighbor
<1> QED BY <1>1, FilterInvariant, PTL
=============================================================================
