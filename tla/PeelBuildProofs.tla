--------------------------- MODULE PeelBuildProofs ---------------------------
(* Proofs about the peeling build for every number of vertices, every graph,  *)
(* however often its lists were loaded, and every capacity predicate.         *)
EXTENDS PeelBuild, FiniteSetTheorems, TLAPS

(* Loading the edge file yields a simple undirected graph. *)
LEMMA LoadedIsGraph ==
  ASSUME NEW E \in SUBSET PairsOf(Vertex)
  PROVE  Loaded(E) \in Graphs
<1>1. Loaded(E) \in [Vertex -> SUBSET Vertex]
  BY DEF Loaded
<1>2. \A u, v \in Vertex : u \in Loaded(E)[v] <=> v \in Loaded(E)[u]
  <2> TAKE u, v \in Vertex
  <2>1. {u, v} = {v, u}
    OBVIOUS
  <2> QED BY <2>1 DEF Loaded
<1>3. \A u \in Vertex : u \notin Loaded(E)[u]
  BY DEF Loaded
<1> QED BY <1>1, <1>2, <1>3 DEF Graphs

(* A code written by EncodeVertex is well typed and holds the list given. *)
LEMMA EncodedCode ==
  ASSUME NEW v \in Vertex, NEW S \in SUBSET Vertex, copies \in Copies,
         code \in [Vertex -> Code(Vertex)], EncodeVertex(v, S)
  PROVE  /\ code' \in [Vertex -> Code(Vertex)]
         /\ code'[v].list = S
         /\ code'[v].dec = Storable(v, S)
         /\ \A w \in Vertex : w # v => code'[w] = code[w]
<1>1. Storable(v, S) \in BOOLEAN
  BY FitsAssumption, Zenon DEF Vertex, Storable
<1> DEFINE c == Encoded(Storable(v, S), S)
<1>2. c \in Code(Vertex)
  BY <1>1 DEF Encoded, Code
<1>3. c.list = S /\ c.dec = Storable(v, S)
  BY DEF Encoded
<1>4. code' = [code EXCEPT ![v] = c]
  BY DEF EncodeVertex
<1> HIDE DEF c
<1>5. code'[v] = c /\ \A w \in Vertex : w # v => code'[w] = code[w]
  BY <1>4
<1> QED BY <1>2, <1>3, <1>4, <1>5

(* The state BuildEncoding starts from satisfies the invariant. *)
LEMMA InitInv == Init => PeelInv
<1> SUFFICES ASSUME Init PROVE PeelInv
  OBVIOUS
<1>1. adjacency_list \in Graphs
  BY LoadedIsGraph DEF Init
<1>2. \A v \in Vertex : code[v] = Blank
  BY DEF Init
<1>3. Blank \in Code(Vertex) /\ Blank.list = {}
  BY DEF Blank, Code
<1>4. TypeOK
  BY <1>1, <1>3 DEF Init, TypeOK
<1>5. ListsAreEdges
  BY <1>2, <1>3 DEF ListsAreEdges
<1>6. PeelPending
  <2> SUFFICES ASSUME NEW v \in Vertex, Storable(v, Remaining(v)) PROVE v \in encode_list
    BY DEF PeelPending, Init
  <2>1. Remaining(v) = adjacency_list[v]
    BY DEF Remaining, Init
  <2> QED BY <2>1 DEF Init
<1> QED BY <1>4, <1>5, <1>6 DEF PeelInv, Init, FilteredDecodable, FilteredCovers, RestCovers

(* Removing v from the graph keeps every vertex that could be removed on the   *)
(* schedule, because the neighbours of v are put on it.                        *)
LEMMA StillPending ==
  ASSUME TypeOK, NEW v \in Vertex, NEW u \in Vertex,
         adjacency_list' = adjacency_list, filtered' = filtered \cup {v},
         u \notin Remaining(v), u \notin filtered'
  PROVE  Remaining(u)' = Remaining(u)
<1>1. v \notin adjacency_list[u]
  <2>1. u \notin adjacency_list[v]
    BY DEF Remaining
  <2> QED BY <2>1 DEF TypeOK, Graphs
<1> QED BY <1>1 DEF Remaining

(* The first round preserves the invariant. *)
LEMMA EncodeFirstInv ==
  ASSUME PeelInv, NEW v \in Vertex, EncodeFirst(v)
  PROVE  PeelInv'
<1>1. TypeOK /\ FilteredDecodable /\ FilteredCovers /\ ListsAreEdges /\ PeelPending
  BY DEF PeelInv
<1>2. adjacency_list[v] \in SUBSET Vertex
  BY <1>1 DEF TypeOK, Graphs
<1>3. Storable(v, adjacency_list[v])
  BY DEF PeelInv, EncodeFirst, Least
<1>4. /\ code' \in [Vertex -> Code(Vertex)]
      /\ code'[v].list = adjacency_list[v]
      /\ code'[v].dec = Storable(v, adjacency_list[v])
      /\ \A w \in Vertex : w # v => code'[w] = code[w]
  BY <1>1, <1>2, EncodedCode DEF EncodeFirst, TypeOK
<1>5. /\ adjacency_list' = adjacency_list /\ copies' = copies /\ phase' = phase /\ phase = "first"
      /\ encode_list' = encode_list \ {v} /\ filtered' = filtered \cup {v}
      /\ vertices_related' = vertices_related \cup adjacency_list[v]
      /\ next_list' = next_list /\ rest' = rest
  BY DEF EncodeFirst
<1>6. TypeOK'
  BY <1>1, <1>2, <1>4, <1>5 DEF TypeOK
<1>7. FilteredDecodable'
  BY <1>1, <1>3, <1>4, <1>5, Zenon DEF FilteredDecodable, TypeOK
<1>8. FilteredCovers'
  BY <1>1, <1>4, <1>5 DEF FilteredCovers, TypeOK, Graphs
<1>9. ListsAreEdges'
  BY <1>1, <1>4, <1>5 DEF ListsAreEdges
<1>10. PeelPending'
  <2> SUFFICES ASSUME NEW u \in Vertex, u \notin filtered', Storable(u, Remaining(u))'
               PROVE  u \in encode_list' \cup vertices_related'
    BY <1>5 DEF PeelPending
  <2>1. CASE u \in adjacency_list[v]
    BY <2>1, <1>5
  <2>2. CASE u \notin adjacency_list[v]
    <3>1. Remaining(u)' = Remaining(u)
      BY <2>2, <1>1, <1>5, StillPending DEF Remaining
    <3> QED BY <3>1, <1>1, <1>5 DEF PeelPending, Storable
  <2> QED BY <2>1, <2>2
<1> QED BY <1>5, <1>6, <1>7, <1>8, <1>9, <1>10 DEF PeelInv, RestCovers, Storable

(* A round preserves the invariant when it removes a vertex. *)
LEMMA PeelKeepsInv ==
  ASSUME PeelInv, NEW v \in Vertex, Peel(v)
  PROVE  PeelInv'
<1>1. TypeOK /\ FilteredDecodable /\ FilteredCovers /\ ListsAreEdges /\ PeelPending
  BY DEF PeelInv
<1>2. Remaining(v) \in SUBSET Vertex /\ Remaining(v) \subseteq adjacency_list[v]
  BY <1>1 DEF TypeOK, Graphs, Remaining
<1>3. Storable(v, Remaining(v)) /\ v \notin filtered
  BY DEF Peel
<1>4. /\ code' \in [Vertex -> Code(Vertex)]
      /\ code'[v].list = Remaining(v)
      /\ code'[v].dec = Storable(v, Remaining(v))
      /\ \A w \in Vertex : w # v => code'[w] = code[w]
  BY <1>1, <1>2, EncodedCode, Zenon DEF Peel, TypeOK
<1>5. /\ adjacency_list' = adjacency_list /\ copies' = copies /\ phase' = phase /\ phase = "peel"
      /\ encode_list' = encode_list /\ filtered' = filtered \cup {v}
      /\ vertices_related' = vertices_related \ {v}
      /\ next_list' = next_list \cup Remaining(v) /\ rest' = rest
  BY DEF Peel
<1>6. TypeOK'
  BY <1>1, <1>2, <1>4, <1>5 DEF TypeOK
<1>7. FilteredDecodable'
  BY <1>1, <1>3, <1>4, <1>5, Zenon DEF FilteredDecodable, TypeOK
<1>8. FilteredCovers'
  <2> SUFFICES ASSUME NEW x \in filtered', NEW w \in adjacency_list[x]
               PROVE  w \in code'[x].list \/ (w \in filtered' /\ x \in code'[w].list)
    BY <1>5 DEF FilteredCovers
  <2>0. x \in Vertex /\ w \in Vertex /\ x \in adjacency_list[w]
    BY <1>1, <1>5 DEF TypeOK, Graphs
  <2>1. CASE x = v
    <3>1. CASE w \in filtered
      <4>1. v \in code[w].list
        BY <3>1, <2>0, <2>1, <1>1, <1>3 DEF FilteredCovers
      <4>2. w # v
        BY <3>1, <1>3
      <4> QED BY <3>1, <4>1, <4>2, <2>0, <2>1, <1>4, <1>5
    <3>2. CASE w \notin filtered
      BY <3>2, <2>1, <1>4 DEF Remaining
    <3> QED BY <3>1, <3>2
  <2>2. CASE x # v
    <3>1. x \in filtered /\ code'[x] = code[x]
      BY <2>0, <2>2, <1>4, <1>5
    <3>2. w \in code[x].list \/ (w \in filtered /\ x \in code[w].list)
      BY <3>1, <1>1 DEF FilteredCovers
    <3>3. w \in filtered => code'[w] = code[w]
      BY <2>0, <1>3, <1>4
    <3> QED BY <3>1, <3>2, <3>3, <1>5
  <2> QED BY <2>1, <2>2
<1>9. ListsAreEdges'
  BY <1>1, <1>2, <1>4, <1>5 DEF ListsAreEdges
<1>10. PeelPending'
  <2> SUFFICES ASSUME NEW u \in Vertex, u \notin filtered', Storable(u, Remaining(u))'
               PROVE  u \in vertices_related' \cup next_list'
    BY <1>5 DEF PeelPending
  <2>1. CASE u \in Remaining(v)
    BY <2>1, <1>5
  <2>2. CASE u \notin Remaining(v)
    <3>1. Remaining(u)' = Remaining(u)
      BY <2>2, <1>1, <1>5, StillPending
    <3> QED BY <3>1, <1>1, <1>5 DEF PeelPending, Storable
  <2> QED BY <2>1, <2>2
<1> QED BY <1>5, <1>6, <1>7, <1>8, <1>9, <1>10 DEF PeelInv, RestCovers, Storable

(* The last loop preserves the invariant. *)
LEMMA EncodeRestInv ==
  ASSUME PeelInv, NEW v \in Vertex, EncodeRest(v)
  PROVE  PeelInv'
<1>1. TypeOK /\ FilteredDecodable /\ FilteredCovers /\ ListsAreEdges /\ PeelPending /\ RestCovers
  BY DEF PeelInv
<1>2. Remaining(v) \in SUBSET Vertex /\ Remaining(v) \subseteq adjacency_list[v]
  BY <1>1 DEF TypeOK, Graphs, Remaining
<1>3. /\ adjacency_list' = adjacency_list /\ copies' = copies /\ phase' = phase /\ phase = "rest"
      /\ encode_list' = encode_list /\ filtered' = filtered
      /\ vertices_related' = vertices_related
      /\ next_list' = next_list /\ rest' = rest \ {v}
  BY DEF EncodeRest
<1>4. \A u : Remaining(u)' = Remaining(u)
  BY <1>3 DEF Remaining
<1>5. PeelPending'
  BY <1>1, <1>3, <1>4 DEF PeelPending, Storable
<1>6. CASE v \in filtered
  <2>1. code' = code
    BY <1>6 DEF EncodeRest
  <2>2. TypeOK'
    BY <2>1, <1>1, <1>3 DEF TypeOK
  <2>3. FilteredDecodable' /\ FilteredCovers' /\ ListsAreEdges'
    BY <2>1, <1>1, <1>3 DEF FilteredDecodable, FilteredCovers, ListsAreEdges
  <2>4. RestCovers'
    BY <2>1, <1>1, <1>3, <1>4, <1>6 DEF RestCovers
  <2> QED BY <2>2, <2>3, <2>4, <1>3, <1>5 DEF PeelInv, Storable
<1>7. CASE v \notin filtered
  <2>1. /\ code' \in [Vertex -> Code(Vertex)]
        /\ code'[v].list = Remaining(v)
        /\ \A w \in Vertex : w # v => code'[w] = code[w]
    BY <1>1, <1>2, <1>7, EncodedCode DEF EncodeRest, TypeOK
  <2>2. TypeOK'
    BY <2>1, <1>1, <1>3 DEF TypeOK
  <2>3. \A w \in filtered : code'[w] = code[w]
    BY <2>1, <1>1, <1>7 DEF TypeOK
  <2>4. FilteredDecodable' /\ FilteredCovers'
    BY <2>3, <1>1, <1>3 DEF FilteredDecodable, FilteredCovers
  <2>5. ListsAreEdges'
    BY <2>1, <1>1, <1>2, <1>3 DEF ListsAreEdges
  <2>6. RestCovers'
    BY <2>1, <1>1, <1>3, <1>4 DEF RestCovers
  <2> QED BY <2>2, <2>4, <2>5, <2>6, <1>3, <1>5 DEF PeelInv, Storable
<1> QED BY <1>6, <1>7

(* Every step of the build preserves the invariant. *)
LEMMA NextInv == PeelInv /\ [Next]_vars => PeelInv'
<1> SUFFICES ASSUME PeelInv, [Next]_vars PROVE PeelInv'
  OBVIOUS
<1> USE DEF PeelInv, TypeOK, FilteredDecodable, FilteredCovers, RestCovers,
            ListsAreEdges, PeelPending, Remaining, Storable
<1>1. CASE EndFirst
  BY <1>1, Zenon DEF EndFirst
<1>2. CASE NextRound
  BY <1>2 DEF NextRound
<1>3. CASE Finish
  BY <1>3 DEF Finish
<1>4. CASE \E v \in Vertex : EncodeFirst(v)
  BY <1>4, EncodeFirstInv, Zenon
<1>5. CASE \E v \in Vertex : SkipFiltered(v)
  BY <1>5 DEF SkipFiltered
<1>6. CASE \E v \in Vertex : SkipTooLong(v)
  BY <1>6, Zenon DEF SkipTooLong
<1>7. CASE \E v \in Vertex : Peel(v)
  BY <1>7, PeelKeepsInv, Zenon
<1>8. CASE \E v \in Vertex : EncodeRest(v)
  BY <1>8, EncodeRestInv, Zenon
<1>9. CASE UNCHANGED vars
  BY <1>9 DEF vars
<1> QED BY <1>1, <1>2, <1>3, <1>4, <1>5, <1>6, <1>7, <1>8, <1>9, Zenon DEF Next

(* The invariant holds throughout the build. *)
THEOREM PeelInvariant == Spec => []PeelInv
BY InitInv, NextInv, PTL DEF Spec

(* The variables of the build keep their types. *)
THEOREM TypeCorrect == Spec => []TypeOK
<1>1. PeelInv => TypeOK
  BY DEF PeelInv
<1> QED BY <1>1, PeelInvariant, PTL

(* A neighbour that is stored is never denied; a vertex that is not stored is  *)
(* never affirmed.                                                             *)
LEMMA AnswersFollowList ==
  ASSUME NEW c, NEW w
  PROVE  /\ Answers(c, w) \subseteq {Neighbor, NonNeighbor, Uncertain}
         /\ w \in c.list => NonNeighbor \notin Answers(c, w)
         /\ w \in c.list /\ c.dec => Answers(c, w) = {Neighbor}
         /\ w \notin c.list => Neighbor \notin Answers(c, w)
BY DEF Answers, Neighbor, NonNeighbor, Uncertain

(* No edge of a finished build is denied. *)
LEMMA EdgeNotDenied ==
  ASSUME PeelInv, phase = "done", NEW u \in Vertex, NEW v \in Vertex, Edge(u, v)
  PROVE  NonNeighbor \notin PairAnswers(code, u, v)
<1>1. v \in adjacency_list[u] /\ u \in adjacency_list[v]
  BY DEF PeelInv, TypeOK, Graphs, Edge
<1>2. CASE u \in filtered \/ v \in filtered
  <2>1. \/ v \in code[u].list /\ code[u].dec
        \/ u \in code[v].list /\ code[v].dec
    BY <1>1, <1>2 DEF PeelInv, FilteredCovers, FilteredDecodable
  <2>2. ~code[u].dec => u \in code[v].list /\ code[v].dec
    BY <2>1
  <2>3. ~code[v].dec => v \in code[u].list /\ code[u].dec
    BY <2>1
  <2>4. Answers(code[u], v) = {Neighbor} \/ Answers(code[v], u) = {Neighbor}
    BY <2>1, AnswersFollowList
  <2>5. NonNeighbor \notin BothMin(Answers(code[u], v), Answers(code[v], u))
    BY <2>4, AnswersFollowList DEF BothMin, MinType, Neighbor, NonNeighbor, Uncertain
  <2>6. NonNeighbor \notin SIMDNEpairTest(code, u, v)
    BY <2>2, <2>3, <2>5, AnswersFollowList, Zenon DEF SIMDNEpairTest
  <2> QED BY <2>5, <2>6 DEF PairAnswers, RangeNEpairTest
<1>3. CASE u \notin filtered /\ v \notin filtered
  <2>1. v \in code[u].list /\ u \in code[v].list
    BY <1>1, <1>3 DEF PeelInv, RestCovers, Remaining
  <2>2. NonNeighbor \notin Answers(code[u], v) /\ NonNeighbor \notin Answers(code[v], u)
    BY <2>1, AnswersFollowList
  <2>3. NonNeighbor \notin BothMin(Answers(code[u], v), Answers(code[v], u))
    BY <2>2 DEF BothMin, MinType
  <2> QED BY <2>2, <2>3 DEF PairAnswers, RangeNEpairTest, SIMDNEpairTest
<1> QED BY <1>2, <1>3

(* Nothing but an edge is affirmed. *)
LEMMA OnlyEdgesAffirmed ==
  ASSUME PeelInv, NEW u \in Vertex, NEW v \in Vertex, ~Edge(u, v)
  PROVE  Neighbor \notin PairAnswers(code, u, v)
<1>1. v \notin code[u].list /\ u \notin code[v].list
  BY DEF PeelInv, TypeOK, Graphs, Edge, ListsAreEdges
<1>2. Neighbor \notin Answers(code[u], v) /\ Neighbor \notin Answers(code[v], u)
  BY <1>1, AnswersFollowList
<1>3. Neighbor \notin BothMin(Answers(code[u], v), Answers(code[v], u))
  BY <1>2 DEF BothMin, MinType
<1> QED BY <1>2, <1>3 DEF PairAnswers, RangeNEpairTest, SIMDNEpairTest

(* RangeCompVend and DeltaSIMDVEND: after BuildEncoding no pair test answers   *)
(* NonNeighbor for an edge, for every graph and every capacity.                *)
THEOREM NeverDeniesAnEdge == Spec => []NoFalseNegative
<1>1. PeelInv => NoFalseNegative
  BY EdgeNotDenied DEF NoFalseNegative
<1> QED BY <1>1, PeelInvariant, PTL

(* When the rounds of BuildEncoding stop, no vertex that is left could have    *)
(* been stored in full.                                                        *)
THEOREM PeelsEverythingThatFits == Spec => []PeelComplete
<1>1. PeelInv => PeelComplete
  BY DEF PeelInv, PeelPending, PeelComplete
<1> QED BY <1>1, PeelInvariant, PTL

(* Until the build is done nothing is answered. *)
LEMMA SilentUntilDone ==
  ASSUME phase # "done"
  PROVE  Denied = {} /\ Affirmed = {} /\ Ready = FALSE
BY DEF Denied, Affirmed, Answered, Ready

(* What a finished build answers is right. *)
LEMMA DoneIsRight ==
  PeelInv /\ phase = "done" => /\ Denied \in SUBSET (PairsOf(Vertex) \ EdgeSet)
                               /\ Affirmed \in SUBSET EdgeSet
<1> SUFFICES ASSUME PeelInv, phase = "done"
             PROVE  /\ Denied \in SUBSET (PairsOf(Vertex) \ EdgeSet)
                    /\ Affirmed \in SUBSET EdgeSet
  OBVIOUS
<1>0. \A p \in PairsOf(Vertex) : \A u \in p : u \in Vertex
  BY DEF PairsOf
<1>1. ASSUME NEW p \in Denied PROVE p \in PairsOf(Vertex) /\ p \notin EdgeSet
  <2>1. p \in PairsOf(Vertex)
    BY DEF Denied, Answered
  <2>2. PICK u \in p, v \in p : u # v /\ NonNeighbor \in PairAnswers(code, u, v)
    BY DEF Denied, Answered
  <2>3. p = {u, v} /\ u \in Vertex /\ v \in Vertex
    BY <2>1, <2>2, <1>0 DEF PairsOf
  <2>4. ~Edge(u, v)
    BY <2>2, <2>3, EdgeNotDenied
  <2>5. ~Edge(v, u) /\ ~Edge(u, u) /\ ~Edge(v, v)
    BY <2>3, <2>4 DEF PeelInv, TypeOK, Graphs, Edge
  <2> QED BY <2>1, <2>3, <2>4, <2>5 DEF EdgeSet
<1>2. ASSUME NEW p \in Affirmed PROVE p \in EdgeSet
  <2>1. p \in PairsOf(Vertex)
    BY DEF Affirmed, Answered
  <2>2. PICK u \in p, v \in p : u # v /\ Neighbor \in PairAnswers(code, u, v)
    BY DEF Affirmed, Answered
  <2>3. Edge(u, v)
    BY <2>1, <2>2, <1>0, OnlyEdgesAffirmed
  <2> QED BY <2>1, <2>2, <2>3 DEF EdgeSet
<1> QED BY <1>1, <1>2

(* A step that does not finish the build is invisible to the caller. *)
LEMMA InvisibleStep ==
  ASSUME phase # "done", phase' # "done", adjacency_list' = adjacency_list
  PROVE  UNCHANGED Promise!vars
<1>1. Denied' = {} /\ Affirmed' = {} /\ Ready' = FALSE
  BY DEF Denied, Affirmed, Answered, Ready
<1>2. EdgeSet' = EdgeSet
  BY DEF EdgeSet, Edge
<1> QED BY <1>1, <1>2, SilentUntilDone, Zenon DEF Promise!vars

(* BuildEncoding implements the promise of the index. *)
THEOREM BuildKeepsPromise == Spec => KeepsPromise
<1>1. Init => Promise!Init
  <2> SUFFICES ASSUME Init PROVE Promise!Init
    OBVIOUS
  <2>1. EdgeSet \in SUBSET PairsOf(Vertex)
    BY DEF EdgeSet
  <2>2. phase # "done"
    BY DEF Init
  <2> QED BY <2>1, <2>2, SilentUntilDone DEF Promise!Init
<1>2. PeelInv /\ PeelInv' /\ [Next]_vars => [Promise!Next]_(Promise!vars)
  <2> SUFFICES ASSUME PeelInv, PeelInv', [Next]_vars
               PROVE  Promise!Next \/ UNCHANGED Promise!vars
    OBVIOUS
  <2>1. CASE Finish
    <3>1. phase # "done" /\ phase' = "done" /\ EdgeSet' = EdgeSet
      BY <2>1 DEF Finish, EdgeSet, Edge
    <3>2. /\ Denied' \in SUBSET (PairsOf(Vertex) \ EdgeSet')
          /\ Affirmed' \in SUBSET EdgeSet'
      <4>1. (PeelInv /\ phase = "done" => /\ Denied \in SUBSET (PairsOf(Vertex) \ EdgeSet)
                                           /\ Affirmed \in SUBSET EdgeSet)'
        BY DoneIsRight, PTL
      <4> QED BY <4>1, <3>1
    <3>3. Ready = FALSE /\ Ready' = TRUE
      BY <3>1 DEF Ready
    <3>4. Promise!Build
      BY <3>1, <3>2, <3>3 DEF Promise!Build, Promise!RightFor
    <3> QED BY <3>4 DEF Promise!Next
  <2>2. CASE UNCHANGED vars
    BY <2>2 DEF vars, Promise!vars, EdgeSet, Edge, Ready, Denied, Affirmed, Answered
  <2>3. CASE Next /\ ~Finish
    <3>1. phase # "done" /\ phase' # "done" /\ adjacency_list' = adjacency_list
      BY <2>3, Zenon DEF Next, EndFirst, NextRound, EncodeFirst, SkipFiltered, SkipTooLong,
                  Peel, EncodeRest
    <3> QED BY <3>1, InvisibleStep
  <2> QED BY <2>1, <2>2, <2>3
<1> QED BY <1>1, <1>2, PeelInvariant, PTL DEF Spec, KeepsPromise, Promise!Spec

-----------------------------------------------------------------------------
(* The count edge_filtered of DeltaSIMDVEND is exact.                         *)

(* The edges from v to its neighbours in R. *)
Star(v, R) == {{v, w} : w \in R}

(* Sets of vertices and of edges are finite. *)
LEMMA FinitePairs ==
  /\ \A S \in SUBSET Vertex : IsFiniteSet(S)
  /\ \A P \in SUBSET PairsOf(Vertex) : IsFiniteSet(P)
<1>1. IsFiniteSet(Vertex)
  BY FS_Interval, VAssumption DEF Vertex
<1>2. IsFiniteSet(SUBSET Vertex)
  BY <1>1, FS_SUBSET
<1>3. \A P \in SUBSET PairsOf(Vertex) : P \in SUBSET (SUBSET Vertex)
  BY DEF PairsOf
<1> QED BY <1>1, <1>2, <1>3, FS_Subset

(* A vertex has as many edges to R as R has members. *)
LEMMA StarSize ==
  ASSUME NEW v \in Vertex, NEW R \in SUBSET Vertex, v \notin R
  PROVE  Cardinality(Star(v, R)) = Cardinality(R)
<1> DEFINE f == [w \in R |-> {v, w}]
<1>1. f \in [R -> Star(v, R)]
  BY DEF Star
<1>2. \A a, b \in R : f[a] = f[b] => a = b
  <2> SUFFICES ASSUME NEW a \in R, NEW b \in R, {v, a} = {v, b} PROVE a = b
    OBVIOUS
  <2> QED OBVIOUS
<1>3. \A p \in Star(v, R) : \E w \in R : f[w] = p
  BY DEF Star
<1>4. f \in Bijection(R, Star(v, R))
  BY <1>1, <1>2, <1>3, Zenon DEF Bijection, Injection, Surjection, IsInjective
<1>5. ExistsBijection(R, Star(v, R))
  BY <1>4 DEF ExistsBijection
<1> QED BY <1>5, FinitePairs, FS_Bijection

(* The removal of v removes its edges to the neighbours that are left. *)
LEMMA RemovalAdds ==
  ASSUME TypeOK, NEW v \in Vertex, v \notin filtered
  PROVE  /\ Cardinality(Touching(filtered)) \in Nat /\ Cardinality(Remaining(v)) \in Nat
         /\ Cardinality(Touching(filtered \cup {v}))
              = Cardinality(Touching(filtered)) + Cardinality(Remaining(v))
<1> DEFINE T == Touching(filtered)
           S == Star(v, Remaining(v))
<1>1. /\ Remaining(v) \in SUBSET Vertex /\ v \notin Remaining(v)
      /\ \A u, w \in Vertex : Edge(u, w) => Edge(w, u) /\ u # w
  BY DEF TypeOK, Graphs, Remaining, Edge
<1>2. S \in SUBSET PairsOf(Vertex) /\ T \in SUBSET PairsOf(Vertex)
  BY <1>1 DEF Star, Touching, PairsOf
<1>3. Touching(filtered \cup {v}) = T \cup S
  <2>1. ASSUME NEW p \in Touching(filtered \cup {v}), p \notin T
        PROVE  p \in S
    <3>1. PICK u \in p, w \in p : Edge(u, w) /\ u \in filtered \cup {v}
      BY <2>1 DEF Touching
    <3>2. p \in PairsOf(Vertex) /\ u \in Vertex /\ w \in Vertex
      BY <2>1, <3>1 DEF Touching, PairsOf
    <3>3. u = v /\ Edge(w, u) /\ u # w
      BY <1>1, <2>1, <3>1, <3>2 DEF Touching
    <3>4. w \notin filtered
      BY <2>1, <3>1, <3>2, <3>3 DEF Touching
    <3>5. p = {v, w}
      BY <3>1, <3>2, <3>3 DEF PairsOf
    <3>6. w \in Remaining(v)
      BY <3>1, <3>3, <3>4 DEF Remaining, Edge
    <3> QED BY <3>5, <3>6 DEF Star
  <2>2. T \subseteq Touching(filtered \cup {v})
    BY DEF Touching
  <2>3. ASSUME NEW w \in Remaining(v)
        PROVE  {v, w} \in Touching(filtered \cup {v})
    <3>1. Edge(v, w) /\ {v, w} \in PairsOf(Vertex)
      BY <1>1, <2>3 DEF Remaining, Edge, PairsOf
    <3> QED BY <3>1 DEF Touching
  <2> QED BY <2>1, <2>2, <2>3, Zenon DEF Star
<1>4. T \cap S = {}
  BY DEF Touching, Star, Remaining
<1>5. IsFiniteSet(S) /\ IsFiniteSet(T) /\ IsFiniteSet(Remaining(v))
  BY <1>1, <1>2, FinitePairs
<1>6. Cardinality(T \cup S) = Cardinality(T) + Cardinality(S) - Cardinality(T \cap S)
  BY <1>5, FS_Union
<1>7. /\ Cardinality(S) \in Nat /\ Cardinality(T) \in Nat /\ Cardinality(Remaining(v)) \in Nat
      /\ Cardinality(T \cap S) = 0
  BY <1>4, <1>5, FS_CardinalityType, FS_EmptySet, Zenon
<1>8. Cardinality(S) = Cardinality(Remaining(v))
  BY <1>1, StarSize
<1>9. Cardinality(T \cup S) = Cardinality(T) + Cardinality(S)
  BY <1>6, <1>7
<1> HIDE DEF T, S
<1>10. Cardinality(Touching(filtered \cup {v})) = Cardinality(T) + Cardinality(Remaining(v))
  BY <1>3, <1>8, <1>9
<1> QED BY <1>7, <1>10 DEF T

(* The count keeps its bounds, is a number, and counts a vertex of the first    *)
(* round once: what is still to be encoded in it is not filtered, and nothing   *)
(* is when it ends.                                                             *)
CountInv == /\ EdgeFilteredExact
            /\ edge_filtered \in Nat
            /\ encode_list \cap filtered = {}
            /\ phase # "first" => encode_list = {}

(* r entries that are counted c times each beside t that are counted n times. *)
LEMMA Weighed ==
  ASSUME NEW n \in Nat, NEW c \in Nat, NEW t \in Nat, NEW r \in Nat, NEW e \in Nat
  PROVE  /\ c * r \in Nat
         /\ c <= n /\ e <= n * t => e + c * r <= n * (t + r)
         /\ c >= n /\ e >= n * t => e + c * r >= n * (t + r)
<1> DEFINE cr == c * r
           nr == n * r
           nt == n * t
<1>1. cr \in Nat /\ nr \in Nat /\ nt \in Nat
  OBVIOUS
<1>2. n * (t + r) = nt + nr
  OBVIOUS
<1>3. c <= n => cr <= nr
  <2> SUFFICES ASSUME c <= n PROVE cr <= nr
    OBVIOUS
  <2>1. n - c \in Nat
    OBVIOUS
  <2>2. (n - c) * r \in Nat
    BY <2>1
  <2>3. (n - c) * r = nr - cr
    OBVIOUS
  <2> HIDE DEF cr, nr
  <2> QED BY <1>1, <2>2, <2>3
<1>4. c >= n => cr >= nr
  <2> SUFFICES ASSUME c >= n PROVE cr >= nr
    OBVIOUS
  <2>1. c - n \in Nat
    OBVIOUS
  <2>2. (c - n) * r \in Nat
    BY <2>1
  <2>3. (c - n) * r = cr - nr
    OBVIOUS
  <2> HIDE DEF cr, nr
  <2> QED BY <1>1, <2>2, <2>3
<1> HIDE DEF cr, nr, nt
<1>5. /\ c <= n /\ e <= nt => e + cr <= nt + nr
      /\ c >= n /\ e >= nt => e + cr >= nt + nr
  BY <1>1, <1>3, <1>4
<1> QED BY <1>1, <1>2, <1>5 DEF cr, nt

(* How often a list was loaded is a number. *)
LEMMA CopiesNat ==
  ASSUME TypeOK
  PROVE  \A v \in Vertex : copies[v] \in Nat
BY VAssumption DEF TypeOK, Vertex

(* A step that adds the entries left of the vertex it removes keeps the count   *)
(* within its bounds.                                                           *)
LEMMA RemovalExact ==
  ASSUME TypeOK, EdgeFilteredExact, edge_filtered \in Nat, NEW v \in Vertex, v \notin filtered,
         adjacency_list' = adjacency_list, copies' = copies, filtered' = filtered \cup {v},
         edge_filtered' = edge_filtered + copies[v] * Cardinality(Remaining(v))
  PROVE  EdgeFilteredExact' /\ edge_filtered' \in Nat
<1> DEFINE t == Cardinality(Touching(filtered))
           r == Cardinality(Remaining(v))
<1>1. t \in Nat /\ r \in Nat /\ Cardinality(Touching(filtered \cup {v})) = t + r
  BY RemovalAdds
<1>2. \A w \in Vertex : copies[w] \in Nat
  BY CopiesNat
<1>3. Touching(filtered)' = Touching(filtered \cup {v})
  BY DEF Touching, Edge
<1>4. ASSUME NEW n \in {copies[w] : w \in Vertex}
      PROVE  /\ (\A w \in Vertex : copies[w] <= n) => edge_filtered' <= n * (t + r)
             /\ (\A w \in Vertex : copies[w] >= n) => edge_filtered' >= n * (t + r)
  <2>1. /\ (\A w \in Vertex : copies[w] <= n) => edge_filtered <= n * t
        /\ (\A w \in Vertex : copies[w] >= n) => edge_filtered >= n * t
    BY DEF EdgeFilteredExact
  <2>2. n \in Nat
    BY <1>2
  <2> HIDE DEF t, r
  <2>3. /\ copies[v] <= n /\ edge_filtered <= n * t => edge_filtered + copies[v] * r <= n * (t + r)
        /\ copies[v] >= n /\ edge_filtered >= n * t => edge_filtered + copies[v] * r >= n * (t + r)
    BY <1>1, <1>2, <2>2, Weighed
  <2>4. edge_filtered' = edge_filtered + copies[v] * r
    BY DEF r
  <2> QED BY <2>1, <2>3, <2>4, Zenon
<1>5. edge_filtered' \in Nat
  <2> HIDE DEF r
  <2>1. copies[v] * r \in Nat
    BY <1>1, <1>2
  <2>2. edge_filtered' = edge_filtered + copies[v] * r
    BY DEF r
  <2> QED BY <2>1, <2>2
<1>6. Cardinality(Touching(filtered)') = t + r
  BY <1>1, <1>3
<1> HIDE DEF t, r
<1>7. EdgeFilteredExact'
  BY <1>4, <1>6, Zenon DEF EdgeFilteredExact
<1> QED BY <1>5, <1>7

(* The counter of the first round: the whole list less what is filtered. *)
LEMMA FirstAdds ==
  ASSUME TypeOK, edge_filtered \in Nat, NEW v \in Vertex
  PROVE  edge_filtered + copies[v] * Cardinality(adjacency_list[v])
           - copies[v] * Cardinality(adjacency_list[v] \cap (filtered \cup {v}))
         = edge_filtered + copies[v] * Cardinality(Remaining(v))
<1> DEFINE A == adjacency_list[v]
           B == adjacency_list[v] \cap filtered
           C == Remaining(v)
<1>1. A \in SUBSET Vertex /\ v \notin A
  BY DEF TypeOK, Graphs
<1>2. A = B \cup C /\ B \cap C = {} /\ A \cap (filtered \cup {v}) = B
  BY <1>1 DEF Remaining
<1>3. IsFiniteSet(B) /\ IsFiniteSet(C)
  BY <1>1, <1>2, FinitePairs
<1>4. /\ Cardinality(B) \in Nat /\ Cardinality(C) \in Nat /\ Cardinality(B \cap C) = 0
  BY <1>2, <1>3, FS_CardinalityType, FS_EmptySet, Zenon
<1>5. Cardinality(B \cup C) = Cardinality(B) + Cardinality(C) - Cardinality(B \cap C)
  BY <1>3, FS_Union
<1> HIDE DEF A, B, C
<1>6. Cardinality(A) = Cardinality(B) + Cardinality(C)
  BY <1>2, <1>4, <1>5
<1>7. copies[v] \in Nat
  BY CopiesNat
<1>8. \A n, b, c, e \in Nat : e + n * (b + c) - n * b = e + n * c
  OBVIOUS
<1>9. edge_filtered + copies[v] * Cardinality(A) - copies[v] * Cardinality(B)
        = edge_filtered + copies[v] * Cardinality(C)
  BY <1>4, <1>6, <1>7, <1>8
<1> QED BY <1>2, <1>9, Zenon DEF A, C

(* The count is exact before the first vertex is encoded ... *)
LEMMA InitCount == Init => CountInv
<1> SUFFICES ASSUME Init PROVE CountInv
  OBVIOUS
<1>1. Cardinality(Touching(filtered)) = 0 /\ edge_filtered = 0
  <2>1. Touching(filtered) = {}
    BY DEF Init, Touching
  <2> QED BY <2>1, FS_EmptySet DEF Init
<1>2. \A n \in {copies[v] : v \in Vertex} : n \in Nat /\ n * 0 = 0
  BY VAssumption DEF Init, Vertex
<1>3. EdgeFilteredExact
  BY <1>1, <1>2 DEF EdgeFilteredExact
<1> QED BY <1>1, <1>3 DEF CountInv, Init

(* ... and stays so in every step. *)
LEMMA NextCount == PeelInv /\ CountInv /\ [Next]_vars => CountInv'
<1> SUFFICES ASSUME PeelInv, CountInv, [Next]_vars PROVE CountInv'
  OBVIOUS
<1>0. /\ TypeOK /\ EdgeFilteredExact /\ edge_filtered \in Nat /\ encode_list \cap filtered = {}
      /\ phase # "first" => encode_list = {}
  BY DEF PeelInv, CountInv
<1>1. ASSUME NEW v \in Vertex, EncodeFirst(v) PROVE CountInv'
  <2>1. v \notin filtered
    BY <1>0, <1>1 DEF EncodeFirst, Least
  <2>2. /\ adjacency_list' = adjacency_list /\ copies' = copies /\ filtered' = filtered \cup {v}
        /\ encode_list' = encode_list \ {v} /\ phase = "first" /\ phase' = phase
    BY <1>1 DEF EncodeFirst
  <2>3. edge_filtered' = edge_filtered + copies[v] * Cardinality(Remaining(v))
    <3>1. edge_filtered' = edge_filtered + copies[v] * Cardinality(adjacency_list[v])
                           - copies[v] * Cardinality(adjacency_list[v] \cap (filtered \cup {v}))
      BY <1>1, <2>2, Zenon DEF EncodeFirst
    <3> QED BY <1>0, <3>1, FirstAdds, Zenon
  <2>4. EdgeFilteredExact' /\ edge_filtered' \in Nat
    BY <1>0, <2>1, <2>2, <2>3, RemovalExact
  <2> QED BY <1>0, <2>2, <2>4 DEF CountInv
<1>2. ASSUME NEW v \in Vertex, Peel(v) PROVE CountInv'
  <2>1. /\ adjacency_list' = adjacency_list /\ copies' = copies /\ filtered' = filtered \cup {v}
        /\ edge_filtered' = edge_filtered + copies[v] * Cardinality(Remaining(v))
        /\ v \notin filtered /\ encode_list' = encode_list /\ phase = "peel"
    BY <1>2 DEF Peel
  <2>2. EdgeFilteredExact' /\ edge_filtered' \in Nat
    BY <1>0, <2>1, RemovalExact
  <2>3. encode_list = {} /\ phase' = phase
    BY <1>0, <1>2, <2>1 DEF Peel
  <2> QED BY <2>1, <2>2, <2>3 DEF CountInv
<1>3. CASE /\ UNCHANGED <<adjacency_list, copies, filtered, encode_list, edge_filtered>>
           /\ phase' # "first" => phase # "first" \/ encode_list = {}
  BY <1>0, <1>3, Zenon DEF CountInv, EdgeFilteredExact, Touching, Edge
<1> QED BY <1>1, <1>2, <1>3 DEF Next, vars, EndFirst, NextRound, Finish, SkipFiltered,
                               SkipTooLong, EncodeRest

(* DeltaSIMDVEND: throughout BuildEncoding edge_filtered counts each edge with  *)
(* a filtered end at one of its ends only, as often as that end's list was      *)
(* loaded: exactly n times when all lists were loaded n times.                  *)
THEOREM CountStaysExact == Spec => []EdgeFilteredExact
<1>1. CountInv => EdgeFilteredExact
  BY DEF CountInv
<1> QED BY <1>1, InitCount, NextCount, PeelInvariant, PTL DEF Spec
=============================================================================
