------------------------- MODULE DirPeelBuildProofs --------------------------
(* Proofs about the directed peeling build, for every number of vertices,      *)
(* every directed graph, either setting of UNDIRECTED, however often the       *)
(* out-lists were loaded, and every measure of the lists.                      *)
EXTENDS DirPeelBuild, TLAPS

(* The lists LoadData leaves agree with each other. *)
LEMMA LoadedIsGraph ==
  ASSUME NEW A \in SUBSET Arcs, NEW undirected \in BOOLEAN
  PROVE  Loaded(A, undirected) \in Graphs
<1> DEFINE g == Loaded(A, undirected)
<1>1. g \in [out : [Vertex -> SUBSET Vertex], in : [Vertex -> SUBSET Vertex]]
  BY DEF Loaded
<1>2. \A u, v \in Vertex : /\ u \in g.in[v] <=> <<u, v>> \in A
                           /\ u \in g.out[v] <=> (<<v, u>> \in A \/ (undirected /\ <<u, v>> \in A))
  BY DEF Loaded
<1>3. \A u, v \in Vertex : u \in g.in[v] => v \in g.out[u]
  BY <1>2, Zenon
<1>4. \A u, v \in Vertex : u \in g.out[v] \cup g.in[v] => v \in g.out[u] \cup g.in[u]
  BY <1>2, Zenon
<1> HIDE DEF g
<1>5. g \in Graphs
  BY <1>1, <1>3, <1>4 DEF Graphs
<1> QED BY <1>5 DEF g

(* What the build needs of the loaded lists, one fact at a time. *)
LEMMA GraphFacts ==
  ASSUME TypeOK
  PROVE  /\ adjacency_list \in [Vertex -> SUBSET Vertex]
         /\ in_adj_list \in [Vertex -> SUBSET Vertex]
         /\ \A u, v \in Vertex : u \in in_adj_list[v] => v \in adjacency_list[u]
         /\ \A u, v \in Vertex : u \in adjacency_list[v] \cup in_adj_list[v] =>
                                   v \in adjacency_list[u] \cup in_adj_list[u]
<1> DEFINE g == [out |-> adjacency_list, in |-> in_adj_list]
<1>1. g \in Graphs /\ g.out = adjacency_list /\ g.in = in_adj_list
  BY DEF TypeOK
<1> HIDE DEF g
<1> QED BY <1>1 DEF Graphs

(* The code of a list, which is stored in full when it fits. *)
LEMMA EncodedList ==
  ASSUME NEW S \in SUBSET Vertex, NEW n
  PROVE  /\ EncodeList(S, n) \in Code(Vertex) /\ EncodeList(S, n).list = S
         /\ Bytes(S, n) <= MaxBytesLen => EncodeList(S, n).dec
<1> DEFINE fits == S = {} \/ Bytes(S, n) <= MaxBytesLen
<1>1. fits \in BOOLEAN
  OBVIOUS
<1>2. Bytes(S, n) <= MaxBytesLen => fits
  OBVIOUS
<1>3. EncodeList(S, n) = [dec |-> fits, list |-> S]
  BY DEF EncodeList, Encoded
<1> HIDE DEF fits
<1>4. EncodeList(S, n) \in Code(Vertex) /\ EncodeList(S, n).list = S /\ EncodeList(S, n).dec = fits
  BY <1>1, <1>3 DEF Code
<1> QED BY <1>2, <1>4

(* Lists that fit together fit one by one. *)
LEMMA JointFitsEach ==
  ASSUME NEW v \in Vertex, NEW O \in SUBSET Vertex, NEW I \in SUBSET Vertex,
         copies \in Copies, JointFits(v, O, I)
  PROVE  Bytes(O, copies[v]) <= MaxBytesLen /\ Bytes(I, 1) <= MaxBytesLen
<1> DEFINE N == {1} \cup {c[w] : c \in Copies, w \in 1 .. V}
<1>1. copies[v] \in N /\ 1 \in N
  BY DEF Vertex
<1>2. MaxBytesLen \in Nat /\ \A S \in SUBSET Vertex, n \in N : Bytes(S, n) \in Nat
  BY DirAssumption DEF Vertex
<1> HIDE DEF N
<1>3. Bytes(O, copies[v]) \in Nat /\ Bytes(I, 1) \in Nat
  BY <1>1, <1>2
<1> QED BY <1>2, <1>3 DEF JointFits

(* The two codes EncodeVertex writes. *)
LEMMA EncodedCodes ==
  ASSUME NEW v \in Vertex, NEW O \in SUBSET Vertex, NEW I \in SUBSET Vertex,
         code \in [Vertex -> [out : Code(Vertex), in : Code(Vertex)]], copies \in Copies,
         EncodeVertex(v, O, I)
  PROVE  /\ code' \in [Vertex -> [out : Code(Vertex), in : Code(Vertex)]]
         /\ code'[v].out.list = O /\ code'[v].in.list = I
         /\ JointFits(v, O, I) => code'[v].out.dec /\ code'[v].in.dec
         /\ \A w \in Vertex : w # v => code'[w] = code[w]
<1> DEFINE o == EncodeList(O, copies[v])
           i == EncodeList(I, 1)
           c == [out |-> o, in |-> i]
<1>1. /\ o \in Code(Vertex) /\ o.list = O /\ i \in Code(Vertex) /\ i.list = I
      /\ JointFits(v, O, I) => o.dec /\ i.dec
  BY EncodedList, JointFitsEach
<1>2. code' = [code EXCEPT ![v] = c]
  BY DEF EncodeVertex
<1> HIDE DEF o, i
<1>3. c \in [out : Code(Vertex), in : Code(Vertex)] /\ c.out = o /\ c.in = i
  BY <1>1
<1> HIDE DEF c
<1>4. code'[v] = c /\ \A w \in Vertex : w # v => code'[w] = code[w]
  BY <1>2
<1>5. code' \in [Vertex -> [out : Code(Vertex), in : Code(Vertex)]]
  BY <1>2, <1>3
<1> QED BY <1>1, <1>3, <1>4, <1>5

(* The state BuildEncoding starts from satisfies the invariant. *)
LEMMA InitInv == Init => DirPeelInv
<1> SUFFICES ASSUME Init PROVE DirPeelInv
  OBVIOUS
<1>1. [out |-> adjacency_list, in |-> in_adj_list] \in Graphs
  <2>1. PICK A \in SUBSET Arcs, undirected \in Undirected :
          /\ adjacency_list = Loaded(A, undirected).out
          /\ in_adj_list = Loaded(A, undirected).in
    BY DEF Init
  <2>2. undirected \in BOOLEAN
    BY DirAssumption
  <2>3. Loaded(A, undirected) = [out |-> adjacency_list, in |-> in_adj_list]
    BY <2>1 DEF Loaded
  <2> QED BY <2>2, <2>3, LoadedIsGraph
<1>2. \A v \in Vertex : code[v].out = Blank /\ code[v].in = Blank
  BY DEF Init
<1>3. Blank \in Code(Vertex) /\ Blank.list = {}
  BY DEF Blank, Code
<1>4. TypeOK
  BY <1>1, <1>3 DEF Init, TypeOK
<1>5. ListsAreLoaded
  BY <1>2, <1>3 DEF ListsAreLoaded
<1>6. PeelPending
  <2> SUFFICES ASSUME NEW v \in Vertex, JointFits(v, RemainingOut(v), RemainingIn(v))
               PROVE  v \in encode_list
    BY DEF PeelPending, Init
  <2>1. RemainingOut(v) = adjacency_list[v] /\ RemainingIn(v) = in_adj_list[v]
    BY DEF RemainingOut, RemainingIn, Init
  <2> QED BY <2>1 DEF Init
<1> QED BY <1>4, <1>5, <1>6 DEF DirPeelInv, Init, FirstFits, FilteredDecodable,
                                    FilteredCovers, RestCovers

(* Removing v leaves the remaining lists of every vertex alone that is no      *)
(* remaining out- or in-neighbour of v.                                        *)
LEMMA StillPending ==
  ASSUME TypeOK, NEW v \in Vertex, NEW u \in Vertex,
         adjacency_list' = adjacency_list, in_adj_list' = in_adj_list,
         filtered' = filtered \cup {v},
         u \notin RemainingOut(v) \cup RemainingIn(v), u \notin filtered'
  PROVE  RemainingOut(u)' = RemainingOut(u) /\ RemainingIn(u)' = RemainingIn(u)
<1>1. u \notin adjacency_list[v] \cup in_adj_list[v]
  BY DEF RemainingOut, RemainingIn
<1>2. v \notin adjacency_list[u] /\ v \notin in_adj_list[u]
  BY <1>1, GraphFacts
<1> QED BY <1>2 DEF RemainingOut, RemainingIn

(* Storing a vertex over lists that hold at least what remains keeps every arc *)
(* with a filtered end at such an end.                                         *)
LEMMA CoversGrows ==
  ASSUME TypeOK, FilteredCovers, NEW v \in Vertex,
         adjacency_list' = adjacency_list, in_adj_list' = in_adj_list,
         filtered' = filtered \cup {v}, v \notin filtered,
         RemainingOut(v) \subseteq code'[v].out.list, RemainingIn(v) \subseteq code'[v].in.list,
         \A w \in Vertex : w # v => code'[w] = code[w]
  PROVE  FilteredCovers'
<1> SUFFICES ASSUME NEW x \in Vertex, NEW w \in Vertex, x \in in_adj_list[w],
                    x \in filtered' \/ w \in filtered'
             PROVE  \/ x \in filtered' /\ w \in code'[x].out.list
                    \/ w \in filtered' /\ x \in code'[w].in.list
  BY DEF FilteredCovers, Arc
<1>1. w \in adjacency_list[x]
  BY GraphFacts
<1>2. CASE x \in filtered \/ w \in filtered
  <2>1. \/ x \in filtered /\ w \in code[x].out.list
        \/ w \in filtered /\ x \in code[w].in.list
    BY <1>2 DEF FilteredCovers, Arc
  <2> QED BY <2>1
<1>3. CASE x \notin filtered /\ w \notin filtered
  <2>1. CASE x = v
    BY <2>1, <1>1, <1>3 DEF RemainingOut
  <2>2. CASE w = v
    BY <2>2, <1>3 DEF RemainingIn
  <2> QED BY <2>1, <2>2, <1>3
<1> QED BY <1>2, <1>3

(* The first round preserves the invariant. *)
LEMMA EncodeFirstInv ==
  ASSUME DirPeelInv, NEW v \in Vertex, EncodeFirst(v)
  PROVE  DirPeelInv'
<1>1. TypeOK /\ FilteredDecodable /\ FilteredCovers /\ ListsAreLoaded /\ PeelPending
  BY DEF DirPeelInv
<1>2. adjacency_list[v] \in SUBSET Vertex /\ in_adj_list[v] \in SUBSET Vertex
  BY <1>1, GraphFacts
<1>3. JointFits(v, adjacency_list[v], in_adj_list[v]) /\ v \notin filtered
  BY DEF DirPeelInv, FirstFits, EncodeFirst, Least
<1>4. /\ code' \in [Vertex -> [out : Code(Vertex), in : Code(Vertex)]]
      /\ code'[v].out.list = adjacency_list[v] /\ code'[v].in.list = in_adj_list[v]
      /\ code'[v].out.dec /\ code'[v].in.dec
      /\ \A w \in Vertex : w # v => code'[w] = code[w]
  BY <1>1, <1>2, <1>3, EncodedCodes DEF EncodeFirst, TypeOK
<1>5. /\ adjacency_list' = adjacency_list /\ in_adj_list' = in_adj_list /\ copies' = copies
      /\ phase' = phase /\ phase = "first"
      /\ encode_list' = encode_list \ {v} /\ filtered' = filtered \cup {v}
      /\ vertices_related' = vertices_related \cup adjacency_list[v] \cup in_adj_list[v]
      /\ next_list' = next_list /\ rest' = rest
  BY DEF EncodeFirst, graphVars
<1>6. TypeOK'
  BY <1>1, <1>2, <1>4, <1>5 DEF TypeOK
<1>7. FilteredDecodable'
  BY <1>1, <1>4, <1>5 DEF FilteredDecodable, TypeOK
<1>8. FilteredCovers'
  <2>1. RemainingOut(v) \subseteq code'[v].out.list /\ RemainingIn(v) \subseteq code'[v].in.list
    BY <1>4 DEF RemainingOut, RemainingIn
  <2> QED BY <2>1, <1>1, <1>3, <1>4, <1>5, CoversGrows
<1>9. ListsAreLoaded'
  BY <1>1, <1>4, <1>5 DEF ListsAreLoaded
<1>10. PeelPending'
  <2> SUFFICES ASSUME NEW u \in Vertex, u \notin filtered',
                      JointFits(u, RemainingOut(u), RemainingIn(u))'
               PROVE  u \in encode_list' \cup vertices_related'
    BY <1>5 DEF PeelPending
  <2>1. CASE u \in adjacency_list[v] \cup in_adj_list[v]
    BY <2>1, <1>5
  <2>2. CASE u \notin adjacency_list[v] \cup in_adj_list[v]
    <3>1. RemainingOut(u)' = RemainingOut(u) /\ RemainingIn(u)' = RemainingIn(u)
      BY <2>2, <1>1, <1>5, StillPending DEF RemainingOut, RemainingIn
    <3> QED BY <3>1, <1>1, <1>5 DEF PeelPending, JointFits
  <2> QED BY <2>1, <2>2
<1>11. FirstFits'
  BY <1>5 DEF DirPeelInv, FirstFits, JointFits
<1> QED BY <1>5, <1>6, <1>7, <1>8, <1>9, <1>10, <1>11 DEF DirPeelInv, RestCovers

(* A round preserves the invariant when it removes a vertex. *)
LEMMA PeelKeepsInv ==
  ASSUME DirPeelInv, NEW v \in Vertex, Peel(v)
  PROVE  DirPeelInv'
<1>1. TypeOK /\ FilteredDecodable /\ FilteredCovers /\ ListsAreLoaded /\ PeelPending
  BY DEF DirPeelInv
<1>2. /\ RemainingOut(v) \in SUBSET Vertex /\ RemainingOut(v) \subseteq adjacency_list[v]
      /\ RemainingIn(v) \in SUBSET Vertex /\ RemainingIn(v) \subseteq in_adj_list[v]
  BY <1>1, GraphFacts DEF RemainingOut, RemainingIn
<1>3. JointFits(v, RemainingOut(v), RemainingIn(v)) /\ v \notin filtered
  BY DEF Peel
<1>4. /\ code' \in [Vertex -> [out : Code(Vertex), in : Code(Vertex)]]
      /\ code'[v].out.list = RemainingOut(v) /\ code'[v].in.list = RemainingIn(v)
      /\ code'[v].out.dec /\ code'[v].in.dec
      /\ \A w \in Vertex : w # v => code'[w] = code[w]
  BY <1>1, <1>2, <1>3, EncodedCodes DEF Peel, TypeOK
<1>5. /\ adjacency_list' = adjacency_list /\ in_adj_list' = in_adj_list /\ copies' = copies
      /\ phase' = phase /\ phase = "peel"
      /\ encode_list' = encode_list /\ filtered' = filtered \cup {v}
      /\ vertices_related' = vertices_related \ {v}
      /\ next_list' = next_list \cup RemainingOut(v) \cup RemainingIn(v) /\ rest' = rest
  BY DEF Peel, graphVars
<1>6. TypeOK'
  BY <1>1, <1>2, <1>4, <1>5 DEF TypeOK
<1>7. FilteredDecodable'
  BY <1>1, <1>4, <1>5 DEF FilteredDecodable, TypeOK
<1>8. FilteredCovers'
  BY <1>1, <1>3, <1>4, <1>5, CoversGrows
<1>9. ListsAreLoaded'
  BY <1>1, <1>2, <1>4, <1>5 DEF ListsAreLoaded
<1>10. PeelPending'
  <2> SUFFICES ASSUME NEW u \in Vertex, u \notin filtered',
                      JointFits(u, RemainingOut(u), RemainingIn(u))'
               PROVE  u \in vertices_related' \cup next_list'
    BY <1>5 DEF PeelPending
  <2>1. CASE u \in RemainingOut(v) \cup RemainingIn(v)
    BY <2>1, <1>5
  <2>2. CASE u \notin RemainingOut(v) \cup RemainingIn(v)
    <3>1. RemainingOut(u)' = RemainingOut(u) /\ RemainingIn(u)' = RemainingIn(u)
      BY <2>2, <1>1, <1>5, StillPending
    <3> QED BY <3>1, <1>1, <1>5 DEF PeelPending, JointFits
  <2> QED BY <2>1, <2>2
<1>11. FirstFits'
  BY <1>5 DEF DirPeelInv, FirstFits, JointFits
<1> QED BY <1>5, <1>6, <1>7, <1>8, <1>9, <1>10, <1>11 DEF DirPeelInv, RestCovers

(* The last loop preserves the invariant. *)
LEMMA EncodeRestInv ==
  ASSUME DirPeelInv, NEW v \in Vertex, EncodeRest(v)
  PROVE  DirPeelInv'
<1>1. TypeOK /\ FilteredDecodable /\ FilteredCovers /\ ListsAreLoaded /\ PeelPending /\ RestCovers
  BY DEF DirPeelInv
<1>2. /\ RemainingOut(v) \in SUBSET Vertex /\ RemainingOut(v) \subseteq adjacency_list[v]
      /\ RemainingIn(v) \in SUBSET Vertex /\ RemainingIn(v) \subseteq in_adj_list[v]
  BY <1>1, GraphFacts DEF RemainingOut, RemainingIn
<1>3. /\ adjacency_list' = adjacency_list /\ in_adj_list' = in_adj_list /\ copies' = copies
      /\ phase' = phase /\ phase = "rest"
      /\ encode_list' = encode_list /\ filtered' = filtered
      /\ vertices_related' = vertices_related
      /\ next_list' = next_list /\ rest' = rest \ {v}
  BY DEF EncodeRest, graphVars
<1>4. \A u : RemainingOut(u)' = RemainingOut(u) /\ RemainingIn(u)' = RemainingIn(u)
  BY <1>3 DEF RemainingOut, RemainingIn
<1>5. PeelPending' /\ FirstFits'
  BY <1>1, <1>3, <1>4 DEF PeelPending, FirstFits, JointFits
<1>6. CASE v \in filtered
  <2>1. code' = code
    BY <1>6 DEF EncodeRest
  <2>2. TypeOK'
    BY <2>1, <1>1, <1>3 DEF TypeOK
  <2>3. FilteredDecodable' /\ FilteredCovers' /\ ListsAreLoaded'
    BY <2>1, <1>1, <1>3 DEF FilteredDecodable, FilteredCovers, ListsAreLoaded, Arc
  <2>4. RestCovers'
    BY <2>1, <1>1, <1>3, <1>4, <1>6 DEF RestCovers
  <2> QED BY <2>2, <2>3, <2>4, <1>3, <1>5 DEF DirPeelInv
<1>7. CASE v \notin filtered
  <2>1. /\ code' \in [Vertex -> [out : Code(Vertex), in : Code(Vertex)]]
        /\ code'[v].out.list = RemainingOut(v) /\ code'[v].in.list = RemainingIn(v)
        /\ \A w \in Vertex : w # v => code'[w] = code[w]
    BY <1>1, <1>2, <1>7, EncodedCodes DEF EncodeRest, TypeOK
  <2>2. TypeOK'
    BY <2>1, <1>1, <1>3 DEF TypeOK
  <2>3. \A w \in filtered : code'[w] = code[w]
    BY <2>1, <1>1, <1>7 DEF TypeOK
  <2>4. FilteredDecodable' /\ FilteredCovers'
    BY <2>3, <1>1, <1>3 DEF FilteredDecodable, FilteredCovers, Arc
  <2>5. ListsAreLoaded'
    BY <2>1, <1>1, <1>2, <1>3 DEF ListsAreLoaded
  <2>6. RestCovers'
    BY <2>1, <1>1, <1>3, <1>4 DEF RestCovers
  <2> QED BY <2>2, <2>4, <2>5, <2>6, <1>3, <1>5 DEF DirPeelInv
<1> QED BY <1>6, <1>7

(* Every step of the build preserves the invariant. *)
LEMMA NextInv == DirPeelInv /\ [Next]_vars => DirPeelInv'
<1> SUFFICES ASSUME DirPeelInv, [Next]_vars PROVE DirPeelInv'
  OBVIOUS
<1> USE DEF DirPeelInv, TypeOK, FirstFits, FilteredDecodable, FilteredCovers, RestCovers,
            ListsAreLoaded, PeelPending, RemainingOut, RemainingIn, Arc, graphVars, JointFits
<1>1. CASE EndFirst
  BY <1>1, Zenon DEF EndFirst
<1>2. CASE NextRound
  BY <1>2, Zenon DEF NextRound
<1>3. CASE Finish
  BY <1>3, Zenon DEF Finish
<1>4. CASE \E v \in Vertex : EncodeFirst(v)
  BY <1>4, EncodeFirstInv, Zenon
<1>5. CASE \E v \in Vertex : Skip(v)
  <2>1. PICK v \in Vertex : Skip(v)
    BY <1>5
  <2>2. PeelPending'
    <3>1. PeelPending
      BY Zenon
    <3> QED BY ONLY <2>1, <3>1 DEF Skip, PeelPending, RemainingOut, RemainingIn, graphVars, JointFits
  <2>3. TypeOK'
    BY <2>1 DEF Skip
  <2>4. /\ FirstFits' /\ FilteredDecodable' /\ FilteredCovers' /\ RestCovers'
        /\ ListsAreLoaded' /\ phase' = phase
    BY <2>1 DEF Skip
  <2>5. phase' # "done"
    BY <2>1 DEF Skip
  <2> QED BY ONLY <2>2, <2>3, <2>4, <2>5, Zenon DEF DirPeelInv
<1>6. CASE \E v \in Vertex : Peel(v)
  BY <1>6, PeelKeepsInv, Zenon
<1>7. CASE \E v \in Vertex : EncodeRest(v)
  BY <1>7, EncodeRestInv, Zenon
<1>8. CASE UNCHANGED vars
  BY <1>8, Zenon DEF vars
<1> QED BY <1>1, <1>2, <1>3, <1>4, <1>5, <1>6, <1>7, <1>8, Zenon DEF Next

(* The invariant holds throughout DirSIMDVend::BuildEncoding. *)
THEOREM DirPeelInvariant == Spec => []DirPeelInv
BY InitInv, NextInv, PTL DEF Spec

(* A neighbour that is stored is never denied; a vertex that is not stored is  *)
(* never affirmed.                                                             *)
LEMMA AnswersFollowList ==
  ASSUME NEW c, NEW w
  PROVE  /\ Answers(c, w) \subseteq {Neighbor, NonNeighbor, Uncertain}
         /\ w \in c.list => NonNeighbor \notin Answers(c, w)
         /\ w \in c.list /\ c.dec => Answers(c, w) = {Neighbor}
         /\ w \notin c.list => Neighbor \notin Answers(c, w)
BY DEF Answers, Neighbor, NonNeighbor, Uncertain

(* What a search of a code may answer without harm. *)
Harmless(A, c, w) == /\ A \subseteq {Neighbor, NonNeighbor, Uncertain}
                     /\ w \in c.list => NonNeighbor \notin A
                     /\ w \in c.list /\ c.dec => A = {Neighbor}

(* When the build is done no arc is denied, if both searches are harmless. *)
LEMMA ArcNotDenied ==
  ASSUME DirPeelInv, phase = "done", NEW u \in Vertex, NEW v \in Vertex, Arc(u, v),
         NEW A, NEW B, Harmless(A, code[u].out, v), Harmless(B, code[v].in, u)
  PROVE  NonNeighbor \notin Combined(code[u].out.dec, code[v].in.dec, A, B)
<1> DEFINE out == code[u].out
           in  == code[v].in
<1>1. TypeOK /\ v \in adjacency_list[u] /\ u \in in_adj_list[v]
  BY GraphFacts DEF DirPeelInv, Arc
<1>2. CASE u \in filtered \/ v \in filtered
  <2>1. (v \in out.list /\ out.dec) \/ (u \in in.list /\ in.dec)
    BY <1>2 DEF DirPeelInv, FilteredCovers, FilteredDecodable
  <2>2. A = {Neighbor} \/ B = {Neighbor}
    BY <2>1 DEF Harmless
  <2>3. NonNeighbor \notin BothMin(A, B)
    BY <2>2 DEF Harmless, BothMin, MinType, Neighbor, NonNeighbor, Uncertain
  <2>4. out.dec # in.dec => NonNeighbor \notin (IF out.dec THEN A ELSE B)
    <3>1. ~out.dec => u \in in.list
      BY <2>1
    <3>2. out.dec /\ ~in.dec => v \in out.list
      BY <2>1
    <3>3. out.dec \in BOOLEAN /\ in.dec \in BOOLEAN
      BY <1>1 DEF TypeOK, Code
    <3> QED BY <3>1, <3>2, <3>3 DEF Harmless
  <2> QED BY <2>3, <2>4 DEF Combined
<1>3. CASE u \notin filtered /\ v \notin filtered
  <2>1. v \in out.list /\ u \in in.list
    BY <1>1, <1>3 DEF DirPeelInv, RestCovers, RemainingOut, RemainingIn
  <2>2. NonNeighbor \notin A /\ NonNeighbor \notin B
    BY <2>1 DEF Harmless
  <2>3. NonNeighbor \notin BothMin(A, B)
    BY <2>2 DEF BothMin, MinType
  <2> QED BY <2>2, <2>3 DEF Combined
<1> QED BY <1>2, <1>3

(* A search by another flag than the code's own is harmless when it does not   *)
(* take a summary for the whole list.                                          *)
LEMMA OtherFlagHarmless ==
  ASSUME NEW c, NEW w, NEW flag \in BOOLEAN, c.dec \in BOOLEAN, ~Mistaken(c, flag)
  PROVE  Harmless(FlaggedAnswers(c, flag, w), c, w)
<1>1. CASE c.dec = flag
  BY <1>1, AnswersFollowList DEF FlaggedAnswers, Harmless
<1>2. CASE c.dec # flag
  <2>1. ~flag
    BY <1>2 DEF Mistaken
  <2>2. FlaggedAnswers(c, flag, w) = IF w \in c.list THEN {Neighbor} ELSE {NonNeighbor, Uncertain}
    BY <1>2, <2>1 DEF FlaggedAnswers, Neighbor, NonNeighbor
  <2> QED BY <2>2 DEF Harmless, Neighbor, NonNeighbor
<1> QED BY <1>1, <1>2

(* Whatever the flag, a search affirms only what is stored, and affirms what is *)
(* stored in full.                                                              *)
LEMMA AnyFlag ==
  ASSUME NEW c, NEW w, NEW flag \in BOOLEAN, c.dec \in BOOLEAN
  PROVE  /\ FlaggedAnswers(c, flag, w) \subseteq {Neighbor, NonNeighbor, Uncertain}
         /\ w \notin c.list => Neighbor \notin FlaggedAnswers(c, flag, w)
         /\ w \in c.list /\ c.dec => FlaggedAnswers(c, flag, w) = {Neighbor}
<1>1. CASE c.dec = flag
  BY <1>1, AnswersFollowList DEF FlaggedAnswers
<1>2. CASE c.dec # flag
  BY <1>2 DEF FlaggedAnswers, Neighbor, NonNeighbor, Uncertain
<1> QED BY <1>1, <1>2

(* The two flags of a vertex are Boolean. *)
LEMMA Flags ==
  ASSUME DirPeelInv
  PROVE  \A x \in Vertex : code[x].out.dec \in BOOLEAN /\ code[x].in.dec \in BOOLEAN
BY DEF DirPeelInv, TypeOK, Code

(* An arc with a filtered end is stored in full at a filtered end, whose answer *)
(* is Neighbor by any flag and decides, or joins an answer it is smaller than.  *)
LEMMA FilteredArcNotDenied ==
  ASSUME DirPeelInv, NEW u \in Vertex, NEW v \in Vertex, Arc(u, v), u \in filtered \/ v \in filtered
  PROVE  NonNeighbor \notin SIMDNEpairTestDirected(u, v)
<1> DEFINE out == code[u].out
           in  == code[v].in
           A == FlaggedAnswers(out, code[u].in.dec, v)
           B == FlaggedAnswers(in, code[v].out.dec, u)
<1>1. (v \in out.list /\ out.dec) \/ (u \in in.list /\ in.dec)
  BY DEF DirPeelInv, FilteredCovers, FilteredDecodable
<1>2. /\ v \in out.list /\ out.dec => A = {Neighbor}
      /\ u \in in.list /\ in.dec => B = {Neighbor}
      /\ A \subseteq {Neighbor, NonNeighbor, Uncertain}
      /\ B \subseteq {Neighbor, NonNeighbor, Uncertain}
  BY Flags, AnyFlag
<1>3. out.dec \in BOOLEAN /\ in.dec \in BOOLEAN
  BY Flags
<1>4. SIMDNEpairTestDirected(u, v) = Combined(out.dec, in.dec, A, B)
  BY DEF SIMDNEpairTestDirected
<1> HIDE DEF out, in, A, B
<1>5. NonNeighbor \notin BothMin(A, B)
  BY <1>1, <1>2 DEF BothMin, MinType, Neighbor, NonNeighbor, Uncertain
<1>6. out.dec # in.dec => NonNeighbor \notin (IF out.dec THEN A ELSE B)
  BY <1>1, <1>2, <1>3 DEF Neighbor, NonNeighbor
<1> QED BY <1>4, <1>5, <1>6 DEF Combined

(* Only a pair that was loaded is affirmed. *)
LEMMA OnlyLoadedAffirmed ==
  ASSUME DirPeelInv, NEW u \in Vertex, NEW v \in Vertex, v \notin adjacency_list[u]
  PROVE  Neighbor \notin SIMDNEpairTestDirected(u, v)
<1> DEFINE A == FlaggedAnswers(code[u].out, code[u].in.dec, v)
           B == FlaggedAnswers(code[v].in, code[v].out.dec, u)
<1>1. u \notin in_adj_list[v]
  BY GraphFacts DEF DirPeelInv
<1>2. v \notin code[u].out.list /\ u \notin code[v].in.list
  BY <1>1 DEF DirPeelInv, ListsAreLoaded
<1>3. Neighbor \notin A /\ Neighbor \notin B
  BY <1>2, Flags, AnyFlag
<1>4. SIMDNEpairTestDirected(u, v) = Combined(code[u].out.dec, code[v].in.dec, A, B)
  BY DEF SIMDNEpairTestDirected
<1> HIDE DEF A, B
<1>5. Neighbor \notin BothMin(A, B)
  BY <1>3 DEF BothMin, MinType
<1> QED BY <1>3, <1>4, <1>5 DEF Combined

(* DirectedSIMD: its pair test, with the flags it takes, denies no arc that has *)
(* a filtered end, and affirms only what was loaded.                            *)
THEOREM NeverDeniesAFilteredArc == Spec => []FilteredArcsNotDenied
<1>1. DirPeelInv => FilteredArcsNotDenied
  BY FilteredArcNotDenied, OnlyLoadedAffirmed DEF FilteredArcsNotDenied
<1> QED BY <1>1, DirPeelInvariant, PTL

(* DirectedSIMD: its pair test, with the flags it takes, denies an arc only    *)
(* where it takes a summary for a list stored in full.                         *)
THEOREM SIMDNeverDeniesAnArc == Spec => []SIMDArcsNotDenied
<1>1. DirPeelInv => SIMDArcsNotDenied
  <2> SUFFICES ASSUME DirPeelInv, phase = "done", NEW u \in Vertex, NEW v \in Vertex,
                      Arc(u, v), ~Mistaken(code[u].out, code[u].in.dec),
                      ~Mistaken(code[v].in, code[v].out.dec)
               PROVE  NonNeighbor \notin SIMDNEpairTestDirected(u, v)
    BY DEF SIMDArcsNotDenied
  <2>1. \A x \in Vertex : code[x].out.dec \in BOOLEAN /\ code[x].in.dec \in BOOLEAN
    BY Flags
  <2>2. Harmless(FlaggedAnswers(code[u].out, code[u].in.dec, v), code[u].out, v)
    BY <2>1, OtherFlagHarmless
  <2>3. Harmless(FlaggedAnswers(code[v].in, code[v].out.dec, u), code[v].in, u)
    BY <2>1, OtherFlagHarmless
  <2> QED BY <2>2, <2>3, ArcNotDenied DEF SIMDNEpairTestDirected
<1> QED BY <1>1, DirPeelInvariant, PTL
=============================================================================
