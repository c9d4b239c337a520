--------------------------- MODULE RangeVendBuild ----------------------------
(* RangeVend::BuildEncoding, the build shared by the Range, Hybrid, Bloom and  *)
(* Count indexes: k-core peeling over vertices bucketed by degree.  vert holds *)
(* the vertices in the order of their degrees, pos is its inverse, bin[d] is   *)
(* meant to be the first index of vert with degree d.  Index 0 of every array  *)
(* belongs to the non-existing vertex 0.                                       *)
EXTENDS Integers, Sequences, FiniteSetsExt, PairTypes, Lists

CONSTANTS V,                   \* VERTEX_SIZE
          MaxKCore,            \* encodes_->GetIntSize()
          MaxStray,            \* largest value read past the end of bin
          encodes_Blank,       \* an encoding that was never written
          encodes_EncodeVertex(_, _),  \* old encoding, list |-> new encoding
          encodes_NEpairTest(_, _, _)  \* encodings, u, v |-> the answers the pair may get

Vertex == 1 .. V

VARIABLES adjacency_list, phase, idx, vert, pos, bin, degrees, filtered, code,
          stray                \* what bin[max_kcore + 1] reads when out of range

vars == <<adjacency_list, phase, idx, vert, pos, bin, degrees, filtered, code, stray>>
graphVars == <<adjacency_list, stray>>
orderVars == <<vert, pos, bin, degrees>>

(* LoadData leaves every list sorted. *)
Loaded(E) == [v \in 0 .. V |-> Ascending({w \in Vertex : w # v /\ {v, w} \in E})]

Edge(u, v) == v \in Range(adjacency_list[u])

MaxDegree(adj) == Max({Len(adj[v]) : v \in 0 .. V})

(* The index of the first vertex of degree d, 0 when there is none or d = 0. *)
FirstOfDegree(adj, order, d) ==
  LET I == {i \in Vertex : Len(adj[order[i]]) = d /\ d > 0}
  IN  IF I = {} THEN 0 ELSE Min(I)

(* bin after the missing degrees have been filled in: the first missing degree *)
(* after a degree that occurs gets that degree's index plus one, the missing   *)
(* degrees that follow copy it.                                                *)
FilledBin(adj, order) ==
  [d \in 0 .. MaxDegree(adj) |->
     IF d = 0 \/ FirstOfDegree(adj, order, d) # 0
     THEN FirstOfDegree(adj, order, d)
     ELSE 1 + Max({FirstOfDegree(adj, order, c) : c \in 0 .. d})]

(* vert after std::sort: any order of the vertices by degree. *)
ByDegree(adj) ==
  {[i \in 0 .. V |-> IF i = 0 THEN 0 ELSE s[i]] : s \in
     {t \in Bijection(Vertex, Vertex) : \A i \in 1 .. V - 1 : Len(adj[t[i]]) <= Len(adj[t[i + 1]])}}

InitWith(Graphs, blank) ==
  /\ adjacency_list \in Graphs
  /\ phase = "kcore"
  /\ idx = 0
  /\ vert \in ByDegree(adjacency_list)
  /\ pos = [v \in 0 .. V |-> CHOOSE i \in 0 .. V : vert[i] = v]
  /\ bin = FilledBin(adjacency_list, vert)
  /\ degrees = [v \in 0 .. V |-> Len(adjacency_list[v])]
  /\ filtered = {}
  /\ code = [v \in 0 .. V |-> blank]
  /\ stray \in IF MaxKCore + 1 \in DOMAIN bin THEN {0} ELSE 0 .. MaxStray

InitOver(Graphs) == InitWith(Graphs, encodes_Blank)

GraphsFrom(EdgeSets) == {Loaded(E) : E \in EdgeSets}

Init == InitOver(GraphsFrom(SUBSET PairsOf(Vertex)))
-----------------------------------------------------------------------------
\* Variant: the loop stops one degree early.
LoopBoundEarly == IF MaxKCore \in DOMAIN bin THEN bin[MaxKCore] ELSE stray

(* bin[max_kcore + 1], also when the vector is shorter than that. *)
LoopBound == IF MaxKCore + 1 \in DOMAIN bin THEN bin[MaxKCore + 1] ELSE stray

Unfiltered(v) == Kept(adjacency_list[v], filtered)

\* Variants: the other vertex of a swap keeps its pos; bin is not moved on.
LowerPosNotSwapped(vertex_degree, st, n) ==
  LET neighbor_degree == st.degrees[n]
      first_bin_pos   == st.bin[neighbor_degree]
  IN  IF vertex_degree >= neighbor_degree THEN st ELSE
      [pos     |-> [st.pos EXCEPT ![n] = first_bin_pos],
       vert    |-> [st.vert EXCEPT ![st.pos[n]] = st.vert[first_bin_pos], ![first_bin_pos] = n],
       bin     |-> [st.bin EXCEPT ![neighbor_degree] = @ + 1],
       degrees |-> [st.degrees EXCEPT ![n] = @ - 1]]

LowerBinNotMoved(vertex_degree, st, n) ==
  IF vertex_degree >= st.degrees[n] THEN st ELSE [st EXCEPT !.degrees[n] = @ - 1]

(* The body of the loop over the neighbours: n loses one degree and trades     *)
(* places with the first vertex of its bucket.                                 *)
LowerDegree(vertex_degree, st, n) ==
  LET neighbor_degree == st.degrees[n]
      neighbor_pos    == st.pos[n]
      first_bin_pos   == st.bin[neighbor_degree]
      first_bin       == st.vert[first_bin_pos]
      swap            == first_bin_pos # neighbor_pos
  IN  IF vertex_degree >= neighbor_degree THEN st ELSE
      [pos     |-> IF swap THEN [st.pos EXCEPT ![n] = first_bin_pos, ![first_bin] = neighbor_pos]
                           ELSE st.pos,
       vert    |-> IF swap THEN [st.vert EXCEPT ![neighbor_pos] = first_bin, ![first_bin_pos] = n]
                           ELSE st.vert,
       bin     |-> [st.bin EXCEPT ![neighbor_degree] = @ + 1],
       degrees |-> [st.degrees EXCEPT ![n] = @ - 1]]

(* The loop over the neighbours. *)
LowerAll(vertex_degree, st, neighbors) ==
  LET after[k \in 0 .. Len(neighbors)] ==
        IF k = 0 THEN st ELSE LowerDegree(vertex_degree, after[k - 1], neighbors[k])
  IN  after[Len(neighbors)]

arrays == [vert |-> vert, pos |-> pos, bin |-> bin, degrees |-> degrees]

(* One iteration of the k-core loop. *)
PeelNext ==
  /\ phase = "kcore"
  /\ idx < LoopBound
  /\ idx <= V
  /\ LET vertex == vert[idx]
         st == LowerAll(degrees[vertex], arrays, Unfiltered(vertex))
     IN  /\ vert' = st.vert
         /\ pos' = st.pos
         /\ bin' = st.bin
         /\ degrees' = st.degrees
         /\ filtered' = filtered \cup {vertex}
         /\ code' = [code EXCEPT ![vertex] = encodes_EncodeVertex(@, Unfiltered(vertex))]
  /\ idx' = idx + 1
  /\ UNCHANGED <<graphVars, phase>>

(* The loop bound was read past the end of bin and takes idx past vert: from   *)
(* here on the program is undefined.                                           *)
Overrun ==
  /\ phase = "kcore"
  /\ idx < LoopBound
  /\ idx > V
  /\ phase' = "overrun"
  /\ UNCHANGED <<graphVars, orderVars, idx, filtered, code>>

EndKCore ==
  /\ phase = "kcore"
  /\ idx >= LoopBound
  /\ phase' = "rest"
  /\ UNCHANGED <<graphVars, orderVars, idx, filtered, code>>

\* Variant: the second loop does not advance.
EncodeRestStays ==
  /\ phase = "rest"
  /\ idx < V + 1
  /\ code' = [code EXCEPT ![vert[idx]] = encodes_EncodeVertex(@, Unfiltered(vert[idx]))]
  /\ UNCHANGED <<graphVars, orderVars, idx, phase, filtered>>

\* Variant: the index is advanced in the loop and in its head.
EncodeRestByTwo ==
  /\ phase = "rest"
  /\ idx < V + 1
  /\ code' = [code EXCEPT ![vert[idx]] = encodes_EncodeVertex(@, Unfiltered(vert[idx]))]
  /\ idx' = idx + 2
  /\ UNCHANGED <<graphVars, orderVars, phase, filtered>>

(* One iteration of the second loop: the vertex is summarised over what is     *)
(* left of its list.                                                           *)
EncodeRest ==
  /\ phase = "rest"
  /\ idx < V + 1
  /\ code' = [code EXCEPT ![vert[idx]] = encodes_EncodeVertex(@, Unfiltered(vert[idx]))]
  /\ idx' = idx + 1
  /\ UNCHANGED <<graphVars, orderVars, phase, filtered>>

Finish ==
  /\ phase = "rest"
  /\ idx = V + 1
  /\ phase' = "done"
  /\ UNCHANGED <<graphVars, orderVars, idx, filtered, code>>

Next == PeelNext \/ Overrun \/ EndKCore \/ EncodeRest \/ Finish

Spec == Init /\ [][Next]_vars
-----------------------------------------------------------------------------
(* Lists of vertices, in which u names v as often as v names u. *)
Multigraph(adj) ==
  /\ adj \in [0 .. V -> Seq(Vertex)]
  /\ adj[0] = <<>>
  /\ \A u, v \in Vertex : Times(adj[u], v) = Times(adj[v], u)
  /\ \A v \in Vertex : Times(adj[v], v) = 0

(* The graphs for which filling in bin is right: where a degree d is missing,  *)
(* one vertex at most (vertex 0 counts) has degree d - 1, so that the index    *)
(* after it is that of the next degree.                                        *)
FillIsRight(adj) ==
  \A d \in 1 .. MaxDegree(adj) :
    \/ \E v \in Vertex : Len(adj[v]) = d
    \/ \A u, v \in 0 .. V : Len(adj[u]) = d - 1 /\ Len(adj[v]) = d - 1 => u = v

GapFree(EdgeSets) == {g \in GraphsFrom(EdgeSets) : FillIsRight(g)}

(* The arrays of BuildEncoding map indexes to vertices and back, and the two   *)
(* loops that share the index never take it past the end.                      *)
TypeOK ==
  /\ phase \in {"kcore", "overrun", "rest", "done"}
  /\ idx \in 0 .. V + 1
  /\ vert \in [0 .. V -> 0 .. V]
  /\ pos \in [0 .. V -> 0 .. V]
  /\ degrees \in [0 .. V -> Nat]
  /\ filtered \subseteq 0 .. V

(* "pos array mapping vertex id to index of vert array", and the loop index    *)
(* separates the vertices it has removed from the others: no swap moves a      *)
(* removed vertex ahead of the index (it would be encoded again over a shorter *)
(* list) or a remaining one behind it (it would never be encoded).             *)
FilteredPrefix ==
  /\ \A i \in 0 .. V : pos[vert[i]] = i
  /\ phase = "kcore" => filtered = {vert[i] : i \in 0 .. idx - 1}

(* "bin keeps tracks of first vertex index which degree equals i in vert       *)
(* array": for every degree that can still be looked up.                       *)
BinTracksFirst ==
  phase = "kcore" /\ idx <= V =>
    \A d \in DOMAIN bin :
      LET I == {i \in idx .. V : degrees[vert[i]] = d}
      IN  I # {} /\ degrees[vert[idx]] < d => bin[d] = Min(I)

(* No vertex is left whose remaining list is short enough to be stored.        *)
PeelComplete ==
  phase \in {"rest", "done"} /\ MaxKCore + 1 \in DOMAIN bin =>
    \A v \in Vertex \ filtered : Len(Unfiltered(v)) > MaxKCore

(* A finished build never answers NonNeighbor for an edge. *)
NoFalseNegative ==
  phase = "done" =>
    \A u, v \in Vertex : Edge(u, v) => NonNeighbor \notin encodes_NEpairTest(code, u, v)

(* The build ends, unless the loop bound read past the end of bin takes it out *)
(* of bounds.                                                                  *)
BuildEnds == [](phase # "overrun") => <>(phase = "done")

EdgeSet == {p \in PairsOf(Vertex) : \E u, v \in p : Edge(u, v)}

Answered(t) == {p \in PairsOf(Vertex) :
                  phase = "done" /\ \E u, v \in p : u # v /\ t \in encodes_NEpairTest(code, u, v)}
=============================================================================
