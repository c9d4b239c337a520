------------------------------ MODULE PeelBuild ------------------------------
(* BuildEncoding of RangeCompVend and DeltaSIMDVEND.  Vertices whose list of  *)
(* neighbours can be stored in full are encoded and removed ("filtered"); a   *)
(* removal shortens the lists of the neighbours, which are looked at again in *)
(* the next round, until a round removes nothing.  The vertices that are left *)
(* are summarised over the neighbours that are left.                          *)
EXTENDS Naturals, FiniteSets, VertexCode

CONSTANTS V,             \* VERTEX_SIZE: vertices are 1 .. V
          Copies,        \* how often the list of each vertex may have been loaded
          Fits(_, _)     \* GetRequiredBits / GetRequiredBytes(list) <= capacity, for
                         \* the list that names each member of a set so often

Vertex == 1 .. V

ASSUME VAssumption == V \in Nat /\ Copies \subseteq [1 .. V -> Nat \ {0}]
ASSUME FitsAssumption == \A S \in SUBSET (1 .. V), c \in Copies, v \in 1 .. V : Fits(S, c[v]) \in BOOLEAN

VARIABLES adjacency_list,  \* the graph, as a set of neighbours per vertex
          copies,          \* how often each list names its members
          phase,           \* "first", "peel", "rest", "done"
          encode_list,     \* first round: vertices still to encode
          vertices_related,\* this round: vertices still to look at
          next_list,       \* vertices to look at in the next round
          filtered,        \* encoded in full and removed
          rest,            \* last loop: vertices still to visit
          code,            \* the encodings
          edge_filtered    \* DeltaSIMDVEND's count of the edges removed

vars == <<adjacency_list, copies, phase, encode_list, vertices_related, next_list,
          filtered, rest, code, edge_filtered>>

(* Simple undirected graphs. *)
Graphs == {g \in [Vertex -> SUBSET Vertex] :
             \A u, v \in Vertex : /\ u \in g[v] <=> v \in g[u]
                                  /\ u \notin g[u]}

(* The adjacency lists Graph::Init leaves for a set of edges: entries at both  *)
(* ends of every edge.  LoadDataFromDb fetches the lists that earlier fills    *)
(* saved and LoadData appends the file, so that a list names its members once  *)
(* over an empty database, twice over a filled one, and after a fill that was  *)
(* cut off more often at the vertices that were saved (copies).                *)
Loaded(E) == [v \in Vertex |-> {w \in Vertex : w # v /\ {v, w} \in E}]

Edge(u, v) == v \in adjacency_list[u]

(* The neighbours of v that are not filtered. *)
Remaining(v) == adjacency_list[v] \ filtered

Least(v, S) == v \in S /\ \A w \in S : v <= w

(* The list of v cut down to S fits. *)
Storable(v, S) == Fits(S, copies[v])

EncodeVertex(v, S) == code' = [code EXCEPT ![v] = Encoded(Storable(v, S), S)]

Init == /\ \E E \in SUBSET PairsOf(Vertex) : adjacency_list = Loaded(E)
        /\ copies \in Copies
        /\ phase = "first"
        /\ encode_list = {v \in Vertex : Storable(v, adjacency_list[v])}
        /\ vertices_related = {}
        /\ next_list = {}
        /\ filtered = {}
        /\ rest = {}
        /\ code = [v \in Vertex |-> Blank]
        /\ edge_filtered = 0

(* First round, in the order of the identifiers: the full lists are stored,   *)
(* including neighbours that are already filtered; the counter takes those    *)
(* off again.                                                                 *)
EncodeFirst(v) ==
  /\ phase = "first"
  /\ Least(v, encode_list)
  /\ encode_list' = encode_list \ {v}
  /\ vertices_related' = vertices_related \cup adjacency_list[v]
  /\ EncodeVertex(v, adjacency_list[v])
  /\ filtered' = filtered \cup {v}
  /\ edge_filtered' = edge_filtered + copies[v] * Cardinality(adjacency_list[v])
                                    - copies[v] * Cardinality(adjacency_list[v] \cap filtered')
  /\ UNCHANGED <<adjacency_list, copies, phase, next_list, rest>>

EndFirst ==
  /\ phase = "first"
  /\ encode_list = {}
  /\ phase' = "peel"
  /\ UNCHANGED <<adjacency_list, copies, encode_list, vertices_related, next_list,
                 filtered, rest, code, edge_filtered>>

(* One vertex of the round, in the unspecified order of the hash set. *)
SkipFiltered(v) ==
  /\ phase = "peel"
  /\ v \in vertices_related
  /\ v \in filtered
  /\ vertices_related' = vertices_related \ {v}
  /\ UNCHANGED <<adjacency_list, copies, phase, encode_list, next_list, filtered, rest,
                 code, edge_filtered>>

SkipTooLong(v) ==
  /\ phase = "peel"
  /\ v \in vertices_related
  /\ v \notin filtered
  /\ ~Storable(v, Remaining(v))
  /\ vertices_related' = vertices_related \ {v}
  /\ UNCHANGED <<adjacency_list, copies, phase, encode_list, next_list, filtered, rest,
                 code, edge_filtered>>

\* Variant: the neighbours of a vertex removed in a later round are not queued.
PeelNoRequeue(v) ==
  /\ phase = "peel"
  /\ v \in vertices_related
  /\ v \notin filtered
  /\ Storable(v, Remaining(v))
  /\ vertices_related' = vertices_related \ {v}
  /\ EncodeVertex(v, Remaining(v))
  /\ filtered' = filtered \cup {v}
  /\ edge_filtered' = edge_filtered + copies[v] * Cardinality(Remaining(v))
  /\ UNCHANGED <<adjacency_list, copies, phase, encode_list, next_list, rest>>

\* Variant: the counter takes the whole list of a vertex removed in a later round.
PeelCountsAll(v) ==
  /\ phase = "peel"
  /\ v \in vertices_related
  /\ v \notin filtered
  /\ Storable(v, Remaining(v))
  /\ vertices_related' = vertices_related \ {v}
  /\ EncodeVertex(v, Remaining(v))
  /\ filtered' = filtered \cup {v}
  /\ edge_filtered' = edge_filtered + copies[v] * Cardinality(adjacency_list[v])
  /\ next_list' = next_list \cup Remaining(v)
  /\ UNCHANGED <<adjacency_list, copies, phase, encode_list, rest>>

Peel(v) ==
  /\ phase = "peel"
  /\ v \in vertices_related
  /\ v \notin filtered
  /\ Storable(v, Remaining(v))
  /\ vertices_related' = vertices_related \ {v}
  /\ EncodeVertex(v, Remaining(v))
  /\ filtered' = filtered \cup {v}
  /\ edge_filtered' = edge_filtered + copies[v] * Cardinality(Remaining(v))
  /\ next_list' = next_list \cup Remaining(v)
  /\ UNCHANGED <<adjacency_list, copies, phase, encode_list, rest>>

\* Variant: next_list is not emptied between rounds.
NextRoundKeepsList ==
  /\ phase = "peel"
  /\ vertices_related = {}
  /\ vertices_related' = next_list
  /\ IF next_list = {} THEN phase' = "rest" /\ rest' = Vertex
                       ELSE UNCHANGED <<phase, rest>>
  /\ UNCHANGED <<adjacency_list, copies, encode_list, next_list, filtered, code, edge_filtered>>

(* vertices_related = next_list; the loop goes on while it is not empty. *)
NextRound ==
  /\ phase = "peel"
  /\ vertices_related = {}
  /\ vertices_related' = next_list
  /\ next_list' = {}
  /\ IF next_list = {} THEN phase' = "rest" /\ rest' = Vertex
                       ELSE UNCHANGED <<phase, rest>>
  /\ UNCHANGED <<adjacency_list, copies, encode_list, filtered, code, edge_filtered>>

\* Variant: the last loop does not skip the filtered vertices.
EncodeRestAll(v) ==
  /\ phase = "rest"
  /\ Least(v, rest)
  /\ rest' = rest \ {v}
  /\ EncodeVertex(v, Remaining(v))
  /\ UNCHANGED <<adjacency_list, copies, phase, encode_list, vertices_related, next_list,
                 filtered, edge_filtered>>

(* The last loop, in the order of the identifiers. *)
EncodeRest(v) ==
  /\ phase = "rest"
  /\ Least(v, rest)
  /\ rest' = rest \ {v}
  /\ IF v \in filtered THEN UNCHANGED code ELSE EncodeVertex(v, Remaining(v))
  /\ UNCHANGED <<adjacency_list, copies, phase, encode_list, vertices_related, next_list,
                 filtered, edge_filtered>>

Finish ==
  /\ phase = "rest"
  /\ rest = {}
  /\ phase' = "done"
  /\ UNCHANGED <<adjacency_list, copies, encode_list, vertices_related, next_list,
                 filtered, rest, code, edge_filtered>>

Next == \/ EndFirst \/ NextRound \/ Finish
        \/ \E v \in Vertex : \/ EncodeFirst(v) \/ SkipFiltered(v)
                             \/ SkipTooLong(v) \/ Peel(v) \/ EncodeRest(v)

Spec == Init /\ [][Next]_vars

(* One thread runs the build and nothing blocks it. *)
FairSpec == Spec /\ WF_vars(Next)
-----------------------------------------------------------------------------
(* The variables of the build keep their types. *)
TypeOK ==
  /\ adjacency_list \in Graphs
  /\ copies \in Copies
  /\ phase \in {"first", "peel", "rest", "done"}
  /\ encode_list \in SUBSET Vertex
  /\ vertices_related \in SUBSET Vertex
  /\ next_list \in SUBSET Vertex
  /\ filtered \in SUBSET Vertex
  /\ rest \in SUBSET Vertex
  /\ code \in [Vertex -> Code(Vertex)]

(* A finished build never lets a pair test answer NonNeighbor for an edge,    *)
(* with either way of combining the answers of the two end points             *)
(* (RangeEncode::NEpairTest, DeltaSIMDEncode::NEpairTest), although an edge   *)
(* is often stored at one end only.                                           *)
NoFalseNegative ==
  phase = "done" =>
    \A u, v \in Vertex : Edge(u, v) => NonNeighbor \notin PairAnswers(code, u, v)

(* The rounds look at every vertex often enough: once they stop, no vertex    *)
(* that is left could still be stored in full (the loop over vertices_related *)
(* only revisits neighbours of the vertices it removed).                      *)
PeelComplete ==
  phase \in {"rest", "done"} => \A v \in Vertex \ filtered : ~Storable(v, Remaining(v))

(* The edges with an end in F. *)
Touching(F) == {p \in PairsOf(Vertex) : \E u, v \in p : Edge(u, v) /\ u \in F}

(* DeltaSIMDVEND counts in edge_filtered each edge with a filtered end at one  *)
(* of its ends only, although both ends may be encoded in full and one may be  *)
(* removed rounds after the other: as often as the list of that end names the  *)
(* other, so n times each when every list was loaded n times.  (total_edge     *)
(* counts it at both ends and is halved for the ratio that is printed.)        *)
EdgeFilteredExact ==
  \A n \in {copies[v] : v \in Vertex} :
    /\ (\A v \in Vertex : copies[v] <= n) => edge_filtered <= n * Cardinality(Touching(filtered))
    /\ (\A v \in Vertex : copies[v] >= n) => edge_filtered >= n * Cardinality(Touching(filtered))

(* The inductive invariant behind the properties above.                       *)
FilteredDecodable == \A v \in filtered : code[v].dec

(* An edge with a filtered end is stored at a filtered end. *)
FilteredCovers ==
  \A v \in filtered : \A w \in adjacency_list[v] :
     w \in code[v].list \/ (w \in filtered /\ v \in code[w].list)

(* A vertex encoded by the last loop has stored all its neighbours that are    *)
(* not filtered.                                                               *)
RestCovers ==
  phase \in {"rest", "done"} =>
    \A v \in Vertex : v \notin filtered /\ v \notin rest => Remaining(v) \subseteq code[v].list

ListsAreEdges == \A v \in Vertex : code[v].list \subseteq adjacency_list[v]

(* A vertex that could be removed is still scheduled to be looked at. *)
PeelPending ==
  \A v \in Vertex : v \notin filtered /\ Storable(v, Remaining(v)) =>
    \/ phase = "first" /\ v \in encode_list \cup vertices_related
    \/ phase = "peel" /\ v \in vertices_related \cup next_list

PeelInv == /\ TypeOK
           /\ \A v \in encode_list : Storable(v, adjacency_list[v])
           /\ FilteredDecodable
           /\ FilteredCovers
           /\ RestCovers
           /\ ListsAreEdges
           /\ PeelPending
           /\ phase = "done" => rest = {}

(* The build always ends. *)
BuildEnds == <>(phase = "done")

(* The abstract state of the build: its edges and, once it is done, the pairs  *)
(* it may deny and affirm.                                                     *)
EdgeSet == {p \in PairsOf(Vertex) : \E u, v \in p : Edge(u, v)}

Answered(t) == {p \in PairsOf(Vertex) :
                  phase = "done" /\ \E u, v \in p : u # v /\ t \in PairAnswers(code, u, v)}

Ready    == phase = "done"
Denied   == Answered(NonNeighbor)
Affirmed == Answered(Neighbor)

Promise == INSTANCE VendPromise WITH
  Pair <- PairsOf(Vertex), edges <- EdgeSet, ready <- Ready,
  denied <- Denied, affirmed <- Affirmed

(* The build implements the promise of the index: when it ends it denies no    *)
(* edge and affirms only edges.                                                *)
KeepsPromise == Promise!Spec
=============================================================================
