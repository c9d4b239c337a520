---------------------------- MODULE DirPeelBuild -----------------------------
(* DirSIMDVend::BuildEncoding over the out- and in-lists of a directed graph,  *)
(* and the pair test of DirectedSIMD.  Every vertex has a code for each list.  *)
(* A vertex is removed ("filtered") when both lists together fit one code,     *)
(* while each of the two codes has that room for itself.                       *)
EXTENDS Naturals, FiniteSets, VertexCode

CONSTANTS V,             \* VERTEX_SIZE: vertices are 1 .. V
          Undirected,    \* the settings of UNDIRECTED: TRUE (1) as shipped
          MaxBytesLen,   \* GetBytesSize()
          Copies,        \* how often the out-list of each vertex may have been loaded
          Bytes(_, _)    \* GetRequiredBytes of the list that names each member of a
                         \* set so often

Vertex == 1 .. V

ASSUME DirAssumption == /\ V \in Nat /\ MaxBytesLen \in Nat /\ Undirected \subseteq BOOLEAN
                        /\ Copies \subseteq [1 .. V -> Nat \ {0}]
                        /\ \A S \in SUBSET (1 .. V), n \in {1} \cup {c[v] : c \in Copies, v \in 1 .. V} :
                             Bytes(S, n) \in Nat

VARIABLES adjacency_list,  \* the out-lists
          in_adj_list,     \* the in-lists
          copies,          \* how often each out-list names its members
          phase,           \* "first", "peel", "rest", "done"
          encode_list,     \* first round: vertices still to encode
          vertices_related,\* this round: vertices still to look at
          next_list,       \* vertices to look at in the next round
          filtered,        \* encoded in full and removed
          rest,            \* last loop: vertices still to visit
          code             \* encode_bitset_ and in_bitset_

vars == <<adjacency_list, in_adj_list, copies, phase, encode_list, vertices_related,
          next_list, filtered, rest, code>>
graphVars == <<adjacency_list, in_adj_list, copies>>

Arcs == {a \in Vertex \X Vertex : a[1] # a[2]}

(* Both lists agree on every line of the graph file, and vertices name each    *)
(* other: what the build needs of the loaded lists.                            *)
Graphs ==
  {g \in [out : [Vertex -> SUBSET Vertex], in : [Vertex -> SUBSET Vertex]] :
     /\ \A u, v \in Vertex : u \in g.in[v] => v \in g.out[u]
     /\ \A u, v \in Vertex : u \in g.out[v] \cup g.in[v] => v \in g.out[u] \cup g.in[u]}

(* Graph::Init of a directed graph.  With UNDIRECTED = 1 the out-lists get the *)
(* reverse of every line as well.  The database holds out-lists only: once it  *)
(* was filled they name their members several times (copies), the in-lists,    *)
(* which come from the file alone, once.                                       *)
Loaded(A, undirected) ==
  [out |-> [v \in Vertex |-> {w \in Vertex : <<v, w>> \in A \/ (undirected /\ <<w, v>> \in A)}],
   in  |-> [v \in Vertex |-> {u \in Vertex : <<u, v>> \in A}]]

(* A line of the graph file leads from u to v. *)
Arc(u, v) == u \in in_adj_list[v]

RemainingOut(v) == adjacency_list[v] \ filtered
RemainingIn(v)  == in_adj_list[v] \ filtered

JointFits(v, out, in) == Bytes(out, copies[v]) + Bytes(in, 1) <= MaxBytesLen

Least(v, S) == v \in S /\ \A w \in S : v <= w

(* DirectedSIMD::EncodeVertex of one list: an empty one gets the decodable bit *)
(* and nothing else.                                                           *)
EncodeList(S, n) == Encoded(S = {} \/ Bytes(S, n) <= MaxBytesLen, S)

EncodeVertex(v, out, in) ==
  code' = [code EXCEPT ![v] = [out |-> EncodeList(out, copies[v]), in |-> EncodeList(in, 1)]]

(* With UNDIRECTED = 1 a file with an edge in both directions would put its    *)
(* ends into the out-lists twice: those files are left out.                    *)
Init ==
  /\ \E A \in SUBSET Arcs, undirected \in Undirected :
       /\ undirected => \A a \in A : <<a[2], a[1]>> \notin A
       /\ adjacency_list = Loaded(A, undirected).out
       /\ in_adj_list = Loaded(A, undirected).in
  /\ copies \in Copies
  /\ phase = "first"
  /\ encode_list = {v \in Vertex : JointFits(v, adjacency_list[v], in_adj_list[v])}
  /\ vertices_related = {}
  /\ next_list = {}
  /\ filtered = {}
  /\ rest = {}
  /\ code = [v \in Vertex |-> [out |-> Blank, in |-> Blank]]

\* Variant: only the out-neighbours are looked at again.
EncodeFirstQueuesOut(v) ==
  /\ phase = "first"
  /\ Least(v, encode_list)
  /\ encode_list' = encode_list \ {v}
  /\ vertices_related' = vertices_related \cup adjacency_list[v]
  /\ EncodeVertex(v, adjacency_list[v], in_adj_list[v])
  /\ filtered' = filtered \cup {v}
  /\ UNCHANGED <<graphVars, phase, next_list, rest>>

(* First round: the full lists, including neighbours already filtered. *)
EncodeFirst(v) ==
  /\ phase = "first"
  /\ Least(v, encode_list)
  /\ encode_list' = encode_list \ {v}
  /\ vertices_related' = vertices_related \cup adjacency_list[v] \cup in_adj_list[v]
  /\ EncodeVertex(v, adjacency_list[v], in_adj_list[v])
  /\ filtered' = filtered \cup {v}
  /\ UNCHANGED <<graphVars, phase, next_list, rest>>

EndFirst ==
  /\ phase = "first"
  /\ encode_list = {}
  /\ phase' = "peel"
  /\ UNCHANGED <<graphVars, encode_list, vertices_related, next_list, filtered, rest, code>>

(* One vertex of the round, in the unspecified order of the hash set. *)
Skip(v) ==
  /\ phase = "peel"
  /\ v \in vertices_related
  /\ v \in filtered \/ ~JointFits(v, RemainingOut(v), RemainingIn(v))
  /\ vertices_related' = vertices_related \ {v}
  /\ UNCHANGED <<graphVars, phase, encode_list, next_list, filtered, rest, code>>

Peel(v) ==
  /\ phase = "peel"
  /\ v \in vertices_related
  /\ v \notin filtered
  /\ JointFits(v, RemainingOut(v), RemainingIn(v))
  /\ vertices_related' = vertices_related \ {v}
  /\ EncodeVertex(v, RemainingOut(v), RemainingIn(v))
  /\ filtered' = filtered \cup {v}
  /\ next_list' = next_list \cup RemainingOut(v) \cup RemainingIn(v)
  /\ UNCHANGED <<graphVars, phase, encode_list, rest>>

NextRound ==
  /\ phase = "peel"
  /\ vertices_related = {}
  /\ vertices_related' = next_list
  /\ next_list' = {}
  /\ IF next_list = {} THEN phase' = "rest" /\ rest' = Vertex
                       ELSE UNCHANGED <<phase, rest>>
  /\ UNCHANGED <<graphVars, encode_list, filtered, code>>

\* Variant: the last loop does not skip the filtered vertices.
EncodeRestAll(v) ==
  /\ phase = "rest"
  /\ Least(v, rest)
  /\ rest' = rest \ {v}
  /\ EncodeVertex(v, RemainingOut(v), RemainingIn(v))
  /\ UNCHANGED <<graphVars, phase, encode_list, vertices_related, next_list, filtered>>

(* The last loop, in the order of the identifiers. *)
EncodeRest(v) ==
  /\ phase = "rest"
  /\ Least(v, rest)
  /\ rest' = rest \ {v}
  /\ IF v \in filtered THEN UNCHANGED code
                       ELSE EncodeVertex(v, RemainingOut(v), RemainingIn(v))
  /\ UNCHANGED <<graphVars, phase, encode_list, vertices_related, next_list, filtered>>

Finish ==
  /\ phase = "rest"
  /\ rest = {}
  /\ phase' = "done"
  /\ UNCHANGED <<graphVars, encode_list, vertices_related, next_list, filtered, rest, code>>

Next == \/ EndFirst \/ NextRound \/ Finish
        \/ \E v \in Vertex : EncodeFirst(v) \/ Skip(v) \/ Peel(v) \/ EncodeRest(v)

Spec == Init /\ [][Next]_vars
-----------------------------------------------------------------------------
\* Variant: the in-code is asked only when the out-code is not decodable.
CombinedOutFirst(one, two, A, B) == IF one THEN A ELSE IF two THEN B ELSE BothMin(A, B)

(* NEpairTest of the directed encoders, from the answers of the out-code of    *)
(* the one end and of the in-code of the other, and whether each is decodable: *)
(* a single decodable code decides alone.                                      *)
Combined(one, two, A, B) == IF one = two THEN BothMin(A, B) ELSE IF one THEN A ELSE B

(* DirectedSIMD::NonNeighborTest searches a code as the flag of the other code *)
(* of the vertex says (IsDecodable(vertex1, reverse)): a list stored in full   *)
(* is searched like a block before hash bits, and of a summary only the block, *)
(* as if it were the whole list.                                               *)
FlaggedAnswers(c, flag, w) ==
  LET told == IF w \in c.list THEN Neighbor ELSE NonNeighbor
  IN  IF c.dec = flag THEN Answers(c, w)
      ELSE IF flag THEN {told, NonNeighbor}
      ELSE IF told = Neighbor THEN {Neighbor} ELSE {NonNeighbor, Uncertain}

SIMDNEpairTestDirected(u, v) ==
  Combined(code[u].out.dec, code[v].in.dec,
           FlaggedAnswers(code[u].out, code[u].in.dec, v),
           FlaggedAnswers(code[v].in, code[v].out.dec, u))
-----------------------------------------------------------------------------
(* The variables of the build keep their types, and the loaded lists agree. *)
TypeOK ==
  /\ [out |-> adjacency_list, in |-> in_adj_list] \in Graphs
  /\ copies \in Copies
  /\ phase \in {"first", "peel", "rest", "done"}
  /\ encode_list \in SUBSET Vertex
  /\ vertices_related \in SUBSET Vertex
  /\ next_list \in SUBSET Vertex
  /\ filtered \in SUBSET Vertex
  /\ rest \in SUBSET Vertex
  /\ code \in [Vertex -> [out : Code(Vertex), in : Code(Vertex)]]

FilteredDecodable == \A v \in filtered : code[v].out.dec /\ code[v].in.dec

(* An arc with a filtered end is stored at a filtered end. *)
FilteredCovers ==
  \A u, v \in Vertex : Arc(u, v) /\ (u \in filtered \/ v \in filtered) =>
    (u \in filtered /\ v \in code[u].out.list) \/ (v \in filtered /\ u \in code[v].in.list)

RestCovers ==
  phase \in {"rest", "done"} =>
    \A v \in Vertex : v \notin filtered /\ v \notin rest =>
      RemainingOut(v) \subseteq code[v].out.list /\ RemainingIn(v) \subseteq code[v].in.list

ListsAreLoaded ==
  \A v \in Vertex : /\ code[v].out.list \subseteq adjacency_list[v]
                    /\ code[v].in.list \subseteq in_adj_list[v]

FirstFits ==
  phase = "first" =>
    \A v \in encode_list : v \notin filtered /\ JointFits(v, adjacency_list[v], in_adj_list[v])

(* A vertex that could be removed is still scheduled to be looked at. *)
PeelPending ==
  \A v \in Vertex : v \notin filtered /\ JointFits(v, RemainingOut(v), RemainingIn(v)) =>
    \/ phase = "first" /\ v \in encode_list \cup vertices_related
    \/ phase = "peel" /\ v \in vertices_related \cup next_list

(* The inductive invariant: what is filtered is stored in full at both codes,  *)
(* every arc with a filtered end is stored at such an end, and no vertex that  *)
(* could still be removed is forgotten, although a vertex is put on the        *)
(* schedule by the removal of an out- or an in-neighbour only.                 *)
DirPeelInv == /\ TypeOK
              /\ FirstFits
              /\ FilteredDecodable
              /\ FilteredCovers
              /\ RestCovers
              /\ ListsAreLoaded
              /\ PeelPending
              /\ phase = "done" => rest = {}

(* The pair test of DirectedSIMD searches a code as the flag of the wrong code *)
(* says.  Still it never denies an arc with a filtered end, not even when the  *)
(* code of the other end is a summary that lacks the arc and is searched like  *)
(* a list stored in full; and it affirms only pairs that were loaded (with     *)
(* UNDIRECTED = 1 also the reverse of an arc).                                 *)
FilteredArcsNotDenied ==
  phase = "done" =>
    \A u, v \in Vertex :
      /\ Arc(u, v) /\ (u \in filtered \/ v \in filtered)
           => NonNeighbor \notin SIMDNEpairTestDirected(u, v)
      /\ Neighbor \in SIMDNEpairTestDirected(u, v) => v \in adjacency_list[u]

(* A summary that is searched like a list stored in full. *)
Mistaken(c, flag) == ~c.dec /\ flag

(* The pair test of DirectedSIMD, which takes the flag of the wrong code,      *)
(* denies an arc only when the out-code it searches, or the in-code, is a      *)
(* summary beside a decodable code: a list stored in full that is searched     *)
(* like a summary does no harm.                                                *)
SIMDArcsNotDenied ==
  phase = "done" =>
    \A u, v \in Vertex :
      /\ Arc(u, v)
      /\ ~Mistaken(code[u].out, code[u].in.dec)
      /\ ~Mistaken(code[v].in, code[v].out.dec)
      => NonNeighbor \notin SIMDNEpairTestDirected(u, v)
=============================================================================
