----------------------------- MODULE DirHybVend ------------------------------
(* Directed_Hyb_Vend::BuildEncoding and the codes of DirectedHybrid.  The      *)
(* build runs the loops of RangeVend over the out-list and then the in-list of *)
(* every vertex, and counts both in its degree: module RangeVendBuild over the *)
(* two lists one after the other.  What it leaves of each vertex are the       *)
(* neighbours not yet filtered when the vertex was encoded; EncodeVertex       *)
(* writes a code for those in the out-list and one for those in the in-list.   *)
EXTENDS HybridEncode, SequencesExt

CONSTANT MaxStray          \* see RangeVendBuild

VARIABLES adjacency_list,  \* the out-list and then the in-list of a vertex
          phase, idx, vert, pos, bin, degrees, filtered, stray,
          code,            \* the neighbours of each call of EncodeVertex for a vertex
          out_list         \* the out-lists alone

Kept(c, list) == Append(c, Range(list))

Both(g) == [v \in DOMAIN g.out |-> g.out[v] \o g.in[v]]

Build == INSTANCE RangeVendBuild WITH
  MaxKCore <- MaxIntegerSize, encodes_Blank <- <<>>, encodes_EncodeVertex <- Kept,
  encodes_NEpairTest <- LAMBDA codes, u, v : {}

(* The lists of a directed graph, loaded from its file alone (once) or from    *)
(* the database and the file (twice).  With UNDIRECTED = 1 the out-lists get   *)
(* the reverse of every line as well, a second entry where both lines exist.   *)
(* The database holds no in-lists: those always have the entries of one load.  *)
LoadedArcs(A, undirected, times) ==
  LET to(v)   == SetToSortSeq({w \in 1 .. V : <<v, w>> \in A}, <)
      from(v) == SetToSortSeq({u \in 1 .. V : <<u, v>> \in A}, <)
      load(v) == IF undirected THEN to(v) \o from(v) ELSE to(v)
  IN  [out |-> [v \in 0 .. V |-> SortSeq(FlattenSeq([i \in 1 .. times |-> load(v)]), <)],
       in  |-> [v \in 0 .. V |-> from(v)]]

DirInit(graphs) ==
  \E g \in graphs :
    /\ Build!FillIsRight(Both(g))
    /\ Build!InitOver({Both(g)})
    /\ out_list = g.out

DirNext == Build!Next /\ UNCHANGED out_list

InList(v) == SubSeq(adjacency_list[v], Len(out_list[v]) + 1, Len(adjacency_list[v]))

(* EncodeVertex of DirectedHybrid: one code for what is kept of each list.  A  *)
(* second call for the same vertex writes over the code of the first.          *)
CodeOf(list, kept) ==
  FoldLeft(LAMBDA c, S : EncodeVertex(c, SelectSeq(list, LAMBDA n : n \in S)), {}, kept)
OutCode(v) == CodeOf(out_list[v], code[v])
InCode(v)  == CodeOf(InList(v), code[v])

\* Variant: a decodable out-code is believed without a look at the in-code.
DirNEpairTestOutOnly(out, in, u, v) ==
  LET one == NonNeighborTest(out, v)
      two == NonNeighborTest(in, u)
  IN  IF IsDecodable(out) THEN one ELSE IF IsDecodable(in) THEN two ELSE MinType(one, two)

(* NEpairTest of DirectedHybrid: the out-code of u and the in-code of v, of    *)
(* which a single decodable one decides alone.                                 *)
DirNEpairTest(out, in, u, v) ==
  LET one == NonNeighborTest(out, v)
      two == NonNeighborTest(in, u)
  IN  IF IsDecodable(out) = IsDecodable(in) THEN MinType(one, two)
      ELSE IF IsDecodable(out) THEN one ELSE two
-----------------------------------------------------------------------------
(* Two vertices name each other equally often, so that encoding the one lowers *)
(* the degree of the other by no more than the entries that go.                *)
Balanced(lists) ==
  LET names(v, w) == Cardinality({i \in DOMAIN lists[v] : lists[v][i] = w})
  IN  \A v, w \in 1 .. V : names(v, w) = names(w, v)

(* Every vertex was encoded, and once; the filtered ones are stored in full,   *)
(* in both codes.                                                              *)
EncodedOnce ==
  /\ \A v \in 1 .. V : Len(code[v]) = 1
  /\ \A v \in filtered \ {0} : IsDecodable(OutCode(v)) /\ IsDecodable(InCode(v))

DeniedArcs ==
  {a \in (1 .. V) \X (1 .. V) :
     /\ a[1] \in Range(InList(a[2]))
     /\ DirNEpairTest(OutCode(a[1]), InCode(a[2]), a[1], a[2]) = NonNeighbor}
=============================================================================
