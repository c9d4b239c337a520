---------------------------- MODULE MCVendIndex ------------------------------
(* The indexes built by the loops of RangeVend: the Range and the Hybrid index *)
(* (encodings of RangeEncode and HybridEncode) and the directed Hybrid index   *)
(* (DirHybVend, with UNDIRECTED = 0).  A code carries the kind of its index,   *)
(* as the encoder behind encodes_ has a class.                                 *)
EXTENDS VendIndex

CONSTANTS Kinds,          \* the indexes of the run
          PerBits, Word,  \* see HybridEncode
          MinEdges

VARIABLE out_list         \* see DirHybVend

RE == INSTANCE RangeEncode WITH MaxInt <- MaxKCore

Plain(codes) == [v \in DOMAIN codes |-> codes[v].is]

(* The directed index, and HybridEncode, which it extends. *)
HE == INSTANCE DirHybVend WITH code <- Plain(code)

(* A code of RangeEncode has room for its two bounds, and one of HybridEncode  *)
(* for as many neighbours.                                                     *)
ASSUME IndexAssumption == /\ MaxKCore \in Nat /\ MaxKCore >= 2
                          /\ HE!HasRoom /\ MaxKCore = HE!MaxIntegerSize
                          /\ MaxStray \in Nat /\ MaxOps \in Nat

Degree(E, v) == Cardinality({e \in E : v \in e})

(* Graphs dense enough for some vertices to stay unpeeled, though some are     *)
(* peeled at once, with the vertices numbered by degree.                       *)
Dense ==
  {E \in SUBSET PairsOf(1 .. V) :
     /\ Cardinality(E) >= MinEdges
     /\ \E v \in 1 .. V : Degree(E, v) = 1
     /\ \E v \in 1 .. V : Degree(E, v) = 2
     /\ \A v \in 1 .. V - 1 : Degree(E, v) <= Degree(E, v + 1)}

(* Each edge as an arc to the greater vertex; every n-th pair, if n > 0, both  *)
(* ways.                                                                       *)
Arcs(E, n) ==
  {a \in (1 .. V) \X (1 .. V) :
     {a[1], a[2]} \in E /\ (a[1] < a[2] \/ (n > 0 /\ a[1] > a[2] /\ (a[1] + a[2]) % n = 0))}

(* And a single edge: no degree is beyond the capacity, and bin is read past   *)
(* its end.                                                                    *)
Single == {{1, 2}}

(* A core that nothing is peeled from, with one vertex attached: three of its  *)
(* lists are too long for a decodable hybrid code.                             *)
Core == (PairsOf(2 .. V) \ {{2, 3}}) \cup {{1, V}}

EdgeSets == Dense \cup {Single, Core}

(* With UNDIRECTED 0 and an empty database all of these; some of them with     *)
(* UNDIRECTED 0 and 1, and a database that was empty or filled.                *)
DirectedGraphs ==
  {HE!LoadedArcs(Arcs(E, n), FALSE, 1) : E \in Dense, n \in {0, 3}}
    \cup {HE!LoadedArcs(Arcs(E, n), undirected, times) :
            E \in {Single, CHOOSE E \in Dense : TRUE}, n \in {0, 1, 3},
            undirected \in BOOLEAN, times \in {1, 2}}

kind == code[0].of
Of(k, c) == [of |-> k, is |-> c]
AllOf(k, codes) == [v \in DOMAIN codes |-> Of(k, codes[v])]

Blank(k) == Of(k, CASE k = "range"    -> RE!BlankCode
                    [] k = "hybrid"   -> {}
                    [] k = "directed" -> <<>>)
MCBlank == Blank("range")

MCEncodeVertex(c, list) ==
  Of(c.of, CASE c.of = "range"    -> RE!EncodeVertex(c.is, list)
             [] c.of = "hybrid"   -> HE!EncodeVertex(c.is, list)
             [] c.of = "directed" -> HE!Kept(c.is, list))

(* The directed index has a pair test of its own, for arcs, and no updates. *)
MCNEpairTest(codes, u, v) ==
  CASE codes[u].of = "range"    -> {RE!NEpairTest(Plain(codes), u, v)}
    [] codes[u].of = "hybrid"   -> {HE!NEpairTest(Plain(codes), u, v)}
    [] codes[u].of = "directed" -> {}

MCInsertPair(codes, lists, u, v) ==
  {[code |-> AllOf("hybrid", HE!InsertPair(Plain(codes), lists, u, v)), defined |-> TRUE]}
MCDeletePair(codes, lists, u, v) ==
  {[code |-> AllOf("range", r.code), defined |-> r.defined] : r \in RE!DeletePair(Plain(codes), lists, u, v)}

LifeInit ==
  \E k \in Kinds :
    \/ /\ k \in {"range", "hybrid"}
       /\ IndexInit(GapFree(EdgeSets), Blank(k))
       /\ out_list = adjacency_list
    \/ /\ k = "directed"
       /\ \E g \in DirectedGraphs : /\ FillIsRight(HE!Both(g))
                                    /\ IndexInit({HE!Both(g)}, Blank(k))
                                    /\ out_list = g.out

Building         == BuildStep /\ UNCHANGED out_list
RangeDeletions   == kind = "range" /\ Deletions /\ UNCHANGED out_list
HybridInsertions == kind = "hybrid" /\ Insertions /\ UNCHANGED out_list

lifeVars == <<indexVars, out_list>>

(* One thread runs the build to its end; the user need not update anything. *)
LifeSpec == LifeInit /\ [][Building \/ RangeDeletions]_lifeVars /\ WF_lifeVars(Building)
InsertSpec == LifeInit /\ [][Building \/ HybridInsertions]_lifeVars
-----------------------------------------------------------------------------
(* The Hybrid index: the answer does not depend on the order of the two ends,  *)
(* and the test over decoded headers (which asks one end only when it may)     *)
(* agrees with it.                                                             *)
PathsAgree ==
  kind = "hybrid" /\ phase = "done" => \A u, v \in 1 .. V : u # v =>
     /\ HE!NEpairTest(Plain(code), u, v) = HE!NEpairTest(Plain(code), v, u)
     /\ HE!DecodedNEpairTest(Plain(code), u, v) = HE!NEpairTest(Plain(code), u, v)

(* The directed Hybrid index over lists in which two vertices name each other  *)
(* equally often denies no arc: every vertex was encoded once, the filtered    *)
(* ones in full in both codes, so that one decodable code may decide alone in  *)
(* NEpairTest.  UNDIRECTED = 1, or a load from the file after the database was *)
(* filled, gives such lists only where every arc has its reverse.              *)
DirectedKeepsArcs ==
  kind = "directed" /\ phase = "done" /\ HE!Balanced(adjacency_list) =>
    HE!EncodedOnce /\ HE!DeniedArcs = {}
=============================================================================
