-------------------------- MODULE MCRangeVendBuild ---------------------------
(* The Range index over a graph in whose degrees there is a gap.               *)
EXTENDS RangeVendBuild

RE == INSTANCE RangeEncode WITH MaxInt <- MaxKCore

MCEncodeVertex(c, list) == RE!EncodeVertex(c, list)
MCNEpairTest(codes, u, v) == {RE!NEpairTest(codes, u, v)}
MCBlank == RE!BlankCode

(* A graph of seven vertices: 1, 2, 5 and 6 have degree 3, none has degree 4,  *)
(* 7 has degree 5.                                                             *)
Edges == {{1, 3}, {1, 6}, {1, 7}, {2, 4}, {2, 5}, {2, 7}, {4, 7}, {5, 6}, {5, 7}, {6, 7}}

GapSpec == InitOver(GraphsFrom({Edges})) /\ [][Next]_vars
=============================================================================
