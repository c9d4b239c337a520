----------------------------- MODULE VertexCode ------------------------------
(* The contract between the build algorithms and the per-vertex encoders.     *)
(* EncodeVertex(vertex, neighbors) either stores the whole list (the code is  *)
(* decodable) or summarises it.  A decodable code answers for every vertex;   *)
(* a summary may answer Uncertain for any vertex, and otherwise answers       *)
(* according to the list.  The modules of the individual encoders show that   *)
(* their bit layouts meet this contract.                                      *)
EXTENDS PairTypes

Code(Vertex) == [dec : BOOLEAN, list : SUBSET Vertex]

(* The code of a vertex that was never encoded: all bits zero. *)
Blank == [dec |-> FALSE, list |-> {}]

(* The code EncodeVertex leaves for the list S. *)
Encoded(fits, S) == [dec |-> fits, list |-> S]

(* What NonNeighborTest(u, w) may answer when the code of u is c. *)
Answers(c, w) ==
  LET told == IF w \in c.list THEN Neighbor ELSE NonNeighbor
  IN  IF c.dec THEN {told} ELSE {told, Uncertain}

BothMin(A, B) == {MinType(a, b) : a \in A, b \in B}

(* RangeEncode::NEpairTest: the smaller of the two answers. *)
RangeNEpairTest(code, u, v) == BothMin(Answers(code[u], v), Answers(code[v], u))

(* DeltaSIMDEncode::NEpairTest: when exactly one code is decodable only that   *)
(* one is asked, otherwise the smaller of the two answers.                    *)
SIMDNEpairTest(code, u, v) ==
  IF code[u].dec = code[v].dec
  THEN BothMin(Answers(code[u], v), Answers(code[v], u))
  ELSE IF code[u].dec THEN Answers(code[u], v) ELSE Answers(code[v], u)

(* The answers a pair may get from an encoder of either family. *)
PairAnswers(code, u, v) == RangeNEpairTest(code, u, v) \cup SIMDNEpairTest(code, u, v)
=============================================================================
