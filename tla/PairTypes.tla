------------------------------ MODULE PairTypes ------------------------------
(* The answers of a pair test (PairType, encode.h) and the ways the encoders  *)
(* combine the answers of the two end points.  The numeric values matter:     *)
(* NEpairTest takes the numeric minimum of the two answers.                   *)
EXTENDS Naturals

Neighbor    == 1
NonNeighbor == 2
Uncertain   == 4

PairType == {Neighbor, NonNeighbor, Uncertain}

\* std::min over two PairTypes
MinType(a, b) == IF a <= b THEN a ELSE b

(* Undirected pairs over a set of vertices. *)
PairsOf(S) == {p \in SUBSET S : \E u, v \in S : u # v /\ p = {u, v}}
=============================================================================
