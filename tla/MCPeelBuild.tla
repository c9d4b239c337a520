----------------------------- MODULE MCPeelBuild -----------------------------
EXTENDS PeelBuild

CONSTANT Capacity

(* An empty database, a filled one, and one whose fill was cut off behind the  *)
(* third vertex.                                                               *)
MCCopies == {[v \in 1 .. V |-> 1], [v \in 1 .. V |-> 2], [v \in 1 .. V |-> IF v <= 3 THEN 2 ELSE 1]}

(* Larger identifiers take more room, as they do in the byte codecs, and a     *)
(* further copy of one takes a unit.                                           *)
MCFits(S, n) == n * Cardinality(S) + Cardinality({v \in S : v > 2}) <= Capacity

Terminating == phase = "done" /\ UNCHANGED vars

MCSpec == Init /\ [][Next \/ Terminating]_vars /\ WF_vars(Next)
=============================================================================
