--------------------------- MODULE MCDirPeelBuild ----------------------------
EXTENDS DirPeelBuild

(* An empty database, a filled one, and one whose fill was cut off behind the  *)
(* first vertex.                                                               *)
MCCopies == {[v \in 1 .. V |-> 1], [v \in 1 .. V |-> 2], [v \in 1 .. V |-> IF v = 1 THEN 2 ELSE 1]}

(* One byte per entry and one for the control bits of up to four. *)
MCBytes(S, n) == IF S = {} THEN 0 ELSE n * Cardinality(S) + 1

Terminating == phase = "done" /\ UNCHANGED vars

MCSpec == Init /\ [][Next \/ Terminating]_vars
=============================================================================
