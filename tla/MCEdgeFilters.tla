---------------------------- MODULE MCEdgeFilters ----------------------------
EXTENDS EdgeFilters

(* The first entries of HASH_PARAM1 and HASH_PARAM2. *)
MCHashParams  == << <<9191891, 1282517>>, <<1635947, 6659501>> >>
MCBlockParams == <<19692027, 3201251>>

(* An empty database, a filled one, and one whose fill was cut off behind the  *)
(* first vertex.                                                               *)
MCCopies == {[v \in 1 .. V |-> 1], [v \in 1 .. V |-> 2], [v \in 1 .. V |-> IF v = 1 THEN 2 ELSE 1]}
=============================================================================
