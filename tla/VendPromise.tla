----------------------------- MODULE VendPromise -----------------------------
(* What every vertex-encoding index promises its caller, whatever the         *)
(* encoding.  After the index has been built over a graph it may deny some    *)
(* pairs (answer NonNeighbor, so that the caller skips the database) and      *)
(* affirm some (answer Neighbor); every other pair is Uncertain and is        *)
(* resolved by the database.  The promise is that no edge is ever denied and  *)
(* that only edges are affirmed, after the build and after every insertion    *)
(* or deletion of an edge.                                                    *)
CONSTANT Pair            \* the undirected pairs of distinct vertices

VARIABLES edges,         \* the graph as the caller knows it
          ready,         \* the index has been built
          denied,        \* pairs the index may answer NonNeighbor
          affirmed       \* pairs the index may answer Neighbor

vars == <<edges, ready, denied, affirmed>>

Init == /\ edges \in SUBSET Pair
        /\ ready = FALSE
        /\ denied = {}
        /\ affirmed = {}

(* The answers of a built index are right for the graph E. *)
RightFor(E) == /\ denied' \in SUBSET (Pair \ E)
               /\ affirmed' \in SUBSET E

Build == /\ ~ready
         /\ ready' = TRUE
         /\ UNCHANGED edges
         /\ RightFor(edges)

Insert(p) == /\ ready
             /\ edges' = edges \cup {p}
             /\ UNCHANGED ready
             /\ RightFor(edges')

Delete(p) == /\ ready
             /\ edges' = edges \ {p}
             /\ UNCHANGED ready
             /\ RightFor(edges')

Next == Build \/ \E p \in Pair : Insert(p) \/ Delete(p)

Spec == Init /\ [][Next]_vars
=============================================================================
