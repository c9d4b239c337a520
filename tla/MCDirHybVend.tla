---------------------------- MODULE MCDirHybVend -----------------------------
EXTENDS DirHybVend

(* A graph file of seven vertices. *)
Lines == {<<2, 4>>, <<5, 1>>, <<5, 2>>, <<5, 3>>, <<5, 4>>, <<5, 6>>, <<5, 7>>, <<6, 5>>}

(* The build with the UNDIRECTED = 1 of config.h, over an empty database. *)
Spec == DirInit({LoadedArcs(Lines, TRUE, 1)}) /\ [][DirNext]_<<Build!vars, out_list>>
-----------------------------------------------------------------------------
(* NEpairTest of DirectedHybrid "test[s] whether vertex2 is a neighbor to      *)
(* vertex1": after the build no arc of the file is answered NonNeighbor.       *)
NoArcDenied == phase = "done" => DeniedArcs = {}
=============================================================================
