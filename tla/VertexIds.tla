----------------------------- MODULE VertexIds -------------------------------
(* The vertices are numbered from 1. *)
CONSTANT V        \* VERTEX_SIZE
=============================================================================
