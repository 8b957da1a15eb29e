------------------------------- MODULE MCMesh -------------------------------
(* An instance of Mesh for TLC. *)
EXTENDS Mesh

MCRoutings == {<<2>>, <<3>>, <<4, 2>>, <<2, 3>>}
=============================================================================
