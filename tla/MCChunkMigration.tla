-------------------------- MODULE MCChunkMigration --------------------------
(***************************************************************************)
(* One chunk moves from A to B and perhaps back, while a router writes; a  *)
(* chunk stays on each of the two shards.                                  *)
(***************************************************************************)
EXTENDS ChunkMigration, TLC
CONSTANTS A, B, c1
OneAtA == c1 :> A
Pinned == A :> 3 @@ B :> 4
=============================================================================
