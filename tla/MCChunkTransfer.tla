-------------------------- MODULE MCChunkTransfer --------------------------
(* Instances of ChunkTransfer for TLC. *)
EXTENDS ChunkTransfer
=============================================================================
