--------------------------- MODULE MCChunkPipeline ---------------------------
(* Instances of ChunkPipeline for TLC; the roles are given by pipeline.cfg. *)
EXTENDS ChunkPipeline
=============================================================================
