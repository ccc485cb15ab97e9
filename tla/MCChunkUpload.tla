----------------------------- MODULE MCChunkUpload -----------------------------
(* Instances of ChunkUpload for TLC; requests and tokens are interchangeable. *)
EXTENDS ChunkUpload, TLC

Symmetry == Permutations(Req) \cup Permutations(Tokens) \cup Permutations(Files)
=============================================================================
