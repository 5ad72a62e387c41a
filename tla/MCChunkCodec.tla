---------------------------- MODULE MCChunkCodec ----------------------------
(* Every chunk of a few cells, with runs longer than a byte can count. *)
EXTENDS ChunkCodec
=============================================================================
