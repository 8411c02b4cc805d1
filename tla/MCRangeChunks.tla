--------------------------- MODULE MCRangeChunks ---------------------------
(* Model-checking instance of RangeChunks. *)
EXTENDS RangeChunks
=============================================================================
