--------------------------- MODULE MCPalRingBuffer ---------------------------
(* Instances of the ring buffer for TLC. *)
EXTENDS PalRingBuffer, TLC

Symmetric == Permutations(Readers)
===============================================================================
