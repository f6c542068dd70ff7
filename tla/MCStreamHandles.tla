--------------------------- MODULE MCStreamHandles ---------------------------
(* Instances of the stream handles for TLC. *)
EXTENDS StreamHandles, TLC

Symmetric == Permutations(Clients) \cup Permutations(Streams) \cup Permutations(Addresses)
==============================================================================
