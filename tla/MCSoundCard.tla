----------------------------- MODULE MCSoundCard -----------------------------
(* Instances of the sound card and its streams for TLC. *)
EXTENDS SoundCard, TLC

SymmetricClients == Permutations(Clients)
==============================================================================
