--------------------------- MODULE MCConversation ---------------------------
(* Conversation on small instances: see the cfg files for the bounds. *)
EXTENDS Conversation, TLC

Symmetry == Permutations(Turns) \cup Permutations(Compactors)
=============================================================================
