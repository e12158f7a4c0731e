--------------------------- MODULE MCDocumentStore ---------------------------
(* DocumentStore for TLC: every line is part of itself only. *)
EXTENDS DocumentStore, TLC

SameLine == {<<l, l>> : l \in Lines}
Symmetry == Permutations(Attorneys)

=============================================================================
