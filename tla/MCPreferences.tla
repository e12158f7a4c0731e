--------------------------- MODULE MCPreferences ---------------------------
(* One pane with the two suggestions of an answer. *)
EXTENDS Preferences

MCCardOf == [l \in Lines |-> "pane"]
=============================================================================
