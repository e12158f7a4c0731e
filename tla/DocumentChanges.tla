--------------------------- MODULE DocumentChanges ---------------------------
(***************************************************************************)
(* What became of an applied edit: the pure functions of                   *)
(* scripts/document_changes.py behind feedback_report --changes.           *)
(*                                                                         *)
(* A text is the sequence of its paragraphs, a wording the sequence of its *)
(* lines, and both are already normalised (curly quotes, spaces and line   *)
(* breaks decide nothing here).  Within says which line is part of which:  *)
(* the model's substring relation on single lines.                         *)
(***************************************************************************)
EXTENDS Integers, Sequences, FiniteSets

CONSTANTS Lines, Within, NoText

ASSUME WithinAssumption ==
  /\ Within \subseteq Lines \X Lines
  /\ \A p \in Lines : <<p, p>> \in Within

Verdicts == {"kept", "altered", "reverted", "no later capture"}

\* `wording in text`: one line as a part of a paragraph, more as paragraphs.
IsIn(wording, text) ==
  CASE wording = <<>>     -> FALSE
    [] Len(wording) = 1   -> \E i \in DOMAIN text : <<wording[1], text[i]>> \in Within
    [] OTHER              -> \E i \in 0 .. Len(text) - Len(wording) :
                               SubSeq(text, i + 1, i + Len(wording)) = wording

\* The line pair a multi-line replace really changes, when it is only one.
LineWordApplies(target, new) ==
  LET Differ == {i \in DOMAIN target : target[i] # new[i]}
  IN  IF Len(target) > 1 /\ Len(target) = Len(new) /\ Cardinality(Differ) = 1
      THEN LET i == CHOOSE i \in Differ : TRUE
           IN  [target |-> <<target[i]>>, new |-> <<new[i]>>]
      ELSE [target |-> target, new |-> new]

\* The text before the edit is known and never held the target word for word.
NeverThere(target, before) == target # <<>> /\ before # NoText /\ ~IsIn(target, before)

\* A removal is judged by the absence of what it removed; a deletion of nothing
\* is none, while nothing replaced by nothing stays as it is.
RemovalVerdict(action, target, final, before) ==
  IF (action = "delete" /\ target = <<>>) \/ NeverThere(target, before) THEN "altered"
  ELSE IF IsIn(target, final) THEN "reverted" ELSE "kept"

\* One applied edit against the last text, and the last text before it.
Verdict(applied, final, before) ==
  LET pair     == IF applied.action = "replace"
                  THEN LineWordApplies(applied.target, applied.new)
                  ELSE [target |-> applied.target, new |-> applied.new]
      replaces == applied.action \in {"replace", "replace_all"}
      old      == IsIn(pair.target, final)
      put      == IsIn(pair.new, final)
  IN  CASE applied.action = "delete" \/ (replaces /\ pair.new = <<>>) ->
             RemovalVerdict(applied.action, pair.target, final, before)
        [] applied.action = "replace" /\ IsIn(pair.new, pair.target) ->
             IF old THEN "reverted" ELSE IF put THEN "kept" ELSE "altered"
        [] OTHER ->
             IF put THEN "kept"
             ELSE IF \/ replaces /\ old
                     \/ applied.action = "redline" /\ applied.target # <<>>
                          /\ \A i \in DOMAIN applied.target : IsIn(<<applied.target[i]>>, final)
                  THEN "reverted" ELSE "altered"
=============================================================================
