---------------------------- MODULE ReviewRecall ----------------------------
(***************************************************************************)
(* How a stored review is made safe to quote in a later chat               *)
(* (skills/legal_research/review_recall.py): the redlines go, the lines    *)
(* whose placeholders the document no longer shows go, and the             *)
(* No-Signature gate is corrected for what went.                           *)
(*                                                                         *)
(* A review is a set of lines.  What a line quotes are strings: field      *)
(* contexts with one marker ("Landlord: [Legal Name]"), bare labels        *)
(* ("[Legal Name]") and bundles of several markers.  `text' is the set of  *)
(* the quotable strings the document's text contains.                      *)
(***************************************************************************)
EXTENDS Naturals, FiniteSets

CONSTANTS Quotes,     \* strings a review may quote
          Bundles,    \* those with more than one marker
          Labels,     \* the bare labels
          Within      \* Within[q]: the quotes that properly contain q

ASSUME RecallAssumption ==
  /\ IsFiniteSet(Quotes) /\ Bundles \subseteq Quotes /\ Labels \subseteq Quotes \ Bundles
  /\ Within \in [Quotes -> SUBSET Quotes]
  /\ \A q \in Quotes : q \notin Within[q] /\ \A r \in Within[q] : Within[r] \subseteq Within[q]

Sections == {"key findings", "gate", "redlines"}
Ratings == {"red", "missing context", "yellow"}
Blocking == {"red", "missing context"}

(* `table' says whether the Key Findings table can be parsed. *)
Line == [section : Sections, rating : Ratings, quotes : SUBSET Quotes]
Recalled(lines, dropped, cited, pending) ==
  [lines |-> lines, dropped |-> dropped, cited |-> cited, pending |-> pending]

StripRedlines(lines) == {l \in lines : l.section # "redlines"}

(* q is in the text of a line that quotes it, or quotes something around it. *)
Mentions(l, q) == q \in l.quotes \/ Within[q] \cap l.quotes # {}

(* Spans with one marker and bare labels; in a span only its labels count. *)
PlaceholderCandidates(lines) ==
  {q \in Quotes \ Bundles : \E l \in lines : q \in l.quotes \/ (q \in Labels /\ Mentions(l, q))}

(* Mutant: a bare label counts beside the field that contains it. *)
SpecificWithLabels(l, candidates) == {q \in candidates : Mentions(l, q)}

(* Of the candidates on a line, those that are not part of another. *)
Specific(l, candidates) ==
  LET refs == {q \in candidates : Mentions(l, q)}
  IN  {q \in refs : Within[q] \cap refs = {}}

(* Only a line all of whose placeholders are filled goes; the gate's lines are
   never dropped. *)
Droppable(l, candidates, filled) ==
  /\ l.section # "gate"
  /\ Specific(l, candidates) # {}
  /\ Specific(l, candidates) \subseteq filled

SurvivingBlockers(kept) ==
  {l \in kept : l.section = "key findings" /\ l.rating \in Blocking}

(* Mutant: the blockers are those rated Red. *)
NeutralizesByRed(kept, table, cited) ==
  cited # {} /\ table /\ {l \in SurvivingBlockers(kept) : l.rating = "red"} = {}

(* The overall status becomes PENDING RE-REVIEW; an unreadable table means that
   blockers may remain. *)
Neutralizes(kept, table, cited) ==
  cited # {} /\ table /\ SurvivingBlockers(kept) = {}

ReconcileGateVerdict(kept, table, dropped) ==
  LET gate == {l \in kept : l.section = "gate"}
      cited == {q \in dropped : \E l \in gate : Mentions(l, q)}
  IN  Recalled(kept, dropped, cited, Neutralizes(kept, table, cited))

(* _reconcile_review_with_doc: nothing dropped, nothing changed. *)
ReconcileReviewWithDoc(lines, table, text) ==
  LET candidates == PlaceholderCandidates(lines)
      filled == candidates \ text
      gone == {l \in lines : Droppable(l, candidates, filled)}
      dropped == UNION {Specific(l, candidates) : l \in gone}
  IN  ReconcileGateVerdict(lines \ gone, table, dropped)
=============================================================================
