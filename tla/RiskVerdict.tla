----------------------------- MODULE RiskVerdict -----------------------------
(***************************************************************************)
(* What the risk assessor makes of an answer (graph/nodes/                 *)
(* risk_assessor.py), and what the pane makes of the same review           *)
(* (clients/word/src/parser.ts).  Pure functions.                          *)
(*                                                                         *)
(* A review is [blank, doNotSign, rows]: whether it says anything, whether *)
(* the phrase "do not send for signature" is in it, and its table rows.  A *)
(* row is [section, rating, others]: the cell under the Rating header and  *)
(* the other cells.  A cell is [word, dress]: the word it consists of      *)
(* ("prose" if it is none of the ratings), and what is around that word:   *)
(* nothing, emphasis or the hyphen of Missing-Context ("plain"), or other  *)
(* signs ("signs": an emoji, or an underscore between the words).          *)
(***************************************************************************)
EXTENDS FiniteSets

RatingBlockers == {"red", "missing context"}
RatingWarn     == {"yellow"}
Ratings        == RatingBlockers \cup RatingWarn \cup {"green"}

(* _normalize_rating: whatever is no letter is a space. *)
NormalizeRating(cell) == cell.word

(* Every cell of every table row counts, under whatever header. *)
TableRatings(review) ==
  {NormalizeRating(cell) : cell \in UNION {{row.rating} \cup row.others : row \in review.rows}}
    \cap Ratings

Level(review) ==
  LET ratings == TableRatings(review)
  IN  CASE review.blank \/ review.doNotSign \/ ratings \cap RatingBlockers # {} -> "high"
        [] ~review.blank /\ ~review.doNotSign /\ ratings \cap RatingBlockers = {} /\ ratings \cap RatingWarn # {} -> "medium"
        [] OTHER -> "low"

(* The flags behind the level. *)
ReviewFlags(review) ==
  IF review.blank THEN {"no output"}
  ELSE LET ratings == TableRatings(review)
           blocked == {f \in {"do not send"} : review.doNotSign}
                        \cup {f \in {"blocking findings"} : ratings \cap RatingBlockers # {}}
       IN  IF blocked # {} THEN blocked
           ELSE {f \in {"yellow findings"} : ratings \cap RatingWarn # {}}

(* An answer must name one of the chunks retrieved for it, by id or by title; it
   need not when the attorney's own document is what it is about. *)
CheckCitations(chunks, named, hasUploadedDoc) ==
  IF chunks = {} THEN {f \in {"no chunks"} : ~hasUploadedDoc}
  ELSE {f \in {"no citation"} : chunks \cap named = {}}

(* risk_assessor on a state [task, review, chunks, named, uploaded]. *)
RiskAssessor(state) ==
  IF state.task = "contract_review"
  THEN [flags |-> ReviewFlags(state.review), level |-> Level(state.review),
        requiresAttorney |-> Level(state.review) \in {"high", "medium"}]
  ELSE LET flags == CheckCitations(state.chunks, state.named, state.uploaded)
       IN  [flags |-> flags, level |-> IF flags # {} THEN "high" ELSE "low",
            requiresAttorney |-> FALSE]

(* A review is held only for a client that can answer the interrupt. *)
RouteRisk(task, level, interactiveReview) ==
  IF \/ task \in {"contract_generation", "drafting"}
     \/ level \in {"high", "medium"} /\ (task = "contract_review" => interactiveReview)
  THEN "human_review" ELSE "output_formatter"

-----------------------------------------------------------------------------
(* The pane.  normalizeRisk removes emphasis only; a row whose rating it cannot
   read is no finding. *)
NormalizeRisk(cell) == IF cell.dress = "plain" /\ cell.word \in Ratings THEN cell.word ELSE "none"

Findings(review) ==
  {row \in review.rows : row.section = "key findings" /\ NormalizeRisk(row.rating) # "none"}
DeriveBlockers(review) ==
  {row \in Findings(review) : NormalizeRisk(row.rating) \in RatingBlockers}

=============================================================================
