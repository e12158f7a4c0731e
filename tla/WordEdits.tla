------------------------------ MODULE WordEdits ------------------------------
(***************************************************************************)
(* Proposed edits and redlines going into the Word document: the cards     *)
(* (EditProposalCard.tsx, FindingCard.tsx) and what applyEdit does with    *)
(* Word (word.ts).                                                         *)
(*                                                                         *)
(* Each Word.run is a series of batches, one per context.sync(): a batch   *)
(* is atomic, and between two of them another card, the attorney and       *)
(* Finalize do theirs.  A range Word returned stays on its characters      *)
(* while the document changes around it, so a range is the set of their    *)
(* ids.  The searches of one edit are one step: what can change between    *)
(* the reading and the search is what the counting of stretches is for.    *)
(* A search Word refuses counts as finding nothing; here all of an edit's  *)
(* fail together, and the edit with them.                                  *)
(***************************************************************************)
EXTENDS WordFind

CONSTANTS
  Cards,
  Proposals,   \* the proposals a card can hold
  Documents,   \* the documents at the start: sequences of [c, mark]
  MaxClicks,   \* clicks on Apply (bound)
  MaxMoves,    \* what the attorney does in Word (bound)
  MaxFailures  \* batches Word fails (bound)

ASSUME WordAssumption == {MaxClicks, MaxMoves, MaxFailures} \subseteq Nat

VARIABLES
  doc,       \* characters: [id, c, mark]
  tracking,  \* Track Changes is on
  card,      \* the cards; history: writes, all of them, wrote, in this click, stuck, the
             \* mode was not put back behind it, unrestored, how many clicks that befell
  chosen,    \* the mode the attorney last chose, by hand or by Finalize (history)
  tangled,   \* two edits overlapped, or the mode changed or its batch failed in one (history)
  left       \* what the bounds leave

vars == <<doc, tracking, card, chosen, tangled, left>>

NoProposal == [action |-> "none"]
NoReading  == [raw |-> <<>>, current |-> <<>>, hasView |-> FALSE]
Resting    == {"idle", "applied", "error", "discarded"}
PCs        == Resting \cup {"clicked", "moded", "read", "found", "writing", "written", "failing"}

Init ==
  /\ \E d \in Documents :
       doc = [i \in DOMAIN d |-> [id |-> i, c |-> d[i].c, mark |-> d[i].mark]]
  /\ tracking \in BOOLEAN /\ chosen = tracking
  /\ \E p \in [Cards -> Proposals] :
       card = [c \in Cards |-> [pc |-> "idle", proposal |-> p[c], seen |-> NoReading,
                                ranges |-> <<>>, original |-> FALSE, writes |-> 0, wrote |-> FALSE,
                                stuck |-> FALSE, unrestored |-> 0, steady |-> TRUE]]
  /\ tangled = FALSE
  /\ left = [clicks |-> MaxClicks, moves |-> MaxMoves, failures |-> MaxFailures]

-----------------------------------------------------------------------------
(* The document *)

Chars(d)  == [i \in DOMAIN d |-> d[i].c]
Raw       == Chars(doc)
Current   == Chars(SelectSeq(doc, LAMBDA a : a.mark # "struck"))
LastId(d) == Greatest({0} \cup {d[i].id : i \in DOMAIN d})
Running   == {c \in Cards : card[c].pc \notin Resting}

\* A deletion: struck when tracked, except what was itself a tracked insertion.
Struck(d, ids, tracked) ==
  LET Goes(a) == a.id \in ids /\ (~tracked \/ a.mark = "put")
      kept    == SelectSeq(d, LAMBDA a : ~Goes(a))
  IN  [i \in DOMAIN kept |-> IF kept[i].id \in ids THEN [kept[i] EXCEPT !.mark = "struck"] ELSE kept[i]]

\* An insertion behind the i-th character.
Put(d, i, text, tracked) ==
  LET atoms == [k \in DOMAIN text |-> [id |-> LastId(d) + k, c |-> text[k],
                                       mark |-> IF tracked THEN "put" ELSE "plain"]]
  IN  SubSeq(d, 1, i) \o atoms \o SubSeq(d, i + 1, Len(d))

Places(d, ids)        == {i \in DOMAIN d : d[i].id \in ids}
ParagraphEnd(d, i)    == Greatest({j \in i .. Len(d) : \A k \in i .. j : d[k].c # Break} \cup {i})
ParagraphStart(d, i)  == Least({j \in 1 .. i : \A k \in j .. i : d[k].c # Break} \cup {i})

\* insertText(replace) on each range, in order.
Replaced(d, ranges, text, tracked) ==
  LET done[k \in 0 .. Len(ranges)] ==
        IF k = 0 THEN d
        ELSE LET at     == Greatest(Places(done[k - 1], ranges[k]))
                 put    == Put(done[k - 1], at, text, tracked)
             IN  Struck(put, ranges[k], tracked)
  IN  done[Len(ranges)]

\* insertParagraph before or after the paragraph of the match.
Inserted(d, ids, p, tracked) ==
  LET at == Least(Places(d, ids))
  IN  IF p.position = "after"
      THEN Put(d, ParagraphEnd(d, at), <<Break>> \o p.new, tracked)
      ELSE Put(d, ParagraphStart(d, at) - 1, p.new \o <<Break>>, tracked)

\* What an edit's batch makes of the document.
Written(d, k, tracked) ==
  LET p == k.proposal
  IN  CASE p.action = "delete" -> Struck(d, k.ranges[1], tracked)
        [] p.action = "insert" -> Inserted(d, k.ranges[1], p, tracked)
        [] OTHER               -> Replaced(d, k.ranges, p.new, tracked)

-----------------------------------------------------------------------------
(* A card *)

IsFinding(c) == card[c].proposal.action = "redline"

Goes(c, pc) == card' = [card EXCEPT ![c].pc = pc]

\* Mutant: an applied card can be applied again.
CanApplyAgain(c) == card[c].pc \in {"idle", "error", "applied"}

\* onApply's and onAccept's guards: a finding's redline may be accepted again.
CanApply(c) ==
  IF IsFinding(c) THEN card[c].pc \in {"idle", "error", "applied"}
  ELSE card[c].pc \in {"idle", "error"}

Apply(c) ==
  /\ CanApply(c) /\ left.clicks > 0
  /\ card' = [card EXCEPT ![c].pc = "clicked", ![c].steady = TRUE, ![c].wrote = FALSE, ![c].stuck = FALSE,
                          ![c].ranges = <<>>, ![c].seen = NoReading]
  /\ left' = [left EXCEPT !.clicks = @ - 1]
  /\ tangled' = (tangled \/ Running # {})
  /\ UNCHANGED <<doc, tracking, chosen>>

Discard(c) ==
  /\ ~IsFinding(c) /\ card[c].pc \in {"idle", "error"}
  /\ Goes(c, "discarded")
  /\ UNCHANGED <<doc, tracking, chosen, tangled, left>>

\* replaceAll notes the mode before it looks for anything.
NotesModeFirst(c) ==
  /\ card[c].pc = "clicked" /\ card[c].proposal.action = "replace_all"
  /\ card' = [card EXCEPT ![c].pc = "moded", ![c].original = tracking]
  /\ UNCHANGED <<doc, tracking, chosen, tangled, left>>

\* readTrackedView.
ReadsView(c) ==
  /\ card[c].pc = IF card[c].proposal.action = "replace_all" THEN "moded" ELSE "clicked"
  /\ card' = [card EXCEPT ![c].pc = "read", ![c].seen = Reading(Raw, Current)]
  /\ UNCHANGED <<doc, tracking, chosen, tangled, left>>

\* The matches of a proposal in the document as it is now.
Found(seen, p) ==
  CASE p.action \in {"replace", "redline"} -> FindForReplace(Raw, seen, <<p.target>>)
    [] p.action = "replace_all"            -> FindForReplaceAll(Raw, seen, p.target)
    [] p.action = "insert"                 -> FindForInsert(Raw, seen, p.target, p.position)
    [] p.action = "delete"                 -> FindClauseRange(Raw, seen, p.target)

\* Mutant: replacing every occurrence of what is nowhere is a success.
AimedAtNothing(k, found) ==
  [k EXCEPT !.pc = CASE found = <<>> -> IF k.proposal.action = "replace_all" THEN "applied" ELSE "error"
                     [] OTHER -> IF k.proposal.action = "replace_all" THEN "writing" ELSE "found",
            !.ranges = [n \in DOMAIN found |-> {doc[i].id : i \in found[n].from .. found[n].to}]]

\* What the matches make of a card that looked for them.
Aimed(k, found) ==
  [k EXCEPT !.pc = IF found = <<>> THEN "error"
                   ELSE IF k.proposal.action = "replace_all" THEN "writing" ELSE "found",
            !.ranges = [n \in DOMAIN found |-> {doc[i].id : i \in found[n].from .. found[n].to}]]

Finds(c) ==
  /\ card[c].pc = "read"
  /\ card' = [card EXCEPT ![c] = Aimed(@, Found(card[c].seen, card[c].proposal))]
  /\ UNCHANGED <<doc, tracking, chosen, tangled, left>>

NotesMode(c) ==
  /\ card[c].pc = "found"
  /\ card' = [card EXCEPT ![c].pc = "writing", ![c].original = tracking]
  /\ UNCHANGED <<doc, tracking, chosen, tangled, left>>

\* Mutant: the edit is written in the mode the document is in.
WritesAsItIs(c) ==
  /\ card[c].pc = "writing"
  /\ \A k \in DOMAIN card[c].ranges : Places(doc, card[c].ranges[k]) # {}
  /\ doc' = Written(doc, card[c], tracking)
  /\ tracking' = TRUE
  /\ card' = [d \in Cards |->
       IF d = c THEN [card[d] EXCEPT !.pc = "written", !.writes = @ + 1, !.wrote = TRUE]
       ELSE [card[d] EXCEPT !.steady = FALSE]]
  /\ UNCHANGED <<chosen, tangled, left>>

\* Track Changes on and the edit, in one batch.
Writes(c) ==
  /\ card[c].pc = "writing"
  /\ \A k \in DOMAIN card[c].ranges : Places(doc, card[c].ranges[k]) # {}
  /\ doc' = Written(doc, card[c], TRUE)
  /\ tracking' = TRUE
  /\ card' = [d \in Cards |->
       IF d = c THEN [card[d] EXCEPT !.pc = "written", !.writes = @ + 1, !.wrote = TRUE]
       ELSE [card[d] EXCEPT !.steady = FALSE]]
  /\ UNCHANGED <<chosen, tangled, left>>

\* Mutant: the mode is put back after an edit that went in only.
RestoresIfWritten(c) ==
  /\ card[c].pc \in {"written", "failing"}
  /\ tracking' = IF card[c].pc = "written" THEN card[c].original ELSE TRUE
  /\ Goes(c, IF card[c].pc = "written" THEN "applied" ELSE "error")
  /\ UNCHANGED <<doc, chosen, tangled, left>>

\* finally: the mode is put back; then the card shows how it went.
Restores(c) ==
  /\ card[c].pc \in {"written", "failing"}
  /\ tracking' = card[c].original
  /\ Goes(c, IF card[c].pc = "written" THEN "applied" ELSE "error")
  /\ UNCHANGED <<doc, chosen, tangled, left>>

\* The mode is not put back behind an edit that went in.
IsStuck(c) ==
  card' = [card EXCEPT ![c].pc = "error", ![c].stuck = TRUE, ![c].unrestored = @ + 1]

\* Word fails a batch.  The mode may have been switched on already by the write's.
\* A range whose characters are gone fails it too.
WordFails(c) ==
  /\ card[c].pc \in {"clicked", "moded", "read", "found", "writing", "written", "failing"}
  /\ IF card[c].pc = "writing" /\ \E k \in DOMAIN card[c].ranges : Places(doc, card[c].ranges[k]) = {}
     THEN UNCHANGED left
     ELSE left.failures > 0 /\ left' = [left EXCEPT !.failures = @ - 1]
  /\ \/ card[c].pc = "writing" /\ Goes(c, "failing") /\ tracking' \in {TRUE, tracking}
     \/ card[c].pc = "written" /\ IsStuck(c) /\ UNCHANGED tracking
     \/ card[c].pc \notin {"writing", "written"} /\ Goes(c, "error") /\ UNCHANGED tracking
  /\ tangled' = (tangled \/ card[c].pc \in {"written", "failing"})
  /\ UNCHANGED <<doc, chosen>>

-----------------------------------------------------------------------------
(* The attorney in Word *)

Moves ==
  /\ left.moves > 0
  /\ left' = [left EXCEPT !.moves = @ - 1]

Unsteady == card' = [c \in Cards |-> [card[c] EXCEPT !.steady = FALSE]]

SwitchesTracking ==
  /\ Moves
  /\ tracking' = ~tracking /\ chosen' = ~tracking
  /\ tangled' = (tangled \/ Running # {})
  /\ UNCHANGED <<doc, card>>

\* Deletes a character, tracked or not.
Erases ==
  /\ Moves
  /\ \E i \in DOMAIN doc : doc[i].mark # "struck" /\ doc' = Struck(doc, {doc[i].id}, tracking)
  /\ Unsteady
  /\ UNCHANGED <<tracking, chosen, tangled>>

\* Accepts every tracked change, or rejects them.
Settles ==
  /\ Moves
  /\ \E gone \in {"struck", "put"} :
       LET kept == SelectSeq(doc, LAMBDA a : a.mark # gone)
       IN  doc' = [i \in DOMAIN kept |-> [kept[i] EXCEPT !.mark = "plain"]]
  /\ doc' # doc
  /\ Unsteady
  /\ UNCHANGED <<tracking, chosen, tangled>>

\* finalizeDocument: every change accepted and Track Changes off.
Finalizes ==
  /\ Moves
  /\ LET kept == SelectSeq(doc, LAMBDA a : a.mark # "struck")
     IN  doc' = [i \in DOMAIN kept |-> [kept[i] EXCEPT !.mark = "plain"]]
  /\ tracking' = FALSE /\ chosen' = FALSE
  /\ tangled' = (tangled \/ Running # {})
  /\ Unsteady

Next ==
  \/ \E c \in Cards :
       \/ Apply(c) \/ Discard(c) \/ NotesModeFirst(c) \/ ReadsView(c) \/ Finds(c)
       \/ NotesMode(c) \/ Writes(c) \/ Restores(c) \/ WordFails(c)
  \/ SwitchesTracking \/ Erases \/ Settles \/ Finalizes

Spec == Init /\ [][Next]_vars

-----------------------------------------------------------------------------
(* Properties *)

Atoms == [id : Nat, c : STRING, mark : {"plain", "put", "struck"}]

TypeOK ==
  /\ \A i \in DOMAIN doc : doc[i] \in Atoms
  /\ \A i, j \in DOMAIN doc : doc[i].id = doc[j].id => i = j
  /\ {tracking, chosen, tangled} \subseteq BOOLEAN
  /\ \A c \in Cards : card[c].pc \in PCs /\ card[c].proposal \in Proposals
  /\ left \in [clicks : Nat, moves : Nat, failures : Nat]

\* The writing of a card: who wrote in the last step.
WroteNow(c) == card[c].pc = "writing" /\ card'[c].pc = "written"

LiveIds(d)   == {d[i].id : i \in {j \in DOMAIN d : d[j].mark # "struck"}}
AllIds(d)    == {d[i].id : i \in DOMAIN d}
PlainIds(d)  == {d[i].id : i \in {j \in DOMAIN d : d[j].mark = "plain"}}

\* Whatever mode the attorney or another card leaves the document in, an edit is
\* a tracked change: nothing settled disappears and nothing new is settled
\* ("All variants produce a tracked change the lawyer reviews", applyEdit).
StaysTracked ==
  /\ PlainIds(doc) \subseteq AllIds(doc')
  /\ PlainIds(doc') \subseteq PlainIds(doc)

\* Every character of the reading has one place only in the raw text.
Unambiguous(s) ==
  ~s.hasView \/ \A j \in DOMAIN s.current : Left(s.raw, s.current)[j] = Right(s.raw, s.current)[j]

\* How often an edit strikes its target.
Times(p) ==
  CASE p.action = "insert"      -> 0
    [] p.action = "replace_all" -> Least({HardCap, Count(Current, p.target)})
    [] OTHER                    -> 1

\* What the writing of a card struck, where the document was steady, no struck text
\* repeats what stands beside it, and the target is not taken from head to tail.
StruckNow == Chars(SelectSeq(doc, LAMBDA a : a.id \in LiveIds(doc) \ LiveIds(doc')))
Undisturbed(c) ==
  card[c].steady /\ Len(card[c].proposal.target) < LongNeedle /\ Unambiguous(card[c].seen)

\* How much of its target an edit may strike: a delete any head of it that was found,
\* the others what MATCH_COMPLETENESS_THRESHOLD asks for.
MayStrike(p) ==
  {n \in DOMAIN p.target : p.action = "delete" \/ 100 * n >= 85 * Len(p.target)}


\* "Delete the range matching targetText as a tracked change": a delete strikes all of
\* its target (deleteClause).
DeletesItsTarget ==
  [][\A c \in Cards : WroteNow(c) /\ card[c].proposal.action = "delete" /\ Undisturbed(c) =>
       StruckNow = card[c].proposal.target]_vars

\* A card says applied only of an edit that went in, and is in error or discarded
\* behind one that did only when Word failed to put the mode back; and a proposal goes
\* in once, and once more for each time Word failed so, whatever is clicked - a
\* finding's redline may be accepted again (onApply and its guards, onAccept).
TheCardTellsTheTruth ==
  \A c \in Cards :
    /\ card[c].pc = "applied" => card[c].wrote
    /\ card[c].pc \in {"error", "discarded"} /\ card[c].wrote => card[c].stuck
    /\ ~IsFinding(c) => card[c].writes <= 1 + card[c].unrestored

\* "A failed REPLACE is a genuine error the user must act on (their edit did not
\* apply)": what a card in error says (acceptRedline).
ErrorsDidNotApply == \A c \in Cards : card[c].pc = "error" => ~card[c].wrote

\* With no edit on its way the document is in the mode the attorney chose,
\* unless two edits overlapped, the mode was changed under one, or Word failed
\* to put it back (the finally blocks).
ModeIsPutBack == (Running = {} /\ ~tangled) => tracking = chosen

\* "Saves and restores the document's prior change-tracking mode": with every
\* edit done the mode is the attorney's (acceptRedline).
ModeIsAlwaysPutBack == Running = {} => tracking = chosen

=============================================================================
