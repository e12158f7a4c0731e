--------------------------- MODULE WordEditsProofs ---------------------------
(***************************************************************************)
(* What holds of WordEdits for every number of cards, every proposal and   *)
(* every document: what a card says of its edit is what happened, and      *)
(* Track Changes is back in the attorney's mode when no edit is on its way.*)
(***************************************************************************)
EXTENDS WordEdits, TLAPS

-----------------------------------------------------------------------------
(* The invariant. *)

\* What the steps read of a card and of the bounds.
Shaped ==
  /\ DOMAIN card = Cards
  /\ \A c \in Cards :
       /\ DOMAIN card[c] = {"pc", "proposal", "seen", "ranges", "original", "writes",
                            "wrote", "stuck", "unrestored", "steady"}
       /\ card[c].pc \in PCs /\ card[c].writes \in Nat /\ card[c].unrestored \in Nat
  /\ left \in [clicks : Nat, moves : Nat, failures : Nat]
  /\ tangled \in BOOLEAN

\* Where a card's edit is in: once written and never in an earlier step; and a card
\* that could be clicked again has put in no more than Word left without its mode.
WritesFit ==
  \A c \in Cards :
    /\ card[c].pc \in {"written", "applied"} => card[c].wrote
    /\ card[c].pc \in {"clicked", "moded", "read", "found", "writing", "failing"} => ~card[c].wrote
    /\ card[c].pc \in {"error", "discarded"} /\ card[c].wrote => card[c].stuck
    /\ card[c].pc = "idle" => ~card[c].wrote
    /\ ~IsFinding(c) =>
         /\ card[c].writes <= 1 + card[c].unrestored
         /\ card[c].pc \notin {"written", "applied"} => card[c].writes <= card[c].unrestored

\* A card that has noted the mode will put it back: replaceAll notes it before it
\* reads, the others after they have found something.
Noted(c) ==
  \/ card[c].pc \in {"moded", "writing", "written", "failing"}
  \/ card[c].pc = "read" /\ card[c].proposal.action = "replace_all"

\* As long as edits keep apart, one card at most is on its way, the mode is the chosen
\* one until it writes, and what it noted is the chosen one.
ModeIsHeld ==
  ~tangled =>
    /\ \A c, d \in Running : c = d
    /\ (\A c \in Running : card[c].pc \notin {"written", "failing"}) => tracking = chosen
    /\ \A c \in Running : Noted(c) => card[c].original = chosen

IInv == Shaped /\ WritesFit /\ ModeIsHeld

\* What a step may leave of a card: its proposal, and everything the invariant reads.
Keeps(d) ==
  /\ DOMAIN card'[d] = DOMAIN card[d] /\ card'[d].proposal = card[d].proposal
  /\ card'[d].pc = card[d].pc /\ card'[d].original = card[d].original
  /\ card'[d].writes = card[d].writes /\ card'[d].wrote = card[d].wrote
  /\ card'[d].stuck = card[d].stuck /\ card'[d].unrestored = card[d].unrestored

\* Card c moves on, writing nothing; the others stay as they are.
MovesOn(c, from, to) ==
  /\ DOMAIN card' = Cards
  /\ \A d \in Cards \ {c} : Keeps(d)
  /\ DOMAIN card'[c] = DOMAIN card[c] /\ card'[c].proposal = card[c].proposal
  /\ card[c].pc = from /\ card'[c].pc = to /\ card'[c].writes = card[c].writes
  /\ card'[c].unrestored = card[c].unrestored

-----------------------------------------------------------------------------
(* Steps between clicking and writing. *)

\* A card that moves on before its write, or in the batch that failed, keeps to what
\* it has noted or notes the mode as it is.
LEMMA QuietStep ==
  ASSUME IInv, NEW c \in Cards, NEW from, NEW to, MovesOn(c, from, to),
         \/ from \in {"idle", "error"} /\ to = "discarded"
         \/ from \in {"clicked", "moded", "read", "found"} /\ to \in {"moded", "read", "found", "writing", "error"},
         card'[c].wrote = card[c].wrote /\ card'[c].stuck = card[c].stuck,
         \/ card'[c].original = card[c].original /\ (Noted(c)' => Noted(c))
         \/ card'[c].original = tracking,
         left' \in [clicks : Nat, moves : Nat, failures : Nat],
         UNCHANGED <<tracking, chosen, tangled>>
  PROVE  IInv'
<1>0. Shaped /\ WritesFit /\ ModeIsHeld
  BY DEF IInv
<1>1. Shaped'
  BY <1>0 DEF Shaped, MovesOn, Keeps, PCs, Resting
<1>3. WritesFit'
  <2>2. ASSUME NEW d \in Cards, d # c
        PROVE  Keeps(d) /\ (IsFinding(d)' <=> IsFinding(d))
    BY <2>2 DEF MovesOn, Keeps, IsFinding
  <2>3. IsFinding(c)' <=> IsFinding(c)
    BY DEF MovesOn, IsFinding
  <2> QED
    BY <1>0, <2>2, <2>3 DEF WritesFit, MovesOn, Keeps
<1>4. ModeIsHeld'
  <2>1. Running' \subseteq Running
    BY DEF Running, MovesOn, Keeps, Resting
  <2>2. \A d \in Running' : d # c => Noted(d)' <=> Noted(d)
    BY DEF Running, MovesOn, Keeps, Noted
  <2>3. c \in Running' => card[c].pc \notin {"written", "failing"}
    BY DEF Running, MovesOn, Resting
  <2>4. ASSUME ~tangled
        PROVE  /\ \A d, e \in Running' : d = e
               /\ (\A d \in Running' : card'[d].pc \notin {"written", "failing"}) => tracking = chosen
               /\ \A d \in Running' : Noted(d)' => card'[d].original = chosen
    <3>1. /\ \A d, e \in Running : d = e
          /\ (\A d \in Running : card[d].pc \notin {"written", "failing"}) => tracking = chosen
          /\ \A d \in Running : Noted(d) => card[d].original = chosen
      BY <1>0, <2>4 DEF ModeIsHeld
    <3>2. card[c].pc \notin {"written", "failing"}
      BY DEF MovesOn
    <3>3. (\A d \in Running' : card'[d].pc \notin {"written", "failing"}) => tracking = chosen
      <4>1. ASSUME \A d \in Running' : card'[d].pc \notin {"written", "failing"}
            PROVE  \A d \in Running : card[d].pc \notin {"written", "failing"}
        BY <3>2, <4>1 DEF Running, MovesOn, Keeps
      <4> QED
        BY <3>1, <4>1
    <3>4. ASSUME NEW d \in Running', Noted(d)'
          PROVE  card'[d].original = chosen
      <4>1. CASE d = c
        <5>1. c \in Running /\ \A e \in Running : card[e].pc \notin {"written", "failing"}
          BY <2>1, <3>1, <3>2, <3>4, <4>1
        <5>2. tracking = chosen
          BY <3>1, <5>1
        <5> QED
          BY <3>1, <3>4, <4>1, <5>1, <5>2
      <4>2. CASE d # c
        <5>1. d \in Running /\ Noted(d) /\ card'[d].original = card[d].original
          BY <2>1, <2>2, <3>4, <4>2 DEF Running, MovesOn, Keeps
        <5> QED
          BY <3>1, <5>1
      <4> QED
        BY <4>1, <4>2
    <3> QED
      BY <2>1, <3>1, <3>3, <3>4
  <2> QED
    BY <2>4 DEF ModeIsHeld
<1> QED
  BY <1>1, <1>3, <1>4 DEF IInv

\* The steps of a card that only move it on.
LEMMA MovingOn ==
  ASSUME IInv, NEW c \in Cards,
         Discard(c) \/ NotesModeFirst(c) \/ ReadsView(c) \/ Finds(c) \/ NotesMode(c)
  PROVE  IInv'
<1>0. /\ Shaped /\ DOMAIN card = Cards
      /\ \A d \in Cards : DOMAIN card[d] = {"pc", "proposal", "seen", "ranges", "original", "writes",
                                            "wrote", "stuck", "unrestored", "steady"}
      /\ left \in [clicks : Nat, moves : Nat, failures : Nat]
  BY DEF IInv, Shaped
<1>1. UNCHANGED <<tracking, chosen, tangled, left>>
  BY DEF Discard, NotesModeFirst, ReadsView, Finds, NotesMode
<1>2. CASE Discard(c)
  <2>1. MovesOn(c, card[c].pc, "discarded") /\ card[c].pc \in {"idle", "error"}
          /\ card'[c].wrote = card[c].wrote /\ card'[c].stuck = card[c].stuck /\ card'[c].original = card[c].original
    BY <1>0, <1>2 DEF Discard, Goes, MovesOn, Keeps
  <2>2. ~Noted(c)'
    BY <2>1 DEF Noted, MovesOn
  <2> QED
    BY <1>0, <1>1, <2>1, <2>2, QuietStep
<1>3. CASE NotesModeFirst(c)
  <2>1. MovesOn(c, "clicked", "moded") /\ card'[c].wrote = card[c].wrote /\ card'[c].stuck = card[c].stuck
          /\ card'[c].original = tracking
    BY <1>0, <1>3 DEF NotesModeFirst, MovesOn, Keeps
  <2> QED
    BY <1>0, <1>1, <2>1, QuietStep
<1>4. CASE ReadsView(c)
  <2>1. /\ MovesOn(c, card[c].pc, "read") /\ card'[c].wrote = card[c].wrote /\ card'[c].stuck = card[c].stuck
        /\ card'[c].original = card[c].original
        /\ card[c].pc = IF card[c].proposal.action = "replace_all" THEN "moded" ELSE "clicked"
    <3> DEFINE seen == Reading(Raw, Current)
    <3>1. card' = [card EXCEPT ![c].pc = "read", ![c].seen = seen]
      BY <1>4 DEF ReadsView
    <3>2. card[c].pc = IF card[c].proposal.action = "replace_all" THEN "moded" ELSE "clicked"
      BY <1>4 DEF ReadsView
    <3> HIDE DEF seen
    <3> QED
      BY <1>0, <3>1, <3>2 DEF MovesOn, Keeps
  <2>2. Noted(c)' => Noted(c)
    BY <2>1 DEF Noted, MovesOn
  <2>3. card[c].pc \in {"moded", "clicked"}
    BY <2>1
  <2> QED
    BY <1>0, <1>1, <2>1, <2>2, <2>3, QuietStep
<1>5. CASE Finds(c)
  <2> DEFINE found  == Found(card[c].seen, card[c].proposal)
             ranges == [n \in DOMAIN found |-> {doc[i].id : i \in found[n].from .. found[n].to}]
             to     == IF found = <<>> THEN "error"
                       ELSE IF card[c].proposal.action = "replace_all" THEN "writing" ELSE "found"
  <2>1. card' = [card EXCEPT ![c] = [card[c] EXCEPT !.pc = to, !.ranges = ranges]]
          /\ card[c].pc = "read"
    BY <1>5 DEF Finds, Aimed
  <2>2. to \in {"error", "writing", "found"}
          /\ (to = "writing" => card[c].proposal.action = "replace_all")
    OBVIOUS
  <2> HIDE DEF found, ranges, to
  <2>3. MovesOn(c, "read", to) /\ card'[c].wrote = card[c].wrote /\ card'[c].stuck = card[c].stuck
          /\ card'[c].original = card[c].original
    BY <1>0, <2>1 DEF MovesOn, Keeps
  <2>4. Noted(c)' => Noted(c)
    BY <2>2, <2>3 DEF Noted, MovesOn
  <2> QED
    BY <1>0, <1>1, <2>2, <2>3, <2>4, QuietStep
<1>6. CASE NotesMode(c)
  <2>1. MovesOn(c, "found", "writing") /\ card'[c].wrote = card[c].wrote /\ card'[c].stuck = card[c].stuck
          /\ card'[c].original = tracking
    BY <1>0, <1>6 DEF NotesMode, MovesOn, Keeps
  <2> QED
    BY <1>0, <1>1, <2>1, QuietStep
<1> QED
  BY <1>2, <1>3, <1>4, <1>5, <1>6

-----------------------------------------------------------------------------
(* The click, the write and its end. *)

\* A click on Accept preserves the invariant.
LEMMA ClickStep ==
  ASSUME IInv, NEW c \in Cards, Apply(c)
  PROVE  IInv'
<1>0. /\ Shaped /\ WritesFit /\ ModeIsHeld /\ DOMAIN card = Cards
      /\ \A d \in Cards : DOMAIN card[d] = {"pc", "proposal", "seen", "ranges", "original", "writes",
                                            "wrote", "stuck", "unrestored", "steady"}
  BY DEF IInv, Shaped
<1>1. /\ MovesOn(c, card[c].pc, "clicked") /\ card'[c].wrote = FALSE /\ card'[c].stuck = FALSE
      /\ card[c].pc \in {"idle", "error", "applied"}
      /\ ~IsFinding(c) => card[c].pc \in {"idle", "error"}
      /\ UNCHANGED <<tracking, chosen>> /\ tangled' = (tangled \/ Running # {})
      /\ left' \in [clicks : Nat, moves : Nat, failures : Nat]
  <2>1. MovesOn(c, card[c].pc, "clicked") /\ card'[c].wrote = FALSE /\ card'[c].stuck = FALSE
    BY <1>0 DEF Apply, MovesOn, Keeps
  <2>2. left' \in [clicks : Nat, moves : Nat, failures : Nat]
    BY <1>0 DEF Apply, Shaped
  <2> QED
    BY <2>1, <2>2 DEF Apply, CanApply
<1>2. Shaped'
  BY <1>0, <1>1 DEF Shaped, MovesOn, Keeps, PCs, Resting
<1>3. WritesFit'
  <2>1. \A d \in Cards : IsFinding(d)' <=> IsFinding(d)
    BY <1>1 DEF IsFinding, MovesOn, Keeps
  <2> QED
    BY <1>0, <1>1, <2>1 DEF WritesFit, MovesOn, Keeps
<1>4. ModeIsHeld'
  <2>1. ASSUME ~tangled'
        PROVE  ~tangled /\ Running = {} /\ Running' = {c} /\ tracking = chosen
    <3>1. ~tangled /\ Running = {}
      BY <1>0, <1>1, <2>1 DEF Shaped
    <3>2. \A d \in Cards : card[d].pc \in Resting
      BY <3>1 DEF Running
    <3>3. Running' = {c}
      BY <1>1, <3>2 DEF Running, MovesOn, Keeps, Resting
    <3> QED
      BY <1>0, <3>1, <3>3 DEF ModeIsHeld
  <2>2. ~Noted(c)'
    BY <1>1 DEF Noted, MovesOn
  <2> QED
    BY <1>1, <2>1, <2>2 DEF ModeIsHeld
<1> QED
  BY <1>2, <1>3, <1>4 DEF IInv

\* Writing the edit preserves the invariant.
LEMMA WriteStep ==
  ASSUME IInv, NEW c \in Cards, Writes(c)
  PROVE  IInv'
<1>0. /\ Shaped /\ WritesFit /\ ModeIsHeld /\ DOMAIN card = Cards
      /\ \A d \in Cards : DOMAIN card[d] = {"pc", "proposal", "seen", "ranges", "original", "writes",
                                            "wrote", "stuck", "unrestored", "steady"}
  BY DEF IInv, Shaped
<1>1. /\ DOMAIN card' = Cards /\ \A d \in Cards \ {c} : Keeps(d)
      /\ DOMAIN card'[c] = DOMAIN card[c] /\ card'[c].proposal = card[c].proposal
      /\ card[c].pc = "writing" /\ card'[c].pc = "written" /\ card'[c].original = card[c].original
      /\ card'[c].writes = card[c].writes + 1 /\ card'[c].wrote = TRUE
      /\ card'[c].unrestored = card[c].unrestored
      /\ UNCHANGED <<chosen, tangled, left>>
  <2>1. card' = [d \in Cards |->
                   IF d = c THEN [card[d] EXCEPT !.pc = "written", !.writes = @ + 1, !.wrote = TRUE]
                   ELSE [card[d] EXCEPT !.steady = FALSE]]
          /\ card[c].pc = "writing" /\ UNCHANGED <<chosen, tangled, left>>
    BY DEF Writes
  <2>2. ASSUME NEW d \in Cards \ {c}
        PROVE  Keeps(d)
    BY <1>0, <2>1 DEF Keeps
  <2>3. card'[c] = [card[c] EXCEPT !.pc = "written", !.writes = @ + 1, !.wrote = TRUE]
          /\ DOMAIN card' = Cards
    BY <2>1
  <2> QED
    BY <1>0, <2>1, <2>2, <2>3
<1>2. Shaped'
  BY <1>0, <1>1 DEF Shaped, Keeps, PCs, Resting
<1>3. WritesFit'
  <2>1. ~IsFinding(c) => card[c].writes <= card[c].unrestored
    BY <1>0, <1>1 DEF WritesFit
  <2>2. \A d \in Cards : IsFinding(d)' <=> IsFinding(d)
    BY <1>1 DEF IsFinding, Keeps
  <2> QED
    BY <1>0, <1>1, <2>1, <2>2 DEF WritesFit, Keeps, Shaped
<1>4. ModeIsHeld'
  <2>1. Running' = Running /\ c \in Running
    BY <1>1 DEF Running, Keeps, Resting
  <2>2. Noted(c) /\ \A d \in Cards \ {c} : Noted(d)' <=> Noted(d)
    BY <1>1 DEF Noted, Keeps
  <2>3. \A d \in Cards : card'[d].original = card[d].original
    BY <1>1 DEF Keeps
  <2> QED
    BY <1>0, <1>1, <2>1, <2>2, <2>3 DEF ModeIsHeld, Running
<1> QED
  BY <1>2, <1>3, <1>4 DEF IInv

\* Putting the mode back preserves the invariant.
LEMMA RestoreStep ==
  ASSUME IInv, NEW c \in Cards, Restores(c)
  PROVE  IInv'
<1>0. /\ Shaped /\ WritesFit /\ ModeIsHeld /\ DOMAIN card = Cards
      /\ \A d \in Cards : DOMAIN card[d] = {"pc", "proposal", "seen", "ranges", "original", "writes",
                                            "wrote", "stuck", "unrestored", "steady"}
  BY DEF IInv, Shaped
<1> DEFINE to == IF card[c].pc = "written" THEN "applied" ELSE "error"
<1>1. /\ MovesOn(c, card[c].pc, to) /\ card'[c].wrote = card[c].wrote
      /\ card[c].pc \in {"written", "failing"} /\ tracking' = card[c].original
      /\ UNCHANGED <<chosen, tangled, left>>
  <2>1. card' = [card EXCEPT ![c].pc = to] /\ card[c].pc \in {"written", "failing"}
          /\ tracking' = card[c].original /\ UNCHANGED <<chosen, tangled, left>>
    BY DEF Restores, Goes
  <2> HIDE DEF to
  <2> QED
    BY <1>0, <2>1 DEF MovesOn, Keeps
<1>2. /\ card[c].pc = "written" => to = "applied"
      /\ card[c].pc = "failing" => to = "error"
  OBVIOUS
<1> HIDE DEF to
<1>3. Shaped'
  BY <1>0, <1>1, <1>2 DEF Shaped, MovesOn, Keeps, PCs, Resting
<1>4. WritesFit'
  <2>1. \A d \in Cards : IsFinding(d)' <=> IsFinding(d)
    BY <1>1 DEF IsFinding, MovesOn, Keeps
  <2> QED
    BY <1>0, <1>1, <1>2, <2>1 DEF WritesFit, MovesOn, Keeps
<1>5. ModeIsHeld'
  <2>1. c \in Running /\ Noted(c)
    BY <1>1 DEF Running, Noted, Resting
  <2>2. ASSUME ~tangled
        PROVE  Running' = {} /\ tracking' = chosen
    <3>1. (\A d \in Running : d = c) /\ card[c].original = chosen
      BY <1>0, <2>1, <2>2 DEF ModeIsHeld
    <3>2. Running' = {}
      BY <1>1, <1>2, <3>1 DEF Running, MovesOn, Keeps, Resting
    <3> QED
      BY <1>1, <3>1, <3>2
  <2> QED
    BY <1>1, <2>2 DEF ModeIsHeld
<1> QED
  BY <1>3, <1>4, <1>5 DEF IInv

\* Word fails a batch: before the write the card shows it, the write's leaves the mode
\* to be put back, and one that fails to put it back is why the mode may stay.
LEMMA FailStep ==
  ASSUME IInv, NEW c \in Cards, WordFails(c)
  PROVE  IInv'
<1>0. /\ Shaped /\ WritesFit /\ ModeIsHeld /\ DOMAIN card = Cards
      /\ left \in [clicks : Nat, moves : Nat, failures : Nat]
      /\ \A d \in Cards : DOMAIN card[d] = {"pc", "proposal", "seen", "ranges", "original", "writes",
                                            "wrote", "stuck", "unrestored", "steady"}
  BY DEF IInv, Shaped
<1>1. /\ left' \in [clicks : Nat, moves : Nat, failures : Nat]
      /\ UNCHANGED chosen /\ tangled' = (tangled \/ card[c].pc \in {"written", "failing"})
      /\ card[c].pc \in {"clicked", "moded", "read", "found", "writing", "written", "failing"}
  <2>1. \/ card[c].pc = "writing" /\ UNCHANGED left
        \/ left.failures > 0 /\ left' = [left EXCEPT !.failures = @ - 1]
    BY DEF WordFails
  <2>2. left' \in [clicks : Nat, moves : Nat, failures : Nat]
    BY <1>0, <2>1
  <2> QED
    BY <2>2 DEF WordFails
<1>2. CASE card[c].pc \in {"clicked", "moded", "read", "found"}
  <2>1. MovesOn(c, card[c].pc, "error") /\ UNCHANGED <<tracking, tangled>>
          /\ card'[c].wrote = card[c].wrote /\ card'[c].stuck = card[c].stuck
          /\ card'[c].original = card[c].original
    <3>1. Goes(c, "error") /\ UNCHANGED tracking
      BY <1>2 DEF WordFails
    <3>2. UNCHANGED tangled
      BY <1>0, <1>1, <1>2 DEF Shaped
    <3> QED
      BY <1>0, <3>1, <3>2 DEF Goes, MovesOn, Keeps
  <2>2. ~Noted(c)'
    BY <2>1 DEF Noted, MovesOn
  <2> QED
    BY <1>1, <1>2, <2>1, <2>2, QuietStep
<1>3. CASE card[c].pc = "writing"
  <2>1. MovesOn(c, "writing", "failing")
          /\ card'[c].wrote = card[c].wrote /\ card'[c].original = card[c].original
    <3>1. card' = [card EXCEPT ![c].pc = "failing"]
      BY <1>3 DEF WordFails, Goes
    <3> QED
      BY <1>0, <1>3, <3>1 DEF MovesOn, Keeps
  <2>2. Shaped'
    BY <1>0, <1>1, <2>1 DEF Shaped, MovesOn, Keeps, PCs, Resting
  <2>3. WritesFit'
    <3>1. \A d \in Cards : IsFinding(d)' <=> IsFinding(d)
      BY <2>1 DEF IsFinding, MovesOn, Keeps
    <3> QED
      BY <1>0, <2>1, <3>1 DEF WritesFit, MovesOn, Keeps
  <2>4. ModeIsHeld'
    <3>1. Running' = Running /\ c \in Running
      BY <2>1 DEF Running, MovesOn, Keeps, Resting
    <3>2. Noted(c) /\ \A d \in Cards \ {c} : Noted(d)' <=> Noted(d)
      BY <2>1 DEF Noted, MovesOn, Keeps
    <3>3. \A d \in Cards : card'[d].original = card[d].original
      BY <2>1 DEF MovesOn, Keeps
    <3>4. (tangled' <=> tangled) /\ card'[c].pc = "failing"
      BY <1>1, <1>3, <2>1 DEF MovesOn
    <3> QED
      BY <1>0, <1>1, <3>1, <3>2, <3>3, <3>4 DEF ModeIsHeld, Running
  <2> QED
    BY <2>2, <2>3, <2>4 DEF IInv
<1>4. CASE card[c].pc \in {"written", "failing"}
  <2>1. /\ DOMAIN card' = Cards /\ \A d \in Cards \ {c} : Keeps(d)
        /\ DOMAIN card'[c] = DOMAIN card[c] /\ card'[c].proposal = card[c].proposal
        /\ card'[c].pc = "error" /\ card'[c].writes = card[c].writes
        /\ card'[c].wrote = card[c].wrote
        /\ card[c].pc = "written" => card'[c].stuck /\ card'[c].unrestored = card[c].unrestored + 1
        /\ card[c].pc = "failing" => card'[c].unrestored = card[c].unrestored
    <3>1. CASE card[c].pc = "written"
      <4>1. IsStuck(c)
        BY <3>1 DEF WordFails
      <4> QED
        BY <1>0, <3>1, <4>1 DEF IsStuck, Keeps
    <3>2. CASE card[c].pc = "failing"
      <4>1. Goes(c, "error")
        BY <3>2 DEF WordFails
      <4> QED
        BY <1>0, <3>2, <4>1 DEF Goes, Keeps
    <3> QED
      BY <1>4, <3>1, <3>2
  <2>2. Shaped'
    BY <1>0, <1>1, <1>4, <2>1 DEF Shaped, Keeps, PCs, Resting
  <2>3. WritesFit'
    <3>1. \A d \in Cards : IsFinding(d)' <=> IsFinding(d)
      BY <2>1 DEF IsFinding, Keeps
    <3> QED
      BY <1>0, <1>4, <2>1, <3>1 DEF WritesFit, Keeps, Shaped
  <2>4. ModeIsHeld'
    BY <1>1, <1>4 DEF ModeIsHeld
  <2> QED
    BY <2>2, <2>3, <2>4 DEF IInv
<1> QED
  BY <1>1, <1>2, <1>3, <1>4

-----------------------------------------------------------------------------
(* The attorney's steps. *)

\* What the attorney and Finalize do preserves the invariant.
LEMMA AttorneyStep ==
  ASSUME IInv, SwitchesTracking \/ Erases \/ Settles \/ Finalizes
  PROVE  IInv'
<1>0. /\ Shaped /\ WritesFit /\ ModeIsHeld /\ DOMAIN card = Cards
      /\ \A d \in Cards : DOMAIN card[d] = {"pc", "proposal", "seen", "ranges", "original", "writes",
                                            "wrote", "stuck", "unrestored", "steady"}
  BY DEF IInv, Shaped
<1>1. DOMAIN card' = Cards /\ \A d \in Cards : Keeps(d)
  <2>1. CASE card' = card
    BY <1>0, <2>1 DEF Keeps
  <2>2. CASE Unsteady
    BY <1>0, <2>2 DEF Unsteady, Keeps
  <2> QED
    BY <2>1, <2>2 DEF SwitchesTracking, Erases, Settles, Finalizes
<1>2. left' \in [clicks : Nat, moves : Nat, failures : Nat]
  BY <1>0 DEF SwitchesTracking, Erases, Settles, Finalizes, Moves, Shaped
<1>3. \/ UNCHANGED <<tracking, chosen, tangled>>
      \/ tracking' = chosen' /\ tangled' = (tangled \/ Running # {})
  BY DEF SwitchesTracking, Erases, Settles, Finalizes
<1>4. Running' = Running /\ \A d \in Cards : Noted(d)' <=> Noted(d)
  BY <1>1 DEF Running, Noted, Keeps
<1>5. Shaped'
  BY <1>0, <1>1, <1>2, <1>3 DEF Shaped, Keeps
<1>6. WritesFit'
  <2>1. \A d \in Cards : IsFinding(d)' <=> IsFinding(d)
    BY <1>1 DEF IsFinding, Keeps
  <2> QED
    BY <1>0, <1>1, <1>2, <2>1 DEF WritesFit, Keeps
<1>7. ModeIsHeld'
  <2>1. CASE UNCHANGED <<tracking, chosen, tangled>>
    BY <1>0, <1>1, <1>4, <2>1 DEF ModeIsHeld, Keeps, Running
  <2>2. CASE tracking' = chosen' /\ tangled' = (tangled \/ Running # {})
    BY <1>4, <2>2 DEF ModeIsHeld
  <2> QED
    BY <1>3, <2>1, <2>2
<1> QED
  BY <1>5, <1>6, <1>7 DEF IInv

-----------------------------------------------------------------------------
(* The theorems. *)

\* The initial state satisfies the invariant.
LEMMA InitIInv == Init => IInv
<1> SUFFICES ASSUME Init
             PROVE  IInv
  OBVIOUS
<1>1. PICK p \in [Cards -> Proposals] :
        card = [c \in Cards |-> [pc |-> "idle", proposal |-> p[c], seen |-> NoReading,
                                 ranges |-> <<>>, original |-> FALSE, writes |-> 0, wrote |-> FALSE,
                                 stuck |-> FALSE, unrestored |-> 0, steady |-> TRUE]]
  BY DEF Init
<1>2. /\ DOMAIN card = Cards
      /\ \A c \in Cards :
           /\ DOMAIN card[c] = {"pc", "proposal", "seen", "ranges", "original", "writes",
                                "wrote", "stuck", "unrestored", "steady"}
           /\ card[c].pc = "idle" /\ card[c].writes = 0 /\ card[c].unrestored = 0 /\ ~card[c].wrote
  BY <1>1
<1>3. /\ tracking = chosen /\ tangled = FALSE
      /\ left = [clicks |-> MaxClicks, moves |-> MaxMoves, failures |-> MaxFailures]
  BY DEF Init
<1>4. Shaped
  <2>1. left \in [clicks : Nat, moves : Nat, failures : Nat] /\ tangled \in BOOLEAN
    BY <1>3, WordAssumption
  <2>2. "idle" \in PCs /\ 0 \in Nat
    BY DEF PCs, Resting
  <2> QED
    BY <1>2, <2>1, <2>2 DEF Shaped
<1>5. WritesFit
  BY <1>2 DEF WritesFit
<1>6. ModeIsHeld
  BY <1>2, <1>3 DEF ModeIsHeld, Running, Resting
<1> QED
  BY <1>4, <1>5, <1>6 DEF IInv

\* Every step preserves the invariant.
LEMMA NextStep ==
  ASSUME IInv, [Next]_vars
  PROVE  IInv'
<1>1. CASE UNCHANGED vars
  BY <1>1 DEF vars, IInv, Shaped, WritesFit, ModeIsHeld, Running, Noted, IsFinding
<1> QED
  BY <1>1, MovingOn, ClickStep, WriteStep, RestoreStep, FailStep, AttorneyStep DEF Next

\* The invariant the two theorems below stand on: edits that keep apart hold the
\* attorney's mode, and a card has written exactly when its step says so.
THEOREM Invariance == Spec => []IInv
<1>1. IInv /\ [Next]_vars => IInv'
  BY NextStep
<1> QED
  BY <1>1, InitIInv, PTL DEF Spec

\* However many cards are clicked and whatever the attorney and Word do meanwhile, a
\* card says applied only of an edit that went in; it is in error or discarded behind
\* one that did only when Word failed to put the mode back, and no proposal goes in more
\* often than once and once for each such failure (onApply, onAccept).
THEOREM CardsTellTheTruth == Spec => []TheCardTellsTheTruth
<1>1. IInv => TheCardTellsTheTruth
  BY DEF IInv, Shaped, WritesFit, TheCardTellsTheTruth
<1> QED
  BY <1>1, Invariance, PTL

\* With no edit on its way Track Changes is as the attorney left it, unless two edits
\* overlapped, the mode was changed under one or Word failed to put it back: the
\* finally blocks of acceptRedline and replaceAll.
THEOREM TheModeIsPutBack == Spec => []ModeIsPutBack
<1>1. IInv => ModeIsPutBack
  BY DEF IInv, ModeIsHeld, ModeIsPutBack
<1> QED
  BY <1>1, Invariance, PTL

=============================================================================
