------------------------- MODULE ConversationLedger -------------------------
(***************************************************************************)
(* What the conversation stores promise together: every message of a       *)
(* conversation is live, replayed to the model as it was written, until a  *)
(* compaction condenses it; messages are condensed oldest first, never     *)
(* lost, never un-condensed, and the newest KeepRecent stay live.          *)
(***************************************************************************)
EXTENDS Integers, FiniteSets

CONSTANT KeepRecent

VARIABLES live, condensed

ledger == <<live, condensed>>

Init == live = {} /\ condensed = {}

(* A turn's messages enter live, newer than everything already there. *)
Record ==
  /\ \E new \in SUBSET (live' \ live) :
       /\ new # {}
       /\ live' = live \cup new
       /\ \A n \in new, m \in live \cup condensed : m < n
  /\ UNCHANGED condensed

(* A compaction condenses the oldest live messages and leaves KeepRecent. *)
Condense ==
  /\ live' \subseteq live
  /\ live' # live
  /\ Cardinality(live') >= KeepRecent
  /\ condensed' = condensed \cup (live \ live')
  /\ \A c \in live \ live', m \in live' : c < m

Next == Record \/ Condense

Spec == Init /\ [][Next]_ledger
=============================================================================
