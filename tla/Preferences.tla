---------------------------- MODULE Preferences ----------------------------
(***************************************************************************)
(* The USER.md file of one attorney and what writes it                     *)
(* (memory/preferences.py, api/routes/preferences.py, and in the pane      *)
(* preferences.ts, PreferencesTab.tsx, PreferenceSuggestionCard.tsx): a    *)
(* Preferences tab replaces the file by its text, a suggestion card reads  *)
(* it and writes it back with its own line behind.  The handlers run in    *)
(* threads, and a write first empties the file.                            *)
(***************************************************************************)
EXTENDS Naturals, Sequences, SequencesExt

CONSTANTS Panes,     \* panes of the attorney
          Lines,     \* suggested preferences, one card each
          CardOf,    \* the pane that shows it
          MaxLines,  \* _MAX_WRITE_CHARS, in lines
          MaxTyped,  \* bound: changes typed into a tab
          MaxSaves,  \* bound: clicks on Save
          MaxFaults  \* bound: requests or answers that are lost

Writers == Panes \cup Lines

VARIABLES file,    \* USER.md
          tab,     \* the Preferences tab of each pane
          card,    \* the state of each suggestion
          fetched, \* the text of a GET on its way back, if any
          put,     \* the PUT of each writer
          removed, \* lines the attorney took out of a tab
          typed, saves, faults
vars == <<file, tab, card, fetched, put, removed, typed, saves, faults>>

NoPut == [phase |-> "none", content |-> <<>>]

Init ==
  /\ file = <<>>
  /\ tab = [p \in Panes |-> [markdown |-> <<>>, loaded |-> FALSE, due |-> TRUE, busy |-> FALSE]]
  /\ card = [l \in Lines |-> "idle"]
  /\ fetched = [w \in Writers |-> <<>>]
  /\ put = [w \in Writers |-> NoPut]
  /\ removed = {} /\ typed = 0 /\ saves = 0 /\ faults = 0

Fault == faults < MaxFaults /\ faults' = faults + 1

-----------------------------------------------------------------------------
(* The server.  GET reads the file as it stands, also while it is written. *)
Get(w) == fetched' = [fetched EXCEPT ![w] = <<file>>]

(* save_preferences: over the cap nothing is written; else the file is opened,
   which empties it, and the text is written from its start. *)
Rejects(w) ==
  /\ put[w].phase = "sent" /\ Len(put[w].content) > MaxLines
  /\ put' = [put EXCEPT ![w].phase = "failed"]
  /\ UNCHANGED <<file, tab, card, fetched, removed, typed, saves, faults>>

Truncates(w) ==
  /\ put[w].phase = "sent" /\ Len(put[w].content) <= MaxLines
  /\ file' = <<>>
  /\ put' = [put EXCEPT ![w].phase = "open"]
  /\ UNCHANGED <<tab, card, fetched, removed, typed, saves, faults>>

Writes(w) ==
  /\ put[w].phase = "open"
  /\ file' = put[w].content \o SubSeq(file, 1 + Len(put[w].content), Len(file))
  /\ put' = [put EXCEPT ![w].phase = "saved"]
  /\ UNCHANGED <<tab, card, fetched, removed, typed, saves, faults>>

(* A request or an answer is lost: the writer sees a failure either way. *)
Loses(w) ==
  /\ put[w].phase \in {"sent", "saved"} /\ Fault
  /\ put' = [put EXCEPT ![w].phase = "failed"]
  /\ UNCHANGED <<file, tab, card, fetched, removed, typed, saves>>

-----------------------------------------------------------------------------
(* The Preferences tab.  The effect runs when the tab mounts and whenever
   `loaded' falls; a failed fetch is not tried again. *)
Fetches(p) ==
  /\ tab[p].due /\ tab' = [tab EXCEPT ![p].due = FALSE]
  /\ \/ Get(p) /\ UNCHANGED faults
     \/ Fault /\ UNCHANGED fetched
  /\ UNCHANGED <<file, card, put, removed, typed, saves>>

Shows(p) ==
  /\ fetched[p] # <<>>
  /\ tab' = [tab EXCEPT ![p].markdown = fetched[p][1], ![p].loaded = TRUE]
  /\ fetched' = [fetched EXCEPT ![p] = <<>>]
  /\ UNCHANGED <<file, card, put, removed, typed, saves, faults>>

(* The attorney takes a line out of the text. *)
Types(p) ==
  /\ ~ tab[p].busy /\ typed < MaxTyped /\ typed' = typed + 1
  /\ \E i \in DOMAIN tab[p].markdown :
       /\ tab' = [tab EXCEPT ![p].markdown = RemoveAt(@, i)]
       /\ removed' = removed \cup {tab[p].markdown[i]}
  /\ UNCHANGED <<file, card, fetched, put, saves, faults>>

(* Save sends the text, loaded or not. *)
Saves(p) ==
  /\ ~ tab[p].busy /\ saves < MaxSaves /\ saves' = saves + 1
  /\ tab' = [tab EXCEPT ![p].busy = TRUE]
  /\ put' = [put EXCEPT ![p] = [phase |-> "sent", content |-> tab[p].markdown]]
  /\ UNCHANGED <<file, card, fetched, removed, typed, faults>>

SaveEnds(p) ==
  /\ put[p].phase \in {"saved", "failed"}
  /\ tab' = [tab EXCEPT ![p].busy = FALSE]
  /\ put' = [put EXCEPT ![p] = NoPut]
  /\ UNCHANGED <<file, card, fetched, removed, typed, saves, faults>>

-----------------------------------------------------------------------------
(* A suggestion card: appendPreference is a GET and a PUT. *)
Adds(l) ==
  /\ card[l] \in {"idle", "error"}
  /\ \/ card' = [card EXCEPT ![l] = "saving"] /\ Get(l) /\ UNCHANGED faults
     \/ card' = [card EXCEPT ![l] = "error"] /\ Fault /\ UNCHANGED fetched
  /\ UNCHANGED <<file, tab, put, removed, typed, saves>>

Appends(l) ==
  /\ fetched[l] # <<>> /\ fetched' = [fetched EXCEPT ![l] = <<>>]
  /\ put' = [put EXCEPT ![l] = [phase |-> "sent", content |-> Append(fetched[l][1], l)]]
  /\ UNCHANGED <<file, tab, card, removed, typed, saves, faults>>

(* Added: the tab is to fetch again, which it does if it had loaded. *)
AddEnds(l) ==
  /\ put[l].phase \in {"saved", "failed"}
  /\ put' = [put EXCEPT ![l] = NoPut]
  /\ IF put[l].phase = "saved"
     THEN /\ card' = [card EXCEPT ![l] = "added"]
          /\ tab' = [tab EXCEPT ![CardOf[l]].loaded = FALSE,
                                ![CardOf[l]].due = @ \/ tab[CardOf[l]].loaded]
     ELSE card' = [card EXCEPT ![l] = "error"] /\ UNCHANGED tab
  /\ UNCHANGED <<file, fetched, removed, typed, saves, faults>>

Next ==
  \/ \E w \in Writers : Rejects(w) \/ Truncates(w) \/ Writes(w) \/ Loses(w)
  \/ \E p \in Panes : Fetches(p) \/ Shows(p) \/ Types(p) \/ Saves(p) \/ SaveEnds(p)
  \/ \E l \in Lines : Adds(l) \/ Appends(l) \/ AddEnds(l)

Spec == Init /\ [][Next]_vars

-----------------------------------------------------------------------------
(* Properties. *)

Quiet == \A w \in Writers : put[w] = NoPut

(* memory/preferences.py: "Because the human is the only writer, a raw markdown
   file is safe": what a card says it added is in the file until the attorney
   takes it out. *)
AddedIsKept ==
  Quiet => \A l \in Lines : card[l] = "added" /\ l \notin removed => Contains(file, l)
=============================================================================
