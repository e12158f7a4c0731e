---------------------------- MODULE DocumentStore ----------------------------
(***************************************************************************)
(* The copies the backend keeps of a document (memory/document_store.py)   *)
(* and what feedback_report --changes says of the applied edits from them. *)
(*                                                                         *)
(* One document, shared by several attorneys, whose text Word holds.  A    *)
(* capture, a turn and an Apply event are posts: the pane sends them, they *)
(* reach the database in any order, a capture in three transactions.  The  *)
(* deletion script is one transaction of three statements, each of which   *)
(* sees what was committed before it and shows nothing before the commit.  *)
(***************************************************************************)
EXTENDS DocumentChanges

CONSTANTS
  Attorneys,
  MaxPosts,       \* posts the panes send (bound)
  MaxInFlight,    \* posts on their way at once (bound)
  MaxFates,       \* what attorneys do to the edit after applying it (bound)
  MaxFailures,    \* database writes that fail (bound)
  MaxDeletions    \* runs of the deletion script (bound)

ASSUME BoundsAssumption ==
  {MaxPosts, MaxInFlight, MaxFates, MaxFailures, MaxDeletions} \subseteq Nat

VARIABLES
  word,       \* the text in Word, the edit applied to it and that edit's fate
  posts,      \* the posts on their way
  versions,   \* document_version: each distinct text once
  sightings,  \* document_snapshot and the turn_log rows with a text
  events,     \* interaction_event rows of Applies
  deletion,   \* the deletion script
  clock,      \* of both the panes and the server
  count       \* what the bounds count

vars == <<word, posts, versions, sightings, events, deletion, clock, count>>

Original == <<"rest", "old">>
Texts    == {Original, <<"rest", "new">>, <<"rest", "reworded">>, <<"rest">>}
Fates    == {"none", "kept", "reverted", "altered"}

\* The edits a card can hold: a replacement, and a deletion that may be misquoted.
Edits == {[action |-> "replace", target |-> <<"old">>, new |-> <<"new">>],
          [action |-> "delete", target |-> <<"old">>, new |-> <<>>],
          [action |-> "delete", target |-> <<"misquoted">>, new |-> <<>>]}

ASSUME NoTextAssumption == NoText \notin Edits

Posts == [kind : {"capture", "turn", "apply"}, who : Attorneys, read : Nat, arrived : Nat,
          text : Texts, fate : Fates, edit : Edits \cup {NoText},
          next : {"arrive", "current", "original", "row"}]
Versions  == [text : Texts, owner : Attorneys]
Sightings == [kind : {"capture", "turn"}, who : Attorneys, text : Texts, fate : Fates, read : Nat, stamp : Nat, whole : BOOLEAN]
Events    == [who : Attorneys, edit : Edits, made : Nat, stamp : Nat, applied : BOOLEAN]

Scopes   == Attorneys \cup {"document"}
NoneGone == [versions |-> {}, sightings |-> {}, events |-> {}]
Idle     == [next |-> "idle", scope |-> "document", gone |-> NoneGone, found |-> NoneGone]

TypeOK ==
  /\ word \in [text : Texts, fate : Fates, edit : Edits \cup {NoText}]
  /\ posts \subseteq Posts
  /\ versions \subseteq Versions /\ \A v, w \in versions : v.text = w.text => v = w
  /\ sightings \subseteq Sightings /\ events \subseteq Events
  /\ deletion.next \in {"idle", "snapshots", "applied", "commit"} /\ deletion.scope \in Scopes
  /\ clock \in Nat
  /\ count \in [posts : Nat, fates : Nat, failures : Nat, deletions : Nat]

Init ==
  /\ word = [text |-> Original, fate |-> "none", edit |-> NoText]
  /\ posts = {} /\ versions = {} /\ sightings = {} /\ events = {}
  /\ deletion = Idle
  /\ clock = 0
  /\ count = [posts |-> 0, fates |-> 0, failures |-> 0, deletions |-> 0]

-----------------------------------------------------------------------------
(* Word and the panes *)

Tick == clock' = clock + 1

Sends(kind, a, edit) ==
  /\ count.posts < MaxPosts /\ Cardinality(posts) < MaxInFlight
  /\ posts' = posts \cup {[kind |-> kind, who |-> a, read |-> clock + 1, arrived |-> 0,
                           text |-> word'.text, fate |-> word'.fate,
                           edit |-> edit,
                           next |-> CASE kind = "turn" -> "arrive" [] kind = "capture" -> "current"
                                      [] kind = "apply" -> "row"]}
  /\ count' = [count EXCEPT !.posts = @ + 1]
  /\ Tick

\* The pane reads the document and posts a capture, or a turn that carries it.
PaneSends(a) ==
  /\ UNCHANGED word
  /\ \E kind \in {"capture", "turn"} : Sends(kind, a, NoText)
  /\ UNCHANGED <<versions, sightings, events, deletion>>

\* onApply of the card: Word tracks the change, then the event is sent.
Applies(a) ==
  /\ word.edit = NoText /\ word.text = Original
  /\ \E e \in Edits :
       /\ word' = [word EXCEPT !.text = <<"rest">> \o e.new, !.fate = "kept", !.edit = e]
       /\ Sends("apply", a, e)
  /\ UNCHANGED <<versions, sightings, events, deletion>>

\* The attorney rejects the tracked change, or writes something else there.
Settles ==
  /\ word.fate = "kept" /\ count.fates < MaxFates
  /\ \/ word' = [word EXCEPT !.text = Original, !.fate = "reverted"]
     \/ word' = [word EXCEPT !.text = <<"rest", "reworded">>, !.fate = "altered"]
  /\ count' = [count EXCEPT !.fates = @ + 1]
  /\ UNCHANGED <<posts, versions, sightings, events, deletion, clock>>

-----------------------------------------------------------------------------
(* The server *)

Moves(p, next) == posts' = (posts \ {p}) \cup {[p EXCEPT !.next = next]}

\* begin_turn stamps a turn as it arrives; a capture and an event take theirs
\* when their row is written.
TurnArrives(p) ==
  /\ p.next = "arrive"
  /\ posts' = (posts \ {p}) \cup {[p EXCEPT !.arrived = clock + 1, !.next = "row"]}
  /\ Tick
  /\ UNCHANGED <<word, versions, sightings, events, deletion, count>>

\* A row the deletion has marked blocks the insert of its key until it commits.
Unmarked(text) == \A v \in deletion.gone.versions : v.text # text

\* Mutant: every sender gets a row.
SavedAgain(text, a) == versions \cup {[text |-> text, owner |-> a]}

\* save_version: ON CONFLICT DO NOTHING keeps the first sender's row.
Saved(text, a) ==
  IF \E v \in versions : v.text = text THEN versions
  ELSE versions \cup {[text |-> text, owner |-> a]}

\* save_snapshot's first transaction.
StoresCurrent(p) ==
  /\ p.kind = "capture" /\ p.next = "current" /\ Unmarked(p.text)
  /\ versions' = Saved(p.text, p.who)
  /\ Moves(p, "original")
  /\ UNCHANGED <<word, sightings, events, deletion, clock, count>>

\* Mutant: the text behind the changes is not stored.
StoresOriginalNot(p) ==
  /\ p.kind = "capture" /\ p.next = "original" /\ Unmarked(Original)
  /\ Moves(p, "row")
  /\ UNCHANGED <<word, versions, sightings, events, deletion, clock, count>>

\* Its second, with the text behind the tracked changes: nobody accepts one here.
StoresOriginal(p) ==
  /\ p.kind = "capture" /\ p.next = "original" /\ Unmarked(Original)
  /\ versions' = Saved(Original, p.who)
  /\ Moves(p, "row")
  /\ UNCHANGED <<word, sightings, events, deletion, clock, count>>

SightingOf(p, stamp, whole) ==
  [kind |-> p.kind, who |-> p.who, text |-> p.text, fate |-> p.fate,
   read |-> p.read, stamp |-> stamp, whole |-> whole]

\* Its third: the row, stamped as it is written.
StoresCapture(p) ==
  /\ p.kind = "capture" /\ p.next = "row"
  /\ sightings' = sightings \cup {SightingOf(p, clock + 1, TRUE)}
  /\ posts' = posts \ {p} /\ Tick
  /\ UNCHANGED <<word, versions, events, deletion, count>>

\* _record_quietly after the answer: the row, then the text, which may be lost.
StoresTurn(p) ==
  /\ p.kind = "turn" /\ p.next = "row"
  /\ \/ /\ Unmarked(p.text)
        /\ sightings' = sightings \cup {SightingOf(p, p.arrived, TRUE)}
        /\ versions' = Saved(p.text, p.who)
        /\ UNCHANGED count
     \/ /\ count.failures < MaxFailures
        /\ count' = [count EXCEPT !.failures = @ + 1]
        /\ sightings' = sightings \cup {SightingOf(p, p.arrived, FALSE)}
        /\ UNCHANGED versions
  /\ posts' = posts \ {p}
  /\ UNCHANGED <<word, events, deletion, clock>>

\* record_events: the Apply's row with its text, stamped as it is written.
StoresApply(p) ==
  /\ p.kind = "apply" /\ p.next = "row"
  /\ events' = events \cup {[who |-> p.who, edit |-> p.edit, made |-> p.read,
                             stamp |-> clock + 1, applied |-> TRUE]}
  /\ posts' = posts \ {p} /\ Tick
  /\ UNCHANGED <<word, versions, sightings, deletion, count>>

\* The request or a transaction of it fails: what was committed stays, nobody is told.
PostFails(p) ==
  /\ count.failures < MaxFailures
  /\ count' = [count EXCEPT !.failures = @ + 1]
  /\ posts' = posts \ {p}
  /\ UNCHANGED <<word, versions, sightings, events, deletion, clock>>

-----------------------------------------------------------------------------
(* delete_document_data *)

InScope(scope, who) == scope \in {"document", who}

OwnCaptures(scope)  == {s \in sightings : s.kind = "capture" /\ InScope(scope, s.who)}
OwnApplied(scope)   == {e \in events : e.applied /\ InScope(scope, e.who)}

\* Mutant: the texts the attorney's captures show, whoever sent them first.
OwnVersionsShown(scope) ==
  {v \in versions : \E s \in OwnCaptures(scope) : v.text \in {s.text, Original}}

OwnVersions(scope)  == {v \in versions : InScope(scope, v.owner)}

\* The first DELETE; without --yes the script only counts and changes nothing.
DeletesVersions ==
  /\ deletion.next = "idle" /\ count.deletions < MaxDeletions
  /\ \E scope \in Scopes :
       deletion' = [next |-> "snapshots", scope |-> scope,
                    gone |-> [NoneGone EXCEPT !.versions = OwnVersions(scope)],
                    found |-> [versions |-> OwnVersions(scope),
                               sightings |-> OwnCaptures(scope), events |-> OwnApplied(scope)]]
  /\ count' = [count EXCEPT !.deletions = @ + 1]
  /\ UNCHANGED <<word, posts, versions, sightings, events, clock>>

DeletesSnapshots ==
  /\ deletion.next = "snapshots"
  /\ deletion' = [deletion EXCEPT !.next = "applied",
                                  !.gone.sightings = OwnCaptures(deletion.scope)]
  /\ UNCHANGED <<word, posts, versions, sightings, events, clock, count>>

ClearsApplied ==
  /\ deletion.next = "applied"
  /\ deletion' = [deletion EXCEPT !.next = "commit",
                                  !.gone.events = OwnApplied(deletion.scope)]
  /\ UNCHANGED <<word, posts, versions, sightings, events, clock, count>>

\* Mutant: the applied texts keep out of the deletion.
DeletionForgetsApplied ==
  /\ deletion.next = "commit"
  /\ versions' = versions \ deletion.gone.versions
  /\ sightings' = sightings \ deletion.gone.sightings
  /\ deletion' = Idle
  /\ UNCHANGED <<word, posts, events, clock, count>>

DeletionCommits ==
  /\ deletion.next = "commit"
  /\ versions' = versions \ deletion.gone.versions
  /\ sightings' = sightings \ deletion.gone.sightings
  /\ events' = (events \ deletion.gone.events)
                 \cup {[e EXCEPT !.applied = FALSE] : e \in deletion.gone.events}
  /\ deletion' = Idle
  /\ UNCHANGED <<word, posts, clock, count>>

\* A statement fails and the transaction is rolled back.
DeletionFails ==
  /\ deletion.next # "idle" /\ count.failures < MaxFailures
  /\ count' = [count EXCEPT !.failures = @ + 1]
  /\ deletion' = Idle
  /\ UNCHANGED <<word, posts, versions, sightings, events, clock>>

Next ==
  \/ \E a \in Attorneys : PaneSends(a) \/ Applies(a)
  \/ Settles
  \/ \E p \in posts : \/ TurnArrives(p)   \/ StoresCurrent(p) \/ StoresOriginal(p)
                      \/ StoresCapture(p) \/ StoresTurn(p)    \/ StoresApply(p)
                      \/ PostFails(p)
  \/ DeletesVersions \/ DeletesSnapshots \/ ClearsApplied \/ DeletionCommits \/ DeletionFails

Spec == Init /\ [][Next]_vars

-----------------------------------------------------------------------------
(* feedback_report --changes *)

IsStored(text) == \E v \in versions : v.text = text

\* The stored sightings, and the one of them with the latest stamp.
StoredSightings == {s \in sightings : IsStored(s.text)}
Latest(seen)    == CHOOSE s \in seen : \A o \in seen : o.stamp <= s.stamp

\* The last stored text strictly before an edit's stamp.
Earlier(e)  == {s \in StoredSightings : s.stamp < e.stamp}
Baseline(e) == IF Earlier(e) = {} THEN NoText ELSE Latest(Earlier(e)).text

\* Mutant: an edit is judged against the first stored text after it.
JudgedByTheNext(e) ==
  LET later == {s \in StoredSightings : s.stamp > e.stamp}
      next  == CHOOSE s \in later : \A o \in later : s.stamp <= o.stamp
  IN  IF later # {} THEN Verdict(e.edit, next.text, Baseline(e)) ELSE "no later capture"

\* What build_document_changes says of one edit whose text is still there.
Judged(e) ==
  IF \E s \in StoredSightings : s.stamp > e.stamp
  THEN Verdict(e.edit, Latest(StoredSightings).text, Baseline(e))
  ELSE "no later capture"

-----------------------------------------------------------------------------
(* Properties *)

\* A capture's row finds both its texts: none is written before both are
\* stored, and only a deletion takes them away afterwards (save_snapshot).
SightingsFindTheirTexts ==
  count.deletions = 0 =>
    \A s \in sightings : s.whole =>
      IsStored(s.text) /\ (s.kind = "capture" => IsStored(Original))

\* When the judging text was read after the Apply, and the text taken for the
\* one before it was read before it, the verdict is what the attorney did with
\* the edit.  A misquoted removal proves nothing, and a removal is kept as long
\* as the old wording stays gone, reworded or not (edit_verdict).
VerdictIsTheEditsFate ==
  \A e \in events :
    (/\ e.applied /\ Judged(e) # "no later capture"
     /\ Latest(StoredSightings).read > e.made
     /\ Earlier(e) # {} => Latest(Earlier(e)).read < e.made) =>
      \/ Judged(e) = Latest(StoredSightings).fate
      \/ e.edit.action = "delete"
           /\ \/ e.edit.target = <<"misquoted">>
              \/ Latest(StoredSightings).fate = "altered"

\* "Each edit is judged against the last stored text after it": a verdict
\* stands on a text that was read once the edit was in it (build_document_changes).
JudgedByALaterText ==
  \A e \in events :
    (e.applied /\ Judged(e) # "no later capture") => Latest(StoredSightings).read > e.made

\* A deletion that commits leaves nothing in its scope of what was committed
\* when it began (delete_document_data).
DeletionLeavesNothing ==
  [][deletion.next = "commit" /\ deletion' = Idle /\ count' = count
     => /\ versions' \cap deletion.found.versions = {}
        /\ sightings' \cap deletion.found.sightings = {}
        /\ events' \cap deletion.found.events = {}]_vars

\* A text leaves the store by a deletion of the document or of the attorney who
\* first sent it, and another's captures and applied texts stay (delete_document_data).
OnlyItsScopeIsDeleted ==
  [][/\ \A v \in versions \ versions' : deletion.scope \in {"document", v.owner} /\ deletion' = Idle
     /\ \A s \in sightings \ sightings' :
          s.kind = "capture" /\ deletion.scope \in {"document", s.who} /\ deletion' = Idle
     /\ \A e \in events \ events' :
          deletion.scope \in {"document", e.who} /\ [e EXCEPT !.applied = FALSE] \in events']_vars

=============================================================================
