------------------------- MODULE DocumentStoreProofs -------------------------
(***************************************************************************)
(* What holds of DocumentStore for every number of attorneys, posts and    *)
(* deletions: a capture's row finds its texts, a deletion takes all of its *)
(* scope and nothing else, whatever arrives while it runs, and a verdict   *)
(* on texts read on either side of an Apply is what became of the edit.    *)
(***************************************************************************)
EXTENDS DocumentStore, SequenceTheorems, TLAPS

-----------------------------------------------------------------------------
(* The invariant. *)

\* What the deletion script holds; without one it holds nothing.
Removals == [versions : SUBSET Versions, sightings : SUBSET Sightings, events : SUBSET Events]
DeletionFits ==
  /\ deletion \in [next : {"idle", "snapshots", "applied", "commit"}, scope : Scopes,
                   gone : Removals, found : Removals]
  /\ deletion.next = "idle" => deletion = Idle

\* The posts of a kind have what their handler reads.
PostsFit == \A p \in posts : /\ p.kind = "apply" => p.edit \in Edits
                             /\ p.next = "arrive" => p.kind = "turn"

\* What was there when the deletion began is still there, is in its scope, and is
\* marked by the statement whose turn it was.
MarkedIsInScope ==
  /\ \A v \in deletion.gone.versions : InScope(deletion.scope, v.owner)
  /\ deletion.gone.sightings \subseteq OwnCaptures(deletion.scope)
  /\ deletion.gone.events \subseteq OwnApplied(deletion.scope)

FoundIsMarked ==
  /\ deletion.found.versions = deletion.gone.versions
  /\ deletion.found.sightings \subseteq OwnCaptures(deletion.scope)
  /\ deletion.found.events \subseteq OwnApplied(deletion.scope)
  /\ deletion.next \in {"applied", "commit"} =>
       deletion.found.sightings \subseteq deletion.gone.sightings
  /\ deletion.next = "commit" => deletion.found.events \subseteq deletion.gone.events

\* A capture on its way has stored the texts its earlier transactions were for.
TextsGoFirst ==
  count.deletions = 0 =>
    /\ deletion.next = "idle"
    /\ \A p \in posts : p.kind = "capture" =>
         /\ p.next \in {"original", "row"} => IsStored(p.text)
         /\ p.next = "row" => IsStored(Original)

IInv ==
  /\ TypeOK /\ DeletionFits /\ PostsFit /\ MarkedIsInScope /\ FoundIsMarked
  /\ TextsGoFirst /\ SightingsFindTheirTexts

Counts == [posts : Nat, fates : Nat, failures : Nat, deletions : Nat]
Kinds  == {"capture", "turn", "apply"}

-----------------------------------------------------------------------------
(* The handlers' operators. *)

\* A post that moves on is the same post.
IsPostOf(q, p, next) ==
  q \in Posts /\ q.next = next /\ q.kind = p.kind /\ q.text = p.text /\ q.edit = p.edit

\* Moving a post to its next write changes nothing else of it.
LEMMA MovedPost ==
  ASSUME NEW p \in Posts, NEW next \in {"arrive", "current", "original", "row"}
  PROVE  IsPostOf([p EXCEPT !.next = next], p, next)
  BY DEF Posts, IsPostOf

\* Stamping a turn's arrival changes nothing else of it.
LEMMA ArrivedPost ==
  ASSUME NEW p \in Posts, NEW t \in Nat
  PROVE  IsPostOf([p EXCEPT !.arrived = t, !.next = "row"], p, "row")
  BY DEF Posts, IsPostOf

\* save_version keeps what is stored, stores the text, and has each text once.
LEMMA SavedTexts ==
  ASSUME versions \subseteq Versions, \A v, w \in versions : v.text = w.text => v = w,
         NEW text \in Texts, NEW a \in Attorneys
  PROVE  /\ Saved(text, a) \subseteq Versions /\ versions \subseteq Saved(text, a)
         /\ \A v, w \in Saved(text, a) : v.text = w.text => v = w
         /\ \E v \in Saved(text, a) : v.text = text
<1> DEFINE new == [text |-> text, owner |-> a]
<1>1. new \in Versions /\ new.text = text
  BY DEF Versions
<1>2. Saved(text, a) = IF \E v \in versions : v.text = text THEN versions ELSE versions \cup {new}
  BY DEF Saved
<1> HIDE DEF new
<1>3. CASE \E v \in versions : v.text = text
  BY <1>2, <1>3
<1>4. CASE ~\E v \in versions : v.text = text
  <2>1. Saved(text, a) = versions \cup {new}
    BY <1>2, <1>4
  <2> QED
    BY <1>1, <1>4, <2>1
<1> QED
  BY <1>3, <1>4

\* The row a post writes carries its kind and text.
LEMMA SightingOfAPost ==
  ASSUME NEW p \in Posts, p.kind \in {"capture", "turn"}, NEW stamp \in Nat, NEW whole \in BOOLEAN
  PROVE  /\ SightingOf(p, stamp, whole) \in Sightings
         /\ SightingOf(p, stamp, whole).kind = p.kind
         /\ SightingOf(p, stamp, whole).text = p.text
         /\ SightingOf(p, stamp, whole).whole = whole
  BY DEF SightingOf, Posts, Sightings

\* A post on its way has a kind of its own and starts at that kind's first step.
LEMMA WhatIsSent ==
  ASSUME TypeOK, NEW kind \in Kinds, NEW a \in Attorneys, NEW edit \in Edits \cup {NoText},
         word' \in [text : Texts, fate : Fates, edit : Edits \cup {NoText}],
         Sends(kind, a, edit)
  PROVE  /\ \E q \in Posts : /\ posts' = posts \cup {q} /\ q.kind = kind /\ q.edit = edit
                             /\ kind = "capture" => q.next = "current"
                             /\ q.next = "arrive" => kind = "turn"
         /\ clock' \in Nat /\ count' \in Counts /\ count'.deletions = count.deletions
<1> DEFINE q == [kind |-> kind, who |-> a, read |-> clock + 1, arrived |-> 0,
                 text |-> word'.text, fate |-> word'.fate, edit |-> edit,
                 next |-> CASE kind = "turn" -> "arrive" [] kind = "capture" -> "current"
                            [] kind = "apply" -> "row"]
<1>1. posts' = posts \cup {q} /\ count' = [count EXCEPT !.posts = @ + 1] /\ clock' = clock + 1
  BY DEF Sends, Tick
<1>2. clock \in Nat /\ count \in Counts
  BY DEF TypeOK, Counts
<1>3. /\ q \in Posts /\ q.kind = kind /\ q.edit = edit /\ (kind = "capture" => q.next = "current")
      /\ q.next = "arrive" => kind = "turn"
  <2>1. clock + 1 \in Nat /\ 0 \in Nat /\ word'.text \in Texts /\ word'.fate \in Fates
    BY <1>2
  <2>2. (CASE kind = "turn" -> "arrive" [] kind = "capture" -> "current" [] kind = "apply" -> "row")
          \in {"arrive", "current", "original", "row"}
    BY DEF Kinds
  <2>3. (kind = "capture" => q.next = "current") /\ (q.next = "arrive" => kind = "turn")
    BY DEF Kinds
  <2> QED
    BY <2>1, <2>2, <2>3 DEF Posts, Kinds
<1>4. count' \in Counts /\ count'.deletions = count.deletions
  BY <1>1, <1>2 DEF Counts
<1> HIDE DEF q
<1> QED
  BY <1>1, <1>2, <1>3, <1>4

\* A deletion that has not begun has marked and found nothing.
LEMMA NothingHeld == /\ Idle.next = "idle" /\ Idle.scope \in Scopes
                     /\ Idle.gone = NoneGone /\ Idle.found = NoneGone /\ NoneGone \in Removals
                     /\ NoneGone.versions = {} /\ NoneGone.sightings = {} /\ NoneGone.events = {}
  BY DEF Idle, NoneGone, Removals, Scopes

\* What the deletion holds keeps fitting while rows are only added.
LEMMA OnlyAdded ==
  ASSUME IInv, UNCHANGED deletion, sightings \subseteq sightings', events \subseteq events'
  PROVE  DeletionFits' /\ MarkedIsInScope' /\ FoundIsMarked'
<1>1. DeletionFits /\ MarkedIsInScope /\ FoundIsMarked
  BY DEF IInv
<1> QED
  BY <1>1 DEF DeletionFits, MarkedIsInScope, FoundIsMarked, OwnCaptures, OwnApplied

\* While nothing is deleted, stored texts stay: what the captures found, they find.
LEMMA TextsStay ==
  ASSUME IInv, UNCHANGED deletion, versions \subseteq versions', count'.deletions = count.deletions,
         \A p \in posts' \ posts : p.kind = "capture" => p.next \notin {"original", "row"},
         \A s \in sightings' \ sightings : ~s.whole
  PROVE  TextsGoFirst' /\ SightingsFindTheirTexts'
<1>1. TextsGoFirst /\ SightingsFindTheirTexts
  BY DEF IInv
<1>2. \A text : IsStored(text) => IsStored(text)'
  BY DEF IsStored
<1> QED
  BY <1>1, <1>2 DEF TextsGoFirst, SightingsFindTheirTexts

-----------------------------------------------------------------------------
(* One step of the panes and of the server. *)

\* A sequence of one line.
LEMMA SingletonSequence ==
  ASSUME NEW S, NEW e \in S
  PROVE  <<e>> \in Seq(S) /\ Len(<<e>>) = 1 /\ <<e>>[1] = e
  OBVIOUS

\* Two lines, one after the other.
LEMMA PairOfLines ==
  ASSUME NEW S, NEW a \in S, NEW b \in S
  PROVE  <<a>> \o <<b>> = <<a, b>>
<1> DEFINE s == <<a>> \o <<b>>
           t == <<a, b>>
<1>1. <<a>> \in Seq(S) /\ <<b>> \in Seq(S) /\ Len(<<a>>) = 1 /\ Len(<<b>>) = 1
        /\ <<a>>[1] = a /\ <<b>>[1] = b
  BY SingletonSequence
<1>2. s \in Seq(S) /\ Len(s) = 2 /\ s[1] = a /\ s[2] = b
  BY <1>1, ConcatProperties
<1>3. t \in Seq(S) /\ Len(t) = 2 /\ t[1] = a /\ t[2] = b
  OBVIOUS
<1> HIDE DEF s, t
<1>4. \A i \in 1 .. Len(s) : s[i] = t[i]
  BY <1>2, <1>3
<1>5. s = t
  BY <1>2, <1>3, <1>4, SeqEqual
<1> QED
  BY <1>5 DEF s, t

\* What an edit leaves of the original is one of the texts (onApply).
LEMMA EditsLeaveTexts ==
  ASSUME NEW e \in Edits
  PROVE  <<"rest">> \o e.new \in Texts
<1>1. CASE e.new = <<"new">>
  <2>1. "rest" \in {"rest", "new"} /\ "new" \in {"rest", "new"}
    OBVIOUS
  <2>2. <<"rest">> \o <<"new">> = <<"rest", "new">>
    BY <2>1, PairOfLines
  <2> QED
    BY <1>1, <2>2 DEF Texts
<1>2. CASE e.new = <<>>
  <2>1. <<"rest">> \in Seq({"rest"})
    BY SingletonSequence
  <2>2. <<"rest">> \o <<>> = <<"rest">>
    BY <2>1, ConcatEmptySeq
  <2> QED
    BY <1>2, <2>2 DEF Texts
<1> QED
  BY <1>1, <1>2 DEF Edits

\* What a pane sends preserves the invariant.
LEMMA PaneStep ==
  ASSUME IInv, NEW a \in Attorneys, PaneSends(a) \/ Applies(a)
  PROVE  IInv'
<1>0. TypeOK /\ PostsFit
  BY DEF IInv
<1>1. /\ word' \in [text : Texts, fate : Fates, edit : Edits \cup {NoText}]
      /\ \E kind \in Kinds, edit \in Edits \cup {NoText} :
           Sends(kind, a, edit) /\ (kind = "apply" => edit \in Edits)
  <2>1. CASE PaneSends(a)
    <3>1. word' = word /\ \E kind \in {"capture", "turn"} : Sends(kind, a, NoText)
      BY <2>1 DEF PaneSends
    <3> QED
      BY <1>0, <3>1 DEF TypeOK, Kinds
  <2>2. CASE Applies(a)
    <3>1. PICK e \in Edits :
            /\ word' = [word EXCEPT !.text = <<"rest">> \o e.new, !.fate = "kept", !.edit = e]
            /\ Sends("apply", a, e)
      BY <2>2 DEF Applies
    <3>2. word' \in [text : Texts, fate : Fates, edit : Edits \cup {NoText}]
      <4> DEFINE t == <<"rest">> \o e.new
      <4>1. t \in Texts
        BY EditsLeaveTexts
      <4>2. word' = [word EXCEPT !.text = t, !.fate = "kept", !.edit = e]
        BY <3>1
      <4> HIDE DEF t
      <4> QED
        BY <1>0, <4>1, <4>2 DEF TypeOK, Fates
    <3> QED
      BY <3>1, <3>2 DEF Kinds
  <2> QED
    BY <2>1, <2>2
<1>2. PICK q \in Posts :
        /\ posts' = posts \cup {q}
        /\ q.kind = "apply" => q.edit \in Edits
        /\ q.kind = "capture" => q.next = "current"
        /\ q.next = "arrive" => q.kind = "turn"
        /\ clock' \in Nat /\ count' \in Counts /\ count'.deletions = count.deletions
  BY <1>0, <1>1, WhatIsSent
<1>3. UNCHANGED <<versions, sightings, events, deletion>>
  BY DEF PaneSends, Applies
<1>4. TypeOK' /\ PostsFit'
  BY <1>0, <1>1, <1>2, <1>3 DEF TypeOK, PostsFit, Counts
<1> QED
  BY <1>2, <1>3, <1>4, OnlyAdded, TextsStay DEF IInv

\* A decision on an edit preserves the invariant.
LEMMA SettleStep ==
  ASSUME IInv, Settles
  PROVE  IInv'
<1>0. TypeOK /\ PostsFit
  BY DEF IInv
<1>1. word' \in [text : Texts, fate : Fates, edit : Edits \cup {NoText}]
  <2> DEFINE r == <<"rest", "reworded">>
  <2>1. Original \in Texts /\ r \in Texts
    BY DEF Texts
  <2>2. \/ word' = [word EXCEPT !.text = Original, !.fate = "reverted"]
        \/ word' = [word EXCEPT !.text = r, !.fate = "altered"]
    BY DEF Settles
  <2> HIDE DEF r
  <2> QED
    BY <1>0, <2>1, <2>2 DEF TypeOK, Fates
<1>2. /\ count' \in Counts /\ count'.deletions = count.deletions
      /\ UNCHANGED <<posts, versions, sightings, events, deletion, clock>>
  BY <1>0 DEF Settles, TypeOK, Counts
<1>3. TypeOK' /\ PostsFit'
  BY <1>0, <1>1, <1>2 DEF TypeOK, PostsFit, Counts
<1> QED
  BY <1>2, <1>3, OnlyAdded, TextsStay DEF IInv

\* Each write of the server, or its failure, preserves the invariant.
LEMMA ServerStep ==
  ASSUME IInv, NEW p \in posts,
         \/ TurnArrives(p)   \/ StoresCurrent(p) \/ StoresOriginal(p)
         \/ StoresCapture(p) \/ StoresTurn(p)    \/ StoresApply(p)    \/ PostFails(p)
  PROVE  IInv'
<1>0. /\ TypeOK /\ PostsFit /\ TextsGoFirst /\ SightingsFindTheirTexts
      /\ p \in Posts /\ posts \subseteq Posts /\ p.text \in Texts /\ p.who \in Attorneys
      /\ p.arrived \in Nat /\ clock \in Nat /\ count \in Counts
      /\ versions \subseteq Versions /\ \A v, w \in versions : v.text = w.text => v = w
      /\ sightings \subseteq Sightings /\ events \subseteq Events
  BY DEF IInv, TypeOK, Counts, Posts
<1>1. CASE TurnArrives(p) \/ PostFails(p)
  <2>1. /\ UNCHANGED <<word, versions, sightings, events, deletion>>
        /\ clock' \in Nat /\ count' \in Counts /\ count'.deletions = count.deletions
        /\ posts' \subseteq Posts
        /\ \A q \in posts' \ posts : \E r \in posts : r.kind = q.kind /\ r.edit = q.edit
        /\ \A q \in posts' \ posts : q.next = "row" /\ q.kind = p.kind /\ p.next = "arrive" /\ q.text = p.text
    <3>1. CASE TurnArrives(p)
      <4> DEFINE q == [p EXCEPT !.arrived = clock + 1, !.next = "row"]
      <4>1. q \in Posts /\ q.next = "row" /\ q.kind = p.kind /\ q.text = p.text /\ q.edit = p.edit
        <5>1. clock + 1 \in Nat
          BY <1>0
        <5>2. IsPostOf(q, p, "row")
          BY <1>0, <5>1, ArrivedPost
        <5> QED
          BY <5>2 DEF IsPostOf
      <4>2. /\ UNCHANGED <<word, versions, sightings, events, deletion, count>>
            /\ posts' = (posts \ {p}) \cup {q} /\ clock' = clock + 1 /\ p.next = "arrive"
        BY <3>1 DEF TurnArrives, Tick
      <4> HIDE DEF q
      <4> QED
        BY <1>0, <4>1, <4>2
    <3>2. CASE PostFails(p)
      BY <1>0, <3>2 DEF PostFails, Counts
    <3> QED
      BY <1>1, <3>1, <3>2
  <2>2. TypeOK' /\ PostsFit'
    BY <1>0, <2>1 DEF TypeOK, PostsFit, Counts
  <2>3. \A q \in posts' \ posts : q.kind # "capture"
    BY <1>0, <2>1 DEF PostsFit
  <2> QED
    BY <2>1, <2>2, <2>3, OnlyAdded, TextsStay DEF IInv
<1>2. CASE StoresCurrent(p) \/ StoresOriginal(p)
  <2> DEFINE text == IF p.next = "current" THEN p.text ELSE Original
             next == IF p.next = "current" THEN "original" ELSE "row"
             q    == [p EXCEPT !.next = next]
  <2>1. /\ p.kind = "capture" /\ p.next \in {"current", "original"}
        /\ versions' = Saved(text, p.who) /\ posts' = (posts \ {p}) \cup {q}
        /\ UNCHANGED <<word, sightings, events, deletion, clock, count>>
    BY <1>2 DEF StoresCurrent, StoresOriginal, Moves
  <2>2. next \in {"arrive", "current", "original", "row"} /\ text \in Texts /\ 0 \in Nat
    BY <1>0 DEF Texts
  <2>3. q \in Posts /\ q.next = next /\ q.kind = p.kind /\ q.text = p.text /\ q.edit = p.edit
    <3>1. IsPostOf(q, p, next)
      BY <1>0, <2>2, MovedPost
    <3> QED
      BY <3>1 DEF IsPostOf
  <2>4. /\ versions' \subseteq Versions /\ versions \subseteq versions'
        /\ \A v, w \in versions' : v.text = w.text => v = w
        /\ \E v \in versions' : v.text = text
    BY <1>0, <2>1, <2>2, SavedTexts
  <2>5. TypeOK' /\ PostsFit'
    <3>1. next # "arrive"
      OBVIOUS
    <3> HIDE DEF q, text, next
    <3> QED
      BY <1>0, <2>1, <2>3, <2>4, <3>1 DEF TypeOK, PostsFit
  <2>6. TextsGoFirst' /\ SightingsFindTheirTexts'
    <3>1. \A t : IsStored(t) => IsStored(t)'
      BY <2>4 DEF IsStored
    <3>2. IsStored(text)'
      BY <2>4 DEF IsStored
    <3>3. /\ p.next = "current" => next = "original" /\ text = p.text
          /\ p.next = "original" => next = "row" /\ text = Original
      OBVIOUS
    <3> HIDE DEF q, text, next
    <3>4. SightingsFindTheirTexts'
      BY <1>0, <2>1, <3>1 DEF SightingsFindTheirTexts
    <3>5. ASSUME count.deletions = 0, NEW r \in posts', r.kind = "capture"
          PROVE  /\ r.next \in {"original", "row"} => IsStored(r.text)'
                 /\ r.next = "row" => IsStored(Original)'
      <4>1. CASE r \in posts
        BY <1>0, <3>1, <3>5, <4>1 DEF TextsGoFirst
      <4>2. CASE r = q
        BY <1>0, <2>1, <2>3, <3>1, <3>2, <3>3, <3>5, <4>2 DEF TextsGoFirst
      <4> QED
        BY <2>1, <4>1, <4>2
    <3> QED
      BY <1>0, <2>1, <3>4, <3>5 DEF TextsGoFirst
  <2> HIDE DEF q, text, next
  <2> QED
    BY <2>1, <2>5, <2>6, OnlyAdded DEF IInv
<1>3. CASE StoresCapture(p) \/ StoresApply(p)
  <2>1. /\ posts' = posts \ {p} /\ clock' = clock + 1
        /\ UNCHANGED <<word, versions, deletion, count>>
    BY <1>3 DEF StoresCapture, StoresApply, Tick
  <2>2. CASE StoresCapture(p)
    <3>1. p.kind = "capture" /\ p.next = "row" /\ UNCHANGED events
            /\ sightings' = sightings \cup {SightingOf(p, clock + 1, TRUE)}
      BY <2>2 DEF StoresCapture
    <3> DEFINE s == SightingOf(p, clock + 1, TRUE)
    <3>2. s \in Sightings /\ s.kind = "capture" /\ s.text = p.text
      <4>1. clock + 1 \in Nat /\ TRUE \in BOOLEAN
        BY <1>0
      <4> QED
        BY <1>0, <3>1, <4>1, SightingOfAPost
    <3>3. TypeOK' /\ PostsFit'
      <4>1. sightings' = sightings \cup {s}
        BY <3>1
      <4> HIDE DEF s
      <4>2. sightings' \subseteq Sightings
        BY <1>0, <3>2, <4>1
      <4>3. clock' \in Nat /\ posts' \subseteq posts
        BY <1>0, <2>1
      <4> QED
        BY <1>0, <2>1, <3>1, <4>2, <4>3 DEF TypeOK, PostsFit
    <3>4. TextsGoFirst'
      BY <1>0, <2>1 DEF TextsGoFirst, IsStored
    <3>5. SightingsFindTheirTexts'
      <4>1. count.deletions = 0 => IsStored(p.text) /\ IsStored(Original)
        BY <1>0, <3>1 DEF TextsGoFirst
      <4> HIDE DEF s
      <4>2. sightings' = sightings \cup {s}
        BY <3>1 DEF s
      <4> QED
        BY <1>0, <2>1, <3>2, <4>1, <4>2 DEF SightingsFindTheirTexts, IsStored
    <3> QED
      BY <2>1, <3>1, <3>3, <3>4, <3>5, OnlyAdded DEF IInv
  <2>3. CASE StoresApply(p)
    <3> DEFINE e == [who |-> p.who, edit |-> p.edit, made |-> p.read, stamp |-> clock + 1,
                     applied |-> TRUE]
    <3>1. p.kind = "apply" /\ UNCHANGED sightings /\ events' = events \cup {e}
      BY <2>3 DEF StoresApply
    <3>2. e \in Events
      BY <1>0, <3>1 DEF Events, PostsFit, Posts
    <3>3. TypeOK' /\ PostsFit'
      <4> HIDE DEF e
      <4> QED
        BY <1>0, <2>1, <3>1, <3>2 DEF TypeOK, PostsFit
    <3>4. TextsGoFirst' /\ SightingsFindTheirTexts'
      BY <2>1, <3>1, TextsStay
    <3> HIDE DEF e
    <3> QED
      BY <2>1, <3>1, <3>3, <3>4, OnlyAdded DEF IInv
  <2> QED
    BY <1>3, <2>2, <2>3
<1>4. CASE StoresTurn(p)
  <2>1. /\ p.kind = "turn" /\ posts' = posts \ {p} /\ UNCHANGED <<word, events, deletion, clock>>
        /\ \/ /\ sightings' = sightings \cup {SightingOf(p, p.arrived, TRUE)}
              /\ versions' = Saved(p.text, p.who) /\ count' = count
           \/ /\ sightings' = sightings \cup {SightingOf(p, p.arrived, FALSE)}
              /\ versions' = versions /\ count' = [count EXCEPT !.failures = @ + 1]
    BY <1>4 DEF StoresTurn
  <2>2. PICK whole \in BOOLEAN :
          /\ sightings' = sightings \cup {SightingOf(p, p.arrived, whole)}
          /\ versions \subseteq versions' /\ versions' \subseteq Versions
          /\ \A v, w \in versions' : v.text = w.text => v = w
          /\ whole => \E v \in versions' : v.text = p.text
          /\ count' \in Counts /\ count'.deletions = count.deletions
    <3>1. [count EXCEPT !.failures = @ + 1] \in Counts
            /\ [count EXCEPT !.failures = @ + 1].deletions = count.deletions
      BY <1>0 DEF Counts
    <3>2. /\ Saved(p.text, p.who) \subseteq Versions /\ versions \subseteq Saved(p.text, p.who)
          /\ \A v, w \in Saved(p.text, p.who) : v.text = w.text => v = w
          /\ \E v \in Saved(p.text, p.who) : v.text = p.text
      BY <1>0, SavedTexts
    <3> QED
      BY <1>0, <2>1, <3>1, <3>2
  <2> DEFINE s == SightingOf(p, p.arrived, whole)
  <2>3. s \in Sightings /\ s.kind = "turn" /\ s.text = p.text /\ s.whole = whole
    BY <1>0, <2>1, SightingOfAPost
  <2>4. TypeOK' /\ PostsFit'
    BY <1>0, <2>1, <2>2, <2>3 DEF TypeOK, PostsFit, Counts
  <2>5. \A t : IsStored(t) => IsStored(t)'
    BY <2>2 DEF IsStored
  <2>6. TextsGoFirst'
    BY <1>0, <2>1, <2>2, <2>5 DEF TextsGoFirst
  <2>7. SightingsFindTheirTexts'
    <3> HIDE DEF s
    <3>1. sightings' = sightings \cup {s}
      BY <2>2 DEF s
    <3>2. whole => IsStored(p.text)'
      BY <2>2 DEF IsStored
    <3> QED
      BY <1>0, <2>2, <2>3, <2>5, <3>1, <3>2 DEF SightingsFindTheirTexts
  <2> QED
    BY <2>1, <2>2, <2>4, <2>6, <2>7, OnlyAdded DEF IInv
<1> QED
  BY <1>1, <1>2, <1>3, <1>4

-----------------------------------------------------------------------------
(* One step of the deletion script. *)

\* Each statement of a deletion, its commit and its failure preserve the invariant.
LEMMA DeletionStep ==
  ASSUME IInv, DeletesVersions \/ DeletesSnapshots \/ ClearsApplied \/ DeletionCommits \/ DeletionFails
  PROVE  IInv'
<1>0. /\ TypeOK /\ PostsFit /\ DeletionFits /\ MarkedIsInScope /\ FoundIsMarked
      /\ TextsGoFirst /\ SightingsFindTheirTexts
      /\ count \in Counts /\ deletion.scope \in Scopes
      /\ deletion.gone \in Removals /\ deletion.found \in Removals
      /\ DOMAIN deletion = {"next", "scope", "gone", "found"}
      /\ DOMAIN deletion.gone = {"versions", "sightings", "events"}
      /\ versions \subseteq Versions /\ sightings \subseteq Sightings /\ events \subseteq Events
  BY DEF IInv, TypeOK, Counts, DeletionFits, Removals
<1>1. CASE DeletesVersions
  <2>1. PICK scope \in Scopes :
          deletion' = [next |-> "snapshots", scope |-> scope,
                       gone |-> [NoneGone EXCEPT !.versions = OwnVersions(scope)],
                       found |-> [versions |-> OwnVersions(scope),
                                  sightings |-> OwnCaptures(scope), events |-> OwnApplied(scope)]]
    BY <1>1 DEF DeletesVersions
  <2>2. /\ count'.deletions = count.deletions + 1 /\ count' \in Counts
        /\ deletion.next = "idle" /\ UNCHANGED <<word, posts, versions, sightings, events, clock>>
    BY <1>0, <1>1 DEF DeletesVersions, Counts
  <2>3. /\ deletion'.next = "snapshots" /\ deletion'.scope = scope
        /\ deletion'.gone = [versions |-> OwnVersions(scope), sightings |-> {}, events |-> {}]
        /\ deletion'.found = [versions |-> OwnVersions(scope), sightings |-> OwnCaptures(scope),
                              events |-> OwnApplied(scope)]
    BY <2>1 DEF NoneGone
  <2>4. /\ OwnVersions(scope) \subseteq Versions /\ OwnCaptures(scope) \subseteq Sightings
        /\ OwnApplied(scope) \subseteq Events
    BY <1>0 DEF OwnVersions, OwnCaptures, OwnApplied
  <2>5. DeletionFits'
    <3>1. deletion'.gone \in Removals /\ deletion'.found \in Removals
      BY <2>3, <2>4 DEF Removals
    <3> QED
      BY <2>1, <2>3, <3>1 DEF DeletionFits
  <2>6. MarkedIsInScope' /\ FoundIsMarked'
    BY <2>2, <2>3 DEF MarkedIsInScope, FoundIsMarked, OwnCaptures, OwnApplied, OwnVersions
  <2>7. count'.deletions # 0
    BY <1>0, <2>2 DEF Counts
  <2>8. TypeOK' /\ PostsFit' /\ TextsGoFirst' /\ SightingsFindTheirTexts'
    BY <1>0, <2>2, <2>3, <2>7 DEF TypeOK, PostsFit, TextsGoFirst, SightingsFindTheirTexts, Counts
  <2> QED
    BY <2>5, <2>6, <2>8 DEF IInv
<1>2. CASE DeletesSnapshots \/ ClearsApplied
  <2>1. /\ UNCHANGED <<word, posts, versions, sightings, events, clock, count>>
        /\ deletion.next \in {"snapshots", "applied"}
        /\ deletion'.next = IF deletion.next = "snapshots" THEN "applied" ELSE "commit"
        /\ deletion'.scope = deletion.scope /\ deletion'.found = deletion.found
        /\ deletion'.gone =
             IF deletion.next = "snapshots"
             THEN [deletion.gone EXCEPT !.sightings = OwnCaptures(deletion.scope)]
             ELSE [deletion.gone EXCEPT !.events = OwnApplied(deletion.scope)]
        /\ deletion' = [next |-> deletion'.next, scope |-> deletion.scope,
                        gone |-> deletion'.gone, found |-> deletion.found]
    BY <1>0, <1>2 DEF DeletesSnapshots, ClearsApplied, DeletionFits
  <2>2. /\ deletion'.gone \in Removals
        /\ deletion'.gone.versions = deletion.gone.versions
        /\ deletion.next = "snapshots" => /\ deletion'.gone.sightings = OwnCaptures(deletion.scope)
                                          /\ deletion'.gone.events = deletion.gone.events
        /\ deletion.next = "applied" => /\ deletion'.gone.sightings = deletion.gone.sightings
                                        /\ deletion'.gone.events = OwnApplied(deletion.scope)
    <3>1. OwnCaptures(deletion.scope) \subseteq Sightings /\ OwnApplied(deletion.scope) \subseteq Events
      BY <1>0 DEF OwnCaptures, OwnApplied
    <3> DEFINE c == OwnCaptures(deletion.scope)
               a == OwnApplied(deletion.scope)
    <3>2. c \in SUBSET Sightings /\ a \in SUBSET Events
      BY <3>1
    <3>3. deletion'.gone = IF deletion.next = "snapshots"
                           THEN [deletion.gone EXCEPT !.sightings = c]
                           ELSE [deletion.gone EXCEPT !.events = a]
      BY <2>1
    <3> HIDE DEF c, a
    <3>4. /\ deletion'.gone \in Removals
          /\ deletion'.gone.versions = deletion.gone.versions
          /\ deletion.next = "snapshots" => /\ deletion'.gone.sightings = c
                                            /\ deletion'.gone.events = deletion.gone.events
          /\ deletion.next = "applied" => /\ deletion'.gone.sightings = deletion.gone.sightings
                                          /\ deletion'.gone.events = a
      BY <1>0, <3>2, <3>3, <2>1 DEF Removals
    <3> QED
      BY <3>4 DEF c, a
  <2>3. DeletionFits'
    BY <1>0, <2>1, <2>2 DEF DeletionFits
  <2>4. OwnCaptures(deletion.scope)' = OwnCaptures(deletion.scope)
          /\ OwnApplied(deletion.scope)' = OwnApplied(deletion.scope)
    BY <2>1 DEF OwnCaptures, OwnApplied
  <2>5. MarkedIsInScope' /\ FoundIsMarked'
    BY <1>0, <2>1, <2>2, <2>4 DEF MarkedIsInScope, FoundIsMarked
  <2>6. TypeOK' /\ PostsFit' /\ TextsGoFirst' /\ SightingsFindTheirTexts'
    BY <1>0, <2>1 DEF TypeOK, PostsFit, TextsGoFirst, SightingsFindTheirTexts, IsStored
  <2> QED
    BY <2>3, <2>5, <2>6 DEF IInv
<1>3. CASE DeletionCommits
  <2>1. /\ versions' = versions \ deletion.gone.versions
        /\ sightings' = sightings \ deletion.gone.sightings
        /\ events' = (events \ deletion.gone.events)
                       \cup {[e EXCEPT !.applied = FALSE] : e \in deletion.gone.events}
        /\ deletion' = Idle /\ deletion.next = "commit"
        /\ UNCHANGED <<word, posts, clock, count>>
    BY <1>3 DEF DeletionCommits
  <2>2. \A e \in deletion.gone.events : [e EXCEPT !.applied = FALSE] \in Events
    BY <1>0 DEF Removals, Events
  <2>3. DeletionFits' /\ MarkedIsInScope' /\ FoundIsMarked'
    BY <2>1, NothingHeld DEF DeletionFits, MarkedIsInScope, FoundIsMarked, Idle
  <2>4. TypeOK' /\ PostsFit'
    BY <1>0, <2>1, <2>2, NothingHeld DEF TypeOK, PostsFit
  <2>5. count.deletions # 0
    BY <1>0, <2>1 DEF TextsGoFirst
  <2> QED
    BY <2>1, <2>3, <2>4, <2>5 DEF IInv, TextsGoFirst, SightingsFindTheirTexts
<1>4. CASE DeletionFails
  <2>1. /\ deletion' = Idle /\ deletion.next # "idle" /\ count'.deletions = count.deletions
        /\ count' \in Counts /\ UNCHANGED <<word, posts, versions, sightings, events, clock>>
    BY <1>0, <1>4 DEF DeletionFails, Counts
  <2>2. DeletionFits' /\ MarkedIsInScope' /\ FoundIsMarked'
    BY <2>1, NothingHeld DEF DeletionFits, MarkedIsInScope, FoundIsMarked, Idle
  <2>3. TypeOK' /\ PostsFit'
    BY <1>0, <2>1, NothingHeld DEF TypeOK, PostsFit, Counts
  <2>4. count.deletions # 0
    BY <1>0, <2>1 DEF TextsGoFirst
  <2> QED
    BY <2>1, <2>2, <2>3, <2>4 DEF IInv, TextsGoFirst, SightingsFindTheirTexts
<1> QED
  BY <1>1, <1>2, <1>3, <1>4

-----------------------------------------------------------------------------
(* The theorems. *)

\* The initial state satisfies the invariant.
LEMMA InitIInv == Init => IInv
<1> SUFFICES ASSUME Init
             PROVE  IInv
  OBVIOUS
<1>1. /\ word = [text |-> Original, fate |-> "none", edit |-> NoText] /\ deletion = Idle /\ clock = 0
      /\ posts = {} /\ versions = {} /\ sightings = {} /\ events = {}
      /\ count = [posts |-> 0, fates |-> 0, failures |-> 0, deletions |-> 0]
  BY DEF Init
<1>2. TypeOK
  <2>1. word \in [text : Texts, fate : Fates, edit : Edits \cup {NoText}]
    <3>1. Original \in Texts /\ "none" \in Fates /\ NoText \in Edits \cup {NoText}
      BY DEF Texts, Fates
    <3> QED
      BY <1>1, <3>1
  <2> QED
    BY <1>1, <2>1, NothingHeld DEF TypeOK
<1>3. DeletionFits /\ MarkedIsInScope /\ FoundIsMarked
  BY <1>1, NothingHeld DEF DeletionFits, MarkedIsInScope, FoundIsMarked, Idle
<1> QED
  BY <1>1, <1>2, <1>3, NothingHeld DEF IInv, PostsFit, TextsGoFirst, SightingsFindTheirTexts

\* Every step preserves the invariant.
LEMMA NextStep ==
  ASSUME IInv, [Next]_vars
  PROVE  IInv'
<1>1. CASE \E a \in Attorneys : PaneSends(a) \/ Applies(a)
  BY <1>1, PaneStep
<1>2. CASE Settles
  BY <1>2, SettleStep
<1>3. CASE \E p \in posts : \/ TurnArrives(p)   \/ StoresCurrent(p) \/ StoresOriginal(p)
                            \/ StoresCapture(p) \/ StoresTurn(p)    \/ StoresApply(p)
                            \/ PostFails(p)
  BY <1>3, ServerStep
<1>4. CASE DeletesVersions \/ DeletesSnapshots \/ ClearsApplied \/ DeletionCommits \/ DeletionFails
  BY <1>4, DeletionStep
<1>5. CASE UNCHANGED vars
  BY <1>5 DEF vars, IInv, TypeOK, DeletionFits, PostsFit, MarkedIsInScope, FoundIsMarked,
              TextsGoFirst, SightingsFindTheirTexts, OwnCaptures, OwnApplied, IsStored
<1> QED
  BY <1>1, <1>2, <1>3, <1>4, <1>5 DEF Next

\* The copies the backend keeps are typed and each text is stored once, whoever sends
\* it how often and whatever fails or is deleted (save_version).
THEOREM TypeCorrect == Spec => []TypeOK
<1>1. IInv /\ [Next]_vars => IInv'
  BY NextStep
<1>2. IInv => TypeOK
  BY DEF IInv
<1> QED
  BY <1>1, <1>2, InitIInv, PTL DEF Spec

\* The inductive invariant, for the deletion's theorems below.
THEOREM Invariance == Spec => []IInv
<1>1. IInv /\ [Next]_vars => IInv'
  BY NextStep
<1> QED
  BY <1>1, InitIInv, PTL DEF Spec

\* Until something is deleted, each row of a capture finds both its texts and each
\* turn whose write went through the text it was asked on (save_snapshot).
THEOREM TextsAreFound == Spec => []SightingsFindTheirTexts
<1>1. IInv => SightingsFindTheirTexts
  BY DEF IInv
<1> QED
  BY <1>1, Invariance, PTL

\* A deletion that commits has left nothing in its scope of what was committed when it
\* began, whatever was sent and stored between its statements (delete_document_data).
THEOREM DeletionIsComplete == Spec => DeletionLeavesNothing
<1> DEFINE NothingLeft ==
             deletion.next = "commit" /\ deletion' = Idle /\ count' = count
               => /\ versions' \cap deletion.found.versions = {}
                  /\ sightings' \cap deletion.found.sightings = {}
                  /\ events' \cap deletion.found.events = {}
<1>1. ASSUME IInv, [Next]_vars, deletion.next = "commit", deletion' = Idle, count' = count
      PROVE  /\ versions' \cap deletion.found.versions = {}
             /\ sightings' \cap deletion.found.sightings = {}
             /\ events' \cap deletion.found.events = {}
  <2>0. FoundIsMarked /\ TypeOK
    BY <1>1 DEF IInv
  <2>1. deletion' # deletion /\ count.failures + 1 # count.failures
    BY <1>1, <2>0, NothingHeld DEF TypeOK
  <2>2. ~DeletionFails
    <3>1. DOMAIN count = {"posts", "fates", "failures", "deletions"}
      BY <2>0 DEF TypeOK
    <3>2. DeletionFails => count'.failures = count.failures + 1
      BY <3>1 DEF DeletionFails
    <3> QED
      BY <1>1, <2>1, <3>2
  <2>3. DeletionCommits
    <3>1. ~(\E a \in Attorneys : PaneSends(a) \/ Applies(a)) /\ ~Settles /\ ~(vars' = vars)
      BY <2>1 DEF PaneSends, Applies, Settles, vars
    <3>2. ~(\E p \in posts : \/ TurnArrives(p)   \/ StoresCurrent(p) \/ StoresOriginal(p)
                             \/ StoresCapture(p) \/ StoresTurn(p)    \/ StoresApply(p)
                             \/ PostFails(p))
      BY <2>1 DEF TurnArrives, StoresCurrent, StoresOriginal, StoresCapture, StoresTurn, StoresApply,
                  PostFails
    <3>3. ~DeletesVersions /\ ~DeletesSnapshots /\ ~ClearsApplied
      BY <1>1 DEF DeletesVersions, DeletesSnapshots, ClearsApplied
    <3> QED
      BY <1>1, <2>2, <3>1, <3>2, <3>3 DEF Next
  <2>4. /\ versions' = versions \ deletion.gone.versions
        /\ sightings' = sightings \ deletion.gone.sightings
        /\ events' = (events \ deletion.gone.events)
                       \cup {[e EXCEPT !.applied = FALSE] : e \in deletion.gone.events}
    BY <2>3 DEF DeletionCommits
  <2>5. \A e \in deletion.found.events : e.applied = TRUE
    BY <2>0 DEF FoundIsMarked, OwnApplied, TypeOK, Events
  <2>6. \A e \in deletion.gone.events : [e EXCEPT !.applied = FALSE].applied = FALSE
    BY <1>1 DEF IInv, DeletionFits, Removals, Events
  <2>7. /\ deletion.found.versions \subseteq deletion.gone.versions
        /\ deletion.found.sightings \subseteq deletion.gone.sightings
        /\ deletion.found.events \subseteq deletion.gone.events
    BY <1>1, <2>0 DEF FoundIsMarked
  <2>8. ASSUME NEW e \in events', e \in deletion.found.events
        PROVE  FALSE
    <3>1. PICK d \in deletion.gone.events : e = [d EXCEPT !.applied = FALSE]
      BY <2>4, <2>7, <2>8
    <3> QED
      BY <2>5, <2>6, <2>8, <3>1
  <2> QED
    BY <2>4, <2>7, <2>8
<1>2. IInv /\ [Next]_vars => [NothingLeft]_vars
  BY <1>1
<1> QED
  BY <1>2, Invariance, PTL DEF Spec, DeletionLeavesNothing

\* And nothing outside it: a text goes with the document or with the attorney who first
\* sent it, a capture with its attorney, and an Apply's row stays without its text.
THEOREM DeletionIsScoped == Spec => OnlyItsScopeIsDeleted
<1> DEFINE OnlyInScope ==
             /\ \A v \in versions \ versions' : deletion.scope \in {"document", v.owner} /\ deletion' = Idle
             /\ \A s \in sightings \ sightings' :
                  s.kind = "capture" /\ deletion.scope \in {"document", s.who} /\ deletion' = Idle
             /\ \A e \in events \ events' :
                  deletion.scope \in {"document", e.who} /\ [e EXCEPT !.applied = FALSE] \in events'
<1>1. ASSUME IInv, [Next]_vars
      PROVE  OnlyInScope
  <2>0. MarkedIsInScope /\ TypeOK
    BY <1>1 DEF IInv
  <2>1. CASE DeletionCommits
    <3>1. /\ versions' = versions \ deletion.gone.versions
          /\ sightings' = sightings \ deletion.gone.sightings
          /\ events' = (events \ deletion.gone.events)
                         \cup {[e EXCEPT !.applied = FALSE] : e \in deletion.gone.events}
          /\ deletion' = Idle
      BY <2>1 DEF DeletionCommits
    <3> QED
      BY <2>0, <3>1 DEF MarkedIsInScope, InScope, OwnCaptures, OwnApplied
  <2>2. CASE ~DeletionCommits
    <3>1. versions \subseteq versions' /\ sightings \subseteq sightings' /\ events \subseteq events'
      BY <1>1, <2>2 DEF Next, PaneSends, Applies, Settles, vars, TurnArrives, StoresCurrent,
           StoresOriginal, StoresCapture, StoresTurn, StoresApply, PostFails, Saved,
           DeletesVersions, DeletesSnapshots, ClearsApplied, DeletionFails
    <3> QED
      BY <3>1
  <2> QED
    BY <2>1, <2>2
<1>2. IInv /\ [Next]_vars => [OnlyInScope]_vars
  BY <1>1
<1> QED
  BY <1>2, Invariance, PTL DEF Spec, OnlyItsScopeIsDeleted

-----------------------------------------------------------------------------
(* What was read of the document, beside the edit that was applied to it. *)

\* What the panes read and what was applied, on its way or stored.
ReadingOf(p)     == [text |-> p.text, fate |-> p.fate, read |-> p.read]
ApplicationOf(p) == [edit |-> p.edit, made |-> p.read]
AppliedBy(e)     == [edit |-> e.edit, made |-> e.made]

Readings     == {ReadingOf(p) : p \in {q \in posts : q.kind # "apply"}}
                  \cup {ReadingOf(s) : s \in sightings}
Applications == {ApplicationOf(p) : p \in {q \in posts : q.kind = "apply"}}
                  \cup {AppliedBy(e) : e \in events}

\* The text an edit's fate leaves in Word.
Shows(text, fate, edit) ==
  \/ fate = "kept" /\ text = <<"rest">> \o edit.new
  \/ fate = "reverted" /\ text = Original
  \/ fate = "altered" /\ text = <<"rest", "reworded">>

\* Word holds the original until the one edit is applied, then what became of it.
WordFits ==
  IF word.edit = NoText
  THEN /\ word.text = Original /\ word.fate = "none"
       /\ Applications = {} /\ \A r \in Readings : r.text = Original
  ELSE Shows(word.text, word.fate, word.edit)

\* Nothing is read or applied in the future.
ClockFits == /\ \A r \in Readings : r.read <= clock
             /\ \A a \in Applications : a.made <= clock

\* A text read before the edit is the original, one read after it shows the fate.
ReadingsFit ==
  \A a \in Applications :
    /\ a.edit = word.edit
    /\ \A r \in Readings : /\ r.read < a.made => r.text = Original
                           /\ r.read > a.made => Shows(r.text, r.fate, a.edit)

\* Some of the rows have a latest one among them, whichever they are: what Latest
\* chooses is there.
LatestExists ==
  \A rows \in SUBSET sightings :
    rows # {} => \E s \in rows : \A o \in rows : o.stamp <= s.stamp

FateIInv == WordFits /\ ClockFits /\ ReadingsFit /\ LatestExists

\* The wordings of the edit are no part of the text around it or of what an attorney
\* writes instead; one may be part of the other.
WordingsApart ==
  /\ {"old", "new"} \subseteq Lines
  /\ \A l \in {"old", "new"}, m \in {"rest", "reworded"} : <<l, m>> \notin Within
  /\ <<"old", "new">> \notin Within \/ <<"new", "old">> \notin Within

\* Rows that become fewer, or one more, still have a latest one among any of them.
LEMMA LatestStays ==
  ASSUME TypeOK, LatestExists,
         \/ sightings' \subseteq sightings
         \/ \E s \in Sightings : sightings' = sightings \cup {s}
  PROVE  LatestExists'
<1>1. sightings \subseteq Sightings /\ \A s \in Sightings : s.stamp \in Nat
  BY DEF TypeOK, Sightings
<1>2. CASE sightings' \subseteq sightings
  BY <1>2 DEF LatestExists
<1>3. ASSUME NEW s \in Sightings, sightings' = sightings \cup {s}
      PROVE  LatestExists'
  <2> SUFFICES ASSUME NEW rows \in SUBSET sightings', rows # {}
               PROVE  \E m \in rows : \A o \in rows : o.stamp <= m.stamp
    BY DEF LatestExists
  <2> DEFINE others == rows \ {s}
  <2>1. others \in SUBSET sightings
    BY <1>3
  <2>2. CASE others = {}
    <3>1. s \in rows /\ \A o \in rows : o = s
      BY <2>2
    <3> QED
      BY <1>1, <3>1
  <2>3. CASE others # {}
    <3>1. PICK m \in others : \A o \in others : o.stamp <= m.stamp
      BY <2>1, <2>3 DEF LatestExists
    <3>2. m \in rows /\ m.stamp \in Nat /\ s.stamp \in Nat /\ \A o \in rows : o = s \/ o \in others
      BY <1>1, <2>1
    <3>3. \A o \in rows : o.stamp \in Nat
      BY <1>1, <1>3
    <3> HIDE DEF others
    <3>4. CASE s \in rows /\ s.stamp > m.stamp
      BY <3>1, <3>2, <3>3, <3>4
    <3>5. CASE ~(s \in rows /\ s.stamp > m.stamp)
      BY <3>1, <3>2, <3>3, <3>5
    <3> QED
      BY <3>4, <3>5
  <2> QED
    BY <2>2, <2>3
<1> QED
  BY <1>2, <1>3

\* When a text is read or an application made, a number.
LEMMA ReadsAreNumbers ==
  ASSUME TypeOK
  PROVE  (\A r \in Readings : r.read \in Nat) /\ (\A a \in Applications : a.made \in Nat)
<1>1. \A p \in posts : p.read \in Nat
  BY DEF TypeOK, Posts
<1>2. \A s \in sightings : s.read \in Nat
  BY DEF TypeOK, Sightings
<1>3. \A e \in events : e.made \in Nat
  BY DEF TypeOK, Events
<1> QED
  BY <1>1, <1>2, <1>3 DEF Readings, ReadingOf, Applications, ApplicationOf, AppliedBy

\* A step that reads and applies nothing keeps what was read beside the edit.
LEMMA NothingRead ==
  ASSUME TypeOK, FateIInv, UNCHANGED word, clock' \in {clock, clock + 1},
         Readings' \subseteq Readings, Applications' \subseteq Applications
  PROVE  WordFits' /\ ClockFits' /\ ReadingsFit'
<1>1. clock \in Nat /\ WordFits /\ ClockFits /\ ReadingsFit
  BY DEF TypeOK, FateIInv
<1>2. WordFits'
  BY <1>1 DEF WordFits
<1>3. (\A r \in Readings : r.read \in Nat) /\ (\A a \in Applications : a.made \in Nat)
  BY ReadsAreNumbers
<1>4. ClockFits'
  BY <1>1, <1>3 DEF ClockFits
<1>5. ReadingsFit'
  BY <1>1 DEF ReadingsFit
<1> QED
  BY <1>2, <1>4, <1>5

\* Posts that go, and one that moves on, read and apply nothing new.
LEMMA PostsAreRead ==
  ASSUME UNCHANGED <<sightings, events>>,
         \A q \in posts' \ posts : \E p \in posts :
           q.kind = p.kind /\ q.text = p.text /\ q.fate = p.fate /\ q.read = p.read /\ q.edit = p.edit
  PROVE  Readings' \subseteq Readings /\ Applications' \subseteq Applications
<1>1. ASSUME NEW q \in posts'
      PROVE  \E p \in posts : q.kind = p.kind /\ ReadingOf(q) = ReadingOf(p)
                                /\ ApplicationOf(q) = ApplicationOf(p)
  BY <1>1 DEF ReadingOf, ApplicationOf
<1>2. Readings' = {ReadingOf(p) : p \in {q \in posts' : q.kind # "apply"}}
                    \cup {ReadingOf(s) : s \in sightings}
  BY DEF Readings, ReadingOf
<1>3. Applications' = {ApplicationOf(p) : p \in {q \in posts' : q.kind = "apply"}}
                        \cup {AppliedBy(e) : e \in events}
  BY DEF Applications, ApplicationOf, AppliedBy
<1>4. Readings' \subseteq Readings
  BY <1>1, <1>2 DEF Readings
<1>5. Applications' \subseteq Applications
  BY <1>1, <1>3 DEF Applications
<1> QED
  BY <1>4, <1>5

\* A post becomes the row that holds what it read, or the event of what was applied.
LEMMA RowsAreRead ==
  ASSUME NEW p \in posts, posts' \subseteq posts,
         \/ /\ p.kind # "apply" /\ UNCHANGED events
            /\ \E s : sightings' = sightings \cup {s} /\ ReadingOf(s) = ReadingOf(p)
         \/ /\ p.kind = "apply" /\ UNCHANGED sightings
            /\ \E e : events' = events \cup {e} /\ AppliedBy(e) = ApplicationOf(p)
  PROVE  Readings' \subseteq Readings /\ Applications' \subseteq Applications
<1>2. Readings' = {ReadingOf(q) : q \in {r \in posts' : r.kind # "apply"}}
                    \cup {ReadingOf(s) : s \in sightings'}
  BY DEF Readings, ReadingOf
<1>3. Applications' = {ApplicationOf(q) : q \in {r \in posts' : r.kind = "apply"}}
                        \cup {AppliedBy(e) : e \in events'}
  BY DEF Applications, ApplicationOf, AppliedBy
<1>4. Readings' \subseteq Readings
  BY <1>2 DEF Readings
<1>5. Applications' \subseteq Applications
  BY <1>3 DEF Applications
<1> QED
  BY <1>4, <1>5

\* The server's writes and their failures read and apply nothing.
LEMMA ServerReadsNothing ==
  ASSUME TypeOK, FateIInv, NEW p \in posts,
         \/ TurnArrives(p)   \/ StoresCurrent(p) \/ StoresOriginal(p)
         \/ StoresCapture(p) \/ StoresTurn(p)    \/ StoresApply(p)    \/ PostFails(p)
  PROVE  FateIInv'
<1>0. /\ posts \subseteq Posts /\ p \in Posts /\ p.arrived \in Nat /\ clock \in Nat
      /\ LatestExists
  BY DEF TypeOK, Posts, FateIInv
<1>1. CASE TurnArrives(p) \/ StoresCurrent(p) \/ StoresOriginal(p) \/ PostFails(p)
  <2>1. /\ UNCHANGED <<word, sightings, events>> /\ clock' \in {clock, clock + 1}
        /\ \/ posts' = posts \ {p}
           \/ posts' = (posts \ {p}) \cup {[p EXCEPT !.arrived = clock + 1, !.next = "row"]}
           \/ posts' = (posts \ {p}) \cup {[p EXCEPT !.next = "original"]}
           \/ posts' = (posts \ {p}) \cup {[p EXCEPT !.next = "row"]}
    BY <1>1 DEF TurnArrives, StoresCurrent, StoresOriginal, PostFails, Moves, Tick
  <2>2. /\ DOMAIN p = {"kind", "who", "read", "arrived", "text", "fate", "edit", "next"}
    BY <1>0 DEF Posts
  <2>3. \A q \in posts' \ posts :
          q.kind = p.kind /\ q.text = p.text /\ q.fate = p.fate /\ q.read = p.read /\ q.edit = p.edit
    <3> DEFINE a == [p EXCEPT !.arrived = clock + 1, !.next = "row"]
               b == [p EXCEPT !.next = "original"]
               c == [p EXCEPT !.next = "row"]
    <3>1. a.kind = p.kind /\ a.text = p.text /\ a.fate = p.fate /\ a.read = p.read /\ a.edit = p.edit
      BY <2>2
    <3>2. b.kind = p.kind /\ b.text = p.text /\ b.fate = p.fate /\ b.read = p.read /\ b.edit = p.edit
      BY <2>2
    <3>3. c.kind = p.kind /\ c.text = p.text /\ c.fate = p.fate /\ c.read = p.read /\ c.edit = p.edit
      BY <2>2
    <3>4. \A q \in posts' \ posts : q \in {a, b, c}
      BY <2>1
    <3> HIDE DEF a, b, c
    <3> QED
      BY <3>1, <3>2, <3>3, <3>4
  <2>4. Readings' \subseteq Readings /\ Applications' \subseteq Applications
    BY <2>1, <2>3, PostsAreRead
  <2>5. WordFits' /\ ClockFits' /\ ReadingsFit'
    BY <2>1, <2>4, NothingRead
  <2>6. LatestExists'
    BY <1>0, <2>1 DEF LatestExists
  <2> QED
    BY <2>5, <2>6 DEF FateIInv
<1>2. CASE StoresCapture(p) \/ StoresTurn(p)
  <2>1. PICK stamp \in Nat, whole \in BOOLEAN : sightings' = sightings \cup {SightingOf(p, stamp, whole)}
    <3>1. clock + 1 \in Nat /\ TRUE \in BOOLEAN /\ FALSE \in BOOLEAN
      BY <1>0
    <3>2. \/ sightings' = sightings \cup {SightingOf(p, clock + 1, TRUE)}
          \/ sightings' = sightings \cup {SightingOf(p, p.arrived, TRUE)}
          \/ sightings' = sightings \cup {SightingOf(p, p.arrived, FALSE)}
      BY <1>2 DEF StoresCapture, StoresTurn
    <3> QED
      BY <1>0, <3>1, <3>2
  <2>2. /\ p.kind \in {"capture", "turn"} /\ posts' = posts \ {p}
        /\ UNCHANGED <<word, events>> /\ clock' \in {clock, clock + 1}
    BY <1>2 DEF StoresCapture, StoresTurn, Tick
  <2> DEFINE s == SightingOf(p, stamp, whole)
  <2>3. s \in Sightings
    BY <1>0, <2>2, SightingOfAPost
  <2>4. ReadingOf(s) = ReadingOf(p)
    BY DEF ReadingOf, SightingOf
  <2>5. sightings' = sightings \cup {s}
    BY <2>1
  <2> HIDE DEF s
  <2>6. Readings' \subseteq Readings /\ Applications' \subseteq Applications
    BY <2>2, <2>4, <2>5, RowsAreRead
  <2>7. WordFits' /\ ClockFits' /\ ReadingsFit'
    BY <2>2, <2>6, NothingRead
  <2>8. LatestExists'
    BY <1>0, <2>3, <2>5, LatestStays
  <2> QED
    BY <2>7, <2>8 DEF FateIInv
<1>3. CASE StoresApply(p)
  <2> DEFINE e == [who |-> p.who, edit |-> p.edit, made |-> p.read, stamp |-> clock + 1,
                   applied |-> TRUE]
  <2>1. /\ p.kind = "apply" /\ posts' = posts \ {p} /\ events' = events \cup {e}
        /\ UNCHANGED <<word, sightings>> /\ clock' \in {clock, clock + 1}
    BY <1>3 DEF StoresApply, Tick
  <2>2. AppliedBy(e) = ApplicationOf(p)
    BY DEF AppliedBy, ApplicationOf
  <2> HIDE DEF e
  <2>3. Readings' \subseteq Readings /\ Applications' \subseteq Applications
    BY <2>1, <2>2, RowsAreRead
  <2>4. WordFits' /\ ClockFits' /\ ReadingsFit'
    BY <2>1, <2>3, NothingRead
  <2>5. LatestExists'
    BY <1>0, <2>1 DEF LatestExists
  <2> QED
    BY <2>4, <2>5 DEF FateIInv
<1> QED
  BY <1>1, <1>2, <1>3

\* Nor do the statements of a deletion; its commit takes rows and clears texts.
LEMMA DeletionReadsNothing ==
  ASSUME IInv, FateIInv,
         DeletesVersions \/ DeletesSnapshots \/ ClearsApplied \/ DeletionCommits \/ DeletionFails
  PROVE  FateIInv'
<1>0. TypeOK /\ LatestExists /\ MarkedIsInScope
  BY DEF IInv, FateIInv
<1>1. UNCHANGED <<word, posts, clock>> /\ sightings' \subseteq sightings
  BY DEF DeletesVersions, DeletesSnapshots, ClearsApplied, DeletionCommits, DeletionFails
<1>2. \A e \in events' : \E d \in events : AppliedBy(e) = AppliedBy(d)
  <2>1. CASE DeletionCommits
    <3>1. events' = (events \ deletion.gone.events)
                      \cup {[e EXCEPT !.applied = FALSE] : e \in deletion.gone.events}
      BY <2>1 DEF DeletionCommits
    <3>2. deletion.gone.events \subseteq events
      BY <1>0 DEF MarkedIsInScope, OwnApplied
    <3>3. \A e \in deletion.gone.events : AppliedBy([e EXCEPT !.applied = FALSE]) = AppliedBy(e)
      <4>1. \A e \in events : DOMAIN e = {"who", "edit", "made", "stamp", "applied"}
        BY <1>0 DEF TypeOK, Events
      <4> QED
        BY <3>2, <4>1 DEF AppliedBy
    <3> QED
      BY <3>1, <3>2, <3>3
  <2>2. CASE ~DeletionCommits
    BY <2>2 DEF DeletesVersions, DeletesSnapshots, ClearsApplied, DeletionFails
  <2> QED
    BY <2>1, <2>2
<1>3. Readings' \subseteq Readings
  <2>1. Readings' = {ReadingOf(p) : p \in {q \in posts : q.kind # "apply"}}
                      \cup {ReadingOf(s) : s \in sightings'}
    BY <1>1 DEF Readings, ReadingOf
  <2> QED
    BY <1>1, <2>1 DEF Readings
<1>4. Applications' \subseteq Applications
  <2>1. Applications' = {ApplicationOf(p) : p \in {q \in posts : q.kind = "apply"}}
                          \cup {AppliedBy(e) : e \in events'}
    BY <1>1 DEF Applications, ApplicationOf, AppliedBy
  <2> QED
    BY <1>2, <2>1 DEF Applications
<1>5. WordFits' /\ ClockFits' /\ ReadingsFit'
  BY <1>0, <1>1, <1>3, <1>4, NothingRead
<1>6. LatestExists'
  BY <1>0, <1>1, LatestStays
<1> QED
  BY <1>5, <1>6 DEF FateIInv

\* What is sent holds Word's text of that moment, stamped after every other read.
LEMMA SendReads ==
  ASSUME NEW kind \in Kinds, NEW a, NEW edit, Sends(kind, a, edit), UNCHANGED <<sightings, events>>
  PROVE  /\ clock' = clock + 1
         /\ kind # "apply" =>
              /\ Readings' = Readings \cup {[text |-> word'.text, fate |-> word'.fate, read |-> clock']}
              /\ Applications' = Applications
         /\ kind = "apply" => /\ Readings' = Readings
                              /\ Applications' = Applications \cup {[edit |-> edit, made |-> clock']}
<1> DEFINE q == [kind |-> kind, who |-> a, read |-> clock + 1, arrived |-> 0,
                 text |-> word'.text, fate |-> word'.fate, edit |-> edit,
                 next |-> CASE kind = "turn" -> "arrive" [] kind = "capture" -> "current"
                            [] kind = "apply" -> "row"]
<1>1. posts' = posts \cup {q} /\ clock' = clock + 1
  BY DEF Sends, Tick
<1>2. q.kind = kind /\ ReadingOf(q) = [text |-> word'.text, fate |-> word'.fate, read |-> clock']
        /\ ApplicationOf(q) = [edit |-> edit, made |-> clock']
  BY <1>1 DEF ReadingOf, ApplicationOf
<1> HIDE DEF q
<1>3. Readings' = {ReadingOf(p) : p \in {r \in posts' : r.kind # "apply"}}
                    \cup {ReadingOf(s) : s \in sightings}
  BY DEF Readings, ReadingOf
<1>4. Applications' = {ApplicationOf(p) : p \in {r \in posts' : r.kind = "apply"}}
                        \cup {AppliedBy(e) : e \in events}
  BY DEF Applications, ApplicationOf, AppliedBy
<1>5. kind # "apply" => Readings' = Readings \cup {ReadingOf(q)} /\ Applications' = Applications
  BY <1>1, <1>2, <1>3, <1>4 DEF Readings, Applications
<1>6. kind = "apply" => Readings' = Readings /\ Applications' = Applications \cup {ApplicationOf(q)}
  BY <1>1, <1>2, <1>3, <1>4 DEF Readings, Applications
<1> QED
  BY <1>1, <1>2, <1>5, <1>6

\* The pane reads what Word holds: the original, or what became of the edit.
LEMMA PaneReads ==
  ASSUME TypeOK, FateIInv, NEW a \in Attorneys, PaneSends(a)
  PROVE  FateIInv'
<1>1. PICK kind \in {"capture", "turn"} : Sends(kind, a, NoText)
  BY DEF PaneSends
<1>2. UNCHANGED <<word, sightings, events>>
  BY DEF PaneSends
<1> DEFINE now == [text |-> word.text, fate |-> word.fate, read |-> clock + 1]
<1>3. /\ clock' = clock + 1 /\ Readings' = Readings \cup {now} /\ Applications' = Applications
  BY <1>1, <1>2, SendReads DEF Kinds
<1>4. now.text = word.text /\ now.fate = word.fate /\ now.read = clock + 1
  OBVIOUS
<1> HIDE DEF now
<1>5. /\ clock \in Nat /\ WordFits /\ ClockFits /\ ReadingsFit /\ LatestExists
      /\ (\A r \in Readings : r.read \in Nat) /\ (\A b \in Applications : b.made \in Nat)
  BY ReadsAreNumbers DEF TypeOK, FateIInv
<1>6. WordFits'
  BY <1>2, <1>3, <1>4, <1>5 DEF WordFits
<1>7. ClockFits'
  BY <1>3, <1>4, <1>5 DEF ClockFits
<1>8. ReadingsFit'
  <2> SUFFICES ASSUME NEW b \in Applications
               PROVE  /\ b.edit = word.edit
                      /\ \A r \in Readings \cup {now} : /\ r.read < b.made => r.text = Original
                                                        /\ r.read > b.made => Shows(r.text, r.fate, b.edit)
    BY <1>2, <1>3 DEF ReadingsFit
  <2>1. b.edit = word.edit /\ b.made <= clock /\ b.made \in Nat
    BY <1>5 DEF ReadingsFit, ClockFits
  <2>2. Shows(now.text, now.fate, b.edit)
    BY <1>4, <1>5, <2>1 DEF WordFits
  <2>3. ~(now.read < b.made)
    BY <1>4, <1>5, <2>1
  <2> QED
    BY <1>5, <2>1, <2>2, <2>3 DEF ReadingsFit
<1>9. LatestExists'
  BY <1>2, <1>5 DEF LatestExists
<1> QED
  BY <1>6, <1>7, <1>8, <1>9 DEF FateIInv

\* An edit is applied once, to a text everyone has read as the original.
LEMMA ApplyReads ==
  ASSUME TypeOK, FateIInv, NEW a \in Attorneys, Applies(a)
  PROVE  FateIInv'
<1>1. PICK e \in Edits :
        /\ word' = [word EXCEPT !.text = <<"rest">> \o e.new, !.fate = "kept", !.edit = e]
        /\ Sends("apply", a, e)
  BY DEF Applies
<1>2. UNCHANGED <<sightings, events>> /\ word.edit = NoText
  BY DEF Applies
<1> DEFINE made == [edit |-> e, made |-> clock + 1]
<1>3. /\ clock' = clock + 1 /\ Readings' = Readings /\ Applications' = Applications \cup {made}
  BY <1>1, <1>2, SendReads DEF Kinds
<1>4. made.edit = e /\ made.made = clock + 1
  OBVIOUS
<1>5. word'.text = <<"rest">> \o e.new /\ word'.fate = "kept" /\ word'.edit = e
  <2>1. DOMAIN word = {"text", "fate", "edit"}
    BY DEF TypeOK
  <2> DEFINE t == <<"rest">> \o e.new
  <2>2. word' = [word EXCEPT !.text = t, !.fate = "kept", !.edit = e]
    BY <1>1
  <2> HIDE DEF t
  <2>3. word'.text = t /\ word'.fate = "kept" /\ word'.edit = e
    BY <2>1, <2>2
  <2> QED
    BY <2>3 DEF t
<1> HIDE DEF made
<1>6. /\ clock \in Nat /\ WordFits /\ ClockFits /\ LatestExists
      /\ \A r \in Readings : r.read \in Nat
  BY ReadsAreNumbers DEF TypeOK, FateIInv
<1>7. Applications = {} /\ \A r \in Readings : r.text = Original
  BY <1>2, <1>6 DEF WordFits
<1>8. WordFits'
  BY <1>5, NoTextAssumption DEF WordFits, Shows
<1>9. ClockFits'
  BY <1>3, <1>4, <1>6, <1>7 DEF ClockFits
<1>10. ReadingsFit'
  <2>1. \A r \in Readings : ~(r.read > clock + 1)
    BY <1>6 DEF ClockFits
  <2> QED
    BY <1>3, <1>4, <1>5, <1>7, <2>1 DEF ReadingsFit
<1>11. LatestExists'
  BY <1>2, <1>6 DEF LatestExists
<1> QED
  BY <1>8, <1>9, <1>10, <1>11 DEF FateIInv

\* A decision changes Word and what becomes of the edit, and nothing that was read.
LEMMA SettleReads ==
  ASSUME TypeOK, FateIInv, Settles
  PROVE  FateIInv'
<1>1. /\ word.fate = "kept"
      /\ \/ word' = [word EXCEPT !.text = Original, !.fate = "reverted"]
         \/ word' = [word EXCEPT !.text = <<"rest", "reworded">>, !.fate = "altered"]
      /\ UNCHANGED <<posts, sightings, events, clock>>
  BY DEF Settles
<1>2. /\ word'.edit = word.edit
      /\ Shows(word'.text, word'.fate, word.edit)
  <2>1. DOMAIN word = {"text", "fate", "edit"}
    BY DEF TypeOK
  <2> DEFINE t == <<"rest", "reworded">>
  <2>2. \/ word' = [word EXCEPT !.text = Original, !.fate = "reverted"]
        \/ word' = [word EXCEPT !.text = t, !.fate = "altered"]
    BY <1>1
  <2> HIDE DEF t
  <2>3. /\ word'.edit = word.edit
        /\ \/ word'.text = Original /\ word'.fate = "reverted"
           \/ word'.text = t /\ word'.fate = "altered"
    BY <2>1, <2>2
  <2> QED
    BY <2>3 DEF Shows, t
<1>3. WordFits /\ ClockFits /\ ReadingsFit /\ LatestExists
  BY DEF FateIInv
<1>4. Readings' = Readings /\ Applications' = Applications
  BY <1>1 DEF Readings, Applications, ReadingOf, ApplicationOf, AppliedBy
<1>5. word.edit # NoText
  BY <1>1, <1>3 DEF WordFits
<1>6. WordFits'
  BY <1>2, <1>5 DEF WordFits
<1>7. ClockFits' /\ ReadingsFit' /\ LatestExists'
  BY <1>1, <1>2, <1>3, <1>4 DEF ClockFits, ReadingsFit, LatestExists
<1> QED
  BY <1>6, <1>7 DEF FateIInv

\* Every step keeps what was read beside the edit.
LEMMA FateStep ==
  ASSUME IInv, FateIInv, [Next]_vars
  PROVE  FateIInv'
<1>0. TypeOK
  BY DEF IInv
<1>1. CASE \E a \in Attorneys : PaneSends(a) \/ Applies(a)
  BY <1>0, <1>1, PaneReads, ApplyReads
<1>2. CASE Settles
  BY <1>0, <1>2, SettleReads
<1>3. CASE \E p \in posts : \/ TurnArrives(p)   \/ StoresCurrent(p) \/ StoresOriginal(p)
                            \/ StoresCapture(p) \/ StoresTurn(p)    \/ StoresApply(p)
                            \/ PostFails(p)
  BY <1>0, <1>3, ServerReadsNothing
<1>4. CASE DeletesVersions \/ DeletesSnapshots \/ ClearsApplied \/ DeletionCommits \/ DeletionFails
  BY <1>4, DeletionReadsNothing
<1>5. CASE UNCHANGED vars
  <2>1. UNCHANGED <<word, posts, sightings, events, clock>>
    BY <1>5 DEF vars
  <2>2. Readings' = Readings /\ Applications' = Applications
    BY <2>1 DEF Readings, Applications, ReadingOf, ApplicationOf, AppliedBy
  <2> QED
    BY <2>1, <2>2 DEF FateIInv, WordFits, ClockFits, ReadingsFit, LatestExists
<1> QED
  BY <1>1, <1>2, <1>3, <1>4, <1>5 DEF Next

\* Nothing is read or applied at the start.
LEMMA FateInit == Init => FateIInv
<1> SUFFICES ASSUME Init
             PROVE  FateIInv
  OBVIOUS
<1>1. Readings = {} /\ Applications = {}
  BY DEF Init, Readings, Applications
<1>2. WordFits /\ LatestExists
  BY <1>1 DEF Init, WordFits, LatestExists
<1> QED
  BY <1>1, <1>2 DEF FateIInv, ClockFits, ReadingsFit

-----------------------------------------------------------------------------
(* The verdict on an edit. *)

\* One line is in a text of two paragraphs when it is part of either.
LEMMA LineInPair ==
  ASSUME NEW l, NEW a, NEW b
  PROVE  IsIn(<<l>>, <<a, b>>) <=> <<l, a>> \in Within \/ <<l, b>> \in Within
<1>1. <<l>> # <<>> /\ Len(<<l>>) = 1 /\ <<l>>[1] = l
  OBVIOUS
<1>2. DOMAIN <<a, b>> = {1, 2} /\ <<a, b>>[1] = a /\ <<a, b>>[2] = b
  OBVIOUS
<1>3. IsIn(<<l>>, <<a, b>>) <=> \E i \in DOMAIN <<a, b>> : <<l, <<a, b>>[i]>> \in Within
  BY <1>1 DEF IsIn
<1> QED
  BY <1>2, <1>3

\* And in a text of one paragraph, or in a wording of one line.
LEMMA LineInOne ==
  ASSUME NEW l, NEW a
  PROVE  IsIn(<<l>>, <<a>>) <=> <<l, a>> \in Within
<1>1. <<l>> # <<>> /\ Len(<<l>>) = 1 /\ <<l>>[1] = l
  OBVIOUS
<1>2. DOMAIN <<a>> = {1} /\ <<a>>[1] = a
  OBVIOUS
<1>3. IsIn(<<l>>, <<a>>) <=> \E i \in DOMAIN <<a>> : <<l, <<a>>[i]>> \in Within
  BY <1>1 DEF IsIn
<1> QED
  BY <1>2, <1>3

\* One line that replaces one line is the pair that is compared.
LEMMA OneLineStays ==
  ASSUME NEW l, NEW m
  PROVE  LineWordApplies(<<l>>, <<m>>) = [target |-> <<l>>, new |-> <<m>>]
<1>1. ~(Len(<<l>>) > 1)
  OBVIOUS
<1> QED
  BY <1>1 DEF LineWordApplies

\* An edit replaces the old wording, removes it, or removes one that was never there.
LEMMA KindsOfEdits ==
  ASSUME NEW e \in Edits
  PROVE  \/ e.action = "replace"
         \/ e.action = "delete" /\ e.target = <<"old">>
         \/ e.action = "delete" /\ e.target = <<"misquoted">>
  BY DEF Edits

\* edit_verdict of a replacement, by which of its wordings the last text has.
LEMMA ReplaceVerdict ==
  ASSUME WordingsApart, NEW e \in Edits, e.action = "replace", NEW text, NEW fate,
         Shows(text, fate, e), NEW before
  PROVE  Verdict(e, text, before) = fate
<1>1. e.target = <<"old">> /\ e.new = <<"new">>
  BY DEF Edits
<1>2. <<"new">> # <<>>
  OBVIOUS
<1> DEFINE pair == [target |-> <<"old">>, new |-> <<"new">>]
           old  == IsIn(<<"old">>, text)
           put  == IsIn(<<"new">>, text)
           part == IsIn(<<"new">>, <<"old">>)
<1>3. LineWordApplies(e.target, e.new) = pair /\ pair.target = <<"old">> /\ pair.new = <<"new">>
  BY <1>1, OneLineStays
<1>4. Verdict(e, text, before) =
        IF part THEN IF old THEN "reverted" ELSE IF put THEN "kept" ELSE "altered"
        ELSE IF put THEN "kept" ELSE IF old THEN "reverted" ELSE "altered"
  <2>1. e.action # "delete" /\ e.action # "redline" /\ <<"new">> # <<>>
    BY <1>2
  <2>2. /\ LineWordApplies(e.target, e.new).target = <<"old">>
        /\ LineWordApplies(e.target, e.new).new = <<"new">>
    BY <1>3
  <2> HIDE DEF pair
  <2> QED
    BY <2>1, <2>2 DEF Verdict
<1>5. /\ <<"old", "old">> \in Within /\ <<"new", "new">> \in Within
      /\ <<"old", "rest">> \notin Within /\ <<"new", "rest">> \notin Within
      /\ <<"old", "reworded">> \notin Within /\ <<"new", "reworded">> \notin Within
      /\ <<"old", "new">> \notin Within \/ <<"new", "old">> \notin Within
      /\ part <=> <<"new", "old">> \in Within
  BY WithinAssumption, LineInOne DEF WordingsApart
<1>6. CASE fate = "kept"
  <2>1. text = <<"rest">> \o <<"new">>
    BY <1>1, <1>6 DEF Shows
  <2>2. text = <<"rest", "new">>
    <3>1. "rest" \in {"rest", "new"} /\ "new" \in {"rest", "new"}
      OBVIOUS
    <3>2. <<"rest">> \o <<"new">> = <<"rest", "new">>
      BY <3>1, PairOfLines
    <3> QED
      BY <2>1, <3>2
  <2>3. put /\ (old <=> <<"old", "new">> \in Within)
    BY <1>5, <2>2, LineInPair
  <2> HIDE DEF old, put, part
  <2> QED
    BY <1>4, <1>5, <1>6, <2>3
<1>7. CASE fate = "reverted"
  <2>1. text = <<"rest", "old">>
    BY <1>7 DEF Shows, Original
  <2>2. old /\ (put <=> <<"new", "old">> \in Within)
    BY <1>5, <2>1, LineInPair
  <2> HIDE DEF old, put, part
  <2> QED
    BY <1>4, <1>5, <1>7, <2>2
<1>8. CASE fate = "altered"
  <2>1. text = <<"rest", "reworded">>
    BY <1>8 DEF Shows
  <2>2. ~old /\ ~put
    BY <1>5, <2>1, LineInPair
  <2> HIDE DEF old, put, part
  <2> QED
    BY <1>4, <1>8, <2>2
<1> QED
  BY <1>6, <1>7, <1>8 DEF Shows

\* And of a removal whose target the text before it held: gone or back.
LEMMA DeleteVerdict ==
  ASSUME WordingsApart, NEW e \in Edits, e.action = "delete", e.target = <<"old">>,
         NEW text, NEW fate, Shows(text, fate, e), fate # "altered",
         NEW before, before = NoText \/ before = Original
  PROVE  Verdict(e, text, before) = fate
<1>1. /\ <<"old", "old">> \in Within /\ <<"old", "rest">> \notin Within
  BY WithinAssumption DEF WordingsApart
<1>2. e.new = <<>> /\ <<"old">> # <<>>
  BY DEF Edits
<1>3. ~NeverThere(<<"old">>, before)
  BY <1>1, LineInPair DEF NeverThere, Original
<1> DEFINE pair == [target |-> e.target, new |-> e.new]
<1>4. Verdict(e, text, before) = IF IsIn(<<"old">>, text) THEN "reverted" ELSE "kept"
  <2>1. pair.target = <<"old">> /\ e.action = "delete"
    OBVIOUS
  <2>2. Verdict(e, text, before) = RemovalVerdict("delete", pair.target, text, before)
    BY DEF Verdict
  <2> HIDE DEF pair
  <2> QED
    BY <1>2, <1>3, <2>1, <2>2 DEF RemovalVerdict
<1>5. CASE fate = "kept"
  <2>1. text = <<"rest">> \o <<>>
    BY <1>2, <1>5 DEF Shows
  <2>2. text = <<"rest">>
    <3>1. <<"rest">> \in Seq({"rest"})
      BY SingletonSequence
    <3> QED
      BY <2>1, <3>1, ConcatEmptySeq
  <2> QED
    BY <1>1, <1>4, <1>5, <2>2, LineInOne
<1>6. CASE fate = "reverted"
  <2>1. text = <<"rest", "old">>
    BY <1>6 DEF Shows, Original
  <2> QED
    BY <1>1, <1>4, <1>6, <2>1, LineInPair
<1> QED
  BY <1>5, <1>6 DEF Shows

\* What Latest chooses is one of the rows.
LEMMA LatestIsThere ==
  ASSUME LatestExists, NEW rows \in SUBSET sightings, rows # {}
  PROVE  Latest(rows) \in rows
<1>1. \E s \in rows : \A o \in rows : o.stamp <= s.stamp
  BY DEF LatestExists
<1> QED
  BY <1>1 DEF Latest

\* Whoever reads and applies in whatever order, and whatever fails or is deleted in
\* between: judged against a text read after the Apply, with a baseline read before it
\* or none, an edit's verdict is what became of it (edit_verdict, build_document_changes).
THEOREM VerdictsAreFates ==
  ASSUME WordingsApart
  PROVE  Spec => []VerdictIsTheEditsFate
<1>1. ASSUME TypeOK, FateIInv
      PROVE  VerdictIsTheEditsFate
  <2>0. ReadingsFit /\ LatestExists /\ events \subseteq Events
    BY <1>1 DEF FateIInv, TypeOK
  <2> SUFFICES ASSUME NEW e \in events, e.applied, Judged(e) # "no later capture",
                      Latest(StoredSightings).read > e.made,
                      Earlier(e) # {} => Latest(Earlier(e)).read < e.made
               PROVE  \/ Judged(e) = Latest(StoredSightings).fate
                      \/ e.edit.action = "delete"
                           /\ \/ e.edit.target = <<"misquoted">>
                              \/ Latest(StoredSightings).fate = "altered"
    BY DEF VerdictIsTheEditsFate
  <2> DEFINE last == Latest(StoredSightings)
  <2>1. /\ StoredSightings # {} /\ Judged(e) = Verdict(e.edit, last.text, Baseline(e))
        /\ StoredSightings \in SUBSET sightings /\ Earlier(e) \in SUBSET sightings
    BY DEF Judged, StoredSightings, Earlier
  <2>2. AppliedBy(e) \in Applications /\ AppliedBy(e).edit = e.edit /\ AppliedBy(e).made = e.made
    BY DEF Applications, AppliedBy
  <2>3. \A s \in sightings : /\ s.read < e.made => s.text = Original
                             /\ s.read > e.made => Shows(s.text, s.fate, e.edit)
    <3> SUFFICES ASSUME NEW s \in sightings
                 PROVE  /\ s.read < e.made => s.text = Original
                        /\ s.read > e.made => Shows(s.text, s.fate, e.edit)
      OBVIOUS
    <3>1. /\ ReadingOf(s) \in Readings /\ ReadingOf(s).text = s.text
          /\ ReadingOf(s).fate = s.fate /\ ReadingOf(s).read = s.read
      BY DEF Readings, ReadingOf
    <3> QED
      BY <2>0, <2>2, <3>1 DEF ReadingsFit
  <2>4. last \in sightings /\ Shows(last.text, last.fate, e.edit)
    <3>1. last \in StoredSightings
      BY <2>0, <2>1, LatestIsThere
    <3> QED
      BY <2>1, <2>3, <3>1
  <2>5. Baseline(e) = NoText \/ Baseline(e) = Original
    <3>1. CASE Earlier(e) = {}
      BY <3>1 DEF Baseline
    <3>2. CASE Earlier(e) # {}
      <4>1. Latest(Earlier(e)) \in sightings
        BY <2>0, <2>1, <3>2, LatestIsThere
      <4> QED
        BY <2>3, <3>2, <4>1 DEF Baseline
    <3> QED
      BY <3>1, <3>2
  <2> HIDE DEF last
  <2>6. e.edit \in Edits
    BY <2>0 DEF Events
  <2>7. CASE e.edit.action = "replace"
    <3>1. Verdict(e.edit, last.text, Baseline(e)) = last.fate
      BY <2>4, <2>6, <2>7, ReplaceVerdict
    <3> QED
      BY <2>1, <3>1 DEF last
  <2>8. CASE e.edit.action = "delete" /\ e.edit.target = <<"old">> /\ last.fate # "altered"
    <3>1. Verdict(e.edit, last.text, Baseline(e)) = last.fate
      BY <2>4, <2>5, <2>6, <2>8, DeleteVerdict
    <3> QED
      BY <2>1, <3>1 DEF last
  <2>9. CASE e.edit.action = "delete" /\ (e.edit.target = <<"misquoted">> \/ last.fate = "altered")
    BY <2>9 DEF last
  <2>10. \/ e.edit.action = "replace"
         \/ e.edit.action = "delete" /\ e.edit.target = <<"old">>
         \/ e.edit.action = "delete" /\ e.edit.target = <<"misquoted">>
    BY <2>6, KindsOfEdits
  <2> QED
    BY <2>7, <2>8, <2>9, <2>10
<1>2. IInv /\ FateIInv /\ [Next]_vars => FateIInv'
  BY FateStep
<1>3. IInv => TypeOK
  BY DEF IInv
<1>4. FateIInv /\ TypeOK => VerdictIsTheEditsFate
  BY <1>1
<1> QED
  BY <1>2, <1>3, <1>4, FateInit, Invariance, PTL DEF Spec

=============================================================================
