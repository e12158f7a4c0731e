--------------------------- MODULE DocumentCapture ---------------------------
(***************************************************************************)
(* The Word pane's copies of the document (clients/word/src/               *)
(* documentCapture.ts): one when the pane opens, one about a second after  *)
(* an Apply, one after a pause in editing and one just before Finalize     *)
(* accepts every tracked change (components/FinalizeBar.tsx, word.ts).     *)
(*                                                                         *)
(* JavaScript runs one callback at a time, so a step here is the code      *)
(* between two awaits, and it runs every continuation of a settled promise *)
(* before the next event.  A capture awaits Word twice (the texts, then    *)
(* the tracked changes) and the server once; between those the attorney    *)
(* edits, timers fire and other captures run.  Word executes what the pane *)
(* issued in the order it was issued.                                      *)
(***************************************************************************)
EXTENDS Integers, FiniteSets

CONSTANTS Texts,        \* texts the document may have
          MaxChanges,   \* bound: changes of the document
          MaxCaptures,  \* bound: captures waiting or in flight at once
          Failures,     \* whether reads and requests may fail, or the server stop captures
          Finalizes     \* whether the attorney uses Finalize

ASSUME DocumentCaptureAssumption ==
  /\ Texts # {}
  /\ MaxChanges \in Nat
  /\ MaxCaptures \in Nat \ {0}
  /\ {Failures, Finalizes} \subseteq BOOLEAN

VARIABLES doc,         \* the document: its text, and whether changes are tracked in it
          changes,     \* how often it has changed: the clock the copies are dated by
          identified,  \* readDocumentId() # ""
          listening,   \* whether one of Word's change events could be registered
          idleTimer,   \* timer
          applyTimer,  \* applyTimer
          cap,         \* the captures waiting or in flight
          running,     \* the capture in the slot, 0 if none
          stopped,     \* the server said enabled: false
          lastSent,    \* content of the last send that was answered
          handed,      \* content of the last send that was issued
          lost,        \* whether a request or its reply has been lost
          owed,        \* whether an Apply waits for its copy
          finalize,    \* FinalizeBar: where onFinalize is
          ahead,       \* reads issued before finalizeDocument
          acceptedAt   \* the clock when acceptAll ran, 0 before

document == <<doc, changes>>
opened == <<identified, listening>>
timers == <<idleTimer, applyTimer>>
requests == <<stopped, lastSent, handed, lost>>
pane == <<listening, timers, cap, running, requests>>
finalizing == <<finalize, ahead, acceptedAt>>
vars == <<document, identified, pane, owed, finalizing>>

Captures == 1..MaxCaptures
Moment == {"pane_open", "apply", "idle", "finalize"}
Document == [text : Texts, tracked : BOOLEAN]
Clock == 0..MaxChanges

(* A capture: whose promise a waiting one awaits, what it read and, for
   Finalize's copy, when (textsAt, trackedAt). *)
PC == {"unused", "waiting", "reading", "texts_read", "sending", "settled"}
Nothing == <<>>
Capture == [pc : PC, moment : Moment, awaits : {0} \cup Captures,
            content : Document \cup {Nothing}, textsAt : Clock, trackedAt : Clock]
Idle == [pc |-> "unused", moment |-> "pane_open", awaits |-> 0, content |-> Nothing,
         textsAt |-> 0, trackedAt |-> 0]

(* installDocumentCapture: the capture of the pane's opening is in flight. *)
Init ==
  /\ doc \in Document
  /\ changes = 0
  /\ identified \in BOOLEAN
  /\ listening \in BOOLEAN
  /\ idleTimer = FALSE /\ applyTimer = FALSE
  /\ cap = [c \in Captures |->
              IF c = 1 THEN [Idle EXCEPT !.pc = IF identified THEN "reading" ELSE "settled"]
              ELSE Idle]
  /\ running = 1
  /\ stopped = FALSE
  /\ lastSent = Nothing /\ handed = Nothing /\ lost = FALSE
  /\ owed = FALSE
  /\ finalize = "no" /\ ahead = {} /\ acceptedAt = 0

-----------------------------------------------------------------------------
(* capture(moment). *)

Woken(c) == cap[c].pc = "waiting" /\ cap[cap[c].awaits].pc = "unused"

(* No promise is settled whose continuation has not run: the guard of every
   event, that is of every step but a continuation. *)
Quiet == \A c \in Captures : cap[c].pc # "settled" /\ ~ Woken(c)

IsFree(c) == cap[c].pc = "unused" /\ \A d \in Captures : d < c => cap[d].pc # "unused"

(* run(moment) up to its first await; without a document id it is over. *)
Starts(c, moment) ==
  /\ cap' = [cap EXCEPT ![c].moment = moment, ![c].awaits = 0,
                        ![c].pc = IF identified THEN "reading" ELSE "settled"]
  /\ running' = c

ReturnsAtOnce == UNCHANGED <<cap, running>>

Waits(c, moment) ==
  /\ cap' = [cap EXCEPT ![c].moment = moment, ![c].pc = "waiting", ![c].awaits = running]
  /\ UNCHANGED running

(* Mutants of Called: finalize waits for the slot; apply gives way; nobody
   looks at the slot. *)
CalledFinalizeWaits(c, moment) ==
  IF stopped THEN ReturnsAtOnce
  ELSE IF running # 0 /\ moment \in {"apply", "finalize"} THEN Waits(c, moment)
  ELSE IF running # 0 THEN ReturnsAtOnce
  ELSE Starts(c, moment)
CalledApplyGivesWay(c, moment) ==
  IF stopped \/ (running # 0 /\ moment # "finalize") THEN ReturnsAtOnce ELSE Starts(c, moment)
CalledUnguarded(c, moment) == IF stopped THEN ReturnsAtOnce ELSE Starts(c, moment)

Called(c, moment) ==
  IF stopped THEN ReturnsAtOnce
  ELSE IF running # 0 /\ moment = "apply" THEN Waits(c, moment)
  ELSE IF running # 0 /\ moment # "finalize" THEN ReturnsAtOnce
  ELSE Starts(c, moment)

IdleTimerFires(c) ==
  /\ Quiet
  /\ idleTimer
  /\ idleTimer' = FALSE
  /\ IsFree(c)
  /\ Called(c, "idle")
  /\ UNCHANGED <<document, opened, applyTimer, requests, owed, finalizing>>

(* Without change events a slow poll stands in for the idle timer. *)
PollFires(c) ==
  /\ Quiet
  /\ ~ listening
  /\ IsFree(c)
  /\ Called(c, "idle")
  /\ UNCHANGED <<document, opened, timers, requests, owed, finalizing>>

(* An Apply counts as dealt with when its copy is read or was not to be had:
   capture stopped, the document without an id, Word unable to read. *)
Settle(moment) == owed' = (owed /\ moment # "apply")

ApplyTimerFires(c) ==
  /\ Quiet
  /\ applyTimer
  /\ applyTimer' = FALSE
  /\ IsFree(c)
  /\ Called(c, "apply")
  /\ owed' = (owed /\ ~ stopped /\ cap'[c].pc # "settled")
  /\ UNCHANGED <<document, opened, idleTimer, requests, finalizing>>

(* `while (running) await running', when the promise awaited is settled;
   another capture may have taken the slot meanwhile. *)
WaiterResumes(c) ==
  /\ Woken(c)
  /\ IF running # 0 THEN Waits(c, cap[c].moment)
     ELSE IF stopped THEN cap' = [cap EXCEPT ![c] = Idle] /\ UNCHANGED running
     ELSE Starts(c, cap[c].moment)
  /\ owed' = (owed /\ cap'[c].pc \in {"waiting", "reading"})
  /\ UNCHANGED <<document, opened, timers, requests, finalizing>>

(* History: the clock, for the copy whose date matters. *)
Date(c) == IF cap[c].moment = "finalize" THEN changes ELSE 0

(* What is left of a capture that is over but still in flight. *)
Settled(c) == [Idle EXCEPT !.pc = "settled", !.moment = cap[c].moment]

(* readDocumentForCapture, first sync: both views of the text. *)
WordReadsTexts(c) ==
  /\ Quiet
  /\ cap[c].pc = "reading"
  /\ cap' = [cap EXCEPT ![c].pc = "texts_read", ![c].content = doc, ![c].textsAt = Date(c)]
  /\ Settle(cap[c].moment)
  /\ UNCHANGED <<document, opened, timers, running, requests, finalizing>>

(* Mutant: only the texts are compared. *)
WordReadsTrackedIgnored(c) ==
  /\ Quiet
  /\ cap[c].pc = "texts_read"
  /\ LET content == [cap[c].content EXCEPT !.tracked = doc.tracked]
         skips == /\ cap[c].moment \in {"idle", "apply"}
                  /\ lastSent # Nothing
                  /\ content.text = lastSent.text
     IN  /\ cap' = [cap EXCEPT ![c].pc = IF skips THEN "settled" ELSE "sending",
                               ![c].content = content, ![c].trackedAt = Date(c)]
         /\ handed' = IF skips THEN handed ELSE content
  /\ UNCHANGED <<document, opened, timers, running, stopped, lastSent, lost, owed, finalizing>>

(* Its second sync, and run's next step: idle and apply send only a document
   that is not lastSent.  A list Word cannot read counts as empty. *)
WordReadsTracked(c) ==
  /\ Quiet
  /\ cap[c].pc = "texts_read"
  /\ \E tracked \in {doc.tracked} \cup (IF Failures THEN {FALSE} ELSE {}) :
       LET content == [cap[c].content EXCEPT !.tracked = tracked]
           skips == cap[c].moment \in {"idle", "apply"} /\ content = lastSent
       IN  /\ cap' = [cap EXCEPT ![c].pc = IF skips THEN "settled" ELSE "sending",
                                 ![c].content = content, ![c].trackedAt = Date(c)]
           /\ handed' = IF skips THEN handed ELSE content
  /\ UNCHANGED <<document, opened, timers, running, stopped, lastSent, lost, owed, finalizing>>

ReadFails(c) ==
  /\ Quiet
  /\ Failures
  /\ cap[c].pc = "reading"
  /\ cap' = [cap EXCEPT ![c].pc = "settled"]
  /\ Settle(cap[c].moment)
  /\ UNCHANGED <<document, opened, timers, running, requests, finalizing>>

(* POST /api/document-snapshot, stored or not, answers; it may say that
   capture is disabled. *)
ReplyArrives(c) ==
  /\ Quiet
  /\ cap[c].pc = "sending"
  /\ lastSent' = cap[c].content
  /\ stopped' \in {stopped, stopped \/ Failures}
  /\ cap' = [cap EXCEPT ![c] = Settled(c)]
  /\ UNCHANGED <<document, opened, timers, running, handed, lost, owed, finalizing>>

(* The request, or the reply to it, is lost. *)
SendFails(c) ==
  /\ Quiet
  /\ Failures
  /\ cap[c].pc = "sending"
  /\ cap' = [cap EXCEPT ![c] = Settled(c)]
  /\ lost' = TRUE
  /\ UNCHANGED <<document, opened, timers, running, stopped, lastSent, handed, owed, finalizing>>

(* Mutant: Finalize's own capture leaves the slot taken. *)
LeavesSlotTaken(c) ==
  /\ cap[c].pc = "settled"
  /\ cap' = [cap EXCEPT ![c] = Idle]
  /\ running' = IF running = c /\ cap[c].moment # "finalize" THEN 0 ELSE running
  /\ UNCHANGED <<document, opened, timers, requests, owed, finalizing>>

(* After `await mine': only the capture in the slot frees it. *)
LeavesSlot(c) ==
  /\ cap[c].pc = "settled"
  /\ cap' = [cap EXCEPT ![c] = Idle]
  /\ running' = IF running = c THEN 0 ELSE running
  /\ UNCHANGED <<document, opened, timers, requests, owed, finalizing>>

-----------------------------------------------------------------------------
(* The attorney. *)

(* resolveDocumentId, on the first question, review, flag or condense. *)
DocumentIdMinted ==
  /\ Quiet
  /\ ~ identified
  /\ identified' = TRUE
  /\ UNCHANGED <<document, pane, owed, finalizing>>

Changes(tracked) ==
  /\ Quiet
  /\ changes < MaxChanges
  /\ changes' = changes + 1
  /\ \E text \in Texts : doc' = [text |-> text, tracked |-> tracked]
  /\ idleTimer' = (idleTimer \/ (listening /\ ~ stopped))
  /\ UNCHANGED <<opened, cap, running, requests, finalizing>>

(* Typing, accepting or rejecting a change, undoing: noteChange. *)
Edits ==
  /\ \E tracked \in BOOLEAN : Changes(tracked)
  /\ UNCHANGED <<applyTimer, owed>>

(* An edit card's Apply: the change event, and noteApplied. *)
Applies ==
  /\ Changes(TRUE)
  /\ applyTimer' = (applyTimer \/ ~ stopped)
  /\ owed' = (owed \/ ~ stopped)

-----------------------------------------------------------------------------
(* onFinalize: captureBeforeFinalize, then finalizeDocument. *)

FinalizeClicked(c) ==
  /\ Quiet
  /\ Finalizes
  /\ finalize = "no"
  /\ finalize' = "capturing"
  /\ IsFree(c)
  /\ Called(c, "finalize")
  /\ UNCHANGED <<document, opened, timers, requests, owed, ahead, acceptedAt>>

FinalizeCopies == {c \in Captures : cap[c].moment = "finalize" /\ cap[c].pc # "unused"}

(* withinTime: the copy is done, or FINALIZE_WAIT_MS have passed. *)
FinalizeProceeds ==
  /\ Quiet
  /\ finalize = "capturing"
  /\ finalize' = "accepting"
  /\ ahead' = {c \in Captures : cap[c].pc = "reading"}
  /\ UNCHANGED <<document, identified, pane, owed, acceptedAt>>

WordAccepts ==
  /\ Quiet
  /\ finalize = "accepting"
  /\ \A c \in ahead : cap[c].pc # "reading"
  /\ changes < MaxChanges
  /\ changes' = changes + 1
  /\ doc' = [doc EXCEPT !.tracked = FALSE]
  /\ finalize' = "done" /\ ahead' = {} /\ acceptedAt' = changes + 1
  /\ idleTimer' = (idleTimer \/ (listening /\ ~ stopped))
  /\ UNCHANGED <<opened, applyTimer, cap, running, requests, owed>>

(* Word cannot: the bar shows an error. *)
AcceptFails ==
  /\ Quiet
  /\ Failures
  /\ finalize = "accepting"
  /\ finalize' = "done" /\ ahead' = {}
  /\ UNCHANGED <<document, identified, pane, owed, acceptedAt>>

-----------------------------------------------------------------------------
Continuation(c) == WaiterResumes(c) \/ LeavesSlot(c)

Reply(c) ==
  \/ WordReadsTexts(c) \/ WordReadsTracked(c) \/ ReadFails(c)
  \/ ReplyArrives(c) \/ SendFails(c)

Next ==
  \/ \E c \in Captures : \/ Continuation(c) \/ Reply(c) \/ IdleTimerFires(c) \/ PollFires(c)
                         \/ ApplyTimerFires(c) \/ FinalizeClicked(c)
  \/ DocumentIdMinted \/ Edits \/ Applies \/ FinalizeProceeds \/ WordAccepts \/ AcceptFails

Spec == Init /\ [][Next]_vars

(* Continuations run; Word and the server answer or fail; the event loop serves
   a reply and a timer that is due, whatever else it serves meanwhile.  Neither
   the attorney nor the idle timer has to do anything. *)
FairSpec ==
  /\ Spec
  /\ \A c \in Captures : WF_vars(Continuation(c)) /\ SF_vars(Reply(c))
  /\ SF_vars(\E c \in Captures : ApplyTimerFires(c))

-----------------------------------------------------------------------------
(* Properties. *)

TypeOK ==
  /\ doc \in Document
  /\ changes \in Clock
  /\ opened \in BOOLEAN \X BOOLEAN
  /\ timers \in BOOLEAN \X BOOLEAN
  /\ cap \in [Captures -> Capture]
  /\ running \in {0} \cup Captures
  /\ stopped \in BOOLEAN /\ lost \in BOOLEAN
  /\ lastSent \in Document \cup {Nothing}
  /\ handed \in Document \cup {Nothing}
  /\ owed \in BOOLEAN /\ acceptedAt \in Clock
  /\ finalize \in {"no", "capturing", "accepting", "done"}
  /\ ahead \subseteq Captures

(* Finalize never queues behind a capture: whatever is in flight and whether or
   not its three seconds were enough, the text labelled "finalize" is the
   document from before the accept. *)
FinalizeTextPredatesAccept ==
  \A c \in FinalizeCopies :
    cap[c].pc \in {"texts_read", "sending"} /\ acceptedAt > 0
      => cap[c].textsAt < acceptedAt

(* "The document as it stood before accepting" (FinalizeBar.tsx), of the list
   of tracked changes the same copy carries. *)
FinalizeListPredatesAccept ==
  \A c \in FinalizeCopies :
    cap[c].pc = "sending" /\ acceptedAt > 0
      => cap[c].trackedAt < acceptedAt

InFlight(c) == cap[c].pc \in {"reading", "texts_read", "sending", "settled"}

(* "One capture at a time" (capture), until Finalize is clicked: its capture
   takes the slot from the one in flight and frees it first. *)
OneAtATime ==
  \A c, d \in Captures : finalize = "no" /\ InFlight(c) /\ InFlight(d) => c = d

(* The slot is never left taken by a capture that is over: no later capture
   would run. *)
SlotIsLive == running # 0 => InFlight(running)

(* "idle and apply send only when the document is not what this pane last
   sent": a copy is held back only if the last send carried the same, as long
   as every reply arrived and Finalize was not used.  lastSent is set by the
   reply, after two more awaits of a capture that others may overtake. *)
HeldBackIsLastSent ==
  [][\A c \in Captures :
       ~ lost /\ finalize = "no" /\ cap[c].pc = "texts_read" /\ cap'[c].pc = "settled"
         => cap'[c].content = handed]_vars

(* "The copy this Apply is owed has to be read after it - never dropped":
   whatever is in flight when its timer fires. *)
AppliesAreCopied == owed ~> ~ owed
=============================================================================
