------------------------ MODULE DocumentCaptureProofs ------------------------
(***************************************************************************)
(* What holds of DocumentCapture for every set of texts and every number   *)
(* of changes and captures: the slot is never left taken, captures go one  *)
(* at a time, Finalize's text is the one from before the accept, a copy is *)
(* held back only when its content was sent, and the copy of an Apply is   *)
(* always under way.                                                       *)
(***************************************************************************)
EXTENDS DocumentCapture, TLAPS

-----------------------------------------------------------------------------
(* The invariant. *)

\* Until Finalize takes it, the capture in flight is the one in the slot.
OnlyTheSlotFlies == finalize = "no" => \A c \in Captures : InFlight(c) => c = running

\* Only an apply waits, and never for one that waits: the `while (running)' of capture
\* cannot become a circle.
WaitersFit ==
  \A c \in Captures :
    cap[c].pc = "waiting" =>
      /\ cap[c].moment = "apply"
      /\ cap[c].awaits \in Captures
      /\ cap[cap[c].awaits].pc # "waiting"

\* Finalize's copy: issued at the click, it reads its texts ahead of the accept or
\* stands in Word's queue before it.
FinalizeFits ==
  /\ finalize = "no" => FinalizeCopies = {}
  /\ finalize # "done" => acceptedAt = 0
  /\ \A c \in Captures : cap[c].textsAt <= changes
  /\ \A c \in FinalizeCopies :
       /\ finalize = "accepting" /\ cap[c].pc = "reading" => c \in ahead
       /\ acceptedAt > 0 =>
            /\ cap[c].pc # "reading"
            /\ cap[c].pc \in {"texts_read", "sending"} => cap[c].textsAt < acceptedAt

\* A capture that has read its texts has a document.
CopiesAreRead ==
  \A c \in Captures : cap[c].pc \in {"texts_read", "sending"} => cap[c].content \in Document

\* Until a message is lost or Finalize overtakes, the last send issued is the one in
\* flight, or the one whose reply set lastSent.
SentFits ==
  ~lost /\ finalize = "no" =>
    /\ \A c \in Captures : cap[c].pc = "sending" => cap[c].content = handed
    /\ (\A c \in Captures : cap[c].pc # "sending") => lastSent = handed

\* The copy an Apply is owed is never dropped: its timer runs, or its capture waits
\* for the slot or reads.
OwedIsUnderWay ==
  owed => \/ applyTimer
          \/ \E c \in Captures : cap[c].moment = "apply" /\ cap[c].pc \in {"waiting", "reading"}

IInv == /\ TypeOK /\ SlotIsLive /\ OnlyTheSlotFlies /\ WaitersFit
        /\ FinalizeFits /\ CopiesAreRead /\ SentFits /\ OwedIsUnderWay

-----------------------------------------------------------------------------
(* What the steps do to the captures. *)

Flying == {"reading", "texts_read", "sending", "settled"}

\* Only capture c changes.
Touches(c) ==
  /\ cap' \in [Captures -> Capture]
  /\ \A d \in Captures : d # c => cap'[d] = cap[d]

\* A call takes the slot for c: the slot was free, or the call is Finalize's.
TakesTheSlot(c, moment) ==
  /\ Touches(c)
  /\ running = 0 \/ moment = "finalize"
  /\ ~stopped
  /\ running' = c
  /\ cap'[c].pc \in {"reading", "settled"} /\ cap'[c].moment = moment
  /\ cap'[c].textsAt = cap[c].textsAt

\* An apply queues behind the capture in the slot.
Queues(c, moment) ==
  /\ Touches(c)
  /\ running # 0 /\ moment = "apply"
  /\ running' = running
  /\ cap'[c].pc = "waiting" /\ cap'[c].moment = moment /\ cap'[c].awaits = running
  /\ cap'[c].textsAt = cap[c].textsAt

\* A capture that is over frees its place, and a waiter that gives up.
Ends(c) ==
  /\ Touches(c)
  /\ cap'[c] = Idle

\* Word or the server answers capture c.
Advances(c) ==
  /\ Touches(c)
  /\ running' = running /\ finalizing' = finalizing /\ changes' = changes
  /\ cap'[c].moment = cap[c].moment
  /\ \/ /\ cap[c].pc = "reading" /\ cap'[c].pc = "texts_read"
        /\ cap'[c].textsAt = Date(c) /\ cap'[c].content \in Document
     \/ /\ cap[c].pc = "texts_read" /\ cap'[c].pc \in {"sending", "settled"}
        /\ cap'[c].textsAt = cap[c].textsAt /\ cap'[c].content \in Document
     \/ /\ cap[c].pc \in {"reading", "sending"} /\ cap'[c].pc = "settled"
        /\ cap'[c].textsAt \in {0, cap[c].textsAt}

-----------------------------------------------------------------------------
(* The steps are of these kinds. *)

\* No capture is a value of a capture's place.
LEMMA IdleIsACapture == Idle \in Capture
BY DocumentCaptureAssumption DEF Idle, Capture, PC, Moment, Captures, Clock

\* run(moment) up to its first await.
LEMMA StartsTakes ==
  ASSUME TypeOK, NEW c \in Captures, NEW moment \in Moment, Starts(c, moment),
         running = 0 \/ moment = "finalize", ~stopped
  PROVE  TakesTheSlot(c, moment)
<1> DEFINE r == [cap[c] EXCEPT !.moment = moment, !.awaits = 0,
                               !.pc = IF identified THEN "reading" ELSE "settled"]
<1>1. cap' = [cap EXCEPT ![c] = r] /\ running' = c
  BY DEF Starts
<1>2. cap[c] \in Capture /\ cap \in [Captures -> Capture]
  BY DEF TypeOK
<1>3. /\ r \in Capture /\ r.moment = moment /\ r.pc \in {"reading", "settled"}
      /\ r.textsAt = cap[c].textsAt
  BY <1>2 DEF Capture, PC
<1> HIDE DEF r
<1> QED
  BY <1>1, <1>2, <1>3 DEF TakesTheSlot, Touches

\* An apply that finds the slot taken.
LEMMA WaitsQueues ==
  ASSUME TypeOK, NEW c \in Captures, Waits(c, "apply"), running # 0
  PROVE  Queues(c, "apply")
<1> DEFINE r == [cap[c] EXCEPT !.moment = "apply", !.pc = "waiting", !.awaits = running]
<1>1. cap' = [cap EXCEPT ![c] = r] /\ running' = running
  BY DEF Waits
<1>2. cap[c] \in Capture /\ cap \in [Captures -> Capture] /\ running \in Captures
  BY DEF TypeOK
<1>3. /\ r \in Capture /\ r.moment = "apply" /\ r.pc = "waiting" /\ r.awaits = running
      /\ r.textsAt = cap[c].textsAt
  BY <1>2 DEF Capture, PC, Moment
<1> HIDE DEF r
<1> QED
  BY <1>1, <1>2, <1>3 DEF Queues, Touches

\* capture(moment): it gives way, queues or takes the slot.
LEMMA CalledKinds ==
  ASSUME TypeOK, NEW c \in Captures, NEW moment \in Moment, Called(c, moment)
  PROVE  \/ UNCHANGED <<cap, running>> /\ (stopped \/ (running # 0 /\ moment # "apply"))
         \/ Queues(c, moment)
         \/ TakesTheSlot(c, moment)
<1>1. CASE stopped
  BY <1>1 DEF Called, ReturnsAtOnce
<1>2. CASE ~stopped /\ running # 0 /\ moment = "apply"
  BY <1>2, WaitsQueues DEF Called
<1>3. CASE ~stopped /\ running # 0 /\ moment \notin {"apply", "finalize"}
  BY <1>3 DEF Called, ReturnsAtOnce
<1>4. CASE ~stopped /\ (running = 0 \/ moment = "finalize")
  BY <1>4, StartsTakes DEF Called
<1> QED
  BY <1>1, <1>2, <1>3, <1>4

\* A waiter that is woken: it queues again, gives up or takes the slot.
LEMMA ResumesKinds ==
  ASSUME TypeOK, WaitersFit, NEW c \in Captures, WaiterResumes(c)
  PROVE  \/ Queues(c, "apply")
         \/ Ends(c) /\ running' = running
         \/ TakesTheSlot(c, "apply")
<1>1. cap[c].moment = "apply" /\ "apply" \in Moment
  BY DEF WaiterResumes, Woken, WaitersFit, Moment
<1>2. CASE running # 0
  BY <1>1, <1>2, WaitsQueues DEF WaiterResumes
<1>3. CASE running = 0 /\ stopped
  BY <1>3, IdleIsACapture DEF WaiterResumes, Ends, Touches, TypeOK
<1>4. CASE running = 0 /\ ~stopped
  BY <1>1, <1>4, StartsTakes DEF WaiterResumes
<1> QED
  BY <1>2, <1>3, <1>4

\* The answers of Word and of the server.
LEMMA ReplyAdvances ==
  ASSUME TypeOK, CopiesAreRead, NEW c \in Captures, Reply(c)
  PROVE  Advances(c)
<1>0. cap[c] \in Capture /\ cap \in [Captures -> Capture] /\ changes \in Clock /\ doc \in Document
  BY DEF TypeOK
<1>1. Date(c) \in Clock /\ 0 \in Clock
  BY <1>0, DocumentCaptureAssumption DEF Date, Clock
<1>2. ASSUME NEW r \in Capture, cap' = [cap EXCEPT ![c] = r]
      PROVE  Touches(c) /\ cap'[c] = r
  BY <1>0, <1>2 DEF Touches
<1>3. CASE WordReadsTexts(c)
  <2> DEFINE r == [cap[c] EXCEPT !.pc = "texts_read", !.content = doc, !.textsAt = Date(c)]
  <2>1. cap' = [cap EXCEPT ![c] = r] /\ cap[c].pc = "reading"
    BY <1>3 DEF WordReadsTexts
  <2>2. /\ r \in Capture /\ r.moment = cap[c].moment /\ r.pc = "texts_read"
        /\ r.textsAt = Date(c) /\ r.content = doc
    BY <1>0, <1>1 DEF Capture, PC
  <2> HIDE DEF r
  <2> QED
    BY <1>0, <1>2, <1>3, <2>1, <2>2 DEF Advances, WordReadsTexts, document, finalizing
<1>4. CASE WordReadsTracked(c)
  <2>1. PICK tracked \in {doc.tracked} \cup (IF Failures THEN {FALSE} ELSE {}) :
          LET content == [cap[c].content EXCEPT !.tracked = tracked]
              skips == cap[c].moment \in {"idle", "apply"} /\ content = lastSent
          IN  cap' = [cap EXCEPT ![c].pc = IF skips THEN "settled" ELSE "sending",
                                 ![c].content = content, ![c].trackedAt = Date(c)]
    BY <1>4 DEF WordReadsTracked
  <2> DEFINE content == [cap[c].content EXCEPT !.tracked = tracked]
             skips == cap[c].moment \in {"idle", "apply"} /\ content = lastSent
             pc == IF skips THEN "settled" ELSE "sending"
             r == [cap[c] EXCEPT !.pc = pc, !.content = content, !.trackedAt = Date(c)]
  <2>2. cap' = [cap EXCEPT ![c] = r] /\ cap[c].pc = "texts_read"
    BY <1>4, <2>1 DEF WordReadsTracked
  <2>3. content \in Document
    <3>1. cap[c].content \in Document /\ tracked \in BOOLEAN
      BY <1>0, <2>2 DEF CopiesAreRead, Document
    <3> QED
      BY <3>1 DEF Document
  <2>4. pc \in {"settled", "sending"}
    OBVIOUS
  <2> HIDE DEF content, pc
  <2>5. /\ r \in Capture /\ r.moment = cap[c].moment /\ r.pc = pc
        /\ r.textsAt = cap[c].textsAt /\ r.content = content
    BY <1>0, <1>1, <2>3, <2>4 DEF Capture, PC
  <2> HIDE DEF r
  <2> QED
    BY <1>0, <1>2, <1>4, <2>2, <2>3, <2>4, <2>5 DEF Advances, WordReadsTracked, document, finalizing
<1>5. CASE ReadFails(c)
  <2> DEFINE r == [cap[c] EXCEPT !.pc = "settled"]
  <2>1. cap' = [cap EXCEPT ![c] = r] /\ cap[c].pc = "reading"
    BY <1>5 DEF ReadFails
  <2>2. /\ r \in Capture /\ r.moment = cap[c].moment /\ r.pc = "settled"
        /\ r.textsAt = cap[c].textsAt
    BY <1>0 DEF Capture, PC
  <2> HIDE DEF r
  <2> QED
    BY <1>0, <1>2, <1>5, <2>1, <2>2 DEF Advances, ReadFails, document, finalizing
<1>6. CASE ReplyArrives(c) \/ SendFails(c)
  <2>1. cap' = [cap EXCEPT ![c] = Settled(c)] /\ cap[c].pc = "sending"
    BY <1>6 DEF ReplyArrives, SendFails
  <2>2. /\ Settled(c) \in Capture /\ Settled(c).moment = cap[c].moment
        /\ Settled(c).pc = "settled" /\ Settled(c).textsAt = 0
    BY <1>0, <1>1, IdleIsACapture DEF Settled, Idle, Capture, PC
  <2> QED
    BY <1>0, <1>2, <1>6, <2>1, <2>2 DEF Advances, ReplyArrives, SendFails, document, finalizing
<1> QED
  BY <1>3, <1>4, <1>5, <1>6 DEF Reply

\* run after its second read: it sends what it read, or holds it back because it is
\* lastSent.
LEMMA TrackedOutcome ==
  ASSUME TypeOK, NEW c \in Captures, WordReadsTracked(c)
  PROVE  /\ lastSent' = lastSent
         /\ \/ cap'[c].pc = "sending" /\ handed' = cap'[c].content
            \/ cap'[c].pc = "settled" /\ handed' = handed /\ cap'[c].content = lastSent
<1>0. cap[c] \in Capture /\ cap \in [Captures -> Capture]
  BY DEF TypeOK
<1>1. PICK tracked \in {doc.tracked} \cup (IF Failures THEN {FALSE} ELSE {}) :
        LET content == [cap[c].content EXCEPT !.tracked = tracked]
            skips == cap[c].moment \in {"idle", "apply"} /\ content = lastSent
        IN  /\ cap' = [cap EXCEPT ![c].pc = IF skips THEN "settled" ELSE "sending",
                                  ![c].content = content, ![c].trackedAt = Date(c)]
            /\ handed' = IF skips THEN handed ELSE content
  BY DEF WordReadsTracked
<1> DEFINE content == [cap[c].content EXCEPT !.tracked = tracked]
           skips == cap[c].moment \in {"idle", "apply"} /\ content = lastSent
           pc == IF skips THEN "settled" ELSE "sending"
           r == [cap[c] EXCEPT !.pc = pc, !.content = content, !.trackedAt = Date(c)]
<1>2. cap' = [cap EXCEPT ![c] = r] /\ handed' = IF skips THEN handed ELSE content
  BY <1>1
<1>3. \/ skips /\ pc = "settled" /\ content = lastSent
      \/ ~skips /\ pc = "sending"
  OBVIOUS
<1> HIDE DEF content, pc, skips
<1>4. r.pc = pc /\ r.content = content
  BY <1>0 DEF Capture
<1> HIDE DEF r
<1> QED
  BY <1>0, <1>2, <1>3, <1>4 DEF WordReadsTracked

\* A capture that is over.
LEMMA LeavesEnds ==
  ASSUME TypeOK, NEW c \in Captures, LeavesSlot(c)
  PROVE  Ends(c) /\ cap[c].pc = "settled"
BY IdleIsACapture DEF LeavesSlot, Ends, Touches, TypeOK

-----------------------------------------------------------------------------
(* A step of the system, as far as the captures and Finalize are concerned. *)

Calls(c, moment) ==
  /\ Quiet /\ IsFree(c)
  /\ Queues(c, moment) \/ TakesTheSlot(c, moment)
  /\ changes' = changes /\ UNCHANGED <<ahead, acceptedAt>>
  /\ \/ moment # "finalize" /\ finalize' = finalize
     \/ moment = "finalize" /\ finalize = "no" /\ finalize' = "capturing"

Resumes(c) ==
  /\ Woken(c)
  /\ \/ Queues(c, "apply")
     \/ Ends(c) /\ running' = running
     \/ TakesTheSlot(c, "apply")
  /\ changes' = changes /\ finalizing' = finalizing

Leaves(c) ==
  /\ Ends(c) /\ cap[c].pc = "settled"
  /\ running' = IF running = c THEN 0 ELSE running
  /\ changes' = changes /\ finalizing' = finalizing

\* The attorney's steps, Word's accept, and the calls that give way.
Stays ==
  /\ UNCHANGED <<cap, running>>
  /\ \/ UNCHANGED finalizing /\ changes' \in {changes, changes + 1}
     \/ finalize = "no" /\ finalize' = "capturing" /\ UNCHANGED <<changes, ahead, acceptedAt>>
     \/ FinalizeProceeds \/ WordAccepts \/ AcceptFails

\* Every step is of one of these kinds.
LEMMA StepKinds ==
  ASSUME TypeOK, WaitersFit, CopiesAreRead, [Next]_vars
  PROVE  \/ Stays
         \/ \E c \in Captures, moment \in Moment : Calls(c, moment)
         \/ \E c \in Captures : Resumes(c) \/ Leaves(c) \/ (Reply(c) /\ Advances(c))
<1>1. CASE UNCHANGED vars
  BY <1>1 DEF vars, pane, finalizing, document, Stays
<1>2. ASSUME NEW c \in Captures, IdleTimerFires(c) \/ PollFires(c) \/ ApplyTimerFires(c)
      PROVE  Stays \/ \E moment \in Moment : Calls(c, moment)
  <2>1. PICK moment \in {"idle", "apply"} : Called(c, moment)
    BY <1>2 DEF IdleTimerFires, PollFires, ApplyTimerFires
  <2>2. Quiet /\ IsFree(c) /\ changes' = changes /\ finalizing' = finalizing
    BY <1>2 DEF IdleTimerFires, PollFires, ApplyTimerFires, document
  <2>3. moment \in Moment /\ moment # "finalize"
    BY DEF Moment
  <2>4. CASE UNCHANGED <<cap, running>>
    BY <2>2, <2>4 DEF Stays
  <2>5. CASE Queues(c, moment) \/ TakesTheSlot(c, moment)
    BY <2>2, <2>3, <2>5 DEF Calls, finalizing
  <2> QED
    BY <2>1, <2>3, <2>4, <2>5, CalledKinds
<1>3. ASSUME NEW c \in Captures, FinalizeClicked(c)
      PROVE  Stays \/ Calls(c, "finalize")
  <2>1. Called(c, "finalize") /\ "finalize" \in Moment
    BY <1>3 DEF FinalizeClicked, Moment
  <2>2. /\ Quiet /\ IsFree(c) /\ UNCHANGED <<changes, ahead, acceptedAt>>
        /\ finalize = "no" /\ finalize' = "capturing"
    BY <1>3 DEF FinalizeClicked, document
  <2>3. CASE UNCHANGED <<cap, running>>
    BY <2>2, <2>3 DEF Stays
  <2>4. CASE Queues(c, "finalize") \/ TakesTheSlot(c, "finalize")
    BY <2>2, <2>4 DEF Calls
  <2> QED
    BY <2>1, <2>3, <2>4, CalledKinds
<1>4. ASSUME NEW c \in Captures, WaiterResumes(c)
      PROVE  Resumes(c)
  <2>1. Woken(c) /\ changes' = changes /\ finalizing' = finalizing
    BY <1>4 DEF WaiterResumes, document
  <2> QED
    BY <1>4, <2>1, ResumesKinds DEF Resumes
<1>5. ASSUME NEW c \in Captures, LeavesSlot(c)
      PROVE  Leaves(c)
  <2>1. /\ running' = IF running = c THEN 0 ELSE running
        /\ changes' = changes /\ finalizing' = finalizing
    BY <1>5 DEF LeavesSlot, document
  <2> QED
    BY <1>5, <2>1, LeavesEnds DEF Leaves
<1>6. CASE DocumentIdMinted \/ Edits \/ Applies
  BY <1>6 DEF DocumentIdMinted, Edits, Applies, Changes, Stays, pane, document, finalizing
<1>7. CASE FinalizeProceeds \/ WordAccepts \/ AcceptFails
  BY <1>7 DEF FinalizeProceeds, WordAccepts, AcceptFails, Stays, pane
<1> QED
  BY <1>1, <1>2, <1>3, <1>4, <1>5, <1>6, <1>7, ReplyAdvances, "finalize" \in Moment
  DEF Next, Continuation, Moment

-----------------------------------------------------------------------------
(* The slot. *)

\* Finalize is clicked once, and never unclicked.
LEMMA FinalizeIsFinal ==
  ASSUME Stays
  PROVE  finalize' = "no" => finalize = "no"
BY DEF Stays, FinalizeProceeds, WordAccepts, AcceptFails, finalizing

\* The slot is held by a capture in flight, that capture is the only one until Finalize
\* is clicked, and nobody waits for a waiter.
LEMMA SlotStep ==
  ASSUME IInv, [Next]_vars
  PROVE  SlotIsLive' /\ OnlyTheSlotFlies' /\ WaitersFit'
<1> USE DEF IInv
<1>0. cap \in [Captures -> Capture] /\ running \in {0} \cup Captures /\ 0 \notin Captures
  BY DEF TypeOK, Captures
<1>1. CASE Stays
  BY <1>0, <1>1, FinalizeIsFinal
  DEF Stays, SlotIsLive, OnlyTheSlotFlies, WaitersFit, InFlight
<1>2. ASSUME NEW c \in Captures, NEW moment \in Moment,
             cap[c].pc \notin Flying,
             \A d \in Captures : cap[d].pc = "waiting" => cap[d].awaits # c,
             Queues(c, moment) \/ TakesTheSlot(c, moment),
             finalize' = "no" => finalize = "no" /\ moment # "finalize"
      PROVE  SlotIsLive' /\ OnlyTheSlotFlies' /\ WaitersFit'
  <2>1. running # c
    BY <1>0, <1>2 DEF SlotIsLive, InFlight, Flying
  <2>2. CASE Queues(c, moment)
    <3>1. SlotIsLive' /\ OnlyTheSlotFlies'
      BY <1>0, <1>2, <2>1, <2>2 DEF Queues, Touches, SlotIsLive, OnlyTheSlotFlies, InFlight
    <3>2. running \in Captures /\ cap'[running].pc # "waiting"
      BY <1>0, <2>1, <2>2 DEF Queues, Touches, SlotIsLive, InFlight
    <3>3. ASSUME NEW d \in Captures, cap'[d].pc = "waiting"
          PROVE  /\ cap'[d].moment = "apply" /\ cap'[d].awaits \in Captures
                 /\ cap'[cap'[d].awaits].pc # "waiting"
      <4>1. CASE d = c
        BY <2>2, <3>2, <4>1 DEF Queues
      <4>2. CASE d # c
        <5>1. cap'[d] = cap[d] /\ cap[d].awaits \in Captures \ {c}
          BY <1>2, <2>2, <3>3, <4>2 DEF Queues, Touches, WaitersFit
        <5>2. cap'[cap[d].awaits] = cap[cap[d].awaits]
          BY <2>2, <5>1 DEF Queues, Touches
        <5> QED
          BY <3>3, <5>1, <5>2 DEF WaitersFit
      <4> QED
        BY <4>1, <4>2
    <3> QED
      BY <3>1, <3>3 DEF WaitersFit
  <2>3. CASE TakesTheSlot(c, moment)
    <3>1. SlotIsLive' /\ OnlyTheSlotFlies'
      BY <1>0, <1>2, <2>3 DEF TakesTheSlot, Touches, SlotIsLive, OnlyTheSlotFlies, InFlight
    <3>2. WaitersFit'
      BY <1>0, <1>2, <2>3 DEF TakesTheSlot, Touches, WaitersFit
    <3> QED
      BY <3>1, <3>2
  <2> QED
    BY <1>2, <2>2, <2>3
<1>3. ASSUME NEW c \in Captures, NEW moment \in Moment, Calls(c, moment)
      PROVE  SlotIsLive' /\ OnlyTheSlotFlies' /\ WaitersFit'
  <2>1. cap[c].pc = "unused" /\ \A d \in Captures : cap[d].pc = "waiting" => cap[d].awaits # c
    BY <1>3 DEF Calls, Quiet, Woken, IsFree
  <2> QED
    BY <1>2, <1>3, <2>1 DEF Calls, Flying
<1>4. ASSUME NEW c \in Captures, Ends(c), cap[c].pc \in {"waiting", "settled"},
             running' = IF running = c THEN 0 ELSE running, finalize' = finalize
      PROVE  SlotIsLive' /\ OnlyTheSlotFlies' /\ WaitersFit'
  BY <1>0, <1>4 DEF Ends, Idle, Touches, SlotIsLive, OnlyTheSlotFlies, WaitersFit, InFlight
<1>5. ASSUME NEW c \in Captures, Resumes(c)
      PROVE  SlotIsLive' /\ OnlyTheSlotFlies' /\ WaitersFit'
  <2>1. cap[c].pc = "waiting" /\ \A d \in Captures : cap[d].pc = "waiting" => cap[d].awaits # c
    BY <1>5 DEF Resumes, Woken, WaitersFit
  <2>2. finalize' = finalize
    BY <1>5 DEF Resumes, finalizing
  <2>3. CASE Ends(c) /\ running' = running
    BY <1>0, <1>4, <2>1, <2>2, <2>3 DEF SlotIsLive, InFlight
  <2>4. CASE Queues(c, "apply") \/ TakesTheSlot(c, "apply")
    BY <1>2, <2>1, <2>2, <2>4 DEF Moment, Flying
  <2> QED
    BY <1>5, <2>3, <2>4 DEF Resumes
<1>6. ASSUME NEW c \in Captures, Leaves(c)
      PROVE  SlotIsLive' /\ OnlyTheSlotFlies' /\ WaitersFit'
  BY <1>4, <1>6 DEF Leaves, finalizing
<1>7. ASSUME NEW c \in Captures, Advances(c)
      PROVE  SlotIsLive' /\ OnlyTheSlotFlies' /\ WaitersFit'
  BY <1>0, <1>7
  DEF Advances, Touches, finalizing, SlotIsLive, OnlyTheSlotFlies, WaitersFit, InFlight
<1> QED
  BY <1>1, <1>3, <1>5, <1>6, <1>7, StepKinds

-----------------------------------------------------------------------------
(* Finalize's copy. *)

\* Its texts are read before the accept: ahead of it, or standing in Word's queue
\* before it.
LEMMA FinalizeStep ==
  ASSUME IInv, [Next]_vars
  PROVE  FinalizeFits' /\ CopiesAreRead'
<1> USE DEF IInv
<1>0. /\ cap \in [Captures -> Capture] /\ changes \in Nat
      /\ \A c \in Captures : cap[c].textsAt \in Nat
  BY DocumentCaptureAssumption DEF TypeOK, Clock, Capture
<1>1. CASE Stays
  <2>1. CopiesAreRead'
    BY <1>1 DEF Stays, CopiesAreRead
  <2>2. CASE ~(FinalizeProceeds \/ WordAccepts \/ AcceptFails)
    <3>1. /\ cap' = cap /\ UNCHANGED <<ahead, acceptedAt>> /\ changes' \in {changes, changes + 1}
          /\ finalize' = finalize \/ (finalize = "no" /\ finalize' = "capturing")
      BY <1>1, <2>2 DEF Stays, finalizing
    <3> QED
      BY <1>0, <2>1, <3>1 DEF FinalizeFits, FinalizeCopies
  <2>3. CASE FinalizeProceeds
    BY <1>0, <1>1, <2>1, <2>3 DEF Stays, FinalizeProceeds, document, FinalizeFits, FinalizeCopies
  <2>4. CASE WordAccepts
    <3>1. /\ cap' = cap /\ finalize' = "done" /\ acceptedAt' = changes + 1 /\ changes' = changes + 1
          /\ \A c \in FinalizeCopies : cap[c].pc # "reading" /\ cap[c].textsAt <= changes
      BY <1>1, <2>4 DEF Stays, WordAccepts, FinalizeFits, FinalizeCopies
    <3> QED
      BY <1>0, <2>1, <3>1 DEF FinalizeFits, FinalizeCopies
  <2>5. CASE AcceptFails
    BY <1>0, <1>1, <2>1, <2>5 DEF Stays, AcceptFails, document, FinalizeFits, FinalizeCopies
  <2> QED
    BY <2>2, <2>3, <2>4, <2>5
<1>2. ASSUME NEW c \in Captures, Touches(c), UNCHANGED <<changes, ahead, acceptedAt>>,
             finalize' = finalize, cap'[c].moment # "finalize" \/ cap'[c].pc = "unused",
             cap'[c].textsAt \in {0, cap[c].textsAt},
             cap'[c].pc \notin {"texts_read", "sending"}
      PROVE  FinalizeFits' /\ CopiesAreRead'
  BY <1>0, <1>2 DEF Touches, FinalizeFits, FinalizeCopies, CopiesAreRead
<1>3. ASSUME NEW c \in Captures, NEW moment \in Moment, Calls(c, moment)
      PROVE  FinalizeFits' /\ CopiesAreRead'
  <2>1. CASE moment # "finalize"
    BY <1>2, <1>3, <2>1 DEF Calls, Queues, TakesTheSlot
  <2>2. CASE moment = "finalize"
    <3>1. /\ TakesTheSlot(c, "finalize") /\ finalize = "no" /\ finalize' = "capturing"
          /\ UNCHANGED <<changes, ahead, acceptedAt>> /\ acceptedAt = 0
      BY <1>3, <2>2 DEF Calls, Queues, FinalizeFits
    <3> QED
      BY <1>0, <3>1 DEF TakesTheSlot, Touches, FinalizeFits, FinalizeCopies, CopiesAreRead
  <2> QED
    BY <2>1, <2>2
<1>4. ASSUME NEW c \in Captures, Resumes(c)
      PROVE  FinalizeFits' /\ CopiesAreRead'
  BY <1>2, <1>4 DEF Resumes, Queues, TakesTheSlot, Ends, Idle, finalizing
<1>5. ASSUME NEW c \in Captures, Leaves(c)
      PROVE  FinalizeFits' /\ CopiesAreRead'
  BY <1>2, <1>5 DEF Leaves, Ends, Idle, finalizing
<1>6. ASSUME NEW c \in Captures, Advances(c)
      PROVE  FinalizeFits' /\ CopiesAreRead'
  <2>1. /\ UNCHANGED <<changes, finalize, ahead, acceptedAt>>
        /\ \A d \in Captures : d # c => cap'[d] = cap[d]
        /\ cap'[c].moment = cap[c].moment
    BY <1>6 DEF Advances, Touches, finalizing
  <2>2. c \in FinalizeCopies' => c \in FinalizeCopies
    BY <1>6, <2>1 DEF Advances, FinalizeCopies
  <2>3. CASE cap[c].pc = "reading" /\ cap'[c].pc = "texts_read" /\ cap'[c].textsAt = Date(c)
             /\ cap'[c].content \in Document
    BY <1>0, <2>1, <2>2, <2>3 DEF Date, FinalizeFits, FinalizeCopies, CopiesAreRead
  <2>4. CASE cap[c].pc = "texts_read" /\ cap'[c].pc \in {"sending", "settled"}
             /\ cap'[c].textsAt = cap[c].textsAt /\ cap'[c].content \in Document
    BY <1>0, <2>1, <2>2, <2>4 DEF FinalizeFits, FinalizeCopies, CopiesAreRead
  <2>5. CASE cap'[c].pc = "settled" /\ cap'[c].textsAt \in {0, cap[c].textsAt}
    BY <1>0, <2>1, <2>2, <2>5 DEF FinalizeFits, FinalizeCopies, CopiesAreRead
  <2> QED
    BY <1>6, <2>3, <2>4, <2>5 DEF Advances
<1> QED
  BY <1>1, <1>3, <1>4, <1>5, <1>6, StepKinds

-----------------------------------------------------------------------------
(* What was sent. *)

\* handed is what the last send carried; lastSent becomes it with the reply, before
\* another capture can send.
LEMMA SentStep ==
  ASSUME IInv, [Next]_vars
  PROVE  SentFits'
<1> USE DEF IInv
<1>0. cap \in [Captures -> Capture]
  BY DEF TypeOK
<1> SUFFICES ASSUME ~lost', finalize' = "no"
             PROVE  /\ \A c \in Captures : cap'[c].pc = "sending" => cap'[c].content = handed'
                    /\ (\A c \in Captures : cap'[c].pc # "sending") => lastSent' = handed'
  BY DEF SentFits
<1>1. finalize = "no"
  <2>1. CASE Stays
    BY <2>1, FinalizeIsFinal
  <2> QED
    BY <2>1, StepKinds DEF Calls, Resumes, Leaves, Advances, finalizing
<1>2. ASSUME UNCHANGED <<lastSent, handed, lost>>,
             \A c \in Captures : cap'[c].pc = "sending" <=> cap[c].pc = "sending",
             \A c \in Captures : cap[c].pc = "sending" => cap'[c] = cap[c]
      PROVE  /\ \A c \in Captures : cap'[c].pc = "sending" => cap'[c].content = handed'
             /\ (\A c \in Captures : cap'[c].pc # "sending") => lastSent' = handed'
  BY <1>1, <1>2 DEF SentFits
<1>3. CASE UNCHANGED <<lastSent, handed, lost>> /\ Stays
  BY <1>2, <1>3 DEF Stays
<1>4. CASE UNCHANGED <<lastSent, handed, lost>>
           /\ \E c \in Captures, moment \in Moment : Calls(c, moment)
  BY <1>2, <1>4 DEF Calls, IsFree, Queues, TakesTheSlot, Touches
<1>5. CASE UNCHANGED <<lastSent, handed, lost>> /\ \E c \in Captures : Resumes(c) \/ Leaves(c)
  BY <1>2, <1>5 DEF Resumes, Leaves, Woken, Queues, TakesTheSlot, Ends, Touches, Idle
<1>6. ASSUME NEW c \in Captures, WordReadsTexts(c) \/ ReadFails(c)
      PROVE  UNCHANGED <<lastSent, handed, lost>> /\ cap'[c].pc # "sending" /\ cap[c].pc # "sending"
             /\ Touches(c)
  BY <1>0, <1>6, ReplyAdvances DEF WordReadsTexts, ReadFails, requests, Reply, Advances
<1>7. ASSUME NEW c \in Captures, WordReadsTracked(c)
      PROVE  /\ \A d \in Captures : cap'[d].pc = "sending" => cap'[d].content = handed'
             /\ (\A d \in Captures : cap'[d].pc # "sending") => lastSent' = handed'
  <2>1. \A d \in Captures : d # c => cap'[d] = cap[d] /\ cap[d].pc # "sending"
    BY <1>1, <1>7, ReplyAdvances
    DEF Reply, Advances, Touches, WordReadsTracked, OnlyTheSlotFlies, InFlight
  <2>2. lastSent = handed /\ lastSent' = lastSent
    <3>1. \A d \in Captures : cap[d].pc # "sending"
      BY <1>7, <2>1 DEF WordReadsTracked
    <3> QED
      BY <1>1, <1>7, <3>1 DEF SentFits, WordReadsTracked
  <2>3. \/ cap'[c].pc = "sending" /\ cap'[c].content = handed'
        \/ cap'[c].pc = "settled" /\ handed' = handed
    BY <1>7, TrackedOutcome
  <2> QED
    BY <2>1, <2>2, <2>3
<1>8. ASSUME NEW c \in Captures, ReplyArrives(c)
      PROVE  /\ \A d \in Captures : cap'[d].pc = "sending" => cap'[d].content = handed'
             /\ (\A d \in Captures : cap'[d].pc # "sending") => lastSent' = handed'
  <2>1. \A d \in Captures : d # c => cap'[d] = cap[d] /\ cap[d].pc # "sending"
    BY <1>1, <1>8, ReplyAdvances
    DEF Reply, Advances, Touches, ReplyArrives, OnlyTheSlotFlies, InFlight
  <2>2. lastSent' = handed /\ handed' = handed
    BY <1>1, <1>8 DEF SentFits, ReplyArrives
  <2>3. cap'[c].pc = "settled"
    BY <1>8, ReplyAdvances DEF Reply, Advances, ReplyArrives
  <2> QED
    BY <2>1, <2>2, <2>3
<1>9. CASE \E c \in Captures : SendFails(c)
  BY <1>9 DEF SendFails
<1>10. CASE \E c \in Captures : Reply(c)
  BY <1>2, <1>6, <1>7, <1>8, <1>9, <1>10 DEF Reply, Touches
<1>11. CASE ~ \E c \in Captures : Reply(c)
  <2>1. UNCHANGED <<lastSent, handed, lost>>
    BY <1>11 DEF Next, vars, pane, requests, Continuation, WaiterResumes, LeavesSlot, IdleTimerFires,
                PollFires, ApplyTimerFires, FinalizeClicked, DocumentIdMinted, Edits, Applies,
                Changes, FinalizeProceeds, WordAccepts, AcceptFails
  <2> QED
    BY <1>3, <1>4, <1>5, <1>11, <2>1, StepKinds
<1> QED
  BY <1>10, <1>11

-----------------------------------------------------------------------------
(* What an Apply is owed. *)

\* Its copy is under way until it is read or was not to be had.
LEMMA OwedStep ==
  ASSUME IInv, [Next]_vars
  PROVE  OwedIsUnderWay'
<1> USE DEF IInv
<1> DEFINE UnderWay(c) == cap[c].moment = "apply" /\ cap[c].pc \in {"waiting", "reading"}
<1>0. cap \in [Captures -> Capture]
  BY DEF TypeOK
<1>1. CASE (owed' => owed) /\ applyTimer' = applyTimer /\ \A c \in Captures : UnderWay(c) => UnderWay(c)'
  BY <1>1 DEF OwedIsUnderWay
<1>2. ASSUME NEW c \in Captures, NEW moment \in Moment, Calls(c, moment)
      PROVE  /\ \A d \in Captures : UnderWay(d) => UnderWay(d)'
             /\ moment = "apply" /\ cap'[c].pc # "settled" => UnderWay(c)'
  BY <1>2 DEF Calls, IsFree, Queues, TakesTheSlot, Touches
<1>3. CASE \E c \in Captures : IdleTimerFires(c) \/ PollFires(c) \/ FinalizeClicked(c)
  <2>1. PICK c \in Captures, moment \in Moment : Called(c, moment) /\ IsFree(c)
    BY <1>3 DEF IdleTimerFires, PollFires, FinalizeClicked, Moment
  <2>2. \A d \in Captures : UnderWay(d) => UnderWay(d)'
    BY <2>1, CalledKinds DEF IsFree, Queues, TakesTheSlot, Touches
  <2> QED
    BY <1>1, <1>3, <2>2 DEF IdleTimerFires, PollFires, FinalizeClicked, timers
<1>4. ASSUME NEW c \in Captures, ApplyTimerFires(c), owed'
      PROVE  UnderWay(c)'
  <2>1. Called(c, "apply") /\ "apply" \in Moment /\ ~stopped /\ cap'[c].pc # "settled"
    BY <1>4 DEF ApplyTimerFires, Moment
  <2> QED
    BY <2>1, CalledKinds DEF Queues, TakesTheSlot
<1>5. ASSUME NEW c \in Captures, WaiterResumes(c), owed'
      PROVE  UnderWay(c)'
  <2>1. cap'[c].pc \in {"waiting", "reading"}
    BY <1>5 DEF WaiterResumes
  <2> QED
    BY <1>5, <2>1, ResumesKinds DEF Queues, TakesTheSlot, Ends, Idle
<1>6. ASSUME NEW c \in Captures, Reply(c)
      PROVE  OwedIsUnderWay'
  <2>1. /\ \A d \in Captures : d # c => cap'[d] = cap[d]
        /\ cap[c].pc # "waiting"
    BY <1>6, ReplyAdvances DEF Advances, Touches
  <2>2. CASE UnderWay(c)
    <3>1. WordReadsTexts(c) \/ ReadFails(c)
      BY <1>6, <2>2 DEF Reply, WordReadsTracked, ReplyArrives, SendFails
    <3>2. owed' = FALSE
      BY <2>2, <3>1 DEF WordReadsTexts, ReadFails, Settle, TypeOK
    <3> QED
      BY <3>2 DEF OwedIsUnderWay
  <2>3. CASE ~UnderWay(c)
    <3>1. applyTimer' = applyTimer
      BY <1>6 DEF Reply, WordReadsTexts, WordReadsTracked, ReadFails, ReplyArrives, SendFails, timers
    <3>2. CASE owed' = owed
      BY <1>1, <2>1, <2>3, <3>1, <3>2
    <3>3. CASE Settle(cap[c].moment)
      BY <1>1, <2>1, <2>3, <3>1, <3>3 DEF Settle
    <3> QED
      BY <1>6, <3>2, <3>3
      DEF Reply, WordReadsTexts, WordReadsTracked, ReadFails, ReplyArrives, SendFails
  <2> QED
    BY <2>2, <2>3
<1>7. ASSUME NEW c \in Captures, LeavesSlot(c)
      PROVE  OwedIsUnderWay'
  <2>1. \A d \in Captures : UnderWay(d) => UnderWay(d)'
    BY <1>7, LeavesEnds DEF Ends, Touches
  <2> QED
    BY <1>1, <1>7, <2>1 DEF LeavesSlot, timers
<1>8. CASE \/ UNCHANGED vars \/ DocumentIdMinted \/ Edits
           \/ FinalizeProceeds \/ WordAccepts \/ AcceptFails
  BY <1>1, <1>8 DEF vars, pane, timers, DocumentIdMinted, Edits, Changes, FinalizeProceeds,
                    WordAccepts, AcceptFails
<1>9. CASE Applies
  <2>1. cap' = cap /\ applyTimer' = (applyTimer \/ ~stopped) /\ owed' = (owed \/ ~stopped)
    BY <1>9 DEF Applies, Changes
  <2> QED
    BY <2>1 DEF OwedIsUnderWay
<1> QED
  BY <1>3, <1>4, <1>5, <1>6, <1>7, <1>8, <1>9 DEF Next, Continuation, OwedIsUnderWay

-----------------------------------------------------------------------------
(* The theorems. *)

\* Every step keeps every variable in its set.
LEMMA TypeStep ==
  ASSUME IInv, [Next]_vars
  PROVE  TypeOK'
<1> USE DEF IInv
<1>1. cap' \in [Captures -> Capture] /\ running' \in {0} \cup Captures
  <2>1. CASE Stays
    BY <2>1 DEF Stays, TypeOK
  <2>2. CASE \E c \in Captures, moment \in Moment : Calls(c, moment)
    BY <2>2 DEF Calls, Queues, TakesTheSlot, Touches, TypeOK
  <2>3. CASE \E c \in Captures : Resumes(c) \/ Leaves(c) \/ Advances(c)
    BY <2>3 DEF Resumes, Leaves, Advances, Queues, TakesTheSlot, Ends, Touches, TypeOK
  <2> QED
    BY <2>1, <2>2, <2>3, StepKinds
<1>2. doc' \in Document /\ changes' \in Clock /\ acceptedAt' \in Clock
  <2>1. CASE Edits \/ Applies
    <3>1. PICK tracked \in BOOLEAN : Changes(tracked)
      BY <2>1 DEF Edits, Applies
    <3>2. PICK text \in Texts : doc' = [text |-> text, tracked |-> tracked]
      BY <3>1 DEF Changes
    <3>3. changes' = changes + 1 /\ changes < MaxChanges /\ acceptedAt' = acceptedAt
      BY <3>1 DEF Changes, finalizing
    <3> QED
      BY <3>2, <3>3, DocumentCaptureAssumption DEF Document, Clock, TypeOK
  <2>2. CASE WordAccepts
    <3>1. doc' = [doc EXCEPT !.tracked = FALSE] /\ doc \in Document
      BY <2>2 DEF WordAccepts, TypeOK
    <3>2. changes' = changes + 1 /\ changes < MaxChanges /\ acceptedAt' = changes + 1
      BY <2>2 DEF WordAccepts
    <3>3. doc' \in Document
      BY <3>1 DEF Document
    <3> QED
      BY <3>2, <3>3, DocumentCaptureAssumption DEF Clock, TypeOK
  <2>3. CASE ~(Edits \/ Applies \/ WordAccepts)
    BY <2>3 DEF Next, vars, document, finalizing, Continuation, Reply, WaiterResumes, LeavesSlot,
                IdleTimerFires, PollFires, ApplyTimerFires, FinalizeClicked, DocumentIdMinted,
                FinalizeProceeds, AcceptFails, WordReadsTexts, WordReadsTracked, ReadFails,
                ReplyArrives, SendFails, TypeOK
  <2> QED
    BY <2>1, <2>2, <2>3
<1>3. opened' \in BOOLEAN \X BOOLEAN /\ timers' \in BOOLEAN \X BOOLEAN
  <2>1. identified' \in BOOLEAN /\ listening' \in BOOLEAN
    BY DEF TypeOK, Next, vars, opened, pane, Continuation, Reply, WaiterResumes, LeavesSlot,
           IdleTimerFires, PollFires, ApplyTimerFires, FinalizeClicked, DocumentIdMinted, Edits,
           Applies, Changes, FinalizeProceeds, WordAccepts, AcceptFails, WordReadsTexts,
           WordReadsTracked, ReadFails, ReplyArrives, SendFails
  <2>2. idleTimer' \in BOOLEAN /\ applyTimer' \in BOOLEAN
    BY DEF TypeOK, Next, vars, timers, pane, Continuation, Reply, WaiterResumes, LeavesSlot,
           IdleTimerFires, PollFires, ApplyTimerFires, FinalizeClicked, DocumentIdMinted, Edits,
           Applies, Changes, FinalizeProceeds, WordAccepts, AcceptFails, WordReadsTexts,
           WordReadsTracked, ReadFails, ReplyArrives, SendFails
  <2> QED
    BY <2>1, <2>2 DEF opened, timers
<1>4. stopped' \in BOOLEAN /\ lost' \in BOOLEAN /\ owed' \in BOOLEAN
  <2>1. stopped' \in BOOLEAN
    BY DEF TypeOK, Next, vars, requests, pane, Settle, Continuation, Reply, WaiterResumes, LeavesSlot,
           IdleTimerFires, PollFires, ApplyTimerFires, FinalizeClicked, DocumentIdMinted, Edits,
           Applies, Changes, FinalizeProceeds, WordAccepts, AcceptFails, WordReadsTexts,
           WordReadsTracked, ReadFails, ReplyArrives, SendFails
  <2>2. lost' \in BOOLEAN
    BY DEF TypeOK, Next, vars, requests, pane, Settle, Continuation, Reply, WaiterResumes, LeavesSlot,
           IdleTimerFires, PollFires, ApplyTimerFires, FinalizeClicked, DocumentIdMinted, Edits,
           Applies, Changes, FinalizeProceeds, WordAccepts, AcceptFails, WordReadsTexts,
           WordReadsTracked, ReadFails, ReplyArrives, SendFails
  <2>3. owed' \in BOOLEAN
    BY DEF TypeOK, Next, vars, requests, pane, Settle, Continuation, Reply, WaiterResumes, LeavesSlot,
           IdleTimerFires, PollFires, ApplyTimerFires, FinalizeClicked, DocumentIdMinted, Edits,
           Applies, Changes, FinalizeProceeds, WordAccepts, AcceptFails, WordReadsTexts,
           WordReadsTracked, ReadFails, ReplyArrives, SendFails
  <2> QED
    BY <2>1, <2>2, <2>3
<1>5. lastSent' \in Document \cup {Nothing} /\ handed' \in Document \cup {Nothing}
  <2>1. ASSUME NEW c \in Captures, WordReadsTracked(c)
        PROVE  lastSent' = lastSent /\ (handed' = handed \/ handed' = cap'[c].content)
    BY <2>1, TrackedOutcome
  <2>2. ASSUME NEW c \in Captures, WordReadsTracked(c)
        PROVE  cap'[c].content \in Document
    BY <2>2, ReplyAdvances DEF Reply, Advances, WordReadsTracked
  <2>3. ASSUME NEW c \in Captures, ReplyArrives(c)
        PROVE  handed' = handed /\ lastSent' \in Document
    BY <2>3 DEF ReplyArrives, CopiesAreRead
  <2>4. CASE \A c \in Captures : ~WordReadsTracked(c) /\ ~ReplyArrives(c)
    BY <2>4 DEF TypeOK, Next, vars, requests, pane, Continuation, Reply, WaiterResumes, LeavesSlot,
                IdleTimerFires, PollFires, ApplyTimerFires, FinalizeClicked, DocumentIdMinted,
                Edits, Applies, Changes, FinalizeProceeds, WordAccepts, AcceptFails,
                WordReadsTexts, ReadFails, SendFails
  <2> QED
    BY <2>1, <2>2, <2>3, <2>4 DEF TypeOK
<1>6. finalize' \in {"no", "capturing", "accepting", "done"} /\ ahead' \subseteq Captures
  BY DEF TypeOK, Next, vars, finalizing, Continuation, Reply, WaiterResumes, LeavesSlot,
         IdleTimerFires, PollFires, ApplyTimerFires, FinalizeClicked, DocumentIdMinted, Edits,
         Applies, Changes, FinalizeProceeds, WordAccepts, AcceptFails, WordReadsTexts,
         WordReadsTracked, ReadFails, ReplyArrives, SendFails
<1> QED
  BY <1>1, <1>2, <1>3, <1>4, <1>5, <1>6 DEF TypeOK

\* The pane opens with one capture in flight, or over already.
LEMMA InitIInv == Init => IInv
<1> SUFFICES ASSUME Init
             PROVE  IInv
  OBVIOUS
<1> DEFINE first == [Idle EXCEPT !.pc = IF identified THEN "reading" ELSE "settled"]
<1>1. /\ cap = [c \in Captures |-> IF c = 1 THEN first ELSE Idle]
      /\ running = 1 /\ 1 \in Captures /\ 0 \in Clock
  BY DocumentCaptureAssumption DEF Init, Captures, Clock
<1>2. first \in Capture /\ first.pc \in {"reading", "settled"} /\ first.moment = "pane_open" /\ first.textsAt = 0
  BY IdleIsACapture DEF Idle, Capture, PC
<1> HIDE DEF first
<1>3. /\ cap \in [Captures -> Capture]
      /\ cap[1] = first /\ \A c \in Captures : c # 1 => cap[c] = Idle
  BY <1>1, <1>2, IdleIsACapture
<1>4. TypeOK
  BY <1>1, <1>3 DEF Init, TypeOK, opened, timers
<1>5. SlotIsLive /\ OnlyTheSlotFlies /\ WaitersFit /\ CopiesAreRead
  BY <1>1, <1>2, <1>3 DEF SlotIsLive, OnlyTheSlotFlies, WaitersFit, CopiesAreRead, InFlight, Idle
<1>6. FinalizeFits
  BY <1>2, <1>3 DEF Init, FinalizeFits, FinalizeCopies, Idle
<1>7. SentFits /\ OwedIsUnderWay
  BY <1>2, <1>3 DEF Init, SentFits, OwedIsUnderWay, Idle
<1> QED
  BY <1>4, <1>5, <1>6, <1>7 DEF IInv

\* The invariant the theorems below stand on, for every number of captures at once.
THEOREM Invariance == Spec => []IInv
<1>1. IInv /\ [Next]_vars => IInv'
  BY TypeStep, SlotStep, FinalizeStep, SentStep, OwedStep DEF IInv
<1> QED
  BY <1>1, InitIInv, PTL DEF Spec

\* capture and its callers: a capture that is over never holds the slot, so a later
\* one can run.
THEOREM TheSlotIsLive == Spec => []SlotIsLive
BY Invariance, PTL DEF IInv

\* capture: until Finalize is clicked there is one capture in flight at most.
THEOREM CapturesGoOneAtATime == Spec => []OneAtATime
<1>1. IInv => OneAtATime
  BY DEF IInv, OnlyTheSlotFlies, OneAtATime
<1> QED
  BY <1>1, Invariance, PTL

\* captureBeforeFinalize: the text sent as "finalize" was read before acceptAll ran,
\* whether or not FINALIZE_WAIT_MS were enough.
THEOREM FinalizeTextIsTheOneBefore == Spec => []FinalizeTextPredatesAccept
<1>1. IInv => FinalizeTextPredatesAccept
  BY DEF IInv, FinalizeFits, FinalizeTextPredatesAccept
<1> QED
  BY <1>1, Invariance, PTL

\* run: a copy is held back only when the last send carried the same content.
THEOREM WhatIsHeldBackWasSent == Spec => HeldBackIsLastSent
<1> DEFINE Held(c) == ~lost /\ finalize = "no" /\ cap[c].pc = "texts_read" /\ cap'[c].pc = "settled"
                        => cap'[c].content = handed
<1>1. ASSUME IInv, [Next]_vars, NEW c \in Captures
      PROVE  Held(c)
  <2> SUFFICES ASSUME ~lost, finalize = "no", cap[c].pc = "texts_read", cap'[c].pc = "settled"
               PROVE  cap'[c].content = handed
    OBVIOUS
  <2> USE DEF IInv
  <2>1. WordReadsTracked(c)
    <3>1. CASE Stays
      BY <1>1, <3>1 DEF Stays
    <3>2. CASE \E d \in Captures, moment \in Moment : Calls(d, moment)
      BY <1>1, <3>2 DEF Calls, IsFree, Queues, TakesTheSlot, Touches
    <3>3. CASE \E d \in Captures : Resumes(d) \/ Leaves(d)
      BY <1>1, <3>3 DEF Resumes, Leaves, Woken, Queues, TakesTheSlot, Ends, Touches, Idle
    <3>4. ASSUME NEW d \in Captures, Reply(d), Advances(d)
          PROVE  d = c /\ WordReadsTracked(c)
      <4>1. d = c
        BY <1>1, <3>4 DEF Advances, Touches
      <4> QED
        BY <3>4, <4>1 DEF Reply, WordReadsTexts, ReadFails, ReplyArrives, SendFails
    <3> QED
      BY <1>1, <3>1, <3>2, <3>3, <3>4, StepKinds
  <2>2. lastSent = handed
    <3>1. \A d \in Captures : cap[d].pc # "sending"
      BY <1>1 DEF OnlyTheSlotFlies, InFlight
    <3> QED
      BY <1>1, <3>1 DEF SentFits
  <2>3. cap'[c].content = lastSent
    BY <1>1, <2>1, TrackedOutcome
  <2> QED
    BY <2>2, <2>3
<1>2. IInv /\ [Next]_vars => [\A c \in Captures : Held(c)]_vars
  BY <1>1
<1> QED
  BY <1>2, Invariance, PTL DEF Spec, HeldBackIsLastSent

\* noteApplied: the copy an Apply is owed is never dropped, whatever is in flight when
\* its timer fires; the safety half of AppliesAreCopied.
THEOREM TheOwedCopyIsNeverDropped == Spec => []OwedIsUnderWay
BY Invariance, PTL DEF IInv

=============================================================================
