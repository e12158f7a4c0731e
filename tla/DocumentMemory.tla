--------------------------- MODULE DocumentMemory ---------------------------
(***************************************************************************)
(* What the assistant remembers of one document, over the chats and        *)
(* reviews of its attorneys: the session's chat_history (a checkpointed    *)
(* channel with a reducer), the conversation rows of each attorney, and    *)
(* the reviews all of them share.  A pane is a session of one attorney     *)
(* with a Chat and a Findings tab, each with one request at a time; both   *)
(* tabs use the session's thread.  A chat turn recalls the latest review,  *)
(* reconciled with the text that was sent along, and its own               *)
(* conversation, asks the model, asks again for what the model promised    *)
(* and forgot, and leaves edit cards and preference suggestions.           *)
(*                                                                         *)
(* The checkpoints of the other nodes are TurnGraph's, compaction and the  *)
(* order of row ids are Conversation's.                                    *)
(***************************************************************************)
EXTENDS Integers, Sequences, ReviewRecall

CONSTANTS Sessions,   \* panes
          Owner,      \* the attorney of each
          Fields,     \* the document's fields
          Shows,      \* Shows[q]: the fields whose blank shows q in the text
          Reviews,    \* what contract_review may answer: name -> review
          Questions,  \* what an attorney asks: name -> question
          Replies,    \* what the model may answer a chat: name -> reply
          Recovered,  \* the edits a JSON-mode retry may bring
          NTurns,     \* chat_history_n_turns
          MaxMessages,\* conversation_max_messages
          MaxTurns,   \* bound: requests
          MaxEdits,   \* bound: changes of the document
          MaxFaults   \* bound: failures of stores and model calls

P == INSTANCE Proposals

ASSUME MemoryAssumption ==
  /\ NTurns \in Nat \ {0} /\ MaxMessages \in Nat \ {0}
  /\ Shows \in [Quotes -> SUBSET Fields]
  /\ \A q \in Quotes : \A r \in Within[q] \ Bundles : Shows[r] \subseteq Shows[q]

Error == "error"  \* an "Error: ..." string in place of an answer

(* A finding is about what it quotes: every string in it shows a field of its own. *)
AboutWhatItQuotes(l) == \A q \in Quotes : Mentions(l, q) => Shows[q] \cap l.about # {}

(* What the first chat_history_trim_chars of a reply hold of its blocks: "whole"
   when that is all of it, else none of them, whole ones, or a fence cut in two. *)
Heads == {"whole", "none", "blocks", "cut"}

ASSUME AnswersAssumption ==
  /\ Error \notin DOMAIN Reviews \cup DOMAIN Replies
  /\ \A name \in DOMAIN Replies :
       {Replies[name].prose, Replies[name].prefs} \subseteq BOOLEAN /\ Replies[name].head \in Heads
  /\ \A name \in DOMAIN Reviews :
       /\ Reviews[name].table \in BOOLEAN
       /\ \A l \in Reviews[name].lines :
            /\ l.section \in Sections /\ l.quotes \subseteq Quotes
            /\ l.section = "key findings" => AboutWhatItQuotes(l)

ErrorReview == [lines |-> {}, table |-> FALSE]
ReviewNames == DOMAIN Reviews \cup {Error}
TextOf(name) == IF name = Error THEN ErrorReview ELSE Reviews[name]
Tabs == {"chat", "findings"}
Attorneys == {Owner[s] : s \in Sessions}

VARIABLES blanks,    \* the fields still blank in the document
          edits,     \* how often that has changed
          reviews,   \* rows of review_store
          stored,    \* rows of conversation_store, per attorney
          history,   \* chat_history in the checkpoint of each session
          request,   \* the latest request of each tab of each pane
          turns, faults
vars == <<blanks, edits, reviews, stored, history, request, turns, faults>>

-----------------------------------------------------------------------------
(* Messages.  `text' names the words, `prose' says that there are some beside
   fenced blocks, `machinery' what there is of those; `turn' and `by' are the
   request and the attorney they come from, for the properties only. *)
Message(role, text, prose, machinery, turn, by) ==
  [role |-> role, text |-> text, prose |-> prose, machinery |-> machinery, turn |-> turn, by |-> by]
HasProse(name) == name \in DOMAIN Replies => Replies[name].prose
MachineryOf(name) ==
  IF name \in DOMAIN Replies /\ (Replies[name].blocks # <<>> \/ Replies[name].prefs)
  THEN "blocks" ELSE "none"
HeadOf(name) == IF name \in DOMAIN Replies THEN Replies[name].head ELSE "whole"

Question(s, r) == Message("user", r.question, TRUE, "none", r.turn, Owner[s])
Exchange(s, r) ==
  <<Question(s, r), Message("assistant", r.answer, HasProse(r.answer), MachineryOf(r.answer),
                            r.turn, Owner[s])>>

(* What history_appender leaves: a long reply is cut, and "[...]" put after it. *)
TrimmedExchange(s, r) ==
  IF HeadOf(r.answer) = "whole" THEN Exchange(s, r)
  ELSE <<Question(s, r), Message("assistant", r.answer, TRUE, HeadOf(r.answer), r.turn, Owner[s])>>

Texts(messages) == [i \in DOMAIN messages |-> messages[i].text]
Newest(n, messages) == SubSeq(messages, 1 + (IF Len(messages) > n THEN Len(messages) - n ELSE 0), Len(messages))

(* Mutant: every forwarded state is appended. *)
ReducerAppendingAlways(old, new) == Newest(2 * NTurns, old \o new)

(* _history_reducer: what equals the history is taken for a forwarded state. *)
HistoryReducer(old, new) ==
  IF Texts(new) = Texts(old) THEN old ELSE Newest(2 * NTurns, old \o new)

(* Mutant: replies keep their blocks. *)
SanitizeNothing(messages) == messages

(* Whole blocks go from assistant messages; one that was nothing else goes with
   them.  A fence without its end is not recognised.  What is kept stays under
   its position. *)
SanitizeHistory(messages) ==
  LET kept == {i \in DOMAIN messages : messages[i].role = "user" \/ messages[i].prose}
  IN  [i \in kept |-> IF messages[i].role = "assistant" /\ messages[i].machinery = "blocks"
                      THEN [messages[i] EXCEPT !.machinery = "none"] ELSE messages[i]]

-----------------------------------------------------------------------------
NothingRecalled == [lines |-> {}, dropped |-> {}, cited |-> {}, pending |-> FALSE]
Phases == {"idle", "asked", "answered", "appended", "done"}
Idle == [phase |-> "idle", turn |-> 0, question |-> "", blanks |-> {}, stateless |-> FALSE,
         history |-> <<>>, known |-> 0, rows |-> 0, review |-> 0, recalled |-> NothingRecalled,
         conversation |-> <<>>, degraded |-> FALSE, unsaved |-> FALSE, codes |-> {}, faulty |-> {},
         answer |-> "", proposed |-> <<>>, offered |-> FALSE]

Init ==
  /\ blanks = Fields /\ edits = 0
  /\ reviews = <<>>
  /\ stored = [a \in Attorneys |-> <<>>]
  /\ history = [s \in Sessions |-> <<>>]
  /\ request = [s \in Sessions |-> [b \in Tabs |-> Idle]]
  /\ turns = 0 /\ faults = 0

(* Failures that a step may meet, within the bound. *)
Faults(failing) ==
  /\ faults + Cardinality(failing) <= MaxFaults
  /\ faults' = faults + Cardinality(failing)

(* An attorney fills a field, or undoes it. *)
Edits ==
  /\ edits < MaxEdits /\ edits' = edits + 1
  /\ \E f \in Fields :
       blanks' = IF f \in blanks THEN blanks \ {f} ELSE blanks \cup {f}
  /\ UNCHANGED <<reviews, stored, history, request, turns, faults>>

(* The pane reads the document and sends; the run starts from the session's
   checkpoint, or from nothing when Redis fails (TurnGraph's FallsBack). *)
Sends(s, b, q) ==
  /\ request[s][b].phase \in {"idle", "done"}
  /\ turns < MaxTurns /\ turns' = turns + 1
  /\ \E failing \in SUBSET {"redis"} :
       /\ Faults(failing)
       /\ request' = [request EXCEPT ![s][b] =
            [Idle EXCEPT !.phase = "asked", !.turn = turns + 1, !.question = q,
                         !.blanks = blanks, !.stateless = failing # {},
                         !.degraded = failing # {}, !.known = Len(reviews), !.rows = Len(stored[Owner[s]]),
                         !.history = IF failing # {} THEN <<>>
                                     ELSE HistoryReducer(history[s], <<>>)]]
  /\ UNCHANGED <<blanks, edits, reviews, stored, history>>

AsksQuestion(s) == \E q \in DOMAIN Questions : Sends(s, "chat", q)
AsksForReview(s) == Sends(s, "findings", "Review this contract.")

(* The quotable strings of a text with these blanks; bundles are not looked up. *)
TextWith(open) == {q \in Quotes \ Bundles : Shows[q] \cap open # {}}

(* Mutant: the review is reconciled with the document as it now is. *)
RecallsAgainstNow(s, review) ==
  ReconcileReviewWithDoc(StripRedlines(review.lines), review.table, TextWith(blanks))

Recalls(s, review) ==
  ReconcileReviewWithDoc(StripRedlines(review.lines), review.table,
                         TextWith(request[s]["chat"].blanks))

(* Mutant: the rows of the document, whoever asked. *)
LoadAllOfThem(a) ==
  LET all == CHOOSE c \in {stored[x] : x \in Attorneys} :
               \A x \in Attorneys : Len(stored[x]) <= Len(c)
  IN  Newest(MaxMessages, all)

LoadRecent(a) == Newest(MaxMessages, stored[a])

(* Mutant: only a failed conversation read sets memory_degraded. *)
ReadsDegradeByConversation(failing) == "conversation" \in failing

ReadsDegrade(failing) == failing # {}

-----------------------------------------------------------------------------
(* What an answer proposes. *)

BlocksOf(name) == IF name \in DOMAIN Replies THEN Replies[name].blocks ELSE <<>>
ServerEdits(name) ==
  P!FlattenSeq([i \in DOMAIN BlocksOf(name) |-> P!ValidEdits(P!ServerValues(BlocksOf(name)[i]))])
PaneEdits(name) ==
  P!FlattenSeq([i \in DOMAIN BlocksOf(name) |-> P!ValidEdits(P!PaneValues(BlocksOf(name)[i]))])

(* Asked to take something into account, and not to store it. *)
ContextOnly(q) == Questions[q].context /\ ~ Questions[q].store

RetriesEdits(name) == ServerEdits(name) = <<>> /\ Replies[name].promise # "none"

OffersPreferences(q, name) == Replies[name].prefs /\ ~ ContextOnly(q)

(* Mutant: the model's claim is enough. *)
ShouldRetryPreferenceOnClaim(q, name) == Questions[q].store \/ Replies[name].claims

ShouldRetryPreference(q, name) ==
  ~ ContextOnly(q) /\ (Questions[q].store \/ Replies[name].claims)

RetriesPreferences(q, name) == ~ OffersPreferences(q, name) /\ ShouldRetryPreference(q, name)

(* Mutant: any failed call is the turn's failure. *)
FailsOnAny(failing) == failing # {}

(* A failed edit retry keeps the answer.  The preference retry is not wrapped:
   its failure, like the model's own, replaces the answer by an error string. *)
Fails(failing) == failing \cap {"model", "preference retry"} # {}

(* Mutant: the error string goes without its reason code. *)
CodesWithoutFailure(failing) == failing \cap {"edit retry"}

Codes(failing) ==
  (IF Fails(failing) THEN {"failed"} ELSE {}) \cup (failing \cap {"edit retry"})

(* _run_doc_chat up to the model call: the review and the conversation are read,
   each may fail and then says so; without rows, chat_history stands in. *)
Prompt(s, failing) ==
  LET r == request[s]["chat"]
      latest == IF "reviews" \in failing THEN 0 ELSE Len(reviews)
      durable == IF "conversation" \in failing THEN <<>> ELSE LoadRecent(Owner[s])
      hist == HistoryReducer(r.history, r.history)
  IN  [r EXCEPT !.review = latest, !.history = hist,
                !.degraded = @ \/ ReadsDegrade(failing),
                !.recalled = IF latest = 0 THEN @ ELSE Recalls(s, TextOf(reviews[latest].name)),
                !.conversation = SanitizeHistory(IF durable = <<>> THEN hist ELSE durable)]

(* legal_research: the prompt is put together and the model answers; what it
   promised and forgot is asked for again.  After the reads the turn touches
   nothing others see, so it is one step. *)
Answers(s) ==
  LET q == request[s]["chat"].question
  IN  /\ request[s]["chat"].phase = "asked"
      /\ \E name \in DOMAIN Replies, again \in Recovered, late \in BOOLEAN,
            unread \in SUBSET {"reviews", "conversation"},
            failing \in SUBSET {"model", "edit retry", "preference retry"} :
           /\ Faults(unread \cup failing)
           /\ "model" \in failing => failing = {"model"} /\ again = <<>> /\ ~ late
           /\ "edit retry" \in failing => RetriesEdits(name) /\ again = <<>>
           /\ "preference retry" \in failing => RetriesPreferences(q, name) /\ ~ late
           /\ again # <<>> => RetriesEdits(name)
           /\ late => RetriesPreferences(q, name)
           /\ request' = [request EXCEPT ![s]["chat"] =
                [Prompt(s, unread) EXCEPT
                   !.phase = "answered", !.codes = Codes(failing), !.faulty = failing,
                   !.answer = IF Fails(failing) THEN Error ELSE name,
                   !.proposed = IF Fails(failing) THEN <<>> ELSE ServerEdits(name) \o again,
                   !.offered = ~ Fails(failing) /\ (OffersPreferences(q, name) \/ late)]]
      /\ UNCHANGED <<blanks, edits, reviews, stored, history, turns>>

(* contract_review and llm_caller: the review, or an error string for it. *)
AnswersReview(s) ==
  LET r == request[s]["findings"]
  IN  /\ r.phase = "asked"
      /\ \E name \in ReviewNames :
           LET failing == IF name = Error THEN {"model"} ELSE {}
           IN  /\ Faults(failing)
               /\ request' = [request EXCEPT ![s]["findings"] =
                    [r EXCEPT !.phase = "answered", !.codes = Codes(failing), !.answer = name,
                              !.history = HistoryReducer(r.history, r.history)]]
      /\ UNCHANGED <<blanks, edits, reviews, stored, history, turns>>

(* history_appender, and the checkpoint behind it. *)
Appends(s, b) ==
  LET r == request[s][b]
      hist == HistoryReducer(r.history, TrimmedExchange(s, r))
  IN  /\ r.phase = "answered"
      /\ request' = [request EXCEPT ![s][b].phase = "appended", ![s][b].history = hist]
      /\ history' = IF r.stateless THEN history ELSE [history EXCEPT ![s] = hist]
      /\ UNCHANGED <<blanks, edits, reviews, stored, turns, faults>>

(* memory_writer saves the review, whatever the answer was. *)
SavesReview(s) ==
  LET r == request[s]["findings"]
  IN  /\ r.phase = "appended"
      /\ \E failing \in SUBSET {"audit", "store"} :
           /\ Faults(failing)
           /\ reviews' = IF "store" \in failing THEN reviews
                         ELSE Append(reviews, [name |-> r.answer, turn |-> r.turn])
           /\ request' = [request EXCEPT ![s]["findings"] =
                [r EXCEPT !.phase = "done", !.unsaved = "store" \in failing,
                          !.degraded = @ \/ "audit" \in failing]]
      /\ UNCHANGED <<blanks, edits, stored, history, turns>>

(* memory_writer appends the chat turn, best effort: a failure is only logged. *)
KeepsConversation(s) ==
  LET r == request[s]["chat"]
  IN  /\ r.phase = "appended"
      /\ \E failing \in SUBSET {"audit", "store"} :
           /\ Faults(failing)
           /\ stored' = IF "store" \in failing THEN stored
                        ELSE [stored EXCEPT ![Owner[s]] = @ \o Exchange(s, r)]
           /\ request' = [request EXCEPT ![s]["chat"] =
                [r EXCEPT !.phase = "done", !.degraded = @ \/ "audit" \in failing]]
      /\ UNCHANGED <<blanks, edits, reviews, history, turns>>

Next ==
  \/ Edits
  \/ \E s \in Sessions :
       \/ AsksQuestion(s) \/ Answers(s) \/ KeepsConversation(s)
       \/ AsksForReview(s) \/ AnswersReview(s) \/ SavesReview(s)
       \/ \E b \in Tabs : Appends(s, b)

Spec == Init /\ [][Next]_vars

(* What the Chat tab makes of the answer. *)
Cards(r) == P!Chosen(r.proposed, PaneEdits(r.answer))
Suggests(r) ==
  r.offered \/ (r.answer \in DOMAIN Replies /\ Replies[r.answer].prefs)

-----------------------------------------------------------------------------
(* Properties. *)

Chats == {request[s]["chat"] : s \in Sessions}
Prompted == {r \in Chats : r.phase \notin {"idle", "asked"}}
Done == {r \in Chats : r.phase = "done"}

Turned(messages, a) ==
  \A i \in DOMAIN messages : messages[i].turn \in 1..turns /\ messages[i].by = a

TypeOK ==
  /\ blanks \subseteq Fields /\ edits \in 0..MaxEdits
  /\ \A i \in DOMAIN reviews : reviews[i].name \in ReviewNames /\ reviews[i].turn \in 1..turns
  /\ \A a \in Attorneys : Turned(stored[a], a)
  /\ \A s \in Sessions : Len(history[s]) <= 2 * NTurns /\ Turned(history[s], Owner[s])
  /\ \A s \in Sessions, b \in Tabs :
       LET r == request[s][b]
       IN  /\ r.phase \in Phases /\ r.turn \in 0..turns
           /\ r.blanks \subseteq Fields
           /\ r.known <= Len(reviews) /\ r.review <= Len(reviews)
           /\ r.codes \subseteq {"failed", "edit retry"}
           /\ r.recalled.dropped \subseteq Quotes \ Bundles
  /\ turns \in 0..MaxTurns /\ faults \in 0..MaxFaults

(* chat_history holds whole turns of its session, each once and in the order
   they were asked, although every node forwards it through a reducer that
   appends (state.py: without the guard it "would double on every node"), and
   although the two tabs of a pane run on one thread.  A turn may be missing. *)
HistoryIsWhole ==
  \A s \in Sessions : LET h == history[s] IN
    /\ Len(h) % 2 = 0
    /\ \A i \in DOMAIN h :
         /\ h[i].role = (IF i % 2 = 1 THEN "user" ELSE "assistant")
         /\ i % 2 = 0 => h[i].turn = h[i - 1].turn
         /\ \A j \in 1..(i - 2) : h[j].turn # h[i].turn
         /\ \A j \in 1..i : h[j].turn <= h[i].turn

(* A prompt replays the attorney's own conversation, nothing twice and no fenced
   block of an earlier answer, whichever of the two stores it comes from ("stored
   output no longer primes the model": _load_prior_conversation, chat_history).
   A piece of a block that the trimming of chat_history cut in two is replayed
   only while that stands in for the store: the attorney had no rows when asking,
   or the answer says that memory is degraded. *)
ReplayIsOwnProse ==
  \A s \in Sessions :
    LET r == request[s]["chat"]
        c == r.conversation
    IN  /\ \A i \in DOMAIN c : /\ c[i].by = Owner[s] /\ c[i].machinery # "blocks"
                               /\ c[i].machinery = "cut" => r.degraded \/ r.rows = 0
        /\ \A i, j \in DOMAIN c : i # j => <<c[i].role, c[i].turn>> # <<c[j].role, c[j].turn>>

(* edit_parsing.py, _strip_structured_blocks: "Only the machinery goes" - and all
   of it does, sanitized "at the POINT OF USE" for both stores. *)
ReplayIsProse ==
  \A s \in Sessions : LET c == request[s]["chat"].conversation IN
    \A i \in DOMAIN c : c[i].machinery = "none"

(* q is quoted by itself on the line: no other single-marker quote there, nor one
   in a bundle there, contains it. *)
StandsAlone(q, line) ==
  q \in line.quotes \ Bundles /\ \A x \in Within[q] \ Bundles : ~ Mentions(line, x)

(* What is open in the text the attorney sent, and stands alone on the line. *)
IsOpen(f, r, line) ==
  f \in r.blanks /\ \E q \in line.quotes : StandsAlone(q, line) /\ f \in Shows[q]

DroppedLines(r) == StripRedlines(TextOf(reviews[r.review].name).lines) \ r.recalled.lines

(* A finding disappears from the recalled review only when a field it is about
   was filled in the text the attorney sent, and every field that it quotes by
   itself was.  Not covered are the fields it names only in a bundle, or by a
   label that another quote on the line contains: the most-specific-wins rule and
   the candidates leave them out (BundlesAreLeftIntact). *)
RecallKeepsTheLive ==
  \A r \in Prompted : r.review > 0 =>
    \A l \in DroppedLines(r) :
      (\E f \in l.about : f \notin r.blanks) /\ (\A f \in l.about : ~ IsOpen(f, r, l))

(* review_recall.py, _reconcile_review_with_doc: "a span bundling several markers
   is left intact, so a partial fill can never drop a still-live blocker" - of a
   finding that was true of the text that was reviewed. *)
BundlesAreLeftIntact ==
  \A r \in Prompted : r.review > 0 =>
    \A l \in DroppedLines(r), s \in Sessions :
      LET reviewed == request[s]["findings"]
      IN  /\ reviewed.turn = reviews[r.review].turn /\ l.about \subseteq reviewed.blanks
          /\ l.rating \in Blocking /\ l.quotes \cap Bundles # {}
          => l.about \cap r.blanks = {}

(* A finding that quotes its own fields and nothing else is not recalled once all
   of them are filled, though a label in it is still elsewhere. *)
RecallDropsTheFilled ==
  \A r \in Prompted : r.review > 0 =>
    \A l \in r.recalled.lines :
      l.section = "key findings" /\ l.quotes # {} /\ l.quotes \cap Bundles = {}
        /\ (\A q \in l.quotes : Shows[q] \subseteq l.about)
        => l.about \cap r.blanks # {}

(* The recalled review agrees with the text that was sent along, whatever was
   edited since: it keeps what is open and drops what is filled
   (_reconcile_review_with_doc). *)
RecallIsCurrent == RecallKeepsTheLive /\ RecallDropsTheFilled

(* The gate of a recalled review says PENDING RE-REVIEW only when of every
   blocking finding of the review some field was filled, and every field that it
   quotes by itself - with the exception RecallKeepsTheLive has. *)
GateWaitsForBlockers ==
  \A r \in Prompted : r.review > 0 /\ r.recalled.pending =>
    \A l \in TextOf(reviews[r.review].name).lines :
      l.section = "key findings" /\ l.rating \in Blocking
        => (\E f \in l.about : f \notin r.blanks) /\ (\A f \in l.about : ~ IsOpen(f, r, l))

(* What was there and is not in the prompt, or was produced and is not kept, is
   announced: memory_degraded, or review_persist_error. *)
MissingIsFlagged ==
  /\ \A r \in Done :
       /\ r.known > 0 /\ r.review = 0 => r.degraded
       /\ r.stateless => r.degraded
  /\ \A s \in Sessions : LET r == request[s]["chat"] IN
       r.phase = "done" /\ r.rows > 0
         /\ (\A i \in DOMAIN r.conversation, j \in DOMAIN stored[Owner[s]] :
               r.conversation[i].turn # stored[Owner[s]][j].turn)
         => r.degraded
  /\ \A s \in Sessions : LET r == request[s]["findings"] IN
       r.phase = "done" /\ (\A i \in DOMAIN reviews : reviews[i].turn # r.turn) => r.unsaved

(* An error string in place of an answer or a review, which is then saved as one,
   is recorded as a failure; a failed JSON-mode retry costs nothing of the answer
   it came after. *)
ErrorsAreReported ==
  /\ \A s \in Sessions, b \in Tabs : LET r == request[s][b] IN
       r.phase = "done" /\ r.answer = Error => "failed" \in r.codes
  /\ \A r \in Done : r.faulty = {"edit retry"} => r.answer # Error

(* No failing read of a store, no unsaved review and no failing model call goes
   without a word, however many there are and wherever in a turn
   (record_degradation, memory_degraded, review_persist_error).  A chat turn whose
   row could not be written is lost without one: LostTurnsAreFlagged. *)
LossIsAnnounced == MissingIsFlagged /\ ErrorsAreReported

(* README.md: "Degraded-memory states are surfaced loudly, never silent".  What
   the pane asked right before, and its session's chat_history holds, is in the
   prompt of the next question or its lack is flagged, while all the attorney's
   rows fit into a prompt. *)
LostTurnsAreFlagged ==
  \A s \in Sessions :
    LET r == request[s]["chat"]
        before == {i \in DOMAIN r.history : /\ r.history[i].text \in DOMAIN Questions
                                            /\ r.history[i].turn = r.turn - 1}
    IN  r.phase = "done" /\ ~ r.degraded /\ Len(stored[Owner[s]]) <= MaxMessages =>
          \A i \in before : \E j \in DOMAIN r.conversation :
                           r.conversation[j].turn = r.history[i].turn

(* "keep in mind ...": the server offers no preference to store, neither from
   the answer nor from its retry, unless storing was asked for as well. *)
ContextOnlyOffersNothing ==
  \A r \in Done : ContextOnly(r.question) => ~ r.offered

(* legal_research.py on that guard: "it reads the attorney's own words".  The
   pane falls back to its own extraction when the server's list is empty. *)
ContextOnlyShowsNothing ==
  \A r \in Done : ContextOnly(r.question) => ~ Suggests(r)

(* Every card can be applied and changes something once: no two of one answer
   are the same fill, none changes nothing or only erases a blank. *)
CardsSayItOnce ==
  \A r \in Done : LET c == Cards(r) IN
    \A i \in DOMAIN c :
      /\ ~ P!IsNoOpEdit(c[i]) /\ ~ P!ErasesBlank(c[i])
      /\ \A j \in DOMAIN c : j # i => ~ P!SameFill(c[i], c[j])

Changes(e) ==
  LET lines == {i \in DOMAIN e.target : i <= Len(e.new)}
      ChangedOn(i) ==
        {<<e.target[i][k], e.new[i][k]>> :
           k \in {k \in DOMAIN e.target[i] : k <= Len(e.new[i]) /\ e.target[i][k] # e.new[i][k]}}
  IN  UNION {ChangedOn(i) : i \in lines}

(* Of an answer all of whose blocks can be read, every change but an erased
   blank is on a card, however it was bundled. *)
CardsCoverTheAnswer ==
  \A r \in Done : r.answer \in DOMAIN Replies =>
    LET c == Cards(r)
        wellFormed == \A i \in DOMAIN BlocksOf(r.answer) :
                        \A k \in DOMAIN BlocksOf(r.answer)[i] : BlocksOf(r.answer)[i][k].kind = "value"
    IN  wellFormed =>
          \A i \in DOMAIN PaneEdits(r.answer) :
            \A change \in Changes(PaneEdits(r.answer)[i]) :
              \/ change[1].value = P!Blank /\ change[2].value = ""
              \/ \E j \in DOMAIN c : change \in Changes(c[j])

(* The cards are the changes of the answer, each once, although two parsers read
   it and the list is split, folded and filtered (ChatTab, normalizeProposals). *)
CardsAreTheAnswer == CardsSayItOnce /\ CardsCoverTheAnswer
=============================================================================
