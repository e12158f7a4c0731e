---------------------------- MODULE ContextMeter -----------------------------
(***************************************************************************)
(* The pane's context meter and its automatic compaction                   *)
(* (clients/word/src/components/ContextMeter.tsx, contextGauge.ts), the    *)
(* chat that brings it a measurement per turn (ChatTab.tsx) and the backend *)
(* both of them call: skills/legal_research/context.py measures a turn     *)
(* before the model answers it, compact_conversation condenses what lies   *)
(* past the newest messages.                                               *)
(*                                                                         *)
(* One pane on one document.  A turn and a condensation are on their way   *)
(* at the same time: each button is disabled by its own flag only.  React  *)
(* renders and runs the meter's effects after every change of its state,   *)
(* which is one step here (AfterEffects).  Sizes count in small units: a   *)
(* pair of messages is Pair of them.                                       *)
(***************************************************************************)
EXTENDS Integers, Sequences

CONSTANTS
  Pair,       \* size of one question and its answer
  Segments,   \* sizes a condensed segment can come out at
  Documents,  \* sizes of the open document
  ChatHistories, \* sizes of the checkpoint's chat_history
  MaxPairs,   \* conversation_max_messages, in pairs
  MaxSegments, \* compaction_max_injected_segments
  Batch,      \* _MAX_ROWS_PER_COMPACTION, in pairs
  Budget,     \* chat_context_max_chars
  Warn,       \* the warn line: budget * compaction_warn_pct
  AutoMin,    \* compaction_auto_min_chars
  MaxTurns,   \* chat turns asked (bound)
  MaxRuns,    \* condensations started by hand (bound)
  MaxTypings, \* changes of the document (bound)
  MaxFaults   \* turns for which a read of the stores fails (bound)

ASSUME SizesAssumption ==
  /\ {Pair, Budget, Warn, AutoMin, MaxTurns, MaxRuns, MaxTypings, MaxFaults} \subseteq Nat
  /\ {MaxPairs, MaxSegments, Batch} \subseteq Nat
  /\ Segments \subseteq Nat \ {0} /\ Documents \subseteq Nat /\ ChatHistories \subseteq Nat
  /\ Warn <= Budget

VARIABLES
  store,    \* the pairs past the floor, what the first n segments come to, and
            \* how many pairs were ever remembered
  turn,     \* the chat turn on its way
  run,      \* the condensation on its way
  pane,     \* the document and what the pane knows of it
  meter,    \* ContextMeter's state
  autos,    \* the measurements an automatic run was fired for, oldest first (history)
  spoiled,  \* an automatic run ended badly and none has succeeded since (history)
  left      \* what the bounds leave

vars == <<store, turn, run, pane, meter, autos, spoiled, left>>

-----------------------------------------------------------------------------
(* The measurement and the gauge *)

Greatest(a, b) == IF a > b THEN a ELSE b
Lesser(a, b)   == IF a < b THEN a ELSE b

NoBreakdown == [id |-> 0]
Total(b)    == b.doc + b.hist

Condensations(s) == Len(s.totals) - 1
Segmented(s)     == s.totals[Len(s.totals)]
AllOf(s)         == Pair * s.pairs + Segmented(s)

\* The newest segments and the newest pairs past the floor.
Replayed(s) ==
  Pair * Lesser(s.pairs, MaxPairs)
    + Segmented(s) - s.totals[Greatest(1, Len(s.totals) - MaxSegments)]

\* _load_prior_conversation: without the summaries there is no floor, without the
\* rows nothing, and nothing is replaced by the checkpoint's chat history.
HistoriesOf(s, failing) ==
  LET prior == IF "rows" \in failing THEN 0
               ELSE IF "summaries" \in failing THEN Pair * Lesser(s.remembered, MaxPairs)
               ELSE Replayed(s)
  IN  IF prior = 0 THEN ChatHistories ELSE {prior}

\* compressible_history, in pairs.
Compressible(s, failing) == IF "compressible" \in failing THEN 0 ELSE Greatest(0, s.pairs - 1)

\* select_compactable_rows: the oldest past the floor but the newest of those.
Selectable(s) == Greatest(0, Lesser(s.pairs, Batch) - 1)

\* _cap_chat_context: what does not fit is cut off the document, never the history.
Kept(doc, hist) == IF doc + hist <= Budget THEN doc ELSE Greatest(0, Budget - hist)

\* build_context_breakdown; whole says that the history is all the store holds.
Measured(id, s, doc, hist, failing) ==
  LET kept  == Kept(doc, hist)
      pairs == Compressible(s, failing)
      can   == pairs > 0 /\ kept + hist >= Warn
  IN  [id |-> id, doc |-> kept, hist |-> hist, cut |-> kept < doc, pairs |-> pairs, can |-> can,
       auto |-> can /\ Pair * pairs >= AutoMin, condensed |-> Condensations(s),
       remembered |-> s.remembered, whole |-> hist = AllOf(s)]

\* withLiveDocument: a live document may turn auto off, never on.
WithLiveDocument(b, doc) ==
  [b EXCEPT !.doc = doc,
            !.can  = b.pairs > 0 /\ doc + b.hist >= Warn,
            !.auto = b.auto /\ doc + b.hist >= Warn]

WithReclaimedHistory(b, reclaimed) ==
  [b EXCEPT !.hist = Greatest(0, @ - reclaimed), !.pairs = 0, !.can = FALSE, !.auto = FALSE]

ReclaimTarget(b) == Greatest(0, Total(b) - Warn)

OutcomeIsForThisTurn(m) == m.outcome.shown # 0 /\ m.outcome.for = m.breakdown.id

\* What the meter shows of a breakdown: adjusted for the document, then for the run.
Shown(m, p) ==
  LET live == IF p.live # -1 /\ ~p.cut THEN WithLiveDocument(m.breakdown, p.live) ELSE m.breakdown
  IN  IF OutcomeIsForThisTurn(m) /\ m.outcome.reclaimed > 0
      THEN WithReclaimedHistory(live, m.outcome.reclaimed) ELSE live

-----------------------------------------------------------------------------
(* The pane *)

NoOutcome == [for |-> 0, shown |-> 0, reclaimed |-> 0]
NoFailure == [shown |-> 0, automatic |-> FALSE]
NoTurn    == [pc |-> "idle", breakdown |-> NoBreakdown]
NoRun     == [pc |-> "idle", automatic |-> FALSE, for |-> NoBreakdown, target |-> 0,
              pairs |-> 0, result |-> 0]

Init ==
  /\ store = [pairs |-> 0, totals |-> <<0>>, remembered |-> 0]
  /\ turn = NoTurn
  /\ run = NoRun
  /\ \E doc \in Documents : pane = [doc |-> doc, live |-> -1, cut |-> FALSE]
  /\ meter = [breakdown |-> NoBreakdown, busy |-> FALSE, outcome |-> NoOutcome,
              failure |-> NoFailure, disarmed |-> FALSE, firedFor |-> 0]
  /\ autos = <<>>
  /\ spoiled = FALSE
  /\ left = [turns |-> MaxTurns, runs |-> MaxRuns, typings |-> MaxTypings, faults |-> MaxFaults]

Starts(m, p, automatic) ==
  [NoRun EXCEPT !.pc = "sent", !.automatic = automatic, !.for = m.breakdown,
                !.target = ReclaimTarget(Shown(m, p))]

\* Mutant: a measurement that cannot fire yet waits until it can.
SeesWhenFree(m, p) ==
  m.breakdown # NoBreakdown /\ Shown(m, p).auto /\ m.firedFor # m.breakdown.id
  /\ ~m.busy /\ ~m.disarmed

\* The auto-fire effect: the measurement is seen, whether or not a run is free to start.
Sees(m, p) ==
  m.breakdown # NoBreakdown /\ Shown(m, p).auto /\ m.firedFor # m.breakdown.id

Fires(m, p) == Sees(m, p) /\ ~m.busy /\ ~m.disarmed

\* A render of the state m and p, the effects it runs, and the run r they find.
AfterEffects(m, p, r) ==
  /\ pane' = p
  /\ IF Fires(m, p)
     THEN /\ meter' = [m EXCEPT !.firedFor = m.breakdown.id, !.busy = TRUE, !.failure = NoFailure]
          /\ run' = Starts(m, p, TRUE)
          /\ autos' = Append(autos, m.breakdown.id)
     ELSE /\ meter' = IF Sees(m, p) THEN [m EXCEPT !.firedFor = m.breakdown.id] ELSE m
          /\ run' = r
          /\ UNCHANGED autos

\* The attorney types, and the debounced measurement of the document follows.
Types ==
  /\ left.typings > 0
  /\ \E doc \in Documents \ {pane.doc} : pane' = [pane EXCEPT !.doc = doc]
  /\ left' = [left EXCEPT !.typings = @ - 1]
  /\ UNCHANGED <<store, turn, run, meter, autos, spoiled>>

MeasuresDocument ==
  /\ pane.live # pane.doc
  /\ AfterEffects(meter, [pane EXCEPT !.live = pane.doc], run)
  /\ UNCHANGED <<store, turn, spoiled, left>>

\* The button: offered under pressure, with something to condense, once per measurement.
Condense ==
  /\ left.runs > 0 /\ ~meter.busy
  /\ meter.breakdown # NoBreakdown /\ Shown(meter, pane).can /\ ~OutcomeIsForThisTurn(meter)
  /\ run' = Starts(meter, pane, FALSE)
  /\ meter' = [meter EXCEPT !.busy = TRUE, !.failure = NoFailure]
  /\ left' = [left EXCEPT !.runs = @ - 1]
  /\ UNCHANGED <<store, turn, pane, autos, spoiled>>

-----------------------------------------------------------------------------
(* A chat turn *)

\* send: one at a time, with the document as it is now.
Asks ==
  /\ left.turns > 0 /\ turn.pc = "idle"
  /\ turn' = [pc |-> "sent", doc |-> pane.doc, breakdown |-> NoBreakdown]
  /\ left' = [left EXCEPT !.turns = @ - 1]
  /\ UNCHANGED <<store, run, pane, meter, autos, spoiled>>

\* The context is assembled and measured before the model is called; reads of the
\* stores may fail.  Without a document the question goes to the knowledge base,
\* which measures nothing.
Measures ==
  /\ turn.pc = "sent"
  /\ IF turn.doc = 0
     THEN turn' = [turn EXCEPT !.pc = "measured"] /\ UNCHANGED left
     ELSE \E failing \in SUBSET {"summaries", "rows", "compressible"} :
            /\ \E hist \in HistoriesOf(store, failing) :
                 turn' = [turn EXCEPT !.pc = "measured",
                            !.breakdown = Measured(MaxTurns - left.turns, store, turn.doc, hist, failing)]
            /\ IF failing = {} THEN UNCHANGED left
               ELSE left.faults > 0 /\ left' = [left EXCEPT !.faults = @ - 1]
  /\ UNCHANGED <<store, run, pane, meter, autos, spoiled>>

\* memory_writer appends the pair, or loses it without a word.
Remembers ==
  /\ turn.pc = "measured"
  /\ \E n \in {0, 1} : store' = [store EXCEPT !.pairs = @ + n, !.remembered = @ + n]
  /\ turn' = [turn EXCEPT !.pc = "answered"]
  /\ UNCHANGED <<run, pane, meter, autos, spoiled, left>>

\* The answer reaches the pane and its breakdown, or the lack of one, the meter.  A
\* review of the Findings tab brings neither.
AnswerArrives ==
  /\ turn.pc = "answered"
  /\ AfterEffects([meter EXCEPT !.breakdown = turn.breakdown],
                  [pane EXCEPT !.cut = turn.breakdown # NoBreakdown /\ turn.breakdown.cut], run)
  /\ turn' = NoTurn
  /\ UNCHANGED <<store, spoiled, left>>

\* The turn fails, or its answer is lost: the meter keeps what it had.
TurnFails ==
  /\ turn.pc # "idle"
  /\ turn' = NoTurn
  /\ UNCHANGED <<store, run, pane, meter, autos, spoiled, left>>

-----------------------------------------------------------------------------
(* A condensation *)

Selects ==
  /\ run.pc = "sent"
  /\ run' = IF Selectable(store) = 0
            THEN [run EXCEPT !.pc = "nothing"]
            ELSE [run EXCEPT !.pc = "generating", !.pairs = Selectable(store)]
  /\ UNCHANGED <<store, turn, pane, meter, autos, spoiled, left>>

\* The model answers, the gate passes, and the segment is worth having or not.
Generates ==
  /\ run.pc = "generating"
  /\ \E size \in Segments :
       IF size >= Pair * run.pairs
       THEN run' = [run EXCEPT !.pc = "refused"] /\ UNCHANGED store
       ELSE /\ run' = [run EXCEPT !.pc = "condensed", !.result = Pair * run.pairs - size]
            /\ store' = [store EXCEPT !.pairs = @ - run.pairs,
                                      !.totals = Append(@, Segmented(store) + size)]
  /\ UNCHANGED <<turn, pane, meter, autos, spoiled, left>>

\* The store, the model or the gate fails, or the reply is lost after the write.
RunFails ==
  /\ run.pc \in {"sent", "generating", "condensed"}
  /\ run' = [run EXCEPT !.pc = "failed"]
  /\ UNCHANGED <<store, turn, pane, meter, autos, spoiled, left>>

\* Mutant: the outcome describes the measurement it arrived on.
CondensedForTheLatest ==
  /\ run.pc = "condensed"
  /\ AfterEffects([meter EXCEPT !.busy = FALSE, !.disarmed = FALSE,
                     !.outcome = [for |-> meter.breakdown.id, shown |-> meter.breakdown.id,
                                  reclaimed |-> run.result]], pane, NoRun)
  /\ spoiled' = FALSE
  /\ UNCHANGED <<store, turn, left>>

\* Mutant: the outcome is shown for the measurement the run started on.
CondensedForItsStart ==
  /\ run.pc = "condensed"
  /\ AfterEffects([meter EXCEPT !.busy = FALSE, !.disarmed = FALSE,
                     !.outcome = [for |-> run.for.id, shown |-> run.for.id,
                                  reclaimed |-> run.result]], pane, NoRun)
  /\ spoiled' = FALSE
  /\ UNCHANGED <<store, turn, left>>

\* The run condensed: the outcome is tagged with what it ran for and arrived on.
Condensed ==
  /\ run.pc = "condensed"
  /\ AfterEffects([meter EXCEPT !.busy = FALSE, !.disarmed = FALSE,
                     !.outcome = [for |-> run.for.id, shown |-> meter.breakdown.id,
                                  reclaimed |-> run.result]], pane, NoRun)
  /\ spoiled' = FALSE
  /\ UNCHANGED <<store, turn, left>>

\* Mutant: a refusal does not disarm.
DeclinedStaysArmed ==
  /\ run.pc \in {"nothing", "refused"}
  /\ AfterEffects([meter EXCEPT !.busy = FALSE,
                     !.outcome = [for |-> run.for.id, shown |-> meter.breakdown.id,
                                  reclaimed |-> 0]], pane, NoRun)
  /\ spoiled' = (spoiled \/ run.automatic)
  /\ UNCHANGED <<store, turn, left>>

\* The run declined: a note, and auto is disarmed when nobody had asked.
Declined ==
  /\ run.pc \in {"nothing", "refused"}
  /\ AfterEffects([meter EXCEPT !.busy = FALSE, !.disarmed = @ \/ run.automatic,
                     !.outcome = [for |-> run.for.id, shown |-> meter.breakdown.id,
                                  reclaimed |-> 0]], pane, NoRun)
  /\ spoiled' = (spoiled \/ run.automatic)
  /\ UNCHANGED <<store, turn, left>>

\* Mutant: only a run that was answered frees the button.
FailedStaysBusy ==
  /\ run.pc = "failed"
  /\ AfterEffects([meter EXCEPT !.disarmed = @ \/ run.automatic, !.outcome = NoOutcome,
                     !.failure = [shown |-> meter.breakdown.id, automatic |-> run.automatic]],
                  pane, NoRun)
  /\ spoiled' = (spoiled \/ run.automatic)
  /\ UNCHANGED <<store, turn, left>>

\* The run failed: the error, no note beneath it, and auto disarmed if it was one.
Failed ==
  /\ run.pc = "failed"
  /\ AfterEffects([meter EXCEPT !.busy = FALSE, !.disarmed = @ \/ run.automatic,
                     !.outcome = NoOutcome,
                     !.failure = [shown |-> meter.breakdown.id, automatic |-> run.automatic]],
                  pane, NoRun)
  /\ spoiled' = (spoiled \/ run.automatic)
  /\ UNCHANGED <<store, turn, left>>

Next ==
  \/ Types \/ MeasuresDocument \/ Condense
  \/ Asks \/ Measures \/ Remembers \/ AnswerArrives \/ TurnFails
  \/ Selects \/ Generates \/ RunFails \/ Condensed \/ Declined \/ Failed

Spec == Init /\ [][Next]_vars

-----------------------------------------------------------------------------
(* Properties *)

Measurements ==
  [id : 1 .. MaxTurns, doc : Nat, hist : Nat, cut : BOOLEAN, pairs : Nat, can : BOOLEAN,
   auto : BOOLEAN, condensed : Nat, remembered : Nat, whole : BOOLEAN]
Breakdowns == {NoBreakdown} \cup Measurements

Stores == [pairs : Nat, totals : Seq(Nat), remembered : Nat]
Turns == {NoTurn} \cup
  [pc : {"sent", "measured", "answered"}, doc : Documents, breakdown : Breakdowns]
Runs == [pc : {"idle", "sent", "generating", "nothing", "refused", "condensed", "failed"},
         automatic : BOOLEAN, for : Breakdowns, target : Nat, pairs : Nat, result : Nat]
Panes == [doc : Documents, live : Documents \cup {-1}, cut : BOOLEAN]
Meters ==
  [breakdown : Breakdowns, busy : BOOLEAN, disarmed : BOOLEAN, firedFor : 0 .. MaxTurns,
   outcome : [for : 0 .. MaxTurns, shown : 0 .. MaxTurns, reclaimed : Nat],
   failure : [shown : 0 .. MaxTurns, automatic : BOOLEAN]]

Fired == Seq(1 .. MaxTurns)
Lefts == [turns : 0 .. MaxTurns, runs : Nat, typings : Nat, faults : Nat]

TypeOK ==
  /\ store \in Stores /\ turn \in Turns /\ run \in Runs /\ pane \in Panes /\ meter \in Meters
  /\ autos \in Fired /\ spoiled \in BOOLEAN /\ left \in Lefts

\* However a run ends, the pane is not left busy without one, nor free beside one
\* (the busy flag of runCompaction).
BusyIsTheRun == meter.busy <=> run.pc # "idle"

\* "A breakdown superseded by an in-flight run is skipped, not deferred into a
\* late fire": nothing is condensed unasked while a run is on its way, nor in the
\* step that ends one - and not at all after an automatic run ended badly, until
\* one has succeeded (the auto-fire effect, the disarmed latch).
NothingUnasked == [][run.pc # "idle" \/ spoiled => autos' = autos]_vars

\* The run that was on its way has ended, in this step.
Ends == run.pc \in {"nothing", "refused", "condensed", "failed"} /\ run'.pc \in {"idle", "sent"}

\* What the attorney reads of the run that ended: the component renders nothing
\* without a measurement, and a note or an error only on the one it was shown for.
EndShown ==
  /\ meter'.breakdown # NoBreakdown
  /\ IF run.pc = "failed"
     THEN meter'.failure.shown = meter'.breakdown.id /\ meter'.outcome = NoOutcome
     ELSE meter'.outcome.shown = meter'.breakdown.id

\* However a run ends while a measurement is on screen, the attorney sees it there,
\* an error never beneath an older note (shownFor).
EveryEndIsShown == [][Ends /\ meter.breakdown # NoBreakdown => EndShown]_vars

\* "Condensing that happens WITHOUT a click still says so, before and after": the
\* same, also when an answer without a measurement took the last one off the screen.
NoEndIsMissed == [][Ends /\ run.automatic => EndShown]_vars

\* The measurement on screen has been adjusted for the last condensation.
Adjusted ==
  /\ meter.breakdown # NoBreakdown /\ OutcomeIsForThisTurn(meter) /\ meter.outcome.reclaimed > 0
  /\ meter.breakdown.condensed >= Condensations(store) - 1

\* After a condensation of a conversation that was measured whole, the gauge shows
\* the history the store really holds, the pairs remembered since the measurement
\* aside, and is not adjusted again when the measurement already knew of it
\* (withReclaimedHistory).
GaugeFollowsTheStore ==
  Adjusted /\ meter.breakdown.whole =>
    Shown(meter, pane).hist =
      Greatest(0, AllOf(store) - Pair * (store.remembered - meter.breakdown.remembered))

\* "The backend returns exactly how many characters came out of history": with no
\* pair remembered since, the gauge shows what the next turn will replay.
GaugeShowsTheReplay ==
  Adjusted /\ store.remembered = meter.breakdown.remembered =>
    Shown(meter, pane).hist = Replayed(store)

\* "A breakdown superseded by an in-flight run is skipped, not deferred into a
\* late fire against an already-advanced boundary": an automatic run starts on a
\* measurement taken since the last condensation (the auto-fire effect).
AutoFiresOnAFreshMeasure ==
  [][autos' # autos => meter'.breakdown.condensed = Condensations(store')]_vars

=============================================================================
