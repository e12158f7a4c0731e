------------------------------- MODULE TurnLog -------------------------------
(***************************************************************************)
(* What one request leaves in turn_log: what is noted while it runs        *)
(* (observability/spans.py, degradations.py), the row made of it           *)
(* (memory/turn_log.py, api/turn_record.py), and what is read back.  Pure  *)
(* functions.                                                              *)
(*                                                                         *)
(* An event is [kind, reason, said, facts, call]: a degradation, a failure *)
(* that says something or not, facts for the row, or a model call with its *)
(* tokens.  Sizes, times and versions, which a row only copies, are left   *)
(* out.                                                                    *)
(***************************************************************************)
EXTENDS Integers, FiniteSets, Sequences, SequencesExt

CONSTANTS FailedReasons, \* the codes of class 1: no answer
          NoError

(* traced: the outermost function opens a request with nothing noted.  What is noted
   outside of one goes nowhere. *)
Opened == [open |-> TRUE, reasons |-> <<>>, error |-> NoError, facts |-> <<>>, calls |-> <<>>]
Outside == [Opened EXCEPT !.open = FALSE]

(* A reason is listed once, where it was first met. *)
Accumulate(acc, reason) ==
  [acc EXCEPT !.reasons = IF reason \in ToSet(@) THEN @ ELSE Append(@, reason)]

(* mark_failed: what broke first is the error; what follows are its consequences. *)
MarkFailed(acc, reason, said) ==
  [Accumulate(acc, reason) EXCEPT
     !.error = IF @ = NoError THEN [reason |-> reason, said |-> said] ELSE @]

(* note_turn: the last value of a key wins. *)
NoteTurn(acc, facts) ==
  [acc EXCEPT !.facts = [k \in DOMAIN @ \cup DOMAIN facts |->
                           IF k \in DOMAIN facts THEN facts[k] ELSE @[k]]]

Note(acc, event) ==
  CASE ~acc.open -> acc
    [] acc.open /\ event.kind = "degraded" -> Accumulate(acc, event.reason)
    [] acc.open /\ event.kind = "failed" -> MarkFailed(acc, event.reason, event.said)
    [] acc.open /\ event.kind = "noted" -> NoteTurn(acc, event.facts)
    [] acc.open /\ event.kind = "called" -> [acc EXCEPT !.calls = Append(@, event.call)]

Noted(acc, events) == FoldLeft(Note, acc, events)

(* derive_outcome *)
DeriveOutcome(reasons) ==
  CASE ToSet(reasons) \cap FailedReasons # {} -> "failed"
    [] ToSet(reasons) \cap FailedReasons = {} /\ reasons # <<>> -> "degraded"
    [] OTHER -> "ok"

-----------------------------------------------------------------------------
(* build_turn_row: what the graph found out comes before what was asked (result is
   the final state, of empty fields where nothing came back), the first failure
   before the handler's own words. *)
Or(value, otherwise) == IF value # "" THEN value ELSE otherwise

BuildTurnRow(turn, acc, result, apiError) ==
  [arrived  |-> turn.arrived,
   attorney |-> turn.attorney,
   kind     |-> turn.kind,
   turnId   |-> turn.turnId,
   document |-> Or(result.document, turn.document),
   task     |-> Or(result.task, turn.task),
   outcome  |-> DeriveOutcome(acc.reasons),
   reasons  |-> acc.reasons,
   error    |-> IF acc.error # NoError THEN acc.error ELSE apiError,
   llmCalls |-> Len(acc.calls),
   tokens   |-> FoldLeft(LAMBDA sum, call : sum + call, 0, acc.calls)]

(* write_turn_quietly, after the response: the table is in the order written, a row
   that cannot be written is in the log. *)
WriteTurnQuietly(store, row, works) ==
  IF works THEN [store EXCEPT !.table = Append(@, row)]
  ELSE [store EXCEPT !.journal = Append(@, row)]

-----------------------------------------------------------------------------
(* _filters: what is left "" (or 0) filters nothing. *)
Matches(row, filter) ==
  /\ row.arrived >= filter.since
  /\ filter.document \in {"", row.document}
  /\ filter.attorney \in {"", row.attorney}

(* ORDER BY timestamp, id *)
ByArrival(table, ids) ==
  LET Before(i, k) == \/ table[i].arrived < table[k].arrived
                      \/ table[i].arrived = table[k].arrived /\ i < k
      Nth(n) == CHOOSE i \in ids : Cardinality({k \in ids : Before(k, i)}) = n - 1
  IN  [n \in 1..Cardinality(ids) |-> Nth(n)]

(* The limit rows last written within the filter, in the order of their requests,
   each with the events and flags of its turn. *)
RecentTurns(table, filter, limit, events, flags) ==
  LET matching == {i \in DOMAIN table : Matches(table[i], filter)}
      newest == {i \in matching : Cardinality({k \in matching : k > i}) < limit}
      ids == ByArrival(table, newest)
      Count(i, actions) ==
        Cardinality({e \in DOMAIN events : /\ events[e].turnId = table[i].turnId
                                           /\ events[e].action \in actions})
  IN  [n \in DOMAIN ids |->
         [id        |-> ids[n],
          applied   |-> Count(ids[n], {"edit_applied", "redline_applied"}),
          failed    |-> Count(ids[n], {"edit_failed", "redline_failed"}),
          discarded |-> Count(ids[n], {"edit_discarded"}),
          flags     |-> Cardinality({f \in DOMAIN flags : flags[f] = table[ids[n]].turnId})]]

(* turn_summaries: every question, and nothing but questions. *)
TurnSummaries(table, filter) ==
  ByArrival(table, {i \in DOMAIN table : table[i].kind = "query" /\ Matches(table[i], filter)})

=============================================================================
