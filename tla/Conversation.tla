---------------------------- MODULE Conversation ----------------------------
(***************************************************************************)
(* The durable chat memory of one (document_id, attorney_id) pair:         *)
(* conversation_store holds every chat message, conversation_summary holds *)
(* the condensed segments, and two kinds of request handler, each in a     *)
(* thread of its own, meet there.                                          *)
(*                                                                         *)
(*   - a chat turn first reads the summary floor, then the newest          *)
(*     segments, then the rows above the floor (skills/legal_research/     *)
(*     context.py), answers, and appends its two rows (graph/nodes/        *)
(*     memory_writer.py, memory/conversation_store.py);                    *)
(*   - a compaction (api/routes/compact.py, skills/legal_research/         *)
(*     compaction.py) reads the floor, reads the rows above it, asks the   *)
(*     model for quotes at most twice, and appends one segment.            *)
(*                                                                         *)
(* Every database call is an action: connections are autocommit, no lock   *)
(* spans two of them.  Row ids come from a Postgres sequence, which hands  *)
(* an id out before the row is visible and never takes one back.  Other    *)
(* conversations share the sequence; here their ids are the gaps that      *)
(* failed appends leave.                                                   *)
(***************************************************************************)
EXTENDS Integers, FiniteSets, Sequences, FiniteSetsExt

CONSTANTS Turns,        \* threads serving chat turns of this conversation
          Compactors,   \* threads serving POST /api/compact for it
          KeepRecent,   \* compaction_keep_recent_messages
          MaxRows,      \* _MAX_ROWS_PER_COMPACTION
          MaxMessages,  \* conversation_max_messages
          MaxSegments,  \* compaction_max_injected_segments
          MaxId         \* bound of the model: no row id above it is drawn

ASSUME ConversationAssumption ==
  /\ KeepRecent \in Nat
  /\ MaxRows \in Nat \ {0}
  /\ MaxMessages \in Nat
  /\ MaxSegments \in Nat
  /\ MaxId \in Nat

VARIABLES rows,      \* ids of the committed conversation_store rows
          hollow,    \* those that _sanitize_history strips to nothing
          nextId,    \* the next value of the BIGSERIAL sequence
          segments,  \* conversation_summary, in insertion order
          turn,      \* the state of each chat-turn thread
          job        \* the state of each compaction thread

vars == <<rows, hollow, nextId, segments, turn, job>>

(***************************************************************************)
(* `read' is the set of rows the compaction loaded and condensed; the      *)
(* table stores only from_id and to_id, which bound it.                    *)
(***************************************************************************)
Segment == [from : Nat, to : Nat, read : SUBSET Nat]

TurnPC == {"idle", "floor_read", "segments_read", "answering", "user_id_drawn",
           "both_ids_drawn"}

(***************************************************************************)
(* `known' is a history variable: the rows committed when the turn began   *)
(* to read.  `segs' are the ids of the segments it loaded (a segment's id   *)
(* is its place in the table), `ids' the values drawn for its own rows.    *)
(***************************************************************************)
TurnState == [pc : TurnPC, floor : Nat, segs : SUBSET Nat, recent : SUBSET Nat,
              known : SUBSET Nat, ids : SUBSET Nat]

IdleTurn == [pc |-> "idle", floor |-> 0, segs |-> {}, recent |-> {}, known |-> {},
             ids |-> {}]

JobPC == {"idle", "floor_read", "generating", "writing"}

(* The three ways compact_conversation returns, and none yet. *)
Answer == {"none", "reason", "error", "compacted"}

JobState == [pc : JobPC, boundary : Nat, from : Nat, to : Nat, read : SUBSET Nat,
             attempt : 1..2, answer : Answer]

Answered(a) == [pc |-> "idle", boundary |-> 0, from |-> 0, to |-> 0, read |-> {},
                attempt |-> 1, answer |-> a]

Init ==
  /\ rows = {}
  /\ hollow = {}
  /\ nextId = 1
  /\ segments = <<>>
  /\ turn = [t \in Turns |-> IdleTurn]
  /\ job = [c \in Compactors |-> Answered("none")]

-----------------------------------------------------------------------------
(* The queries. *)

(* Mutant: the floor of the newest segment, not of all of them. *)
NewestFloor == IF segments = <<>> THEN 0 ELSE segments[Len(segments)].to

(* latest_to_id: MAX(to_id) over every segment, 0 when there is none. *)
Floor == Max({0} \cup {segments[i].to : i \in DOMAIN segments})

(* load_segments: the newest MaxSegments segments. *)
LoadSegments == {i \in DOMAIN segments : i > Len(segments) - MaxSegments}

(* load_recent: the newest MaxMessages rows above the floor. *)
LoadRecent(floor) ==
  {r \in rows : r > floor /\ Cardinality({q \in rows : q > r}) < MaxMessages}

(* Mutant: an off-by-one skips a row. *)
LoadRowsWellAfter(b) ==
  {r \in rows : r > b + 1 /\ Cardinality({q \in rows : b + 1 < q /\ q < r}) < MaxRows}

(* load_rows_after: the oldest MaxRows rows above the boundary. *)
LoadRowsAfter(b) ==
  {r \in rows : r > b /\ Cardinality({q \in rows : b < q /\ q < r}) < MaxRows}

(* Mutants: one row too many is selected; the slice keeps the oldest rows. *)
AllButFewerRecent(available) ==
  {r \in available : Cardinality({q \in available : q > r}) >= KeepRecent - 1}
AllButOldest(available) ==
  {r \in available : Cardinality({q \in available : q < r}) >= KeepRecent}

(* available[: len(available) - keep]: all but the newest KeepRecent of them. *)
AllButRecent(available) ==
  {r \in available : Cardinality({q \in available : q > r}) >= KeepRecent}

-----------------------------------------------------------------------------
(* A chat turn: _load_prior_conversation, the answer, append_turn. *)

ReadFloor(t) ==
  /\ turn[t].pc = "idle"
  /\ turn' = [turn EXCEPT ![t] = [IdleTurn EXCEPT !.pc = "floor_read", !.floor = Floor,
                                                  !.known = rows]]
  /\ UNCHANGED <<rows, hollow, nextId, segments, job>>

ReadSegments(t) ==
  /\ turn[t].pc = "floor_read"
  /\ turn' = [turn EXCEPT ![t].pc = "segments_read", ![t].segs = LoadSegments]
  /\ UNCHANGED <<rows, hollow, nextId, segments, job>>

(* Either summary read raises: no floor and no summaries, replay verbatim. *)
SummaryReadFails(t) ==
  /\ turn[t].pc \in {"idle", "floor_read"}
  /\ turn' = [turn EXCEPT ![t] =
                [IdleTurn EXCEPT !.pc = "segments_read",
                   !.known = IF turn[t].pc = "idle" THEN rows ELSE turn[t].known]]
  /\ UNCHANGED <<rows, hollow, nextId, segments, job>>

(* Mutant: the floor is read again after the summaries. *)
ReadRecentRefreshed(t) ==
  /\ turn[t].pc = "segments_read"
  /\ turn' = [turn EXCEPT ![t].pc = "answering", ![t].recent = LoadRecent(Floor)]
  /\ UNCHANGED <<rows, hollow, nextId, segments, job>>

ReadRecent(t) ==
  /\ turn[t].pc = "segments_read"
  /\ turn' = [turn EXCEPT ![t].pc = "answering", ![t].recent = LoadRecent(turn[t].floor)]
  /\ UNCHANGED <<rows, hollow, nextId, segments, job>>

(* The conversation read raises: the turn answers with no prior conversation
   at all, summaries included, and flags memory_degraded. *)
ConversationReadFails(t) ==
  /\ turn[t].pc = "segments_read"
  /\ turn' = [turn EXCEPT ![t] = [IdleTurn EXCEPT !.pc = "answering"]]
  /\ UNCHANGED <<rows, hollow, nextId, segments, job>>

(* The two INSERTs of append_turn each draw an id; executemany sends them as
   one pipeline, which Postgres commits or rolls back as a whole. *)
DrawUserId(t) ==
  /\ turn[t].pc = "answering"
  /\ nextId < MaxId
  /\ turn' = [turn EXCEPT ![t] = [IdleTurn EXCEPT !.pc = "user_id_drawn", !.ids = {nextId}]]
  /\ nextId' = nextId + 1
  /\ UNCHANGED <<rows, hollow, segments, job>>

DrawAssistantId(t) ==
  /\ turn[t].pc = "user_id_drawn"
  /\ nextId <= MaxId
  /\ turn' = [turn EXCEPT ![t].pc = "both_ids_drawn", ![t].ids = @ \cup {nextId}]
  /\ nextId' = nextId + 1
  /\ UNCHANGED <<rows, hollow, segments, job>>

(* An answer that is only a fenced block sanitises to nothing. *)
CommitTurn(t) ==
  /\ turn[t].pc = "both_ids_drawn"
  /\ rows' = rows \cup turn[t].ids
  /\ \E stripped \in SUBSET {r \in turn[t].ids : \A q \in turn[t].ids : q <= r} :
       hollow' = hollow \cup stripped
  /\ turn' = [turn EXCEPT ![t] = IdleTurn]
  /\ UNCHANGED <<nextId, segments, job>>

(* No answer to save, or append_turn raises: the turn is not affected and the
   ids it drew are gone. *)
AppendLost(t) ==
  /\ turn[t].pc \in {"answering", "user_id_drawn", "both_ids_drawn"}
  /\ turn' = [turn EXCEPT ![t] = IdleTurn]
  /\ UNCHANGED <<rows, hollow, nextId, segments, job>>

-----------------------------------------------------------------------------
(* A compaction: select_compactable_rows, the two attempts, append_segment. *)

CompactReadsFloor(c) ==
  /\ job[c].pc = "idle"
  /\ job' = [job EXCEPT ![c] = [Answered("none") EXCEPT !.pc = "floor_read",
                                                        !.boundary = Floor]]
  /\ UNCHANGED <<rows, hollow, nextId, segments, turn>>

(* Mutant: from_id and to_id are taken after sanitising. *)
CompactSelectsSanitised(c) ==
  LET selected == AllButRecent(LoadRowsAfter(job[c].boundary))
      kept == selected \ hollow
  IN  /\ job[c].pc = "floor_read"
      /\ kept # {}
      /\ \E from, to \in kept :
           /\ \A r \in kept : from <= r /\ r <= to
           /\ job' = [job EXCEPT ![c] = [Answered("none") EXCEPT !.pc = "generating",
                                           !.from = from, !.to = to, !.read = selected]]
      /\ UNCHANGED <<rows, hollow, nextId, segments, turn>>

CompactSelectsRows(c) ==
  LET selected == AllButRecent(LoadRowsAfter(job[c].boundary))
  IN  /\ job[c].pc = "floor_read"
      /\ ~ selected \subseteq hollow
      /\ \E from, to \in selected :
           /\ \A r \in selected : from <= r /\ r <= to
           /\ job' = [job EXCEPT ![c] = [Answered("none") EXCEPT !.pc = "generating",
                                           !.from = from, !.to = to, !.read = selected]]
      /\ UNCHANGED <<rows, hollow, nextId, segments, turn>>

CompactFindsNothing(c) ==
  /\ job[c].pc = "floor_read"
  /\ AllButRecent(LoadRowsAfter(job[c].boundary)) \subseteq hollow
  /\ job' = [job EXCEPT ![c] = Answered("reason")]
  /\ UNCHANGED <<rows, hollow, nextId, segments, turn>>

(* latest_to_id or load_rows_after raises out of the handler: a 500. *)
CompactReadFails(c) ==
  /\ job[c].pc \in {"idle", "floor_read"}
  /\ job' = [job EXCEPT ![c] = Answered("error")]
  /\ UNCHANGED <<rows, hollow, nextId, segments, turn>>

(* Mutants: attempts are counted without a limit, or not counted. *)
AttemptFailsUnlimited(c) ==
  /\ job[c].pc = "generating"
  /\ job' = [job EXCEPT ![c].attempt = @ + 1]
  /\ UNCHANGED <<rows, hollow, nextId, segments, turn>>
AttemptFailsForever(c) ==
  /\ job[c].pc = "generating"
  /\ job' = [job EXCEPT ![c].attempt = 3 - @]
  /\ UNCHANGED <<rows, hollow, nextId, segments, turn>>

(* The model is unreachable, or no quote of its output passes the gate. *)
AttemptFails(c) ==
  /\ job[c].pc = "generating"
  /\ job' = [job EXCEPT ![c] = IF @.attempt = 1 THEN [@ EXCEPT !.attempt = 2]
                               ELSE Answered("error")]
  /\ UNCHANGED <<rows, hollow, nextId, segments, turn>>

(* Quotes passed, but the segment is no smaller than the rows it replaces. *)
CompactDeclines(c) ==
  /\ job[c].pc = "generating"
  /\ job' = [job EXCEPT ![c] = Answered("reason")]
  /\ UNCHANGED <<rows, hollow, nextId, segments, turn>>

AttemptPasses(c) ==
  /\ job[c].pc = "generating"
  /\ job' = [job EXCEPT ![c].pc = "writing"]
  /\ UNCHANGED <<rows, hollow, nextId, segments, turn>>

SegmentOf(c) == [from |-> job[c].from, to |-> job[c].to, read |-> job[c].read]

AppendSegment(c) ==
  /\ job[c].pc = "writing"
  /\ segments' = Append(segments, SegmentOf(c))
  /\ job' = [job EXCEPT ![c] = Answered("compacted")]
  /\ UNCHANGED <<rows, hollow, nextId, turn>>

(* append_segment raises.  The INSERT was not executed, or it was and the
   connection broke before its RETURNING row was read. *)
AppendSegmentFails(c) ==
  /\ job[c].pc = "writing"
  /\ segments' \in {segments, Append(segments, SegmentOf(c))}
  /\ job' = [job EXCEPT ![c] = Answered("error")]
  /\ UNCHANGED <<rows, hollow, nextId, turn>>

-----------------------------------------------------------------------------
TurnStep(t) ==
  \/ ReadFloor(t) \/ ReadSegments(t) \/ SummaryReadFails(t)
  \/ ReadRecent(t) \/ ConversationReadFails(t)
  \/ DrawUserId(t) \/ DrawAssistantId(t) \/ CommitTurn(t) \/ AppendLost(t)

JobStep(c) ==
  \/ CompactReadsFloor(c) \/ CompactSelectsRows(c) \/ CompactFindsNothing(c)
  \/ CompactReadFails(c) \/ AttemptFails(c) \/ CompactDeclines(c)
  \/ AttemptPasses(c) \/ AppendSegment(c) \/ AppendSegmentFails(c)

Next == (\E t \in Turns : TurnStep(t)) \/ (\E c \in Compactors : JobStep(c))

Spec == Init /\ [][Next]_vars

(* A request that was accepted keeps running; none has to arrive. *)
Running(c) == job[c].pc # "idle" /\ JobStep(c)

FairSpec == Spec /\ \A c \in Compactors : WF_vars(Running(c))

-----------------------------------------------------------------------------
(* Properties. *)

TypeOK ==
  /\ rows \subseteq Nat /\ IsFiniteSet(rows)
  /\ hollow \subseteq rows
  /\ nextId \in Nat \ {0}
  /\ segments \in Seq(Segment)
  /\ turn \in [Turns -> TurnState]
  /\ job \in [Compactors -> JobState]

(* Moving the floor never loses a message: a row at or below it, which no
   later turn replays (conversation_store.py, load_recent), was read and
   condensed by some compaction.  Ids are drawn, committed and read at
   different moments, by different threads. *)
NothingForgotten ==
  \A r \in rows : r <= Floor => \E i \in DOMAIN segments : r \in segments[i].read

(* "Every block stays auditable against exactly the rows it came from"
   (conversation_summary.py): whatever is committed since, the rows inside a
   segment's range are the rows its compaction read. *)
Auditable ==
  \A i \in DOMAIN segments :
    \A r \in rows : (segments[i].from <= r /\ r <= segments[i].to) <=> r \in segments[i].read

(* compaction_keep_recent_messages is a floor: however many compactions run
   at once, the newest KeepRecent messages are never condensed. *)
RecentKeptVerbatim ==
  Floor > 0 => Cardinality({r \in rows : r > Floor}) >= KeepRecent

(* What a chat turn tells the model: every message that was committed when it
   began to read is replayed verbatim or stands in a summary it loaded; the
   only ones missing are older than MaxMessages newer rows, or stand in a
   segment older than MaxSegments newer ones.  No lock spans the three reads,
   so a compaction may commit between any two (context.py). *)
ReplayComplete ==
  \A t \in Turns : turn[t].pc = "answering" =>
    \A r \in turn[t].known :
      \/ r \in turn[t].recent
      \/ \E i \in turn[t].segs : r \in segments[i].read
      \/ /\ r > turn[t].floor
         /\ Cardinality(turn[t].recent) >= MaxMessages
         /\ \A q \in turn[t].recent : q > r
      \/ /\ Cardinality(turn[t].segs) >= MaxSegments
         /\ \E i \in DOMAIN segments : /\ r \in segments[i].read
                                       /\ \A j \in turn[t].segs : i < j

(* The floor never goes back, so a message once condensed is never replayed
   verbatim again: a slow compaction that commits a shorter range after a
   faster one does not undo it. *)
FloorNeverRetreats == [][Floor' >= Floor]_vars

(* "A second compaction picks up exactly where the first stopped: ranges never
   overlap and never gap" (compaction.py, select_compactable_rows). *)
NeverOverlap ==
  \A i, j \in DOMAIN segments : i < j => segments[i].to < segments[j].from

(* The model is asked at most twice and nothing else is waited for: every
   accepted compaction answers. *)
CompactionAnswers == \A c \in Compactors : job[c].pc # "idle" ~> job[c].pc = "idle"

(* The conversation as the attorney may think of it: see the ledger module. *)
Ledger == INSTANCE ConversationLedger
            WITH live <- {r \in rows : r > Floor},
                 condensed <- {r \in rows : \E i \in DOMAIN segments : r \in segments[i].read}

LedgerSpec == Ledger!Spec
=============================================================================
