------------------------- MODULE ConversationProofs -------------------------
(***************************************************************************)
(* What holds of Conversation for every number of threads and every bound: *)
(* the types; that a compaction never condenses the newest KeepRecent      *)
(* messages and never lowers the floor, however many run at once; and,     *)
(* while rows become visible in the order of their ids, that nothing is    *)
(* forgotten, that segments can be audited, that a turn is told everything *)
(* and that the tables implement the ledger.                               *)
(***************************************************************************)
EXTENDS Conversation, FiniteSetTheorems, WellFoundedInduction, TLAPS

-----------------------------------------------------------------------------
(* The floor.  Max is a CHOOSE: that the table of segments has a greatest    *)
(* `to' is carried by the invariant, which each append extends.              *)

Tos(s) == {0} \cup {s[i].to : i \in DOMAIN s}

HasMax(s) == \E m \in Tos(s) : \A x \in Tos(s) : m >= x

(* The candidates for the floor are row ids or 0 (latest_to_id). *)
LEMMA TosAreNaturals ==
  ASSUME NEW s \in Seq(Segment)
  PROVE  Tos(s) \subseteq Nat
<1>1. \A i \in DOMAIN s : s[i].to \in Nat
  <2>1. \A g \in Segment : g.to \in Nat
    BY DEF Segment
  <2>2. \A i \in DOMAIN s : s[i] \in Segment
    OBVIOUS
  <2> QED
    BY <2>1, <2>2
<1> QED
  BY <1>1 DEF Tos

(* The floor of a table that has one is its greatest `to' (latest_to_id). *)
LEMMA FloorIsGreatest ==
  ASSUME NEW s \in Seq(Segment), HasMax(s)
  PROVE  /\ Max(Tos(s)) \in Nat
         /\ Max(Tos(s)) \in Tos(s)
         /\ \A x \in Tos(s) : Max(Tos(s)) >= x
<1>1. /\ Max(Tos(s)) \in Tos(s)
      /\ \A x \in Tos(s) : Max(Tos(s)) >= x
  BY DEF HasMax, Max
<1>2. Tos(s) \subseteq Nat
  BY TosAreNaturals
<1> QED
  BY <1>1, <1>2

(* Appending a segment leaves the floor where it was or moves it up to the
   segment's `to' (append_segment, latest_to_id). *)
LEMMA FloorAfterAppend ==
  ASSUME NEW s \in Seq(Segment), HasMax(s), NEW g \in Segment
  PROVE  LET t == Append(s, g) IN
         /\ HasMax(t)
         /\ Max(Tos(t)) >= Max(Tos(s))
         /\ Max(Tos(t)) \in {Max(Tos(s)), g.to}
<1> DEFINE t == Append(s, g)
<1>1. t \in Seq(Segment)
  OBVIOUS
<1>2. Tos(t) = Tos(s) \cup {g.to}
  <2>1. /\ DOMAIN t = DOMAIN s \cup {Len(s) + 1}
        /\ \A i \in DOMAIN s : t[i] = s[i]
        /\ t[Len(s) + 1] = g
    OBVIOUS
  <2> HIDE DEF t
  <2> QED
    BY <2>1 DEF Tos
<1>3. Tos(t) \subseteq Nat
  BY <1>1, TosAreNaturals
<1>4. HasMax(t)
  <2>1. PICK m \in Tos(s) : \A x \in Tos(s) : m >= x
    BY DEF HasMax
  <2>2. CASE m >= g.to
    BY <1>2, <2>1, <2>2 DEF HasMax
  <2>3. CASE g.to > m
    BY <1>2, <1>3, <2>1, <2>3 DEF HasMax
  <2> QED
    BY <1>2, <1>3, <2>1, <2>2, <2>3
<1>5. /\ Max(Tos(t)) \in Tos(t)
      /\ \A x \in Tos(t) : Max(Tos(t)) >= x
  BY <1>1, <1>4, FloorIsGreatest
<1>6. /\ Max(Tos(s)) \in Tos(s)
      /\ \A x \in Tos(s) : Max(Tos(s)) >= x
  BY FloorIsGreatest
<1> HIDE DEF t
<1>7. Max(Tos(t)) >= Max(Tos(s))
  BY <1>2, <1>5, <1>6
<1>8. Max(Tos(t)) \in {Max(Tos(s)), g.to}
  <2>1. CASE Max(Tos(t)) = g.to
    BY <2>1
  <2>2. CASE Max(Tos(t)) \in Tos(s)
    BY <1>2, <1>3, <1>6, <1>7, <2>2
  <2> QED
    BY <1>2, <1>5, <2>1, <2>2
<1> QED
  BY <1>4, <1>7, <1>8 DEF t

(* The floor is the MAX of the table, COALESCEd to 0 (latest_to_id). *)
LEMMA FloorDef == Floor = Max(Tos(segments))
  BY DEF Floor, Tos

-----------------------------------------------------------------------------
(* Types. *)

(* TypeOK is not inductive: the floor is a number because the table has a   *)
(* greatest `to', and the rows stay finite because a turn draws two ids.    *)
TypeInv ==
  /\ TypeOK
  /\ HasMax(segments)
  /\ \A t \in Turns : IsFiniteSet(turn[t].ids)

(* The floor is a row id or 0 (latest_to_id). *)
LEMMA FloorIsNatural ==
  ASSUME TypeInv
  PROVE  Floor \in Nat
<1> QED
  BY FloorIsGreatest, FloorDef DEF TypeInv, TypeOK

(* The empty store is typed. *)
LEMMA TypeInvInit ==
  ASSUME Init
  PROVE  TypeInv
<1> USE ConversationAssumption DEF Init
<1>1. rows \subseteq Nat /\ IsFiniteSet(rows) /\ hollow \subseteq rows
  BY FS_EmptySet
<1>2. segments \in Seq(Segment) /\ nextId \in Nat \ {0}
  OBVIOUS
<1>3. turn \in [Turns -> TurnState]
  BY DEF IdleTurn, TurnState, TurnPC
<1>4. job \in [Compactors -> JobState]
  BY DEF Answered, JobState, JobPC, Answer
<1>5. HasMax(segments)
  BY DEF HasMax, Tos
<1>6. \A t \in Turns : IsFiniteSet(turn[t].ids)
  BY FS_EmptySet DEF IdleTurn
<1> QED
  BY <1>1, <1>2, <1>3, <1>4, <1>5, <1>6 DEF TypeInv, TypeOK

(* What a step of a chat turn leaves typed. *)
LEMMA TurnKeepsTypes ==
  ASSUME TypeInv, NEW t \in Turns, TurnStep(t)
  PROVE  TypeInv'
<1> USE ConversationAssumption
<1>0. /\ rows \subseteq Nat /\ IsFiniteSet(rows) /\ hollow \subseteq rows
      /\ nextId \in Nat \ {0} /\ segments \in Seq(Segment)
      /\ turn \in [Turns -> TurnState] /\ turn[t] \in TurnState
      /\ job \in [Compactors -> JobState]
      /\ HasMax(segments)
      /\ \A u \in Turns : IsFiniteSet(turn[u].ids)
  BY DEF TypeInv, TypeOK
<1>1. segments' = segments /\ job' = job
  BY DEF TurnStep, ReadFloor, ReadSegments, SummaryReadFails, ReadRecent,
         ConversationReadFails, DrawUserId, DrawAssistantId, CommitTurn, AppendLost
<1>2. SUFFICES /\ rows' \subseteq Nat /\ IsFiniteSet(rows') /\ hollow' \subseteq rows'
               /\ nextId' \in Nat \ {0}
               /\ \E u \in TurnState : IsFiniteSet(u.ids) /\ turn' = [turn EXCEPT ![t] = u]
  <2>1. PICK u \in TurnState : IsFiniteSet(u.ids) /\ turn' = [turn EXCEPT ![t] = u]
    BY <1>2
  <2>2. turn' \in [Turns -> TurnState]
    BY <1>0, <2>1
  <2>3. \A v \in Turns : IsFiniteSet(turn'[v].ids)
    BY <1>0, <2>1
  <2> QED
    BY <1>0, <1>1, <1>2, <2>2, <2>3 DEF TypeInv, TypeOK, HasMax, Tos
<1>3. IdleTurn \in TurnState /\ IsFiniteSet(IdleTurn.ids)
  BY FS_EmptySet DEF IdleTurn, TurnState, TurnPC
<1>4. CASE ReadFloor(t)
  <2> DEFINE u == [IdleTurn EXCEPT !.pc = "floor_read", !.floor = Floor, !.known = rows]
  <2>1. u \in TurnState /\ IsFiniteSet(u.ids)
    BY <1>0, <1>3, FloorIsNatural, FS_EmptySet DEF IdleTurn, TurnState, TurnPC
  <2> QED
    BY <1>0, <1>4, <2>1 DEF ReadFloor
<1>5. CASE ReadSegments(t)
  <2> DEFINE u == [turn[t] EXCEPT !.pc = "segments_read", !.segs = LoadSegments]
  <2>1. LoadSegments \subseteq Nat
    BY <1>0 DEF LoadSegments
  <2>2. u \in TurnState /\ u.ids = turn[t].ids
    BY <1>0, <2>1 DEF TurnState, TurnPC
  <2>3. turn' = [turn EXCEPT ![t] = u]
    BY <1>0, <1>5 DEF ReadSegments
  <2> QED
    BY <1>0, <1>5, <2>2, <2>3 DEF ReadSegments
<1>6. CASE SummaryReadFails(t)
  <2> DEFINE u == [IdleTurn EXCEPT !.pc = "segments_read",
                     !.known = IF turn[t].pc = "idle" THEN rows ELSE turn[t].known]
  <2>1. u \in TurnState /\ IsFiniteSet(u.ids)
    BY <1>0, FS_EmptySet DEF IdleTurn, TurnState, TurnPC
  <2> QED
    BY <1>0, <1>6, <2>1 DEF SummaryReadFails
<1>7. CASE ReadRecent(t)
  <2> DEFINE u == [turn[t] EXCEPT !.pc = "answering", !.recent = LoadRecent(turn[t].floor)]
  <2>1. LoadRecent(turn[t].floor) \subseteq Nat
    BY <1>0 DEF LoadRecent
  <2>2. u \in TurnState /\ u.ids = turn[t].ids
    BY <1>0, <2>1 DEF TurnState, TurnPC
  <2>3. turn' = [turn EXCEPT ![t] = u]
    BY <1>0, <1>7 DEF ReadRecent
  <2> QED
    BY <1>0, <1>7, <2>2, <2>3 DEF ReadRecent
<1>8. CASE ConversationReadFails(t)
  <2> DEFINE u == [IdleTurn EXCEPT !.pc = "answering"]
  <2>1. u \in TurnState /\ IsFiniteSet(u.ids)
    BY FS_EmptySet DEF IdleTurn, TurnState, TurnPC
  <2> QED
    BY <1>0, <1>8, <2>1 DEF ConversationReadFails
<1>9. CASE DrawUserId(t)
  <2> DEFINE u == [IdleTurn EXCEPT !.pc = "user_id_drawn", !.ids = {nextId}]
  <2>1. u \in TurnState /\ IsFiniteSet(u.ids)
    BY <1>0, FS_Singleton DEF IdleTurn, TurnState, TurnPC
  <2>2. turn' = [turn EXCEPT ![t] = u]
    BY <1>9 DEF DrawUserId
  <2>3. nextId' \in Nat \ {0} /\ rows' = rows /\ hollow' = hollow
    BY <1>0, <1>9 DEF DrawUserId
  <2> HIDE DEF u
  <2> QED
    BY <1>0, <2>1, <2>2, <2>3
<1>10. CASE DrawAssistantId(t)
  <2> DEFINE u == [turn[t] EXCEPT !.pc = "both_ids_drawn", !.ids = @ \cup {nextId}]
  <2>1. IsFiniteSet(turn[t].ids \cup {nextId})
    BY <1>0, FS_AddElement
  <2>2. u \in TurnState /\ u.ids = turn[t].ids \cup {nextId}
    BY <1>0 DEF TurnState, TurnPC
  <2>3. turn' = [turn EXCEPT ![t] = u]
    BY <1>0, <1>10 DEF DrawAssistantId
  <2>4. nextId' \in Nat \ {0} /\ rows' = rows /\ hollow' = hollow
    BY <1>0, <1>10 DEF DrawAssistantId
  <2> HIDE DEF u
  <2> QED
    BY <1>0, <2>1, <2>2, <2>3, <2>4
<1>11. CASE CommitTurn(t)
  <2>1. turn[t].ids \subseteq Nat
    BY <1>0 DEF TurnState
  <2>2. IsFiniteSet(rows')
    BY <1>0, <1>11, FS_Union DEF CommitTurn
  <2>3. rows' \subseteq Nat /\ hollow' \subseteq rows'
    BY <1>0, <1>11, <2>1 DEF CommitTurn
  <2> QED
    BY <1>0, <1>3, <1>11, <2>2, <2>3 DEF CommitTurn
<1>12. CASE AppendLost(t)
  BY <1>0, <1>3, <1>12 DEF AppendLost
<1> QED
  BY <1>4, <1>5, <1>6, <1>7, <1>8, <1>9, <1>10, <1>11, <1>12 DEF TurnStep

(* What a step of a compaction leaves typed. *)
LEMMA JobKeepsTypes ==
  ASSUME TypeInv, NEW c \in Compactors, JobStep(c)
  PROVE  TypeInv'
<1> USE ConversationAssumption
<1>0. /\ rows \subseteq Nat /\ IsFiniteSet(rows) /\ hollow \subseteq rows
      /\ nextId \in Nat \ {0} /\ segments \in Seq(Segment)
      /\ turn \in [Turns -> TurnState]
      /\ job \in [Compactors -> JobState] /\ job[c] \in JobState
      /\ HasMax(segments)
      /\ \A u \in Turns : IsFiniteSet(turn[u].ids)
  BY DEF TypeInv, TypeOK
<1>1. rows' = rows /\ hollow' = hollow /\ nextId' = nextId /\ turn' = turn
  BY DEF JobStep, CompactReadsFloor, CompactSelectsRows, CompactFindsNothing,
         CompactReadFails, AttemptFails, CompactDeclines, AttemptPasses,
         AppendSegment, AppendSegmentFails
<1>2. SUFFICES /\ segments' \in {segments, Append(segments, SegmentOf(c))}
               /\ \E j \in JobState : job' = [job EXCEPT ![c] = j]
  <2>1. SegmentOf(c) \in Segment
    BY <1>0 DEF SegmentOf, Segment, JobState
  <2>2. Append(segments, SegmentOf(c)) \in Seq(Segment)
    BY <1>0, <2>1
  <2>4. HasMax(Append(segments, SegmentOf(c)))
    BY <1>0, <2>1, FloorAfterAppend
  <2>5. segments' \in Seq(Segment) /\ HasMax(segments')
    BY <1>0, <1>2, <2>2, <2>4
  <2>3. job' \in [Compactors -> JobState]
    BY <1>0, <1>2
  <2> QED
    BY <1>0, <1>1, <2>3, <2>5 DEF TypeInv, TypeOK, HasMax, Tos
<1>3. \A a \in Answer : Answered(a) \in JobState
  BY DEF Answered, JobState, JobPC
<1>10. Answered("none") \in JobState
  BY <1>3 DEF Answer
<1>4. CASE CompactReadsFloor(c)
  <2> DEFINE j == [Answered("none") EXCEPT !.pc = "floor_read", !.boundary = Floor]
  <2>1. j \in JobState
    BY <1>10, FloorIsNatural DEF JobState, JobPC
  <2> QED
    BY <1>4, <2>1 DEF CompactReadsFloor
<1>5. CASE CompactSelectsRows(c)
  <2> DEFINE selected == AllButRecent(LoadRowsAfter(job[c].boundary))
  <2>1. selected \subseteq Nat
    BY <1>0 DEF AllButRecent, LoadRowsAfter
  <2> HIDE DEF selected
  <2>2. PICK from \in selected, to \in selected :
          job' = [job EXCEPT ![c] = [Answered("none") EXCEPT !.pc = "generating",
                                       !.from = from, !.to = to, !.read = selected]]
    BY <1>5 DEF CompactSelectsRows, selected
  <2>3. [Answered("none") EXCEPT !.pc = "generating", !.from = from, !.to = to,
                                 !.read = selected] \in JobState
    BY <1>10, <2>1 DEF JobState, JobPC
  <2> QED
    BY <1>5, <2>2, <2>3 DEF CompactSelectsRows
<1>6. CASE CompactFindsNothing(c) \/ CompactReadFails(c) \/ CompactDeclines(c)
  BY <1>3, <1>6 DEF CompactFindsNothing, CompactReadFails, CompactDeclines, Answer
<1>7. CASE AttemptFails(c)
  <2>1. [job[c] EXCEPT !.attempt = 2] \in JobState
    BY <1>0 DEF JobState
  <2>2. Answered("error") \in JobState
    BY <1>3 DEF Answer
  <2>3. job' = [job EXCEPT ![c] = IF job[c].attempt = 1 THEN [job[c] EXCEPT !.attempt = 2]
                                  ELSE Answered("error")]
    BY <1>0, <1>7 DEF AttemptFails
  <2> QED
    BY <1>7, <2>1, <2>2, <2>3 DEF AttemptFails
<1>8. CASE AttemptPasses(c)
  <2>1. [job[c] EXCEPT !.pc = "writing"] \in JobState
    BY <1>0 DEF JobState, JobPC
  <2>2. job' = [job EXCEPT ![c] = [job[c] EXCEPT !.pc = "writing"]]
    BY <1>0, <1>8 DEF AttemptPasses
  <2> QED
    BY <1>8, <2>1, <2>2 DEF AttemptPasses
<1>9. CASE AppendSegment(c) \/ AppendSegmentFails(c)
  BY <1>3, <1>9 DEF AppendSegment, AppendSegmentFails, Answer
<1> QED
  BY <1>4, <1>5, <1>6, <1>7, <1>8, <1>9 DEF JobStep

(* The types, the greatest `to' and the finite draws hold together. *)
LEMMA TypeInvInvariant == Spec => []TypeInv
<1>1. Init => TypeInv
  BY TypeInvInit
<1>2. TypeInv /\ [Next]_vars => TypeInv'
  <2> SUFFICES ASSUME TypeInv, [Next]_vars
               PROVE  TypeInv'
    OBVIOUS
  <2>1. ASSUME NEW t \in Turns, TurnStep(t)
        PROVE  TypeInv'
    BY <2>1, TurnKeepsTypes
  <2>2. ASSUME NEW c \in Compactors, JobStep(c)
        PROVE  TypeInv'
    BY <2>2, JobKeepsTypes
  <2>3. CASE UNCHANGED vars
    BY <2>3 DEF vars, TypeInv, TypeOK, HasMax, Tos
  <2> QED
    BY <2>1, <2>2, <2>3 DEF Next
<1> QED
  BY <1>1, <1>2, PTL DEF Spec

(* Every row id, floor, segment, turn and compaction stays of its type: in
   particular no compaction calls the model a third time, and nothing is
   stripped (_sanitize_history) that is not a row. *)
THEOREM TypeCorrect == Spec => []TypeOK
<1>1. TypeInv => TypeOK
  BY DEF TypeInv
<1> QED
  BY <1>1, TypeInvInvariant, PTL

-----------------------------------------------------------------------------
(* The floor only rises, and stays below the newest KeepRecent messages. *)

(* The summary table changes only by the append of one pending segment, and
   the conversation rows only grow. *)
LEMMA TablesOnlyGrow ==
  ASSUME TypeInv, [Next]_vars
  PROVE  /\ rows \subseteq rows'
         /\ \/ segments' = segments
            \/ \E c \in Compactors : /\ job[c].pc = "writing"
                                     /\ segments' = Append(segments, SegmentOf(c))
<1>1. ASSUME NEW t \in Turns, TurnStep(t)
      PROVE  rows \subseteq rows' /\ segments' = segments
  BY <1>1 DEF TurnStep, ReadFloor, ReadSegments, SummaryReadFails, ReadRecent,
              ConversationReadFails, DrawUserId, DrawAssistantId, CommitTurn, AppendLost
<1>2. ASSUME NEW c \in Compactors, JobStep(c)
      PROVE  /\ rows' = rows
             /\ \/ segments' = segments
                \/ job[c].pc = "writing" /\ segments' = Append(segments, SegmentOf(c))
  BY <1>2 DEF JobStep, CompactReadsFloor, CompactSelectsRows, CompactFindsNothing,
              CompactReadFails, AttemptFails, CompactDeclines, AttemptPasses,
              AppendSegment, AppendSegmentFails
<1>3. CASE UNCHANGED vars
  BY <1>3 DEF vars
<1> QED
  BY <1>1, <1>2, <1>3 DEF Next

(* A segment appended late, by whichever of the running compactions, moves the
   floor to its own last row or not at all (latest_to_id is a MAX). *)
LEMMA FloorMoves ==
  ASSUME TypeInv, NEW c \in Compactors, segments' = Append(segments, SegmentOf(c))
  PROVE  Floor' >= Floor /\ Floor' \in {Floor, job[c].to}
<1>1. SegmentOf(c) \in Segment /\ SegmentOf(c).to = job[c].to
  BY DEF TypeInv, TypeOK, SegmentOf, Segment, JobState
<1>2. /\ Max(Tos(Append(segments, SegmentOf(c)))) >= Max(Tos(segments))
      /\ Max(Tos(Append(segments, SegmentOf(c)))) \in {Max(Tos(segments)), SegmentOf(c).to}
  BY <1>1, FloorAfterAppend DEF TypeInv, TypeOK
<1>3. Floor' = Max(Tos(segments'))
  BY DEF Floor, Tos
<1> QED
  BY <1>1, <1>2, <1>3, FloorDef

(* A message once condensed is never replayed verbatim again, however many
   compactions run and in whatever order they commit (latest_to_id). *)
THEOREM FloorMonotone == Spec => FloorNeverRetreats
<1>1. TypeInv /\ [Next]_vars => [Floor' >= Floor]_vars
  <2> SUFFICES ASSUME TypeInv, [Next]_vars
               PROVE  Floor' >= Floor
    OBVIOUS
  <2>1. CASE segments' = segments
    <3>1. Floor' = Floor
      BY <2>1 DEF Floor
    <3> QED
      BY <3>1, FloorIsNatural
  <2>2. ASSUME NEW c \in Compactors, segments' = Append(segments, SegmentOf(c))
        PROVE  Floor' >= Floor
    BY <2>2, FloorMoves
  <2> QED
    BY <2>1, <2>2, TablesOnlyGrow
<1> QED
  BY <1>1, TypeInvInvariant, PTL DEF Spec, FloorNeverRetreats

(* The newest KeepRecent rows lie above x. *)
Keeps(S, x) == Cardinality({r \in S : r > x}) >= KeepRecent

(* Rows that come in and a boundary that comes down keep no fewer rows. *)
LEMMA KeepsMore ==
  ASSUME NEW S, NEW T, IsFiniteSet(T), S \subseteq T, NEW x, Keeps(S, x)
  PROVE  Keeps(T, x)
<1> DEFINE s == {r \in S : r > x}
           t == {r \in T : r > x}
<1>1. IsFiniteSet(t)
  BY FS_Subset
<1>2. s \subseteq t
  OBVIOUS
<1>3. Cardinality(s) <= Cardinality(t) /\ IsFiniteSet(s)
  BY <1>1, <1>2, FS_Subset
<1>4. Cardinality(s) \in Nat /\ Cardinality(t) \in Nat
  BY <1>1, <1>3, FS_CardinalityType
<1>5. Cardinality(s) >= KeepRecent
  BY DEF Keeps
<1> HIDE DEF s, t
<1>6. Cardinality(t) >= KeepRecent
  BY <1>3, <1>4, <1>5, ConversationAssumption
<1> QED
  BY <1>6 DEF Keeps, t

(* available[: len(available) - keep] keeps (select_compactable_rows): whatever
   rows it was given, the newest KeepRecent rows of the conversation lie above
   every row it selects. *)
LEMMA SelectionKeeps ==
  ASSUME NEW available, NEW S, IsFiniteSet(S), available \subseteq S,
         NEW r \in AllButRecent(available)
  PROVE  Keeps(S, r)
<1>1. Keeps(available, r)
  BY DEF AllButRecent, Keeps
<1> QED
  BY <1>1, KeepsMore

(* RecentKeptVerbatim is not inductive: a pending compaction may be about to
   move the floor.  What it will write already keeps the newest messages, and
   since rows are only added, it still does whenever it is written. *)
KeptInv ==
  /\ RecentKeptVerbatim
  /\ \A c \in Compactors : job[c].pc \in {"generating", "writing"} => Keeps(rows, job[c].to)

(* A pending compaction holds the range it was given until it answers. *)
LEMMA JobKeepsRange ==
  ASSUME TypeInv, [Next]_vars, NEW c \in Compactors,
         job[c].pc \in {"generating", "writing"} => Keeps(rows, job[c].to),
         job'[c].pc \in {"generating", "writing"}
  PROVE  Keeps(rows, job'[c].to)
<1>0. /\ IsFiniteSet(rows)
      /\ job \in [Compactors -> JobState]
  BY DEF TypeInv, TypeOK
<1>1. CASE job'[c] = job[c]
  BY <1>1
<1>2. ASSUME JobStep(c)
      PROVE  Keeps(rows, job'[c].to)
  <2>1. CASE CompactSelectsRows(c)
    <3> DEFINE available == LoadRowsAfter(job[c].boundary)
    <3>1. PICK to \in AllButRecent(available) : job'[c].to = to
      BY <1>0, <2>1 DEF CompactSelectsRows, Answered
    <3>2. available \subseteq rows
      BY DEF LoadRowsAfter
    <3> QED
      BY <1>0, <3>1, <3>2, SelectionKeeps
  <2>2. CASE AttemptFails(c) \/ AttemptPasses(c)
    <3>1. job[c].pc \in {"generating", "writing"} /\ job'[c].to = job[c].to
      BY <1>0, <2>2 DEF AttemptFails, AttemptPasses, Answered, JobState
    <3> QED
      BY <3>1
  <2>3. CASE CompactReadsFloor(c)
    <3>1. job'[c].pc = "floor_read"
      BY <1>0, <2>3 DEF CompactReadsFloor, Answered
    <3> QED
      BY <3>1
  <2>4. CASE \/ CompactFindsNothing(c) \/ CompactReadFails(c) \/ CompactDeclines(c)
             \/ AppendSegment(c) \/ AppendSegmentFails(c)
    <3>1. \E a \in Answer : job'[c] = Answered(a)
      BY <1>0, <2>4 DEF CompactFindsNothing, CompactReadFails, CompactDeclines,
                        AppendSegment, AppendSegmentFails, Answer
    <3>2. job'[c].pc = "idle"
      BY <3>1 DEF Answered
    <3> QED
      BY <3>2
  <2> QED
    BY <1>2, <2>1, <2>2, <2>3, <2>4 DEF JobStep
<1>3. ASSUME NEW d \in Compactors, JobStep(d), d # c
      PROVE  job'[c] = job[c]
  BY <1>0, <1>3 DEF JobStep, CompactReadsFloor, CompactSelectsRows, CompactFindsNothing,
                    CompactReadFails, AttemptFails, CompactDeclines, AttemptPasses,
                    AppendSegment, AppendSegmentFails
<1>4. ASSUME NEW t \in Turns, TurnStep(t)
      PROVE  job'[c] = job[c]
  BY <1>4 DEF TurnStep, ReadFloor, ReadSegments, SummaryReadFails, ReadRecent,
              ConversationReadFails, DrawUserId, DrawAssistantId, CommitTurn, AppendLost
<1> QED
  BY <1>1, <1>2, <1>3, <1>4 DEF Next, vars

(* compaction_keep_recent_messages is a floor for every number of compactions
   at once and however late each of them writes. *)
THEOREM RecentMessagesKept == Spec => []RecentKeptVerbatim
<1>1. Init => KeptInv
  <2> SUFFICES ASSUME Init
               PROVE  KeptInv
    OBVIOUS
  <2>1. Tos(segments) = {0}
    BY DEF Init, Tos
  <2>2. Floor = 0
    BY <2>1, FloorDef, TypeInvInit, FloorIsGreatest DEF TypeInv, TypeOK
  <2>3. RecentKeptVerbatim
    BY <2>2 DEF RecentKeptVerbatim
  <2>4. \A c \in Compactors : job[c].pc = "idle"
    BY DEF Init, Answered
  <2> QED
    BY <2>3, <2>4 DEF KeptInv
<1>2. TypeInv /\ TypeInv' /\ KeptInv /\ [Next]_vars => KeptInv'
  <2> SUFFICES ASSUME TypeInv, TypeInv', KeptInv, [Next]_vars
               PROVE  KeptInv'
    OBVIOUS
  <2>1. IsFiniteSet(rows') /\ rows \subseteq rows'
    BY TablesOnlyGrow DEF TypeInv, TypeOK
  <2>2. Floor' > 0 => Keeps(rows', Floor')
    <3>1. CASE segments' = segments
      <4>1. Floor' = Floor
        BY <3>1 DEF Floor
      <4>2. Floor > 0 => Keeps(rows, Floor)
        BY DEF KeptInv, RecentKeptVerbatim, Keeps
      <4> QED
        BY <2>1, <4>1, <4>2, KeepsMore
    <3>2. ASSUME NEW c \in Compactors, job[c].pc = "writing",
                 segments' = Append(segments, SegmentOf(c))
          PROVE  Floor' > 0 => Keeps(rows', Floor')
      <4>1. Floor' \in {Floor, job[c].to}
        BY <3>2, FloorMoves
      <4>2. Floor > 0 => Keeps(rows, Floor)
        BY DEF KeptInv, RecentKeptVerbatim, Keeps
      <4>3. Keeps(rows, job[c].to)
        BY <3>2 DEF KeptInv
      <4> QED
        BY <2>1, <4>1, <4>2, <4>3, KeepsMore
    <3> QED
      BY <3>1, <3>2, TablesOnlyGrow
  <2>3. ASSUME NEW c \in Compactors, job'[c].pc \in {"generating", "writing"}
        PROVE  Keeps(rows', job'[c].to)
    <3>1. Keeps(rows, job'[c].to)
      BY <2>3, JobKeepsRange DEF KeptInv
    <3> QED
      BY <2>1, <3>1, KeepsMore
  <2> QED
    BY <2>2, <2>3 DEF KeptInv, RecentKeptVerbatim, Keeps
<1>3. KeptInv => RecentKeptVerbatim
  BY DEF KeptInv
<1> QED
  BY <1>1, <1>2, <1>3, TypeInvInvariant, PTL DEF Spec
-----------------------------------------------------------------------------
(* Nothing is lost, as long as rows become visible in the order of their ids. *)

(* BIGSERIAL ids are drawn before the commit.  A row that became visible below
   rows already there would be below whatever a compaction read above it; while
   no two appends of a conversation overlap, none does. *)
InOrder == \A r \in rows' \ rows, q \in rows : q < r

CommitsInOrder == [][InOrder]_vars

(* One chat thread commits in order by itself: it draws its ids above all rows. *)
OneThread == \A t, u \in Turns : t = u

InSegment(s, r) == \E i \in DOMAIN s : r \in s[i].read

(* Every row up to x is condensed. *)
Covered(x, S, s) == \A r \in S : r <= x => InSegment(s, r)

(* A segment, or a compaction that is to write one, holds the rows of its range. *)
RangeFits(g, S) ==
  /\ g.to \in S /\ g.read \subseteq S
  /\ \A r \in S : (g.from <= r /\ r <= g.to) <=> r \in g.read

(* A running compaction: its boundary was the floor, and what lies below its range
   is condensed already. *)
JobFits(j, S, s) ==
  /\ j.pc = "floor_read" => j.boundary \in S \cup {0} /\ Covered(j.boundary, S, s)
  /\ j.pc \in {"generating", "writing"} =>
       /\ RangeFits(j, S)
       /\ \A r \in S : r <= j.to => r \in j.read \/ InSegment(s, r)

(* What a turn's summaries say of r, or that r's is older than all it loaded. *)
Summarised(s, segs, r) ==
  \/ \E i \in segs : r \in s[i].read
  \/ /\ Cardinality(segs) >= MaxSegments
     /\ \E i \in DOMAIN s : r \in s[i].read /\ (\A j \in segs : i < j)

Older(u, r) ==
  /\ r > u.floor
  /\ Cardinality(u.recent) >= MaxMessages
  /\ \A q \in u.recent : q > r

(* A turn that is reading: below its floor everything is in its summaries. *)
TurnFits(u, S, s) ==
  /\ u.known \subseteq S
  /\ u.pc = "floor_read" => \A r \in u.known : r <= u.floor => InSegment(s, r)
  /\ u.pc \in {"segments_read", "answering"} => u.segs \subseteq DOMAIN s
  /\ u.pc = "segments_read" => \A r \in u.known : r <= u.floor => Summarised(s, u.segs, r)
  /\ u.pc = "answering" =>
       \A r \in u.known : r \in u.recent \/ Older(u, r) \/ Summarised(s, u.segs, r)

OrderInv ==
  /\ 0 \notin rows /\ \A t \in Turns : 0 \notin turn[t].ids
  /\ \A i \in DOMAIN segments : RangeFits(segments[i], rows)
  /\ Covered(Floor, rows, segments)
  /\ \A c \in Compactors : JobFits(job[c], rows, segments)
  /\ \A t \in Turns : TurnFits(turn[t], rows, segments)

-----------------------------------------------------------------------------
(* Counting rows. *)

(* A finite set of numbers has a greatest element: strict inclusion is well founded
   on the sets of greater elements. *)
LEMMA GreatestOf ==
  ASSUME NEW S, IsFiniteSet(S), S \subseteq Nat, NEW U, U \subseteq S, U # {}
  PROVE  \E m \in U : \A k \in U : k <= m
<1> DEFINE above(x) == {q \in S : q > x}
           R == StrictSubsetOrdering(S)
           F == FiniteSubsetsOf(S)
           W == {above(x) : x \in U}
<1>1. \A x \in U : above(x) \in SUBSET S
  OBVIOUS
<1>2. W \subseteq SUBSET S /\ W # {}
  BY <1>1
<1>3. IsWellFoundedOn(R, F) /\ F = SUBSET S
  BY FS_StrictSubsetOrderingWellFounded, FS_FiniteSubsetsOfFinite
<1>4. \E w \in W : \A y \in W : ~ (<<y, w>> \in R)
  <2> HIDE DEF W, R, F
  <2>1. W \subseteq F /\ W # {}
    BY <1>2, <1>3
  <2> QED
    BY <1>3, <2>1, WFMin
<1>5. PICK m \in U : \A y \in W : ~ (<<y, above(m)>> \in R)
  BY <1>4
<1>6. ASSUME NEW k \in U, k > m
      PROVE  FALSE
  <2>1. k \in Nat /\ m \in Nat /\ k \in S
    OBVIOUS
  <2>2. k \in above(m) /\ k \notin above(k)
    BY <1>6, <2>1
  <2>3. \A q \in S : q > k => q > m
    BY <1>6, <2>1
  <2>4. above(k) \subseteq above(m)
    BY <2>3
  <2>5. <<above(k), above(m)>> \in R
    BY <1>1, <2>2, <2>4 DEF StrictSubsetOrdering
  <2> QED
    BY <1>5, <2>5
<1>7. \A k \in U : k \in Nat
  OBVIOUS
<1> QED
  BY <1>6, <1>7

(* Counting part of a finite set. *)
LEMMA Fewer ==
  ASSUME NEW T, IsFiniteSet(T), NEW S, S \subseteq T
  PROVE  /\ IsFiniteSet(S) /\ Cardinality(S) \in Nat /\ Cardinality(T) \in Nat
         /\ Cardinality(S) <= Cardinality(T)
BY FS_Subset, FS_CardinalityType

(* load_recent returns MaxMessages rows when it leaves one out, all of them newer. *)
LEMMA RecentIsFull ==
  ASSUME TypeInv, NEW floor \in Nat, NEW r \in rows, r > floor, r \notin LoadRecent(floor)
  PROVE  /\ Cardinality(LoadRecent(floor)) >= MaxMessages
         /\ \A q \in LoadRecent(floor) : q > r
<1> DEFINE above(x) == {q \in rows : q > x}
           U == {x \in rows : x > floor /\ Cardinality(above(x)) >= MaxMessages}
           T == LoadRecent(floor)
<1>1. rows \subseteq Nat /\ IsFiniteSet(rows) /\ MaxMessages \in Nat
  BY ConversationAssumption DEF TypeInv, TypeOK
<1>2. \A x : IsFiniteSet(above(x)) /\ Cardinality(above(x)) \in Nat
  BY <1>1, Fewer
<1>3. T \subseteq rows /\ \A x \in rows : x > floor => (x \in T <=> x \notin U)
  BY <1>1, <1>2 DEF LoadRecent
<1>4. r \in U
  BY <1>3
<1>5. PICK m \in U : \A k \in U : k <= m
  BY <1>1, <1>4, GreatestOf
<1>6. above(m) \subseteq T
  <2>1. ASSUME NEW q \in rows, q > m
        PROVE  q \in T
    <3>1. q \in Nat /\ m \in Nat /\ m > floor
      BY <1>1
    <3>2. q > floor /\ q \notin U
      BY <1>5, <2>1, <3>1
    <3> QED
      BY <1>3, <3>2
  <2> QED
    BY <2>1
<1>7. Cardinality(T) >= MaxMessages
  <2>1. IsFiniteSet(T)
    BY <1>1, <1>3, Fewer
  <2>2. Cardinality(above(m)) <= Cardinality(T) /\ Cardinality(T) \in Nat
    BY <1>6, <2>1, Fewer
  <2>3. Cardinality(above(m)) >= MaxMessages
    OBVIOUS
  <2> HIDE DEF T, above
  <2> QED
    BY <1>1, <1>2, <2>2, <2>3
<1>8. ASSUME NEW q \in T
      PROVE  q > r
  <2>1. q \in rows /\ q \notin U /\ q > floor
    BY <1>3 DEF LoadRecent
  <2>2. q \in Nat /\ r \in Nat
    BY <1>1, <2>1
  <2>3. CASE q <= r
    <3>0. \A x \in rows : x > r => x > q
      BY <1>1, <2>2, <2>3
    <3>1. above(r) \subseteq above(q)
      BY <3>0
    <3>2. Cardinality(above(r)) <= Cardinality(above(q))
      BY <1>2, <3>1, Fewer
    <3>3. Cardinality(above(r)) >= MaxMessages
      BY <1>4
    <3>4. Cardinality(above(q)) >= MaxMessages
      <4> HIDE DEF above
      <4> QED
        BY <1>1, <1>2, <3>2, <3>3
    <3> QED
      BY <2>1, <3>4
  <2> QED
    BY <2>2, <2>3
<1> QED
  BY <1>7, <1>8

(* load_segments returns MaxSegments segments when it leaves one out, all newer. *)
LEMMA SegmentsAreFull ==
  ASSUME TypeInv, NEW i \in DOMAIN segments, i \notin LoadSegments
  PROVE  /\ Cardinality(LoadSegments) >= MaxSegments
         /\ \A j \in LoadSegments : i < j
<1>1. /\ Len(segments) \in Nat /\ DOMAIN segments = 1..Len(segments) /\ MaxSegments \in Nat
  BY ConversationAssumption DEF TypeInv, TypeOK
<1>2. i <= Len(segments) - MaxSegments /\ i \in 1..Len(segments)
  BY <1>1 DEF LoadSegments
<1>3. LoadSegments = (Len(segments) - MaxSegments + 1)..Len(segments)
  BY <1>1, <1>2 DEF LoadSegments
<1>4. Cardinality(LoadSegments) >= MaxSegments
  <2> DEFINE a == Len(segments) - MaxSegments + 1
             b == Len(segments)
  <2>1. a \in Int /\ b \in Int /\ b - a + 1 = MaxSegments /\ (a > b => MaxSegments = 0)
    BY <1>1
  <2>2. LoadSegments = a..b
    BY <1>3
  <2> HIDE DEF a, b
  <2>3. Cardinality(a..b) = IF a > b THEN 0 ELSE b - a + 1
    BY <2>1, FS_Interval
  <2> QED
    BY <1>1, <2>1, <2>2, <2>3
<1>6. \A j \in LoadSegments : i < j
  BY <1>1, <1>2, <1>3
<1> QED
  BY <1>4, <1>6

(* The rows a compaction selects are all rows above the boundary up to its last one:
   the LIMIT cuts the newest off, and keep the newest of what is left. *)
LEMMA SelectionIsARange ==
  ASSUME TypeInv, NEW b \in Nat, NEW to \in AllButRecent(LoadRowsAfter(b)),
         NEW r \in rows, r > b, r <= to
  PROVE  r \in AllButRecent(LoadRowsAfter(b))
<1> DEFINE below(x) == {q \in rows : b < q /\ q < x}
           A == LoadRowsAfter(b)
           above(x) == {q \in A : q > x}
<1>1. /\ rows \subseteq Nat /\ IsFiniteSet(rows) /\ MaxRows \in Nat /\ KeepRecent \in Nat
      /\ A \subseteq rows /\ IsFiniteSet(A)
  BY ConversationAssumption, Fewer DEF TypeInv, TypeOK, LoadRowsAfter
<1>2. to \in A /\ Cardinality(above(to)) >= KeepRecent
  BY DEF AllButRecent
<1>3. to \in Nat /\ r \in Nat
  BY <1>1, <1>2
<1>4. r \in A
  <2>0. \A x \in rows : x < r => x < to
    BY <1>1, <1>3
  <2>1. below(r) \subseteq below(to)
    BY <2>0
  <2>2. IsFiniteSet(below(to)) /\ Cardinality(below(to)) < MaxRows
    BY <1>1, <1>2, Fewer DEF LoadRowsAfter
  <2>3. /\ Cardinality(below(r)) <= Cardinality(below(to))
        /\ Cardinality(below(r)) \in Nat /\ Cardinality(below(to)) \in Nat
    BY <2>1, <2>2, Fewer
  <2>4. Cardinality(below(r)) < MaxRows
    <3> HIDE DEF below
    <3> QED
      BY <1>1, <2>2, <2>3
  <2> QED
    BY <2>4 DEF LoadRowsAfter
<1>5. Cardinality(above(r)) >= KeepRecent
  <2>0. \A x \in A : x > to => x > r
    <3>1. \A x \in A : x \in Nat
      BY <1>1
    <3> QED
      BY <1>3, <3>1
  <2>1. above(to) \subseteq above(r)
    BY <2>0
  <2>2. IsFiniteSet(above(r))
    BY <1>1, Fewer
  <2>3. /\ Cardinality(above(to)) <= Cardinality(above(r))
        /\ Cardinality(above(to)) \in Nat /\ Cardinality(above(r)) \in Nat
    BY <2>1, <2>2, Fewer
  <2> HIDE DEF above
  <2> QED
    BY <1>1, <1>2, <2>3
<1> QED
  BY <1>4, <1>5 DEF AllButRecent

-----------------------------------------------------------------------------
(* The tables grow, and what fits them still does. *)

(* From the tables S, s to the tables T, u: rows above all others, segments behind
   all others. *)
Grows(S, T, s, u) ==
  /\ S \subseteq T /\ T \subseteq Nat /\ 0 \notin T
  /\ \A r \in T \ S, q \in S : q < r
  /\ s \in Seq(Segment)
  /\ u = s \/ \E g \in Segment : u = Append(s, g)

(* A segment stays where it is in the table. *)
LEMMA SegmentsStay ==
  ASSUME NEW S, NEW T, NEW s, NEW u, Grows(S, T, s, u)
  PROVE  /\ DOMAIN s \subseteq DOMAIN u /\ DOMAIN s \subseteq Nat
         /\ \A i \in DOMAIN s : u[i] = s[i]
<1>1. CASE u = s
  BY <1>1 DEF Grows
<1>2. ASSUME NEW g \in Segment, u = Append(s, g)
      PROVE  /\ DOMAIN s \subseteq DOMAIN u /\ DOMAIN s \subseteq Nat
             /\ \A i \in DOMAIN s : u[i] = s[i]
  <2>1. s \in Seq(Segment)
    BY DEF Grows
  <2> QED
    BY <1>2, <2>1
<1> QED
  BY <1>1, <1>2 DEF Grows

(* A segment's range fits the grown tables as it did the old ones. *)
LEMMA RangeStays ==
  ASSUME NEW S, NEW T, NEW s, NEW u, Grows(S, T, s, u), NEW g, RangeFits(g, S)
  PROVE  RangeFits(g, T)
<1>1. ASSUME NEW r \in T
      PROVE  (g.from <= r /\ r <= g.to) <=> r \in g.read
  <2>1. CASE r \in S
    BY <2>1 DEF RangeFits
  <2>2. CASE r \notin S
    <3>1. g.to \in Nat /\ r \in Nat /\ g.to < r /\ r \notin g.read
      BY <2>2 DEF RangeFits, Grows
    <3> QED
      BY <3>1
  <2> QED
    BY <2>1, <2>2
<1> QED
  BY <1>1 DEF RangeFits, Grows

(* No row comes in at or below one that is there. *)
LEMMA BelowIsOld ==
  ASSUME NEW S, NEW T, NEW s, NEW u, Grows(S, T, s, u), NEW x \in S, NEW r \in T, r <= x
  PROVE  r \in S
<1>1. r \in Nat /\ x \in Nat /\ (r \notin S => x < r)
  BY DEF Grows
<1> QED
  BY <1>1

(* What was condensed stays condensed. *)
LEMMA CoverStays ==
  ASSUME NEW S, NEW T, NEW s, NEW u, Grows(S, T, s, u),
         NEW x \in S \cup {0}, Covered(x, S, s)
  PROVE  Covered(x, T, u)
<1>1. ASSUME NEW r \in T, r <= x
      PROVE  r \in S
  <2>1. r \in Nat /\ x \in Nat /\ r # 0
    BY DEF Grows
  <2>2. r \notin S => x = 0 \/ x < r
    BY DEF Grows
  <2> QED
    BY <1>1, <2>1, <2>2
<1> QED
  BY <1>1, SegmentsStay DEF Covered, InSegment

(* What a compaction holds fits the grown tables. *)
LEMMA JobStays ==
  ASSUME NEW S, NEW T, NEW s, NEW u, Grows(S, T, s, u), NEW j \in JobState, JobFits(j, S, s)
  PROVE  JobFits(j, T, u)
<1>1. ASSUME j.pc = "floor_read"
      PROVE  j.boundary \in T \cup {0} /\ Covered(j.boundary, T, u)
  BY <1>1, CoverStays DEF JobFits, Grows
<1>2. ASSUME j.pc \in {"generating", "writing"}
      PROVE  /\ RangeFits(j, T)
             /\ \A r \in T : r <= j.to => r \in j.read \/ InSegment(u, r)
  <2>1. RangeFits(j, S) /\ RangeFits(j, T)
    BY <1>2, RangeStays DEF JobFits
  <2>2. ASSUME NEW r \in T, r <= j.to
        PROVE  r \in j.read \/ InSegment(u, r)
    <3>1. r \in S
      BY <2>1, <2>2, BelowIsOld DEF RangeFits
    <3>2. r \in j.read \/ InSegment(s, r)
      BY <1>2, <2>2, <3>1 DEF JobFits
    <3> QED
      BY <3>2, SegmentsStay DEF InSegment
  <2> QED
    BY <2>1, <2>2
<1> QED
  BY <1>1, <1>2 DEF JobFits

(* What a turn has read fits the grown tables. *)
LEMMA TurnStays ==
  ASSUME NEW S, NEW T, NEW s, NEW u, Grows(S, T, s, u), NEW v \in TurnState, TurnFits(v, S, s)
  PROVE  TurnFits(v, T, u)
<1>0. /\ DOMAIN s \subseteq DOMAIN u
      /\ \A i \in DOMAIN s : u[i] = s[i]
  BY SegmentsStay
<1>1. v.known \subseteq T
  BY DEF TurnFits, Grows
<1>2. v.pc = "floor_read" => \A r \in v.known : r <= v.floor => InSegment(u, r)
  BY <1>0 DEF TurnFits, InSegment
<1>3. v.pc \in {"segments_read", "answering"} => v.segs \subseteq DOMAIN u
  BY <1>0 DEF TurnFits
<1>4. ASSUME v.segs \subseteq DOMAIN s, NEW r, Summarised(s, v.segs, r)
      PROVE  Summarised(u, v.segs, r)
  BY <1>0, <1>4 DEF Summarised
<1>5. v.pc = "segments_read" => \A r \in v.known : r <= v.floor => Summarised(u, v.segs, r)
  BY <1>4 DEF TurnFits
<1>6. v.pc = "answering" =>
        \A r \in v.known : r \in v.recent \/ Older(v, r) \/ Summarised(u, v.segs, r)
  BY <1>4 DEF TurnFits
<1> QED
  BY <1>1, <1>2, <1>3, <1>5, <1>6 DEF TurnFits

(* The floor is 0 or the id of a row. *)
LEMMA FloorIsARow ==
  ASSUME TypeInv, OrderInv
  PROVE  Floor \in rows \cup {0} /\ Floor \in Nat
<1>1. Floor \in Tos(segments) /\ Floor \in Nat
  BY FloorIsGreatest, FloorDef DEF TypeInv, TypeOK
<1> QED
  BY <1>1 DEF Tos, OrderInv, RangeFits

(* A compaction's step, on the tables as it finds them. *)
LEMMA JobsFitOn ==
  ASSUME TypeInv, OrderInv, [Next]_vars, NEW c \in Compactors
  PROVE  JobFits(job'[c], rows, segments)
<1>0. /\ job \in [Compactors -> JobState] /\ job[c] \in JobState
      /\ JobFits(job[c], rows, segments)
  BY DEF TypeInv, TypeOK, OrderInv
<1>1. CASE job'[c] = job[c]
  BY <1>0, <1>1
<1>2. ASSUME JobStep(c)
      PROVE  JobFits(job'[c], rows, segments)
  <2>1. CASE CompactSelectsRows(c)
    <3> DEFINE b == job[c].boundary
               selected == AllButRecent(LoadRowsAfter(b))
    <3>1. PICK from \in selected, to \in selected :
            /\ \A r \in selected : from <= r /\ r <= to
            /\ job' = [job EXCEPT ![c] = [Answered("none") EXCEPT !.pc = "generating",
                                            !.from = from, !.to = to, !.read = selected]]
      BY <2>1 DEF CompactSelectsRows
    <3>2. /\ b \in Nat /\ selected \subseteq rows /\ rows \subseteq Nat
          /\ \A r \in selected : r > b
          /\ Covered(b, rows, segments)
      BY <1>0, <2>1 DEF JobState, AllButRecent, LoadRowsAfter, TypeInv, TypeOK, JobFits,
                        CompactSelectsRows
    <3>3. \A r \in rows : r > b /\ r <= to => r \in selected
      BY <3>2, SelectionIsARange
    <3> HIDE DEF selected, b
    <3>4. /\ job'[c].pc = "generating" /\ job'[c].from = from /\ job'[c].to = to
          /\ job'[c].read = selected
      BY <1>0, <3>1 DEF Answered
    <3>5. RangeFits(job'[c], rows)
      <4>1. ASSUME NEW r \in rows
            PROVE  (from <= r /\ r <= to) <=> r \in selected
        <5>1. r \in Nat /\ b \in Nat /\ from \in Nat /\ from > b
          BY <3>2
        <5>2. from <= r => r > b
          BY <5>1
        <5> QED
          BY <3>1, <3>3, <5>2
      <4> QED
        BY <3>2, <3>4, <4>1 DEF RangeFits
    <3>6. ASSUME NEW r \in rows, r <= to
          PROVE  r \in selected \/ InSegment(segments, r)
      <4>1. r > b \/ r <= b
        BY <3>2
      <4> QED
        BY <3>2, <3>3, <3>6, <4>1 DEF Covered
    <3> QED
      BY <3>4, <3>5, <3>6 DEF JobFits
  <2>2. CASE AttemptFails(c) \/ AttemptPasses(c)
    <3>1. \/ job'[c] = Answered("error")
          \/ /\ job[c].pc = "generating" /\ job'[c].pc \in {"generating", "writing"}
             /\ job'[c].to = job[c].to /\ job'[c].from = job[c].from /\ job'[c].read = job[c].read
      BY <1>0, <2>2 DEF AttemptFails, AttemptPasses, JobState
    <3>2. Answered("error").pc = "idle"
      BY DEF Answered
    <3> QED
      BY <1>0, <3>1, <3>2 DEF JobFits, RangeFits
  <2>3. CASE CompactReadsFloor(c)
    <3>1. job'[c].pc = "floor_read" /\ job'[c].boundary = Floor
      BY <1>0, <2>3 DEF CompactReadsFloor, Answered
    <3> QED
      BY <3>1, FloorIsARow DEF JobFits, OrderInv
  <2>4. CASE \/ CompactFindsNothing(c) \/ CompactReadFails(c) \/ CompactDeclines(c)
             \/ AppendSegment(c) \/ AppendSegmentFails(c)
    <3>1. \E a \in Answer : job'[c] = Answered(a)
      BY <1>0, <2>4 DEF CompactFindsNothing, CompactReadFails, CompactDeclines,
                        AppendSegment, AppendSegmentFails, Answer
    <3>2. job'[c].pc = "idle"
      BY <3>1 DEF Answered
    <3> QED
      BY <3>2 DEF JobFits
  <2> QED
    BY <1>2, <2>1, <2>2, <2>3, <2>4 DEF JobStep
<1>3. ASSUME NEW d \in Compactors, JobStep(d), d # c
      PROVE  job'[c] = job[c]
  BY <1>0, <1>3 DEF JobStep, CompactReadsFloor, CompactSelectsRows, CompactFindsNothing,
                    CompactReadFails, AttemptFails, CompactDeclines, AttemptPasses,
                    AppendSegment, AppendSegmentFails
<1>4. ASSUME NEW t \in Turns, TurnStep(t)
      PROVE  job'[c] = job[c]
  BY <1>4 DEF TurnStep, ReadFloor, ReadSegments, SummaryReadFails, ReadRecent,
              ConversationReadFails, DrawUserId, DrawAssistantId, CommitTurn, AppendLost
<1> QED
  BY <1>1, <1>2, <1>3, <1>4 DEF Next, vars

(* A turn's step, on the tables as it finds them. *)
LEMMA TurnsFitOn ==
  ASSUME TypeInv, OrderInv, [Next]_vars, NEW t \in Turns
  PROVE  TurnFits(turn'[t], rows, segments) /\ 0 \notin turn'[t].ids
<1>0. /\ turn \in [Turns -> TurnState] /\ turn[t] \in TurnState
      /\ TurnFits(turn[t], rows, segments) /\ 0 \notin turn[t].ids
  BY DEF TypeInv, TypeOK, OrderInv
<1>1. CASE turn'[t] = turn[t]
  BY <1>0, <1>1
<1>2. ASSUME TurnStep(t)
      PROVE  TurnFits(turn'[t], rows, segments) /\ 0 \notin turn'[t].ids
  <2>1. CASE ReadFloor(t)
    <3>1. /\ turn'[t].pc = "floor_read" /\ turn'[t].floor = Floor /\ turn'[t].known = rows
          /\ turn'[t].ids = {}
      BY <1>0, <2>1 DEF ReadFloor, IdleTurn
    <3> QED
      BY <3>1 DEF TurnFits, OrderInv, Covered
  <2>2. CASE ReadSegments(t)
    <3>1. /\ turn[t].pc = "floor_read" /\ turn'[t].pc = "segments_read"
          /\ turn'[t].segs = LoadSegments /\ turn'[t].floor = turn[t].floor
          /\ turn'[t].known = turn[t].known /\ turn'[t].ids = turn[t].ids
      BY <1>0, <2>2 DEF ReadSegments, TurnState
    <3>2. ASSUME NEW r \in turn[t].known, r <= turn[t].floor
          PROVE  Summarised(segments, LoadSegments, r)
      <4>1. PICK i \in DOMAIN segments : r \in segments[i].read
        BY <1>0, <3>1, <3>2 DEF TurnFits, InSegment
      <4> QED
        BY <4>1, SegmentsAreFull DEF Summarised
    <3>3. LoadSegments \subseteq DOMAIN segments
      BY DEF LoadSegments
    <3> QED
      BY <1>0, <3>1, <3>2, <3>3 DEF TurnFits
  <2>3. CASE SummaryReadFails(t)
    <3>1. /\ turn'[t].pc = "segments_read" /\ turn'[t].floor = 0 /\ turn'[t].segs = {}
          /\ turn'[t].known \in {rows, turn[t].known} /\ turn'[t].ids = {}
      BY <1>0, <2>3 DEF SummaryReadFails, IdleTurn
    <3>2. \A r \in rows : ~ (r <= 0)
      BY DEF OrderInv, TypeInv, TypeOK
    <3> QED
      BY <1>0, <3>1, <3>2 DEF TurnFits
  <2>4. CASE ReadRecent(t)
    <3>1. /\ turn[t].pc = "segments_read" /\ turn'[t].pc = "answering"
          /\ turn'[t].recent = LoadRecent(turn[t].floor) /\ turn'[t].floor = turn[t].floor
          /\ turn'[t].known = turn[t].known /\ turn'[t].segs = turn[t].segs
          /\ turn'[t].ids = turn[t].ids /\ turn[t].floor \in Nat
      BY <1>0, <2>4 DEF ReadRecent, TurnState
    <3>2. ASSUME NEW r \in turn[t].known
          PROVE  \/ r \in turn'[t].recent \/ Older(turn'[t], r)
                 \/ Summarised(segments, turn'[t].segs, r)
      <4>1. r \in rows /\ r \in Nat
        BY <1>0 DEF TurnFits, TypeInv, TypeOK
      <4>2. CASE r <= turn[t].floor
        BY <1>0, <3>1, <4>2 DEF TurnFits
      <4>3. CASE r > turn[t].floor /\ r \notin LoadRecent(turn[t].floor)
        BY <3>1, <4>1, <4>3, RecentIsFull DEF Older
      <4> QED
        BY <3>1, <4>1, <4>2, <4>3
    <3> QED
      BY <1>0, <3>1, <3>2 DEF TurnFits
  <2>5. CASE ConversationReadFails(t)
    <3>1. /\ turn'[t].pc = "answering" /\ turn'[t].known = {} /\ turn'[t].segs = {}
          /\ turn'[t].ids = {}
      BY <1>0, <2>5 DEF ConversationReadFails, IdleTurn
    <3> QED
      BY <3>1 DEF TurnFits
  <2>6. CASE DrawUserId(t)
    <3>1. turn'[t].pc = "user_id_drawn" /\ turn'[t].known = {} /\ turn'[t].ids = {nextId}
      BY <1>0, <2>6 DEF DrawUserId, IdleTurn
    <3> QED
      BY <3>1 DEF TurnFits, TypeInv, TypeOK
  <2>7. CASE DrawAssistantId(t)
    <3>1. /\ turn'[t].pc = "both_ids_drawn" /\ turn'[t].known = turn[t].known
          /\ turn'[t].ids = turn[t].ids \cup {nextId}
      BY <1>0, <2>7 DEF DrawAssistantId, TurnState
    <3> QED
      BY <1>0, <3>1 DEF TurnFits, TypeInv, TypeOK
  <2>8. CASE CommitTurn(t) \/ AppendLost(t)
    <3>1. turn'[t].pc = "idle" /\ turn'[t].known = {} /\ turn'[t].ids = {}
      BY <1>0, <2>8 DEF CommitTurn, AppendLost, IdleTurn
    <3> QED
      BY <3>1 DEF TurnFits
  <2> QED
    BY <1>2, <2>1, <2>2, <2>3, <2>4, <2>5, <2>6, <2>7, <2>8 DEF TurnStep
<1>3. ASSUME NEW u \in Turns, TurnStep(u), u # t
      PROVE  turn'[t] = turn[t]
  BY <1>0, <1>3 DEF TurnStep, ReadFloor, ReadSegments, SummaryReadFails, ReadRecent,
              ConversationReadFails, DrawUserId, DrawAssistantId, CommitTurn, AppendLost
<1>4. ASSUME NEW c \in Compactors, JobStep(c)
      PROVE  turn'[t] = turn[t]
  BY <1>4 DEF JobStep, CompactReadsFloor, CompactSelectsRows, CompactFindsNothing,
              CompactReadFails, AttemptFails, CompactDeclines, AttemptPasses,
              AppendSegment, AppendSegmentFails
<1> QED
  BY <1>1, <1>2, <1>3, <1>4 DEF Next, vars

(* The tables of a step grow, if rows become visible in order. *)
LEMMA TablesGrow ==
  ASSUME TypeInv, TypeInv', OrderInv, [Next]_vars, InOrder
  PROVE  Grows(rows, rows', segments, segments')
<1>1. 0 \notin rows'
  <2>1. ASSUME NEW t \in Turns, TurnStep(t)
        PROVE  rows' \subseteq rows \cup turn[t].ids
    BY <2>1 DEF TurnStep, ReadFloor, ReadSegments, SummaryReadFails, ReadRecent,
                ConversationReadFails, DrawUserId, DrawAssistantId, CommitTurn, AppendLost
  <2>2. ASSUME NEW c \in Compactors, JobStep(c)
        PROVE  rows' = rows
    BY <2>2 DEF JobStep, CompactReadsFloor, CompactSelectsRows, CompactFindsNothing,
                CompactReadFails, AttemptFails, CompactDeclines, AttemptPasses,
                AppendSegment, AppendSegmentFails
  <2> QED
    BY <2>1, <2>2 DEF Next, vars, OrderInv
<1>2. \A c \in Compactors : SegmentOf(c) \in Segment
  BY DEF TypeInv, TypeOK, SegmentOf, Segment, JobState
<1>3. rows \subseteq rows' /\ (segments' = segments \/ \E g \in Segment : segments' = Append(segments, g))
  BY <1>2, TablesOnlyGrow
<1> QED
  BY <1>1, <1>3 DEF Grows, InOrder, TypeInv, TypeOK

(* A segment that is appended fits, and covers with the others all rows below it. *)
LEMMA OrderStep ==
  ASSUME TypeInv, TypeInv', OrderInv, [Next]_vars, InOrder
  PROVE  OrderInv'
<1>0. Grows(rows, rows', segments, segments')
  BY TablesGrow
<1>1. 0 \notin rows'
  BY <1>0 DEF Grows
<1>2. ASSUME NEW c \in Compactors
      PROVE  JobFits(job'[c], rows', segments')
  <2>1. job'[c] \in JobState
    BY DEF TypeInv, TypeOK
  <2> QED
    BY <1>0, <2>1, JobsFitOn, JobStays
<1>3. ASSUME NEW t \in Turns
      PROVE  TurnFits(turn'[t], rows', segments') /\ 0 \notin turn'[t].ids
  <2>1. turn'[t] \in TurnState
    BY DEF TypeInv, TypeOK
  <2> QED
    BY <1>0, <2>1, TurnsFitOn, TurnStays
<1>4. Floor \in rows \cup {0} /\ Covered(Floor, rows', segments')
  BY <1>0, FloorIsARow, CoverStays DEF OrderInv
<1>5. \A i \in DOMAIN segments : RangeFits(segments[i], rows')
  BY <1>0, RangeStays DEF OrderInv
<1>6. (\A i \in DOMAIN segments' : RangeFits(segments'[i], rows')) /\ Covered(Floor', rows', segments')
  <2>1. CASE segments' = segments
    BY <1>4, <1>5, <2>1 DEF Floor
  <2>2. ASSUME NEW c \in Compactors, job[c].pc = "writing",
               segments' = Append(segments, SegmentOf(c))
        PROVE  (\A i \in DOMAIN segments' : RangeFits(segments'[i], rows'))
               /\ Covered(Floor', rows', segments')
    <3> DEFINE g == SegmentOf(c)
    <3>1. g.to = job[c].to /\ g.from = job[c].from /\ g.read = job[c].read
      BY DEF SegmentOf
    <3>2. JobFits(job[c], rows, segments)
      BY DEF OrderInv
    <3>3. RangeFits(g, rows)
      BY <2>2, <3>1, <3>2 DEF JobFits, RangeFits
    <3>4. RangeFits(g, rows')
      BY <1>0, <3>3, RangeStays
    <3>5. segments \in Seq(Segment) /\ g \in Segment
      BY DEF TypeInv, TypeOK, SegmentOf, Segment, JobState
    <3> HIDE DEF g
    <3>6. /\ DOMAIN segments' = DOMAIN segments \cup {Len(segments) + 1}
          /\ segments'[Len(segments) + 1] = g
          /\ \A i \in DOMAIN segments : segments'[i] = segments[i]
      BY <2>2, <3>5 DEF g
    <3>7. \A i \in DOMAIN segments' : RangeFits(segments'[i], rows')
      BY <1>5, <3>4, <3>6
    <3>8. Covered(job[c].to, rows', segments')
      <4>1. ASSUME NEW r \in rows', r <= job[c].to
            PROVE  r \in g.read \/ InSegment(segments, r)
        <5>1. job[c].to \in rows
          BY <3>1, <3>3 DEF RangeFits
        <5>2. r \in rows
          BY <1>0, <4>1, <5>1, BelowIsOld
        <5> QED
          BY <2>2, <3>1, <3>2, <4>1, <5>2 DEF JobFits
      <4> QED
        BY <3>6, <4>1 DEF Covered, InSegment
    <3>9. Floor' \in {Floor, job[c].to}
      BY <2>2, FloorMoves
    <3> QED
      BY <1>4, <3>7, <3>8, <3>9
  <2> QED
    BY <2>1, <2>2, TablesOnlyGrow
<1> QED
  BY <1>1, <1>2, <1>3, <1>6 DEF OrderInv

(* The invariant of the ordered store holds of the empty one. *)
LEMMA OrderInit ==
  ASSUME Init
  PROVE  OrderInv
<1>1. rows = {} /\ segments = <<>>
  BY DEF Init
<1>2. \A c \in Compactors : job[c].pc = "idle"
  BY DEF Init, Answered
<1>3. \A t \in Turns : turn[t].pc = "idle" /\ turn[t].known = {} /\ turn[t].ids = {}
  BY DEF Init, IdleTurn
<1>4. \A c \in Compactors : JobFits(job[c], rows, segments)
  BY <1>2 DEF JobFits
<1>5. \A t \in Turns : TurnFits(turn[t], rows, segments)
  BY <1>3 DEF TurnFits
<1> QED
  BY <1>1, <1>3, <1>4, <1>5 DEF OrderInv, Covered

(* And always, while commits are in order. *)
LEMMA OrderInvariant == Spec /\ CommitsInOrder => []OrderInv
<1>1. TypeInv /\ TypeInv' /\ OrderInv /\ [Next]_vars /\ [InOrder]_vars => OrderInv'
  <2>1. CASE UNCHANGED vars
    BY <2>1 DEF vars, OrderInv, Floor
  <2> QED
    BY <2>1, OrderStep
<1> QED
  BY <1>1, OrderInit, TypeInvInvariant, PTL DEF Spec, CommitsInOrder

(* However many turns and compactions run at once and whatever fails: while rows
   become visible in the order of their ids, a row below the floor was condensed. *)
THEOREM NothingIsForgotten == Spec /\ CommitsInOrder => []NothingForgotten
<1>1. OrderInv => NothingForgotten
  BY DEF OrderInv, NothingForgotten, Covered, InSegment
<1> QED
  BY <1>1, OrderInvariant, PTL

(* And a segment holds exactly the rows of its range, whatever is committed since. *)
THEOREM SegmentsAreAuditable == Spec /\ CommitsInOrder => []Auditable
<1>1. OrderInv => Auditable
  BY DEF OrderInv, Auditable, RangeFits
<1> QED
  BY <1>1, OrderInvariant, PTL

(* And a turn's prompt has every message that was there when it began to read, but
   for those that newer ones crowd out, though a compaction may commit between any
   two of its three reads (_load_prior_conversation). *)
THEOREM ReplayIsComplete == Spec /\ CommitsInOrder => []ReplayComplete
<1>1. OrderInv => ReplayComplete
  BY DEF OrderInv, TurnFits, Older, Summarised, ReplayComplete
<1> QED
  BY <1>1, OrderInvariant, PTL

(* One chat thread at a time commits in order: the ids it draws are above every row,
   for the sequence has passed them. *)
DrawnInv ==
  /\ \A r \in rows : r < nextId
  /\ \A t \in Turns : \A i \in turn[t].ids : i < nextId /\ \A r \in rows : r < i

(* Every step of the one thread and of any compaction keeps it. *)
LEMMA DrawnStep ==
  ASSUME OneThread, TypeInv, DrawnInv, [Next]_vars
  PROVE  DrawnInv' /\ InOrder
<1>0. /\ rows \subseteq Nat /\ nextId \in Nat \ {0} /\ turn \in [Turns -> TurnState]
      /\ \A t \in Turns : turn[t].ids \subseteq Nat
  BY DEF TypeInv, TypeOK, TurnState
<1>1. ASSUME UNCHANGED <<rows, nextId, turn>>
      PROVE  DrawnInv' /\ InOrder
  BY <1>1 DEF DrawnInv, InOrder
<1>2. ASSUME NEW c \in Compactors, JobStep(c)
      PROVE  UNCHANGED <<rows, nextId, turn>>
  BY <1>2 DEF JobStep, CompactReadsFloor, CompactSelectsRows, CompactFindsNothing,
              CompactReadFails, AttemptFails, CompactDeclines, AttemptPasses,
              AppendSegment, AppendSegmentFails
<1>3. ASSUME NEW t \in Turns, TurnStep(t)
      PROVE  DrawnInv' /\ InOrder
  <2>0. \A u \in Turns : u = t
    BY DEF OneThread
  <2>1. CASE DrawUserId(t) \/ DrawAssistantId(t)
    <3>1. rows' = rows /\ nextId' = nextId + 1
      BY <2>1 DEF DrawUserId, DrawAssistantId
    <3>2. turn'[t].ids \subseteq turn[t].ids \cup {nextId}
      <4>1. turn[t] \in TurnState
        BY <1>0
      <4>2. CASE DrawUserId(t)
        <5>1. turn'[t] = [IdleTurn EXCEPT !.pc = "user_id_drawn", !.ids = {nextId}]
          BY <1>0, <4>2 DEF DrawUserId
        <5>2. turn'[t].ids = {nextId}
          BY <5>1 DEF IdleTurn
        <5> QED
          BY <5>2
      <4>3. CASE DrawAssistantId(t)
        <5>1. turn'[t] = [turn[t] EXCEPT !.pc = "both_ids_drawn",
                                         !.ids = turn[t].ids \cup {nextId}]
          BY <1>0, <4>3 DEF DrawAssistantId
        <5>2. turn'[t].ids = turn[t].ids \cup {nextId}
          BY <4>1, <5>1 DEF TurnState
        <5> QED
          BY <5>2
      <4> QED
        BY <2>1, <4>2, <4>3
    <3>3. nextId + 1 > nextId /\ (\A x \in Nat : x < nextId => x < nextId + 1)
      BY <1>0
    <3>4. \A r \in rows : r < nextId'
      BY <1>0, <3>1, <3>3 DEF DrawnInv
    <3>5. \A i \in turn'[t].ids : i < nextId' /\ \A r \in rows : r < i
      BY <1>0, <3>1, <3>2, <3>3 DEF DrawnInv
    <3> QED
      BY <2>0, <3>1, <3>4, <3>5 DEF DrawnInv, InOrder
  <2>2. CASE CommitTurn(t)
    <3>1. rows' = rows \cup turn[t].ids /\ nextId' = nextId /\ turn'[t].ids = {}
      BY <1>0, <2>2 DEF CommitTurn, IdleTurn
    <3> QED
      BY <2>0, <3>1 DEF DrawnInv, InOrder
  <2>3. CASE \/ ReadFloor(t) \/ ReadSegments(t) \/ SummaryReadFails(t) \/ ReadRecent(t)
             \/ ConversationReadFails(t) \/ AppendLost(t)
    <3>1. rows' = rows /\ nextId' = nextId
      BY <2>3 DEF ReadFloor, ReadSegments, SummaryReadFails, ReadRecent, ConversationReadFails,
                  AppendLost
    <3>2. turn'[t].ids \subseteq turn[t].ids
      <4>1. turn[t] \in TurnState
        BY <1>0
      <4>2. CASE ReadFloor(t) \/ SummaryReadFails(t) \/ ConversationReadFails(t) \/ AppendLost(t)
        <5> DEFINE start == Floor
                   seen == IF turn[t].pc = "idle" THEN rows ELSE turn[t].known
        <5>1. \/ turn'[t] = [IdleTurn EXCEPT !.pc = "floor_read", !.floor = start, !.known = rows]
              \/ turn'[t] = [IdleTurn EXCEPT !.pc = "segments_read", !.known = seen]
              \/ turn'[t] = [IdleTurn EXCEPT !.pc = "answering"]
              \/ turn'[t] = IdleTurn
          <6> HIDE DEF start, seen
          <6>1. ReadFloor(t) => turn'[t] = [IdleTurn EXCEPT !.pc = "floor_read",
                                                            !.floor = start, !.known = rows]
            BY <1>0 DEF ReadFloor, start
          <6>2. SummaryReadFails(t) => turn'[t] = [IdleTurn EXCEPT !.pc = "segments_read",
                                                                   !.known = seen]
            BY <1>0 DEF SummaryReadFails, seen
          <6>3. ConversationReadFails(t) => turn'[t] = [IdleTurn EXCEPT !.pc = "answering"]
            BY <1>0 DEF ConversationReadFails
          <6>4. AppendLost(t) => turn'[t] = IdleTurn
            BY <1>0 DEF AppendLost
          <6> QED
            BY <4>2, <6>1, <6>2, <6>3, <6>4
        <5> HIDE DEF start, seen
        <5>2. [IdleTurn EXCEPT !.pc = "floor_read", !.floor = start, !.known = rows].ids = {}
          BY DEF IdleTurn
        <5>3. [IdleTurn EXCEPT !.pc = "segments_read", !.known = seen].ids = {}
          BY DEF IdleTurn
        <5>4. [IdleTurn EXCEPT !.pc = "answering"].ids = {} /\ IdleTurn.ids = {}
          BY DEF IdleTurn
        <5>5. turn'[t].ids = {}
          BY <5>1, <5>2, <5>3, <5>4
        <5> QED
          BY <5>5
      <4>3. CASE ReadSegments(t) \/ ReadRecent(t)
        <5> DEFINE found == LoadSegments
                   newest == LoadRecent(turn[t].floor)
        <5>1. \/ turn'[t] = [turn[t] EXCEPT !.pc = "segments_read", !.segs = found]
              \/ turn'[t] = [turn[t] EXCEPT !.pc = "answering", !.recent = newest]
          BY <1>0, <4>3 DEF ReadSegments, ReadRecent
        <5> HIDE DEF found, newest
        <5>2. turn'[t].ids = turn[t].ids
          BY <4>1, <5>1 DEF TurnState
        <5> QED
          BY <5>2
      <4> QED
        BY <2>3, <4>2, <4>3
    <3> QED
      BY <2>0, <3>1, <3>2 DEF DrawnInv, InOrder
  <2> QED
    BY <1>3, <2>1, <2>2, <2>3 DEF TurnStep
<1> QED
  BY <1>1, <1>2, <1>3 DEF Next, vars

(* With one chat thread in a conversation the condition of the theorems above holds
   by itself, however many compactions run beside it. *)
THEOREM OneThreadIsInOrder == OneThread => (Spec => CommitsInOrder)
<1> SUFFICES ASSUME OneThread
             PROVE  Spec => CommitsInOrder
  OBVIOUS
<1>1. Init => DrawnInv
  BY DEF Init, DrawnInv, IdleTurn
<1>2. TypeInv /\ DrawnInv /\ [Next]_vars => DrawnInv' /\ [InOrder]_vars
  BY DrawnStep
<1> QED
  BY <1>1, <1>2, TypeInvInvariant, PTL DEF Spec, CommitsInOrder

-----------------------------------------------------------------------------
(* The ledger. *)

Live == {r \in rows : r > Floor}
Condensed == {r \in rows : \E i \in DOMAIN segments : r \in segments[i].read}

(* What is condensed is what lies at or below the floor. *)
LEMMA CondensedIsBelow ==
  ASSUME TypeInv, OrderInv
  PROVE  Condensed = {r \in rows : r <= Floor} /\ Condensed = rows \ Live
<1>0. /\ segments \in Seq(Segment) /\ rows \subseteq Nat
      /\ Floor \in Nat /\ \A x \in Tos(segments) : Floor >= x
  BY FloorIsGreatest, FloorDef DEF TypeInv, TypeOK
<1>1. ASSUME NEW r \in rows, NEW i \in DOMAIN segments, r \in segments[i].read
      PROVE  r <= Floor
  <2>1. r <= segments[i].to /\ segments[i].to \in Nat
    BY <1>0, <1>1 DEF OrderInv, RangeFits
  <2>2. segments[i].to <= Floor
    BY <1>0, <2>1 DEF Tos
  <2> QED
    BY <1>0, <2>1, <2>2
<1>2. \A r \in rows : r <= Floor => \E i \in DOMAIN segments : r \in segments[i].read
  BY DEF OrderInv, Covered, InSegment
<1>3. Condensed = {r \in rows : r <= Floor}
  BY <1>1, <1>2 DEF Condensed
<1>4. \A r \in rows : r <= Floor <=> ~ (r > Floor)
  BY <1>0
<1> QED
  BY <1>3, <1>4 DEF Live

(* A commit records, an append condenses, anything else stutters. *)
LEMMA LedgerStep ==
  ASSUME TypeInv, TypeInv', OrderInv, OrderInv', RecentKeptVerbatim', [Next]_vars, InOrder
  PROVE  Ledger!Next \/ (Live' = Live /\ Condensed' = Condensed)
<1>0. /\ rows \subseteq Nat /\ rows' \subseteq Nat /\ rows \subseteq rows' /\ Floor \in Nat
      /\ Floor' \in Nat /\ Floor' >= Floor /\ Floor \in rows \cup {0} /\ 0 \notin rows'
  <2>1. Floor \in Nat /\ Floor' \in Nat /\ Floor \in rows \cup {0}
    BY FloorIsARow, FloorIsGreatest DEF Floor, Tos, TypeInv, TypeOK
  <2>2. Floor' >= Floor
    <3>1. CASE segments' = segments
      BY <2>1, <3>1 DEF Floor
    <3> QED
      BY <3>1, TablesOnlyGrow, FloorMoves
  <2> QED
    BY <2>1, <2>2, TablesOnlyGrow DEF TypeInv, TypeOK, OrderInv
<1>1. /\ Condensed = rows \ Live /\ Condensed' = rows' \ Live'
      /\ Live = {r \in rows : r > Floor} /\ Live' = {r \in rows' : r > Floor'}
  <2>1. Condensed' = rows' \ Live'
    <3>1. /\ segments' \in Seq(Segment)
          /\ Floor' \in Nat /\ \A x \in Tos(segments)' : Floor' >= x
      BY FloorIsGreatest DEF Floor, Tos, TypeInv, TypeOK
    <3>2. ASSUME NEW r \in rows', NEW i \in DOMAIN segments', r \in segments'[i].read
          PROVE  ~ (r > Floor')
      <4>1. r <= segments'[i].to /\ segments'[i].to \in Nat
        BY <1>0, <3>2 DEF OrderInv, RangeFits
      <4>2. segments'[i].to <= Floor'
        BY <3>1, <4>1 DEF Tos
      <4> QED
        BY <1>0, <4>1, <4>2
    <3>3. \A r \in rows' : r <= Floor' => \E i \in DOMAIN segments' : r \in segments'[i].read
      BY DEF OrderInv, Covered, InSegment
    <3>4. \A r \in rows' : r <= Floor' <=> ~ (r > Floor')
      BY <1>0
    <3> QED
      BY <3>2, <3>3, <3>4 DEF Condensed, Live
  <2> QED
    BY <2>1, CondensedIsBelow DEF Live
<1>2. CASE rows' # rows
  <2>1. segments' = segments /\ Floor' = Floor
    <3>1. ASSUME NEW c \in Compactors, JobStep(c)
          PROVE  rows' = rows
      BY <3>1 DEF JobStep, CompactReadsFloor, CompactSelectsRows, CompactFindsNothing,
                  CompactReadFails, AttemptFails, CompactDeclines, AttemptPasses,
                  AppendSegment, AppendSegmentFails
    <3>2. ASSUME NEW t \in Turns, TurnStep(t)
          PROVE  segments' = segments
      BY <3>2 DEF TurnStep, ReadFloor, ReadSegments, SummaryReadFails, ReadRecent,
                  ConversationReadFails, DrawUserId, DrawAssistantId, CommitTurn, AppendLost
    <3> QED
      BY <1>2, <3>1, <3>2 DEF Next, vars, Floor
  <2> DEFINE new == rows' \ rows
  <2>2. new # {} /\ \A n \in new : n > Floor
    <3>1. ASSUME NEW n \in new
          PROVE  n > Floor
      <4>1. n \in Nat /\ n # 0 /\ \A q \in rows : q < n
        BY <1>0 DEF InOrder
      <4> QED
        BY <1>0, <4>1
    <3> QED
      BY <1>0, <1>2, <3>1
  <2>3. Live' = Live \cup new /\ Condensed' = Condensed
    BY <1>0, <1>1, <2>1, <2>2
  <2>4. new \in SUBSET (Live' \ Live)
    BY <1>1, <2>3
  <2>5. \A n \in new, m \in Live \cup Condensed : m < n
    BY <1>1 DEF InOrder
  <2> HIDE DEF new
  <2> QED
    BY <2>2, <2>3, <2>4, <2>5 DEF Ledger!Next, Ledger!Record, Live, Condensed
<1>3. CASE rows' = rows /\ Floor' = Floor
  BY <1>1, <1>3
<1>4. CASE rows' = rows /\ Floor' # Floor
  <2>1. Floor' > Floor
    BY <1>0, <1>4
  <2>2. Floor' \in rows /\ Floor' \in Live /\ Floor' \notin Live'
    <3>1. Floor' \in Tos(segments')
      BY FloorIsGreatest DEF Floor, Tos, TypeInv, TypeOK
    <3>2. Floor' # 0
      BY <1>0, <2>1
    <3>3. Floor' \in rows'
      BY <3>1, <3>2 DEF Tos, OrderInv, RangeFits
    <3> QED
      BY <1>0, <1>1, <1>4, <2>1, <3>3
  <2>3. Live' \subseteq Live
    <3>1. ASSUME NEW r \in rows, r > Floor'
          PROVE  r > Floor
      BY <1>0, <2>1, <3>1
    <3>2. Live' = {r \in rows : r > Floor'} /\ Live = {r \in rows : r > Floor}
      BY <1>1, <1>4
    <3> HIDE DEF Live
    <3> QED
      BY <3>1, <3>2
  <2>4. Cardinality(Live') >= KeepRecent
    BY <1>0, <1>1, <2>1 DEF RecentKeptVerbatim
  <2>5. Condensed' = Condensed \cup (Live \ Live')
    BY <1>1, <1>4, <2>3
  <2>6. ASSUME NEW c \in Live \ Live', NEW m \in Live'
        PROVE  c < m
    <3>1. c \in Nat /\ m \in Nat /\ m > Floor' /\ ~ (c > Floor')
      BY <1>0, <1>1, <1>4
    <3> QED
      BY <1>0, <3>1
  <2>7. Live' # Live
    BY <2>2
  <2>8. Ledger!Cardinality(Live') = Cardinality(Live')
    BY DEF Ledger!Cardinality, Cardinality
  <2>9. Ledger!Condense
    BY <2>3, <2>4, <2>5, <2>6, <2>7, <2>8 DEF Ledger!Condense, Live, Condensed
  <2> QED
    BY <2>9 DEF Ledger!Next
<1> QED
  BY <1>2, <1>3, <1>4

(* The stores together keep the promise of the ledger: a message is live until it is
   condensed, oldest first, once and for good, and the newest KeepRecent stay live. *)
THEOREM LedgerIsKept == Spec /\ CommitsInOrder => LedgerSpec
<1>1. Init => Ledger!Init
  BY DEF Init, Ledger!Init
<1>2. /\ TypeInv /\ TypeInv' /\ OrderInv /\ OrderInv' /\ RecentKeptVerbatim'
      /\ [Next]_vars /\ [InOrder]_vars
      => [Ledger!Next]_(Ledger!ledger)
  <2>1. CASE UNCHANGED vars
    BY <2>1 DEF vars, Ledger!ledger, Floor
  <2> QED
    BY <2>1, LedgerStep DEF Ledger!ledger, Live, Condensed
<1> QED
  BY <1>1, <1>2, TypeInvInvariant, OrderInvariant, RecentMessagesKept, PTL
  DEF Spec, CommitsInOrder, LedgerSpec, Ledger!Spec

(* A conversation that one chat thread writes to, the normal case of a single pane, is
   whole in every respect, with no condition on the order of commits. *)
COROLLARY OneThreadIsWhole ==
  OneThread => (Spec => [](NothingForgotten /\ Auditable /\ ReplayComplete) /\ LedgerSpec)
<1> SUFFICES ASSUME OneThread
             PROVE  Spec => [](NothingForgotten /\ Auditable /\ ReplayComplete) /\ LedgerSpec
  OBVIOUS
<1>1. Spec => CommitsInOrder
  BY OneThreadIsInOrder
<1> QED
  BY <1>1, NothingIsForgotten, SegmentsAreAuditable, ReplayIsComplete, LedgerIsKept, PTL

=============================================================================
