---------------------------- MODULE MCAlgorithms ----------------------------
(***************************************************************************)
(* The pure functions, checked over bounded inputs before a run starts.    *)
(***************************************************************************)
EXTENDS Integers, FiniteSets, Sequences

LOCAL INSTANCE SequencesExt
LOCAL INSTANCE TLC

-----------------------------------------------------------------------------
(* QuoteGate, over an alphabet with one character of each kind: a capital, small
   letters ("v" is an abbreviation, "s" one before a number), a digit, two
   terminators, blank, tab and line break, bracket, straight and curly
   quotation mark, guillemet, asterisk. *)
Characters ==
  {"A", "a", "v", "s", "1", ".", "?", "_", "t", "n", "b", "q", "c", "g", "x"}
Gate == INSTANCE QuoteGate WITH
  Upper <- {"A"}, Digits <- {"1"}, FullStop <- ".", Newline <- "n", Blank <- "_",
  Terminators <- {".", "?"}, Blanks <- {"_", "t"}, Edge <- {"b", "q"}, Guillemets <- {"g"},
  Quotation <- {"q", "g"}, Formatting <- {"x"},
  Straight <- [c \in Characters |-> IF c = "c" THEN "q" ELSE c],
  Folded <- [c \in Characters |-> IF c = "A" THEN "a" ELSE c],
  NonTerminal <- {<<"v">>}, NonTerminalBeforeNumber <- {<<"s">>},
  Label <- [attorney |-> 1, assistant |-> 2], Overhead <- 4, CharsPerQuoteLine <- 4,
  CompactionMinQuotes <- 1, CompactionMaxQuotes <- 3

GateTexts(chars, n) == BoundedSeq(chars, n)

(* _norm_shape against its own loop: characters are read one by one, and a space is
   remembered until something visible follows it. *)
Read(shaped, c) ==
  CASE c = "x" -> shaped
    [] c \in {"_", "t", "n"} ->
         IF shaped = <<>> THEN shaped
         ELSE IF Last(shaped) = "n" THEN shaped
         ELSE IF Last(shaped) = "_" THEN Append(Front(shaped), IF c = "n" THEN c ELSE "_")
         ELSE Append(shaped, IF c = "n" THEN c ELSE "_")
    [] OTHER -> Append(shaped, IF c = "c" THEN "q" ELSE c)
ReadAll(text) ==
  LET shaped == FoldLeft(Read, <<>>, text)
  IN  IF shaped # <<>> /\ Last(shaped) \in {"_", "n"} THEN Front(shaped) ELSE shaped
ASSUME ShapeIsTheLoops ==
  \A t \in GateTexts({"a", "c", "x", "_", "t", "n"}, 4) :
    /\ Gate!NormShape(t) = ReadAll(t)
    /\ Gate!NormShape(Gate!NormShape(t)) = Gate!NormShape(t)

(* Every quote that is a piece of a row, and rows of every shape the gate can meet. *)
GateRows ==
  {r \in GateTexts({"A", "a", "v", "1", ".", "?", "_", "n", "b"}, 4) : r # <<>> /\ Gate!NormShape(r) = r}
    \cup {first \o joint \o second \o last :
            first \in {<<"A">>, <<"b", "v">>, <<"s">>}, joint \in {<<".", "_", "b">>, <<"?", "_">>, <<"n", "b">>},
            second \in {<<"A">>, <<"1">>, <<"v">>}, last \in {<<".">>, <<".", "_", "A">>, <<".", "1">>}}
Pieces(row) == {SubSeq(row, p, e) : p \in DOMAIN row, e \in DOMAIN row} \ {<<>>}

ASSUME GateVocabulary == Gate!Vocabulary

(* An accepted quote leaves nothing of its sentence behind. *)
ASSUME GateIsSound ==
  \A row \in GateRows : \A quote \in Pieces(row) :
    Gate!QuotesAWholeSentence(row, quote) => Gate!NothingIsCutOff(row, quote)

(* A whole sentence is accepted, unless an occurrence over it hides it. *)
ASSUME GateIsComplete ==
  \A row \in GateRows : \A p, e \in DOMAIN row :
    LET quote == SubSeq(row, p, e)
    IN  (/\ p <= e
         /\ Gate!IsWhole(row, quote, p)
         /\ \A r \in Gate!Occurrences(row, quote) : r < p => r + Len(quote) <= p)
        => Gate!QuotesAWholeSentence(row, quote)

(* Two rows, and outputs of up to three lines about them: true quotes, one that stops
   short, one of the wrong speaker, one of another row, and prose. *)
GateConversation ==
  <<[id |-> 1, role |-> "user", content |-> <<"A", ".", "_", "A", "a", "a", ".", "_", "A", "v", ".">>],
    [id |-> 2, role |-> "assistant", content |-> <<"A", "a", ".", "n", "A", "A", "a", "a", ".">>]>>
GateLine(row, speaker, text) ==
  [kind |-> "quote", row |-> row, speaker |-> speaker, text |-> text]
GateLines ==
  {GateLine(1, "attorney", <<"q", "A", ".", "q">>), GateLine(1, "attorney", <<"A", "a", "a", ".">>),
   GateLine(1, "attorney", <<"A", "a">>), GateLine(1, "assistant", <<"A", ".">>),
   GateLine(2, "assistant", <<"A", "a", ".">>), GateLine(3, "attorney", <<"A", ".">>),
   [kind |-> "other"], [kind |-> "skipped"]}
GateBodies == BoundedSeq(GateLines, 3)

(* The strict check and the one in use agree: a segment is valid if nothing is dropped. *)
ASSUME StrictIsKeptWhole ==
  \A body \in GateBodies :
    LET quotes == Gate!ParseQuoteLines(body)
    IN  Gate!ValidateSegment(body, GateConversation, 1, 2)
          <=> quotes # <<>> /\ Gate!Kept(body, GateConversation, 1, 2) = quotes

(* Condensing is worth it: the segment is smaller than its rows by what is reported, and
   by what was asked for unless it is down to the fewest quotes.  All of its quotes are
   whole sentences of the rows and speakers they name, in the order of the rows.
   Whatever ends otherwise changes nothing. *)
ASSUME CondensedIsWorthIt ==
  \A first \in GateBodies, second \in BoundedSeq(GateLines, 1), reclaim \in {0, 3, 8, 15} :
    (Len(first) <= 1 \/ second = <<>>) =>
      LET answers == <<[said |-> TRUE, body |-> first], [said |-> second # <<>>, body |-> second]>>
          result == Gate!CompactConversation(answers, GateConversation, 1, 2, reclaim)
          quotes == result.quotes
          kept == UNION {ToSet(Gate!Kept(body, GateConversation, 1, 2)) : body \in {first, second}}
      IN  IF result.outcome = "condensed"
          THEN /\ result.reclaimed = Gate!RawChars(GateConversation) - Gate!Content(quotes)
               /\ result.reclaimed > 0
               /\ \A q \in ToSet(quotes) :
                    /\ Gate!Speaker(GateConversation[q.row].role) = q.speaker
                    /\ Gate!NothingIsCutOff(Gate!NormShape(GateConversation[q.row].content),
                                            Gate!NormShape(q.text))
               /\ \A i, k \in DOMAIN quotes : i < k => quotes[i].row <= quotes[k].row
               /\ quotes # <<>> /\ Len(quotes) <= Gate!MaxQuotes(Gate!RawChars(GateConversation), reclaim)
               /\ result.reclaimed >= reclaim \/ Len(quotes) = 1
          ELSE /\ result = Gate!Nothing(result.outcome)
               /\ (result.outcome = "no saving") <=> kept # {}

-----------------------------------------------------------------------------
(* RiskVerdict, on reviews of up to two table rows. *)
Risk == INSTANCE RiskVerdict

RiskCells == [word : Risk!Ratings \cup {"prose"}, dress : {"plain", "signs"}]
RiskRows ==
  [section : {"key findings", "other"}, rating : RiskCells,
   others : {{}} \cup {{[word |-> w, dress |-> "plain"]} : w \in {"red", "prose"}}]
RiskReviews ==
  [blank : {FALSE}, doNotSign : BOOLEAN, rows : {{a, b} : a, b \in RiskRows} \cup {{}}]
    \cup {[blank |-> TRUE, doNotSign |-> FALSE, rows |-> {}]}

(* What the pane shows as a blocker, the server reports as one: the review is "high", a
   flag says why, and the attorney is required.  A review without flags is "low". *)
ASSUME PaneBlockersAreReported ==
  \A review \in RiskReviews :
    LET verdict == Risk!RiskAssessor([task |-> "contract_review", review |-> review, chunks |-> {},
                                      named |-> {}, uploaded |-> TRUE])
    IN  /\ Risk!DeriveBlockers(review) # {} \/ review.doNotSign
             => verdict.level = "high" /\ verdict.requiresAttorney
        /\ (verdict.flags = {}) <=> (verdict.level = "low")
        /\ verdict.level = "low" => Risk!DeriveBlockers(review) = {} /\ ~review.blank

(* Only what somebody can answer is held: a review waits for a human in a client that can
   resume, and a blocker that does not wait is carried to the client in the report. *)
ASSUME BlockersWaitOrAreCarried ==
  \A review \in RiskReviews : \A interactive \in BOOLEAN :
    LET verdict == Risk!RiskAssessor([task |-> "contract_review", review |-> review, chunks |-> {},
                                      named |-> {}, uploaded |-> TRUE])
        held == Risk!RouteRisk("contract_review", verdict.level, interactive) = "human_review"
    IN  /\ held => interactive
        /\ Risk!DeriveBlockers(review) # {} => held \/ verdict.requiresAttorney
        /\ interactive /\ verdict.requiresAttorney => held

-----------------------------------------------------------------------------
(* HybridSearch, on rankings of up to three of four chunks. *)
Hybrid == INSTANCE HybridSearch WITH K <- 60

Rankings == {r \in BoundedSeq(1..4, 3) : \A i, k \in DOMAIN r : r[i] = r[k] => i = k}

(* Nothing that was found is lost or doubled, and what both searches found comes before
   what only one of them did. *)
ASSUME FusionPutsAgreementFirst ==
  \A vector, bm25 \in Rankings :
    LET fused == Hybrid!Fused(vector, bm25)
    IN  /\ ToSet(fused) = ToSet(vector) \cup ToSet(bm25)
        /\ \A i, k \in DOMAIN fused :
             /\ fused[i] = fused[k] => i = k
             /\ (fused[k] \in ToSet(vector) \cap ToSet(bm25) /\ i < k)
                  => fused[i] \in ToSet(vector) \cap ToSet(bm25)

(* A chunk that is nowhere below another one is not below it in the fusion. *)
ASSUME FusionKeepsDominance ==
  \A vector, bm25 \in Rankings :
    LET fused == Hybrid!Fused(vector, bm25)
        Rank(ranking, c) == IF c \in ToSet(ranking) THEN Hybrid!RankIn(ranking, c) ELSE 5
    IN  \A i, k \in DOMAIN fused :
          (/\ Rank(vector, fused[i]) <= Rank(vector, fused[k])
           /\ Rank(bm25, fused[i]) <= Rank(bm25, fused[k])) => i <= k

-----------------------------------------------------------------------------
(* Numbering, on up to four paragraphs of two decimal lists and a bulleted one. *)
NumberedLevel(fmt, text, start) == [numFmt |-> fmt, lvlText |-> text, start |-> start]
Numbers == INSTANCE Numbering WITH
  NumIds <- {"1", "2", "3"}, AbstractOf <- [n \in {"1", "2", "3"} |-> IF n = "3" THEN "b" ELSE "a"],
  LevelsOf <- [a |-> (0 :> NumberedLevel("decimal", <<1, 0>>, 1)
                        @@ 1 :> NumberedLevel("decimal", <<1, 0, 2>>, 3)),
               b |-> (0 :> NumberedLevel("bullet", <<0>>, 1)
                        @@ 1 :> NumberedLevel("decimal", <<2>>, 1))]
Paragraphs == [num : {"1", "2", "3"}, level : {0, 1}]
ParagraphSeqs == BoundedSeq(Paragraphs, 4)

(* What Word counts: a paragraph of a list follows the last one of its level, unless one
   of an outer level came in between. *)
CountOf(pars, i) == Numbers!After(SubSeq(pars, 1, i)).counters[pars[i].num][pars[i].level]
Outer(pars, i) == {k \in 1..(i - 1) : pars[k].num = pars[i].num /\ pars[k].level <= pars[i].level}
ASSUME ListsCountAsInWord ==
  \A pars \in ParagraphSeqs : \A i \in DOMAIN pars :
    LET outer == Outer(pars, i)
        def == Numbers!LevelDef(pars[i].num, pars[i].level)
        firsts == {k \in 1..(i - 1) : pars[k].level = 0 /\ pars[k].num # "3"}
    IN  CASE outer # {} ->
               CountOf(pars, i) = IF pars[Max(outer)].level = pars[i].level
                                  THEN CountOf(pars, Max(outer)) + 1 ELSE def.start
          [] outer = {} /\ pars[i].level = 0 /\ pars[i].num # "3" /\ firsts # {} ->
               CountOf(pars, i) = CountOf(pars, Max(firsts)) + 1  \* a section list goes on
          [] OTHER -> CountOf(pars, i) = def.start

(* A label shows its own count, and no placeholder if the outer level was met. *)
ASSUME LabelsAreFilled ==
  \A pars \in ParagraphSeqs :
    pars # <<>> =>
      LET last == Len(pars)
          label == Numbers!After(pars).label
      IN  (pars[last].level = 1) =>
            /\ Last(label) = CountOf(pars, last)
            /\ (\E i \in DOMAIN label : label[i] < 0)
                 <=> pars[last].num # "3" /\ \A k \in Outer(pars, last) : pars[k].level # 0

-----------------------------------------------------------------------------
(* Routing: whatever is asked and answered, a request reaches a skill with one model call
   at most, the task it asks for if that exists, and never the planner. *)
Route == INSTANCE Routing

RouteTasks == Route!ValidTaskTypes \cup {"", "unknown"}
PlannerAnswers == [failed : BOOLEAN, names : SUBSET {"task", "plan"}, task : RouteTasks,
                   plan : BoundedSeq({"drafting"}, 1)]
ASSUME SubmitsNeedNoPlanner ==
  \A task \in RouteTasks : \A classified \in RouteTasks \cup {"failed"} :
    LET state == Route!IntentRouter(Route!Submit(task), classified)
    IN  /\ ~Route!NeedsPlanning(state) /\ state.plan = <<state.task>>
        /\ state.task \in Route!ValidTaskTypes
        /\ task \in Route!ValidTaskTypes => state.task = task /\ state.asked = 0
        /\ \A planned \in PlannerAnswers : Route!Routed(task, classified, planned) = state

(* Nor is a plan of several skills ever without one. *)
ASSUME PlansReachASkill ==
  \A planned \in PlannerAnswers :
    Route!RouteToSkill(Route!Planner([task |-> "research", plan |-> <<"research", "drafting">>,
                                      reasons |-> {}, asked |-> 0], planned))
      \in {Route!SkillMap[t] : t \in Route!ValidTaskTypes}

-----------------------------------------------------------------------------
(* TurnLog, on up to four events of a request and up to three rows. *)
LogSays(reason, said) == [reason |-> reason, said |-> said]
LogNothing == LogSays("", "")
Log == INSTANCE TurnLog WITH FailedReasons <- {"llm", "graph"}, NoError <- LogNothing

LogEvents ==
  [kind : {"failed"}, reason : {"llm", "graph"}, said : {"a"}]
    \cup [kind : {"degraded"}, reason : {"truncated", "msa"}] \cup [kind : {"called"}, call : {2}]
LogTurn == [arrived |-> 1, attorney |-> "a", kind |-> "query", turnId |-> 1, document |-> "d", task |-> ""]
NoResult == [document |-> "", task |-> ""]

(* A row says what went wrong, once each and in order, and names the first failure as the
   error exactly if the request failed.  Outside of a request nothing is noted. *)
ASSUME RowsSayWhatBroke ==
  \A events \in BoundedSeq(LogEvents, 4) :
    LET row == Log!BuildTurnRow(LogTurn, Log!Noted(Log!Opened, events), NoResult, LogNothing)
        failures == SelectSeq(events, LAMBDA e : e.kind = "failed")
        noted == SelectSeq(events, LAMBDA e : e.kind # "called")
    IN  /\ (row.outcome = "failed") <=> failures # <<>>
        /\ row.error = IF failures = <<>> THEN LogNothing ELSE LogSays(failures[1].reason, "a")
        /\ (row.outcome = "ok") <=> row.reasons = <<>>
        /\ ToSet(row.reasons) = {noted[i].reason : i \in DOMAIN noted}
        /\ \A i, k \in DOMAIN row.reasons : row.reasons[i] = row.reasons[k] => i = k
        /\ row.tokens = 2 * row.llmCalls
        /\ Log!Noted(Log!Outside, events) = Log!Outside

(* The turns read back are the ones written last, in the order they were asked: what is
   left out was written before all of them.  A summary has every question. *)
LogTables ==
  BoundedSeq([arrived : 1..3, attorney : {"a", "b"}, kind : {"query", "compact"}, turnId : {1},
              document : {"d"}], 3)
LogFilters == [since : {0, 2}, document : {""}, attorney : {"", "a"}]
ASSUME RecentTurnsAreTheNewest ==
  \A table \in LogTables, filter \in LogFilters, limit \in 1..2 :
    LET turns == Log!RecentTurns(table, filter, limit, <<>>, <<>>)
        read == {turns[n].id : n \in DOMAIN turns}
        matching == {i \in DOMAIN table : Log!Matches(table[i], filter)}
    IN  /\ read \subseteq matching
        /\ Cardinality(read) = Len(turns) /\ Len(turns) = Min({limit, Cardinality(matching)})
        /\ \A i \in matching \ read : \A k \in read : i < k
        /\ \A n, m \in DOMAIN turns :
             n < m => table[turns[n].id].arrived <= table[turns[m].id].arrived
        /\ ToSet(Log!TurnSummaries(table, filter)) = {i \in matching : table[i].kind = "query"}

=============================================================================
