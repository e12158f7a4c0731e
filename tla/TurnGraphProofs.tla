--------------------------- MODULE TurnGraphProofs ---------------------------
(***************************************************************************)
(* What holds of TurnGraph for every number of requests, every kind of     *)
(* task, whatever Redis does and however often the client gives up: drafts *)
(* wait for review, the audit stands behind every report, the outcome of a *)
(* submit sees the banner and the review loop is bounded.                  *)
(***************************************************************************)
EXTENDS TurnGraph, TLAPS

-----------------------------------------------------------------------------
(* The invariant. *)

Begun == {"arrived", "building", "ready"}
Working == {"running", "interrupted"}
Reporting == {"output_formatter", "memory_writer", "end"}

\* A handler that has not started the graph, or has answered, holds nothing of a run;
\* a run bears its request's turn id; only a resume brings a verdict.
PhaseFits(q, r) ==
  /\ r.phase \notin Working =>
       r.next = "intake" /\ r.pending = "none" /\ ~r.lost /\ ~r.fellback
  /\ r.phase \in Working => r.st \in State /\ r.st.turn = q
  /\ r.phase = "interrupted" => r.next = "human_review"
  /\ r.phase \in Begun /\ r.submit =>
       \E task \in Tasks, interactive \in BOOLEAN :
         r.st = InitialState(q, task, interactive, FALSE)
  /\ r.phase # "answered" => r.answer = NoAnswer
  /\ r.submit => r.pending = "none"
  /\ r.fellback => r.submit /\ ~r.threaded /\ ~r.lost

PhasesFit ==
  \A q \in Requests :
    /\ PhaseFits(q, run[q])
    /\ run[q].phase \in Working \cup {"ready"} => graph # "unbuilt"

\* Whatever raises the banner in a submit has recorded a reason by then.
ReasonFits(r, checkpointed) ==
  r.submit =>
    /\ r.phase \in Working \cup {"ready"} /\ ~checkpointed => "degraded" \in r.reasons
    /\ r.phase \in Working /\ (r.fellback \/ r.st.degraded \/ r.st.report.degraded)
         => "degraded" \in r.reasons
    /\ r.answer.flagged => r.answer.outcome # "ok"

ReasonsFit == \A q \in Requests : ReasonFits(run[q], active)

\* A submit's draft that got past human_review is marked as awaiting review.
DraftWaits(r) ==
  r.submit =>
    /\ r.phase \in Working /\ r.next \in Reporting /\ r.st.task = "contract_generation"
         => r.st.awaiting
    /\ r.answer.status = "ok" /\ ~r.answer.awaiting => r.answer.task # "contract_generation"

DraftsWait == \A q \in Requests : DraftWaits(run[q])

\* An audit row stands behind the report, or the report says that none does.
Backed(report, rows) == report.degraded \/ (report.turn # 0 /\ rows[report.turn] > 0)

EndIsBacked(next, st, rows) == next = "end" => Backed(st.report, rows)

\* A request's row is written when its run is through, and once more only by its
\* fallback.
RowsFit(r, rows) ==
  /\ r.phase \in Begun \cup {"unsent"} => rows = 0
  /\ r.phase \in Working =>
       /\ ~r.fellback /\ r.next # "end" => rows = 0
       /\ ~r.fellback \/ r.next # "end" => rows <= 1

\* Whatever is at its end, in a run or in the checkpoint, is backed.
AuditsFit ==
  /\ saved # NoCheckpoint => EndIsBacked(saved.next, saved.st, audit)
  /\ \A q \in Requests :
       /\ RowsFit(run[q], audit[q])
       /\ run[q].phase \in Working => EndIsBacked(run[q].next, run[q].st, audit)

IInv == TypeOK /\ PhasesFit /\ ReasonsFit /\ DraftsWait /\ AuditsFit /\ AuditedOrFlagged

-----------------------------------------------------------------------------
(* What the steps do to a request's run. *)

\* Only q's run changes, and it stays a run.
Touches(q) ==
  /\ run' \in [Requests -> Run]
  /\ \A p \in Requests : p # q => run'[p] = run[p]

\* What most steps leave of it.
KeepsCall(q) ==
  /\ run'[q].submit = run[q].submit /\ run'[q].verdict = run[q].verdict
  /\ run'[q].gone = run[q].gone

\* What a step that is none of the graph's leaves of it.
KeepsRun(q) ==
  /\ KeepsCall(q)
  /\ run'[q].pending = run[q].pending /\ run'[q].next = run[q].next /\ run'[q].st = run[q].st
  /\ run'[q].lost = run[q].lost /\ run'[q].fellback = run[q].fellback
  /\ run'[q].answer = run[q].answer

\* The request arrives.
Arrives(q) ==
  /\ Touches(q)
  /\ NextRequest(q) /\ run[q].phase = "unsent" /\ run'[q].phase = "arrived"
  /\ run'[q].next = "intake" /\ run'[q].pending = "none"
  /\ ~run'[q].lost /\ ~run'[q].fellback /\ ~run'[q].gone /\ ~run'[q].threaded
  /\ run'[q].answer = NoAnswer
  /\ \/ /\ run'[q].submit /\ run'[q].verdict = "none"
        /\ \E task \in Tasks, interactive \in BOOLEAN :
             run'[q].st = InitialState(q, task, interactive, FALSE)
     \/ /\ ~run'[q].submit
        /\ q > 1 /\ ~run[q - 1].gone /\ run[q - 1].answer.awaiting
  /\ UNCHANGED <<graph, active, saved, audit>>

\* The client gives up on it; the handler goes on.
GoesOnAlone(q) ==
  /\ Impatient
  /\ Touches(q)
  /\ run[q].phase \notin {"unsent", "answered"} /\ run'[q].gone
  /\ run'[q].submit = run[q].submit /\ run'[q].verdict = run[q].verdict
  /\ run'[q].pending = run[q].pending /\ run'[q].next = run[q].next /\ run'[q].st = run[q].st
  /\ run'[q].lost = run[q].lost /\ run'[q].fellback = run[q].fellback
  /\ run'[q].answer = run[q].answer
  /\ run'[q].phase = run[q].phase /\ run'[q].threaded = run[q].threaded
  /\ run'[q].reasons = run[q].reasons
  /\ UNCHANGED <<graph, active, saved, audit>>

\* _get_graph, its two steps and the short way.
Builds(q) ==
  /\ Touches(q)
  /\ KeepsRun(q)
  /\ run[q].phase = "arrived" /\ run'[q].phase = "building"
  /\ graph = "unbuilt"
  /\ run'[q].threaded = redis /\ active' = redis
  /\ UNCHANGED <<graph, saved, audit>>

GetsReady(q) ==
  /\ Touches(q)
  /\ KeepsRun(q)
  /\ run'[q].phase = "ready" /\ run'[q].reasons = StartupReasons
  /\ \/ /\ run[q].phase = "arrived" /\ graph # "unbuilt" /\ graph' = graph
        /\ run'[q].threaded = (graph = "checkpointed")
     \/ /\ run[q].phase = "building" /\ run'[q].threaded = run[q].threaded
        /\ graph' = IF run[q].threaded THEN "checkpointed" ELSE "stateless"
  /\ UNCHANGED <<active, saved, audit>>

\* graph.invoke begins, for a submit and for a resume.
StartsAfresh(q) ==
  /\ Touches(q)
  /\ KeepsRun(q)
  /\ run[q].phase = "ready" /\ run'[q].phase = "running" /\ run[q].submit
  /\ run'[q].reasons = run[q].reasons /\ run'[q].threaded = run[q].threaded
  /\ saved' = IF run[q].threaded THEN [next |-> "intake", st |-> run[q].st] ELSE saved
  /\ UNCHANGED <<graph, active, audit>>

TakesUp(q) ==
  /\ Touches(q)
  /\ KeepsCall(q)
  /\ run[q].phase = "ready" /\ run'[q].phase = "running" /\ ~run[q].submit
  /\ redis /\ run[q].threaded /\ run'[q].threaded /\ saved # NoCheckpoint
  /\ run'[q].next = saved.next /\ run'[q].st = [saved.st EXCEPT !.turn = q]
  /\ run'[q].pending = run[q].verdict
  /\ run'[q].lost = run[q].lost /\ run'[q].fellback = run[q].fellback
  /\ run'[q].answer = run[q].answer
  /\ UNCHANGED <<graph, active, saved, audit>>

\* The stateless rerun.
StartsOver(q) ==
  /\ Touches(q)
  /\ KeepsCall(q)
  /\ run[q].submit /\ active /\ TakenForRedis(q)
  /\ run[q].phase \in Working \cup {"ready"} /\ run'[q].phase = "running"
  /\ run'[q].next = "intake" /\ run'[q].fellback /\ ~run'[q].lost /\ ~run'[q].threaded
  /\ \E task \in Tasks, interactive \in BOOLEAN :
       run'[q].st = InitialState(q, task, interactive, TRUE)
  /\ run'[q].reasons = run[q].reasons \cup {"degraded"}
  /\ run'[q].pending = run[q].pending /\ run'[q].answer = run[q].answer
  /\ UNCHANGED <<graph, active, saved, audit>>

\* A write that fails marks the run.
Loses(q) == run'[q].lost => run[q].lost \/ (run[q].threaded /\ ~redis)

\* interrupt().
Stops(q) ==
  /\ Touches(q)
  /\ KeepsCall(q)
  /\ run[q].phase = "running" /\ run[q].next = "human_review" /\ run'[q].phase = "interrupted"
  /\ interruptEnabled /\ run[q].pending = "none"
  /\ run'[q].pending = "none" /\ run'[q].next = "human_review" /\ run'[q].st = run[q].st
  /\ run'[q].fellback = run[q].fellback /\ run'[q].answer = run[q].answer
  /\ run'[q].reasons = run[q].reasons /\ run'[q].threaded = run[q].threaded
  /\ Loses(q)
  /\ UNCHANGED <<graph, active, saved, audit>>

\* The handler answers.
Gives(q, answer) ==
  /\ Touches(q)
  /\ KeepsCall(q)
  /\ run[q].phase \in Working \cup {"ready"}
  /\ run'[q].phase = "answered" /\ run'[q].answer = answer
  /\ run'[q].threaded = run[q].threaded
  /\ run'[q].next = "intake" /\ run'[q].pending = "none" /\ ~run'[q].lost /\ ~run'[q].fellback
  /\ UNCHANGED <<graph, active, saved, audit>>

\* A node has run: the run goes on at next with the state st.
Steps(q, next, st, reasons) ==
  /\ Touches(q)
  /\ KeepsCall(q)
  /\ run[q].phase = "running" /\ run'[q].phase = "running"
  /\ run'[q].next = next /\ run'[q].st = st /\ run'[q].pending = "none"
  /\ run'[q].reasons = run[q].reasons \cup reasons
  /\ run'[q].threaded = run[q].threaded
  /\ run'[q].fellback = run[q].fellback /\ run'[q].answer = run[q].answer
  /\ Loses(q)
  /\ saved' = IF run[q].threaded /\ redis THEN [next |-> next, st |-> st] ELSE saved
  /\ UNCHANGED <<interruptEnabled, redis, flips, graph, active>>

-----------------------------------------------------------------------------
(* The steps are of these kinds. *)

\* An action that replaces one request's run touches no other.
LEMMA ReplacedRun ==
  ASSUME TypeOK, NEW q \in Requests, NEW r \in Run, run' = [run EXCEPT ![q] = r]
  PROVE  Touches(q) /\ run'[q] = r
BY DEF TypeOK, Touches

\* A request's run has the shape of a run.
LEMMA RunShape ==
  ASSUME TypeOK, NEW q \in Requests
  PROVE  run[q] \in Run
BY DEF TypeOK

\* Nothing asked yet.
LEMMA Blanks ==
  /\ NoDraft \in Draft /\ NoReport \in Report /\ NoAnswer \in Answer /\ Unsent \in Run
  /\ ErrorAnswer \in Answer /\ ErrorAnswer.status = "error" /\ ~ErrorAnswer.flagged
  /\ ErrorAnswer.outcome = "failed" /\ ~ErrorAnswer.awaiting
<1>1. 0 \in Request0 /\ 0 \in Int
  BY DEF Request0
<1>2. NoDraft \in Draft
  BY <1>1 DEF NoDraft, Draft
<1>3. NoReport \in Report
  BY <1>1, <1>2 DEF NoReport, Report
<1>4. NoAnswer \in Answer
  BY <1>1, <1>2 DEF NoAnswer, Answer
<1>5. /\ ErrorAnswer \in Answer /\ ErrorAnswer.status = "error" /\ ~ErrorAnswer.flagged
      /\ ErrorAnswer.outcome = "failed" /\ ~ErrorAnswer.awaiting
  <2> DEFINE a == NoAnswer
  <2>1. a \in Answer /\ a.flagged = FALSE /\ a.awaiting = FALSE
    BY <1>4 DEF NoAnswer
  <2>2. ErrorAnswer = [a EXCEPT !.status = "error", !.outcome = "failed"]
    BY DEF ErrorAnswer
  <2> HIDE DEF a
  <2> QED
    BY <2>1, <2>2 DEF Answer
<1>6. Unsent \in Run
  BY <1>4 DEF Unsent, Run, Phase, Verdict, Node
<1> QED
  BY <1>2, <1>3, <1>4, <1>5, <1>6

\* The state a submit starts from is a graph state.
LEMMA InitialIsAState ==
  ASSUME NEW q \in Requests, NEW task \in Tasks, NEW interactive \in BOOLEAN,
         NEW degraded \in BOOLEAN
  PROVE  InitialState(q, task, interactive, degraded) \in State
BY Blanks DEF InitialState, State, Request0

\* What Answered leaves.
LEMMA AnsweredRun ==
  ASSUME TypeOK, NEW q \in Requests, NEW answer \in Answer,
         run[q].phase \in Working \cup {"ready"},
         run' = [run EXCEPT ![q] = Answered(@, answer)],
         UNCHANGED <<graph, active, saved, audit>>
  PROVE  Gives(q, answer)
<1>1. run[q] \in Run
  BY RunShape
<1> DEFINE u == Unsent
           r == [u EXCEPT !.phase = "answered", !.submit = run[q].submit, !.verdict = run[q].verdict,
                          !.threaded = run[q].threaded, !.gone = run[q].gone, !.answer = answer]
<1>2. run' = [run EXCEPT ![q] = r]
  BY DEF TypeOK, Answered
<1>3. /\ u \in Run /\ u.next = "intake" /\ u.pending = "none" /\ u.lost = FALSE /\ u.fellback = FALSE
  BY Blanks DEF Unsent
<1> HIDE DEF u
<1>4. /\ r \in Run /\ r.phase = "answered" /\ r.answer = answer /\ r.submit = run[q].submit
      /\ r.next = "intake" /\ r.pending = "none" /\ r.lost = FALSE /\ r.fellback = FALSE
      /\ r.verdict = run[q].verdict /\ r.threaded = run[q].threaded /\ r.gone = run[q].gone
  BY <1>1, <1>3 DEF Run, Phase
<1> HIDE DEF r
<1> QED
  BY <1>2, <1>4, ReplacedRun DEF Gives, KeepsCall

\* LangGraph's superstep.
LEMMA SuperstepSteps ==
  ASSUME TypeOK, NEW q \in Requests, NEW next \in Node, NEW st \in State,
         NEW reasons \in SUBSET {"degraded", "failed"},
         run[q].phase = "running", Superstep(q, next, st, reasons)
  PROVE  Steps(q, next, st, reasons)
<1>1. run[q] \in Run /\ redis \in BOOLEAN
  BY RunShape DEF TypeOK
<1> DEFINE lost == run[q].lost \/ (run[q].threaded /\ ~redis)
           all == run[q].reasons \cup reasons
           r == [run[q] EXCEPT !.next = next, !.st = st, !.pending = "none", !.lost = lost,
                               !.reasons = all]
<1>2. run' = [run EXCEPT ![q] = r]
  BY DEF TypeOK, Superstep
<1>3. /\ lost \in BOOLEAN /\ all \in SUBSET {"degraded", "failed"}
      /\ lost => run[q].lost \/ (run[q].threaded /\ ~redis)
  BY <1>1 DEF Run
<1> HIDE DEF lost, all
<1>4. /\ r \in Run /\ r.next = next /\ r.st = st /\ r.pending = "none" /\ r.lost = lost /\ r.reasons = all
      /\ r.phase = run[q].phase /\ r.submit = run[q].submit /\ r.verdict = run[q].verdict
      /\ r.threaded = run[q].threaded /\ r.fellback = run[q].fellback /\ r.answer = run[q].answer
      /\ r.gone = run[q].gone
  BY <1>1, <1>3 DEF Run, Verdict
<1> HIDE DEF r
<1>5. Touches(q) /\ run'[q] = r
  BY <1>2, <1>4, ReplacedRun
<1>6. all = run[q].reasons \cup reasons
  BY DEF all
<1> QED
  BY <1>3, <1>4, <1>5, <1>6 DEF Steps, Superstep, KeepsCall, Loses

\* The handlers and the client, step by step.
LEMMA SubmitArrives ==
  ASSUME TypeOK, NEW q \in Requests, Submit(q)
  PROVE  Arrives(q)
<1>1. PICK task \in Tasks, interactive \in BOOLEAN :
        run' = [run EXCEPT ![q] = [Unsent EXCEPT !.phase = "arrived", !.submit = TRUE,
                                     !.st = InitialState(q, task, interactive, FALSE)]]
  BY DEF Submit
<1> DEFINE u == Unsent
           st == InitialState(q, task, interactive, FALSE)
           r == [u EXCEPT !.phase = "arrived", !.submit = TRUE, !.st = st]
<1>2. st \in State /\ run' = [run EXCEPT ![q] = r]
  BY <1>1, InitialIsAState
<1>3. /\ u \in Run /\ u.next = "intake" /\ u.pending = "none" /\ u.lost = FALSE
      /\ u.fellback = FALSE /\ u.threaded = FALSE /\ u.gone = FALSE /\ u.answer = NoAnswer /\ u.verdict = "none"
  BY Blanks DEF Unsent
<1> HIDE DEF u, st
<1>4. /\ r \in Run /\ r.phase = "arrived" /\ r.submit = TRUE /\ r.st = st
      /\ r.next = "intake" /\ r.pending = "none" /\ r.lost = FALSE
      /\ r.fellback = FALSE /\ r.threaded = FALSE /\ r.gone = FALSE /\ r.answer = NoAnswer /\ r.verdict = "none"
  BY <1>2, <1>3 DEF Run, Phase
<1> HIDE DEF r
<1>5. st = InitialState(q, task, interactive, FALSE)
  BY DEF st
<1>6. Touches(q) /\ run'[q] = r
  BY <1>2, <1>4, ReplacedRun
<1>7. \E t \in Tasks, i \in BOOLEAN :
        run'[q].st = InitialState(q, t, i, FALSE)
  BY <1>4, <1>5, <1>6
<1> QED
  BY <1>4, <1>6, <1>7 DEF Submit, NextRequest, Sent, Arrives

\* A resume is a new request.
LEMMA ResumeArrives ==
  ASSUME TypeOK, NEW q \in Requests, Resume(q)
  PROVE  Arrives(q)
<1>1. PICK verdict \in Verdict \ {"none"} :
        run' = [run EXCEPT ![q] = [Unsent EXCEPT !.phase = "arrived", !.verdict = verdict]]
  BY DEF Resume
<1> DEFINE u == Unsent
           r == [u EXCEPT !.phase = "arrived", !.verdict = verdict]
<1>2. run' = [run EXCEPT ![q] = r]
  BY <1>1
<1>3. /\ u \in Run /\ u.next = "intake" /\ u.pending = "none" /\ u.lost = FALSE
      /\ u.fellback = FALSE /\ u.threaded = FALSE /\ u.gone = FALSE /\ u.answer = NoAnswer /\ u.submit = FALSE
  BY Blanks DEF Unsent
<1> HIDE DEF u
<1>4. /\ r \in Run /\ r.phase = "arrived" /\ r.submit = FALSE
      /\ r.next = "intake" /\ r.pending = "none" /\ r.lost = FALSE
      /\ r.fellback = FALSE /\ r.threaded = FALSE /\ r.gone = FALSE /\ r.answer = NoAnswer
  BY <1>3 DEF Run, Phase
<1> HIDE DEF r
<1> QED
  BY <1>2, <1>4, ReplacedRun DEF Resume, NextRequest, Sent, Arrives

\* A client that gives up leaves its run alone.
LEMMA GiveUpGoesOn ==
  ASSUME TypeOK, NEW q \in Requests, GiveUp(q)
  PROVE  GoesOnAlone(q)
<1> DEFINE r == [run[q] EXCEPT !.gone = TRUE]
<1>1. run' = [run EXCEPT ![q] = r]
  BY DEF GiveUp
<1>2. run[q] \in Run
  BY RunShape
<1>3. /\ r \in Run /\ r.phase = run[q].phase /\ r.submit = run[q].submit /\ r.verdict = run[q].verdict
      /\ r.pending = run[q].pending /\ r.next = run[q].next /\ r.st = run[q].st
      /\ r.lost = run[q].lost /\ r.fellback = run[q].fellback /\ r.answer = run[q].answer
      /\ r.threaded = run[q].threaded /\ r.reasons = run[q].reasons /\ r.gone
  BY <1>2 DEF Run
<1> HIDE DEF r
<1> QED
  BY <1>1, <1>3, ReplacedRun DEF GiveUp, Sent, Settled, GoesOnAlone

\* A run on its way to graph.invoke.
LEMMA PhaseChange ==
  ASSUME TypeOK, NEW q \in Requests, NEW phase \in Phase, NEW threaded \in BOOLEAN,
         NEW reasons \in SUBSET {"degraded", "failed"},
         run' = [run EXCEPT ![q] = [run[q] EXCEPT !.phase = phase, !.threaded = threaded,
                                                   !.reasons = reasons]]
  PROVE  /\ Touches(q) /\ KeepsRun(q)
         /\ run'[q].phase = phase /\ run'[q].threaded = threaded /\ run'[q].reasons = reasons
<1> DEFINE r == [run[q] EXCEPT !.phase = phase, !.threaded = threaded, !.reasons = reasons]
<1>1. run[q] \in Run
  BY RunShape
<1>2. /\ r \in Run /\ r.phase = phase /\ r.threaded = threaded /\ r.reasons = reasons
      /\ r.submit = run[q].submit /\ r.verdict = run[q].verdict /\ r.gone = run[q].gone
      /\ r.pending = run[q].pending /\ r.next = run[q].next /\ r.st = run[q].st
      /\ r.lost = run[q].lost /\ r.fellback = run[q].fellback /\ r.answer = run[q].answer
  BY <1>1 DEF Run
<1>3. run' = [run EXCEPT ![q] = r]
  OBVIOUS
<1> HIDE DEF r
<1> QED
  BY <1>2, <1>3, ReplacedRun DEF KeepsRun, KeepsCall

\* Building the checkpointer changes no run's state.
LEMMA GraphIsBuilt ==
  ASSUME TypeOK, NEW q \in Requests, BuildsCheckpointer(q)
  PROVE  Builds(q)
<1>1. run[q] \in Run /\ redis \in BOOLEAN /\ "building" \in Phase
  BY RunShape DEF TypeOK, Phase
<1> DEFINE reasons == run[q].reasons
<1>2. run' = [run EXCEPT ![q] = [run[q] EXCEPT !.phase = "building", !.threaded = redis,
                                               !.reasons = reasons]]
  <2>1. [run[q] EXCEPT !.phase = "building", !.threaded = redis, !.reasons = reasons]
          = [run[q] EXCEPT !.phase = "building", !.threaded = redis]
    BY <1>1 DEF Run
  <2> QED
    BY <2>1 DEF BuildsCheckpointer, TypeOK
<1>3. reasons \in SUBSET {"degraded", "failed"}
  BY <1>1 DEF Run
<1> HIDE DEF reasons
<1>4. /\ Touches(q) /\ KeepsRun(q)
      /\ run'[q].phase = "building" /\ run'[q].threaded = redis
  BY <1>1, <1>2, <1>3, PhaseChange
<1> QED
  BY <1>4 DEF BuildsCheckpointer, Builds

\* Finding or publishing the graph changes no run's state.
LEMMA GraphIsReady ==
  ASSUME TypeOK, NEW q \in Requests, FindsGraph(q) \/ PublishesGraph(q)
  PROVE  GetsReady(q)
<1>1. run[q] \in Run /\ "ready" \in Phase /\ StartupReasons \in SUBSET {"degraded", "failed"}
  BY RunShape DEF Phase, StartupReasons
<1>2. CASE FindsGraph(q)
  <2> DEFINE threaded == graph = "checkpointed"
  <2>1. run' = [run EXCEPT ![q] = [run[q] EXCEPT !.phase = "ready", !.threaded = threaded,
                                                 !.reasons = StartupReasons]]
    BY <1>2 DEF FindsGraph, TypeOK
  <2>2. threaded \in BOOLEAN
    OBVIOUS
  <2>3. /\ Touches(q) /\ KeepsRun(q)
        /\ run'[q].phase = "ready" /\ run'[q].threaded = threaded /\ run'[q].reasons = StartupReasons
    <3> HIDE DEF threaded
    <3> QED
      BY <1>1, <2>1, <2>2, PhaseChange
  <2> QED
    BY <1>2, <2>3 DEF FindsGraph, GetsReady
<1>3. CASE PublishesGraph(q)
  <2>1. run' = [run EXCEPT ![q] = [run[q] EXCEPT !.phase = "ready", !.threaded = run[q].threaded,
                                                 !.reasons = StartupReasons]]
    <3>1. [run[q] EXCEPT !.phase = "ready", !.threaded = run[q].threaded, !.reasons = StartupReasons]
            = [run[q] EXCEPT !.phase = "ready", !.reasons = StartupReasons]
      BY <1>1 DEF Run
    <3> QED
      BY <1>3, <3>1 DEF PublishesGraph, TypeOK
  <2>2. run[q].threaded \in BOOLEAN
    BY <1>1 DEF Run
  <2>3. /\ Touches(q) /\ KeepsRun(q)
        /\ run'[q].phase = "ready" /\ run'[q].threaded = run[q].threaded
        /\ run'[q].reasons = StartupReasons
    BY <1>1, <2>1, <2>2, PhaseChange
  <2> QED
    BY <1>3, <2>3 DEF PublishesGraph, GetsReady
<1> QED
  BY <1>2, <1>3

\* A submit starts from the initial state.
LEMMA SubmitBegins ==
  ASSUME TypeOK, NEW q \in Requests, SubmitStarts(q)
  PROVE  StartsAfresh(q)
<1>1. run[q] \in Run /\ "running" \in Phase
  BY RunShape DEF Phase
<1> DEFINE reasons == run[q].reasons
           threaded == run[q].threaded
<1>2. threaded \in BOOLEAN /\ reasons \in SUBSET {"degraded", "failed"}
  BY <1>1 DEF Run
<1>3. run' = [run EXCEPT ![q] = [run[q] EXCEPT !.phase = "running", !.threaded = threaded,
                                               !.reasons = reasons]]
  <2>1. [run[q] EXCEPT !.phase = "running", !.threaded = threaded, !.reasons = reasons]
          = [run[q] EXCEPT !.phase = "running"]
    BY <1>1 DEF Run
  <2> QED
    BY <2>1 DEF SubmitStarts, TypeOK
<1>4. /\ Touches(q) /\ KeepsRun(q)
      /\ run'[q].phase = "running" /\ run'[q].threaded = threaded /\ run'[q].reasons = reasons
  <2> HIDE DEF reasons, threaded
  <2> QED
    BY <1>1, <1>2, <1>3, PhaseChange
<1> QED
  BY <1>4 DEF SubmitStarts, StartsAfresh

\* A resume takes up the checkpoint.
LEMMA ResumeTakesUp ==
  ASSUME TypeOK, NEW q \in Requests, ResumeStarts(q)
  PROVE  TakesUp(q)
<1>1. /\ run[q] \in Run /\ "running" \in Phase
      /\ saved.st \in State /\ saved.next \in Node /\ saved # NoCheckpoint
  BY RunShape DEF Phase, ResumeStarts, TypeOK, Checkpoint
<1> DEFINE st == [saved.st EXCEPT !.turn = q]
           r == [run[q] EXCEPT !.phase = "running", !.pending = run[q].verdict,
                               !.next = saved.next, !.st = st]
<1>2. st \in State
  BY <1>1 DEF State
<1>3. run' = [run EXCEPT ![q] = r]
  BY DEF ResumeStarts, TypeOK
<1> HIDE DEF st
<1>4. /\ r \in Run /\ r.phase = "running" /\ r.pending = run[q].verdict /\ r.next = saved.next
      /\ r.st = st /\ r.submit = run[q].submit /\ r.verdict = run[q].verdict /\ r.gone = run[q].gone
      /\ r.threaded = run[q].threaded /\ r.lost = run[q].lost /\ r.fellback = run[q].fellback
      /\ r.answer = run[q].answer
  BY <1>1, <1>2 DEF Run
<1> HIDE DEF r
<1>5. Touches(q) /\ run'[q] = r /\ st = [saved.st EXCEPT !.turn = q]
  BY <1>3, <1>4, ReplacedRun DEF st
<1> QED
  BY <1>1, <1>4, <1>5 DEF ResumeStarts, TakesUp, KeepsCall

\* The stateless rerun of a submit starts from the initial state again.
LEMMA SubmitStartsOver ==
  ASSUME TypeOK, PhasesFit, NEW q \in Requests, FallsBack(q)
  PROVE  StartsOver(q)
<1>1. /\ run[q] \in Run /\ "running" \in Phase /\ "intake" \in Node
      /\ run[q].phase \in Working \cup {"ready"} /\ run[q].submit
  BY RunShape DEF Phase, Node, FallsBack, TakenForRedis, RedisError, SearchRefused, Working
<1>2. run[q].st.task \in Tasks /\ run[q].st.interactive \in BOOLEAN
  <2>1. CASE run[q].phase \in Working
    BY <2>1 DEF PhasesFit, PhaseFits, State
  <2>2. CASE run[q].phase = "ready"
    <3>1. PICK task \in Tasks, interactive \in BOOLEAN :
            run[q].st = InitialState(q, task, interactive, FALSE)
      BY <1>1, <2>2 DEF PhasesFit, PhaseFits, Begun
    <3> QED
      BY <3>1 DEF InitialState
  <2> QED
    BY <1>1, <2>1, <2>2
<1> DEFINE st == InitialState(q, run[q].st.task, run[q].st.interactive, TRUE)
           all == run[q].reasons \cup {"degraded"}
           r == [run[q] EXCEPT !.phase = "running", !.next = "intake", !.threaded = FALSE,
                               !.lost = FALSE, !.fellback = TRUE, !.reasons = all, !.st = st]
<1>3. run' = [run EXCEPT ![q] = r]
  BY DEF FallsBack, TypeOK
<1>4. st \in State /\ all \in SUBSET {"degraded", "failed"} /\ "degraded" \in all
  BY <1>1, <1>2, InitialIsAState DEF Run
<1>5. \E task \in Tasks, interactive \in BOOLEAN : st = InitialState(q, task, interactive, TRUE)
  BY <1>2
<1> HIDE DEF st, all
<1>6. /\ r \in Run /\ r.phase = "running" /\ r.next = "intake" /\ r.threaded = FALSE
      /\ r.lost = FALSE /\ r.fellback = TRUE /\ r.reasons = all /\ r.st = st
      /\ r.submit = run[q].submit /\ r.verdict = run[q].verdict /\ r.gone = run[q].gone
      /\ r.pending = run[q].pending /\ r.answer = run[q].answer
  BY <1>1, <1>4 DEF Run
<1> HIDE DEF r
<1>7. Touches(q) /\ run'[q] = r
  BY <1>3, <1>6, ReplacedRun
<1>8. all = run[q].reasons \cup {"degraded"}
  BY DEF all
<1> QED
  BY <1>1, <1>4, <1>5, <1>6, <1>7, <1>8 DEF FallsBack, TakenForRedis, StartsOver, KeepsCall

\* An interrupted run stops before human_review.
LEMMA InterruptStops ==
  ASSUME TypeOK, NEW q \in Requests, Interrupts(q)
  PROVE  Stops(q)
<1>1. run[q] \in Run /\ redis \in BOOLEAN /\ "interrupted" \in Phase
  BY RunShape DEF TypeOK, Phase
<1> DEFINE lost == run[q].lost \/ (run[q].threaded /\ ~redis)
           r == [run[q] EXCEPT !.phase = "interrupted", !.lost = lost]
<1>2. run' = [run EXCEPT ![q] = r]
  BY DEF TypeOK, Interrupts
<1>3. lost \in BOOLEAN /\ (lost => run[q].lost \/ (run[q].threaded /\ ~redis))
  BY <1>1 DEF Run
<1> HIDE DEF lost
<1>4. /\ r \in Run /\ r.phase = "interrupted" /\ r.lost = lost
      /\ r.submit = run[q].submit /\ r.verdict = run[q].verdict /\ r.gone = run[q].gone
      /\ r.pending = run[q].pending /\ r.next = run[q].next /\ r.st = run[q].st
      /\ r.reasons = run[q].reasons /\ r.threaded = run[q].threaded
      /\ r.fellback = run[q].fellback /\ r.answer = run[q].answer
  BY <1>1, <1>3 DEF Run
<1> HIDE DEF r
<1>5. Touches(q) /\ run'[q] = r
  BY <1>2, <1>4, ReplacedRun
<1> QED
  BY <1>3, <1>4, <1>5 DEF Interrupts, At, Stops, KeepsCall, Loses

\* derive_outcome is one of its three, and never ok once a reason is recorded.
LEMMA OutcomeValues ==
  ASSUME NEW q \in Requests, run[q].reasons \in SUBSET {"degraded", "failed"}
  PROVE  /\ Outcome(q) \in {"ok", "degraded", "failed"}
         /\ "degraded" \in run[q].reasons => Outcome(q) # "ok"
         /\ Outcome(q) = "failed" <=> "failed" \in run[q].reasons
<1>1. CASE "failed" \in run[q].reasons
  BY <1>1 DEF Outcome
<1>2. CASE "failed" \notin run[q].reasons /\ "degraded" \in run[q].reasons
  <2>1. run[q].reasons = {"degraded"}
    BY <1>2
  <2> QED
    BY <2>1 DEF Outcome
<1>3. CASE run[q].reasons = {}
  BY <1>3 DEF Outcome
<1> QED
  BY <1>1, <1>2, <1>3

\* What a run that is through, or interrupted, answers.
TheAnswer(q) ==
  LET st == run[q].st
      awaiting == run[q].phase = "interrupted" \/ st.awaiting
  IN  [status |-> "ok", task |-> st.task, awaiting |-> awaiting,
       draft |-> IF awaiting THEN st.draft ELSE st.report.draft,
       unincorporated |-> IF awaiting THEN 0 ELSE st.report.unincorporated,
       turn |-> IF awaiting THEN 0 ELSE st.report.turn,
       flagged |-> Flagged(q), outcome |-> Outcome(q)]

\* A record of these fields is an answer.
LEMMA AnswerShape ==
  ASSUME NEW task \in Tasks \cup {""}, NEW awaiting \in BOOLEAN, NEW draft \in Draft,
         NEW unincorporated \in Request0, NEW turn \in Request0, NEW flagged \in BOOLEAN,
         NEW outcome \in {"ok", "degraded", "failed"}
  PROVE  [status |-> "ok", task |-> task, awaiting |-> awaiting, draft |-> draft,
          unincorporated |-> unincorporated, turn |-> turn, flagged |-> flagged,
          outcome |-> outcome] \in Answer
BY DEF Answer

\* What a finished run answers is read from its own state.
LEMMA AnswersGive ==
  ASSUME TypeOK, PhasesFit, NEW q \in Requests, Answers(q)
  PROVE  Gives(q, TheAnswer(q)) /\ TheAnswer(q) \in Answer
<1>1. /\ run[q] \in Run /\ run[q].st \in State /\ run[q].st.report \in Report
      /\ run[q].st.draft \in Draft /\ run[q].st.task \in Tasks /\ 0 \in Request0
      /\ run[q].fellback \in BOOLEAN
      /\ run[q].reasons \in SUBSET {"degraded", "failed"}
  BY RunShape DEF Answers, PhasesFit, PhaseFits, Working, State, Request0, Run
<1>2. TheAnswer(q) \in Answer
  <2> DEFINE awaiting == run[q].phase = "interrupted" \/ run[q].st.awaiting
             draft == IF awaiting THEN run[q].st.draft ELSE run[q].st.report.draft
             unincorporated == IF awaiting THEN 0 ELSE run[q].st.report.unincorporated
             turn == IF awaiting THEN 0 ELSE run[q].st.report.turn
  <2>1. awaiting \in BOOLEAN /\ Flagged(q) \in BOOLEAN
    BY <1>1 DEF Flagged, TypeOK, State, Report
  <2>2. Outcome(q) \in {"ok", "degraded", "failed"}
    BY <1>1, OutcomeValues
  <2>3. draft \in Draft /\ unincorporated \in Request0 /\ turn \in Request0
    BY <1>1 DEF Report
  <2>4. run[q].st.task \in Tasks \cup {""}
    BY <1>1
  <2>5. TheAnswer(q) = [status |-> "ok", task |-> run[q].st.task, awaiting |-> awaiting,
          draft |-> draft, unincorporated |-> unincorporated, turn |-> turn,
          flagged |-> Flagged(q), outcome |-> Outcome(q)]
    BY DEF TheAnswer
  <2> HIDE DEF awaiting, draft, unincorporated, turn
  <2> DEFINE flagged == Flagged(q)
             outcome == Outcome(q)
             task == run[q].st.task
  <2>6. /\ TheAnswer(q) = [status |-> "ok", task |-> task, awaiting |-> awaiting,
             draft |-> draft, unincorporated |-> unincorporated, turn |-> turn,
             flagged |-> flagged, outcome |-> outcome]
        /\ flagged \in BOOLEAN /\ outcome \in {"ok", "degraded", "failed"}
        /\ task \in Tasks \cup {""}
    BY <2>1, <2>2, <2>4, <2>5
  <2> HIDE DEF flagged, outcome, task
  <2>7. [status |-> "ok", task |-> task, awaiting |-> awaiting, draft |-> draft,
         unincorporated |-> unincorporated, turn |-> turn, flagged |-> flagged,
         outcome |-> outcome] \in Answer
    BY <2>1, <2>3, <2>6, AnswerShape
  <2> QED
    BY <2>6, <2>7
<1>3. run' = [run EXCEPT ![q] = Answered(@, TheAnswer(q))] /\ UNCHANGED <<graph, active, saved, audit>>
  BY DEF Answers, TheAnswer
<1>4. run[q].phase \in Working \cup {"ready"}
  BY DEF Answers, Working
<1> QED
  BY <1>2, <1>3, <1>4, AnsweredRun

\* An error is an answer without a report.
IsError(answer) == answer.status = "error" /\ ~answer.flagged /\ ~answer.awaiting

\* A run that fails, or finds nothing to resume, answers an error.
LEMMA FailureGives ==
  ASSUME TypeOK, NEW q \in Requests, ResumeFindsNothing(q) \/ InvokeFails(q)
  PROVE  \E answer \in Answer :
           /\ Gives(q, answer) /\ IsError(answer)
           /\ run[q].submit => answer.outcome = "failed"
<1>1. CASE InvokeFails(q)
  <2>1. Gives(q, ErrorAnswer)
    BY <1>1, Blanks, AnsweredRun DEF InvokeFails, RedisError, Working
  <2> QED
    BY <2>1, Blanks DEF IsError
<1>2. CASE ResumeFindsNothing(q)
  <2> DEFINE loaded == run[q].threaded /\ redis
             outcome == IF loaded THEN Outcome(q) ELSE ErrorAnswer.outcome
             e == ErrorAnswer
             a == [e EXCEPT !.outcome = outcome]
  <2>1. run' = [run EXCEPT ![q] = Answered(@, a)] /\ UNCHANGED <<graph, active, saved, audit>>
    BY <1>2 DEF ResumeFindsNothing
  <2>2. outcome \in {"ok", "degraded", "failed"}
    BY RunShape, OutcomeValues, Blanks DEF Run
  <2>3. e \in Answer /\ e.status = "error" /\ ~e.flagged /\ ~e.awaiting
    BY Blanks
  <2> HIDE DEF outcome, e
  <2>4. a \in Answer /\ a.status = "error" /\ ~a.flagged /\ ~a.awaiting
    BY <2>2, <2>3 DEF Answer
  <2> HIDE DEF a
  <2>5. ~run[q].submit /\ run[q].phase \in Working \cup {"ready"}
    BY <1>2 DEF ResumeFindsNothing
  <2> QED
    BY <2>1, <2>4, <2>5, AnsweredRun DEF IsError
<1> QED
  BY <1>1, <1>2

-----------------------------------------------------------------------------
(* What the nodes do to the state of the graph. *)

\* The state a node starts from.
LEMMA AtANode ==
  ASSUME TypeOK, PhasesFit, NEW q \in Requests, NEW node \in Node, At(q, node)
  PROVE  /\ run[q].phase = "running" /\ run[q].next = node
         /\ run[q].st \in State /\ run[q].st.turn = q
         /\ run[q].st.draft \in Draft /\ run[q].st.report \in Report
         /\ run[q].st.notes \in Request0 /\ run[q].st.iterations \in Nat
         /\ q \in Request0 /\ 0 \in Request0 /\ q \in Nat /\ q > 0
<1>1. run[q].phase = "running" /\ run[q].next = node /\ run[q].st \in State /\ run[q].st.turn = q
  BY DEF At, PhasesFit, PhaseFits, Working
<1>2. /\ run[q].st.draft \in Draft /\ run[q].st.report \in Report
      /\ run[q].st.notes \in Request0 /\ run[q].st.iterations \in Nat
  BY <1>1 DEF State
<1>3. q \in Request0 /\ 0 \in Request0 /\ q \in Nat /\ q > 0
  BY TurnGraphAssumption DEF Request0, Requests
<1> QED
  BY <1>1, <1>2, <1>3

\* What every node leaves of it.
Carries(st, old) ==
  /\ st \in State
  /\ st.turn = old.turn /\ st.task = old.task /\ st.interactive = old.interactive

\* skill_dispatcher to llm_caller.
Drafts(st, old, reasons) ==
  /\ Carries(st, old)
  /\ st.notes = old.notes /\ st.iterations = old.iterations
  /\ st.unincorporated = old.unincorporated /\ st.awaiting = old.awaiting
  /\ st.report = old.report
  /\ reasons \in SUBSET {"degraded", "failed"}
  /\ st.degraded => old.degraded \/ "degraded" \in reasons
  /\ st.draft.error <=> "failed" \in reasons
  /\ st.draft.error => "error" \in Outputs
  /\ \/ st.draft = NoDraft /\ "empty" \in Outputs
     \/ st.draft # NoDraft /\ st.draft.from = old.notes

\* human_review with a verdict in hand.
Judged(st, old, q, verdict) ==
  /\ Carries(st, old)
  /\ ~st.awaiting /\ st.degraded = old.degraded /\ st.report = old.report
  /\ \/ /\ st.draft = old.draft /\ st.iterations = old.iterations
        /\ \/ verdict # "notes"
           \/ verdict = "notes" /\ st.unincorporated = q
     \/ /\ verdict = "revise" /\ st.iterations = old.iterations
        /\ st.draft.id < 0 /\ st.draft.error = FALSE /\ st.draft # NoDraft
     \/ /\ verdict = "notes" /\ st.notes = q
        /\ st.iterations = old.iterations + 1 /\ st.draft = NoDraft

\* output_formatter.
Reports(st, old) ==
  /\ Carries(st, old)
  /\ st.draft = old.draft /\ st.awaiting = old.awaiting /\ st.degraded = old.degraded
  /\ st.report.draft = old.draft /\ st.report.degraded = old.degraded
  /\ st.report.unincorporated = old.unincorporated

\* memory_writer.
Records(st, old, q, reasons) ==
  /\ Carries(st, old)
  /\ st.draft = old.draft /\ st.awaiting = old.awaiting /\ st.degraded = old.degraded
  /\ st.report.draft = old.report.draft /\ st.report.unincorporated = old.report.unincorporated
  /\ st.report.turn = q
  /\ \/ /\ audit' = [audit EXCEPT ![q] = @ + 1]
        /\ st.report.degraded = old.report.degraded /\ reasons = {}
     \/ audit' = audit /\ st.report.degraded /\ reasons = {"degraded"}

\* intake changes no field the invariant speaks of.
LEMMA IntakeSteps ==
  ASSUME TypeOK, PhasesFit, NEW q \in Requests, Intake(q)
  PROVE  run[q].next = "intake" /\ Steps(q, "generate", run[q].st, {}) /\ audit' = audit
<1>1. "intake" \in Node /\ "generate" \in Node /\ {} \in SUBSET {"degraded", "failed"}
  BY DEF Node
<1> QED
  BY <1>1, AtANode, SuperstepSteps DEF Intake

\* llm_caller replaces the draft, or records why there is none.
LEMMA GenerateSteps ==
  ASSUME TypeOK, PhasesFit, NEW q \in Requests, Generate(q)
  PROVE  /\ run[q].next = "generate" /\ audit' = audit
         /\ \E st \in State, reasons \in SUBSET {"degraded", "failed"} :
              Steps(q, "risk_assessor", st, reasons) /\ Drafts(st, run[q].st, reasons)
<1>0. "generate" \in Node /\ "risk_assessor" \in Node
  BY DEF Node
<1>1. At(q, "generate")
  BY DEF Generate
<1>2. /\ run[q].phase = "running" /\ run[q].next = "generate"
      /\ run[q].st \in State /\ run[q].st.notes \in Request0 /\ q \in Nat /\ q > 0
  BY <1>0, <1>1, AtANode
<1>3. PICK output \in Outputs, unavailable \in BOOLEAN :
        LET draft == IF output = "empty" THEN NoDraft
                     ELSE [FreshDraft(q) EXCEPT !.error = output = "error"]
        IN  Superstep(q, "risk_assessor",
              [run[q].st EXCEPT !.draft = draft, !.degraded = @ \/ unavailable],
              Class(unavailable, "degraded") \cup Class(output = "error", "failed"))
  BY DEF Generate
<1> DEFINE draft == IF output = "empty" THEN NoDraft
                    ELSE [FreshDraft(q) EXCEPT !.error = output = "error"]
           degraded == run[q].st.degraded \/ unavailable
           st == [run[q].st EXCEPT !.draft = draft, !.degraded = degraded]
           reasons == Class(unavailable, "degraded") \cup Class(output = "error", "failed")
<1>4. Superstep(q, "risk_assessor", st, reasons)
  BY <1>2, <1>3 DEF State
<1>5. /\ reasons \in SUBSET {"degraded", "failed"}
      /\ "degraded" \in reasons <=> unavailable
      /\ "failed" \in reasons <=> output = "error"
  BY DEF Class
<1>6. /\ draft \in Draft /\ (draft.error <=> output = "error")
      /\ \/ draft = NoDraft /\ "empty" \in Outputs
         \/ draft # NoDraft /\ draft.from = run[q].st.notes
  <2>1. CASE output = "empty"
    BY <2>1, Blanks DEF NoDraft
  <2>2. CASE output # "empty"
    <3> DEFINE id == 2 * q + (IF run[q].threaded THEN 0 ELSE 1)
               error == output = "error"
    <3>1. draft = [id |-> id, from |-> run[q].st.notes, error |-> error]
      BY <2>2 DEF FreshDraft
    <3>2. id \in Int /\ id > 0 /\ error \in BOOLEAN
      BY <1>2
    <3> HIDE DEF draft, id, error
    <3>3. /\ draft \in Draft /\ draft.error = error /\ draft.id > 0
          /\ draft.from = run[q].st.notes
      BY <1>2, <3>1, <3>2 DEF Draft
    <3>4. draft # NoDraft
      BY <3>3 DEF NoDraft
    <3> QED
      BY <3>3, <3>4 DEF error
  <2> QED
    BY <2>1, <2>2
<1>7. degraded \in BOOLEAN /\ (degraded <=> run[q].st.degraded \/ unavailable)
  BY <1>2 DEF State
<1> HIDE DEF draft, degraded, reasons
<1>8. /\ Carries(st, run[q].st) /\ st.draft = draft /\ st.degraded = degraded
      /\ st.notes = run[q].st.notes /\ st.iterations = run[q].st.iterations
      /\ st.unincorporated = run[q].st.unincorporated /\ st.awaiting = run[q].st.awaiting
      /\ st.report = run[q].st.report
  BY <1>2, <1>6, <1>7 DEF State, Carries
<1> HIDE DEF st
<1>9. Drafts(st, run[q].st, reasons)
  BY <1>5, <1>6, <1>7, <1>8 DEF Drafts
<1>10. Steps(q, "risk_assessor", st, reasons) /\ st \in State
  BY <1>0, <1>2, <1>4, <1>5, <1>8, SuperstepSteps DEF Carries
<1> QED
  BY <1>2, <1>5, <1>9, <1>10 DEF Generate

\* risk_assessor sends every contract draft to human_review.
LEMMA AssessRiskSteps ==
  ASSUME TypeOK, PhasesFit, NEW q \in Requests, AssessRisk(q)
  PROVE  /\ run[q].next = "risk_assessor" /\ audit' = audit
         /\ \/ Steps(q, "human_review", run[q].st, {})
            \/ /\ run[q].st.task # "contract_generation"
               /\ Steps(q, "output_formatter", run[q].st, {})
<1>0. /\ "human_review" \in Node /\ "output_formatter" \in Node /\ "risk_assessor" \in Node
      /\ {} \in SUBSET {"degraded", "failed"}
  BY DEF Node
<1>1. At(q, "risk_assessor")
  BY DEF AssessRisk
<1>2. run[q].phase = "running" /\ run[q].next = "risk_assessor" /\ run[q].st \in State
  BY <1>0, <1>1, AtANode
<1>3. \/ Superstep(q, "human_review", run[q].st, {})
      \/ /\ run[q].st.task # "contract_generation"
         /\ Superstep(q, "output_formatter", run[q].st, {})
  BY DEF AssessRisk
<1> QED
  BY <1>0, <1>2, <1>3, SuperstepSteps DEF AssessRisk

\* Without the interrupt human_review leaves the draft awaiting review.
LEMMA ReviewDisabledSteps ==
  ASSUME TypeOK, PhasesFit, NEW q \in Requests, ReviewDisabled(q)
  PROVE  /\ run[q].next = "human_review" /\ audit' = audit /\ ~interruptEnabled
         /\ \E st \in State :
              /\ Steps(q, RouteReview(st), st, {})
              /\ Carries(st, run[q].st) /\ st.awaiting = TRUE
              /\ st.draft = run[q].st.draft /\ st.degraded = run[q].st.degraded
              /\ st.report = run[q].st.report
<1>0. "human_review" \in Node /\ {} \in SUBSET {"degraded", "failed"}
  BY DEF Node
<1>1. At(q, "human_review")
  BY DEF ReviewDisabled
<1>2. run[q].phase = "running" /\ run[q].next = "human_review" /\ run[q].st \in State
  BY <1>0, <1>1, AtANode
<1> DEFINE st == [run[q].st EXCEPT !.awaiting = TRUE]
<1>3. Superstep(q, RouteReview(st), st, {})
  BY DEF ReviewDisabled
<1>4. /\ Carries(st, run[q].st) /\ st.awaiting = TRUE /\ st.draft = run[q].st.draft
      /\ st.degraded = run[q].st.degraded /\ st.report = run[q].st.report
  BY <1>2 DEF State, Carries
<1> HIDE DEF st
<1>5. RouteReview(st) \in Node /\ st \in State
  BY <1>4 DEF RouteReview, Node, Carries
<1>6. Steps(q, RouteReview(st), st, {})
  BY <1>0, <1>2, <1>3, <1>5, SuperstepSteps
<1> QED
  BY <1>2, <1>4, <1>5, <1>6 DEF ReviewDisabled

\* With it human_review takes the attorney's verdict.
LEMMA AppliesVerdictSteps ==
  ASSUME TypeOK, PhasesFit, NEW q \in Requests, AppliesVerdict(q)
  PROVE  /\ run[q].next = "human_review" /\ audit' = audit
         /\ interruptEnabled /\ run[q].pending # "none"
         /\ \E st \in State :
              Steps(q, RouteReview(st), st, {}) /\ Judged(st, run[q].st, q, run[q].pending)
<1>0. "human_review" \in Node /\ {} \in SUBSET {"degraded", "failed"}
  BY DEF Node
<1>1. At(q, "human_review")
  BY DEF AppliesVerdict
<1>2. /\ run[q].phase = "running" /\ run[q].next = "human_review" /\ run[q].st \in State
      /\ run[q].st.iterations \in Nat /\ run[q].st.draft \in Draft
      /\ q \in Request0 /\ 0 \in Request0 /\ q \in Nat /\ q > 0
  BY <1>0, <1>1, AtANode
<1>3. Judged(Reviewed(q), run[q].st, q, run[q].pending)
  <2> DEFINE base == [run[q].st EXCEPT !.awaiting = FALSE]
             verdict == run[q].pending
             n == [id |-> -q, from |-> q, error |-> FALSE]
  <2>1. /\ Carries(base, run[q].st) /\ base.awaiting = FALSE /\ base.draft = run[q].st.draft
        /\ base.degraded = run[q].st.degraded /\ base.report = run[q].st.report
        /\ base.iterations = run[q].st.iterations
    BY <1>2 DEF State, Carries
  <2>2. Reviewed(q) =
          CASE verdict = "approve" -> [base EXCEPT !.notes = 0]
            [] verdict = "revise" -> [base EXCEPT !.draft = n, !.notes = q]
            [] verdict = "notes" /\ base.iterations < MaxIterations ->
                 [base EXCEPT !.notes = q, !.iterations = @ + 1, !.draft = NoDraft]
            [] OTHER -> [base EXCEPT !.unincorporated = IF verdict = "notes" THEN q ELSE 0]
    BY DEF Reviewed
  <2>3. n \in Draft /\ n.id < 0 /\ n.error = FALSE /\ n # NoDraft
    BY <1>2 DEF Draft, NoDraft
  <2> HIDE DEF base, verdict, n
  <2>4. CASE verdict = "approve"
    <3>1. Reviewed(q) = [base EXCEPT !.notes = 0]
      BY <2>2, <2>4
    <3> QED
      BY <1>2, <2>1, <2>4, <3>1 DEF Judged, Carries, State, verdict
  <2>5. CASE verdict = "revise"
    <3>1. Reviewed(q) = [base EXCEPT !.draft = n, !.notes = q]
      BY <2>2, <2>5
    <3> QED
      BY <1>2, <2>1, <2>3, <2>5, <3>1 DEF Judged, Carries, State, verdict
  <2>6. CASE verdict = "notes" /\ base.iterations < MaxIterations
    <3>1. Reviewed(q) = [base EXCEPT !.notes = q, !.iterations = @ + 1, !.draft = NoDraft]
      BY <2>2, <2>6
    <3> DEFINE d == NoDraft
               more == base.iterations + 1
               st == [base EXCEPT !.notes = q, !.iterations = more, !.draft = d]
    <3>2. d \in Draft /\ more \in Nat /\ base \in State
      BY <1>2, <2>1, Blanks DEF Carries
    <3>3. Reviewed(q) = st
      BY <3>1, <3>2 DEF State
    <3>4. d = NoDraft /\ more = run[q].st.iterations + 1
      BY <2>1
    <3> HIDE DEF d, more
    <3>5. /\ st \in State /\ st.turn = base.turn /\ st.task = base.task
          /\ st.interactive = base.interactive /\ st.awaiting = base.awaiting
          /\ st.degraded = base.degraded /\ st.report = base.report
          /\ st.notes = q /\ st.iterations = more /\ st.draft = d
      BY <1>2, <3>2 DEF State
    <3> HIDE DEF st
    <3> QED
      BY <2>1, <2>6, <3>3, <3>4, <3>5 DEF Judged, Carries, verdict
  <2>7. CASE verdict \notin {"approve", "revise"} /\ ~(verdict = "notes" /\ base.iterations < MaxIterations)
    <3> DEFINE back == IF verdict = "notes" THEN q ELSE 0
    <3>1. Reviewed(q) = [base EXCEPT !.unincorporated = back]
      BY <2>2, <2>7
    <3>2. back \in Request0 /\ (verdict = "notes" => back = q)
      BY <1>2
    <3> HIDE DEF back
    <3> QED
      BY <1>2, <2>1, <2>7, <3>1, <3>2 DEF Judged, Carries, State, verdict
  <2> QED
    BY <2>4, <2>5, <2>6, <2>7
<1>4. Superstep(q, RouteReview(Reviewed(q)), Reviewed(q), {})
  BY DEF AppliesVerdict
<1> DEFINE st == Reviewed(q)
<1>5. RouteReview(st) \in Node /\ st \in State
  BY <1>3 DEF RouteReview, Node, Judged, Carries
<1> HIDE DEF st
<1>6. Superstep(q, RouteReview(st), st, {}) /\ Judged(st, run[q].st, q, run[q].pending)
  BY <1>3, <1>4 DEF st
<1>7. Steps(q, RouteReview(st), st, {})
  BY <1>0, <1>2, <1>5, <1>6, SuperstepSteps
<1> QED
  BY <1>2, <1>5, <1>6, <1>7 DEF AppliesVerdict

\* output_formatter makes the report of the draft.
LEMMA FormatOutputSteps ==
  ASSUME TypeOK, PhasesFit, NEW q \in Requests, FormatOutput(q)
  PROVE  /\ run[q].next = "output_formatter" /\ audit' = audit
         /\ \E st \in State : Steps(q, "memory_writer", st, {}) /\ Reports(st, run[q].st)
<1>0. "output_formatter" \in Node /\ "memory_writer" \in Node /\ {} \in SUBSET {"degraded", "failed"}
  BY DEF Node
<1>1. At(q, "output_formatter")
  BY DEF FormatOutput
<1>2. /\ run[q].phase = "running" /\ run[q].next = "output_formatter" /\ run[q].st \in State
      /\ run[q].st.draft \in Draft /\ 0 \in Request0
  BY <1>0, <1>1, AtANode
<1> DEFINE old == run[q].st
           report == [turn |-> 0, draft |-> old.draft, degraded |-> old.degraded,
                      unincorporated |-> old.unincorporated]
           st == [old EXCEPT !.report = report]
<1>3. Superstep(q, "memory_writer", st, {})
  BY DEF FormatOutput
<1>4. /\ report \in Report /\ report.draft = old.draft /\ report.degraded = old.degraded
      /\ report.unincorporated = old.unincorporated
  BY <1>2 DEF Report, State
<1> HIDE DEF report
<1>5. Reports(st, run[q].st) /\ st \in State
  BY <1>2, <1>4 DEF State, Reports, Carries
<1> HIDE DEF st
<1> QED
  BY <1>0, <1>2, <1>3, <1>5, SuperstepSteps DEF FormatOutput

\* memory_writer adds the audit row or flags that it could not.
LEMMA WriteMemorySteps ==
  ASSUME TypeOK, PhasesFit, NEW q \in Requests, WriteMemory(q)
  PROVE  /\ run[q].next = "memory_writer"
         /\ \E st \in State, reasons \in SUBSET {"degraded", "failed"} :
              Steps(q, "end", st, reasons) /\ Records(st, run[q].st, q, reasons)
<1>0. "memory_writer" \in Node /\ "end" \in Node
  BY DEF Node
<1>1. At(q, "memory_writer")
  BY DEF WriteMemory
<1>2. /\ run[q].phase = "running" /\ run[q].next = "memory_writer" /\ run[q].st \in State
      /\ run[q].st.turn = q /\ run[q].st.report \in Report /\ q \in Request0
  BY <1>0, <1>1, AtANode
<1>3. PICK unreachable \in BOOLEAN :
        /\ audit' = IF unreachable THEN audit ELSE [audit EXCEPT ![run[q].st.turn] = @ + 1]
        /\ Superstep(q, "end",
             [run[q].st EXCEPT !.report.turn = run[q].st.turn,
                               !.report.degraded = @ \/ unreachable],
             Class(unreachable, "degraded"))
  BY DEF WriteMemory
<1> DEFINE old == run[q].st
           degraded == old.report.degraded \/ unreachable
           report == [old.report EXCEPT !.turn = q, !.degraded = degraded]
           st == [old EXCEPT !.report = report]
           reasons == Class(unreachable, "degraded")
<1>4. Superstep(q, "end", st, reasons)
  <2>1. st = [run[q].st EXCEPT !.report.turn = run[q].st.turn,
                               !.report.degraded = @ \/ unreachable]
    BY <1>2 DEF State, Report
  <2> QED
    BY <1>3, <2>1
<1>5. /\ degraded \in BOOLEAN /\ (~unreachable => degraded = old.report.degraded)
      /\ (unreachable => degraded)
  BY <1>2 DEF Report
<1>6. reasons = IF unreachable THEN {"degraded"} ELSE {}
  BY DEF Class
<1> HIDE DEF degraded, reasons
<1>7. /\ report \in Report /\ report.turn = q /\ report.degraded = degraded
      /\ report.draft = old.report.draft /\ report.unincorporated = old.report.unincorporated
  BY <1>2, <1>5 DEF Report
<1> HIDE DEF report
<1>8. /\ Carries(st, old) /\ st.draft = old.draft /\ st.awaiting = old.awaiting
      /\ st.degraded = old.degraded /\ st.report = report
  BY <1>2, <1>7 DEF State, Carries
<1> HIDE DEF st
<1>9. Records(st, run[q].st, q, reasons)
  BY <1>2, <1>3, <1>5, <1>6, <1>7, <1>8 DEF Records
<1>10. reasons \in SUBSET {"degraded", "failed"} /\ st \in State
  BY <1>6, <1>8 DEF Carries
<1> QED
  BY <1>0, <1>2, <1>4, <1>9, <1>10, SuperstepSteps

-----------------------------------------------------------------------------
(* A step of the system. *)

\* A node of q's run has come from old to next and st, giving reasons.
Computes(q, next, st, reasons) ==
  /\ Steps(q, next, st, reasons)
  /\ \/ run[q].next = "intake" /\ next = "generate" /\ st = run[q].st /\ reasons = {} /\ audit' = audit
     \/ run[q].next = "generate" /\ next = "risk_assessor" /\ Drafts(st, run[q].st, reasons) /\ audit' = audit
     \/ /\ run[q].next = "risk_assessor" /\ st = run[q].st /\ reasons = {} /\ audit' = audit
        /\ \/ next = "human_review"
           \/ next = "output_formatter" /\ st.task # "contract_generation"
     \/ /\ run[q].next = "human_review" /\ reasons = {} /\ audit' = audit
        /\ next = RouteReview(st)
        /\ ~interruptEnabled /\ Carries(st, run[q].st) /\ st.awaiting = TRUE
        /\ st.draft = run[q].st.draft /\ st.degraded = run[q].st.degraded
        /\ st.report = run[q].st.report
     \/ /\ run[q].next = "human_review" /\ reasons = {} /\ audit' = audit
        /\ next = RouteReview(st)
        /\ interruptEnabled /\ run[q].pending # "none"
        /\ Judged(st, run[q].st, q, run[q].pending)
     \/ run[q].next = "output_formatter" /\ next = "memory_writer" /\ Reports(st, run[q].st)
          /\ reasons = {} /\ audit' = audit
     \/ run[q].next = "memory_writer" /\ next = "end" /\ Records(st, run[q].st, q, reasons)

\* A node computes a graph state and a next node for its own request only.
LEMMA NodesCompute ==
  ASSUME TypeOK, PhasesFit, NEW q \in Requests,
         \/ Intake(q) \/ Generate(q) \/ AssessRisk(q) \/ ReviewDisabled(q)
         \/ AppliesVerdict(q) \/ FormatOutput(q) \/ WriteMemory(q)
  PROVE  \E next \in Node, st \in State, reasons \in SUBSET {"degraded", "failed"} :
           Computes(q, next, st, reasons)
<1>0. /\ {"intake", "generate", "risk_assessor", "human_review", "output_formatter",
          "memory_writer", "end"} \subseteq Node
      /\ {} \in SUBSET {"degraded", "failed"}
      /\ \A st \in State : RouteReview(st) \in Node
  BY DEF Node, RouteReview
<1>1. CASE Intake(q)
  <2>1. run[q].st \in State
    BY <1>1 DEF Intake, At, PhasesFit, PhaseFits, Working
  <2>2. Computes(q, "generate", run[q].st, {})
    BY <1>1, IntakeSteps DEF Computes
  <2> QED
    BY <1>0, <2>1, <2>2
<1>2. CASE Generate(q)
  <2>1. PICK st \in State, reasons \in SUBSET {"degraded", "failed"} :
          Steps(q, "risk_assessor", st, reasons) /\ Drafts(st, run[q].st, reasons)
    BY <1>2, GenerateSteps
  <2>2. Computes(q, "risk_assessor", st, reasons)
    BY <1>2, <2>1, GenerateSteps DEF Computes
  <2> QED
    BY <1>0, <2>1, <2>2
<1>3. CASE AssessRisk(q)
  <2>1. run[q].st \in State
    BY <1>3 DEF AssessRisk, At, PhasesFit, PhaseFits, Working
  <2>2. Computes(q, "human_review", run[q].st, {}) \/ Computes(q, "output_formatter", run[q].st, {})
    BY <1>3, AssessRiskSteps DEF Computes
  <2> QED
    BY <1>0, <2>1, <2>2
<1>4. CASE ReviewDisabled(q)
  <2>1. PICK st \in State :
          /\ Steps(q, RouteReview(st), st, {})
          /\ Carries(st, run[q].st) /\ st.awaiting = TRUE
          /\ st.draft = run[q].st.draft /\ st.degraded = run[q].st.degraded
          /\ st.report = run[q].st.report
    BY <1>4, ReviewDisabledSteps
  <2>2. Computes(q, RouteReview(st), st, {})
    BY <1>4, <2>1, ReviewDisabledSteps DEF Computes
  <2> QED
    BY <1>0, <2>1, <2>2
<1>5. CASE AppliesVerdict(q)
  <2>1. PICK st \in State :
          Steps(q, RouteReview(st), st, {}) /\ Judged(st, run[q].st, q, run[q].pending)
    BY <1>5, AppliesVerdictSteps
  <2>2. Computes(q, RouteReview(st), st, {})
    BY <1>5, <2>1, AppliesVerdictSteps DEF Computes
  <2> QED
    BY <1>0, <2>1, <2>2
<1>6. CASE FormatOutput(q)
  <2>1. PICK st \in State : Steps(q, "memory_writer", st, {}) /\ Reports(st, run[q].st)
    BY <1>6, FormatOutputSteps
  <2>2. Computes(q, "memory_writer", st, {})
    BY <1>6, <2>1, FormatOutputSteps DEF Computes
  <2> QED
    BY <1>0, <2>1, <2>2
<1>7. CASE WriteMemory(q)
  <2>1. PICK st \in State, reasons \in SUBSET {"degraded", "failed"} :
          Steps(q, "end", st, reasons) /\ Records(st, run[q].st, q, reasons)
    BY <1>7, WriteMemorySteps
  <2>2. Computes(q, "end", st, reasons)
    BY <1>7, <2>1, WriteMemorySteps DEF Computes
  <2> QED
    BY <1>0, <2>1, <2>2
<1> QED
  BY <1>1, <1>2, <1>3, <1>4, <1>5, <1>6, <1>7

\* Redis, and the checkpoint's end.
Elsewhere == UNCHANGED <<run, graph, active, audit>> /\ saved' \in {saved, NoCheckpoint}

\* A step of q's handler or client that is neither an answer nor a node's.
Handles(q) ==
  \/ Arrives(q) \/ GoesOnAlone(q) \/ Builds(q) \/ GetsReady(q) \/ StartsAfresh(q) \/ TakesUp(q)
  \/ StartsOver(q) \/ Stops(q)

\* An error for an answer.
Fails(q, answer) ==
  /\ Gives(q, answer) /\ IsError(answer)
  /\ run[q].submit => answer.outcome = "failed"

\* The answer of a run that is over.
Replies(q) ==
  /\ Gives(q, TheAnswer(q))
  /\ \/ run[q].phase = "interrupted"
     \/ run[q].phase = "running" /\ run[q].next = "end"
  /\ ~run[q].lost

\* Every step is one of these kinds.
LEMMA StepKinds ==
  ASSUME TypeOK, PhasesFit, [Next]_vars
  PROVE  \/ Elsewhere
         \/ \E q \in Requests : Handles(q) \/ Replies(q)
         \/ \E q \in Requests, answer \in Answer : Fails(q, answer)
         \/ \E q \in Requests, next \in Node, st \in State, reasons \in SUBSET {"degraded", "failed"} :
              Computes(q, next, st, reasons)
<1>1. CASE UNCHANGED vars \/ RedisFlips \/ CheckpointExpires
  BY <1>1 DEF vars, RedisFlips, CheckpointExpires, Elsewhere
<1>2. ASSUME NEW q \in Requests, Submit(q) \/ Resume(q) \/ GiveUp(q)
      PROVE  Handles(q)
  BY <1>2, SubmitArrives, ResumeArrives, GiveUpGoesOn DEF Handles
<1>3. ASSUME NEW q \in Requests,
             \/ FindsGraph(q) \/ BuildsCheckpointer(q) \/ PublishesGraph(q) \/ SubmitStarts(q)
             \/ ResumeStarts(q) \/ FallsBack(q) \/ Interrupts(q)
      PROVE  Handles(q)
  BY <1>3, GraphIsBuilt, GraphIsReady, SubmitBegins, ResumeTakesUp, SubmitStartsOver, InterruptStops
  DEF Handles
<1>4. ASSUME NEW q \in Requests, ResumeFindsNothing(q) \/ InvokeFails(q)
      PROVE  \E answer \in Answer : Fails(q, answer)
  BY <1>4, FailureGives DEF Fails
<1>5. ASSUME NEW q \in Requests, Answers(q)
      PROVE  Replies(q)
  BY <1>5, AnswersGive DEF Replies, Answers
<1> QED
  BY <1>1, <1>2, <1>3, <1>4, <1>5, NodesCompute DEF Next, HandlerStep

-----------------------------------------------------------------------------
(* The parts of the invariant, one by one. *)

\* Nothing that is not at work holds anything of a run.
LEMMA PhasesStep ==
  ASSUME TypeOK, PhasesFit, [Next]_vars
  PROVE  PhasesFit'
<1>1. CASE Elsewhere
  BY <1>1 DEF Elsewhere, PhasesFit, PhaseFits
<1>2. ASSUME NEW q \in Requests, Touches(q), graph' # "unbuilt" \/ graph' = graph,
             PhaseFits(q, run'[q]),
             run'[q].phase \in Working \cup {"ready"} => graph' # "unbuilt"
      PROVE  PhasesFit'
  BY <1>2 DEF PhasesFit, Touches
<1>3. ASSUME NEW q \in Requests
      PROVE  /\ PhaseFits(q, run[q])
             /\ run[q].phase \in Working \cup {"ready"} => graph # "unbuilt"
  BY <1>3 DEF PhasesFit
<1>4. ASSUME NEW q \in Requests, Handles(q)
      PROVE  PhasesFit'
  <2>0. PhaseFits(q, run[q]) /\ (run[q].phase \in Working \cup {"ready"} => graph # "unbuilt")
    BY <1>3
  <2>1. CASE Arrives(q)
    <3>1. PhaseFits(q, run'[q])
      BY <2>1 DEF Arrives, Working, Begun, PhaseFits
    <3>2. Touches(q) /\ graph' = graph /\ run'[q].phase \notin Working \cup {"ready"}
      BY <2>1 DEF Arrives, Working
    <3> QED
      BY <1>2, <3>1, <3>2
  <2>2. CASE GoesOnAlone(q)
    <3>1. PhaseFits(q, run'[q])
      BY <2>0, <2>2 DEF GoesOnAlone, PhaseFits
    <3>2. Touches(q) /\ graph' = graph /\ run'[q].phase = run[q].phase
      BY <2>2 DEF GoesOnAlone
    <3> QED
      BY <1>2, <2>0, <3>1, <3>2
  <2>3. CASE Builds(q)
    <3>1. PhaseFits(q, run'[q])
      BY <2>0, <2>3 DEF Builds, KeepsRun, KeepsCall, PhaseFits, Working, Begun
    <3>2. Touches(q) /\ graph' = graph /\ run'[q].phase \notin Working \cup {"ready"}
      BY <2>3 DEF Builds, Working
    <3> QED
      BY <1>2, <3>1, <3>2
  <2>4. CASE GetsReady(q)
    <3>1. PhaseFits(q, run'[q])
      BY <2>0, <2>4 DEF GetsReady, KeepsRun, KeepsCall, PhaseFits, Working, Begun
    <3>2. Touches(q) /\ graph' # "unbuilt"
      BY <2>4 DEF GetsReady
    <3> QED
      BY <1>2, <3>1, <3>2
  <2>5. CASE StartsAfresh(q)
    <3>1. PICK task \in Tasks, interactive \in BOOLEAN :
            run[q].st = InitialState(q, task, interactive, FALSE)
      BY <2>0, <2>5 DEF StartsAfresh, PhaseFits, Begun
    <3>2. run[q].st \in State /\ run[q].st.turn = q
      <4>1. InitialState(q, task, interactive, FALSE) \in State
        BY InitialIsAState
      <4>2. InitialState(q, task, interactive, FALSE).turn = q
        BY DEF InitialState
      <4> QED
        BY <3>1, <4>1, <4>2
    <3>3. PhaseFits(q, run'[q])
      BY <2>0, <2>5, <3>2 DEF StartsAfresh, KeepsRun, KeepsCall, PhaseFits, Working, Begun
    <3>4. Touches(q) /\ graph' = graph /\ graph # "unbuilt"
      BY <2>0, <2>5 DEF StartsAfresh
    <3> QED
      BY <1>2, <3>3, <3>4
  <2>6. CASE TakesUp(q)
    <3>1. [saved.st EXCEPT !.turn = q] \in State /\ [saved.st EXCEPT !.turn = q].turn = q
      BY <2>6 DEF TakesUp, TypeOK, Checkpoint, State
    <3>2. run'[q].st \in State /\ run'[q].st.turn = q
      BY <2>6, <3>1 DEF TakesUp
    <3>3. PhaseFits(q, run'[q])
      BY <2>0, <2>6, <3>2 DEF TakesUp, KeepsCall, PhaseFits, Working, Begun
    <3>4. Touches(q) /\ graph' = graph /\ graph # "unbuilt"
      BY <2>0, <2>6 DEF TakesUp
    <3> QED
      BY <1>2, <3>3, <3>4
  <2>7. CASE StartsOver(q)
    <3>0. PICK task \in Tasks, interactive \in BOOLEAN :
            run'[q].st = InitialState(q, task, interactive, TRUE)
      BY <2>7 DEF StartsOver
    <3>1. run'[q].st \in State /\ run'[q].st.turn = q
      <4>1. InitialState(q, task, interactive, TRUE) \in State
        BY InitialIsAState
      <4>2. InitialState(q, task, interactive, TRUE).turn = q
        BY DEF InitialState
      <4> QED
        BY <3>0, <4>1, <4>2
    <3>2. PhaseFits(q, run'[q])
      BY <2>0, <2>7, <3>1 DEF StartsOver, KeepsCall, PhaseFits, Working, Begun
    <3>3. Touches(q) /\ graph' = graph /\ graph # "unbuilt"
      BY <2>0, <2>7 DEF StartsOver
    <3> QED
      BY <1>2, <3>2, <3>3
  <2>8. CASE Stops(q)
    <3>1. PhaseFits(q, run'[q])
      BY <2>0, <2>8 DEF Stops, KeepsCall, Loses, PhaseFits, Working, Begun
    <3>2. Touches(q) /\ graph' = graph /\ graph # "unbuilt"
      BY <2>0, <2>8 DEF Stops, Working
    <3> QED
      BY <1>2, <3>1, <3>2
  <2> QED
    BY <1>4, <2>1, <2>2, <2>3, <2>4, <2>5, <2>6, <2>7, <2>8 DEF Handles
<1>5. ASSUME NEW q \in Requests, NEW answer, Gives(q, answer)
      PROVE  PhasesFit'
  <2>1. PhaseFits(q, run'[q])
    BY <1>5 DEF Gives, KeepsCall, PhaseFits, Working, Begun
  <2>2. Touches(q) /\ graph' = graph /\ run'[q].phase \notin Working \cup {"ready"}
    BY <1>5 DEF Gives, Working
  <2> QED
    BY <1>2, <2>1, <2>2
<1>6. ASSUME NEW q \in Requests, NEW next \in Node, NEW st \in State,
             NEW reasons \in SUBSET {"degraded", "failed"}, Computes(q, next, st, reasons)
      PROVE  PhasesFit'
  <2>0. /\ PhaseFits(q, run[q]) /\ (run[q].phase \in Working \cup {"ready"} => graph # "unbuilt")
        /\ Steps(q, next, st, reasons)
    BY <1>3, <1>6 DEF Computes
  <2>1. st.turn = q
    <3>1. st.turn = run[q].st.turn
      BY <1>6 DEF Computes, Carries, Drafts, Judged, Reports, Records
    <3> QED
      BY <2>0, <3>1 DEF Steps, PhaseFits, Working
  <2>2. PhaseFits(q, run'[q])
    BY <2>0, <2>1 DEF Steps, KeepsCall, Loses, PhaseFits, Working, Begun
  <2>3. Touches(q) /\ graph' = graph /\ graph # "unbuilt"
    BY <2>0 DEF Steps, Working
  <2> QED
    BY <1>2, <2>2, <2>3
<1> QED
  BY <1>1, <1>4, <1>5, <1>6, StepKinds DEF Fails, Replies

\* Whatever raises the banner has recorded its reason.
LEMMA ReasonsStep ==
  ASSUME TypeOK, PhasesFit, ReasonsFit, [Next]_vars
  PROVE  ReasonsFit'
<1>1. CASE Elsewhere
  BY <1>1 DEF Elsewhere, ReasonsFit, ReasonFits
<1>2. ASSUME NEW q \in Requests, Touches(q), active' = active, ReasonFits(run'[q], active)
      PROVE  ReasonsFit'
  BY <1>2 DEF ReasonsFit, Touches
<1>3. ASSUME NEW q \in Requests, Handles(q)
      PROVE  ReasonsFit'
  <2>0. NoAnswer.flagged = FALSE
    BY DEF NoAnswer
  <2>1. CASE Arrives(q)
    BY <1>2, <2>0, <2>1 DEF Arrives, Working, ReasonFits
  <2>2. CASE GoesOnAlone(q)
    BY <1>2, <2>2 DEF GoesOnAlone, ReasonsFit, ReasonFits
  <2>3. CASE Builds(q)
    <3>1. \A p \in Requests : run'[p].phase \notin Working \cup {"ready"}
      BY <2>3 DEF Builds, Touches, PhasesFit, Working
    <3>2. \A p \in Requests :
            run'[p].submit = run[p].submit /\ run'[p].answer = run[p].answer
      BY <2>3 DEF Builds, KeepsRun, KeepsCall, Touches
    <3> QED
      BY <3>1, <3>2 DEF ReasonsFit, ReasonFits
  <2>4. CASE GetsReady(q)
    BY <1>2, <2>4 DEF GetsReady, KeepsRun, KeepsCall, ReasonsFit, ReasonFits, Working, StartupReasons
  <2>5. CASE StartsAfresh(q)
    <3>1. PICK task \in Tasks, interactive \in BOOLEAN :
            run[q].st = InitialState(q, task, interactive, FALSE)
      BY <2>5 DEF StartsAfresh, PhasesFit, PhaseFits, Begun
    <3>2. run[q].st.degraded = FALSE /\ run[q].st.report.degraded = FALSE
      BY <3>1 DEF InitialState, NoReport
    <3>3. ReasonFits(run[q], active) /\ ~run[q].fellback
      BY <2>5 DEF StartsAfresh, ReasonsFit, PhasesFit, PhaseFits, Working
    <3>4. ReasonFits(run'[q], active)
      BY <2>5, <3>2, <3>3 DEF StartsAfresh, KeepsRun, KeepsCall, ReasonFits
    <3>5. Touches(q) /\ active' = active
      BY <2>5 DEF StartsAfresh
    <3> QED
      BY <1>2, <3>4, <3>5
  <2>6. CASE TakesUp(q)
    BY <1>2, <2>6 DEF TakesUp, KeepsCall, ReasonFits
  <2>7. CASE StartsOver(q)
    BY <1>2, <2>7 DEF StartsOver, KeepsCall, ReasonsFit, ReasonFits
  <2>8. CASE Stops(q)
    BY <1>2, <2>8 DEF Stops, KeepsCall, ReasonsFit, ReasonFits, Working
  <2> QED
    BY <1>3, <2>1, <2>2, <2>3, <2>4, <2>5, <2>6, <2>7, <2>8 DEF Handles
<1>4. ASSUME NEW q \in Requests, NEW answer \in Answer, Fails(q, answer)
      PROVE  ReasonsFit'
  BY <1>2, <1>4 DEF Fails, IsError, Gives, KeepsCall, Working, ReasonFits
<1>5. ASSUME NEW q \in Requests, Replies(q)
      PROVE  ReasonsFit'
  <2>1. run[q].phase \in Working
    BY <1>5 DEF Replies, Working
  <2>2. run[q].submit /\ Flagged(q) => "degraded" \in run[q].reasons
    BY <2>1 DEF Flagged, ReasonsFit, ReasonFits
  <2>3. "degraded" \in run[q].reasons => Outcome(q) # "ok"
    BY RunShape, OutcomeValues DEF Run
  <2>4. TheAnswer(q).flagged = Flagged(q) /\ TheAnswer(q).outcome = Outcome(q)
    BY DEF TheAnswer
  <2> QED
    BY <1>2, <1>5, <2>2, <2>3, <2>4 DEF Replies, Gives, KeepsCall, Working, ReasonFits
<1>6. ASSUME NEW q \in Requests, NEW next \in Node, NEW st \in State,
             NEW reasons \in SUBSET {"degraded", "failed"}, Computes(q, next, st, reasons)
      PROVE  ReasonsFit'
  <2>1. /\ st.degraded => run[q].st.degraded \/ "degraded" \in reasons
        /\ st.report.degraded => run[q].st.report.degraded \/ run[q].st.degraded \/ "degraded" \in reasons
    BY <1>6 DEF Computes, Drafts, Judged, Reports, Records
  <2> QED
    BY <1>2, <1>6, <2>1 DEF Computes, Steps, KeepsCall, ReasonsFit, ReasonFits, Working
<1> QED
  BY <1>1, <1>3, <1>4, <1>5, <1>6, StepKinds

\* Drafts of a submit get past human_review only as awaiting review.
LEMMA WaitStep ==
  ASSUME TypeOK, PhasesFit, DraftsWait, [Next]_vars
  PROVE  DraftsWait'
<1>1. CASE Elsewhere
  BY <1>1 DEF Elsewhere, DraftsWait, DraftWaits
<1>2. ASSUME NEW q \in Requests, Touches(q), DraftWaits(run'[q])
      PROVE  DraftsWait'
  BY <1>2 DEF DraftsWait, Touches
<1>3. ASSUME NEW q \in Requests, Handles(q)
      PROVE  DraftsWait'
  <2>1. run'[q].next \in Reporting => TakesUp(q) \/ (run[q].next \in Reporting /\ run'[q].st = run[q].st
                                                       /\ run'[q].phase = run[q].phase)
    BY <1>3 DEF Handles, Arrives, GoesOnAlone, Builds, GetsReady, StartsAfresh, StartsOver, Stops,
                KeepsRun, Reporting, PhasesFit, PhaseFits, Working
  <2>2. /\ run'[q].submit /\ ~Arrives(q) => run[q].submit /\ ~TakesUp(q)
        /\ run'[q].answer = run[q].answer \/ run'[q].answer = NoAnswer
    BY <1>3 DEF Handles, Arrives, GoesOnAlone, Builds, GetsReady, StartsAfresh, TakesUp, StartsOver, Stops,
                KeepsRun, KeepsCall
  <2>3. Touches(q) /\ (Arrives(q) => run'[q].next = "intake" /\ run'[q].answer = NoAnswer)
    BY <1>3 DEF Handles, Arrives, GoesOnAlone, Builds, GetsReady, StartsAfresh, TakesUp, StartsOver, Stops
  <2>4. NoAnswer.status = "none"
    BY DEF NoAnswer
  <2> QED
    BY <1>2, <2>1, <2>2, <2>3, <2>4 DEF DraftsWait, DraftWaits, Reporting
<1>4. ASSUME NEW q \in Requests, NEW answer \in Answer, Fails(q, answer)
      PROVE  DraftsWait'
  BY <1>2, <1>4 DEF Fails, IsError, Gives, Working, DraftWaits
<1>5. ASSUME NEW q \in Requests, Replies(q)
      PROVE  DraftsWait'
  <2>1. run[q].submit /\ run[q].st.task = "contract_generation" => TheAnswer(q).awaiting
    BY <1>5 DEF Replies, DraftsWait, DraftWaits, TheAnswer, Working, Reporting
  <2>2. TheAnswer(q).task = run[q].st.task
    BY DEF TheAnswer
  <2> QED
    BY <1>2, <1>5, <2>1, <2>2 DEF Replies, Gives, KeepsCall, Working, DraftWaits
<1>6. ASSUME NEW q \in Requests, NEW next \in Node, NEW st \in State,
             NEW reasons \in SUBSET {"degraded", "failed"}, Computes(q, next, st, reasons)
      PROVE  DraftsWait'
  <2>1. run[q].submit => run[q].pending = "none"
    BY DEF PhasesFit, PhaseFits
  <2>2. run[q].submit /\ next \in Reporting /\ st.task = "contract_generation" => st.awaiting
    BY <1>6, <2>1 DEF Computes, Steps, Drafts, Carries, Reports, Records, Reporting, DraftsWait, DraftWaits, Working
  <2> QED
    BY <1>2, <1>6, <2>2 DEF Computes, Steps, KeepsCall, DraftsWait, DraftWaits
<1> QED
  BY <1>1, <1>3, <1>4, <1>5, <1>6, StepKinds

\* The rows of q's own turn are the only ones that change, and rows only come.
RowsCome(q) ==
  /\ audit' \in [Requests -> 0..2]
  /\ \A p \in Requests : audit'[p] >= audit[p] /\ (p # q => audit'[p] = audit[p])

\* Audit rows are only added, by memory_writer, one at a time.
LEMMA RowsAreAdded ==
  ASSUME TypeOK, AuditsFit, NEW q \in Requests, NEW next \in Node, NEW st \in State,
         NEW reasons \in SUBSET {"degraded", "failed"}, Computes(q, next, st, reasons)
  PROVE  /\ RowsCome(q)
         /\ audit'[q] = audit[q] \/ (run[q].next = "memory_writer" /\ audit'[q] = audit[q] + 1)
<1>1. audit \in [Requests -> 0..2]
  BY DEF TypeOK
<1>2. CASE audit' = audit
  BY <1>1, <1>2 DEF RowsCome
<1>3. CASE /\ run[q].next = "memory_writer" /\ audit' = [audit EXCEPT ![q] = @ + 1]
  <2>1. run[q].phase = "running"
    BY DEF Computes, Steps
  <2>2. audit[q] <= 1
    BY <1>3, <2>1 DEF AuditsFit, RowsFit, Working
  <2> QED
    BY <1>1, <1>3, <2>2 DEF RowsCome
<1> QED
  BY <1>2, <1>3 DEF Computes, Records

\* A row stands behind every report.
LEMMA BackedStays ==
  ASSUME TypeOK, NEW q \in Requests, RowsCome(q), NEW report \in Report, Backed(report, audit)
  PROVE  Backed(report, audit')
<1>1. report.turn \in Requests \cup {0}
  BY DEF Report, Request0
<1>2. audit \in [Requests -> 0..2] /\ audit' \in [Requests -> 0..2]
  BY DEF TypeOK, RowsCome
<1> QED
  BY <1>1, <1>2 DEF Backed, RowsCome

\* Steps keep each run's account of its audit row.
LEMMA AuditsStep ==
  ASSUME TypeOK, PhasesFit, AuditsFit, [Next]_vars
  PROVE  AuditsFit'
<1>1. CASE Elsewhere
  <2>1. run' = run /\ audit' = audit /\ saved' \in {saved, NoCheckpoint}
    BY <1>1 DEF Elsewhere
  <2> QED
    BY <2>1 DEF AuditsFit, EndIsBacked
<1>2. ASSUME NEW q \in Requests, Touches(q), audit' = audit, saved' = saved,
             RowsFit(run'[q], audit[q]),
             run'[q].phase \in Working => EndIsBacked(run'[q].next, run'[q].st, audit)
      PROVE  AuditsFit'
  BY <1>2 DEF AuditsFit, Touches
<1>3. ASSUME NEW q \in Requests
      PROVE  /\ RowsFit(run[q], audit[q]) /\ audit[q] \in 0..2 /\ PhaseFits(q, run[q])
             /\ run[q].phase \in Working => EndIsBacked(run[q].next, run[q].st, audit)
  BY <1>3 DEF AuditsFit, TypeOK, PhasesFit
<1>4. ASSUME NEW q \in Requests, Handles(q)
      PROVE  AuditsFit'
  <2>0. /\ RowsFit(run[q], audit[q]) /\ audit[q] \in 0..2 /\ PhaseFits(q, run[q])
        /\ run[q].phase \in Working => EndIsBacked(run[q].next, run[q].st, audit)
    BY <1>3
  <2>1. CASE Arrives(q) \/ Builds(q) \/ GetsReady(q)
    <3>1. RowsFit(run'[q], audit[q]) /\ run'[q].phase \notin Working
      BY <2>0, <2>1 DEF Arrives, Builds, GetsReady, RowsFit, Begun, Working
    <3>2. Touches(q) /\ audit' = audit /\ saved' = saved
      BY <2>1 DEF Arrives, Builds, GetsReady
    <3> QED
      BY <1>2, <3>1, <3>2
  <2>2. CASE GoesOnAlone(q)
    <3>1. /\ RowsFit(run'[q], audit[q])
          /\ run'[q].phase \in Working => EndIsBacked(run'[q].next, run'[q].st, audit)
      BY <2>0, <2>2 DEF GoesOnAlone, RowsFit
    <3>2. Touches(q) /\ audit' = audit /\ saved' = saved
      BY <2>2 DEF GoesOnAlone
    <3> QED
      BY <1>2, <3>1, <3>2
  <2>3. CASE StartsAfresh(q)
    <3>1. run[q].next = "intake" /\ audit[q] = 0
      BY <2>0, <2>3 DEF StartsAfresh, PhaseFits, RowsFit, Begun, Working
    <3>2. RowsFit(run'[q], audit[q])
      BY <2>3, <3>1 DEF StartsAfresh, KeepsRun, RowsFit, Begun, Working
    <3>3. EndIsBacked(run'[q].next, run'[q].st, audit)
      BY <2>3, <3>1 DEF StartsAfresh, KeepsRun, EndIsBacked
    <3>4. Touches(q) /\ audit' = audit
      BY <2>3 DEF StartsAfresh
    <3>5. saved' # NoCheckpoint => EndIsBacked(saved'.next, saved'.st, audit)
      BY <2>3 DEF StartsAfresh, EndIsBacked, AuditsFit
    <3> QED
      BY <3>2, <3>3, <3>4, <3>5 DEF AuditsFit, Touches
  <2>4. CASE TakesUp(q)
    <3>1. audit[q] = 0
      BY <2>0, <2>4 DEF TakesUp, RowsFit, Begun
    <3>2. RowsFit(run'[q], audit[q])
      BY <2>4, <3>1 DEF TakesUp, RowsFit, Begun, Working
    <3>3. EndIsBacked(run'[q].next, run'[q].st, audit)
      <4>1. saved \in Checkpoint /\ saved.st \in State /\ EndIsBacked(saved.next, saved.st, audit)
        BY <2>4 DEF TakesUp, TypeOK, Checkpoint, AuditsFit
      <4>2. run'[q].next = saved.next /\ run'[q].st.report = saved.st.report
        BY <2>4, <4>1 DEF TakesUp, State
      <4> QED
        BY <4>1, <4>2 DEF EndIsBacked
    <3>4. Touches(q) /\ audit' = audit /\ saved' = saved
      BY <2>4 DEF TakesUp
    <3> QED
      BY <1>2, <3>2, <3>3, <3>4
  <2>5. CASE StartsOver(q)
    <3>1. audit[q] <= 1
      BY <2>0, <2>5 DEF StartsOver, TakenForRedis, RedisError, SearchRefused, PhaseFits, RowsFit,
                        Begun, Working
    <3>2. RowsFit(run'[q], audit[q])
      BY <2>0, <2>5, <3>1 DEF StartsOver, RowsFit, Begun, Working
    <3>3. EndIsBacked(run'[q].next, run'[q].st, audit)
      BY <2>5 DEF StartsOver, EndIsBacked
    <3>4. Touches(q) /\ audit' = audit /\ saved' = saved
      BY <2>5 DEF StartsOver
    <3> QED
      BY <1>2, <3>2, <3>3, <3>4
  <2>6. CASE Stops(q)
    <3>1. RowsFit(run'[q], audit[q])
      BY <2>0, <2>6 DEF Stops, RowsFit, Begun, Working
    <3>2. EndIsBacked(run'[q].next, run'[q].st, audit)
      BY <2>6 DEF Stops, EndIsBacked
    <3>3. Touches(q) /\ audit' = audit /\ saved' = saved
      BY <2>6 DEF Stops
    <3> QED
      BY <1>2, <3>1, <3>2, <3>3
  <2> QED
    BY <1>4, <2>1, <2>2, <2>3, <2>4, <2>5, <2>6 DEF Handles
<1>5. ASSUME NEW q \in Requests, NEW answer, Gives(q, answer)
      PROVE  AuditsFit'
  <2>1. RowsFit(run'[q], audit[q]) /\ run'[q].phase \notin Working
    BY <1>5 DEF Gives, RowsFit, Begun, Working
  <2>2. Touches(q) /\ audit' = audit /\ saved' = saved
    BY <1>5 DEF Gives
  <2> QED
    BY <1>2, <2>1, <2>2
<1>6. ASSUME NEW q \in Requests, NEW next \in Node, NEW st \in State,
             NEW reasons \in SUBSET {"degraded", "failed"}, Computes(q, next, st, reasons)
      PROVE  AuditsFit'
  <2>0. /\ RowsFit(run[q], audit[q]) /\ audit[q] \in 0..2
        /\ Steps(q, next, st, reasons) /\ RowsCome(q)
        /\ audit'[q] = audit[q] \/ (run[q].next = "memory_writer" /\ audit'[q] = audit[q] + 1)
    BY <1>3, <1>6, RowsAreAdded DEF Computes
  <2>1. (next = "end") = (run[q].next = "memory_writer")
    BY <1>6 DEF Computes, RouteReview
  <2>2. run[q].next # "end"
    BY <1>6 DEF Computes
  <2>3. RowsFit(run'[q], audit'[q])
    BY <2>0, <2>1, <2>2 DEF Steps, RowsFit, Begun, Working
  <2>4. EndIsBacked(next, st, audit')
    <3>1. CASE next = "end"
      <4>1. Records(st, run[q].st, q, reasons)
        BY <1>6, <2>1, <3>1 DEF Computes
      <4>2. st.report.degraded \/ (st.report.turn = q /\ audit'[q] = audit[q] + 1)
        BY <4>1 DEF Records, TypeOK
      <4>3. q # 0 /\ audit[q] + 1 > 0
        BY <2>0, TurnGraphAssumption DEF Requests
      <4> QED
        BY <4>2, <4>3 DEF EndIsBacked, Backed
    <3> QED
      BY <3>1 DEF EndIsBacked
  <2>5. ASSUME NEW r \in State, NEW node, EndIsBacked(node, r, audit)
        PROVE  EndIsBacked(node, r, audit')
    <3>1. r.report \in Report
      BY DEF State
    <3> QED
      BY <2>0, <2>5, <3>1, BackedStays DEF EndIsBacked
  <2>6. saved' # NoCheckpoint => EndIsBacked(saved'.next, saved'.st, audit')
    <3>1. CASE saved' = [next |-> next, st |-> st]
      BY <2>4, <3>1
    <3>2. CASE saved' = saved /\ saved # NoCheckpoint
      <4>1. saved.st \in State /\ EndIsBacked(saved.next, saved.st, audit)
        BY <3>2 DEF TypeOK, Checkpoint, AuditsFit
      <4> QED
        BY <2>5, <3>2, <4>1
    <3> QED
      BY <2>0, <3>1, <3>2 DEF Steps
  <2>7. ASSUME NEW p \in Requests, p # q
        PROVE  /\ RowsFit(run'[p], audit'[p])
               /\ run'[p].phase \in Working => EndIsBacked(run'[p].next, run'[p].st, audit')
    <3>1. run'[p] = run[p] /\ audit'[p] = audit[p]
      BY <2>0, <2>7 DEF Steps, Touches, RowsCome
    <3>2. /\ RowsFit(run[p], audit[p])
          /\ run[p].phase \in Working =>
               run[p].st \in State /\ EndIsBacked(run[p].next, run[p].st, audit)
      BY <1>3 DEF PhaseFits
    <3> QED
      BY <2>5, <3>1, <3>2
  <2>8. run'[q].next = next /\ run'[q].st = st
    BY <2>0 DEF Steps
  <2> QED
    BY <2>3, <2>4, <2>6, <2>7, <2>8 DEF AuditsFit
<1> QED
  BY <1>1, <1>4, <1>5, <1>6, StepKinds DEF Fails, Replies

-----------------------------------------------------------------------------
(* The audit: a report that reached the client has its row, and one only of
   the request's own. *)

AuditFits(q, answer, rows) ==
  answer.status = "ok" /\ ~answer.awaiting =>
    \/ answer.flagged
    \/ answer.turn # 0 /\ rows[answer.turn] > 0 /\ (answer.turn = q => rows[answer.turn] = 1)

\* Steps keep every report audited or flagged.
LEMMA AuditStep ==
  ASSUME TypeOK, PhasesFit, AuditsFit, AuditedOrFlagged, [Next]_vars
  PROVE  AuditedOrFlagged'
<1>0. \A q \in Requests : AuditFits(q, run[q].answer, audit)
  BY DEF AuditedOrFlagged, AuditFits, Released
<1>1. ASSUME \A q \in Requests : AuditFits(q, run'[q].answer, audit')
      PROVE  AuditedOrFlagged'
  BY <1>1 DEF AuditedOrFlagged, AuditFits, Released
<1>2. CASE Elsewhere
  BY <1>0, <1>1, <1>2 DEF Elsewhere
<1>3. AuditFits(0, NoAnswer, audit) /\ \A q \in Requests : AuditFits(q, NoAnswer, audit)
  BY DEF NoAnswer, AuditFits
<1>4. ASSUME NEW q \in Requests, Touches(q), audit' = audit, AuditFits(q, run'[q].answer, audit)
      PROVE  AuditedOrFlagged'
  BY <1>0, <1>1, <1>4 DEF Touches
<1>5. ASSUME NEW q \in Requests, Handles(q)
      PROVE  AuditedOrFlagged'
  <2>1. run'[q].answer = run[q].answer \/ run'[q].answer = NoAnswer
    BY <1>5 DEF Handles, Arrives, GoesOnAlone, Builds, GetsReady, StartsAfresh, TakesUp, StartsOver,
                Stops, KeepsRun
  <2>2. Touches(q) /\ audit' = audit
    BY <1>5 DEF Handles, Arrives, GoesOnAlone, Builds, GetsReady, StartsAfresh, TakesUp, StartsOver,
                Stops
  <2> QED
    BY <1>0, <1>3, <1>4, <2>1, <2>2
<1>6. ASSUME NEW q \in Requests, NEW answer \in Answer, Fails(q, answer)
      PROVE  AuditedOrFlagged'
  <2>1. AuditFits(q, answer, audit)
    BY <1>6 DEF Fails, IsError, AuditFits
  <2> QED
    BY <1>4, <1>6, <2>1 DEF Fails, Gives
<1>7. ASSUME NEW q \in Requests, Replies(q)
      PROVE  AuditedOrFlagged'
  <2>1. run[q].phase \in Working
    BY <1>7 DEF Replies, Working
  <2>2. /\ EndIsBacked(run[q].next, run[q].st, audit) /\ RowsFit(run[q], audit[q])
        /\ run[q].st.report \in Report /\ audit \in [Requests -> 0..2]
    BY <2>1 DEF AuditsFit, PhasesFit, PhaseFits, State, TypeOK
  <2>3. /\ TheAnswer(q).flagged = Flagged(q)
        /\ ~TheAnswer(q).awaiting =>
             run[q].phase # "interrupted" /\ TheAnswer(q).turn = run[q].st.report.turn
    BY DEF TheAnswer
  <2>4. ~TheAnswer(q).awaiting => run[q].next = "end"
    BY <1>7, <2>3 DEF Replies
  <2>5. AuditFits(q, TheAnswer(q), audit)
    <3>1. CASE ~TheAnswer(q).awaiting /\ ~TheAnswer(q).flagged
      <4>1. ~run[q].st.report.degraded /\ ~run[q].fellback
        BY <2>3, <3>1 DEF Flagged
      <4>2. run[q].st.report.turn # 0 /\ audit[run[q].st.report.turn] > 0
        BY <2>2, <2>4, <3>1, <4>1 DEF EndIsBacked, Backed
      <4>3. audit[q] <= 1
        BY <2>1, <2>2, <4>1 DEF RowsFit
      <4>4. run[q].st.report.turn = q => audit[q] = 1
        BY <2>2, <4>2, <4>3
      <4> QED
        BY <2>3, <3>1, <4>2, <4>4 DEF AuditFits
    <3> QED
      BY <3>1 DEF AuditFits
  <2> QED
    BY <1>4, <1>7, <2>5 DEF Replies, Gives
<1>8. ASSUME NEW q \in Requests, NEW next \in Node, NEW st \in State,
             NEW reasons \in SUBSET {"degraded", "failed"}, Computes(q, next, st, reasons)
      PROVE  AuditedOrFlagged'
  <2>1. RowsCome(q) /\ Steps(q, next, st, reasons)
    BY <1>8, RowsAreAdded DEF Computes
  <2>2. run[q].answer = NoAnswer /\ run'[q].answer = NoAnswer
    BY <2>1 DEF Steps, PhasesFit, PhaseFits
  <2>3. ASSUME NEW p \in Requests
        PROVE  AuditFits(p, run'[p].answer, audit')
    <3>1. CASE p = q
      <4>1. NoAnswer.status = "none"
        BY DEF NoAnswer
      <4>2. run'[p].answer.status = "none"
        BY <2>2, <3>1, <4>1
      <4> QED
        BY <4>2 DEF AuditFits
    <3>2. CASE p # q
      <4>1. run'[p] = run[p] /\ audit'[p] = audit[p]
        BY <2>1, <3>2 DEF Steps, Touches, RowsCome
      <4>2. run[p].answer.turn \in Requests \cup {0}
        BY RunShape DEF Run, Answer, Request0
      <4>3. audit \in [Requests -> 0..2] /\ audit' \in [Requests -> 0..2]
            /\ \A s \in Requests : audit'[s] >= audit[s]
        BY <2>1 DEF TypeOK, RowsCome
      <4> QED
        BY <1>0, <4>1, <4>2, <4>3 DEF AuditFits
    <3> QED
      BY <3>1, <3>2
  <2> QED
    BY <1>1, <2>3
<1> QED
  BY <1>2, <1>5, <1>6, <1>7, <1>8, StepKinds

-----------------------------------------------------------------------------
(* The types, the initial state, and the invariant. *)

\* The settings, Redis and the cached graph keep their types.
LEMMA SurroundingsKeepTypes ==
  ASSUME TypeOK, [Next]_vars
  PROVE  /\ interruptEnabled' = interruptEnabled /\ redis' \in BOOLEAN /\ flips' \in 0..Flips
         /\ graph' \in {"unbuilt", "checkpointed", "stateless"} /\ active' \in BOOLEAN
<1> USE DEF TypeOK
<1>1. CASE UNCHANGED vars
  BY <1>1 DEF vars
<1>2. CASE RedisFlips
  <2>1. flips' = flips + 1 /\ flips < Flips /\ flips \in 0..Flips
    BY <1>2 DEF RedisFlips
  <2>2. flips' \in 0..Flips
    BY <2>1, TurnGraphAssumption
  <2> QED
    BY <1>2, <2>2 DEF RedisFlips
<1>3. CASE CheckpointExpires
  BY <1>3 DEF CheckpointExpires
<1>4. ASSUME NEW q \in Requests, Submit(q) \/ Resume(q) \/ GiveUp(q)
      PROVE  UNCHANGED <<interruptEnabled, redis, flips, graph, active>>
  BY <1>4 DEF Submit, Resume, GiveUp
<1>5. ASSUME NEW q \in Requests, BuildsCheckpointer(q)
      PROVE  UNCHANGED <<interruptEnabled, redis, flips, graph>> /\ active' = redis
  BY <1>5 DEF BuildsCheckpointer
<1>6. ASSUME NEW q \in Requests, PublishesGraph(q)
      PROVE  /\ UNCHANGED <<interruptEnabled, redis, flips, active>>
             /\ graph' \in {"checkpointed", "stateless"}
  BY <1>6 DEF PublishesGraph
<1>7. ASSUME NEW q \in Requests,
             \/ FindsGraph(q) \/ SubmitStarts(q) \/ ResumeStarts(q) \/ ResumeFindsNothing(q)
             \/ FallsBack(q) \/ InvokeFails(q) \/ Answers(q) \/ Interrupts(q)
      PROVE  UNCHANGED <<interruptEnabled, redis, flips, graph, active>>
  BY <1>7 DEF FindsGraph, SubmitStarts, ResumeStarts, ResumeFindsNothing, FallsBack, InvokeFails,
              Answers, Interrupts
<1>8. ASSUME NEW q \in Requests,
             \/ Intake(q) \/ Generate(q) \/ AssessRisk(q) \/ ReviewDisabled(q) \/ AppliesVerdict(q)
             \/ FormatOutput(q) \/ WriteMemory(q)
      PROVE  UNCHANGED <<interruptEnabled, redis, flips, graph, active>>
  BY <1>8 DEF Intake, Generate, AssessRisk, ReviewDisabled, AppliesVerdict, FormatOutput,
              WriteMemory, Superstep
<1> QED
  BY <1>1, <1>2, <1>3, <1>4, <1>5, <1>6, <1>7, <1>8 DEF Next, HandlerStep

\* Steps keep the types.
LEMMA TypeStep ==
  ASSUME TypeOK, PhasesFit, AuditsFit, [Next]_vars
  PROVE  TypeOK'
<1>1. /\ interruptEnabled' = interruptEnabled /\ redis' \in BOOLEAN /\ flips' \in 0..Flips
      /\ graph' \in {"unbuilt", "checkpointed", "stateless"} /\ active' \in BOOLEAN
  BY SurroundingsKeepTypes
<1>2. ASSUME saved' \in Checkpoint \cup {NoCheckpoint}, run' \in [Requests -> Run],
             audit' \in [Requests -> 0..2]
      PROVE  TypeOK'
  BY <1>1, <1>2 DEF TypeOK
<1>3. CASE Elsewhere
  BY <1>2, <1>3 DEF Elsewhere, TypeOK
<1>4. ASSUME NEW q \in Requests, Handles(q)
      PROVE  TypeOK'
  <2>1. Touches(q) /\ audit' = audit
    BY <1>4 DEF Handles, Arrives, GoesOnAlone, Builds, GetsReady, StartsAfresh, TakesUp, StartsOver,
                Stops
  <2>2. saved' = saved \/ StartsAfresh(q)
    BY <1>4 DEF Handles, Arrives, GoesOnAlone, Builds, GetsReady, TakesUp, StartsOver, Stops
  <2>3. CASE StartsAfresh(q)
    <3>1. PICK task \in Tasks, interactive \in BOOLEAN :
            run[q].st = InitialState(q, task, interactive, FALSE)
      BY <2>3 DEF StartsAfresh, PhasesFit, PhaseFits, Begun
    <3>2. InitialState(q, task, interactive, FALSE) \in State
      BY InitialIsAState
    <3>3. run[q].st \in State
      BY <3>1, <3>2
    <3>4. [next |-> "intake", st |-> run[q].st] \in Checkpoint
      BY <3>3 DEF Checkpoint, Node
    <3>5. saved' \in Checkpoint \cup {NoCheckpoint}
      BY <2>3, <3>4 DEF StartsAfresh, TypeOK
    <3> QED
      BY <1>2, <2>1, <3>5 DEF Touches, TypeOK
  <2>4. CASE saved' = saved
    BY <1>2, <2>1, <2>4 DEF Touches, TypeOK
  <2> QED
    BY <2>2, <2>3, <2>4
<1>5. ASSUME NEW q \in Requests, NEW answer, Gives(q, answer)
      PROVE  TypeOK'
  BY <1>2, <1>5 DEF Gives, Touches, TypeOK
<1>6. ASSUME NEW q \in Requests, NEW next \in Node, NEW st \in State,
             NEW reasons \in SUBSET {"degraded", "failed"}, Computes(q, next, st, reasons)
      PROVE  TypeOK'
  <2>1. Steps(q, next, st, reasons) /\ RowsCome(q)
    BY <1>6, RowsAreAdded DEF Computes
  <2>2. [next |-> next, st |-> st] \in Checkpoint
    BY DEF Checkpoint
  <2>3. saved' \in Checkpoint \cup {NoCheckpoint}
    BY <2>1, <2>2 DEF Steps, TypeOK
  <2> QED
    BY <1>2, <2>1, <2>3 DEF Steps, Touches, RowsCome
<1> QED
  BY <1>3, <1>4, <1>5, <1>6, StepKinds DEF Fails, Replies

\* The initial state satisfies the invariant.
LEMMA InitFits ==
  ASSUME Init
  PROVE  IInv
<1>1. /\ Unsent \in Run /\ Unsent.phase = "unsent" /\ Unsent.submit = FALSE
      /\ Unsent.next = "intake" /\ Unsent.pending = "none" /\ Unsent.lost = FALSE
      /\ Unsent.fellback = FALSE /\ Unsent.answer = NoAnswer
  BY Blanks DEF Unsent
<1>2. NoAnswer.status = "none"
  BY DEF NoAnswer
<1>3. \A q \in Requests : run[q] = Unsent /\ audit[q] = 0
  BY DEF Init
<1>4. TypeOK
  <2>0. interruptEnabled \in BOOLEAN
    BY TurnGraphAssumption, Zenon DEF Init
  <2>1. redis \in BOOLEAN /\ graph \in {"unbuilt", "checkpointed", "stateless"} /\ active \in BOOLEAN
    BY DEF Init
  <2>4. flips \in 0..Flips
    <3>1. Flips \in Nat /\ flips = 0
      BY TurnGraphAssumption DEF Init
    <3> QED
      BY <3>1
  <2>2. saved \in Checkpoint \cup {NoCheckpoint}
    BY DEF Init
  <2>3. run \in [Requests -> Run] /\ audit \in [Requests -> 0..2]
    BY <1>1 DEF Init
  <2> QED
    BY <2>0, <2>1, <2>2, <2>3, <2>4 DEF TypeOK
<1>5. PhasesFit
  BY <1>1, <1>3 DEF PhasesFit, PhaseFits, Working, Begun
<1>6. ReasonsFit /\ DraftsWait
  BY <1>1, <1>2, <1>3 DEF ReasonsFit, ReasonFits, DraftsWait, DraftWaits, Working, NoAnswer
<1>7. AuditsFit
  <2>1. saved = NoCheckpoint
    BY DEF Init
  <2> QED
    BY <1>1, <1>3, <2>1 DEF AuditsFit, RowsFit, Working, Begun
<1>8. AuditedOrFlagged
  BY <1>1, <1>2, <1>3 DEF AuditedOrFlagged, Released
<1> QED
  BY <1>4, <1>5, <1>6, <1>7, <1>8 DEF IInv

\* The invariant is inductive: for every number of requests, every outage of Redis
\* and every client that gives up, no step of _get_graph, a handler or a node leaves it.
THEOREM Invariance == Spec => []IInv
<1>1. Init => IInv
  BY InitFits
<1>2. IInv /\ [Next]_vars => IInv'
  BY TypeStep, PhasesStep, ReasonsStep, WaitStep, AuditsStep, AuditStep DEF IInv
<1> QED
  BY <1>1, <1>2, PTL DEF Spec

\* Drafts of a submit reach nobody as final: whether the interrupt of human_review
\* is on or off, a contract_generation answer is awaiting review.
THEOREM DraftsAreReviewed == Spec => []DraftsAwaitReview
<1>1. IInv => DraftsAwaitReview
  BY DEF IInv, DraftsWait, DraftWaits, DraftsAwaitReview, Released
<1> QED
  BY <1>1, Invariance, PTL

\* finish_turn's outcome sees what the pane sees: a submit whose answer raises the
\* memory_degraded banner, for whatever reason, is not recorded as ok.
THEOREM OutcomesSeeTheBanner == Spec => []SubmitOutcomeSeesBanner
<1>1. IInv => SubmitOutcomeSeesBanner
  BY DEF IInv, ReasonsFit, ReasonFits, SubmitOutcomeSeesBanner
<1> QED
  BY <1>1, Invariance, PTL

\* Behind every report is the audit row of the run that made it, and one only when
\* that run is the request's own, or the answer raises the banner.
THEOREM ReportsAreAudited == Spec => []AuditedOrFlagged
<1>1. IInv => AuditedOrFlagged
  BY DEF IInv
<1> QED
  BY <1>1, Invariance, PTL

\* human_review sends a run back to llm_caller only at the price of one of the
\* max_review_iterations, or when it had no draft to review.
THEOREM ReviewGoesBackForAReason == Spec => GoesBackForNotesOrNothing
<1> DEFINE Back(q) ==
      run[q].next = "human_review" /\ run'[q].next = "generate"
        => \/ run'[q].st.iterations = run[q].st.iterations + 1
           \/ run[q].st.draft = NoDraft
<1>1. IInv /\ [Next]_vars => [\A q \in Requests : Back(q)]_vars
  <2> SUFFICES ASSUME IInv, [Next]_vars, NEW q \in Requests,
                      run[q].next = "human_review", run'[q].next = "generate"
               PROVE  \/ run'[q].st.iterations = run[q].st.iterations + 1
                      \/ run[q].st.draft = NoDraft
    OBVIOUS
  <2>0. TypeOK /\ PhasesFit /\ run'[q] # run[q]
    BY DEF IInv
  <2>1. run[q].phase \in Working
    BY <2>0 DEF PhasesFit, PhaseFits
  <2>2. ~Elsewhere
    BY <2>0 DEF Elsewhere
  <2>3. ASSUME NEW p \in Requests, NEW answer, Gives(p, answer)
        PROVE  FALSE
    BY <2>0, <2>3 DEF Gives, Touches
  <2>4. ASSUME NEW p \in Requests, Handles(p)
        PROVE  FALSE
    BY <2>0, <2>1, <2>4 DEF Handles, Arrives, GoesOnAlone, Builds, GetsReady, StartsAfresh, TakesUp,
                      StartsOver, Stops, KeepsRun, Touches, Working
  <2>5. PICK p \in Requests, next \in Node, st \in State, reasons \in SUBSET {"degraded", "failed"} :
          Computes(p, next, st, reasons)
    BY <2>0, <2>2, <2>3, <2>4, StepKinds DEF Fails, Replies
  <2>6. p = q /\ next = "generate" /\ run'[q].st = st
    BY <2>0, <2>5 DEF Computes, Steps, Touches
  <2>7. next = RouteReview(st)
    BY <2>5, <2>6 DEF Computes
  <2>8. st.draft = NoDraft
    BY <2>6, <2>7 DEF RouteReview
  <2> QED
    BY <2>5, <2>6, <2>8 DEF Computes, Judged
<1>2. IInv /\ [Next]_vars => [\A q \in Requests :
       run[q].next = "human_review" /\ run'[q].next = "generate"
         => \/ run'[q].st.iterations = run[q].st.iterations + 1
            \/ run[q].st.draft = NoDraft]_vars
  BY <1>1
<1> QED
  BY <1>2, Invariance, PTL DEF Spec, GoesBackForNotesOrNothing

-----------------------------------------------------------------------------
(* The session as its attorney lives it.  What follows holds on conditions    *)
(* that the state itself tells: whether the client has ever given up, and how *)
(* often Redis has changed.                                                   *)

\* Nobody has given up on a request.
Patient == \A q \in Requests : ~run[q].gone

\* Nor has Redis come and gone: a session sees one outage begin, or one end.
Calm == Patient /\ flips <= 1

\* What the nodes leave, in a run or in the checkpoint: nothing awaits review behind
\* an interrupt, there is a draft once llm_caller ran, and the report is made of it.
Composed(next, st) ==
  /\ interruptEnabled => ~st.awaiting
  /\ "empty" \notin Outputs /\ next \notin {"intake", "generate"} => st.draft # NoDraft
  /\ next \in {"memory_writer", "end"} => st.report.draft = st.draft

AllComposed ==
  /\ saved # NoCheckpoint => Composed(saved.next, saved.st)
  /\ \A q \in Requests : run[q].phase \in Working => Composed(run[q].next, run[q].st)

\* The client sends one request after the other, and a verdict only on what awaits one.
CallFits(q, r) ==
  /\ r.phase = "unsent" => ~r.gone
  /\ r.submit => r.verdict = "none"
  /\ r.answer.awaiting => r.answer.status = "ok"
  /\ r.phase \in Begun \cup Working /\ ~r.submit => q > 1 /\ run[q - 1].answer.awaiting

CallsFit ==
  /\ \A p, q \in Requests : p < q /\ Sent(q) => Settled(p)
  /\ \A q \in Requests : CallFits(q, run[q])
  /\ \A q \in Requests : run[q].phase = "answered" => graph # "unbuilt"

\* While Redis has not changed a thread is Redis's own; while it is up, and has
\* changed once at most, no write has failed.
RedisFits ==
  /\ flips = 0 =>
       /\ graph = "checkpointed" \/ saved # NoCheckpoint => redis
       /\ \A q \in Requests : run[q].threaded => redis
  /\ flips = 0 \/ (flips <= 1 /\ redis) => \A q \in Requests : ~run[q].lost

\* A submit has recorded a failure if, and only if, its draft is the error string.
FailureFits(r) ==
  r.submit =>
    /\ r.phase \in Working \cup {"ready"} =>
         /\ "failed" \in r.reasons <=> r.st.draft.error
         /\ r.st.draft.error => "error" \in Outputs
         /\ r.next \in {"intake", "generate"} => r.st.draft = NoDraft
    /\ r.answer.status # "none" =>
         (r.answer.outcome = "failed" <=> r.answer.status = "error" \/ r.answer.draft.error)

FailuresFit == flips = 0 \/ "error" \notin Outputs => \A q \in Requests : FailureFits(run[q])

\* A run off the thread knows that it is: it is the fallback, or nothing is checkpointed.
MemoryFits(r) ==
  /\ r.phase = "building" => r.threaded = active /\ (flips = 0 => active = redis)
  /\ r.phase \in Working \cup {"ready"} => r.threaded \/ r.fellback \/ ~active
  /\ r.answer.status = "ok" => r.threaded \/ r.answer.flagged

MemoriesFit ==
  Patient \/ flips = 0 =>
    /\ graph # "unbuilt" => (graph = "checkpointed" <=> active)
    /\ \A q \in Requests : MemoryFits(run[q])

\* The client has seen the draft in an answer before q's.
Shown(q, draft) ==
  \E p \in 1..(q - 1) : /\ ~run[p].gone
                        /\ run[p].answer.status = "ok"
                        /\ run[p].answer.draft = draft

\* While Redis is up the checkpoint is the one of the latest run: a working run's own,
\* or the one behind the draft that was answered; a rerun off the thread leaves there
\* what the run before it did, which its search ended.
Follows(q) ==
  /\ run[q].phase = "ready" /\ graph = "checkpointed" => run[q].threaded
  /\ run[q].phase \in Working \cup {"ready", "answered"} /\ run[q].threaded
       => graph = "checkpointed"
  /\ run[q].phase \in Working /\ run[q].threaded /\ saved # NoCheckpoint =>
       saved.next = run[q].next /\ saved.st.draft = run[q].st.draft
         /\ saved.st.awaiting = run[q].st.awaiting
  /\ /\ run[q].answer.awaiting /\ run[q].threaded /\ saved # NoCheckpoint
     /\ \A p \in Requests : p > q => run[p].phase \in Begun \cup {"unsent"}
     => \/ saved.next = "human_review" /\ saved.st.draft = run[q].answer.draft
        \/ saved.next = "end" /\ saved.st.awaiting
  /\ /\ run[q].phase \in Working /\ ~run[q].threaded
     /\ graph = "checkpointed" /\ saved # NoCheckpoint
     => saved.next = "generate"
  /\ /\ run[q].answer.awaiting /\ ~run[q].threaded
     /\ graph = "checkpointed" /\ saved # NoCheckpoint
     /\ \A p \in Requests : p > q => run[p].phase \in Begun \cup {"unsent"}
     => saved.next = "generate"

\* A verdict meets a draft that was shown, and only such a draft gets past it; a verdict
\* on a rerun's draft meets none.
VerdictMeets(q, r) ==
  r.phase \in Working /\ ~r.submit =>
    /\ r.threaded
    /\ r.pending # "none" =>
         \/ r.next = "human_review" /\ Shown(q, r.st.draft)
         \/ r.next = "end" /\ r.st.awaiting
         \/ r.next = "generate" /\ run[q - 1].answer.flagged
    /\ r.next \in Reporting /\ r.st.task = "contract_generation" =>
         r.st.draft.id < 0 \/ Shown(q, r.st.draft) \/ r.st.awaiting

\* The answer before q's carried no banner.
Unflagged(q) == q # 1 /\ ~run[q - 1].answer.flagged

\* Notes are on their way into a draft, or back.
NotesMeet(q, r) ==
  interruptEnabled /\ r.phase \in Working /\ r.verdict = "notes" =>
    \/ r.next = "human_review" /\ r.phase = "running" /\ r.pending = "notes"
    \/ r.next = "generate" /\ r.st.notes = q
    \/ r.next \notin {"intake", "generate"} /\ r.pending = "none" /\ r.st.draft.from = q
    \/ r.next = "output_formatter" /\ r.st.unincorporated = q
    \/ r.next \in {"memory_writer", "end"} /\ r.st.report.unincorporated = q

\* The graph is built once; the checkpoint, the verdicts and the notes of each request.
Building == \A q \in Requests : run[q].phase = "building" => graph = "unbuilt"
Following == redis => \A q \in Requests : Follows(q)
Meeting == \A q \in Requests : VerdictMeets(q, run[q])
Noting == (\A q \in Requests : Unflagged(q) => NotesMeet(q, run[q])) /\ NotesAccounted

SessionFits ==
  Calm =>
    /\ Building /\ Following /\ Meeting /\ ReleasedWasShown
    /\ "empty" \notin Outputs => Noting

\* The whole of it.
SessionIInv ==
  /\ IInv
  /\ AllComposed /\ CallsFit /\ RedisFits /\ FailuresFit /\ MemoriesFit /\ SessionFits

-----------------------------------------------------------------------------
(* What any step keeps. *)

\* A step leaves Redis alone, or is Redis coming or going and touches nothing else.
LEMMA RedisTurns ==
  ASSUME TypeOK, [Next]_vars
  PROVE  /\ interruptEnabled' = interruptEnabled
         /\ \/ UNCHANGED <<redis, flips>>
            \/ /\ flips' = flips + 1 /\ redis' = ~redis
               /\ UNCHANGED <<run, graph, active, saved, audit>>
<1>1. CASE UNCHANGED vars
  BY <1>1 DEF vars
<1>2. CASE RedisFlips
  BY <1>2 DEF RedisFlips
<1>3. CASE CheckpointExpires
  BY <1>3 DEF CheckpointExpires
<1>4. ASSUME NEW q \in Requests, Submit(q) \/ Resume(q) \/ GiveUp(q)
      PROVE  UNCHANGED <<interruptEnabled, redis, flips>>
  BY <1>4 DEF Submit, Resume, GiveUp
<1>5. ASSUME NEW q \in Requests,
             \/ FindsGraph(q) \/ BuildsCheckpointer(q) \/ PublishesGraph(q)
             \/ SubmitStarts(q) \/ ResumeStarts(q) \/ ResumeFindsNothing(q)
             \/ FallsBack(q) \/ InvokeFails(q) \/ Answers(q) \/ Interrupts(q)
      PROVE  UNCHANGED <<interruptEnabled, redis, flips>>
  BY <1>5 DEF FindsGraph, BuildsCheckpointer, PublishesGraph, SubmitStarts, ResumeStarts,
              ResumeFindsNothing, FallsBack, InvokeFails, Answers, Interrupts
<1>6. ASSUME NEW q \in Requests,
             \/ Intake(q) \/ Generate(q) \/ AssessRisk(q) \/ ReviewDisabled(q) \/ AppliesVerdict(q)
             \/ FormatOutput(q) \/ WriteMemory(q)
      PROVE  UNCHANGED <<interruptEnabled, redis, flips>>
  BY <1>6 DEF Intake, Generate, AssessRisk, ReviewDisabled, AppliesVerdict, FormatOutput,
              WriteMemory, Superstep
<1> QED
  BY <1>1, <1>2, <1>3, <1>4, <1>5, <1>6 DEF Next, HandlerStep

\* A step of the session is one of one request that has not been answered.
Moves(q) ==
  /\ Touches(q)
  /\ run[q].phase # "answered" /\ run'[q].phase # "unsent"
  /\ run[q].phase = "unsent" => Arrives(q)
  /\ run[q].phase # "unsent" => (run[q].gone => run'[q].gone)

LEMMA StepMoves ==
  ASSUME TypeOK, PhasesFit, [Next]_vars
  PROVE  Elsewhere \/ \E q \in Requests : Moves(q)
<1>1. ASSUME NEW q \in Requests, Handles(q)
      PROVE  Moves(q)
  BY <1>1 DEF Handles, Arrives, GoesOnAlone, Builds, GetsReady, StartsAfresh, TakesUp, StartsOver,
              Stops, KeepsRun, KeepsCall, Moves, Working
<1>2. ASSUME NEW q \in Requests, NEW answer, Gives(q, answer)
      PROVE  Moves(q)
  BY <1>2 DEF Gives, KeepsCall, Moves, Working
<1>3. ASSUME NEW q \in Requests, NEW next \in Node, NEW st \in State,
             NEW reasons \in SUBSET {"degraded", "failed"}, Computes(q, next, st, reasons)
      PROVE  Moves(q)
  <2>1. Steps(q, next, st, reasons)
    BY <1>3 DEF Computes
  <2> QED
    BY <2>1 DEF Steps, KeepsCall, Moves
<1> QED
  BY <1>1, <1>2, <1>3, StepKinds DEF Fails, Replies

\* What has been answered stays as it is, and who has given up has given up.
LEMMA AnswersStand ==
  ASSUME TypeOK, PhasesFit, CallsFit, [Next]_vars
  PROVE  /\ \A p \in Requests : run[p].phase = "answered" => run'[p] = run[p]
         /\ \A p \in Requests : run[p].gone => run'[p].gone
         /\ \A p \in Requests : Sent(p) => run'[p].phase # "unsent"
<1>1. CASE Elsewhere
  BY <1>1 DEF Elsewhere, Sent
<1>2. ASSUME NEW q \in Requests, Moves(q)
      PROVE  /\ \A p \in Requests : run[p].phase = "answered" => run'[p] = run[p]
             /\ \A p \in Requests : run[p].gone => run'[p].gone
             /\ \A p \in Requests : Sent(p) => run'[p].phase # "unsent"
  BY <1>2 DEF Moves, Touches, CallsFit, CallFits, Sent
<1> QED
  BY <1>1, <1>2, StepMoves

\* So the conditions are only ever lost.
LEMMA ConditionsLast ==
  ASSUME TypeOK, PhasesFit, CallsFit, [Next]_vars
  PROVE  /\ flips' = 0 => flips = 0 /\ UNCHANGED <<redis, flips>>
         /\ Patient' => Patient
         /\ Calm' => Calm
         /\ flips' <= 1 => flips <= 1
<1>1. flips \in Nat
  BY TurnGraphAssumption DEF TypeOK
<1>2. UNCHANGED <<redis, flips>> \/ flips' = flips + 1
  BY RedisTurns
<1>3. Patient' => Patient
  BY AnswersStand DEF Patient
<1> QED
  BY <1>1, <1>2, <1>3 DEF Calm

\* One request after the other.
LEMMA CallsStep ==
  ASSUME TypeOK, PhasesFit, CallsFit, [Next]_vars
  PROVE  CallsFit'
<1>1. \A p, q \in Requests : p < q /\ Sent(q)' => Settled(p)'
  <2> SUFFICES ASSUME NEW p \in Requests, NEW q \in Requests, p < q, Sent(q)'
               PROVE  Settled(p)'
    OBVIOUS
  <2>1. Settled(p) => Settled(p)'
    BY AnswersStand DEF Settled
  <2>2. Sent(q) => Settled(p)
    BY DEF CallsFit
  <2>3. CASE Elsewhere
    BY <2>1, <2>2, <2>3 DEF Elsewhere, Sent
  <2>4. ASSUME NEW r \in Requests, Moves(r), ~Sent(q)
        PROVE  Settled(p)
    <3>1. r = q
      BY <2>4 DEF Moves, Touches, Sent
    <3>2. NextRequest(q)
      BY <2>4, <3>1 DEF Moves, Arrives, Sent
    <3> QED
      BY <3>2 DEF NextRequest
  <2> QED
    BY <2>1, <2>2, <2>3, <2>4, StepMoves
<1>2. \A q \in Requests : run[q].phase = "answered" => graph # "unbuilt"
  BY DEF CallsFit
<1>3. ASSUME NEW q \in Requests, Touches(q), graph' # "unbuilt" \/ graph' = graph,
             run'[q].phase = "unsent" => ~run'[q].gone,
             run'[q].submit => run'[q].verdict = "none",
             run'[q].answer.awaiting => run'[q].answer.status = "ok",
             run'[q].phase \in Begun \cup Working /\ ~run'[q].submit
               => q > 1 /\ run[q - 1].answer.awaiting,
             run'[q].phase = "answered" => graph' # "unbuilt"
      PROVE  CallsFit'
  <2>1. ASSUME NEW p \in Requests, p > 1, run[p - 1].answer.awaiting
        PROVE  run'[p - 1].answer.awaiting
    <3>1. p - 1 \in Requests
      BY <2>1, TurnGraphAssumption DEF Requests
    <3>2. NoAnswer.awaiting = FALSE
      BY DEF NoAnswer
    <3>3. run[p - 1].phase = "answered"
      BY <2>1, <3>1, <3>2 DEF PhasesFit, PhaseFits
    <3> QED
      BY <2>1, <3>1, <3>3, AnswersStand
  <2>2. ASSUME NEW p \in Requests
        PROVE  CallFits(p, run[p])'
    <3>1. CASE p = q
      BY <1>3, <2>1, <3>1 DEF CallFits
    <3>2. CASE p # q
      <4>1. run'[p] = run[p] /\ CallFits(p, run[p])
        BY <1>3, <3>2 DEF Touches, CallsFit
      <4> QED
        BY <2>1, <4>1 DEF CallFits
    <3> QED
      BY <3>1, <3>2
  <2>3. \A p \in Requests : run'[p].phase = "answered" => graph' # "unbuilt"
    BY <1>2, <1>3 DEF Touches
  <2> QED
    BY <1>1, <2>2, <2>3 DEF CallsFit
<1>4. ASSUME NEW q \in Requests
      PROVE  /\ CallFits(q, run[q]) /\ PhaseFits(q, run[q])
             /\ run[q].phase \in Working \cup {"ready"} => graph # "unbuilt"
  BY DEF CallsFit, PhasesFit
<1>5. NoAnswer.awaiting = FALSE
  BY DEF NoAnswer
<1>6. CASE Elsewhere
  BY <1>1, <1>6 DEF Elsewhere, CallsFit, CallFits
<1>7. ASSUME NEW q \in Requests, Handles(q)
      PROVE  CallsFit'
  <2>0. CallFits(q, run[q])
    BY <1>4
  <2>1. CASE Arrives(q)
    BY <1>3, <1>5, <2>1 DEF Arrives
  <2>2. CASE GoesOnAlone(q)
    BY <1>2, <1>3, <2>0, <2>2 DEF GoesOnAlone, CallFits
  <2>3. CASE Builds(q)
    BY <1>3, <2>0, <2>3 DEF Builds, KeepsRun, KeepsCall, CallFits, Begun
  <2>4. CASE GetsReady(q)
    BY <1>3, <2>0, <2>4 DEF GetsReady, KeepsRun, KeepsCall, CallFits, Begun
  <2>5. CASE StartsAfresh(q)
    BY <1>3, <2>0, <2>5 DEF StartsAfresh, KeepsRun, KeepsCall, CallFits, Begun
  <2>6. CASE TakesUp(q)
    BY <1>3, <2>0, <2>6 DEF TakesUp, KeepsCall, CallFits, Begun
  <2>7. CASE StartsOver(q)
    BY <1>3, <2>0, <2>7 DEF StartsOver, KeepsCall, CallFits
  <2>8. CASE Stops(q)
    BY <1>3, <2>0, <2>8 DEF Stops, KeepsCall, CallFits, Working
  <2> QED
    BY <1>7, <2>1, <2>2, <2>3, <2>4, <2>5, <2>6, <2>7, <2>8 DEF Handles
<1>8. ASSUME NEW q \in Requests, NEW answer, Gives(q, answer),
             answer.awaiting => answer.status = "ok"
      PROVE  CallsFit'
  BY <1>3, <1>4, <1>8 DEF Gives, KeepsCall, CallFits, Begun, Working
<1>9. ASSUME NEW q \in Requests, NEW next \in Node, NEW st \in State,
             NEW reasons \in SUBSET {"degraded", "failed"}, Computes(q, next, st, reasons)
      PROVE  CallsFit'
  <2>1. Steps(q, next, st, reasons)
    BY <1>9 DEF Computes
  <2> QED
    BY <1>3, <1>4, <2>1 DEF Steps, KeepsCall, CallFits, Begun, Working
<1>10. \A q \in Requests : TheAnswer(q).status = "ok"
  BY DEF TheAnswer
<1> QED
  BY <1>6, <1>7, <1>8, <1>9, <1>10, StepKinds DEF Fails, Replies, IsError

\* What the nodes leave.
LEMMA ComposedStep ==
  ASSUME TypeOK, PhasesFit, AllComposed, [Next]_vars
  PROVE  AllComposed'
<1>0. interruptEnabled' = interruptEnabled
  BY RedisTurns
<1>1. CASE Elsewhere
  BY <1>0, <1>1 DEF Elsewhere, AllComposed, Composed
<1>2. ASSUME NEW q \in Requests, Touches(q), saved' = saved,
             run'[q].phase \in Working => Composed(run'[q].next, run'[q].st)
      PROVE  AllComposed'
  BY <1>0, <1>2 DEF Touches, AllComposed, Composed
<1>3. ASSUME NEW q \in Requests, NEW task \in Tasks, NEW interactive \in BOOLEAN, NEW degraded \in BOOLEAN
      PROVE  Composed("intake", InitialState(q, task, interactive, degraded))
  BY DEF Composed, InitialState
<1>4. ASSUME NEW q \in Requests, Handles(q)
      PROVE  AllComposed'
  <2>1. CASE Arrives(q) \/ Builds(q) \/ GetsReady(q)
    BY <1>2, <2>1 DEF Arrives, Builds, GetsReady, Working
  <2>2. CASE GoesOnAlone(q)
    BY <1>2, <2>2 DEF GoesOnAlone, AllComposed
  <2>3. CASE StartsAfresh(q)
    <3>1. PICK task \in Tasks, interactive \in BOOLEAN :
            run[q].st = InitialState(q, task, interactive, FALSE)
      BY <2>3 DEF StartsAfresh, PhasesFit, PhaseFits, Begun
    <3>2. Composed("intake", run[q].st) /\ run'[q].next = "intake" /\ run'[q].st = run[q].st
      <4>1. Composed("intake", run[q].st)
        BY <1>3, <3>1
      <4>2. run[q].next = "intake"
        BY <2>3 DEF StartsAfresh, PhasesFit, PhaseFits, Working
      <4> QED
        BY <2>3, <4>1, <4>2 DEF StartsAfresh, KeepsRun
    <3>3. \/ saved' = saved
          \/ saved'.next = "intake" /\ saved'.st = run[q].st
      BY <2>3 DEF StartsAfresh
    <3> QED
      BY <1>0, <2>3, <3>2, <3>3 DEF StartsAfresh, Touches, AllComposed, Composed
  <2>4. CASE TakesUp(q)
    <3> DEFINE st == [saved.st EXCEPT !.turn = q]
    <3>1. Composed(saved.next, saved.st) /\ saved.st \in State
      BY <2>4 DEF TakesUp, AllComposed, TypeOK, Checkpoint
    <3>2. st.awaiting = saved.st.awaiting /\ st.draft = saved.st.draft /\ st.report = saved.st.report
      BY <3>1 DEF State
    <3>3. run'[q].next = saved.next /\ run'[q].st = st
      BY <2>4 DEF TakesUp
    <3> HIDE DEF st
    <3>4. Composed(run'[q].next, run'[q].st)
      BY <3>1, <3>2, <3>3 DEF Composed
    <3> QED
      BY <1>2, <2>4, <3>4 DEF TakesUp
  <2>5. CASE StartsOver(q)
    <3>1. Composed(run'[q].next, run'[q].st)
      BY <1>3, <2>5 DEF StartsOver
    <3> QED
      BY <1>2, <2>5, <3>1 DEF StartsOver
  <2>6. CASE Stops(q)
    BY <1>2, <2>6 DEF Stops, AllComposed, Working
  <2> QED
    BY <1>4, <2>1, <2>2, <2>3, <2>4, <2>5, <2>6 DEF Handles
<1>5. ASSUME NEW q \in Requests, NEW answer, Gives(q, answer)
      PROVE  AllComposed'
  BY <1>2, <1>5 DEF Gives, Working
<1>6. ASSUME NEW q \in Requests, NEW next \in Node, NEW st \in State,
             NEW reasons \in SUBSET {"degraded", "failed"}, Computes(q, next, st, reasons)
      PROVE  AllComposed'
  <2>1. Steps(q, next, st, reasons) /\ Composed(run[q].next, run[q].st)
    BY <1>6 DEF Computes, Steps, AllComposed, Working
  <2>2. Composed(next, st)
    BY <1>6, <2>1 DEF Computes, Drafts, Judged, Reports, Records, RouteReview, Composed
  <2>3. saved' = saved \/ (saved'.next = next /\ saved'.st = st)
    BY <2>1 DEF Steps
  <2> QED
    BY <1>0, <2>1, <2>2, <2>3 DEF Steps, Touches, AllComposed, Composed
<1> QED
  BY <1>1, <1>4, <1>5, <1>6, StepKinds DEF Fails, Replies

-----------------------------------------------------------------------------
(* What Redis's coming and going allows. *)

\* Where Redis has not changed, or is up after one change, no write has failed.
LEMMA RedisStep ==
  ASSUME TypeOK, PhasesFit, CallsFit, RedisFits, [Next]_vars
  PROVE  RedisFits'
<1> DEFINE Up == flips = 0 \/ (flips <= 1 /\ redis)
           Early == /\ graph = "checkpointed" \/ saved # NoCheckpoint => redis
                    /\ \A q \in Requests : run[q].threaded => redis
           Sound == \A q \in Requests : ~run[q].lost
<1>0. flips \in Nat /\ redis \in BOOLEAN
  BY TurnGraphAssumption DEF TypeOK
<1>1. (flips = 0 => Early) /\ (Up => Sound)
  BY DEF RedisFits
<1>2. ASSUME UNCHANGED <<redis, flips>>, flips = 0 => Early', Up => Sound'
      PROVE  RedisFits'
  BY <1>2 DEF RedisFits
<1>3. CASE flips' = flips + 1 /\ redis' = ~redis /\ UNCHANGED <<run, graph, active, saved, audit>>
  <2>1. ~(flips' = 0) /\ (Up' => flips = 0)
    BY <1>0, <1>3
  <2>2. Up' => Sound'
    BY <1>1, <1>3, <2>1
  <2> QED
    BY <2>1, <2>2 DEF RedisFits
<1>4. CASE UNCHANGED <<redis, flips>>
  <2>1. CASE Elsewhere
    <3>1. flips = 0 => Early'
      BY <1>1, <1>4, <2>1 DEF Elsewhere
    <3>2. Up => Sound'
      BY <1>1, <2>1 DEF Elsewhere
    <3> QED
      BY <1>2, <1>4, <3>1, <3>2
  <2>2. ASSUME NEW q \in Requests, Touches(q),
               flips = 0 => (run'[q].threaded => redis),
               flips = 0 => (graph' = "checkpointed" => graph = "checkpointed" \/ redis),
               flips = 0 => saved' = saved \/ saved' = NoCheckpoint \/ redis,
               Up => ~run'[q].lost
        PROVE  RedisFits'
    <3>1. flips = 0 => Early'
      BY <1>1, <1>4, <2>2 DEF Touches
    <3>2. Up => Sound'
      BY <1>1, <2>2 DEF Touches
    <3> QED
      BY <1>2, <1>4, <3>1, <3>2
  <2>3. ASSUME NEW q \in Requests
        PROVE  /\ flips = 0 => (run[q].threaded => redis)
               /\ Up => ~run[q].lost
               /\ Up /\ run[q].threaded => redis
    BY <1>1, <2>3
  <2>4. ASSUME NEW q \in Requests, Handles(q)
        PROVE  RedisFits'
    <3>0. /\ flips = 0 => (run[q].threaded => redis)
          /\ Up => ~run[q].lost
          /\ Up /\ run[q].threaded => redis
      BY <2>3
    <3>1. CASE Arrives(q)
      BY <2>2, <3>1 DEF Arrives
    <3>2. CASE GoesOnAlone(q)
      BY <2>2, <3>0, <3>2 DEF GoesOnAlone
    <3>3. CASE Builds(q)
      BY <2>2, <3>0, <3>3 DEF Builds, KeepsRun
    <3>4. CASE GetsReady(q)
      BY <1>1, <2>2, <3>0, <3>4 DEF GetsReady, KeepsRun
    <3>5. CASE StartsAfresh(q)
      BY <2>2, <3>0, <3>5 DEF StartsAfresh, KeepsRun
    <3>6. CASE TakesUp(q)
      BY <2>2, <3>0, <3>6 DEF TakesUp
    <3>7. CASE StartsOver(q)
      BY <2>2, <3>0, <3>7 DEF StartsOver
    <3>8. CASE Stops(q)
      BY <2>2, <3>0, <3>8 DEF Stops, Loses
    <3> QED
      BY <2>4, <3>1, <3>2, <3>3, <3>4, <3>5, <3>6, <3>7, <3>8 DEF Handles
  <2>5. ASSUME NEW q \in Requests, NEW answer, Gives(q, answer)
        PROVE  RedisFits'
    BY <2>2, <2>3, <2>5 DEF Gives
  <2>6. ASSUME NEW q \in Requests, NEW next \in Node, NEW st \in State,
               NEW reasons \in SUBSET {"degraded", "failed"}, Computes(q, next, st, reasons)
        PROVE  RedisFits'
    <3>1. Steps(q, next, st, reasons)
      BY <2>6 DEF Computes
    <3> QED
      BY <2>2, <2>3, <3>1 DEF Steps, Loses
  <2> QED
    BY <2>1, <2>4, <2>5, <2>6, StepKinds DEF Fails, Replies
<1> QED
  BY <1>3, <1>4, RedisTurns

-----------------------------------------------------------------------------
(* What turn_log counts as failed. *)

\* A submit records a failure with the error string, and no other.
LEMMA FailuresStep ==
  ASSUME TypeOK, PhasesFit, CallsFit, AllComposed, RedisFits, FailuresFit, [Next]_vars
  PROVE  FailuresFit'
<1> DEFINE Told == flips = 0 \/ "error" \notin Outputs
<1> SUFFICES ASSUME Told'
             PROVE  \A q \in Requests : FailureFits(run'[q])
  BY DEF FailuresFit
<1>1. Told /\ \A q \in Requests : FailureFits(run[q])
  BY ConditionsLast DEF FailuresFit
<1>2. ASSUME NEW q \in Requests, Touches(q), FailureFits(run'[q])
      PROVE  \A p \in Requests : FailureFits(run'[p])
  BY <1>1, <1>2 DEF Touches
<1>3. NoAnswer.status = "none" /\ NoDraft.error = FALSE /\ ErrorAnswer.status = "error"
  BY Blanks DEF NoAnswer, NoDraft
<1>4. CASE Elsewhere
  BY <1>1, <1>4 DEF Elsewhere
<1>5. ASSUME NEW q \in Requests, Handles(q)
      PROVE  \A p \in Requests : FailureFits(run'[p])
  <2>0. FailureFits(run[q]) /\ PhaseFits(q, run[q])
    BY <1>1 DEF PhasesFit
  <2>1. CASE Arrives(q)
    BY <1>2, <1>3, <2>1 DEF Arrives, Working, FailureFits
  <2>2. CASE GoesOnAlone(q)
    BY <1>2, <2>0, <2>2 DEF GoesOnAlone, FailureFits
  <2>3. CASE Builds(q)
    BY <1>2, <2>0, <2>3 DEF Builds, KeepsRun, KeepsCall, Working, FailureFits
  <2>4. CASE GetsReady(q)
    <3>1. run[q].submit => run[q].st.draft = NoDraft
      <4> SUFFICES ASSUME run[q].submit
                   PROVE  run[q].st.draft = NoDraft
        OBVIOUS
      <4>1. PICK task \in Tasks, interactive \in BOOLEAN :
              run[q].st = InitialState(q, task, interactive, FALSE)
        BY <2>0, <2>4 DEF GetsReady, PhaseFits, Begun
      <4> QED
        BY <4>1 DEF InitialState
    <3>2. "failed" \notin StartupReasons
      BY DEF StartupReasons
    <3>3. FailureFits(run'[q])
      BY <1>3, <2>0, <2>4, <3>1, <3>2 DEF GetsReady, KeepsRun, KeepsCall, FailureFits
    <3> QED
      BY <1>2, <2>4, <3>3 DEF GetsReady
  <2>5. CASE StartsAfresh(q)
    BY <1>2, <2>0, <2>5 DEF StartsAfresh, KeepsRun, KeepsCall, FailureFits
  <2>6. CASE TakesUp(q)
    BY <1>2, <2>6 DEF TakesUp, KeepsCall, FailureFits
  <2>7. CASE StartsOver(q)
    <3>1. flips = 0 => run[q].next = "generate"
      BY <2>7 DEF StartsOver, TakenForRedis, RedisError, SearchRefused, RedisFits
    <3>2. "failed" \notin run[q].reasons
      <4>1. NoDraft.error = FALSE
        BY DEF NoDraft
      <4> QED
        BY <1>1, <2>0, <2>7, <3>1, <4>1 DEF StartsOver, TakenForRedis, FailureFits
    <3>3. run'[q].st.draft = NoDraft
      BY <2>7 DEF StartsOver, InitialState
    <3>4. FailureFits(run'[q])
      BY <1>3, <2>0, <2>7, <3>2, <3>3 DEF StartsOver, KeepsCall, FailureFits
    <3> QED
      BY <1>2, <2>7, <3>4 DEF StartsOver
  <2>8. CASE Stops(q)
    BY <1>2, <2>0, <2>8 DEF Stops, KeepsCall, FailureFits, Working
  <2> QED
    BY <1>5, <2>1, <2>2, <2>3, <2>4, <2>5, <2>6, <2>7, <2>8 DEF Handles
<1>6. ASSUME NEW q \in Requests, NEW answer \in Answer, Fails(q, answer)
      PROVE  \A p \in Requests : FailureFits(run'[p])
  BY <1>2, <1>6 DEF Fails, IsError, Gives, KeepsCall, Working, FailureFits
<1>7. ASSUME NEW q \in Requests, Replies(q)
      PROVE  \A p \in Requests : FailureFits(run'[p])
  <2>1. /\ run[q].phase \in Working /\ FailureFits(run[q]) /\ Composed(run[q].next, run[q].st)
        /\ run[q].phase = "interrupted" \/ run[q].next = "end"
    BY <1>1, <1>7 DEF Replies, Working, AllComposed
  <2>2. TheAnswer(q).outcome = "failed" <=> "failed" \in run[q].reasons
    <3>1. TheAnswer(q).outcome = Outcome(q)
      BY DEF TheAnswer
    <3> QED
      BY <3>1, RunShape, OutcomeValues DEF Run
  <2>3. TheAnswer(q).status = "ok" /\ TheAnswer(q).draft = run[q].st.draft
    BY <2>1 DEF TheAnswer, Composed
  <2> QED
    BY <1>2, <1>7, <2>1, <2>2, <2>3 DEF Replies, Gives, KeepsCall, Working, FailureFits
<1>8. ASSUME NEW q \in Requests, NEW next \in Node, NEW st \in State,
             NEW reasons \in SUBSET {"degraded", "failed"}, Computes(q, next, st, reasons)
      PROVE  \A p \in Requests : FailureFits(run'[p])
  <2>1. Steps(q, next, st, reasons) /\ FailureFits(run[q]) /\ PhaseFits(q, run[q])
    BY <1>1, <1>8 DEF Computes, PhasesFit
  <2>2. run[q].submit =>
          /\ "failed" \in run[q].reasons \cup reasons <=> st.draft.error
          /\ st.draft.error => "error" \in Outputs
          /\ next \in {"intake", "generate"} => st.draft = NoDraft
    <3> SUFFICES ASSUME run[q].submit
                 PROVE  /\ "failed" \in run[q].reasons \cup reasons <=> st.draft.error
                        /\ st.draft.error => "error" \in Outputs
                        /\ next \in {"intake", "generate"} => st.draft = NoDraft
      OBVIOUS
    <3>1. run[q].pending = "none" /\ run[q].phase \in Working
      BY <2>1 DEF PhaseFits, Steps, Working
    <3>2. /\ "failed" \in run[q].reasons <=> run[q].st.draft.error
          /\ run[q].st.draft.error => "error" \in Outputs
          /\ run[q].next \in {"intake", "generate"} => run[q].st.draft = NoDraft
      BY <2>1, <3>1 DEF FailureFits
    <3> QED
      BY <1>3, <1>8, <3>1, <3>2 DEF Computes, Drafts, Reports, Records, RouteReview
  <2> QED
    BY <1>2, <2>1, <2>2 DEF Steps, KeepsCall, FailureFits, PhaseFits, Working
<1> QED
  BY <1>4, <1>5, <1>6, <1>7, <1>8, StepKinds

-----------------------------------------------------------------------------
(* What is said of a session that nothing remembers. *)

\* While Redis has not changed, or nobody has given up, a run off the thread knows it.
LEMMA MemoriesStep ==
  ASSUME TypeOK, PhasesFit, CallsFit, RedisFits, MemoriesFit, [Next]_vars
  PROVE  MemoriesFit'
<1> DEFINE Known == graph # "unbuilt" => (graph = "checkpointed" <=> active)
<1> SUFFICES ASSUME (Patient \/ flips = 0)'
             PROVE  Known' /\ \A q \in Requests : MemoryFits(run[q])'
  BY DEF MemoriesFit
<1>0. flips \in Nat /\ graph \in {"unbuilt", "checkpointed", "stateless"} /\ redis \in BOOLEAN
      /\ active \in BOOLEAN
  BY TurnGraphAssumption DEF TypeOK
<1>1. /\ Patient \/ flips = 0
      /\ Known /\ \A q \in Requests : MemoryFits(run[q])
      /\ \A p, q \in Requests : p < q /\ Sent(q) => Settled(p)
  BY ConditionsLast DEF MemoriesFit, CallsFit
<1>2. NoAnswer.status = "none"
  BY DEF NoAnswer
<1>3. CASE Elsewhere
  <2>1. flips' = 0 => flips = 0 /\ redis' = redis
    BY ConditionsLast
  <2> QED
    BY <1>1, <1>3, <2>1 DEF Elsewhere, MemoryFits
<1>4. CASE ~Elsewhere
  <2>0. UNCHANGED <<redis, flips>>
    BY <1>4, RedisTurns DEF Elsewhere
  <2>1. ASSUME NEW q \in Requests, Touches(q), active' = active, Known', MemoryFits(run[q])'
        PROVE  Known' /\ \A p \in Requests : MemoryFits(run[p])'
    BY <1>1, <2>0, <2>1 DEF Touches, MemoryFits
  <2>2. ASSUME NEW q \in Requests, Handles(q)
        PROVE  Known' /\ \A p \in Requests : MemoryFits(run[p])'
    <3>0. MemoryFits(run[q]) /\ PhaseFits(q, run[q])
      BY <1>1 DEF PhasesFit
    <3>1. CASE Arrives(q)
      BY <1>1, <1>2, <2>1, <3>1 DEF Arrives, Working, MemoryFits
    <3>2. CASE GoesOnAlone(q)
      BY <1>1, <2>0, <2>1, <3>0, <3>2 DEF GoesOnAlone, MemoryFits
    <3>3. CASE Builds(q)
      <4>1. ASSUME NEW p \in Requests
            PROVE  MemoryFits(run[p])'
        <5>1. CASE p = q
          <6>1. run[q].answer = NoAnswer
            BY <3>0, <3>3 DEF Builds, PhaseFits
          <6> QED
            BY <1>2, <2>0, <3>3, <5>1, <6>1 DEF Builds, KeepsRun, Working, MemoryFits
        <5>2. CASE p # q
          <6>1. run'[p] = run[p] /\ MemoryFits(run[p])
            BY <1>1, <3>3, <5>2 DEF Builds, Touches
          <6>2. run[p].phase \notin Working \cup {"ready"}
            BY <3>3 DEF Builds, PhasesFit
          <6>3. CASE run[p].phase = "building" /\ flips = 0
            BY <2>0, <3>3, <6>1, <6>3 DEF Builds, MemoryFits, Working
          <6>4. CASE run[p].phase = "building" /\ flips # 0
            <7>1. ~run[p].gone /\ ~run[q].gone
              BY <1>1, <6>4 DEF Patient
            <7>2. p \in Int /\ q \in Int /\ Sent(p) /\ Sent(q)
              BY <3>3, <6>4, TurnGraphAssumption DEF Builds, Sent, Requests
            <7>3. p < q \/ q < p
              BY <5>2, <7>2
            <7>4. Settled(p) \/ Settled(q)
              BY <1>1, <7>2, <7>3
            <7> QED
              BY <3>3, <6>4, <7>1, <7>4 DEF Settled, Builds
          <6>5. CASE run[p].phase # "building"
            BY <6>1, <6>2, <6>5 DEF MemoryFits
          <6> QED
            BY <6>3, <6>4, <6>5
        <5> QED
          BY <5>1, <5>2
      <4>2. Known'
        BY <3>3 DEF Builds
      <4> QED
        BY <4>1, <4>2
    <3>4. CASE GetsReady(q)
      <4>1. Known'
        BY <1>0, <1>1, <3>0, <3>4 DEF GetsReady, MemoryFits
      <4>2. active' = active /\ run'[q].phase = "ready" /\ run'[q].answer = run[q].answer
        BY <3>4 DEF GetsReady, KeepsRun
      <4>3. run'[q].threaded \/ ~active
        BY <1>1, <1>0, <3>0, <3>4 DEF GetsReady, MemoryFits
      <4>4. run[q].answer = NoAnswer
        BY <3>0, <3>4 DEF GetsReady, PhaseFits
      <4>5. MemoryFits(run[q])'
        BY <1>2, <4>2, <4>3, <4>4 DEF MemoryFits
      <4> QED
        BY <2>1, <3>4, <4>1, <4>2, <4>5 DEF GetsReady
    <3>5. CASE StartsAfresh(q)
      BY <1>1, <2>1, <3>0, <3>5 DEF StartsAfresh, KeepsRun, MemoryFits, Working
    <3>6. CASE TakesUp(q)
      BY <1>1, <2>1, <3>0, <3>6 DEF TakesUp, MemoryFits, Working
    <3>7. CASE StartsOver(q)
      <4>1. run[q].answer = NoAnswer
        BY <3>0, <3>7 DEF StartsOver, PhaseFits, Working
      <4> QED
        BY <1>1, <1>2, <2>1, <3>7, <4>1 DEF StartsOver, MemoryFits
    <3>8. CASE Stops(q)
      BY <1>1, <2>1, <3>0, <3>8 DEF Stops, MemoryFits, Working
    <3> QED
      BY <2>2, <3>1, <3>2, <3>3, <3>4, <3>5, <3>6, <3>7, <3>8 DEF Handles
  <2>3. ASSUME NEW q \in Requests, NEW answer \in Answer, Fails(q, answer)
        PROVE  Known' /\ \A p \in Requests : MemoryFits(run[p])'
    BY <1>1, <2>1, <2>3 DEF Fails, IsError, Gives, Working, MemoryFits
  <2>4. ASSUME NEW q \in Requests, Replies(q)
        PROVE  Known' /\ \A p \in Requests : MemoryFits(run[p])'
    <3>1. run[q].threaded \/ run[q].fellback \/ ~active
      BY <1>1, <2>4 DEF Replies, Working, MemoryFits
    <3>2. TheAnswer(q).flagged = Flagged(q)
      BY DEF TheAnswer
    <3>3. run[q].threaded \/ TheAnswer(q).flagged
      BY <3>1, <3>2 DEF Flagged
    <3> QED
      BY <1>1, <2>1, <2>4, <3>3 DEF Replies, Gives, Working, MemoryFits
  <2>5. ASSUME NEW q \in Requests, NEW next \in Node, NEW st \in State,
               NEW reasons \in SUBSET {"degraded", "failed"}, Computes(q, next, st, reasons)
        PROVE  Known' /\ \A p \in Requests : MemoryFits(run[p])'
    <3>1. Steps(q, next, st, reasons) /\ MemoryFits(run[q])
      BY <1>1, <2>5 DEF Computes
    <3> QED
      BY <1>1, <2>1, <3>1 DEF Steps, MemoryFits, Working
  <2> QED
    BY <1>4, <2>2, <2>3, <2>4, <2>5, StepKinds
<1> QED
  BY <1>3, <1>4

-----------------------------------------------------------------------------
(* A calm session: one request at a time, and one outage at most. *)

\* While nobody gives up, whoever is not answered is the last to have been sent.
LEMMA Alone ==
  ASSUME TypeOK, CallsFit, Patient, NEW q \in Requests, run[q].phase # "answered",
         Sent(q) \/ NextRequest(q), NEW p \in Requests
  PROVE  /\ p < q => run[p].phase = "answered"
         /\ p > q => run[p].phase = "unsent"
<1>1. p \in Int /\ q \in Int /\ ~run[p].gone /\ ~run[q].gone
  BY TurnGraphAssumption DEF Requests, Patient
<1>2. p < q => Settled(p)
  BY DEF CallsFit, NextRequest
<1>3. p > q => ~Sent(p)
  BY <1>1 DEF CallsFit, Settled
<1> QED
  BY <1>1, <1>2, <1>3 DEF Settled, Sent

\* So a step of the session is of the last request, and nobody gives up in it.
LEMMA CalmMoves ==
  ASSUME TypeOK, PhasesFit, CallsFit, Calm', NEW q \in Requests, Calm, Moves(q)
  PROVE  /\ ~run'[q].gone
         /\ \A p \in Requests : p < q => run[p].phase = "answered" /\ run'[p] = run[p]
         /\ \A p \in Requests : p > q => run[p].phase = "unsent" /\ run'[p] = run[p]
         /\ \A p \in Requests : p # q => p < q \/ p > q
<1>1. ~run'[q].gone /\ Patient
  BY DEF Calm, Patient
<1>2. \A p \in Requests : p \in Int
  BY TurnGraphAssumption DEF Requests
<1>3. run[q].phase # "answered" /\ (Sent(q) \/ NextRequest(q))
  BY DEF Moves, Arrives, Sent
<1>4. \A p \in Requests : /\ p < q => run[p].phase = "answered"
                          /\ p > q => run[p].phase = "unsent"
  BY <1>1, <1>3, Alone
<1>5. \A p \in Requests : p # q => run'[p] = run[p]
  BY DEF Moves, Touches
<1> QED
  BY <1>1, <1>2, <1>4, <1>5

\* What has been shown stays shown.
LEMMA ShownStays ==
  ASSUME TypeOK, PhasesFit, CallsFit, Patient', [Next]_vars,
         NEW q \in Requests, NEW draft, Shown(q, draft)
  PROVE  Shown(q, draft)'
<1>1. PICK p \in 1..(q - 1) : run[p].answer.status = "ok" /\ run[p].answer.draft = draft
  BY DEF Shown
<1>2. p \in Requests
  BY <1>1, TurnGraphAssumption DEF Requests
<1>3. NoAnswer.status = "none"
  BY DEF NoAnswer
<1>4. run[p].phase = "answered"
  BY <1>1, <1>2, <1>3 DEF PhasesFit, PhaseFits
<1>5. run'[p] = run[p] /\ ~run'[p].gone
  BY <1>2, <1>4, AnswersStand DEF Patient
<1> QED
  BY <1>1, <1>5 DEF Shown

\* The graph is built once.
LEMMA BuildingStep ==
  ASSUME TypeOK, PhasesFit, CallsFit, Calm, Building, Calm', [Next]_vars
  PROVE  Building'
<1>1. CASE Elsewhere
  BY <1>1 DEF Elsewhere, Building
<1>2. ASSUME NEW q \in Requests, Touches(q), graph' = graph,
             run'[q].phase = "building" => graph = "unbuilt"
      PROVE  Building'
  BY <1>2 DEF Touches, Building
<1>3. ASSUME NEW q \in Requests, GetsReady(q)
      PROVE  Building'
  <2>1. Moves(q)
    BY <1>3 DEF GetsReady, KeepsRun, KeepsCall, Moves
  <2>2. \A p \in Requests : run'[p].phase # "building"
    BY <1>3, <2>1, CalmMoves DEF GetsReady
  <2> QED
    BY <2>2 DEF Building
<1>4. ASSUME NEW q \in Requests, Handles(q), ~GetsReady(q)
      PROVE  Building'
  BY <1>2, <1>4 DEF Handles, Arrives, GoesOnAlone, Builds, StartsAfresh, TakesUp, StartsOver, Stops,
                    Building
<1>5. ASSUME NEW q \in Requests, NEW answer, Gives(q, answer)
      PROVE  Building'
  BY <1>2, <1>5 DEF Gives
<1>6. ASSUME NEW q \in Requests, NEW next \in Node, NEW st \in State,
             NEW reasons \in SUBSET {"degraded", "failed"}, Computes(q, next, st, reasons)
      PROVE  Building'
  BY <1>2, <1>6 DEF Computes, Steps
<1> QED
  BY <1>1, <1>3, <1>4, <1>5, <1>6, StepKinds DEF Fails, Replies

\* The checkpoint is the latest run's.
LEMMA FollowingStep ==
  ASSUME TypeOK, PhasesFit, CallsFit, RedisFits, Calm, Building, Following, Calm', [Next]_vars
  PROVE  Following'
<1> SUFFICES ASSUME redis'
             PROVE  \A p \in Requests : Follows(p)'
  BY DEF Following
<1>0. flips \in Nat /\ redis \in BOOLEAN /\ flips' <= 1
  BY TurnGraphAssumption DEF TypeOK, Calm
<1>1. CASE flips' = flips + 1 /\ redis' = ~redis /\ UNCHANGED <<run, graph, active, saved, audit>>
  <2>1. flips = 0
    BY <1>0, <1>1
  <2>2. saved = NoCheckpoint /\ graph # "checkpointed" /\ \A p \in Requests : ~run[p].threaded
    BY <1>1, <2>1 DEF RedisFits
  <2> QED
    BY <1>1, <2>2 DEF Follows
<1>2. CASE UNCHANGED <<redis, flips>>
  <2>0. redis /\ \A p \in Requests : Follows(p)
    BY <1>2 DEF Following
  <2>1. CASE Elsewhere
    BY <2>0, <2>1 DEF Elsewhere, Follows
  <2>2. ASSUME NEW q \in Requests
        PROVE  ~run[q].lost /\ ~RedisError(q)
    BY <1>0, <1>2, <2>0 DEF RedisFits, RedisError
  <2>3. ASSUME NEW q \in Requests, Moves(q), Follows(q)',
               \/ graph' = graph
               \/ GetsReady(q) /\ graph = "unbuilt",
               run'[q].phase \in Begun => run[q].phase \in Begun \cup {"unsent"} /\ saved' = saved
        PROVE  \A p \in Requests : Follows(p)'
    <3> SUFFICES ASSUME NEW p \in Requests
                 PROVE  Follows(p)'
      OBVIOUS
    <3>0. NoAnswer.awaiting = FALSE
      BY DEF NoAnswer
    <3>1. CASE p > q
      <4>1. run[p].phase = "unsent" /\ run'[p] = run[p]
        BY <2>3, <3>1, CalmMoves
      <4>2. run'[p].phase = "unsent" /\ run'[p].answer = NoAnswer
        BY <4>1 DEF PhasesFit, PhaseFits
      <4> QED
        BY <3>0, <4>2 DEF Follows, Working
    <3>2. CASE p < q
      <4>1. run[p].phase = "answered" /\ run'[p] = run[p] /\ graph # "unbuilt"
        BY <2>3, <3>2, CalmMoves DEF CallsFit
      <4>2. graph' = graph
        BY <2>3, <4>1
      <4>3. CASE run'[q].phase \in Begun
        <5>1. \A r \in Requests : r > p /\ run'[r].phase \in Begun \cup {"unsent"}
                                    => run[r].phase \in Begun \cup {"unsent"}
          BY <2>3, <4>3 DEF Moves, Touches
        <5> QED
          BY <2>0, <2>3, <4>1, <4>2, <4>3, <5>1 DEF Follows, Working
      <4>4. CASE run'[q].phase \notin Begun
        <5>1. q > p /\ run'[q].phase \notin Begun \cup {"unsent"}
          BY <2>3, <3>2, <4>4, TurnGraphAssumption DEF Moves, Requests
        <5> QED
          BY <2>0, <4>1, <4>2, <5>1 DEF Follows, Working
      <4> QED
        BY <4>3, <4>4
    <3> QED
      BY <2>3, <3>1, <3>2, CalmMoves
  <2>4. ASSUME NEW q \in Requests, Handles(q)
        PROVE  \A p \in Requests : Follows(p)'
    <3>0. /\ Moves(q) /\ PhaseFits(q, run[q]) /\ Follows(q) /\ ~RedisError(q)
          /\ NoAnswer.awaiting = FALSE
      BY <2>0, <2>2, <2>4 DEF Handles, Arrives, GoesOnAlone, Builds, GetsReady, StartsAfresh, TakesUp,
        StartsOver, Stops, KeepsRun, KeepsCall, Moves, Working, PhasesFit, NoAnswer
    <3>1. CASE Arrives(q)
      BY <2>3, <3>0, <3>1 DEF Arrives, Follows, Working, Begun
    <3>2. CASE GoesOnAlone(q)
      BY <3>2 DEF GoesOnAlone, Calm, Patient
    <3>3. CASE Builds(q)
      BY <2>3, <3>0, <3>3 DEF Builds, KeepsRun, PhaseFits, Follows, Working, Begun
    <3>4. CASE GetsReady(q)
      <4>0. run'[q].threaded <=> graph' = "checkpointed"
        BY <3>4 DEF GetsReady
      <4>5. run'[q].phase = "ready" /\ "ready" \notin Working
        BY <3>4 DEF GetsReady, Working
      <4>1. Follows(q)'
        BY <3>0, <3>4, <4>0, <4>5 DEF GetsReady, KeepsRun, PhaseFits, Follows, Working
      <4>2. graph' = graph \/ graph = "unbuilt"
        BY <3>4 DEF GetsReady, Building
      <4>3. run[q].phase \in Begun /\ saved' = saved
        BY <3>4 DEF GetsReady, Begun
      <4> QED
        BY <2>3, <3>0, <3>4, <4>1, <4>2, <4>3
    <3>5. CASE StartsAfresh(q)
      <4>1. /\ run'[q].answer = NoAnswer /\ run'[q].next = "intake" /\ run'[q].st = run[q].st
            /\ run'[q].phase = "running" /\ run'[q].threaded = run[q].threaded
            /\ run[q].threaded <=> graph = "checkpointed"
        BY <3>0, <3>5 DEF StartsAfresh, KeepsRun, PhaseFits, Working, Follows
      <4>2. run[q].threaded => saved'.next = "intake" /\ saved'.st = run[q].st
        BY <3>5 DEF StartsAfresh
      <4>3. graph' = graph
        BY <3>5 DEF StartsAfresh
      <4>4. Follows(q)'
        BY <3>0, <4>1, <4>2, <4>3 DEF Follows
      <4> QED
        BY <2>3, <3>0, <4>1, <4>3, <4>4 DEF Begun
    <3>6. CASE TakesUp(q)
      <4> DEFINE st == [saved.st EXCEPT !.turn = q]
      <4>1. st.draft = saved.st.draft /\ st.awaiting = saved.st.awaiting
        BY <3>6 DEF TakesUp, TypeOK, Checkpoint, State
      <4>2. run'[q].st = st
        BY <3>6 DEF TakesUp
      <4> HIDE DEF st
      <4>3. Follows(q)'
        BY <3>0, <3>6, <4>1, <4>2 DEF TakesUp, PhaseFits, Follows, Working
      <4> QED
        BY <2>3, <3>0, <3>6, <4>3 DEF TakesUp, Begun
    <3>7. CASE StartsOver(q)
      <4>1. run[q].phase \in Working /\ run[q].next = "generate"
        BY <3>0, <3>7 DEF StartsOver, TakenForRedis, SearchRefused, Working
      <4>2. graph = "checkpointed" /\ saved # NoCheckpoint => saved.next = "generate"
        BY <3>0, <4>1 DEF Follows
      <4>3. /\ run'[q].phase = "running" /\ ~run'[q].threaded /\ run'[q].answer = NoAnswer
            /\ graph' = graph /\ saved' = saved
        BY <3>0, <3>7, <4>1 DEF StartsOver, PhaseFits, Working
      <4>4. Follows(q)'
        BY <3>0, <4>2, <4>3 DEF Follows
      <4> QED
        BY <2>3, <3>0, <4>3, <4>4 DEF Begun
    <3>8. CASE Stops(q)
      BY <2>3, <3>0, <3>8 DEF Stops, PhaseFits, Follows, Working, Begun
    <3> QED
      BY <2>4, <3>1, <3>2, <3>3, <3>4, <3>5, <3>6, <3>7, <3>8 DEF Handles
  <2>5. ASSUME NEW q \in Requests, NEW answer, Gives(q, answer),
               answer.awaiting /\ run[q].threaded /\ saved # NoCheckpoint =>
                 \/ saved.next = "human_review" /\ saved.st.draft = answer.draft
                 \/ saved.next = "end" /\ saved.st.awaiting,
               answer.awaiting /\ ~run[q].threaded /\ graph = "checkpointed"
                   /\ saved # NoCheckpoint =>
                 saved.next = "generate"
        PROVE  \A p \in Requests : Follows(p)'
    <3>1. Moves(q) /\ Follows(q)
      BY <2>0, <2>5 DEF Gives, KeepsCall, Moves, Working
    <3>2. Follows(q)'
      BY <2>5, <3>1 DEF Gives, Follows, Working
    <3> QED
      BY <2>3, <2>5, <3>1, <3>2 DEF Gives, Begun
  <2>6. ASSUME NEW q \in Requests, Replies(q)
        PROVE  \A p \in Requests : Follows(p)'
    <3>1. /\ run[q].phase \in Working /\ Follows(q)
          /\ run[q].phase = "interrupted" => run[q].next = "human_review"
      BY <2>0, <2>6 DEF Replies, Working, PhasesFit, PhaseFits
    <3>2. TheAnswer(q).awaiting =>
            /\ TheAnswer(q).draft = run[q].st.draft
            /\ run[q].phase = "interrupted" \/ run[q].st.awaiting
      BY DEF TheAnswer
    <3> QED
      BY <2>5, <2>6, <3>1, <3>2 DEF Replies, Follows
  <2>7. ASSUME NEW q \in Requests, NEW next \in Node, NEW st \in State,
               NEW reasons \in SUBSET {"degraded", "failed"}, Computes(q, next, st, reasons)
        PROVE  \A p \in Requests : Follows(p)'
    <3>1. Steps(q, next, st, reasons) /\ Follows(q) /\ PhaseFits(q, run[q])
      BY <2>0, <2>7 DEF Computes, PhasesFit
    <3>2. Moves(q) /\ run'[q].answer = NoAnswer /\ NoAnswer.awaiting = FALSE
      BY <3>1 DEF Steps, KeepsCall, PhaseFits, Moves, NoAnswer
    <3>3. run[q].threaded => saved'.next = next /\ saved'.st = st
      BY <2>0, <3>1 DEF Steps
    <3>4. Follows(q)'
      BY <3>1, <3>2, <3>3 DEF Steps, Follows, Working
    <3> QED
      BY <2>3, <3>1, <3>2, <3>4 DEF Steps, Begun
  <2>8. ASSUME NEW q \in Requests, NEW answer \in Answer, Fails(q, answer)
        PROVE  \A p \in Requests : Follows(p)'
    BY <2>5, <2>8 DEF Fails, IsError
  <2> QED
    BY <2>1, <2>4, <2>6, <2>7, <2>8, StepKinds
<1> QED
  BY <1>1, <1>2, RedisTurns

\* A request that resumes comes behind the answer that awaits its verdict.
LEMMA BeforeIsAnswered ==
  ASSUME PhasesFit, CallsFit, NEW q \in Requests,
         run[q].phase \in Begun \cup Working, ~run[q].submit
  PROVE  /\ q > 1 /\ q - 1 \in Requests /\ run[q - 1].phase = "answered"
         /\ run[q - 1].answer.awaiting /\ run[q - 1].answer.status = "ok"
<1>1. q > 1 /\ run[q - 1].answer.awaiting
  BY DEF CallsFit, CallFits
<1>2. q - 1 \in Requests
  BY <1>1, TurnGraphAssumption DEF Requests
<1>3. NoAnswer.awaiting = FALSE
  BY DEF NoAnswer
<1> QED
  BY <1>1, <1>2, <1>3 DEF CallsFit, CallFits, PhasesFit, PhaseFits

\* Whoever meets a verdict was shown to the attorney.
LEMMA MeetingStep ==
  ASSUME TypeOK, PhasesFit, CallsFit, MemoriesFit, Calm, Following, Meeting, Calm', [Next]_vars
  PROVE  Meeting'
<1>0. Patient'
  BY DEF Calm
<1>1. ASSUME NEW p \in Requests, run'[p] = run[p]
      PROVE  VerdictMeets(p, run[p])'
  <2>1. run[p].phase \in Working /\ ~run[p].submit => run'[p - 1] = run[p - 1]
    BY BeforeIsAnswered, AnswersStand DEF Working
  <2> QED
    BY <1>0, <1>1, <2>1, ShownStays DEF Meeting, VerdictMeets
<1>2. CASE Elsewhere
  BY <1>1, <1>2 DEF Elsewhere, Meeting
<1>3. ASSUME NEW q \in Requests, Touches(q), VerdictMeets(q, run[q])'
      PROVE  Meeting'
  BY <1>1, <1>3 DEF Touches, Meeting
<1>4. ASSUME NEW q \in Requests, Handles(q)
      PROVE  Meeting'
  <2>0. VerdictMeets(q, run[q])
    BY DEF Meeting
  <2>1. CASE Arrives(q) \/ Builds(q) \/ GetsReady(q)
    BY <1>3, <2>1 DEF Arrives, Builds, GetsReady, VerdictMeets, Working
  <2>2. CASE GoesOnAlone(q)
    BY <1>0, <2>2 DEF GoesOnAlone, Patient
  <2>3. CASE StartsAfresh(q)
    BY <1>3, <2>3 DEF StartsAfresh, KeepsRun, KeepsCall, VerdictMeets
  <2>4. CASE TakesUp(q)
    <3>1. q > 1 /\ run[q - 1].answer.awaiting /\ run[q - 1].answer.status = "ok"
          /\ q - 1 \in Requests
      BY <2>4, BeforeIsAnswered DEF TakesUp, Begun
    <3>2. run[q - 1].phase = "answered"
      BY <2>4, BeforeIsAnswered DEF TakesUp, Begun
    <3>3. \A p \in Requests : p > q - 1 => run[p].phase \in Begun \cup {"unsent"}
      <4> SUFFICES ASSUME NEW p \in Requests, p > q - 1
                   PROVE  run[p].phase \in Begun \cup {"unsent"}
        OBVIOUS
      <4>1. p = q \/ p > q
        BY TurnGraphAssumption DEF Requests
      <4>2. Sent(q) /\ run[q].phase # "answered" /\ run[q].phase \in Begun
        BY <2>4 DEF TakesUp, Sent, Begun
      <4>3. Patient
        BY DEF Calm
      <4> QED
        BY <4>1, <4>2, <4>3, Alone
    <3>4. Follows(q) /\ Follows(q - 1) /\ graph = "checkpointed" /\ saved # NoCheckpoint
      BY <2>4, <3>1 DEF TakesUp, Following, Follows
    <3>11. run[q - 1].threaded \/ run[q - 1].answer.flagged
      BY <3>1 DEF MemoriesFit, MemoryFits, Calm
    <3>5. \/ saved.next = "human_review" /\ saved.st.draft = run[q - 1].answer.draft
          \/ saved.next = "end" /\ saved.st.awaiting
          \/ saved.next = "generate" /\ run[q - 1].answer.flagged
      BY <3>1, <3>3, <3>4, <3>11 DEF Follows
    <3> DEFINE st == [saved.st EXCEPT !.turn = q]
    <3>6. st.draft = saved.st.draft /\ st.awaiting = saved.st.awaiting
      BY <2>4 DEF TakesUp, TypeOK, Checkpoint, State
    <3>7. run'[q].st = st /\ run'[q].next = saved.next /\ run'[q].threaded
      BY <2>4 DEF TakesUp
    <3> HIDE DEF st
    <3>8. q - 1 \in 1..(q - 1) /\ run'[q - 1] = run[q - 1] /\ ~run'[q - 1].gone
      BY <1>0, <3>1, <3>2, AnswersStand, TurnGraphAssumption DEF Requests, Patient
    <3>9. saved.next = "human_review" => Shown(q, run[q].st.draft)'
      <4>1. saved.next = "human_review" => run'[q].st.draft = run'[q - 1].answer.draft
        BY <3>5, <3>6, <3>7, <3>8
      <4> QED
        BY <3>1, <3>8, <4>1 DEF Shown
    <3>10. VerdictMeets(q, run[q])'
      BY <3>5, <3>6, <3>7, <3>8, <3>9 DEF VerdictMeets, Reporting
    <3> QED
      BY <1>3, <2>4, <3>10 DEF TakesUp
  <2>5. CASE StartsOver(q)
    BY <1>3, <2>5 DEF StartsOver, KeepsCall, VerdictMeets
  <2>6. CASE Stops(q)
    BY <1>3, <2>0, <2>6 DEF Stops, KeepsCall, VerdictMeets, Working, Reporting
  <2> QED
    BY <1>4, <2>1, <2>2, <2>3, <2>4, <2>5, <2>6 DEF Handles
<1>5. ASSUME NEW q \in Requests, NEW answer, Gives(q, answer)
      PROVE  Meeting'
  BY <1>3, <1>5 DEF Gives, VerdictMeets, Working
<1>6. ASSUME NEW q \in Requests, NEW next \in Node, NEW st \in State,
             NEW reasons \in SUBSET {"degraded", "failed"}, Computes(q, next, st, reasons)
      PROVE  Meeting'
  <2>1. Steps(q, next, st, reasons) /\ VerdictMeets(q, run[q])
    BY <1>6 DEF Computes, Meeting
  <2>2. ASSUME ~run[q].submit, next \in Reporting, st.task = "contract_generation"
        PROVE  st.draft.id < 0 \/ Shown(q, st.draft) \/ st.awaiting
    <3>1. CASE run[q].next \in Reporting
      <4>1. /\ st.task = run[q].st.task /\ st.draft = run[q].st.draft
            /\ st.awaiting = run[q].st.awaiting
        BY <1>6, <3>1 DEF Computes, Carries, Reports, Records, Reporting
      <4> QED
        BY <2>1, <2>2, <3>1, <4>1 DEF Steps, VerdictMeets, Working
    <3>2. CASE run[q].next \notin Reporting
      <4>1. \/ st.awaiting = TRUE
            \/ run[q].next = "human_review" /\ run[q].pending # "none" /\ next = RouteReview(st)
               /\ Judged(st, run[q].st, q, run[q].pending)
        BY <1>6, <2>2, <3>2 DEF Computes, Reporting
      <4>2. ASSUME run[q].next = "human_review", run[q].pending # "none", next = RouteReview(st),
                   Judged(st, run[q].st, q, run[q].pending)
            PROVE  st.draft.id < 0 \/ Shown(q, st.draft)
        <5>1. Shown(q, run[q].st.draft)
          BY <2>1, <2>2, <4>2 DEF Steps, VerdictMeets, Working
        <5>2. st.draft # NoDraft
          BY <2>2, <4>2 DEF RouteReview, Reporting
        <5> QED
          BY <4>2, <5>1, <5>2 DEF Judged
      <4> QED
        BY <4>1, <4>2
    <3> QED
      BY <3>1, <3>2
  <2>3. Shown(q, st.draft) => Shown(q, st.draft)'
    <3> DEFINE draft == st.draft
    <3>1. ASSUME Shown(q, draft)
          PROVE  Shown(q, draft)'
      <4> HIDE DEF draft
      <4>1. PICK p \in 1..(q - 1) : run[p].answer.status = "ok" /\ run[p].answer.draft = draft
        BY <3>1 DEF Shown
      <4>2. p \in Requests /\ p # q
        BY <4>1, TurnGraphAssumption DEF Requests
      <4>3. run'[p] = run[p] /\ ~run'[p].gone
        BY <1>0, <2>1, <4>2 DEF Steps, Touches, Patient
      <4> QED
        BY <4>1, <4>3 DEF Shown
    <3> QED
      BY <3>1
  <2>4. VerdictMeets(q, run[q])'
    <3>1. /\ run'[q].submit = run[q].submit /\ run'[q].pending = "none" /\ run'[q].next = next
          /\ run'[q].st = st /\ run'[q].threaded = run[q].threaded /\ run[q].phase \in Working
      BY <2>1 DEF Steps, KeepsCall, Working
    <3>2. Shown(q, run[q].st.draft)' <=> Shown(q, st.draft)'
      BY <3>1 DEF Shown
    <3> QED
      BY <2>1, <2>2, <2>3, <3>1, <3>2 DEF VerdictMeets
  <2> QED
    BY <1>3, <2>1, <2>4 DEF Steps
<1> QED
  BY <1>2, <1>4, <1>5, <1>6, StepKinds DEF Fails, Replies

\* What is released was shown.
LEMMA ReleasedStep ==
  ASSUME TypeOK, PhasesFit, CallsFit, AllComposed, DraftsWait', Calm, Meeting, ReleasedWasShown,
         Calm', [Next]_vars
  PROVE  ReleasedWasShown'
<1> DEFINE Fit(q) == Released(q) /\ run[q].answer.task = "contract_generation" =>
                       run[q].answer.draft.id < 0 \/ Shown(q, run[q].answer.draft)
<1>0. ReleasedWasShown <=> \A q \in Requests : Fit(q)
  BY DEF ReleasedWasShown, Shown
<1>1. ReleasedWasShown' <=> \A q \in Requests : Fit(q)'
  BY DEF ReleasedWasShown, Shown
<1>2. Patient'
  BY DEF Calm
<1>3. ASSUME NEW p \in Requests, run'[p].answer = run[p].answer
      PROVE  Fit(p)'
  <2> DEFINE draft == run[p].answer.draft
  <2>1. Shown(p, draft) => Shown(p, run[p].answer.draft)'
    <3>1. Shown(p, draft) => Shown(p, draft)'
      <4> SUFFICES ASSUME Shown(p, draft)
                   PROVE  Shown(p, draft)'
        OBVIOUS
      <4>1. PICK r \in 1..(p - 1) : run[r].answer.status = "ok" /\ run[r].answer.draft = draft
        BY DEF Shown
      <4>2. r \in Requests /\ NoAnswer.status = "none"
        BY <4>1, TurnGraphAssumption DEF Requests, NoAnswer
      <4>3. run[r].phase = "answered"
        BY <4>1, <4>2 DEF PhasesFit, PhaseFits
      <4>4. run'[r] = run[r] /\ ~run'[r].gone
        BY <1>2, <4>2, <4>3, AnswersStand DEF Patient
      <4>5. run'[r].answer.draft = run'[p].answer.draft
        BY <1>3, <4>1, <4>4
      <4> QED
        BY <4>1, <4>4, <4>5, <1>3 DEF Shown
    <3> QED
      BY <1>3, <3>1 DEF Shown
  <2> QED
    BY <1>0, <1>3, <2>1 DEF Released
<1>4. CASE Elsewhere
  BY <1>1, <1>3, <1>4 DEF Elsewhere
<1>5. ASSUME NEW q \in Requests, Touches(q), Fit(q)'
      PROVE  ReleasedWasShown'
  BY <1>1, <1>3, <1>5 DEF Touches
<1>6. NoAnswer.status = "none"
  BY DEF NoAnswer
<1>7. ASSUME NEW q \in Requests, Handles(q)
      PROVE  ReleasedWasShown'
  <2>1. Touches(q) /\ (run'[q].answer = run[q].answer \/ run'[q].answer = NoAnswer)
    BY <1>7 DEF Handles, Arrives, GoesOnAlone, Builds, GetsReady, StartsAfresh, TakesUp, StartsOver,
                Stops, KeepsRun
  <2>2. Fit(q)'
    BY <1>3, <1>6, <2>1 DEF Released
  <2> QED
    BY <1>5, <2>1, <2>2
<1>8. ASSUME NEW q \in Requests, NEW answer \in Answer, Fails(q, answer)
      PROVE  ReleasedWasShown'
  <2>1. Fit(q)'
    BY <1>8 DEF Fails, IsError, Gives, Released
  <2> QED
    BY <1>5, <1>8, <2>1 DEF Fails, Gives
<1>9. ASSUME NEW q \in Requests, Replies(q)
      PROVE  ReleasedWasShown'
  <2>1. /\ Touches(q) /\ run'[q].answer = TheAnswer(q) /\ run'[q].submit = run[q].submit
        /\ run[q].phase \in Working
        /\ run[q].phase = "interrupted" \/ run[q].next = "end"
    BY <1>9 DEF Replies, Gives, KeepsCall, Working
  <2>2. ASSUME Released(q)', run'[q].answer.task = "contract_generation"
        PROVE  run'[q].answer.draft.id < 0 \/ Shown(q, run[q].answer.draft)'
    <3>1. ~run[q].submit
      BY <2>1, <2>2 DEF DraftsWait, DraftWaits, Released
    <3>2. ~TheAnswer(q).awaiting /\ TheAnswer(q).task = "contract_generation"
      BY <2>1, <2>2 DEF Released
    <3>3. /\ run[q].phase # "interrupted" /\ ~run[q].st.awaiting
          /\ run[q].st.task = "contract_generation" /\ TheAnswer(q).draft = run[q].st.report.draft
      BY <3>2 DEF TheAnswer
    <3>4. run[q].next = "end" /\ TheAnswer(q).draft = run[q].st.draft
      BY <2>1, <3>3 DEF AllComposed, Composed
    <3>5. run[q].st.draft.id < 0 \/ Shown(q, run[q].st.draft)
      BY <2>1, <3>1, <3>3, <3>4 DEF Meeting, VerdictMeets, Reporting
    <3>6. ASSUME Shown(q, run[q].st.draft)
          PROVE  Shown(q, run[q].answer.draft)'
      <4>1. PICK p \in 1..(q - 1) : /\ run[p].answer.status = "ok"
                                    /\ run[p].answer.draft = run[q].st.draft
        BY <3>6 DEF Shown
      <4>2. p \in Requests /\ p # q
        BY <4>1, TurnGraphAssumption DEF Requests
      <4>3. run'[p] = run[p] /\ ~run'[p].gone
        BY <1>2, <2>1, <4>2 DEF Touches, Patient
      <4>4. run'[p].answer.draft = run'[q].answer.draft /\ run'[p].answer.status = "ok"
        BY <2>1, <3>4, <4>1, <4>3
      <4> QED
        BY <4>3, <4>4 DEF Shown
    <3> QED
      BY <2>1, <3>4, <3>5, <3>6
  <2> QED
    BY <1>5, <2>1, <2>2
<1>10. ASSUME NEW q \in Requests, NEW next \in Node, NEW st \in State,
              NEW reasons \in SUBSET {"degraded", "failed"}, Computes(q, next, st, reasons)
       PROVE  ReleasedWasShown'
  <2>1. Touches(q) /\ run'[q].answer = run[q].answer
    BY <1>10 DEF Computes, Steps
  <2>2. Fit(q)'
    BY <1>3, <2>1
  <2> QED
    BY <1>5, <2>1, <2>2
<1> QED
  BY <1>4, <1>7, <1>8, <1>9, <1>10, StepKinds

\* Where a model call always yields text, notes end in a draft or come back.
LEMMA NotingStep ==
  ASSUME TypeOK, PhasesFit, CallsFit, AllComposed, Calm, Meeting', Noting,
         Calm', "empty" \notin Outputs, [Next]_vars
  PROVE  Noting'
<1> DEFINE Fit(r, q) ==
      interruptEnabled /\ r.verdict = "notes" /\ r.answer.status = "ok" =>
        r.answer.draft.from = q \/ r.answer.unincorporated = q
<1>0. interruptEnabled' = interruptEnabled /\ NoAnswer.status = "none"
  BY RedisTurns DEF NoAnswer
<1>1. \A q \in Requests : Unflagged(q) => NotesMeet(q, run[q]) /\ Fit(run[q], q)
  BY DEF Noting, NotesAccounted, Unflagged
<1>10. \A q \in Requests : Unflagged(q)' => Unflagged(q)
  <2> SUFFICES ASSUME NEW q \in Requests, q # 1
               PROVE  run[q - 1].answer.flagged => run'[q - 1].answer.flagged
    BY DEF Unflagged
  <2>1. q - 1 \in Requests /\ NoAnswer.flagged = FALSE
    BY TurnGraphAssumption DEF Requests, NoAnswer
  <2> QED
    BY <2>1, AnswersStand DEF PhasesFit, PhaseFits
<1>2. ASSUME \A q \in Requests : Unflagged(q) => NotesMeet(q, run'[q]) /\ Fit(run'[q], q)
      PROVE  Noting'
  <2>1. \A q \in Requests : Unflagged(q)' => NotesMeet(q, run[q])' /\ Fit(run'[q], q)
    BY <1>0, <1>2, <1>10 DEF NotesMeet
  <2>2. NotesAccounted'
    BY <1>0, <2>1 DEF NotesAccounted, Unflagged
  <2> QED
    BY <2>1, <2>2 DEF Noting
<1>3. CASE Elsewhere
  BY <1>1, <1>2, <1>3 DEF Elsewhere
<1>4. ASSUME NEW q \in Requests, Touches(q),
             Unflagged(q) => NotesMeet(q, run'[q]) /\ Fit(run'[q], q)
      PROVE  Noting'
  <2>1. \A p \in Requests : Unflagged(p) => NotesMeet(p, run'[p]) /\ Fit(run'[p], p)
    BY <1>1, <1>4 DEF Touches
  <2> QED
    BY <1>2, <2>1
<1>5. ASSUME NEW q \in Requests, Unflagged(q), Handles(q)
      PROVE  Noting'
  <2>0. NotesMeet(q, run[q]) /\ Fit(run[q], q) /\ PhaseFits(q, run[q]) /\ CallFits(q, run[q])
    BY <1>1, <1>5 DEF PhasesFit, CallsFit
  <2>1. CASE Arrives(q) \/ Builds(q) \/ GetsReady(q)
    <3>1. run'[q].phase \notin Working /\ run'[q].answer = NoAnswer /\ Touches(q)
      BY <2>0, <2>1 DEF Arrives, Builds, GetsReady, KeepsRun, PhaseFits, Working
    <3> QED
      BY <1>0, <1>4, <3>1 DEF NotesMeet
  <2>2. CASE GoesOnAlone(q)
    BY <2>2 DEF GoesOnAlone, Calm, Patient
  <2>3. CASE StartsAfresh(q) \/ StartsOver(q)
    <3>1. /\ run'[q].verdict = "none" /\ Touches(q)
      BY <2>0, <2>3 DEF StartsAfresh, StartsOver, KeepsRun, KeepsCall, CallFits
    <3> QED
      BY <1>4, <3>1 DEF NotesMeet
  <2>4. CASE TakesUp(q)
    <3>1. /\ run'[q].phase = "running" /\ ~run'[q].submit /\ run'[q].verdict = run[q].verdict
          /\ run'[q].pending = run[q].verdict /\ run'[q].answer = NoAnswer /\ Touches(q)
          /\ run'[q].next = saved.next /\ run'[q].st = [saved.st EXCEPT !.turn = q]
          /\ saved # NoCheckpoint
      BY <2>0, <2>4 DEF TakesUp, KeepsCall, PhaseFits
    <3>2. interruptEnabled => ~run'[q].st.awaiting
      <4> DEFINE st == [saved.st EXCEPT !.turn = q]
      <4>1. st.awaiting = saved.st.awaiting
        BY <3>1 DEF TypeOK, Checkpoint, State
      <4>2. interruptEnabled => ~saved.st.awaiting
        BY <3>1 DEF AllComposed, Composed
      <4> HIDE DEF st
      <4>3. run'[q].st = st
        BY <3>1 DEF st
      <4> QED
        BY <4>1, <4>2, <4>3
    <3>3. /\ run'[q].verdict = "notes" /\ interruptEnabled => run'[q].next = "human_review"
      <4>1. ~run'[q - 1].answer.flagged
        BY <1>5, <2>0, <2>4, BeforeIsAnswered, AnswersStand DEF Unflagged, TakesUp, Begun
      <4> QED
        BY <3>1, <3>2, <4>1 DEF Meeting, VerdictMeets, Working
    <3>4. NotesMeet(q, run'[q])
      BY <3>1, <3>3 DEF NotesMeet
    <3> QED
      BY <1>0, <1>4, <3>1, <3>4
  <2>5. CASE Stops(q)
    <3>1. /\ Touches(q) /\ run'[q].verdict = run[q].verdict /\ run'[q].next = "human_review"
          /\ run[q].next = "human_review" /\ run[q].pending = "none" /\ run'[q].pending = "none"
          /\ run'[q].st = run[q].st /\ run[q].phase \in Working /\ run'[q].answer = NoAnswer
      BY <2>0, <2>5 DEF Stops, KeepsCall, Working, PhaseFits
    <3>2. NotesMeet(q, run'[q])
      BY <2>0, <3>1 DEF NotesMeet
    <3> QED
      BY <1>0, <1>4, <3>1, <3>2
  <2> QED
    BY <1>5, <2>1, <2>2, <2>3, <2>4, <2>5 DEF Handles
<1>6. ASSUME NEW q \in Requests, NEW answer \in Answer, Fails(q, answer)
      PROVE  Noting'
  BY <1>4, <1>6 DEF Fails, IsError, Gives, Working, NotesMeet
<1>7. ASSUME NEW q \in Requests, Unflagged(q), Replies(q)
      PROVE  Noting'
  <2>1. /\ Touches(q) /\ run'[q].answer = TheAnswer(q) /\ run'[q].verdict = run[q].verdict
        /\ run[q].phase \in Working /\ run'[q].phase \notin Working
        /\ run[q].phase = "interrupted" \/ (run[q].phase = "running" /\ run[q].next = "end")
        /\ NotesMeet(q, run[q]) /\ Composed(run[q].next, run[q].st)
        /\ run[q].phase = "interrupted" => run[q].next = "human_review"
    BY <1>1, <1>7 DEF Replies, Gives, KeepsCall, Working, AllComposed, PhasesFit, PhaseFits
  <2>2. ASSUME interruptEnabled, run'[q].verdict = "notes"
        PROVE  TheAnswer(q).draft.from = q \/ TheAnswer(q).unincorporated = q
    <3>1. CASE run[q].phase = "interrupted"
      <4>1. run[q].st.draft.from = q
        BY <2>1, <2>2, <3>1 DEF NotesMeet
      <4> QED
        BY <3>1, <4>1 DEF TheAnswer
    <3>2. CASE run[q].phase = "running" /\ run[q].next = "end"
      <4>1. ~run[q].st.awaiting /\ run[q].st.report.draft = run[q].st.draft
        BY <2>1, <2>2, <3>2 DEF Composed
      <4>2. run[q].st.draft.from = q \/ run[q].st.report.unincorporated = q
        BY <2>1, <2>2, <3>2 DEF NotesMeet
      <4> QED
        BY <3>2, <4>1, <4>2 DEF TheAnswer
    <3> QED
      BY <2>1, <3>1, <3>2
  <2>3. NotesMeet(q, run'[q])
    BY <2>1 DEF NotesMeet
  <2> QED
    BY <1>4, <2>1, <2>2, <2>3
<1>8. ASSUME NEW q \in Requests, Unflagged(q), NEW next \in Node, NEW st \in State,
             NEW reasons \in SUBSET {"degraded", "failed"}, Computes(q, next, st, reasons)
      PROVE  Noting'
  <2>1. /\ Steps(q, next, st, reasons) /\ NotesMeet(q, run[q]) /\ Composed(run[q].next, run[q].st)
        /\ run'[q].answer = NoAnswer
    BY <1>1, <1>8 DEF Computes, Steps, AllComposed, Working, PhasesFit, PhaseFits
  <2>2. ASSUME interruptEnabled, run[q].verdict = "notes"
        PROVE  \/ next = "generate" /\ st.notes = q
               \/ next \notin {"intake", "generate"} /\ st.draft.from = q
               \/ next = "output_formatter" /\ st.unincorporated = q
               \/ next \in {"memory_writer", "end"} /\ st.report.unincorporated = q
    <3>0. \/ run[q].next = "human_review" /\ run[q].pending = "notes"
          \/ run[q].next = "generate" /\ run[q].st.notes = q
          \/ /\ run[q].next \notin {"intake", "generate"} /\ run[q].pending = "none"
             /\ run[q].st.draft.from = q
          \/ run[q].next = "output_formatter" /\ run[q].st.unincorporated = q
          \/ run[q].next \in {"memory_writer", "end"} /\ run[q].st.report.unincorporated = q
      BY <2>1, <2>2 DEF NotesMeet, Steps, Working
    <3>1. CASE run[q].next = "human_review" /\ run[q].pending = "notes"
      <4>1. next = RouteReview(st) /\ Judged(st, run[q].st, q, "notes")
        BY <1>8, <2>2, <3>1 DEF Computes
      <4>2. run[q].st.draft # NoDraft
        BY <2>1, <3>1 DEF Composed
      <4> QED
        BY <4>1, <4>2 DEF Judged, RouteReview
    <3>2. CASE run[q].next = "generate" /\ run[q].st.notes = q
      <4>1. next = "risk_assessor" /\ Drafts(st, run[q].st, reasons)
        BY <1>8, <3>2 DEF Computes
      <4> QED
        BY <3>2, <4>1 DEF Drafts
    <3>3. CASE /\ run[q].next \notin {"intake", "generate"} /\ run[q].pending = "none"
               /\ run[q].st.draft.from = q
      <4>1. next \notin {"intake", "generate"} /\ st.draft.from = q
        BY <1>8, <2>2, <3>3 DEF Computes, Reports, Records
      <4> QED
        BY <4>1
    <3>4. CASE run[q].next = "output_formatter" /\ run[q].st.unincorporated = q
      BY <1>8, <3>4 DEF Computes, Reports
    <3>5. CASE run[q].next \in {"memory_writer", "end"} /\ run[q].st.report.unincorporated = q
      BY <1>8, <3>5 DEF Computes, Records
    <3> QED
      BY <3>0, <3>1, <3>2, <3>3, <3>4, <3>5
  <2>3. NotesMeet(q, run'[q])
    BY <2>1, <2>2 DEF Steps, KeepsCall, NotesMeet
  <2> QED
    BY <1>0, <1>4, <2>1, <2>3 DEF Steps
<1>9. ASSUME NEW q \in Requests, ~Unflagged(q), Touches(q)
      PROVE  Noting'
  BY <1>4, <1>9
<1>11. ASSUME NEW q \in Requests, Handles(q) \/ Replies(q)
       PROVE  Touches(q)
  BY <1>11 DEF Handles, Replies, Gives, Arrives, GoesOnAlone, Builds, GetsReady, StartsAfresh,
               TakesUp, StartsOver, Stops
<1>12. ASSUME NEW q \in Requests, NEW next, NEW st, NEW reasons, Computes(q, next, st, reasons)
       PROVE  Touches(q)
  BY <1>12 DEF Computes, Steps
<1> QED
  BY <1>3, <1>5, <1>6, <1>7, <1>8, <1>9, <1>11, <1>12, StepKinds

-----------------------------------------------------------------------------
(* The invariant of the session. *)

LEMMA SessionInit ==
  ASSUME Init
  PROVE  SessionIInv
<1>1. /\ Unsent.phase = "unsent" /\ Unsent.submit = FALSE /\ Unsent.threaded = FALSE
      /\ Unsent.lost = FALSE /\ Unsent.fellback = FALSE /\ Unsent.gone = FALSE
      /\ Unsent.answer = NoAnswer
  BY DEF Unsent
<1>2. NoAnswer.status = "none" /\ NoAnswer.awaiting = FALSE
  BY DEF NoAnswer
<1>3. \A q \in Requests : run[q] = Unsent
  BY DEF Init
<1>4. saved = NoCheckpoint /\ graph = "unbuilt"
  BY DEF Init
<1>5. AllComposed /\ CallsFit /\ RedisFits
  BY <1>1, <1>2, <1>3, <1>4 DEF AllComposed, CallsFit, CallFits, Sent, RedisFits, Working, Begun
<1>6. FailuresFit /\ MemoriesFit
  BY <1>1, <1>2, <1>3, <1>4 DEF FailuresFit, FailureFits, MemoriesFit, MemoryFits, Working
<1>7. Building /\ Following /\ Meeting
  BY <1>1, <1>2, <1>3, <1>4 DEF Building, Following, Follows, Meeting, VerdictMeets, Working
<1>8. ReleasedWasShown /\ Noting
  BY <1>1, <1>2, <1>3 DEF ReleasedWasShown, Released, Noting, NotesMeet, NotesAccounted, Working
<1> QED
  BY <1>5, <1>6, <1>7, <1>8, InitFits DEF SessionIInv, SessionFits

\* A calm session stays as it is while it stays calm.
LEMMA SessionStep ==
  ASSUME IInv, IInv', AllComposed, CallsFit, CallsFit', RedisFits, MemoriesFit, SessionFits,
         [Next]_vars
  PROVE  SessionFits'
<1> SUFFICES ASSUME Calm'
             PROVE  /\ Building' /\ Following' /\ Meeting' /\ ReleasedWasShown'
                    /\ "empty" \notin Outputs => Noting'
  BY DEF SessionFits
<1>0. TypeOK /\ PhasesFit /\ DraftsWait'
  BY DEF IInv
<1>1. Calm
  BY <1>0, ConditionsLast
<1>2. Building /\ Following /\ Meeting /\ ReleasedWasShown /\ ("empty" \notin Outputs => Noting)
  BY <1>1 DEF SessionFits
<1>3. Building'
  BY <1>0, <1>1, <1>2, BuildingStep
<1>4. Following'
  BY <1>0, <1>1, <1>2, FollowingStep
<1>5. Meeting'
  BY <1>0, <1>1, <1>2, MeetingStep
<1>6. ReleasedWasShown'
  BY <1>0, <1>1, <1>2, ReleasedStep
<1>7. "empty" \notin Outputs => Noting'
  BY <1>0, <1>1, <1>2, <1>5, NotingStep
<1> QED
  BY <1>3, <1>4, <1>5, <1>6, <1>7

\* The invariant is inductive, whatever the client and Redis do: its parts are
\* conditional on what has happened so far, not on what may.
THEOREM SessionInvariance == Spec => []SessionIInv
<1>1. Init => SessionIInv
  BY SessionInit
<1>2. SessionIInv /\ [Next]_vars => SessionIInv'
  <2> SUFFICES ASSUME SessionIInv, [Next]_vars
               PROVE  SessionIInv'
    OBVIOUS
  <2>1. /\ IInv /\ TypeOK /\ PhasesFit /\ AllComposed /\ CallsFit /\ RedisFits /\ FailuresFit
        /\ MemoriesFit /\ SessionFits
    BY DEF SessionIInv, IInv
  <2>2. IInv'
    BY <2>1, TypeStep, PhasesStep, ReasonsStep, WaitStep, AuditsStep, AuditStep DEF IInv
  <2>3. AllComposed' /\ CallsFit' /\ RedisFits'
    BY <2>1, ComposedStep, CallsStep, RedisStep
  <2>4. FailuresFit' /\ MemoriesFit'
    BY <2>1, FailuresStep, MemoriesStep
  <2>5. SessionFits'
    BY <2>1, <2>2, <2>3, SessionStep
  <2> QED
    BY <2>2, <2>3, <2>4, <2>5 DEF SessionIInv
<1> QED
  BY <1>1, <1>2, PTL DEF Spec

\* What a drafting session ends with was shown to the attorney, or typed by them: as
\* long as nobody has given up and Redis has changed once at most, the verdict meets
\* the checkpoint of the draft it was given on.  (An abandoned run breaks it: the
\* checkpoint it goes on writing is then the thread's latest.)
THEOREM CalmSessionsReleaseWhatWasShown == Spec => [](Calm => ReleasedWasShown)
<1>1. SessionIInv => (Calm => ReleasedWasShown)
  BY DEF SessionIInv, SessionFits
<1> QED
  BY <1>1, SessionInvariance, PTL

\* Notes that the attorney gave in such a session, on a draft that came without the
\* banner, end in a draft made with them or come back in the report, where a model call
\* yields some text or an error: route_review reads the draft, and an empty one sends the
\* run back with the notes of before.  (A draft with the banner may be a stateless
\* rerun's: a refused search is taken for a loss of Redis, and the notes then meet the
\* checkpoint of the run before it.)
THEOREM CalmSessionsKeepNotes ==
  ASSUME "empty" \notin Outputs
  PROVE  Spec => [](Calm => NotesAccounted)
<1>1. SessionIInv => (Calm => NotesAccounted)
  BY DEF SessionIInv, SessionFits, Noting
<1> QED
  BY <1>1, SessionInvariance, PTL

\* turn_log counts a submit as failed when it answers an error, or the error string,
\* and never else: while Redis has not changed, whatever the client does, and through
\* any outage where model calls do not fail.  (The fallback keeps the reasons of the
\* run that Redis ended.)
THEOREM SubmitsFailWhenUnanswered ==
  Spec => [](flips = 0 \/ "error" \notin Outputs => SubmitFailedMeansUnanswered)
<1>1. SessionIInv => (flips = 0 \/ "error" \notin Outputs => SubmitFailedMeansUnanswered)
  BY DEF SessionIInv, FailuresFit, FailureFits, SubmitFailedMeansUnanswered
<1> QED
  BY <1>1, SessionInvariance, PTL

\* An answer whose session nothing will remember says so: through any outage as long
\* as nobody has given up, and whoever gives up while Redis has not changed.  (Two
\* requests that build the graph at once, across a change, can disagree on _graph and
\* _checkpointer_active.)
THEOREM ForgettingSaysSo == Spec => [](Patient \/ flips = 0 => ForgettingIsAnnounced)
<1>1. SessionIInv => (Patient \/ flips = 0 => ForgettingIsAnnounced)
  BY DEF SessionIInv, MemoriesFit, MemoryFits, ForgettingIsAnnounced
<1> QED
  BY <1>1, SessionInvariance, PTL

\* Calm is what every session is whose client never gives up and that sees Redis change
\* once at most.
THEOREM PatientSessionsAreCalm ==
  ASSUME ~Impatient, Flips <= 1
  PROVE  Spec => []Calm
<1>1. Init => Calm
  BY DEF Init, Calm, Patient, Unsent
<1>2. SessionIInv /\ Calm /\ [Next]_vars => Calm'
  <2> SUFFICES ASSUME SessionIInv, Calm, [Next]_vars
               PROVE  Calm'
    OBVIOUS
  <2>0. TypeOK /\ PhasesFit /\ Patient
    BY DEF SessionIInv, IInv, Calm
  <2>1. flips' <= 1
    <3>1. flips' \in 0..Flips
      BY <2>0, SurroundingsKeepTypes
    <3> QED
      BY <3>1, TurnGraphAssumption
  <2>2. ASSUME NEW q \in Requests, Touches(q), ~run'[q].gone
        PROVE  Patient'
    BY <2>0, <2>2 DEF Touches, Patient
  <2>3. Elsewhere => Patient'
    BY <2>0 DEF Elsewhere, Patient
  <2>4. ASSUME NEW q \in Requests, Handles(q)
        PROVE  Patient'
    BY <2>0, <2>2, <2>4 DEF Handles, Arrives, GoesOnAlone, Builds, GetsReady, StartsAfresh, TakesUp,
                            StartsOver, Stops, KeepsRun, KeepsCall, Patient
  <2>5. ASSUME NEW q \in Requests, NEW answer, Gives(q, answer)
        PROVE  Patient'
    BY <2>0, <2>2, <2>5 DEF Gives, KeepsCall, Patient
  <2>6. ASSUME NEW q \in Requests, NEW next \in Node, NEW st \in State,
               NEW reasons \in SUBSET {"degraded", "failed"}, Computes(q, next, st, reasons)
        PROVE  Patient'
    BY <2>0, <2>2, <2>6 DEF Computes, Steps, KeepsCall, Patient
  <2>7. Patient'
    BY <2>0, <2>3, <2>4, <2>5, <2>6, StepKinds DEF Fails, Replies
  <2> QED
    BY <2>1, <2>7 DEF Calm
<1> QED
  BY <1>1, <1>2, SessionInvariance, PTL DEF Spec
=============================================================================
