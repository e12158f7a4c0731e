------------------------------ MODULE TurnGraph ------------------------------
(***************************************************************************)
(* One session of the legal assistant: POST /api/query and                 *)
(* /api/query/{id}/resume (api/routes/query.py) drive the supervisor graph *)
(* (graph/graph.py) through its nodes, LangGraph writes a checkpoint to    *)
(* Redis after every one of them under the session's thread id, and        *)
(* human_review interrupts the run until a resume brings the attorney's    *)
(* verdict.  Redis may fail at any point: a submit then reruns the whole   *)
(* turn on a graph without a checkpointer, a resume answers an error.  A   *)
(* refused search is taken for the same and does the same.                 *)
(*                                                                         *)
(* Every request is served by a thread of its own and the API takes no     *)
(* lock on a session, so a run whose client has given up (300 s for a      *)
(* submit, against 600 s for one model call) goes on writing checkpoints   *)
(* under the thread that the next request uses.                            *)
(***************************************************************************)
EXTENDS Integers, FiniteSets

CONSTANTS MaxRequests,      \* bound: how many requests the session sends
          Tasks,            \* task types that occur
          MaxIterations,    \* max_review_iterations
          Interrupting,     \* the values of interrupt_enabled that occur
          Flips,            \* bound: how often Redis goes down or comes back
          Impatient,        \* whether the client ever gives up on a request
          Outputs           \* what a model call may yield

ASSUME TurnGraphAssumption ==
  /\ MaxRequests \in Nat
  /\ Tasks \subseteq {"contract_generation", "contract_review", "research"}
  /\ MaxIterations \in Nat
  /\ Flips \in Nat
  /\ Interrupting \subseteq BOOLEAN /\ Impatient \in BOOLEAN
  /\ Outputs # {} /\ Outputs \subseteq {"text", "empty", "error"}

Requests == 1..MaxRequests  \* in the order they are sent

VARIABLES interruptEnabled, \* settings.interrupt_enabled
          redis,   \* whether Redis answers
          flips,   \* how often that has changed
          graph,   \* _graph: not built yet, with a checkpointer, or without
          active,  \* _checkpointer_active
          saved,   \* the latest checkpoint of the session's thread
          run,     \* the handler of each request
          audit    \* how many audit_log rows carry each request's turn_id

vars == <<interruptEnabled, redis, flips, graph, active, saved, run, audit>>

(***************************************************************************)
(* A draft is known by the request that had it generated and by which of   *)
(* the request's two runs did (the second is the stateless fallback); a    *)
(* run generates at most once.  `from' is the request whose notes it was   *)
(* given.  0 is "no such request"; a negative id is text the attorney sent *)
(* as revised_response.  `error' says that the text is the "Error: ..."    *)
(* string a failed model call leaves in llm_response.                      *)
(***************************************************************************)
Request0 == Requests \cup {0}
Draft == [id : Int, from : Request0, error : BOOLEAN]
NoDraft == [id |-> 0, from |-> 0, error |-> FALSE]

Report == [turn : Request0, draft : Draft, unincorporated : Request0, degraded : BOOLEAN]
NoReport == [turn |-> 0, draft |-> NoDraft, unincorporated |-> 0, degraded |-> FALSE]

Node == {"intake", "generate", "risk_assessor", "human_review", "output_formatter",
         "memory_writer", "end"}

(* LegalAgentState: the keys that control or the properties depend on. *)
State == [turn : Requests, task : Tasks, interactive : BOOLEAN, draft : Draft,
          notes : Request0, iterations : Nat, unincorporated : Request0,
          awaiting : BOOLEAN, degraded : BOOLEAN, report : Report]

(* submit_query's initial_state. *)
InitialState(q, task, interactive, degraded) ==
  [turn |-> q, task |-> task, interactive |-> interactive, draft |-> NoDraft, notes |-> 0,
   iterations |-> 0, unincorporated |-> 0, awaiting |-> FALSE, degraded |-> degraded,
   report |-> NoReport]

Checkpoint == [next : Node, st : State]
NoCheckpoint == <<>>

Verdict == {"none", "approve", "revise", "notes", "reject"}

Answer == [status : {"none", "ok", "error"}, task : Tasks \cup {""}, awaiting : BOOLEAN, draft : Draft,
           unincorporated : Request0, turn : Request0, flagged : BOOLEAN,
           outcome : {"ok", "degraded", "failed"}]
NoAnswer == [status |-> "none", task |-> "", awaiting |-> FALSE, draft |-> NoDraft,
             unincorporated |-> 0, turn |-> 0, flagged |-> FALSE, outcome |-> "ok"]
ErrorAnswer == [NoAnswer EXCEPT !.status = "error", !.outcome = "failed"]

(***************************************************************************)
(* `pending' is the verdict no node has consumed yet, `lost' that a        *)
(* checkpoint write failed, `reasons' the classes of the reason codes      *)
(* recorded on this request's span, `verdict' what the client sent, `gone' *)
(* that it has given up.                                                   *)
(***************************************************************************)
Phase == {"unsent", "arrived", "building", "ready", "running", "interrupted", "answered"}

Run == [phase : Phase, submit : BOOLEAN, verdict : Verdict, pending : Verdict,
        threaded : BOOLEAN, next : Node, st : State \cup {NoCheckpoint}, lost : BOOLEAN,
        fellback : BOOLEAN, reasons : SUBSET {"degraded", "failed"}, gone : BOOLEAN, answer : Answer]

Unsent == [phase |-> "unsent", submit |-> FALSE, verdict |-> "none", pending |-> "none",
           threaded |-> FALSE, next |-> "intake", st |-> NoCheckpoint, lost |-> FALSE,
           fellback |-> FALSE, reasons |-> {}, gone |-> FALSE, answer |-> NoAnswer]

(* What is left of a handler that has answered. *)
Answered(r, answer) ==
  [Unsent EXCEPT !.phase = "answered", !.submit = r.submit, !.verdict = r.verdict,
                 !.threaded = r.threaded, !.gone = r.gone, !.answer = answer]

Init ==
  /\ interruptEnabled \in Interrupting
  /\ redis \in BOOLEAN
  /\ flips = 0
  /\ graph = "unbuilt"
  /\ active = FALSE
  /\ saved = NoCheckpoint
  /\ run = [q \in Requests |-> Unsent]
  /\ audit = [q \in Requests |-> 0]

-----------------------------------------------------------------------------
(* The client: it waits for each request or gives up on it, and sends a
   verdict only from the review loop that an awaiting answer opens. *)

Sent(q) == run[q].phase # "unsent"
Settled(q) == run[q].phase = "answered" \/ run[q].gone
NextRequest(q) == ~ Sent(q) /\ \A p \in Requests : p < q => Settled(p)

Submit(q) ==
  /\ NextRequest(q)
  /\ \E task \in Tasks, interactive \in BOOLEAN :
       /\ task # "contract_review" => interactive
       /\ run' = [run EXCEPT ![q] = [Unsent EXCEPT !.phase = "arrived", !.submit = TRUE,
                                       !.st = InitialState(q, task, interactive, FALSE)]]
  /\ UNCHANGED <<interruptEnabled, redis, flips, graph, active, saved, audit>>

Resume(q) ==
  /\ NextRequest(q)
  /\ q > 1
  /\ ~ run[q - 1].gone
  /\ run[q - 1].answer.awaiting
  /\ \E verdict \in Verdict \ {"none"} :
       run' = [run EXCEPT ![q] = [Unsent EXCEPT !.phase = "arrived", !.verdict = verdict]]
  /\ UNCHANGED <<interruptEnabled, redis, flips, graph, active, saved, audit>>

GiveUp(q) ==
  /\ Impatient
  /\ Sent(q)
  /\ ~ Settled(q)
  /\ run' = [run EXCEPT ![q].gone = TRUE]
  /\ UNCHANGED <<interruptEnabled, redis, flips, graph, active, saved, audit>>

RedisFlips ==
  /\ flips < Flips
  /\ flips' = flips + 1
  /\ redis' = ~ redis
  /\ UNCHANGED <<interruptEnabled, graph, active, saved, run, audit>>

(* The thread's TTL runs out, or Redis restarts without its data. *)
CheckpointExpires ==
  /\ saved # NoCheckpoint
  /\ saved' = NoCheckpoint
  /\ UNCHANGED <<interruptEnabled, redis, flips, graph, active, run, audit>>

-----------------------------------------------------------------------------
(* _get_graph: built inside the first request and cached.  Nothing stops two
   requests from building it at the same time. *)

(* _record_startup_checkpointer_degradation. *)
StartupReasons == IF active THEN {} ELSE {"degraded"}

FindsGraph(q) ==
  /\ run[q].phase = "arrived"
  /\ graph # "unbuilt"
  /\ run' = [run EXCEPT ![q].phase = "ready", ![q].threaded = graph = "checkpointed",
                        ![q].reasons = StartupReasons]
  /\ UNCHANGED <<interruptEnabled, redis, flips, graph, active, saved, audit>>

BuildsCheckpointer(q) ==
  /\ run[q].phase = "arrived"
  /\ graph = "unbuilt"
  /\ active' = redis
  /\ run' = [run EXCEPT ![q].phase = "building", ![q].threaded = redis]
  /\ UNCHANGED <<interruptEnabled, redis, flips, graph, saved, audit>>

PublishesGraph(q) ==
  /\ run[q].phase = "building"
  /\ graph' = IF run[q].threaded THEN "checkpointed" ELSE "stateless"
  /\ run' = [run EXCEPT ![q].phase = "ready", ![q].reasons = StartupReasons]
  /\ UNCHANGED <<interruptEnabled, redis, flips, active, saved, audit>>

-----------------------------------------------------------------------------
(* The handlers around the graph. *)

(* graph.invoke(initial_state): every key but chat_history is overwritten. *)
SubmitStarts(q) ==
  /\ run[q].phase = "ready" /\ run[q].submit
  /\ run[q].threaded => redis
  /\ saved' = IF run[q].threaded THEN [next |-> "intake", st |-> run[q].st] ELSE saved
  /\ run' = [run EXCEPT ![q].phase = "running"]
  /\ UNCHANGED <<interruptEnabled, redis, flips, graph, active, audit>>

(* get_state and the invoke that follows: the thread's latest checkpoint,
   with turn_id restamped, goes on at its next node. *)
ResumeStarts(q) ==
  /\ run[q].phase = "ready" /\ ~ run[q].submit
  /\ run[q].threaded /\ redis /\ saved # NoCheckpoint
  /\ run' = [run EXCEPT ![q].phase = "running", ![q].pending = run[q].verdict,
                        ![q].next = saved.next, ![q].st = [saved.st EXCEPT !.turn = q]]
  /\ UNCHANGED <<interruptEnabled, redis, flips, graph, active, saved, audit>>

(* Mutant: a degradation is looked for before a failure. *)
OutcomeMildest(q) == CASE "degraded" \in run[q].reasons -> "degraded"
                       [] run[q].reasons = {"failed"} -> "failed"
                       [] OTHER -> "ok"

(* derive_outcome. *)
Outcome(q) == CASE "failed" \in run[q].reasons -> "failed"
                [] run[q].reasons = {"degraded"} -> "degraded"
                [] OTHER -> "ok"

(* "Session expired or not found": get_state raises, or finds nothing. *)
ResumeFindsNothing(q) ==
  /\ run[q].phase = "ready" /\ ~ run[q].submit
  /\ ~ (run[q].threaded /\ redis /\ saved # NoCheckpoint)
  /\ LET loaded == run[q].threaded /\ redis
     IN  run' = [run EXCEPT ![q] =
           Answered(@, [ErrorAnswer EXCEPT !.outcome = IF loaded THEN Outcome(q) ELSE @])]
  /\ UNCHANGED <<interruptEnabled, redis, flips, graph, active, saved, audit>>

(* A Redis error leaves graph.invoke: at its first read, or for a checkpoint
   write, which runs in the background, by the time the run ends. *)
RedisError(q) ==
  \/ run[q].phase = "ready" /\ run[q].submit /\ run[q].threaded /\ ~ redis
  \/ run[q].phase \in {"running", "interrupted"} /\ run[q].lost

(* rag_retriever lets a refused connection to Qdrant or to the embedding model
   out of the graph.  Its message says "connection refused", and
   _is_redis_failure goes by the message too, so the handler takes it for a
   loss of Redis.  What the run had written to the thread stays there. *)
SearchRefused(q) == run[q].phase = "running" /\ run[q].next = "generate"

(* _checkpointer_active and _is_redis_failure(e), in a submit's first run. *)
TakenForRedis(q) ==
  /\ RedisError(q) \/ SearchRefused(q)
  /\ run[q].submit /\ active /\ ~ run[q].fellback

(* Mutant: no reason is recorded. *)
FallsBackUnrecorded(q) ==
  /\ TakenForRedis(q)
  /\ run' = [run EXCEPT ![q].phase = "running", ![q].next = "intake", ![q].threaded = FALSE,
                        ![q].lost = FALSE, ![q].fellback = TRUE,
                        ![q].st = InitialState(q, @.task, @.interactive, TRUE)]
  /\ UNCHANGED <<interruptEnabled, redis, flips, graph, active, saved, audit>>

(* The stateless rerun of the whole turn, flagged from its first state on. *)
FallsBack(q) ==
  /\ TakenForRedis(q)
  /\ run' = [run EXCEPT ![q].phase = "running", ![q].next = "intake", ![q].threaded = FALSE,
                        ![q].lost = FALSE, ![q].fellback = TRUE,
                        ![q].reasons = @ \cup {"degraded"},
                        ![q].st = InitialState(q, @.task, @.interactive, TRUE)]
  /\ UNCHANGED <<interruptEnabled, redis, flips, graph, active, saved, audit>>

(* The handler's last except, that of a resume and that of the fallback: a
   Redis error with no fallback, or a node that raises anything else. *)
InvokeFails(q) ==
  /\ \/ RedisError(q) /\ ~ (run[q].submit /\ active)
     \/ run[q].phase = "running" /\ run[q].next # "end"
  /\ run' = [run EXCEPT ![q] = Answered(@, ErrorAnswer)]
  /\ UNCHANGED <<interruptEnabled, redis, flips, graph, active, saved, audit>>

(* Mutant: the startup state of the checkpointer is not asked. *)
FlaggedByTheRunAlone(q) == run[q].st.report.degraded \/ run[q].fellback

(* _payload_from_result and finish_turn.  memory_degraded comes from the
   report, which an interrupted run does not have yet, or from the startup
   state of the checkpointer; the fallback puts it into the report.  The
   outcome comes from the reasons recorded during this request: those of an
   invoke that Redis ended stay. *)
Flagged(q) == run[q].st.report.degraded \/ ~ active \/ run[q].fellback

Answers(q) ==
  /\ \/ run[q].phase = "interrupted"
     \/ run[q].phase = "running" /\ run[q].next = "end"
  /\ ~ run[q].lost
  /\ LET st == run[q].st
         awaiting == run[q].phase = "interrupted" \/ st.awaiting
     IN  run' = [run EXCEPT ![q] = Answered(@,
           [status |-> "ok", task |-> st.task, awaiting |-> awaiting,
            draft |-> IF awaiting THEN st.draft ELSE st.report.draft,
            unincorporated |-> IF awaiting THEN 0 ELSE st.report.unincorporated,
            turn |-> IF awaiting THEN 0 ELSE st.report.turn,
            flagged |-> Flagged(q), outcome |-> Outcome(q)])]
  /\ UNCHANGED <<interruptEnabled, redis, flips, graph, active, saved, audit>>

-----------------------------------------------------------------------------
(* The nodes.  LangGraph runs one per superstep and then writes a checkpoint
   that names the node to run next; a resume's value reaches only the nodes
   of its first superstep. *)

At(q, node) == run[q].phase = "running" /\ run[q].next = node

Superstep(q, next, st, reasons) ==
  /\ saved' = IF run[q].threaded /\ redis THEN [next |-> next, st |-> st] ELSE saved
  /\ run' = [run EXCEPT ![q].next = next, ![q].st = st, ![q].pending = "none",
                        ![q].lost = @ \/ (run[q].threaded /\ ~ redis),
                        ![q].reasons = @ \cup reasons]
  /\ UNCHANGED <<interruptEnabled, redis, flips, graph, active>>

Intake(q) ==
  /\ At(q, "intake")
  /\ Superstep(q, "generate", run[q].st, {})
  /\ UNCHANGED audit

(* skill_dispatcher, the skill, rag_retriever and llm_caller.  A failed model
   call becomes the text of the answer.  Only legal_research reads the durable
   memory, and may find it unavailable. *)
FreshDraft(q) == [id |-> 2 * q + (IF run[q].threaded THEN 0 ELSE 1), from |-> run[q].st.notes,
                  error |-> FALSE]

Class(holds, class) == IF holds THEN {class} ELSE {}

Generate(q) ==
  /\ At(q, "generate")
  /\ \E output \in Outputs, unavailable \in BOOLEAN :
       LET draft == IF output = "empty" THEN NoDraft
                    ELSE [FreshDraft(q) EXCEPT !.error = output = "error"]
       IN  /\ unavailable => run[q].st.task = "research"
           /\ Superstep(q, "risk_assessor",
                [run[q].st EXCEPT !.draft = draft, !.degraded = @ \/ unavailable],
                Class(unavailable, "degraded") \cup Class(output = "error", "failed"))
  /\ UNCHANGED audit

(* Mutant: only the first draft of a session goes to review. *)
AssessRiskOnce(q) ==
  /\ At(q, "risk_assessor")
  /\ \E risky \in BOOLEAN :
       LET st == run[q].st
           review == /\ st.iterations = 0
                     /\ \/ st.task = "contract_generation"
                        \/ risky /\ (st.task = "contract_review" => st.interactive)
       IN  Superstep(q, IF review THEN "human_review" ELSE "output_formatter", st, {})
  /\ UNCHANGED audit

(* risk_assessor and route_risk; the risk itself is any. *)
AssessRisk(q) ==
  /\ At(q, "risk_assessor")
  /\ \E risky \in BOOLEAN :
       LET st == run[q].st
           review == \/ st.task = "contract_generation"
                     \/ risky /\ (st.task = "contract_review" => st.interactive)
       IN  Superstep(q, IF review THEN "human_review" ELSE "output_formatter", st, {})
  /\ UNCHANGED audit

(* route_review. *)
RouteReview(st) == IF st.draft = NoDraft THEN "generate" ELSE "output_formatter"

(* Mutant: the run goes on as if nobody had to review. *)
ReviewSkipped(q) ==
  /\ At(q, "human_review")
  /\ ~ interruptEnabled
  /\ Superstep(q, RouteReview(run[q].st), run[q].st, {})
  /\ UNCHANGED audit

ReviewDisabled(q) ==
  /\ At(q, "human_review")
  /\ ~ interruptEnabled
  /\ LET st == [run[q].st EXCEPT !.awaiting = TRUE]
     IN  Superstep(q, RouteReview(st), st, {})
  /\ UNCHANGED audit

(* interrupt(): the state change just made is dropped, the thread's checkpoint
   stays, and only the interrupt itself is written to it. *)
Interrupts(q) ==
  /\ At(q, "human_review")
  /\ interruptEnabled
  /\ run[q].pending = "none"
  /\ run' = [run EXCEPT ![q].phase = "interrupted",
                        ![q].lost = @ \/ (run[q].threaded /\ ~ redis)]
  /\ UNCHANGED <<interruptEnabled, redis, flips, graph, active, saved, audit>>

(* Mutant: at the cap the notes are not handed back. *)
ReviewedForgetting(q) ==
  LET st == [run[q].st EXCEPT !.awaiting = FALSE]
      verdict == run[q].pending
  IN  CASE verdict = "approve" -> [st EXCEPT !.notes = 0]
        [] verdict = "revise" -> [st EXCEPT !.draft = [id |-> -q, from |-> q, error |-> FALSE], !.notes = q]
        [] verdict = "notes" /\ st.iterations < MaxIterations ->
             [st EXCEPT !.notes = q, !.iterations = @ + 1, !.draft = NoDraft]
        [] OTHER -> st

(* Mutant: a rejection is not counted. *)
ReviewedUncounted(q) ==
  LET st == [run[q].st EXCEPT !.awaiting = FALSE]
      verdict == run[q].pending
  IN  CASE verdict = "approve" -> [st EXCEPT !.notes = 0]
        [] verdict = "revise" -> [st EXCEPT !.draft = [id |-> -q, from |-> q, error |-> FALSE], !.notes = q]
        [] verdict = "notes" /\ st.iterations < MaxIterations ->
             [st EXCEPT !.notes = q, !.draft = NoDraft]
        [] OTHER -> [st EXCEPT !.unincorporated = IF verdict = "notes" THEN q ELSE 0]

(* The four outcomes of a verdict. *)
Reviewed(q) ==
  LET st == [run[q].st EXCEPT !.awaiting = FALSE]
      verdict == run[q].pending
  IN  CASE verdict = "approve" -> [st EXCEPT !.notes = 0]
        [] verdict = "revise" -> [st EXCEPT !.draft = [id |-> -q, from |-> q, error |-> FALSE], !.notes = q]
        [] verdict = "notes" /\ st.iterations < MaxIterations ->
             [st EXCEPT !.notes = q, !.iterations = @ + 1, !.draft = NoDraft]
        [] OTHER -> [st EXCEPT !.unincorporated = IF verdict = "notes" THEN q ELSE 0]

AppliesVerdict(q) ==
  /\ At(q, "human_review")
  /\ interruptEnabled
  /\ run[q].pending # "none"
  /\ Superstep(q, RouteReview(Reviewed(q)), Reviewed(q), {})
  /\ UNCHANGED audit

(* output_formatter and history_appender. *)
FormatOutput(q) ==
  /\ At(q, "output_formatter")
  /\ LET st == run[q].st
     IN  Superstep(q, "memory_writer",
           [st EXCEPT !.report = [turn |-> 0, draft |-> st.draft, degraded |-> st.degraded,
                                  unincorporated |-> st.unincorporated]], {})
  /\ UNCHANGED audit

(* Mutants: an unreachable store is not reported; the row is written twice. *)
WriteMemorySilently(q) ==
  /\ At(q, "memory_writer")
  /\ \E unreachable \in BOOLEAN :
       /\ audit' = IF unreachable THEN audit ELSE [audit EXCEPT ![run[q].st.turn] = @ + 1]
       /\ Superstep(q, "end", [run[q].st EXCEPT !.report.turn = run[q].st.turn],
                    Class(unreachable, "degraded"))
WriteMemoryTwice(q) ==
  /\ At(q, "memory_writer")
  /\ audit' = [audit EXCEPT ![run[q].st.turn] = @ + 2]
  /\ Superstep(q, "end", [run[q].st EXCEPT !.report.turn = run[q].st.turn], {})

(* The audit row is written, or the store is unreachable and the report says
   so.  report.turn is not in the code: it names the run that was audited. *)
WriteMemory(q) ==
  /\ At(q, "memory_writer")
  /\ \E unreachable \in BOOLEAN :
       /\ audit' = IF unreachable THEN audit ELSE [audit EXCEPT ![run[q].st.turn] = @ + 1]
       /\ Superstep(q, "end",
            [run[q].st EXCEPT !.report.turn = run[q].st.turn,
                              !.report.degraded = @ \/ unreachable],
            Class(unreachable, "degraded"))

-----------------------------------------------------------------------------
HandlerStep(q) ==
  \/ FindsGraph(q) \/ BuildsCheckpointer(q) \/ PublishesGraph(q)
  \/ SubmitStarts(q) \/ ResumeStarts(q) \/ ResumeFindsNothing(q)
  \/ FallsBack(q) \/ InvokeFails(q) \/ Answers(q)
  \/ Intake(q) \/ Generate(q) \/ AssessRisk(q) \/ ReviewDisabled(q) \/ Interrupts(q)
  \/ AppliesVerdict(q) \/ FormatOutput(q) \/ WriteMemory(q)

Next ==
  \/ \E q \in Requests : Submit(q) \/ Resume(q) \/ GiveUp(q) \/ HandlerStep(q)
  \/ RedisFlips \/ CheckpointExpires

Spec == Init /\ [][Next]_vars

-----------------------------------------------------------------------------
(* Properties. *)

TypeOK ==
  /\ interruptEnabled \in BOOLEAN /\ redis \in BOOLEAN
  /\ flips \in 0..Flips
  /\ graph \in {"unbuilt", "checkpointed", "stateless"}
  /\ active \in BOOLEAN
  /\ saved \in Checkpoint \cup {NoCheckpoint}
  /\ run \in [Requests -> Run]
  /\ audit \in [Requests -> 0..2]

Released(q) == run[q].answer.status = "ok" /\ ~ run[q].answer.awaiting

(* The text a drafting session ends with is one the attorney was shown, or
   typed.  "contract_generation and drafting always -> human_review - no
   exceptions" (docs/wiki.md), yet the verdict names no draft: it meets
   whatever checkpoint is the thread's latest when it arrives. *)
ReleasedWasShown ==
  \A q \in Requests :
    Released(q) /\ run[q].answer.task = "contract_generation" =>
      \/ run[q].answer.draft.id < 0
      \/ \E p \in 1..(q - 1) : /\ ~ run[p].gone
                               /\ run[p].answer.status = "ok"
                               /\ run[p].answer.draft = run[q].answer.draft

(* Notes on a draft that came without the banner are never dropped: the answer
   to the request for changes is a draft made with those notes or a report that
   hands them back.  (With the interrupt off the run is over before anybody can
   give notes.)  The draft of a stateless rerun is in no checkpoint, so notes
   on it meet what the failed run left there; it carries the banner. *)
NotesAccounted ==
  \A q \in Requests \ {1} :
    /\ interruptEnabled /\ run[q].verdict = "notes" /\ run[q].answer.status = "ok"
    /\ ~ run[q - 1].answer.flagged
    => run[q].answer.draft.from = q \/ run[q].answer.unincorporated = q

(* "On `request changes with notes`, the graph loops back through the same skill
   with the notes injected" and at the cap it exits "with un-incorporated notes
   attached to the report" (docs/superpowers/specs/
   2026-05-20-resume-after-interrupt-design.md): the same of every draft. *)
NotesAlwaysAccounted ==
  \A q \in Requests :
    interruptEnabled /\ run[q].verdict = "notes" /\ run[q].answer.status = "ok" =>
      run[q].answer.draft.from = q \/ run[q].answer.unincorporated = q

(* Constraint 6 of docs/wiki.md: behind every report is an audit row of the run
   that made it, one only when that run is the request's own, or the answer
   carries the amber banner - over outages, reruns and runs that were given up
   on.  (A run that was given up on may be audited again by its fallback, after
   another request has answered from the checkpoint it left.) *)
AuditedOrFlagged ==
  \A q \in Requests :
    Released(q) =>
      LET turn == run[q].answer.turn
      IN  \/ run[q].answer.flagged
          \/ turn # 0 /\ audit[turn] > 0 /\ (turn = q => audit[turn] = 1)

(* derive_outcome "sees everything the pane sees": no answer shows the banner
   while its turn_log row says ok. *)
OutcomeSeesBanner ==
  \A q \in Requests : run[q].answer.flagged => run[q].answer.outcome # "ok"

(* The same of submits alone: every producer of the flag that runs inside a
   submit records a reason code there. *)
SubmitOutcomeSeesBanner ==
  \A q \in Requests :
    run[q].submit /\ run[q].answer.flagged => run[q].answer.outcome # "ok"

(* "Class 1: FAILED.  The attorney got no answer, or an error string as the
   answer" (observability/degradations.py): what turn_log counts as failed is
   what the attorney was not answered, and nothing else.  The reason codes live
   as long as one request, the draft as long as the session. *)
FailedMeansUnanswered ==
  \A q \in Requests :
    run[q].answer.status = "ok" =>
      (run[q].answer.outcome = "failed" <=> run[q].answer.draft.error)

(* The same of submits alone, which also count as failed when they answer an
   error; a resume of an expired session deliberately does not. *)
SubmitFailedMeansUnanswered ==
  \A q \in Requests :
    run[q].submit /\ run[q].answer.status # "none" =>
      (run[q].answer.outcome = "failed"
         <=> run[q].answer.status = "error" \/ run[q].answer.draft.error)

(* "Sessions are stateless this run. Responses will report
   memory_degraded=True" (_get_graph): an answer whose session nothing will
   remember says so. *)
ForgettingIsAnnounced ==
  \A q \in Requests :
    run[q].answer.status = "ok" /\ ~ run[q].threaded => run[q].answer.flagged

(* With the interrupt off a draft still never reaches the client as final. *)
DraftsAwaitReview ==
  \A q \in Requests :
    Released(q) /\ run[q].submit => run[q].answer.task # "contract_generation"

(* The review loop ends: the graph goes back from human_review only by spending
   one of the bounded iterations, or because there was no draft to review
   (route_review reads the draft, not the verdict). *)
GoesBackForNotesOrNothing ==
  [][\A q \in Requests :
       run[q].next = "human_review" /\ run'[q].next = "generate"
         => \/ run'[q].st.iterations = run[q].st.iterations + 1
            \/ run[q].st.draft = NoDraft]_vars

(* "An empty llm_response is a unique signal for regenerate" (docs/superpowers/
   specs/2026-05-20-resume-after-interrupt-design.md): the graph goes back
   from human_review only by spending one of the bounded iterations. *)
RegenerateSpendsIteration ==
  [][\A q \in Requests :
       run[q].next = "human_review" /\ run'[q].next = "generate"
         => run'[q].st.iterations = run[q].st.iterations + 1]_vars
=============================================================================
