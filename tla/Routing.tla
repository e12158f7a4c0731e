------------------------------- MODULE Routing -------------------------------
(***************************************************************************)
(* Which skill answers a request (graph/nodes/intent_router.py, planner.py,*)
(* skill_dispatcher.py, and the edges of graph/graph.py between them).     *)
(* Pure functions.                                                         *)
(*                                                                         *)
(* A state is [task, plan, reasons, asked]: the part of LegalAgentState    *)
(* that routing reads and writes, the degradations it recorded and how     *)
(* often a model was asked.  The router's answer is the task the model's   *)
(* JSON names or "failed", the planner's [failed, names, task, plan].      *)
(***************************************************************************)
EXTENDS Integers, Sequences

SkillMap == [contract_generation |-> "contract_generation", contract_review |-> "contract_review",
             compliance |-> "compliance_check", research |-> "legal_research",
             drafting |-> "drafting"]
ValidTaskTypes == DOMAIN SkillMap

(* A request as POST /api/query puts it, with the task it asks for or "". *)
Submit(task) ==
  [task |-> task, plan |-> IF task = "" THEN <<>> ELSE <<task>>, reasons |-> {}, asked |-> 0]

(* A valid task is kept.  Otherwise the model is asked; what it does not know, and
   what is not heard from it, is research. *)
IntentRouter(state, answer) ==
  IF state.task \in ValidTaskTypes
  THEN [state EXCEPT !.plan = IF @ = <<>> THEN <<state.task>> ELSE @]
  ELSE LET task == IF answer \in ValidTaskTypes THEN answer ELSE "research"
       IN  [task |-> task, plan |-> <<task>>, asked |-> state.asked + 1,
            reasons |-> state.reasons \cup {r \in {"intent_classification_failed"} : answer = "failed"}]

(* The planner is on the way only of a plan of several skills. *)
NeedsPlanning(state) == Len(state.plan) > 1

(* Its model names the task to begin with, the order, both or neither; nobody checks
   what it names.  Without an answer the first skill of the plan is next. *)
Planner(state, answer) ==
  IF ~NeedsPlanning(state) THEN state
  ELSE IF answer.failed
       THEN [state EXCEPT !.task = Head(state.plan), !.asked = @ + 1,
                          !.reasons = @ \cup {"planning_failed"}]
       ELSE [state EXCEPT !.task = IF "task" \in answer.names THEN answer.task ELSE @,
                          !.plan = IF "plan" \in answer.names THEN answer.plan ELSE @,
                          !.asked = @ + 1]

(* skill_dispatcher: a task no skill is known for is research. *)
RouteToSkill(state) ==
  IF state.task \in ValidTaskTypes THEN SkillMap[state.task] ELSE "legal_research"

(* From the request to the skill. *)
Routed(task, classified, planned) ==
  Planner(IntentRouter(Submit(task), classified), planned)

=============================================================================
