--------------------------- MODULE SupervisorTools ---------------------------
(***************************************************************************)
(* The tools of PlanningSupervisorAgent.advance: for each the code of the  *)
(* refusal, "ok" when there is none, and the state it leaves.  They are    *)
(* operators on the state of the workflow, a record with                   *)
(*   board, planned      the task board, and whether a plan was accepted   *)
(*   runtime             supervisor_runtime, see NewRuntime                *)
(*   results, reports    results_by_id and verifications_by_id             *)
(*   handoffs            the handoffs made (in the code: in the history)   *)
(*   delegations         delegation_count                                  *)
(*   codeCalls           code_tool_call_count                              *)
(* WorkflowGraph steps through them.                                       *)
(***************************************************************************)
EXTENDS TaskBoard

CONSTANTS
  MaxDelegations,  \* max_delegations
  MaxCodeCalls,    \* max_code_tool_calls
  MaxSteps,        \* max_steps of a planning loop, over all its runs
  MaxCalls,        \* max_tool_calls, likewise
  Patience         \* equal failures in a row that end the planning (3 in the code)

ASSUME SupervisorBounds ==
  /\ MaxDelegations \in Nat \ {0} /\ MaxCodeCalls \in Nat \ {0}
  /\ MaxSteps \in Nat \ {0} /\ MaxCalls \in Nat \ {0} /\ Patience \in Nat \ {0}

\* failures: <<tool, code>> of the failed calls since the last success, each
\* with how often; keys: replan_keys; pending: the delegation under way.
NewRuntime ==
  [steps |-> 0, calls |-> 0, failures |-> << >>, keys |-> {}, pending |-> {},
   forced |-> FALSE]

\* A dictionary lookup that yields {} when the key is missing.
Lookup(map, id) == IF id \in DOMAIN map THEN map[id] ELSE NoReport

NoResult == [id |-> 0, handoff |-> 0, delivery |-> "legacy", files |-> {}]
ResultOf(tiki, id) == IF id \in DOMAIN tiki.results THEN tiki.results[id] ELSE NoResult

AgentCapabilities(owner) ==
  IF owner = "research_agent" THEN {"web_research"}
  ELSE {"workspace_read", "workspace_write", "python_environment", "command_execution"}

Supports(owner, caps) == caps \subseteq AgentCapabilities(owner)

-----------------------------------------------------------------------------
(* update_plan.  A plan is a function from todos to what is said of them;  *)
(* level is "unset" where the call says nothing of the review.             *)

\* why stands for verification_reason.
Asked(board, plan, t) ==
  LET raw == plan[t]
  IN  CASE raw.level = "unset" /\ t \in DOMAIN board -> <<board[t].level, board[t].why>>
        [] raw.level = "independent" -> <<"independent", "asked">>
        [] OTHER -> <<"basic", "usual">>

\* Code built on another todo, or written and executed, is reviewed by a second pair
\* of eyes.
Composite(raw) ==
  /\ raw.owner = "code_agent" /\ raw.mode = "artifact"
  /\ \/ raw.deps # {}
     \/ {"workspace_write", "command_execution"} \subseteq raw.caps

PlannedItem(board, plan, t) ==
  LET asked == Asked(board, plan, t)
      raised == Composite(plan[t]) /\ asked[1] = "basic"
  IN  Added([plan[t] EXCEPT !.level = IF raised THEN "independent" ELSE asked[1]],
            "why", IF raised THEN "composite" ELSE asked[2])

\* Bug for comparison: the dependencies of a started todo may be written over.
ContractWithoutDeps(item) == <<item.owner, item.mode, item.caps>>

Contract(item) == <<item.owner, item.mode, item.deps, item.caps>>

\* Every t has a path of dependencies back to itself, in some subset.
Cyclic(deps) ==
  \E loop \in SUBSET DOMAIN deps : loop # {} /\ \A t \in loop : deps[t] \cap loop # {}

\* The refusals of a plan; the call fails with one of them.  keepsTask says that the
\* criteria of the whole task are those of the first plan.
PlanRefusals(tiki, plan, keepsTask) ==
  LET board == tiki.board
      item(t) == PlannedItem(board, plan, t)
      known == DOMAIN plan \cap DOMAIN board
      started == {t \in known : board[t].status # "pending"}
      deps == [t \in DOMAIN plan |-> plan[t].deps]
      refusal == [
        capability_mismatch |-> \E t \in DOMAIN plan :
          \/ ~Supports(plan[t].owner, plan[t].caps)
          \/ plan[t].owner = "research_agent" /\ plan[t].mode = "environment",
        invalid_acceptance |-> \E t \in DOMAIN plan : plan[t].criteria \cap Required = {},
        immutable_verification |-> \E t \in started :
          <<board[t].level, board[t].why>> # <<item(t).level, item(t).why>>,
        immutable_acceptance |->
          \/ \E t \in known : board[t].criteria \notin {{}, plan[t].criteria}
          \/ tiki.planned /\ ~keepsTask,
        immutable_delivery_mode |-> \E t \in known : board[t].mode # plan[t].mode,
        immutable_todo |-> \E t \in started : Contract(board[t]) # Contract(plan[t]),
        plan_requirement_removed |-> ~(DOMAIN board \subseteq DOMAIN plan),
        invalid_dependency |-> \E t \in DOMAIN plan :
          \/ t \in deps[t]
          \/ ~(deps[t] \subseteq DOMAIN plan),
        dependency_cycle |->
          (\A t \in DOMAIN plan : deps[t] \subseteq DOMAIN plan) /\ Cyclic(deps)]
  IN  {code \in DOMAIN refusal : refusal[code]}

\* A todo that is known keeps everything that has happened to it.
UpdatePlan(tiki, plan) ==
  [tiki EXCEPT
     !.planned = TRUE,
     !.board = [t \in DOMAIN plan |->
        LET item == PlannedItem(tiki.board, plan, t)
        IN  IF t \in DOMAIN tiki.board THEN Merged(item, tiki.board[t]) ELSE NewItem(item)]]

-----------------------------------------------------------------------------
(* delegate_task.  key stands for the three texts that justify a retry,    *)
(* "blank" when one of them is; changed says that the instruction is not   *)
(* that of the last handoff, inScope that every context ref may be read.   *)

JustifyRefusal(tiki, t, key, changed) ==
  LET todo == tiki.board[t]
      prior == Lookup(tiki.reports, todo.verification)
      rerun == todo.attempts < 2 /\ changed /\ prior.scope = "run" /\ "replan" \in prior.allowed
  IN  IF t \notin DOMAIN tiki.board \/ todo.status \notin Actionable THEN "todo_not_actionable"
      ELSE IF todo.attempts > 0 /\ (todo.attempts >= 2 \/ key = "blank")
        THEN "replan_requires_evidence"
      ELSE IF todo.attempts > 0 /\ <<t, key>> \in tiki.runtime.keys THEN "replan_no_progress"
      ELSE IF prior.retryable = "no" /\ ~rerun THEN "execution_blocked"
      ELSE IF ~DependenciesDone(tiki.board, t) THEN "dependency_incomplete"
      ELSE IF tiki.delegations >= MaxDelegations THEN "delegation_budget_exhausted"
      ELSE "ok"

\* Lines 241-242: from here on the key of a retry is used up.
KeyUsed(tiki, t, key) ==
  IF tiki.board[t].attempts = 0 THEN tiki
  ELSE [tiki EXCEPT !.runtime.keys = @ \cup {<<t, key>>}]

DispatchRefusal(tiki, t, inScope) ==
  IF tiki.board[t].owner = "code_agent" /\ tiki.codeCalls >= MaxCodeCalls THEN "execution_blocked"
  ELSE IF ~inScope THEN "history_scope_denied"
  ELSE "ok"

-----------------------------------------------------------------------------
(* review_result and finish_task.  files are the artifacts that exist in   *)
(* the workspace.                                                          *)

\* artifact_guard of the application.
ArtifactMissing(todo, result, files) ==
  /\ todo.owner = "code_agent" /\ todo.mode = "artifact"
  /\ result.files = {} \/ ~(result.files \subseteq files)

\* said: the limitations the supervisor names itself.
ReviewRefusal(tiki, review, said, files) ==
  LET t == review.todo
      todo == tiki.board[t]
      result == ResultOf(tiki, review.result)
      report == Lookup(tiki.reports, review.verification)
      accepts == review.action \in Accepting
  IN  IF t \notin DOMAIN tiki.board \/ todo.status # "awaiting_review" THEN "review_not_pending"
      ELSE IF <<todo.result, todo.handoff, todo.verification>> #
              <<review.result, review.handoff, review.verification>>
        THEN "review_identity_mismatch"
      ELSE IF accepts /\ (Blocked(todo, t, result, report) \/ ArtifactMissing(todo, result, files))
        THEN "review_hard_blocked"
      ELSE IF review.action = "accept" /\ Gaps(todo, report) # {}
        THEN "review_limitations_required"
      ELSE IF review.action # "accept_with_limitations" /\ said # {} THEN "invalid_review"
      ELSE IF review.action = "accept_with_limitations" /\ said = {}
        THEN "review_limitations_required"
      ELSE "ok"

\* The gaps of the report are disclosed whether the supervisor named them or not.
Disclosed(tiki, review, said) ==
  IF review.action \in Accepting
    THEN [review EXCEPT !.limitations =
            Gaps(tiki.board[review.todo], Lookup(tiki.reports, review.verification)) \cup said]
    ELSE review

\* _finish_guard_failures, for a workflow under review.
Unaccepted(tiki, files) ==
  IF DOMAIN tiki.results = {} THEN DOMAIN tiki.board
  ELSE {t \in DOMAIN tiki.board :
          LET todo == tiki.board[t]
              result == ResultOf(tiki, todo.result)
          IN  \/ ~AcceptedReviewValid(todo, t, result, Lookup(tiki.reports, todo.verification))
              \/ ArtifactMissing(todo, result, files)}

FinishRefusal(tiki, files) ==
  IF DOMAIN tiki.board = {} \/ Unaccepted(tiki, files) # {} THEN "finish_not_verified" ELSE "ok"

-----------------------------------------------------------------------------
(* Lines 391-401: what the outcome of a call does to the planning.         *)

Failed(tiki, tool, code) ==
  LET key == <<tool, code>>
      old == tiki.runtime.failures
      count == IF key \in DOMAIN old THEN old[key] + 1 ELSE 1
  IN  [tiki EXCEPT
         !.runtime.failures = Added(old, key, count),
         !.runtime.forced = @ \/ count >= Patience \/ code = "delegation_budget_exhausted"]

Succeeded(tiki) == [tiki EXCEPT !.runtime.failures = << >>]

Exhausted(tiki) ==
  \/ tiki.runtime.forced
  \/ tiki.runtime.steps >= MaxSteps \/ tiki.runtime.calls >= MaxCalls

=============================================================================
