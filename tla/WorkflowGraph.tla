---------------------------- MODULE WorkflowGraph ----------------------------
(***************************************************************************)
(* MultiAgentWorkflow: the graph of one task.  The planning supervisor     *)
(* plans, delegates one todo at a time, a specialist works on it, the      *)
(* verification gate reports, and the supervisor reviews, until it         *)
(* finishes or stops.  One action is one call of the supervisor's tool     *)
(* loop or one node of the graph; a call that ends the loop takes the rest *)
(* of the supervisor node with it.                                         *)
(*                                                                         *)
(* What the model says is free: any plan of Plans, any call in any order,  *)
(* any outcome of a specialist in Outcomes, any answer of the verifier.    *)
(* A code run that has to wait for the operator ends the run of the graph; *)
(* its snapshot is the state itself, so that a resume starts from it.      *)
(***************************************************************************)
EXTENDS SupervisorTools, VerificationGate

CONSTANTS
  Plans,           \* the plans the model may propose
  Keys,            \* justifications of a retry
  Outcomes,        \* what a specialist's run may come to
  Paths,           \* artifacts, all of them inside the workspace
  RecursionLimit,  \* recursion_limit: nodes of one run of the graph
  MaxPauses        \* bound: pauses of code runs

\* A todo as the schema of update_plan lets it be planned.
Plannable(raw) ==
  /\ DOMAIN raw = {"owner", "mode", "deps", "level", "caps", "criteria"}
  /\ raw.owner \in Owners /\ raw.level \in Level \cup {"unset"}
  /\ raw.criteria \subseteq Criteria

ASSUME WorkflowConstants ==
  /\ \A plan \in Plans : \A t \in DOMAIN plan : Plannable(plan[t])
  /\ \A o \in Outcomes : Genuine(o)
  /\ RecursionLimit \in Nat \ {0} /\ MaxPauses \in Nat

VARIABLES
  pc,          \* the node that runs next, or where the task rests
  tiki,        \* TikiState
  files,       \* artifacts in the workspace
  history,     \* records appended for the task; a record's place is its identity
  supersteps,  \* nodes run since the graph was started or resumed
  pauses       \* pauses so far

vars == <<pc, tiki, files, history, supersteps, pauses>>

Nodes ==
  {"supervisor", "research_agent", "code_agent", "resume_entry",
   "verification_gate", "finalization"}
Rests == {"paused", "completed", "stopped"}

NoHandoff == [id |-> 0, todo |-> 0, to |-> "none", status |-> "none", result |-> 0]

\* initial_state.
Init ==
  /\ pc = "supervisor"
  /\ tiki = [board |-> << >>, planned |-> FALSE, runtime |-> NewRuntime,
             handoff |-> NoHandoff, results |-> << >>, reports |-> << >>,
             latest |-> << >>, delegations |-> 0, codeCalls |-> 0]
  /\ files = {} /\ history = << >> /\ supersteps = 0 /\ pauses = 0

\* What each node demands, with an exception where it is not so; and LangGraph
\* demands that the run is not over its limit.
Demands(node) ==
  /\ supersteps < RecursionLimit
  /\ LET h == tiki.handoff
         pending(to) == h.status = "pending" /\ h.to = to /\ CanRecordResult(tiki.board, h.todo, h.id)
         held == tiki.runtime.pending = {<<h.todo, h.id>>}
     IN CASE node = "supervisor" -> tiki.runtime.pending = {}
          [] node = "research_agent" -> pending("research_agent") /\ held
          [] node \in {"code_agent", "resume_entry"} -> pending("code_agent") /\ held
          [] node = "verification_gate" ->
               /\ h.status = "completed" /\ h.to \in DOMAIN tiki.latest /\ held
               /\ CanRecordVerification(tiki.board, h.todo, h.id, tiki.latest[h.to].id)
          [] node = "finalization" -> Unaccepted(tiki, files) = {}

Enter(node) == pc = node /\ Demands(node)

\* _write_history.
Record(kind, body) == history' = Append(history, [kind |-> kind, body |-> body])
NewId == Len(history) + 1

-----------------------------------------------------------------------------
(* The supervisor node: one call of its loop.                              *)

\* Bug for comparison: rounds and calls are not counted.
SpentNothing == tiki

\* Every call is a round of its own.  In the code plans and reads may share one, which
\* spends fewer rounds on them.
Spent == [tiki EXCEPT !.runtime.steps = @ + 1, !.runtime.calls = @ + 1]

Planning == Enter("supervisor") /\ ~Exhausted(tiki)

Refuse(state, tool, code) ==
  /\ tiki' = Failed(state, tool, code)
  /\ UNCHANGED <<pc, files, history, supersteps, pauses>>

Stay(state) ==
  /\ tiki' = Succeeded(state)
  /\ UNCHANGED <<pc, files, supersteps, pauses>>

Rest(place) ==
  /\ pc' = place /\ supersteps' = supersteps + 1
  /\ UNCHANGED <<files, history, pauses>>

Plan(plan, keepsTask) ==
  /\ Planning
  /\ LET refusals == PlanRefusals(tiki, plan, keepsTask)
     IN  \/ \E code \in refusals : Refuse(Spent, "update_plan", code)
         \/ /\ refusals = {}
            /\ Stay(UpdatePlan(Spent, plan))
            /\ UNCHANGED history

\* read_history, and the calls that fail before their tool is reached: unknown or
\* malformed, or in a batch with a call that has to be alone.
Read == Planning /\ Stay(Spent) /\ UNCHANGED history
Mistake == Planning /\ Refuse(Spent, "any", "invalid_arguments")

\* Bug for comparison: the pending call is named before the handoff is made.
DispatchNamedEarly(state, t, key) ==
  LET item == state.board[t]
      id == NewId
      handoff == [id |-> id, to |-> item.owner, todo |-> t, mode |-> item.mode,
                  level |-> item.level, criteria |-> item.criteria, status |-> "pending",
                  result |-> 0]
  IN  /\ CanStart(state.board, t)
      /\ tiki' = [Succeeded(state) EXCEPT
                    !.board = StartTodo(@, t, id), !.handoff = handoff,
                    !.delegations = @ + 1, !.runtime.pending = {<<t, state.handoff.id>>}]
      /\ Record("handoff", <<handoff, IF item.attempts = 0 THEN "first" ELSE key>>)
      /\ pc' = item.owner /\ supersteps' = supersteps + 1
      /\ UNCHANGED <<files, pauses>>

\* delegate_task, and lines 243-297 of the node: the handoff freezes the contract.
Dispatch(state, t, key) ==
  LET item == state.board[t]
      id == NewId
      handoff == [id |-> id, to |-> item.owner, todo |-> t, mode |-> item.mode,
                  level |-> item.level, criteria |-> item.criteria, status |-> "pending",
                  result |-> 0]
  IN  /\ CanStart(state.board, t)
      /\ tiki' = [Succeeded(state) EXCEPT
                    !.board = StartTodo(@, t, id), !.handoff = handoff,
                    !.delegations = @ + 1, !.runtime.pending = {<<t, id>>}]
      /\ Record("handoff", <<handoff, IF item.attempts = 0 THEN "first" ELSE key>>)
      /\ pc' = item.owner /\ supersteps' = supersteps + 1
      /\ UNCHANGED <<files, pauses>>

Delegate(t, key, changed, inScope) ==
  /\ Planning
  /\ LET unjustified == JustifyRefusal(tiki, t, key, changed)
         refusal == DispatchRefusal(tiki, t, inScope)
     IN  \/ unjustified # "ok" /\ Refuse(Spent, "delegate_task", unjustified)
         \/ unjustified = "ok" /\ refusal # "ok"
            /\ Refuse(KeyUsed(Spent, t, key), "delegate_task", refusal)
         \/ unjustified = "ok" /\ refusal = "ok" /\ Dispatch(KeyUsed(Spent, t, key), t, key)

Review(t, result, action, said) ==
  /\ Planning
  /\ t \in DOMAIN tiki.board
  /\ LET todo == tiki.board[t]
         asked == [todo |-> t, result |-> result, handoff |-> todo.handoff,
                   verification |-> todo.verification, action |-> action, limitations |-> {}]
         refusal == ReviewRefusal(tiki, asked, said, files)
         review == Disclosed(tiki, asked, said)
         state == [Succeeded(Spent) EXCEPT !.board = RecordReview(@, review)]
     IN  \/ refusal # "ok" /\ Refuse(Spent, "review_result", refusal)
         \/ /\ refusal = "ok" /\ CanRecordReview(tiki.board, review) /\ ReviewValid(review)
            /\ Record("review", review)
            /\ tiki' = state
            /\ IF action = "stop" THEN pc' = "stopped" /\ supersteps' = supersteps + 1
               ELSE UNCHANGED <<pc, supersteps>>
            /\ UNCHANGED <<files, pauses>>

\* finish_task: the loop, the node and the final answer ask the same of the todos.
Finish ==
  /\ Planning
  /\ LET refusal == FinishRefusal(tiki, files)
     IN  \/ refusal # "ok" /\ Refuse(Spent, "finish_task", refusal)
         \/ refusal = "ok" /\ tiki' = Succeeded(Spent) /\ Rest("finalization")

\* stop_task, or an answer without a call.
Stop == Planning /\ tiki' = Spent /\ Rest("stopped")

\* The model's answer is unusable, or a budget ends the round.
Interrupted ==
  /\ Planning
  /\ tiki' = [tiki EXCEPT !.runtime.steps = @ + 1, !.runtime.forced = TRUE]
  /\ UNCHANGED <<pc, files, history, supersteps, pauses>>

\* Lines 407-443: one last request, which may finish what is accepted; whatever
\* else it comes to stops the task.
Conclude ==
  /\ Enter("supervisor") /\ Exhausted(tiki)
  /\ UNCHANGED tiki
  /\ \/ FinishRefusal(tiki, files) = "ok" /\ Rest("finalization")
     \/ Rest("stopped")

-----------------------------------------------------------------------------
(* The specialists.                                                        *)

ResultFields == {"delivery", "completed", "stop", "finalization", "evidence", "open",
                 "failing", "last", "files"}

Deliver(outcome) ==
  LET h == tiki.handoff
      id == NewId
      result == Merged([id |-> id, handoff |-> h.id, sound |-> TRUE],
                       [f \in ResultFields |-> outcome[f]])
  IN  /\ outcome.owner = h.to
      /\ tiki' = [tiki EXCEPT
                    !.handoff.status = "completed", !.handoff.result = id,
                    !.board = RecordResult(@, h.todo, id),
                    !.results = Added(@, id, result),
                    !.latest = Added(@, h.to, result),
                    !.codeCalls = @ + outcome.calls]
      /\ Record("result", result)
      /\ pc' = "verification_gate" /\ supersteps' = supersteps + 1

Research(outcome) ==
  /\ Enter("research_agent")
  /\ Deliver(outcome) /\ UNCHANGED <<files, pauses>>

\* A code run leaves the workspace with other artifacts than it found.
Code(outcome, left) ==
  /\ Enter("code_agent") \/ Enter("resume_entry")
  /\ files' = left
  /\ Deliver(outcome) /\ UNCHANGED pauses

\* A call of the code run waits for the operator.
Pause ==
  /\ Enter("code_agent") \/ Enter("resume_entry")
  /\ pauses < MaxPauses
  /\ pc' = "paused" /\ pauses' = pauses + 1
  /\ UNCHANGED <<tiki, files, history, supersteps>>

\* resume: a run of the graph of its own, entered at resume_entry.
Resume ==
  /\ pc = "paused"
  /\ pc' = "resume_entry" /\ supersteps' = 0
  /\ UNCHANGED <<tiki, files, history, pauses>>

-----------------------------------------------------------------------------
(* Verification and the end.                                               *)

\* What the verifier may answer: it fails, or it reports a verdict on every
\* criterion, about this result or, in error, another one.
Answers(h, result) ==
  LET report(status, usable, about) ==
        Report(h, result,
          [result |-> about, passed |-> status = "passed" /\ usable,
           assessments |-> [i \in 1..Cardinality(h.criteria) |->
              [criterion |-> CHOOSE c \in h.criteria : TRUE, status |-> status, refs |-> {"e"}]],
           evidence |-> [r \in {"e"} |-> usable]])
  IN  {[kind |-> "raised", category |-> "model_response", report |-> NoReport]}
      \cup {[kind |-> "report", category |-> "none", report |-> report(status, usable, about)] :
              status \in {"passed", "insufficient_evidence"}, usable \in BOOLEAN,
              about \in {result.id, 0}}

\* _verification_node and complete_delegation.  The files it sees are those the basic
\* checks resolve.
Verify ==
  /\ Enter("verification_gate")
  /\ LET h == tiki.handoff
         result == tiki.latest[h.to]
         id == NewId
     IN  \E answer \in Answers(h, result) :
           LET report == [GateVerify(h, result, files, Paths, TRUE, answer) EXCEPT !.id = id]
           IN  /\ answer.kind # "raised" =>
                    AsksVerifier(h, result, BasicVerify(h, result, files, Paths))
               /\ Record("verification", report)
               /\ tiki' = [tiki EXCEPT
                             !.board = RecordVerification(@, h.todo, id),
                             !.reports = Added(@, id, report),
                             !.runtime.pending = {}]
  /\ pc' = "supervisor" /\ supersteps' = supersteps + 1
  /\ UNCHANGED <<files, pauses>>

Finalize ==
  /\ Enter("finalization")
  /\ UNCHANGED tiki /\ Rest("completed")

-----------------------------------------------------------------------------
\* The inputs of the supervisor's calls; a review may name any result there was.
Program ==
  \/ \E plan \in Plans, keepsTask \in BOOLEAN : Plan(plan, keepsTask)
  \/ Read \/ Mistake \/ Finish \/ Stop \/ Interrupted \/ Conclude
  \/ \E t \in DOMAIN tiki.board, key \in Keys \cup {"blank"}, changed, inScope \in BOOLEAN :
       Delegate(t, key, changed, inScope)
  \/ \E t \in DOMAIN tiki.board, result \in DOMAIN tiki.results, action \in ReviewAction,
        said \in {{}, {<<"said">>}} : Review(t, result, action, said)
  \/ \E outcome \in Outcomes : Research(outcome)
  \/ \E outcome \in Outcomes, left \in SUBSET Paths : Code(outcome, left)
  \/ Pause \/ Verify \/ Finalize

Next == Program \/ Resume

Spec == Init /\ [][Next]_vars
FairSpec == Spec /\ WF_vars(Program)

-----------------------------------------------------------------------------
Named(kind, id) == id \in DOMAIN history /\ history[id].kind = kind

\* Types, and the bounds on what is counted.
TypeOK ==
  /\ pc \in Nodes \cup Rests
  /\ \A t \in DOMAIN tiki.board :
       LET item == tiki.board[t]
       IN  /\ item.owner \in Owners /\ item.status \in TodoStatus /\ item.level \in Level
           /\ item.attempts \in 0..2 /\ item.criteria \subseteq Criteria
           /\ item.handoff \in 0..Len(history) /\ Cardinality(item.review) <= 1
  /\ tiki.delegations \in 0..MaxDelegations
  /\ files \subseteq Paths /\ pauses \in 0..MaxPauses

\* The task is completed only on deliveries that stand: for every todo the history
\* holds the handoff with the contract as it is now, the result of that handoff, the
\* report on that result and the review that accepts it; nothing blocks the review, what
\* the report found missing is disclosed, and the files that were promised exist.
FinishedIsAccepted ==
  pc = "completed" =>
    /\ DOMAIN tiki.board # {}
    /\ \A t \in DOMAIN tiki.board :
         LET item == tiki.board[t]
             handoff == history[item.handoff].body[1]
             result == history[item.result].body
             report == history[item.verification].body
         IN  /\ Named("handoff", item.handoff) /\ Named("result", item.result)
             /\ Named("verification", item.verification)
             /\ <<handoff.todo, handoff.to, handoff.mode, handoff.level, handoff.criteria>> =
                <<t, item.owner, item.mode, item.level, item.criteria>>
             /\ result.handoff = item.handoff /\ report.result = item.result
             /\ ~report.hard
             /\ \E i \in DOMAIN history :
                  /\ history[i].kind = "review"
                  /\ LET review == history[i].body
                     IN  /\ review.result = item.result /\ review.action \in Accepting
                         /\ report.limits \subseteq review.limitations
                         /\ review.action = "accept" \/ review.limitations # {}
             /\ item.owner = "code_agent" /\ item.mode = "artifact" =>
                  result.files # {} /\ result.files \subseteq files

\* An acceptance without reservation of a todo that calls for independent review
\* rests on a verifier that was asked, and that cited usable evidence for every required
\* criterion; basic checks, a verifier that failed, or a run that was cut short never pass for one.
IndependentIsAssessed ==
  \A t \in DOMAIN tiki.board :
    LET item == tiki.board[t]
        report == Lookup(tiki.reports, item.verification)
    IN  /\ item.level = "independent"
        /\ \E review \in item.review : review.action = "accept"
        => /\ report.status = "assessed" /\ report.passed
           /\ \A c \in item.criteria \cap Required :
                \E i \in DOMAIN report.assessments :
                  /\ report.assessments[i].criterion = c
                  /\ report.assessments[i].status = "passed"
                  /\ \E e \in report.assessments[i].refs : report.evidence[e]

\* Work starts on what it depends on: a todo that was ever delegated has only accepted
\* todos under it, however the plan is rewritten afterwards.
StartedAfterDependencies ==
  \A t \in DOMAIN tiki.board :
    tiki.board[t].attempts > 0 =>
      /\ tiki.board[t].deps \subseteq DOMAIN tiki.board
      /\ \A d \in tiki.board[t].deps : tiki.board[d].status = "completed"

\* No exception of the graph's own: whichever way the task went, each node finds the
\* handoff, the todo, the pending call and the guard of FINISH as it demands, and the
\* limit of supersteps is never what ends a task.
NodesFindWhatTheyDemand == pc \in Nodes => Demands(pc)

\* The task comes to an end, or to the operator: refused calls, failing models
\* and retries are all bounded.
TaskSettles == pc \in Nodes ~> pc \in Rests

=============================================================================
