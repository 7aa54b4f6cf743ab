-------------------------- MODULE WorkflowInvariant --------------------------
(* The inductive invariant of WorkflowGraph, from which WorkflowProofs      *)
(* derives its theorems.                                                   *)
EXTENDS WorkflowGraph

Fields ==
  {"board", "planned", "runtime", "handoff", "results", "reports", "latest", "delegations",
   "codeCalls"}
RuntimeFields == {"steps", "calls", "failures", "keys", "pending", "forced"}
HandoffFields == {"id", "todo", "to", "status", "result"}
ItemFields ==
  {"owner", "mode", "deps", "level", "caps", "criteria", "why", "status", "attempts",
   "handoff", "result", "verification", "review"}

\* The fields a state of the workflow has.
Shaped(state) == DOMAIN state = Fields /\ DOMAIN state.runtime = RuntimeFields

\* A sequence of whatever.
IsSequence(s) == Len(s) \in Nat /\ s = [i \in 1..Len(s) |-> s[i]]

Shapes ==
  /\ Shaped(tiki) /\ HandoffFields \subseteq DOMAIN tiki.handoff
  /\ pc \in Nodes \cup Rests
  /\ IsSequence(history)
  /\ supersteps \in Nat /\ tiki.delegations \in 0..MaxDelegations
  /\ files \subseteq Paths /\ pauses \in 0..MaxPauses

\* The handoff with which a todo was delegated last holds its contract as it is now.
Contracted(t, item) ==
  /\ Named("handoff", item.handoff)
  /\ LET handoff == history[item.handoff].body[1]
     IN  <<handoff.todo, handoff.to, handoff.mode, handoff.level, handoff.criteria>> =
         <<t, item.owner, item.mode, item.level, item.criteria>>

\* A todo is pending exactly until it is delegated; its one review is in the history, and
\* stands until it is delegated again.
ItemFits(t, item) ==
  /\ DOMAIN item = ItemFields
  /\ item.owner \in Owners /\ item.status \in TodoStatus /\ item.level \in Level
  /\ item.attempts \in 0..2 /\ item.criteria \subseteq Criteria /\ item.criteria # {}
  /\ item.handoff \in 0..Len(history)
  /\ item.status = "pending" <=> item.attempts = 0
  /\ item.status # "pending" => Contracted(t, item)
  /\ item.review # {} => item.status \in {"completed", "failed"}
  /\ item.review = {} \/ \E review \in item.review : item.review = {review}
  /\ \A review \in item.review :
       \E i \in DOMAIN history : history[i].kind = "review" /\ history[i].body = review
  /\ \A review \in item.review :
       review.action = "accept" => item.verification \in DOMAIN tiki.reports

ItemsFit == \A t \in DOMAIN tiki.board : ItemFits(t, tiki.board[t])

\* What the state knows of results and reports is what the history holds.
Filed ==
  /\ \A id \in DOMAIN tiki.results :
       Named("result", id) /\ history[id].body = tiki.results[id] /\ tiki.results[id].id = id
  /\ \A id \in DOMAIN tiki.reports :
       /\ Named("verification", id) /\ history[id].body = tiki.reports[id]
       /\ tiki.reports[id].id = id
       /\ tiki.reports[id].status \in {"assessed", "checks_only", "not_performed"}

\* A plan is closed under dependencies, at every moment.
DependenciesPlanned ==
  \A t \in DOMAIN tiki.board : tiki.board[t].deps \subseteq DOMAIN tiki.board

\* The delegation under way, as the node that runs next has to find it.
UnderWay ==
  LET h == tiki.handoff
      held == h.todo \in DOMAIN tiki.board /\ tiki.runtime.pending = {<<h.todo, h.id>>}
      working == held /\ h.status = "pending" /\ CanRecordResult(tiki.board, h.todo, h.id)
  IN  /\ pc = "supervisor" => tiki.runtime.pending = {}
      /\ pc = "research_agent" => working /\ h.to = "research_agent"
      /\ pc \in {"code_agent", "paused", "resume_entry"} => working /\ h.to = "code_agent"
      /\ pc = "verification_gate" =>
           /\ held /\ h.status = "completed" /\ h.to \in DOMAIN tiki.latest
           /\ CanRecordVerification(tiki.board, h.todo, h.id, tiki.latest[h.to].id)
      /\ pc \in {"finalization", "completed"} =>
           DOMAIN tiki.board # {} /\ Unaccepted(tiki, files) = {}

\* Three nodes for each delegation, and the last two.
StepsAreCounted ==
  /\ pc = "supervisor" => supersteps <= 3 * tiki.delegations
  /\ pc \in {"research_agent", "code_agent", "paused", "resume_entry"} =>
       supersteps + 2 <= 3 * tiki.delegations
  /\ pc = "verification_gate" => supersteps + 1 <= 3 * tiki.delegations
  /\ pc = "finalization" => supersteps <= 3 * tiki.delegations + 1

IInv ==
  /\ Shapes /\ ItemsFit /\ Filed /\ DependenciesPlanned /\ UnderWay /\ StepsAreCounted
  /\ StartedAfterDependencies /\ IndependentIsAssessed

=============================================================================
