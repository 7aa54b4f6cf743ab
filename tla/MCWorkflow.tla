------------------------------ MODULE MCWorkflow ------------------------------
(* Small instances of the workflow graph for TLC.                          *)
EXTENDS WorkflowGraph

Todo(owner, deps, caps, level) ==
  [owner |-> owner, mode |-> "artifact", deps |-> deps, level |-> level, caps |-> caps,
   criteria |-> Criteria]
Search == Todo("research_agent", {}, {"web_research"}, "unset")
Build(deps) == Todo("code_agent", deps, {"workspace_write"}, "unset")

\* One todo; two, the second built on the first; the same with the dependency
\* written over; and two in a circle.
MCPlans ==
  {<<Search>>, <<Search, Build({1})>>, <<Search, Build({})>>,
   <<[Search EXCEPT !.deps = {2}], Build({1})>>}

Found == [owner |-> "research_agent", delivery |-> "ready", completed |-> TRUE, stop |-> "none",
          finalization |-> "completed", evidence |-> TRUE, open |-> FALSE, failing |-> FALSE,
          last |-> "ok", files |-> {}, calls |-> 0]
Partial == [Found EXCEPT !.delivery = "partial", !.stop = "budget", !.open = TRUE]
Built(paths) ==
  [owner |-> "code_agent", delivery |-> "legacy", completed |-> TRUE, stop |-> "none",
   finalization |-> "not_needed", evidence |-> TRUE, open |-> FALSE, failing |-> FALSE,
   last |-> "ok", files |-> paths, calls |-> 1]

\* The research finds everything, or is cut short; the code is built, or the run is
\* stopped half way.
MCOutcomes ==
  {Found, Partial,
   Built(Paths),
   [Built(Paths) EXCEPT !.delivery = "partial", !.completed = FALSE, !.stop = "no_progress",
                        !.finalization = "completed", !.last = "failed"]}

=============================================================================
