-------------------------- MODULE VerificationGate --------------------------
(***************************************************************************)
(* From what a specialist delivered to the report on it: the mechanical    *)
(* checks of BasicResultVerifier, the classification of runs that stopped, *)
(* and VerificationGate.verify, which decides whether the independent      *)
(* verifier is asked at all and what of its answer is believed.            *)
(*                                                                         *)
(* A result is the record a specialist returned, with                      *)
(*   delivery      ready, partial, none, or "legacy" when it does not say  *)
(*   sound         its citations lead back to observations (provenance)    *)
(*   evidence      research: findings and sources; code: a usable record   *)
(*                 of an execution                                         *)
(*   files         paths a code result says it changed                     *)
(*   completed     the code agent ended by its own account                 *)
(*   open          research: questions left unresolved                     *)
(*   failing       code: a command whose last outcome is a failure         *)
(*   last          the last tool call: ok, failed, or denied by permission *)
(*   stop          stop_reason, finalization its finalization_status       *)
(* The verifier's answer is a record too: how it came out, and the report. *)
(***************************************************************************)
EXTENDS Requirements

Unfinalized == {"failed", "already_consumed"}

\* How the fields of a result hang together where the agents build it: the research
\* agent has evidence only in a summary that was completed, and calls nothing ready
\* without it; a code run that was not stopped says nothing of its delivery.
Genuine(o) ==
  IF o.owner = "research_agent"
    THEN /\ o.finalization \in {"completed", "failed", "already_consumed"}
         /\ o.evidence => o.finalization = "completed"
         /\ o.delivery = "ready" => o.evidence
         /\ o.calls = 0 /\ o.files = {}
    ELSE /\ o.stop = "none" => o.completed /\ o.delivery = "legacy"
                               /\ o.finalization = "not_needed"
         /\ o.stop # "none" => o.delivery # "legacy" /\ o.finalization # "not_needed"

\* VerificationReport with the identity of what it is about.
Report(h, result, fields) ==
  Merged(fields,
    [NoReport EXCEPT !.result = result.id, !.handoff = h.id, !.todo = h.todo,
                     !.subject = h.to])

\* _identity_failure: nothing can be accepted on it.
IdentityFailure(h, result) ==
  Report(h, result, [hard |-> TRUE, category |-> "identity", retryable |-> "no"])

\* failure_report: the run of the specialist failed, which says nothing of what
\* it made.
FailureReport(h, result, category, allowed) ==
  Report(h, result,
    [status |-> "not_performed", category |-> category, retryable |-> "no",
     scope |-> "run", allowed |-> allowed])

\* execution_failure.
ExecutionFailure(h, result) ==
  IF result.finalization \in Unfinalized
    THEN FailureReport(h, result, "model_response", {"stop"})
    ELSE LET category ==
               IF result.last = "denied" THEN "permission"
               ELSE IF result.stop \in {"model_response", "budget"} THEN result.stop
               ELSE IF result.stop \in {"none", "no_progress"} THEN "insufficient_evidence"
               ELSE "unknown"
         IN  FailureReport(h, result, category,
               IF category = "permission" THEN {"stop"} ELSE {"stop", "replan"})

-----------------------------------------------------------------------------
(* BasicResultVerifier: files is the set of paths that exist and inside the *)
(* set of those that are within the workspace.                             *)

BasicBlocked(h, result, files, inside) ==
  \/ h.result # result.id \/ result.handoff # h.id
  \/ result.delivery = "none"
  \/ h.to = "research_agent" /\ (~result.sound \/ ~result.evidence)
  \/ /\ h.to = "code_agent"
     /\ IF h.mode = "artifact"
          THEN result.files = {} \/ ~(result.files \subseteq files \cap inside)
          ELSE ~result.evidence

BasicLimits(h, result) ==
  {l \in {<<"open question">>, <<"command failed">>, <<"partial">>, <<"undeclared">>,
          <<"stopped">>, <<"not summarised">>} :
     \/ l = <<"open question">> /\ h.to = "research_agent" /\ result.open
     \/ l = <<"command failed">> /\ h.to = "code_agent" /\ result.failing
     \/ l = <<"partial">> /\ result.delivery = "partial"
     \/ l = <<"undeclared">> /\ h.to = "code_agent" /\ ~result.completed
                             /\ result.delivery # "partial"
     \/ l = <<"stopped">> /\ result.stop # "none"
     \/ l = <<"not summarised">> /\ result.finalization \in Unfinalized}

BasicVerify(h, result, files, inside) ==
  LET blocked == BasicBlocked(h, result, files, inside)
      outside == h.to = "code_agent" /\ h.mode = "artifact" /\ ~(result.files \subseteq inside)
      again   == ~outside /\ result.stop = "none" /\ result.delivery # "none"
  IN  Report(h, result,
        [passed |-> ~blocked, status |-> "checks_only", hard |-> blocked,
         limits |-> BasicLimits(h, result),
         category |-> IF ~blocked THEN "none" ELSE IF outside THEN "permission" ELSE "validation",
         retryable |-> IF ~blocked THEN "unset" ELSE IF again THEN "yes" ELSE "no",
         allowed |-> IF ~blocked THEN {} ELSE IF again THEN {"stop", "replan", "retry"}
                     ELSE {"stop"}])

-----------------------------------------------------------------------------
(* VerificationGate.verify with a basic verifier, as the application builds *)
(* it.  original says whether the sources a research result takes from the *)
(* history were found in the results the handoff refers to.                *)

\* _with_basic: what the mechanical checks found missing stays disclosed.
WithBasic(report, basic) == [report EXCEPT !.limits = @ \cup basic.limits]

\* Whether the independent verifier is asked, given the mechanical checks.
AsksVerifier(h, result, basic) ==
  LET reviewable ==
        /\ h.to = "research_agent" /\ result.delivery = "partial"
        /\ result.finalization = "completed" /\ result.evidence
  IN  /\ ~basic.hard
      /\ result.finalization \notin Unfinalized
      /\ h.level = "independent"
      /\ result.delivery \in {"none", "partial"} => reviewable
      /\ ~(result.delivery = "legacy" /\ h.to = "code_agent" /\ ~result.completed)

\* The verifier failed, or answered something that is no report.
Unreviewed(h, result, basic, category) ==
  WithBasic(FailureReport(h, result, category, {"stop"}), basic)

\* Lines 191-209: a failed report gets a category, and a code run that was
\* stopped or refused cannot pass.
Classified(h, result, report) ==
  LET named == IF report.passed \/ report.category # "none" THEN report
               ELSE [report EXCEPT !.category = "validation", !.retryable = "yes"]
      failed == IF ~report.passed /\ h.to = "code_agent" /\ result.last = "denied"
                     /\ report.status = "assessed"
                  THEN [named EXCEPT !.category = "permission", !.retryable = "no"]
                  ELSE IF ~report.passed /\ report.category = "none" /\ h.to = "code_agent"
                          /\ report.status = "assessed" /\ result.last = "failed"
                    THEN [named EXCEPT !.category = "unknown", !.retryable = "unset"]
                    ELSE named
  IN  IF h.to = "code_agent" /\ result.delivery = "legacy"
         /\ (result.stop # "none" \/ ~result.completed)
        THEN LET category == IF result.last = "denied" THEN "permission"
                             ELSE IF result.stop # "none" THEN "budget" ELSE "validation"
             IN  [failed EXCEPT !.passed = FALSE, !.category = category,
                    !.retryable = IF category = "validation" THEN "yes" ELSE "no"]
        ELSE failed

GateVerify(h, result, files, inside, original, answer) ==
  LET basic == BasicVerify(h, result, files, inside)
      about == answer.report
      covers == StructureValid(h.criteria, about.assessments, about.evidence)
      judged == Classified(h, result, about)
  IN  IF \/ h.status # "completed" \/ h.result # result.id \/ result.handoff # h.id
         \/ h.to = "research_agent" /\ (~result.sound \/ ~original)
         \/ h.todo = 0 \/ h.criteria = {}
        THEN IdentityFailure(h, result)
      ELSE IF basic.hard THEN basic
      ELSE IF result.finalization \in Unfinalized
        THEN WithBasic(ExecutionFailure(h, result), basic)
      ELSE IF h.level = "basic" THEN basic
      ELSE IF ~AsksVerifier(h, result, basic)
        THEN WithBasic(ExecutionFailure(h, result), basic)
      ELSE IF answer.kind = "raised" THEN Unreviewed(h, result, basic, answer.category)
      ELSE IF \/ about.result # result.id \/ about.handoff # h.id \/ about.subject # h.to
              \/ about.todo \notin {0, h.todo}
        THEN IdentityFailure(h, result)
      ELSE IF about.status = "assessed" /\ (about.todo # h.todo \/ ~covers)
        THEN Unreviewed(h, result, basic, "model_response")
      ELSE IF judged.passed /\ (\/ judged.todo # h.todo
                                \/ ~AssessmentsValid(h.criteria, judged.assessments, judged.evidence))
        THEN IdentityFailure(h, result)
      ELSE WithBasic(judged, basic)

=============================================================================
