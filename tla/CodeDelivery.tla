----------------------------- MODULE CodeDelivery -----------------------------
(***************************************************************************)
(* One piece of code work in its workspace, from the delegation to the     *)
(* decision: the rounds of the code agent and their tool calls, what its   *)
(* result declares, how the declaration is checked against the workspace,  *)
(* and what is decided on the report.                                      *)
(*                                                                         *)
(* mode is the delivery mode frozen in the handoff; baseline is the        *)
(* Planner-Actor-Verifier loop, whose actor has no harness.  checker says   *)
(* which verifier the result meets: the fixed command of the baseline, the *)
(* mechanical checks alone, the independent verifier after them, or the    *)
(* verifier by kind of artifact; it is left open until there is a result,  *)
(* as nothing before depends on it.  The user may edit the workspace and a *)
(* write may fail halfway.                                                 *)
(*                                                                         *)
(* What pauses, restarts and repeated calls do to a call is the subject of *)
(* ExecutionCoordinator and ReActLoop, what a report and a review must     *)
(* contain that of Requirements and SupervisorTools.                       *)
(***************************************************************************)
EXTENDS ToolPipeline, VerificationGate

CONSTANTS
  Calls,          \* calls the model may make, by mode
  UserChanges,    \* changes the user may make: pairs of a path and its new content
  FirstWorkspaces,
  MaxCalls,       \* bound on the calls of all rounds
  MaxRounds,      \* rounds of work on a todo, and max_attempts of the baseline
  MaxEdits,       \* bound on the edits of the user
  MaxBroken       \* bound on the writes that fail halfway

Modes == {"baseline", "artifact", "inspection", "environment"}

\* A call the tools' argument models take: a file is given contents, and the kind of a
\* command is both what it names and what it runs.  The model may make others.
WellFormed(call) ==
  /\ call.text \notin Malformed
  /\ call.tool \in FileTools => call.text \in Content \ {"absent"}
  /\ call.tool = "run_command" => call.text = call.path

ASSUME DeliveryConstants ==
  /\ \A m \in Modes : \A call \in Calls[m] : call.text \in Malformed \/ WellFormed(call)
  /\ UserChanges \subseteq Paths \X Content /\ FirstWorkspaces \subseteq Workspace
  /\ MaxCalls \in Nat /\ MaxRounds \in Nat

VARIABLES
  mode, checker,
  ws, dep,        \* the workspace and the environment
  stage,          \* deciding, acting, checking, reviewing, or done
  phase,          \* working_memory.phase of the run
  view,           \* exposed tools of the step, or NoView between steps
  turn,           \* length of results when the step began
  asked,          \* the call that awaits approval, or NoCall
  results,        \* tool_results of the round
  calls,          \* calls so far, in all rounds
  round,          \* attempts so far
  delivered,      \* the result, as the verifier gets it
  observed,       \* the independent verifier has observed evidence it can use
  report,
  status,
  edits, broken,
  touched,        \* history: paths the file tools of the round changed
  tested,         \* history: exit of the last test run of the round, and what it ran on
  verified        \* history: workspace and environment at the last check

vars == <<mode, checker, ws, dep, stage, phase, view, turn, asked, results, calls, round,
          delivered, observed, report, status, edits, broken, touched, tested, verified>>

\* Groups of variables, to say what a step leaves alone.
setting == <<mode, checker>>
place == <<ws, dep>>
run == <<phase, view, turn, asked, results, calls>>
outcome == <<round, delivered, observed, report, status>>
faults == <<edits, broken>>
history == <<touched, tested, verified>>

NoCall == [tool |-> "none", path |-> "none", text |-> "none"]
NoView == {"none"}
NotTested == [out |-> "none", passes |-> FALSE]
NotDelivered == [id |-> 0]
Baseline == mode = "baseline"
Registry == IF Baseline THEN BaselineRegistry ELSE CodeRegistry

CheckersOf(m) ==
  CASE m = "baseline" -> {"fixed"}
    [] m = "artifact" -> {"basic", "independent", "by_kind"}
    [] m = "inspection" -> {"basic", "by_kind"}
    [] OTHER -> {"basic"}

Init ==
  /\ mode \in Modes /\ checker = "open"
  /\ ws \in FirstWorkspaces /\ dep \in BOOLEAN
  /\ stage = "deciding" /\ status = "planning" /\ round = 0
  /\ phase = "none" /\ view = NoView /\ turn = 0 /\ asked = NoCall
  /\ results = << >> /\ calls = 0
  /\ delivered = NotDelivered /\ observed = FALSE /\ report = NoReport
  /\ edits = 0 /\ broken = 0
  /\ touched = {} /\ tested = NotTested /\ verified = [ws |-> ws, dep |-> dep]

-----------------------------------------------------------------------------
(* The round of work.                                                      *)

FirstPhase ==
  IF Baseline THEN "execute"
  ELSE IF mode \in {"environment", "inspection"} THEN mode
  ELSE IF round > 0 /\ ~report.passed THEN "debugging"
  ELSE "coding"

Work ==
  /\ stage' = "acting" /\ round' = round + 1 /\ status' = "executing"
  /\ phase' = FirstPhase
  /\ delivered' = NotDelivered /\ observed' = FALSE /\ report' = NoReport
  /\ touched' = {} /\ tested' = NotTested /\ verified' = [ws |-> ws, dep |-> dep]
  /\ checker' = "open"
  /\ UNCHANGED <<mode, place, view, turn, asked, results, calls, faults>>

BeginStep ==
  /\ stage = "acting" /\ view = NoView /\ calls < MaxCalls
  /\ view' = Exposed(phase, Registry) /\ turn' = Len(results)
  /\ UNCHANGED <<setting, place, stage, phase, asked, results, calls, outcome, faults, history>>

\* A call has come to effect.
Answered(effect) ==
  LET result == effect.result
      changed == {p \in Paths : effect.ws[p] # ws[p]}
      torn == result.code = "tool_exception"
  IN  /\ torn => broken < MaxBroken
      /\ broken' = broken + (IF torn THEN 1 ELSE 0)
      /\ ws' = effect.ws /\ dep' = effect.dep
      /\ results' = Append(results, result) /\ calls' = calls + 1
      /\ touched' = IF result.tool \in FileTools /\ ~torn THEN touched \cup changed ELSE touched
      /\ tested' = IF result.ok /\ result.tool = "run_command" /\ result.path = "tests"
                     THEN [out |-> result.out, passes |-> TestsPass(ws, dep)] ELSE tested
      /\ UNCHANGED <<setting, stage, phase, view, turn, outcome, edits, verified>>

Call(call) ==
  /\ stage = "acting" /\ view # NoView /\ asked = NoCall /\ calls < MaxCalls
  /\ LET answer == Gatekeeper(call, view, Registry, ~Baseline)
     IN  CASE answer = "ASK" ->
                /\ asked' = call
                /\ UNCHANGED <<setting, place, stage, phase, view, turn, results, calls, outcome,
                               faults, history>>
           [] answer = "ok" ->
                /\ \E effect \in Execute(call, ws, dep) : Answered(effect)
                /\ UNCHANGED asked
           [] OTHER ->
                /\ Answered(Effect(ws, dep, Refusal(call, answer)))
                /\ UNCHANGED asked

\* The operator answers: the checkpoint has kept the call, the results before it and
\* the tools that were exposed.
Decide(approved) ==
  /\ asked # NoCall
  /\ asked' = NoCall
  /\ IF approved
       THEN \E effect \in Execute(asked, ws, dep) : Answered(effect)
       ELSE Answered(Effect(ws, dep, Refusal(asked, "approval_rejected")))

EndStep ==
  /\ stage = "acting" /\ view # NoView /\ asked = NoCall /\ Len(results) > turn
  /\ phase' = NextPhase(phase, SubSeq(results, turn + 1, Len(results)))
  /\ view' = NoView /\ turn' = 0
  /\ UNCHANGED <<setting, place, stage, asked, results, calls, outcome, faults, history>>

-----------------------------------------------------------------------------
(* What the round delivers.                                                *)

\* _usable.
Usable(result) == result.ok /\ result.out \notin {"failed", "timed_out", "unverified"}

\* The records with an exit code, by tool and command: only the last of each counts.
Commands == {"run_command", "inspect_python_environment", "probe_python_import"}

\* Bug for comparison: the first outcome of a command is kept.
FailingFirst(records) ==
  \E i \in DOMAIN records :
    /\ records[i].tool \in Commands /\ records[i].ok /\ ~Usable(records[i])
    /\ \A j \in 1 .. i - 1 :
         <<records[j].tool, records[j].path>> # <<records[i].tool, records[i].path>>

Failing(records) ==
  \E i \in DOMAIN records :
    /\ records[i].tool \in Commands /\ records[i].ok /\ ~Usable(records[i])
    /\ \A j \in i + 1 .. Len(records) :
         <<records[j].tool, records[j].path>> # <<records[i].tool, records[i].path>>
         \/ ~records[j].ok

Written(records, tools) ==
  {records[i].path : i \in {j \in DOMAIN records : records[j].ok /\ records[j].tool \in tools}}

\* What the gate reads from the last record.
DenialCodes == {"permission_denied", "approval_rejected", "tool_not_exposed", "workspace_escape"}

LastCall(records) ==
  IF records = << >> THEN "ok"
  ELSE LET last == records[Len(records)]
       IN  IF last.ok THEN "ok" ELSE IF last.code \in DenialCodes THEN "denied" ELSE "failed"

\* Bug for comparison: edited files are not declared.
CodeResultOfWrites(stop, delivery, finalization) ==
  [id |-> round, handoff |-> round, files |-> Written(results, {"write_file"}),
   delivery |-> delivery, finalization |-> finalization, stop |-> stop,
   completed |-> stop = "none" \/ delivery = "ready",
   evidence |-> \E i \in DOMAIN results : Usable(results[i]),
   failing |-> Failing(results), last |-> LastCall(results), records |-> results,
   sound |-> TRUE, open |-> FALSE]

\* _to_code_result, and of the verifier's reading of it what is read from the records.
CodeResult(stop, delivery, finalization) ==
  [id |-> round, handoff |-> round, files |-> Written(results, FileTools),
   delivery |-> delivery, finalization |-> finalization, stop |-> stop,
   completed |-> stop = "none" \/ delivery = "ready",
   evidence |-> \E i \in DOMAIN results : Usable(results[i]),
   failing |-> Failing(results), last |-> LastCall(results), records |-> results,
   sound |-> TRUE, open |-> FALSE]

\* The run ends, and what it held with it.
Deliver(result) ==
  /\ stage = "acting" /\ view = NoView
  /\ delivered' = result
  /\ checker' \in CheckersOf(mode)
  /\ stage' = "checking" /\ status' = "verifying"
  /\ results' = << >> /\ phase' = "none"
  /\ UNCHANGED <<mode, place, view, turn, asked, calls, round, observed, report, faults, history>>

\* The model answers with a text.
Finish == Deliver(CodeResult("none", "legacy", "not_needed"))

\* The limit of steps.  The actor of the baseline then returns no records.  The code agent
\* runs a ResumableReActAgent, which ends every limit itself: it has one request to
\* summarise what it has, which may fail or be used up, and returns its records.  (The
\* plain loop raises instead, and _stopped_result answers for it without files; only
\* examples/ give it to this agent.)
Stopped ==
  IF Baseline
    THEN Deliver([CodeResult("max_steps", "none", "not_needed") EXCEPT
                    !.records = << >>, !.files = {}, !.evidence = FALSE, !.failing = FALSE,
                    !.last = "ok"])
    ELSE \E delivery \in {"ready", "partial", "none"},
            finalization \in {"completed", "failed", "already_consumed"} :
           /\ finalization # "completed" =>
                delivery = IF results = << >> THEN "none" ELSE "partial"
           /\ Deliver(CodeResult("max_steps", delivery, finalization))

-----------------------------------------------------------------------------
(* Verification.                                                           *)

Handoff ==
  [id |-> round, todo |-> 1, to |-> "code_agent", mode |-> mode, status |-> "completed",
   result |-> round, criteria |-> {},
   level |-> IF checker = "independent" THEN "independent" ELSE "basic"]

\* The fixed command of the application.
FixedTests == [tool |-> "run_command", path |-> "tests", text |-> "tests"]

\* From here on the records of the result are no longer read.
Reported(new) ==
  /\ report' = [new EXCEPT !.id = round]
  /\ stage' = "deciding" /\ status' = "planning"
  /\ delivered' = [delivered EXCEPT !.records = << >>]
  /\ verified' = [ws |-> ws, dep |-> dep] /\ observed' = FALSE
  /\ UNCHANGED <<setting, run, round, faults, touched, tested>>

\* EnvironmentVerifier: the command runs in the workspace itself.
CheckFixed ==
  /\ stage = "checking" /\ checker = "fixed"
  /\ \E effect \in Running(FixedTests, ws, dep) :
       /\ Reported(Report(Handoff, delivered, [passed |-> effect.result.out = "exit_0"]))
       /\ ws' = effect.ws /\ UNCHANGED dep

\* BasicResultVerifier reads the workspace, and runs nothing.
CheckBasic ==
  /\ stage = "checking" /\ checker = "basic"
  /\ Reported(BasicVerify(Handoff, delivered, Existing(ws), Paths))
  /\ UNCHANGED <<place>>

-----------------------------------------------------------------------------
(* The independent review: several calls, with the user at work in between. *)

\* VerificationGate.verify asks the verifier, unless the mechanical checks stop it or the
\* run did not come to its end.
BeginReview ==
  /\ stage = "checking" /\ checker = "independent"
  /\ LET basic == BasicVerify(Handoff, delivered, Existing(ws), Paths)
     IN  IF AsksVerifier(Handoff, delivered, basic)
           THEN /\ stage' = "reviewing"
                /\ UNCHANGED <<setting, run, outcome, faults, history>>
           ELSE Reported(IF basic.hard THEN basic
                         ELSE WithBasic(ExecutionFailure(Handoff, delivered), basic))
  /\ UNCHANGED place

\* run_verification_tests copies the workspace, which may fail, and runs the tests on the
\* copy.  They are no sandbox: code that names the workspace by its path writes there.
VerificationTests ==
  Running(FixedTests, ws, dep)
    \cup {Effect(ws, dep, Refusal(FixedTests, code)) :
            code \in {"verification_snapshot_limit", "tool_exception"}}

\* A call of the verifier runs the tests, or reads a record of the result or a file, lists
\* the workspace, or asks for a package; what it finds unusable leaves it where it was.
\* The bounds of a review on its calls are those of VerifierRun; none is needed here.
Observe ==
  /\ stage = "reviewing"
  /\ \/ \E effect \in VerificationTests :
          ws' = effect.ws /\ observed' = (observed \/ Usable(effect.result))
     \/ observed' = TRUE /\ UNCHANGED ws
  /\ UNCHANGED <<setting, dep, stage, run, round, delivered, report, status, faults, history>>

\* Passing needs evidence that was observed and is usable, which need not be tests; the
\* review may also fail the delivery, or come to no report.  What the mechanical checks
\* had found missing is a matter of the result alone, and is added to it.
EndReview ==
  /\ stage = "reviewing"
  /\ LET basic == BasicVerify(Handoff, delivered, Existing(ws), Paths)
         Review(fields) ==
           Reported(WithBasic(
             Classified(Handoff, delivered, Report(Handoff, delivered, fields)), basic))
     IN  \/ observed /\ Review([passed |-> TRUE])
         \/ \E category \in {"validation", "insufficient_evidence"} :
              Review([passed |-> FALSE, category |-> category, retryable |-> "yes",
                      allowed |-> {"stop", "replan"}])
         \/ Reported(Unreviewed(Handoff, delivered, basic, "model_response"))
  /\ UNCHANGED place

-----------------------------------------------------------------------------
(* The verifier by kind of artifact.                                       *)

\* verify_inspection: only looks, and each look that can be repeated shows the same.
InspectionHolds ==
  LET records == delivered.records
      looks == {i \in DOMAIN records : records[i].ok /\ records[i].tool \in {"read_file", "list_files"}}
  IN  /\ delivered.files = {}
      /\ \A i \in DOMAIN records :
           ~(records[i].ok /\ records[i].tool \in FileTools \cup {"run_command"})
      /\ looks # {}
      /\ \A i \in looks :
           records[i].seen = IF records[i].tool = "list_files" THEN Existing(ws)
                             ELSE {ws[records[i].path]}

\* ArtifactAwareCodeVerifier, apart from the tests and from the research a page has to
\* cite: the declared files are there and not blank, Python comes with a test, a page
\* is whole.
ArtifactsHold ==
  /\ delivered.files # {} /\ delivered.files \subseteq Filled(ws)
  /\ "program" \in delivered.files => "test" \in delivered.files
  /\ "page" \in delivered.files => ws["page"] = "right"

CheckByKind ==
  /\ stage = "checking" /\ checker = "by_kind"
  /\ LET tests == mode = "artifact" /\ "test" \in delivered.files \cap Existing(ws)
         holds == IF mode = "inspection" THEN InspectionHolds ELSE ArtifactsHold
     IN  \E effect \in IF tests THEN Running(FixedTests, ws, dep)
                       ELSE {Effect(ws, dep, Refusal(FixedTests, "none"))} :
           /\ Reported(Report(Handoff, delivered,
                [passed |-> delivered.completed /\ holds
                              /\ (tests => effect.result.out = "exit_0")]))
           /\ ws' = effect.ws /\ UNCHANGED dep

-----------------------------------------------------------------------------
(* Decisions.                                                              *)

Ends(s) ==
  /\ stage' = "done" /\ status' = s
  /\ UNCHANGED <<setting, place, run, round, delivered, observed, report, faults, history>>

\* Bug for comparison: the decision of the planner is followed.
GuardedNever(action) == action

\* _guard_verification_decision.
Guarded(action) ==
  IF ~report.passed /\ round >= MaxRounds THEN "stop"
  ELSE IF ~report.passed /\ action = "finish" THEN "retry"
  ELSE action

\* LangGraph stops a run of more than recursion_limit steps; the limit is one round
\* more than the rounds that are meant to be.
StepsLeft == 3 * round + 2 <= 3 * MaxRounds + 4

\* _planner_node; the planner may be any.
PlannerDecides ==
  /\ Baseline /\ stage = "deciding"
  /\ IF round = 0 THEN Work
     ELSE \E action \in {"execute", "retry", "finish", "stop"} :
            CASE Guarded(action) \in {"execute", "retry"} ->
                   IF StepsLeft THEN Work ELSE Ends("recursion_error")
              [] Guarded(action) = "finish" -> Ends("completed")
              [] OTHER -> Ends(IF round >= MaxRounds THEN "max_attempts" ELSE "failed")

\* artifact_guard, when a delivery is accepted and again when the task is finished.
Undelivered ==
  mode = "artifact" /\ (delivered.files = {} \/ ~(delivered.files \subseteq Existing(ws)))

\* The todo of the delivery, as the review reads it.
Todo ==
  [result |-> round, handoff |-> round, verification |-> round, owner |-> "code_agent",
   level |-> IF checker = "independent" THEN "independent" ELSE "basic", criteria |-> {}]

SupervisorDelegates ==
  /\ ~Baseline /\ stage = "deciding" /\ status = "planning" /\ round < MaxRounds
  /\ Work

SupervisorAccepts ==
  /\ ~Baseline /\ stage = "deciding" /\ status = "planning" /\ round > 0
  /\ ~Blocked(Todo, 1, delivered, report) /\ ~Undelivered
  /\ status' = "accepted"
  /\ UNCHANGED <<setting, place, stage, run, round, delivered, observed, report, faults,
                 history>>

SupervisorFinishes ==
  /\ stage = "deciding" /\ status = "accepted" /\ ~Undelivered
  /\ Ends("completed")

SupervisorStops ==
  /\ ~Baseline /\ stage = "deciding" /\ round > 0
  /\ Ends("failed")

-----------------------------------------------------------------------------
\* The user works in the same directory.
UserEdits(p, content) ==
  /\ stage # "done" /\ edits < MaxEdits /\ ws[p] # content
  /\ edits' = edits + 1
  /\ ws' = [ws EXCEPT ![p] = content]
  /\ UNCHANGED <<setting, dep, stage, run, outcome, broken, history>>

Next ==
  \/ PlannerDecides \/ SupervisorDelegates \/ SupervisorAccepts \/ SupervisorFinishes
  \/ SupervisorStops
  \/ BeginStep \/ EndStep \/ Finish \/ Stopped
  \/ \E call \in Calls[mode] : Call(call)
  \/ \E approved \in BOOLEAN : Decide(approved)
  \/ CheckFixed \/ CheckBasic \/ BeginReview \/ Observe \/ EndReview \/ CheckByKind
  \/ \E change \in UserChanges : UserEdits(change[1], change[2])

Spec == Init /\ [][Next]_vars

-----------------------------------------------------------------------------
\* Types, and the bounds on calls and rounds.
TypeOK ==
  /\ checker \in CheckersOf(mode) \cup {"open"}
  /\ ws \in Workspace /\ dep \in BOOLEAN
  /\ stage \in {"deciding", "acting", "checking", "reviewing", "done"}
  /\ observed \in BOOLEAN
  /\ calls \in Len(results) .. MaxCalls /\ turn \in 0 .. Len(results)
  /\ asked \in Calls[mode] \cup {NoCall}
  /\ round \in 0 .. MaxRounds + 2
  /\ touched \subseteq Paths

\* A call reaches the handler of a file tool, whatever the answers of the gate before it
\* were, only in a delegation that is to make files, or, in one for the environment, after
\* a command of the round has failed and turned the phase to debugging; in an inspection
\* never.  This is what _next_phase does, and less than docs/verification-agent.md:15 says:
\* that a delivery for the environment is shown no tools that write files.
FileToolsNeedAReason ==
  \A i \in DOMAIN results :
    results[i].tool \in FileTools /\ results[i].code \notin GateCodes =>
      \/ mode \in {"artifact", "baseline"}
      \/ mode = "environment" /\ \E j \in 1 .. i - 1 : CommandFailed(results[j])

\* Whatever the file tools of a round changed is declared in its result, across
\* approvals and stops: it is what the verifier, the guard of the acceptance and the
\* user are told to look at.
ChangesAreDeclared ==
  ~Baseline /\ delivered # NotDelivered => touched \subseteq delivered.files

\* When the mechanical checks report no failed command, the last test run of the round
\* succeeded, and on files that were right when it ran.
SilenceMeansTestsPassed ==
  /\ checker = "basic" /\ report # NoReport
  /\ <<"command failed">> \notin report.limits
  /\ tested # NotTested
  => tested.out = "exit_0" /\ tested.passes

\* Work that ends as completed is backed by the workspace: in the baseline the tests
\* passed on what the verifier saw, in the application the declared files of an
\* artifact are there when the task is finished, although the user may have removed
\* them since they were checked.
CompletedIsBacked ==
  status = "completed" =>
    IF Baseline THEN TestsPass(verified.ws, verified.dep)
    ELSE mode = "artifact" => delivered.files # {} /\ delivered.files \subseteq Existing(ws)

=============================================================================
