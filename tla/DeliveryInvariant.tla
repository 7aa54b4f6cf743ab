-------------------------- MODULE DeliveryInvariant --------------------------
(***************************************************************************)
(* The inductive invariant behind the properties of CodeDelivery.  None of *)
(* them is inductive: what a result declares, whether it counts as failing *)
(* and which tools it could have used follow from what the records of the  *)
(* round say while it lasts, and these records are gone when the result is *)
(* judged.  Each part below says what they meant, before and after.        *)
(***************************************************************************)
EXTENDS CodeDelivery

IsSequence(s) == Len(s) \in Nat /\ s = [i \in 1..Len(s) |-> s[i]]

\* Where a round is: its records exist while it acts, a call waits within a step.
AtWork ==
  /\ mode \in Modes /\ IsSequence(results)
  /\ \A i \in DOMAIN results : results[i].ok \in BOOLEAN
  /\ stage # "acting" => results = << >> /\ view = NoView
  /\ view = NoView => asked = NoCall /\ turn = 0
  /\ view # NoView => view = Exposed(phase, Registry)
  /\ asked # NoCall => asked.tool = "run_command" /\ asked.text \notin Malformed
                        /\ "run_command" \in view /\ calls < MaxCalls

\* What was judged, and when: nothing while the round goes on.
Judged ==
  /\ stage = "acting" => delivered = NotDelivered
  /\ stage \in {"checking", "reviewing"} => delivered # NotDelivered
  /\ stage = "reviewing" => checker = "independent"
  /\ stage \in {"acting", "checking", "reviewing"} => report = NoReport
  /\ delivered # NotDelivered => DOMAIN delivered = DOMAIN CodeResult("none", "legacy", "not_needed")
  /\ status = "completed" => stage = "done"
  /\ status = "accepted" => ~Baseline /\ stage = "deciding"

\* The phase of a delivery that is not to make files.
Phased ==
  stage = "acting" =>
    /\ mode = "environment" =>
         \/ phase = "environment"
         \/ phase = "debugging" /\ \E j \in DOMAIN results : CommandFailed(results[j])
    /\ mode = "inspection" =>
         phase = "inspection" /\ \A j \in DOMAIN results : ~CommandFailed(results[j])

\* The files the round changed are on record while it lasts.
Recorded ==
  ~Baseline /\ stage = "acting" => touched \subseteq Written(results, FileTools)

IsTest(result) == result.ok /\ result.tool = "run_command" /\ result.path = "tests"

\* tested is about the last test run on record.
LastTest ==
  stage = "acting" /\ tested # NotTested =>
    \E k \in DOMAIN results :
      /\ IsTest(results[k]) /\ \A j \in DOMAIN results : j > k => ~IsTest(results[j])
      /\ \/ results[k].out \in {"failed", "timed_out"}
         \/ tested.out = "exit_0" /\ tested.passes

\* A result that is not failing had no test run, or its last one passed.
Silent ==
  ~Baseline /\ delivered # NotDelivered /\ ~delivered.failing /\ tested # NotTested
    => tested.out = "exit_0" /\ tested.passes

\* The mechanical checks tell of a failed command.
Discloses ==
  checker = "basic" /\ report # NoReport =>
    /\ ~Baseline /\ delivered # NotDelivered
    /\ delivered.failing => <<"command failed">> \in report.limits

\* The baseline passes on tests alone.
PassedOnTests == Baseline /\ report.passed => TestsPass(verified.ws, verified.dep)

IInv ==
  /\ TypeOK /\ AtWork /\ Judged
  /\ Phased /\ FileToolsNeedAReason
  /\ Recorded /\ ChangesAreDeclared
  /\ LastTest /\ Silent /\ Discloses
  /\ PassedOnTests /\ CompletedIsBacked

=============================================================================
