--------------------------- MODULE DeliveryProofs ---------------------------
(***************************************************************************)
(* That the properties of CodeDelivery hold for any calls of the model,    *)
(* first workspaces, edits of the user and bounds.  First what a call may  *)
(* come to, then the round that records it, then the judgement.            *)
(***************************************************************************)
EXTENDS DeliveryInvariant, SequenceTheorems, TLAPS

USE DEF Paths, Content, Workspace, FileTools, Modes

-----------------------------------------------------------------------------
(* Sequences of whatever.                                                  *)

LEMMA TypedIsSequence ==
  ASSUME NEW S, NEW s \in Seq(S)
  PROVE  IsSequence(s)
BY DEF IsSequence

LEMMA AppendFacts ==
  ASSUME NEW s, NEW e, IsSequence(s)
  PROVE  /\ IsSequence(Append(s, e)) /\ Len(Append(s, e)) = Len(s) + 1 /\ Len(s) \in Nat
         /\ DOMAIN s = 1..Len(s) /\ DOMAIN Append(s, e) = 1..(Len(s) + 1)
         /\ \A i \in 1..Len(s) : Append(s, e)[i] = s[i]
         /\ Append(s, e)[Len(s) + 1] = e
<1> DEFINE S == {s[i] : i \in 1..Len(s)} \cup {e}
<1>1. s \in Seq(S) /\ e \in S
  BY DEF IsSequence
<1> HIDE DEF S
<1>2. Append(s, e) \in Seq(S) /\ Len(Append(s, e)) = Len(s) + 1 /\ Len(s) \in Nat
  BY <1>1
<1>3. IsSequence(Append(s, e))
  BY <1>2, TypedIsSequence
<1>4. /\ DOMAIN s = 1..Len(s) /\ DOMAIN Append(s, e) = 1..(Len(s) + 1)
      /\ \A i \in 1..Len(s) : Append(s, e)[i] = s[i]
      /\ Append(s, e)[Len(s) + 1] = e
  BY <1>1, <1>2
<1> QED
  BY <1>2, <1>3, <1>4

-----------------------------------------------------------------------------
(* What a call may come to.                                                *)

\* The effect is about the call, keeps the types, and says of files and tests what the
\* properties rest on.
SoundEffect(effect, call) ==
  /\ effect.ws \in Workspace /\ effect.dep \in BOOLEAN /\ effect.result.ok \in BOOLEAN
  /\ effect.result.tool = call.tool
  /\ effect.result.tool \in FileTools /\ effect.result.code # "tool_exception" =>
       \A p \in Paths : effect.ws[p] # ws[p] => effect.result.ok /\ p = effect.result.path
  /\ IsTest(effect.result) =>
       \/ effect.result.out \in {"failed", "timed_out"}
       \/ effect.result.out = "exit_0" /\ TestsPass(ws, dep)

LEMMA RefusalIsSound ==
  ASSUME NEW call, ws \in Workspace, dep \in BOOLEAN, NEW code
  PROVE  /\ SoundEffect(Effect(ws, dep, Refusal(call, code)), call)
         /\ Effect(ws, dep, Refusal(call, code)).result.code = code
         /\ ~CommandFailed(Effect(ws, dep, Refusal(call, code)).result)
BY DEF SoundEffect, Effect, Refusal, ToolResult, IsTest, CommandFailed

LEMMA WritingIsSound ==
  ASSUME NEW call, WellFormed(call), ws \in Workspace, dep \in BOOLEAN,
         call.tool \in FileTools, call.path \in Paths, NEW effect \in Writing(call, ws, dep)
  PROVE  SoundEffect(effect, call)
<1>1. ASSUME NEW text \in {call.text, "blank"}
      PROVE  /\ [ws EXCEPT ![call.path] = text] \in Workspace
             /\ \A p \in Paths : [ws EXCEPT ![call.path] = text][p] # ws[p] => p = call.path
  BY DEF WellFormed
<1>2. CASE effect = Effect([ws EXCEPT ![call.path] = call.text], dep,
                          ToolResult(call, TRUE, "none", "none"))
  <2>1. /\ effect.ws = [ws EXCEPT ![call.path] = call.text] /\ effect.dep = dep
        /\ effect.result.tool = call.tool /\ effect.result.ok = TRUE
        /\ effect.result.path = call.path
    BY <1>2 DEF Effect, ToolResult
  <2> QED
    BY <1>1, <2>1 DEF SoundEffect, IsTest
<1>3. CASE effect = Effect([ws EXCEPT ![call.path] = "blank"], dep,
                          Refusal(call, "tool_exception"))
  <2>1. /\ effect.ws = [ws EXCEPT ![call.path] = "blank"] /\ effect.dep = dep
        /\ effect.result.tool = call.tool /\ effect.result.ok = FALSE
        /\ effect.result.code = "tool_exception"
    BY <1>3 DEF Effect, Refusal, ToolResult
  <2> QED
    BY <1>1, <2>1 DEF SoundEffect, IsTest
<1> QED
  BY <1>2, <1>3 DEF Writing

LEMMA EditingIsSound ==
  ASSUME NEW call, WellFormed(call), ws \in Workspace, dep \in BOOLEAN,
         call.tool \in FileTools, call.path \in Paths, NEW effect \in Editing(call, ws, dep)
  PROVE  SoundEffect(effect, call)
BY RefusalIsSound, WritingIsSound DEF Editing

\* Looking and probing leave everything as it is.
LEMMA LookingIsSound ==
  ASSUME NEW call, ws \in Workspace, dep \in BOOLEAN, call.tool # "run_command",
         NEW effect \in Listing(call, ws, dep) \cup Probing(call, ws, dep) \cup Reading(call, ws, dep)
  PROVE  SoundEffect(effect, call)
<1>1. /\ effect.ws = ws /\ effect.dep = dep
      /\ effect.result.tool = call.tool /\ effect.result.ok = TRUE
  BY DEF Listing, Probing, Reading, Effect, Sight, ToolResult
<1> QED
  BY <1>1 DEF SoundEffect, IsTest

LEMMA RunningIsSound ==
  ASSUME NEW call, WellFormed(call), ws \in Workspace, dep \in BOOLEAN,
         call.tool = "run_command", NEW effect \in Running(call, ws, dep)
  PROVE  SoundEffect(effect, call)
<1>1. CASE call.text = "tests"
  <2> DEFINE Outs == {IF TestsPass(ws, dep) THEN "exit_0" ELSE "failed", "timed_out"}
             Of(after, out) == Effect(after, dep, ToolResult(call, TRUE, out, "none"))
  <2>1. Running(call, ws, dep) = {Of(after, out) : after \in AfterTests(ws), out \in Outs}
    BY <1>1 DEF Running, TestRuns
  <2>2. \A out \in Outs : out \in {"failed", "timed_out"} \/ (out = "exit_0" /\ TestsPass(ws, dep))
    OBVIOUS
  <2> HIDE DEF Outs, Of
  <2>3. PICK after \in AfterTests(ws), out \in Outs : effect = Of(after, out)
    BY <2>1
  <2>4. after \in Workspace
    BY <2>3 DEF AfterTests, Spoilt
  <2>5. /\ effect.ws = after /\ effect.dep = dep
        /\ effect.result.tool = call.tool /\ effect.result.ok = TRUE /\ effect.result.out = out
    BY <2>3 DEF Of, Effect, ToolResult
  <2>6. out \in {"failed", "timed_out"} \/ (out = "exit_0" /\ TestsPass(ws, dep))
    BY <2>3, <2>2
  <2> QED
    BY <2>4, <2>5, <2>6 DEF SoundEffect
<1>2. CASE call.text # "tests"
  <2> DEFINE Shape(e) ==
        /\ e.ws \in {ws, Spoilt(ws)} /\ e.dep \in {dep, TRUE}
        /\ e.result.tool = call.tool /\ e.result.ok \in BOOLEAN /\ e.result.path = call.path
  <2>1. ASSUME call.text = "install" PROVE Shape(effect)
    <3>1. Running(call, ws, dep) = {Effect(ws, TRUE, ToolResult(call, TRUE, "exit_0", "none")),
                                    Effect(ws, dep, ToolResult(call, TRUE, "failed", "none"))}
      BY <2>1 DEF Running
    <3>2. CASE effect = Effect(ws, TRUE, ToolResult(call, TRUE, "exit_0", "none"))
      BY <3>2 DEF Effect, ToolResult
    <3>3. CASE effect = Effect(ws, dep, ToolResult(call, TRUE, "failed", "none"))
      BY <3>3 DEF Effect, ToolResult
    <3> QED
      BY <3>1, <3>2, <3>3
  <2>2. ASSUME call.text # "install" PROVE Shape(effect)
    <3> DEFINE Wrote == Effect(Spoilt(ws), dep, ToolResult(call, TRUE, "exit_0", "none"))
               Missing == Effect(ws, dep, Refusal(call, "command_not_found"))
    <3>1. CASE effect = Wrote
      BY <3>1 DEF Effect, ToolResult
    <3>2. CASE effect = Missing
      BY <3>2 DEF Effect, Refusal, ToolResult
    <3> HIDE DEF Shape
    <3>3. Running(call, ws, dep) = {Wrote, Missing}
      BY <1>2, <2>2 DEF Running
    <3> QED
      BY <3>1, <3>2, <3>3
  <2>3. Shape(effect)
    BY <2>1, <2>2
  <2> QED
    BY ZenonT(40), <1>2, <2>3 DEF SoundEffect, IsTest, WellFormed, Spoilt
<1> QED
  BY <1>1, <1>2

LEMMA ExecutionIsSound ==
  ASSUME NEW call, WellFormed(call), ws \in Workspace, dep \in BOOLEAN,
         NEW effect \in Execute(call, ws, dep)
  PROVE  SoundEffect(effect, call)
<1>1. CASE call.tool \in FileTools \cup {"read_file"} /\ call.path \notin Paths
  BY <1>1, RefusalIsSound DEF Execute
<1>2. CASE /\ ~(call.tool \in FileTools \cup {"read_file"} /\ call.path \notin Paths)
           /\ call.tool \in {"edit_file", "read_file"} /\ call.path \notin Existing(ws)
  BY <1>2, RefusalIsSound DEF Execute
<1>3. CASE /\ ~(call.tool \in FileTools \cup {"read_file"} /\ call.path \notin Paths)
           /\ ~(call.tool \in {"edit_file", "read_file"} /\ call.path \notin Existing(ws))
  <2>1. CASE call.tool = "write_file"
    BY <1>3, <2>1, WritingIsSound DEF Execute
  <2>2. CASE call.tool = "edit_file"
    BY <1>3, <2>2, EditingIsSound DEF Execute
  <2>3. CASE call.tool = "read_file"
    BY <1>3, <2>3, LookingIsSound DEF Execute
  <2>4. CASE call.tool = "run_command"
    BY <1>3, <2>4, RunningIsSound DEF Execute
  <2>5. CASE call.tool \notin {"write_file", "edit_file", "read_file", "run_command"}
    BY <1>3, <2>5, LookingIsSound DEF Execute
  <2> QED
    BY <2>1, <2>2, <2>3, <2>4, <2>5
<1> QED
  BY <1>1, <1>2, <1>3

-----------------------------------------------------------------------------
(* The round.                                                              *)

\* The outcome of a call becomes a record of the round.
LEMMA AnsweredKeeps ==
  ASSUME IInv, DeliveryConstants, NEW call, NEW effect, SoundEffect(effect, call),
         stage = "acting", view # NoView, calls < MaxCalls, Answered(effect), asked' = NoCall,
         call.tool \in FileTools /\ effect.result.code \notin GateCodes => call.tool \in view,
         CommandFailed(effect.result) => "run_command" \in view
  PROVE  IInv'
<1> DEFINE result == effect.result
           n == Len(results) + 1
<1>1. /\ IsSequence(results') /\ Len(results') = n /\ Len(results) \in Nat
      /\ DOMAIN results = 1..Len(results) /\ DOMAIN results' = 1..n
      /\ \A i \in 1..Len(results) : results'[i] = results[i]
      /\ results'[n] = result
  BY AppendFacts DEF IInv, AtWork, Answered
<1>2. /\ UNCHANGED <<mode, checker, stage, phase, view, turn, delivered, observed, report, status,
                     verified>>
      /\ UNCHANGED round
      /\ ws' = effect.ws /\ dep' = effect.dep /\ calls' = calls + 1
  BY DEF Answered, setting, outcome
<1>3. \A i \in DOMAIN results' :
        \/ i \in DOMAIN results /\ results'[i] = results[i]
        \/ i = n /\ results'[i] = result
  BY <1>1
<1>4. \A i \in DOMAIN results : i \in DOMAIN results' /\ results'[i] = results[i] /\ i < n
  BY <1>1
<1>5. n \in DOMAIN results' /\ results'[n] = result
  BY <1>1
<1>6. /\ result.tool = call.tool /\ result.ok \in BOOLEAN
      /\ effect.ws \in Workspace /\ effect.dep \in BOOLEAN
  BY DEF SoundEffect
<1>7. TypeOK'
  <2>1. touched' \subseteq Paths
    BY DEF Answered, IInv, TypeOK
  <2>2. calls' \in Len(results')..MaxCalls /\ turn' \in 0..Len(results')
    BY <1>1, <1>2 DEF IInv, TypeOK, DeliveryConstants
  <2> QED
    BY <1>2, <1>6, <2>1, <2>2 DEF IInv, TypeOK
<1>8. AtWork'
  BY <1>1, <1>2, <1>3, <1>6 DEF IInv, AtWork, Registry, Baseline
<1>9. Judged'
  BY <1>2 DEF IInv, Judged, CodeResult
<1>10. view = Exposed(phase, Registry)
  BY DEF IInv, AtWork
<1>11. Phased'
  <2>1. CommandFailed(result) => mode # "inspection"
    BY <1>10 DEF IInv, Phased, Exposed, ToolsOfPhase, LookTools
  <2> QED
    BY <1>2, <1>3, <1>4, <2>1 DEF IInv, Phased
<1>12. FileToolsNeedAReason'
  <2>1. call.tool \in FileTools /\ result.code \notin GateCodes =>
          \/ mode \in {"artifact", "baseline"}
          \/ mode = "environment" /\ \E j \in DOMAIN results : CommandFailed(results[j])
    BY <1>10 DEF IInv, AtWork, Phased, Exposed, ToolsOfPhase, LookTools
  <2>2. ASSUME NEW i \in DOMAIN results', results'[i].tool \in FileTools,
               results'[i].code \notin GateCodes, mode \notin {"artifact", "baseline"}
        PROVE  mode = "environment" /\ \E j \in 1 .. i - 1 : CommandFailed(results'[j])
    <3>1. CASE i \in DOMAIN results /\ results'[i] = results[i]
      <4>1. mode = "environment" /\ \E j \in 1 .. i - 1 : CommandFailed(results[j])
        BY <2>2, <3>1 DEF IInv, FileToolsNeedAReason
      <4> QED
        BY <1>1, <1>4, <3>1, <4>1
    <3>2. CASE i = n /\ results'[i] = result
      BY <1>1, <1>4, <1>6, <2>1, <2>2, <3>2
    <3> QED
      BY <1>3, <3>1, <3>2
  <2> QED
    BY <1>2, <2>2 DEF FileToolsNeedAReason
<1>13. Recorded'
  <2> SUFFICES ASSUME ~Baseline, NEW p \in touched'
               PROVE  p \in Written(results', FileTools)
    BY <1>2 DEF Recorded, Baseline
  <2>1. CASE p \in touched
    <3>1. PICK i \in DOMAIN results :
            results[i].ok /\ results[i].tool \in FileTools /\ p = results[i].path
      BY <2>1 DEF IInv, Recorded, Written
    <3> QED
      BY <1>4, <3>1 DEF Written
  <2>2. CASE p \notin touched
    <3>1. /\ result.tool \in FileTools /\ result.code # "tool_exception"
          /\ p \in Paths /\ effect.ws[p] # ws[p]
      BY <2>2 DEF Answered
    <3>2. result.ok /\ p = result.path
      BY <3>1 DEF SoundEffect
    <3> QED
      BY <1>5, <3>1, <3>2 DEF Written
  <2> QED
    BY <2>1, <2>2
<1>14. ChangesAreDeclared' /\ Silent' /\ Discloses' /\ PassedOnTests' /\ CompletedIsBacked'
  BY <1>2 DEF IInv, Judged, ChangesAreDeclared, Silent, Discloses, PassedOnTests,
              CompletedIsBacked, Baseline
<1>15. LastTest'
  <2>1. CASE IsTest(result)
    <3>1. \A j \in DOMAIN results' : ~(j > n)
      BY <1>1
    <3>2. tested' = [out |-> result.out, passes |-> TestsPass(ws, dep)]
      BY <2>1 DEF Answered, IsTest
    <3>3. \/ result.out \in {"failed", "timed_out"}
          \/ tested'.out = "exit_0" /\ tested'.passes
      BY <2>1, <3>2 DEF SoundEffect
    <3> QED
      BY <1>5, <2>1, <3>1, <3>3 DEF LastTest
  <2>2. CASE ~IsTest(result)
    <3>1. tested' = tested
      BY <2>2 DEF Answered, IsTest
    <3>2. CASE tested = NotTested
      BY <3>1, <3>2 DEF LastTest, NotTested
    <3>3. CASE tested # NotTested
      <4>1. PICK k \in DOMAIN results :
              /\ IsTest(results[k]) /\ \A j \in DOMAIN results : j > k => ~IsTest(results[j])
              /\ \/ results[k].out \in {"failed", "timed_out"}
                 \/ tested.out = "exit_0" /\ tested.passes
        BY <3>3 DEF IInv, LastTest
      <4> QED
        BY <1>3, <1>4, <2>2, <3>1, <4>1 DEF LastTest
    <3> QED
      BY <3>2, <3>3
  <2> QED
    BY <2>1, <2>2
<1> QED
  BY <1>7, <1>8, <1>9, <1>11, <1>12, <1>13, <1>14, <1>15 DEF IInv

LEMMA GatekeeperSays ==
  ASSUME NEW call, NEW exposed, NEW registry, NEW harness
  PROVE  LET answer == Gatekeeper(call, exposed, registry, harness) IN
             /\ answer \in {"ASK", "ok"} => call.tool \in exposed
             /\ answer \in {"ASK", "ok"} => call.text \notin Malformed
             /\ answer = "ASK" => call.tool = "run_command"
             /\ answer \notin {"ASK", "ok"} => answer \in GateCodes
<1> DEFINE answer == Gatekeeper(call, exposed, registry, harness)
<1>1. \/ answer \in GateCodes
      \/ answer \in {"ASK", "ok"} /\ call.tool \in exposed /\ call.text \notin Malformed
  BY DEF Gatekeeper, GateCodes, MalformedCode, Malformed
<1>2. ASSUME call.tool # "run_command" PROVE answer # "ASK"
  <2>1. Permission(call) = "ALLOW"
    BY <1>2 DEF Permission
  <2> QED
    BY <2>1 DEF Gatekeeper, MalformedCode
<1>3. {"ASK", "ok"} \cap GateCodes = {}
  BY DEF GateCodes
<1> HIDE DEF answer
<1> SUFFICES /\ answer \in {"ASK", "ok"} => call.tool \in exposed
             /\ answer \in {"ASK", "ok"} => call.text \notin Malformed
             /\ answer = "ASK" => call.tool = "run_command"
             /\ answer \notin {"ASK", "ok"} => answer \in GateCodes
  BY DEF answer
<1> QED
  BY <1>1, <1>2, <1>3

LEMMA CallKeeps ==
  ASSUME IInv, DeliveryConstants, NEW call \in Calls[mode], Call(call)
  PROVE  IInv'
<1> DEFINE answer == Gatekeeper(call, view, Registry, ~Baseline)
<1>1. /\ call.text \in Malformed \/ WellFormed(call)
      /\ ws \in Workspace /\ dep \in BOOLEAN /\ mode \in Modes
  BY DEF IInv, TypeOK, AtWork, DeliveryConstants
<1>2. stage = "acting" /\ view # NoView /\ asked = NoCall /\ calls < MaxCalls
  BY DEF Call
<1>3. /\ answer \in {"ASK", "ok"} => call.tool \in view
      /\ answer \in {"ASK", "ok"} => call.text \notin Malformed
      /\ answer = "ASK" => call.tool = "run_command"
      /\ answer \notin {"ASK", "ok"} => answer \in GateCodes
  BY GatekeeperSays
<1> HIDE DEF answer
<1>4. CASE answer = "ASK"
  <2>1. /\ asked' = call
        /\ UNCHANGED <<mode, checker, ws, dep, stage, phase, view, turn, results, calls, round,
                       delivered, observed, report, status, edits, broken, touched, tested, verified>>
    BY <1>4 DEF Call, answer, setting, place, outcome, faults, history
  <2> QED
    BY <1>2, <1>3, <1>4, <2>1 DEF IInv, TypeOK, AtWork, Judged, Phased, FileToolsNeedAReason,
         Recorded, ChangesAreDeclared, LastTest, Silent, Discloses, PassedOnTests,
         CompletedIsBacked, Baseline, Registry, CodeResult
<1>5. CASE answer = "ok"
  <2>1. PICK effect \in Execute(call, ws, dep) : Answered(effect) /\ asked' = NoCall
    BY <1>2, <1>5 DEF Call, answer
  <2>2. SoundEffect(effect, call)
    BY <1>1, <1>3, <1>5, <2>1, ExecutionIsSound
  <2>3. CommandFailed(effect.result) => call.tool = "run_command"
    BY <2>2 DEF SoundEffect, CommandFailed
  <2> QED
    BY <1>2, <1>3, <1>5, <2>1, <2>2, <2>3, AnsweredKeeps
<1>6. CASE answer \notin {"ASK", "ok"}
  <2> DEFINE effect == Effect(ws, dep, Refusal(call, answer))
  <2>1. Answered(effect) /\ asked' = NoCall
    BY <1>2, <1>6 DEF Call, answer
  <2>2. SoundEffect(effect, call) /\ effect.result.code = answer /\ ~CommandFailed(effect.result)
    BY <1>1, RefusalIsSound
  <2> HIDE DEF effect
  <2>3. effect.result.code \in GateCodes
    BY <1>3, <1>6, <2>2
  <2> QED
    BY <1>2, <2>1, <2>2, <2>3, AnsweredKeeps
<1> QED
  BY <1>4, <1>5, <1>6

LEMMA DecideKeeps ==
  ASSUME IInv, DeliveryConstants, NEW approved \in BOOLEAN, Decide(approved)
  PROVE  IInv'
<1>1. asked # NoCall /\ asked' = NoCall /\ asked \in Calls[mode] /\ asked.text \notin Malformed
  BY DEF Decide, IInv, TypeOK, AtWork
<1>2. WellFormed(asked) /\ ws \in Workspace /\ dep \in BOOLEAN
  BY <1>1 DEF IInv, TypeOK, AtWork, DeliveryConstants
<1>3. /\ stage = "acting" /\ view # NoView /\ calls < MaxCalls
      /\ asked.tool = "run_command" /\ "run_command" \in view
  BY <1>1 DEF IInv, AtWork
<1>4. PICK effect : Answered(effect) /\ SoundEffect(effect, asked)
  <2>1. CASE approved
    <3>1. PICK effect \in Execute(asked, ws, dep) : Answered(effect)
      BY <2>1 DEF Decide
    <3> QED
      BY <1>2, <3>1, ExecutionIsSound
  <2>2. CASE ~approved
    <3>1. Answered(Effect(ws, dep, Refusal(asked, "approval_rejected")))
      BY <2>2 DEF Decide
    <3> QED
      BY <1>2, <3>1, RefusalIsSound
  <2> QED
    BY <2>1, <2>2
<1> QED
  BY <1>1, <1>3, <1>4, AnsweredKeeps

LEMMA BeginStepKeeps ==
  ASSUME IInv, BeginStep
  PROVE  IInv'
<1>1. /\ stage = "acting" /\ view = NoView /\ asked = NoCall
      /\ view' = Exposed(phase, Registry) /\ turn' = Len(results)
      /\ UNCHANGED <<mode, checker, ws, dep, stage, phase, asked, results, calls, round,
                     delivered, observed, report, status, edits, broken, touched, tested, verified>>
  BY DEF BeginStep, IInv, AtWork, setting, place, outcome, faults, history
<1>2. Exposed(phase, Registry) # NoView
  BY DEF Exposed, Registry, NoView, CodeRegistry, BaselineRegistry, LookTools
<1>3. TypeOK'
  BY <1>1 DEF IInv, TypeOK, AtWork
<1> QED
  BY <1>1, <1>2, <1>3 DEF IInv, AtWork, Judged, Phased, FileToolsNeedAReason,
       Recorded, ChangesAreDeclared, LastTest, Silent, Discloses, PassedOnTests,
       CompletedIsBacked, Baseline, Registry, CodeResult

\* Only a failed command of the step changes the phase.
LEMMA EndStepKeeps ==
  ASSUME IInv, EndStep
  PROVE  IInv'
<1>1. /\ stage = "acting" /\ asked = NoCall /\ Len(results) > turn
      /\ phase' = NextPhase(phase, SubSeq(results, turn + 1, Len(results)))
      /\ view' = NoView /\ turn' = 0
      /\ UNCHANGED <<mode, checker, ws, dep, stage, asked, results, calls, round,
                     delivered, observed, report, status, edits, broken, touched, tested, verified>>
  BY DEF EndStep, setting, place, outcome, faults, history
<1>2. \/ phase' = phase
      \/ phase' = "debugging" /\ \E j \in DOMAIN results : CommandFailed(results[j])
  <2> DEFINE step == SubSeq(results, turn + 1, Len(results))
             S == {results[i] : i \in 1..Len(results)}
  <2>1. results \in Seq(S) /\ DOMAIN results = 1..Len(results) /\ Len(results) \in Nat
    BY DEF IInv, AtWork, IsSequence
  <2>2. turn \in Nat
    BY DEF IInv, TypeOK
  <2> HIDE DEF S
  <2>3. \A i \in DOMAIN step : turn + i \in DOMAIN results /\ step[i] = results[turn + i]
    BY <1>1, <2>1, <2>2
  <2> HIDE DEF step
  <2>4. \/ phase' = phase
        \/ phase' = "debugging" /\ \E i \in DOMAIN step : CommandFailed(step[i])
    BY <1>1 DEF NextPhase, step
  <2> QED
    BY <2>3, <2>4
<1>3. TypeOK'
  BY <1>1 DEF IInv, TypeOK, AtWork, IsSequence
<1>4. Phased'
  BY <1>1, <1>2 DEF IInv, Phased
<1> QED
  BY <1>1, <1>3, <1>4 DEF IInv, AtWork, Judged, FileToolsNeedAReason,
       Recorded, ChangesAreDeclared, LastTest, Silent, Discloses, PassedOnTests,
       CompletedIsBacked, Baseline, Registry, CodeResult

LEMMA WorkKeeps ==
  ASSUME IInv, DeliveryConstants, Work, stage = "deciding", round \in 0..MaxRounds + 1
  PROVE  IInv'
<1>1. /\ stage' = "acting" /\ round' = round + 1 /\ status' = "executing"
      /\ phase' = FirstPhase /\ delivered' = NotDelivered /\ report' = NoReport
      /\ observed' = FALSE
      /\ touched' = {} /\ tested' = NotTested /\ checker' = "open"
      /\ UNCHANGED <<mode, ws, dep, view, turn, asked, results, calls>>
  BY DEF Work, place
<1>2. results = << >> /\ view = NoView /\ asked = NoCall /\ turn = 0 /\ DOMAIN results = {}
  BY DEF IInv, AtWork
<1>3. TypeOK'
  <2>1. round' \in 0..MaxRounds + 2
    BY <1>1 DEF DeliveryConstants
  <2>2. observed' \in BOOLEAN
    BY <1>1
  <2>3. /\ ws' \in Workspace /\ dep' \in BOOLEAN /\ touched' \subseteq Paths
        /\ checker' \in CheckersOf(mode') \cup {"open"}
        /\ stage' \in {"deciding", "acting", "checking", "reviewing", "done"}
    BY <1>1 DEF IInv, TypeOK
  <2>4. /\ calls' \in Len(results')..MaxCalls /\ turn' \in 0..Len(results')
        /\ asked' \in Calls[mode'] \cup {NoCall}
    BY <1>1 DEF IInv, TypeOK
  <2> QED
    BY <2>1, <2>2, <2>3, <2>4 DEF TypeOK
<1>4. AtWork' /\ Judged' /\ FileToolsNeedAReason' /\ Recorded' /\ ChangesAreDeclared' /\ LastTest'
  BY <1>1, <1>2 DEF IInv, AtWork, Judged, FileToolsNeedAReason, Recorded, ChangesAreDeclared,
       LastTest, Registry, Baseline
<1>5. Phased'
  BY <1>1, <1>2 DEF Phased, FirstPhase, Baseline
<1>6. Silent' /\ Discloses' /\ PassedOnTests' /\ CompletedIsBacked'
  BY <1>1 DEF Silent, Discloses, PassedOnTests, CompletedIsBacked, NoReport
<1> QED
  BY <1>3, <1>4, <1>5, <1>6 DEF IInv

\* The records of the round become the result, and are gone.
LEMMA DeliverKeeps ==
  ASSUME IInv, NEW result, Deliver(result),
         DOMAIN result = DOMAIN CodeResult("none", "legacy", "not_needed"),
         ~Baseline => result.files = Written(results, FileTools) /\ result.failing = Failing(results)
  PROVE  IInv'
<1>1. /\ stage = "acting" /\ view = NoView /\ asked = NoCall /\ turn = 0 /\ report = NoReport
      /\ delivered' = result /\ checker' \in CheckersOf(mode)
      /\ stage' = "checking" /\ status' = "verifying" /\ results' = << >> /\ phase' = "none"
      /\ UNCHANGED <<mode, ws, dep, view, turn, asked, calls, round, observed, report, edits,
                     broken, touched, tested, verified>>
  BY DEF Deliver, IInv, AtWork, Judged, place, faults, history
<1>2. delivered' # NotDelivered
  BY <1>1 DEF CodeResult, NotDelivered
<1>3. TypeOK'
  BY <1>1 DEF IInv, TypeOK, AtWork, IsSequence
<1>4. AtWork' /\ Phased' /\ FileToolsNeedAReason' /\ Recorded' /\ LastTest'
  BY <1>1 DEF IInv, AtWork, Phased, FileToolsNeedAReason, Recorded, LastTest, IsSequence,
       Registry, Baseline
<1>5. Judged'
  BY <1>1, <1>2 DEF Judged, CodeResult
<1>6. ChangesAreDeclared'
  BY <1>1 DEF IInv, Recorded, ChangesAreDeclared, Baseline
<1>7. Silent'
  <2> SUFFICES ASSUME ~Baseline, ~result.failing, tested # NotTested
               PROVE  tested.out = "exit_0" /\ tested.passes
    BY <1>1 DEF Silent, Baseline
  <2>1. PICK k \in DOMAIN results :
          /\ IsTest(results[k]) /\ \A j \in DOMAIN results : j > k => ~IsTest(results[j])
          /\ \/ results[k].out \in {"failed", "timed_out"}
             \/ tested.out = "exit_0" /\ tested.passes
    BY <1>1 DEF IInv, LastTest
  <2>2. ASSUME results[k].out \in {"failed", "timed_out"} PROVE Failing(results)
    <3>1. results[k].tool \in Commands /\ results[k].ok /\ ~Usable(results[k])
      BY <2>1, <2>2 DEF IsTest, Commands, Usable
    <3>2. DOMAIN results = 1..Len(results) /\ Len(results) \in Nat
      BY DEF IInv, AtWork, IsSequence
    <3>3. ASSUME NEW j \in k + 1 .. Len(results)
          PROVE  \/ <<results[j].tool, results[j].path>> # <<results[k].tool, results[k].path>>
                 \/ ~results[j].ok
      <4>1. j \in DOMAIN results /\ j > k
        BY <3>2
      <4> QED
        BY <2>1, <4>1 DEF IsTest
    <3> QED
      BY <3>1, <3>3 DEF Failing
  <2> QED
    BY <2>1, <2>2
<1>8. Discloses' /\ PassedOnTests' /\ CompletedIsBacked'
  BY <1>1 DEF IInv, Discloses, PassedOnTests, CompletedIsBacked, NoReport
<1> QED
  BY <1>3, <1>4, <1>5, <1>6, <1>7, <1>8 DEF IInv

LEMMA RoundEndKeeps ==
  ASSUME IInv, Finish \/ Stopped
  PROVE  IInv'
<1>1. CASE Finish
  BY <1>1, DeliverKeeps DEF Finish, CodeResult
<1>2. CASE Stopped /\ Baseline
  BY <1>2, DeliverKeeps DEF Stopped, CodeResult
<1>3. CASE Stopped /\ ~Baseline
  <2>1. PICK delivery, finalization : Deliver(CodeResult("max_steps", delivery, finalization))
    BY <1>3 DEF Stopped
  <2> QED
    BY <2>1, DeliverKeeps DEF CodeResult
<1> QED
  BY <1>1, <1>2, <1>3

-----------------------------------------------------------------------------
(* The judgement.                                                          *)

LEMMA ReportFields ==
  ASSUME NEW h, NEW result, NEW fields, DOMAIN fields \subseteq DOMAIN NoReport
  PROVE  /\ DOMAIN Report(h, result, fields) = DOMAIN NoReport
         /\ \A x \in DOMAIN fields : Report(h, result, fields)[x] = fields[x]
BY DEF Report, Merged, NoReport

\* The mechanical checks say all they found missing, whatever else they decide.
LEMMA BasicDiscloses ==
  ASSUME NEW h, NEW result, NEW existing, NEW inside
  PROVE  LET report0 == BasicVerify(h, result, existing, inside)
         IN  DOMAIN report0 = DOMAIN NoReport /\ report0.limits = BasicLimits(h, result)
BY ReportFields DEF BasicVerify, NoReport

LEMMA ReportKeeps ==
  ASSUME IInv, stage \in {"checking", "reviewing"}, NEW new, Reported(new), DOMAIN new = DOMAIN NoReport,
         ws' \in Workspace, dep' = dep,
         checker = "basic" => new.limits = BasicLimits(Handoff, delivered),
         Baseline => (new.passed => TestsPass(ws, dep))
  PROVE  IInv'
<1>1. /\ report' = [new EXCEPT !.id = round] /\ stage' = "deciding" /\ status' = "planning"
      /\ delivered' = [delivered EXCEPT !.records = << >>]
      /\ verified' = [ws |-> ws, dep |-> dep] /\ observed' = FALSE
      /\ UNCHANGED <<mode, checker, phase, view, turn, asked, results, calls, round, edits,
                     broken, touched, tested>>
  BY DEF Reported, setting, run, faults
<1>2. /\ delivered # NotDelivered
      /\ DOMAIN delivered = DOMAIN CodeResult("none", "legacy", "not_needed")
  BY DEF IInv, Judged
<1>3. /\ DOMAIN delivered' = DOMAIN delivered /\ delivered' # NotDelivered
      /\ delivered'.files = delivered.files /\ delivered'.failing = delivered.failing
  BY <1>1, <1>2 DEF CodeResult, NotDelivered
<1>4. report'.limits = new.limits /\ report'.passed = new.passed
  BY <1>1 DEF NoReport
<1>5. TypeOK'
  BY <1>1 DEF IInv, TypeOK
<1>6. AtWork' /\ Phased' /\ FileToolsNeedAReason' /\ Recorded' /\ LastTest'
  BY <1>1 DEF IInv, AtWork, Phased, FileToolsNeedAReason, Recorded, LastTest, Registry, Baseline
<1>7. Judged'
  BY <1>1, <1>2, <1>3 DEF Judged, CodeResult
<1>8. ChangesAreDeclared' /\ Silent'
  BY <1>1, <1>2, <1>3 DEF IInv, ChangesAreDeclared, Silent, Baseline
<1>9. Discloses'
  <2> SUFFICES ASSUME checker = "basic"
               PROVE  ~Baseline /\ (delivered.failing => <<"command failed">> \in new.limits)
    BY <1>1, <1>3, <1>4 DEF Discloses, Baseline
  <2>1. ~Baseline
    BY DEF IInv, TypeOK, CheckersOf, Baseline
  <2>2. delivered.failing => <<"command failed">> \in BasicLimits(Handoff, delivered)
    BY DEF BasicLimits, Handoff
  <2> QED
    BY <2>1, <2>2
<1>10. PassedOnTests'
  BY <1>1, <1>4 DEF PassedOnTests, Baseline
<1>11. CompletedIsBacked'
  BY <1>1 DEF CompletedIsBacked
<1> QED
  BY <1>5, <1>6, <1>7, <1>8, <1>9, <1>10, <1>11 DEF IInv

\* The tests of the verifiers: they pass on what is right only.
LEMMA FixedTestsAreSound ==
  ASSUME ws \in Workspace, dep \in BOOLEAN, NEW effect \in Running(FixedTests, ws, dep)
  PROVE  /\ effect.ws \in Workspace
         /\ effect.result.out = "exit_0" => TestsPass(ws, dep)
<1> DEFINE Outs == {IF TestsPass(ws, dep) THEN "exit_0" ELSE "failed", "timed_out"}
           Of(after, out) == Effect(after, dep, ToolResult(FixedTests, TRUE, out, "none"))
<1>1. Running(FixedTests, ws, dep) = {Of(after, out) : after \in AfterTests(ws), out \in Outs}
  <2>1. FixedTests.text = "tests"
    BY DEF FixedTests
  <2> QED
    BY <2>1 DEF Running, TestRuns
<1>2. \A out \in Outs : out = "exit_0" => TestsPass(ws, dep)
  OBVIOUS
<1> HIDE DEF Outs, Of
<1>3. PICK after \in AfterTests(ws), out \in Outs : effect = Of(after, out)
  BY <1>1
<1>4. after \in Workspace
  BY <1>3 DEF AfterTests, Spoilt
<1>5. effect.ws = after /\ effect.result.out = out
  BY <1>3 DEF Of, Effect, ToolResult
<1> QED
  BY <1>2, <1>3, <1>4, <1>5

LEMMA CheckKeeps ==
  ASSUME IInv, CheckFixed \/ CheckBasic \/ CheckByKind
  PROVE  IInv'
<1>1. /\ ws \in Workspace /\ dep \in BOOLEAN
      /\ checker \in {"independent", "by_kind"} => ~Baseline
  BY DEF IInv, TypeOK, CheckersOf, Baseline
<1>2. CASE CheckFixed
  <2>1. PICK effect \in Running(FixedTests, ws, dep) :
          /\ Reported(Report(Handoff, delivered, [passed |-> effect.result.out = "exit_0"]))
          /\ ws' = effect.ws /\ dep' = dep
    BY <1>2 DEF CheckFixed
  <2> DEFINE fields == [passed |-> effect.result.out = "exit_0"]
             new == Report(Handoff, delivered, fields)
  <2>2. DOMAIN fields \subseteq DOMAIN NoReport
    BY DEF NoReport
  <2>3. DOMAIN new = DOMAIN NoReport /\ new.passed = fields.passed
    BY <2>2, ReportFields
  <2> HIDE DEF new
  <2>4. new.passed => TestsPass(ws, dep)
    BY <1>1, <2>3, FixedTestsAreSound
  <2> QED
    BY <1>1, <1>2, <2>1, <2>3, <2>4, FixedTestsAreSound, ReportKeeps DEF CheckFixed, new
<1>3. CASE CheckBasic
  <2>1. ~Baseline
    BY <1>3 DEF CheckBasic, IInv, TypeOK, CheckersOf, Baseline
  <2> QED
    BY <1>1, <1>3, <2>1, BasicDiscloses, ReportKeeps DEF CheckBasic, place
<1>4. CASE CheckByKind
  <2> DEFINE tests == mode = "artifact" /\ "test" \in delivered.files \cap Existing(ws)
             holds == IF mode = "inspection" THEN InspectionHolds ELSE ArtifactsHold
  <2>1. PICK effect \in IF tests THEN Running(FixedTests, ws, dep)
                       ELSE {Effect(ws, dep, Refusal(FixedTests, "none"))} :
          /\ Reported(Report(Handoff, delivered,
                [passed |-> delivered.completed /\ holds
                              /\ (tests => effect.result.out = "exit_0")]))
          /\ ws' = effect.ws /\ dep' = dep
    BY <1>4 DEF CheckByKind
  <2>2. ws' \in Workspace
    BY <1>1, <2>1, FixedTestsAreSound DEF Effect
  <2> DEFINE fields == [passed |-> delivered.completed /\ holds
                                     /\ (tests => effect.result.out = "exit_0")]
  <2>3. DOMAIN fields \subseteq DOMAIN NoReport
    BY DEF NoReport
  <2>4. DOMAIN Report(Handoff, delivered, fields) = DOMAIN NoReport
    BY <2>3, ReportFields
  <2> QED
    BY <1>1, <1>4, <2>1, <2>2, <2>4, ReportKeeps DEF CheckByKind
<1> QED
  BY <1>2, <1>3, <1>4

\* What the gate makes of a report is a report.
LEMMA GateReports ==
  ASSUME NEW h, NEW result, NEW existing, NEW inside, NEW fields,
         DOMAIN fields \subseteq DOMAIN NoReport
  PROVE  LET basic == BasicVerify(h, result, existing, inside) IN
         /\ DOMAIN WithBasic(ExecutionFailure(h, result), basic) = DOMAIN NoReport
         /\ DOMAIN WithBasic(Classified(h, result, Report(h, result, fields)), basic)
              = DOMAIN NoReport
         /\ DOMAIN Unreviewed(h, result, basic, "model_response") = DOMAIN NoReport
<1> DEFINE basic == BasicVerify(h, result, existing, inside)
           Like(r) == DOMAIN r = DOMAIN NoReport
<1>1. \A r : Like(r) => Like(WithBasic(r, basic))
  BY DEF WithBasic
<1>2. \A c, allowed : Like(FailureReport(h, result, c, allowed))
  <2> TAKE c, allowed
  <2> DEFINE f == [status |-> "not_performed", category |-> c, retryable |-> "no",
                   scope |-> "run", allowed |-> allowed]
  <2>1. DOMAIN f \subseteq DOMAIN NoReport
    BY DEF NoReport
  <2> QED
    BY <2>1, ReportFields DEF FailureReport
<1>3. Like(ExecutionFailure(h, result))
  BY <1>2 DEF ExecutionFailure
<1>4. Like(Classified(h, result, Report(h, result, fields)))
  <2>1. Like(Report(h, result, fields))
    BY ReportFields
  <2> QED
    BY <2>1 DEF Classified
<1>5. Like(Unreviewed(h, result, basic, "model_response"))
  BY <1>1, <1>2 DEF Unreviewed
<1> QED
  BY <1>1, <1>3, <1>4, <1>5

\* A step of the review that reports nothing.
LEMMA Unacted ==
  ASSUME IInv, stage \in {"checking", "reviewing"}, checker = "independent",
         stage' = "reviewing", ws' \in Workspace, observed' \in BOOLEAN,
         UNCHANGED <<mode, checker, dep, phase, view, turn, asked, results, calls, round,
                     delivered, report, status, edits, broken, touched, tested, verified>>
  PROVE  IInv'
<1>1. TypeOK' /\ AtWork' /\ Phased' /\ FileToolsNeedAReason' /\ Recorded'
  BY DEF IInv, TypeOK, AtWork, Phased, FileToolsNeedAReason, Recorded, Baseline, Registry
<1>2. Judged'
  BY DEF IInv, Judged, CodeResult, Baseline
<1>3. /\ ChangesAreDeclared' /\ LastTest' /\ Silent' /\ Discloses' /\ PassedOnTests'
      /\ CompletedIsBacked'
  BY DEF IInv, Judged, ChangesAreDeclared, LastTest, Silent, Discloses, PassedOnTests,
         CompletedIsBacked, Baseline
<1> QED
  BY <1>1, <1>2, <1>3 DEF IInv

\* Whether or not the verifier is asked, and whatever it does to come to its report.
LEMMA ReviewKeeps ==
  ASSUME IInv, BeginReview \/ Observe \/ EndReview
  PROVE  IInv'
<1> DEFINE basic == BasicVerify(Handoff, delivered, Existing(ws), Paths)
<1>1. ws \in Workspace /\ dep \in BOOLEAN
  BY DEF IInv, TypeOK
<1>2. DOMAIN basic = DOMAIN NoReport
  BY BasicDiscloses
<1>3. checker = "independent" => ~Baseline
  BY DEF IInv, TypeOK, CheckersOf, Baseline
<1>4. CASE BeginReview /\ AsksVerifier(Handoff, delivered, basic)
  <2>1. /\ stage = "checking" /\ checker = "independent" /\ stage' = "reviewing"
        /\ UNCHANGED <<mode, checker, ws, dep, phase, view, turn, asked, results, calls, round,
                       delivered, observed, report, status, edits, broken, touched, tested, verified>>
    BY <1>4 DEF BeginReview, setting, place, run, outcome, faults, history
  <2> QED
    BY <1>1, <2>1, Unacted DEF IInv, TypeOK
<1>5. CASE BeginReview /\ ~AsksVerifier(Handoff, delivered, basic)
  <2> DEFINE new == IF basic.hard THEN basic
                    ELSE WithBasic(ExecutionFailure(Handoff, delivered), basic)
  <2>1. stage = "checking" /\ checker = "independent" /\ Reported(new) /\ ws' = ws /\ dep' = dep
    BY <1>5 DEF BeginReview, place
  <2>2. DOMAIN new = DOMAIN NoReport
    <3>1. DOMAIN [passed |-> FALSE] \subseteq DOMAIN NoReport
      BY DEF NoReport
    <3> DEFINE failure == WithBasic(ExecutionFailure(Handoff, delivered), basic)
    <3>2. DOMAIN failure = DOMAIN NoReport
      BY <3>1, GateReports
    <3>3. new \in {basic, failure}
      OBVIOUS
    <3> HIDE DEF new, failure, basic
    <3> QED
      BY <1>2, <3>2, <3>3
  <2> HIDE DEF new
  <2> QED
    BY <1>1, <1>3, <2>1, <2>2, ReportKeeps
<1>6. CASE Observe
  <2>1. /\ stage = "reviewing" /\ checker = "independent"
        /\ observed' \in BOOLEAN /\ ws' \in Workspace
        /\ UNCHANGED <<mode, checker, dep, stage, phase, view, turn, asked, results, calls, round,
                       delivered, report, status, edits, broken, touched, tested, verified>>
    <3>1. observed' \in BOOLEAN /\ ws' \in Workspace
      <4>1. ASSUME NEW effect \in VerificationTests PROVE effect.ws \in Workspace
        BY <1>1, <4>1, FixedTestsAreSound DEF VerificationTests, Effect
      <4>2. ASSUME NEW effect PROVE (observed \/ Usable(effect.result)) \in BOOLEAN
        OBVIOUS
      <4> QED
        BY <1>1, <1>6, <4>1, <4>2 DEF Observe
    <3> QED
      BY <1>6, <3>1 DEF Observe, setting, run, faults, history, IInv, Judged
  <2> QED
    BY <2>1, Unacted
<1>7. CASE EndReview
  <2> DEFINE Review(fields) ==
        WithBasic(Classified(Handoff, delivered, Report(Handoff, delivered, fields)), basic)
             Negative(category) ==
        [passed |-> FALSE, category |-> category, retryable |-> "yes",
         allowed |-> {"stop", "replan"}]
             Silence == Unreviewed(Handoff, delivered, basic, "model_response")
  <2>1. stage = "reviewing" /\ checker = "independent" /\ ws' = ws /\ dep' = dep
    BY <1>7 DEF EndReview, place, IInv, Judged
  <2>2. DOMAIN [passed |-> TRUE] \subseteq DOMAIN NoReport
    BY DEF NoReport
  <2>3. \A category : DOMAIN Negative(category) \subseteq DOMAIN NoReport
    BY DEF NoReport
  <2>4. /\ DOMAIN Review([passed |-> TRUE]) = DOMAIN NoReport
        /\ \A category : DOMAIN Review(Negative(category)) = DOMAIN NoReport
        /\ DOMAIN Silence = DOMAIN NoReport
    <3> HIDE DEF Negative
    <3> QED
      BY <2>2, <2>3, GateReports
  <2>5. \/ Reported(Review([passed |-> TRUE]))
        \/ \E category \in {"validation", "insufficient_evidence"} :
             Reported(Review(Negative(category)))
        \/ Reported(Silence)
    BY <1>7 DEF EndReview
  <2> HIDE DEF Review, Negative, Silence
  <2>6. PICK new : Reported(new) /\ DOMAIN new = DOMAIN NoReport
    BY <2>4, <2>5
  <2> QED
    BY <1>1, <1>3, <2>1, <2>6, ReportKeeps
<1> QED
  BY <1>4, <1>5, <1>6, <1>7 DEF BeginReview

-----------------------------------------------------------------------------
(* The decisions, and the user.                                            *)

LEMMA EndsKeeps ==
  ASSUME IInv, NEW s, Ends(s), s # "accepted",
         stage = "deciding",
         s = "completed" => IF Baseline THEN report.passed ELSE ~Undelivered
  PROVE  IInv'
<1>1. /\ stage' = "done" /\ status' = s
      /\ UNCHANGED <<mode, checker, ws, dep, phase, view, turn, asked, results, calls, round,
                     delivered, observed, report, edits, broken, touched, tested, verified>>
  BY DEF Ends, setting, place, run, faults, history
<1>2. TypeOK' /\ AtWork' /\ Phased' /\ FileToolsNeedAReason' /\ Recorded'
  BY <1>1 DEF IInv, TypeOK, AtWork, Phased, FileToolsNeedAReason, Recorded, Baseline, Registry
<1>5. Judged'
  BY <1>1 DEF IInv, Judged, CodeResult
<1>3. ChangesAreDeclared' /\ LastTest' /\ Silent' /\ Discloses' /\ PassedOnTests'
  BY <1>1 DEF IInv, ChangesAreDeclared, LastTest, Silent, Discloses, PassedOnTests, Baseline
<1>4. CompletedIsBacked'
  BY <1>1 DEF IInv, PassedOnTests, CompletedIsBacked, Undelivered, Baseline, Existing
<1> QED
  BY <1>2, <1>3, <1>4, <1>5 DEF IInv

LEMMA PlannerKeeps ==
  ASSUME IInv, DeliveryConstants, PlannerDecides
  PROVE  IInv'
<1>1. Baseline /\ stage = "deciding" /\ round \in 0..MaxRounds + 2
  BY DEF PlannerDecides, IInv, TypeOK
<1>2. CASE Work /\ (round = 0 \/ StepsLeft)
  <2>1. round \in 0..MaxRounds + 1
    BY <1>1, <1>2 DEF StepsLeft, DeliveryConstants
  <2> QED
    BY <1>1, <1>2, <2>1, WorkKeeps
<1>3. CASE \E s : Ends(s) /\ s # "accepted" /\ (s = "completed" => report.passed)
  BY <1>1, <1>3, EndsKeeps
<1>4. CASE round # 0
  <2>1. PICK action \in {"execute", "retry", "finish", "stop"} :
          CASE Guarded(action) \in {"execute", "retry"} ->
                 IF StepsLeft THEN Work ELSE Ends("recursion_error")
            [] Guarded(action) = "finish" -> Ends("completed")
            [] OTHER -> Ends(IF round >= MaxRounds THEN "max_attempts" ELSE "failed")
    BY <1>4 DEF PlannerDecides
  <2>2. CASE Guarded(action) \in {"execute", "retry"}
    <3>1. IF StepsLeft THEN Work ELSE Ends("recursion_error")
      BY <2>1, <2>2
    <3> QED
      BY <1>2, <1>3, <3>1
  <2>3. CASE Guarded(action) = "finish"
    <3>1. Ends("completed")
      BY <2>1, <2>3
    <3>2. report.passed
      BY <2>3 DEF Guarded
    <3> QED
      BY <1>3, <3>1, <3>2
  <2>4. CASE Guarded(action) \notin {"execute", "retry", "finish"}
    <3>1. Ends(IF round >= MaxRounds THEN "max_attempts" ELSE "failed")
      BY <2>1, <2>4
    <3> QED
      BY <1>3, <3>1
  <2> QED
    BY <2>2, <2>3, <2>4
<1>5. CASE round = 0
  BY <1>2, <1>5 DEF PlannerDecides
<1> QED
  BY <1>4, <1>5

LEMMA SupervisorKeeps ==
  ASSUME IInv, DeliveryConstants,
         SupervisorDelegates \/ SupervisorAccepts \/ SupervisorFinishes \/ SupervisorStops
  PROVE  IInv'
<1>1. CASE SupervisorDelegates
  <2>1. Work /\ stage = "deciding" /\ round \in 0..MaxRounds + 1
    BY <1>1 DEF SupervisorDelegates, IInv, TypeOK, DeliveryConstants
  <2> QED
    BY <2>1, WorkKeeps
<1>2. CASE SupervisorAccepts
  <2>1. /\ status' = "accepted"
        /\ UNCHANGED <<mode, checker, ws, dep, stage, phase, view, turn, asked, results, calls,
                       round, delivered, observed, report, edits, broken, touched, tested, verified>>
    BY <1>2 DEF SupervisorAccepts, setting, place, run, faults, history
  <2>2. ~Baseline /\ stage = "deciding"
    BY <1>2 DEF SupervisorAccepts
  <2>3. TypeOK' /\ AtWork' /\ Judged' /\ Phased' /\ FileToolsNeedAReason' /\ Recorded'
    BY <2>1, <2>2 DEF IInv, TypeOK, AtWork, Judged, Phased, FileToolsNeedAReason, Recorded,
         Baseline, Registry, CodeResult
  <2>4. /\ ChangesAreDeclared' /\ LastTest' /\ Silent' /\ Discloses' /\ PassedOnTests'
        /\ CompletedIsBacked'
    BY <2>1, <2>2 DEF IInv, ChangesAreDeclared, LastTest, Silent, Discloses, PassedOnTests,
         CompletedIsBacked, Baseline
  <2> QED
    BY <2>3, <2>4 DEF IInv
<1>3. CASE SupervisorFinishes
  <2>1. ~Baseline
    BY <1>3 DEF SupervisorFinishes, IInv, Judged
  <2> QED
    BY <1>3, <2>1, EndsKeeps DEF SupervisorFinishes
<1>4. CASE SupervisorStops
  BY <1>4, EndsKeeps DEF SupervisorStops
<1> QED
  BY <1>1, <1>2, <1>3, <1>4

LEMMA UserKeeps ==
  ASSUME IInv, DeliveryConstants, NEW change \in UserChanges, UserEdits(change[1], change[2])
  PROVE  IInv'
<1>1. change[1] \in Paths /\ change[2] \in Content
  BY DEF DeliveryConstants
<1>2. /\ stage # "done" /\ ws' = [ws EXCEPT ![change[1]] = change[2]]
      /\ UNCHANGED <<mode, checker, dep, stage, phase, view, turn, asked, results, calls, round,
                     delivered, observed, report, status, broken, touched, tested, verified>>
  BY DEF UserEdits, setting, run, outcome, history
<1>3. TypeOK'
  BY <1>1, <1>2 DEF IInv, TypeOK
<1>4. CompletedIsBacked'
  BY <1>2 DEF IInv, Judged, CompletedIsBacked
<1>5. AtWork' /\ Judged' /\ Phased' /\ FileToolsNeedAReason' /\ Recorded'
  BY <1>2 DEF IInv, AtWork, Judged, Phased, FileToolsNeedAReason, Recorded, Baseline, Registry,
       CodeResult
<1>6. ChangesAreDeclared' /\ LastTest' /\ Silent' /\ Discloses' /\ PassedOnTests'
  BY <1>2 DEF IInv, ChangesAreDeclared, LastTest, Silent, Discloses, PassedOnTests, Baseline
<1> QED
  BY <1>3, <1>4, <1>5, <1>6 DEF IInv

-----------------------------------------------------------------------------
(* The theorems.                                                           *)

LEMMA InitHolds == DeliveryConstants /\ Init => IInv
<1> SUFFICES ASSUME DeliveryConstants, Init PROVE IInv
  OBVIOUS
<1>1. IsSequence(<< >>) /\ DOMAIN << >> = {} /\ Len(<< >>) = 0
  BY DEF IsSequence
<1>2. TypeOK
  <2>1. ws \in Workspace /\ MaxCalls \in Nat /\ MaxRounds \in Nat
    BY DEF Init, DeliveryConstants
  <2>2. observed \in BOOLEAN
    BY DEF Init
  <2>3. /\ dep \in BOOLEAN /\ touched \subseteq Paths /\ checker \in CheckersOf(mode) \cup {"open"}
        /\ stage \in {"deciding", "acting", "checking", "reviewing", "done"}
    BY DEF Init
  <2>4. /\ calls \in Len(results)..MaxCalls /\ turn \in 0..Len(results)
        /\ asked \in Calls[mode] \cup {NoCall} /\ round \in 0..MaxRounds + 2
    BY <1>1, <2>1 DEF Init
  <2> QED
    BY <2>1, <2>2, <2>3, <2>4 DEF TypeOK
<1> QED
  BY <1>1, <1>2 DEF Init, IInv, AtWork, Judged, Phased, FileToolsNeedAReason, Recorded,
       ChangesAreDeclared, LastTest, Silent, Discloses, PassedOnTests, CompletedIsBacked,
       NoReport

LEMMA StepKeeps == DeliveryConstants /\ IInv /\ [Next]_vars => IInv'
<1> SUFFICES ASSUME DeliveryConstants, IInv, [Next]_vars PROVE IInv'
  OBVIOUS
<1>1. CASE UNCHANGED vars
  <2>1. TypeOK' /\ AtWork' /\ Judged' /\ Phased' /\ FileToolsNeedAReason' /\ Recorded'
    BY <1>1 DEF vars, IInv, TypeOK, AtWork, Judged, Phased, FileToolsNeedAReason, Recorded,
         Baseline, Registry, CodeResult
  <2>2. /\ ChangesAreDeclared' /\ LastTest' /\ Silent' /\ Discloses' /\ PassedOnTests'
        /\ CompletedIsBacked'
    BY <1>1 DEF vars, IInv, ChangesAreDeclared, LastTest, Silent, Discloses, PassedOnTests,
         CompletedIsBacked, Baseline
  <2> QED
    BY <2>1, <2>2 DEF IInv
<1>2. CASE Next
  BY <1>2, PlannerKeeps, SupervisorKeeps, BeginStepKeeps, EndStepKeeps, RoundEndKeeps,
     CallKeeps, DecideKeeps, CheckKeeps, ReviewKeeps, UserKeeps DEF Next
<1> QED
  BY <1>1, <1>2

\* What the records of a round meant still holds when they are gone.
THEOREM Invariance == Spec => []IInv
BY DeliveryConstants, InitHolds, StepKeeps, PTL DEF Spec

\* Types, and the bounds on calls and rounds.
THEOREM TypeCorrect == Spec => []TypeOK
<1>1. IInv => TypeOK
  BY DEF IInv
<1> QED
  BY <1>1, Invariance, PTL

\* Outside a delegation that is to make files, no call of the model reaches a file tool,
\* however malformed the calls before it, but after a failed command of a delivery for the
\* environment (react.py, _next_phase; exposure.py; execution.py, handle).
THEOREM FileToolsAreKept == Spec => []FileToolsNeedAReason
<1>1. IInv => FileToolsNeedAReason
  BY DEF IInv
<1> QED
  BY <1>1, Invariance, PTL

\* Whatever the file tools changed is declared, over approvals, refusals and stops
\* (code.py, _to_code_result).
THEOREM DeclarationIsComplete == Spec => []ChangesAreDeclared
<1>1. IInv => ChangesAreDeclared
  BY DEF IInv
<1> QED
  BY <1>1, Invariance, PTL

\* When the mechanical checks are silent on commands, the last tests of the round passed
\* (basic.py, the last outcome of each command).
THEOREM SilenceIsInformed == Spec => []SilenceMeansTestsPassed
<1>1. IInv => SilenceMeansTestsPassed
  BY DEF IInv, Silent, Discloses, SilenceMeansTestsPassed
<1> QED
  BY <1>1, Invariance, PTL

\* Completed work rests on the workspace, whoever edited it in between (workflow.py,
\* artifact_guard; plan_verify.py, _guard_verification_decision).
THEOREM CompletionIsBacked == Spec => []CompletedIsBacked
<1>1. IInv => CompletedIsBacked
  BY DEF IInv
<1> QED
  BY <1>1, Invariance, PTL

=============================================================================
