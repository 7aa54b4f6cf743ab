----------------------------- MODULE ToolPipeline -----------------------------
(***************************************************************************)
(* A tool call from the model to its effect: which tools a phase of the    *)
(* code agent shows, what the permission policy says of the call, and what *)
(* the handlers do to the workspace and to the environment.                *)
(*                                                                         *)
(* The workspace is a function from the paths the work is about to what is *)
(* in them: nothing, nothing but blanks, something that is not (or no      *)
(* longer) what was asked for, or what was asked for.  program and test    *)
(* are Python files, page is a document.  dep says whether the package the *)
(* program imports is installed.  A call is a record of the tool, the path *)
(* it names (for a command, the kind of its argv) and the text it gives:   *)
(* the content of a write or an edit, and again the kind of argv; or what  *)
(* is wrong with a call that no handler can take.                          *)
(***************************************************************************)
EXTENDS Naturals, Sequences

Paths == {"program", "test", "page"}
Content == {"absent", "blank", "wrong", "right"}
Workspace == [Paths -> Content]

FileTools == {"write_file", "edit_file"}
LookTools == {"read_file", "list_files", "grep"}
CodeRegistry ==
  FileTools \cup LookTools
    \cup {"run_command", "inspect_python_environment", "probe_python_import"}

\* The example of the baseline registers no tools for the Python environment.
BaselineRegistry == FileTools \cup LookTools \cup {"run_command"}

Existing(ws) == {p \in Paths : ws[p] # "absent"}
Filled(ws) == {p \in Paths : ws[p] \in {"wrong", "right"}}

-----------------------------------------------------------------------------
(* Exposure and permission.                                                *)

ToolsOfPhase(phase) ==
  CASE phase \in {"coding", "debugging", "execute"} -> FileTools \cup LookTools \cup {"run_command"}
    [] phase = "inspection" -> LookTools \cup {"inspect_python_environment"}
    [] phase = "environment" ->
         {"inspect_python_environment", "probe_python_import", "run_command"}

\* ToolSelector.select: what the profile names and the registry has.
Exposed(phase, registry) == ToolsOfPhase(phase) \cap registry

\* A run_command that did not end with 0.
CommandFailed(result) == result.tool = "run_command" /\ result.out \in {"failed", "timed_out"}

\* Bug for comparison: any failed call moves the run to debugging, not only a command.
NextPhaseOnAnyFailure(phase, results) ==
  IF \E i \in DOMAIN results : CommandFailed(results[i]) \/ ~results[i].ok
    THEN "debugging" ELSE phase

\* _next_phase: no phase follows debugging.
NextPhase(phase, results) ==
  IF \E i \in DOMAIN results : CommandFailed(results[i]) THEN "debugging" ELSE phase

\* RuleBasedPermissionPolicy as the application configures it.
Permission(call) ==
  IF call.tool # "run_command" THEN "ALLOW"
  ELSE CASE call.text = "install" -> "ASK"
         [] call.text = "tests" -> "ALLOW"
         [] OTHER -> "DENY"

-----------------------------------------------------------------------------
(* Results and handlers.  An effect is what a call may come to: the         *)
(* workspace and the environment after it, and its ToolResult.             *)

ToolResult(call, ok, out, code) ==
  [tool |-> call.tool, path |-> call.path, ok |-> ok, out |-> out, seen |-> {}, code |-> code]

\* A result that shows something of the workspace.
Sight(call, seen) == [ToolResult(call, TRUE, "none", "none") EXCEPT !.seen = seen]

Refusal(call, code) == ToolResult(call, FALSE, "none", code)

Effect(ws, dep, result) == [ws |-> ws, dep |-> dep, result |-> result]

\* write_text opens the file, which empties it, before it writes: an error of the
\* file system after that leaves it blank.
Writing(call, ws, dep) ==
  {Effect([ws EXCEPT ![call.path] = call.text], dep, ToolResult(call, TRUE, "none", "none")),
   Effect([ws EXCEPT ![call.path] = "blank"], dep, Refusal(call, "tool_exception"))}

\* old_text is not empty, so nothing in a blank file matches it.
Editing(call, ws, dep) ==
  {Effect(ws, dep, Refusal(call, "edit_mismatch"))}
    \cup IF ws[call.path] = "blank" THEN {} ELSE Writing(call, ws, dep)

Reading(call, ws, dep) ==
  {Effect(ws, dep, Sight(call, {ws[call.path]}))}

Listing(call, ws, dep) ==
  {Effect(ws, dep, Sight(call, Existing(ws)))}

\* What the tests say of a workspace; no tests is not a pass.
TestsPass(ws, dep) == ws["program"] = "right" /\ ws["test"] = "right" /\ dep

\* A process that writes into the workspace.
Spoilt(ws) == [ws EXCEPT !["page"] = "wrong"]

\* Tests run code of the workspace, which may write there.
AfterTests(ws) == IF "test" \in Filled(ws) THEN {ws, Spoilt(ws)} ELSE {ws}

TestRuns(call, ws, dep) ==
  {Effect(after, dep, ToolResult(call, TRUE, out, "none")) :
     after \in AfterTests(ws),
     out \in {IF TestsPass(ws, dep) THEN "exit_0" ELSE "failed", "timed_out"}}

\* run_command: ok says that the process was started.
Running(call, ws, dep) ==
  CASE call.text = "tests" -> TestRuns(call, ws, dep)
    [] call.text = "install" ->
         {Effect(ws, TRUE, ToolResult(call, TRUE, "exit_0", "none")),
          Effect(ws, dep, ToolResult(call, TRUE, "failed", "none"))}
    [] OTHER ->
         {Effect(Spoilt(ws), dep, ToolResult(call, TRUE, "exit_0", "none")),
          Effect(ws, dep, Refusal(call, "command_not_found"))}

\* inspect_python_environment and probe_python_import.
Probing(call, ws, dep) ==
  {Effect(ws, dep, ToolResult(call, TRUE, IF dep THEN "verified" ELSE "unverified", "none"))}

\* Dispatcher.execute.
Execute(call, ws, dep) ==
  IF call.tool \in FileTools \cup {"read_file"} /\ call.path \notin Paths
    THEN {Effect(ws, dep, Refusal(call, "workspace_escape"))}
  ELSE IF call.tool \in {"edit_file", "read_file"} /\ call.path \notin Existing(ws)
    THEN {Effect(ws, dep, Refusal(call, "file_not_found"))}
  ELSE CASE call.tool = "write_file" -> Writing(call, ws, dep)
         [] call.tool = "edit_file" -> Editing(call, ws, dep)
         [] call.tool = "read_file" -> Reading(call, ws, dep)
         [] call.tool \in {"list_files", "grep"} -> Listing(call, ws, dep)
         [] call.tool = "run_command" -> Running(call, ws, dep)
         [] OTHER -> Probing(call, ws, dep)

-----------------------------------------------------------------------------
(* What stands between a call and its handler.                             *)

\* The arguments are no JSON object, the call has no id, or its arguments are not those
\* of the tool.
Malformed == {"unparsed", "unnamed", "unfit"}

\* What is said of a call that is none.
MalformedCode(text) == IF text = "unparsed" THEN "invalid_arguments_json" ELSE "invalid_tool_call"

\* An ExecutionHarness is handed arguments the run has parsed, and looks at the shape of
\* the call before its tool; the loop of the baseline asks for exposure first and has no
\* policy.  "ok" and "ASK" are no refusals.
Gatekeeper(call, view, registry, harness) ==
  IF harness /\ call.text \in {"unparsed", "unnamed"} THEN MalformedCode(call.text)
  ELSE IF call.tool \notin view THEN "tool_not_exposed"
  ELSE IF call.text \in {"unparsed", "unnamed"} THEN MalformedCode(call.text)
  ELSE IF call.tool \notin registry THEN "unknown_tool"
  ELSE IF call.text = "unfit" THEN "invalid_arguments"
  ELSE IF harness /\ Permission(call) = "DENY" THEN "permission_denied"
  ELSE IF harness /\ Permission(call) = "ASK" THEN "ASK"
  ELSE "ok"

\* The answers of a call that has not reached its handler.
GateCodes ==
  {"invalid_arguments_json", "invalid_tool_call", "tool_not_exposed", "unknown_tool",
   "invalid_arguments", "permission_denied", "approval_rejected"}

=============================================================================
