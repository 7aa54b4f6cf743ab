----------------------------- MODULE ReActLoop -----------------------------
(***************************************************************************)
(* One run of the code agent: ResumableReActAgent and its ToolLoopGuard.    *)
(* The model answers with a batch of tool calls, the calls are executed    *)
(* one by one, the round is remembered, and so on until the model answers  *)
(* with a text or the guard stops the run.  A call that is started or asks *)
(* for approval leaves a checkpoint that holds a snapshot of the whole run *)
(* and the run goes on from there in a new process, under the configuration *)
(* that process has.                                                       *)
(*                                                                         *)
(* One process works on the run at a time: several at once on one          *)
(* checkpoint are the subject of ExecutionCoordinator.  Its saves of one   *)
(* answer are one step here; a process lost between them is modelled there. *)
(***************************************************************************)
EXTENDS Naturals, Sequences, FiniteSets, CallLifecycle

CONSTANTS
  Keys,          \* fingerprints of a tool with its arguments
  Reads,         \* read_file, list_files, grep
  Probes,        \* inspect_python_environment, probe_python_import
  Tests,         \* commands that run tests; the other keys may write
  Budgets,       \* the tool budgets a process may be configured with
  RepeatLimit,   \* failures in a row, or equal reads, of one key
  MaxSteps,      \* rounds of a run, frozen in the workflow snapshot
  MaxBatch,      \* bound: calls of one model answer
  MaxVersion,    \* bound: changes of the workspace
  MaxCrashes     \* bound: processes lost

ASSUME ReActConstants ==
  /\ Reads \cup Probes \cup Tests \subseteq Keys
  /\ Reads \cap Probes = {} /\ (Reads \cup Probes) \cap Tests = {}
  /\ Budgets \subseteq Nat /\ Budgets # {}
  /\ RepeatLimit \in Nat \ {0} /\ MaxSteps \in Nat \ {0} /\ MaxBatch \in Nat \ {0}
  /\ MaxVersion \in Nat /\ MaxCrashes \in Nat

VARIABLES
  pc,        \* where the process is
  run,       \* the state of the run in the memory of the process
  call,      \* state of the latest checkpoint
  snap,      \* the run as that checkpoint holds it
  config,    \* max_tool_calls of the process
  version,   \* revision of the workspace
  crashes,   \* processes lost so far
  frozen,    \* history: the budget the run began with
  past       \* history: the calls of every round and what became of them

vars == <<pc, run, call, snap, config, version, crashes, frozen, past>>

Place == {"asking", "calling", "handler", "paused", "gone", "finalizing", "ended"}

\* denied stands for permission_denied, approval_rejected, workspace_escape and
\* tool_not_exposed; failed for any other failure.
Outcomes == {"ok", "failed", "denied"}

NoCheckpoint == "none"

Batches == UNION {[1..n -> Keys] : n \in 1..MaxBatch}

-----------------------------------------------------------------------------
(* ToolLoopGuard.                                                          *)

Tighter(a, b) == IF a <= b THEN a ELSE b

NewGuard(budget) ==
  [max |-> budget, used |-> 0, fails |-> [k \in Keys |-> 0],
   reads |-> [k \in Keys |-> 0], passed |-> {}, denials |-> {}, revision |-> 0]

\* Faulty: the budget of the new process replaces the frozen one.
RebuiltFromConfig(g) == [g EXCEPT !.max = config]

\* Faulty: the snapshot does not carry the denials.
RebuiltWithoutDenials(g) ==
  [g EXCEPT !.max = Tighter(@, config), !.denials = {}]

\* The guard a process makes from a snapshot: the stricter budget.
Rebuilt(g) == [g EXCEPT !.max = Tighter(@, config)]

\* check: what was observed of another revision of the workspace is forgotten.
Synced(g) ==
  IF g.revision = version THEN g
  ELSE [g EXCEPT !.reads = [k \in Keys |-> 0], !.passed = {}, !.revision = version]

\* check: any of its reasons to stop the run.
Refuses(g, k) ==
  \/ g.used >= g.max
  \/ k \in g.denials \cup g.passed
  \/ g.fails[k] >= RepeatLimit
  \/ g.reads[k] >= RepeatLimit

\* record; same: a read returned what it returned the last time.
Recorded(g, k, out, same) ==
  LET changes == out = "ok" /\ k \notin Reads \cup Probes
      passes == out = "ok" /\ k \in Tests
  IN  [g EXCEPT
         !.used = @ + 1,
         !.fails[k] = IF out = "ok" THEN 0 ELSE @ + 1,
         !.denials = IF out = "denied" THEN @ \cup {k} ELSE @,
         !.reads = CASE changes -> [x \in Keys |-> 0]
                     [] out = "ok" /\ k \in Reads ->
                          [g.reads EXCEPT ![k] = IF same THEN @ + 1 ELSE 1]
                     [] OTHER -> @,
         !.passed = CASE passes -> @ \cup {k}
                      [] changes /\ ~passes -> {}
                      [] OTHER -> @,
         !.revision = IF passes THEN version ELSE @]

-----------------------------------------------------------------------------
(* The run.                                                                *)

\* ReActRunSnapshot; the next call is the one behind the results.
FreshRun(budget) ==
  [step |-> 1, batch |-> <<>>, results |-> <<>>, memory |-> <<>>,
   stop |-> FALSE, guard |-> NewGuard(budget)]

Index(r) == Len(r.results) + 1
KeyOf(r) == r.batch[Index(r)]
InBatch == pc = "calling" /\ Index(run) <= Len(run.batch)

\* What became of the call at hand of a run.
Note(r, entry) == past' = [past EXCEPT ![r.step][Index(r)] = entry]
Entry(r) == past[r.step][Index(r)]
Started(e) == [e EXCEPT !.starts = @ + 1]
Pardoned(e) == [e EXCEPT !.pardons = @ + 1]
Settled(e, out) == [e EXCEPT !.out = out]

\* Faulty: the result is in the results of the round already.
ContinuedTwice(r, out, same) ==
  [r EXCEPT !.results = @ \o <<out, out>>,
            !.guard = Recorded(Rebuilt(@), KeyOf(r), out, same)]

\* The run goes on behind the call at hand, which has this result.
Continued(r, out, same) ==
  [r EXCEPT !.results = Append(@, out),
            !.guard = Recorded(Rebuilt(@), KeyOf(r), out, same)]

Init ==
  /\ pc = "asking"
  /\ config \in Budgets
  /\ run = FreshRun(config)
  /\ call = NoCheckpoint
  /\ snap = run
  /\ version = 0
  /\ crashes = 0
  /\ frozen = config
  /\ past = <<>>

-----------------------------------------------------------------------------
(* Asking the model.                                                       *)

\* No round or no tool call is left.
StopBeforeAsking ==
  /\ pc = "asking"
  /\ run.step > MaxSteps \/ run.guard.used >= run.guard.max
  /\ pc' = "finalizing"
  /\ UNCHANGED <<run, call, snap, config, version, crashes, frozen, past>>

MayAsk == pc = "asking" /\ run.step <= MaxSteps /\ run.guard.used < run.guard.max

\* The context does not fit, the request budget is used up or the answer is
\* malformed.
AnswerFails ==
  /\ MayAsk
  /\ pc' = "finalizing"
  /\ UNCHANGED <<run, call, snap, config, version, crashes, frozen, past>>

\* A final text, or an exception that ends the run.
AnswerText ==
  /\ MayAsk
  /\ pc' = "ended"
  /\ UNCHANGED <<run, call, snap, config, version, crashes, frozen, past>>

AnswerCalls(batch) ==
  /\ MayAsk
  /\ pc' = "calling"
  /\ run' = [run EXCEPT !.batch = batch]
  /\ past' = Append(SubSeq(past, 1, run.step - 1),
       [i \in DOMAIN batch |->
          [key |-> batch[i], out |-> "none", starts |-> 0, pardons |-> 0]])
  /\ UNCHANGED <<call, snap, config, version, crashes, frozen>>

-----------------------------------------------------------------------------
(* The calls of a batch.                                                   *)

\* The guard refuses a call: it and the rest of the batch are not executed.
Skip ==
  LET g == IF run.stop THEN run.guard ELSE Synced(run.guard) IN
  /\ InBatch
  /\ run.stop \/ Refuses(g, KeyOf(run))
  /\ run' = [run EXCEPT !.results = Append(@, "unexecuted"), !.stop = TRUE, !.guard = g]
  /\ UNCHANGED <<pc, call, snap, config, version, crashes, frozen, past>>

\* The guard lets the call at hand of the run pass.
Checked(r) == [r EXCEPT !.guard = Synced(@)]
Passes == InBatch /\ ~run.stop /\ ~Refuses(Checked(run).guard, KeyOf(run))

\* Malformed arguments or a denial of the policy: no checkpoint.
Decline(out) ==
  LET r == Checked(run) IN
  /\ Passes
  /\ out \in {"failed", "denied"}
  /\ run' = Continued(r, out, FALSE)
  /\ Note(r, Settled(Entry(r), out))
  /\ UNCHANGED <<pc, call, snap, config, version, crashes, frozen>>

\* The checkpoint is saved before the handler starts.
Start ==
  LET r == Checked(run) IN
  /\ Passes
  /\ pc' = "handler"
  /\ run' = r /\ snap' = r
  /\ call' = "executing"
  /\ Note(r, Started(Entry(r)))
  /\ UNCHANGED <<config, version, crashes, frozen>>

AskApproval ==
  LET r == Checked(run) IN
  /\ Passes
  /\ pc' = "paused"
  /\ run' = r /\ snap' = r
  /\ call' = "awaiting_approval"
  /\ UNCHANGED <<config, version, crashes, frozen, past>>

\* The handler of the call of the checkpoint is done.
FinishCall(out, same) ==
  /\ pc = "handler"
  /\ pc' = "calling"
  /\ call' = "completed"
  /\ run' = Continued(snap, out, same)
  /\ Note(snap, Settled(Entry(snap), out))
  /\ UNCHANGED <<snap, config, version, crashes, frozen>>

\* Faulty: a stopped round is dropped and the model asked again.
CloseBatchUnstopped ==
  /\ pc = "calling" /\ ~InBatch
  /\ run' = [run EXCEPT !.memory = IF run.stop THEN @ ELSE Append(@, run.results),
                        !.batch = <<>>, !.results = <<>>, !.stop = FALSE,
                        !.step = IF run.stop THEN @ ELSE @ + 1]
  /\ pc' = "asking"
  /\ UNCHANGED <<call, snap, config, version, crashes, frozen, past>>

\* Every call has its result: the round is remembered.
CloseBatch ==
  /\ pc = "calling" /\ ~InBatch
  /\ run' = [run EXCEPT !.memory = Append(@, run.results), !.batch = <<>>,
                        !.results = <<>>, !.step = IF run.stop THEN @ ELSE @ + 1]
  /\ pc' = IF run.stop THEN "finalizing" ELSE "asking"
  /\ UNCHANGED <<call, snap, config, version, crashes, frozen, past>>

\* _finalize: one summary of what was done, without tools.
Finalize ==
  /\ pc = "finalizing"
  /\ pc' = "ended"
  /\ UNCHANGED <<run, call, snap, config, version, crashes, frozen, past>>

-----------------------------------------------------------------------------
(* A new process, and the operations that resume the run from the          *)
(* checkpoint.                                                             *)

\* The process is lost, and the run with it unless its last call is unsettled.
Crash ==
  /\ pc \in {"asking", "calling", "handler", "finalizing"}
  /\ crashes < MaxCrashes
  /\ pc' = IF call = "executing" THEN "gone" ELSE "ended"
  /\ run' = snap
  /\ crashes' = crashes + 1
  /\ UNCHANGED <<call, snap, config, version, frozen, past>>

\* The application is started anew with another tool budget.
Restart(budget) ==
  /\ pc \in {"paused", "gone"}
  /\ config' = budget
  /\ UNCHANGED <<pc, run, call, snap, version, crashes, frozen, past>>

\* Somebody, a handler among them, changes the workspace.  (At any other place it
\* is the same as a little later: nothing looks at the workspace there.)
Edit ==
  /\ pc \in {"calling", "handler", "paused"}
  /\ version < MaxVersion
  /\ version' = version + 1
  /\ UNCHANGED <<pc, run, call, snap, config, crashes, frozen, past>>

Resumed == Checked([snap EXCEPT !.guard = Rebuilt(@)])

\* An approval passes the guard first; then the call is started.
Approve ==
  /\ pc = "paused" /\ call = "awaiting_approval"
  /\ ~Refuses(Resumed.guard, KeyOf(snap))
  /\ pc' = "handler"
  /\ call' = "executing"
  /\ Note(snap, Started(Entry(snap)))
  /\ UNCHANGED <<run, snap, config, version, crashes, frozen>>

\* AgentLoopStopped: the run ends without the call.
GiveUp ==
  /\ pc = "paused" /\ call = "awaiting_approval"
  /\ Refuses(Resumed.guard, KeyOf(snap))
  /\ pc' = "ended"
  /\ UNCHANGED <<run, call, snap, config, version, crashes, frozen, past>>

\* The call is settled without its handler and the run goes on behind it.
SettleCall(state, out) ==
  /\ pc' = "calling"
  /\ call' = state
  /\ run' = Continued(snap, out, FALSE)
  /\ UNCHANGED <<snap, config, version, crashes, frozen>>

Reject ==
  /\ pc = "paused" /\ call = "awaiting_approval"
  /\ SettleCall("denied", "denied")
  /\ Note(snap, Settled(Entry(snap), "denied"))

\* mark_interrupted.
Interrupted ==
  /\ pc = "gone" /\ call = "executing"
  /\ pc' = "paused"
  /\ call' = "recovery_required"
  /\ UNCHANGED <<run, snap, config, version, crashes, frozen, past>>

\* confirmed_executed.
ConfirmExecuted ==
  /\ pc = "paused" /\ call = "recovery_required"
  /\ call' = "awaiting_reconcile"
  /\ UNCHANGED <<pc, run, snap, config, version, crashes, frozen, past>>

\* The operator supplies the result.
Reconcile(out) ==
  /\ pc = "paused" /\ call = "awaiting_reconcile"
  /\ SettleCall("completed", out)
  /\ Note(snap, Settled(Entry(snap), out))

\* confirmed_not_executed: the policy allows the call, asks or denies it.  The
\* guard of the run is not asked.
RetryAllowed ==
  /\ pc = "paused" /\ call = "recovery_required"
  /\ pc' = "handler"
  /\ call' = "executing"
  /\ Note(snap, Started(Pardoned(Entry(snap))))
  /\ UNCHANGED <<run, snap, config, version, crashes, frozen>>

RetryAsked ==
  /\ pc = "paused" /\ call = "recovery_required"
  /\ call' = "awaiting_approval"
  /\ Note(snap, Pardoned(Entry(snap)))
  /\ UNCHANGED <<pc, run, snap, config, version, crashes, frozen>>

RetryDenied ==
  /\ pc = "paused" /\ call = "recovery_required"
  /\ SettleCall("denied", "denied")
  /\ Note(snap, Settled(Pardoned(Entry(snap)), "denied"))

Loop ==
  \/ StopBeforeAsking \/ AnswerFails \/ AnswerText
  \/ \E batch \in Batches : AnswerCalls(batch)
  \/ Skip \/ Start \/ AskApproval \/ CloseBatch \/ Finalize
  \/ \E out \in Outcomes :
       Decline(out) \/ \E same \in BOOLEAN : FinishCall(out, same)

Resume ==
  \/ Approve \/ GiveUp \/ Reject \/ Interrupted \/ ConfirmExecuted
  \/ RetryAllowed \/ RetryAsked \/ RetryDenied
  \/ \E out \in Outcomes : Reconcile(out)

Next ==
  Loop \/ Resume \/ Crash \/ Edit \/ \E budget \in Budgets : Restart(budget)

Spec == Init /\ [][Next]_vars

\* The process goes on by itself; nobody has to resume a run.
FairSpec == Spec /\ WF_vars(Loop)

-----------------------------------------------------------------------------
(* Properties.                                                             *)

Guard ==
  [max : Budgets, used : Nat, fails : [Keys -> Nat], reads : [Keys -> Nat],
   passed : SUBSET Tests, denials : SUBSET Keys, revision : 0..MaxVersion]

Rounds == UNION {[1..n -> Outcomes \cup {"unexecuted"}] : n \in 0..MaxBatch}

Run ==
  [step : 1..(MaxSteps + 1), batch : Batches \cup {<<>>}, results : Rounds,
   memory : Seq(Rounds), stop : BOOLEAN, guard : Guard]

PastCall ==
  [key : Keys, out : Outcomes \cup {"none"}, starts : Nat, pardons : Nat]

\* Types; no more results than calls, and a checkpoint stops at a call that has no
\* result yet (ReActRunSnapshot.validate_ordered_progress).
TypeOK ==
  /\ pc \in Place
  /\ run \in Run /\ snap \in Run
  /\ call \in ExecutionState \cup {NoCheckpoint}
  /\ Len(run.results) <= Len(run.batch)
  /\ call # NoCheckpoint => Index(snap) <= Len(snap.batch)
  /\ config \in Budgets /\ frozen \in Budgets
  /\ version \in 0..MaxVersion /\ crashes \in 0..MaxCrashes
  /\ past \in Seq(Seq(PastCall))

\* The calls of the past, in order.
Places == {c \in (1..MaxSteps) \X (1..MaxBatch) :
             c[1] \in DOMAIN past /\ c[2] \in DOMAIN past[c[1]]}
Was(c) == past[c[1]][c[2]]
Before(c, d) == c[1] < d[1] \/ (c[1] = d[1] /\ c[2] < d[2])

Counted == {c \in Places : Was(c).out # "none"}
Denied == {Was(c).key : c \in {d \in Places : Was(d).out = "denied"}}
\* The failures of a key since it last succeeded.
Streak(k) ==
  {c \in Counted : /\ Was(c).key = k /\ Was(c).out # "ok"
                   /\ \A d \in Counted : Before(c, d) /\ Was(d).key = k =>
                        Was(d).out # "ok"}

\* The guard of a run that works knows what happened since the run began: the calls, the
\* denials, the failures in a row.
GuardIsTrue ==
  pc \in {"asking", "calling"} =>
    /\ run.guard.used = Cardinality(Counted)
    /\ run.guard.denials = Denied
    /\ \A k \in Keys : run.guard.fails[k] = Cardinality(Streak(k))

\* What the model is shown of a round is what happened to its calls, in their
\* order: a call without an outcome was never started.
MemoryIsTrue ==
  pc \notin {"gone", "ended"} =>
    \A s \in DOMAIN run.memory :
      run.memory[s] = [i \in DOMAIN past[s] |->
                         IF Was(<<s, i>>).out = "none" THEN "unexecuted"
                         ELSE Was(<<s, i>>).out]

\* A run goes on as if it had never been interrupted, over every pause, crash, retry and
\* restart: what the model is shown and what the guard counts is what happened.
RunIsAsUninterrupted == MemoryIsTrue /\ GuardIsTrue

\* docs/execution-policy.md: a denied operation is neither executed nor asked for
\* again, whatever else the run does and however often it is resumed.
DenialsStick ==
  \A c, d \in Places :
    Before(c, d) /\ Was(c).out = "denied" /\ Was(d).key = Was(c).key =>
      Was(d).out = "none" /\ Was(d).starts = 0

\* In this step the call is started, and not as a retry an operator asked for.
StartedAnew(c) == Was(c).starts < Was(c)'.starts /\ Was(c).pardons = Was(c)'.pardons
WithinBudget ==
  (\E c \in Places : StartedAnew(c)) =>
    Cardinality(Counted) < frozen /\ Cardinality(Counted) < config

\* A handler starts within the budget the run began with and within that of the
\* process, but for a retry an operator asked for: a restart never extends it.
BudgetNeverGrows == [][WithinBudget]_vars

\* A run that goes on ends, pauses or is lost: the guard, the rounds and the
\* batches leave no endless loop.
RunStops == pc \in {"asking", "calling", "handler", "finalizing"} ~>
              pc \in {"ended", "paused", "gone"}

=============================================================================
