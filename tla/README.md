# TikiAgent in TLA+

Models of TikiAgent: what happens to a tool call, to a run of an agent, to the plan of a
task, to a session and to the client in front of it when processes stop, operators answer
late or wrongly, models answer anything, and several pieces of state are written one after
the other. Every definition follows the Python source (paths below are relative to
`src/tikiagent/` unless they name a document); `PROJECT.json` gives the lines for each.

Model-check a configuration with `tlc -config MCCoordinator.cfg MCCoordinator.tla`, check
the proofs with `tlapm CoordinatorProofs.tla`, and likewise `BudgetProofs`, `WorkflowProofs`,
`ReActProofs`, `SessionProofs`, `RecordProofs`, `DeliveryProofs` and `TerminalProofs`.

## 1. The system

TikiAgent is a local multi-agent coding assistant. A **terminal client** hands a user's turn
to the **application controller**, which routes it to a chat or to a **workflow**: a graph
in which a supervisor plans todos on a **task board** and delegates them to a **research** or
a **code agent**, whose results a **gate** and a **verifier agent** judge before the
supervisor may finish. The code agent is a **ReAct loop**: the model proposes tool calls, a
**guard** limits them, a permission policy allows, denies or asks, the **tools** act on the
workspace, and the **execution coordinator** runs what has side effects behind a durable
checkpoint. A call that asks for approval, or that was executing when its process died,
suspends the workflow. The only way back is the checkpoint the session refers to: it holds
a snapshot of the workflow and of the run, and a new process continues from it.

| Component | State it keeps | Operations | What makes it correct | Here |
|---|---|---|---|---|
| Execution coordinator (`harness/coordinator.py`, `execution.py`, `persistence/checkpoint.py`, `permissions/approval.py`) | one JSON checkpoint per call with a revision; consumed approvals of a gate | execute, resume_approval, mark_interrupted, apply_recovery, retry, reconcile, complete | a handler starts at most once per execution identity; write-ahead; no replay and no result without an operator where one is needed | `ExecutionCoordinator`, `AtMostOnceExecution`, proofs |
| Session and controller (`application/controller.py`, `session.py`, `workflow_adapter.py`) | session record with a revision, append-only turn log, reference to a checkpoint | submit, resume, recover, reconcile | an unsettled call stays reachable; no lost update; every turn answered | `WorkflowSession`, proofs |
| ReAct loop and guard (`runtime/resumable.py`, `guard.py`) | round, batch, results, local memory, guard counters; all of it in the snapshot | ask the model, check, execute, record, pause, resume, finalize | an interrupted run is the run it would have been: no fresh budget, no forgotten denial, paired results | `ReActLoop`, proofs |
| Workflow graph (`orchestration/workflow.py`), task board (`context/task_board.py`), planning loop (`agents/planning.py`) | todos, results, verifications, handoff, budgets, supervisor runtime, history records | plan, delegate, research, code, pause, resume, verify, review, finish, stop | FINISH only on accepted current results; no node meets a state it refuses; every task settles | `WorkflowGraph` over `SupervisorTools` and `TaskBoard`, proofs |
| Gate and requirements (`verification/gate.py`, `basic.py`, `failures.py`, `orchestration/requirements.py`) | none (pure) | verdicts over results, reports and evidence | silence or failure of a verifier never passes for its review | `VerificationGate`, `Requirements` |
| Research agent (`agents/research.py`, `research_evidence.py`, `verification/research.py`) | requests charged, observations, sources, catalog | search, extract, reuse history, summarise | every source leads back to the web, over overwriting and reuse | `ResearchRun`, `EvidenceChain`, proofs |
| Verifier agent (`agents/verifier.py`) | evidence read and observed, calls counted, verdicts | read, probe, submit | a pass cites what was read; every review ends | `VerifierRun`, `EvidenceChain`, proofs |
| Code agent, tools, permission policy, deterministic verifiers, baseline loop (`agents/code.py`, `tools/`, `harness/exposure.py`, `permissions/policy.py`, `verification/environment.py`, `inspection.py`, `artifacts.py`, `baselines/plan_verify.py`) | workspace, environment, phase, exposed tools, tool results, declared files | write, edit, look, run, probe, check, decide | what a result declares, what a silent check means, what completed work rests on | `ToolPipeline`, `CodeDelivery`, proofs |
| Request budget and finalization ledger (`harness/persistence/budget.py`, `finalization.py`) | one file per scope, a lock file, a claim file | charge, bind, claim, finish | nothing leaves uncharged; limits never grow; the reserve is kept; one summary per run | `RequestBudget`, `TaskQuota`, proofs |
| History and notepad (`context/memory/`, `context/finalization.py`) | append-only records with sequence numbers; a file of notes, which the application does not use | append, load, cursor, finalize | forks are noticed, what was acknowledged is kept, a resume finds its history, an overwritten note is written again | `HistoryStore`, proofs |
| Terminal client (`interfaces/tui/`) | view, visible approval, screens, operation in flight, message queue | submit, approve, recover, reconcile, status, attach, quit, scan | what is shown is what is sent; nothing of another session is shown; every operation is answered | `TerminalClient`, proofs |
| Context builder, compression, trace, assembly and routing, providers, older baselines, demo | texts, I/O | | | not modelled (section 8) |

How they interact: the client's worker thread calls the controller, the controller the
adapter, the adapter the graph, the graph an agent, the agent the coordinator, the tools and
the ledgers, all by synchronous calls in one process; events and outcomes go back to the
client's main thread through a queue. The shared state is on disk: session record, turn log,
checkpoints, ledgers, history, workspace. Each file of the stores is replaced atomically (the
history is appended to), but no two are written together, and that is where the hard
behaviours are:

- a process lost between two writes (checkpoint and reference, turn and count, `pending`
  and the retry, the start of a handler and its result, a record and its line's end);
- copies that are stale when saved or used (two drivers on one checkpoint, two operations on
  one session, a screen that shows an earlier approval, a source overwritten by a later
  search, an artifact removed after its check);
- one operation made of several saves of which one fails;
- state rebuilt from a snapshot under another configuration;
- models, verifiers and operators that answer anything, or not at all, and the counters that
  still have to end the task.

The full list, with lines and the properties aimed at each, is `hazards` in `PROJECT.json`.

## 2. Modules

`CallLifecycle` holds what the others share: the execution states of a checkpoint and the
relation `Lifecycle` of their changes. `ExecutionCoordinator` is proved to move the file only
along it (`FollowsLifecycle`); `WorkflowSession` uses it as the behaviour of a call.

**`ExecutionCoordinator`** is one tool call. `ckpt` is the file, `drv[d]` a driver, that is a
thread or one of several successive processes: its place in the operation, the revision it
was told, the copy it loaded (`base`, possibly stale) and the operator's answer. Loads,
saves and the handler's start and end are separate steps, so that drivers interleave
between any two. `Save` is the compare-and-swap of `JsonCheckpointStore.save`; a stale save
is `Conflict`. `gates` are the approvals each driver's `ApprovalGate` has consumed
(`FreshGate` is the production wiring, a new gate per operation), `Verdicts` what the policy
may answer, `Truthful` restricts operators to deny an execution only if it never began.
`Fault` drops a driver at any point. `starts` and `answers` are history variables.
`RefuseDecision` covers an approval the loop guard stops, a policy that no longer asks and a
request that is foreign or consumed.

**`AtMostOnceExecution`** is what the harness promises for one call, without files or
drivers: commit before launch, launch once, a further attempt only after a disclaimer.
`KeepsPromise` is the refinement, `CoordinatorInvariant` the inductive invariant,
`CoordinatorProofs` the proofs.

**`WorkflowSession`** is one session: `session` (active reference, turn count, last task),
`log`, `calls` (checkpoints) and `op[p]`, a client's place in submit or in a resume with the
session as it loaded it. `fresh` stands for the comparison of revisions: a loaded revision is
the current one exactly until somebody saves. The steps are the controller's and the
session service's calls in their order: load, route, append the turn, count it, run, read the
pause, load again, bind or clear the reference, respond. A run is seen as the tool calls that
leave checkpoints and the way it ends: finished, paused, raised. `Raise` is the difference
between submit, which answers every exception, and a resume, which answers those of the model
and the context only. `GiveUpApproval` is the resume of an approval that a tightened tool
budget refuses. `Fault` ends a client, or fails a save, between any two steps.

**`ReActLoop`** is one run of the code agent: `run` (round, batch, results, memory, guard,
stop flag) in the process, `snap` the same record as the checkpoint holds it, `call` the state
of that checkpoint, `config` the tool budget of the process. `Synced` and `Refuses` are
`ToolLoopGuard.check`, `Recorded` is `record`, `Rebuilt` its constructor over a snapshot.
`Continued` is what both the loop and `_continue_from_checkpoint` do with a result. A call
is denied or malformed (`Decline`), started (`Start`, `FinishCall`) or asked for
(`AskApproval`); a resume approves, gives up, rejects, recovers, reconciles or retries. `past`
records, by round and index, what became of each call, and the properties compare the run
with it. A fingerprint is a member of `Keys`, sorted into reading, probing, testing and
writing tools; a workspace revision is a number.

**`RequestBudget`** is the ledger of a task: `acct` is the file, `lock` the lock file (`Stale`
once its creator is lost), `op[c]` a client's place between the creation of the lock file and
the departure of its request, with the copy of the ledger it read, `config[c]` the limits its
process was started with, `claims` the claim files. A charge is creation of the lock, reading,
replacing and removal, as separate steps; `Refuse` is `RequestBudgetExceeded` inside the
section, and a lock that is there simply disables `Acquire`, since the caller gives up with
nothing changed. A summary is claimed first and charged then, and is never sent twice; a retry
of other requests is a request of its own (`providers/llm/staged.py`). `sent`, `fetched` and
`summed` are history variables. **`TaskQuota`** is the account without file, lock or processes,
`KeepsQuota` the refinement, `BudgetInvariant` the inductive invariant, `BudgetProofs` the proofs.

**`WorkflowGraph`** is one task in the graph of `MultiAgentWorkflow`. It is built from four
modules of operators: `Requirements`, the contract of a todo and the rules of a valid review;
`TaskBoard`, the board's operations, each with its guard as an operator of its own since the
code raises where it does not hold; `VerificationGate`, from a result to a report, in the
order of the gate's returns; `SupervisorTools`, for each of the six tools of the planning
supervisor the code of its refusal and the state it leaves. In `WorkflowGraph` `pc` is the node
that runs next, `tiki` the state of the graph, `history` the records appended (a record's place
is its identity). An action is one call of the supervisor's loop (`Plan`, `Read`, `Mistake`,
`Delegate`, `Review`, `Finish`, `Stop`), the forced end of that loop (`Conclude`,
`Interrupted`), or one node (`Research`, `Code`, `Resume`, `Verify`, `Finalize`). What each node
demands of the state, and raises on otherwise, is `Demands`. Free: which plan of `Plans` and
which calls the model proposes, what a specialist comes to (`Outcomes`, restricted by `Genuine`
to what the agents can build), what the verifier answers.

**`ResearchRun`** is `ResearchAgent.run` over `ResearchEvidence`: rounds, refused, repeated and
failed requests, the catalog, the one summary. `fetched` is a history variable of what the web
really returned. **`VerifierRun`** is `VerifierAgent.verify`: evidence read and observed, the
two counters that end the gathering, and a verdict from which the pass is computed.
**`EvidenceChain`** composes both with the gate over several delegations of one task, where a
later run reuses sources of earlier results.

**`HistoryStore`** is the file of `JsonlHistoryStore`, line by line with the sequence each writer
gave it, the memory of each process that has it open, the cursor a checkpoint keeps, and the
finalization that writes a record and then the notes. A write may leave a torn line, or a whole
one without its end, to which the next is glued; the file may be replaced by an older copy.
The notepad is `MarkdownNotepadStore`: `notes[p]` is what a store read when it was made
(`LoadNotes`) and has appended since, and each append replaces the file by it (`Persist`), so
that two stores erase each other's notes. A workflow takes any notepad; the factory of the
application passes none (`application/bootstrap.py:312-325`) and there the notes are in memory
and empty, which is the instance `Notes = {}`.

**`ToolPipeline`** says what a tool call is before and when it runs: which tools a phase exposes
(`Exposed`, `NextPhase`), what answers a call before its handler (`Gatekeeper`: a malformed call
first, then exposure, registry and arguments, policy; in the baseline exposure comes first), and
the effect on a workspace whose files are absent, blank, wrong or right and on a package that is
there or not.
**`CodeDelivery`** is one todo of the code agent in that workspace, in one of four modes (the
three delivery modes, and the Planner-Actor-Verifier baseline, which has no harness): rounds of
calls, approvals and stops, what the result declares, which of four verifiers checks it, and
the decision. The user edits the same directory; a write may fail halfway. The independent
verifier takes several calls (`BeginReview`, `Observe`, `EndReview`), between which the user may
edit; it passes on any usable evidence it has observed, or not, and the tests it runs are on a
copy of the workspace, which may fail, and which does not keep the code under test from writing
to the workspace by its path (`VerificationTests`; docs/verification-agent.md:68). No property
therefore says that a review leaves the workspace alone.

**`TerminalClient`** is `TikiTuiApp`: the main thread with `view`, `visible` (the approval its
buttons send) and `modals`, the workers that run operations, the scans, and `mail`, the queue
between them. The controller is what it promises a client, event by event; `store` is what a
session refers to on disk, and `Elsewhere` another client of it. An item of the board carries
the number of its delivery, which stands for the ids of its handoff, result and report, and a
review the number of the delivery it is about; `Verdict` and `Outdated` are the projection's
comparisons of these ids, and `LabelOfReport` the label of a report. An operation that has
returned still fails when its session cannot be read afterwards (`Finish`).
`told` is a history variable:
the view was last set by an outcome, and nothing has moved since.

A component with proofs has two more modules: `...Invariant` states what is inductive about it
(`CoordinatorInvariant`, `BudgetInvariant`, `WorkflowInvariant`, `ReActInvariant`,
`SessionInvariant`, `HistoryInvariant`, `EvidenceInvariant`, `DeliveryInvariant`,
`TerminalInvariant`), `...Proofs` the theorems. `RecordProofs` holds those of the two components
that keep records: the history and the chain of evidence.

How they compose: each level abstracts the one below to what it needs. The coordinator's
drivers and stale copies are one step per answer in `ReActLoop`, and `Lifecycle` moves in
`WorkflowSession`; the guard is a free choice of the coordinator (`RefuseDecision`) and of
the session (`GiveUpApproval`). A run of an agent is an outcome for `WorkflowGraph`;
`EvidenceChain` and `CodeDelivery` hold the same gate against the runs themselves. The workflow
is a run for `WorkflowSession`, and the controller with its sessions what `TerminalClient` calls.

The definitions marked "Faulty" or "Bug for comparison" are plausible bugs of the definition
they precede; each property is known to fail when one of them takes its place.

## 3. Runs

| Run | Bounds | Question |
|---|---|---|
| `coordinator` | 2 drivers, 2 attempts, 1 lost driver, shared gate, lying operators | one start per attempt, no replay without an operator, genuine results, refinement of `AtMostOnceExecution` |
| `operator` | 1 driver, 2 attempts, 3 lost drivers, truthful operators | the side effect happens once over all attempts; an answered call settles or strands |
| `session` | 1 client, 2 turns, 3 calls, 1 retry, 2 faults | references and checkpoints agree; every turn answered |
| `session_overlap` | 2 clients, 2 turns, 1 call, 1 fault | no update of the session is lost |
| `bound_completed` | 1 turn, 2 calls | refutes `CompletedCanContinue` (section 6) |
| `react` | 2 keys, 2 rounds of 2 calls, budgets 2 and 3, limit 2, 1 crash, 1 change of the workspace | an interrupted run is like an uninterrupted one, and ends |
| `budget` | 2 clients, model limits 2 and 3, web limits 1 and 2, reserve 1, 2 fingerprints, 1 summary, 1 fault | exclusion, nothing uncharged, one summary, refinement of `TaskQuota` |
| `orchestration` | 4 plans of up to 2 todos, 2 delegations, 5 rounds, 6 calls, 1 retry key, 4 outcomes, 1 pause | what is finished was accepted on current evidence; no node raises; the task settles |
| `memory` | 2 processes, 3 lines, 1 record and the final one with 2 contents, 2 notes, 2 faults | forks are noticed, reported writes kept, overwritten notes owed, resumes find their history |
| `evidence` | 2 research runs of 2 rounds, 2 urls, 2 searches, 1 extraction, 2 requests of the task; 1 round of 2 calls of the verifier | sources traced, the gate recognises what the agent builds, passes rest on evidence, delegations end |
| `delivery` | 4 modes, 3 calls (malformed ones among them), 2 rounds, 2 first workspaces, 1 edit of the user, 1 torn write | which tools when, what is declared, what silence and completion mean |
| `terminal` | 2 sessions, 2 todos of which 1 is delivered twice, 3 operations, 2 attempts, 1 move elsewhere, queue 1 behind | what is shown is what is due and what is sent |

Why the bounds are enough to be interesting. Coordinator: two drivers are the least that
conflict, and a third adds no new pair of steps since every step looks at the file and one
copy only; two attempts distinguish "this" from "an earlier" attempt; the proofs remove these
bounds. Session: two turns let a new workflow meet the reference of an older one; three calls
let a resumed run pause again and then make another call; two faults allow a fault in the
recovery from a fault. `MaxRevision` admits one retry per call; a retry starts only if the
saves it may need fit, so that no call is stuck at the bound. ReAct: budget 3 lies inside the
four calls of two rounds, budget 2 is the tightened one, and with two keys one can be denied or
passed while the other goes on. Budget: two limits per kind let a restart narrow or try to widen
them, the wider ones are reached, a reserve of one separates work from summaries as sixteen does,
and one fault hits each place of the section; the proofs remove these bounds. Orchestration: two
todos are the least with a dependency, the plans rewrite it and close a circle; two delegations
allow a retry; five rounds plan two todos, delegate and review both, so that the forced conclusion
finishes them, or finish one todo with a round to spare (a refusal, a plan rewritten, a retry); the recursion limit is the tightest that fits the delegations, so that a route
with one more node would exceed it. Memory: three lines let a fork and a further write happen,
two faults a torn write and its repair by an older copy, and two notes a process that is lost
between them. Evidence: a second run reuses the
first, one URL is searched twice and extracted, and the limits of run and task bite at
different calls. Delivery: three calls hold a write, a failed command and what it exposes;
limit and number of attempts let the baseline's limit of steps end it. Terminal: two sessions
are the least that can be confused, three operations let one run beside a screen that a first
one opened, two attempts distinguish an old request; a main thread one message behind when a
worker posts meets every pair of neighbouring messages, and longer queues were not explored.

In most models the task, the run or the client ends, hence `CHECK_DEADLOCK FALSE`; the
coordinator and the ledger never do. `TypeOK` of each module documents the types
(`ChainTypeOK` those of the chain of evidence). It is proved for every component but the
terminal, of whose variables `TerminalInvariant` keeps the shapes (`Shapes`); no run repeats it.

## 4. Fairness

`ExecutionCoordinator`: weak fairness of every step of a driver that has been called (a running
thread goes on); strong fairness of each answer for the revision shown, which is the operator
who keeps answering and is stated as the premise it is. Nothing is assumed of faults.
`WorkflowSession`: weak fairness of the steps of a running operation and of resuming while
the session refers to a call; nobody is assumed to submit. `ReActLoop`: weak fairness of the
loop of a running process, whose model requests and commands have timeouts; nobody is
assumed to resume a run or to restart it. `WorkflowGraph`: weak fairness of the program, whose
agents return by their own limits; nobody is assumed to resume. `EvidenceChain`: the agents go on
while a delegation is open, which is weak fairness of their steps, written out in `FairSpec`
because TLC decides it faster so.

`TerminalClient` has no fairness: that a client takes input again is stated as
`InFlightIsAnswered`, an invariant. An operation in flight has its worker, or its answer in the
queue; that the worker ends is the controller's affair (`EveryTurnAnswered`, `TaskSettles`).

## 5. Proofs

Each component's theorems follow from one inductive invariant, which holds initially, is kept
by every action and implies the properties. The hypotheses are the named assumptions on the
constants, which TLC evaluates in every run, and what a theorem itself states after ASSUME.

| Module | For all | Theorems (property of a run) |
|---|---|---|
| `CoordinatorProofs` | drivers, attempts, lost drivers, verdicts | `AtMostOneStart` (`OneStartPerAttempt`), `NoBlindReplay` (`ReplayNeedsAnOperator`), `GenuineResult` (`ResultIsGenuine`), `Refinement` (`KeepsPromise`), `TruthRunsOnce` (`TruthfulRecoveryRunsOnce`; one driver, truthful operators); also `TypeCorrect`, `WriteAhead`, `ApprovalPerAttempt`, `LifecycleFollowed` |
| `BudgetProofs` | clients, fingerprints (finitely many), limits, reserve, faults | `OneInTheSection` (`Exclusive`), `NothingLeavesUncharged` (`SentIsCharged`), `SummaryIsClaimed` (`OneSummaryPerRun`), `LedgerImplementsQuota` (`KeepsQuota`); also `BudgetTypes` |
| `WorkflowProofs` | plans, criteria, outcomes, paths, keys, limits | `WorkStartsOnAcceptedWork` (`StartedAfterDependencies`), `IndependentReviewIsReal` (`IndependentIsAssessed`), `FinishIsBacked` (`FinishedIsAccepted`), `NodesNeverRaise` (`NodesFindWhatTheyDemand`; a recursion limit that fits the delegations); also `TypeCorrect` |
| `ReActProofs` | keys, batches, budgets, limits, crashes, changes of the workspace | `GoesOnUninterrupted` (`RunIsAsUninterrupted`), `DenialIsFinal` (`DenialsStick`), `BudgetIsFrozen` (`BudgetNeverGrows`); also `TypeCorrect` |
| `SessionProofs` | turns, calls, revisions, faults | `NoCountIsOverwritten` (`TurnsAreCounted`; any clients), `ResumeAnswersItsTask` (`ReferenceIsOfLastTask`; one client), `NoCallIsForgotten` (`UnfinishedIsReferenced`; one client); also `TypeCorrect` |
| `RecordProofs` | processes, records, notes, length of the file, faults | `ForkIsNoticed` (`ForksAreNoticed`), `WrittenIsKept` (`ReportedIsKept`), `NotesAreOwed` (`MissingNotesAreOwed`), `ResumeIsGrounded` (`ResumeFindsItsHistory`); also `TypeCorrect` |
| `RecordProofs` | runs, pages, requests, criteria, probes, limits of the run, of the task and of the verifier | `EverySourceWasFetched` (`SourcesAreTraced`), `ResearchIsRecognised` (`GateRecognisesResearch`), `PassIsGrounded` (`PassedRestsOnEvidence`); also `ChainIsTyped` |
| `DeliveryProofs` | calls, workspaces, edits, rounds | `FileToolsAreKept` (`FileToolsNeedAReason`), `DeclarationIsComplete` (`ChangesAreDeclared`), `SilenceIsInformed` (`SilenceMeansTestsPassed`), `CompletionIsBacked` (`CompletedIsBacked`); also `TypeCorrect` |
| `TerminalProofs` | sessions, todos, operations, attempts, length of the queue | `ShownIsSent` (`WhatIsShownIsSent`), `OneSessionInView` (`ViewIsOfOneSession`), `DecisionIsShown` (`DueDecisionIsShown`), `VerdictIsWorst` (`VerdictCoversBoard`), `AnswerIsOnItsWay` (`InFlightIsAnswered`) |

**Coordinator.** None of the properties is inductive: that `Complete` may write "completed"
needs that the copy in hand is still the file. `CopyFits` says what the compare-and-swap buys,
that a driver's copy is the file or older, and equal if the revision is; `FileShape` and
`InHand` say which copies exist at which place. With these (`Basic`), `Runners` holds: two
drivers are never in the handler of one attempt, because entering it takes a save from a copy
that was not executing, after which every other copy is stale. `AnswerFits` carries the
operator's answer from the revision it was given for to the attempt it acts on, and yields the
properties about operators. The three parts are proved one after the other, each step lemma
looking at one driver and one file.

`TruthRunsOnce` adds `Alone`: with a single driver the copy in hand is always the file, so an
operator who says "not executed" speaks of the attempt on disk, and only if it never began.

**Ledger.** The lock gives `Exclusive`; from it `BaseIsCurrent`, that nobody writes between a
client's reading and its charge; from that each charge is one step of the account.
`SentIsCharged` is not inductive: a charged request leaves later, so `ModelIsCharged` adds the
clients that wait to send to what was sent, as cardinalities, and `WebIsCharged` and
`ClaimIsOwned` say that a fingerprint and a summary have one such client at most.

**Workflow.** A todo that was delegated keeps its footing because a plan may not touch what
has begun; to say so of every plan, `ItemsFit` ties each todo to the history (its handoff holds
the contract it has now, its review is on record), `Filed` says that results and reports in
the state are the records of the history, `DependenciesPlanned` that no plan loses a dependency,
and `UnderWay` what the node that runs next will find. Most calls of the supervisor only spend
its budget (`SameTask`, `TaskKept`); a delivery and a report move one todo on (`Advances`); a
plan, a delegation and a review have proofs of their own. `StepsAreCounted` gives each delegation
three nodes; `NodesNeverRaise` therefore needs `RecursionLimit >= 3 * MaxDelegations + 2`. The
defaults (30 and 4, `workflow.py:105`) satisfy it, but the constructor takes any pair.

**ReAct loop.** The properties compare the run with `past`, the history of its calls, and need
the same of the copy in the checkpoint, since a process that is lost leaves only that. So
`Checkpoint` says that at a pause, in a handler and after a crash the run is the snapshot,
`Progress` which calls are done, at hand and untouched, `Remembered` that the memory is what is
past, and `Observed` that the guard's counters are cardinalities of sets of past calls. The lemmas
`NotingCounts` and `SettlingCounts` follow these sets over one more call and one more answer.

**Session.** With any number of clients, `Files` says that references between the files lead
somewhere and that a call has saves enough left to settle (`Need`), `Client` what each client has
in hand (a fresh copy is the record), and `Counts` that each turn of the log is counted, refused,
in the hands of one client, or lost by a fault; sets of places are tallied by cardinality, and
each step moves a client between two places. `ReferenceIsOfLastTask` and `UnfinishedIsReferenced`
fail with two clients (section 6), so their theorems have one, as the terminal guarantees.
`Alone` then says that the call in hand is the one on disk and of the last task, and `Lost`
collects the calls out of reach, including one that a client about to answer a failure is
letting go: a fault adds at most the call in hand.

**History.** Nothing locks the file, so a store's memory says nothing of the file as it is now, only
of any part of it that is still in order. `MemoryIsRead` says so: if the lines carry 1, 2, ...
the memory is a prefix of their records, and `SnapshotIsRead` the same of what a checkpoint saw.
Both are kept because a write adds a line or spoils the last one, never repairs a file that is
out of order, and keeps it in order only if the writer had read all of it (`GluedFacts`,
`ExtendedOrder`, `SpoiltOrder`, `FileGrows`). `ResumeFindsItsHistory` also has to survive a file that
was cut and written to again, so `InPlace` speaks of single places, until one is written a second
time (`rewritten`). `ClosingFollowsResult` orders result and notes.

**Evidence.** Where a source comes from is settled when it enters the evidence of a run, and has to
outlive what overwrites it there, the result, and the later runs that reuse it. `SourceIsSound`
says of the run in progress that each source names an observation of its own kind that holds its
page; `FoundIn`, that a reused observation is found, under its new name, in a record the handoff
names; `ResultsAreSound` says both of every result. A reused page goes to the last of the
records that hold it, which needs that a set of records has one (`Greatest`).
`GateRecognisesResearch` is not inductive: that the gate goes back to the right result is `InStep`,
which ties run, result and handoff to each other. A verdict is checked when it is submitted and
believed later: `ReviewFits` keeps that the verifier's records are sources of the result under
review or its own observations, that a review in progress has no verdict yet, and that what a
pass cites was observed. `GateReports` takes the report through the gate to the review
it rests on. The theorems assume of a todo only what the planner refuses otherwise: it has a
criterion (`ChainConstants`, `planning.py:163`).

**Delivery.** What a result declares, whether it counts as failing and which tools it could have
used follow from the records of the round, and these are gone when the result is judged. `Phased`,
`Recorded` and `LastTest` say what the records mean while they exist, `Silent`, `Discloses` and
`PassedOnTests` what is left of it in result and report. The lemmas about `ToolPipeline` (each
effect of a tool is a `SoundEffect`) are the only place where the tools are looked at one by one;
they assume of a call's arguments what the tools' argument models accept (`WellFormed`), which a
call that is malformed lacks, and `AtWork` says that none of those is ever waiting for a handler.

**Terminal.** `OneOperation` says that an operation in flight has its worker or its answer behind
all of its events, `OneSession` that what is in flight is about one session, `Screens` that no
screen is opened over an operation, and `OutcomesAgree` that an outcome on its way is what the
checkpoint says until another client moves it. The lemmas take an operation apart into what it
posts and where it ends (`GoesOn`, `Ends`), and a received message into what it does to the view.
The only assumption that is not a bound is that "no session" is not one.

Every invariant and action property of a run has its theorem. Only model-checked: liveness
(`SettlesOrStrands`, `EveryTurnAnswered`, `RunStops`, `TaskSettles`, `DelegationIsReported`), which
under fairness is out of this prover's reach, as is ENABLED; and `CompletedCanContinue`, which is
refuted. Induction over data is out of reach too; no theorem here needed it.

## 6. Known divergences

What the code does where a document, a message or the reader's expectation says otherwise. The
first is the run `bound_completed` and a finding of `PROJECT.json`; the others were met while
modelling, and the models behave as the code does.

Calls and sessions.
- When the continuation of an approved call fails, the session stays bound to a completed
  checkpoint, which can neither be resumed nor abandoned (`workflow_adapter.py:455` says the
  workflow can continue; `runtime/resumable.py:121` and `controller.py:77` refuse).
- A process lost between saving `pending` and the retry leaves a call that no resume accepts
  (`coordinator.py:270`, `resumable.py:177`; docs/design-decisions.md:104). `SettlesOrStrands`
  shows it is the only way a call gets stuck.
- A call that is executing when the process dies, in a run that has not paused yet, is never
  marked for recovery: no session refers to it (`controller.py:137`; docs/architecture.md:108).
  `UnfinishedIsReferenced` bounds these calls by the number of faults.
- A round stopped half way is remembered, with made-up results, and shown to the model
  (docs/design-decisions.md:166 says it is not).
- The guard takes the workspace revision anew when a test passes and keeps the other passed
  tests, so a change made meanwhile is never noticed: a passed test is refused as unchanged,
  and the refusal ends the run (`guard.py:108`; docs/execution-policy.md:40).
- The exclusion of a second workflow, and the turn a failed resume answers, are right for one
  operation at a time only.

Planning and verification.
- A replan key is recorded before the two refusals that follow (`planning.py:241-248`), so the
  corrected retry is refused as one that was already made (`planning.py:230`).
- Limitations are cut to 24 when basic checks are added (`gate.py:226`); the models have no such
  bound on a set of limits.
- An identifier of a tool call is taken from the provider as it is
  (`providers/llm/openai_compatible.py:120`); `ResearchRun` takes it to name one call, and
  sources are told apart by it (`research_evidence.py:131`).

Delivery.
- docs/verification-agent.md:15 says that an `environment` delivery exposes no tool that writes
  files. After any failed `run_command`, `_next_phase` (`runtime/react.py:203-220`) turns the
  phase to debugging, which exposes `write_file` and `edit_file` and hides
  `inspect_python_environment`. `FileToolsNeedAReason` holds that nothing else does.
- The baseline can go over `max_attempts` when the planner retries after a report that passed;
  only the limit of steps ends it.
- Two inspected packages share a key in `verification/basic.py`, so a missing one is hidden by a
  later one that is there.
- A write that fails halfway has changed a file the result does not declare, and stops neither
  an inspection nor a check by kind of artifact.
- The code agent answers for a loop that ran out of steps without a result by declaring no
  files (`agents/code.py:92-96`), whatever was written. No agent of the application gets there:
  its `ResumableReActAgent` ends every limit itself, and only `examples/multi_agent_report.py`
  gives the code agent the plain loop, which raises. The model has the agent of the application.

Notepad.
- Two `MarkdownNotepadStore`s on one file erase each other's notes (`notepad.py:114-130`); a note
  erased by a writer that is lost in turn stays missing. `MissingNotesAreOwed` holds that nothing
  else loses one. The application passes no notepad (`bootstrap.py:312-325`).

Terminal.
- The approval kept from an earlier outcome stays on offer while a call waits for recovery or
  reconciliation (`app.py:321-340`): "a" and `/approval` show it and would send its old request
  (docs/tui.md:125). The backend refuses it.
- The projection ignores a report or a review of another delivery than the one the list of
  todos shows, and a board's review of another delivery (`adapter.py:190,218,230`). As the program emits
  its events none of these guards is ever needed: the board precedes the report of a delivery
  (`workflow_adapter.py:312-378`), and only the latest delivery can be reviewed
  (`planning.py:263-266`). Nor does a report pass or fail by itself (`adapter.py:227`):
  `workflow.py:597` makes each advisory.
- An operation whose effects are on disk is shown as failed when the session cannot be read
  right after it (`app.py:246`).
- A chat's outcome hides a decision that is still due until `/status`; after a failed operation
  the view says running or failed while the call is paused; a scan that was cancelled still posts
  its older snapshot of the same session; the form of a reconciliation can be reopened through
  `/status` only.

## 7. Assumptions shared by the models

One process writes a store at a time (repository README: no multi-process locks), except where
a run says otherwise (`memory`, `budget`); a file replacement is atomic and a saved file is not
lost, except by `Shrink` of the history. The TUI allows one operation at a time
(`interfaces/tui/app.py`, `StartOperation`); runs of the session that need it have one client
and say so. Operators quote the identity and revision that are on disk, or an older one; a
forged identity is refused in the same way.

## 8. Not modelled

- Context selection, token estimates, compression, prompts and the wording of answers: their
  effect on control, a context that does not fit, is a free choice of a run.
- Trace: a best-effort audit no decision reads. Assembly: wiring; that every operation builds a
  new gate is the constant `FreshGate`. Routing and chat: a free choice of `WorkflowSession`.
  Providers: their answers and failures are free choices of the models that ask them.
- Older baselines (`react_graph`, `fixed_file_verifier`) and the demo are not on the program's
  path; neither is the supervisor without tools (`agents/supervisor.py`, `orchestration/guards.py`).
- How a policy takes a command line apart and how a workspace resolves paths: a command is of a
  kind, a path is inside or it is not. The contents of a file beyond blank, wrong and right.
- In `ReActLoop`: the claim of the one finalization per run (it is in `RequestBudget`), a step
  limit lowered at a restart (`MaxSteps` is the smaller one), phases (they are in `ToolPipeline`),
  snapshots of older versions. In `WorkflowSession`: new sessions, status queries, events (the
  client's side of them is in `TerminalClient`). In `RequestBudget`: `FinalizationLedger.finish`,
  which records an outcome nobody reads again, ledgers in memory, requests made before `bind`.
  In `HistoryStore`: keyword and recency queries, the notepad's marker block. In
  `TerminalClient`: text, the feed and the transcript, sequence numbers of the projection, and
  the line interface, which keeps nothing. In `CodeDelivery`: the research a page has to cite.

## 9. Plan

The models are complete as far as this plan went, and all invariants and action properties that
runs check are proved. What is left is to widen the models where section 8 says so: the
context that no longer fits, as a component with limits of its own, and the routing of a turn.
