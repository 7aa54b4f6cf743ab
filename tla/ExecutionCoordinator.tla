------------------------ MODULE ExecutionCoordinator ------------------------
(***************************************************************************)
(* The durable life of one tool call: ExecutionCoordinator and             *)
(* ExecutionHarness over a JsonCheckpointStore, driven by                  *)
(* ResumableReActAgent.resume and TikiWorkflowAdapter.                     *)
(*                                                                         *)
(* A driver is a thread or a successive process that calls the             *)
(* coordinator.  All drivers share the checkpoint file, whose save is a    *)
(* compare-and-swap on the revision (one RLock per store).  Everything a   *)
(* driver has read stays in drv[d].base and can be stale when it saves.    *)
(* A driver may stop between any two of its steps: an exception of a save  *)
(* or a crash of its process, after which another call takes over.         *)
(***************************************************************************)
EXTENDS Naturals, FiniteSets, CallLifecycle

CONSTANTS
  Drivers,      \* callers of the coordinator
  Verdicts,     \* what exposure, validation and policy may say of the call
  MaxAttempts,  \* bound: execution attempts of the call
  MaxFaults,    \* bound: drivers lost between two steps
  FreshGate,    \* TRUE: every operation builds its own ApprovalGate
  Truthful      \* TRUE: an operator denies an execution only if it never began

ASSUME VerdictsAssumption == Verdicts \subseteq {"ALLOW", "ASK", "DENY"}
ASSUME BoundsAssumption ==
  /\ MaxAttempts \in Nat \ {0}
  /\ MaxFaults \in Nat
  /\ FreshGate \in BOOLEAN
  /\ Truthful \in BOOLEAN

VARIABLES
  ckpt,     \* the checkpoint on disk; revision 0 is the missing file
  drv,      \* per driver: its place in the operation, its copy, its answer
  gates,    \* per driver: the requests its ApprovalGate has consumed
  starts,   \* history: handler starts per attempt
  answers,  \* history: what operators answered to the state shown
  faults    \* drivers lost so far

vars == <<ckpt, drv, gates, starts, answers, faults>>

Attempts == 1..MaxAttempts

ApprovalState == {"not_required", "awaiting", "granted", "rejected"}
\* Who produced a ToolResult, and for which execution identity.
Result == [by : {"nobody", "handler", "gate", "human"}, attempt : Nat]
NoResult == [by |-> "nobody", attempt |-> 0]
ResultBy(who, a) == [by |-> who, attempt |-> a]

\* One ApprovalRequest is created per attempt, so the attempt names it; 0 is
\* None.  The attempt also names the execution_id, renewed with it.
Checkpoint ==
  [rev : Nat, attempt : 0..MaxAttempts, state : ExecutionState \cup {"absent"},
   approval : ApprovalState, request : 0..MaxAttempts, result : Result,
   reconciled : BOOLEAN]

Absent ==
  [rev |-> 0, attempt |-> 0, state |-> "absent", approval |-> "not_required",
   request |-> 0, result |-> NoResult, reconciled |-> FALSE]

Approvals == {"approve", "reject"}
Recoveries == {"confirmed_executed", "confirmed_not_executed"}
AnswerKind == Approvals \cup Recoveries \cup {"reconcile"}
Answer == [kind : AnswerKind, id : Nat]
NoAnswer == [kind |-> "reject", id |-> 0]

Place == {"idle", "called", "loaded", "denying", "retrying", "handler", "ran"}
Driver == [pc : Place, exp : Nat, base : Checkpoint, answer : Answer]
Idle == [pc |-> "idle", exp |-> 0, base |-> Absent, answer |-> NoAnswer]

-----------------------------------------------------------------------------
(* The store and the checkpoint constructors.                              *)

\* _new_checkpoint: revision 1, attempt 1.
NewCheckpoint(state, approval, request) ==
  [rev |-> 1, attempt |-> 1, state |-> state, approval |-> approval,
   request |-> request, result |-> NoResult, reconciled |-> FALSE]

\* next_checkpoint: the copy the driver holds, one revision further.
NextCheckpoint(base, state, approval, request, result) ==
  [rev |-> base.rev + 1, attempt |-> base.attempt, state |-> state,
   approval |-> approval, request |-> request, result |-> result,
   reconciled |-> base.reconciled]

\* ... with a new execution identity and neither approval nor result.
RenewedCheckpoint(base) ==
  [rev |-> base.rev + 1, attempt |-> base.attempt + 1, state |-> "pending",
   approval |-> "not_required", request |-> 0, result |-> NoResult,
   reconciled |-> base.reconciled]

\* ... with the result a human supplied.
ReconciledCheckpoint(base) ==
  [rev |-> base.rev + 1, attempt |-> base.attempt, state |-> "completed",
   approval |-> base.approval, request |-> base.request,
   result |-> ResultBy("human", base.attempt), reconciled |-> TRUE]

\* Faulty: a save that does not compare the revision.
SaveUnchecked(d, new) ==
  /\ drv[d].base.rev > 0
  /\ ckpt' = new

\* JsonCheckpointStore.save: nothing is written unless the file still has
\* the revision the driver loaded.
Save(d, new) ==
  /\ ckpt.rev = drv[d].base.rev
  /\ ckpt' = new

\* A driver past the load, with its copy of the file.
At(place, copy, answer) ==
  [pc |-> place, exp |-> 0, base |-> copy, answer |-> answer]

\* The driver goes on to `place' with this copy; the answer is of use only
\* until it has been acted upon.
Goto(d, place, copy) ==
  drv' = [drv EXCEPT ![d] =
            At(place, copy, IF place = "loaded" THEN drv[d].answer
                                                ELSE NoAnswer)]

Leave(d) == drv' = [drv EXCEPT ![d] = Idle]

Consume(d, request) == gates' = [gates EXCEPT ![d] = @ \cup {request}]

-----------------------------------------------------------------------------
Init ==
  /\ ckpt = Absent
  /\ drv = [d \in Drivers |-> Idle]
  /\ gates = [d \in Drivers |-> {}]
  /\ starts = [a \in Attempts |-> 0]
  /\ answers = {}
  /\ faults = 0

\* execute, ALLOW: executing is durable before the handler may start.  A DENY
\* leaves no checkpoint and is no step.
ExecuteAllowed(d) ==
  LET new == NewCheckpoint("executing", "not_required", 0) IN
  /\ drv[d].pc = "idle"
  /\ ckpt.rev = 0
  /\ "ALLOW" \in Verdicts
  /\ ckpt' = new
  /\ Goto(d, "handler", new)
  /\ UNCHANGED <<gates, starts, answers, faults>>

\* execute, ASK: the request is created and the call is suspended.
ExecuteAsked(d) ==
  /\ drv[d].pc = "idle"
  /\ ckpt.rev = 0
  /\ "ASK" \in Verdicts
  /\ ckpt' = NewCheckpoint("awaiting_approval", "awaiting", 1)
  /\ UNCHANGED <<drv, gates, starts, answers, faults>>

-----------------------------------------------------------------------------
(* An operation of the operator: TikiWorkflowAdapter.resume_approval,      *)
(* recover and reconcile.                                                  *)

\* The adapter compares the request id or the execution_id with the file and
\* refuses a mismatch, so the answer names the current one.
Call(d, rev, kind) ==
  LET id == IF kind \in Approvals THEN ckpt.request ELSE ckpt.attempt IN
  /\ drv[d].pc = "idle"
  /\ rev \in 1..ckpt.rev
  /\ id > 0
  /\ kind = "confirmed_not_executed" =>
       ckpt.attempt < MaxAttempts /\ (Truthful => starts[ckpt.attempt] = 0)
  /\ drv' = [drv EXCEPT ![d] = [pc |-> "called", exp |-> rev, base |-> Absent,
                                answer |-> [kind |-> kind, id |-> id]]]
  /\ gates' = IF FreshGate THEN [gates EXCEPT ![d] = {}] ELSE gates
  /\ UNCHANGED <<ckpt, starts, answers, faults>>

\* The answer is one to the question this state puts to the operator.
Addresses(kind, state) ==
  \/ kind \in Approvals /\ state = "awaiting_approval"
  \/ kind \in Recoveries /\ state \in {"executing", "recovery_required"}
  \/ kind = "reconcile" /\ state = "awaiting_reconcile"

\* ResumableReActAgent.resume: load, compare the revision, refuse a settled
\* call.
Load(d) ==
  /\ drv[d].pc = "called"
  /\ IF ckpt.rev = drv[d].exp /\ ckpt.state \notin Terminal
       THEN /\ Goto(d, "loaded", ckpt)
            /\ answers' = answers \cup {a \in {drv[d].answer} :
                                          Addresses(a.kind, ckpt.state)}
       ELSE Leave(d) /\ UNCHANGED answers
  /\ UNCHANGED <<ckpt, gates, starts, faults>>

\* Faulty: an interrupted call is put back in line without asking anybody.
MarkInterruptedRequeued(d) ==
  LET base == drv[d].base
      new == RenewedCheckpoint(base)
  IN
  /\ drv[d].pc = "loaded"
  /\ base.state = "executing"
  /\ base.attempt < MaxAttempts
  /\ Save(d, new)
  /\ Goto(d, "retrying", new)
  /\ UNCHANGED <<gates, starts, answers, faults>>

\* Faulty: executing is not recognised as an interrupted call.
MarkInterruptedNever(d) ==
  /\ drv[d].pc = "loaded"
  /\ drv[d].base.state = "executing"
  /\ Leave(d)
  /\ UNCHANGED <<ckpt, gates, starts, answers, faults>>

\* mark_interrupted: whoever finds executing takes the handler for dead.
MarkInterrupted(d) ==
  LET base == drv[d].base
      new == NextCheckpoint(base, "recovery_required", base.approval,
                            base.request, base.result)
  IN
  /\ drv[d].pc = "loaded"
  /\ base.state = "executing"
  /\ Save(d, new)
  /\ Goto(d, "loaded", new)
  /\ UNCHANGED <<gates, starts, answers, faults>>

\* ApprovalGate.validate_decision: this request, not yet consumed here.
ValidDecision(d) ==
  /\ drv[d].answer.id = drv[d].base.request
  /\ drv[d].base.request \notin gates[d]

\* Faulty: the handler is reached before executing is saved.
ApproveUnsaved(d) ==
  /\ drv[d].pc = "loaded"
  /\ drv[d].base.state = "awaiting_approval"
  /\ drv[d].answer.kind = "approve"
  /\ "ASK" \in Verdicts
  /\ ValidDecision(d)
  /\ Consume(d, drv[d].base.request)
  /\ Goto(d, "handler", drv[d].base)
  /\ UNCHANGED <<ckpt, starts, answers, faults>>

\* resume_approval, approved: executing is saved, only then is the approval
\* consumed and the handler reached.
Approve(d) ==
  LET base == drv[d].base
      new == NextCheckpoint(base, "executing", "granted", base.request,
                            base.result)
  IN
  /\ drv[d].pc = "loaded"
  /\ base.state = "awaiting_approval"
  /\ drv[d].answer.kind = "approve"
  /\ "ASK" \in Verdicts
  /\ ValidDecision(d)
  /\ Save(d, new)
  /\ Consume(d, base.request)
  /\ Goto(d, "handler", new)
  /\ UNCHANGED <<starts, answers, faults>>

\* ExecutionHarness.handle, rejected: the approval is consumed first ...
Reject(d) ==
  LET base == drv[d].base IN
  /\ drv[d].pc = "loaded"
  /\ base.state = "awaiting_approval"
  /\ drv[d].answer.kind = "reject"
  /\ "ASK" \in Verdicts
  /\ ValidDecision(d)
  /\ Consume(d, base.request)
  /\ Goto(d, "denying", base)
  /\ UNCHANGED <<ckpt, starts, answers, faults>>

\* ... and resume_approval saves the denial afterwards.
SaveDenial(d) ==
  LET base == drv[d].base IN
  /\ drv[d].pc = "denying"
  /\ Save(d, NextCheckpoint(base, "denied", "rejected", base.request,
                            ResultBy("gate", base.attempt)))
  /\ Leave(d)
  /\ UNCHANGED <<gates, starts, answers, faults>>

\* The loop guard of the run stops an approval; a policy that no longer asks, a
\* foreign or a consumed request refuse any decision.  The checkpoint stays.
RefuseDecision(d) ==
  /\ drv[d].pc = "loaded"
  /\ drv[d].base.state = "awaiting_approval"
  /\ drv[d].answer.kind \in Approvals
  /\ \/ drv[d].answer.kind = "approve"
     \/ Verdicts # {"ASK"} \/ ~ValidDecision(d)
  /\ Leave(d)
  /\ UNCHANGED <<ckpt, gates, starts, answers, faults>>

\* Faulty: the operator's word stands in for the result.
ConfirmExecutedAsResult(d) ==
  LET base == drv[d].base IN
  /\ drv[d].pc = "loaded"
  /\ base.state = "recovery_required"
  /\ drv[d].answer.kind = "confirmed_executed"
  /\ Save(d, NextCheckpoint(base, "completed", base.approval, base.request,
                            ResultBy("handler", base.attempt)))
  /\ Leave(d)
  /\ UNCHANGED <<gates, starts, answers, faults>>

\* apply_recovery, confirmed_executed: wait for the real result.
ConfirmExecuted(d) ==
  LET base == drv[d].base IN
  /\ drv[d].pc = "loaded"
  /\ base.state = "recovery_required"
  /\ drv[d].answer.kind = "confirmed_executed"
  /\ Save(d, NextCheckpoint(base, "awaiting_reconcile", base.approval,
                            base.request, NoResult))
  /\ Leave(d)
  /\ UNCHANGED <<gates, starts, answers, faults>>

\* apply_recovery, confirmed_not_executed: a new execution identity, the old
\* approval is gone, and the same operation goes on to retry.
ConfirmNotExecuted(d) ==
  LET base == drv[d].base
      new == RenewedCheckpoint(base)
  IN
  /\ drv[d].pc = "loaded"
  /\ base.state = "recovery_required"
  /\ drv[d].answer.kind = "confirmed_not_executed"
  /\ base.attempt < MaxAttempts
  /\ Save(d, new)
  /\ Goto(d, "retrying", new)
  /\ UNCHANGED <<gates, starts, answers, faults>>

\* retry_confirmed_not_executed: the whole gate once more.
RetryAllowed(d) ==
  LET base == drv[d].base
      new == NextCheckpoint(base, "executing", "not_required", base.request,
                            base.result)
  IN
  /\ drv[d].pc = "retrying"
  /\ "ALLOW" \in Verdicts
  /\ Save(d, new)
  /\ Goto(d, "handler", new)
  /\ UNCHANGED <<gates, starts, answers, faults>>

RetryAsked(d) ==
  LET base == drv[d].base IN
  /\ drv[d].pc = "retrying"
  /\ "ASK" \in Verdicts
  /\ Save(d, NextCheckpoint(base, "awaiting_approval", "awaiting",
                            base.attempt, base.result))
  /\ Leave(d)
  /\ UNCHANGED <<gates, starts, answers, faults>>

RetryDenied(d) ==
  LET base == drv[d].base IN
  /\ drv[d].pc = "retrying"
  /\ "DENY" \in Verdicts
  /\ Save(d, NextCheckpoint(base, "denied", base.approval, base.request,
                            ResultBy("gate", base.attempt)))
  /\ Leave(d)
  /\ UNCHANGED <<gates, starts, answers, faults>>

\* dispatcher.execute: the side effect.
RunHandler(d) ==
  /\ drv[d].pc = "handler"
  /\ starts' = [starts EXCEPT ![drv[d].base.attempt] = @ + 1]
  /\ Goto(d, "ran", drv[d].base)
  /\ UNCHANGED <<ckpt, gates, answers, faults>>

\* Faulty: a late result overwrites what recovery has decided meanwhile.
CompleteBlind(d) ==
  LET base == drv[d].base IN
  /\ drv[d].pc = "ran"
  /\ ckpt' = [NextCheckpoint(base, "completed", base.approval, base.request,
                             ResultBy("handler", base.attempt))
                EXCEPT !.rev = ckpt.rev + 1]
  /\ Leave(d)
  /\ UNCHANGED <<gates, starts, answers, faults>>

\* _complete: the result of the handler becomes durable.
Complete(d) ==
  LET base == drv[d].base IN
  /\ drv[d].pc = "ran"
  /\ Save(d, NextCheckpoint(base, "completed", base.approval, base.request,
                            ResultBy("handler", base.attempt)))
  /\ Leave(d)
  /\ UNCHANGED <<gates, starts, answers, faults>>

\* reconcile: the operator's evidence becomes the result.
Reconcile(d) ==
  LET base == drv[d].base IN
  /\ drv[d].pc = "loaded"
  /\ base.state = "awaiting_reconcile"
  /\ drv[d].answer.kind = "reconcile"
  /\ Save(d, ReconciledCheckpoint(base))
  /\ Leave(d)
  /\ UNCHANGED <<gates, starts, answers, faults>>

\* The loaded state does not wait for this answer: the run pauses again, or
\* (pending) the resume is refused.
Pause(d) ==
  /\ drv[d].pc = "loaded"
  /\ drv[d].base.state # "executing"
  /\ ~Addresses(drv[d].answer.kind, drv[d].base.state)
  /\ Leave(d)
  /\ UNCHANGED <<ckpt, gates, starts, answers, faults>>

\* CheckpointConflictError: the copy is stale, the operation raises.
Conflict(d) ==
  /\ drv[d].pc \in {"loaded", "denying", "retrying", "ran"}
  /\ ckpt.rev # drv[d].base.rev
  /\ Leave(d)
  /\ UNCHANGED <<ckpt, gates, starts, answers, faults>>

\* A save that fails (the gate lives on) or a crash (it does not): the driver
\* is lost between two steps.
Fault(d) ==
  /\ drv[d].pc # "idle"
  /\ faults < MaxFaults
  /\ faults' = faults + 1
  /\ Leave(d)
  /\ gates' \in {gates, [gates EXCEPT ![d] = {}]}
  /\ UNCHANGED <<ckpt, starts, answers>>

-----------------------------------------------------------------------------
\* What a driver does by itself once it has been called.
Step(d) ==
  \/ Load(d) \/ MarkInterrupted(d) \/ Approve(d) \/ Reject(d) \/ SaveDenial(d)
  \/ RefuseDecision(d) \/ ConfirmExecuted(d) \/ ConfirmNotExecuted(d)
  \/ RetryAllowed(d) \/ RetryAsked(d) \/ RetryDenied(d)
  \/ RunHandler(d) \/ Complete(d) \/ Reconcile(d) \/ Pause(d) \/ Conflict(d)

\* Bound: the revision quoted is the current one or the one before; an older
\* one is refused in the same way.
ShownRevisions == {rev \in 1..ckpt.rev : rev + 1 >= ckpt.rev}

Next ==
  \E d \in Drivers :
    \/ ExecuteAllowed(d) \/ ExecuteAsked(d)
    \/ \E rev \in ShownRevisions, kind \in AnswerKind : Call(d, rev, kind)
    \/ Step(d)
    \/ Fault(d)

Spec == Init /\ [][Next]_vars

\* A running thread goes on; an operator who looks at the status keeps giving
\* each answer for the revision shown.
FreshCall(d, kind) == Call(d, ckpt.rev, kind)

FairSpec ==
  /\ Spec
  /\ \A d \in Drivers : WF_vars(Step(d))
  /\ \A d \in Drivers, kind \in AnswerKind : SF_vars(FreshCall(d, kind))

-----------------------------------------------------------------------------
(* Properties.                                                             *)

\* The attempts whose executing state has ever been on disk.
Committed(a) ==
  \/ a \in 1..(ckpt.attempt - 1)
  \/ /\ a = ckpt.attempt
     /\ ckpt.state \in {"executing", "recovery_required", "awaiting_reconcile",
                       "completed"}

\* ExecutionCheckpoint.validate_lifecycle, which would raise in the middle of
\* an operation.
LifecycleValid(c) ==
  /\ c.state = "awaiting_approval" => c.approval = "awaiting" /\ c.request > 0
  /\ c.state = "executing" => c.approval \in {"not_required", "granted"}
  /\ c.state = "completed" => c.result # NoResult
  /\ c.state = "awaiting_reconcile" => c.result = NoResult
  /\ c.reconciled => c.state = "completed"

\* Types, and every checkpoint written passes the validator of the schema.
TypeOK ==
  /\ ckpt \in Checkpoint
  /\ LifecycleValid(ckpt)
  /\ drv \in [Drivers -> Driver]
  /\ gates \in [Drivers -> SUBSET (0..MaxAttempts)]
  /\ starts \in [Attempts -> Nat]
  /\ answers \subseteq Answer
  /\ faults \in 0..MaxFaults

\* One execution identity stands for at most one start of the handler, however
\* many drivers resume the checkpoint and whenever they are lost.
OneStartPerAttempt == \A a \in Attempts : starts[a] <= 1

\* A call that has begun is never on disk as one that has not: whoever reads
\* the file after a crash finds the attempt executing, under recovery or done,
\* not pending, awaiting approval or denied.
StartIsOnRecord == \A a \in Attempts : starts[a] > 0 => Committed(a)

\* No automatic replay: a further attempt exists only when an operator has
\* declared the attempt before it not executed.
ReplayNeedsAnOperator ==
  \A a \in 2..ckpt.attempt :
    [kind |-> "confirmed_not_executed", id |-> a - 1] \in answers

\* A completed checkpoint holds the result of the handler of that very attempt
\* or the one an operator supplied after declaring it executed; an uncertain
\* one holds no result, so none can be made up.
ResultIsGenuine ==
  /\ ckpt.state = "completed" =>
       \/ /\ ckpt.result = ResultBy("handler", ckpt.attempt)
          /\ starts[ckpt.attempt] = 1
          /\ ~ckpt.reconciled
       \/ /\ ckpt.result = ResultBy("human", ckpt.attempt)
          /\ ckpt.reconciled
          /\ {[kind |-> "confirmed_executed", id |-> ckpt.attempt],
              [kind |-> "reconcile", id |-> ckpt.attempt]} \subseteq answers
  /\ ckpt.state \notin Terminal => ckpt.result = NoResult

\* An approval authorises the attempt it was given for and no later one; a call
\* that waits for it or was refused has not run.
ApprovalIsOfThisAttempt ==
  /\ ckpt.approval = "granted" =>
       [kind |-> "approve", id |-> ckpt.attempt] \in answers
  /\ ckpt.approval = "rejected" =>
       [kind |-> "reject", id |-> ckpt.attempt] \in answers
  /\ ckpt.attempt > 0 /\ ckpt.approval \in {"awaiting", "rejected"} =>
       starts[ckpt.attempt] = 0

\* Whatever drivers do at once, the file moves only along the lifecycle, and
\* every change of it is one revision further.
FollowsLifecycle ==
  [][ckpt' # ckpt =>
       /\ <<ckpt.state, ckpt'.state>> \in Lifecycle
       /\ ckpt'.rev = ckpt.rev + 1]_vars

\* With operators who tell the truth and one operation at a time (as the TUI
\* enforces), the side effect happens at most once over all attempts.
TruthfulRecoveryRunsOnce ==
  /\ OneStartPerAttempt
  /\ \A a, b \in Attempts : starts[a] > 0 /\ starts[b] > 0 => a = b

\* A pending checkpoint that no driver is about to retry.
Stranded ==
  /\ ckpt.state = "pending"
  /\ \A d \in Drivers : drv[d].pc # "retrying"

\* An operator who keeps answering settles the call, unless a driver is lost
\* between apply_recovery and the retry.
SettlesOrStrands == ckpt.rev > 0 ~> ckpt.state \in Terminal \/ Stranded

-----------------------------------------------------------------------------
(* The coordinator implements the promise of AtMostOnceExecution.          *)

PhaseOf(state) ==
  CASE state = "absent" -> "none"
    [] state \in {"pending", "awaiting_approval"} -> "open"
    [] state = "executing" -> "committed"
    [] state \in {"recovery_required", "awaiting_reconcile"} -> "unknown"
    [] state \in Terminal -> "closed"

Promise == INSTANCE AtMostOnceExecution
             WITH phase <- PhaseOf(ckpt.state), attempt <- ckpt.attempt,
                  launches <- starts

\* Every step of any driver is a step of the promise or changes nothing in it.
KeepsPromise == Promise!ASpec

=============================================================================
