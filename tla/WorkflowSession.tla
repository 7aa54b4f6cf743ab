--------------------------- MODULE WorkflowSession ---------------------------
(***************************************************************************)
(* One session: ApplicationController over SessionService and the          *)
(* TikiWorkflowAdapter.  It relates three durable things that are written  *)
(* one after the other: the session record (a save compares its revision  *)
(* with the one loaded), the turn log (append only) and the checkpoints of the tool calls *)
(* a workflow makes.                                                       *)
(*                                                                         *)
(* A client is a process, or a thread of one, that calls the controller.   *)
(* The session a client has loaded stays in its copy and may be stale at   *)
(* the save.  A call's checkpoint moves along CallLifecycle, which is what *)
(* ExecutionCoordinator is checked to do; operators quote the revision and *)
(* the identity that are on disk (the coordinator refuses any other).      *)
(*                                                                         *)
(* A turn is named by its place in the log.  The task_id a workflow turn   *)
(* carries is minted for it, so that the turn names the task as well.      *)
(***************************************************************************)
EXTENDS Naturals, Sequences, FiniteSets, CallLifecycle

CONSTANTS
  Clients,       \* callers of the controller
  MaxTurns,      \* bound: turns of the session
  MaxCalls,      \* bound: tool calls that leave a checkpoint
  MaxRevision,   \* bound: saves of one checkpoint; limits its retries
  MaxFaults      \* bound: clients lost, saves failed, restarts with tighter budgets

ASSUME SessionBounds ==
  /\ IsFiniteSet(Clients)
  /\ MaxTurns \in Nat /\ MaxCalls \in Nat
  /\ MaxRevision \in Nat /\ MaxRevision >= 5 /\ MaxFaults \in Nat

VARIABLES
  session,   \* SessionRecord on disk
  log,       \* turns on disk, each with its latest response
  calls,     \* checkpoints on disk, in the order they were created
  op,        \* per client: its place in the operation and what it holds
  refused,   \* history: turns whose count was refused by the session store
  abandoned, \* history: calls whose approval the loop guard of the run refused
  faults     \* faults so far

vars == <<session, log, calls, op, refused, abandoned, faults>>

NoReply == "none"
Replies ==
  PauseStates \cup {"chat_completed", "chat_failed", "workflow_completed",
                    "workflow_denied", "workflow_failed"}

\* Revisions only grow, so a loaded one is still that of the file unless there
\* was a save since: op[p].fresh stands for the comparison.
Session == [active : 0..MaxCalls, turns : 0..MaxTurns, task : 0..MaxTurns]
Turn == [workflow : BOOLEAN, reply : Replies \cup {NoReply}]
CallFile == [task : 1..MaxTurns, state : ExecutionState, rev : 1..MaxRevision]

Place ==
  {"idle", "routing", "recording", "counting", "chatting", "running",
   "handler", "settling", "retrying", "paused", "syncing", "clearing",
   "writing", "responding", "failing"}

\* copy, fresh: the session as loaded, and whether its revision is still that
\* of the file; workflow: the intent routed; resumed: in resume, recover or reconcile; turn:
\* the turn to answer; call, rev: the checkpoint in hand; out: the outcome.
Operation ==
  [pc : Place, copy : Session, fresh : BOOLEAN, workflow : BOOLEAN, resumed : BOOLEAN,
   turn : 0..MaxTurns, call : 0..MaxCalls, rev : 0..MaxRevision,
   out : Replies \cup {NoReply}]

NewSession == [active |-> 0, turns |-> 0, task |-> 0]

Idle ==
  [pc |-> "idle", copy |-> NewSession, fresh |-> FALSE, workflow |-> FALSE, resumed |-> FALSE,
   turn |-> 0, call |-> 0, rev |-> 0, out |-> NoReply]

-----------------------------------------------------------------------------
Goto(p, place) == op' = [op EXCEPT ![p].pc = place]
Leave(p) == op' = [op EXCEPT ![p] = Idle]

\* JsonSessionStore.load.
LoadSession(p, place) ==
  op' = [op EXCEPT ![p].pc = place, ![p].copy = session, ![p].fresh = TRUE]

\* JsonSessionStore.save: refused unless the revision is the one loaded; every
\* copy is stale afterwards.
SaveSession(p, active, turns, task, place) ==
  /\ op[p].fresh
  /\ session' = [active |-> active, turns |-> turns, task |-> task]
  /\ op' = [q \in Clients |->
              [op[q] EXCEPT !.fresh = FALSE, !.pc = IF q = p THEN place ELSE @]]

\* JsonlTurnStore.append of a ResponseRecord: the latest one counts.
Reply(t, status) == log' = [log EXCEPT ![t].reply = status]

\* The place a run is in when its call has reached this state.
PlaceAfter(state) ==
  CASE state = "executing" -> "handler"
    [] state = "pending" -> "retrying"
    [] state = "recovery_required" -> "settling"
    [] state \in {"awaiting_approval", "awaiting_reconcile"} -> "paused"
    [] state \in Terminal -> "running"

\* Saves a retried call may still need until it is settled.
RetrySaves == 6

\* The checkpoint of the call moves on and the client with it; a resumed run
\* takes its task from the checkpoint.
MoveCall(p, to) ==
  LET c == op[p].call IN
  /\ <<calls[c].state, to>> \in Lifecycle
  /\ to = "pending" => calls[c].rev + RetrySaves <= MaxRevision
  /\ calls' = [calls EXCEPT ![c].state = to, ![c].rev = @ + 1]
  /\ op' = [op EXCEPT ![p].pc = PlaceAfter(to), ![p].rev = calls[c].rev + 1,
                      ![p].turn = IF op[p].resumed THEN calls[c].task ELSE @]

Init ==
  /\ session = NewSession
  /\ log = <<>>
  /\ calls = <<>>
  /\ op = [p \in Clients |-> Idle]
  /\ refused = 0
  /\ abandoned = {}
  /\ faults = 0

-----------------------------------------------------------------------------
(* submit.                                                                 *)

\* The session is loaded before the router asks its model.
Submit(p) ==
  /\ op[p].pc = "idle"
  /\ Len(log) + Cardinality({q \in Clients : op[q].pc \in {"routing", "recording"}})
       < MaxTurns
  /\ op' = [op EXCEPT ![p] = [Idle EXCEPT !.pc = "routing", !.copy = session,
                                          !.fresh = TRUE]]
  /\ UNCHANGED <<session, log, calls, refused, abandoned, faults>>

\* Faulty: a workflow is started whatever the session refers to.
RouteUnguarded(p, workflow) ==
  /\ op[p].pc = "routing"
  /\ op' = [op EXCEPT ![p].pc = "recording", ![p].workflow = workflow]
  /\ UNCHANGED <<session, log, calls, refused, abandoned, faults>>

\* The intent is decided; a workflow is refused while the copy refers to a
\* suspended one.
Route(p, workflow) ==
  /\ op[p].pc = "routing"
  /\ IF workflow /\ op[p].copy.active # 0
       THEN Leave(p)
       ELSE op' = [op EXCEPT ![p].pc = "recording", ![p].workflow = workflow]
  /\ UNCHANGED <<session, log, calls, refused, abandoned, faults>>

\* record_turn: the session is loaded anew and the turn is appended first ...
LogTurn(p) ==
  /\ op[p].pc = "recording"
  /\ log' = Append(log, [workflow |-> op[p].workflow, reply |-> NoReply])
  /\ op' = [op EXCEPT ![p].pc = "counting", ![p].copy = session,
                      ![p].fresh = TRUE, ![p].turn = Len(log) + 1]
  /\ UNCHANGED <<session, calls, refused, abandoned, faults>>

\* Faulty: the turn is counted without comparing the revision.
CountTurnUnchecked(p) ==
  LET o == op[p] IN
  /\ o.pc = "counting"
  /\ session' = [active |-> o.copy.active, turns |-> o.copy.turns + 1,
                 task |-> IF o.workflow THEN o.turn ELSE o.copy.task]
  /\ Goto(p, IF o.workflow THEN "running" ELSE "chatting")
  /\ UNCHANGED <<log, calls, refused, abandoned, faults>>

\* ... and counted afterwards.
CountTurn(p) ==
  LET o == op[p] IN
  /\ o.pc = "counting"
  /\ SaveSession(p, o.copy.active, o.copy.turns + 1,
                 IF o.workflow THEN o.turn ELSE o.copy.task,
                 IF o.workflow THEN "running" ELSE "chatting")
  /\ UNCHANGED <<log, calls, refused, abandoned, faults>>

\* SessionConflictError while counting: submit raises, the turn stays in the
\* log without a count and without a response.
CountRefused(p) ==
  /\ op[p].pc = "counting"
  /\ ~op[p].fresh
  /\ Leave(p)
  /\ refused' = refused + 1
  /\ UNCHANGED <<session, log, calls, abandoned, faults>>

\* chat.respond answers or raises; either way the turn gets a response.
Chat(p, status) ==
  /\ op[p].pc = "chatting"
  /\ status \in {"chat_completed", "chat_failed"}
  /\ Reply(op[p].turn, status)
  /\ Leave(p)
  /\ UNCHANGED <<session, calls, refused, abandoned, faults>>

-----------------------------------------------------------------------------
(* The run of a workflow, seen from the session.                           *)

\* A tool call that passes the gate or asks leaves a new checkpoint.
CallTool(p, state) ==
  /\ op[p].pc = "running"
  /\ Len(calls) < MaxCalls
  /\ state \in FirstStates
  /\ calls' = Append(calls, [task |-> op[p].turn, state |-> state, rev |-> 1])
  /\ op' = [op EXCEPT ![p].pc = PlaceAfter(state), ![p].call = Len(calls) + 1,
                      ![p].rev = 1]
  /\ UNCHANGED <<session, log, refused, abandoned, faults>>

\* The handler returned and its result is saved.
HandlerDone(p) ==
  /\ op[p].pc = "handler"
  /\ calls[op[p].call].rev = op[p].rev
  /\ MoveCall(p, "completed")
  /\ UNCHANGED <<session, log, refused, abandoned, faults>>

\* The graph ended: _from_state without a runtime checkpoint.
Finish(p, status) ==
  /\ op[p].pc = "running"
  /\ status \in {"workflow_completed", "workflow_failed"}
  /\ op' = [op EXCEPT ![p].pc = "syncing", ![p].out = status]
  /\ UNCHANGED <<session, log, calls, refused, abandoned, faults>>

\* Faulty: submit answers only for the exceptions it knows, as a resume does.
RaiseUnanswered(p, ofModel) ==
  IF ofModel THEN op' = [op EXCEPT ![p].pc = "failing",
                           ![p].turn = IF op[p].resumed THEN op[p].copy.task ELSE @]
             ELSE Leave(p)

\* An exception out of the run.  submit answers every one; a resumed run only
\* those of the model or the context, for the last task of the copy.
Raise(p, ofModel) ==
  IF ~op[p].resumed THEN Goto(p, "failing")
  ELSE IF ofModel THEN op' = [op EXCEPT ![p].pc = "failing",
                                        ![p].turn = op[p].copy.task]
  ELSE Leave(p)

RunRaises(p, ofModel) ==
  /\ op[p].pc = "running"
  /\ Raise(p, ofModel)
  /\ UNCHANGED <<session, log, calls, refused, abandoned, faults>>

\* CheckpointConflictError at the save after the handler or at the retry.
CallConflict(p) ==
  /\ op[p].pc \in {"handler", "retrying"}
  /\ calls[op[p].call].rev # op[p].rev
  /\ Raise(p, FALSE)
  /\ UNCHANGED <<session, log, calls, refused, abandoned, faults>>

\* _execution_failed: a response, and the reference stays as it is.
AnswerFailure(p) ==
  /\ op[p].pc = "failing"
  /\ Reply(op[p].turn, "workflow_failed")
  /\ Leave(p)
  /\ UNCHANGED <<session, calls, refused, abandoned, faults>>

-----------------------------------------------------------------------------
(* After the run: the reference of the session, then the response.         *)

\* _from_checkpoint and _to_application.
StatusOf(state) ==
  CASE state \in {"executing", "pending"} -> "recovery_required"
    [] state \in PauseStates -> state
    [] state = "completed" -> "workflow_completed"
    [] state = "denied" -> "workflow_denied"

\* _from_state with a runtime checkpoint: the file is read again.
ReadPause(p) ==
  /\ op[p].pc = "paused"
  /\ op' = [op EXCEPT ![p].pc = "syncing",
                      ![p].out = StatusOf(calls[op[p].call].state),
                      ![p].turn = calls[op[p].call].task]
  /\ UNCHANGED <<session, log, calls, refused, abandoned, faults>>

\* Faulty: the pause is answered and the session does not refer to it.
LoadToBindSkipped(p) ==
  /\ op[p].pc = "syncing"
  /\ op[p].out \in PauseStates
  /\ Goto(p, "responding")
  /\ UNCHANGED <<session, log, calls, refused, abandoned, faults>>

\* bind_checkpoint.
LoadToBind(p) ==
  /\ op[p].pc = "syncing"
  /\ op[p].out \in PauseStates
  /\ LoadSession(p, "writing")
  /\ UNCHANGED <<session, log, calls, refused, abandoned, faults>>

\* Any other outcome: is there a reference to clear?
FindReference(p) ==
  /\ op[p].pc = "syncing"
  /\ op[p].out \notin PauseStates
  /\ Goto(p, IF session.active # 0 THEN "clearing" ELSE "responding")
  /\ UNCHANGED <<session, log, calls, refused, abandoned, faults>>

\* clear_checkpoint.
LoadToClear(p) ==
  /\ op[p].pc = "clearing"
  /\ LoadSession(p, "writing")
  /\ UNCHANGED <<session, log, calls, refused, abandoned, faults>>

WriteReference(p) ==
  LET o == op[p] IN
  /\ o.pc = "writing"
  /\ SaveSession(p, IF o.out \in PauseStates THEN o.call ELSE 0,
                 o.copy.turns, o.copy.task, "responding")
  /\ UNCHANGED <<log, calls, refused, abandoned, faults>>

\* SessionConflictError: the operation raises and the turn gets no response.
ReferenceRefused(p) ==
  /\ op[p].pc = "writing"
  /\ ~op[p].fresh
  /\ Leave(p)
  /\ UNCHANGED <<session, log, calls, refused, abandoned, faults>>

Respond(p) ==
  /\ op[p].pc = "responding"
  /\ Reply(op[p].turn, op[p].out)
  /\ Leave(p)
  /\ UNCHANGED <<session, calls, refused, abandoned, faults>>

-----------------------------------------------------------------------------
(* resume, recover and reconcile.                                          *)

\* _require_active.
Resume(p) ==
  /\ op[p].pc = "idle"
  /\ session.active # 0
  /\ op' = [op EXCEPT ![p] = [Idle EXCEPT !.pc = "settling", !.copy = session,
                                          !.fresh = TRUE,
                                          !.resumed = TRUE,
                                          !.call = session.active]]
  /\ UNCHANGED <<session, log, calls, refused, abandoned, faults>>

\* The operator's answer moves the call; executing is an interrupted handler.
Settle(p) ==
  LET from == calls[op[p].call].state IN
  /\ op[p].pc = "settling"
  /\ from # "pending"
  /\ \E to \in ExecutionState :
       /\ from = "executing" => to = "recovery_required"
       /\ MoveCall(p, to)
  /\ UNCHANGED <<session, log, refused, abandoned, faults>>

\* retry_confirmed_not_executed: ALLOW, ASK or DENY.
Retry(p) ==
  /\ op[p].pc = "retrying"
  /\ calls[op[p].call].rev = op[p].rev
  /\ \E to \in ExecutionState : MoveCall(p, to)
  /\ UNCHANGED <<session, log, refused, abandoned, faults>>

\* The answer is not one to this state: the run pauses again.
PauseAgain(p) ==
  /\ op[p].pc = "settling"
  /\ calls[op[p].call].state \in PauseStates
  /\ Goto(p, "paused")
  /\ UNCHANGED <<session, log, calls, refused, abandoned, faults>>

\* A settled call, or one left pending, cannot be resumed; an approval may be
\* refused by the policy, or because the request is another one.
ResumeRefused(p) ==
  /\ op[p].pc = "settling"
  /\ calls[op[p].call].state \in Terminal \cup {"pending", "awaiting_approval"}
  /\ Leave(p)
  /\ UNCHANGED <<session, log, calls, refused, abandoned, faults>>

\* A restart has tightened the tool budget of the run: AgentLoopStopped is raised
\* before the approval is recorded, CodeAgent.resume turns it into a stopped
\* result and the graph goes on, with the call awaiting approval forever.
GiveUpApproval(p) ==
  LET c == op[p].call IN
  /\ op[p].pc = "settling"
  /\ calls[c].state = "awaiting_approval"
  /\ faults < MaxFaults
  /\ faults' = faults + 1
  /\ abandoned' = abandoned \cup {c}
  /\ op' = [op EXCEPT ![p].pc = "running", ![p].turn = calls[c].task]
  /\ UNCHANGED <<session, log, calls, refused>>

-----------------------------------------------------------------------------
\* The process of the client ends, or a save of a checkpoint, of the session or
\* of the log fails: within submit's run an exception of a save is answered.
Fault(p) ==
  /\ op[p].pc # "idle"
  /\ faults < MaxFaults
  /\ faults' = faults + 1
  /\ \/ Leave(p)
     \/ op[p].pc \in {"running", "handler", "paused"} /\ Raise(p, FALSE)
  /\ UNCHANGED <<session, log, calls, refused, abandoned>>

Step(p) ==
  \/ \E workflow \in BOOLEAN : Route(p, workflow)
  \/ LogTurn(p) \/ CountTurn(p) \/ CountRefused(p)
  \/ \E status \in Replies : Chat(p, status) \/ Finish(p, status)
  \/ \E state \in FirstStates : CallTool(p, state)
  \/ HandlerDone(p) \/ CallConflict(p)
  \/ \E ofModel \in BOOLEAN : RunRaises(p, ofModel)
  \/ AnswerFailure(p)
  \/ ReadPause(p) \/ LoadToBind(p) \/ FindReference(p) \/ LoadToClear(p)
  \/ WriteReference(p) \/ ReferenceRefused(p) \/ Respond(p)
  \/ Settle(p) \/ Retry(p) \/ PauseAgain(p) \/ ResumeRefused(p)

Next == \E p \in Clients : 
  Submit(p) \/ Resume(p) \/ Step(p) \/ GiveUpApproval(p) \/ Fault(p)

Spec == Init /\ [][Next]_vars

\* A running operation goes on; whenever the session refers to a suspended
\* workflow, somebody resumes it again.
FairSpec ==
  /\ Spec
  /\ \A p \in Clients : WF_vars(Step(p)) /\ WF_vars(Resume(p))

-----------------------------------------------------------------------------
(* Properties.                                                             *)

\* Types; a client that runs or answers a turn names one that is logged.
TypeOK ==
  /\ session \in Session
  /\ log \in Seq(Turn) /\ Len(log) <= MaxTurns
  /\ calls \in Seq(CallFile) /\ Len(calls) <= MaxCalls
  /\ op \in [Clients -> Operation]
  /\ \A p \in Clients :
       op[p].pc \in {"counting", "chatting", "running", "syncing", "clearing",
                    "writing", "responding", "failing"} =>
         op[p].turn \in DOMAIN log
  /\ refused \in Nat /\ abandoned \subseteq DOMAIN calls /\ faults \in 0..MaxFaults

\* A turn in the log is missing from the count of the session only if the
\* store refused the count, a client is about to save it or was lost before:
\* no update of the session is overwritten by a stale one.
TurnsAreCounted ==
  LET counting == Cardinality({p \in Clients : op[p].pc = "counting"})
      missing == Len(log) - session.turns
  IN  missing \in (refused + counting)..(refused + counting + faults)

\* The checkpoint the session refers to exists and belongs to the last task, so
\* that a resumed run that fails answers the turn of its own task.  (One
\* operation at a time.)
ReferenceIsOfLastTask ==
  session.active # 0 =>
    /\ session.active \in DOMAIN calls
    /\ calls[session.active].task = session.task

InHand(c) == \E p \in Clients : op[p].pc # "idle" /\ op[p].call = c

\* A call that is not settled can be reached: a client has it in hand or the
\* session refers to it.  Every fault loses one at most.  (One operation at a
\* time.)
UnfinishedIsReferenced ==
  Cardinality({c \in DOMAIN calls :
                 /\ calls[c].state \notin Terminal
                 /\ c # session.active
                 /\ ~InHand(c)}) <= faults

\* Faults other than a tightened budget.
Losses == faults - Cardinality(abandoned)

\* Whoever submitted a turn gets a response, whatever the run raises, unless
\* there was a fault.  (One operation at a time.)
EveryTurnAnswered ==
  \A t \in 1..MaxTurns :
    t \in DOMAIN log ~> Losses > 0 \/ (t \in DOMAIN log /\ log[t].reply # NoReply)

\* workflow_adapter.py says of a session bound to a completed call that the
\* workflow can continue.
CompletedCanContinue ==
  \A c \in 1..MaxCalls :
    (session.active = c /\ calls[c].state = "completed") ~> session.active # c

=============================================================================
