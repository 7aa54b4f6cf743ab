--------------------------- MODULE TerminalClient ---------------------------
(***************************************************************************)
(* The textual client, TikiTuiApp: a main thread that owns the view, one   *)
(* worker thread per operation that calls the controller, threads that     *)
(* scan the workspace, and the message queue through which the threads     *)
(* reach the main one, in the order they post.                             *)
(*                                                                         *)
(* The view is a projection.  It is changed by the events an operation     *)
(* emits, then by the operation's outcome, and it is what the operator     *)
(* answers from.  Sessions are on disk, shared with other clients: they    *)
(* may move between two operations of this one.                            *)
(*                                                                         *)
(* Of the controller only what it promises a client is here (module        *)
(* WorkflowSession has its steps).  An attempt at a call is named by a     *)
(* number, which stands for its execution_id and, when it asked, for the   *)
(* id of its approval request.  The prompt takes input exactly when no     *)
(* operation is in flight.  Text, layout and the feed are left out; of the *)
(* task board the verdicts stay.                                           *)
(***************************************************************************)
EXTENDS Naturals, Sequences, FiniteSets

CONSTANTS
  Sessions,       \* sessions on disk or to be created
  Todos,          \* todos of a plan
  NoSession,      \* no session
  MaxOperations,  \* bound: operations started
  MaxAttempts,    \* bound: attempts at calls, per session
  MaxRevised,     \* bound: todos of a run that are delivered twice
  MaxElsewhere,   \* bound: moves of other clients
  MaxMail         \* bound: messages the main thread is behind when one is posted

ASSUME TerminalConstants ==
  /\ NoSession \notin Sessions
  /\ MaxOperations \in Nat /\ MaxAttempts \in Nat /\ MaxRevised \in Nat
  /\ MaxElsewhere \in Nat /\ MaxMail \in Nat

VARIABLES
  store,       \* per session: what its record refers to on disk
  workers,     \* operations the controller is running
  scans,       \* sessions whose workspace is being scanned
  mail,        \* messages posted to the main thread
  view,        \* TuiViewState
  op,          \* operation_in_flight, 0 if none
  visible,     \* visible_approval
  modals,      \* the screens on top of the main one, the last one shown
  told,        \* history: the view was last set by what the checkpoint said and says
  started,     \* operations started so far
  elsewhere,   \* moves of other clients so far
  exited       \* the client was closed

vars == <<store, workers, scans, mail, view, op, visible, modals, told, started,
          elsewhere, exited>>

Paused == {"awaiting_approval", "recovery_required", "awaiting_reconcile"}
\* What a session refers to: nothing ("active") or a checkpoint in this state.
CallStates == {"awaiting_approval", "executing", "recovery_required",
               "awaiting_reconcile", "settled"}
Bound(s) == store[s].state \in CallStates

Verdicts == <<"stop", "request_changes", "accept_with_limitations", "accept">>
Actions == {Verdicts[i] : i \in 1..4}
Accepting == {"accept_with_limitations", "accept"}

\* An item of the board: no result yet, one with its report, one reviewed.  delivery
\* stands for the ids of the latest handoff, result and report, of for those in the review.
NoBoard == [t \in Todos |-> [state |-> "open", delivery |-> 0, of |-> 0]]

\* A review of another delivery than the latest is none.
Verdict(item) ==
  IF item.state \in Actions /\ item.of = item.delivery THEN item.state ELSE "none"

NoReviews == [t \in Todos |-> "none"]
Reviews(reviews) == {reviews[t] : t \in Todos} \cap Actions

\* Faulty: an accepted todo hides the limits of another.
ReviewSummaryBest(actions) ==
  Verdicts[CHOOSE i \in 1..4 : /\ Verdicts[i] \in actions
                               /\ \A j \in (i + 1)..4 : Verdicts[j] \notin actions]

\* The label for a set of verdicts: the worst one is shown.
ReviewSummary(actions) ==
  Verdicts[CHOOSE i \in 1..4 : /\ Verdicts[i] \in actions
                               /\ \A j \in 1..(i - 1) : Verdicts[j] \notin actions]

Label(actions, otherwise) == IF actions = {} THEN otherwise ELSE ReviewSummary(actions)

NoFile == [state |-> "absent", rev |-> 0, attempt |-> 0, asked |-> FALSE, board |-> NoBoard]

NewView ==
  [session |-> NoSession, status |-> "starting", rev |-> 0, request |-> 0, details |-> 0,
   execution |-> 0, todos |-> << >>, reviews |-> NoReviews, label |-> "-",
   entries |-> NoSession]

NoPrompt == [session |-> NoSession, rev |-> 0, request |-> 0, details |-> 0]
CanApprove(prompt) == prompt.details # 0 /\ prompt.details = prompt.request

-----------------------------------------------------------------------------
(* The projection: TuiEventAdapter.                                        *)

\* Statuses of the events that change no more than the status.
EventStatus ==
  [session_started |-> "active", intent_routed |-> "routed", workflow_started |-> "running",
   workflow_resumed |-> "running", agent_started |-> "running", approval_decided |-> "running",
   reconciliation_completed |-> "running", tool_execution_started |-> "executing",
   workflow_denied |-> "workflow_denied", workflow_failed |-> "workflow_failed",
   workflow_completed |-> "workflow_completed", final_chat |-> "chat_completed",
   final_failed |-> "workflow_failed", final_completed |-> "workflow_completed"]

Event(s, kind) == [type |-> "event", session |-> s, kind |-> kind]
CallEvent(s, kind, rev, attempt) ==
  [type |-> "event", session |-> s, kind |-> kind, rev |-> rev, attempt |-> attempt]
BoardEvent(s, board) ==
  [type |-> "event", session |-> s, kind |-> "task_board_updated", board |-> board]
VerificationEvent(s, t, delivery, outcome) ==
  [type |-> "event", session |-> s, kind |-> "verification_completed", todo |-> t,
   delivery |-> delivery, outcome |-> outcome]
ReviewEvent(s, t, delivery, action) ==
  [type |-> "event", session |-> s, kind |-> "result_reviewed", todo |-> t,
   delivery |-> delivery, action |-> action]

\* The event is about another delivery than the list of todos shows.
Outdated(w, e) == e.todo \in DOMAIN w.todos /\ w.todos[e.todo] # e.delivery

\* The label when a report has come in.  In the application every report is advisory
\* (workflow.py:597): none passes or fails by itself.
LabelOfReport(w, outcome) ==
  IF outcome \in {"PASS", "FAIL"} THEN outcome ELSE Label(Reviews(w.reviews), outcome)

EventUpdates(w, e) ==
  CASE e.kind = "turn_received" ->
         [w EXCEPT !.status = "routing", !.label = "-", !.todos = << >>, !.reviews = NoReviews]
    [] e.kind = "task_board_updated" ->
         LET reviews == [t \in Todos |-> Verdict(e.board[t])] IN
         [w EXCEPT !.todos = [t \in Todos |-> e.board[t].delivery], !.reviews = reviews,
                   !.label = Label(Reviews(reviews), "pending")]
    [] e.kind = "verification_completed" ->
         IF Outdated(w, e) THEN w ELSE [w EXCEPT !.label = LabelOfReport(w, e.outcome)]
    [] e.kind = "result_reviewed" ->
         LET reviews == [w.reviews EXCEPT ![e.todo] = e.action] IN
         IF Outdated(w, e) THEN w
         ELSE [w EXCEPT !.reviews = reviews, !.label = ReviewSummary(Reviews(reviews))]
    [] e.kind = "approval_required" ->
         [w EXCEPT !.status = "awaiting_approval", !.rev = e.rev, !.request = e.attempt,
                   !.details = 0, !.execution = e.attempt]
    [] e.kind = "recovery_required" ->
         [w EXCEPT !.status = "recovery_required", !.rev = e.rev, !.execution = e.attempt]
    [] OTHER -> [w EXCEPT !.status = EventStatus[e.kind]]

Reduce(v, e) == EventUpdates([v EXCEPT !.session = e.session], e)

\* Faulty: a field the outcome does not give keeps what the view had.
ApplyOutcomeKeeping(v, out) ==
  [v EXCEPT !.session = out.session, !.status = out.status, !.rev = out.rev,
            !.request = IF out.request # 0 THEN out.request ELSE @,
            !.details = out.details, !.execution = out.execution]

ApplyOutcome(v, out) ==
  [v EXCEPT !.session = out.session, !.status = out.status, !.rev = out.rev,
            !.request = out.request, !.details = out.details, !.execution = out.execution]

\* What an outcome says of a session: TikiWorkflowAdapter._from_checkpoint and
\* ApplicationController.status.
OutcomeStatus(file) ==
  CASE file.state = "executing" -> "recovery_required"
    [] file.state = "settled" -> "workflow_completed"
    [] OTHER -> file.state

OutcomeOf(s, file) ==
  LET request == IF file.asked THEN file.attempt ELSE 0 IN
  [session |-> s, status |-> OutcomeStatus(file), rev |-> file.rev, request |-> request,
   details |-> IF file.state = "awaiting_approval" THEN request ELSE 0,
   execution |-> IF file.state = "active" THEN 0 ELSE file.attempt]

\* An outcome without a checkpoint.
Plain(s, status) ==
  [session |-> s, status |-> status, rev |-> 0, request |-> 0, details |-> 0, execution |-> 0]

-----------------------------------------------------------------------------
Init ==
  /\ store \in [Sessions -> {NoFile, [NoFile EXCEPT !.state = "awaiting_approval", !.rev = 1,
                                                    !.attempt = 1, !.asked = TRUE]}]
  /\ workers = {}
  /\ scans = {}
  /\ mail = <<>>
  /\ view = NewView
  /\ op = 0
  /\ visible = NoPrompt
  /\ modals = <<>>
  /\ told = FALSE
  /\ started = 0
  /\ elsewhere = 0
  /\ exited = FALSE

-----------------------------------------------------------------------------
(* The main thread: operations.                                            *)

Operation(kind, s, rev, attempt, yes) ==
  [id |-> started + 1, kind |-> kind, session |-> s, rev |-> rev, attempt |-> attempt,
   yes |-> yes, pc |-> "called"]

\* Faulty: an operation starts beside the one in flight.
StartOperationBeside(kind, s, rev, attempt, yes) ==
  /\ started < MaxOperations
  /\ started' = started + 1
  /\ op' = started + 1
  /\ workers' = workers \cup {Operation(kind, s, rev, attempt, yes)}
  /\ IF kind \in {"new", "attach"}
     THEN view' = NewView /\ visible' = NoPrompt /\ told' = FALSE
     ELSE UNCHANGED <<view, visible, told>>

\* Refused while another operation is in flight; a new session and an attach
\* reset the view.
StartOperation(kind, s, rev, attempt, yes) ==
  /\ op = 0
  /\ started < MaxOperations
  /\ started' = started + 1
  /\ op' = started + 1
  /\ workers' = workers \cup {Operation(kind, s, rev, attempt, yes)}
  /\ IF kind \in {"new", "attach"}
     THEN view' = NewView /\ visible' = NoPrompt /\ told' = FALSE
     ELSE UNCHANGED <<view, visible, told>>

Untouched == UNCHANGED <<store, scans, mail, elsewhere, exited>>

\* ctrl+n reaches the application unless a modal screen is on top.
NewSession(s) ==
  /\ modals = <<>>
  /\ store[s].state = "absent"
  /\ StartOperation("new", s, 0, 0, FALSE)
  /\ Untouched /\ UNCHANGED modals

\* /session, with an id that may name none; also how the client is opened.
Attach(s) ==
  /\ modals = <<>> /\ op = 0
  /\ StartOperation("attach", s, 0, 0, FALSE)
  /\ Untouched /\ UNCHANGED modals

Status ==
  /\ modals = <<>> /\ op = 0
  /\ view.session # NoSession
  /\ StartOperation("status", view.session, 0, 0, FALSE)
  /\ Untouched /\ UNCHANGED modals

\* on_input_submitted: a text is refused in a paused view.
Submit ==
  /\ modals = <<>> /\ op = 0
  /\ view.session # NoSession
  /\ view.status \notin Paused
  /\ StartOperation("submit", view.session, 0, 0, FALSE)
  /\ Untouched /\ UNCHANGED modals

-----------------------------------------------------------------------------
(* The main thread: modal screens.                                         *)

Top == IF modals = <<>> THEN "none" ELSE modals[Len(modals)].screen
\* An approval screen shows the prompt it was made with.
Screen(kind) ==
  [screen |-> kind, prompt |-> IF kind = "approval" THEN visible' ELSE NoPrompt]
Push(kind) == IF Top = kind THEN modals ELSE Append(modals, Screen(kind))
Dismissed == SubSeq(modals, 1, Len(modals) - 1)

\* Faulty: the approval is opened while an operation is in flight.
ShowApprovalAnyTime ==
  /\ modals = <<>> /\ visible # NoPrompt
  /\ visible' = visible
  /\ modals' = Push("approval")
  /\ Untouched /\ UNCHANGED <<workers, view, op, told, started>>

ShowApproval ==
  /\ modals = <<>> /\ visible # NoPrompt /\ op = 0
  /\ visible' = visible
  /\ modals' = Push("approval")
  /\ Untouched /\ UNCHANGED <<workers, view, op, told, started>>

ShowRecovery ==
  /\ modals = <<>> /\ view.status = "recovery_required" /\ op = 0
  /\ modals' = Append(modals, [screen |-> "recovery", prompt |-> NoPrompt])
  /\ Untouched /\ UNCHANGED <<workers, view, op, visible, told, started>>

\* A screen is left without an answer, or the answer is dropped because an
\* operation is in flight or the view lacks what the answer needs.
Later ==
  /\ modals # <<>>
  /\ modals' = Dismissed
  /\ Untouched /\ UNCHANGED <<workers, view, op, visible, told, started>>

\* _approval_decided sends what visible_approval says.
ApprovalDecided(approved) ==
  /\ Top = "approval" /\ visible # NoPrompt
  /\ approved => CanApprove(visible)
  /\ modals' = Dismissed
  /\ StartOperation("resume", visible.session, visible.rev, visible.request, approved)
  /\ Untouched

\* What recover and reconcile send is read from the view.
Known == view.session # NoSession /\ view.rev # 0 /\ view.execution # 0

RecoveryDecided(executed) ==
  /\ Top = "recovery" /\ Known
  /\ modals' = Dismissed
  /\ StartOperation("recover", view.session, view.rev, view.execution, executed)
  /\ Untouched

ReconcileSubmitted ==
  /\ Top = "awaiting_reconcile" /\ Known
  /\ modals' = Dismissed
  /\ StartOperation("reconcile", view.session, view.rev, view.execution, TRUE)
  /\ Untouched

\* Closing is confirmed while something runs, or seems to.
Active == op # 0 \/ view.status \in {"running", "executing"}

Quit ==
  /\ modals = <<>>
  /\ IF Active
     THEN modals' = <<[screen |-> "quit", prompt |-> NoPrompt]>> /\ UNCHANGED exited
     ELSE exited' = TRUE /\ UNCHANGED modals
  /\ UNCHANGED <<store, workers, scans, mail, view, op, visible, told, started, elsewhere>>

QuitConfirmed ==
  /\ Top = "quit"
  /\ exited' = TRUE
  /\ UNCHANGED <<store, workers, scans, mail, view, op, visible, modals, told, started,
                 elsewhere>>

-----------------------------------------------------------------------------
(* The main thread: messages.                                              *)

Receive(type) ==
  /\ mail # <<>> /\ Head(mail).type = type
  /\ mail' = Tail(mail)
  /\ UNCHANGED <<store, workers, started, elsewhere, exited>>

OnEvent ==
  /\ Receive("event")
  /\ view' = Reduce(view, Head(mail))
  /\ told' = FALSE
  /\ UNCHANGED <<scans, op, visible, modals>>

\* _route_outcome_modal, after the outcome was applied to the view.
RouteOutcomeModal(status) ==
  IF status = "awaiting_approval"
  THEN /\ visible' = [session |-> view'.session, rev |-> view'.rev,
                      request |-> view'.request, details |-> view'.details]
       /\ modals' = Push("approval")
  ELSE IF status = "recovery_required"
  THEN UNCHANGED visible /\ modals' = Push("recovery")
  ELSE IF status = "awaiting_reconcile"
  THEN UNCHANGED visible /\ modals' = Push("awaiting_reconcile")
  ELSE visible' = NoPrompt /\ UNCHANGED modals

\* The result of an operation that is not in flight is ignored.
OnFinished ==
  /\ Receive("finished")
  /\ IF Head(mail).id # op
     THEN UNCHANGED <<scans, view, op, visible, modals, told>>
     ELSE LET out == Head(mail).outcome IN
          /\ op' = 0
          /\ view' = ApplyOutcome(view, out)
          /\ told' = (/\ Head(mail).seen = elsewhere
                      /\ out.status \notin {"chat_completed", "chat_failed"})
          /\ scans' = scans \cup {out.session}
          /\ RouteOutcomeModal(out.status)

\* Faulty: a failure is shown and the operation stays in flight.
OnFailedShown ==
  /\ Receive("failed")
  /\ told' = FALSE
  /\ UNCHANGED <<scans, view, op, visible, modals>>

\* A failure leaves the view as the events left it.
OnFailed ==
  /\ Receive("failed")
  /\ op' = IF Head(mail).id = op THEN 0 ELSE op
  /\ told' = FALSE
  /\ UNCHANGED <<scans, view, visible, modals>>

OnSnapshot ==
  /\ Receive("snapshot")
  /\ IF Head(mail).session = view.session
     THEN view' = [view EXCEPT !.entries = Head(mail).session]
     ELSE UNCHANGED view
  /\ UNCHANGED <<scans, op, visible, modals, told>>

\* F5, /workspace.
RefreshWorkspace ==
  /\ modals = <<>> /\ view.session # NoSession
  /\ scans' = scans \cup {view.session}
  /\ UNCHANGED <<store, workers, mail, view, op, visible, modals, told, started, elsewhere,
                 exited>>

Post(msgs) ==
  /\ Len(mail) <= MaxMail
  /\ mail' = mail \o msgs

\* A scan ends; a newer one of the group cancels it or not.
ScanWorkspace(s) ==
  /\ s \in scans
  /\ scans' = scans \ {s}
  /\ Post(<<[type |-> "snapshot", session |-> s]>>)
  /\ UNCHANGED <<store, workers, view, op, visible, modals, told, started, elsewhere, exited>>

MainThread ==
  \/ OnEvent \/ OnFinished \/ OnFailed \/ OnSnapshot

Operator ==
  \/ \E s \in Sessions : NewSession(s) \/ Attach(s)
  \/ Status \/ Submit \/ ShowApproval \/ ShowRecovery \/ Later
  \/ \E yes \in BOOLEAN : ApprovalDecided(yes) \/ RecoveryDecided(yes)
  \/ ReconcileSubmitted \/ RefreshWorkspace \/ Quit \/ QuitConfirmed

-----------------------------------------------------------------------------
(* A worker: run_controller calls the backend and posts what comes of it.  *)

WorkerOnly == UNCHANGED <<scans, view, op, visible, modals, started, elsewhere, exited>>
Keep == UNCHANGED <<store, told>>
\* What the view was told of a session holds no longer.
Move(s, file) == store' = [store EXCEPT ![s] = file] /\ told' = FALSE

Fail(w, events) ==
  /\ workers' = workers \ {w}
  /\ Post(events \o <<[type |-> "failed", id |-> w.id]>>)

\* The backend returned; the session is read once more, and when that fails the outcome
\* is lost, whatever it has done.
Finish(w, events, out) ==
  \/ /\ workers' = workers \ {w}
     /\ Post(events \o <<[type |-> "finished", id |-> w.id, outcome |-> out,
                          seen |-> elsewhere]>>)
  \/ Fail(w, events)

Goto(w, pc) == workers' = (workers \ {w}) \cup {[w EXCEPT !.pc = pc]}

Called(w, kind) == w \in workers /\ w.pc = "called" /\ w.kind = kind

BackendNew(w) ==
  /\ Called(w, "new")
  /\ Move(w.session, [NoFile EXCEPT !.state = "active"])
  /\ Finish(w, <<Event(w.session, "session_started")>>, Plain(w.session, "session_created"))
  /\ WorkerOnly

BackendStatus(w) ==
  /\ Called(w, "status") \/ Called(w, "attach")
  /\ IF store[w.session].state = "absent" THEN Fail(w, <<>>)
     ELSE Finish(w, <<>>, OutcomeOf(w.session, store[w.session]))
  /\ Keep /\ WorkerOnly

\* A question is answered; the answer may fail.
BackendChat(w) ==
  /\ Called(w, "submit")
  /\ \E answer \in {"chat_completed", "chat_failed"} :
       Finish(w, <<Event(w.session, "turn_received"), Event(w.session, "intent_routed"),
                   Event(w.session, "final_chat")>>, Plain(w.session, answer))
  /\ Keep /\ WorkerOnly

\* A task is refused while the session refers to a checkpoint.
BackendWorkflow(w) ==
  /\ Called(w, "submit")
  /\ IF Bound(w.session)
     THEN Fail(w, <<>>) /\ UNCHANGED store
     ELSE /\ Goto(w, "running")
          /\ store' = [store EXCEPT ![w.session].board = NoBoard]
          /\ Post(<<Event(w.session, "turn_received"), Event(w.session, "workflow_started")>>)
  /\ UNCHANGED told /\ WorkerOnly

\* The checkpoint is not what was asked for, or has moved since: the graph is
\* entered only for the second and its refusal is an event.
Refuse(w, known) ==
  /\ IF known
     THEN Fail(w, <<Event(w.session, "workflow_resumed"), Event(w.session, "workflow_failed")>>)
     ELSE Fail(w, <<>>)
  /\ Keep

Resumed(w) == <<Event(w.session, "workflow_resumed"),
                BoardEvent(w.session, store[w.session].board)>>

\* The approval that is asked for is decided: the call runs, or is denied and
\* the run goes on.
BackendResume(w) ==
  LET file == store[w.session]
      known == Bound(w.session) /\ file.asked /\ file.attempt = w.attempt IN
  /\ Called(w, "resume")
  /\ IF known /\ file.rev = w.rev /\ file.state = "awaiting_approval"
     THEN /\ Move(w.session, [file EXCEPT !.rev = @ + 1,
                                          !.state = IF w.yes THEN "executing" ELSE "settled"])
          /\ Goto(w, IF w.yes THEN "handler" ELSE "running")
          /\ Post(Resumed(w) \o <<Event(w.session, "approval_decided")>>
                    \o (IF w.yes THEN <<Event(w.session, "tool_execution_started")>> ELSE <<>>))
     ELSE Refuse(w, known)
  /\ WorkerOnly

\* An interrupted call: settled by hand, or tried again, which may ask again.
BackendRecover(w) ==
  LET file == store[w.session]
      known == Bound(w.session) /\ file.attempt = w.attempt
      found == Resumed(w) \o (IF file.state = "executing"
                              THEN <<CallEvent(w.session, "recovery_required", file.rev + 1,
                                               file.attempt)>> ELSE <<>>)
      noted == [file EXCEPT !.rev = @ + (IF file.state = "executing" THEN 2 ELSE 1)] IN
  /\ Called(w, "recover")
  /\ IF ~(known /\ file.rev = w.rev /\ file.state \in {"executing", "recovery_required"})
     THEN Refuse(w, known)
     ELSE LET again == [noted EXCEPT !.attempt = @ + 1, !.rev = @ + 1] IN
          \/ /\ w.yes
             /\ LET file2 == [noted EXCEPT !.state = "awaiting_reconcile"] IN
                Move(w.session, file2) /\ Finish(w, found, OutcomeOf(w.session, file2))
          \/ /\ ~w.yes /\ file.attempt < MaxAttempts
             /\ LET file2 == [again EXCEPT !.state = "awaiting_approval", !.asked = TRUE] IN
                /\ Move(w.session, file2)
                /\ Finish(w, found \o <<CallEvent(w.session, "approval_required", file2.rev,
                                                       file2.attempt)>>,
                          OutcomeOf(w.session, file2))
          \/ /\ ~w.yes /\ file.attempt < MaxAttempts
             /\ Move(w.session, [again EXCEPT !.state = "executing", !.asked = FALSE])
             /\ Goto(w, "handler")
             /\ Post(found \o <<Event(w.session, "tool_execution_started")>>)
  /\ WorkerOnly

BackendReconcile(w) ==
  LET file == store[w.session]
      known == Bound(w.session) /\ file.attempt = w.attempt IN
  /\ Called(w, "reconcile")
  /\ IF known /\ file.rev = w.rev /\ file.state = "awaiting_reconcile"
     THEN /\ Move(w.session, [file EXCEPT !.state = "settled", !.rev = @ + 1])
          /\ Goto(w, "running")
          /\ Post(Resumed(w) \o <<Event(w.session, "reconciliation_completed")>>)
     ELSE Refuse(w, known)
  /\ WorkerOnly

\* The session refers to nothing; what it referred to is not reached any more.
Released(file) == [NoFile EXCEPT !.state = "active", !.attempt = file.attempt]

Running(w) == w \in workers /\ w.pc = "running"
\* A review that stops is the last step of its run.
Continues(w) == Running(w) /\ \A t \in Todos : store[w.session].board[t].state # "stop"
SetBoard(w, t, item) == [store[w.session].board EXCEPT ![t] = item]
Note(w, board, events) ==
  /\ store' = [store EXCEPT ![w.session].board = board]
  /\ Post(events)
  /\ UNCHANGED <<workers, told>> /\ WorkerOnly

\* A todo is attempted, which clears its review, delivered and checked, with whatever
\* outcome; no todo is attempted a third time.
RunDelivers(w, t) ==
  LET item == store[w.session].board[t]
      board == SetBoard(w, t, [state |-> "checked", delivery |-> item.delivery + 1, of |-> 0]) IN
  /\ Continues(w) /\ item.state \in {"open", "request_changes"} /\ item.delivery < 2
  /\ item.delivery = 1 =>
       Cardinality({u \in Todos : store[w.session].board[u].delivery = 2}) < MaxRevised
  /\ Note(w, board, <<BoardEvent(w.session, board),
                      VerificationEvent(w.session, t, item.delivery + 1, "checked")>>)

\* Only the latest delivery is reviewed.
RunReviews(w, t, action) ==
  LET item == store[w.session].board[t]
      board == SetBoard(w, t, [item EXCEPT !.state = action, !.of = item.delivery]) IN
  /\ Continues(w) /\ item.state = "checked"
  /\ Note(w, board, <<ReviewEvent(w.session, t, item.delivery, action),
                      BoardEvent(w.session, board)>>)

\* A call of the run asks: its checkpoint is bound to the session.
RunAsks(w) ==
  LET file == store[w.session]
      file2 == [file EXCEPT !.state = "awaiting_approval", !.rev = 1, !.attempt = @ + 1,
                            !.asked = TRUE] IN
  /\ Continues(w) /\ file.attempt < MaxAttempts
  /\ Move(w.session, file2)
  /\ Finish(w, <<CallEvent(w.session, "approval_required", 1, file2.attempt)>>,
            OutcomeOf(w.session, file2))
  /\ WorkerOnly

\* The run ends, by finish_task or stopped, and nothing is bound any more.
RunEnds(w) ==
  /\ Running(w)
  /\ Move(w.session, Released(store[w.session]))
  /\ IF \A t \in Todos : store[w.session].board[t].state \in Accepting
     THEN Finish(w, <<Event(w.session, "workflow_completed"), Event(w.session, "final_completed")>>,
                 Plain(w.session, "workflow_completed"))
     ELSE Finish(w, <<Event(w.session, "final_failed")>>, Plain(w.session, "workflow_failed"))
  /\ WorkerOnly

HandlerEnds(w) ==
  /\ w \in workers /\ w.pc = "handler"
  /\ Move(w.session, [store[w.session] EXCEPT !.state = "settled", !.rev = @ + 1])
  /\ Goto(w, "running")
  /\ UNCHANGED mail /\ WorkerOnly

\* An exception ends the run; what is bound stays.  The controller answers for
\* a new task and for a model that failed a resumed one.
RunBreaks(w) ==
  /\ w \in workers /\ w.pc \in {"running", "handler"}
  /\ \/ /\ w.pc = "running"
        /\ Finish(w, <<Event(w.session, "workflow_failed"), Event(w.session, "final_failed")>>,
                  Plain(w.session, "workflow_failed"))
     \/ /\ w.kind # "submit"
        /\ Fail(w, <<Event(w.session, "workflow_failed")>>)
  /\ store' = IF Bound(w.session) THEN store
              ELSE [store EXCEPT ![w.session] = Released(store[w.session])]
  /\ UNCHANGED told /\ WorkerOnly

Backend ==
  \E w \in workers :
    \/ BackendNew(w) \/ BackendStatus(w) \/ BackendChat(w) \/ BackendWorkflow(w)
    \/ BackendResume(w) \/ BackendRecover(w) \/ BackendReconcile(w)
    \/ \E t \in Todos : \/ RunDelivers(w, t)
                        \/ \E action \in Actions : RunReviews(w, t, action)
    \/ RunAsks(w) \/ RunEnds(w) \/ HandlerEnds(w) \/ RunBreaks(w)

\* Another client takes the session on: its call is interrupted, asks again, or
\* is settled and the workflow ends.
Elsewhere(s) ==
  LET file == store[s] IN
  /\ Bound(s) /\ \A w \in workers : w.session # s
  /\ elsewhere < MaxElsewhere
  /\ elsewhere' = elsewhere + 1
  /\ \/ file.state = "awaiting_approval"
        /\ Move(s, [file EXCEPT !.state = "executing", !.rev = @ + 1])
     \/ Move(s, Released(file))
     \/ /\ file.attempt < MaxAttempts
        /\ Move(s, [file EXCEPT !.state = "awaiting_approval", !.rev = 1, !.attempt = @ + 1,
                                !.asked = TRUE])
  /\ UNCHANGED <<workers, scans, mail, view, op, visible, modals, started, exited>>

Next ==
  /\ ~exited
  /\ \/ Operator \/ MainThread \/ Backend
     \/ \E s \in Sessions : ScanWorkspace(s) \/ Elsewhere(s)

Spec == Init /\ [][Next]_vars

-----------------------------------------------------------------------------
(* Properties.                                                             *)

\* An approval on screen is the one its buttons would send: visible_approval is
\* replaced and cleared by operations that run beside the screens (app.py,
\* _approval_decided reads it, not the prompt of the screen).
WhatIsShownIsSent ==
  \A i \in DOMAIN modals : modals[i].screen = "approval" => modals[i].prompt = visible

\* Nothing of another session reaches the view: neither an event or a result of
\* an operation the operator has left behind, nor a snapshot of its workspace.
ViewIsOfOneSession ==
  /\ view.entries # NoSession => view.entries = view.session
  /\ view.session # NoSession =>
       \A i \in DOMAIN mail : mail[i].type = "event" => mail[i].session = view.session

\* After an outcome, and until something moves, the view agrees with the
\* checkpoint on every decision that is due, and offers it.
DueDecisionIsShown ==
  LET file == store[view.session]
      out == OutcomeOf(view.session, file) IN
  told /\ op = 0 /\ Paused \cap {view.status, out.status} # {} =>
    /\ \A field \in DOMAIN out : view[field] = out[field]
    /\ out.status = "awaiting_approval" =>
         \A field \in DOMAIN visible : visible[field] = out[field]

\* The verdict on top is never better than one on the board it was shown with:
\* the last success does not hide a limit upstream (adapter.py, _review_summary).
VerdictCoversBoard ==
  view.label \in Actions =>
    \A action \in Reviews(view.reviews) :
      \E i, j \in 1..4 : i <= j /\ Verdicts[i] = view.label /\ Verdicts[j] = action

\* Whatever becomes of an operation in flight, an answer to it is on its way, so
\* that the client takes input again.
InFlightIsAnswered ==
  op # 0 => \/ \E w \in workers : w.id = op
            \/ \E i \in DOMAIN mail : mail[i].type \in {"finished", "failed"} /\ mail[i].id = op

=============================================================================
