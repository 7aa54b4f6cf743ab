------------------------ MODULE CoordinatorInvariant ------------------------
(***************************************************************************)
(* The inductive invariant of ExecutionCoordinator, in the parts its proof *)
(* goes through one after the other.  A part is stated of one file c or of *)
(* one driver record r, so that a step has to look only at the record it   *)
(* changes.                                                                *)
(***************************************************************************)
EXTENDS ExecutionCoordinator

Working == {"loaded", "denying", "retrying", "handler", "ran"}
Running == {"handler", "ran"}

\* What the file can look like.
FileShape(c) ==
  /\ c.rev = 0 => c = Absent
  /\ c.rev > 0 => c.attempt > 0 /\ c.state # "absent"
  /\ c.request \in {0, c.attempt}
  /\ c.approval = "awaiting" <=> c.state = "awaiting_approval"
  /\ c.approval = "rejected" => c.state = "denied"
  /\ c.state = "pending" => c.approval = "not_required"

\* A driver's copy is the file itself or has an older revision.  This is what
\* the compare-and-swap on the revision buys.
CopyFits(r, c) ==
  r.pc \in Working =>
    /\ r.base.rev \in 1..c.rev
    /\ r.base.rev = c.rev => r.base = c

\* What a driver has in hand at each of its places.
InHand(r) ==
  /\ r.pc = "called" => r.exp > 0
  /\ r.pc \in Working => r.base.attempt > 0
  /\ r.pc \in Running => r.base.state = "executing"
  /\ r.pc = "denying" => r.base.state = "awaiting_approval"
  /\ r.pc = "retrying" => r.base.state = "pending"
  /\ r.pc = "loaded" => r.base.state \notin Terminal
  /\ r.pc \in Working /\ r.base.state = "awaiting_approval" =>
       r.base.request = r.base.attempt

Basic ==
  /\ TypeOK
  /\ FileShape(ckpt)
  /\ \A d \in Drivers : CopyFits(drv[d], ckpt) /\ InHand(drv[d])

\* No two drivers are in the handler for one attempt, the attempt they are in
\* is on record, and its start is counted exactly while they are past it.
Runners ==
  /\ \A d \in Drivers : drv[d].pc \in Running =>
       /\ Committed(drv[d].base.attempt)
       /\ starts[drv[d].base.attempt] = IF drv[d].pc = "ran" THEN 1 ELSE 0
  /\ \A d, e \in Drivers :
       /\ drv[d].pc \in Running
       /\ drv[e].pc \in Running
       /\ drv[d].base.attempt = drv[e].base.attempt
       => d = e

Safe ==
  /\ OneStartPerAttempt
  /\ StartIsOnRecord
  /\ Runners

\* The answer a driver carries is one to the state it names.
AnswerFits(r, c, given) ==
  /\ r.pc = "called" =>
       /\ r.exp <= c.rev
       /\ r.exp = c.rev =>
            r.answer.id = IF r.answer.kind \in Approvals
                            THEN c.request ELSE c.attempt
  /\ r.pc = "loaded" /\ Addresses(r.answer.kind, r.base.state) =>
       /\ r.answer \in given
       /\ r.answer.kind \notin Approvals => r.answer.id = r.base.attempt
  /\ r.pc = "denying" => [kind |-> "reject", id |-> r.base.attempt] \in given

\* An uncertain attempt under reconciliation was declared executed.
ReconcileIsDeclared ==
  ckpt.state = "awaiting_reconcile" =>
    [kind |-> "confirmed_executed", id |-> ckpt.attempt] \in answers

Answered ==
  /\ \A d \in Drivers : AnswerFits(drv[d], ckpt, answers)
  /\ ReconcileIsDeclared
  /\ ReplayNeedsAnOperator
  /\ ResultIsGenuine
  /\ ApprovalIsOfThisAttempt

\* Everything together is kept by every step.
IInv == Basic /\ Safe /\ Answered

\* With one driver, its copy is the file; only the last attempt can have started, and not
\* even that one while the operator's word that it has not is being acted upon.
Alone ==
  /\ \A d \in Drivers :
       /\ drv[d].pc \in Working => drv[d].base = ckpt
       /\ /\ drv[d].pc \in {"called", "loaded"}
          /\ drv[d].answer.kind = "confirmed_not_executed"
          => starts[ckpt.attempt] = 0
  /\ \A a \in Attempts : a < ckpt.attempt => starts[a] = 0

=============================================================================
