----------------------------- MODULE TaskBoard -----------------------------
(***************************************************************************)
(* The task board: a function from the todos planned so far to what is     *)
(* known of them.  Every operation returns a new board; its guard is an    *)
(* operator of its own, since the code raises where it does not hold.      *)
(*                                                                         *)
(* A handoff, a result and a verification are named by numbers that are    *)
(* never used twice, 0 stands for none of them.                            *)
(***************************************************************************)
EXTENDS Requirements

Owners == {"research_agent", "code_agent"}
Actionable == {"pending", "failed"}
TodoStatus ==
  Actionable \cup {"in_progress", "awaiting_verification", "awaiting_review", "completed"}

\* A TodoItem as it is planned, when nothing has happened to it yet.
NewItem(spec) ==
  Merged(spec, [status |-> "pending", attempts |-> 0, handoff |-> 0, result |-> 0,
                verification |-> 0, review |-> {}])

DependenciesDone(board, t) == \A d \in board[t].deps : board[d].status = "completed"

CanStart(board, t) == board[t].status \in Actionable /\ DependenciesDone(board, t)

\* start_todo: a new attempt forgets what the last one left.
StartTodo(board, t, handoff) ==
  [board EXCEPT ![t].status = "in_progress", ![t].attempts = @ + 1, ![t].handoff = handoff,
                ![t].result = 0, ![t].verification = 0, ![t].review = {}]

CanRecordResult(board, t, handoff) ==
  board[t].status = "in_progress" /\ board[t].handoff = handoff

RecordResult(board, t, result) ==
  [board EXCEPT ![t].status = "awaiting_verification", ![t].result = result]

CanRecordVerification(board, t, handoff, result) ==
  /\ board[t].status = "awaiting_verification"
  /\ board[t].handoff = handoff /\ board[t].result = result

\* record_verification: whatever the report says, the supervisor decides.
RecordVerification(board, t, verification) ==
  [board EXCEPT ![t].verification = verification, ![t].status = "awaiting_review"]

CanRecordReview(board, review) ==
  LET item == board[review.todo]
  IN  /\ item.status = "awaiting_review"
      /\ item.result = review.result /\ item.handoff = review.handoff
      /\ item.verification = review.verification

\* record_review: one decision on one result.
RecordReview(board, review) ==
  [board EXCEPT
     ![review.todo].review = {review},
     ![review.todo].status = IF review.action \in Accepting THEN "completed" ELSE "failed"]

=============================================================================
