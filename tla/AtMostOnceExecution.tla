------------------------- MODULE AtMostOnceExecution -------------------------
(***************************************************************************)
(* What the harness promises for one tool call, without files, drivers,    *)
(* revisions or gates.  An attempt is committed before it may be launched, *)
(* is launched at most once, and a further attempt exists only after       *)
(* somebody has vouched that the previous one never ran.                   *)
(***************************************************************************)
EXTENDS Naturals

CONSTANT MaxAttempts  \* bound: execution attempts of the call

VARIABLES
  phase,     \* how far the call has come
  attempt,   \* the current attempt, 0 before the first
  launches   \* launches of every attempt

avars == <<phase, attempt, launches>>

Phases == {"none", "open", "committed", "unknown", "closed"}

AInit ==
  /\ phase = "none"
  /\ attempt = 0
  /\ launches = [a \in 1..MaxAttempts |-> 0]

\* The call is recorded: it waits for an approval or is committed at once.
Propose ==
  /\ phase = "none"
  /\ phase' \in {"open", "committed"}
  /\ attempt' = 1
  /\ UNCHANGED launches

\* The durable promise that the handler is about to run.
Commit ==
  /\ phase = "open"
  /\ phase' = "committed"
  /\ UNCHANGED <<attempt, launches>>

\* The side effect of a committed attempt, once, however late.
Launch(a) ==
  /\ a < attempt \/ (a = attempt /\ phase \in {"committed", "unknown", "closed"})
  /\ launches[a] = 0
  /\ launches' = [launches EXCEPT ![a] = 1]
  /\ UNCHANGED <<phase, attempt>>

\* The result of a launched attempt is recorded.
Settle ==
  /\ phase = "committed"
  /\ launches[attempt] = 1
  /\ phase' = "closed"
  /\ UNCHANGED <<attempt, launches>>

\* Nobody knows whether the committed attempt ran.
Suspect ==
  /\ phase = "committed"
  /\ phase' = "unknown"
  /\ UNCHANGED <<attempt, launches>>

\* Somebody vouches that it did not: a new attempt is open.
Disclaim ==
  /\ phase = "unknown"
  /\ attempt < MaxAttempts
  /\ phase' = "open"
  /\ attempt' = attempt + 1
  /\ UNCHANGED launches

\* Somebody supplies the result.
Reconciled ==
  /\ phase = "unknown"
  /\ phase' = "closed"
  /\ UNCHANGED <<attempt, launches>>

\* The call is refused: this attempt never runs.
Decline ==
  /\ phase = "open"
  /\ launches[attempt] = 0
  /\ phase' = "closed"
  /\ UNCHANGED <<attempt, launches>>

ANext ==
  \/ Propose \/ Commit \/ Settle \/ Suspect \/ Disclaim \/ Reconciled \/ Decline
  \/ \E a \in 1..MaxAttempts : Launch(a)

ASpec == AInit /\ [][ANext]_avars

=============================================================================
