--------------------------- MODULE ReActInvariant ---------------------------
(* The inductive invariant of ReActLoop, from which ReActProofs derives    *)
(* its theorems.                                                           *)
EXTENDS ReActLoop

\* A batch is being worked on; in the last three places from a checkpoint.
AtBatch == pc \in {"calling", "handler", "paused", "gone"}
AtCall == pc \in {"handler", "paused", "gone"}

\* What the model is told of a call.
Shown(e) == IF e.out = "none" THEN "unexecuted" ELSE e.out

\* A checkpoint is the run it interrupts, and stops at a call the guard let pass.
Checkpoint ==
  /\ Len(snap.results) <= Len(snap.batch)
  /\ AtCall =>
       /\ run = snap /\ ~run.stop /\ call # NoCheckpoint
       /\ Index(run) <= Len(run.batch) /\ KeyOf(run) \notin run.guard.denials
  /\ pc \in {"asking", "calling", "finalizing"} => call # "executing"

\* The rounds behind the run are remembered, the calls before the one at hand have their
\* results, and those after it were not touched.
Progress ==
  /\ pc = "asking" =>
       /\ Len(past) = run.step - 1
       /\ run.batch = <<>> /\ run.results = <<>> /\ ~run.stop
  /\ pc = "asking" \/ AtBatch => Len(run.memory) = run.step - 1
  /\ AtBatch =>
       /\ Len(past) = run.step /\ run.step <= MaxSteps
       /\ DOMAIN past[run.step] = DOMAIN run.batch /\ Len(run.batch) <= MaxBatch
       /\ \A i \in DOMAIN run.batch :
            LET e == past[run.step][i] IN
            /\ e.key = run.batch[i]
            /\ i <= Len(run.results) => Shown(e) = run.results[i]
            /\ i > Len(run.results) => e.out = "none"
            /\ i > Len(run.results) /\ (i > Index(run) \/ pc = "calling") => e.starts = 0

Remembered ==
  pc # "ended" =>
    \A s \in DOMAIN run.memory : run.memory[s] = [i \in DOMAIN past[s] |-> Shown(past[s][i])]

\* What the guard knows: the calls, the denials, the failures in a row.
Observed ==
  pc = "asking" \/ AtBatch =>
    /\ run.guard.used = Cardinality(Counted)
    /\ run.guard.denials = Denied
    /\ \A k \in Keys : run.guard.fails[k] = Cardinality(Streak(k))

Budgeted ==
  /\ pc = "asking" \/ AtBatch => run.guard.max <= frozen
  /\ pc \in {"asking", "calling"} => run.guard.max <= config

IInv ==
  /\ TypeOK /\ Checkpoint /\ Progress /\ Remembered /\ Observed /\ Budgeted
  /\ DenialsStick

=============================================================================
