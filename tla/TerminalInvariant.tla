-------------------------- MODULE TerminalInvariant --------------------------
(* The inductive invariant of TerminalClient, from which TerminalProofs    *)
(* derives its theorems.                                                   *)
EXTENDS TerminalClient

ViewFields ==
  {"session", "status", "rev", "request", "details", "execution", "todos", "reviews", "label",
   "entries"}
PromptFields == {"session", "rev", "request", "details"}
FileFields == {"state", "rev", "attempt", "asked", "board"}
WorkerFields == {"id", "kind", "session", "rev", "attempt", "yes", "pc"}

\* A sequence of whatever.
IsSequence(s) == Len(s) \in Nat /\ s = [i \in 1..Len(s) |-> s[i]]

Records(db) == DOMAIN db = Sessions /\ \A s \in Sessions : DOMAIN db[s] = FileFields

Shapes ==
  /\ Records(store)
  /\ \A w \in workers : DOMAIN w = WorkerFields
  /\ IsSequence(mail)
  /\ \A i \in DOMAIN mail : mail[i].type \in {"event", "finished", "failed", "snapshot"}
  /\ DOMAIN view = ViewFields /\ DOMAIN visible = PromptFields
  /\ IsSequence(modals)
  /\ started \in Nat /\ elsewhere \in Nat

Answers(m) == m.type \in {"finished", "failed"}

\* One operation is in flight: its worker, or the answer behind all of its events.
OneOperation ==
  /\ \A w \in workers : w.id = op /\ workers = {w}
  /\ workers # {} => op # 0
  /\ \A i \in DOMAIN mail :
       /\ mail[i].type = "event" => op # 0
       /\ Answers(mail[i]) =>
            /\ op # 0 /\ mail[i].id = op /\ workers = {}
            /\ \A j \in DOMAIN mail : j > i => mail[j].type = "snapshot"

\* What is in flight is about session s, and so is the view unless it was reset.
Concerns(s) ==
  /\ \A w \in workers : w.session = s
  /\ \A i \in DOMAIN mail :
       /\ mail[i].type = "event" => mail[i].session = s
       /\ mail[i].type = "finished" => mail[i].outcome.session = s
  /\ view.session \in {NoSession, s}

OneSession ==
  /\ op # 0 => \E s \in Sessions : Concerns(s)
  /\ view.session \in Sessions \cup {NoSession}
  /\ view.entries \in {NoSession, view.session}
  /\ visible # NoPrompt => visible.session = view.session /\ view.session # NoSession

\* While an operation is in flight only the question whether to quit is on the screen; no
\* other screen is ever beneath one.
Screens ==
  \A i \in DOMAIN modals : modals[i].screen # "quit" => op = 0 /\ i = Len(modals)

\* An outcome agrees with the record of its session on every decision that is due.
Agrees(out, file) ==
  LET now == OutcomeOf(out.session, file)
  IN  Paused \cap {out.status, now.status} # {} => out = now

\* A run that goes on has no decision due; an outcome on its way is what the
\* checkpoint says, until another client moves it.
OutcomesAgree ==
  /\ \A w \in workers : w.pc = "running" => OutcomeStatus(store[w.session]) \notin Paused
  /\ \A i \in DOMAIN mail : mail[i].type = "finished" =>
       /\ mail[i].seen \in Nat /\ mail[i].seen <= elsewhere
       /\ mail[i].seen = elsewhere
            /\ mail[i].outcome.status \notin {"chat_completed", "chat_failed"}
            => Agrees(mail[i].outcome, store[mail[i].outcome.session])

CInv ==
  /\ Shapes /\ OneOperation /\ OneSession /\ Screens /\ OutcomesAgree
  /\ InFlightIsAnswered /\ WhatIsShownIsSent /\ VerdictCoversBoard /\ DueDecisionIsShown

=============================================================================
