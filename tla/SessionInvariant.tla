--------------------------- MODULE SessionInvariant ---------------------------
(***************************************************************************)
(* The inductive invariants behind the properties of WorkflowSession: one  *)
(* for any number of clients, and one for one operation at a time, which   *)
(* is how the terminal client calls the controller.                        *)
(***************************************************************************)
EXTENDS WorkflowSession

Placed(places) == {p \in Clients : op[p].pc \in places}

\* Saves a call may still need until it is settled.
Need(state) ==
  CASE state \in Terminal -> 0
    [] state = "awaiting_reconcile" -> 1
    [] state = "recovery_required" -> 2
    [] state = "executing" -> 3
    [] state = "awaiting_approval" -> 4
    [] state = "pending" -> 5

\* Files that refer to each other: a checkpoint to a logged turn, the session to a
\* checkpoint; once there is a call, some workflow turn was counted.
Files ==
  /\ session \in Session /\ log \in Seq(Turn) /\ calls \in Seq(CallFile)
  /\ Len(calls) <= MaxCalls
  /\ \A c \in DOMAIN calls :
       calls[c].task \in DOMAIN log /\ calls[c].rev + Need(calls[c].state) <= MaxRevision
  /\ session.task \in 0..Len(log)
  /\ session.active # 0 => session.active \in DOMAIN calls
  /\ calls # << >> => session.task # 0
  /\ abandoned \subseteq DOMAIN calls

\* What a client has in hand: a copy that is the file if it is fresh, a call and a turn
\* that exist where they are used.
Client(o) ==
  /\ o.fresh => o.copy = session
  /\ o.copy.task \in 0..Len(log)
  /\ o.call # 0 => o.call \in DOMAIN calls
  /\ o.pc \in {"handler", "settling", "retrying", "paused"} => o.call # 0
  /\ o.out \in PauseStates => o.call # 0
  /\ o.pc = "running" => session.task # 0
  /\ o.resumed => o.call # 0 /\ o.copy.task # 0
  /\ ~o.resumed /\ o.pc \notin {"idle", "routing", "recording"} => o.turn \in DOMAIN log
  /\ o.pc \in {"counting", "chatting", "running", "syncing", "clearing", "writing",
               "responding", "failing"} => o.turn \in DOMAIN log

\* The turns under way fit the bound.
Slots == Len(log) + Cardinality(Placed({"routing", "recording"})) <= MaxTurns

Counts ==
  /\ refused \in Nat /\ faults \in 0..MaxFaults
  /\ Slots /\ TurnsAreCounted

IInv ==
  /\ Files /\ Counts
  /\ op \in [Clients -> Operation] /\ \A p \in Clients : Client(op[p])

-----------------------------------------------------------------------------
(* One operation at a time.                                                *)

\* Nothing is left to do for the call: it is settled, or was given up.
Spent(c) == c # 0 => calls[c].state \in Terminal \/ c \in abandoned

Pausing(o) == o.out \in PauseStates

\* The call in hand is the one on disk, and of the last task; what the session refers to
\* is the call in hand or needs nothing any more.
Alone(o) ==
  /\ o.pc \in {"routing", "counting", "writing"} => o.fresh
  /\ o.pc \in {"idle", "routing", "recording", "counting", "chatting"} => o.call = 0
  /\ o.pc \in {"recording", "counting"} /\ o.workflow => session.active = 0
  /\ o.pc \in {"handler", "retrying"} => calls[o.call].rev = o.rev
  /\ o.pc = "handler" => calls[o.call].state = "executing"
  /\ o.pc = "retrying" => calls[o.call].state = "pending"
  /\ o.pc = "paused" => calls[o.call].state \in PauseStates
  /\ o.call # 0 => calls[o.call].task = session.task
  /\ o.pc \in {"running", "handler", "settling", "retrying", "paused"} /\ ~o.resumed =>
       o.turn = session.task
  /\ o.pc = "running" => o.turn = session.task
  /\ o.pc = "settling" => o.call = session.active
  /\ o.pc = "clearing" => ~Pausing(o)
  /\ o.pc \in {"handler", "retrying", "paused"} => session.active = o.call \/ Spent(session.active)
  /\ o.pc \in {"syncing", "writing"} /\ Pausing(o) =>
       session.active = o.call \/ Spent(session.active)
  /\ o.pc = "responding" /\ Pausing(o) => session.active = o.call
  /\ \/ o.pc = "running"
     \/ o.pc \in {"syncing", "clearing", "writing", "responding"} /\ ~Pausing(o)
     => Spent(session.active) /\ Spent(o.call)

\* A call that is out of reach or will be: a client that is about to answer a failure
\* lets go of its call, and a call that was given up loses its reference.
Held(c) == \E p \in Clients : op[p].pc \notin {"idle", "failing"} /\ op[p].call = c

Gone(c) ==
  /\ calls[c].state \notin Terminal
  /\ c \in abandoned \/ (c # session.active /\ ~Held(c))

Lost == {c \in DOMAIN calls : Gone(c)}

OneInv ==
  /\ \A p \in Clients : Alone(op[p])
  /\ ReferenceIsOfLastTask
  /\ Cardinality(Lost) <= faults

=============================================================================
