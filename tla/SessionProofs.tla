----------------------------- MODULE SessionProofs -----------------------------
(* The safety properties of WorkflowSession: TurnsAreCounted for any       *)
(* clients and bounds (IInv), ReferenceIsOfLastTask and                    *)
(* UnfinishedIsReferenced for one operation at a time (OneInv over IInv).  *)
(* Each action has a lemma of its own for IInv, by way of StepOfOne,       *)
(* QuietMove, LeaveStep or SaveStep, and one for OneInv, by way of         *)
(* OneQuiet, OneKeepsCalls or OneConcludes.                                *)
EXTENDS SessionInvariant, FiniteSetTheorems, SequenceTheorems, TLAPS

-----------------------------------------------------------------------------
(* How many clients are where.                                             *)

Tally(places) == Cardinality(Placed(places))

Routed == {"routing", "recording"}

LEMMA TallyIsNat ==
  ASSUME NEW S
  PROVE  IsFiniteSet(Placed(S)) /\ Tally(S) \in Nat
<1>1. IsFiniteSet(Clients) /\ Placed(S) \in SUBSET Clients
  BY SessionBounds DEF Placed
<1> QED
  BY <1>1, FS_Subset, FS_CardinalityType DEF Tally

\* The step of one client changes a tally by one at most.
LEMMA TallyMoves ==
  ASSUME NEW p \in Clients, NEW S, \A q \in Clients \ {p} : op'[q].pc = op[q].pc
  PROVE  /\ Tally(S) \in Nat /\ Tally(S)' \in Nat
         /\ (op[p].pc \in S <=> op'[p].pc \in S) => Tally(S)' = Tally(S)
         /\ op[p].pc \notin S /\ op'[p].pc \in S => Tally(S)' = Tally(S) + 1
         /\ op[p].pc \in S /\ op'[p].pc \notin S => Tally(S)' = Tally(S) - 1
<1> DEFINE A == {q \in Clients : op[q].pc \in S}
           B == {q \in Clients : op'[q].pc \in S}
<1>1. IsFiniteSet(A) /\ Cardinality(A) = Tally(S) /\ Tally(S) \in Nat
  BY TallyIsNat DEF Placed, Tally
<1>2. Cardinality(B) = Tally(S)'
  BY DEF Placed, Tally
<1>3. IsFiniteSet(B) /\ B \in SUBSET Clients
  BY SessionBounds, FS_Subset
<1>4. Tally(S)' \in Nat
  BY <1>2, <1>3, FS_CardinalityType
<1>5. (op[p].pc \in S <=> op'[p].pc \in S) => A = B
  OBVIOUS
<1>6. op[p].pc \notin S /\ op'[p].pc \in S => B = A \cup {p} /\ p \notin A
  OBVIOUS
<1>7. op[p].pc \in S /\ op'[p].pc \notin S => B = A \ {p} /\ p \in A
  OBVIOUS
<1> HIDE DEF A, B
<1> QED
  BY <1>1, <1>2, <1>4, <1>5, <1>6, <1>7, FS_AddElement, FS_RemoveElement

\* What Counts says of the tallies.
Counted ==
  /\ refused \in Nat /\ faults \in 0..MaxFaults
  /\ Len(log) + Tally(Routed) <= MaxTurns
  /\ Len(log) - session.turns
       \in (refused + Tally({"counting"}))..(refused + Tally({"counting"}) + faults)

LEMMA CountsAreTallies == Counts <=> Counted
<1>1. {p \in Clients : op[p].pc = "counting"} = Placed({"counting"})
  BY DEF Placed
<1> QED
  BY <1>1 DEF Counts, Counted, Slots, TurnsAreCounted, Tally, Routed

\* A step between places that are not tallied.
LEMMA CountsStay ==
  ASSUME Counts, NEW p \in Clients, op \in [Clients -> Operation], Len(log) \in Nat,
         session.turns \in Nat,
         \A q \in Clients \ {p} : op'[q].pc = op[q].pc,
         op[p].pc \in Routed <=> op'[p].pc \in Routed,
         op[p].pc = "counting" <=> op'[p].pc = "counting",
         Len(log') = Len(log), session'.turns = session.turns, refused' = refused,
         faults' = faults \/ (faults' = faults + 1 /\ faults < MaxFaults)
  PROVE  Counts'
<1>1. Tally(Routed)' = Tally(Routed) /\ Tally({"counting"})' = Tally({"counting"})
      /\ Tally({"counting"}) \in Nat
  <2>1. op[p].pc \in {"counting"} <=> op'[p].pc \in {"counting"}
    OBVIOUS
  <2> QED
    BY <2>1, TallyMoves
<1>2. Counted
  BY CountsAreTallies
<1>3. Counted'
  BY <1>1, <1>2, SessionBounds, SMTT(40) DEF Counted
<1>4. (Counts <=> Counted)'
  BY CountsAreTallies, PTL
<1> QED
  BY <1>3, <1>4

-----------------------------------------------------------------------------
(* What a step leaves alone.                                               *)

LEMMA OthersKeep ==
  ASSUME Files, Files', NEW q, Client(op[q]), op[q] \in Operation,
         op'[q] = op[q] \/ op'[q] = [op[q] EXCEPT !.fresh = FALSE],
         op'[q].fresh => session' = session,
         Len(log) <= Len(log'), Len(calls) <= Len(calls'),
         session.task # 0 => session'.task # 0
  PROVE  Client(op[q])'
<1>1. /\ DOMAIN log = 1..Len(log) /\ (DOMAIN log)' = 1..Len(log') /\ Len(log) \in Nat /\ Len(log') \in Nat
      /\ DOMAIN calls = 1..Len(calls) /\ (DOMAIN calls)' = 1..Len(calls') /\ Len(calls) \in Nat /\ Len(calls') \in Nat
  BY DEF Files
<1>2. /\ op'[q].pc = op[q].pc /\ op'[q].copy = op[q].copy /\ op'[q].call = op[q].call
      /\ op'[q].out = op[q].out /\ op'[q].resumed = op[q].resumed /\ op'[q].turn = op[q].turn
      /\ op'[q].fresh => op[q].fresh
  BY DEF Operation
<1> QED
  BY <1>1, <1>2 DEF Client

LEMMA StepOfOne ==
  ASSUME IInv, NEW p \in Clients, NEW o \in Operation, op' = [op EXCEPT ![p] = o],
         session' = session, Len(log) <= Len(log'), Len(calls) <= Len(calls'),
         Files', Client(op[p])', Counts'
  PROVE  IInv'
<1>1. op' \in [Clients -> Operation] /\ op'[p] = o /\ \A q \in Clients \ {p} : op'[q] = op[q]
  BY DEF IInv
<1>3. ASSUME NEW q \in Clients \ {p} PROVE Client(op[q])'
  BY <1>1, OthersKeep DEF IInv
<1> QED
  BY <1>1, <1>3 DEF IInv

\* A step that changes no file.
LEMMA QuietStep ==
  ASSUME IInv, NEW p \in Clients, NEW o \in Operation, op' = [op EXCEPT ![p] = o],
         UNCHANGED <<session, log, calls, abandoned>>, Client(o), Counts'
  PROVE  IInv'
<1>1. Files'
  BY DEF IInv, Files
<1>2. Client(op[p])'
  <2>1. op'[p] = o
    BY DEF IInv
  <2> QED
    BY <2>1 DEF Client
<1>3. Len(log) <= Len(log') /\ Len(calls) <= Len(calls')
  BY DEF IInv, Files
<1> QED
  BY <1>1, <1>2, <1>3, StepOfOne

Untallied == Place \ {"routing", "recording", "counting"}

\* A step that changes no file, between places that are not tallied.
LEMMA QuietMove ==
  ASSUME IInv, NEW p \in Clients, NEW o \in Operation, op' = [op EXCEPT ![p] = o],
         UNCHANGED <<session, log, calls, abandoned, refused>>, Client(o),
         op[p].pc \in Untallied, o.pc \in Untallied,
         faults' = faults \/ (faults' = faults + 1 /\ faults < MaxFaults)
  PROVE  IInv'
<1>1. Counts'
  <2>1. /\ Len(log) \in Nat /\ session.turns \in Nat /\ Counts
        /\ op \in [Clients -> Operation]
    BY SessionBounds DEF IInv, Files, Session
  <2>2. op'[p] = o /\ \A q \in Clients \ {p} : op'[q] = op[q]
    BY <2>1
  <2>3. /\ op[p].pc \notin Routed /\ op'[p].pc \notin Routed
        /\ op[p].pc # "counting" /\ op'[p].pc # "counting"
    BY <2>2 DEF Untallied, Routed
  <2>4. \A q \in Clients \ {p} : op'[q].pc = op[q].pc
    BY <2>2
  <2>5. Len(log') = Len(log) /\ session'.turns = session.turns /\ refused' = refused
    OBVIOUS
  <2> QED
    BY <2>1, <2>3, <2>4, <2>5, CountsStay
<1> QED
  BY <1>1, QuietStep

LEMMA IdleHoldsNothing == Idle \in Operation /\ (IInv => Client(Idle))
<1>1. Idle \in Operation
  BY SessionBounds DEF Idle, Operation, NewSession, Session, Place, NoReply
<1>2. IInv => Client(Idle)
  BY SessionBounds DEF Idle, IInv, Files, Client, NewSession, NoReply, PauseStates
<1> QED
  BY <1>1, <1>2

LEMMA LeaveStep ==
  ASSUME IInv, NEW p \in Clients, Leave(p), op[p].pc \in Untallied,
         UNCHANGED <<session, log, calls, abandoned, refused>>,
         faults' = faults \/ (faults' = faults + 1 /\ faults < MaxFaults)
  PROVE  IInv'
<1>1. Idle.pc \in Untallied
  BY DEF Idle, Untallied, Place
<1>2. op' = [op EXCEPT ![p] = Idle]
  BY DEF Leave
<1> QED
  BY <1>1, <1>2, IdleHoldsNothing, QuietMove

\* What is known of the client that steps.
LEMMA ClientFacts ==
  ASSUME IInv, NEW p \in Clients
  PROVE  /\ op[p] \in Operation /\ Client(op[p]) /\ Idle \in Operation
         /\ session \in Session /\ Len(log) \in Nat /\ DOMAIN log = 1..Len(log)
         /\ Len(calls) \in 0..MaxCalls /\ DOMAIN calls = 1..Len(calls)
         /\ Len(log) <= MaxTurns
         /\ \A c \in DOMAIN calls : calls[c] \in CallFile /\ calls[c].task \in DOMAIN log
         /\ session.task \in 0..Len(log)
         /\ session.active # 0 => session.active \in DOMAIN calls
         /\ DOMAIN calls # {} => session.task # 0
<1>1. Tally(Routed) \in Nat /\ Counted
  BY TallyIsNat, CountsAreTallies DEF IInv
<1>2. Len(log) \in Nat /\ Len(log) <= MaxTurns
  BY <1>1, SessionBounds DEF IInv, Files, Counted
<1>3. DOMAIN calls # {} => session.task # 0
  BY DEF IInv, Files
<1> QED
  BY <1>2, <1>3, IdleHoldsNothing DEF IInv, Files

-----------------------------------------------------------------------------
(* One lemma per action: those that change no file.                        *)

LEMMA RaiseKeeps ==
  ASSUME IInv, NEW p \in Clients, NEW ofModel \in BOOLEAN, Raise(p, ofModel),
         op[p].pc \in {"running", "handler", "retrying", "paused"},
         op[p].pc = "retrying" => ~ofModel,
         UNCHANGED <<session, log, calls, abandoned, refused>>,
         faults' = faults \/ (faults' = faults + 1 /\ faults < MaxFaults)
  PROVE  IInv'
<1>1. op[p].pc \in Untallied
  BY DEF Untallied, Place
<1>2. CASE op[p].resumed /\ ~ofModel
  BY <1>1, <1>2, LeaveStep DEF Raise
<1>3. CASE ~op[p].resumed
  <2> DEFINE o == [op[p] EXCEPT !.pc = "failing"]
  <2>1. op' = [op EXCEPT ![p] = o]
    BY <1>3 DEF Raise, Goto
  <2>2. o \in Operation /\ o.pc \in Untallied
    BY ClientFacts, SMTT(40) DEF Operation, Place, Untallied
  <2>3. Client(o)
    BY <1>3, ClientFacts DEF Operation, Client
  <2> HIDE DEF o
  <2> QED
    BY <1>1, <2>1, <2>2, <2>3, QuietMove
<1>4. CASE op[p].resumed /\ ofModel
  <2> DEFINE o == [op[p] EXCEPT !.pc = "failing", !.turn = op[p].copy.task]
  <2>1. op' = [op EXCEPT ![p] = o]
    BY <1>4 DEF Raise
  <2>2. o \in Operation /\ o.pc \in Untallied
    <3>1. op[p].copy.task \in 0..MaxTurns /\ op[p] \in Operation
      BY ClientFacts DEF Operation, Session
    <3> QED
      BY <3>1 DEF Operation, Place, Untallied
  <2>3. /\ o.pc = "failing" /\ o.turn = op[p].copy.task /\ o.copy = op[p].copy
        /\ o.fresh = op[p].fresh /\ o.resumed = op[p].resumed /\ o.call = op[p].call
        /\ o.out = op[p].out
    BY ClientFacts DEF Operation
  <2> HIDE DEF o
  <2>4. Client(o)
    BY <1>4, <2>3, ClientFacts DEF Client
  <2> QED
    BY <1>1, <2>1, <2>2, <2>4, QuietMove
<1> QED
  BY <1>2, <1>3, <1>4

LEMMA FinishKeeps ==
  ASSUME IInv, NEW p \in Clients, NEW status \in Replies, Finish(p, status)
  PROVE  IInv'
<1> DEFINE o == [op[p] EXCEPT !.pc = "syncing", !.out = status]
<1>1. /\ op' = [op EXCEPT ![p] = o] /\ op[p].pc \in Untallied
      /\ UNCHANGED <<session, log, calls, abandoned, refused, faults>>
  BY DEF Finish, Untallied, Place
<1>2. o \in Operation /\ o.pc \in Untallied
  BY ClientFacts DEF Finish, Operation, Place, Untallied
<1>3. Client(o)
  BY ClientFacts DEF Finish, Operation, Client, PauseStates
<1> HIDE DEF o
<1> QED
  BY <1>1, <1>2, <1>3, QuietMove

LEMMA ReadPauseKeeps ==
  ASSUME IInv, NEW p \in Clients, ReadPause(p)
  PROVE  IInv'
<1> DEFINE o == [op[p] EXCEPT !.pc = "syncing", !.out = StatusOf(calls[op[p].call].state),
                          !.turn = calls[op[p].call].task]
<1>1. /\ op' = [op EXCEPT ![p] = o] /\ op[p].pc \in Untallied
      /\ UNCHANGED <<session, log, calls, abandoned, refused, faults>>
  BY DEF ReadPause, Untallied, Place
<1>2. o \in Operation /\ o.pc \in Untallied
  <2> DEFINE c == calls[op[p].call]
  <2>1. /\ c \in CallFile /\ c.task \in 0..MaxTurns
    BY ClientFacts DEF ReadPause, Client, CallFile
  <2>2. StatusOf(c.state) \in Replies
    BY <2>1 DEF StatusOf, Replies, ExecutionState, Terminal, PauseStates, CallFile
  <2> HIDE DEF c
  <2>3. o = [op[p] EXCEPT !.pc = "syncing", !.out = StatusOf(c.state), !.turn = c.task]
    BY DEF c
  <2> HIDE DEF o
  <2> QED
    BY <2>1, <2>2, <2>3, ClientFacts DEF Operation, Place, Untallied
<1>3. Client(o)
  BY ClientFacts DEF ReadPause, Operation, Client, CallFile
<1> HIDE DEF o
<1> QED
  BY <1>1, <1>2, <1>3, QuietMove

LEMMA LoadToBindKeeps ==
  ASSUME IInv, NEW p \in Clients, LoadToBind(p)
  PROVE  IInv'
<1> DEFINE o == [op[p] EXCEPT !.pc = "writing", !.copy = session, !.fresh = TRUE]
<1>1. /\ op' = [op EXCEPT ![p] = o] /\ op[p].pc \in Untallied
      /\ UNCHANGED <<session, log, calls, abandoned, refused, faults>>
  BY DEF LoadToBind, Untallied, Place, LoadSession
<1>2. o \in Operation /\ o.pc \in Untallied
  BY ClientFacts DEF LoadToBind, Operation, Place, Untallied
<1>3. Client(o)
  BY ClientFacts DEF LoadToBind, Operation, Client
<1> HIDE DEF o
<1> QED
  BY <1>1, <1>2, <1>3, QuietMove

LEMMA FindReferenceKeeps ==
  ASSUME IInv, NEW p \in Clients, FindReference(p)
  PROVE  IInv'
<1> DEFINE o == [op[p] EXCEPT !.pc = IF session.active # 0 THEN "clearing" ELSE "responding"]
<1>1. /\ op' = [op EXCEPT ![p] = o] /\ op[p].pc \in Untallied
      /\ UNCHANGED <<session, log, calls, abandoned, refused, faults>>
  BY DEF FindReference, Untallied, Place, Goto
<1>2. o \in Operation /\ o.pc \in Untallied
  BY ClientFacts, SMTT(40) DEF FindReference, Operation, Place, Untallied
<1>3. Client(o)
  BY ClientFacts DEF FindReference, Operation, Client
<1> HIDE DEF o
<1> QED
  BY <1>1, <1>2, <1>3, QuietMove

LEMMA LoadToClearKeeps ==
  ASSUME IInv, NEW p \in Clients, LoadToClear(p)
  PROVE  IInv'
<1> DEFINE o == [op[p] EXCEPT !.pc = "writing", !.copy = session, !.fresh = TRUE]
<1>1. /\ op' = [op EXCEPT ![p] = o] /\ op[p].pc \in Untallied
      /\ UNCHANGED <<session, log, calls, abandoned, refused, faults>>
  BY DEF LoadToClear, Untallied, Place, LoadSession
<1>2. o \in Operation /\ o.pc \in Untallied
  BY ClientFacts DEF LoadToClear, Operation, Place, Untallied
<1>3. Client(o)
  BY ClientFacts DEF LoadToClear, Operation, Client
<1> HIDE DEF o
<1> QED
  BY <1>1, <1>2, <1>3, QuietMove

LEMMA ResumeKeeps ==
  ASSUME IInv, NEW p \in Clients, Resume(p)
  PROVE  IInv'
<1> DEFINE o == [Idle EXCEPT !.pc = "settling", !.copy = session, !.fresh = TRUE,
                        !.resumed = TRUE, !.call = session.active]
<1>1. /\ op' = [op EXCEPT ![p] = o] /\ op[p].pc \in Untallied
      /\ UNCHANGED <<session, log, calls, abandoned, refused, faults>>
  BY DEF Resume, Untallied, Place
<1>2. o \in Operation /\ o.pc \in Untallied
  BY ClientFacts DEF Resume, Operation, Place, Untallied, Session
<1>3. Client(o)
  BY ClientFacts DEF Resume, Operation, Client, Idle, NoReply, PauseStates, Session, IInv, Files
<1> HIDE DEF o
<1> QED
  BY <1>1, <1>2, <1>3, QuietMove

LEMMA PauseAgainKeeps ==
  ASSUME IInv, NEW p \in Clients, PauseAgain(p)
  PROVE  IInv'
<1> DEFINE o == [op[p] EXCEPT !.pc = "paused"]
<1>1. /\ op' = [op EXCEPT ![p] = o] /\ op[p].pc \in Untallied
      /\ UNCHANGED <<session, log, calls, abandoned, refused, faults>>
  BY DEF PauseAgain, Untallied, Place, Goto
<1>2. o \in Operation /\ o.pc \in Untallied
  BY ClientFacts DEF PauseAgain, Operation, Place, Untallied
<1>3. Client(o)
  BY ClientFacts DEF PauseAgain, Operation, Client
<1> HIDE DEF o
<1> QED
  BY <1>1, <1>2, <1>3, QuietMove

LEMMA LeavesKeep ==
  ASSUME IInv, NEW p \in Clients, ReferenceRefused(p) \/ ResumeRefused(p)
  PROVE  IInv'
<1>1. op[p].pc \in Untallied
  BY DEF ReferenceRefused, ResumeRefused, Untallied, Place
<1> QED
  BY <1>1, LeaveStep DEF ReferenceRefused, ResumeRefused

LEMMA RunRaisesKeeps ==
  ASSUME IInv, NEW p \in Clients, NEW ofModel \in BOOLEAN, RunRaises(p, ofModel)
  PROVE  IInv'
BY RaiseKeeps DEF RunRaises

LEMMA CallConflictKeeps ==
  ASSUME IInv, NEW p \in Clients, CallConflict(p)
  PROVE  IInv'
BY RaiseKeeps DEF CallConflict

-----------------------------------------------------------------------------
(* The actions that change a tally or the log.                             *)

\* A step of one client that leaves the session and the log: what happens to Counts
\* is a matter of the tallies.
LEMMA CountsOfStep ==
  ASSUME IInv, NEW p \in Clients, NEW o \in Operation, op' = [op EXCEPT ![p] = o],
         NEW S
  PROVE  /\ Tally(S) \in Nat /\ Tally(S)' \in Nat
         /\ (op[p].pc \in S <=> o.pc \in S) => Tally(S)' = Tally(S)
         /\ op[p].pc \notin S /\ o.pc \in S => Tally(S)' = Tally(S) + 1
         /\ op[p].pc \in S /\ o.pc \notin S => Tally(S)' = Tally(S) - 1
<1>1. op'[p] = o /\ \A q \in Clients \ {p} : op'[q].pc = op[q].pc
  BY DEF IInv
<1> QED
  BY <1>1, TallyMoves

LEMMA CountsFromTallies ==
  ASSUME Counted'
  PROVE  Counts'
<1>1. (Counts <=> Counted)'
  BY CountsAreTallies, PTL
<1> QED
  BY <1>1

\* A client that is lost, wherever it is.
LEMMA LossKeeps ==
  ASSUME IInv, NEW p \in Clients, Leave(p), faults < MaxFaults, faults' = faults + 1,
         UNCHANGED <<session, log, calls, refused, abandoned>>
  PROVE  IInv'
<1>1. op' = [op EXCEPT ![p] = Idle] /\ Idle \in Operation /\ Client(Idle)
  BY IdleHoldsNothing DEF Leave
<1>2. Idle.pc \notin Routed /\ Idle.pc \notin {"counting"}
  BY DEF Idle, Routed
<1>3. /\ Tally(Routed) \in Nat /\ Tally(Routed)' \in Nat
      /\ Tally(Routed)' \in {Tally(Routed), Tally(Routed) - 1}
  BY <1>1, <1>2, CountsOfStep
<1>4. /\ Tally({"counting"}) \in Nat /\ Tally({"counting"})' \in Nat
      /\ Tally({"counting"})' \in {Tally({"counting"}), Tally({"counting"}) - 1}
  BY <1>1, <1>2, CountsOfStep
<1>5. Counted /\ Len(log) \in Nat /\ session.turns \in Nat
  BY CountsAreTallies, ClientFacts DEF IInv, Session
<1>6. Counted'
  <2>1. /\ Len(log') = Len(log) /\ session'.turns = session.turns /\ refused' = refused
        /\ MaxTurns \in Nat /\ MaxFaults \in Nat
    BY SessionBounds
  <2>2. /\ refused \in Nat /\ faults \in Nat /\ faults' \in 0..MaxFaults
        /\ Len(log) + Tally(Routed) <= MaxTurns
        /\ Len(log) - session.turns >= refused + Tally({"counting"})
        /\ Len(log) - session.turns <= refused + Tally({"counting"}) + faults
    BY <1>4, <1>5, SessionBounds DEF Counted
  <2>3. /\ Len(log) + Tally(Routed)' <= MaxTurns
        /\ Len(log) - session.turns >= refused + Tally({"counting"})'
        /\ Len(log) - session.turns <= refused + Tally({"counting"})' + faults'
    <3> DEFINE r == Tally(Routed)  rr == Tally(Routed)'
               k == Tally({"counting"})  kk == Tally({"counting"})'
    <3>1. /\ r \in Nat /\ rr \in Nat /\ rr <= r
          /\ k \in Nat /\ kk \in Nat /\ kk <= k /\ k <= kk + 1
      BY <1>3, <1>4
    <3>2. Len(log) \in Nat /\ session.turns \in Nat /\ faults' = faults + 1
      BY <1>5
    <3> HIDE DEF r, rr, k, kk
    <3>3. /\ Len(log) + rr <= MaxTurns
          /\ Len(log) - session.turns >= refused + kk
          /\ Len(log) - session.turns <= refused + kk + faults'
      <4>1. Len(log) + r <= MaxTurns /\ Len(log) - session.turns >= refused + k
            /\ Len(log) - session.turns <= refused + k + faults
        BY <2>2 DEF r, k
      <4> DEFINE l == Len(log)  n == session.turns
      <4>2. l \in Nat /\ n \in Nat /\ refused \in Nat /\ faults \in Nat /\ MaxTurns \in Nat
        BY <2>1, <2>2, <3>2
      <4> HIDE DEF l, n
      <4> QED
        BY <3>1, <3>2, <4>1, <4>2, SMTT(40) DEF l, n
    <3> QED
      BY <3>3 DEF rr, kk
  <2> QED
    BY <1>3, <1>4, <1>5, <2>1, <2>2, <2>3 DEF Counted
<1> QED
  BY <1>1, <1>6, CountsFromTallies, QuietStep

LEMMA FaultKeeps ==
  ASSUME IInv, NEW p \in Clients, Fault(p)
  PROVE  IInv'
<1>1. CASE Leave(p)
  BY <1>1, LossKeeps DEF Fault
<1>2. CASE op[p].pc \in {"running", "handler", "paused"} /\ Raise(p, FALSE)
  BY <1>2, RaiseKeeps DEF Fault
<1> QED
  BY <1>1, <1>2 DEF Fault

LEMMA GiveUpApprovalKeeps ==
  ASSUME IInv, NEW p \in Clients, GiveUpApproval(p)
  PROVE  IInv'
<1> DEFINE c == op[p].call
           o == [op[p] EXCEPT !.pc = "running", !.turn = calls[c].task]
<1>1. /\ op' = [op EXCEPT ![p] = o] /\ op[p].pc = "settling"
      /\ UNCHANGED <<session, log, calls, refused>> /\ abandoned' = abandoned \cup {c}
      /\ faults < MaxFaults /\ faults' = faults + 1
  BY DEF GiveUpApproval
<1>2. c \in DOMAIN calls /\ calls[c].task \in DOMAIN log
  BY <1>1, ClientFacts DEF Client
<1>3. o \in Operation /\ o.pc = "running"
  <2>1. calls[c].task \in 0..MaxTurns /\ op[p] \in Operation
    BY <1>2, ClientFacts, SessionBounds
  <2> HIDE DEF c
  <2> QED
    BY <2>1 DEF Operation, Place
<1>4. Client(o)
  BY <1>1, <1>2, ClientFacts DEF Client, Operation
<1> HIDE DEF o, c
<1>5. Files' /\ Client(op[p])'
  <2>1. op'[p] = o
    BY <1>1 DEF IInv
  <2>2. Files'
    BY <1>1, <1>2 DEF IInv, Files
  <2>3. Client(op[p])'
    BY <1>1, <1>4, <2>1 DEF Client
  <2> QED
    BY <2>2, <2>3
<1>6. Counts'
  <2>1. /\ op'[p].pc = "running" /\ \A q \in Clients \ {p} : op'[q].pc = op[q].pc
        /\ op \in [Clients -> Operation]
    BY <1>1, <1>3 DEF IInv
  <2>2. Counts /\ Len(log) \in Nat /\ session.turns \in Nat
    BY ClientFacts DEF IInv, Session
  <2>3. op[p].pc \notin Routed /\ op'[p].pc \notin Routed /\ op[p].pc # "counting" /\ op'[p].pc # "counting"
    BY <1>1, <2>1 DEF Routed
  <2>4. Len(log') = Len(log) /\ session'.turns = session.turns /\ refused' = refused
    BY <1>1
  <2> QED
    BY <1>1, <2>1, <2>2, <2>3, <2>4, CountsStay
<1>7. Len(log) <= Len(log') /\ Len(calls) <= Len(calls') /\ session' = session
  BY <1>1, ClientFacts
<1> QED
  BY <1>1, <1>3, <1>5, <1>6, <1>7, StepOfOne

LEMMA SubmitKeeps ==
  ASSUME IInv, NEW p \in Clients, Submit(p)
  PROVE  IInv'
<1> DEFINE o == [Idle EXCEPT !.pc = "routing", !.copy = session, !.fresh = TRUE]
<1>1. /\ op' = [op EXCEPT ![p] = o] /\ op[p].pc = "idle"
      /\ Len(log) + Tally(Routed) < MaxTurns
      /\ UNCHANGED <<session, log, calls, refused, abandoned, faults>>
  BY DEF Submit, Tally, Placed, Routed
<1>2. o \in Operation /\ o.pc = "routing"
  BY ClientFacts DEF Operation, Place
<1>3. Client(o)
  BY ClientFacts DEF Client, Idle, NoReply, PauseStates
<1> HIDE DEF o
<1>4. Tally(Routed) \in Nat /\ Tally(Routed)' = Tally(Routed) + 1
  BY <1>1, <1>2, CountsOfStep DEF Routed
<1>5. Tally({"counting"})' = Tally({"counting"})
  <2>1. op[p].pc \in {"counting"} <=> o.pc \in {"counting"}
    BY <1>1, <1>2
  <2> QED
    BY <1>1, <1>2, <2>1, CountsOfStep
<1>6. Counted'
  BY <1>1, <1>4, <1>5, CountsAreTallies, ClientFacts, SessionBounds DEF Counted, IInv
<1> QED
  BY <1>1, <1>2, <1>3, <1>6, CountsFromTallies, QuietStep

LEMMA RouteKeeps ==
  ASSUME IInv, NEW p \in Clients, NEW workflow \in BOOLEAN, Route(p, workflow)
  PROVE  IInv'
<1> DEFINE o == IF workflow /\ op[p].copy.active # 0 THEN Idle
                ELSE [op[p] EXCEPT !.pc = "recording", !.workflow = workflow]
<1>1. /\ op' = [op EXCEPT ![p] = o] /\ op[p].pc = "routing"
      /\ UNCHANGED <<session, log, calls, refused, abandoned, faults>>
  BY DEF Route, Leave
<1>2. o \in Operation /\ o.pc \in {"idle", "recording"}
  BY ClientFacts DEF Operation, Place, Idle
<1>3. Client(o)
  <2>1. CASE workflow /\ op[p].copy.active # 0
    BY <2>1, IdleHoldsNothing
  <2>2. CASE ~(workflow /\ op[p].copy.active # 0)
    BY <1>1, <2>2, ClientFacts DEF Client, Operation
  <2> QED
    BY <2>1, <2>2
<1> HIDE DEF o
<1>4. Tally(Routed) \in Nat /\ Tally(Routed)' \in Nat /\ Tally(Routed)' <= Tally(Routed)
  <2>1. op[p].pc \in Routed
    BY <1>1 DEF Routed
  <2>2. Tally(Routed) \in Nat /\ Tally(Routed)' \in Nat /\ Tally(Routed)' \in {Tally(Routed), Tally(Routed) - 1}
    BY <1>1, <1>2, <2>1, CountsOfStep
  <2> QED
    BY <2>2
<1>5. Tally({"counting"})' = Tally({"counting"})
  <2>1. op[p].pc \in {"counting"} <=> o.pc \in {"counting"}
    BY <1>1, <1>2
  <2> QED
    BY <1>1, <1>2, <2>1, CountsOfStep
<1>6. Counted'
  BY <1>1, <1>4, <1>5, CountsAreTallies, ClientFacts, SessionBounds DEF Counted, IInv
<1> QED
  BY <1>1, <1>2, <1>3, <1>6, CountsFromTallies, QuietStep

LEMMA CountRefusedKeeps ==
  ASSUME IInv, NEW p \in Clients, CountRefused(p)
  PROVE  IInv'
<1>1. /\ op' = [op EXCEPT ![p] = Idle] /\ op[p].pc = "counting" /\ refused' = refused + 1
      /\ UNCHANGED <<session, log, calls, abandoned, faults>>
  BY DEF CountRefused, Leave
<1>2. Idle \in Operation /\ Client(Idle) /\ Idle.pc = "idle"
  BY IdleHoldsNothing DEF Idle
<1>3. Tally(Routed)' = Tally(Routed)
  BY <1>1, <1>2, CountsOfStep DEF Routed
<1>4. /\ Tally({"counting"}) \in Nat /\ Tally({"counting"})' \in Nat
      /\ Tally({"counting"})' = Tally({"counting"}) - 1
  <2>1. op[p].pc \in {"counting"} /\ Idle.pc \notin {"counting"}
    BY <1>1, <1>2
  <2> QED
    BY <1>1, <1>2, <2>1, CountsOfStep
<1>5. Counted /\ Len(log) \in Nat /\ session.turns \in Nat
  BY CountsAreTallies, ClientFacts DEF IInv, Session
<1>6. Counted'
  BY <1>1, <1>3, <1>4, <1>5, SessionBounds DEF Counted
<1> QED
  BY <1>1, <1>2, <1>6, CountsFromTallies, QuietStep

-----------------------------------------------------------------------------
(* The actions that write to the log or the session.                       *)

LEMMA ReplyKeeps ==
  ASSUME IInv, NEW p \in Clients, NEW status \in Replies \cup {NoReply},
         op[p].pc \in {"chatting", "failing", "responding"},
         Reply(op[p].turn, status), Leave(p),
         UNCHANGED <<session, calls, refused, abandoned, faults>>
  PROVE  IInv'
<1> DEFINE t == op[p].turn
           e == [log[t] EXCEPT !.reply = status]
<1>1. t \in 1..Len(log) /\ log \in Seq(Turn)
  BY ClientFacts DEF Client, IInv, Files
<1>2. e \in Turn
  <2>1. log[t] \in Turn
    BY <1>1
  <2> QED
    BY <2>1 DEF Turn
<1>3. log' = [log EXCEPT ![t] = e]
  BY DEF Reply
<1> HIDE DEF t, e
<1>4. log' \in Seq(Turn) /\ Len(log') = Len(log)
  BY <1>1, <1>2, <1>3, ExceptSeq
<1>5. /\ op' = [op EXCEPT ![p] = Idle] /\ Idle \in Operation /\ Client(Idle)
      /\ op'[p] = Idle /\ \A q \in Clients \ {p} : op'[q] = op[q]
  BY IdleHoldsNothing DEF Leave, IInv
<1>6. DOMAIN log' = DOMAIN log
  BY <1>1, <1>4
<1>7. Files' /\ Client(op[p])'
  <2>1. Files'
    BY <1>4, <1>6 DEF IInv, Files
  <2>2. Client(op[p])'
    BY <1>4, <1>5, <1>6 DEF Client
  <2> QED
    BY <2>1, <2>2
<1>8. Counts'
  <2>1. /\ Counts /\ Len(log) \in Nat /\ session.turns \in Nat /\ op \in [Clients -> Operation]
    BY ClientFacts DEF IInv, Session
  <2>2. /\ op[p].pc \notin Routed /\ op'[p].pc \notin Routed
        /\ op[p].pc # "counting" /\ op'[p].pc # "counting"
    BY <1>5 DEF Routed, Idle
  <2>3. \A q \in Clients \ {p} : op'[q].pc = op[q].pc
    BY <1>5
  <2>4. Len(log') = Len(log) /\ session'.turns = session.turns /\ refused' = refused
    BY <1>4
  <2> QED
    BY <2>1, <2>2, <2>3, <2>4, CountsStay
<1>9. Len(log) <= Len(log') /\ Len(calls) <= Len(calls')
  BY <1>4, ClientFacts
<1> QED
  BY <1>5, <1>7, <1>8, <1>9, StepOfOne

LEMMA AnswersKeep ==
  ASSUME IInv, NEW p \in Clients,
         (\E status \in Replies : Chat(p, status)) \/ AnswerFailure(p) \/ Respond(p)
  PROVE  IInv'
<1>1. ASSUME NEW status \in Replies, Chat(p, status) PROVE IInv'
  BY <1>1, ReplyKeeps DEF Chat
<1>2. CASE AnswerFailure(p)
  <2>1. "workflow_failed" \in Replies
    BY DEF Replies
  <2> QED
    BY <1>2, <2>1, ReplyKeeps DEF AnswerFailure
<1>3. CASE Respond(p)
  <2>1. op[p].out \in Replies \cup {NoReply}
    BY ClientFacts DEF Operation
  <2> QED
    BY <1>3, <2>1, ReplyKeeps DEF Respond
<1> QED
  BY <1>1, <1>2, <1>3

LEMMA LogTurnKeeps ==
  ASSUME IInv, NEW p \in Clients, LogTurn(p)
  PROVE  IInv'
<1> DEFINE e == [workflow |-> op[p].workflow, reply |-> NoReply]
           o == [op[p] EXCEPT !.pc = "counting", !.copy = session, !.fresh = TRUE,
                              !.turn = Len(log) + 1]
<1>1. /\ op' = [op EXCEPT ![p] = o] /\ op[p].pc = "recording" /\ log' = Append(log, e)
      /\ UNCHANGED <<session, calls, refused, abandoned, faults>>
  BY DEF LogTurn
<1>2. e \in Turn /\ log \in Seq(Turn)
  BY ClientFacts DEF Turn, Operation, IInv, Files
<1>3. log' \in Seq(Turn) /\ Len(log') = Len(log) + 1 /\ Len(log) \in Nat /\ DOMAIN log' = 1..(Len(log) + 1)
      /\ DOMAIN log = 1..Len(log)
  <2> HIDE DEF e
  <2>1. log' \in Seq(Turn) /\ Len(log') = Len(log) + 1
    BY <1>1, <1>2, AppendProperties
  <2> QED
    BY <1>2, <2>1
<1>4. Tally(Routed) \in Nat /\ Tally(Routed) >= 1
  <2>1. p \in Placed(Routed)
    BY <1>1 DEF Placed, Routed
  <2> QED
    BY <2>1, TallyIsNat, FS_EmptySet DEF Tally
<1>5. Counted
  BY CountsAreTallies DEF IInv
<1>6. Len(log) + 1 <= MaxTurns
  BY <1>3, <1>4, <1>5, SessionBounds DEF Counted
<1>7. o \in Operation /\ o.pc = "counting"
  <2>1. Len(log) + 1 \in 0..MaxTurns /\ op[p] \in Operation /\ session \in Session
    BY <1>3, <1>6, ClientFacts, SessionBounds
  <2> QED
    BY <2>1 DEF Operation, Place
<1>8. op'[p] = o
  BY <1>1 DEF IInv
<1>9. Files'
  BY <1>1, <1>3 DEF IInv, Files
<1>10. Client(op[p])'
  <2>1. op[p].resumed => op[p].call # 0 /\ session.task # 0
    BY ClientFacts DEF Client
  <2> QED
    BY <1>1, <1>3, <1>8, <2>1, ClientFacts DEF Client, Operation
<1> HIDE DEF o
<1>11. Counts'
  <2>1. Tally(Routed)' = Tally(Routed) - 1
    BY <1>1, <1>7, CountsOfStep DEF Routed
  <2>2. /\ Tally({"counting"}) \in Nat /\ Tally({"counting"})' = Tally({"counting"}) + 1
    <3>1. op[p].pc \notin {"counting"} /\ o.pc \in {"counting"}
      BY <1>1, <1>7
    <3> QED
      BY <1>1, <1>7, <3>1, CountsOfStep
  <2>3. session.turns \in Nat /\ session' = session /\ refused' = refused /\ faults' = faults
    BY <1>1, ClientFacts DEF Session
  <2>4. Counted'
    <3> DEFINE r == Tally(Routed)  rr == Tally(Routed)'
               k == Tally({"counting"})  kk == Tally({"counting"})'
    <3>1. /\ r \in Nat /\ rr = r - 1 /\ k \in Nat /\ kk = k + 1
          /\ refused \in Nat /\ faults \in 0..MaxFaults /\ Len(log) + r <= MaxTurns
          /\ Len(log) - session.turns \in (refused + k)..(refused + k + faults)
      BY <1>4, <1>5, <2>1, <2>2 DEF Counted
    <3> HIDE DEF r, rr, k, kk
    <3>2. /\ Len(log') + rr <= MaxTurns
          /\ Len(log') - session.turns \in (refused + kk)..(refused + kk + faults)
      BY <1>3, <2>3, <3>1, SessionBounds, SMTT(40)
    <3> QED
      BY <2>3, <3>1, <3>2 DEF Counted, rr, kk
  <2> QED
    BY <2>4, CountsFromTallies
<1>12. Len(log) <= Len(log') /\ Len(calls) <= Len(calls') /\ session' = session
  BY <1>1, <1>3, ClientFacts
<1> QED
  BY <1>1, <1>7, <1>9, <1>10, <1>11, <1>12, StepOfOne

\* A save of the session: every copy is stale afterwards.
LEMMA SaveStep ==
  ASSUME IInv, NEW p \in Clients, NEW a, NEW n, NEW t, NEW place \in Place,
         SaveSession(p, a, n, t, place),
         [active |-> a, turns |-> n, task |-> t] \in Session,
         t \in 0..Len(log), session.task # 0 => t # 0, a # 0 => a \in DOMAIN calls,
         Client(op[p])',
         UNCHANGED <<log, calls, abandoned>>, Counts'
  PROVE  IInv'
<1>1. /\ \A q \in Clients \ {p} : op'[q] = [op[q] EXCEPT !.fresh = FALSE]
      /\ op'[p] = [op[p] EXCEPT !.fresh = FALSE, !.pc = place]
      /\ session' = [active |-> a, turns |-> n, task |-> t]
  <2>1. \A q \in Clients : op[q] \in Operation
    BY DEF IInv
  <2> QED
    BY <2>1 DEF SaveSession, Operation
<1>2. op' \in [Clients -> Operation]
  <2>1. /\ op' = [q \in Clients |-> [op[q] EXCEPT !.fresh = FALSE,
                                              !.pc = IF q = p THEN place ELSE @]]
        /\ \A q \in Clients : op[q] \in Operation
    BY DEF SaveSession, IInv
  <2>2. ASSUME NEW q \in Clients PROVE op'[q] \in Operation
    <3>1. op[q] \in Operation /\ op[p] \in Operation
      BY <2>1
    <3>2. CASE q = p
      BY <1>1, <3>1, <3>2 DEF Operation
    <3>3. CASE q # p
      <4>1. op'[q] = [op[q] EXCEPT !.fresh = FALSE]
        BY <1>1, <3>3
      <4> QED
        BY <3>1, <4>1 DEF Operation
    <3> QED
      BY <3>2, <3>3
  <2> QED
    BY <2>1, <2>2
<1>3. Files'
  BY <1>1 DEF IInv, Files
<1>4. ASSUME NEW q \in Clients \ {p} PROVE Client(op[q])'
  <2>1. op[q] \in Operation /\ Client(op[q])
    BY DEF IInv
  <2>2. ~op'[q].fresh
    BY <1>1, <2>1 DEF Operation
  <2>3. Files /\ Len(log) <= Len(log') /\ Len(calls) <= Len(calls')
    BY ClientFacts DEF IInv
  <2>4. session'.task = t
    BY <1>1
  <2> QED
    BY <1>1, <1>3, <2>1, <2>2, <2>3, <2>4, OthersKeep
<1> QED
  BY <1>2, <1>3, <1>4 DEF IInv

LEMMA CountTurnKeeps ==
  ASSUME IInv, NEW p \in Clients, CountTurn(p)
  PROVE  IInv'
<1> DEFINE t == IF op[p].workflow THEN op[p].turn ELSE op[p].copy.task
           place == IF op[p].workflow THEN "running" ELSE "chatting"
<1>1. /\ op[p].pc = "counting" /\ op[p].fresh /\ op[p].copy = session
      /\ op[p].turn \in 1..Len(log) /\ op[p] \in Operation /\ session \in Session
      /\ Len(log) \in Nat
      /\ session.task \in 0..Len(log) /\ op[p].workflow \in BOOLEAN
  <2>1. op[p].pc = "counting" /\ op[p].fresh
    BY DEF CountTurn, SaveSession
  <2> QED
    BY <2>1, ClientFacts DEF Client, Operation
<1>2. /\ SaveSession(p, session.active, session.turns + 1, t, place)
      /\ UNCHANGED <<log, calls, refused, abandoned, faults>>
  BY <1>1 DEF CountTurn
<1>3. Counted /\ Tally({"counting"}) \in Nat /\ Tally({"counting"}) >= 1
  <2>1. p \in Placed({"counting"})
    BY <1>1 DEF Placed
  <2> QED
    BY <2>1, TallyIsNat, FS_EmptySet, CountsAreTallies DEF Tally, IInv
<1>4. session.turns + 1 \in 0..MaxTurns /\ session.turns \in Nat
  <2>1. Len(log) <= MaxTurns
    BY ClientFacts
  <2>2. refused \in Nat /\ Len(log) - session.turns >= refused + Tally({"counting"}) /\ session.turns \in Nat
    BY <1>1, <1>3, SessionBounds DEF Counted, Session
  <2> QED
    BY <1>1, <1>3, <2>1, <2>2, SessionBounds, SMTT(40)
<1>5. /\ t \in 0..Len(log) /\ (session.task # 0 => t # 0) /\ place \in {"running", "chatting"}
      /\ place = "running" => t # 0
  BY <1>1
<1> HIDE DEF t, place
<1>6. place \in Place /\ [active |-> session.active, turns |-> session.turns + 1, task |-> t] \in Session
  <2>1. t \in 0..MaxTurns
    BY <1>1, <1>5, ClientFacts, SessionBounds
  <2> QED
    BY <1>1, <1>4, <1>5, <2>1 DEF Session, Place
<1>7. /\ \A q \in Clients \ {p} : op'[q].pc = op[q].pc
      /\ op'[p] = [op[p] EXCEPT !.fresh = FALSE, !.pc = place]
      /\ session' = [active |-> session.active, turns |-> session.turns + 1, task |-> t]
  <2>1. \A q \in Clients : op[q] \in Operation
    BY DEF IInv
  <2> QED
    BY <1>2, <2>1 DEF SaveSession, Operation
<1>8. Client(op[p])'
  <2>1. /\ op'[p].pc = place /\ ~op'[p].fresh /\ op'[p].turn = op[p].turn
        /\ op'[p].copy = op[p].copy /\ op'[p].call = op[p].call /\ op'[p].out = op[p].out
        /\ op'[p].resumed = op[p].resumed
    BY <1>1, <1>7 DEF Operation
  <2>2. session'.task = t
    BY <1>7
  <2> QED
    BY <1>1, <1>2, <1>5, <2>1, <2>2, ClientFacts DEF Client
<1>9. Counts'
  <2>1. op'[p].pc = place
    BY <1>1, <1>7 DEF Operation
  <2>2. Tally(Routed)' = Tally(Routed) /\ Tally(Routed) \in Nat
    <3>1. op[p].pc \notin Routed /\ op'[p].pc \notin Routed
      BY <1>1, <1>5, <2>1 DEF Routed
    <3> QED
      BY <1>7, <3>1, TallyMoves
  <2>3. Tally({"counting"})' = Tally({"counting"}) - 1
    <3>1. op[p].pc \in {"counting"} /\ op'[p].pc \notin {"counting"}
      BY <1>1, <1>5, <2>1
    <3> QED
      BY <1>7, <3>1, TallyMoves
  <2>4. session'.turns = session.turns + 1
    BY <1>7
  <2>5. Counted'
    <3> DEFINE r == Tally(Routed)  rr == Tally(Routed)'
               k == Tally({"counting"})  kk == Tally({"counting"})'
    <3>1. /\ r \in Nat /\ rr = r /\ k \in Nat /\ kk = k - 1
          /\ refused \in Nat /\ faults \in 0..MaxFaults /\ Len(log) + r <= MaxTurns
          /\ Len(log) - session.turns \in (refused + k)..(refused + k + faults)
      BY <1>3, <2>2, <2>3 DEF Counted
    <3> HIDE DEF r, rr, k, kk
    <3>2. /\ Len(log') + rr <= MaxTurns
          /\ Len(log') - session'.turns \in (refused + kk)..(refused + kk + faults)
      BY <1>1, <1>2, <1>4, <2>4, <3>1, SessionBounds, SMTT(40)
    <3> QED
      BY <1>2, <3>1, <3>2 DEF Counted, rr, kk
  <2> QED
    BY <2>5, CountsFromTallies
<1>10. session.active # 0 => session.active \in DOMAIN calls
  BY ClientFacts
<1> QED
  BY <1>2, <1>5, <1>6, <1>8, <1>9, <1>10, SaveStep

LEMMA WriteReferenceKeeps ==
  ASSUME IInv, NEW p \in Clients, WriteReference(p)
  PROVE  IInv'
<1> DEFINE a == IF op[p].out \in PauseStates THEN op[p].call ELSE 0
<1>1. /\ op[p].pc = "writing" /\ op[p].fresh /\ op[p].copy = session
      /\ op[p] \in Operation /\ session \in Session /\ session.task \in 0..Len(log)
  <2>1. op[p].pc = "writing" /\ op[p].fresh
    BY DEF WriteReference, SaveSession
  <2> QED
    BY <2>1, ClientFacts DEF Client
<1>2. /\ SaveSession(p, a, session.turns, session.task, "responding")
      /\ UNCHANGED <<log, calls, refused, abandoned, faults>>
  BY <1>1 DEF WriteReference
<1>3. a \in 0..MaxCalls /\ (a # 0 => a \in DOMAIN calls)
  BY <1>1, ClientFacts, SessionBounds DEF Client, Operation
<1> HIDE DEF a
<1>4. "responding" \in Place /\ [active |-> a, turns |-> session.turns, task |-> session.task] \in Session
  BY <1>1, <1>3 DEF Session, Place
<1>5. /\ \A q \in Clients \ {p} : op'[q].pc = op[q].pc
      /\ op'[p] = [op[p] EXCEPT !.fresh = FALSE, !.pc = "responding"]
      /\ session' = [active |-> a, turns |-> session.turns, task |-> session.task]
  <2>1. \A q \in Clients : op[q] \in Operation
    BY DEF IInv
  <2> QED
    BY <1>2, <2>1 DEF SaveSession, Operation
<1>6. Client(op[p])'
  <2>1. /\ op'[p].pc = "responding" /\ ~op'[p].fresh /\ op'[p].turn = op[p].turn
        /\ op'[p].copy = op[p].copy /\ op'[p].call = op[p].call /\ op'[p].out = op[p].out
        /\ op'[p].resumed = op[p].resumed
    BY <1>1, <1>5 DEF Operation
  <2> QED
    BY <1>1, <1>2, <2>1, ClientFacts DEF Client
<1>7. Counts'
  <2>1. /\ Counts /\ Len(log) \in Nat /\ session.turns \in Nat /\ op \in [Clients -> Operation]
    BY ClientFacts DEF IInv, Session
  <2>2. op'[p].pc = "responding"
    BY <1>1, <1>5 DEF Operation
  <2>3. /\ op[p].pc \notin Routed /\ op'[p].pc \notin Routed
        /\ op[p].pc # "counting" /\ op'[p].pc # "counting"
    BY <1>1, <2>2 DEF Routed
  <2>4. Len(log') = Len(log) /\ session'.turns = session.turns /\ refused' = refused /\ faults' = faults
    BY <1>2, <1>5
  <2> QED
    BY <1>5, <2>1, <2>3, <2>4, CountsStay
<1> QED
  BY <1>1, <1>2, <1>3, <1>4, <1>6, <1>7, SaveStep

-----------------------------------------------------------------------------
(* The actions that write a checkpoint.                                    *)

LEMMA CallToolKeeps ==
  ASSUME IInv, NEW p \in Clients, NEW state \in FirstStates, CallTool(p, state)
  PROVE  IInv'
<1> DEFINE e == [task |-> op[p].turn, state |-> state, rev |-> 1]
           o == [op[p] EXCEPT !.pc = PlaceAfter(state), !.call = Len(calls) + 1, !.rev = 1]
<1>1. /\ op' = [op EXCEPT ![p] = o] /\ op[p].pc = "running" /\ calls' = Append(calls, e)
      /\ Len(calls) < MaxCalls
      /\ UNCHANGED <<session, log, refused, abandoned, faults>>
  BY DEF CallTool
<1>2. /\ op[p].turn \in 1..Len(log) /\ Len(log) \in Nat /\ Len(log) <= MaxTurns /\ session.task # 0
      /\ op[p] \in Operation /\ op'[p] = o
  BY <1>1, ClientFacts DEF Client, IInv
<1>3. e \in CallFile /\ e.rev + Need(e.state) <= MaxRevision
  BY <1>2, SessionBounds DEF CallFile, FirstStates, ExecutionState, Need, Terminal
<1>4. /\ calls' \in Seq(CallFile) /\ Len(calls') = Len(calls) + 1 /\ Len(calls) \in Nat
      /\ DOMAIN calls = 1..Len(calls) /\ DOMAIN calls' = 1..(Len(calls) + 1)
      /\ \A c \in DOMAIN calls : calls'[c] = calls[c]
      /\ calls'[Len(calls) + 1] = e
  <2> HIDE DEF e
  <2>1. calls \in Seq(CallFile)
    BY DEF IInv, Files
  <2>2. /\ calls' \in Seq(CallFile) /\ Len(calls') = Len(calls) + 1
        /\ \A c \in 1..Len(calls) : calls'[c] = calls[c]
        /\ calls'[Len(calls) + 1] = e
    BY <1>1, <1>3, <2>1, AppendProperties
  <2> QED
    BY <2>1, <2>2
<1>5. Files'
  <2>1. \A c \in DOMAIN calls' :
          calls'[c].task \in DOMAIN log' /\ calls'[c].rev + Need(calls'[c].state) <= MaxRevision
    <3>1. \A c \in DOMAIN calls :
            calls'[c].task \in DOMAIN log' /\ calls'[c].rev + Need(calls'[c].state) <= MaxRevision
      BY <1>1, <1>4 DEF IInv, Files
    <3>2. /\ calls'[Len(calls) + 1].task \in DOMAIN log'
          /\ calls'[Len(calls) + 1].rev + Need(calls'[Len(calls) + 1].state) <= MaxRevision
      BY <1>1, <1>2, <1>3, <1>4, ClientFacts
    <3> QED
      BY <1>4, <3>1, <3>2
  <2>2. Len(calls') <= MaxCalls
    BY <1>1, <1>4, SessionBounds
  <2> HIDE DEF e, o
  <2> QED
    BY <1>1, <1>2, <1>4, <2>1, <2>2 DEF IInv, Files
<1>6. PlaceAfter(state) \in {"handler", "paused"}
  BY DEF PlaceAfter, FirstStates, Terminal
<1>7. o \in Operation /\ o.pc \in {"handler", "paused"} /\ o.pc \in Untallied
  <2>1. Len(calls) + 1 \in 0..MaxCalls /\ 1 \in 0..MaxRevision
    BY <1>1, <1>4, SessionBounds
  <2> HIDE DEF e
  <2> QED
    BY <1>2, <1>6, <2>1 DEF Operation, Place, Untallied
<1>8. Client(op[p])'
  <2>1. /\ o.pc = PlaceAfter(state) /\ o.fresh = op[p].fresh /\ o.turn = op[p].turn
        /\ o.copy = op[p].copy /\ o.call = Len(calls) + 1 /\ o.out = op[p].out
        /\ o.resumed = op[p].resumed
    BY <1>2 DEF Operation
  <2> HIDE DEF o, e
  <2> QED
    BY <1>1, <1>2, <1>4, <1>6, <2>1, ClientFacts DEF Client
<1> HIDE DEF o, e
<1>9. Counts'
  <2>1. /\ Counts /\ session.turns \in Nat /\ op \in [Clients -> Operation]
    BY ClientFacts DEF IInv, Session
  <2>2. /\ op[p].pc \notin Routed /\ op'[p].pc \notin Routed
        /\ op[p].pc # "counting" /\ op'[p].pc # "counting"
    BY <1>1, <1>2, <1>7 DEF Routed
  <2>3. \A q \in Clients \ {p} : op'[q].pc = op[q].pc
    BY <1>1
  <2>4. Len(log') = Len(log) /\ session'.turns = session.turns /\ refused' = refused /\ faults' = faults
    BY <1>1
  <2> QED
    BY <1>2, <2>1, <2>2, <2>3, <2>4, CountsStay
<1>10. Len(log) <= Len(log') /\ Len(calls) <= Len(calls') /\ session' = session
  BY <1>1, <1>2, <1>4
<1> QED
  BY <1>1, <1>5, <1>7, <1>8, <1>9, <1>10, StepOfOne

\* A step of the lifecycle leaves enough saves for the rest.
LEMMA NeedShrinks ==
  ASSUME NEW from \in ExecutionState, NEW to \in ExecutionState, <<from, to>> \in Lifecycle
  PROVE  Need(from) \in 0..5 /\ Need(to) \in 0..5 /\ (to # "pending" => Need(to) + 1 <= Need(from))
BY DEF Lifecycle, ExecutionState, FirstStates, Need, Terminal

LEMMA MoveCallKeeps ==
  ASSUME IInv, NEW p \in Clients, NEW to \in ExecutionState, MoveCall(p, to),
         op[p].pc \in {"handler", "settling", "retrying"},
         UNCHANGED <<session, log, refused, abandoned, faults>>
  PROVE  IInv'
<1> DEFINE c == op[p].call
           e == [calls[c] EXCEPT !.state = to, !.rev = calls[c].rev + 1]
           t == IF op[p].resumed THEN calls[c].task ELSE op[p].turn
           o == [op[p] EXCEPT !.pc = PlaceAfter(to), !.rev = calls[c].rev + 1, !.turn = t]
<1>1. /\ c \in DOMAIN calls /\ calls[c] \in CallFile /\ calls[c].task \in DOMAIN log
      /\ calls \in Seq(CallFile) /\ DOMAIN calls = 1..Len(calls) /\ session.task # 0
      /\ calls[c].rev + Need(calls[c].state) <= MaxRevision
      /\ op[p] \in Operation
      /\ DOMAIN log = 1..Len(log) /\ Len(log) \in Nat /\ Len(log) <= MaxTurns
  BY ClientFacts, SMTT(40) DEF Client, IInv, Files
<1>2. /\ op' = [op EXCEPT ![p] = o] /\ calls' = [calls EXCEPT ![c] = e]
      /\ <<calls[c].state, to>> \in Lifecycle
      /\ to = "pending" => calls[c].rev + RetrySaves <= MaxRevision
  BY <1>1 DEF MoveCall
<1>3. t \in 1..Len(log)
  BY <1>1, ClientFacts DEF Client, Operation
<1>4. PlaceAfter(to) \in {"handler", "retrying", "settling", "paused", "running"}
  BY DEF PlaceAfter, ExecutionState, Terminal
<1>5. /\ calls[c].rev + 1 + Need(to) <= MaxRevision /\ calls[c].rev + 1 \in 1..MaxRevision
  <2>1. calls[c].state \in ExecutionState /\ calls[c].rev \in Nat
    BY <1>1 DEF CallFile
  <2>2. Need(calls[c].state) \in Nat /\ Need(to) \in 0..5 /\ (to # "pending" => Need(to) + 1 <= Need(calls[c].state))
    BY <1>2, <2>1, NeedShrinks
  <2>3. to = "pending" => calls[c].rev + 6 <= MaxRevision
    BY <1>2 DEF RetrySaves
  <2> DEFINE r == calls[c].rev
             n == Need(calls[c].state)
  <2>4. r + n <= MaxRevision /\ r \in Nat /\ n \in Nat /\ MaxRevision \in Nat
        /\ (to = "pending" => r + 6 <= MaxRevision) /\ Need(to) \in 0..5
        /\ (to # "pending" => Need(to) + 1 <= n)
    BY <1>1, <2>1, <2>2, <2>3, SessionBounds
  <2> HIDE DEF c, r, n
  <2>5. r + 1 + Need(to) <= MaxRevision /\ r + 1 \in 1..MaxRevision
    <3>1. CASE to = "pending"
      BY <2>4, <3>1
    <3>2. CASE to # "pending"
      BY <2>4, <3>2
    <3> QED
      BY <3>1, <3>2
  <2> QED
    BY <2>5 DEF r
<1>6. e \in CallFile /\ e.task = calls[c].task /\ e.state = to /\ e.rev = calls[c].rev + 1
  BY <1>1, <1>5 DEF CallFile
<1> HIDE DEF e
<1>7. op'[p] = o
  BY <1>2 DEF IInv
<1>8. o \in Operation /\ o.pc \in {"handler", "retrying", "settling", "paused", "running"} /\ o.pc \in Untallied
      /\ o.turn = t /\ o.call = c /\ o.fresh = op[p].fresh /\ o.copy = op[p].copy
      /\ o.resumed = op[p].resumed /\ o.out = op[p].out
  <2>1. t \in 0..MaxTurns /\ calls[c].rev + 1 \in 0..MaxRevision /\ c = op[p].call
    BY <1>1, <1>3, <1>5, SessionBounds, SMTT(40)
  <2> HIDE DEF t, c
  <2> QED
    BY <1>1, <1>4, <2>1 DEF Operation, Place, Untallied
<1>9. /\ calls' \in Seq(CallFile) /\ Len(calls') = Len(calls) /\ DOMAIN calls' = DOMAIN calls
      /\ \A d \in DOMAIN calls : calls'[d] = IF d = c THEN e ELSE calls[d]
  <2> HIDE DEF c
  <2>1. /\ calls' \in Seq(CallFile) /\ Len(calls') = Len(calls)
        /\ \A d \in 1..Len(calls) : calls'[d] = IF d = c THEN e ELSE calls[d]
    BY <1>1, <1>2, <1>6, ExceptSeq
  <2> QED
    BY <1>1, <2>1
<1>10. Files'
  <2>1. ASSUME NEW d \in DOMAIN calls'
        PROVE  calls'[d].task \in DOMAIN log' /\ calls'[d].rev + Need(calls'[d].state) <= MaxRevision
    <3>1. CASE d = c
      BY <1>1, <1>5, <1>6, <1>9, <3>1
    <3>2. CASE d # c
      BY <1>9, <3>2 DEF IInv, Files
    <3> QED
      BY <3>1, <3>2
  <2>2. session' = session /\ log' = log /\ abandoned' = abandoned /\ Files
    BY DEF IInv
  <2> HIDE DEF c, t, o
  <2> QED
    BY <1>1, <1>9, <2>1, <2>2 DEF Files
<1> HIDE DEF o, t
<1>11. Client(op[p])'
  <2>1. Client(op[p]) /\ session' = session /\ log' = log
    BY ClientFacts
  <2> QED
    BY <1>1, <1>3, <1>7, <1>8, <1>9, <2>1 DEF Client
<1>12. Counts'
  <2>1. /\ Counts /\ session.turns \in Nat /\ op \in [Clients -> Operation]
    BY ClientFacts DEF IInv, Session
  <2>2. /\ op[p].pc \notin Routed /\ op'[p].pc \notin Routed
        /\ op[p].pc # "counting" /\ op'[p].pc # "counting"
    BY <1>7, <1>8 DEF Routed
  <2>3. \A q \in Clients \ {p} : op'[q].pc = op[q].pc
    BY <1>2
  <2>4. Len(log') = Len(log) /\ session'.turns = session.turns
    OBVIOUS
  <2> QED
    BY <1>1, <2>1, <2>2, <2>3, <2>4, CountsStay
<1>13. Len(log) <= Len(log') /\ Len(calls) <= Len(calls') /\ session' = session
  BY <1>9, ClientFacts
<1> QED
  BY <1>2, <1>8, <1>10, <1>11, <1>12, <1>13, StepOfOne

LEMMA CallsKeep ==
  ASSUME IInv, NEW p \in Clients, HandlerDone(p) \/ Settle(p) \/ Retry(p)
  PROVE  IInv'
<1>1. CASE HandlerDone(p)
  <2>1. "completed" \in ExecutionState
    BY DEF ExecutionState
  <2> QED
    BY <1>1, <2>1, MoveCallKeeps DEF HandlerDone
<1>2. CASE Settle(p)
  <2>1. PICK to \in ExecutionState : MoveCall(p, to)
    BY <1>2 DEF Settle
  <2> QED
    BY <1>2, <2>1, MoveCallKeeps DEF Settle
<1>3. CASE Retry(p)
  <2>1. PICK to \in ExecutionState : MoveCall(p, to)
    BY <1>3 DEF Retry
  <2> QED
    BY <1>3, <2>1, MoveCallKeeps DEF Retry
<1> QED
  BY <1>1, <1>2, <1>3

-----------------------------------------------------------------------------
(* Any clients.                                                            *)

LEMMA InitHolds == Init => IInv
<1> SUFFICES ASSUME Init PROVE IInv
  OBVIOUS
<1>1. op \in [Clients -> Operation] /\ \A p \in Clients : op[p] = Idle
  BY IdleHoldsNothing DEF Init
<1>2. Files
  BY SessionBounds DEF Init, Files, NewSession, Session
<1>3. \A p \in Clients : Client(op[p])
  BY <1>1, SessionBounds DEF Init, Client, Idle, NewSession, NoReply, PauseStates
<1>4. Counts
  <2>1. Placed(Routed) = {} /\ Placed({"counting"}) = {}
    BY <1>1 DEF Placed, Routed, Idle
  <2>2. Tally(Routed) = 0 /\ Tally({"counting"}) = 0
    BY <2>1, FS_EmptySet DEF Tally
  <2>3. Len(log) = 0 /\ session.turns = 0 /\ refused = 0 /\ faults = 0
    BY DEF Init, NewSession
  <2>4. Counted
    BY <2>2, <2>3, SessionBounds DEF Counted
  <2> QED
    BY <2>4, CountsAreTallies
<1> QED
  BY <1>1, <1>2, <1>3, <1>4 DEF IInv

LEMMA StepKeeps ==
  ASSUME IInv, [Next]_vars
  PROVE  IInv'
<1>1. CASE UNCHANGED vars
  <2>1. UNCHANGED <<session, log, calls, op, refused, abandoned, faults>>
    BY <1>1 DEF vars
  <2>2. Files'
    BY <2>1 DEF IInv, Files
  <2>3. \A p \in Clients : Client(op[p])'
    BY <2>1 DEF IInv, Client
  <2>4. Counts'
    BY <2>1 DEF IInv, Counts, Slots, TurnsAreCounted, Placed
  <2> QED
    BY <2>1, <2>2, <2>3, <2>4 DEF IInv
<1>2. ASSUME NEW p \in Clients, Step(p) PROVE IInv'
  <2>1. ASSUME NEW workflow \in BOOLEAN, Route(p, workflow) PROVE IInv'
    BY <2>1, RouteKeeps
  <2>2. ASSUME NEW status \in Replies, Chat(p, status) PROVE IInv'
    BY <2>2, AnswersKeep
  <2>3. ASSUME NEW status \in Replies, Finish(p, status) PROVE IInv'
    BY <2>3, FinishKeeps
  <2>4. ASSUME NEW state \in FirstStates, CallTool(p, state) PROVE IInv'
    BY <2>4, CallToolKeeps
  <2>5. ASSUME NEW ofModel \in BOOLEAN, RunRaises(p, ofModel) PROVE IInv'
    BY <2>5, RunRaisesKeeps
  <2>6. CASE LogTurn(p) \/ CountTurn(p) \/ CountRefused(p)
    BY <2>6, LogTurnKeeps, CountTurnKeeps, CountRefusedKeeps
  <2>7. CASE HandlerDone(p) \/ Settle(p) \/ Retry(p)
    BY <2>7, CallsKeep
  <2>8. CASE CallConflict(p) \/ AnswerFailure(p) \/ Respond(p)
    BY <2>8, CallConflictKeeps, AnswersKeep
  <2>9. CASE ReadPause(p) \/ LoadToBind(p) \/ FindReference(p) \/ LoadToClear(p)
    BY <2>9, ReadPauseKeeps, LoadToBindKeeps, FindReferenceKeeps, LoadToClearKeeps
  <2>10. CASE WriteReference(p)
    BY <2>10, WriteReferenceKeeps
  <2>11. CASE PauseAgain(p) \/ ReferenceRefused(p) \/ ResumeRefused(p)
    BY <2>11, PauseAgainKeeps, LeavesKeep
  <2> QED
    BY <1>2, <2>1, <2>2, <2>3, <2>4, <2>5, <2>6, <2>7, <2>8, <2>9, <2>10, <2>11 DEF Step
<1>3. ASSUME NEW p \in Clients, Submit(p) \/ Resume(p) \/ GiveUpApproval(p) \/ Fault(p)
      PROVE  IInv'
  BY <1>3, SubmitKeeps, ResumeKeeps, GiveUpApprovalKeeps, FaultKeeps
<1> QED
  BY <1>1, <1>2, <1>3 DEF Next

\* The invariant for any number of clients.
THEOREM Invariance == Spec => []IInv
<1>1. Init => IInv
  BY InitHolds
<1>2. IInv /\ [Next]_vars => IInv'
  BY StepKeeps
<1> QED
  BY <1>1, <1>2, PTL DEF Spec

\* Types, and that a client that runs or answers a turn names one that is logged
\* (controller.py, session.py).
THEOREM TypeCorrect == Spec => []TypeOK
<1>1. ASSUME IInv PROVE TypeOK
  <2>1. \A p \in Clients :
          op[p].pc \in {"counting", "chatting", "running", "syncing", "clearing",
                        "writing", "responding", "failing"} => op[p].turn \in DOMAIN log
    BY <1>1 DEF IInv, Client
  <2>2. Len(log) <= MaxTurns
    <3>1. Counted /\ Tally(Routed) \in Nat /\ Len(log) \in Nat
      BY <1>1, CountsAreTallies, TallyIsNat DEF IInv, Files
    <3> QED
      BY <3>1, SessionBounds DEF Counted
  <2>3. refused \in Nat /\ faults \in 0..MaxFaults
    BY <1>1 DEF IInv, Counts
  <2> QED
    BY <1>1, <2>1, <2>2, <2>3 DEF IInv, Files, TypeOK
<1>2. IInv => TypeOK
  BY <1>1
<1> QED
  BY <1>2, Invariance, PTL

\* However the clients of a session interleave, no update of the session is
\* overwritten by a stale one: the turns the session does not count were refused, are
\* about to be counted, or were lost by a fault each (session.py record_turn).
THEOREM NoCountIsOverwritten == Spec => []TurnsAreCounted
<1>1. IInv => TurnsAreCounted
  BY DEF IInv, Counts
<1> QED
  BY <1>1, Invariance, PTL

-----------------------------------------------------------------------------
(* One operation at a time: what OneInv says of the only client.           *)

LEMMA OneFacts ==
  ASSUME IInv, OneInv, NEW p, Clients = {p}
  PROVE  /\ Alone(op[p]) /\ ReferenceIsOfLastTask /\ p \in Clients
         /\ \A c : Held(c) <=> op[p].pc \notin {"idle", "failing"} /\ op[p].call = c
BY DEF OneInv, Held

LEMMA LostIsFinite ==
  ASSUME IInv
  PROVE  IsFiniteSet(Lost) /\ Cardinality(Lost) \in Nat
<1>1. IsFiniteSet(DOMAIN calls)
  <2>1. DOMAIN calls = 1..Len(calls) /\ Len(calls) \in Nat
    BY DEF IInv, Files
  <2> QED
    BY <2>1, FS_Interval
<1> QED
  BY <1>1, FS_Subset, FS_CardinalityType DEF Lost

\* No call is lost, or there was a fault and one is.
LEMMA OneConcludes ==
  ASSUME IInv, IInv', OneInv, NEW p, Clients = {p},
         Alone(op[p])', ReferenceIsOfLastTask',
         NEW x, NEW n \in {0, 1}, faults' = faults + n,
         \A c \in DOMAIN calls' : Gone(c)' => c \in DOMAIN calls /\ (Gone(c) \/ (n = 1 /\ c = x))
  PROVE  OneInv'
<1>1. \A q \in Clients : Alone(op[q])'
  OBVIOUS
<1>2. IsFiniteSet(Lost) /\ Cardinality(Lost) \in Nat /\ Cardinality(Lost) <= faults /\ faults \in Nat
  BY LostIsFinite, SessionBounds DEF OneInv, IInv, Counts
<1> DEFINE L == Lost  LL == Lost'
<1>3. CASE n = 0
  <2>1. LL \in SUBSET L
    BY <1>3 DEF Lost
  <2>2. Cardinality(LL) <= Cardinality(L)
    <3> HIDE DEF L, LL
    <3> QED
      BY <1>2, <2>1, FS_Subset DEF L
  <2>3. IsFiniteSet(LL) /\ Cardinality(LL) \in Nat
    BY <1>2, <2>1, FS_Subset, FS_CardinalityType
  <2>4. (Cardinality(Lost) <= faults)'
    BY <1>2, <1>3, <2>2, <2>3
  <2> QED
    BY <1>1, <2>4 DEF OneInv
<1>4. CASE n = 1
  <2>1. LL \in SUBSET (L \cup {x})
    BY <1>4 DEF Lost
  <2>2. IsFiniteSet(L \cup {x}) /\ Cardinality(L \cup {x}) \in Nat /\ Cardinality(L \cup {x}) <= Cardinality(L) + 1
    <3> HIDE DEF L
    <3>1. IsFiniteSet(L) /\ Cardinality(L) \in Nat
      BY <1>2 DEF L
    <3>2. /\ IsFiniteSet(L \cup {x})
          /\ Cardinality(L \cup {x}) = IF x \in L THEN Cardinality(L) ELSE Cardinality(L) + 1
      BY <3>1, FS_AddElement
    <3> QED
      BY <3>1, <3>2
  <2>3. IsFiniteSet(LL) /\ Cardinality(LL) \in Nat /\ Cardinality(LL) <= Cardinality(L \cup {x})
    <3> HIDE DEF L, LL
    <3> QED
      BY <2>1, <2>2, FS_Subset, FS_CardinalityType
  <2>4. (Cardinality(Lost) <= faults)'
    BY <1>2, <1>4, <2>2, <2>3
  <2> QED
    BY <1>1, <2>4 DEF OneInv
<1> QED
  BY <1>3, <1>4

\* A step that changes no file and keeps the call, or lets go of one that needs nothing.
LEMMA OneQuiet ==
  ASSUME IInv, IInv', OneInv, NEW p, Clients = {p}, NEW o, op' = [op EXCEPT ![p] = o],
         UNCHANGED <<session, log, calls, abandoned, faults>>, Alone(o),
         \/ o.pc \notin {"idle", "failing"} /\ o.call = op[p].call
         \/ Spent(op[p].call) \/ op[p].call = session.active \/ op[p].pc = "failing"
  PROVE  OneInv'
<1>1. op'[p] = o /\ op[p].call \in 0..MaxCalls /\ DOMAIN calls = 1..Len(calls) /\ Len(calls) \in Nat
  BY ClientFacts DEF IInv, Operation
<1>2. Alone(op[p])'
  BY <1>1 DEF Alone, Spent, Pausing
<1>3. ReferenceIsOfLastTask'
  BY DEF OneInv, ReferenceIsOfLastTask
<1>4. ASSUME NEW c \in DOMAIN calls', Gone(c)' PROVE c \in DOMAIN calls /\ Gone(c)
  <2>1. /\ c \in DOMAIN calls /\ c # 0 /\ calls[c].state \notin Terminal
        /\ c \in abandoned \/ (c # session.active /\ ~Held(c)')
    BY <1>1, <1>4 DEF Gone
  <2>2. CASE c \in abandoned
    BY <2>1, <2>2 DEF Gone
  <2>3. CASE c \notin abandoned
    <3>1. ~(o.pc \notin {"idle", "failing"} /\ o.call = c)
      BY <1>1, <2>1, <2>3 DEF Held
    <3>2. ~(op[p].pc \notin {"idle", "failing"} /\ op[p].call = c)
      BY <2>1, <2>3, <3>1 DEF Spent
    <3> QED
      BY <2>1, <2>3, <3>2, OneFacts DEF Gone
  <2> QED
    BY <2>2, <2>3
<1>5. faults' = faults + 0
  BY SessionBounds DEF IInv, Counts
<1> QED
  BY <1>2, <1>3, <1>4, <1>5, OneConcludes

\* A fault: the call in hand may be out of reach afterwards.
LEMMA OneLoss ==
  ASSUME IInv, IInv', OneInv, NEW p, Clients = {p}, Alone(op[p])',
         UNCHANGED <<session, log, calls>>, faults' = faults + 1,
         abandoned' = abandoned \/ abandoned' = abandoned \cup {op[p].call}
  PROVE  OneInv'
<1>3. ReferenceIsOfLastTask'
  BY DEF OneInv, ReferenceIsOfLastTask
<1>4. ASSUME NEW c \in DOMAIN calls', Gone(c)'
      PROVE  c \in DOMAIN calls /\ (Gone(c) \/ c = op[p].call)
  <2>1. /\ c \in DOMAIN calls /\ calls[c].state \notin Terminal
        /\ c \in abandoned' \/ (c # session.active /\ ~Held(c)')
    BY <1>4 DEF Gone
  <2>2. c \in abandoned => Gone(c)
    BY <2>1 DEF Gone
  <2>3. ASSUME c # session.active, c # op[p].call PROVE Gone(c)
    BY <2>1, <2>3, OneFacts DEF Gone
  <2> QED
    BY <2>1, <2>2, <2>3
<1> DEFINE x == op[p].call
<1>5. \E y : \A c \in DOMAIN calls' : Gone(c)' => c \in DOMAIN calls /\ (Gone(c) \/ (1 = 1 /\ c = y))
  <2>1. \A c \in DOMAIN calls' : Gone(c)' => c \in DOMAIN calls /\ (Gone(c) \/ (1 = 1 /\ c = x))
    BY <1>4
  <2> HIDE DEF x
  <2> QED
    BY <2>1
<1> QED
  BY <1>3, <1>5, OneConcludes

LEMMA IdleIsAlone == Alone(Idle)
BY DEF Alone, Idle, Pausing, NoReply, PauseStates

LEMMA OneLeaves ==
  ASSUME IInv, IInv', OneInv, NEW p, Clients = {p}, Leave(p),
         UNCHANGED <<session, log, calls, abandoned, faults>>,
         Spent(op[p].call) \/ op[p].call = session.active \/ op[p].pc = "failing"
  PROVE  OneInv'
BY IdleIsAlone, OneQuiet DEF Leave

LEMMA OneRefusals ==
  ASSUME IInv, IInv', OneInv, NEW p, Clients = {p},
         CountRefused(p) \/ ReferenceRefused(p) \/ CallConflict(p) \/ ResumeRefused(p)
  PROVE  OneInv'
<1>1. ~CountRefused(p) /\ ~ReferenceRefused(p) /\ ~CallConflict(p)
  BY OneFacts DEF CountRefused, ReferenceRefused, CallConflict, Alone
<1>2. ResumeRefused(p) /\ op[p].call = session.active
  BY <1>1, OneFacts DEF ResumeRefused, Alone
<1> QED
  BY <1>2, OneLeaves DEF ResumeRefused

LEMMA OneSubmit ==
  ASSUME IInv, IInv', OneInv, NEW p, Clients = {p}, Submit(p)
  PROVE  OneInv'
<1> DEFINE o == [Idle EXCEPT !.pc = "routing", !.copy = session, !.fresh = TRUE]
<1>1. /\ op' = [op EXCEPT ![p] = o]
      /\ UNCHANGED <<session, log, calls, abandoned, faults>>
  BY DEF Submit
<1>2. Alone(o)
  BY OneFacts, ClientFacts DEF Submit, Alone, Operation, Pausing, Spent, Idle, NoReply, PauseStates
<1>3. \/ o.pc \notin {"idle", "failing"} /\ o.call = op[p].call
      \/ Spent(op[p].call)
  BY OneFacts, ClientFacts DEF Submit, Alone, Operation, Spent
<1> HIDE DEF o
<1> QED
  BY <1>1, <1>2, <1>3, OneQuiet

LEMMA OneFinish ==
  ASSUME IInv, IInv', OneInv, NEW p, Clients = {p}, NEW status \in Replies, Finish(p, status)
  PROVE  OneInv'
<1> DEFINE o == [op[p] EXCEPT !.pc = "syncing", !.out = status]
<1>1. /\ op' = [op EXCEPT ![p] = o]
      /\ UNCHANGED <<session, log, calls, abandoned, faults>>
  BY DEF Finish
<1>2. Alone(o)
  BY OneFacts, ClientFacts DEF Finish, Alone, Operation, Pausing, Spent, PauseStates
<1>3. \/ o.pc \notin {"idle", "failing"} /\ o.call = op[p].call
      \/ Spent(op[p].call)
  BY OneFacts, ClientFacts DEF Finish, Alone, Operation, Spent
<1> HIDE DEF o
<1> QED
  BY <1>1, <1>2, <1>3, OneQuiet

LEMMA OneLoadToBind ==
  ASSUME IInv, IInv', OneInv, NEW p, Clients = {p}, LoadToBind(p)
  PROVE  OneInv'
<1> DEFINE o == [op[p] EXCEPT !.pc = "writing", !.copy = session, !.fresh = TRUE]
<1>1. /\ op' = [op EXCEPT ![p] = o]
      /\ UNCHANGED <<session, log, calls, abandoned, faults>>
  BY DEF LoadToBind, LoadSession
<1>2. Alone(o)
  BY OneFacts, ClientFacts DEF LoadToBind, Alone, Operation, Pausing, Spent
<1>3. \/ o.pc \notin {"idle", "failing"} /\ o.call = op[p].call
      \/ Spent(op[p].call)
  BY OneFacts, ClientFacts DEF LoadToBind, Alone, Operation, Spent
<1> HIDE DEF o
<1> QED
  BY <1>1, <1>2, <1>3, OneQuiet

LEMMA OneFindReference ==
  ASSUME IInv, IInv', OneInv, NEW p, Clients = {p}, FindReference(p)
  PROVE  OneInv'
<1> DEFINE o == [op[p] EXCEPT !.pc = IF session.active # 0 THEN "clearing" ELSE "responding"]
<1>1. /\ op' = [op EXCEPT ![p] = o]
      /\ UNCHANGED <<session, log, calls, abandoned, faults>>
  BY DEF FindReference, Goto
<1>2. Alone(o)
  BY OneFacts, ClientFacts DEF FindReference, Alone, Operation, Pausing, Spent
<1>3. \/ o.pc \notin {"idle", "failing"} /\ o.call = op[p].call
      \/ Spent(op[p].call)
  BY OneFacts, ClientFacts DEF FindReference, Alone, Operation, Spent
<1> HIDE DEF o
<1> QED
  BY <1>1, <1>2, <1>3, OneQuiet

LEMMA OneLoadToClear ==
  ASSUME IInv, IInv', OneInv, NEW p, Clients = {p}, LoadToClear(p)
  PROVE  OneInv'
<1> DEFINE o == [op[p] EXCEPT !.pc = "writing", !.copy = session, !.fresh = TRUE]
<1>1. /\ op' = [op EXCEPT ![p] = o]
      /\ UNCHANGED <<session, log, calls, abandoned, faults>>
  BY DEF LoadToClear, LoadSession
<1>2. Alone(o)
  BY OneFacts, ClientFacts DEF LoadToClear, Alone, Operation, Pausing, Spent
<1>3. \/ o.pc \notin {"idle", "failing"} /\ o.call = op[p].call
      \/ Spent(op[p].call)
  BY OneFacts, ClientFacts DEF LoadToClear, Alone, Operation, Spent
<1> HIDE DEF o
<1> QED
  BY <1>1, <1>2, <1>3, OneQuiet

LEMMA OneResume ==
  ASSUME IInv, IInv', OneInv, NEW p, Clients = {p}, Resume(p)
  PROVE  OneInv'
<1> DEFINE o == [Idle EXCEPT !.pc = "settling", !.copy = session, !.fresh = TRUE,
                        !.resumed = TRUE, !.call = session.active]
<1>1. /\ op' = [op EXCEPT ![p] = o]
      /\ UNCHANGED <<session, log, calls, abandoned, faults>>
  BY DEF Resume
<1>2. Alone(o)
  BY OneFacts, ClientFacts DEF Resume, Alone, Operation, Pausing, Spent, Idle, NoReply, PauseStates, ReferenceIsOfLastTask
<1>3. \/ o.pc \notin {"idle", "failing"} /\ o.call = op[p].call
      \/ Spent(op[p].call)
  BY OneFacts, ClientFacts DEF Resume, Alone, Operation, Spent
<1> HIDE DEF o
<1> QED
  BY <1>1, <1>2, <1>3, OneQuiet

LEMMA OnePauseAgain ==
  ASSUME IInv, IInv', OneInv, NEW p, Clients = {p}, PauseAgain(p)
  PROVE  OneInv'
<1> DEFINE o == [op[p] EXCEPT !.pc = "paused"]
<1>1. /\ op' = [op EXCEPT ![p] = o]
      /\ UNCHANGED <<session, log, calls, abandoned, faults>>
  BY DEF PauseAgain, Goto
<1>2. Alone(o)
  BY OneFacts, ClientFacts DEF PauseAgain, Alone, Operation, Pausing, Spent
<1>3. \/ o.pc \notin {"idle", "failing"} /\ o.call = op[p].call
      \/ Spent(op[p].call)
  BY OneFacts, ClientFacts DEF PauseAgain, Alone, Operation, Spent
<1> HIDE DEF o
<1> QED
  BY <1>1, <1>2, <1>3, OneQuiet

LEMMA OneReadPause ==
  ASSUME IInv, IInv', OneInv, NEW p, Clients = {p}, ReadPause(p)
  PROVE  OneInv'
<1> DEFINE o == [op[p] EXCEPT !.pc = "syncing", !.out = StatusOf(calls[op[p].call].state),
                          !.turn = calls[op[p].call].task]
<1>1. /\ op' = [op EXCEPT ![p] = o]
      /\ UNCHANGED <<session, log, calls, abandoned, faults>>
  BY DEF ReadPause
<1>2. Alone(o)
  BY OneFacts, ClientFacts DEF ReadPause, Alone, Operation, Pausing, Spent, StatusOf, PauseStates
<1>3. \/ o.pc \notin {"idle", "failing"} /\ o.call = op[p].call
      \/ Spent(op[p].call)
  BY OneFacts, ClientFacts DEF ReadPause, Alone, Operation, Spent
<1> HIDE DEF o
<1> QED
  BY <1>1, <1>2, <1>3, OneQuiet

LEMMA OneRoute ==
  ASSUME IInv, IInv', OneInv, NEW p, Clients = {p}, NEW workflow \in BOOLEAN, Route(p, workflow)
  PROVE  OneInv'
<1>1. op[p].pc = "routing" /\ op[p].call = 0 /\ op[p].fresh /\ op[p].copy = session
      /\ UNCHANGED <<session, log, calls, abandoned, faults>>
  BY OneFacts, ClientFacts DEF Route, Alone, Client
<1>2. Spent(op[p].call)
  BY <1>1 DEF Spent
<1>3. CASE workflow /\ op[p].copy.active # 0
  BY <1>1, <1>2, <1>3, OneLeaves DEF Route
<1>4. CASE ~(workflow /\ op[p].copy.active # 0)
  <2> DEFINE o == [op[p] EXCEPT !.pc = "recording", !.workflow = workflow]
  <2>1. op' = [op EXCEPT ![p] = o]
    BY <1>4 DEF Route
  <2>2. Alone(o)
    BY <1>1, <1>4, OneFacts, ClientFacts DEF Alone, Operation, Pausing
  <2> HIDE DEF o
  <2> QED
    BY <1>1, <1>2, <2>1, <2>2, OneQuiet
<1> QED
  BY <1>3, <1>4

LEMMA OneRunRaises ==
  ASSUME IInv, IInv', OneInv, NEW p, Clients = {p}, NEW ofModel \in BOOLEAN, RunRaises(p, ofModel)
  PROVE  OneInv'
<1>1. op[p].pc = "running" /\ Spent(op[p].call) /\ Raise(p, ofModel)
      /\ UNCHANGED <<session, log, calls, abandoned, faults>>
  BY OneFacts DEF RunRaises, Alone
<1>2. CASE op[p].resumed /\ ~ofModel
  BY <1>1, <1>2, OneLeaves DEF Raise
<1>3. CASE ~(op[p].resumed /\ ~ofModel)
  <2> DEFINE o == [op[p] EXCEPT !.pc = "failing",
                                !.turn = IF op[p].resumed THEN op[p].copy.task ELSE @]
  <2>1. op' = [op EXCEPT ![p] = o]
    <3>1. CASE ~op[p].resumed
      <4>1. o = [op[p] EXCEPT !.pc = "failing"]
        BY <3>1, ClientFacts DEF Operation
      <4> HIDE DEF o
      <4> QED
        BY <1>1, <3>1, <4>1 DEF Raise, Goto
    <3>2. CASE op[p].resumed
      BY <1>1, <1>3, <3>2 DEF Raise
    <3> QED
      BY <3>1, <3>2
  <2>2. Alone(o)
    BY <1>1, OneFacts, ClientFacts DEF Alone, Operation, Pausing
  <2> HIDE DEF o
  <2> QED
    BY <1>1, <2>1, <2>2, OneQuiet
<1> QED
  BY <1>2, <1>3

LEMMA OneFault ==
  ASSUME IInv, IInv', OneInv, NEW p, Clients = {p}, Fault(p)
  PROVE  OneInv'
<1>1. op'[p] = Idle \/ (op'[p].pc = "failing" /\ op'[p].call = op[p].call)
  <2>1. CASE Leave(p)
    BY <2>1 DEF Leave, IInv
  <2>2. CASE op[p].pc \in {"running", "handler", "paused"} /\ Raise(p, FALSE)
    BY <2>2, ClientFacts DEF Raise, Goto, Leave, IInv, Operation
  <2> QED
    BY <2>1, <2>2 DEF Fault
<1>2. /\ UNCHANGED <<session, log, calls, abandoned>> /\ faults' = faults + 1
  BY DEF Fault
<1>3. Alone(op[p])'
  <2>1. CASE op'[p] = Idle
    <3>1. op'[p].pc = "idle" /\ op'[p].call = 0
      BY <2>1 DEF Idle
    <3> QED
      BY <3>1 DEF Alone, Pausing
  <2>2. CASE op'[p].pc = "failing" /\ op'[p].call = op[p].call
    BY <1>2, <2>2, OneFacts DEF Alone, Pausing
  <2> QED
    BY <1>1, <2>1, <2>2
<1> QED
  BY <1>2, <1>3, OneLoss

LEMMA OneGivesUp ==
  ASSUME IInv, IInv', OneInv, NEW p, Clients = {p}, GiveUpApproval(p)
  PROVE  OneInv'
<1>1. /\ op[p].pc = "settling" /\ op[p].call = session.active
      /\ UNCHANGED <<session, log, calls>> /\ faults' = faults + 1
      /\ abandoned' = abandoned \cup {op[p].call}
  BY OneFacts DEF GiveUpApproval, Alone
<1>2. calls[op[p].call].task = session.task /\ op[p].call # 0
  BY <1>1, OneFacts, ClientFacts DEF Alone, Client
<1>3. /\ op'[p].pc = "running" /\ op'[p].turn = session.task /\ op'[p].call = op[p].call
      /\ op'[p].out = op[p].out
  BY <1>2, ClientFacts DEF GiveUpApproval, IInv, Operation
<1>4. Alone(op[p])'
  BY <1>1, <1>2, <1>3 DEF Alone, Spent, Pausing
<1> QED
  BY <1>1, <1>4, OneLoss

\* A step that leaves the calls: the references of session and client decide.
LEMMA OneKeepsCalls ==
  ASSUME IInv, IInv', OneInv, NEW p, Clients = {p}, Alone(op[p])', ReferenceIsOfLastTask',
         UNCHANGED <<calls, abandoned, faults>>,
         \A c \in DOMAIN calls : c = session.active /\ c # session'.active =>
            Spent(c) \/ (op'[p].pc \notin {"idle", "failing"} /\ op'[p].call = c),
         \A c \in DOMAIN calls : op[p].pc \notin {"idle", "failing"} /\ op[p].call = c =>
            \/ Spent(c) \/ c = session'.active
            \/ op'[p].pc \notin {"idle", "failing"} /\ op'[p].call = c
  PROVE  OneInv'
<1>1. ASSUME NEW c \in DOMAIN calls', Gone(c)' PROVE c \in DOMAIN calls /\ Gone(c)
  <2>1. /\ c \in DOMAIN calls /\ calls[c].state \notin Terminal
        /\ c \in abandoned \/ (c # session'.active /\ ~Held(c)')
    BY <1>1 DEF Gone
  <2>2. c # 0
    BY <2>1 DEF IInv, Files
  <2>3. CASE c \in abandoned
    BY <2>1, <2>3 DEF Gone
  <2>4. CASE c \notin abandoned
    <3>1. ~(op'[p].pc \notin {"idle", "failing"} /\ op'[p].call = c) /\ c # session'.active
      BY <2>1, <2>4 DEF Held
    <3>2. ~Spent(c)
      BY <2>1, <2>2, <2>4 DEF Spent
    <3>3. c # session.active /\ ~(op[p].pc \notin {"idle", "failing"} /\ op[p].call = c)
      BY <2>1, <3>1, <3>2
    <3> QED
      BY <2>1, <3>3, OneFacts DEF Gone
  <2> QED
    BY <2>3, <2>4
<1>2. faults' = faults + 0
  BY SessionBounds DEF IInv, Counts
<1> QED
  BY <1>1, <1>2, OneConcludes

LEMMA OneLogTurn ==
  ASSUME IInv, IInv', OneInv, NEW p, Clients = {p}, LogTurn(p)
  PROVE  OneInv'
<1>1. /\ op[p].pc = "recording" /\ op[p].call = 0
      /\ UNCHANGED <<session, calls, abandoned, faults>>
      /\ op'[p].pc = "counting" /\ op'[p].call = 0 /\ op'[p].fresh
      /\ op'[p].workflow = op[p].workflow
  BY OneFacts, ClientFacts DEF LogTurn, Alone, IInv, Operation
<1>2. Alone(op[p])'
  BY <1>1, OneFacts DEF Alone, Pausing
<1>3. ReferenceIsOfLastTask'
  BY <1>1, OneFacts DEF ReferenceIsOfLastTask
<1>4. /\ \A c \in DOMAIN calls : c # 0
      /\ session'.active = session.active
  BY <1>1 DEF IInv, Files
<1> QED
  BY <1>1, <1>2, <1>3, <1>4, OneKeepsCalls

LEMMA OneCountTurn ==
  ASSUME IInv, IInv', OneInv, NEW p, Clients = {p}, CountTurn(p)
  PROVE  OneInv'
<1> DEFINE t == IF op[p].workflow THEN op[p].turn ELSE op[p].copy.task
           place == IF op[p].workflow THEN "running" ELSE "chatting"
<1>1. /\ op[p].pc = "counting" /\ op[p].fresh /\ op[p].copy = session /\ op[p].call = 0
      /\ op[p].workflow => session.active = 0
  <2>1. op[p].pc = "counting" /\ op[p].fresh
    BY DEF CountTurn, SaveSession
  <2> QED
    BY <2>1, OneFacts, ClientFacts DEF Client, Alone
<1>2. /\ UNCHANGED <<calls, abandoned, faults>>
      /\ session' = [active |-> session.active, turns |-> session.turns + 1, task |-> t]
      /\ op'[p] = [op[p] EXCEPT !.fresh = FALSE, !.pc = place]
  BY <1>1, OneFacts, ClientFacts DEF CountTurn, SaveSession, Operation
<1>3. /\ op'[p].pc = place /\ op'[p].call = 0 /\ op'[p].turn = op[p].turn
      /\ op'[p].workflow = op[p].workflow /\ op[p].workflow \in BOOLEAN
      /\ session'.active = session.active /\ session'.task = t
  BY <1>1, <1>2, OneFacts, ClientFacts DEF Operation
<1>4. Alone(op[p])'
  <2>1. CASE op[p].workflow
    BY <1>1, <1>2, <1>3, <2>1 DEF Alone, Pausing, Spent
  <2>2. CASE ~op[p].workflow
    BY <1>1, <1>2, <1>3, <2>2 DEF Alone, Pausing, Spent
  <2> QED
    BY <1>3, <2>1, <2>2
<1>5. ReferenceIsOfLastTask'
  BY <1>1, <1>2, <1>3, OneFacts DEF ReferenceIsOfLastTask
<1>6. \A c \in DOMAIN calls : c # 0
  BY DEF IInv, Files
<1> HIDE DEF t, place
<1> QED
  BY <1>1, <1>2, <1>3, <1>4, <1>5, <1>6, OneKeepsCalls

LEMMA OneWriteReference ==
  ASSUME IInv, IInv', OneInv, NEW p, Clients = {p}, WriteReference(p)
  PROVE  OneInv'
<1> DEFINE a == IF op[p].out \in PauseStates THEN op[p].call ELSE 0
<1>1. /\ op[p].pc = "writing" /\ op[p].fresh /\ op[p].copy = session
  <2>1. op[p].pc = "writing" /\ op[p].fresh
    BY DEF WriteReference, SaveSession
  <2> QED
    BY <2>1, ClientFacts, OneFacts DEF Client
<1>2. /\ UNCHANGED <<calls, abandoned, faults>>
      /\ session' = [active |-> a, turns |-> session.turns, task |-> session.task]
      /\ op'[p] = [op[p] EXCEPT !.fresh = FALSE, !.pc = "responding"]
  BY <1>1, OneFacts, ClientFacts DEF WriteReference, SaveSession, Operation
<1>3. /\ op'[p].pc = "responding" /\ op'[p].call = op[p].call /\ op'[p].out = op[p].out
      /\ session'.active = a /\ session'.task = session.task
  BY <1>2, OneFacts, ClientFacts DEF Operation
<1>4. /\ Pausing(op[p]) => a = op[p].call /\ op[p].call # 0
                           /\ (session.active = op[p].call \/ Spent(session.active))
      /\ ~Pausing(op[p]) => a = 0 /\ Spent(session.active) /\ Spent(op[p].call)
  BY <1>1, OneFacts, ClientFacts DEF Alone, Pausing, Client
<1>5. Alone(op[p])'
  <2>1. (op[p].call # 0 => calls[op[p].call].task = session.task)
    BY OneFacts DEF Alone
  <2>2. Spent(0)'
    BY DEF Spent
  <2>3. Pausing(op[p])' <=> Pausing(op[p])
    BY <1>3 DEF Pausing
  <2>4. CASE Pausing(op[p])
    BY <1>2, <1>3, <1>4, <2>1, <2>3, <2>4 DEF Alone
  <2>5. CASE ~Pausing(op[p])
    <3>1. Spent(op[p].call)' /\ Spent(session.active)'
      BY <1>2, <1>3, <1>4, <2>2, <2>5 DEF Spent
    <3> QED
      BY <1>2, <1>3, <1>4, <2>1, <2>3, <2>5, <3>1 DEF Alone
  <2> QED
    BY <2>4, <2>5
<1>6. ReferenceIsOfLastTask'
  <2>1. op[p].call # 0 => op[p].call \in DOMAIN calls /\ calls[op[p].call].task = session.task
    BY OneFacts, ClientFacts DEF Alone, Client
  <2> QED
    BY <1>2, <1>3, <2>1 DEF ReferenceIsOfLastTask
<1> HIDE DEF a
<1>7. \A c \in DOMAIN calls : c = session.active /\ c # session'.active =>
            Spent(c) \/ (op'[p].pc \notin {"idle", "failing"} /\ op'[p].call = c)
  BY <1>3, <1>4
<1>8. \A c \in DOMAIN calls : op[p].pc \notin {"idle", "failing"} /\ op[p].call = c =>
            op'[p].pc \notin {"idle", "failing"} /\ op'[p].call = c
  BY <1>3
<1> QED
  BY <1>2, <1>5, <1>6, <1>7, <1>8, OneKeepsCalls

LEMMA OneAnswers ==
  ASSUME IInv, IInv', OneInv, NEW p, Clients = {p},
         (\E status \in Replies : Chat(p, status)) \/ AnswerFailure(p) \/ Respond(p)
  PROVE  OneInv'
<1>1. Leave(p) /\ UNCHANGED <<session, calls, abandoned, faults>>
  BY DEF Chat, AnswerFailure, Respond
<1>2. op'[p] = Idle
  BY <1>1, OneFacts DEF Leave, IInv
<1>3. Alone(op[p])'
  <2>1. op'[p].pc = "idle" /\ op'[p].call = 0
    BY <1>2 DEF Idle
  <2> QED
    BY <2>1 DEF Alone, Pausing
<1>4. ReferenceIsOfLastTask' /\ session'.active = session.active
  BY <1>1, OneFacts DEF ReferenceIsOfLastTask
<1>5. \A c \in DOMAIN calls : op[p].pc \notin {"idle", "failing"} /\ op[p].call = c =>
            Spent(c) \/ c = session.active
  <2>1. \A c \in DOMAIN calls : c # 0
    BY DEF IInv, Files
  <2> QED
    BY <2>1, OneFacts DEF Chat, AnswerFailure, Respond, Alone
<1> QED
  BY <1>1, <1>3, <1>4, <1>5, OneKeepsCalls

LEMMA OneCallTool ==
  ASSUME IInv, IInv', OneInv, NEW p, Clients = {p}, NEW state \in FirstStates, CallTool(p, state)
  PROVE  OneInv'
<1> DEFINE e == [task |-> op[p].turn, state |-> state, rev |-> 1]
           d == Len(calls) + 1
<1>1. /\ op[p].pc = "running" /\ op[p].turn = session.task
      /\ Spent(session.active) /\ Spent(op[p].call)
      /\ UNCHANGED <<session, log, abandoned, faults>>
  BY OneFacts DEF CallTool, Alone
<1>2. /\ op'[p].pc = PlaceAfter(state) /\ op'[p].call = d /\ op'[p].rev = 1
      /\ op'[p].turn = op[p].turn /\ op'[p].out = op[p].out
  BY OneFacts, ClientFacts DEF CallTool, IInv, Operation
<1>3. /\ Len(calls) \in Nat /\ DOMAIN calls = 1..Len(calls) /\ DOMAIN calls' = 1..d
      /\ \A c \in DOMAIN calls : calls'[c] = calls[c]
      /\ calls'[d] = e
  <2>1. e \in {e} \cup CallFile /\ calls \in Seq({e} \cup CallFile)
    BY DEF IInv, Files
  <2>2. calls' = Append(calls, e)
    BY DEF CallTool
  <2> HIDE DEF e
  <2>3. /\ calls' \in Seq({e} \cup CallFile) /\ Len(calls') = Len(calls) + 1
        /\ \A c \in 1..Len(calls) : calls'[c] = calls[c]
        /\ calls'[Len(calls) + 1] = e
    BY <2>1, <2>2, AppendProperties
  <2> QED
    BY <2>1, <2>3
<1>4. /\ state = "executing" => PlaceAfter(state) = "handler"
      /\ state = "awaiting_approval" => PlaceAfter(state) = "paused"
  BY DEF PlaceAfter, Terminal
<1>5. Spent(session.active)'
  <2>1. session.active # 0 => session.active \in DOMAIN calls
    BY OneFacts, ClientFacts
  <2> QED
    BY <1>1, <1>3, <2>1 DEF Spent
<1>6. Alone(op[p])'
  <2>1. /\ calls'[d].state = state /\ calls'[d].rev = 1 /\ calls'[d].task = session'.task
    BY <1>1, <1>3
  <2>2. CASE state = "executing"
    BY <1>1, <1>2, <1>4, <1>5, <2>1, <2>2 DEF Alone
  <2>3. CASE state = "awaiting_approval"
    BY <1>1, <1>2, <1>4, <1>5, <2>1, <2>3 DEF Alone, PauseStates
  <2> QED
    BY <2>2, <2>3 DEF FirstStates
<1>7. ReferenceIsOfLastTask'
  BY <1>1, <1>3, OneFacts DEF ReferenceIsOfLastTask
<1>8. ASSUME NEW c \in DOMAIN calls', Gone(c)' PROVE c \in DOMAIN calls /\ Gone(c)
  <2>1. /\ calls'[c].state \notin Terminal
        /\ c \in abandoned \/ (c # session.active /\ ~Held(c)')
    BY <1>1, <1>8 DEF Gone
  <2>2. abandoned \subseteq DOMAIN calls
    BY DEF IInv, Files
  <2>3. op'[p].pc \in {"handler", "paused"} /\ op'[p].call = d
    BY <1>2, <1>4 DEF FirstStates
  <2>4. c # d
    <3>1. CASE c \in abandoned
      BY <1>3, <2>2, <3>1
    <3>2. CASE c \notin abandoned
      BY <2>1, <2>3, <3>2 DEF Held
    <3> QED
      BY <3>1, <3>2
  <2>5. c \in DOMAIN calls /\ calls[c].state \notin Terminal /\ c # 0
    BY <1>3, <2>1, <2>4
  <2>6. CASE c \in abandoned
    BY <2>5, <2>6 DEF Gone
  <2>7. CASE c \notin abandoned
    <3>1. op[p].call # c
      BY <1>1, <2>5, <2>7 DEF Spent
    <3> QED
      BY <2>1, <2>5, <2>7, <3>1, OneFacts DEF Gone
  <2> QED
    BY <2>5, <2>6, <2>7
<1>9. faults' = faults + 0
  BY <1>1, SessionBounds DEF IInv, Counts
<1> HIDE DEF e, d
<1> QED
  BY <1>6, <1>7, <1>8, <1>9, OneConcludes

LEMMA OneMoveCall ==
  ASSUME IInv, IInv', OneInv, NEW p, Clients = {p}, NEW to \in ExecutionState, MoveCall(p, to),
         op[p].pc \in {"handler", "settling", "retrying"},
         to = "recovery_required" => op[p].pc = "settling",
         UNCHANGED <<session, log, abandoned, faults>>
  PROVE  OneInv'
<1> DEFINE c == op[p].call
           e == [calls[c] EXCEPT !.state = to, !.rev = calls[c].rev + 1]
<1>1. /\ c \in DOMAIN calls /\ c # 0 /\ calls[c] \in CallFile /\ calls[c].task = session.task
      /\ session.active # 0 => session.active \in DOMAIN calls
  BY OneFacts, ClientFacts DEF Client, Alone
<1>2. /\ calls' = [calls EXCEPT ![c] = e] /\ <<calls[c].state, to>> \in Lifecycle
  BY <1>1 DEF MoveCall
<1>3. /\ op'[p].pc = PlaceAfter(to) /\ op'[p].rev = calls[c].rev + 1 /\ op'[p].call = c
      /\ op'[p].turn = IF op[p].resumed THEN calls[c].task ELSE op[p].turn
      /\ op'[p].out = op[p].out /\ op'[p].resumed = op[p].resumed
  BY OneFacts, ClientFacts DEF MoveCall, IInv, Operation
<1>4. /\ DOMAIN calls' = DOMAIN calls /\ calls'[c] = e
      /\ \A d \in DOMAIN calls : d # c => calls'[d] = calls[d]
  BY <1>1, <1>2
<1>5. e.state = to /\ e.rev = calls[c].rev + 1 /\ e.task = session.task
  BY <1>1 DEF CallFile
<1>6. op'[p].turn = session.task
  BY <1>1, <1>3, OneFacts, ClientFacts DEF Alone, Operation
<1>7. session.active = c \/ Spent(session.active)
  BY OneFacts DEF Alone
<1>8. session.active = c \/ Spent(session.active)'
  BY <1>1, <1>4, <1>7 DEF Spent
<1>9. op[p].pc = "settling" => session.active = c
  BY OneFacts DEF Alone
<1> HIDE DEF c, e
<1>10. Alone(op[p])'
  <2>1. /\ calls'[op'[p].call].state = to /\ calls'[op'[p].call].rev = op'[p].rev
        /\ calls'[op'[p].call].task = session'.task
    BY <1>3, <1>4, <1>5
  <2>2. CASE to = "executing"
    BY <1>3, <1>6, <1>8, <2>1, <2>2 DEF Alone, PlaceAfter, Terminal
  <2>3. CASE to = "pending"
    BY <1>3, <1>6, <1>8, <2>1, <2>3 DEF Alone, PlaceAfter, Terminal
  <2>4. CASE to = "recovery_required"
    BY <1>3, <1>6, <1>9, <2>1, <2>4 DEF Alone, PlaceAfter, Terminal
  <2>5. CASE to \in {"awaiting_approval", "awaiting_reconcile"}
    BY <1>3, <1>6, <1>8, <2>1, <2>5 DEF Alone, PlaceAfter, Terminal, PauseStates
  <2>6. CASE to \in Terminal
    <3>1. op'[p].pc = "running"
      BY <1>3, <2>6 DEF PlaceAfter, Terminal
    <3>2. Spent(op[p].call)' /\ Spent(session.active)'
      BY <1>3, <1>8, <2>1, <2>6 DEF Spent
    <3> QED
      BY <1>6, <2>1, <3>1, <3>2 DEF Alone
  <2> QED
    BY <2>2, <2>3, <2>4, <2>5, <2>6 DEF ExecutionState, Terminal
<1>11. ReferenceIsOfLastTask'
  <2>1. session.active # 0 => calls[session.active].task = session.task
    BY OneFacts DEF ReferenceIsOfLastTask
  <2>2. session.active # 0 => calls'[session.active].task = session.task
    BY <1>1, <1>4, <1>5, <2>1
  <2> QED
    BY <1>1, <1>4, <2>2 DEF ReferenceIsOfLastTask
<1>12. ASSUME NEW d \in DOMAIN calls', Gone(d)' PROVE d \in DOMAIN calls /\ Gone(d)
  <2>1. /\ d \in DOMAIN calls /\ calls'[d].state \notin Terminal
        /\ d \in abandoned \/ (d # session.active /\ ~Held(d)')
    BY <1>4, <1>12 DEF Gone
  <2>2. calls[c].state \notin Terminal
    BY <1>2 DEF Lifecycle, Terminal, FirstStates
  <2>3. calls[d].state \notin Terminal
    BY <1>4, <2>1, <2>2
  <2>4. CASE d \in abandoned
    BY <2>1, <2>3, <2>4 DEF Gone
  <2>5. CASE d \notin abandoned
    <3>1. op'[p].pc \notin {"idle", "failing"}
      BY <1>3 DEF PlaceAfter, ExecutionState, Terminal
    <3>2. d # c
      BY <1>3, <2>1, <2>5, <3>1 DEF Held
    <3>3. ~Held(d)
      BY <3>2, OneFacts DEF c
    <3> QED
      BY <2>1, <2>3, <2>5, <3>3 DEF Gone
  <2> QED
    BY <2>1, <2>4, <2>5
<1>13. faults' = faults + 0
  BY SessionBounds DEF IInv, Counts
<1> QED
  BY <1>10, <1>11, <1>12, <1>13, OneConcludes

LEMMA OneCalls ==
  ASSUME IInv, IInv', OneInv, NEW p, Clients = {p}, HandlerDone(p) \/ Settle(p) \/ Retry(p)
  PROVE  OneInv'
<1>1. CASE HandlerDone(p)
  <2>1. "completed" \in ExecutionState
    BY DEF ExecutionState
  <2> QED
    BY <1>1, <2>1, OneMoveCall DEF HandlerDone
<1>2. CASE Settle(p)
  <2>1. PICK to \in ExecutionState : MoveCall(p, to)
    BY <1>2 DEF Settle
  <2> QED
    BY <1>2, <2>1, OneMoveCall DEF Settle
<1>3. CASE Retry(p)
  <2>1. PICK to \in ExecutionState : MoveCall(p, to)
    BY <1>3 DEF Retry
  <2>2. calls[op[p].call].state = "pending"
    BY <1>3, OneFacts DEF Retry, Alone
  <2>3. to # "recovery_required"
    BY <2>1, <2>2 DEF MoveCall, Lifecycle, FirstStates
  <2> QED
    BY <1>3, <2>1, <2>3, OneMoveCall DEF Retry
<1> QED
  BY <1>1, <1>2, <1>3

LEMMA OneStepKeeps ==
  ASSUME IInv, IInv', OneInv, NEW p, Clients = {p}, [Next]_vars
  PROVE  OneInv'
<1>1. CASE UNCHANGED vars
  <2>1. UNCHANGED <<session, log, calls, op, refused, abandoned, faults>>
    BY <1>1 DEF vars
  <2>2. Lost' = Lost
    BY <2>1 DEF Lost, Gone, Held
  <2> QED
    BY <2>1, <2>2 DEF OneInv, Alone, Spent, Pausing, ReferenceIsOfLastTask
<1>2. CASE Step(p)
  <2>1. ASSUME NEW workflow \in BOOLEAN, Route(p, workflow) PROVE OneInv'
    BY <2>1, OneRoute
  <2>2. ASSUME NEW status \in Replies, Chat(p, status) PROVE OneInv'
    BY <2>2, OneAnswers
  <2>3. ASSUME NEW status \in Replies, Finish(p, status) PROVE OneInv'
    BY <2>3, OneFinish
  <2>4. ASSUME NEW state \in FirstStates, CallTool(p, state) PROVE OneInv'
    BY <2>4, OneCallTool
  <2>5. ASSUME NEW ofModel \in BOOLEAN, RunRaises(p, ofModel) PROVE OneInv'
    BY <2>5, OneRunRaises
  <2>6. CASE LogTurn(p) \/ CountTurn(p)
    BY <2>6, OneLogTurn, OneCountTurn
  <2>7. CASE HandlerDone(p) \/ Settle(p) \/ Retry(p)
    BY <2>7, OneCalls
  <2>8. CASE AnswerFailure(p) \/ Respond(p)
    BY <2>8, OneAnswers
  <2>9. CASE ReadPause(p) \/ LoadToBind(p) \/ FindReference(p) \/ LoadToClear(p) \/ PauseAgain(p)
    BY <2>9, OneReadPause, OneLoadToBind, OneFindReference, OneLoadToClear, OnePauseAgain
  <2>10. CASE WriteReference(p)
    BY <2>10, OneWriteReference
  <2>11. CASE CountRefused(p) \/ CallConflict(p) \/ ReferenceRefused(p) \/ ResumeRefused(p)
    BY <2>11, OneRefusals
  <2> QED
    BY <1>2, <2>1, <2>2, <2>3, <2>4, <2>5, <2>6, <2>7, <2>8, <2>9, <2>10, <2>11 DEF Step
<1>3. CASE Submit(p) \/ Resume(p) \/ GiveUpApproval(p) \/ Fault(p)
  BY <1>3, OneSubmit, OneResume, OneGivesUp, OneFault
<1> QED
  BY <1>1, <1>2, <1>3 DEF Next

LEMMA OneInvariance ==
  ASSUME NEW p, Clients = {p}
  PROVE  Spec => [](IInv /\ OneInv)
<1>1. Init => OneInv
  <2> SUFFICES ASSUME Init PROVE OneInv
    OBVIOUS
  <2>1. \A q \in Clients : op[q] = Idle
    BY DEF Init
  <2>2. Lost = {} /\ faults = 0
    BY DEF Lost, Init
  <2>3. Cardinality(Lost) <= faults
    BY <2>2, FS_EmptySet
  <2>4. ReferenceIsOfLastTask
    BY DEF Init, NewSession, ReferenceIsOfLastTask
  <2> QED
    BY <2>1, <2>3, <2>4, IdleIsAlone DEF OneInv
<1>2. IInv /\ IInv' /\ OneInv /\ [Next]_vars => OneInv'
  BY OneStepKeeps
<1> QED
  BY <1>1, <1>2, Invariance, PTL DEF Spec

\* One operation at a time: what the session refers to is a checkpoint of its last task,
\* so that a resumed run that fails answers the turn of its own task
\* (controller.py, workflow_adapter.py).
THEOREM ResumeAnswersItsTask ==
  ASSUME NEW p, Clients = {p}
  PROVE  Spec => []ReferenceIsOfLastTask
<1>1. OneInv => ReferenceIsOfLastTask
  BY DEF OneInv
<1> QED
  BY <1>1, OneInvariance, PTL

\* One operation at a time: a call that is not settled is in hand or referred to by the
\* session; every fault puts one at most out of reach.
THEOREM NoCallIsForgotten ==
  ASSUME NEW p, Clients = {p}
  PROVE  Spec => []UnfinishedIsReferenced
<1>1. ASSUME IInv, OneInv PROVE UnfinishedIsReferenced
  <2> DEFINE U == {c \in DOMAIN calls : /\ calls[c].state \notin Terminal
                                        /\ c # session.active /\ ~InHand(c)}
  <2>1. U \in SUBSET Lost
    BY DEF Lost, Gone, Held, InHand
  <2>2. IsFiniteSet(U) /\ Cardinality(U) \in Nat /\ Cardinality(U) <= Cardinality(Lost)
        /\ Cardinality(Lost) \in Nat
    <3> HIDE DEF U
    <3> QED
      BY <1>1, <2>1, LostIsFinite, FS_Subset, FS_CardinalityType
  <2>3. Cardinality(Lost) <= faults /\ faults \in Nat
    BY <1>1, SessionBounds DEF OneInv, IInv, Counts
  <2>4. Cardinality(U) <= faults
    <3> HIDE DEF U
    <3> QED
      BY <2>2, <2>3
  <2> QED
    BY <2>4 DEF UnfinishedIsReferenced
<1>2. IInv /\ OneInv => UnfinishedIsReferenced
  BY <1>1
<1> QED
  BY <1>2, OneInvariance, PTL

===============================================================================
