-------------------------- MODULE CoordinatorProofs --------------------------
(***************************************************************************)
(* Proofs about ExecutionCoordinator for any set of drivers and any        *)
(* bounds.                                                                 *)
(***************************************************************************)
EXTENDS CoordinatorInvariant, TLAPS

\* A step that changes one driver record and, if the file, its revision too,
\* keeps Basic as soon as the new record and the new file are well formed.
LEMMA BasicFrom ==
  ASSUME Basic, NEW d \in Drivers, NEW x \in Driver,
         drv' = [drv EXCEPT ![d] = x],
         ckpt' \in Checkpoint, LifecycleValid(ckpt'), FileShape(ckpt'),
         ckpt' = ckpt \/ ckpt'.rev > ckpt.rev,
         CopyFits(x, ckpt'), InHand(x),
         gates' \in [Drivers -> SUBSET (0..MaxAttempts)],
         starts' \in [Attempts -> Nat],
         answers' \subseteq Answer,
         faults' \in 0..MaxFaults
  PROVE  Basic'
<1>1. TypeOK' BY DEF Basic, TypeOK
<1>2. ASSUME NEW e \in Drivers
      PROVE  CopyFits(drv'[e], ckpt') /\ InHand(drv'[e])
  <2>1. CASE e = d BY <2>1 DEF Basic, TypeOK
  <2>2. CASE e # d
    <3>1. drv'[e] = drv[e] BY <2>2 DEF Basic, TypeOK
    <3>2. CopyFits(drv[e], ckpt) /\ InHand(drv[e]) BY DEF Basic
    <3>3. drv[e] \in Driver /\ ckpt \in Checkpoint BY DEF Basic, TypeOK
    <3>4. CopyFits(drv[e], ckpt')
      BY <3>2, <3>3 DEF CopyFits, Driver, Checkpoint
    <3> QED BY <3>1, <3>2, <3>4
  <2> QED BY <2>1, <2>2
<1> QED BY <1>1, <1>2 DEF Basic

\* The copy of a driver that saves is the file.
LEMMA SavedCopy ==
  ASSUME Basic, NEW d \in Drivers, NEW new, drv[d].pc \in Working, Save(d, new)
  PROVE  /\ drv[d].base = ckpt
         /\ ckpt \in Checkpoint
         /\ ckpt.rev > 0
         /\ ckpt' = new
BY DEF Basic, TypeOK, CopyFits, Save, Working, Driver, Checkpoint

LEMMA IdleFits ==
  /\ Absent \in Checkpoint /\ NoAnswer \in Answer /\ Idle \in Driver
  /\ NoResult \in Result
  /\ \A c : CopyFits(Idle, c) /\ InHand(Idle)
<1>1. Absent \in Checkpoint /\ NoAnswer \in Answer /\ NoResult \in Result
  BY BoundsAssumption
  DEF Absent, Checkpoint, ApprovalState, Result, NoResult, NoAnswer, Answer,
      AnswerKind, Approvals
<1>2. Idle \in Driver BY <1>1 DEF Idle, Driver, Place
<1>3. \A c : CopyFits(Idle, c) /\ InHand(Idle)
  BY DEF CopyFits, InHand, Working, Running, Idle
<1> QED BY <1>1, <1>2, <1>3

\* What Basic says of the variables, and the domains the constructors need.
LEMMA BasicTypes ==
  ASSUME Basic
  PROVE  /\ ckpt \in Checkpoint /\ drv \in [Drivers -> Driver]
         /\ gates \in [Drivers -> SUBSET (0..MaxAttempts)]
         /\ starts \in [Attempts -> Nat]
         /\ answers \subseteq Answer /\ faults \in 0..MaxFaults
         /\ LifecycleValid(ckpt) /\ FileShape(ckpt)
         /\ MaxFaults \in Nat /\ MaxAttempts \in Nat \ {0}
BY BoundsAssumption DEF Basic, TypeOK

\* A driver past the load, whose copy is the file as it will be.
LEMMA PlacedFits ==
  ASSUME NEW place \in Place, NEW c \in Checkpoint, NEW a \in Answer
  PROVE  /\ At(place, c, a) \in Driver
         /\ At(place, c, a).pc = place
         /\ At(place, c, a).base = c
         /\ At(place, c, a).answer = a
         /\ c.rev > 0 => CopyFits(At(place, c, a), c)
BY DEF At, Driver, Checkpoint, CopyFits

LEMMA CheckpointFields ==
  ASSUME NEW c \in Checkpoint
  PROVE  /\ c.rev \in Nat /\ c.attempt \in 0..MaxAttempts
         /\ c.approval \in ApprovalState /\ c.request \in 0..MaxAttempts
         /\ c.result \in Result
         /\ \A who \in {"nobody", "handler", "gate", "human"} :
              ResultBy(who, c.attempt) \in Result
BY BoundsAssumption DEF Checkpoint, Result, ResultBy

\* The fields of the next checkpoint.
LEMMA NextFields ==
  ASSUME NEW base \in Checkpoint, base.rev > 0,
         NEW state \in ExecutionState, NEW approval \in ApprovalState,
         NEW request \in 0..MaxAttempts, NEW result \in Result
  PROVE  LET new == NextCheckpoint(base, state, approval, request, result)
         IN  /\ new \in Checkpoint
             /\ new.rev = base.rev + 1 /\ new.attempt = base.attempt
             /\ new.state = state /\ new.approval = approval
             /\ new.request = request /\ new.result = result
             /\ new.reconciled = base.reconciled
BY DEF Checkpoint, NextCheckpoint

\* A driver that saves a well-formed successor of its copy, and goes on with
\* it or leaves, keeps Basic.
LEMMA BasicSave ==
  ASSUME Basic, NEW d \in Drivers, NEW new \in Checkpoint, NEW place \in Place,
         drv[d].pc \in Working, Save(d, new),
         new.rev = drv[d].base.rev + 1, LifecycleValid(new), FileShape(new),
         \/ Leave(d)
         \/ Goto(d, place, new) /\ \A a \in Answer : InHand(At(place, new, a)),
         gates' \in [Drivers -> SUBSET (0..MaxAttempts)],
         UNCHANGED <<starts, answers, faults>>
  PROVE  Basic'
<1> USE BasicTypes, IdleFits
<1>1. ckpt' = new /\ drv[d].base = ckpt /\ ckpt'.rev > ckpt.rev /\ new.rev > 0
  BY SavedCopy DEF Checkpoint
<1>2. drv[d].answer \in Answer BY DEF Driver
<1>3. CASE Leave(d)
  BY <1>1, <1>3, BasicFrom DEF Leave
<1>4. CASE Goto(d, place, new) /\ \A a \in Answer : InHand(At(place, new, a))
  <2>1. PICK a \in Answer : /\ drv' = [drv EXCEPT ![d] = At(place, new, a)]
                            /\ InHand(At(place, new, a))
    BY <1>2, <1>4 DEF Goto
  <2>2. At(place, new, a) \in Driver /\ CopyFits(At(place, new, a), new)
    BY <1>1, PlacedFits
  <2> QED BY <1>1, <2>1, <2>2, BasicFrom
<1> QED BY <1>3, <1>4

LEMMA BasicInit == Init => Basic
<1> SUFFICES ASSUME Init PROVE Basic OBVIOUS
<1> USE IdleFits
<1>1. LifecycleValid(ckpt) /\ FileShape(ckpt)
  BY DEF Init, FileShape, Absent, LifecycleValid
<1>2. TypeOK
  BY <1>1, BoundsAssumption DEF Init, TypeOK
<1>3. \A d \in Drivers : CopyFits(drv[d], ckpt) /\ InHand(drv[d])
  BY DEF Init
<1> QED BY <1>1, <1>2, <1>3 DEF Basic

\* Every step keeps types, lifecycle, copies and hands: the new file of each.
LEMMA BasicStep == Basic /\ [Next]_vars => Basic'
<1> SUFFICES ASSUME Basic, [Next]_vars PROVE Basic' OBVIOUS
<1> USE BasicTypes, IdleFits
<1>1. ASSUME NEW d \in Drivers, ExecuteAllowed(d) PROVE Basic'
  <2> DEFINE new == NewCheckpoint("executing", "not_required", 0)
  <2>1. new \in Checkpoint /\ LifecycleValid(new) /\ FileShape(new) /\ new.rev = 1
    BY DEF NewCheckpoint, Checkpoint, ApprovalState, ExecutionState,
           LifecycleValid, FileShape, NoResult
  <2>2. InHand(At("handler", new, NoAnswer))
    BY DEF NewCheckpoint, At, InHand, Working, Running
  <2>3. At("handler", new, NoAnswer) \in Driver /\ CopyFits(At("handler", new, NoAnswer), new)
    BY <2>1, PlacedFits DEF Place
  <2>4. /\ ckpt.rev = 0 /\ ckpt' = new /\ UNCHANGED <<gates, starts, answers, faults>>
        /\ drv' = [drv EXCEPT ![d] = At("handler", new, NoAnswer)]
    BY <1>1 DEF ExecuteAllowed, Goto
  <2> HIDE DEF new
  <2>5. /\ ckpt' \in Checkpoint /\ LifecycleValid(ckpt') /\ FileShape(ckpt')
        /\ ckpt'.rev > ckpt.rev
    BY <2>1, <2>4
  <2>6. CopyFits(At("handler", new, NoAnswer), ckpt') BY <2>3, <2>4
  <2> QED BY <2>2, <2>3, <2>4, <2>5, <2>6, BasicFrom
<1>2. ASSUME NEW d \in Drivers, ExecuteAsked(d) PROVE Basic'
  <2> DEFINE new == NewCheckpoint("awaiting_approval", "awaiting", 1)
  <2>1. new \in Checkpoint /\ LifecycleValid(new) /\ FileShape(new) /\ new.rev = 1
    BY DEF NewCheckpoint, Checkpoint, ApprovalState, ExecutionState,
           LifecycleValid, FileShape, NoResult
  <2>2. /\ ckpt.rev = 0 /\ ckpt' = new /\ drv[d].pc = "idle"
        /\ UNCHANGED <<drv, gates, starts, answers, faults>>
    BY <1>2 DEF ExecuteAsked
  <2>3. drv' = [drv EXCEPT ![d] = drv[d]] /\ CopyFits(drv[d], new) /\ InHand(drv[d])
    BY <2>2 DEF CopyFits, InHand, Working, Running
  <2> HIDE DEF new
  <2>4. /\ ckpt' \in Checkpoint /\ LifecycleValid(ckpt') /\ FileShape(ckpt')
        /\ ckpt'.rev > ckpt.rev /\ CopyFits(drv[d], ckpt')
    BY <2>1, <2>2, <2>3
  <2> QED BY <2>2, <2>3, <2>4, BasicFrom
<1>3. ASSUME NEW d \in Drivers, NEW rev \in 1..ckpt.rev, NEW kind \in AnswerKind,
             Call(d, rev, kind)
      PROVE  Basic'
  <2>1. PICK id \in 0..MaxAttempts :
          /\ drv' = [drv EXCEPT ![d] =
               [pc |-> "called", exp |-> rev, base |-> Absent,
                answer |-> [kind |-> kind, id |-> id]]]
          /\ gates' \in [Drivers -> SUBSET (0..MaxAttempts)]
          /\ UNCHANGED <<ckpt, starts, answers, faults>>
    BY <1>3 DEF Call, Checkpoint
  <2> DEFINE x == [pc |-> "called", exp |-> rev, base |-> Absent,
                   answer |-> [kind |-> kind, id |-> id]]
  <2>2. x \in Driver BY DEF Driver, Place, Answer, Checkpoint
  <2>3. CopyFits(x, ckpt) /\ InHand(x)
    BY DEF CopyFits, InHand, Working, Running, Checkpoint
  <2> HIDE DEF x
  <2> QED BY <2>1, <2>2, <2>3, BasicFrom DEF x
<1>4. ASSUME NEW d \in Drivers, Load(d) PROVE Basic'
  <2>1. /\ drv[d].pc = "called" /\ drv[d].answer \in Answer /\ drv[d].exp > 0
        /\ UNCHANGED <<ckpt, gates, starts, faults>>
        /\ answers' \subseteq Answer
    BY <1>4 DEF Load, Driver, Basic, InHand
  <2>2. CASE ckpt.rev = drv[d].exp /\ ckpt.state \notin Terminal
    <3>1. PICK a \in Answer : drv' = [drv EXCEPT ![d] = At("loaded", ckpt, a)]
      BY <1>4, <2>1, <2>2 DEF Load, Goto
    <3>2. At("loaded", ckpt, a) \in Driver /\ CopyFits(At("loaded", ckpt, a), ckpt)
      BY <2>1, <2>2, PlacedFits DEF Place
    <3>3. InHand(At("loaded", ckpt, a))
      BY <2>1, <2>2 DEF At, InHand, Running, FileShape, LifecycleValid, Checkpoint
    <3> QED BY <2>1, <3>1, <3>2, <3>3, BasicFrom
  <2>3. CASE ~(ckpt.rev = drv[d].exp /\ ckpt.state \notin Terminal)
    BY <1>4, <2>1, <2>3, BasicFrom DEF Load, Leave
  <2> QED BY <2>2, <2>3
<1>5. ASSUME NEW d \in Drivers, MarkInterrupted(d) PROVE Basic'
  <2> DEFINE base == drv[d].base
             new == NextCheckpoint(base, "recovery_required", base.approval, base.request,
                                   base.result)
  <2>1. /\ drv[d].pc \in Working /\ Save(d, new)
        /\ Goto(d, "loaded", new)
        /\ gates' \in [Drivers -> SUBSET (0..MaxAttempts)]
        /\ UNCHANGED <<starts, answers, faults>>
    BY SMTT(40), <1>5, SavedCopy DEF MarkInterrupted, Working
  <2>2. /\ base = ckpt /\ base.rev > 0 /\ base.attempt > 0
        /\ base.state = "executing" /\ base \in Checkpoint
    BY <1>5, <2>1, SavedCopy DEF MarkInterrupted, Basic, InHand, Running
  <2>3. /\ base.approval \in ApprovalState /\ base.request \in 0..MaxAttempts
        /\ base.attempt \in 0..MaxAttempts /\ base.result \in Result
        /\ base.result \in Result
    BY <2>2, CheckpointFields
  <2>4. "recovery_required" \in ExecutionState
    BY DEF ExecutionState, ApprovalState
  <2>5. /\ new \in Checkpoint /\ new.rev = base.rev + 1
        /\ new.attempt = base.attempt /\ new.state = "recovery_required"
        /\ new.approval = base.approval /\ new.request = base.request
        /\ new.result = base.result
        /\ new.reconciled = base.reconciled
    BY <2>2, <2>3, <2>4, NextFields
  <2> HIDE DEF new
  <2>6. LifecycleValid(new) /\ FileShape(new)
    BY <2>2, <2>5 DEF LifecycleValid, FileShape, Checkpoint, ResultBy, NoResult, Result, ApprovalState
  <2>7. \A a \in Answer : InHand(At("loaded", new, a))
    BY <2>2, <2>5 DEF At, InHand, Running, Terminal
  <2> QED BY <2>1, <2>5, <2>6, <2>7, BasicSave DEF Place
<1>6. ASSUME NEW d \in Drivers, Approve(d) PROVE Basic'
  <2> DEFINE base == drv[d].base
             new == NextCheckpoint(base, "executing", "granted", base.request,
                                   base.result)
  <2>1. /\ drv[d].pc \in Working /\ Save(d, new)
        /\ Goto(d, "handler", new)
        /\ gates' \in [Drivers -> SUBSET (0..MaxAttempts)]
        /\ UNCHANGED <<starts, answers, faults>>
    BY <1>6, SavedCopy DEF Approve, Working, Consume, FileShape, Checkpoint, Attempts
  <2>2. /\ base = ckpt /\ base.rev > 0 /\ base.attempt > 0
        /\ base.state = "awaiting_approval" /\ base \in Checkpoint
    BY <1>6, <2>1, SavedCopy DEF Approve, Basic, InHand, Running
  <2>3. /\ base.approval \in ApprovalState /\ base.request \in 0..MaxAttempts
        /\ base.attempt \in 0..MaxAttempts /\ base.result \in Result
        /\ base.result \in Result
    BY <2>2, CheckpointFields
  <2>4. "executing" \in ExecutionState /\ "granted" \in ApprovalState
    BY DEF ExecutionState, ApprovalState
  <2>5. /\ new \in Checkpoint /\ new.rev = base.rev + 1
        /\ new.attempt = base.attempt /\ new.state = "executing"
        /\ new.approval = "granted" /\ new.request = base.request
        /\ new.result = base.result
        /\ new.reconciled = base.reconciled
    BY <2>2, <2>3, <2>4, NextFields
  <2> HIDE DEF new
  <2>6. LifecycleValid(new) /\ FileShape(new)
    BY <2>2, <2>5 DEF LifecycleValid, FileShape, Checkpoint, ResultBy, NoResult, Result, ApprovalState
  <2>7. \A a \in Answer : InHand(At("handler", new, a))
    BY <2>2, <2>5 DEF At, InHand, Running, Terminal
  <2> QED BY <2>1, <2>5, <2>6, <2>7, BasicSave DEF Place
<1>7. ASSUME NEW d \in Drivers, SaveDenial(d) PROVE Basic'
  <2> DEFINE base == drv[d].base
             new == NextCheckpoint(base, "denied", "rejected", base.request,
                                   ResultBy("gate", base.attempt))
  <2>1. /\ drv[d].pc \in Working /\ Save(d, new)
        /\ Leave(d)
        /\ gates' \in [Drivers -> SUBSET (0..MaxAttempts)]
        /\ UNCHANGED <<starts, answers, faults>>
    BY <1>7, SavedCopy DEF SaveDenial, Working
  <2>2. /\ base = ckpt /\ base.rev > 0 /\ base.attempt > 0
        /\ base.state = "awaiting_approval" /\ base \in Checkpoint
    BY <1>7, <2>1, SavedCopy DEF SaveDenial, Basic, InHand, Running
  <2>3. /\ base.approval \in ApprovalState /\ base.request \in 0..MaxAttempts
        /\ base.attempt \in 0..MaxAttempts /\ base.result \in Result
        /\ ResultBy("gate", base.attempt) \in Result
    BY <2>2, CheckpointFields
  <2>4. "denied" \in ExecutionState /\ "rejected" \in ApprovalState
    BY DEF ExecutionState, ApprovalState
  <2>5. /\ new \in Checkpoint /\ new.rev = base.rev + 1
        /\ new.attempt = base.attempt /\ new.state = "denied"
        /\ new.approval = "rejected" /\ new.request = base.request
        /\ new.result = ResultBy("gate", base.attempt)
        /\ new.reconciled = base.reconciled
    BY <2>2, <2>3, <2>4, NextFields
  <2> HIDE DEF new
  <2>6. LifecycleValid(new) /\ FileShape(new)
    BY <2>2, <2>5 DEF LifecycleValid, FileShape, Checkpoint, ResultBy, NoResult, Result, ApprovalState
  <2> QED BY <2>1, <2>5, <2>6, BasicSave DEF Place
<1>8. ASSUME NEW d \in Drivers, ConfirmExecuted(d) PROVE Basic'
  <2> DEFINE base == drv[d].base
             new == NextCheckpoint(base, "awaiting_reconcile", base.approval, base.request,
                                   NoResult)
  <2>1. /\ drv[d].pc \in Working /\ Save(d, new)
        /\ Leave(d)
        /\ gates' \in [Drivers -> SUBSET (0..MaxAttempts)]
        /\ UNCHANGED <<starts, answers, faults>>
    BY <1>8, SavedCopy DEF ConfirmExecuted, Working
  <2>2. /\ base = ckpt /\ base.rev > 0 /\ base.attempt > 0
        /\ base.state = "recovery_required" /\ base \in Checkpoint
    BY <1>8, <2>1, SavedCopy DEF ConfirmExecuted, Basic, InHand, Running
  <2>3. /\ base.approval \in ApprovalState /\ base.request \in 0..MaxAttempts
        /\ base.attempt \in 0..MaxAttempts /\ base.result \in Result
        /\ NoResult \in Result
    BY <2>2, CheckpointFields
  <2>4. "awaiting_reconcile" \in ExecutionState
    BY DEF ExecutionState, ApprovalState
  <2>5. /\ new \in Checkpoint /\ new.rev = base.rev + 1
        /\ new.attempt = base.attempt /\ new.state = "awaiting_reconcile"
        /\ new.approval = base.approval /\ new.request = base.request
        /\ new.result = NoResult
        /\ new.reconciled = base.reconciled
    BY <2>2, <2>3, <2>4, NextFields
  <2> HIDE DEF new
  <2>6. LifecycleValid(new) /\ FileShape(new)
    BY <2>2, <2>5 DEF LifecycleValid, FileShape, Checkpoint, ResultBy, NoResult, Result, ApprovalState
  <2> QED BY <2>1, <2>5, <2>6, BasicSave DEF Place
<1>9. ASSUME NEW d \in Drivers, RetryAllowed(d) PROVE Basic'
  <2> DEFINE base == drv[d].base
             new == NextCheckpoint(base, "executing", "not_required", base.request,
                                   base.result)
  <2>1. /\ drv[d].pc \in Working /\ Save(d, new)
        /\ Goto(d, "handler", new)
        /\ gates' \in [Drivers -> SUBSET (0..MaxAttempts)]
        /\ UNCHANGED <<starts, answers, faults>>
    BY <1>9, SavedCopy DEF RetryAllowed, Working
  <2>2. /\ base = ckpt /\ base.rev > 0 /\ base.attempt > 0
        /\ base.state = "pending" /\ base \in Checkpoint
    BY <1>9, <2>1, SavedCopy DEF RetryAllowed, Basic, InHand, Running
  <2>3. /\ base.approval \in ApprovalState /\ base.request \in 0..MaxAttempts
        /\ base.attempt \in 0..MaxAttempts /\ base.result \in Result
        /\ base.result \in Result
    BY <2>2, CheckpointFields
  <2>4. "executing" \in ExecutionState /\ "not_required" \in ApprovalState
    BY DEF ExecutionState, ApprovalState
  <2>5. /\ new \in Checkpoint /\ new.rev = base.rev + 1
        /\ new.attempt = base.attempt /\ new.state = "executing"
        /\ new.approval = "not_required" /\ new.request = base.request
        /\ new.result = base.result
        /\ new.reconciled = base.reconciled
    BY <2>2, <2>3, <2>4, NextFields
  <2> HIDE DEF new
  <2>6. LifecycleValid(new) /\ FileShape(new)
    BY <2>2, <2>5 DEF LifecycleValid, FileShape, Checkpoint, ResultBy, NoResult, Result, ApprovalState
  <2>7. \A a \in Answer : InHand(At("handler", new, a))
    BY <2>2, <2>5 DEF At, InHand, Running, Terminal
  <2> QED BY <2>1, <2>5, <2>6, <2>7, BasicSave DEF Place
<1>10. ASSUME NEW d \in Drivers, RetryAsked(d) PROVE Basic'
  <2> DEFINE base == drv[d].base
             new == NextCheckpoint(base, "awaiting_approval", "awaiting", base.attempt,
                                   base.result)
  <2>1. /\ drv[d].pc \in Working /\ Save(d, new)
        /\ Leave(d)
        /\ gates' \in [Drivers -> SUBSET (0..MaxAttempts)]
        /\ UNCHANGED <<starts, answers, faults>>
    BY <1>10, SavedCopy DEF RetryAsked, Working
  <2>2. /\ base = ckpt /\ base.rev > 0 /\ base.attempt > 0
        /\ base.state = "pending" /\ base \in Checkpoint
    BY <1>10, <2>1, SavedCopy DEF RetryAsked, Basic, InHand, Running
  <2>3. /\ base.approval \in ApprovalState /\ base.request \in 0..MaxAttempts
        /\ base.attempt \in 0..MaxAttempts /\ base.result \in Result
        /\ base.result \in Result
    BY <2>2, CheckpointFields
  <2>4. "awaiting_approval" \in ExecutionState /\ "awaiting" \in ApprovalState
    BY DEF ExecutionState, ApprovalState
  <2>5. /\ new \in Checkpoint /\ new.rev = base.rev + 1
        /\ new.attempt = base.attempt /\ new.state = "awaiting_approval"
        /\ new.approval = "awaiting" /\ new.request = base.attempt
        /\ new.result = base.result
        /\ new.reconciled = base.reconciled
    BY <2>2, <2>3, <2>4, NextFields
  <2> HIDE DEF new
  <2>6. LifecycleValid(new) /\ FileShape(new)
    BY <2>2, <2>5 DEF LifecycleValid, FileShape, Checkpoint, ResultBy, NoResult, Result, ApprovalState
  <2> QED BY <2>1, <2>5, <2>6, BasicSave DEF Place
<1>11. ASSUME NEW d \in Drivers, RetryDenied(d) PROVE Basic'
  <2> DEFINE base == drv[d].base
             new == NextCheckpoint(base, "denied", base.approval, base.request,
                                   ResultBy("gate", base.attempt))
  <2>1. /\ drv[d].pc \in Working /\ Save(d, new)
        /\ Leave(d)
        /\ gates' \in [Drivers -> SUBSET (0..MaxAttempts)]
        /\ UNCHANGED <<starts, answers, faults>>
    BY <1>11, SavedCopy DEF RetryDenied, Working
  <2>2. /\ base = ckpt /\ base.rev > 0 /\ base.attempt > 0
        /\ base.state = "pending" /\ base \in Checkpoint
    BY <1>11, <2>1, SavedCopy DEF RetryDenied, Basic, InHand, Running
  <2>3. /\ base.approval \in ApprovalState /\ base.request \in 0..MaxAttempts
        /\ base.attempt \in 0..MaxAttempts /\ base.result \in Result
        /\ ResultBy("gate", base.attempt) \in Result
    BY <2>2, CheckpointFields
  <2>4. "denied" \in ExecutionState
    BY DEF ExecutionState, ApprovalState
  <2>5. /\ new \in Checkpoint /\ new.rev = base.rev + 1
        /\ new.attempt = base.attempt /\ new.state = "denied"
        /\ new.approval = base.approval /\ new.request = base.request
        /\ new.result = ResultBy("gate", base.attempt)
        /\ new.reconciled = base.reconciled
    BY <2>2, <2>3, <2>4, NextFields
  <2> HIDE DEF new
  <2>6. LifecycleValid(new) /\ FileShape(new)
    BY <2>2, <2>5 DEF LifecycleValid, FileShape, Checkpoint, ResultBy, NoResult, Result, ApprovalState
  <2> QED BY <2>1, <2>5, <2>6, BasicSave DEF Place
<1>12. ASSUME NEW d \in Drivers, Complete(d) PROVE Basic'
  <2> DEFINE base == drv[d].base
             new == NextCheckpoint(base, "completed", base.approval, base.request,
                                   ResultBy("handler", base.attempt))
  <2>1. /\ drv[d].pc \in Working /\ Save(d, new)
        /\ Leave(d)
        /\ gates' \in [Drivers -> SUBSET (0..MaxAttempts)]
        /\ UNCHANGED <<starts, answers, faults>>
    BY <1>12, SavedCopy DEF Complete, Working
  <2>2. /\ base = ckpt /\ base.rev > 0 /\ base.attempt > 0
        /\ base.state = "executing" /\ base \in Checkpoint
    BY <1>12, <2>1, SavedCopy DEF Complete, Basic, InHand, Running
  <2>3. /\ base.approval \in ApprovalState /\ base.request \in 0..MaxAttempts
        /\ base.attempt \in 0..MaxAttempts /\ base.result \in Result
        /\ ResultBy("handler", base.attempt) \in Result
    BY <2>2, CheckpointFields
  <2>4. "completed" \in ExecutionState
    BY DEF ExecutionState, ApprovalState
  <2>5. /\ new \in Checkpoint /\ new.rev = base.rev + 1
        /\ new.attempt = base.attempt /\ new.state = "completed"
        /\ new.approval = base.approval /\ new.request = base.request
        /\ new.result = ResultBy("handler", base.attempt)
        /\ new.reconciled = base.reconciled
    BY <2>2, <2>3, <2>4, NextFields
  <2> HIDE DEF new
  <2>6. LifecycleValid(new) /\ FileShape(new)
    BY <2>2, <2>5 DEF LifecycleValid, FileShape, Checkpoint, ResultBy, NoResult, Result, ApprovalState
  <2> QED BY <2>1, <2>5, <2>6, BasicSave DEF Place
<1>13. ASSUME NEW d \in Drivers, ConfirmNotExecuted(d) PROVE Basic'
  <2> DEFINE base == drv[d].base
             new == RenewedCheckpoint(base)
  <2>1. /\ base = ckpt /\ base.rev > 0 /\ base.state = "recovery_required"
        /\ base.attempt + 1 \in 0..MaxAttempts
        /\ Save(d, new) /\ Goto(d, "retrying", new)
        /\ drv[d].pc \in Working /\ UNCHANGED <<gates, starts, answers, faults>>
    BY <1>13, SavedCopy DEF ConfirmNotExecuted, Working, Checkpoint
  <2>2. /\ new \in Checkpoint /\ new.rev = base.rev + 1
        /\ new.attempt = base.attempt + 1 /\ new.state = "pending"
        /\ new.approval = "not_required" /\ new.request = 0
        /\ new.result = NoResult /\ new.reconciled = base.reconciled
    BY <2>1 DEF Checkpoint, RenewedCheckpoint, ExecutionState, ApprovalState
  <2> HIDE DEF new
  <2>3. LifecycleValid(new) /\ FileShape(new)
    BY <2>1, <2>2 DEF LifecycleValid, FileShape, Checkpoint
  <2>4. \A a \in Answer : InHand(At("retrying", new, a))
    BY <2>1, <2>2 DEF At, InHand, Running, Working, Terminal, Checkpoint
  <2> QED BY <2>1, <2>2, <2>3, <2>4, BasicSave DEF Place
<1>14. ASSUME NEW d \in Drivers, Reconcile(d) PROVE Basic'
  <2> DEFINE base == drv[d].base
             new == ReconciledCheckpoint(base)
  <2>1. /\ base = ckpt /\ base.rev > 0 /\ base.state = "awaiting_reconcile"
        /\ Save(d, new) /\ Leave(d)
        /\ drv[d].pc \in Working /\ UNCHANGED <<gates, starts, answers, faults>>
    BY <1>14, SavedCopy DEF Reconcile, Working
  <2>2. /\ new \in Checkpoint /\ new.rev = base.rev + 1
        /\ new.attempt = base.attempt /\ new.state = "completed"
        /\ new.approval = base.approval /\ new.request = base.request
        /\ new.result = ResultBy("human", base.attempt)
    BY <2>1 DEF Checkpoint, ReconciledCheckpoint, ExecutionState, Result, ResultBy
  <2> HIDE DEF new
  <2>3. LifecycleValid(new) /\ FileShape(new)
    BY <2>1, <2>2 DEF LifecycleValid, FileShape, Checkpoint, ResultBy, NoResult
  <2> QED BY <2>1, <2>2, <2>3, BasicSave DEF Place
<1>15. ASSUME NEW d \in Drivers, Reject(d) PROVE Basic'
  <2> DEFINE base == drv[d].base
             x == At("denying", base, NoAnswer)
  <2>1. /\ drv[d].pc = "loaded" /\ base.state = "awaiting_approval"
        /\ drv' = [drv EXCEPT ![d] = x] /\ UNCHANGED <<ckpt, starts, answers, faults>>
        /\ gates' = [gates EXCEPT ![d] = @ \cup {base.request}]
    BY <1>15 DEF Reject, Goto, Consume
  <2>2. /\ base \in Checkpoint /\ base.attempt > 0
        /\ CopyFits(drv[d], ckpt)
    BY <2>1 DEF Basic, InHand, Driver, Working
  <2>5. InHand(drv[d]) BY DEF Basic
  <2>3. /\ x \in Driver /\ x.pc = "denying" /\ x.base = base
    BY <2>1, <2>2, PlacedFits DEF Place
  <2>6. InHand(x) /\ CopyFits(x, ckpt)
    BY <2>1, <2>2, <2>3, <2>5 DEF InHand, CopyFits, Working, Running
  <2>4. base.request \in 0..MaxAttempts
    BY <2>2 DEF Checkpoint
  <2>7. gates' \in [Drivers -> SUBSET (0..MaxAttempts)] BY <2>1, <2>4
  <2> QED BY <2>1, <2>3, <2>6, <2>7, BasicFrom
<1>16. ASSUME NEW d \in Drivers, RunHandler(d) PROVE Basic'
  <2> DEFINE base == drv[d].base
             x == At("ran", base, NoAnswer)
  <2>0. base \in Checkpoint BY DEF Driver
  <2>1. /\ drv[d].pc = "handler"
        /\ drv' = [drv EXCEPT ![d] = x] /\ UNCHANGED <<ckpt, gates, answers, faults>>
        /\ starts' = [starts EXCEPT ![base.attempt] = @ + 1]
    BY <1>16 DEF RunHandler, Goto
  <2>4. starts' \in [Attempts -> Nat]
    <3>1. base.attempt \in Attempts
      BY SMTT(40), <2>0, <2>1 DEF Basic, InHand, Working, Checkpoint, Attempts
    <3> QED BY <2>1, <3>1
  <2>2. x \in Driver /\ x.pc = "ran" /\ x.base = base
    BY <2>0, PlacedFits DEF Place
  <2>3. InHand(x) /\ CopyFits(x, ckpt)
    BY <2>1, <2>2 DEF Basic, InHand, CopyFits, Working, Running
  <2> QED BY <2>1, <2>2, <2>3, <2>4, BasicFrom
<1>17. ASSUME NEW d \in Drivers, RefuseDecision(d) PROVE Basic'
  BY <1>17, BasicFrom DEF RefuseDecision, Leave
<1>18. ASSUME NEW d \in Drivers, Pause(d) PROVE Basic'
  BY <1>18, BasicFrom DEF Pause, Leave
<1>19. ASSUME NEW d \in Drivers, Conflict(d) PROVE Basic'
  BY <1>19, BasicFrom DEF Conflict, Leave
<1>20. ASSUME NEW d \in Drivers, Fault(d) PROVE Basic'
  <2>1. faults' \in 0..MaxFaults /\ gates' \in [Drivers -> SUBSET (0..MaxAttempts)]
    BY <1>20 DEF Fault
  <2> QED BY <1>20, <2>1, BasicFrom DEF Fault, Leave
<1>21. CASE UNCHANGED vars
  BY <1>21 DEF vars, Basic, TypeOK
<1> QED
  BY <1>1, <1>2, <1>3, <1>4, <1>5, <1>6, <1>7, <1>8, <1>9, <1>10, <1>11, <1>12, <1>13, <1>14, <1>15, <1>16, <1>17, <1>18, <1>19, <1>20, <1>21
  DEF Next, Step, ShownRevisions

\* What a save changes, in terms of the file before it.
LEMMA SaveEffect ==
  ASSUME Basic, NEW d \in Drivers, drv[d].pc \in Working,
         NEW state, NEW approval, NEW request, NEW result,
         Save(d, NextCheckpoint(drv[d].base, state, approval, request, result))
  PROVE  /\ drv[d].base = ckpt /\ ckpt'.rev = ckpt.rev + 1
         /\ ckpt'.attempt = ckpt.attempt /\ ckpt'.state = state
         /\ ckpt'.approval = approval /\ ckpt'.request = request
         /\ ckpt'.result = result /\ ckpt'.reconciled = ckpt.reconciled
BY SavedCopy DEF NextCheckpoint

-----------------------------------------------------------------------------
(* At most one start per attempt, and only of an attempt on record.        *)

OnRecord == {"executing", "recovery_required", "awaiting_reconcile", "completed"}

\* An attempt stays on record when the file moves on within it or past it.
LEMMA CommittedKept ==
  ASSUME Basic, Basic',
         \/ UNCHANGED ckpt
         \/ ckpt'.attempt > ckpt.attempt
         \/ /\ ckpt'.attempt = ckpt.attempt
            /\ ckpt.state \in OnRecord => ckpt'.state \in OnRecord
  PROVE  \A a \in Attempts : Committed(a) => Committed(a)'
BY CheckpointFields, BasicTypes DEF Basic, TypeOK, Committed, OnRecord, Attempts

\* A step that starts nothing and after which its driver is in no handler.
LEMMA SafeQuiet ==
  ASSUME Basic, Basic', Safe, NEW d \in Drivers,
         UNCHANGED starts, \A a \in Attempts : Committed(a) => Committed(a)',
         \A e \in Drivers \ {d} : drv'[e] = drv[e],
         drv'[d].pc \notin Running
  PROVE  Safe'
<1>1. \A e \in Drivers : drv[e].pc \in Running => drv[e].base.attempt \in Attempts
  BY CheckpointFields DEF Basic, TypeOK, InHand, Working, Running, Driver, Attempts
<1>2. OneStartPerAttempt' /\ StartIsOnRecord'
  BY DEF Safe, OneStartPerAttempt, StartIsOnRecord
<1>3. Runners'
  BY <1>1 DEF Safe, Runners
<1> QED BY <1>2, <1>3 DEF Safe

\* A step into the handler of an attempt that was not on record and now is.
LEMMA SafeEnter ==
  ASSUME Basic, Basic', Safe, NEW d \in Drivers, NEW a \in Attempts,
         UNCHANGED starts, \A b \in Attempts : Committed(b) => Committed(b)',
         \A e \in Drivers \ {d} : drv'[e] = drv[e],
         drv'[d].pc = "handler", drv'[d].base.attempt = a,
         ~Committed(a), Committed(a)'
  PROVE  Safe'
<1>1. \A e \in Drivers : drv[e].pc \in Running => drv[e].base.attempt \in Attempts
  BY CheckpointFields DEF Basic, TypeOK, InHand, Working, Running, Driver, Attempts
<1>2. OneStartPerAttempt' /\ StartIsOnRecord'
  BY DEF Safe, OneStartPerAttempt, StartIsOnRecord
<1>3. starts[a] = 0
  BY DEF Safe, StartIsOnRecord, Basic, TypeOK
<1>4. \A e \in Drivers : drv[e].pc \in Running => drv[e].base.attempt # a
  BY DEF Safe, Runners
<1>5. Runners'
  BY <1>1, <1>3, <1>4 DEF Safe, Runners, Running
<1> QED BY <1>2, <1>5 DEF Safe

LEMMA SafeInit == Init => Safe
<1> SUFFICES ASSUME Init PROVE Safe OBVIOUS
<1>1. OneStartPerAttempt /\ StartIsOnRecord
  BY DEF Init, OneStartPerAttempt, StartIsOnRecord
<1>2. Runners BY DEF Init, Runners, Idle, Running
<1> QED BY <1>1, <1>2 DEF Safe

LEMMA SafeStep == Basic /\ Basic' /\ Safe /\ [Next]_vars => Safe'
<1> SUFFICES ASSUME Basic, Basic', Safe, [Next]_vars PROVE Safe' OBVIOUS
<1> USE BasicTypes
<1>a. ASSUME NEW d \in Drivers, UNCHANGED <<ckpt, starts>>,
             NEW x, drv' = [drv EXCEPT ![d] = x], x.pc \notin Running
      PROVE  Safe'
  BY <1>a, CommittedKept, SafeQuiet
<1>b. ASSUME NEW d \in Drivers, UNCHANGED starts, Leave(d),
             \/ ckpt'.attempt > ckpt.attempt
             \/ /\ ckpt'.attempt = ckpt.attempt
                /\ ckpt.state \in OnRecord => ckpt'.state \in OnRecord
      PROVE  Safe'
  <2>1. \A a \in Attempts : Committed(a) => Committed(a)'
    BY <1>b, CommittedKept
  <2>2. drv'[d].pc \notin Running /\ \A e \in Drivers \ {d} : drv'[e] = drv[e]
    BY <1>b DEF Leave, Idle, Running
  <2> QED BY <1>b, <2>1, <2>2, SafeQuiet
<1>1. ASSUME NEW d \in Drivers, ExecuteAllowed(d) PROVE Safe'
  <2>1. /\ ckpt.attempt = 0 /\ ckpt'.attempt = 1 /\ ckpt'.state = "executing"
        /\ UNCHANGED starts
        /\ drv'[d].pc = "handler" /\ drv'[d].base.attempt = 1
        /\ \A e \in Drivers \ {d} : drv'[e] = drv[e]
    BY <1>1 DEF ExecuteAllowed, Goto, At, NewCheckpoint, FileShape, Absent
  <2>2. 1 \in Attempts /\ ~Committed(1) /\ Committed(1)'
    BY <2>1 DEF Committed, Attempts
  <2>3. \A a \in Attempts : Committed(a) => Committed(a)'
    BY <2>1, CommittedKept
  <2> QED BY <2>1, <2>2, <2>3, SafeEnter
<1>2. ASSUME NEW d \in Drivers, ExecuteAsked(d) PROVE Safe'
  <2>1. /\ ckpt.attempt = 0 /\ ckpt'.attempt = 1 /\ drv[d].pc = "idle"
        /\ UNCHANGED <<drv, starts>>
    BY <1>2 DEF ExecuteAsked, NewCheckpoint, FileShape, Absent
  <2>2. \A a \in Attempts : Committed(a) => Committed(a)'
    BY <2>1, CommittedKept
  <2> QED BY <2>1, <2>2, SafeQuiet DEF Running
<1>3. ASSUME NEW d \in Drivers, NEW rev \in 1..ckpt.rev, NEW kind \in AnswerKind,
             Call(d, rev, kind)
      PROVE  Safe'
  BY <1>3, <1>a DEF Call, Running
<1>4. ASSUME NEW d \in Drivers, Load(d) PROVE Safe'
  <2>1. CASE Leave(d) BY <1>4, <1>a, <2>1 DEF Load, Leave, Idle, Running
  <2>2. CASE Goto(d, "loaded", ckpt)
    BY <1>4, <1>a, <2>2 DEF Load, Goto, At, Running
  <2> QED BY <1>4, <2>1, <2>2 DEF Load
<1>5. ASSUME NEW d \in Drivers, MarkInterrupted(d) PROVE Safe'
  <2>1. /\ drv[d].pc \in Working /\ UNCHANGED starts
        /\ drv'[d].pc \notin Running
        /\ \A e \in Drivers \ {d} : drv'[e] = drv[e]
    BY <1>5 DEF MarkInterrupted, Goto, At, Working, Running
  <2>2. ckpt'.attempt = ckpt.attempt /\ ckpt'.state \in OnRecord
    BY ZenonT(40), <1>5, <2>1, SaveEffect DEF MarkInterrupted, OnRecord
  <2> QED BY <2>1, <2>2, CommittedKept, SafeQuiet
<1>6. ASSUME NEW d \in Drivers, Approve(d) PROVE Safe'
  <2>a. PICK a \in Attempts : a = ckpt.attempt
    BY <1>6, CheckpointFields DEF Approve, Basic, TypeOK, CopyFits, InHand, Working, FileShape, Attempts, Checkpoint
  <2>1. /\ drv[d].pc \in Working /\ drv[d].base.state = "awaiting_approval"
        /\ UNCHANGED starts
    BY <1>6 DEF Approve, Working
  <2>2. /\ drv[d].base = ckpt /\ ckpt'.attempt = a /\ ckpt'.state = "executing"
    BY <1>6, <2>a, <2>1, SaveEffect DEF Approve
  <2>3. /\ drv'[d].pc = "handler" /\ drv'[d].base.attempt = a
        /\ \A e \in Drivers \ {d} : drv'[e] = drv[e]
    BY <1>6, <2>a, <2>2 DEF Approve, Goto, At, NextCheckpoint
  <2>4. ~Committed(a) /\ Committed(a)'
    BY <2>a, <2>1, <2>2 DEF Committed, Attempts
  <2>5. \A b \in Attempts : Committed(b) => Committed(b)'
    BY <2>a, <2>1, <2>2, CommittedKept DEF OnRecord
  <2> QED BY <2>1, <2>3, <2>4, <2>5, SafeEnter
<1>7. ASSUME NEW d \in Drivers, RetryAllowed(d) PROVE Safe'
  <2>a. PICK a \in Attempts : a = ckpt.attempt
    BY <1>7, CheckpointFields DEF RetryAllowed, Basic, TypeOK, CopyFits, InHand, Working, FileShape, Attempts, Checkpoint
  <2>1. /\ drv[d].pc \in Working /\ drv[d].base.state = "pending"
        /\ UNCHANGED starts
    BY <1>7 DEF RetryAllowed, Working, Basic, InHand
  <2>2. /\ drv[d].base = ckpt /\ ckpt'.attempt = a /\ ckpt'.state = "executing"
    BY <1>7, <2>a, <2>1, SaveEffect DEF RetryAllowed
  <2>3. /\ drv'[d].pc = "handler" /\ drv'[d].base.attempt = a
        /\ \A e \in Drivers \ {d} : drv'[e] = drv[e]
    BY <1>7, <2>a, <2>2 DEF RetryAllowed, Goto, At, NextCheckpoint
  <2>4. ~Committed(a) /\ Committed(a)'
    BY <2>a, <2>1, <2>2 DEF Committed, Attempts
  <2>5. \A b \in Attempts : Committed(b) => Committed(b)'
    BY <2>a, <2>1, <2>2, CommittedKept DEF OnRecord
  <2> QED BY <2>1, <2>3, <2>4, <2>5, SafeEnter
<1>8. ASSUME NEW d \in Drivers, SaveDenial(d) PROVE Safe'
  <2>1. /\ drv[d].pc \in Working /\ UNCHANGED starts /\ Leave(d)
        /\ drv[d].base.state \notin OnRecord
    BY <1>8 DEF SaveDenial, Working, Basic, InHand, OnRecord
  <2>2. /\ ckpt'.attempt = ckpt.attempt
        /\ drv[d].base = ckpt
    BY <1>8, <2>1, SaveEffect DEF SaveDenial
  <2> QED BY <2>1, <2>2, <1>b
<1>9. ASSUME NEW d \in Drivers, ConfirmExecuted(d) PROVE Safe'
  <2>1. /\ drv[d].pc \in Working /\ UNCHANGED starts /\ Leave(d)
    BY <1>9 DEF ConfirmExecuted, Working
  <2>2. /\ ckpt'.attempt = ckpt.attempt
        /\ ckpt'.state \in OnRecord
    BY <1>9, <2>1, SaveEffect DEF ConfirmExecuted, OnRecord
  <2> QED BY <2>1, <2>2, <1>b
<1>10. ASSUME NEW d \in Drivers, RetryAsked(d) PROVE Safe'
  <2>1. /\ drv[d].pc \in Working /\ UNCHANGED starts /\ Leave(d)
        /\ drv[d].base.state \notin OnRecord
    BY <1>10 DEF RetryAsked, Working, Basic, InHand, OnRecord
  <2>2. /\ ckpt'.attempt = ckpt.attempt
        /\ drv[d].base = ckpt
    BY <1>10, <2>1, SaveEffect DEF RetryAsked
  <2> QED BY <2>1, <2>2, <1>b
<1>11. ASSUME NEW d \in Drivers, RetryDenied(d) PROVE Safe'
  <2>1. /\ drv[d].pc \in Working /\ UNCHANGED starts /\ Leave(d)
        /\ drv[d].base.state \notin OnRecord
    BY <1>11 DEF RetryDenied, Working, Basic, InHand, OnRecord
  <2>2. /\ ckpt'.attempt = ckpt.attempt
        /\ drv[d].base = ckpt
    BY <1>11, <2>1, SaveEffect DEF RetryDenied
  <2> QED BY <2>1, <2>2, <1>b
<1>12. ASSUME NEW d \in Drivers, Complete(d) PROVE Safe'
  <2>1. /\ drv[d].pc \in Working /\ UNCHANGED starts /\ Leave(d)
    BY <1>12 DEF Complete, Working
  <2>2. /\ ckpt'.attempt = ckpt.attempt
        /\ ckpt'.state \in OnRecord
    BY <1>12, <2>1, SaveEffect DEF Complete, OnRecord
  <2> QED BY <2>1, <2>2, <1>b
<1>13. ASSUME NEW d \in Drivers, ConfirmNotExecuted(d) PROVE Safe'
  <2>1. /\ drv[d].pc \in Working /\ UNCHANGED starts
        /\ drv'[d].pc \notin Running
        /\ \A e \in Drivers \ {d} : drv'[e] = drv[e]
    BY <1>13 DEF ConfirmNotExecuted, Goto, At, Working, Running
  <2>2. ckpt'.attempt = ckpt.attempt + 1
    BY <1>13, <2>1, SavedCopy DEF ConfirmNotExecuted, RenewedCheckpoint
  <2>3. ckpt'.attempt > ckpt.attempt BY <2>2, CheckpointFields
  <2> QED BY <2>1, <2>3, CommittedKept, SafeQuiet
<1>14. ASSUME NEW d \in Drivers, Reconcile(d) PROVE Safe'
  <2>1. drv[d].pc \in Working /\ UNCHANGED starts /\ Leave(d)
    BY <1>14 DEF Reconcile, Working
  <2>2. ckpt'.attempt = ckpt.attempt /\ ckpt'.state \in OnRecord
    BY <1>14, <2>1, SavedCopy DEF Reconcile, OnRecord, ReconciledCheckpoint
  <2> QED BY <2>1, <2>2, <1>b
<1>15. ASSUME NEW d \in Drivers, Reject(d) PROVE Safe'
  BY <1>15, <1>a DEF Reject, Goto, At, Running
<1>16. ASSUME NEW d \in Drivers, RunHandler(d) PROVE Safe'
  <2> DEFINE a == drv[d].base.attempt
  <2>1. /\ drv[d].pc = "handler" /\ UNCHANGED ckpt
        /\ starts' = [starts EXCEPT ![a] = @ + 1]
        /\ drv'[d].pc = "ran" /\ drv'[d].base = drv[d].base
        /\ \A e \in Drivers \ {d} : drv'[e] = drv[e]
    BY <1>16 DEF RunHandler, Goto, At
  <2>2. \A e \in Drivers : drv[e].pc \in Running => drv[e].base.attempt \in Attempts
    BY CheckpointFields DEF Basic, TypeOK, InHand, Working, Running, Driver, Attempts
  <2>3. a \in Attempts /\ Committed(a) /\ starts[a] = 0
    BY <2>1, <2>2 DEF Safe, Runners, Running
  <2>4. starts'[a] = 1 /\ \A b \in Attempts \ {a} : starts'[b] = starts[b]
    BY <2>1, <2>3
  <2>5. \A b : Committed(b)' <=> Committed(b)
    BY <2>1 DEF Committed
  <2>6. OneStartPerAttempt' /\ StartIsOnRecord'
    BY <2>3, <2>4, <2>5 DEF Safe, OneStartPerAttempt, StartIsOnRecord
  <2>7. \A e \in Drivers \ {d} : drv[e].pc \in Running => drv[e].base.attempt # a
    BY <2>1 DEF Safe, Runners, Running
  <2>8. Runners'
    BY <2>1, <2>2, <2>3, <2>4, <2>5, <2>7 DEF Safe, Runners, Running
  <2> QED BY <2>6, <2>8 DEF Safe
<1>17. ASSUME NEW d \in Drivers, RefuseDecision(d) PROVE Safe'
  BY <1>17, <1>a DEF RefuseDecision, Leave, Idle, Running
<1>18. ASSUME NEW d \in Drivers, Pause(d) PROVE Safe'
  BY <1>18, <1>a DEF Pause, Leave, Idle, Running
<1>19. ASSUME NEW d \in Drivers, Conflict(d) PROVE Safe'
  BY <1>19, <1>a DEF Conflict, Leave, Idle, Running
<1>20. ASSUME NEW d \in Drivers, Fault(d) PROVE Safe'
  BY <1>20, <1>a DEF Fault, Leave, Idle, Running
<1>21. CASE UNCHANGED vars
  BY <1>21 DEF vars, Safe, OneStartPerAttempt, StartIsOnRecord, Runners, Committed
<1> QED
  BY <1>1, <1>2, <1>3, <1>4, <1>5, <1>6, <1>7, <1>8, <1>9, <1>10, <1>11, <1>12, <1>13, <1>14, <1>15, <1>16, <1>17, <1>18, <1>19, <1>20, <1>21
  DEF Next, Step, ShownRevisions

-----------------------------------------------------------------------------
(* Answers: what recovery, approval and reconciliation rest on.            *)

\* A driver keeps its answer when the file gets a higher revision and more
\* answers are given.
LEMMA AnswerKept ==
  ASSUME NEW r \in Driver, NEW c \in Checkpoint, NEW c2 \in Checkpoint,
         NEW g, NEW g2, AnswerFits(r, c, g), g \subseteq g2,
         c2 = c \/ c2.rev > c.rev
  PROVE  AnswerFits(r, c2, g2)
BY DEF AnswerFits, Driver, Checkpoint

\* An approval that is awaited or was rejected has started nothing.
LEMMA UnapprovedUnstarted ==
  ASSUME Basic, Safe
  PROVE  ckpt.attempt > 0 /\ ckpt.approval \in {"awaiting", "rejected"} =>
           starts[ckpt.attempt] = 0
<1> SUFFICES ASSUME ckpt.attempt > 0, ckpt.approval \in {"awaiting", "rejected"}
             PROVE  starts[ckpt.attempt] = 0
  OBVIOUS
<1>1. ckpt.attempt \in Attempts
  BY BasicTypes DEF Checkpoint, Attempts
<1>2. ckpt.state \in {"awaiting_approval", "denied"}
  BY BasicTypes DEF FileShape
<1>3. ~Committed(ckpt.attempt)
  BY <1>1, <1>2 DEF Committed, Attempts
<1> QED BY <1>1, <1>3, BasicTypes DEF Safe, StartIsOnRecord

\* A step that changes one driver record keeps Answered if what it says of the
\* file holds again.
LEMMA AnsweredFrom ==
  ASSUME Basic, Basic', Safe', Answered, NEW d \in Drivers,
         \A e \in Drivers \ {d} : drv'[e] = drv[e],
         answers \subseteq answers',
         UNCHANGED ckpt \/ ckpt'.rev > ckpt.rev,
         AnswerFits(drv'[d], ckpt', answers'),
         ReconcileIsDeclared', ReplayNeedsAnOperator', ResultIsGenuine',
         ckpt'.approval = "granted" =>
           [kind |-> "approve", id |-> ckpt'.attempt] \in answers',
         ckpt'.approval = "rejected" =>
           [kind |-> "reject", id |-> ckpt'.attempt] \in answers'
  PROVE  Answered'
<1>1. ASSUME NEW e \in Drivers PROVE AnswerFits(drv'[e], ckpt', answers')
  <2>1. CASE e = d BY <2>1
  <2>2. CASE e # d
    <3>1. /\ drv[e] \in Driver /\ ckpt \in Checkpoint /\ ckpt' \in Checkpoint
          /\ drv'[e] = drv[e] /\ AnswerFits(drv[e], ckpt, answers)
      BY <2>2 DEF Basic, TypeOK, Answered
    <3>2. AnswerFits(drv[e], ckpt', answers')
      BY <3>1, AnswerKept
    <3> QED BY <3>1, <3>2
  <2> QED BY <2>1, <2>2
<1>2. (ckpt.attempt > 0 /\ ckpt.approval \in {"awaiting", "rejected"} =>
           starts[ckpt.attempt] = 0)'
  BY UnapprovedUnstarted, PTL
<1>3. ApprovalIsOfThisAttempt'
  BY <1>2 DEF ApprovalIsOfThisAttempt
<1> QED BY <1>1, <1>3 DEF Answered

\* A step that leaves the file alone and starts no more than it has to.
LEMMA AnsweredQuiet ==
  ASSUME Basic, Basic', Safe', Answered, NEW d \in Drivers, UNCHANGED ckpt,
         \A e \in Drivers \ {d} : drv'[e] = drv[e],
         answers \subseteq answers', UNCHANGED starts,
         AnswerFits(drv'[d], ckpt', answers')
  PROVE  Answered'
<1>1. /\ ReconcileIsDeclared' /\ ReplayNeedsAnOperator' /\ ResultIsGenuine'
      /\ ckpt'.approval = "granted" =>
           [kind |-> "approve", id |-> ckpt'.attempt] \in answers'
      /\ ckpt'.approval = "rejected" =>
           [kind |-> "reject", id |-> ckpt'.attempt] \in answers'
  BY DEF Answered, ReconcileIsDeclared, ReplayNeedsAnOperator, ResultIsGenuine,
         ApprovalIsOfThisAttempt
<1> QED BY <1>1, AnsweredFrom

LEMMA IdleAnswers == \A c, g : AnswerFits(Idle, c, g)
BY DEF AnswerFits, Idle

LEMMA AnsweredInit == Init => Answered
<1> SUFFICES ASSUME Init PROVE Answered OBVIOUS
<1>1. \A d \in Drivers : AnswerFits(drv[d], ckpt, answers)
  BY IdleAnswers DEF Init
<1>2. ReconcileIsDeclared /\ ReplayNeedsAnOperator
  BY DEF Init, ReconcileIsDeclared, ReplayNeedsAnOperator, Absent
<1>3. ResultIsGenuine /\ ApprovalIsOfThisAttempt
  BY DEF Init, ResultIsGenuine, ApprovalIsOfThisAttempt, Absent
<1> QED BY <1>1, <1>2, <1>3 DEF Answered

\* A settled or refused driver holds no answer; the file still says the same of
\* the attempt, or says more.
LEMMA AnsweredStep ==
  Basic /\ Basic' /\ Safe /\ Safe' /\ Answered /\ [Next]_vars => Answered'
<1> SUFFICES ASSUME Basic, Basic', Safe, Safe', Answered, [Next]_vars
             PROVE  Answered'
  OBVIOUS
<1> USE BasicTypes, IdleAnswers
<1>i. /\ ReconcileIsDeclared /\ ReplayNeedsAnOperator /\ ResultIsGenuine
      /\ ApprovalIsOfThisAttempt
      /\ \A d \in Drivers : AnswerFits(drv[d], ckpt, answers) /\ InHand(drv[d])
  BY DEF Answered, Basic
<1>a. ASSUME NEW d \in Drivers, UNCHANGED <<ckpt, starts, answers>>,
             NEW x, drv' = [drv EXCEPT ![d] = x], AnswerFits(x, ckpt, answers)
      PROVE  Answered'
  BY <1>a, AnsweredQuiet
<1>b. ASSUME NEW d \in Drivers, UNCHANGED <<starts, answers>>, Leave(d),
             ckpt'.rev > ckpt.rev, ckpt'.attempt = ckpt.attempt,
             ckpt'.approval \in {"granted", "rejected"} =>
               ckpt'.approval = ckpt.approval,
             ReconcileIsDeclared', ResultIsGenuine'
      PROVE  Answered'
  <2>1. drv'[d] = Idle /\ \A e \in Drivers \ {d} : drv'[e] = drv[e]
    BY <1>b DEF Leave
  <2>2. ReplayNeedsAnOperator'
    BY <1>b, <1>i DEF ReplayNeedsAnOperator
  <2>3. /\ ckpt'.approval = "granted" =>
             [kind |-> "approve", id |-> ckpt'.attempt] \in answers'
        /\ ckpt'.approval = "rejected" =>
             [kind |-> "reject", id |-> ckpt'.attempt] \in answers'
    BY <1>b, <1>i DEF ApprovalIsOfThisAttempt
  <2> QED BY <1>b, <2>1, <2>2, <2>3, AnsweredFrom
<1>1. ASSUME NEW d \in Drivers, ExecuteAllowed(d) PROVE Answered'
  <2>1. /\ ckpt.rev = 0 /\ ckpt'.rev = 1 /\ ckpt'.attempt = 1
        /\ ckpt'.state = "executing" /\ ckpt'.approval = "not_required"
        /\ ckpt'.result = NoResult
        /\ UNCHANGED answers /\ drv'[d].pc = "handler"
        /\ \A e \in Drivers \ {d} : drv'[e] = drv[e]
    BY <1>1 DEF ExecuteAllowed, Goto, At, NewCheckpoint
  <2>2. ReconcileIsDeclared' /\ ReplayNeedsAnOperator' /\ ResultIsGenuine'
    BY <2>1 DEF ReconcileIsDeclared, ReplayNeedsAnOperator, ResultIsGenuine
  <2>3. AnswerFits(drv'[d], ckpt', answers') BY <2>1 DEF AnswerFits
  <2> QED BY <2>1, <2>2, <2>3, AnsweredFrom
<1>2. ASSUME NEW d \in Drivers, ExecuteAsked(d) PROVE Answered'
  <2>1. /\ ckpt.rev = 0 /\ ckpt'.rev = 1 /\ ckpt'.attempt = 1
        /\ ckpt'.state = "awaiting_approval" /\ ckpt'.approval = "awaiting"
        /\ ckpt'.result = NoResult
        /\ UNCHANGED <<drv, answers>> /\ drv[d].pc = "idle"
    BY <1>2 DEF ExecuteAsked, NewCheckpoint
  <2>2. ReconcileIsDeclared' /\ ReplayNeedsAnOperator' /\ ResultIsGenuine'
    BY <2>1 DEF ReconcileIsDeclared, ReplayNeedsAnOperator, ResultIsGenuine
  <2>3. AnswerFits(drv'[d], ckpt', answers') BY <2>1 DEF AnswerFits
  <2> QED BY <2>1, <2>2, <2>3, AnsweredFrom
<1>3. ASSUME NEW d \in Drivers, NEW rev \in 1..ckpt.rev, NEW kind \in AnswerKind,
             Call(d, rev, kind)
      PROVE  Answered'
  <2> DEFINE id == IF kind \in Approvals THEN ckpt.request ELSE ckpt.attempt
             x == [pc |-> "called", exp |-> rev, base |-> Absent,
                   answer |-> [kind |-> kind, id |-> id]]
  <2>1. UNCHANGED <<ckpt, starts, answers>> /\ drv' = [drv EXCEPT ![d] = x]
    BY <1>3 DEF Call
  <2>2. AnswerFits(x, ckpt, answers) BY CheckpointFields DEF AnswerFits
  <2> QED BY <2>1, <2>2, <1>a
<1>4. ASSUME NEW d \in Drivers, Load(d) PROVE Answered'
  <2> DEFINE a == drv[d].answer
  <2>1. /\ drv[d].pc = "called" /\ UNCHANGED <<ckpt, starts>>
        /\ answers \subseteq answers'
        /\ \A e \in Drivers \ {d} : drv'[e] = drv[e]
    BY <1>4 DEF Load, Leave, Goto
  <2>2. CASE ckpt.rev = drv[d].exp /\ ckpt.state \notin Terminal
    <3>1. /\ drv'[d] = At("loaded", ckpt, a)
          /\ Addresses(a.kind, ckpt.state) => a \in answers'
      BY <1>4, <2>2 DEF Load, Goto
    <3>2. a.kind \notin Approvals => a.id = ckpt.attempt
      BY <1>i, <2>1, <2>2 DEF AnswerFits
    <3>3. AnswerFits(drv'[d], ckpt', answers')
      BY <2>1, <3>1, <3>2 DEF AnswerFits, At
    <3> QED BY <2>1, <3>3, AnsweredQuiet
  <2>3. CASE ~(ckpt.rev = drv[d].exp /\ ckpt.state \notin Terminal)
    <3>1. drv'[d] = Idle BY <1>4, <2>3 DEF Load, Leave
    <3> QED BY <2>1, <3>1, AnsweredQuiet
  <2> QED BY <2>2, <2>3
<1>5. ASSUME NEW d \in Drivers, MarkInterrupted(d) PROVE Answered'
  <2> DEFINE a == drv[d].answer
  <2>1. /\ drv[d].pc = "loaded" /\ drv[d].pc \in Working
        /\ drv[d].base.state = "executing" /\ UNCHANGED <<starts, answers>>
    BY <1>5 DEF MarkInterrupted, Working
  <2>2. /\ drv[d].base = ckpt /\ ckpt'.rev = ckpt.rev + 1
        /\ ckpt'.attempt = ckpt.attempt /\ ckpt'.state = "recovery_required"
        /\ ckpt'.approval = ckpt.approval /\ ckpt'.result = ckpt.result
    BY <1>5, <2>1, SavedCopy DEF MarkInterrupted, NextCheckpoint
  <2>3. /\ drv'[d].pc = "loaded" /\ drv'[d].answer = a /\ drv'[d].base = ckpt'
        /\ \A e \in Drivers \ {d} : drv'[e] = drv[e]
    BY <1>5, <2>1, SavedCopy DEF MarkInterrupted, Goto, At
  <2>4. AnswerFits(drv'[d], ckpt', answers')
    BY <1>i, <2>1, <2>2, <2>3 DEF AnswerFits, Addresses, Approvals, Recoveries
  <2>5. ReconcileIsDeclared' /\ ReplayNeedsAnOperator' /\ ResultIsGenuine'
    BY <1>i, <2>1, <2>2
    DEF ReconcileIsDeclared, ReplayNeedsAnOperator, ResultIsGenuine, Terminal
  <2>6. ckpt'.rev > ckpt.rev BY <2>2, CheckpointFields
  <2> QED BY <1>i, <2>1, <2>2, <2>3, <2>4, <2>5, <2>6, AnsweredFrom
          DEF ApprovalIsOfThisAttempt
<1>6. ASSUME NEW d \in Drivers, Approve(d) PROVE Answered'
  <2> DEFINE a == drv[d].answer
  <2>1. /\ drv[d].pc = "loaded" /\ drv[d].pc \in Working
        /\ drv[d].base.state = "awaiting_approval"
        /\ a.kind = "approve" /\ a.id = drv[d].base.request
        /\ UNCHANGED <<starts, answers>>
    BY <1>6 DEF Approve, Working, ValidDecision
  <2>2. /\ drv[d].base = ckpt /\ ckpt'.rev = ckpt.rev + 1
        /\ ckpt'.attempt = ckpt.attempt /\ ckpt'.state = "executing"
        /\ ckpt'.approval = "granted" /\ ckpt'.result = ckpt.result
    BY <1>6, <2>1, SavedCopy DEF Approve, NextCheckpoint
  <2>3. /\ drv'[d].pc = "handler"
        /\ \A e \in Drivers \ {d} : drv'[e] = drv[e]
    BY <1>6 DEF Approve, Goto, At
  <2>4. a = [kind |-> "approve", id |-> ckpt.attempt] /\ a \in answers
    <3>1. a \in answers
      BY <1>i, <2>1 DEF AnswerFits, Addresses, Approvals
    <3>2. a.id = ckpt.attempt
      BY <1>i, <2>1, <2>2 DEF InHand
    <3> QED BY <2>1, <3>1, <3>2 DEF Answer
  <2>5. AnswerFits(drv'[d], ckpt', answers') BY <2>3 DEF AnswerFits
  <2>6. ReconcileIsDeclared' /\ ReplayNeedsAnOperator' /\ ResultIsGenuine'
    BY <1>i, <2>1, <2>2
    DEF ReconcileIsDeclared, ReplayNeedsAnOperator, ResultIsGenuine, Terminal
  <2>7. ckpt'.rev > ckpt.rev BY <2>2, CheckpointFields
  <2> QED BY <2>1, <2>2, <2>3, <2>4, <2>5, <2>6, <2>7, AnsweredFrom
<1>7. ASSUME NEW d \in Drivers, Reject(d) PROVE Answered'
  <2> DEFINE a == drv[d].answer
  <2>1. /\ drv[d].pc = "loaded" /\ drv[d].pc \in Working
        /\ drv[d].base.state = "awaiting_approval"
        /\ a.kind = "reject" /\ a.id = drv[d].base.request
        /\ UNCHANGED <<ckpt, starts, answers>>
        /\ drv' = [drv EXCEPT ![d] = At("denying", drv[d].base, NoAnswer)]
    BY <1>7 DEF Reject, Working, ValidDecision, Goto
  <2>2. a = [kind |-> "reject", id |-> drv[d].base.attempt] /\ a \in answers
    <3>1. a \in answers
      BY <1>i, <2>1 DEF AnswerFits, Addresses, Approvals
    <3>2. a.id = drv[d].base.attempt
      BY <1>i, <2>1 DEF InHand
    <3> QED BY <2>1, <3>1, <3>2 DEF Answer
  <2>3. AnswerFits(At("denying", drv[d].base, NoAnswer), ckpt, answers)
    BY <2>2 DEF AnswerFits, At
  <2> QED BY <2>1, <2>3, <1>a
<1>8. ASSUME NEW d \in Drivers, SaveDenial(d) PROVE Answered'
  <2>1. /\ drv[d].pc = "denying" /\ drv[d].pc \in Working
        /\ UNCHANGED <<starts, answers>> /\ Leave(d)
    BY <1>8 DEF SaveDenial, Working
  <2>2. /\ drv[d].base = ckpt /\ ckpt'.rev = ckpt.rev + 1
        /\ ckpt'.attempt = ckpt.attempt /\ ckpt'.state = "denied"
        /\ ckpt'.approval = "rejected"
    BY <1>8, <2>1, SavedCopy DEF SaveDenial, NextCheckpoint
  <2>3. [kind |-> "reject", id |-> ckpt.attempt] \in answers
    BY <1>i, <2>1, <2>2 DEF AnswerFits
  <2>4. drv'[d] = Idle /\ \A e \in Drivers \ {d} : drv'[e] = drv[e]
    BY <2>1 DEF Leave
  <2>5. ReconcileIsDeclared' /\ ReplayNeedsAnOperator' /\ ResultIsGenuine'
    BY <1>i, <2>1, <2>2
    DEF ReconcileIsDeclared, ReplayNeedsAnOperator, ResultIsGenuine, Terminal
  <2>6. ckpt'.rev > ckpt.rev BY <2>2, CheckpointFields
  <2> QED BY <2>1, <2>2, <2>3, <2>4, <2>5, <2>6, AnsweredFrom
<1>9. ASSUME NEW d \in Drivers, ConfirmExecuted(d) PROVE Answered'
  <2> DEFINE a == drv[d].answer
  <2>1. /\ drv[d].pc = "loaded" /\ drv[d].pc \in Working
        /\ drv[d].base.state = "recovery_required"
        /\ a.kind = "confirmed_executed"
        /\ UNCHANGED <<starts, answers>> /\ Leave(d)
    BY <1>9 DEF ConfirmExecuted, Working
  <2>2. /\ drv[d].base = ckpt /\ ckpt'.rev = ckpt.rev + 1
        /\ ckpt'.attempt = ckpt.attempt /\ ckpt'.state = "awaiting_reconcile"
        /\ ckpt'.approval = ckpt.approval /\ ckpt'.result = NoResult
    BY <1>9, <2>1, SavedCopy DEF ConfirmExecuted, NextCheckpoint
  <2>3. a = [kind |-> "confirmed_executed", id |-> ckpt.attempt] /\ a \in answers
    <3>1. a \in answers /\ a.id = ckpt.attempt
      BY <1>i, <2>1, <2>2 DEF AnswerFits, Addresses, Approvals, Recoveries
    <3> QED BY <2>1, <3>1 DEF Answer
  <2>4. ReconcileIsDeclared' /\ ResultIsGenuine'
    BY <2>1, <2>2, <2>3 DEF ReconcileIsDeclared, ResultIsGenuine, Terminal
  <2>5. ckpt'.rev > ckpt.rev BY <2>2, CheckpointFields
  <2> QED BY <2>1, <2>2, <2>4, <2>5, <1>b
<1>10. ASSUME NEW d \in Drivers, ConfirmNotExecuted(d) PROVE Answered'
  <2> DEFINE a == drv[d].answer
  <2>1. /\ drv[d].pc = "loaded" /\ drv[d].pc \in Working
        /\ drv[d].base.state = "recovery_required"
        /\ a.kind = "confirmed_not_executed"
        /\ UNCHANGED <<starts, answers>>
        /\ drv'[d].pc = "retrying"
        /\ \A e \in Drivers \ {d} : drv'[e] = drv[e]
    BY <1>10 DEF ConfirmNotExecuted, Working, Goto, At
  <2>2. /\ drv[d].base = ckpt /\ ckpt'.rev = ckpt.rev + 1
        /\ ckpt'.attempt = ckpt.attempt + 1 /\ ckpt'.state = "pending"
        /\ ckpt'.approval = "not_required" /\ ckpt'.result = NoResult
    BY <1>10, <2>1, SavedCopy DEF ConfirmNotExecuted, RenewedCheckpoint
  <2>3. a = [kind |-> "confirmed_not_executed", id |-> ckpt.attempt] /\ a \in answers
    <3>1. a \in answers /\ a.id = ckpt.attempt
      BY <1>i, <2>1, <2>2 DEF AnswerFits, Addresses, Approvals, Recoveries
    <3> QED BY <2>1, <3>1 DEF Answer
  <2>4. ReconcileIsDeclared' /\ ResultIsGenuine'
    BY <2>2 DEF ReconcileIsDeclared, ResultIsGenuine
  <2>5. ReplayNeedsAnOperator'
    <3> SUFFICES ASSUME NEW b \in 2..(ckpt.attempt + 1)
                 PROVE  [kind |-> "confirmed_not_executed", id |-> b - 1] \in answers
      BY <2>1, <2>2 DEF ReplayNeedsAnOperator
    <3>1. CASE b = ckpt.attempt + 1 BY <2>3, <3>1, CheckpointFields
    <3>2. CASE b # ckpt.attempt + 1
      BY <1>i, <3>2, CheckpointFields DEF ReplayNeedsAnOperator
    <3> QED BY <3>1, <3>2
  <2>6. AnswerFits(drv'[d], ckpt', answers') BY <2>1 DEF AnswerFits
  <2>7. ckpt'.rev > ckpt.rev BY <2>2, CheckpointFields
  <2> QED BY <2>1, <2>2, <2>4, <2>5, <2>6, <2>7, AnsweredFrom
<1>11. ASSUME NEW d \in Drivers, RetryAllowed(d) PROVE Answered'
  <2>1. /\ drv[d].pc = "retrying" /\ drv[d].pc \in Working
        /\ UNCHANGED <<starts, answers>>
        /\ drv'[d].pc = "handler"
        /\ \A e \in Drivers \ {d} : drv'[e] = drv[e]
    BY <1>11 DEF RetryAllowed, Working, Goto, At
  <2>2. /\ drv[d].base = ckpt /\ ckpt'.rev = ckpt.rev + 1
        /\ ckpt'.attempt = ckpt.attempt /\ ckpt'.state = "executing"
        /\ ckpt'.approval = "not_required" /\ ckpt'.result = ckpt.result
    BY <1>11, <2>1, SavedCopy DEF RetryAllowed, NextCheckpoint
  <2>3. ckpt.state = "pending" BY <1>i, <2>1, <2>2 DEF InHand
  <2>4. ReconcileIsDeclared' /\ ReplayNeedsAnOperator' /\ ResultIsGenuine'
    BY <1>i, <2>1, <2>2, <2>3
    DEF ReconcileIsDeclared, ReplayNeedsAnOperator, ResultIsGenuine, Terminal
  <2>5. AnswerFits(drv'[d], ckpt', answers') BY <2>1 DEF AnswerFits
  <2>6. ckpt'.rev > ckpt.rev BY <2>2, CheckpointFields
  <2> QED BY <2>1, <2>2, <2>4, <2>5, <2>6, AnsweredFrom
<1>12. ASSUME NEW d \in Drivers, RetryAsked(d) PROVE Answered'
  <2>1. /\ drv[d].pc = "retrying" /\ drv[d].pc \in Working
        /\ UNCHANGED <<starts, answers>> /\ Leave(d)
    BY <1>12 DEF RetryAsked, Working
  <2>2. /\ drv[d].base = ckpt /\ ckpt'.rev = ckpt.rev + 1
        /\ ckpt'.attempt = ckpt.attempt /\ ckpt'.state = "awaiting_approval"
        /\ ckpt'.approval = "awaiting" /\ ckpt'.result = ckpt.result
    BY <1>12, <2>1, SavedCopy DEF RetryAsked, NextCheckpoint
  <2>3. ckpt.state = "pending" BY <1>i, <2>1, <2>2 DEF InHand
  <2>4. ReconcileIsDeclared' /\ ResultIsGenuine'
    BY <1>i, <2>1, <2>2, <2>3 DEF ReconcileIsDeclared, ResultIsGenuine, Terminal
  <2>5. ckpt'.rev > ckpt.rev BY <2>2, CheckpointFields
  <2> QED BY <2>1, <2>2, <2>4, <2>5, <1>b
<1>13. ASSUME NEW d \in Drivers, RetryDenied(d) PROVE Answered'
  <2>1. /\ drv[d].pc = "retrying" /\ drv[d].pc \in Working
        /\ UNCHANGED <<starts, answers>> /\ Leave(d)
    BY <1>13 DEF RetryDenied, Working
  <2>2. /\ drv[d].base = ckpt /\ ckpt'.rev = ckpt.rev + 1
        /\ ckpt'.attempt = ckpt.attempt /\ ckpt'.state = "denied"
        /\ ckpt'.approval = ckpt.approval
    BY <1>13, <2>1, SavedCopy DEF RetryDenied, NextCheckpoint
  <2>3. ReconcileIsDeclared' /\ ResultIsGenuine'
    BY <2>2 DEF ReconcileIsDeclared, ResultIsGenuine, Terminal
  <2>4. ckpt'.rev > ckpt.rev BY <2>2, CheckpointFields
  <2> QED BY <2>1, <2>2, <2>3, <2>4, <1>b
<1>14. ASSUME NEW d \in Drivers, RunHandler(d) PROVE Answered'
  <2> DEFINE a == drv[d].base.attempt
  <2>1. /\ drv[d].pc = "handler" /\ UNCHANGED <<ckpt, answers>>
        /\ starts' = [starts EXCEPT ![a] = @ + 1]
        /\ drv'[d].pc = "ran" /\ \A e \in Drivers \ {d} : drv'[e] = drv[e]
    BY <1>14 DEF RunHandler, Goto, At
  <2>2. AnswerFits(drv'[d], ckpt', answers') BY <2>1 DEF AnswerFits
  <2>3. starts[a] = 0 BY <2>1 DEF Safe, Runners, Running
  <2>4. ResultIsGenuine'
    <3>1. CASE ckpt.attempt = a
      BY <1>i, <2>1, <2>3, <3>1 DEF ResultIsGenuine
    <3>2. CASE ckpt.attempt # a
      <4>1. starts'[ckpt.attempt] = starts[ckpt.attempt]
        BY <2>1, <3>2
      <4> QED BY <1>i, <2>1, <4>1 DEF ResultIsGenuine
    <3> QED BY <3>1, <3>2
  <2>5. ReconcileIsDeclared' /\ ReplayNeedsAnOperator'
    BY <1>i, <2>1 DEF ReconcileIsDeclared, ReplayNeedsAnOperator
  <2> QED BY <1>i, <2>1, <2>2, <2>4, <2>5, AnsweredFrom DEF ApprovalIsOfThisAttempt
<1>15. ASSUME NEW d \in Drivers, Complete(d) PROVE Answered'
  <2>1. /\ drv[d].pc = "ran" /\ drv[d].pc \in Working
        /\ UNCHANGED <<starts, answers>> /\ Leave(d)
    BY <1>15 DEF Complete, Working
  <2>2. /\ drv[d].base = ckpt /\ ckpt'.rev = ckpt.rev + 1
        /\ ckpt'.attempt = ckpt.attempt /\ ckpt'.state = "completed"
        /\ ckpt'.approval = ckpt.approval
        /\ ckpt'.result = ResultBy("handler", ckpt.attempt)
        /\ ckpt'.reconciled = ckpt.reconciled
    BY <1>15, <2>1, SavedCopy DEF Complete, NextCheckpoint
  <2>3. starts[ckpt.attempt] = 1 BY <2>1, <2>2 DEF Safe, Runners, Running
  <2>4. ~ckpt.reconciled
    BY <1>i, <2>1, <2>2 DEF InHand, Running, LifecycleValid
  <2>5. ReconcileIsDeclared' /\ ResultIsGenuine'
    BY <2>1, <2>2, <2>3, <2>4 DEF ReconcileIsDeclared, ResultIsGenuine, Terminal
  <2>6. ckpt'.rev > ckpt.rev BY <2>2, CheckpointFields
  <2> QED BY <2>1, <2>2, <2>5, <2>6, <1>b
<1>16. ASSUME NEW d \in Drivers, Reconcile(d) PROVE Answered'
  <2> DEFINE a == drv[d].answer
  <2>1. /\ drv[d].pc = "loaded" /\ drv[d].pc \in Working
        /\ drv[d].base.state = "awaiting_reconcile"
        /\ a.kind = "reconcile"
        /\ UNCHANGED <<starts, answers>> /\ Leave(d)
    BY <1>16 DEF Reconcile, Working
  <2>2. /\ drv[d].base = ckpt /\ ckpt'.rev = ckpt.rev + 1
        /\ ckpt'.attempt = ckpt.attempt /\ ckpt'.state = "completed"
        /\ ckpt'.approval = ckpt.approval
        /\ ckpt'.result = ResultBy("human", ckpt.attempt)
        /\ ckpt'.reconciled
    BY <1>16, <2>1, SavedCopy DEF Reconcile, ReconciledCheckpoint
  <2>3. a = [kind |-> "reconcile", id |-> ckpt.attempt] /\ a \in answers
    <3>1. a \in answers /\ a.id = ckpt.attempt
      BY <1>i, <2>1, <2>2 DEF AnswerFits, Addresses, Approvals
    <3> QED BY <2>1, <3>1 DEF Answer
  <2>4. [kind |-> "confirmed_executed", id |-> ckpt.attempt] \in answers
    BY <1>i, <2>1, <2>2 DEF ReconcileIsDeclared
  <2>5. ReconcileIsDeclared' /\ ResultIsGenuine'
    BY <2>1, <2>2, <2>3, <2>4 DEF ReconcileIsDeclared, ResultIsGenuine, Terminal
  <2>6. ckpt'.rev > ckpt.rev BY <2>2, CheckpointFields
  <2> QED BY <2>1, <2>2, <2>5, <2>6, <1>b
<1>17. ASSUME NEW d \in Drivers, RefuseDecision(d) PROVE Answered'
  BY <1>17, <1>a DEF RefuseDecision, Leave
<1>18. ASSUME NEW d \in Drivers, Pause(d) PROVE Answered'
  BY <1>18, <1>a DEF Pause, Leave
<1>19. ASSUME NEW d \in Drivers, Conflict(d) PROVE Answered'
  BY <1>19, <1>a DEF Conflict, Leave
<1>20. ASSUME NEW d \in Drivers, Fault(d) PROVE Answered'
  BY <1>20, <1>a DEF Fault, Leave
<1>21. CASE UNCHANGED vars
  BY <1>21 DEF vars, Answered, ReconcileIsDeclared, ReplayNeedsAnOperator,
             ResultIsGenuine, ApprovalIsOfThisAttempt
<1> QED
  BY <1>1, <1>2, <1>3, <1>4, <1>5, <1>6, <1>7, <1>8, <1>9, <1>10, <1>11, <1>12, <1>13, <1>14, <1>15, <1>16, <1>17, <1>18, <1>19, <1>20, <1>21
  DEF Next, Step, ShownRevisions

-----------------------------------------------------------------------------
(* The theorems.                                                           *)

\* Types, copies, starts and answers hold together in every reachable state.
THEOREM Invariance == Spec => []IInv
<1>1. Init => IInv BY BasicInit, SafeInit, AnsweredInit DEF IInv
<1>2. IInv /\ [Next]_vars => IInv'
  BY BasicStep, SafeStep, AnsweredStep DEF IInv
<1> QED BY <1>1, <1>2, PTL DEF Spec

\* Every checkpoint ever written has the types of its schema and passes its
\* lifecycle validator.
THEOREM TypeCorrect == Spec => []TypeOK
<1>1. IInv => TypeOK BY DEF IInv, Basic
<1> QED BY <1>1, Invariance, PTL

\* One execution identity, one start of the handler at most, for any number of
\* drivers, crashes and resumes.
THEOREM AtMostOneStart == Spec => []OneStartPerAttempt
<1>1. IInv => OneStartPerAttempt BY DEF IInv, Safe
<1> QED BY <1>1, Invariance, PTL

\* Write-ahead: a handler that has begun is on disk as executing or later.
THEOREM WriteAhead == Spec => []StartIsOnRecord
<1>1. IInv => StartIsOnRecord BY DEF IInv, Safe
<1> QED BY <1>1, Invariance, PTL

\* No replay of a call without an operator who declared it not executed.
THEOREM NoBlindReplay == Spec => []ReplayNeedsAnOperator
<1>1. IInv => ReplayNeedsAnOperator BY DEF IInv, Answered
<1> QED BY <1>1, Invariance, PTL

\* A completed checkpoint holds a result that the handler of that attempt or a
\* human produced.
THEOREM GenuineResult == Spec => []ResultIsGenuine
<1>1. IInv => ResultIsGenuine BY DEF IInv, Answered
<1> QED BY <1>1, Invariance, PTL

\* No approval is carried over to a later attempt.
THEOREM ApprovalPerAttempt == Spec => []ApprovalIsOfThisAttempt
<1>1. IInv => ApprovalIsOfThisAttempt BY DEF IInv, Answered
<1> QED BY <1>1, Invariance, PTL

-----------------------------------------------------------------------------
(* The lifecycle of the file.                                              *)

\* A change of the file is a step of the lifecycle, one revision further.
Moves == /\ <<ckpt.state, ckpt'.state>> \in Lifecycle
         /\ ckpt'.rev = ckpt.rev + 1

LEMMA SavedMoves ==
  ASSUME Basic, NEW d \in Drivers, NEW new, drv[d].pc \in Working, Save(d, new),
         <<drv[d].base.state, new.state>> \in Lifecycle,
         new.rev = drv[d].base.rev + 1
  PROVE  Moves
BY SavedCopy DEF Moves

LEMMA StepMoves == Basic /\ [Next]_vars => UNCHANGED ckpt \/ Moves
<1> SUFFICES ASSUME Basic, [Next]_vars PROVE UNCHANGED ckpt \/ Moves OBVIOUS
<1> USE BasicTypes DEF Lifecycle, FirstStates
<1>i. FileShape(ckpt) /\ \A d \in Drivers : InHand(drv[d]) BY DEF Basic
<1>1. ASSUME NEW d \in Drivers, ExecuteAllowed(d) \/ ExecuteAsked(d) PROVE Moves
  BY <1>1, <1>i
  DEF ExecuteAllowed, ExecuteAsked, NewCheckpoint, FileShape, Absent, Moves
<1>2. ASSUME NEW d \in Drivers, MarkInterrupted(d) PROVE Moves
  BY <1>2, SavedMoves DEF MarkInterrupted, NextCheckpoint, Working
<1>3. ASSUME NEW d \in Drivers, Approve(d) PROVE Moves
  BY <1>3, SavedMoves DEF Approve, NextCheckpoint, Working
<1>4. ASSUME NEW d \in Drivers, SaveDenial(d) PROVE Moves
  BY <1>4, <1>i, SavedMoves DEF SaveDenial, NextCheckpoint, Working, InHand
<1>5. ASSUME NEW d \in Drivers, ConfirmExecuted(d) PROVE Moves
  BY <1>5, SavedMoves DEF ConfirmExecuted, NextCheckpoint, Working
<1>6. ASSUME NEW d \in Drivers, ConfirmNotExecuted(d) PROVE Moves
  BY <1>6, SavedMoves DEF ConfirmNotExecuted, RenewedCheckpoint, Working
<1>7. ASSUME NEW d \in Drivers, RetryAllowed(d) PROVE Moves
  BY <1>7, <1>i, SavedMoves DEF RetryAllowed, NextCheckpoint, Working, InHand
<1>8. ASSUME NEW d \in Drivers, RetryAsked(d) PROVE Moves
  BY <1>8, <1>i, SavedMoves DEF RetryAsked, NextCheckpoint, Working, InHand
<1>9. ASSUME NEW d \in Drivers, RetryDenied(d) PROVE Moves
  BY <1>9, <1>i, SavedMoves DEF RetryDenied, NextCheckpoint, Working, InHand
<1>10. ASSUME NEW d \in Drivers, Complete(d) PROVE Moves
  BY <1>10, <1>i, SavedMoves DEF Complete, NextCheckpoint, Working, InHand, Running
<1>11. ASSUME NEW d \in Drivers, Reconcile(d) PROVE Moves
  BY <1>11, SavedMoves DEF Reconcile, ReconciledCheckpoint, Working
<1>12. ASSUME NEW d \in Drivers,
              \/ \E rev \in ShownRevisions, kind \in AnswerKind : Call(d, rev, kind)
              \/ Load(d) \/ Reject(d) \/ RefuseDecision(d) \/ RunHandler(d)
              \/ Pause(d) \/ Conflict(d) \/ Fault(d)
       PROVE  UNCHANGED ckpt
  BY <1>12
  DEF Call, Load, Reject, RefuseDecision, RunHandler, Pause, Conflict, Fault
<1>13. CASE UNCHANGED vars BY <1>13 DEF vars
<1> QED
  BY <1>1, <1>2, <1>3, <1>4, <1>5, <1>6, <1>7, <1>8, <1>9, <1>10, <1>11, <1>12,
     <1>13
  DEF Next, Step

\* Whatever drivers do at once, and whenever they are lost, no save takes the
\* file off its lifecycle or back to a revision that was.
THEOREM LifecycleFollowed == Spec => FollowsLifecycle
<1>1. IInv /\ [Next]_vars => [ckpt' # ckpt =>
         /\ <<ckpt.state, ckpt'.state>> \in Lifecycle
         /\ ckpt'.rev = ckpt.rev + 1]_vars
  BY StepMoves DEF IInv, Moves
<1> QED BY <1>1, Invariance, PTL DEF Spec, FollowsLifecycle

-----------------------------------------------------------------------------
(* Refinement of AtMostOnceExecution.                                      *)

LEMMA Phases ==
  /\ PhaseOf("absent") = "none"
  /\ PhaseOf("pending") = "open" /\ PhaseOf("awaiting_approval") = "open"
  /\ PhaseOf("executing") = "committed"
  /\ PhaseOf("recovery_required") = "unknown"
  /\ PhaseOf("awaiting_reconcile") = "unknown"
  /\ PhaseOf("completed") = "closed" /\ PhaseOf("denied") = "closed"
BY DEF PhaseOf, Terminal

LEMMA InitRefines == Init => Promise!AInit
BY Phases DEF Init, Absent, Promise!AInit, Attempts

LEMMA StepRefines ==
  IInv /\ IInv' /\ [Next]_vars => [Promise!ANext]_(Promise!avars)
<1> SUFFICES ASSUME IInv, IInv', [Next]_vars
             PROVE  [Promise!ANext]_(Promise!avars)
  OBVIOUS
<1> USE BasicTypes, Phases
<1>i. Basic /\ Basic' /\ Safe /\ Safe' /\ \A d \in Drivers : InHand(drv[d])
  BY DEF IInv, Basic
<1>s. ASSUME UNCHANGED <<ckpt, starts>> PROVE UNCHANGED Promise!avars
  BY <1>s DEF Promise!avars
<1>1. ASSUME NEW d \in Drivers, ExecuteAllowed(d) \/ ExecuteAsked(d)
      PROVE  Promise!Propose
  <2>1. /\ ckpt.state = "absent" /\ UNCHANGED starts /\ ckpt'.attempt = 1
        /\ ckpt'.state \in {"executing", "awaiting_approval"}
    BY <1>1, <1>i DEF ExecuteAllowed, ExecuteAsked, NewCheckpoint, FileShape, Absent
  <2> QED BY <2>1 DEF Promise!Propose
<1>2. ASSUME NEW d \in Drivers, MarkInterrupted(d) PROVE Promise!Suspect
  <2>1. /\ ckpt.state = "executing" /\ ckpt'.state = "recovery_required"
        /\ ckpt'.attempt = ckpt.attempt /\ UNCHANGED starts
    BY <1>2, <1>i, SavedCopy DEF MarkInterrupted, NextCheckpoint, Working
  <2> QED BY <2>1 DEF Promise!Suspect
<1>3. ASSUME NEW d \in Drivers, Approve(d) \/ RetryAllowed(d)
      PROVE  Promise!Commit
  <2>1. drv[d].base.state \in {"awaiting_approval", "pending"}
    BY <1>3, <1>i DEF Approve, RetryAllowed, InHand
  <2>2. /\ ckpt.state \in {"awaiting_approval", "pending"}
        /\ ckpt'.state = "executing"
        /\ ckpt'.attempt = ckpt.attempt /\ UNCHANGED starts
    BY <1>3, <1>i, <2>1, SavedCopy DEF Approve, RetryAllowed, NextCheckpoint, Working
  <2> QED BY <2>2 DEF Promise!Commit
<1>4. ASSUME NEW d \in Drivers, SaveDenial(d) \/ RetryDenied(d)
      PROVE  Promise!Decline
  <2>1. drv[d].base.state \in {"awaiting_approval", "pending"}
    BY <1>4, <1>i DEF SaveDenial, RetryDenied, InHand
  <2>2. /\ ckpt.state \in {"awaiting_approval", "pending"}
        /\ ckpt'.state = "denied" /\ ckpt.rev > 0
        /\ ckpt'.attempt = ckpt.attempt /\ UNCHANGED starts
    BY <1>4, <1>i, <2>1, SavedCopy DEF SaveDenial, RetryDenied, NextCheckpoint, Working
  <2>3. ckpt.attempt \in Attempts /\ ~Committed(ckpt.attempt)
    BY <1>i, <2>2 DEF Committed, FileShape, Checkpoint, Attempts
  <2>4. starts[ckpt.attempt] = 0
    BY <1>i, <2>3 DEF Safe, StartIsOnRecord
  <2> QED BY <2>2, <2>4 DEF Promise!Decline
<1>5. ASSUME NEW d \in Drivers, ConfirmExecuted(d)
      PROVE  UNCHANGED Promise!avars
  <2>1. /\ ckpt.state = "recovery_required" /\ ckpt'.state = "awaiting_reconcile"
        /\ ckpt'.attempt = ckpt.attempt /\ UNCHANGED starts
    BY <1>5, <1>i, SavedCopy DEF ConfirmExecuted, NextCheckpoint, Working
  <2> QED BY <2>1 DEF Promise!avars
<1>6. ASSUME NEW d \in Drivers, ConfirmNotExecuted(d) PROVE Promise!Disclaim
  <2>1. /\ ckpt.state = "recovery_required" /\ ckpt'.state = "pending"
        /\ ckpt.attempt < MaxAttempts
        /\ ckpt'.attempt = ckpt.attempt + 1 /\ UNCHANGED starts
    BY <1>6, <1>i, SavedCopy DEF ConfirmNotExecuted, RenewedCheckpoint, Working
  <2> QED BY <2>1 DEF Promise!Disclaim
<1>7. ASSUME NEW d \in Drivers, RetryAsked(d) PROVE UNCHANGED Promise!avars
  <2>1. drv[d].base.state = "pending" BY <1>7, <1>i DEF RetryAsked, InHand
  <2>2. /\ ckpt.state = "pending" /\ ckpt'.state = "awaiting_approval"
        /\ ckpt'.attempt = ckpt.attempt /\ UNCHANGED starts
    BY <1>7, <1>i, <2>1, SavedCopy DEF RetryAsked, NextCheckpoint, Working
  <2> QED BY <2>2 DEF Promise!avars
<1>8. ASSUME NEW d \in Drivers, RunHandler(d)
      PROVE  \E a \in 1..MaxAttempts : Promise!Launch(a)
  <2> DEFINE a == drv[d].base.attempt
  <2>1. /\ drv[d].pc = "handler" /\ UNCHANGED ckpt
        /\ starts' = [starts EXCEPT ![a] = @ + 1]
    BY <1>8 DEF RunHandler
  <2>2. a \in 1..MaxAttempts
    BY <1>i, <2>1, CheckpointFields DEF InHand, Working, Driver
  <2>3. Committed(a) /\ starts[a] = 0
    BY <1>i, <2>1 DEF Safe, Runners, Running
  <2>4. \/ a < ckpt.attempt
        \/ a = ckpt.attempt /\ PhaseOf(ckpt.state) \in {"committed", "unknown", "closed"}
    <3>0. ckpt.attempt \in Nat BY <1>i DEF Checkpoint
    <3>1. CASE a \in 1..(ckpt.attempt - 1) BY <3>0, <3>1
    <3>2. CASE a = ckpt.attempt /\ ckpt.state \in OnRecord
      BY <3>2 DEF OnRecord
    <3> QED BY <2>3, <3>1, <3>2 DEF Committed, OnRecord
  <2>5. starts' = [starts EXCEPT ![a] = 1]
    BY <2>1, <2>3
  <2>6. Promise!Launch(a)
    BY <2>1, <2>3, <2>4, <2>5 DEF Promise!Launch
  <2> QED BY <2>2, <2>6
<1>9. ASSUME NEW d \in Drivers, Complete(d) PROVE Promise!Settle
  <2>1. drv[d].base.state = "executing" BY <1>9, <1>i DEF Complete, InHand, Running
  <2>2. /\ ckpt.state = "executing" /\ ckpt'.state = "completed"
        /\ ckpt'.attempt = ckpt.attempt /\ UNCHANGED starts
        /\ drv[d].base = ckpt
    BY <1>9, <1>i, <2>1, SavedCopy DEF Complete, NextCheckpoint, Working
  <2>3. starts[ckpt.attempt] = 1
    BY <1>9, <1>i, <2>2 DEF Complete, Safe, Runners, Running
  <2> QED BY <2>2, <2>3 DEF Promise!Settle
<1>10. ASSUME NEW d \in Drivers, Reconcile(d) PROVE Promise!Reconciled
  <2>1. /\ ckpt.state = "awaiting_reconcile" /\ ckpt'.state = "completed"
        /\ ckpt'.attempt = ckpt.attempt /\ UNCHANGED starts
    BY <1>10, <1>i, SavedCopy DEF Reconcile, ReconciledCheckpoint, Working
  <2> QED BY <2>1 DEF Promise!Reconciled
<1>11. ASSUME NEW d \in Drivers,
              \/ \E rev \in ShownRevisions, kind \in AnswerKind : Call(d, rev, kind)
              \/ Load(d) \/ Reject(d) \/ RefuseDecision(d) \/ Pause(d)
              \/ Conflict(d) \/ Fault(d)
      PROVE  UNCHANGED Promise!avars
  BY <1>11, <1>s
  DEF Call, Load, Reject, RefuseDecision, Pause, Conflict, Fault
<1>12. CASE UNCHANGED vars BY <1>12, <1>s DEF vars
<1> QED
  BY <1>1, <1>2, <1>3, <1>4, <1>5, <1>6, <1>7, <1>8, <1>9, <1>10, <1>11, <1>12
  DEF Next, Step, Promise!ANext

\* The coordinator implements the promise: whatever the drivers, every step is
\* a step of AtMostOnceExecution or invisible there.
THEOREM Refinement == Spec => KeepsPromise
<1> QED BY InitRefines, StepRefines, Invariance, PTL DEF Spec, KeepsPromise, Promise!ASpec

-----------------------------------------------------------------------------
(* One operation at a time, and operators who tell the truth.              *)

LEMMA AloneFrom ==
  ASSUME drv \in [Drivers -> Driver], NEW d \in Drivers, Drivers = {d}, NEW x,
         drv' = [drv EXCEPT ![d] = x],
         x.pc \in Working => x.base = ckpt',
         x.pc \in {"called", "loaded"} /\ x.answer.kind = "confirmed_not_executed" =>
           starts'[ckpt'.attempt] = 0,
         \A a \in Attempts : a < ckpt'.attempt => starts'[a] = 0
  PROVE  Alone'
<1>1. drv'[d] = x
  OBVIOUS
<1> QED
  BY <1>1 DEF Alone

LEMMA AloneStep ==
  ASSUME Basic, Alone, Truthful, NEW d \in Drivers, Drivers = {d}, [Next]_vars
  PROVE  Alone'
<1>1. /\ drv \in [Drivers -> Driver] /\ ckpt \in Checkpoint /\ starts \in [Attempts -> Nat]
      /\ drv[d].pc \in Working => drv[d].base = ckpt /\ ckpt.attempt \in Attempts
      /\ drv[d].pc \in {"called", "loaded"} /\ drv[d].answer.kind = "confirmed_not_executed" =>
           starts[ckpt.attempt] = 0
      /\ \A a \in Attempts : a < ckpt.attempt => starts[a] = 0
  <2>1. drv \in [Drivers -> Driver] /\ ckpt \in Checkpoint /\ starts \in [Attempts -> Nat]
    BY DEF Basic, TypeOK
  <2>2. ASSUME drv[d].pc \in Working PROVE drv[d].base = ckpt /\ ckpt.attempt \in Attempts
    <3>1. drv[d].base = ckpt /\ drv[d].base.attempt > 0
      BY <2>2 DEF Alone, Basic, InHand
    <3> QED
      BY <2>1, <3>1, BoundsAssumption DEF Checkpoint, Attempts
  <2> QED
    BY <2>1, <2>2 DEF Alone
<1> DEFINE file == \A a \in Attempts : a < ckpt'.attempt => starts'[a] = 0
<1>2. Idle.pc \notin Working /\ Idle.pc \notin {"called", "loaded"}
  BY DEF Idle, Working
<1>3. ASSUME Leave(d), file PROVE Alone'
  BY <1>1, <1>2, <1>3, AloneFrom DEF Leave
<1>4. ASSUME UNCHANGED <<ckpt, starts>> PROVE file
  BY <1>1, <1>4
<1>5. ASSUME ckpt'.attempt = ckpt.attempt, starts' = starts PROVE file
  BY <1>1, <1>5
<1>6. \A base, state, approval, request, result :
        NextCheckpoint(base, state, approval, request, result).attempt = base.attempt
  BY DEF NextCheckpoint
<1>7. ASSUME Load(d) PROVE Alone'
  <2>1. drv[d].pc = "called" /\ UNCHANGED <<ckpt, starts>>
    BY <1>7 DEF Load
  <2>2. CASE Leave(d)
    BY <1>3, <1>4, <2>1, <2>2
  <2>3. CASE Goto(d, "loaded", ckpt)
    <3> DEFINE x == At("loaded", ckpt, drv[d].answer)
    <3>1. drv' = [drv EXCEPT ![d] = x] /\ x.pc = "loaded" /\ x.base = ckpt /\ x.answer = drv[d].answer
      BY <2>3 DEF Goto, At
    <3> HIDE DEF x
    <3> QED
      BY <1>1, <2>1, <3>1, AloneFrom
  <2> QED
    BY <1>7, <2>2, <2>3 DEF Load
<1>8. ASSUME NEW place \in Working, NEW copy, Goto(d, place, copy), ckpt' = copy, file,
             place = "loaded" => copy.attempt = ckpt.attempt /\ starts' = starts /\ drv[d].pc = "loaded"
      PROVE  Alone'
  <2> DEFINE x == At(place, copy, IF place = "loaded" THEN drv[d].answer ELSE NoAnswer)
  <2>1. drv' = [drv EXCEPT ![d] = x] /\ x.pc = place /\ x.base = copy
        /\ (place = "loaded" => x.answer = drv[d].answer)
    BY <1>8 DEF Goto, At
  <2>2. place # "called"
    BY DEF Working
  <2> HIDE DEF x
  <2> QED
    BY <1>1, <1>8, <2>1, <2>2, AloneFrom
<1>9. ASSUME ExecuteAllowed(d) PROVE Alone'
  <2>1. ckpt'.attempt = 1 /\ starts' = starts /\ Goto(d, "handler", ckpt')
    BY <1>9 DEF ExecuteAllowed, NewCheckpoint
  <2>2. file
    BY <2>1, BoundsAssumption DEF Attempts
  <2> QED
    BY <1>8, <2>1, <2>2 DEF Working
<1>10. ASSUME ExecuteAsked(d) PROVE Alone'
  <2>1. ckpt'.attempt = 1 /\ starts' = starts /\ drv' = drv /\ drv[d].pc = "idle"
    BY <1>10 DEF ExecuteAsked, NewCheckpoint
  <2>2. file
    BY <2>1, BoundsAssumption DEF Attempts
  <2> QED
    BY <2>1, <2>2 DEF Alone, Working
<1>11. ASSUME NEW rev, NEW kind \in AnswerKind, Call(d, rev, kind) PROVE Alone'
  <2> DEFINE x == [pc |-> "called", exp |-> rev, base |-> Absent,
                   answer |-> [kind |-> kind,
                               id |-> IF kind \in Approvals THEN ckpt.request ELSE ckpt.attempt]]
  <2>1. /\ drv' = [drv EXCEPT ![d] = x] /\ UNCHANGED <<ckpt, starts>>
        /\ kind = "confirmed_not_executed" => starts[ckpt.attempt] = 0
    BY <1>11 DEF Call
  <2>2. x.pc = "called" /\ x.pc \notin Working /\ x.answer.kind = kind
    BY DEF Working
  <2> HIDE DEF x
  <2> QED
    BY <1>1, <2>1, <2>2, AloneFrom
<1>12. ASSUME MarkInterrupted(d) PROVE Alone'
  <2>1. /\ drv[d].pc = "loaded" /\ starts' = starts /\ Goto(d, "loaded", ckpt')
        /\ ckpt'.attempt = drv[d].base.attempt
    BY <1>6, <1>12 DEF MarkInterrupted, Save
  <2>2. ckpt'.attempt = ckpt.attempt
    BY <1>1, <2>1 DEF Working
  <2> QED
    BY <1>5, <1>8, <2>1, <2>2 DEF Working
<1>13. ASSUME Approve(d) \/ RetryAllowed(d) PROVE Alone'
  <2>1. /\ drv[d].pc \in Working /\ starts' = starts /\ Goto(d, "handler", ckpt')
        /\ ckpt'.attempt = drv[d].base.attempt
    BY <1>6, <1>13 DEF Approve, RetryAllowed, Save, Working
  <2>2. ckpt'.attempt = ckpt.attempt
    BY <1>1, <2>1
  <2> QED
    BY <1>5, <1>8, <2>1, <2>2 DEF Working
<1>14. ASSUME Reject(d) PROVE Alone'
  <2>1. /\ drv[d].pc = "loaded" /\ UNCHANGED <<ckpt, starts>> /\ Goto(d, "denying", drv[d].base)
    BY <1>14 DEF Reject
  <2>2. drv[d].base = ckpt
    BY <1>1, <2>1 DEF Working
  <2> QED
    BY <1>4, <1>8, <2>1, <2>2 DEF Working
<1>15. ASSUME SaveDenial(d) \/ ConfirmExecuted(d) \/ RetryAsked(d) \/ RetryDenied(d) \/ Complete(d)
              \/ Reconcile(d)
       PROVE  Alone'
  <2>1. /\ drv[d].pc \in Working /\ starts' = starts /\ Leave(d)
        /\ ckpt'.attempt = drv[d].base.attempt
    BY <1>6, <1>15 DEF SaveDenial, ConfirmExecuted, RetryAsked, RetryDenied, Complete, Reconcile,
       ReconciledCheckpoint, Save, Working
  <2>2. ckpt'.attempt = ckpt.attempt
    BY <1>1, <2>1
  <2> QED
    BY <1>3, <1>5, <2>1, <2>2
<1>16. ASSUME ConfirmNotExecuted(d) PROVE Alone'
  <2>1. /\ drv[d].pc = "loaded" /\ drv[d].answer.kind = "confirmed_not_executed"
        /\ starts' = starts /\ Goto(d, "retrying", ckpt')
        /\ ckpt'.attempt = drv[d].base.attempt + 1
    BY <1>16 DEF ConfirmNotExecuted, RenewedCheckpoint, Save
  <2>2. ckpt'.attempt = ckpt.attempt + 1 /\ ckpt.attempt \in Attempts /\ starts[ckpt.attempt] = 0
    BY <1>1, <2>1 DEF Working
  <2>3. file
    <3>1. ASSUME NEW a \in Attempts, a < ckpt.attempt + 1 PROVE a < ckpt.attempt \/ a = ckpt.attempt
      BY <2>2, <3>1, BoundsAssumption DEF Attempts
    <3> QED
      BY <1>1, <2>1, <2>2, <3>1
  <2> QED
    BY <1>8, <2>1, <2>3 DEF Working
<1>17. ASSUME RunHandler(d) PROVE Alone'
  <2>1. /\ drv[d].pc = "handler" /\ ckpt' = ckpt /\ Goto(d, "ran", drv[d].base)
        /\ starts' = [starts EXCEPT ![drv[d].base.attempt] = @ + 1]
    BY <1>17 DEF RunHandler
  <2>2. drv[d].base = ckpt /\ ckpt.attempt \in Attempts
    BY <1>1, <2>1 DEF Working
  <2>3. file
    <3>1. \A a \in Attempts : a < ckpt.attempt => a # ckpt.attempt
      BY <2>2, BoundsAssumption DEF Attempts
    <3> QED
      BY <1>1, <2>1, <2>2, <3>1
  <2> QED
    BY <1>8, <2>1, <2>2, <2>3 DEF Working
<1>18. ASSUME RefuseDecision(d) \/ Pause(d) \/ Conflict(d) \/ Fault(d) PROVE Alone'
  BY <1>3, <1>4, <1>18 DEF RefuseDecision, Pause, Conflict, Fault
<1>19. CASE UNCHANGED vars
  BY <1>19 DEF vars, Alone
<1> QED
  BY <1>7, <1>9, <1>10, <1>11, <1>12, <1>13, <1>14, <1>15, <1>16, <1>17, <1>18, <1>19
  DEF Next, Step

\* With operators who tell the truth and one operation at a time, the side effect happens at
\* most once over all attempts, however often the driver is lost.
THEOREM TruthRunsOnce ==
  ASSUME Truthful, NEW d, Drivers = {d}
  PROVE  Spec => []TruthfulRecoveryRunsOnce
<1>1. Init => Alone
  BY DEF Init, Alone, Idle, Working
<1>2. IInv /\ Alone /\ [Next]_vars => Alone'
  BY AloneStep DEF IInv
<1>3. IInv /\ Alone => TruthfulRecoveryRunsOnce
  <2> SUFFICES ASSUME IInv, Alone PROVE TruthfulRecoveryRunsOnce
    OBVIOUS
  <2>1. ckpt \in Checkpoint /\ starts \in [Attempts -> Nat]
    BY DEF IInv, Basic, TypeOK
  <2>2. ASSUME NEW a \in Attempts, starts[a] > 0 PROVE a = ckpt.attempt
    <3>1. Committed(a)
      BY <2>2 DEF IInv, Safe, StartIsOnRecord
    <3>2. ~(a < ckpt.attempt)
      BY <2>1, <2>2 DEF Alone
    <3> QED
      BY <2>1, <3>1, <3>2, BoundsAssumption DEF Committed, Checkpoint, Attempts
  <2>3. OneStartPerAttempt
    BY DEF IInv, Safe
  <2> QED
    BY <2>2, <2>3 DEF TruthfulRecoveryRunsOnce
<1> QED
  BY <1>1, <1>2, <1>3, Invariance, PTL DEF Spec

=============================================================================
