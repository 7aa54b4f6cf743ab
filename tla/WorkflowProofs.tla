---------------------------- MODULE WorkflowProofs ----------------------------
(* The safety of a task's graph, for any plans, criteria, outcomes of the  *)
(* specialists, answers of the verifier and limits: every action keeps     *)
(* IInv, and IInv implies the properties MCWorkflow checks.                *)
(*                                                                         *)
(* The calls of the supervisor that only spend its budget keep the task as *)
(* it is (SameTask, TaskKept); a delivery and a report move one todo on    *)
(* (Advances, AdvanceKeeps); a plan, a delegation and a review have a      *)
(* proof of their own.                                                     *)
EXTENDS WorkflowInvariant, SequenceTheorems, FiniteSetTheorems, TLAPS

\* A sequence with one more element.
LEMMA AppendFacts ==
  ASSUME NEW s, NEW e, IsSequence(s)
  PROVE  /\ IsSequence(Append(s, e)) /\ Len(Append(s, e)) = Len(s) + 1
         /\ \A i \in 1..Len(s) : Append(s, e)[i] = s[i]
         /\ Append(s, e)[Len(s) + 1] = e
<1> DEFINE S == {s[i] : i \in 1..Len(s)} \cup {e}
<1>1. s \in Seq(S)
  BY DEF IsSequence
<1>2. Append(s, e) \in Seq(S)
  BY <1>1
<1>3. Append(s, e) = [i \in 1..Len(Append(s, e)) |-> Append(s, e)[i]]
  <2>1. Append(s, e) \in [1..Len(Append(s, e)) -> S]
    BY <1>2, LenProperties
  <2> QED
    BY <2>1
<1> QED
  BY <1>1, <1>2, <1>3 DEF IsSequence

\* What a record appended to the history leaves, and where it is found.
LEMMA RecordFacts ==
  ASSUME NEW kind, NEW body, IsSequence(history), Record(kind, body)
  PROVE  /\ IsSequence(history') /\ Len(history') = NewId /\ NewId \notin DOMAIN history
         /\ DOMAIN history' = DOMAIN history \cup {NewId}
         /\ \A id \in DOMAIN history : history'[id] = history[id]
         /\ history'[NewId] = [kind |-> kind, body |-> body]
         /\ NewId \in Nat \ {0}
<1> USE AppendFacts DEF Record, NewId, IsSequence
<1>1. DOMAIN history = 1..Len(history) /\ DOMAIN history' = 1..Len(history')
  BY DEF IsSequence
<1>2. Len(history') = Len(history) + 1
  OBVIOUS
<1> QED
  BY <1>1, <1>2

-----------------------------------------------------------------------------
\* Of two states: that they differ at most in what the planning has spent.
SameTask(old, new) ==
  /\ Shaped(new) /\ new.runtime.pending = old.runtime.pending
  /\ \A f \in Fields \ {"runtime"} : new[f] = old[f]

LEMMA SpentSame == Shaped(tiki) => Shaped(Spent) /\ SameTask(tiki, Spent)
BY DEF Shaped, SameTask, Spent, Fields, RuntimeFields

LEMMA KeyUsedSame ==
  ASSUME NEW state, Shaped(state), NEW t, NEW key
  PROVE  SameTask(state, KeyUsed(state, t, key))
BY DEF Shaped, SameTask, KeyUsed, Fields, RuntimeFields

LEMMA FailedSame ==
  ASSUME NEW state, Shaped(state), NEW tool, NEW code
  PROVE  SameTask(state, Failed(state, tool, code))
BY DEF Shaped, SameTask, Failed, Fields, RuntimeFields

LEMMA SucceededSame ==
  ASSUME NEW state, Shaped(state)
  PROVE  SameTask(state, Succeeded(state))
BY DEF Shaped, SameTask, Succeeded, Fields, RuntimeFields

LEMMA SameTaskTransitive ==
  ASSUME NEW a, NEW b, NEW c, SameTask(a, b), SameTask(b, c)
  PROVE  SameTask(a, c)
BY DEF SameTask

-----------------------------------------------------------------------------
\* What is planned, done and filed does not depend on what the planning has spent.
LEMMA TaskKept ==
  ASSUME IInv, SameTask(tiki, tiki'), UNCHANGED history
  PROVE  /\ ItemsFit' /\ Filed' /\ DependenciesPlanned'
         /\ StartedAfterDependencies' /\ IndependentIsAssessed'
<1>1. tiki'.board = tiki.board /\ tiki'.results = tiki.results /\ tiki'.reports = tiki.reports
  BY SMTT(40) DEF SameTask, Fields
<1>2. ItemsFit'
  BY <1>1 DEF IInv, ItemsFit, ItemFits, Contracted, Named
<1>3. Filed'
  BY <1>1 DEF IInv, Filed, Named
<1>4. DependenciesPlanned' /\ StartedAfterDependencies'
  BY <1>1 DEF IInv, DependenciesPlanned, StartedAfterDependencies
<1>5. IndependentIsAssessed'
  BY <1>1 DEF IInv, IndependentIsAssessed
<1> QED
  BY <1>2, <1>3, <1>4, <1>5

\* The supervisor stays where it is.
LEMMA QuietKeeps ==
  ASSUME IInv, SameTask(tiki, tiki'), UNCHANGED <<pc, files, history, supersteps, pauses>>,
         pc = "supervisor"
  PROVE  IInv'
<1>1. Shapes'
  BY DEF IInv, Shapes, SameTask, Fields
<1>2. UnderWay'
  BY DEF IInv, UnderWay, SameTask
<1>3. StepsAreCounted'
  BY DEF IInv, StepsAreCounted, SameTask, Fields
<1> QED
  BY <1>1, <1>2, <1>3, TaskKept DEF IInv

\* The supervisor node ends the planning, with a task that is finished or stopped.
LEMMA RestKeeps ==
  ASSUME IInv, SameTask(tiki, tiki'), pc = "supervisor",
         NEW place \in {"finalization", "stopped"}, Rest(place),
         place = "finalization" => FinishRefusal(tiki, files) = "ok"
  PROVE  IInv'
<1>1. Shapes'
  BY DEF IInv, Shapes, SameTask, Fields, Rest, Nodes, Rests
<1>2. UnderWay'
  <2>1. place = "finalization" => DOMAIN tiki.board # {} /\ Unaccepted(tiki, files) = {}
    BY DEF FinishRefusal
  <2>2. Unaccepted(tiki, files)' = Unaccepted(tiki, files) /\ tiki'.board = tiki.board
    BY DEF Unaccepted, ResultOf, Lookup, SameTask, Fields, Rest
  <2> QED
    BY <2>1, <2>2 DEF UnderWay, Rest
<1>3. StepsAreCounted'
  BY DEF IInv, Shapes, StepsAreCounted, SameTask, Fields, Rest
<1> QED
  BY <1>1, <1>2, <1>3, TaskKept DEF IInv, Rest

\* A call that changes nothing but the account of the planning.
LEMMA RefuseKeeps ==
  ASSUME IInv, pc = "supervisor", NEW state, Shaped(state), SameTask(tiki, state),
         NEW tool, NEW code, Refuse(state, tool, code)
  PROVE  IInv'
BY QuietKeeps, FailedSame, SameTaskTransitive DEF Refuse

LEMMA ReadKeeps == IInv /\ Read => IInv'
BY QuietKeeps, SpentSame, SucceededSame, SameTaskTransitive
   DEF Read, Stay, Planning, Enter, IInv, Shapes

LEMMA MistakeKeeps == IInv /\ Mistake => IInv'
BY RefuseKeeps, SpentSame DEF Mistake, Planning, Enter, IInv, Shapes

LEMMA InterruptedKeeps == IInv /\ Interrupted => IInv'
<1> SUFFICES ASSUME IInv, Interrupted PROVE IInv'
  OBVIOUS
<1>1. SameTask(tiki, tiki')
  BY DEF IInv, Shapes, Shaped, Interrupted, SameTask, Fields, RuntimeFields
<1> QED
  BY <1>1, QuietKeeps DEF Interrupted, Planning, Enter

LEMMA StopKeeps == IInv /\ Stop => IInv'
BY RestKeeps, SpentSame DEF Stop, Planning, Enter, IInv, Shapes

LEMMA FinishKeeps == IInv /\ Finish => IInv'
<1> SUFFICES ASSUME IInv, Finish PROVE IInv'
  OBVIOUS
<1>1. Shaped(Spent) /\ SameTask(tiki, Spent) /\ SameTask(tiki, Succeeded(Spent))
  BY SpentSame, SucceededSame, SameTaskTransitive DEF IInv, Shapes
<1>2. pc = "supervisor"
  BY DEF Finish, Planning, Enter
<1>3. CASE FinishRefusal(tiki, files) # "ok" /\ Refuse(Spent, "finish_task", FinishRefusal(tiki, files))
  BY <1>1, <1>2, <1>3, RefuseKeeps
<1>4. CASE FinishRefusal(tiki, files) = "ok" /\ tiki' = Succeeded(Spent) /\ Rest("finalization")
  BY <1>1, <1>2, <1>4, RestKeeps
<1> QED
  BY <1>3, <1>4 DEF Finish

LEMMA ConcludeKeeps == IInv /\ Conclude => IInv'
<1> SUFFICES ASSUME IInv, Conclude PROVE IInv'
  OBVIOUS
<1>1. SameTask(tiki, tiki') /\ pc = "supervisor"
  BY DEF IInv, Shapes, Shaped, SameTask, Conclude, Enter
<1> QED
  BY <1>1, RestKeeps DEF Conclude

-----------------------------------------------------------------------------
(* update_plan.                                                            *)

\* What a plan that is not refused leaves of the board it meets.
LEMMA PlanAccepted ==
  ASSUME NEW state, NEW plan, NEW keepsTask, PlanRefusals(state, plan, keepsTask) = {}
  PROVE  /\ DOMAIN state.board \subseteq DOMAIN plan
         /\ \A t \in DOMAIN plan : plan[t].deps \subseteq DOMAIN plan
         /\ \A t \in DOMAIN plan : plan[t].criteria # {}
         /\ \A t \in DOMAIN state.board :
              state.board[t].criteria \in {{}, plan[t].criteria} /\ state.board[t].mode = plan[t].mode
         /\ \A t \in DOMAIN state.board : state.board[t].status # "pending" =>
              /\ state.board[t].level = PlannedItem(state.board, plan, t).level
              /\ Contract(state.board[t]) = Contract(plan[t])
<1> DEFINE board == state.board
           item(t) == PlannedItem(board, plan, t)
           known == DOMAIN plan \cap DOMAIN board
           started == {t \in known : board[t].status # "pending"}
           removed == ~(DOMAIN board \subseteq DOMAIN plan)
           unmet == \E t \in DOMAIN plan : plan[t].criteria \cap Required = {}
           open == \E t \in DOMAIN plan :
                     t \in plan[t].deps \/ ~(plan[t].deps \subseteq DOMAIN plan)
           otherMode == \E t \in known : board[t].mode # plan[t].mode
           otherCriteria == \E t \in known : board[t].criteria \notin {{}, plan[t].criteria}
           otherLevel == \E t \in started :
                  <<board[t].level, board[t].why>> # <<item(t).level, item(t).why>>
           otherContract == \E t \in started : Contract(board[t]) # Contract(plan[t])
           refusals == PlanRefusals(state, plan, keepsTask)
<1>1. removed => "plan_requirement_removed" \in refusals
  BY DEF PlanRefusals
<1>2. unmet => "invalid_acceptance" \in refusals
  BY DEF PlanRefusals
<1>3. open => "invalid_dependency" \in refusals
  BY DEF PlanRefusals
<1>4. otherMode => "immutable_delivery_mode" \in refusals
  BY DEF PlanRefusals
<1>5. otherCriteria => "immutable_acceptance" \in refusals
  BY DEF PlanRefusals
<1>6. otherLevel => "immutable_verification" \in refusals
  BY DEF PlanRefusals
<1>7. otherContract => "immutable_todo" \in refusals
  BY DEF PlanRefusals
<1>8. ~removed /\ ~unmet /\ ~open /\ ~otherMode /\ ~otherCriteria /\ ~otherLevel /\ ~otherContract
  BY <1>1, <1>2, <1>3, <1>4, <1>5, <1>6, <1>7
<1> QED
  BY <1>8

\* An item as a plan describes it.
LEMMA PlannedItemFields ==
  ASSUME NEW board, NEW plan, NEW t \in DOMAIN plan, Plannable(plan[t]),
         t \in DOMAIN board => board[t].level \in Level
  PROVE  LET item == PlannedItem(board, plan, t)
         IN  /\ DOMAIN item = {"owner", "mode", "deps", "level", "caps", "criteria", "why"}
             /\ item.level \in Level
             /\ \A f \in {"owner", "mode", "deps", "caps", "criteria"} : item[f] = plan[t][f]
BY DEF PlannedItem, Plannable, Asked, Added, Level

\* An item after a plan: what has happened to it stays.
LEMMA UpdatedItem ==
  ASSUME IInv, NEW plan \in Plans, NEW keepsTask, PlanRefusals(tiki, plan, keepsTask) = {},
         NEW t \in DOMAIN plan
  PROVE  LET new == UpdatePlan(tiki, plan).board[t]
         IN  /\ DOMAIN new = ItemFields
             /\ new.owner = plan[t].owner /\ new.mode = plan[t].mode /\ new.deps = plan[t].deps
             /\ new.criteria = plan[t].criteria /\ new.level \in Level
             /\ t \in DOMAIN tiki.board =>
                  \A f \in {"status", "attempts", "handoff", "result", "verification", "review"} :
                    new[f] = tiki.board[t][f]
             /\ t \in DOMAIN tiki.board /\ tiki.board[t].status # "pending" =>
                  \A f \in {"owner", "mode", "deps", "criteria", "level"} :
                    new[f] = tiki.board[t][f]
             /\ t \notin DOMAIN tiki.board =>
                  /\ new.status = "pending" /\ new.attempts = 0 /\ new.handoff = 0
                  /\ new.review = {}
<1> DEFINE item == PlannedItem(tiki.board, plan, t)
           new == UpdatePlan(tiki, plan).board[t]
<1>1. Plannable(plan[t])
  BY WorkflowConstants
<1>2. t \in DOMAIN tiki.board => ItemFits(t, tiki.board[t])
  BY DEF IInv, ItemsFit
<1>3. /\ DOMAIN item = {"owner", "mode", "deps", "level", "caps", "criteria", "why"}
      /\ item.level \in Level
      /\ \A f \in {"owner", "mode", "deps", "caps", "criteria"} : item[f] = plan[t][f]
  BY <1>1, <1>2, PlannedItemFields DEF ItemFits
<1>4. new = IF t \in DOMAIN tiki.board THEN Merged(item, tiki.board[t]) ELSE NewItem(item)
  BY DEF UpdatePlan, IInv, Shapes, Shaped, Fields
<1>5. CASE t \notin DOMAIN tiki.board
  <2> HIDE DEF item
  <2>1. new = NewItem(item)
    BY <1>4, <1>5
  <2> QED
    BY <2>1, <1>3, <1>5 DEF NewItem, Merged, ItemFields
<1>6. CASE t \in DOMAIN tiki.board
  <2>1. tiki.board[t].status # "pending" =>
          /\ item.level = tiki.board[t].level /\ Contract(tiki.board[t]) = Contract(plan[t])
    BY <1>6, PlanAccepted
  <2>2. tiki.board[t].criteria = plan[t].criteria
    BY <1>2, <1>6, PlanAccepted DEF ItemFits
  <2>3. tiki.board[t].status # "pending" =>
          /\ item.level = tiki.board[t].level
          /\ plan[t].owner = tiki.board[t].owner /\ plan[t].mode = tiki.board[t].mode
          /\ plan[t].deps = tiki.board[t].deps
    BY <2>1 DEF Contract
  <2> HIDE DEF item
  <2>4. new = Merged(item, tiki.board[t])
    BY <1>4, <1>6
  <2> QED
    BY <2>2, <2>3, <2>4, <1>2, <1>3, <1>6 DEF Merged, ItemFields, ItemFits
<1> QED
  BY <1>5, <1>6

\* A new plan keeps whatever has been done.
LEMMA PlanKeeps ==
  ASSUME IInv, NEW plan \in Plans, NEW keepsTask \in BOOLEAN, Plan(plan, keepsTask)
  PROVE  IInv'
<1>1. pc = "supervisor" /\ Shaped(Spent) /\ SameTask(tiki, Spent)
  BY SpentSame DEF Plan, Planning, Enter, IInv, Shapes
<1>2. CASE \E code \in PlanRefusals(tiki, plan, keepsTask) : Refuse(Spent, "update_plan", code)
  BY <1>1, <1>2, RefuseKeeps
<1>3. CASE /\ PlanRefusals(tiki, plan, keepsTask) = {}
           /\ Stay(UpdatePlan(Spent, plan)) /\ UNCHANGED history
  <2>1. /\ Shaped(tiki') /\ tiki'.board = UpdatePlan(tiki, plan).board /\ tiki'.runtime.pending = tiki.runtime.pending
        /\ \A f \in Fields \ {"runtime", "board", "planned"} : tiki'[f] = tiki[f]
    BY <1>1, <1>3
       DEF Stay, Succeeded, UpdatePlan, SameTask, Shaped, Fields, RuntimeFields, IInv, Shapes
  <2>2. /\ DOMAIN tiki'.board = DOMAIN plan /\ DOMAIN tiki.board \subseteq DOMAIN tiki'.board
        /\ \A t \in DOMAIN plan : plan[t].deps \subseteq DOMAIN plan /\ plan[t].criteria # {}
    BY <1>3, <2>1, PlanAccepted DEF UpdatePlan, IInv, Shapes, Shaped, Fields
  <2>3. ASSUME NEW t \in DOMAIN tiki'.board
        PROVE  /\ DOMAIN tiki'.board[t] = ItemFields
               /\ tiki'.board[t].owner = plan[t].owner /\ tiki'.board[t].mode = plan[t].mode
               /\ tiki'.board[t].deps = plan[t].deps
               /\ tiki'.board[t].criteria = plan[t].criteria /\ tiki'.board[t].level \in Level
               /\ t \in DOMAIN tiki.board =>
                    \A f \in {"status", "attempts", "handoff", "result", "verification", "review"} :
                      tiki'.board[t][f] = tiki.board[t][f]
               /\ t \in DOMAIN tiki.board /\ tiki.board[t].status # "pending" =>
                    \A f \in {"owner", "mode", "deps", "criteria", "level"} :
                      tiki'.board[t][f] = tiki.board[t][f]
               /\ t \notin DOMAIN tiki.board =>
                    /\ tiki'.board[t].status = "pending" /\ tiki'.board[t].attempts = 0
                    /\ tiki'.board[t].handoff = 0 /\ tiki'.board[t].review = {}
               /\ Plannable(plan[t])
    BY <1>3, <2>1, <2>2, UpdatedItem, WorkflowConstants
  <2>4. UNCHANGED <<pc, files, history, supersteps, pauses>>
    BY <1>3 DEF Stay
  <2>5. Shapes'
    BY <2>1, <2>4 DEF IInv, Shapes, Fields
  <2>6. ItemsFit'
    <3> SUFFICES ASSUME NEW t \in DOMAIN tiki'.board PROVE ItemFits(t, tiki.board[t])'
      BY <2>1 DEF ItemsFit
    <3>1. CASE t \in DOMAIN tiki.board
      <4>1. ItemFits(t, tiki.board[t])
        BY <3>1 DEF IInv, ItemsFit
      <4>2. tiki'.board[t].status # "pending" => Contracted(t, tiki.board[t])'
        BY <4>1, <3>1, <2>3, <2>4 DEF ItemFits, Contracted, Named
      <4> QED
        BY SMTT(40), <4>1, <4>2, <3>1, <2>1, <2>2, <2>3, <2>4 DEF ItemFits, Plannable, Fields
    <3>2. CASE t \notin DOMAIN tiki.board
      BY <3>2, <2>2, <2>3, <2>4 DEF ItemFits, Plannable, TodoStatus, Actionable, IInv, Shapes, IsSequence
    <3> QED
      BY <3>1, <3>2
  <2>7. Filed'
    BY <2>1, <2>4 DEF IInv, Filed, Named, Fields
  <2>8. DependenciesPlanned'
    BY <2>1, <2>2, <2>3 DEF DependenciesPlanned
  <2>9. UnderWay'
    <3>1. tiki'.runtime.pending = {}
      BY <1>1, <2>1 DEF IInv, UnderWay
    <3> QED
      BY <3>1, <1>1, <2>4 DEF UnderWay
  <2>10. StepsAreCounted'
    BY <2>1, <2>4 DEF IInv, StepsAreCounted, Fields
  <2>11. StartedAfterDependencies'
    <3> SUFFICES ASSUME NEW t \in DOMAIN tiki'.board, tiki'.board[t].attempts > 0
                 PROVE  /\ tiki'.board[t].deps \subseteq DOMAIN tiki'.board
                        /\ \A d \in tiki'.board[t].deps : tiki'.board[d].status = "completed"
      BY <2>1 DEF StartedAfterDependencies
    <3>1. t \in DOMAIN tiki.board /\ tiki.board[t].attempts > 0
      BY <2>3
    <3>2. ItemFits(t, tiki.board[t])
      BY <3>1 DEF IInv, ItemsFit
    <3>3. tiki'.board[t].deps = tiki.board[t].deps
      BY SMTT(40), <3>1, <3>2, <2>3 DEF ItemFits
    <3> QED
      BY <3>1, <3>3, <2>2, <2>3 DEF IInv, StartedAfterDependencies
  <2>12. IndependentIsAssessed'
    <3> SUFFICES ASSUME NEW t \in DOMAIN tiki'.board, tiki'.board[t].level = "independent",
                        \E review \in tiki'.board[t].review : review.action = "accept"
                 PROVE  LET report == Lookup(tiki.reports, tiki'.board[t].verification)
                        IN  /\ report.status = "assessed" /\ report.passed
                            /\ \A c \in tiki'.board[t].criteria \cap Required :
                                 \E i \in DOMAIN report.assessments :
                                   /\ report.assessments[i].criterion = c
                                   /\ report.assessments[i].status = "passed"
                                   /\ \E e \in report.assessments[i].refs : report.evidence[e]
      BY <2>1 DEF IndependentIsAssessed, Fields
    <3>1. t \in DOMAIN tiki.board /\ tiki.board[t].review = tiki'.board[t].review
      BY <2>3
    <3>2. ItemFits(t, tiki.board[t])
      BY <3>1 DEF IInv, ItemsFit
    <3>3. tiki.board[t].status # "pending"
      BY <3>1, <3>2 DEF ItemFits
    <3>4. /\ tiki'.board[t].level = tiki.board[t].level /\ tiki'.board[t].criteria = tiki.board[t].criteria
          /\ tiki'.board[t].verification = tiki.board[t].verification
      BY <3>1, <3>3, <2>3
    <3> QED
      BY <3>1, <3>4 DEF IInv, IndependentIsAssessed
  <2> QED
    BY <2>5, <2>6, <2>7, <2>8, <2>9, <2>10, <2>11, <2>12 DEF IInv
<1> QED
  BY <1>2, <1>3 DEF Plan

-----------------------------------------------------------------------------
(* delegate_task.                                                          *)

\* What a justified delegation can rely on.
LEMMA Justified ==
  ASSUME NEW state, NEW t, NEW key, NEW changed, JustifyRefusal(state, t, key, changed) = "ok"
  PROVE  /\ t \in DOMAIN state.board /\ state.board[t].status \in Actionable
         /\ ~(state.board[t].attempts > 0 /\ state.board[t].attempts >= 2)
         /\ DependenciesDone(state.board, t) /\ ~(state.delegations >= MaxDelegations)
BY DEF JustifyRefusal

\* The handoff of a delegation is the one its node and the gate will look for.
LEMMA DispatchKeeps ==
  ASSUME IInv, pc = "supervisor", NEW state, Shaped(state), SameTask(tiki, state),
         NEW t \in DOMAIN tiki.board, NEW key, NEW changed,
         JustifyRefusal(tiki, t, key, changed) = "ok", Dispatch(state, t, key)
  PROVE  IInv'
<1> DEFINE item == tiki.board[t]
           handoff == [id |-> NewId, to |-> item.owner, todo |-> t, mode |-> item.mode,
                       level |-> item.level, criteria |-> item.criteria, status |-> "pending",
                       result |-> 0]
           started == [item EXCEPT !.status = "in_progress", !.attempts = @ + 1,
                                   !.handoff = NewId, !.result = 0,
                                   !.verification = 0, !.review = {}]
           note == IF item.attempts = 0 THEN "first" ELSE key
<1>1. state.board = tiki.board /\ state.handoff = tiki.handoff
  BY DEF SameTask, Fields
<1>2. /\ Shaped(tiki') /\ DOMAIN tiki'.board = DOMAIN tiki.board /\ tiki'.board[t] = started
      /\ \A u \in DOMAIN tiki.board : u # t => tiki'.board[u] = tiki.board[u]
      /\ tiki'.runtime.pending = {<<t, NewId>>}
      /\ tiki'.handoff = handoff /\ tiki'.delegations = tiki.delegations + 1
      /\ \A f \in {"results", "reports", "latest"} : tiki'[f] = tiki[f]
  <2>1. tiki' = [Succeeded(state) EXCEPT
                    !.board = StartTodo(@, t, NewId), !.handoff = handoff,
                    !.delegations = @ + 1, !.runtime.pending = {<<t, NewId>>}]
    BY <1>1 DEF Dispatch
  <2>2. SameTask(state, Succeeded(state))
    BY SMTT(40), SucceededSame
  <2>3. /\ DOMAIN StartTodo(tiki.board, t, NewId) = DOMAIN tiki.board
        /\ StartTodo(tiki.board, t, NewId)[t] = started
        /\ \A u \in DOMAIN tiki.board : u # t => StartTodo(tiki.board, t, NewId)[u] = tiki.board[u]
    BY Zenon DEF StartTodo
  <2> HIDE DEF handoff, started
  <2> QED
    BY <1>1, <2>1, <2>2, <2>3 DEF SameTask, Shaped, Fields, RuntimeFields
<1>3. /\ Record("handoff", <<handoff, note>>)
      /\ pc' = item.owner /\ supersteps' = supersteps + 1 /\ UNCHANGED <<files, pauses>>
  BY <1>1 DEF Dispatch
<1>4. IsSequence(history)
  BY DEF IInv, Shapes
<1>5. /\ IsSequence(history') /\ Len(history') = NewId /\ NewId \notin DOMAIN history
      /\ DOMAIN history' = DOMAIN history \cup {NewId}
      /\ \A id \in DOMAIN history : history'[id] = history[id]
      /\ history'[NewId] = [kind |-> "handoff", body |-> <<handoff, note>>]
      /\ NewId \in Nat \ {0}
  <2> HIDE DEF handoff, note
  <2> QED
    BY <1>3, <1>4, RecordFacts
<1>6. /\ item.status \in Actionable /\ item.attempts < 2 /\ DependenciesDone(tiki.board, t)
      /\ tiki.delegations < MaxDelegations /\ ItemFits(t, item)
  <2>1. ItemFits(t, item)
    BY DEF IInv, ItemsFit
  <2> QED
    BY <2>1, Justified, SupervisorBounds DEF ItemFits, IInv, Shapes
<1>7. NewId = Len(history) + 1 /\ Len(history) \in Nat
  BY <1>4 DEF NewId, IsSequence
<1>8. Shapes'
  <2>1. HandoffFields \subseteq DOMAIN tiki'.handoff
    BY <1>2 DEF HandoffFields
  <2>2. tiki'.delegations \in 0..MaxDelegations /\ supersteps' \in Nat /\ pc' \in Nodes
    BY SMTT(40), <1>2, <1>3, <1>6, SupervisorBounds DEF IInv, Shapes, ItemFits, Owners, Nodes
  <2> QED
    BY <2>1, <2>2, <1>2, <1>3, <1>5 DEF IInv, Shapes
<1>9. ItemsFit'
  <2> SUFFICES ASSUME NEW u \in DOMAIN tiki'.board PROVE ItemFits(u, tiki.board[u])'
    BY DEF ItemsFit
  <2>1. u \in DOMAIN tiki.board /\ ItemFits(u, tiki.board[u])
    BY <1>2 DEF IInv, ItemsFit
  <2>2. CASE u = t
    <3>1. tiki'.board[u] = started
      BY SMTT(40), <1>2, <2>2
    <3>2. /\ started.handoff = NewId /\ started.owner = item.owner /\ started.mode = item.mode
          /\ started.level = item.level /\ started.criteria = item.criteria
      BY SMTT(40), <1>6 DEF ItemFits, ItemFields
    <3>3. /\ NewId \in DOMAIN history' /\ history'[NewId].kind = "handoff"
          /\ history'[NewId].body[1] = handoff
      BY <1>5
    <3> HIDE DEF started
    <3>4. Contracted(u, tiki.board[u])'
      BY SMTT(40), <3>1, <3>2, <3>3, <2>2 DEF Contracted, Named
    <3> USE DEF started
    <3> QED
      BY SMTT(40), <1>5, <1>6, <1>7, <3>1, <3>4, <2>2 DEF ItemFits, ItemFields, TodoStatus
  <2>3. CASE u # t
    <3>1. tiki'.board[u] = tiki.board[u]
      BY <1>2, <2>3
    <3>2. tiki'.board[u].status # "pending" => Contracted(u, tiki.board[u])'
      <4>1. tiki.board[u].status # "pending" => Contracted(u, tiki.board[u])
        BY <2>1 DEF ItemFits
      <4>2. \A id : Named("handoff", id) => id \in DOMAIN history' /\ history'[id] = history[id]
        BY <1>5 DEF Named
      <4> QED
        BY SMTT(40), <4>1, <4>2, <3>1 DEF Contracted, Named
    <3> QED
      BY SMTT(40), <2>1, <3>1, <3>2, <1>2, <1>5, <1>7 DEF ItemFits
  <2> QED
    BY <2>2, <2>3
<1>10. Filed'
  BY <1>2, <1>5 DEF IInv, Filed, Named
<1>11. DependenciesPlanned' /\ StartedAfterDependencies'
  <2>1. ASSUME NEW u \in DOMAIN tiki.board
        PROVE  /\ tiki'.board[u].deps = tiki.board[u].deps
               /\ tiki.board[u].status = "completed" => tiki'.board[u].status = "completed"
               /\ u # t => tiki'.board[u].attempts = tiki.board[u].attempts
    <3>1. CASE u = t
      BY <3>1, <1>2, <1>6 DEF ItemFits, ItemFields, Actionable
    <3>2. CASE u # t
      BY <3>2, <1>2
    <3> QED
      BY <3>1, <3>2
  <2>2. DOMAIN tiki'.board = DOMAIN tiki.board
    BY <1>2
  <2>3. DependenciesPlanned'
    BY <2>1, <2>2 DEF IInv, DependenciesPlanned
  <2>4. StartedAfterDependencies'
    BY <2>1, <2>2, <1>6 DEF IInv, DependenciesPlanned, StartedAfterDependencies, DependenciesDone
  <2> QED
    BY <2>3, <2>4
<1>12. UnderWay'
  <2>1. tiki'.board[t].status = "in_progress" /\ tiki'.board[t].handoff = NewId
    BY <1>2, <1>6 DEF ItemFits, ItemFields
  <2>2. /\ tiki'.handoff.todo = t /\ tiki'.handoff.id = NewId /\ tiki'.handoff.status = "pending"
        /\ tiki'.handoff.to = pc' /\ pc' \in Owners /\ t \in DOMAIN tiki'.board
    BY <1>2, <1>3, <1>6 DEF ItemFits
  <2> QED
    BY <2>1, <2>2, <1>2 DEF UnderWay, CanRecordResult, Owners
<1>13. StepsAreCounted'
  BY SMTT(40), <1>2, <1>3, <1>6 DEF IInv, Shapes, StepsAreCounted, ItemFits, Owners
<1>14. IndependentIsAssessed'
  <2> SUFFICES ASSUME NEW u \in DOMAIN tiki'.board, tiki'.board[u].level = "independent",
                      \E review \in tiki'.board[u].review : review.action = "accept"
               PROVE  LET report == Lookup(tiki'.reports, tiki'.board[u].verification)
                      IN  /\ report.status = "assessed" /\ report.passed
                          /\ \A c \in tiki'.board[u].criteria \cap Required :
                               \E i \in DOMAIN report.assessments :
                                 /\ report.assessments[i].criterion = c
                                 /\ report.assessments[i].status = "passed"
                                 /\ \E e \in report.assessments[i].refs : report.evidence[e]
    BY DEF IndependentIsAssessed
  <2>1. u # t
    BY <1>2, <1>6 DEF ItemFits, ItemFields
  <2>2. u \in DOMAIN tiki.board /\ tiki'.board[u] = tiki.board[u] /\ tiki'.reports = tiki.reports
    BY <2>1, <1>2
  <2> QED
    BY <2>2 DEF IInv, IndependentIsAssessed
<1> QED
  BY <1>8, <1>9, <1>10, <1>11, <1>12, <1>13, <1>14 DEF IInv

LEMMA DelegateKeeps ==
  ASSUME IInv, NEW t \in DOMAIN tiki.board, NEW key, NEW changed, NEW inScope,
         Delegate(t, key, changed, inScope)
  PROVE  IInv'
<1> DEFINE unjustified == JustifyRefusal(tiki, t, key, changed)
           refusal == DispatchRefusal(tiki, t, inScope)
<1>1. /\ pc = "supervisor" /\ Shaped(Spent) /\ SameTask(tiki, Spent)
      /\ Shaped(KeyUsed(Spent, t, key)) /\ SameTask(tiki, KeyUsed(Spent, t, key))
  BY SpentSame, KeyUsedSame, SameTaskTransitive DEF Delegate, Planning, Enter, IInv, Shapes, SameTask
<1>2. CASE unjustified # "ok" /\ Refuse(Spent, "delegate_task", unjustified)
  BY <1>1, <1>2, RefuseKeeps
<1>3. CASE unjustified = "ok" /\ refusal # "ok"
           /\ Refuse(KeyUsed(Spent, t, key), "delegate_task", refusal)
  BY <1>1, <1>3, RefuseKeeps
<1>4. CASE unjustified = "ok" /\ refusal = "ok" /\ Dispatch(KeyUsed(Spent, t, key), t, key)
  BY <1>1, <1>4, DispatchKeeps
<1> QED
  BY <1>2, <1>3, <1>4 DEF Delegate

-----------------------------------------------------------------------------
(* review_result.                                                          *)

\* What a review that is not refused has found.
LEMMA Reviewable ==
  ASSUME NEW state, NEW review, NEW said, NEW paths, ReviewRefusal(state, review, said, paths) = "ok"
  PROVE  LET todo == state.board[review.todo]
             report == Lookup(state.reports, review.verification)
         IN  /\ review.todo \in DOMAIN state.board /\ todo.status = "awaiting_review"
             /\ todo.result = review.result /\ todo.handoff = review.handoff
             /\ todo.verification = review.verification
             /\ review.action \in Accepting =>
                  ~Blocked(todo, review.todo, ResultOf(state, review.result), report)
             /\ review.action = "accept" => Gaps(todo, report) = {}
BY DEF ReviewRefusal

\* An acceptance without reservation of what calls for independent review.
LEMMA AcceptedIsAssessed ==
  ASSUME NEW todo, NEW t, NEW result, NEW report, todo.level = "independent", todo.criteria # {},
         report.status \in {"assessed", "checks_only", "not_performed"},
         ~Blocked(todo, t, result, report), Gaps(todo, report) = {}
  PROVE  /\ report.status = "assessed" /\ report.passed
         /\ \A c \in todo.criteria \cap Required :
              \E i \in DOMAIN report.assessments :
                /\ report.assessments[i].criterion = c
                /\ report.assessments[i].status = "passed"
                /\ \E e \in report.assessments[i].refs : report.evidence[e]
<1>1. report.status = "assessed"
  <2>1. report.status # "checks_only"
    BY DEF Blocked
  <2>2. report.status = "not_performed" => <<"not assessed">> \in Gaps(todo, report)
    BY DEF Gaps
  <2> QED
    BY <2>1, <2>2
<1>2. StructureValid(todo.criteria, report.assessments, report.evidence)
  BY <1>1 DEF Blocked
<1> DEFINE missing == {<<"unmet", c>> : c \in Unmet(todo, report)}
<1>3. Gaps(todo, report) =
        report.limits \cup (IF ~report.passed /\ missing = {} THEN {<<"reservation">>} ELSE missing)
  BY <1>1 DEF Gaps
<1>4. missing = {}
  BY <1>3
<1>5. report.passed
  BY <1>3, <1>4
<1>6. Unmet(todo, report) = {}
  BY <1>4
<1>7. ASSUME NEW c \in todo.criteria
      PROVE  \E i \in DOMAIN report.assessments :
                /\ report.assessments[i].criterion = c
                /\ report.assessments[i].status = "passed"
                /\ \E e \in report.assessments[i].refs : report.evidence[e]
  <2>1. PICK i \in DOMAIN report.assessments :
          report.assessments[i].criterion = c /\ report.assessments[i].status = "passed"
    BY <1>6 DEF Unmet
  <2>2. Supported(report.assessments[i], report.evidence)
    BY <1>2 DEF StructureValid
  <2> QED
    BY <2>1, <2>2 DEF Supported
<1> QED
  BY <1>1, <1>5, <1>7

\* A review decides on one todo, and what is accepted without reservation was assessed.
LEMMA ReviewKeeps ==
  ASSUME IInv, NEW t \in DOMAIN tiki.board, NEW result, NEW action \in ReviewAction, NEW said,
         Review(t, result, action, said)
  PROVE  IInv'
<1> DEFINE todo == tiki.board[t]
           asked == [todo |-> t, result |-> result, handoff |-> todo.handoff,
                     verification |-> todo.verification, action |-> action, limitations |-> {}]
           refusal == ReviewRefusal(tiki, asked, said, files)
           review == Disclosed(tiki, asked, said)
           decided == [todo EXCEPT !.review = {review},
                         !.status = IF action \in Accepting THEN "completed" ELSE "failed"]
           report == Lookup(tiki.reports, todo.verification)
<1>1. pc = "supervisor" /\ Shaped(Spent) /\ SameTask(tiki, Spent)
  BY SpentSame DEF Review, Planning, Enter, IInv, Shapes
<1>2. CASE refusal # "ok" /\ Refuse(Spent, "review_result", refusal)
  BY <1>1, <1>2, RefuseKeeps
<1>3. CASE /\ refusal = "ok" /\ Record("review", review)
           /\ tiki' = [Succeeded(Spent) EXCEPT !.board = RecordReview(@, review)]
           /\ IF action = "stop" THEN pc' = "stopped" /\ supersteps' = supersteps + 1
              ELSE UNCHANGED <<pc, supersteps>>
           /\ UNCHANGED <<files, pauses>>
  <2>1. review.todo = t /\ review.action = action /\ review.verification = todo.verification
    BY DEF Disclosed
  <2>2. /\ todo.status = "awaiting_review"
        /\ action \in Accepting => ~Blocked(todo, t, ResultOf(tiki, result), report)
        /\ action = "accept" => Gaps(todo, report) = {}
    <3>1. asked.todo = t /\ asked.action = action /\ asked.verification = todo.verification
          /\ asked.result = result
      OBVIOUS
    <3> HIDE DEF asked
    <3> QED
      BY <1>3, <3>1, Reviewable
  <2>3. SameTask(tiki, Succeeded(Spent))
    BY <1>1, SucceededSame, SameTaskTransitive
  <2>4. /\ Shaped(tiki') /\ DOMAIN tiki'.board = DOMAIN tiki.board /\ tiki'.board[t] = decided
        /\ \A u \in DOMAIN tiki.board : u # t => tiki'.board[u] = tiki.board[u]
        /\ tiki'.runtime.pending = tiki.runtime.pending
        /\ \A f \in Fields \ {"runtime", "board"} : tiki'[f] = tiki[f]
    <3>1. /\ DOMAIN RecordReview(tiki.board, review) = DOMAIN tiki.board
          /\ RecordReview(tiki.board, review)[t] = decided
          /\ \A u \in DOMAIN tiki.board : u # t => RecordReview(tiki.board, review)[u] = tiki.board[u]
      <4> HIDE DEF review
      <4> QED
        BY <2>1 DEF RecordReview
    <3> HIDE DEF review, decided
    <3> QED
      BY <1>3, <2>3, <3>1 DEF SameTask, Shaped, Fields
  <2>5. IsSequence(history) /\ ItemFits(t, todo)
    BY DEF IInv, Shapes, ItemsFit
  <2>6. /\ IsSequence(history') /\ Len(history') = Len(history) + 1 /\ Len(history) \in Nat
        /\ DOMAIN history' = DOMAIN history \cup {NewId}
        /\ \A id \in DOMAIN history : history'[id] = history[id]
        /\ history'[NewId].kind = "review" /\ history'[NewId].body = review
    <3> HIDE DEF review
    <3>1. Record("review", review) /\ IsSequence(history)
      BY <1>3, <2>5
    <3>2. NewId = Len(history) + 1 /\ Len(history) \in Nat
      BY <3>1 DEF NewId, IsSequence
    <3>3. /\ IsSequence(history') /\ Len(history') = NewId
          /\ DOMAIN history' = DOMAIN history \cup {NewId}
          /\ \A id \in DOMAIN history : history'[id] = history[id]
          /\ history'[NewId] = [kind |-> "review", body |-> review]
      BY <3>1, RecordFacts
    <3> QED
      BY <3>2, <3>3
  <2>7. todo.status = "awaiting_review" /\ action = "accept" => todo.verification \in DOMAIN tiki.reports
    <3>1. NoReport.id = 0
      BY DEF NoReport
    <3>2. action = "accept" => Identified(todo, ResultOf(tiki, result), report)
      BY <2>2 DEF Blocked, Accepting
    <3> QED
      BY <3>1, <3>2 DEF Identified, Lookup
  <2>8. Shapes'
    <3>1. /\ tiki'.handoff = tiki.handoff /\ tiki'.delegations = tiki.delegations
      BY <2>4 DEF Fields
    <3>2. pc' \in Nodes \cup Rests /\ supersteps' \in Nat
      BY <1>3 DEF IInv, Shapes, Rests
    <3> HIDE DEF review, decided
    <3> QED
      BY <1>3, <2>4, <2>6, <3>1, <3>2 DEF IInv, Shapes
  <2>9. /\ decided.review = {review} /\ decided.status \in {"completed", "failed"}
        /\ DOMAIN decided = ItemFields
        /\ \A f \in ItemFields \ {"review", "status"} : decided[f] = todo[f]
    <3> HIDE DEF review
    <3> QED
      BY <2>5 DEF ItemFits, ItemFields
  <2> HIDE DEF review, decided
  <2>10. ItemsFit'
    <3> SUFFICES ASSUME NEW u \in DOMAIN tiki'.board PROVE ItemFits(u, tiki.board[u])'
      BY DEF ItemsFit
    <3>1. u \in DOMAIN tiki.board /\ ItemFits(u, tiki.board[u])
      BY <2>4 DEF IInv, ItemsFit
    <3>2. CASE u = t
      <4>1. tiki'.board[u] = decided /\ todo.status # "pending"
        BY SMTT(40), <2>2, <2>4, <3>2
      <4>2. Contracted(u, tiki.board[u])'
        BY <2>5, <2>6, <2>9, <4>1, <3>2 DEF Contracted, Named, ItemFits, ItemFields
      <4>3. tiki'.reports = tiki.reports
        BY <2>4 DEF Fields
      <4> QED
        BY <2>1, <2>2, <2>5, <2>6, <2>7, <2>9, <4>1, <4>2, <4>3, <3>2
           DEF ItemFits, ItemFields, TodoStatus, Actionable
    <3>3. CASE u # t
      <4>1. tiki'.board[u] = tiki.board[u] /\ tiki'.reports = tiki.reports
        BY <2>4, <3>1, <3>3 DEF Fields
      <4>2. tiki'.board[u].status # "pending" => Contracted(u, tiki.board[u])'
        BY <2>6, <3>1, <4>1 DEF ItemFits, Contracted, Named
      <4> QED
        BY SMTT(40), <2>6, <3>1, <4>1, <4>2 DEF ItemFits
    <3> QED
      BY <3>2, <3>3
  <2>11. Filed'
    BY <2>4, <2>6 DEF IInv, Filed, Named, Fields
  <2>12. ASSUME NEW u \in DOMAIN tiki.board
         PROVE  /\ tiki'.board[u].deps = tiki.board[u].deps
                /\ tiki'.board[u].attempts = tiki.board[u].attempts
                /\ tiki.board[u].status = "completed" => tiki'.board[u].status = "completed"
    BY <2>2, <2>4, <2>9 DEF ItemFields
  <2>13. DependenciesPlanned' /\ StartedAfterDependencies'
    <3>1. DOMAIN tiki'.board = DOMAIN tiki.board
      BY <2>4
    <3> QED
      BY <2>12, <3>1 DEF IInv, DependenciesPlanned, StartedAfterDependencies
  <2>14. UnderWay'
    BY <1>1, <1>3, <2>4 DEF IInv, UnderWay
  <2>15. StepsAreCounted'
    BY <1>1, <1>3, <2>4 DEF IInv, StepsAreCounted, Fields
  <2>16. IndependentIsAssessed'
    <3> SUFFICES ASSUME NEW u \in DOMAIN tiki'.board, tiki'.board[u].level = "independent",
                        \E r \in tiki'.board[u].review : r.action = "accept"
                 PROVE  LET about == Lookup(tiki.reports, tiki'.board[u].verification)
                        IN  /\ about.status = "assessed" /\ about.passed
                            /\ \A c \in tiki'.board[u].criteria \cap Required :
                                 \E i \in DOMAIN about.assessments :
                                   /\ about.assessments[i].criterion = c
                                   /\ about.assessments[i].status = "passed"
                                   /\ \E e \in about.assessments[i].refs : about.evidence[e]
      BY <2>4 DEF IndependentIsAssessed, Fields
    <3>1. CASE u = t
      <4>1. action = "accept" /\ todo.level = "independent" /\ todo.criteria # {}
        BY <2>1, <2>4, <2>5, <2>9, <3>1 DEF ItemFits, ItemFields
      <4>2. report.status \in {"assessed", "checks_only", "not_performed"}
        BY <2>2, <2>7, <4>1 DEF IInv, Filed, Lookup
      <4>3. ~Blocked(todo, t, ResultOf(tiki, result), report) /\ Gaps(todo, report) = {}
        BY <2>2, <4>1 DEF Accepting
      <4>4. tiki'.board[u].verification = todo.verification /\ tiki'.board[u].criteria = todo.criteria
        BY <2>4, <2>9, <3>1 DEF ItemFields
      <4> HIDE DEF todo, report
      <4>5. /\ report.status = "assessed" /\ report.passed
            /\ \A c \in todo.criteria \cap Required :
                 \E i \in DOMAIN report.assessments :
                   /\ report.assessments[i].criterion = c
                   /\ report.assessments[i].status = "passed"
                   /\ \E e \in report.assessments[i].refs : report.evidence[e]
        BY <4>1, <4>2, <4>3, AcceptedIsAssessed
      <4> QED
        BY <4>4, <4>5 DEF report
    <3>2. CASE u # t
      <4>1. u \in DOMAIN tiki.board /\ tiki'.board[u] = tiki.board[u]
        BY <2>4, <3>2
      <4> QED
        BY <4>1 DEF IInv, IndependentIsAssessed
    <3> QED
      BY <3>1, <3>2
  <2> QED
    BY <2>8, <2>10, <2>11, <2>13, <2>14, <2>15, <2>16 DEF IInv
<1> QED
  BY <1>2, <1>3 DEF Review

-----------------------------------------------------------------------------
(* The specialists.                                                        *)

\* What is recorded is found under its place in the history.
LEMMA RecordedHere ==
  ASSUME NEW kind, NEW body, IInv, Record(kind, body)
  PROVE  /\ IsSequence(history') /\ Len(history') = Len(history) + 1 /\ Len(history) \in Nat
         /\ NewId = Len(history) + 1 /\ NewId \notin DOMAIN history
         /\ DOMAIN history' = DOMAIN history \cup {NewId}
         /\ \A id \in DOMAIN history : history'[id] = history[id]
         /\ history'[NewId].kind = kind /\ history'[NewId].body = body
<1>1. IsSequence(history)
  BY DEF IInv, Shapes
<1>2. NewId = Len(history) + 1 /\ Len(history) \in Nat
  BY <1>1 DEF NewId, IsSequence
<1>3. /\ IsSequence(history') /\ Len(history') = NewId /\ NewId \notin DOMAIN history
      /\ DOMAIN history' = DOMAIN history \cup {NewId}
      /\ \A id \in DOMAIN history : history'[id] = history[id]
      /\ history'[NewId] = [kind |-> kind, body |-> body]
  BY <1>1, RecordFacts
<1> QED
  BY <1>2, <1>3

\* The delegated todo goes on, by a step that is neither a decision nor a new start.
Advances(t) ==
  /\ DOMAIN tiki'.board = DOMAIN tiki.board
  /\ \A u \in DOMAIN tiki.board : u # t => tiki'.board[u] = tiki.board[u]
  /\ DOMAIN tiki'.board[t] = ItemFields
  /\ \A f \in ItemFields \ {"status", "result", "verification"} :
       tiki'.board[t][f] = tiki.board[t][f]
  /\ tiki.board[t].status \in {"in_progress", "awaiting_verification"}
  /\ tiki'.board[t].status \in {"awaiting_verification", "awaiting_review"}

\* Such a step disturbs neither the board nor what it rests on.
LEMMA AdvanceKeeps ==
  ASSUME IInv, NEW t \in DOMAIN tiki.board, Advances(t), NEW kind, NEW body, Record(kind, body),
         DOMAIN tiki.reports \subseteq DOMAIN tiki'.reports,
         \A id \in DOMAIN tiki.reports : tiki'.reports[id] = tiki.reports[id]
  PROVE  ItemsFit' /\ DependenciesPlanned' /\ StartedAfterDependencies' /\ IndependentIsAssessed'
<1>1. /\ Len(history') = Len(history) + 1 /\ Len(history) \in Nat
      /\ DOMAIN history \subseteq DOMAIN history'
      /\ \A id \in DOMAIN history : history'[id] = history[id]
  BY RecordedHere
<1>2. ASSUME NEW u \in DOMAIN tiki.board
      PROVE  /\ ItemFits(u, tiki.board[u])
             /\ tiki'.board[u].deps = tiki.board[u].deps
             /\ tiki'.board[u].attempts = tiki.board[u].attempts
             /\ tiki.board[u].status = "completed" => tiki'.board[u].status = "completed"
  BY DEF IInv, ItemsFit, Advances, ItemFields
<1>3. tiki.board[t].review = {} /\ tiki'.board[t].review = {}
  BY <1>2 DEF Advances, ItemFits, ItemFields
<1>4. ItemsFit'
  <2> SUFFICES ASSUME NEW u \in DOMAIN tiki.board PROVE ItemFits(u, tiki.board[u])'
    BY DEF ItemsFit, Advances
  <2>1. CASE u = t
    <3>1. Contracted(u, tiki.board[u])'
      BY <1>1, <1>2, <2>1 DEF Contracted, Named, ItemFits, ItemFields, Advances
    <3> QED
      BY SMTT(40), <1>1, <1>2, <1>3, <2>1, <3>1 DEF ItemFits, ItemFields, Advances, TodoStatus, Actionable
  <2>2. CASE u # t
    <3>1. tiki'.board[u] = tiki.board[u]
      BY <2>2 DEF Advances
    <3>2. tiki'.board[u].status # "pending" => Contracted(u, tiki.board[u])'
      BY <1>1, <1>2, <3>1 DEF ItemFits, Contracted, Named
    <3> QED
      BY SMTT(40), <1>1, <1>2, <3>1, <3>2 DEF ItemFits
  <2> QED
    BY <2>1, <2>2
<1>5. DependenciesPlanned' /\ StartedAfterDependencies'
  BY <1>2 DEF IInv, DependenciesPlanned, StartedAfterDependencies, Advances
<1>6. IndependentIsAssessed'
  <2> SUFFICES ASSUME NEW u \in DOMAIN tiki.board, tiki'.board[u].level = "independent",
                      \E r \in tiki'.board[u].review : r.action = "accept"
               PROVE  LET about == Lookup(tiki'.reports, tiki'.board[u].verification)
                      IN  /\ about.status = "assessed" /\ about.passed
                          /\ \A c \in tiki'.board[u].criteria \cap Required :
                               \E i \in DOMAIN about.assessments :
                                 /\ about.assessments[i].criterion = c
                                 /\ about.assessments[i].status = "passed"
                                 /\ \E e \in about.assessments[i].refs : about.evidence[e]
    BY DEF IndependentIsAssessed, Advances
  <2>1. tiki'.board[u] = tiki.board[u]
    BY <1>3 DEF Advances
  <2>2. tiki.board[u].verification \in DOMAIN tiki.reports
    BY <1>2, <2>1 DEF ItemFits
  <2>3. Lookup(tiki'.reports, tiki'.board[u].verification) =
        Lookup(tiki.reports, tiki.board[u].verification)
    BY <2>1, <2>2 DEF Lookup
  <2> QED
    BY <2>1, <2>3 DEF IInv, IndependentIsAssessed
<1> QED
  BY <1>4, <1>5, <1>6

\* What the gate will look for is what was delivered.
LEMMA DeliverKeeps ==
  ASSUME IInv, NEW outcome, Deliver(outcome), files' \subseteq Paths, UNCHANGED pauses,
         \/ pc = "research_agent" /\ tiki.handoff.to = "research_agent"
         \/ pc \in {"code_agent", "resume_entry"} /\ tiki.handoff.to = "code_agent"
  PROVE  IInv'
<1> DEFINE h == tiki.handoff
           t == h.todo
           result == Merged([id |-> NewId, handoff |-> h.id, sound |-> TRUE],
                            [f \in ResultFields |-> outcome[f]])
<1>1. result.id = NewId
  BY DEF Merged
<1> HIDE DEF result
<1>2. /\ t \in DOMAIN tiki.board /\ tiki.runtime.pending = {<<t, h.id>>}
      /\ tiki.board[t].status = "in_progress" /\ tiki.board[t].handoff = h.id
  BY DEF IInv, UnderWay, CanRecordResult
<1>3. /\ Record("result", result) /\ pc' = "verification_gate" /\ supersteps' = supersteps + 1
      /\ tiki' = [tiki EXCEPT
                    !.handoff.status = "completed", !.handoff.result = NewId,
                    !.board = RecordResult(@, h.todo, NewId),
                    !.results = Added(@, NewId, result), !.latest = Added(@, h.to, result),
                    !.codeCalls = @ + outcome.calls]
  BY DEF Deliver, result
<1>4. /\ Shaped(tiki') /\ tiki'.runtime = tiki.runtime /\ tiki'.reports = tiki.reports
      /\ tiki'.delegations = tiki.delegations
      /\ tiki'.board = RecordResult(tiki.board, t, NewId)
      /\ tiki'.results = Added(tiki.results, NewId, result)
      /\ tiki'.latest = Added(tiki.latest, h.to, result)
      /\ HandoffFields \subseteq DOMAIN tiki'.handoff /\ tiki'.handoff.status = "completed"
      /\ tiki'.handoff.todo = t /\ tiki'.handoff.id = h.id /\ tiki'.handoff.to = h.to
  BY <1>3 DEF IInv, Shapes, Shaped, Fields, HandoffFields
<1>5. ItemFits(t, tiki.board[t])
  BY <1>2 DEF IInv, ItemsFit
<1>6. /\ Advances(t) /\ tiki'.board[t].status = "awaiting_verification"
      /\ tiki'.board[t].result = NewId /\ tiki'.board[t].handoff = h.id
  <2>1. /\ DOMAIN tiki'.board = DOMAIN tiki.board
        /\ tiki'.board[t] = [tiki.board[t] EXCEPT !.status = "awaiting_verification", !.result = NewId]
        /\ \A u \in DOMAIN tiki.board : u # t => tiki'.board[u] = tiki.board[u]
    BY <1>2, <1>4 DEF RecordResult
  <2>2. DOMAIN tiki.board[t] = ItemFields
    BY <1>5 DEF ItemFits
  <2> QED
    BY <1>2, <2>1, <2>2 DEF Advances, ItemFields
<1>7. /\ IsSequence(history') /\ DOMAIN history' = DOMAIN history \cup {NewId}
      /\ \A id \in DOMAIN history : history'[id] = history[id]
      /\ history'[NewId].kind = "result" /\ history'[NewId].body = result
  BY <1>3, RecordedHere
<1>8. ItemsFit' /\ DependenciesPlanned' /\ StartedAfterDependencies' /\ IndependentIsAssessed'
  BY <1>2, <1>3, <1>4, <1>6, AdvanceKeeps
<1>9. Shapes'
  BY <1>3, <1>4, <1>7 DEF IInv, Shapes, Nodes
<1>10. Filed'
  BY SMTT(40), <1>1, <1>4, <1>7 DEF IInv, Filed, Named, Added
<1>11. UnderWay'
  <2>1. h.to \in DOMAIN tiki'.latest /\ tiki'.latest[h.to].id = NewId
    BY <1>1, <1>4 DEF Added
  <2> QED
    BY <1>2, <1>3, <1>4, <1>6, <2>1 DEF UnderWay, CanRecordVerification, Advances
<1>12. StepsAreCounted'
  <2>1. supersteps + 2 <= 3 * tiki.delegations
    BY DEF IInv, StepsAreCounted
  <2> QED
    BY <1>3, <1>4, <2>1 DEF StepsAreCounted, IInv, Shapes
<1> QED
  BY <1>8, <1>9, <1>10, <1>11, <1>12 DEF IInv

LEMMA ResearchKeeps == ASSUME IInv, NEW outcome, Research(outcome) PROVE IInv'
BY DeliverKeeps DEF Research, Enter, IInv, Shapes, UnderWay

LEMMA CodeKeeps ==
  ASSUME IInv, NEW outcome, NEW left \in SUBSET Paths, Code(outcome, left)
  PROVE  IInv'
BY DeliverKeeps DEF Code, Enter, IInv, UnderWay

\* A step of the graph that leaves the task as it is.
LEMMA IdleKeeps ==
  ASSUME IInv, UNCHANGED <<tiki, history>>
  PROVE  ItemsFit' /\ Filed' /\ DependenciesPlanned' /\ StartedAfterDependencies'
         /\ IndependentIsAssessed'
<1>1. SameTask(tiki, tiki')
  BY DEF SameTask, IInv, Shapes, Shaped
<1> QED
  BY <1>1, TaskKept

LEMMA PauseKeeps == IInv /\ Pause => IInv'
<1> SUFFICES ASSUME IInv, Pause PROVE IInv'
  OBVIOUS
<1>1. Shapes'
  BY WorkflowConstants DEF IInv, Shapes, Pause, Rests
<1>2. UnderWay' /\ StepsAreCounted'
  BY DEF IInv, UnderWay, StepsAreCounted, Pause, Enter
<1> QED
  BY <1>1, <1>2, IdleKeeps DEF IInv, Pause

LEMMA ResumeKeeps == IInv /\ Resume => IInv'
<1> SUFFICES ASSUME IInv, Resume PROVE IInv'
  OBVIOUS
<1>1. Shapes'
  BY DEF IInv, Shapes, Resume, Nodes
<1>2. UnderWay'
  BY DEF IInv, UnderWay, Resume
<1>3. StepsAreCounted'
  BY SupervisorBounds DEF IInv, Shapes, StepsAreCounted, Resume
<1> QED
  BY <1>1, <1>2, <1>3, IdleKeeps DEF IInv, Resume

LEMMA FinalizeKeeps == IInv /\ Finalize => IInv'
<1> SUFFICES ASSUME IInv, Finalize PROVE IInv'
  OBVIOUS
<1>1. Shapes'
  BY DEF IInv, Shapes, Finalize, Rest, Rests
<1>2. UnderWay'
  BY DEF IInv, UnderWay, Finalize, Enter, Rest, Unaccepted, ResultOf, Lookup
<1>3. StepsAreCounted'
  BY DEF StepsAreCounted, Finalize, Rest
<1> QED
  BY <1>1, <1>2, <1>3, IdleKeeps DEF IInv, Finalize, Rest

-----------------------------------------------------------------------------
(* The verification gate.                                                  *)

\* What the rules of a review need of a report, whatever it says.
Reported(report) ==
  /\ DOMAIN NoReport \subseteq DOMAIN report
  /\ report.status \in {"assessed", "checks_only", "not_performed"}

LEMMA ReportReported ==
  ASSUME NEW h, NEW result, NEW fields,
         "status" \in DOMAIN fields =>
           fields.status \in {"assessed", "checks_only", "not_performed"}
  PROVE  Reported(Report(h, result, fields))
BY DEF Report, Reported, Merged, NoReport

LEMMA FailureReported ==
  ASSUME NEW h, NEW result, NEW category, NEW allowed
  PROVE  Reported(FailureReport(h, result, category, allowed))
BY ReportReported DEF FailureReport

LEMMA WithBasicReported ==
  ASSUME NEW report, Reported(report), NEW basic
  PROVE  Reported(WithBasic(report, basic))
BY DEF Reported, WithBasic, NoReport

LEMMA ClassifiedReported ==
  ASSUME NEW h, NEW result, NEW report, Reported(report)
  PROVE  Reported(Classified(h, result, report))
BY DEF Reported, Classified, NoReport

\* The gate answers with a report in every case.
LEMMA GateReports ==
  ASSUME NEW h, NEW result, NEW paths, NEW inside, NEW original,
         NEW answer \in Answers(h, result)
  PROVE  Reported(GateVerify(h, result, paths, inside, original, answer))
<1> DEFINE basic == BasicVerify(h, result, paths, inside)
<1>1. Reported(answer.report)
  <2>1. Reported(NoReport)
    BY DEF Reported, NoReport
  <2>2. ASSUME NEW fields, DOMAIN fields = {"result", "passed", "assessments", "evidence"}
        PROVE  Reported(Report(h, result, fields))
    BY <2>2, ReportReported
  <2>3. CASE answer = [kind |-> "raised", category |-> "model_response", report |-> NoReport]
    BY <2>1, <2>3
  <2>4. CASE answer # [kind |-> "raised", category |-> "model_response", report |-> NoReport]
    <3> DEFINE fields(status, usable, about) ==
          [result |-> about, passed |-> status = "passed" /\ usable,
           assessments |-> [i \in 1..Cardinality(h.criteria) |->
              [criterion |-> CHOOSE c \in h.criteria : TRUE, status |-> status, refs |-> {"e"}]],
           evidence |-> [r \in {"e"} |-> usable]]
    <3>1. Answers(h, result) =
            {[kind |-> "raised", category |-> "model_response", report |-> NoReport]} \cup
            {[kind |-> "report", category |-> "none",
              report |-> Report(h, result, fields(status, usable, about))] :
               status \in {"passed", "insufficient_evidence"}, usable \in BOOLEAN,
               about \in {result.id, 0}}
      BY DEF Answers
    <3>2. ASSUME NEW status, NEW usable, NEW about
          PROVE  Reported(Report(h, result, fields(status, usable, about)))
      BY <2>2
    <3> HIDE DEF fields
    <3> QED
      BY <2>4, <3>1, <3>2
  <2> QED
    BY <2>3, <2>4
<1>2. Reported(basic)
  BY ReportReported DEF BasicVerify
<1>3. Reported(IdentityFailure(h, result))
  BY ReportReported DEF IdentityFailure
<1>4. Reported(WithBasic(ExecutionFailure(h, result), basic))
  BY FailureReported, WithBasicReported DEF ExecutionFailure
<1>5. ASSUME NEW category PROVE Reported(Unreviewed(h, result, basic, category))
  BY FailureReported, WithBasicReported DEF Unreviewed
<1>6. Reported(WithBasic(Classified(h, result, answer.report), basic))
  BY <1>1, ClassifiedReported, WithBasicReported
<1> HIDE DEF basic
<1> QED
  BY <1>2, <1>3, <1>4, <1>5, <1>6 DEF GateVerify, basic

\* A report is filed under its own number, on a todo nobody has reviewed.
LEMMA VerifyKeeps == IInv /\ Verify => IInv'
<1> SUFFICES ASSUME IInv, Verify PROVE IInv'
  OBVIOUS
<1> DEFINE h == tiki.handoff
           t == h.todo
           result == tiki.latest[h.to]
<1>1. pc = "verification_gate" /\ pc' = "supervisor" /\ supersteps' = supersteps + 1
      /\ UNCHANGED <<files, pauses>>
  BY SMTT(40) DEF Verify, Enter
<1>2. PICK answer \in Answers(h, result) :
        LET report == [GateVerify(h, result, files, Paths, TRUE, answer) EXCEPT !.id = NewId]
        IN  /\ Record("verification", report)
            /\ tiki' = [tiki EXCEPT
                          !.board = RecordVerification(@, h.todo, NewId),
                          !.reports = Added(@, NewId, report),
                          !.runtime.pending = {}]
  BY DEF Verify
<1> DEFINE report == [GateVerify(h, result, files, Paths, TRUE, answer) EXCEPT !.id = NewId]
<1>3. report.id = NewId /\ report.status \in {"assessed", "checks_only", "not_performed"}
  BY <1>2, GateReports DEF Reported, NoReport
<1> HIDE DEF report
<1>4. /\ Record("verification", report)
      /\ tiki' = [tiki EXCEPT !.board = RecordVerification(@, h.todo, NewId),
                              !.reports = Added(@, NewId, report), !.runtime.pending = {}]
  BY <1>2 DEF report
<1>5. /\ Shaped(tiki') /\ tiki'.runtime.pending = {} /\ tiki'.results = tiki.results
      /\ tiki'.delegations = tiki.delegations /\ tiki'.handoff = tiki.handoff
      /\ tiki'.board = RecordVerification(tiki.board, t, NewId)
      /\ tiki'.reports = Added(tiki.reports, NewId, report)
  BY <1>4 DEF IInv, Shapes, Shaped, Fields, RuntimeFields
<1>6. t \in DOMAIN tiki.board /\ tiki.board[t].status = "awaiting_verification"
  BY <1>1 DEF IInv, UnderWay, CanRecordVerification
<1>7. ItemFits(t, tiki.board[t])
  BY <1>6 DEF IInv, ItemsFit
<1>8. Advances(t)
  <2>1. /\ DOMAIN tiki'.board = DOMAIN tiki.board
        /\ tiki'.board[t] = [tiki.board[t] EXCEPT !.verification = NewId, !.status = "awaiting_review"]
        /\ \A u \in DOMAIN tiki.board : u # t => tiki'.board[u] = tiki.board[u]
    BY <1>5, <1>6 DEF RecordVerification
  <2>2. DOMAIN tiki.board[t] = ItemFields
    BY <1>7 DEF ItemFits
  <2> QED
    BY <1>6, <2>1, <2>2 DEF Advances, ItemFields
<1>9. /\ IsSequence(history') /\ DOMAIN history' = DOMAIN history \cup {NewId}
      /\ NewId \notin DOMAIN history
      /\ \A id \in DOMAIN history : history'[id] = history[id]
      /\ history'[NewId].kind = "verification" /\ history'[NewId].body = report
  BY <1>4, RecordedHere
<1>10. /\ DOMAIN tiki'.reports = DOMAIN tiki.reports \cup {NewId}
       /\ \A id \in DOMAIN tiki.reports : tiki'.reports[id] = tiki.reports[id]
       /\ tiki'.reports[NewId] = report
  BY <1>5, <1>9 DEF Added, IInv, Filed, Named
<1>11. ItemsFit' /\ DependenciesPlanned' /\ StartedAfterDependencies' /\ IndependentIsAssessed'
  BY <1>4, <1>6, <1>8, <1>10, AdvanceKeeps
<1>12. Shapes'
  BY <1>1, <1>5, <1>9 DEF IInv, Shapes, Nodes
<1>13. Filed'
  BY <1>3, <1>5, <1>9, <1>10 DEF IInv, Filed, Named
<1>14. UnderWay'
  BY <1>1, <1>5 DEF UnderWay
<1>15. StepsAreCounted'
  BY <1>1, <1>5 DEF IInv, Shapes, StepsAreCounted
<1> QED
  BY <1>11, <1>12, <1>13, <1>14, <1>15 DEF IInv

-----------------------------------------------------------------------------
(* The invariant, and what follows from it.                                *)

LEMMA InitHolds == Init => IInv
<1> SUFFICES ASSUME Init PROVE IInv
  OBVIOUS
<1>1. Len(<< >>) = 0 /\ DOMAIN << >> = {}
  OBVIOUS
<1>2. Shapes
  BY <1>1, SupervisorBounds, WorkflowConstants
     DEF Init, Shapes, Shaped, Fields, RuntimeFields, HandoffFields, NewRuntime, NoHandoff,
         IsSequence, Nodes
<1>3. ItemsFit /\ DependenciesPlanned /\ StartedAfterDependencies /\ IndependentIsAssessed
  BY <1>1 DEF Init, ItemsFit, DependenciesPlanned, StartedAfterDependencies, IndependentIsAssessed
<1>4. Filed
  BY <1>1 DEF Init, Filed
<1>5. UnderWay /\ StepsAreCounted
  BY DEF Init, UnderWay, StepsAreCounted, NewRuntime
<1> QED
  BY <1>2, <1>3, <1>4, <1>5 DEF IInv

LEMMA StepKeeps == IInv /\ [Next]_vars => IInv'
<1> SUFFICES ASSUME IInv, [Next]_vars PROVE IInv'
  OBVIOUS
<1>1. CASE UNCHANGED vars
  <2>1. UNCHANGED <<pc, tiki, files, history, supersteps, pauses>>
    BY <1>1 DEF vars
  <2>2. Shapes' /\ UnderWay' /\ StepsAreCounted'
    BY <2>1 DEF IInv, Shapes, UnderWay, StepsAreCounted, Unaccepted, ResultOf, Lookup
  <2> QED
    BY <2>1, <2>2, IdleKeeps DEF IInv
<1>2. CASE Resume
  BY <1>2, ResumeKeeps
<1>3. CASE Program
  <2>1. ASSUME NEW plan \in Plans, NEW keepsTask \in BOOLEAN, Plan(plan, keepsTask) PROVE IInv'
    BY <2>1, PlanKeeps
  <2>2. CASE Read
    BY <2>2, ReadKeeps
  <2>3. CASE Mistake
    BY <2>3, MistakeKeeps
  <2>4. CASE Finish
    BY <2>4, FinishKeeps
  <2>5. CASE Stop
    BY <2>5, StopKeeps
  <2>6. CASE Interrupted
    BY <2>6, InterruptedKeeps
  <2>7. CASE Conclude
    BY <2>7, ConcludeKeeps
  <2>8. ASSUME NEW t \in DOMAIN tiki.board, NEW key \in Keys \cup {"blank"},
               NEW changed \in BOOLEAN, NEW inScope \in BOOLEAN, Delegate(t, key, changed, inScope)
        PROVE  IInv'
    BY <2>8, DelegateKeeps
  <2>9. ASSUME NEW t \in DOMAIN tiki.board, NEW result \in DOMAIN tiki.results,
               NEW action \in ReviewAction, NEW said \in {{}, {<<"said">>}},
               Review(t, result, action, said)
        PROVE  IInv'
    BY <2>9, ReviewKeeps
  <2>10. ASSUME NEW outcome \in Outcomes, Research(outcome) PROVE IInv'
    BY <2>10, ResearchKeeps
  <2>11. ASSUME NEW outcome \in Outcomes, NEW left \in SUBSET Paths, Code(outcome, left) PROVE IInv'
    BY <2>11, CodeKeeps
  <2>12. CASE Pause
    BY <2>12, PauseKeeps
  <2>13. CASE Verify
    BY <2>13, VerifyKeeps
  <2>14. CASE Finalize
    BY <2>14, FinalizeKeeps
  <2> QED
    BY <1>3, <2>1, <2>2, <2>3, <2>4, <2>5, <2>6, <2>7, <2>8, <2>9, <2>10, <2>11, <2>12, <2>13,
       <2>14 DEF Program
<1> QED
  BY <1>1, <1>2, <1>3 DEF Next

LEMMA Invariance == Spec => []IInv
BY InitHolds, StepKeeps, PTL DEF Spec

\* The types and bounds of the state, for any plans, outcomes and limits.
THEOREM TypeCorrect == Spec => []TypeOK
<1>1. IInv => TypeOK
  <2> SUFFICES ASSUME IInv PROVE TypeOK
    OBVIOUS
  <2>1. ASSUME NEW t \in DOMAIN tiki.board PROVE Cardinality(tiki.board[t].review) <= 1
    <3>1. \/ tiki.board[t].review = {}
          \/ \E review \in tiki.board[t].review : tiki.board[t].review = {review}
      BY DEF IInv, ItemsFit, ItemFits
    <3>2. Cardinality({}) = 0
      BY FS_EmptySet
    <3>3. ASSUME NEW review PROVE Cardinality({review}) = 1
      BY FS_Singleton
    <3>4. Cardinality(tiki.board[t].review) \in {0, 1}
      BY <3>1, <3>2, <3>3
    <3> QED
      BY <3>4
  <2> QED
    BY <2>1 DEF IInv, Shapes, ItemsFit, ItemFits, TypeOK
<1> QED
  BY <1>1, Invariance, PTL

\* No todo that was ever delegated loses its footing, whatever plans are made after it.
THEOREM WorkStartsOnAcceptedWork == Spec => []StartedAfterDependencies
<1>1. IInv => StartedAfterDependencies
  BY DEF IInv
<1> QED
  BY <1>1, Invariance, PTL

\* An acceptance without reservation of a todo that calls for independent review rests
\* on a verifier's verdict with usable evidence for every required criterion.
THEOREM IndependentReviewIsReal == Spec => []IndependentIsAssessed
<1>1. IInv => IndependentIsAssessed
  BY DEF IInv
<1> QED
  BY <1>1, Invariance, PTL

\* What the guard of FINISH found of a todo is in the history, record by record.
LEMMA AcceptedIsFiled ==
  ASSUME IInv, pc = "completed", NEW t \in DOMAIN tiki.board
  PROVE  LET item == tiki.board[t]
             result == history[item.result].body
             report == history[item.verification].body
         IN  /\ item.status = "completed" /\ Named("result", item.result)
             /\ Named("verification", item.verification)
             /\ result.handoff = item.handoff /\ report.result = item.result /\ ~report.hard
             /\ \E review \in item.review :
                  /\ review.result = item.result /\ review.action \in Accepting
                  /\ report.limits \subseteq review.limitations
                  /\ review.action = "accept" \/ review.limitations # {}
             /\ item.owner = "code_agent" /\ item.mode = "artifact" =>
                  result.files # {} /\ result.files \subseteq files
<1> DEFINE item == tiki.board[t]
           result == ResultOf(tiki, item.result)
           report == Lookup(tiki.reports, item.verification)
<1>1. /\ AcceptedReviewValid(item, t, result, report)
      /\ ~ArtifactMissing(item, result, files)
  BY DEF IInv, UnderWay, Unaccepted
<1>2. PICK review \in item.review :
        /\ review.action \in Accepting /\ review.result = item.result
        /\ ~Blocked(item, t, result, report)
        /\ IF review.action = "accept"
             THEN Gaps(item, report) = {}
             ELSE /\ review.limitations # {}
                  /\ Gaps(item, report) \subseteq review.limitations
  BY <1>1 DEF AcceptedReviewValid
<1>3. ~report.hard /\ Identified(item, result, report)
  BY <1>2 DEF Blocked
<1>4. item.result \in DOMAIN tiki.results /\ item.verification \in DOMAIN tiki.reports
  BY <1>3 DEF Identified, ResultOf, Lookup, NoResult, NoReport
<1>5. /\ Named("result", item.result) /\ history[item.result].body = result
      /\ Named("verification", item.verification) /\ history[item.verification].body = report
  BY <1>4 DEF IInv, Filed, ResultOf, Lookup
<1>6. report.limits \subseteq Gaps(item, report)
  BY DEF Gaps
<1>7. report.limits \subseteq review.limitations /\ (review.action = "accept" \/ review.limitations # {})
  BY <1>2, <1>6
<1>8. item.status = "completed"
  BY <1>1 DEF AcceptedReviewValid
<1>9. result.handoff = item.handoff /\ report.result = item.result
  BY <1>3 DEF Identified
<1>10. item.owner = "code_agent" /\ item.mode = "artifact" =>
         result.files # {} /\ result.files \subseteq files
  BY <1>1 DEF ArtifactMissing
<1> HIDE DEF item, result, report
<1>11. history[item.result].body = result /\ history[item.verification].body = report
  BY SMTT(40), <1>5
<1> QED
  BY <1>2, <1>3, <1>5, <1>7, <1>8, <1>9, <1>10, <1>11 DEF item

\* The task is completed only on deliveries that stand, as the history shows.
THEOREM FinishIsBacked == Spec => []FinishedIsAccepted
<1>1. IInv => FinishedIsAccepted
  <2> SUFFICES ASSUME IInv, pc = "completed" PROVE FinishedIsAccepted
    BY DEF FinishedIsAccepted
  <2>1. DOMAIN tiki.board # {}
    BY DEF IInv, UnderWay
  <2>2. ASSUME NEW t \in DOMAIN tiki.board
        PROVE  /\ ItemFits(t, tiki.board[t]) /\ tiki.board[t].status = "completed"
               /\ Contracted(t, tiki.board[t])
    BY AcceptedIsFiled DEF IInv, ItemsFit, ItemFits
  <2>3. ASSUME NEW t \in DOMAIN tiki.board, NEW review \in tiki.board[t].review
        PROVE  \E i \in DOMAIN history : history[i].kind = "review" /\ history[i].body = review
    BY <2>2 DEF ItemFits
  <2> QED
    BY SMTT(40), <2>1, <2>2, <2>3, AcceptedIsFiled DEF FinishedIsAccepted, Contracted
<1> QED
  BY <1>1, Invariance, PTL

\* Where the limit of LangGraph leaves room for three nodes a delegation and the two
\* that end a task, no node meets a state it raises an exception on.
THEOREM NodesNeverRaise ==
  ASSUME RecursionLimit >= 3 * MaxDelegations + 2
  PROVE  Spec => []NodesFindWhatTheyDemand
<1>1. IInv => NodesFindWhatTheyDemand
  <2> SUFFICES ASSUME IInv, pc \in Nodes PROVE Demands(pc)
    BY DEF NodesFindWhatTheyDemand
  <2>1. supersteps < RecursionLimit
    BY SupervisorBounds, WorkflowConstants DEF IInv, Shapes, StepsAreCounted, Nodes
  <2> QED
    BY <2>1 DEF IInv, UnderWay, Demands, Nodes
<1> QED
  BY <1>1, Invariance, PTL
=============================================================================
