---------------------------- MODULE TerminalProofs ----------------------------
(* The safety properties of TerminalClient hold for any sessions, todos    *)
(* and bounds.  The invariant is CInv of TerminalInvariant; a worker's     *)
(* actions preserve it by way of what each of them posts (Finish, Fail,    *)
(* Goto and Post with events of the worker's session), the main thread's   *)
(* by way of what is left of its mail.                                     *)
EXTENDS TerminalInvariant, SequenceTheorems, TLAPS

-----------------------------------------------------------------------------
(* Sequences of whatever.                                                  *)

LEMMA SequenceIsTyped ==
  ASSUME NEW s, IsSequence(s)
  PROVE  s \in Seq({s[i] : i \in 1..Len(s)}) /\ DOMAIN s = 1..Len(s) /\ Len(s) \in Nat
BY DEF IsSequence

LEMMA TypedIsSequence ==
  ASSUME NEW S, NEW s \in Seq(S)
  PROVE  IsSequence(s)
BY DEF IsSequence

LEMMA ConcatFacts ==
  ASSUME NEW s, NEW t, IsSequence(s), IsSequence(t)
  PROVE  /\ IsSequence(s \o t) /\ Len(s \o t) = Len(s) + Len(t)
         /\ Len(s) \in Nat /\ Len(t) \in Nat
         /\ DOMAIN (s \o t) = 1..(Len(s) + Len(t))
         /\ DOMAIN s = 1..Len(s) /\ DOMAIN t = 1..Len(t)
         /\ \A i \in 1..Len(s) : (s \o t)[i] = s[i]
         /\ \A i \in 1..Len(t) : (s \o t)[Len(s) + i] = t[i]
         /\ \A i \in DOMAIN (s \o t) : i \in DOMAIN s \/ (i - Len(s) \in DOMAIN t /\ i = Len(s) + (i - Len(s)))
<1> DEFINE S == {s[i] : i \in 1..Len(s)} \cup {t[i] : i \in 1..Len(t)}
<1>1. s \in Seq(S) /\ t \in Seq(S)
  BY DEF IsSequence
<1>2. s \o t \in Seq(S)
  BY <1>1
<1>3. IsSequence(s \o t)
  BY <1>2, TypedIsSequence
<1>4. Len(s \o t) = Len(s) + Len(t) /\ DOMAIN (s \o t) = 1..(Len(s) + Len(t))
  BY <1>1, ConcatProperties
<1> HIDE DEF S
<1>5. /\ \A i \in 1..Len(s) : (s \o t)[i] = s[i]
      /\ \A i \in 1..Len(t) : (s \o t)[Len(s) + i] = t[i]
  BY <1>1
<1>6. Len(s) \in Nat /\ Len(t) \in Nat /\ DOMAIN s = 1..Len(s) /\ DOMAIN t = 1..Len(t)
  BY <1>1
<1> QED
  BY <1>3, <1>4, <1>5, <1>6

LEMMA TailFacts ==
  ASSUME NEW s, IsSequence(s), s # << >>
  PROVE  /\ IsSequence(Tail(s)) /\ Len(s) >= 1 /\ Len(s) \in Nat
         /\ DOMAIN s = 1..Len(s) /\ DOMAIN Tail(s) = 1..(Len(s) - 1)
         /\ Head(s) = s[1]
         /\ \A i \in 1..(Len(s) - 1) : Tail(s)[i] = s[i + 1]
<1> DEFINE S == {s[i] : i \in 1..Len(s)}
<1>1. s \in Seq(S)
  BY DEF IsSequence
<1> HIDE DEF S
<1>2. Tail(s) \in Seq(S)
  BY <1>1
<1>3. IsSequence(Tail(s))
  BY <1>2, TypedIsSequence
<1> QED
  BY <1>1, <1>3, HeadTailProperties

LEMMA FrontFacts ==
  ASSUME NEW s, IsSequence(s), s # << >>
  PROVE  /\ IsSequence(SubSeq(s, 1, Len(s) - 1)) /\ Len(s) >= 1 /\ Len(s) \in Nat
         /\ Len(SubSeq(s, 1, Len(s) - 1)) = Len(s) - 1
         /\ DOMAIN s = 1..Len(s) /\ DOMAIN SubSeq(s, 1, Len(s) - 1) = 1..(Len(s) - 1)
         /\ \A i \in 1..(Len(s) - 1) : SubSeq(s, 1, Len(s) - 1)[i] = s[i]
<1> DEFINE S == {s[i] : i \in 1..Len(s)}
<1>1. s \in Seq(S)
  BY DEF IsSequence
<1> HIDE DEF S
<1>2. Len(s) \in Nat /\ Len(s) >= 1 /\ DOMAIN s = 1..Len(s)
  BY <1>1
<1>3. /\ SubSeq(s, 1, Len(s) - 1) \in Seq(S)
      /\ Len(SubSeq(s, 1, Len(s) - 1)) = Len(s) - 1
      /\ \A i \in 1..(Len(s) - 1) : SubSeq(s, 1, Len(s) - 1)[i] = s[i]
  BY <1>1, <1>2
<1>4. IsSequence(SubSeq(s, 1, Len(s) - 1))
  BY <1>3, TypedIsSequence
<1> QED
  BY <1>2, <1>3, <1>4

LEMMA AppendFacts ==
  ASSUME NEW s, NEW e, IsSequence(s)
  PROVE  /\ IsSequence(Append(s, e)) /\ Len(Append(s, e)) = Len(s) + 1 /\ Len(s) \in Nat
         /\ DOMAIN s = 1..Len(s) /\ DOMAIN Append(s, e) = 1..(Len(s) + 1)
         /\ \A i \in 1..Len(s) : Append(s, e)[i] = s[i]
         /\ Append(s, e)[Len(s) + 1] = e
<1> DEFINE S == {s[i] : i \in 1..Len(s)} \cup {e}
<1>1. s \in Seq(S) /\ e \in S
  BY DEF IsSequence
<1> HIDE DEF S
<1>2. Append(s, e) \in Seq(S) /\ Len(Append(s, e)) = Len(s) + 1 /\ Len(s) \in Nat
  BY <1>1
<1>3. IsSequence(Append(s, e))
  BY <1>2, TypedIsSequence
<1>4. /\ DOMAIN s = 1..Len(s) /\ DOMAIN Append(s, e) = 1..(Len(s) + 1)
      /\ \A i \in 1..Len(s) : Append(s, e)[i] = s[i]
      /\ Append(s, e)[Len(s) + 1] = e
  BY <1>1, <1>2
<1> QED
  BY <1>2, <1>3, <1>4

-----------------------------------------------------------------------------
\* What a worker posts before its answer: events of its session.
EventsOf(s, msgs) ==
  /\ IsSequence(msgs)
  /\ \A i \in DOMAIN msgs : msgs[i].type = "event" /\ msgs[i].session = s

LEMMA EventsConcat ==
  ASSUME NEW s, NEW a, NEW b, EventsOf(s, a), EventsOf(s, b)
  PROVE  EventsOf(s, a \o b)
<1>1. IsSequence(a) /\ IsSequence(b)
  BY DEF EventsOf
<1>2. /\ IsSequence(a \o b) /\ DOMAIN a = 1..Len(a) /\ DOMAIN b = 1..Len(b)
      /\ \A i \in 1..Len(a) : (a \o b)[i] = a[i]
      /\ \A i \in 1..Len(b) : (a \o b)[Len(a) + i] = b[i]
      /\ \A i \in DOMAIN (a \o b) :
           i \in DOMAIN a \/ (i - Len(a) \in DOMAIN b /\ i = Len(a) + (i - Len(a)))
  BY <1>1, ConcatFacts
<1>3. ASSUME NEW i \in DOMAIN (a \o b)
      PROVE  (a \o b)[i].type = "event" /\ (a \o b)[i].session = s
  <2>1. CASE i \in DOMAIN a
    BY <1>2, <2>1 DEF EventsOf
  <2>2. CASE i - Len(a) \in DOMAIN b /\ i = Len(a) + (i - Len(a))
    <3>1. (a \o b)[i] = b[i - Len(a)]
      BY <1>2, <2>2
    <3> QED
      BY <3>1, <2>2 DEF EventsOf
  <2> QED
    BY <1>2, <2>1, <2>2
<1> QED
  BY <1>2, <1>3 DEF EventsOf

IsEvent(s, e) == e.type = "event" /\ e.session = s

LEMMA EventsLiteral ==
  ASSUME NEW s
  PROVE  /\ EventsOf(s, << >>)
         /\ \A a : IsEvent(s, a) => EventsOf(s, <<a>>)
         /\ \A a, b : IsEvent(s, a) /\ IsEvent(s, b) => EventsOf(s, <<a, b>>)
         /\ \A a, b, c : IsEvent(s, a) /\ IsEvent(s, b) /\ IsEvent(s, c) =>
              EventsOf(s, <<a, b, c>>)
<1>1. EventsOf(s, << >>)
  <2>1. IsSequence(<< >>) /\ DOMAIN << >> = {}
    BY DEF IsSequence
  <2> QED
    BY <2>1 DEF EventsOf
<1>2. ASSUME NEW a, IsEvent(s, a) PROVE EventsOf(s, <<a>>)
  <2>1. IsSequence(<<a>>) /\ DOMAIN <<a>> = {1} /\ <<a>>[1] = a
    BY DEF IsSequence
  <2> QED
    BY <1>2, <2>1 DEF EventsOf, IsEvent
<1>3. ASSUME NEW a, NEW b, IsEvent(s, a), IsEvent(s, b) PROVE EventsOf(s, <<a, b>>)
  <2>1. IsSequence(<<a, b>>) /\ DOMAIN <<a, b>> = {1, 2} /\ <<a, b>>[1] = a /\ <<a, b>>[2] = b
    BY DEF IsSequence
  <2> QED
    BY <1>3, <2>1 DEF EventsOf, IsEvent
<1>4. ASSUME NEW a, NEW b, NEW c, IsEvent(s, a), IsEvent(s, b), IsEvent(s, c)
      PROVE  EventsOf(s, <<a, b, c>>)
  <2>1. /\ IsSequence(<<a, b, c>>) /\ DOMAIN <<a, b, c>> = {1, 2, 3}
        /\ <<a, b, c>>[1] = a /\ <<a, b, c>>[2] = b /\ <<a, b, c>>[3] = c
    BY DEF IsSequence
  <2> QED
    BY <1>4, <2>1 DEF EventsOf, IsEvent
<1> QED
  BY <1>1, <1>2, <1>3, <1>4

LEMMA EventIsEvent ==
  ASSUME NEW s
  PROVE  /\ \A kind : IsEvent(s, Event(s, kind))
         /\ \A kind, rev, attempt : IsEvent(s, CallEvent(s, kind, rev, attempt))
         /\ \A board : IsEvent(s, BoardEvent(s, board))
         /\ \A t, delivery, outcome : IsEvent(s, VerificationEvent(s, t, delivery, outcome))
         /\ \A t, delivery, action : IsEvent(s, ReviewEvent(s, t, delivery, action))
BY DEF IsEvent, Event, CallEvent, BoardEvent, VerificationEvent, ReviewEvent

\* Where an operation runs, it is the one in flight and nothing has answered it.
LEMMA Working ==
  ASSUME CInv, NEW w \in workers
  PROVE  /\ workers = {w} /\ w.id = op /\ op # 0 /\ DOMAIN w = WorkerFields
         /\ \A i \in DOMAIN mail : mail[i].type \in {"event", "snapshot"}
         /\ w.session \in Sessions /\ Concerns(w.session)
<1>1. workers = {w} /\ w.id = op /\ op # 0 /\ DOMAIN w = WorkerFields
  BY DEF CInv, OneOperation, Shapes
<1>2. \A i \in DOMAIN mail : mail[i].type \in {"event", "snapshot"}
  BY DEF CInv, OneOperation, Shapes, Answers
<1>3. PICK s \in Sessions : Concerns(s)
  BY <1>1 DEF CInv, OneSession
<1>4. w.session = s
  BY <1>3 DEF Concerns
<1> QED
  BY <1>1, <1>2, <1>3, <1>4

\* A worker goes on: it posts events of its session.
LEMMA GoesOn ==
  ASSUME CInv, NEW w \in workers, NEW v, NEW events,
         DOMAIN v = WorkerFields, v.id = w.id, v.session = w.session,
         workers' = (workers \ {w}) \cup {v},
         EventsOf(w.session, events), mail' = mail \o events,
         Records(store'),
         v.pc = "running" => OutcomeStatus(store'[w.session]) \notin Paused,
         WorkerOnly
  PROVE  CInv'
<1>1. /\ workers = {w} /\ w.id = op /\ op # 0 /\ DOMAIN w = WorkerFields
      /\ \A i \in DOMAIN mail : mail[i].type \in {"event", "snapshot"}
      /\ w.session \in Sessions /\ Concerns(w.session)
  BY Working
<1>2. workers' = {v}
  BY <1>1
<1>3. IsSequence(mail) /\ IsSequence(events)
  BY DEF CInv, Shapes, EventsOf
<1>4. /\ IsSequence(mail')
      /\ \A i \in DOMAIN mail' : \/ i \in DOMAIN mail /\ mail'[i] = mail[i]
                                 \/ mail'[i].type = "event" /\ mail'[i].session = w.session
  BY <1>3, ConcatFacts DEF EventsOf
<1>5. UNCHANGED <<scans, view, op, visible, modals, started, elsewhere>>
  BY DEF WorkerOnly
<1>6. Shapes'
  BY <1>1, <1>2, <1>4, <1>5 DEF CInv, Shapes
<1>7. OneOperation'
  BY <1>1, <1>2, <1>4, <1>5 DEF OneOperation, Answers
<1>8. OneSession'
  <2>1. Concerns(w.session)'
    BY <1>1, <1>2, <1>4, <1>5 DEF Concerns
  <2> QED
    BY <2>1, <1>1, <1>5 DEF CInv, OneSession
<1>9. Screens' /\ WhatIsShownIsSent' /\ VerdictCoversBoard'
  BY <1>5 DEF CInv, Screens, WhatIsShownIsSent, VerdictCoversBoard
<1>10. OutcomesAgree'
  BY <1>1, <1>2, <1>4 DEF OutcomesAgree
<1>11. InFlightIsAnswered' /\ DueDecisionIsShown'
  BY <1>1, <1>2, <1>5 DEF InFlightIsAnswered, DueDecisionIsShown
<1> QED
  BY <1>6, <1>7, <1>8, <1>9, <1>10, <1>11 DEF CInv

\* A worker ends: its answer comes behind the last of its events.
LEMMA Ends ==
  ASSUME CInv, NEW w \in workers, NEW events, NEW end,
         workers' = workers \ {w},
         EventsOf(w.session, events), mail' = mail \o (events \o <<end>>),
         end.type \in {"finished", "failed"}, end.id = w.id,
         end.type = "finished" =>
           /\ end.outcome.session = w.session /\ end.seen = elsewhere
           /\ \/ end.outcome.status \in {"chat_completed", "chat_failed"}
              \/ Agrees(end.outcome, store'[w.session]),
         Records(store'),
         WorkerOnly
  PROVE  CInv'
<1>1. /\ workers = {w} /\ w.id = op /\ op # 0 /\ DOMAIN w = WorkerFields
      /\ \A i \in DOMAIN mail : mail[i].type \in {"event", "snapshot"}
      /\ w.session \in Sessions /\ Concerns(w.session)
  BY Working
<1>2. workers' = {}
  BY <1>1
<1>3. IsSequence(mail) /\ IsSequence(events) /\ IsSequence(<<end>>)
  BY DEF CInv, Shapes, EventsOf, IsSequence
<1> DEFINE posted == events \o <<end>>
<1>4. /\ IsSequence(posted) /\ Len(posted) = Len(events) + 1 /\ Len(events) \in Nat
      /\ DOMAIN posted = 1..(Len(events) + 1) /\ DOMAIN events = 1..Len(events)
      /\ \A i \in 1..Len(events) : posted[i] = events[i]
      /\ posted[Len(events) + 1] = end
  <2>1. Len(<<end>>) = 1 /\ <<end>>[1] = end
    OBVIOUS
  <2> QED
    BY <1>3, <2>1, ConcatFacts
<1> DEFINE last == Len(mail) + (Len(events) + 1)
<1>5. /\ IsSequence(mail') /\ DOMAIN mail' = 1..last /\ last \in Nat /\ last >= 1 /\ mail'[last] = end
      /\ \A i \in DOMAIN mail' :
           \/ i \in DOMAIN mail /\ mail'[i] = mail[i]
           \/ mail'[i].type = "event" /\ mail'[i].session = w.session
           \/ i = last
  <2> HIDE DEF posted
  <2>1. mail' = mail \o posted
    BY DEF posted
  <2>2. /\ IsSequence(mail') /\ Len(mail) \in Nat /\ DOMAIN mail' = 1..(Len(mail) + Len(posted))
        /\ \A i \in 1..Len(mail) : mail'[i] = mail[i]
        /\ \A i \in 1..Len(posted) : mail'[Len(mail) + i] = posted[i]
        /\ DOMAIN mail = 1..Len(mail)
    BY <1>3, <1>4, <2>1, ConcatFacts
  <2>3. DOMAIN mail' = 1..last /\ last \in Nat /\ last >= 1 /\ mail'[last] = end
    BY <2>2, <1>4
  <2>4. ASSUME NEW i \in DOMAIN mail'
        PROVE  \/ i \in DOMAIN mail /\ mail'[i] = mail[i]
               \/ mail'[i].type = "event" /\ mail'[i].session = w.session
               \/ i = last
    <3>1. CASE i <= Len(mail)
      BY <3>1, <2>2
    <3>2. CASE i > Len(mail) /\ i # last
      <4>1. i - Len(mail) \in 1..Len(events) /\ Len(mail) + (i - Len(mail)) = i
        <5>1. i \in 1..last /\ Len(mail) \in Nat /\ Len(events) \in Nat
          BY <2>2, <2>3, <1>4
        <5>2. \A m, e \in Nat : \A j \in 1..(m + (e + 1)) :
                j > m /\ j # m + (e + 1) => j - m \in 1..e /\ m + (j - m) = j
          OBVIOUS
        <5> QED
          BY <5>1, <5>2, <3>2
      <4>2. mail'[i] = events[i - Len(mail)]
        BY <4>1, <2>2, <1>4
      <4> QED
        BY <4>1, <4>2, <1>4 DEF EventsOf
    <3> QED
      BY <3>1, <3>2, <2>2
  <2> QED
    BY <2>2, <2>3, <2>4
<1> HIDE DEF last, posted
<1>6. UNCHANGED <<scans, view, op, visible, modals, started, elsewhere>>
  BY DEF WorkerOnly
<1>7. Shapes'
  BY <1>2, <1>5, <1>6 DEF CInv, Shapes
<1>8. OneOperation'
  <2>1. \A i \in DOMAIN mail' : Answers(mail'[i]) => i = last /\ mail'[i] = end
    BY <1>1, <1>5 DEF Answers
  <2>2. \A i, j \in DOMAIN mail' : i = last => ~(j > i)
    BY <1>5
  <2> QED
    <3>1. \A i \in DOMAIN mail' : mail'[i].type = "event" => op' # 0
      BY <1>1, <1>6
    <3>2. ASSUME NEW i \in DOMAIN mail', Answers(mail'[i])
          PROVE  /\ op' # 0 /\ mail'[i].id = op'
                 /\ \A j \in DOMAIN mail' : j > i => mail'[j].type = "snapshot"
      BY <3>2, <2>1, <2>2, <1>1, <1>6
    <3> QED
      BY <3>1, <3>2, <1>2 DEF OneOperation, Answers
<1>9. OneSession'
  <2>1. ASSUME NEW i \in DOMAIN mail'
        PROVE  /\ mail'[i].type = "event" => mail'[i].session = w.session
               /\ mail'[i].type = "finished" => mail'[i].outcome.session = w.session
    <3>1. CASE i \in DOMAIN mail /\ mail'[i] = mail[i]
      BY <3>1, <1>1 DEF Concerns
    <3>2. CASE mail'[i].type = "event" /\ mail'[i].session = w.session
      BY <3>2
    <3>3. CASE mail'[i] = end
      BY <3>3
    <3> QED
      BY <1>5, <3>1, <3>2, <3>3
  <2>2. view.session \in {NoSession, w.session}
    BY <1>1 DEF Concerns
  <2>3. Concerns(w.session)'
    BY <2>1, <2>2, <1>2, <1>6 DEF Concerns
  <2> QED
    BY <2>3, <1>1, <1>6 DEF CInv, OneSession
<1>10. Screens' /\ WhatIsShownIsSent' /\ VerdictCoversBoard'
  BY <1>6 DEF CInv, Screens, WhatIsShownIsSent, VerdictCoversBoard
<1>11. OutcomesAgree'
  <2>1. elsewhere \in Nat
    BY DEF CInv, Shapes
  <2>2. \A i \in DOMAIN mail' : mail'[i].type = "finished" => mail'[i] = end
    BY <1>1, <1>5
  <2>3. end.type = "finished" =>
          /\ end.seen \in Nat /\ end.seen <= elsewhere'
          /\ end.outcome.status \notin {"chat_completed", "chat_failed"} =>
               Agrees(end.outcome, store'[end.outcome.session])
    BY <1>6, <2>1
  <2> QED
    BY <1>2, <2>2, <2>3 DEF OutcomesAgree
<1>12. InFlightIsAnswered' /\ DueDecisionIsShown'
  <2>1. last \in DOMAIN mail' /\ mail'[last].type \in {"finished", "failed"} /\ mail'[last].id = op'
    BY <1>1, <1>5, <1>6
  <2> QED
    BY <1>1, <1>6, <2>1 DEF InFlightIsAnswered, DueDecisionIsShown
<1> QED
  BY <1>7, <1>8, <1>9, <1>10, <1>11, <1>12 DEF CInv

-----------------------------------------------------------------------------
(* The workers.                                                            *)

\* Where Move leaves a session, and the others.
LEMMA Moved ==
  ASSUME CInv, NEW s \in Sessions, NEW file, Move(s, file), DOMAIN file = FileFields
  PROVE  Records(store') /\ store'[s] = file
BY DEF Move, CInv, Shapes, Records

\* An outcome is what the checkpoint says it is, or is about a session with no decision
\* due.
LEMMA AgreesFacts ==
  ASSUME NEW s, NEW file
  PROVE  /\ Agrees(OutcomeOf(s, file), file)
         /\ \A status : Paused \cap {status, OutcomeStatus(file)} = {} =>
              Agrees(Plain(s, status), file)
BY DEF Agrees, OutcomeOf, Plain

\* The two ways a worker ends, as Ends needs them.
LEMMA FailKeeps ==
  ASSUME CInv, NEW w \in workers, NEW events, EventsOf(w.session, events),
         Records(store'), Fail(w, events), WorkerOnly
  PROVE  CInv'
<1> DEFINE end == [type |-> "failed", id |-> w.id]
<1>1. end.type = "failed" /\ end.id = w.id
  OBVIOUS
<1>2. workers' = workers \ {w} /\ mail' = mail \o (events \o <<end>>)
  BY DEF Fail, Post
<1> HIDE DEF end
<1> QED
  BY <1>1, <1>2, Ends

LEMMA FinishKeeps ==
  ASSUME CInv, NEW w \in workers, NEW events, NEW out, EventsOf(w.session, events),
         out.session = w.session,
         out.status \in {"chat_completed", "chat_failed"} \/ Agrees(out, store'[w.session]),
         Records(store'), Finish(w, events, out), WorkerOnly
  PROVE  CInv'
<1> DEFINE end == [type |-> "finished", id |-> w.id, outcome |-> out, seen |-> elsewhere]
<1>1. CASE Fail(w, events)
  BY <1>1, FailKeeps
<1>2. CASE workers' = workers \ {w} /\ Post(events \o <<end>>)
  <2>1. /\ end.type = "finished" /\ end.id = w.id /\ end.seen = elsewhere /\ end.outcome = out
    OBVIOUS
  <2>2. workers' = workers \ {w} /\ mail' = mail \o (events \o <<end>>)
    BY <1>2 DEF Post
  <2> HIDE DEF end
  <2> QED
    BY <2>1, <2>2, Ends
<1> QED
  BY <1>1, <1>2 DEF Finish

LEMMA NewKeeps == ASSUME CInv, NEW w \in workers, BackendNew(w) PROVE CInv'
<1> DEFINE file == [NoFile EXCEPT !.state = "active"]
           out == Plain(w.session, "session_created")
<1>1. Records(store') /\ store'[w.session] = file
  BY Working, Moved DEF BackendNew, NoFile, FileFields
<1>2. EventsOf(w.session, <<Event(w.session, "session_started")>>)
  BY EventsLiteral, EventIsEvent
<1>3. Agrees(out, file) /\ out.session = w.session
  <2>1. Paused \cap {"session_created", OutcomeStatus(file)} = {}
    BY DEF NoFile, OutcomeStatus, Paused
  <2> QED
    BY <2>1, AgreesFacts DEF Plain
<1>4. Finish(w, <<Event(w.session, "session_started")>>, out) /\ WorkerOnly
  BY DEF BackendNew
<1> HIDE DEF file, out
<1> QED
  BY <1>1, <1>2, <1>3, <1>4, FinishKeeps

LEMMA StatusKeeps == ASSUME CInv, NEW w \in workers, BackendStatus(w) PROVE CInv'
<1> DEFINE out == OutcomeOf(w.session, store[w.session])
<1>1. EventsOf(w.session, << >>) /\ Records(store') /\ store' = store /\ WorkerOnly
  BY EventsLiteral DEF BackendStatus, Keep, CInv, Shapes
<1>2. out.session = w.session /\ Agrees(out, store[w.session])
  BY AgreesFacts DEF OutcomeOf
<1>3. Fail(w, << >>) \/ Finish(w, << >>, out)
  BY DEF BackendStatus
<1> HIDE DEF out
<1> QED
  BY <1>1, <1>2, <1>3, FinishKeeps, FailKeeps

LEMMA ChatKeeps == ASSUME CInv, NEW w \in workers, BackendChat(w) PROVE CInv'
<1> DEFINE events == <<Event(w.session, "turn_received"), Event(w.session, "intent_routed"),
                       Event(w.session, "final_chat")>>
<1>1. EventsOf(w.session, events)
  BY EventsLiteral, EventIsEvent
<1>2. Records(store') /\ WorkerOnly
  BY DEF BackendChat, Keep, CInv, Shapes
<1>3. PICK answer \in {"chat_completed", "chat_failed"} : Finish(w, events, Plain(w.session, answer))
  BY DEF BackendChat
<1>4. Plain(w.session, answer).session = w.session /\ Plain(w.session, answer).status = answer
  BY DEF Plain
<1> HIDE DEF events
<1> QED
  BY <1>1, <1>2, <1>3, <1>4, FinishKeeps

\* A worker moves to another place, with the record of its session as it is or as it
\* then is.
LEMMA GotoKeeps ==
  ASSUME CInv, NEW w \in workers, NEW place, NEW events, EventsOf(w.session, events),
         Goto(w, place), mail' = mail \o events, Records(store'),
         place = "running" => OutcomeStatus(store'[w.session]) \notin Paused, WorkerOnly
  PROVE  CInv'
<1> DEFINE v == [w EXCEPT !.pc = place]
<1>1. DOMAIN w = WorkerFields
  BY Working
<1>2. DOMAIN v = WorkerFields /\ v.id = w.id /\ v.session = w.session /\ v.pc = place
  BY <1>1 DEF WorkerFields
<1>3. workers' = (workers \ {w}) \cup {v}
  BY DEF Goto
<1> HIDE DEF v
<1> QED
  BY <1>2, <1>3, GoesOn

LEMMA WorkflowKeeps == ASSUME CInv, NEW w \in workers, BackendWorkflow(w) PROVE CInv'
<1> DEFINE events == <<Event(w.session, "turn_received"), Event(w.session, "workflow_started")>>
<1>1. EventsOf(w.session, events) /\ EventsOf(w.session, << >>)
  BY EventsLiteral, EventIsEvent
<1>2. WorkerOnly /\ w.session \in Sessions /\ Records(store)
  BY Working DEF BackendWorkflow, CInv, Shapes
<1>3. CASE Bound(w.session)
  BY <1>1, <1>2, <1>3, FailKeeps DEF BackendWorkflow
<1>4. CASE ~Bound(w.session)
  <2>1. /\ Goto(w, "running") /\ store' = [store EXCEPT ![w.session].board = NoBoard]
        /\ mail' = mail \o events
    BY <1>4 DEF BackendWorkflow, Post
  <2>2. store'[w.session].state = store[w.session].state /\ Records(store')
    BY <1>2, <2>1 DEF Records, FileFields
  <2>3. OutcomeStatus(store'[w.session]) \notin Paused
    BY <1>4, <2>2 DEF Bound, CallStates, OutcomeStatus, Paused
  <2> HIDE DEF events
  <2> QED
    BY <1>1, <1>2, <2>1, <2>2, <2>3, GotoKeeps
<1> QED
  BY <1>3, <1>4

\* What the resumed graph tells first, and what comes of an answer it refuses.
LEMMA ResumedEvents ==
  ASSUME NEW w
  PROVE  EventsOf(w.session, Resumed(w))
BY EventsLiteral, EventIsEvent DEF Resumed

LEMMA RefuseKeeps ==
  ASSUME CInv, NEW w \in workers, NEW known, Refuse(w, known), WorkerOnly
  PROVE  CInv'
<1>1. /\ EventsOf(w.session, << >>)
      /\ EventsOf(w.session, <<Event(w.session, "workflow_resumed"), Event(w.session, "workflow_failed")>>)
  BY EventsLiteral, EventIsEvent
<1>2. Records(store')
  BY DEF Refuse, Keep, CInv, Shapes
<1> QED
  BY <1>1, <1>2, FailKeeps DEF Refuse

LEMMA ResumeKeeps == ASSUME CInv, NEW w \in workers, BackendResume(w) PROVE CInv'
<1> DEFINE file == store[w.session]
           known == Bound(w.session) /\ file.asked /\ file.attempt = w.attempt
           going == known /\ file.rev = w.rev /\ file.state = "awaiting_approval"
           begun == IF w.yes THEN <<Event(w.session, "tool_execution_started")>> ELSE << >>
           decided == <<Event(w.session, "approval_decided")>>
           events == Resumed(w) \o decided \o begun
           place == IF w.yes THEN "handler" ELSE "running"
           state == IF w.yes THEN "executing" ELSE "settled"
           file2 == [file EXCEPT !.rev = @ + 1, !.state = state]
<1>1. WorkerOnly /\ w.session \in Sessions /\ DOMAIN file = FileFields
  BY Working DEF BackendResume, CInv, Shapes, Records
<1>2. CASE ~going
  BY <1>1, <1>2, RefuseKeeps DEF BackendResume
<1>3. CASE going
  <2>1. Move(w.session, file2) /\ Goto(w, place) /\ mail' = mail \o events
    BY <1>3 DEF BackendResume, Post
  <2>2. EventsOf(w.session, events)
    BY ResumedEvents, EventsLiteral, EventIsEvent, EventsConcat
  <2>3. DOMAIN file2 = FileFields /\ file2.state = state
    BY <1>1 DEF FileFields
  <2>4. place = "running" => OutcomeStatus(file2) \notin Paused
    BY <2>3 DEF OutcomeStatus, Paused
  <2> HIDE DEF events, place, file2
  <2>5. Records(store') /\ store'[w.session] = file2
    BY <1>1, <2>1, <2>3, Moved
  <2> QED
    BY <1>1, <2>1, <2>2, <2>4, <2>5, GotoKeeps
<1> QED
  BY <1>2, <1>3

LEMMA ReconcileKeeps == ASSUME CInv, NEW w \in workers, BackendReconcile(w) PROVE CInv'
<1> DEFINE file == store[w.session]
           known == Bound(w.session) /\ file.attempt = w.attempt
           going == known /\ file.rev = w.rev /\ file.state = "awaiting_reconcile"
           events == Resumed(w) \o <<Event(w.session, "reconciliation_completed")>>
           file2 == [file EXCEPT !.state = "settled", !.rev = @ + 1]
<1>1. WorkerOnly /\ w.session \in Sessions /\ DOMAIN file = FileFields
  BY Working DEF BackendReconcile, CInv, Shapes, Records
<1>2. CASE ~going
  BY <1>1, <1>2, RefuseKeeps DEF BackendReconcile
<1>3. CASE going
  <2>1. Move(w.session, file2) /\ Goto(w, "running") /\ mail' = mail \o events
    BY <1>3 DEF BackendReconcile, Post
  <2>2. EventsOf(w.session, events)
    BY ResumedEvents, EventsLiteral, EventIsEvent, EventsConcat
  <2>3. DOMAIN file2 = FileFields /\ OutcomeStatus(file2) \notin Paused
    BY <1>1 DEF FileFields, OutcomeStatus, Paused
  <2> HIDE DEF events, file2
  <2>4. Records(store') /\ store'[w.session] = file2
    BY <1>1, <2>1, <2>3, Moved
  <2> QED
    BY <1>1, <2>1, <2>2, <2>3, <2>4, GotoKeeps
<1> QED
  BY <1>2, <1>3

LEMMA RecoverKeeps == ASSUME CInv, NEW w \in workers, BackendRecover(w) PROVE CInv'
<1> DEFINE file == store[w.session]
           known == Bound(w.session) /\ file.attempt = w.attempt
           going == known /\ file.rev = w.rev /\ file.state \in {"executing", "recovery_required"}
           found == Resumed(w) \o (IF file.state = "executing"
                              THEN <<CallEvent(w.session, "recovery_required", file.rev + 1,
                                               file.attempt)>> ELSE <<>>)
           noted == [file EXCEPT !.rev = @ + (IF file.state = "executing" THEN 2 ELSE 1)]
           again == [noted EXCEPT !.attempt = @ + 1, !.rev = @ + 1]
           executed == [noted EXCEPT !.state = "awaiting_reconcile"]
           asking == [again EXCEPT !.state = "awaiting_approval", !.asked = TRUE]
           retried == [again EXCEPT !.state = "executing", !.asked = FALSE]
           askEvent == <<CallEvent(w.session, "approval_required", asking.rev, asking.attempt)>>
           startEvent == <<Event(w.session, "tool_execution_started")>>
<1>1. WorkerOnly /\ w.session \in Sessions /\ DOMAIN file = FileFields
  BY Working DEF BackendRecover, CInv, Shapes, Records
<1>2. /\ DOMAIN executed = FileFields /\ DOMAIN asking = FileFields /\ DOMAIN retried = FileFields
  BY <1>1
<1>3. /\ EventsOf(w.session, found) /\ EventsOf(w.session, found \o askEvent)
      /\ EventsOf(w.session, found \o startEvent)
  BY ResumedEvents, EventsLiteral, EventIsEvent, EventsConcat
<1>4. CASE ~going
  BY <1>1, <1>4, RefuseKeeps DEF BackendRecover
<1>5. CASE going
  <2>1. \/ /\ Move(w.session, executed)
           /\ Finish(w, found, OutcomeOf(w.session, executed))
        \/ /\ Move(w.session, asking)
           /\ Finish(w, found \o askEvent, OutcomeOf(w.session, asking))
        \/ /\ Move(w.session, retried) /\ Goto(w, "handler")
           /\ mail' = mail \o (found \o startEvent)
    BY <1>5 DEF BackendRecover, Post
  <2> HIDE DEF found, executed, asking, retried, askEvent, startEvent
  <2>2. \A f : /\ OutcomeOf(w.session, f).session = w.session
               /\ Agrees(OutcomeOf(w.session, f), f)
    BY AgreesFacts DEF OutcomeOf
  <2>3. CASE Move(w.session, executed) /\ Finish(w, found, OutcomeOf(w.session, executed))
    BY <1>1, <1>2, <1>3, <2>2, <2>3, Moved, FinishKeeps
  <2>4. CASE /\ Move(w.session, asking)
             /\ Finish(w, found \o askEvent, OutcomeOf(w.session, asking))
    BY <1>1, <1>2, <1>3, <2>2, <2>4, Moved, FinishKeeps
  <2>5. CASE /\ Move(w.session, retried) /\ Goto(w, "handler")
             /\ mail' = mail \o (found \o startEvent)
    BY <1>1, <1>2, <1>3, <2>5, Moved, GotoKeeps
  <2> QED
    BY SMTT(40), <2>1, <2>3, <2>4, <2>5
<1> QED
  BY <1>4, <1>5

\* A running worker reports on its board.
LEMMA NoteKeeps ==
  ASSUME CInv, NEW w, Running(w), NEW board, NEW events, EventsOf(w.session, events),
         Note(w, board, events)
  PROVE  CInv'
<1>1. /\ w \in workers /\ w.pc = "running" /\ workers = {w} /\ w.session \in Sessions
      /\ DOMAIN w = WorkerFields
  BY Working DEF Running
<1>2. /\ store' = [store EXCEPT ![w.session].board = board] /\ mail' = mail \o events
      /\ workers' = workers /\ WorkerOnly
  BY DEF Note, Post
<1>3. Records(store') /\ store'[w.session].state = store[w.session].state
  BY <1>1, <1>2 DEF CInv, Shapes, Records, FileFields
<1>4. OutcomeStatus(store'[w.session]) \notin Paused
  BY <1>1, <1>3 DEF CInv, OutcomesAgree, OutcomeStatus
<1>5. workers' = (workers \ {w}) \cup {w}
  BY <1>1, <1>2
<1> QED
  BY <1>1, <1>2, <1>3, <1>4, <1>5, GoesOn

LEMMA DeliversKeeps == ASSUME CInv, NEW w, NEW t, RunDelivers(w, t) PROVE CInv'
<1> DEFINE next == store[w.session].board[t].delivery + 1
           board == SetBoard(w, t, [state |-> "checked", delivery |-> next, of |-> 0])
           events == <<BoardEvent(w.session, board),
                       VerificationEvent(w.session, t, next, "checked")>>
<1>1. Running(w) /\ Note(w, board, events)
  BY DEF RunDelivers, Continues
<1>2. EventsOf(w.session, events)
  BY EventsLiteral, EventIsEvent
<1> HIDE DEF board, events
<1> QED
  BY <1>1, <1>2, NoteKeeps

LEMMA ReviewsKeeps == ASSUME CInv, NEW w, NEW t, NEW action, RunReviews(w, t, action) PROVE CInv'
<1> DEFINE item == store[w.session].board[t]
           board == SetBoard(w, t, [item EXCEPT !.state = action, !.of = item.delivery])
           events == <<ReviewEvent(w.session, t, item.delivery, action),
                       BoardEvent(w.session, board)>>
<1>1. Running(w) /\ Note(w, board, events)
  BY DEF RunReviews, Continues
<1>2. EventsOf(w.session, events)
  BY EventsLiteral, EventIsEvent
<1> HIDE DEF board, events
<1> QED
  BY <1>1, <1>2, NoteKeeps

LEMMA AsksKeeps == ASSUME CInv, NEW w, RunAsks(w) PROVE CInv'
<1> DEFINE file == store[w.session]
           file2 == [file EXCEPT !.state = "awaiting_approval", !.rev = 1, !.attempt = @ + 1,
                                 !.asked = TRUE]
           events == <<CallEvent(w.session, "approval_required", 1, file2.attempt)>>
<1>1. w \in workers /\ w.session \in Sessions /\ WorkerOnly
  BY Working DEF RunAsks, Continues, Running
<1>2. DOMAIN file2 = FileFields
  BY <1>1 DEF CInv, Shapes, Records
<1>3. EventsOf(w.session, events)
  BY EventsLiteral, EventIsEvent
<1>4. Move(w.session, file2) /\ Finish(w, events, OutcomeOf(w.session, file2))
  BY DEF RunAsks
<1> HIDE DEF file2, events
<1>5. /\ OutcomeOf(w.session, file2).session = w.session
      /\ Agrees(OutcomeOf(w.session, file2), file2)
  BY AgreesFacts DEF OutcomeOf
<1> QED
  BY <1>1, <1>2, <1>3, <1>4, <1>5, Moved, FinishKeeps

LEMMA ReleasedFacts ==
  ASSUME NEW file
  PROVE  DOMAIN Released(file) = FileFields /\ Released(file).state = "active"
BY DEF Released, NoFile, FileFields

LEMMA EndsKeeps == ASSUME CInv, NEW w, RunEnds(w) PROVE CInv'
<1> DEFINE file2 == Released(store[w.session])
           complete == <<Event(w.session, "workflow_completed"), Event(w.session, "final_completed")>>
           incomplete == <<Event(w.session, "final_failed")>>
<1>1. w \in workers /\ w.session \in Sessions /\ WorkerOnly /\ Move(w.session, file2)
  BY Working DEF RunEnds, Running
<1>2. DOMAIN file2 = FileFields /\ file2.state = "active"
  BY ReleasedFacts
<1>3. EventsOf(w.session, complete) /\ EventsOf(w.session, incomplete)
  BY EventsLiteral, EventIsEvent
<1>4. \/ Finish(w, complete, Plain(w.session, "workflow_completed"))
      \/ Finish(w, incomplete, Plain(w.session, "workflow_failed"))
  BY DEF RunEnds
<1> HIDE DEF file2, complete, incomplete
<1>5. /\ \A status : Plain(w.session, status).session = w.session
      /\ Agrees(Plain(w.session, "workflow_completed"), file2)
      /\ Agrees(Plain(w.session, "workflow_failed"), file2)
  <2>1. OutcomeStatus(file2) = "active"
    BY <1>2 DEF OutcomeStatus
  <2>2. /\ Paused \cap {"workflow_completed", OutcomeStatus(file2)} = {}
        /\ Paused \cap {"workflow_failed", OutcomeStatus(file2)} = {}
    BY <2>1 DEF Paused
  <2> QED
    BY <2>2, AgreesFacts DEF Plain
<1>6. Records(store') /\ store'[w.session] = file2
  BY <1>1, <1>2, Moved
<1>7. CASE Finish(w, complete, Plain(w.session, "workflow_completed"))
  BY <1>1, <1>3, <1>5, <1>6, <1>7, FinishKeeps
<1>8. CASE Finish(w, incomplete, Plain(w.session, "workflow_failed"))
  BY <1>1, <1>3, <1>5, <1>6, <1>8, FinishKeeps
<1> QED
  BY <1>4, <1>7, <1>8

LEMMA HandlerEndsKeeps == ASSUME CInv, NEW w, HandlerEnds(w) PROVE CInv'
<1> DEFINE file2 == [store[w.session] EXCEPT !.state = "settled", !.rev = @ + 1]
<1>1. w \in workers /\ w.session \in Sessions /\ WorkerOnly /\ Move(w.session, file2)
      /\ Goto(w, "running")
  BY Working DEF HandlerEnds
<1>2. DOMAIN file2 = FileFields /\ OutcomeStatus(file2) \notin Paused
  BY <1>1 DEF CInv, Shapes, Records, FileFields, OutcomeStatus, Paused
<1>3. EventsOf(w.session, << >>)
  BY EventsLiteral
<1>4. mail' = mail \o << >>
  BY SequenceIsTyped, ConcatEmptySeq DEF HandlerEnds, CInv, Shapes
<1> HIDE DEF file2
<1>5. Records(store') /\ store'[w.session] = file2
  BY <1>1, <1>2, Moved
<1> QED
  BY <1>1, <1>2, <1>3, <1>4, <1>5, GotoKeeps

LEMMA BreaksKeeps == ASSUME CInv, NEW w, RunBreaks(w) PROVE CInv'
<1> DEFINE failed == <<Event(w.session, "workflow_failed")>>
           answered == <<Event(w.session, "workflow_failed"), Event(w.session, "final_failed")>>
<1>1. /\ w \in workers /\ w.session \in Sessions /\ WorkerOnly
      /\ \/ store' = store
         \/ store' = [store EXCEPT ![w.session] = Released(store[w.session])]
  BY Working DEF RunBreaks
<1>2. EventsOf(w.session, failed) /\ EventsOf(w.session, answered)
  BY EventsLiteral, EventIsEvent
<1>3. \/ w.pc = "running" /\ Finish(w, answered, Plain(w.session, "workflow_failed"))
      \/ Fail(w, failed)
  BY DEF RunBreaks
<1> HIDE DEF failed, answered
<1>6. Records(store')
  BY <1>1, ReleasedFacts DEF CInv, Shapes, Records
<1>4. CASE w.pc = "running" /\ Finish(w, answered, Plain(w.session, "workflow_failed"))
  <2>1. OutcomeStatus(store[w.session]) \notin Paused
    BY <1>1, <1>4 DEF CInv, OutcomesAgree
  <2>2. OutcomeStatus(store'[w.session]) \notin Paused
    <3>1. OutcomeStatus(Released(store[w.session])) = "active"
      BY ReleasedFacts DEF OutcomeStatus
    <3>2. store'[w.session] \in {store[w.session], Released(store[w.session])}
      BY <1>1 DEF CInv, Shapes, Records
    <3> QED
      BY <2>1, <3>1, <3>2 DEF Paused
  <2>3. Paused \cap {"workflow_failed", OutcomeStatus(store'[w.session])} = {}
    BY <2>2 DEF Paused
  <2>4. /\ Plain(w.session, "workflow_failed").session = w.session
        /\ Agrees(Plain(w.session, "workflow_failed"), store'[w.session])
    BY <2>3, AgreesFacts DEF Plain
  <2> QED
    BY <1>1, <1>2, <1>4, <1>6, <2>4, FinishKeeps
<1>5. CASE Fail(w, failed)
  BY <1>1, <1>2, <1>5, <1>6, FailKeeps
<1> QED
  BY <1>3, <1>4, <1>5

LEMMA BackendKeeps == CInv /\ Backend => CInv'
<1> SUFFICES ASSUME CInv, NEW w \in workers,
                    \/ BackendNew(w) \/ BackendStatus(w) \/ BackendChat(w) \/ BackendWorkflow(w)
                    \/ BackendResume(w) \/ BackendRecover(w) \/ BackendReconcile(w)
                    \/ \E t \in Todos : \/ RunDelivers(w, t)
                                        \/ \E action \in Actions : RunReviews(w, t, action)
                    \/ RunAsks(w) \/ RunEnds(w) \/ HandlerEnds(w) \/ RunBreaks(w)
             PROVE  CInv'
  BY DEF Backend
<1> QED
  BY NewKeeps, StatusKeeps, ChatKeeps, WorkflowKeeps, ResumeKeeps, RecoverKeeps, ReconcileKeeps,
     DeliversKeeps, ReviewsKeeps, AsksKeeps, EndsKeeps, HandlerEndsKeeps, BreaksKeeps

-----------------------------------------------------------------------------
(* Scans, and the other clients.                                           *)

LEMMA ScanKeeps == ASSUME CInv, NEW s, ScanWorkspace(s) PROVE CInv'
<1> DEFINE note == [type |-> "snapshot", session |-> s]
<1>1. /\ mail' = mail \o <<note>>
      /\ UNCHANGED <<store, workers, view, op, visible, modals, told, started, elsewhere>>
  BY DEF ScanWorkspace, Post
<1>2. /\ IsSequence(mail) /\ IsSequence(<<note>>) /\ DOMAIN <<note>> = {1} /\ <<note>>[1] = note
      /\ Len(<<note>>) = 1
  BY DEF CInv, Shapes, IsSequence
<1>3. note.type = "snapshot"
  OBVIOUS
<1> HIDE DEF note
<1>4. /\ IsSequence(mail') /\ DOMAIN mail = 1..Len(mail) /\ Len(mail) \in Nat
      /\ DOMAIN mail' = 1..(Len(mail) + 1) /\ mail'[Len(mail) + 1] = note
      /\ \A i \in DOMAIN mail : mail'[i] = mail[i]
  BY <1>1, <1>2, ConcatFacts
<1>5. \A i \in DOMAIN mail' :
        \/ i \in DOMAIN mail /\ mail'[i] = mail[i]
        \/ mail'[i].type = "snapshot"
  BY <1>3, <1>4
<1>6. Shapes'
  BY <1>1, <1>4, <1>5 DEF CInv, Shapes, Records
<1>7. OneOperation'
  BY <1>1, <1>5 DEF CInv, OneOperation, Answers
<1>8. OneSession'
  <2>1. ASSUME NEW r, Concerns(r) PROVE Concerns(r)'
    BY <1>1, <1>5, <2>1 DEF Concerns
  <2> QED
    BY <1>1, <2>1 DEF CInv, OneSession
<1>9. Screens' /\ WhatIsShownIsSent' /\ VerdictCoversBoard' /\ DueDecisionIsShown'
  BY <1>1 DEF CInv, Screens, WhatIsShownIsSent, VerdictCoversBoard, DueDecisionIsShown
<1>10. OutcomesAgree'
  BY <1>1, <1>5 DEF CInv, OutcomesAgree
<1>11. InFlightIsAnswered'
  BY <1>1, <1>4 DEF CInv, InFlightIsAnswered
<1> QED
  BY <1>6, <1>7, <1>8, <1>9, <1>10, <1>11 DEF CInv

LEMMA ElsewhereKeeps == ASSUME CInv, NEW s \in Sessions, Elsewhere(s) PROVE CInv'
<1>1. /\ UNCHANGED <<workers, mail, view, op, visible, modals, started>>
      /\ elsewhere' = elsewhere + 1 /\ \A w \in workers : w.session # s
  BY DEF Elsewhere
<1>2. Records(store') /\ told' = FALSE /\ \A r \in Sessions : r # s => store'[r] = store[r]
  <2>1. DOMAIN store = Sessions /\ \A r \in Sessions : DOMAIN store[r] = FileFields
    BY DEF CInv, Shapes, Records
  <2>2. PICK file : Move(s, file) /\ DOMAIN file = FileFields
    <3> DEFINE file == store[s]
               taken == [file EXCEPT !.state = "executing", !.rev = @ + 1]
               asking == [file EXCEPT !.state = "awaiting_approval", !.rev = 1,
                                      !.attempt = @ + 1, !.asked = TRUE]
    <3>1. Move(s, taken) \/ Move(s, Released(file)) \/ Move(s, asking)
      BY DEF Elsewhere
    <3>2. DOMAIN taken = FileFields /\ DOMAIN asking = FileFields
      BY <2>1
    <3> HIDE DEF taken, asking, file
    <3> QED
      BY <3>1, <3>2, ReleasedFacts
  <2> QED
    BY <2>1, <2>2 DEF Move, Records
<1>3. elsewhere \in Nat
  BY DEF CInv, Shapes
<1>4. Shapes'
  BY <1>1, <1>2, <1>3 DEF CInv, Shapes
<1>5. OneOperation' /\ InFlightIsAnswered'
  BY <1>1 DEF CInv, OneOperation, Answers, InFlightIsAnswered
<1>6. OneSession' /\ Screens' /\ WhatIsShownIsSent' /\ VerdictCoversBoard'
  BY <1>1 DEF CInv, OneSession, Concerns, Screens, WhatIsShownIsSent, VerdictCoversBoard
<1>7. OutcomesAgree'
  <2>1. \A w \in workers : w.session \in Sessions
    BY Working
  <2>2. \A n \in Nat : n <= elsewhere => n # elsewhere + 1 /\ n <= elsewhere + 1
    BY <1>3
  <2> QED
    BY <1>1, <1>2, <2>1, <2>2 DEF CInv, OutcomesAgree
<1>8. DueDecisionIsShown'
  BY <1>2 DEF DueDecisionIsShown
<1> QED
  BY <1>4, <1>5, <1>6, <1>7, <1>8 DEF CInv

-----------------------------------------------------------------------------
(* The operator.                                                           *)

\* Nothing is in flight: what is in the mail are snapshots.
LEMMA AtRest ==
  ASSUME CInv, op = 0
  PROVE  workers = {} /\ \A i \in DOMAIN mail : mail[i].type = "snapshot"
BY DEF CInv, OneOperation, Shapes, Answers

\* What is under the screen that is left.
LEMMA Left ==
  ASSUME CInv, modals # << >>
  PROVE  /\ IsSequence(Dismissed) /\ DOMAIN Dismissed \subseteq DOMAIN modals
         /\ \A i \in DOMAIN Dismissed : Dismissed[i] = modals[i] /\ modals[i].screen = "quit"
BY FrontFacts DEF Dismissed, CInv, Shapes, Screens

\* A step of the screens alone.
LEMMA ScreensMove ==
  ASSUME CInv, UNCHANGED <<store, workers, mail, view, op, visible, told, started, elsewhere>>,
         IsSequence(modals'), Screens', WhatIsShownIsSent'
  PROVE  CInv'
<1>1. Shapes' /\ OneOperation'
  BY DEF CInv, Shapes, OneOperation, Answers, Records
<1>2. OneSession' /\ OutcomesAgree'
  BY DEF CInv, OneSession, Concerns, OutcomesAgree
<1>3. InFlightIsAnswered' /\ VerdictCoversBoard' /\ DueDecisionIsShown'
  BY DEF CInv, InFlightIsAnswered, VerdictCoversBoard, DueDecisionIsShown
<1> QED
  BY <1>1, <1>2, <1>3 DEF CInv

LEMMA LaterKeeps == CInv /\ Later => CInv'
<1> SUFFICES ASSUME CInv, Later PROVE CInv'
  OBVIOUS
<1>1. /\ modals # << >> /\ modals' = Dismissed
      /\ UNCHANGED <<store, workers, mail, view, op, visible, told, started, elsewhere>>
  BY DEF Later, Untouched
<1>2. IsSequence(modals') /\ Screens' /\ WhatIsShownIsSent'
  BY <1>1, Left DEF CInv, Screens, WhatIsShownIsSent
<1> QED
  BY <1>1, <1>2, ScreensMove

\* A screen on top of the main one.
LEMMA OpenKeeps ==
  ASSUME CInv, modals = << >>,
         UNCHANGED <<store, workers, mail, view, op, visible, told, started, elsewhere>>,
         NEW screen, modals' = Append(modals, screen),
         screen.screen # "quit" => op = 0,
         screen.screen = "approval" => screen.prompt = visible
  PROVE  CInv'
<1>1. modals' = <<screen>> /\ IsSequence(<<screen>>) /\ DOMAIN <<screen>> = {1}
      /\ <<screen>>[1] = screen /\ Len(<<screen>>) = 1
  BY DEF IsSequence
<1>2. Screens' /\ WhatIsShownIsSent'
  BY <1>1 DEF Screens, WhatIsShownIsSent
<1> QED
  BY <1>1, <1>2, ScreensMove

LEMMA ShowKeeps == CInv /\ (ShowApproval \/ ShowRecovery) => CInv'
<1> SUFFICES ASSUME CInv, ShowApproval \/ ShowRecovery PROVE CInv'
  OBVIOUS
<1>1. CASE ShowApproval
  <2> DEFINE screen == [screen |-> "approval", prompt |-> visible]
  <2>1. /\ modals = << >> /\ op = 0 /\ modals' = Append(modals, screen)
        /\ UNCHANGED <<store, workers, mail, view, op, visible, told, started, elsewhere>>
    BY <1>1 DEF ShowApproval, Untouched, Push, Top, Screen
  <2>2. screen.screen = "approval" /\ screen.prompt = visible
    OBVIOUS
  <2> HIDE DEF screen
  <2> QED
    BY <2>1, <2>2, OpenKeeps
<1>2. CASE ShowRecovery
  <2> DEFINE screen == [screen |-> "recovery", prompt |-> NoPrompt]
  <2>1. /\ modals = << >> /\ op = 0 /\ modals' = Append(modals, screen)
        /\ UNCHANGED <<store, workers, mail, view, op, visible, told, started, elsewhere>>
    BY <1>2 DEF ShowRecovery, Untouched
  <2>2. screen.screen = "recovery"
    OBVIOUS
  <2> HIDE DEF screen
  <2> QED
    BY <2>1, <2>2, OpenKeeps
<1> QED
  BY <1>1, <1>2

LEMMA QuitKeeps == CInv /\ (Quit \/ QuitConfirmed \/ RefreshWorkspace) => CInv'
<1> SUFFICES ASSUME CInv, Quit \/ QuitConfirmed \/ RefreshWorkspace PROVE CInv'
  OBVIOUS
<1>1. UNCHANGED <<store, workers, mail, view, op, visible, told, started, elsewhere>>
  BY DEF Quit, QuitConfirmed, RefreshWorkspace
<1>2. CASE UNCHANGED modals
  <2>1. IsSequence(modals') /\ Screens' /\ WhatIsShownIsSent'
    BY <1>1, <1>2 DEF CInv, Shapes, Screens, WhatIsShownIsSent
  <2> QED
    BY <1>1, <2>1, ScreensMove
<1>3. CASE modals' # modals
  <2> DEFINE screen == [screen |-> "quit", prompt |-> NoPrompt]
  <2>1. modals = << >> /\ modals' = <<screen>>
    BY <1>3 DEF Quit, QuitConfirmed, RefreshWorkspace
  <2>2. screen.screen = "quit" /\ Append(<< >>, screen) = <<screen>>
    OBVIOUS
  <2> HIDE DEF screen
  <2> QED
    BY <1>1, <2>1, <2>2, OpenKeeps
<1> QED
  BY <1>2, <1>3

\* An operation starts: about the session of the view, or one the view is reset for.
LEMMA StartKeeps ==
  ASSUME CInv, NEW kind, NEW s \in Sessions, NEW rev, NEW attempt, NEW yes,
         StartOperation(kind, s, rev, attempt, yes), UNCHANGED <<store, mail, elsewhere>>,
         kind \in {"new", "attach"} => modals = << >>,
         kind \notin {"new", "attach"} => view.session = s,
         \/ modals = << >> /\ UNCHANGED modals
         \/ modals # << >> /\ modals' = Dismissed
  PROVE  CInv'
<1> DEFINE w == Operation(kind, s, rev, attempt, yes)
<1>1. workers = {} /\ op = 0 /\ \A i \in DOMAIN mail : mail[i].type = "snapshot"
  BY AtRest DEF StartOperation
<1>2. /\ started' = started + 1 /\ op' = started + 1 /\ workers' = {w}
      /\ \/ kind \in {"new", "attach"} /\ view' = NewView /\ visible' = NoPrompt
         \/ kind \notin {"new", "attach"} /\ UNCHANGED <<view, visible>>
  BY <1>1 DEF StartOperation
<1>3. started \in Nat /\ op' # 0
  BY <1>2 DEF CInv, Shapes
<1>4. w.id = op' /\ w.session = s /\ w.pc = "called" /\ DOMAIN w = WorkerFields
  BY <1>2 DEF Operation, WorkerFields
<1> HIDE DEF w
<1>5. DOMAIN NewView = ViewFields /\ NewView.session = NoSession /\ NewView.entries = NoSession
      /\ NewView.label = "-" /\ DOMAIN NoPrompt = PromptFields
  BY DEF NewView, ViewFields, NoPrompt, PromptFields
<1>6. /\ IsSequence(modals') /\ \A i \in DOMAIN modals' : modals'[i].screen = "quit"
  <2>1. CASE modals = << >> /\ UNCHANGED modals
    BY <2>1 DEF CInv, Shapes
  <2>2. CASE modals # << >> /\ modals' = Dismissed
    BY <2>2, Left
  <2> QED
    BY <2>1, <2>2
<1>7. Shapes'
  BY <1>2, <1>3, <1>4, <1>5, <1>6 DEF CInv, Shapes, Records
<1>8. OneOperation' /\ InFlightIsAnswered'
  BY <1>1, <1>2, <1>3, <1>4 DEF OneOperation, Answers, InFlightIsAnswered
<1>9. OneSession'
  <2>1. Concerns(s)'
    BY <1>1, <1>2, <1>4, <1>5 DEF Concerns
  <2> QED
    BY <2>1, <1>2, <1>5 DEF CInv, OneSession
<1>10. Screens' /\ WhatIsShownIsSent'
  BY <1>6 DEF Screens, WhatIsShownIsSent
<1>11. VerdictCoversBoard'
  BY <1>2, <1>5 DEF CInv, VerdictCoversBoard, Actions, Verdicts
<1>12. OutcomesAgree' /\ DueDecisionIsShown'
  BY <1>1, <1>2, <1>3, <1>4 DEF OutcomesAgree, DueDecisionIsShown
<1> QED
  BY <1>7, <1>8, <1>9, <1>10, <1>11, <1>12 DEF CInv

LEMMA OperatorKeeps == CInv /\ Operator => CInv'
<1> SUFFICES ASSUME CInv, Operator PROVE CInv'
  OBVIOUS
<1>1. view.session \in Sessions \cup {NoSession}
  BY DEF CInv, OneSession
<1>2. ASSUME NEW s \in Sessions, NewSession(s) \/ Attach(s) PROVE CInv'
  BY <1>2, StartKeeps DEF NewSession, Attach, Untouched
<1>3. CASE Status
  BY <1>1, <1>3, StartKeeps DEF Status, Untouched
<1>4. CASE Submit
  BY <1>1, <1>4, StartKeeps DEF Submit, Untouched
<1>5. ASSUME NEW yes \in BOOLEAN, ApprovalDecided(yes) PROVE CInv'
  <2>1. /\ modals # << >> /\ modals' = Dismissed /\ UNCHANGED <<store, mail, elsewhere>>
        /\ visible.session = view.session /\ view.session \in Sessions
        /\ StartOperation("resume", visible.session, visible.rev, visible.request, yes)
    BY <1>1, <1>5 DEF ApprovalDecided, Untouched, Top, CInv, OneSession
  <2> QED
    BY <2>1, StartKeeps
<1>6. ASSUME NEW yes \in BOOLEAN, RecoveryDecided(yes) PROVE CInv'
  <2>1. /\ modals # << >> /\ modals' = Dismissed /\ UNCHANGED <<store, mail, elsewhere>>
        /\ view.session \in Sessions
        /\ StartOperation("recover", view.session, view.rev, view.execution, yes)
    BY <1>1, <1>6 DEF RecoveryDecided, Untouched, Top, Known
  <2> QED
    BY <2>1, StartKeeps
<1>7. CASE ReconcileSubmitted
  <2>1. /\ modals # << >> /\ modals' = Dismissed /\ UNCHANGED <<store, mail, elsewhere>>
        /\ view.session \in Sessions
        /\ StartOperation("reconcile", view.session, view.rev, view.execution, TRUE)
    BY <1>1, <1>7 DEF ReconcileSubmitted, Untouched, Top, Known
  <2> QED
    BY <2>1, StartKeeps
<1> QED
  BY <1>2, <1>3, <1>4, <1>5, <1>6, <1>7, ShowKeeps, LaterKeeps, QuitKeeps DEF Operator

-----------------------------------------------------------------------------
(* The main thread.                                                        *)

\* The message at hand, and what is left in the mail.
LEMMA Received ==
  ASSUME CInv, NEW type, Receive(type)
  PROVE  /\ 1 \in DOMAIN mail /\ Head(mail) = mail[1] /\ mail[1].type = type
         /\ IsSequence(mail')
         /\ \A i \in DOMAIN mail' : i \in Nat /\ i >= 1 /\ i + 1 \in DOMAIN mail /\ mail'[i] = mail[i + 1]
         /\ \A i \in DOMAIN mail : i \in Nat /\ (i # 1 => i - 1 \in DOMAIN mail' /\ mail'[i - 1] = mail[i])
         /\ UNCHANGED <<store, workers, started, elsewhere>>
<1>1. IsSequence(mail) /\ mail # << >> /\ mail' = Tail(mail) /\ Head(mail).type = type
      /\ UNCHANGED <<store, workers, started, elsewhere>>
  BY DEF Receive, CInv, Shapes
<1>2. /\ IsSequence(mail') /\ Len(mail) >= 1 /\ Len(mail) \in Nat
      /\ DOMAIN mail = 1..Len(mail) /\ DOMAIN mail' = 1..(Len(mail) - 1)
      /\ Head(mail) = mail[1]
      /\ \A i \in 1..(Len(mail) - 1) : mail'[i] = mail[i + 1]
  BY <1>1, TailFacts
<1>3. ASSUME NEW i \in DOMAIN mail, i # 1
      PROVE  i - 1 \in DOMAIN mail' /\ mail'[i - 1] = mail[i]
  <2>1. i - 1 \in 1..(Len(mail) - 1) /\ (i - 1) + 1 = i
    BY <1>2, <1>3
  <2> QED
    BY <1>2, <2>1
<1> QED
  BY <1>1, <1>2, <1>3

\* The label of a set of verdicts covers each of them.
LEMMA SummaryCovers ==
  ASSUME NEW actions, NEW action \in actions, actions \subseteq Actions
  PROVE  \E i, j \in 1..4 : i <= j /\ Verdicts[i] = ReviewSummary(actions) /\ Verdicts[j] = action
<1> DEFINE worst(i) == Verdicts[i] \in actions /\ \A j \in 1..(i - 1) : Verdicts[j] \notin actions
<1>1. PICK k \in 1..4 : Verdicts[k] = action
  BY DEF Actions
<1>2. \E i \in 1..4 : worst(i)
  <2>1. CASE Verdicts[1] \in actions
    BY <2>1
  <2>2. CASE Verdicts[1] \notin actions /\ Verdicts[2] \in actions
    BY <2>2
  <2>3. CASE Verdicts[1] \notin actions /\ Verdicts[2] \notin actions /\ Verdicts[3] \in actions
    BY <2>3
  <2>4. CASE /\ Verdicts[1] \notin actions /\ Verdicts[2] \notin actions
             /\ Verdicts[3] \notin actions
    BY <2>4, <1>1
  <2> QED
    BY <2>1, <2>2, <2>3, <2>4
<1> DEFINE i == CHOOSE i \in 1..4 : worst(i)
<1>3. i \in 1..4 /\ worst(i)
  BY <1>2
<1>4. ReviewSummary(actions) = Verdicts[i]
  BY DEF ReviewSummary
<1>5. i <= k
  <2>1. ~(k \in 1..(i - 1))
    BY <1>1, <1>3
  <2> HIDE DEF i
  <2> QED
    BY <1>3, <2>1
<1> HIDE DEF i
<1> QED
  BY <1>1, <1>3, <1>4, <1>5

\* An event changes neither the shape of the view nor whose it is, and keeps the label
\* as bad as the board.
LEMMA Reduced ==
  ASSUME NEW v, NEW e, DOMAIN v = ViewFields,
         v.label \in Actions =>
           \A action \in Reviews(v.reviews) :
             \E i, j \in 1..4 : i <= j /\ Verdicts[i] = v.label /\ Verdicts[j] = action
  PROVE  LET new == Reduce(v, e)
         IN  /\ DOMAIN new = ViewFields /\ new.session = e.session /\ new.entries = v.entries
             /\ new.label \in Actions =>
                  \A action \in Reviews(new.reviews) :
                    \E i, j \in 1..4 : i <= j /\ Verdicts[i] = new.label /\ Verdicts[j] = action
<1> DEFINE u == [v EXCEPT !.session = e.session]
           new == Reduce(v, e)
           Covered(label, board) ==
             label \in Actions =>
               \A action \in Reviews(board) :
                 \E i, j \in 1..4 : i <= j /\ Verdicts[i] = label /\ Verdicts[j] = action
           shown == [t \in Todos |-> Verdict(e.board[t])]
           updated == [u EXCEPT !.todos = [t \in Todos |-> e.board[t].delivery],
                                !.reviews = shown, !.label = Label(Reviews(shown), "pending")]
           verified == [u EXCEPT !.label = LabelOfReport(u, e.outcome)]
           board == [u.reviews EXCEPT ![e.todo] = e.action]
           reviewed == [u EXCEPT !.reviews = board, !.label = ReviewSummary(Reviews(board))]
           cleared == [u EXCEPT !.status = "routing", !.label = "-", !.todos = << >>,
                                !.reviews = NoReviews]
           asked == [u EXCEPT !.status = "awaiting_approval", !.rev = e.rev,
                      !.request = e.attempt, !.details = 0, !.execution = e.attempt]
           found == [u EXCEPT !.status = "recovery_required", !.rev = e.rev,
                      !.execution = e.attempt]
           told_ == [u EXCEPT !.status = EventStatus[e.kind]]
<1>1. DOMAIN u = ViewFields /\ u.session = e.session /\ u.entries = v.entries
      /\ u.label = v.label /\ u.reviews = v.reviews
  BY DEF ViewFields
<1>2. new \in {u, cleared, updated, verified, reviewed, asked, found, told_}
  BY DEF Reduce, EventUpdates
<1>3. Covered(v.label, v.reviews)
  OBVIOUS
<1>4. ASSUME NEW b PROVE Covered(ReviewSummary(Reviews(b)), b)
  BY SummaryCovers DEF Reviews
<1>5. ASSUME NEW b, NEW otherwise PROVE Covered(Label(Reviews(b), otherwise), b)
  <2>1. CASE Reviews(b) = {}
    BY <2>1
  <2>2. CASE Reviews(b) # {}
    <3>1. Label(Reviews(b), otherwise) = ReviewSummary(Reviews(b))
      BY <2>2 DEF Label
    <3> QED
      BY <3>1, <1>4
  <2> QED
    BY <2>1, <2>2
<1>6. "-" \notin Actions
  BY DEF Actions, Verdicts
<1>7. Covered("-", NoReviews)
  BY <1>6
<1>10. Covered(LabelOfReport(u, e.outcome), u.reviews)
  <2>1. CASE e.outcome \in {"PASS", "FAIL"}
    <3>1. LabelOfReport(u, e.outcome) \notin Actions
      BY <2>1 DEF LabelOfReport, Actions, Verdicts
    <3> QED
      BY <3>1
  <2>2. CASE e.outcome \notin {"PASS", "FAIL"}
    <3>1. LabelOfReport(u, e.outcome) = Label(Reviews(u.reviews), e.outcome)
      BY <2>2 DEF LabelOfReport
    <3> QED
      BY <3>1, <1>5
  <2> QED
    BY <2>1, <2>2
<1> HIDE DEF Covered
<1>8. ASSUME NEW x \in {u, cleared, updated, verified, reviewed, asked, found, told_}
      PROVE  /\ DOMAIN x = ViewFields /\ x.session = e.session /\ x.entries = v.entries
             /\ Covered(x.label, x.reviews)
  <2> HIDE DEF u, board, shown
  <2>1. CASE x = cleared
    BY <1>1, <1>7, <2>1 DEF ViewFields
  <2>2. CASE x = updated
    BY <1>1, <1>5, <2>2 DEF ViewFields
  <2>3. CASE x = verified
    BY <1>1, <1>10, <2>3 DEF ViewFields
  <2>4. CASE x = reviewed
    BY <1>1, <1>4, <2>4 DEF ViewFields
  <2>5. CASE x = asked
    BY <1>1, <1>3, <2>5 DEF ViewFields
  <2>6. CASE x = found
    BY <1>1, <1>3, <2>6 DEF ViewFields
  <2>7. CASE x = told_
    BY <1>1, <1>3, <2>7 DEF ViewFields
  <2>8. CASE x = u
    BY <1>1, <1>3, <2>8
  <2> QED
    BY <2>1, <2>2, <2>3, <2>4, <2>5, <2>6, <2>7, <2>8
<1>9. /\ DOMAIN new = ViewFields /\ new.session = e.session /\ new.entries = v.entries
      /\ Covered(new.label, new.reviews)
  <2> HIDE DEF u, new, cleared, updated, verified, reviewed, asked, found, told_
  <2> QED
    BY <1>2, <1>8
<1> QED
  BY <1>9 DEF Covered

LEMMA EventKeeps == CInv /\ OnEvent => CInv'
<1> SUFFICES ASSUME CInv, OnEvent PROVE CInv'
  OBVIOUS
<1> DEFINE e == mail[1]
<1>1. Receive("event")
  BY DEF OnEvent
<1>2. /\ 1 \in DOMAIN mail /\ Head(mail) = e /\ e.type = "event" /\ IsSequence(mail')
      /\ \A i \in DOMAIN mail' : i \in Nat /\ i >= 1 /\ i + 1 \in DOMAIN mail /\ mail'[i] = mail[i + 1]
      /\ \A i \in DOMAIN mail : i \in Nat /\ (i # 1 => i - 1 \in DOMAIN mail' /\ mail'[i - 1] = mail[i])
      /\ UNCHANGED <<store, workers, started, elsewhere>>
  BY <1>1, Received
<1>3. view' = Reduce(view, e) /\ told' = FALSE /\ UNCHANGED <<op, visible, modals>>
  BY <1>2 DEF OnEvent
<1>4. op # 0
  BY <1>2 DEF CInv, OneOperation
<1>5. PICK s \in Sessions : Concerns(s)
  BY <1>4 DEF CInv, OneSession
<1>6. e.session = s /\ view.session \in {NoSession, s}
  BY <1>2, <1>5 DEF Concerns
<1>7. DOMAIN view' = ViewFields /\ view'.session = s /\ view'.entries = view.entries
      /\ VerdictCoversBoard'
  <2> HIDE DEF e
  <2> QED
    BY <1>3, <1>6, Reduced DEF CInv, Shapes, VerdictCoversBoard
<1>8. Shapes'
  BY <1>2, <1>3, <1>7 DEF CInv, Shapes, Records
<1>9. OneOperation'
  BY <1>2, <1>3 DEF CInv, OneOperation, Answers
<1>10. OneSession'
  <2>1. Concerns(s)'
    BY <1>2, <1>5, <1>7 DEF Concerns
  <2>2. view'.entries \in {NoSession, view'.session}
    BY <1>6, <1>7 DEF CInv, OneSession
  <2>3. visible # NoPrompt => visible.session = view'.session /\ view'.session # NoSession
    BY <1>6, <1>7 DEF CInv, OneSession
  <2> QED
    BY <1>3, <1>7, <2>1, <2>2, <2>3 DEF OneSession
<1>11. Screens' /\ WhatIsShownIsSent'
  BY <1>3 DEF CInv, Screens, WhatIsShownIsSent
<1>12. OutcomesAgree'
  BY <1>2 DEF CInv, OutcomesAgree
<1>13. InFlightIsAnswered'
  <2>1. CASE \E w \in workers : w.id = op
    BY <2>1, <1>2, <1>3 DEF InFlightIsAnswered
  <2>2. ASSUME NEW i \in DOMAIN mail, mail[i].type \in {"finished", "failed"}, mail[i].id = op
        PROVE  InFlightIsAnswered'
    <3>1. i - 1 \in DOMAIN mail' /\ mail'[i - 1] = mail[i]
      BY <1>2, <2>2
    <3> QED
      BY <1>3, <2>2, <3>1 DEF InFlightIsAnswered
  <2> QED
    BY <1>4, <2>1, <2>2 DEF CInv, InFlightIsAnswered
<1>14. DueDecisionIsShown'
  BY <1>3 DEF DueDecisionIsShown
<1> QED
  BY <1>7, <1>8, <1>9, <1>10, <1>11, <1>12, <1>13, <1>14 DEF CInv

\* What is left of the mail has the same kinds of messages.
LEMMA Kinds ==
  ASSUME CInv, NEW type, Receive(type)
  PROVE  \A i \in DOMAIN mail' : mail'[i].type \in {"event", "finished", "failed", "snapshot"}
BY Received DEF CInv, Shapes

\* An answer is the last thing said of the operation in flight, which ends with it.
LEMMA AnswerEnds ==
  ASSUME CInv, NEW type \in {"finished", "failed"}, Receive(type), op' = 0
  PROVE  /\ Head(mail) = mail[1] /\ 1 \in DOMAIN mail /\ mail[1].type = type /\ mail[1].id = op
         /\ op # 0 /\ \A i \in DOMAIN modals : modals[i].screen = "quit"
         /\ IsSequence(mail') /\ OneOperation' /\ OutcomesAgree' /\ InFlightIsAnswered'
         /\ UNCHANGED <<store, workers, started, elsewhere>>
<1>1. /\ 1 \in DOMAIN mail /\ Head(mail) = mail[1] /\ mail[1].type = type /\ IsSequence(mail')
      /\ \A i \in DOMAIN mail' : i \in Nat /\ i >= 1 /\ i + 1 \in DOMAIN mail /\ mail'[i] = mail[i + 1]
      /\ UNCHANGED <<store, workers, started, elsewhere>>
  BY Received
<1>2. /\ op # 0 /\ mail[1].id = op /\ workers = {}
      /\ \A j \in DOMAIN mail : j > 1 => mail[j].type = "snapshot"
  BY <1>1 DEF CInv, OneOperation, Answers
<1>3. \A i \in DOMAIN modals : modals[i].screen = "quit"
  BY <1>2 DEF CInv, Screens
<1>4. \A i \in DOMAIN mail' : mail'[i].type = "snapshot"
  BY <1>1, <1>2
<1>5. OneOperation'
  BY <1>1, <1>2, <1>4 DEF OneOperation, Answers
<1>6. OutcomesAgree'
  BY <1>1, <1>2, <1>4 DEF OutcomesAgree
<1>7. InFlightIsAnswered'
  BY DEF InFlightIsAnswered
<1> QED
  BY <1>1, <1>2, <1>3, <1>5, <1>6, <1>7

\* The screen an outcome is routed to comes on top, and shows what is sent.
LEMMA RouteKeeps ==
  ASSUME CInv, op' = 0, \A i \in DOMAIN modals : modals[i].screen = "quit",
         NEW kind \in {"approval", "recovery", "awaiting_reconcile"}, modals' = Push(kind)
  PROVE  IsSequence(modals') /\ Screens' /\ WhatIsShownIsSent'
<1>1. IsSequence(modals)
  BY DEF CInv, Shapes
<1>2. CASE Top = kind
  BY <1>1, <1>2 DEF Push, Screens, WhatIsShownIsSent
<1>3. CASE Top # kind
  <2>1. modals' = Append(modals, Screen(kind))
    BY <1>3 DEF Push
  <2>2. /\ IsSequence(modals') /\ Len(modals') = Len(modals) + 1 /\ Len(modals) \in Nat
        /\ DOMAIN modals = 1..Len(modals) /\ DOMAIN modals' = 1..(Len(modals) + 1)
        /\ \A i \in 1..Len(modals) : modals'[i] = modals[i]
        /\ modals'[Len(modals) + 1] = Screen(kind)
    BY <1>1, <2>1, AppendFacts
  <2>3. Screen(kind).screen = kind /\ (kind = "approval" => Screen(kind).prompt = visible')
    BY DEF Screen
  <2>4. Screens'
    BY <2>2 DEF Screens
  <2>5. WhatIsShownIsSent'
    BY <2>2, <2>3 DEF WhatIsShownIsSent
  <2> QED
    BY <2>2, <2>4, <2>5
<1> QED
  BY <1>2, <1>3

LEMMA FinishedKeeps == CInv /\ OnFinished => CInv'
<1> SUFFICES ASSUME CInv, OnFinished PROVE CInv'
  OBVIOUS
<1> DEFINE m == mail[1]
           out == m.outcome
           now == OutcomeOf(out.session, store[out.session])
<1>1. Receive("finished")
  BY DEF OnFinished
<1>2. /\ 1 \in DOMAIN mail /\ Head(mail) = m /\ m.type = "finished"
  BY <1>1, Received
<1>3. m.id = op
  BY <1>2 DEF CInv, OneOperation, Answers
<1>4. /\ op' = 0 /\ view' = ApplyOutcome(view, out)
      /\ told' => m.seen = elsewhere /\ out.status \notin {"chat_completed", "chat_failed"}
      /\ RouteOutcomeModal(out.status)
  BY <1>2, <1>3 DEF OnFinished
<1>5. /\ op # 0 /\ \A i \in DOMAIN modals : modals[i].screen = "quit"
      /\ IsSequence(mail') /\ OneOperation' /\ OutcomesAgree' /\ InFlightIsAnswered'
      /\ UNCHANGED <<store, workers, started, elsewhere>>
  BY <1>1, <1>4, AnswerEnds
<1>6. PICK s \in Sessions : Concerns(s)
  BY <1>5 DEF CInv, OneSession
<1>7. out.session = s /\ view.session \in {NoSession, s} /\ s # NoSession
  BY <1>2, <1>6, TerminalConstants DEF Concerns
<1>8. /\ DOMAIN view' = ViewFields /\ view'.session = s /\ view'.entries = view.entries
      /\ view'.label = view.label /\ view'.reviews = view.reviews
      /\ view'.status = out.status /\ view'.rev = out.rev /\ view'.request = out.request
      /\ view'.details = out.details /\ view'.execution = out.execution
  <2>1. DOMAIN view = ViewFields
    BY DEF CInv, Shapes
  <2> HIDE DEF out
  <2> QED
    BY <1>4, <1>7, <2>1 DEF ApplyOutcome, ViewFields
<1>9. IsSequence(modals') /\ Screens' /\ WhatIsShownIsSent'
  <2>1. CASE UNCHANGED modals
    BY <1>4, <1>5, <2>1 DEF CInv, Shapes, Screens, WhatIsShownIsSent
  <2>2. ASSUME NEW kind \in {"approval", "recovery", "awaiting_reconcile"}, modals' = Push(kind)
        PROVE  IsSequence(modals') /\ Screens' /\ WhatIsShownIsSent'
    BY <1>4, <1>5, <2>2, RouteKeeps
  <2> QED
    BY <1>4, <2>1, <2>2 DEF RouteOutcomeModal
<1>10. \/ visible' = [session |-> s, rev |-> out.rev, request |-> out.request,
                      details |-> out.details]
       \/ out.status # "awaiting_approval" /\ (visible' = visible \/ visible' = NoPrompt)
  <2> HIDE DEF out
  <2> QED
    BY <1>4, <1>8 DEF RouteOutcomeModal
<1>11. /\ DOMAIN visible' = PromptFields
       /\ visible' # NoPrompt => visible'.session = s
  <2>1. DOMAIN NoPrompt = PromptFields
    BY DEF NoPrompt, PromptFields
  <2>2. DOMAIN visible = PromptFields /\ (visible # NoPrompt => visible.session = s)
    BY <1>7 DEF CInv, Shapes, OneSession
  <2> HIDE DEF out
  <2> QED
    BY <1>10, <2>1, <2>2 DEF PromptFields
<1>12. Shapes'
  <2>1. \A i \in DOMAIN mail' : mail'[i].type \in {"event", "finished", "failed", "snapshot"}
    BY <1>1, Kinds
  <2> QED
    BY <1>5, <1>8, <1>9, <1>11, <2>1 DEF CInv, Shapes, Records
<1>13. OneSession'
  <2>1. view'.entries \in {NoSession, s}
    BY <1>7, <1>8 DEF CInv, OneSession
  <2> QED
    BY <1>4, <1>7, <1>8, <1>11, <2>1 DEF OneSession
<1>14. VerdictCoversBoard'
  BY <1>8 DEF CInv, VerdictCoversBoard
<1>15. DueDecisionIsShown'
  <2> SUFFICES ASSUME told', Paused \cap {out.status, now.status} # {}
               PROVE  /\ \A field \in DOMAIN now : view'[field] = now[field]
                      /\ now.status = "awaiting_approval" =>
                           \A field \in DOMAIN visible' : visible'[field] = now[field]
    BY <1>5, <1>7, <1>8 DEF DueDecisionIsShown
  <2>1. out = now
    BY <1>2, <1>4 DEF CInv, OutcomesAgree, Agrees
  <2>2. DOMAIN now = {"session", "status", "rev", "request", "details", "execution"}
    BY DEF OutcomeOf
  <2> HIDE DEF out, now
  <2>3. \A field \in DOMAIN now : view'[field] = now[field]
    BY <1>7, <1>8, <2>1, <2>2
  <2>4. now.status = "awaiting_approval" =>
          \A field \in DOMAIN visible' : visible'[field] = now[field]
    BY <1>7, <1>10, <1>11, <2>1 DEF PromptFields
  <2> QED
    BY <2>3, <2>4
<1> QED
  BY <1>5, <1>9, <1>12, <1>13, <1>14, <1>15 DEF CInv

LEMMA FailedKeeps == CInv /\ OnFailed => CInv'
<1> SUFFICES ASSUME CInv, OnFailed PROVE CInv'
  OBVIOUS
<1>1. Receive("failed") /\ told' = FALSE /\ UNCHANGED <<view, visible, modals>>
  BY DEF OnFailed
<1>2. 1 \in DOMAIN mail /\ Head(mail) = mail[1] /\ mail[1].type = "failed"
  BY <1>1, Received
<1>3. mail[1].id = op
  BY <1>2 DEF CInv, OneOperation, Answers
<1>4. op' = 0
  BY <1>2, <1>3 DEF OnFailed
<1>5. /\ op # 0 /\ \A i \in DOMAIN modals : modals[i].screen = "quit"
      /\ IsSequence(mail') /\ OneOperation' /\ OutcomesAgree' /\ InFlightIsAnswered'
      /\ UNCHANGED <<store, workers, started, elsewhere>>
  BY <1>1, <1>4, AnswerEnds
<1>6. Shapes'
  <2>1. \A i \in DOMAIN mail' : mail'[i].type \in {"event", "finished", "failed", "snapshot"}
    BY <1>1, Kinds
  <2> QED
    BY <1>1, <1>5, <2>1 DEF CInv, Shapes, Records
<1>7. OneSession'
  BY <1>1, <1>4 DEF CInv, OneSession
<1>8. Screens' /\ WhatIsShownIsSent' /\ VerdictCoversBoard' /\ DueDecisionIsShown'
  BY <1>1, <1>5 DEF CInv, Screens, WhatIsShownIsSent, VerdictCoversBoard, DueDecisionIsShown
<1> QED
  BY <1>5, <1>6, <1>7, <1>8 DEF CInv

LEMMA SnapshotKeeps == CInv /\ OnSnapshot => CInv'
<1> SUFFICES ASSUME CInv, OnSnapshot PROVE CInv'
  OBVIOUS
<1>1. Receive("snapshot") /\ UNCHANGED <<op, visible, modals, told>>
  BY DEF OnSnapshot
<1>2. /\ 1 \in DOMAIN mail /\ Head(mail) = mail[1] /\ mail[1].type = "snapshot"
      /\ IsSequence(mail')
      /\ \A i \in DOMAIN mail' : i \in Nat /\ i >= 1 /\ i + 1 \in DOMAIN mail /\ mail'[i] = mail[i + 1]
      /\ \A i \in DOMAIN mail : i \in Nat /\ (i # 1 => i - 1 \in DOMAIN mail' /\ mail'[i - 1] = mail[i])
      /\ UNCHANGED <<store, workers, started, elsewhere>>
  BY <1>1, Received
<1>3. /\ DOMAIN view' = ViewFields
      /\ \A field \in ViewFields \ {"entries"} : view'[field] = view[field]
      /\ view'.entries \in {view.entries, view.session}
  <2>1. DOMAIN view = ViewFields
    BY DEF CInv, Shapes
  <2>2. view' = view \/ view' = [view EXCEPT !.entries = view.session]
    BY <1>2 DEF OnSnapshot
  <2> QED
    BY <2>1, <2>2 DEF ViewFields
<1>4. /\ view'.session = view.session /\ view'.label = view.label
      /\ view'.reviews = view.reviews /\ view'.status = view.status
  BY <1>3 DEF ViewFields
<1>5. Shapes'
  <2>1. \A i \in DOMAIN mail' : mail'[i].type \in {"event", "finished", "failed", "snapshot"}
    BY <1>1, Kinds
  <2> QED
    BY <1>1, <1>2, <1>3, <2>1 DEF CInv, Shapes, Records
<1>6. OneOperation'
  BY <1>1, <1>2 DEF CInv, OneOperation, Answers
<1>7. OneSession'
  <2>1. ASSUME NEW s \in Sessions, Concerns(s) PROVE Concerns(s)'
    BY <1>2, <1>4, <2>1 DEF Concerns
  <2> QED
    BY <1>1, <1>3, <1>4, <2>1 DEF CInv, OneSession
<1>8. Screens' /\ WhatIsShownIsSent'
  BY <1>1 DEF CInv, Screens, WhatIsShownIsSent
<1>9. OutcomesAgree'
  BY <1>2 DEF CInv, OutcomesAgree
<1>10. InFlightIsAnswered'
  <2>1. CASE op = 0
    BY <1>1, <2>1 DEF InFlightIsAnswered
  <2>2. CASE \E w \in workers : w.id = op
    BY <2>2, <1>1, <1>2 DEF InFlightIsAnswered
  <2>3. ASSUME NEW i \in DOMAIN mail, mail[i].type \in {"finished", "failed"}, mail[i].id = op
        PROVE  InFlightIsAnswered'
    <3>1. i - 1 \in DOMAIN mail' /\ mail'[i - 1] = mail[i]
      BY <1>2, <2>3
    <3> QED
      BY <1>1, <2>3, <3>1 DEF InFlightIsAnswered
  <2> QED
    BY <2>1, <2>2, <2>3 DEF CInv, InFlightIsAnswered
<1>11. VerdictCoversBoard'
  BY <1>4 DEF CInv, VerdictCoversBoard
<1>12. DueDecisionIsShown'
  <2> DEFINE now == OutcomeOf(view.session, store[view.session])
  <2>1. now' = now
    BY <1>2, <1>4
  <2>2. DOMAIN now = {"session", "status", "rev", "request", "details", "execution"}
    BY DEF OutcomeOf
  <2>3. \A field \in DOMAIN now : view'[field] = view[field]
    BY <1>3, <2>2 DEF ViewFields
  <2> HIDE DEF now
  <2>4. DueDecisionIsShown = (told /\ op = 0 /\ Paused \cap {view.status, now.status} # {} =>
          /\ \A field \in DOMAIN now : view[field] = now[field]
          /\ now.status = "awaiting_approval" =>
               \A field \in DOMAIN visible : visible[field] = now[field])
    BY DEF DueDecisionIsShown, now
  <2>5. DueDecisionIsShown' = (told /\ op = 0 /\ Paused \cap {view.status, now.status} # {} =>
          /\ \A field \in DOMAIN now : view'[field] = now[field]
          /\ now.status = "awaiting_approval" =>
               \A field \in DOMAIN visible : visible[field] = now[field])
    BY <1>1, <1>2, <1>4 DEF DueDecisionIsShown, now
  <2> QED
    BY <2>3, <2>4, <2>5 DEF CInv
<1> QED
  BY <1>5, <1>6, <1>7, <1>8, <1>9, <1>10, <1>11, <1>12 DEF CInv

-----------------------------------------------------------------------------
LEMMA InitHolds == Init => CInv
<1> SUFFICES ASSUME Init PROVE CInv
  OBVIOUS
<1>1. /\ workers = {} /\ mail = << >> /\ op = 0 /\ modals = << >> /\ visible = NoPrompt
      /\ view = NewView /\ told = FALSE /\ started = 0 /\ elsewhere = 0
  BY DEF Init
<1>2. IsSequence(<< >>) /\ DOMAIN << >> = {}
  BY DEF IsSequence
<1>3. DOMAIN view = ViewFields /\ DOMAIN visible = PromptFields
  BY <1>1 DEF NewView, NoPrompt, ViewFields, PromptFields
<1>4. Records(store)
  <2> DEFINE asks == [NoFile EXCEPT !.state = "awaiting_approval", !.rev = 1, !.attempt = 1,
                                    !.asked = TRUE]
  <2>1. DOMAIN NoFile = FileFields
    BY DEF NoFile, FileFields
  <2>2. DOMAIN asks = FileFields
    BY <2>1
  <2>3. store \in [Sessions -> {NoFile, asks}]
    BY DEF Init
  <2> HIDE DEF asks
  <2> QED
    BY <2>1, <2>2, <2>3 DEF Records
<1>5. view.session = NoSession /\ view.entries = NoSession /\ view.label = "-"
  BY <1>1 DEF NewView
<1>6. Shapes
  BY <1>1, <1>2, <1>3, <1>4 DEF Shapes
<1>7. OneOperation /\ OneSession /\ Screens /\ OutcomesAgree
  BY <1>1, <1>2, <1>5 DEF OneOperation, OneSession, Screens, OutcomesAgree
<1>8. InFlightIsAnswered /\ WhatIsShownIsSent /\ DueDecisionIsShown
  BY <1>1, <1>2 DEF InFlightIsAnswered, WhatIsShownIsSent, DueDecisionIsShown
<1>9. VerdictCoversBoard
  BY <1>5 DEF VerdictCoversBoard, Actions, Verdicts
<1> QED
  BY <1>6, <1>7, <1>8, <1>9 DEF CInv

LEMMA StepKeeps == CInv /\ [Next]_vars => CInv'
<1> SUFFICES ASSUME CInv, [Next]_vars PROVE CInv'
  OBVIOUS
<1>1. CASE UNCHANGED vars
  BY <1>1 DEF vars, CInv, Shapes, Records, OneOperation, Answers, OneSession, Concerns, Screens,
       OutcomesAgree, InFlightIsAnswered, WhatIsShownIsSent, VerdictCoversBoard,
       DueDecisionIsShown
<1>2. CASE Operator
  BY <1>2, OperatorKeeps
<1>3. CASE MainThread
  BY <1>3, EventKeeps, FinishedKeeps, FailedKeeps, SnapshotKeeps DEF MainThread
<1>4. CASE Backend
  BY <1>4, BackendKeeps
<1>5. ASSUME NEW s \in Sessions, ScanWorkspace(s) PROVE CInv'
  BY <1>5, ScanKeeps
<1>6. ASSUME NEW s \in Sessions, Elsewhere(s) PROVE CInv'
  BY <1>6, ElsewhereKeeps
<1> QED
  BY <1>1, <1>2, <1>3, <1>4, <1>5, <1>6 DEF Next

THEOREM Invariance == Spec => []CInv
<1>1. Init => CInv
  BY InitHolds
<1>2. CInv /\ [Next]_vars => CInv'
  BY StepKeeps
<1> QED
  BY <1>1, <1>2, PTL DEF Spec

-----------------------------------------------------------------------------
\* An approval on the screen is the one its buttons would send, whatever operations ran
\* since it was pushed (app.py, _approval_decided).
THEOREM ShownIsSent == Spec => []WhatIsShownIsSent
<1>1. CInv => WhatIsShownIsSent
  BY DEF CInv
<1> QED
  BY <1>1, Invariance, PTL

\* Nothing of another session reaches the view: an operation left behind says no more
\* (app.py, _start_operation), and a late snapshot is dropped.
THEOREM OneSessionInView == Spec => []ViewIsOfOneSession
<1>1. CInv => ViewIsOfOneSession
  <2> SUFFICES ASSUME CInv PROVE ViewIsOfOneSession
    OBVIOUS
  <2>1. view.entries \in {NoSession, view.session}
    BY DEF CInv, OneSession
  <2>2. ASSUME view.session # NoSession, NEW i \in DOMAIN mail, mail[i].type = "event"
        PROVE  mail[i].session = view.session
    <3>1. op # 0
      BY <2>2 DEF CInv, OneOperation
    <3>2. PICK s \in Sessions : Concerns(s)
      BY <3>1 DEF CInv, OneSession
    <3> QED
      BY <2>2, <3>2 DEF Concerns
  <2> QED
    BY <2>1, <2>2 DEF ViewIsOfOneSession
<1> QED
  BY <1>1, Invariance, PTL

\* After an outcome, and until another client moves the session, the view agrees with the
\* checkpoint on every decision that is due (adapter.py, apply_outcome).
THEOREM DecisionIsShown == Spec => []DueDecisionIsShown
<1>1. CInv => DueDecisionIsShown
  BY DEF CInv
<1> QED
  BY <1>1, Invariance, PTL

\* The verdict on top is never better than one on the board (adapter.py, _review_summary).
THEOREM VerdictIsWorst == Spec => []VerdictCoversBoard
<1>1. CInv => VerdictCoversBoard
  BY DEF CInv
<1> QED
  BY <1>1, Invariance, PTL

\* An operation in flight is run by a worker or its answer is on its way, so that the client
\* does not lose its prompt (app.py, run_controller).
THEOREM AnswerIsOnItsWay == Spec => []InFlightIsAnswered
<1>1. CInv => InFlightIsAnswered
  BY DEF CInv
<1> QED
  BY <1>1, Invariance, PTL

=============================================================================
