----------------------------- MODULE ReActProofs -----------------------------
(* A run of the code agent goes on as if it had never been interrupted,    *)
(* for any keys, budgets and limits.  The invariant is IInv of             *)
(* ReActInvariant.                                                         *)
EXTENDS ReActInvariant, FiniteSetTheorems, SequenceTheorems, TLAPS

-----------------------------------------------------------------------------
(* Sequences.                                                              *)

Results == Outcomes \cup {"unexecuted"}

LEMMA BoundedSequences ==
  ASSUME NEW S, NEW n \in Nat, NEW m \in Nat, NEW r
  PROVE  r \in UNION {[1..j -> S] : j \in m..n} <=> r \in Seq(S) /\ m <= Len(r) /\ Len(r) <= n
<1>1. ASSUME NEW j \in m..n, r \in [1..j -> S]
      PROVE  r \in Seq(S) /\ m <= Len(r) /\ Len(r) <= n
  <2>1. j \in Nat
    OBVIOUS
  <2>2. r \in Seq(S) /\ Len(r) = j
    BY SMTT(40), <1>1, <2>1
  <2> QED
    BY <2>2
<1>2. ASSUME r \in Seq(S), m <= Len(r), Len(r) <= n
      PROVE  \E j \in m..n : r \in [1..j -> S]
  <2>1. Len(r) \in m..n /\ r \in [1..Len(r) -> S]
    BY <1>2
  <2> QED
    BY <2>1
<1> QED
  BY <1>1, <1>2

LEMMA RoundIsSequence ==
  ASSUME NEW r
  PROVE  r \in Rounds <=> r \in Seq(Results) /\ Len(r) <= MaxBatch
<1>1. r \in Rounds <=> r \in Seq(Results) /\ 0 <= Len(r) /\ Len(r) <= MaxBatch
  BY BoundedSequences, ReActConstants DEF Rounds, Results
<1>2. r \in Seq(Results) => 0 <= Len(r)
  OBVIOUS
<1> QED
  BY <1>1, <1>2

LEMMA BatchIsSequence ==
  ASSUME NEW b
  PROVE  b \in Batches <=> b \in Seq(Keys) /\ 1 <= Len(b) /\ Len(b) <= MaxBatch
BY BoundedSequences, ReActConstants DEF Batches

-----------------------------------------------------------------------------
(* The guard.                                                              *)

LEMMA NewGuardFacts ==
  ASSUME NEW b \in Budgets
  PROVE  NewGuard(b) \in Guard
BY ReActConstants DEF NewGuard, Guard

LEMMA RebuiltFacts ==
  ASSUME NEW g \in Guard, config \in Budgets
  PROVE  /\ Rebuilt(g) \in Guard
         /\ Rebuilt(g).max <= g.max /\ Rebuilt(g).max <= config
         /\ Rebuilt(g).used = g.used /\ Rebuilt(g).denials = g.denials
         /\ Rebuilt(g).fails = g.fails
BY ReActConstants DEF Rebuilt, Guard, Tighter

LEMMA SyncedFacts ==
  ASSUME NEW g \in Guard, version \in 0..MaxVersion
  PROVE  /\ Synced(g) \in Guard /\ Synced(g).max = g.max
         /\ Synced(g).used = g.used /\ Synced(g).denials = g.denials
         /\ Synced(g).fails = g.fails
BY DEF Synced, Guard

LEMMA RecordedFacts ==
  ASSUME NEW g \in Guard, NEW k \in Keys, NEW out \in Outcomes, NEW same,
         version \in 0..MaxVersion, NEW new, new = Recorded(g, k, out, same)
  PROVE  /\ new \in Guard /\ new.max = g.max /\ new.used = g.used + 1
         /\ out = "denied" => new.denials = g.denials \cup {k}
         /\ out # "denied" => new.denials = g.denials
         /\ out = "ok" => new.fails[k] = 0
         /\ out # "ok" => new.fails[k] = g.fails[k] + 1
         /\ \A x \in Keys : x # k => new.fails[x] = g.fails[x]
<1> DEFINE changes == out = "ok" /\ k \notin Reads \cup Probes
           passes == out = "ok" /\ k \in Tests
           fails == [g.fails EXCEPT ![k] = IF out = "ok" THEN 0 ELSE @ + 1]
           denials == IF out = "denied" THEN g.denials \cup {k} ELSE g.denials
           read == [g.reads EXCEPT ![k] = IF same THEN @ + 1 ELSE 1]
           reads == CASE changes -> [x \in Keys |-> 0]
                      [] out = "ok" /\ k \in Reads -> read
                      [] OTHER -> g.reads
           passed == CASE passes -> g.passed \cup {k}
                       [] changes /\ ~passes -> {}
                       [] OTHER -> g.passed
           revision == IF passes THEN version ELSE g.revision
<1>1. /\ g.max \in Budgets /\ g.used \in Nat /\ g.fails \in [Keys -> Nat]
      /\ g.reads \in [Keys -> Nat] /\ g.passed \subseteq Tests /\ g.denials \subseteq Keys
      /\ g.revision \in 0..MaxVersion
  BY DEF Guard
<1>2. new = [max |-> g.max, used |-> g.used + 1, fails |-> fails, reads |-> reads,
             passed |-> passed, denials |-> denials, revision |-> revision]
  <2>1. new = [g EXCEPT !.used = g.used + 1, !.fails = fails, !.denials = denials,
                        !.reads = reads, !.passed = passed, !.revision = revision]
    BY DEF Recorded
  <2> HIDE DEF fails, denials, reads, passed, revision
  <2> QED
    BY <2>1 DEF Guard
<1>3. fails \in [Keys -> Nat] /\ denials \subseteq Keys /\ revision \in 0..MaxVersion
  BY <1>1
<1>4. reads \in [Keys -> Nat]
  <2>1. read \in [Keys -> Nat]
    BY <1>1
  <2> HIDE DEF read
  <2> QED
    BY <1>1, <2>1
<1>5. passed \subseteq Tests
  BY <1>1
<1>7. /\ out = "ok" => fails[k] = 0
      /\ out # "ok" => fails[k] = g.fails[k] + 1
      /\ \A x \in Keys : x # k => fails[x] = g.fails[x]
  BY <1>1
<1>8. /\ out = "denied" => denials = g.denials \cup {k}
      /\ out # "denied" => denials = g.denials
  OBVIOUS
<1> HIDE DEF fails, denials, reads, passed, revision
<1>6. new \in Guard
  BY <1>1, <1>2, <1>3, <1>4, <1>5 DEF Guard
<1> QED
  BY <1>2, <1>6, <1>7, <1>8

-----------------------------------------------------------------------------
(* The past.                                                               *)

\* What is counted of the past is finite.
LEMMA PlacesAreFinite ==
  /\ IsFiniteSet(Places) /\ IsFiniteSet(Counted) /\ \A k : IsFiniteSet(Streak(k))
<1>1. IsFiniteSet((1..MaxSteps) \X (1..MaxBatch))
  <2>1. IsFiniteSet(1..MaxSteps) /\ IsFiniteSet(1..MaxBatch)
    BY FS_Interval, ReActConstants
  <2> QED
    BY <2>1, FS_Product
<1>2. Places \subseteq (1..MaxSteps) \X (1..MaxBatch)
  BY DEF Places
<1>3. Counted \subseteq Places /\ \A k : Streak(k) \subseteq Places
  BY DEF Counted, Streak
<1>4. IsFiniteSet(Places)
  BY <1>1, <1>2, FS_Subset
<1> QED
  BY <1>3, <1>4, FS_Subset

\* An entry of the past is written over.
Writes(s, i, e) == past' = [past EXCEPT ![s][i] = e]

LEMMA WritesFacts ==
  ASSUME past \in Seq(Seq(PastCall)), NEW s \in DOMAIN past, NEW i \in DOMAIN past[s],
         NEW e \in PastCall, Writes(s, i, e)
  PROVE  /\ past' \in Seq(Seq(PastCall)) /\ Len(past') = Len(past)
         /\ DOMAIN past' = DOMAIN past
         /\ \A x \in DOMAIN past : DOMAIN past'[x] = DOMAIN past[x]
         /\ \A x \in DOMAIN past : \A y \in DOMAIN past[x] :
              <<x, y>> # <<s, i>> => past'[x][y] = past[x][y]
         /\ past'[s][i] = e
         /\ Places' = Places
         /\ \A c \in Places : Was(c)' = IF c = <<s, i>> THEN e ELSE Was(c)
<1> DEFINE round == [past[s] EXCEPT ![i] = e]
<1>1. past' = [past EXCEPT ![s] = round]
  BY DEF Writes
<1>2. past[s] \in Seq(PastCall) /\ round \in Seq(PastCall) /\ DOMAIN round = DOMAIN past[s]
      /\ round[i] = e /\ \A y \in DOMAIN past[s] : y # i => round[y] = past[s][y]
  <2>1. past[s] \in Seq(PastCall)
    OBVIOUS
  <2>2. round \in Seq(PastCall)
    BY <2>1
  <2>3. DOMAIN round = DOMAIN past[s] /\ round[i] = e
    OBVIOUS
  <2>4. ASSUME NEW y \in DOMAIN past[s], y # i PROVE round[y] = past[s][y]
    BY <2>4
  <2> QED
    BY <2>1, <2>2, <2>3, <2>4
<1> HIDE DEF round
<1>3. past' \in Seq(Seq(PastCall)) /\ Len(past') = Len(past) /\ DOMAIN past' = DOMAIN past
      /\ past'[s] = round /\ \A x \in DOMAIN past : x # s => past'[x] = past[x]
  BY <1>1, <1>2
<1>4. \A x \in DOMAIN past : DOMAIN past'[x] = DOMAIN past[x]
  BY <1>2, <1>3
<1>5. \A x \in DOMAIN past : \A y \in DOMAIN past[x] :
              <<x, y>> # <<s, i>> => past'[x][y] = past[x][y]
  BY <1>2, <1>3
<1>6. Places' = Places
  BY <1>3, <1>4 DEF Places
<1>7. ASSUME NEW c \in Places PROVE Was(c)' = IF c = <<s, i>> THEN e ELSE Was(c)
  <2>1. PICK x, y : x \in DOMAIN past /\ y \in DOMAIN past[x] /\ c = <<x, y>>
    BY DEF Places
  <2> QED
    BY <1>2, <1>3, <1>5, <2>1 DEF Was
<1> QED
  BY <1>2, <1>3, <1>4, <1>5, <1>6, <1>7

LEMMA PlaceFacts ==
  ASSUME past \in Seq(Seq(PastCall)), NEW c \in Places
  PROVE  /\ c[1] \in Nat /\ c[2] \in Nat /\ c = <<c[1], c[2]>>
         /\ Was(c) \in PastCall /\ (c \in Counted <=> Was(c).out # "none")
<1>1. c \in (1..MaxSteps) \X (1..MaxBatch) /\ c[1] \in DOMAIN past /\ c[2] \in DOMAIN past[c[1]]
  BY DEF Places
<1>2. past[c[1]] \in Seq(PastCall)
  BY <1>1
<1>3. past[c[1]][c[2]] \in PastCall
  BY <1>1, <1>2
<1>4. c[1] \in Nat /\ c[2] \in Nat /\ c = <<c[1], c[2]>>
  BY <1>1
<1> QED
  BY <1>3, <1>4 DEF Was, Counted

\* Only the calls that are counted matter.
LEMMA SameCounts ==
  ASSUME Counted' = Counted,
         \A c \in Counted : Was(c)'.key = Was(c).key /\ Was(c)'.out = Was(c).out
  PROVE  Denied' = Denied /\ \A k : Streak(k)' = Streak(k)
<1>1. Denied = {Was(c).key : c \in {d \in Counted : Was(d).out = "denied"}}
  BY DEF Denied, Counted
<1>2. Denied' = {Was(c)'.key : c \in {d \in Counted' : Was(d)'.out = "denied"}}
  BY DEF Denied, Counted
<1>3. Denied' = Denied
  BY <1>1, <1>2
<1>4. ASSUME NEW k PROVE Streak(k)' = Streak(k)
  BY DEF Streak
<1> QED
  BY <1>3, <1>4

\* An entry is written that settles nothing.
LEMMA NotingCounts ==
  ASSUME past \in Seq(Seq(PastCall)), NEW s \in DOMAIN past, NEW i \in DOMAIN past[s],
         NEW e \in PastCall, Writes(s, i, e),
         e.key = past[s][i].key, e.out = past[s][i].out
  PROVE  /\ Counted' = Counted /\ Denied' = Denied /\ \A k : Streak(k)' = Streak(k)
         /\ \A c \in Places : Was(c)'.key = Was(c).key /\ Was(c)'.out = Was(c).out
<1>1. Places' = Places /\ \A c \in Places : Was(c)' = IF c = <<s, i>> THEN e ELSE Was(c)
  BY WritesFacts
<1>2. <<s, i>> \in Places => Was(<<s, i>>) = past[s][i]
  BY DEF Was
<1>3. \A c \in Places : Was(c)'.key = Was(c).key /\ Was(c)'.out = Was(c).out
  BY <1>1, <1>2
<1>4. Counted' = Counted
  BY <1>1, <1>3 DEF Counted
<1>5. \A c \in Counted : Was(c)'.key = Was(c).key /\ Was(c)'.out = Was(c).out
  BY <1>3 DEF Counted
<1> QED
  BY <1>3, <1>4, <1>5, SameCounts

\* An entry is written that settles the last call of the past.
LEMMA SettlingCounts ==
  ASSUME past \in Seq(Seq(PastCall)), NEW s \in DOMAIN past, NEW i \in DOMAIN past[s],
         NEW e \in PastCall, Writes(s, i, e), <<s, i>> \in Places,
         e.key = past[s][i].key, past[s][i].out = "none", e.out # "none",
         \A c \in Counted : Before(c, <<s, i>>)
  PROVE  /\ Cardinality(Counted') = Cardinality(Counted) + 1
         /\ Denied' = IF e.out = "denied" THEN Denied \cup {e.key} ELSE Denied
         /\ \A k \in Keys :
              Cardinality(Streak(k)') =
                IF k = e.key THEN IF e.out = "ok" THEN 0 ELSE Cardinality(Streak(k)) + 1
                ELSE Cardinality(Streak(k))
<1> DEFINE h == <<s, i>>
<1>1. /\ Places' = Places /\ h \in Places /\ Was(h) = past[s][i]
      /\ Was(h)' = e /\ \A c \in Places : c # h => Was(c)' = Was(c)
  BY WritesFacts DEF Was
<1>2. Counted \subseteq Places /\ h \notin Counted /\ Counted' = Counted \cup {h}
  BY <1>1 DEF Counted
<1>3. Cardinality(Counted') = Cardinality(Counted) + 1
  BY <1>2, PlacesAreFinite, FS_AddElement
<1>4. Denied' = IF e.out = "denied" THEN Denied \cup {e.key} ELSE Denied
  <2>1. Denied = {Was(c).key : c \in {d \in Counted : Was(d).out = "denied"}}
    BY DEF Denied, Counted
  <2>2. Denied' = {Was(c)'.key : c \in {d \in Counted' : Was(d)'.out = "denied"}}
    BY DEF Denied, Counted
  <2>3. \A c \in Counted : c # h /\ Was(c)' = Was(c)
    BY <1>1, <1>2
  <2> HIDE DEF h
  <2>4. ASSUME NEW k PROVE k \in Denied' <=> k \in Denied \/ (e.out = "denied" /\ k = e.key)
    BY <1>1, <1>2, <2>1, <2>2, <2>3
  <2> QED
    BY <2>4
<1>5. ASSUME NEW k \in Keys, k # e.key PROVE Streak(k)' = Streak(k)
  <2>1. \A c \in Counted : c # h /\ Was(c)' = Was(c)
    BY <1>1, <1>2
  <2>2. \A c : c \in Streak(k)' <=> c \in Streak(k)
    BY ZenonT(40), <1>1, <1>2, <1>5, <2>1 DEF Streak
  <2> QED
    BY <2>2 DEF Streak
<1>6. ASSUME e.out = "ok" PROVE Streak(e.key)' = {}
  <2>1. ASSUME NEW c \in Streak(e.key)' PROVE FALSE
    <3>1. c \in Counted' /\ Was(c)'.out # "ok"
      BY DEF Streak
    <3>2. c \in Counted /\ Before(c, h)
      BY <1>1, <1>2, <1>6, <3>1
    <3>3. h \in Counted' /\ Was(h)'.key = e.key /\ Was(h)'.out = "ok"
      BY <1>1, <1>2, <1>6
    <3>4. Before(c, h)'
      BY <3>2 DEF Before
    <3> QED
      BY <3>3, <3>4 DEF Streak
  <2> QED
    BY <2>1
<1>7. ASSUME e.out # "ok"
      PROVE  Streak(e.key)' = Streak(e.key) \cup {h} /\ h \notin Streak(e.key)
  <2>1. \A c \in Counted : c # h /\ Was(c)' = Was(c)
    BY <1>1, <1>2
  <2>2. \A c \in Counted' : ~Before(h, c)
    <3>1. s \in Nat /\ i \in Nat
      BY <1>1, PlaceFacts
    <3>2. ~Before(h, h)
      BY <3>1 DEF Before
    <3>3. ASSUME NEW c \in Counted PROVE ~Before(h, c)
      <4>1. c[1] \in Nat /\ c[2] \in Nat /\ Before(c, h)
        BY <1>2, PlaceFacts
      <4> QED
        BY <3>1, <4>1 DEF Before
    <3> QED
      BY <1>2, <3>2, <3>3
  <2>3. h \notin Streak(e.key)
    BY <1>2 DEF Streak
  <2>4. \A c, d : Before(c, d)' = Before(c, d)
    BY DEF Before
  <2>5. h \in Streak(e.key)'
    BY <1>1, <1>2, <1>7, <2>2, <2>4 DEF Streak
  <2>6. ASSUME NEW c \in Counted PROVE c \in Streak(e.key)' <=> c \in Streak(e.key)
    BY ZenonT(40), <1>1, <1>2, <1>7, <2>1, <2>4, <2>6 DEF Streak
  <2>7. Streak(e.key) \subseteq Counted /\ Streak(e.key)' \subseteq Counted \cup {h}
    BY <1>2 DEF Streak
  <2> QED
    BY <2>3, <2>5, <2>6, <2>7
<1>8. ASSUME NEW k \in Keys
      PROVE  Cardinality(Streak(k)') =
                IF k = e.key THEN IF e.out = "ok" THEN 0 ELSE Cardinality(Streak(k)) + 1
                ELSE Cardinality(Streak(k))
  <2>1. IsFiniteSet(Streak(k))
    BY PlacesAreFinite
  <2> HIDE DEF h
  <2>2. CASE k = e.key /\ e.out # "ok"
    BY <1>7, <2>1, <2>2, FS_AddElement
  <2>3. CASE k = e.key /\ e.out = "ok"
    BY <1>6, <2>3, FS_EmptySet
  <2> QED
    BY <1>5, <2>2, <2>3
<1> QED
  BY <1>3, <1>4, <1>8

-----------------------------------------------------------------------------
(* The call at hand.                                                       *)

LEMMA Typed ==
  ASSUME TypeOK
  PROVE  /\ run \in Run /\ snap \in Run /\ past \in Seq(Seq(PastCall))
         /\ run.guard \in Guard /\ run.step \in Nat /\ run.step >= 1
         /\ run.results \in Seq(Results) /\ Len(run.results) \in Nat /\ Len(run.results) <= MaxBatch
         /\ run.batch \in Seq(Keys) /\ Len(run.batch) \in Nat /\ Len(run.batch) <= MaxBatch
         /\ run.memory \in Seq(Rounds) /\ run.stop \in BOOLEAN
         /\ Len(run.results) <= Len(run.batch)
         /\ Index(run) \in Nat /\ Index(run) = Len(run.results) + 1
<1>1. run \in Run /\ snap \in Run /\ past \in Seq(Seq(PastCall)) /\ Len(run.results) <= Len(run.batch)
  BY DEF TypeOK
<1>2. /\ run.step \in 1..(MaxSteps + 1) /\ run.batch \in Batches \cup {<< >>}
      /\ run.results \in Rounds /\ run.memory \in Seq(Rounds) /\ run.stop \in BOOLEAN
      /\ run.guard \in Guard
  BY <1>1 DEF Run
<1>3. run.results \in Seq(Results) /\ Len(run.results) \in Nat /\ Len(run.results) <= MaxBatch
  BY <1>2, RoundIsSequence
<1>4. run.batch \in Seq(Keys) /\ Len(run.batch) \in Nat /\ Len(run.batch) <= MaxBatch
  <2>1. CASE run.batch \in Batches
    BY <2>1, BatchIsSequence
  <2>2. CASE run.batch = << >>
    BY <2>2, ReActConstants
  <2> QED
    BY <1>2, <2>1, <2>2
<1> QED
  BY <1>1, <1>2, <1>3, <1>4, ReActConstants DEF Index

\* It is the last call of the past, which has not been settled.
LEMMA AtHand ==
  ASSUME IInv, AtBatch, Index(run) <= Len(run.batch)
  PROVE  LET s == run.step
             i == Index(run)
         IN  /\ s \in DOMAIN past /\ i \in DOMAIN past[s] /\ <<s, i>> \in Places
             /\ past[s][i] \in PastCall /\ Entry(run) = past[s][i]
             /\ KeyOf(run) \in Keys /\ past[s][i].key = KeyOf(run) /\ past[s][i].out = "none"
             /\ pc = "calling" => past[s][i].starts = 0
             /\ \A c \in Counted : Before(c, <<s, i>>)
             /\ \A d \in Places :
                  Before(<<s, i>>, d) => Was(d).out = "none" /\ Was(d).starts = 0
<1> DEFINE s == run.step
           i == Index(run)
<1>1. /\ run \in Run /\ past \in Seq(Seq(PastCall)) /\ s \in Nat /\ s >= 1
      /\ run.results \in Seq(Results) /\ Len(run.results) \in Nat
      /\ run.batch \in Seq(Keys) /\ Len(run.batch) \in Nat /\ Len(run.batch) <= MaxBatch
      /\ i \in Nat /\ i = Len(run.results) + 1
  BY Typed DEF IInv
<1>2. /\ Len(past) = s /\ s <= MaxSteps /\ DOMAIN past[s] = DOMAIN run.batch
      /\ \A j \in DOMAIN run.batch :
           /\ past[s][j].key = run.batch[j]
           /\ j > Len(run.results) => past[s][j].out = "none"
           /\ j > Len(run.results) /\ (j > i \/ pc = "calling") => past[s][j].starts = 0
  BY DEF IInv, Progress
<1>3. i \in DOMAIN run.batch /\ DOMAIN past = 1..s /\ DOMAIN run.batch = 1..Len(run.batch)
  BY <1>1, <1>2
<1>4. s \in DOMAIN past /\ i \in DOMAIN past[s] /\ past[s] \in Seq(PastCall) /\ past[s][i] \in PastCall
  BY <1>1, <1>2, <1>3
<1>5. <<s, i>> \in Places
  <2>1. s \in 1..MaxSteps /\ i \in 1..MaxBatch
    BY <1>1, <1>2, <1>3, ReActConstants
  <2> HIDE DEF s, i
  <2> QED
    BY <1>4, <2>1 DEF Places
<1>6. Entry(run) = past[s][i] /\ KeyOf(run) = run.batch[i] /\ KeyOf(run) \in Keys
  BY <1>1, <1>3 DEF Entry, KeyOf
<1>7. ASSUME NEW c \in Places
      PROVE  /\ c \in Counted => Before(c, <<s, i>>)
             /\ Before(<<s, i>>, c) => Was(c).out = "none" /\ Was(c).starts = 0
  <2>1. c[1] \in Nat /\ c[2] \in Nat /\ c[1] \in DOMAIN past /\ c[2] \in DOMAIN past[c[1]]
        /\ (c \in Counted <=> Was(c).out # "none") /\ Was(c) = past[c[1]][c[2]]
    BY <1>1, PlaceFacts DEF Places, Was
  <2>2. c[1] <= s
    BY <1>3, <2>1
  <2>3. CASE c[1] < s
    BY <1>1, <2>1, <2>3 DEF Before
  <2>4. CASE c[1] = s
    <3>1. c[2] \in DOMAIN run.batch /\ Was(c) = past[s][c[2]]
      BY <1>2, <2>1, <2>4
    <3>2. c \in Counted => c[2] < i
      BY SMTT(40), <1>1, <1>2, <2>1, <3>1
    <3>3. c[2] > i => Was(c).out = "none" /\ Was(c).starts = 0
      <4>1. c[2] > i => c[2] > Len(run.results)
        BY <1>1, <2>1
      <4> HIDE DEF i
      <4> QED
        BY <1>2, <3>1, <4>1
    <3> QED
      BY <1>1, <2>1, <2>4, <3>2, <3>3 DEF Before
  <2> QED
    BY <1>1, <2>1, <2>2, <2>3, <2>4
<1>8. Counted \subseteq Places
  BY DEF Counted
<1>9. /\ past[s][i].key = KeyOf(run) /\ past[s][i].out = "none"
      /\ pc = "calling" => past[s][i].starts = 0
  <2>1. i > Len(run.results)
    BY <1>1
  <2> HIDE DEF i
  <2> QED
    BY <1>2, <1>3, <1>6, <2>1
<1> HIDE DEF s, i
<1>10. /\ \A c \in Counted : Before(c, <<s, i>>)
       /\ \A d \in Places : Before(<<s, i>>, d) => Was(d).out = "none" /\ Was(d).starts = 0
  BY <1>7, <1>8
<1> QED
  BY <1>4, <1>5, <1>6, <1>9, <1>10 DEF s, i

\* What is written of the call at hand leaves the denials standing, if it was not denied.
LEMMA DenialsKept ==
  ASSUME IInv, AtBatch, Index(run) <= Len(run.batch), KeyOf(run) \notin run.guard.denials,
         NEW e \in PastCall, e.key = KeyOf(run), Writes(run.step, Index(run), e)
  PROVE  DenialsStick'
<1> DEFINE h == <<run.step, Index(run)>>
<1>1. past \in Seq(Seq(PastCall))
  BY Typed DEF IInv
<1>2. /\ run.step \in DOMAIN past /\ Index(run) \in DOMAIN past[run.step] /\ h \in Places
      /\ \A d \in Places : Before(h, d) => Was(d).out = "none" /\ Was(d).starts = 0
  BY AtHand
<1>3. Places' = Places /\ \A c \in Places : Was(c)' = IF c = h THEN e ELSE Was(c)
  BY <1>1, <1>2, WritesFacts
<1>4. KeyOf(run) \notin Denied
  BY DEF IInv, Observed
<1>5. run.step \in Nat /\ Index(run) \in Nat
  BY Typed DEF IInv
<1>6. ~Before(h, h)
  BY <1>5 DEF Before
<1> HIDE DEF h
<1> SUFFICES ASSUME NEW c \in Places, NEW d \in Places, Before(c, d), Was(c)'.out = "denied",
                    Was(d)'.key = Was(c)'.key
             PROVE  Was(d)'.out = "none" /\ Was(d)'.starts = 0
  BY <1>3 DEF DenialsStick, Before
<1>7. CASE c = h
  <2>1. d # h
    BY <1>6, <1>7
  <2> QED
    BY <1>2, <1>3, <1>7, <2>1
<1>8. CASE c # h /\ d = h
  <2>1. Was(c).key = KeyOf(run) /\ Was(c).out = "denied"
    BY <1>3, <1>8
  <2> QED
    BY <1>4, <2>1 DEF Denied
<1>9. CASE c # h /\ d # h
  BY <1>3, <1>9 DEF IInv, DenialsStick
<1> QED
  BY <1>7, <1>8, <1>9

\* What was remembered before the round at hand stays as it was.
LEMMA MemoryKept ==
  ASSUME IInv, AtBatch, Index(run) <= Len(run.batch), NEW e \in PastCall,
         Writes(run.step, Index(run), e), run'.memory = run.memory
  PROVE  Remembered'
<1>1. past \in Seq(Seq(PastCall)) /\ run.memory \in Seq(Rounds) /\ run.step \in Nat
  BY Typed DEF IInv
<1>2. run.step \in DOMAIN past /\ Index(run) \in DOMAIN past[run.step] /\ Len(past) = run.step
  BY AtHand DEF IInv, Progress
<1>3. /\ \A x \in DOMAIN past : DOMAIN past'[x] = DOMAIN past[x]
      /\ \A x \in DOMAIN past : \A y \in DOMAIN past[x] :
           <<x, y>> # <<run.step, Index(run)>> => past'[x][y] = past[x][y]
  BY <1>1, <1>2, WritesFacts
<1>4. ASSUME NEW x \in DOMAIN run.memory
      PROVE  run.memory[x] = [i \in DOMAIN past'[x] |-> Shown(past'[x][i])]
  <2>1. x \in Nat /\ x < run.step /\ x \in DOMAIN past
    BY SMTT(40), <1>1, <1>2 DEF IInv, Progress
  <2>2. run.memory[x] = [i \in DOMAIN past[x] |-> Shown(past[x][i])]
    BY DEF IInv, Remembered, AtBatch
  <2>3. DOMAIN past'[x] = DOMAIN past[x] /\ \A y \in DOMAIN past[x] : past'[x][y] = past[x][y]
    BY <1>3, <2>1
  <2> QED
    BY <2>2, <2>3
<1> QED
  BY <1>4 DEF Remembered, Shown

-----------------------------------------------------------------------------
\* The call at hand is settled and the run goes on behind it.
LEMMA SettleKeeps ==
  ASSUME IInv, pc \in {"calling", "handler", "paused"}, Index(run) <= Len(run.batch),
         KeyOf(run) \notin run.guard.denials,
         NEW r, r = [run EXCEPT !.guard = r.guard], r.guard \in Guard,
         r.guard.used = run.guard.used, r.guard.denials = run.guard.denials,
         r.guard.fails = run.guard.fails, r.guard.max <= run.guard.max,
         NEW out \in Outcomes, NEW same, run' = Continued(r, out, same),
         NEW e \in PastCall, e.key = KeyOf(run), e.out = out, Writes(run.step, Index(run), e),
         pc' = "calling", call' \in ExecutionState \cup {NoCheckpoint}, call' # "executing",
         call' # NoCheckpoint => call # NoCheckpoint,
         UNCHANGED <<snap, config, version, crashes, frozen>>
  PROVE  IInv'
<1> DEFINE s == run.step
           i == Index(run)
           k == KeyOf(run)
           guard == Recorded(Rebuilt(r.guard), k, out, same)
<1>1. /\ run \in Run /\ snap \in Run /\ past \in Seq(Seq(PastCall)) /\ run.guard \in Guard
      /\ run.step \in Nat /\ run.step >= 1
      /\ run.results \in Seq(Results) /\ Len(run.results) \in Nat /\ Len(run.results) <= MaxBatch
      /\ run.batch \in Seq(Keys) /\ Len(run.batch) \in Nat /\ Len(run.batch) <= MaxBatch
      /\ run.memory \in Seq(Rounds) /\ run.stop \in BOOLEAN
      /\ i \in Nat /\ i = Len(run.results) + 1
  BY Typed DEF IInv
<1>2. /\ s \in DOMAIN past /\ i \in DOMAIN past[s] /\ <<s, i>> \in Places
      /\ k \in Keys /\ past[s][i].key = k /\ past[s][i].out = "none"
      /\ \A c \in Counted : Before(c, <<s, i>>)
  BY AtHand DEF AtBatch
<1>3. config \in Budgets /\ version \in 0..MaxVersion /\ frozen \in Budgets
  BY DEF IInv, TypeOK
<1>4. out # "none" /\ out \in Results /\ Outcomes \subseteq Results
  BY DEF Outcomes, Results
<1>5. /\ Rebuilt(r.guard) \in Guard
      /\ Rebuilt(r.guard).max <= r.guard.max /\ Rebuilt(r.guard).max <= config
      /\ Rebuilt(r.guard).used = run.guard.used /\ Rebuilt(r.guard).denials = run.guard.denials
      /\ Rebuilt(r.guard).fails = run.guard.fails
  BY <1>3, RebuiltFacts
<1>6. /\ guard \in Guard /\ guard.max = Rebuilt(r.guard).max
      /\ guard.used = run.guard.used + 1
      /\ out = "denied" => guard.denials = run.guard.denials \cup {k}
      /\ out # "denied" => guard.denials = run.guard.denials
      /\ out = "ok" => guard.fails[k] = 0
      /\ out # "ok" => guard.fails[k] = run.guard.fails[k] + 1
      /\ \A x \in Keys : x # k => guard.fails[x] = run.guard.fails[x]
  <2> DEFINE g == Rebuilt(r.guard)
  <2>1. guard = Recorded(g, k, out, same) /\ g \in Guard /\ k \in Keys
    BY <1>2, <1>5
  <2>2. g.max = Rebuilt(r.guard).max /\ g.used = run.guard.used
        /\ g.denials = run.guard.denials /\ g.fails = run.guard.fails
    BY <1>5
  <2> HIDE DEF g, guard, k
  <2>3. /\ guard \in Guard /\ guard.max = g.max /\ guard.used = g.used + 1
        /\ out = "denied" => guard.denials = g.denials \cup {k}
        /\ out # "denied" => guard.denials = g.denials
        /\ out = "ok" => guard.fails[k] = 0
        /\ out # "ok" => guard.fails[k] = g.fails[k] + 1
        /\ \A x \in Keys : x # k => guard.fails[x] = g.fails[x]
    BY <1>3, <2>1, RecordedFacts
  <2> QED
    BY <2>2, <2>3
<1>7. /\ run' = [run EXCEPT !.results = Append(run.results, out), !.guard = guard]
      /\ run'.step = s /\ run'.batch = run.batch /\ run'.memory = run.memory
      /\ run'.stop = run.stop /\ run'.results = Append(run.results, out) /\ run'.guard = guard
  <2>1. r.results = run.results /\ r.batch = run.batch /\ KeyOf(r) = k
    BY <1>1 DEF Run, KeyOf, Index
  <2>2. run' = [run EXCEPT !.results = Append(run.results, out), !.guard = guard]
    <3>1. run' = [r EXCEPT !.results = Append(r.results, out), !.guard = guard]
      BY <2>1 DEF Continued
    <3> HIDE DEF guard
    <3> QED
      BY <2>1, <3>1, <1>1 DEF Run
  <2> HIDE DEF guard
  <2> QED
    BY <1>1, <2>2 DEF Run
<1> HIDE DEF guard
<1>8. /\ Append(run.results, out) \in Seq(Results)
      /\ Len(run'.results) = i /\ Index(run') = i + 1
      /\ run'.results[i] = out
      /\ \A j \in 1..Len(run.results) : run'.results[j] = run.results[j]
  BY <1>1, <1>4, <1>7 DEF Index
<1>9. i <= Len(run.batch)
  OBVIOUS
<1>10. /\ past' \in Seq(Seq(PastCall)) /\ Len(past') = Len(past)
       /\ DOMAIN past' = DOMAIN past
       /\ \A x \in DOMAIN past : DOMAIN past'[x] = DOMAIN past[x]
       /\ \A x \in DOMAIN past : \A y \in DOMAIN past[x] :
            <<x, y>> # <<s, i>> => past'[x][y] = past[x][y]
       /\ past'[s][i] = e
  BY SMTT(40), <1>1, <1>2, WritesFacts
<1>11. TypeOK'
  <2>1. run'.results \in Rounds
    <3>1. run'.results \in Seq(Results) /\ Len(run'.results) <= MaxBatch
      BY <1>1, <1>7, <1>8, <1>9, ReActConstants
    <3> QED
      BY <3>1, RoundIsSequence
  <2>2. run' \in Run
    BY <1>1, <1>6, <1>7, <2>1 DEF Run
  <2>3. Len(run'.results) <= Len(run'.batch)
    BY <1>7, <1>8, <1>9
  <2>4. call' # NoCheckpoint => Index(snap)' <= Len(snap'.batch)
    BY DEF IInv, TypeOK, Index
  <2> QED
    BY <1>10, <2>2, <2>3, <2>4 DEF IInv, TypeOK, Place
<1>12. Checkpoint'
  BY DEF IInv, Checkpoint, AtCall
<1>13. Progress'
  <2>1. AtBatch /\ AtBatch'
    BY DEF AtBatch
  <2>2. Len(run'.memory) = run'.step - 1 /\ Len(past') = run'.step /\ run'.step <= MaxSteps
        /\ DOMAIN past'[run'.step] = DOMAIN run'.batch /\ Len(run'.batch) <= MaxBatch
    BY <1>2, <1>7, <1>10, <2>1 DEF IInv, Progress
  <2>3. ASSUME NEW j \in DOMAIN run.batch
        PROVE  /\ past'[s][j].key = run.batch[j]
               /\ j <= Len(run'.results) => Shown(past'[s][j]) = run'.results[j]
               /\ j > Len(run'.results) => past'[s][j].out = "none" /\ past'[s][j].starts = 0
    <3>1. /\ j \in DOMAIN past[s] /\ j \in Nat /\ j >= 1 /\ past[s][j].key = run.batch[j]
          /\ j <= Len(run.results) => Shown(past[s][j]) = run.results[j]
          /\ j > Len(run.results) => past[s][j].out = "none"
          /\ j > Len(run.results) /\ j > i => past[s][j].starts = 0
      BY SMTT(40), <1>1, <2>1 DEF IInv, Progress
    <3>2. CASE j = i
      <4>1. past'[s][j] = e /\ run'.results[j] = out
        BY <1>8, <1>10, <3>2
      <4>2. e.key = run.batch[j] /\ Shown(e) = out
        BY <1>2, <1>4, <3>1, <3>2 DEF Shown
      <4>3. ~(j > Len(run'.results))
        BY <1>1, <1>8, <3>2
      <4> QED
        BY <4>1, <4>2, <4>3
    <3>3. CASE j < i
      <4>1. past'[s][j] = past[s][j] /\ j \in 1..Len(run.results)
        BY SMTT(40), <1>1, <1>2, <1>10, <3>1, <3>3
      <4> QED
        BY SMTT(40), <1>1, <1>8, <3>1, <4>1
    <3>4. CASE j > i
      <4>1. past'[s][j] = past[s][j]
        BY SMTT(40), <1>1, <1>2, <1>10, <3>1, <3>4
      <4> QED
        BY SMTT(40), <1>1, <1>8, <3>1, <3>4, <4>1
    <3>5. j = i \/ j < i \/ j > i
      BY <1>1, <3>1
    <3> HIDE DEF i
    <3> QED
      BY <3>2, <3>3, <3>4, <3>5
  <2> QED
    BY SMTT(40), <1>7, <2>2, <2>3 DEF Progress, Shown
<1>14. Remembered'
  BY <1>7, MemoryKept DEF AtBatch
<1>15. Observed'
  <2>1. /\ run.guard.used = Cardinality(Counted) /\ run.guard.denials = Denied
        /\ \A x \in Keys : run.guard.fails[x] = Cardinality(Streak(x))
    BY DEF IInv, Observed, AtBatch
  <2>2. /\ Cardinality(Counted') = Cardinality(Counted) + 1
        /\ Denied' = IF out = "denied" THEN Denied \cup {k} ELSE Denied
        /\ \A x \in Keys :
             Cardinality(Streak(x)') =
               IF x = k THEN IF out = "ok" THEN 0 ELSE Cardinality(Streak(x)) + 1
               ELSE Cardinality(Streak(x))
    <3>1. past[s][i].key = e.key /\ e.out # "none"
      BY <1>2, <1>4
    <3> HIDE DEF s, i
    <3>2. Writes(s, i, e)
      BY DEF s, i
    <3>3. /\ Cardinality(Counted') = Cardinality(Counted) + 1
          /\ Denied' = IF e.out = "denied" THEN Denied \cup {e.key} ELSE Denied
          /\ \A x \in Keys :
               Cardinality(Streak(x)') =
                 IF x = e.key THEN IF e.out = "ok" THEN 0 ELSE Cardinality(Streak(x)) + 1
                 ELSE Cardinality(Streak(x))
      BY <1>1, <1>2, <3>1, <3>2, SettlingCounts
    <3> QED
      BY <3>3
  <2>3. run.guard.fails \in [Keys -> Nat]
    BY <1>1 DEF Guard
  <2>4. ASSUME NEW x \in Keys PROVE guard.fails[x] = Cardinality(Streak(x)')
    <3> HIDE DEF k
    <3> QED
      BY <1>6, <2>1, <2>2, <2>3
  <2> QED
    BY <1>6, <1>7, <2>1, <2>2, <2>4 DEF Observed
<1>16. Budgeted'
  <2>1. run.guard.max <= frozen
    BY DEF IInv, Budgeted, AtBatch
  <2>2. run.guard.max \in Nat /\ r.guard.max \in Nat /\ guard.max \in Nat /\ config \in Nat /\ frozen \in Nat
    BY <1>1, <1>3, <1>6, ReActConstants DEF Guard
  <2>3. guard.max <= frozen /\ guard.max <= config
    BY <1>5, <1>6, <2>1, <2>2
  <2> QED
    BY <1>7, <2>3 DEF Budgeted
<1>17. DenialsStick'
  BY DenialsKept DEF AtBatch
<1> QED
  BY <1>11, <1>12, <1>13, <1>14, <1>15, <1>16, <1>17 DEF IInv

\* The call at hand is started, asked for or noted: the checkpoint holds the run as it is.
LEMMA CallKeeps ==
  ASSUME IInv, pc \in {"calling", "paused"}, Index(run) <= Len(run.batch), ~run.stop,
         KeyOf(run) \notin run.guard.denials,
         NEW g \in Guard, g.used = run.guard.used, g.denials = run.guard.denials,
         g.fails = run.guard.fails, g.max = run.guard.max,
         run' = [run EXCEPT !.guard = g], snap' = run',
         pc' \in {"handler", "paused"}, call' \in ExecutionState,
         NEW e \in PastCall, e.key = KeyOf(run), e.out = "none", Writes(run.step, Index(run), e),
         UNCHANGED <<config, version, crashes, frozen>>
  PROVE  IInv'
<1> DEFINE s == run.step
           i == Index(run)
<1>1. /\ run \in Run /\ past \in Seq(Seq(PastCall)) /\ run.step \in Nat
      /\ Len(run.results) \in Nat /\ Len(run.results) <= Len(run.batch)
      /\ run.batch \in Seq(Keys) /\ Len(run.batch) \in Nat
      /\ i \in Nat /\ i = Len(run.results) + 1
  BY Typed DEF IInv
<1>2. /\ s \in DOMAIN past /\ i \in DOMAIN past[s] /\ <<s, i>> \in Places
      /\ past[s][i].key = KeyOf(run) /\ past[s][i].out = "none"
  BY AtHand DEF AtBatch
<1>3. /\ run' \in Run /\ run'.step = s /\ run'.batch = run.batch /\ run'.memory = run.memory
      /\ run'.stop = run.stop /\ run'.results = run.results /\ run'.guard = g
      /\ Index(run') = i /\ KeyOf(run') = KeyOf(run)
  BY <1>1 DEF Run, Index, KeyOf
<1>4. /\ past' \in Seq(Seq(PastCall)) /\ Len(past') = Len(past)
      /\ DOMAIN past' = DOMAIN past
      /\ \A x \in DOMAIN past : DOMAIN past'[x] = DOMAIN past[x]
      /\ \A x \in DOMAIN past : \A y \in DOMAIN past[x] :
           <<x, y>> # <<s, i>> => past'[x][y] = past[x][y]
      /\ past'[s][i] = e
  BY SMTT(40), <1>1, <1>2, WritesFacts
<1>5. TypeOK'
  BY <1>1, <1>3, <1>4 DEF IInv, TypeOK, Place
<1>6. Checkpoint'
  BY <1>1, <1>3 DEF Checkpoint, AtCall, ExecutionState, NoCheckpoint
<1>7. Progress'
  <2>1. AtBatch /\ AtBatch'
    BY DEF AtBatch
  <2>2. Len(run'.memory) = run'.step - 1 /\ Len(past') = run'.step /\ run'.step <= MaxSteps
        /\ DOMAIN past'[run'.step] = DOMAIN run'.batch /\ Len(run'.batch) <= MaxBatch
    BY <1>2, <1>3, <1>4, <2>1 DEF IInv, Progress
  <2>3. ASSUME NEW j \in DOMAIN run.batch
        PROVE  /\ past'[s][j].key = run.batch[j]
               /\ j <= Len(run.results) => Shown(past'[s][j]) = run.results[j]
               /\ j > Len(run.results) => past'[s][j].out = "none"
               /\ j > Len(run.results) /\ j > i => past'[s][j].starts = 0
    <3>1. /\ j \in DOMAIN past[s] /\ j \in Nat /\ past[s][j].key = run.batch[j]
          /\ j <= Len(run.results) => Shown(past[s][j]) = run.results[j]
          /\ j > Len(run.results) => past[s][j].out = "none"
          /\ j > Len(run.results) /\ j > i => past[s][j].starts = 0
      BY SMTT(40), <1>1, <2>1 DEF IInv, Progress
    <3>2. CASE j = i
      <4> HIDE DEF s, i
      <4>1. ~(j <= Len(run.results)) /\ ~(j > i)
        BY <1>1, <3>1, <3>2
      <4>2. past'[s][j] = e /\ past[s][i].key = run.batch[j]
        BY <1>4, <3>1, <3>2
      <4> QED
        BY <1>2, <4>1, <4>2
    <3>3. CASE j # i
      <4>1. past'[s][j] = past[s][j]
        BY <1>2, <1>4, <3>1, <3>3
      <4> QED
        BY <3>1, <4>1
    <3> QED
      BY <3>2, <3>3
  <2> QED
    BY <1>3, <2>2, <2>3 DEF Progress, Shown
<1>8. Remembered'
  BY <1>3, MemoryKept DEF AtBatch
<1>9. Observed'
  <2>1. /\ run.guard.used = Cardinality(Counted) /\ run.guard.denials = Denied
        /\ \A x \in Keys : run.guard.fails[x] = Cardinality(Streak(x))
    BY DEF IInv, Observed, AtBatch
  <2>2. Counted' = Counted /\ Denied' = Denied /\ \A x : Streak(x)' = Streak(x)
    BY <1>1, <1>2, NotingCounts
  <2> QED
    BY <1>3, <2>1, <2>2 DEF Observed
<1>10. Budgeted'
  BY <1>3 DEF IInv, Budgeted, AtBatch
<1>11. DenialsStick'
  BY DenialsKept DEF AtBatch
<1> QED
  BY <1>5, <1>6, <1>7, <1>8, <1>9, <1>10, <1>11 DEF IInv

-----------------------------------------------------------------------------
(* The actions on the call at hand.                                        *)

LEMMA CheckedFacts ==
  ASSUME IInv
  PROVE  LET r == Checked(run)
         IN  /\ r = [run EXCEPT !.guard = r.guard] /\ r.guard \in Guard
             /\ r.guard.used = run.guard.used /\ r.guard.denials = run.guard.denials
             /\ r.guard.fails = run.guard.fails /\ r.guard.max = run.guard.max
             /\ r.step = run.step /\ Index(r) = Index(run) /\ Entry(r) = Entry(run)
             /\ KeyOf(r) = KeyOf(run)
<1>1. run \in Run /\ run.guard \in Guard /\ version \in 0..MaxVersion
  BY Typed DEF IInv, TypeOK
<1> DEFINE g == Synced(run.guard)
<1>2. g \in Guard /\ g.max = run.guard.max /\ g.used = run.guard.used
      /\ g.denials = run.guard.denials /\ g.fails = run.guard.fails
  BY <1>1, SyncedFacts
<1>3. Checked(run) = [run EXCEPT !.guard = g]
  BY DEF Checked
<1> HIDE DEF g
<1> QED
  BY <1>1, <1>2, <1>3 DEF Run, Index, Entry, KeyOf

\* A run whose guard is not touched.
LEMMA SameGuard ==
  ASSUME IInv
  PROVE  run = [run EXCEPT !.guard = run.guard]
BY Typed DEF IInv, Run

LEMMA EntryFacts ==
  ASSUME NEW c \in PastCall, NEW out \in Outcomes
  PROVE  /\ Settled(c, out) \in PastCall /\ Settled(c, out).key = c.key
         /\ Settled(c, out).out = out /\ Settled(c, out).starts = c.starts
         /\ Started(c) \in PastCall /\ Started(c).key = c.key /\ Started(c).out = c.out
         /\ Pardoned(c) \in PastCall /\ Pardoned(c).key = c.key /\ Pardoned(c).out = c.out
         /\ Pardoned(c).starts = c.starts /\ Pardoned(c).pardons = c.pardons + 1
         /\ Started(c).pardons = c.pardons /\ Settled(c, out).pardons = c.pardons
BY DEF Settled, Started, Pardoned, PastCall

LEMMA DeclineKeeps == ASSUME IInv, NEW out, Decline(out) PROVE IInv'
<1> DEFINE r == Checked(run)
<1>1. /\ r = [run EXCEPT !.guard = r.guard] /\ r.guard \in Guard
      /\ r.guard.used = run.guard.used /\ r.guard.denials = run.guard.denials
      /\ r.guard.fails = run.guard.fails /\ r.guard.max = run.guard.max
      /\ r.step = run.step /\ Index(r) = Index(run) /\ Entry(r) = Entry(run)
  BY CheckedFacts
<1>2. /\ pc = "calling" /\ Index(run) <= Len(run.batch) /\ ~Refuses(r.guard, KeyOf(run))
      /\ out \in Outcomes /\ run' = Continued(r, out, FALSE)
      /\ Note(r, Settled(Entry(r), out))
      /\ UNCHANGED <<pc, call, snap, config, version, crashes, frozen>>
  BY DEF Decline, Passes, InBatch, Outcomes
<1> DEFINE e == Settled(Entry(run), out)
<1>3. e \in PastCall /\ e.key = KeyOf(run) /\ e.out = out
  BY <1>2, AtHand, EntryFacts DEF AtBatch
<1> HIDE DEF r, e
<1>4. Writes(run.step, Index(run), e)
  BY <1>1, <1>2 DEF Note, Writes, e
<1>5. KeyOf(run) \notin run.guard.denials
  BY <1>1, <1>2 DEF Refuses
<1>6. call \in ExecutionState \cup {NoCheckpoint} /\ call # "executing"
  BY <1>2 DEF IInv, TypeOK, Checkpoint
<1>7. r.guard.max <= run.guard.max
  BY <1>1, ReActConstants DEF Guard
<1> QED
  BY <1>1, <1>2, <1>3, <1>4, <1>5, <1>6, <1>7, SettleKeeps

\* The call of the checkpoint is settled: by its handler or by the operator.
LEMMA CheckpointSettles ==
  ASSUME IInv, pc \in {"handler", "paused"}, NEW out \in Outcomes, NEW same \in BOOLEAN,
         run' = Continued(snap, out, same), pc' = "calling", call # NoCheckpoint,
         call' \in {"completed", "denied"}, NEW e \in PastCall, e.key = KeyOf(snap), e.out = out,
         Note(snap, e), UNCHANGED <<snap, config, version, crashes, frozen>>
  PROVE  IInv'
<1>1. /\ run = snap /\ Index(run) <= Len(run.batch) /\ KeyOf(run) \notin run.guard.denials
  BY DEF IInv, Checkpoint, AtCall
<1>2. run.guard \in Guard /\ run.guard.max <= run.guard.max /\ run = [run EXCEPT !.guard = run.guard]
  <2>1. run.guard \in Guard
    BY Typed DEF IInv
  <2>2. run.guard.max \in Nat
    BY <2>1, ReActConstants DEF Guard
  <2> QED
    BY <2>1, <2>2, SameGuard
<1>3. Writes(run.step, Index(run), e)
  BY <1>1 DEF Note, Writes
<1>4. /\ call' \in ExecutionState \cup {NoCheckpoint} /\ call' # "executing"
  BY DEF ExecutionState
<1> QED
  BY <1>1, <1>2, <1>3, <1>4, SettleKeeps

LEMMA CheckpointEntry ==
  ASSUME IInv, AtCall
  PROVE  /\ run = snap /\ Entry(snap) \in PastCall /\ Entry(snap).key = KeyOf(snap)
         /\ Entry(snap).out = "none" /\ Index(run) <= Len(run.batch) /\ ~run.stop
         /\ KeyOf(run) \notin run.guard.denials
<1>1. run = snap /\ Index(run) <= Len(run.batch) /\ ~run.stop /\ KeyOf(run) \notin run.guard.denials
  BY DEF IInv, Checkpoint
<1>2. AtBatch
  BY DEF AtCall, AtBatch
<1> QED
  BY <1>1, <1>2, AtHand

LEMMA SettlesKeep ==
  ASSUME IInv,
         \/ \E out \in Outcomes : Reconcile(out) \/ \E same \in BOOLEAN : FinishCall(out, same)
         \/ Reject \/ RetryDenied
  PROVE  IInv'
<1>1. AtCall
  BY DEF AtCall, Reconcile, FinishCall, Reject, RetryDenied
<1>2. Entry(snap) \in PastCall /\ Entry(snap).key = KeyOf(snap)
  BY <1>1, CheckpointEntry
<1>3. ASSUME NEW out \in Outcomes, NEW same \in BOOLEAN, FinishCall(out, same) PROVE IInv'
  <2>1. /\ pc = "handler" /\ run' = Continued(snap, out, same) /\ pc' = "calling"
        /\ call' = "completed" /\ Note(snap, Settled(Entry(snap), out))
        /\ UNCHANGED <<snap, config, version, crashes, frozen>>
    BY <1>3 DEF FinishCall
  <2>2. /\ Settled(Entry(snap), out) \in PastCall /\ Settled(Entry(snap), out).key = KeyOf(snap)
        /\ Settled(Entry(snap), out).out = out
    BY <1>2, EntryFacts
  <2>3. call # NoCheckpoint
    BY <1>1 DEF IInv, Checkpoint
  <2> QED
    BY <2>1, <2>2, <2>3, CheckpointSettles
<1>4. ASSUME NEW out \in Outcomes, Reconcile(out) PROVE IInv'
  <2>1. /\ pc = "paused" /\ run' = Continued(snap, out, FALSE) /\ pc' = "calling"
        /\ call' = "completed" /\ call # NoCheckpoint /\ Note(snap, Settled(Entry(snap), out))
        /\ UNCHANGED <<snap, config, version, crashes, frozen>>
    BY <1>4 DEF Reconcile, SettleCall, NoCheckpoint
  <2>2. /\ Settled(Entry(snap), out) \in PastCall /\ Settled(Entry(snap), out).key = KeyOf(snap)
        /\ Settled(Entry(snap), out).out = out
    BY <1>2, EntryFacts
  <2> QED
    BY <2>1, <2>2, CheckpointSettles
<1>5. "denied" \in Outcomes
  BY DEF Outcomes
<1>6. CASE Reject
  <2>1. /\ pc = "paused" /\ run' = Continued(snap, "denied", FALSE) /\ pc' = "calling"
        /\ call' = "denied" /\ call # NoCheckpoint /\ Note(snap, Settled(Entry(snap), "denied"))
        /\ UNCHANGED <<snap, config, version, crashes, frozen>>
    BY <1>6 DEF Reject, SettleCall, NoCheckpoint
  <2>2. /\ Settled(Entry(snap), "denied") \in PastCall
        /\ Settled(Entry(snap), "denied").key = KeyOf(snap)
        /\ Settled(Entry(snap), "denied").out = "denied"
    BY <1>2, <1>5, EntryFacts
  <2> QED
    BY <1>5, <2>1, <2>2, CheckpointSettles
<1>7. CASE RetryDenied
  <2> DEFINE e == Settled(Pardoned(Entry(snap)), "denied")
  <2>1. /\ pc = "paused" /\ run' = Continued(snap, "denied", FALSE) /\ pc' = "calling"
        /\ call' = "denied" /\ call # NoCheckpoint /\ Note(snap, e)
        /\ UNCHANGED <<snap, config, version, crashes, frozen>>
    BY <1>7 DEF RetryDenied, SettleCall, NoCheckpoint
  <2>2. Pardoned(Entry(snap)) \in PastCall /\ Pardoned(Entry(snap)).key = KeyOf(snap)
    BY <1>2, <1>5, EntryFacts
  <2>3. e \in PastCall /\ e.key = KeyOf(snap) /\ e.out = "denied"
    BY <1>5, <2>2, EntryFacts
  <2> HIDE DEF e
  <2> QED
    BY <1>5, <2>1, <2>3, CheckpointSettles
<1> QED
  BY <1>3, <1>4, <1>6, <1>7

\* To write what is there changes nothing.
LEMMA IdleWrite ==
  ASSUME NEW s \in DOMAIN past, NEW i \in DOMAIN past[s], past \in Seq(Seq(PastCall)),
         past' = past
  PROVE  Writes(s, i, past[s][i])
<1>1. past[s] = [past[s] EXCEPT ![i] = past[s][i]]
  <2>1. past[s] \in Seq(PastCall)
    OBVIOUS
  <2> QED
    BY <2>1
<1>2. past = [past EXCEPT ![s] = past[s]]
  OBVIOUS
<1> QED
  BY <1>1, <1>2 DEF Writes

LEMMA CallsKeep ==
  ASSUME IInv, Start \/ AskApproval PROVE IInv'
<1> DEFINE r == Checked(run)
           old == Entry(run)
<1>1. /\ r = [run EXCEPT !.guard = r.guard] /\ r.guard \in Guard
      /\ r.guard.used = run.guard.used /\ r.guard.denials = run.guard.denials
      /\ r.guard.fails = run.guard.fails /\ r.guard.max = run.guard.max
      /\ r.step = run.step /\ Index(r) = Index(run) /\ Entry(r) = old
  BY CheckedFacts
<1>2. /\ pc = "calling" /\ Index(run) <= Len(run.batch) /\ ~run.stop
      /\ ~Refuses(r.guard, KeyOf(run)) /\ run' = r /\ snap' = r
      /\ UNCHANGED <<config, version, crashes, frozen>>
  BY DEF Start, AskApproval, Passes, InBatch
<1>3. /\ run.step \in DOMAIN past /\ Index(run) \in DOMAIN past[run.step]
      /\ old = past[run.step][Index(run)]
      /\ old \in PastCall /\ old.key = KeyOf(run) /\ old.out = "none"
  BY <1>2, AtHand DEF AtBatch
<1>4. KeyOf(run) \notin run.guard.denials
  BY <1>1, <1>2 DEF Refuses
<1>5. CASE Start
  <2>1. pc' = "handler" /\ call' = "executing" /\ Note(r, Started(Entry(r)))
    BY <1>5 DEF Start
  <2> HIDE DEF r, old
  <2>2. Writes(run.step, Index(run), Started(old))
    BY <1>1, <2>1 DEF Note, Writes
  <2>3. Started(old) \in PastCall /\ Started(old).key = KeyOf(run) /\ Started(old).out = "none"
    BY <1>3, EntryFacts DEF Outcomes
  <2>4. call' \in ExecutionState
    BY <2>1 DEF ExecutionState
  <2> QED
    BY <1>1, <1>2, <1>4, <2>1, <2>2, <2>3, <2>4, CallKeeps
<1>6. CASE AskApproval
  <2>1. pc' = "paused" /\ call' = "awaiting_approval" /\ past' = past
    BY <1>6 DEF AskApproval
  <2>2. past \in Seq(Seq(PastCall))
    BY Typed DEF IInv
  <2> HIDE DEF r, old
  <2>3. Writes(run.step, Index(run), old)
    BY <1>3, <2>1, <2>2, IdleWrite
  <2>4. call' \in ExecutionState
    BY <2>1 DEF ExecutionState
  <2> QED
    BY <1>1, <1>2, <1>3, <1>4, <2>1, <2>3, <2>4, CallKeeps
<1> QED
  BY <1>5, <1>6

LEMMA RestartsKeep ==
  ASSUME IInv, Approve \/ RetryAllowed \/ RetryAsked PROVE IInv'
<1> DEFINE old == Entry(snap)
<1>1. /\ pc = "paused" /\ UNCHANGED <<run, snap, config, version, crashes, frozen>>
      /\ pc' \in {"handler", "paused"} /\ call' \in {"executing", "awaiting_approval"}
      /\ Note(snap, Started(old)) \/ Note(snap, Pardoned(old)) \/ Note(snap, Started(Pardoned(old)))
  BY DEF Approve, RetryAllowed, RetryAsked
<1>2. /\ run = snap /\ old \in PastCall /\ old.key = KeyOf(snap)
      /\ old.out = "none" /\ Index(run) <= Len(run.batch) /\ ~run.stop
      /\ KeyOf(run) \notin run.guard.denials
  BY <1>1, CheckpointEntry DEF AtCall
<1> HIDE DEF old
<1>3. \A c \in PastCall : /\ Started(c) \in PastCall /\ Pardoned(c) \in PastCall
                          /\ Started(c).key = c.key /\ Started(c).out = c.out
                          /\ Pardoned(c).key = c.key /\ Pardoned(c).out = c.out
  BY EntryFacts DEF Outcomes
<1>4. PICK e \in PastCall : Note(snap, e) /\ e.key = KeyOf(run) /\ e.out = "none"
  BY <1>1, <1>2, <1>3
<1>5. Writes(run.step, Index(run), e)
  BY <1>2, <1>4 DEF Note, Writes
<1>6. run.guard \in Guard /\ run = [run EXCEPT !.guard = run.guard]
  BY Typed, SameGuard DEF IInv
<1>7. call' \in ExecutionState
  BY <1>1 DEF ExecutionState
<1> DEFINE g == run.guard
<1>8. g \in Guard /\ g.used = run.guard.used /\ g.denials = run.guard.denials
      /\ g.fails = run.guard.fails /\ g.max = run.guard.max
      /\ run' = [run EXCEPT !.guard = g] /\ snap' = run'
  BY <1>1, <1>2, <1>6
<1> HIDE DEF g
<1> QED
  BY <1>1, <1>2, <1>4, <1>5, <1>7, <1>8, CallKeeps

-----------------------------------------------------------------------------
(* The other actions.                                                      *)

LEMMA SamePast ==
  ASSUME past' = past
  PROVE  /\ Counted' = Counted /\ Denied' = Denied /\ \A k : Streak(k)' = Streak(k)
         /\ Places' = Places /\ \A c : Was(c)' = Was(c)
         /\ DenialsStick <=> DenialsStick'
<1>1. Places' = Places /\ \A c : Was(c)' = Was(c)
  BY DEF Places, Was
<1>2. Counted' = Counted
  BY <1>1 DEF Counted
<1>3. Denied' = Denied /\ \A k : Streak(k)' = Streak(k)
  BY <1>1, <1>2, SameCounts
<1>4. DenialsStick <=> DenialsStick'
  BY <1>1 DEF DenialsStick, Before
<1> QED
  BY <1>1, <1>2, <1>3, <1>4

\* The run ends.
LEMMA EndKeeps ==
  ASSUME IInv, pc' = "ended", run' \in {run, snap},
         UNCHANGED <<call, snap, config, version, frozen, past>>, crashes' \in 0..MaxCrashes
  PROVE  IInv'
<1>1. TypeOK'
  <2>1. run' \in Run /\ Len(run'.results) <= Len(run'.batch)
    BY DEF IInv, TypeOK, Checkpoint
  <2> QED
    BY <2>1 DEF IInv, TypeOK, Place, Index
<1>2. Checkpoint' /\ Progress' /\ Remembered' /\ Observed' /\ Budgeted'
  BY DEF IInv, Checkpoint, Progress, Remembered, Observed, Budgeted, AtCall, AtBatch
<1>3. DenialsStick'
  BY SamePast DEF IInv
<1> QED
  BY <1>1, <1>2, <1>3 DEF IInv

\* The run stands still.
LEMMA StillKeeps ==
  ASSUME IInv, UNCHANGED <<run, snap, frozen, past>>,
         version' \in 0..MaxVersion, config' \in Budgets, crashes' \in 0..MaxCrashes,
         \/ pc' = pc /\ call' = call /\ (config' = config \/ pc \in {"paused", "gone"})
         \/ pc = "asking" /\ pc' = "finalizing" /\ call' = call
         \/ AtCall /\ pc' \in {"paused", "gone"} /\ call' \in ExecutionState
  PROVE  IInv'
<1>1. TypeOK'
  BY DEF IInv, TypeOK, Place, Index, AtCall, Checkpoint
<1>2. Checkpoint'
  BY DEF IInv, Checkpoint, AtCall, Index, KeyOf, ExecutionState, NoCheckpoint
<1>3. Progress' /\ Remembered'
  BY DEF IInv, Progress, Remembered, AtBatch, AtCall, Index, Shown
<1>4. Observed'
  BY SamePast DEF IInv, Observed, AtBatch, AtCall
<1>5. Budgeted'
  BY DEF IInv, Budgeted, AtBatch, AtCall
<1>6. DenialsStick'
  BY SamePast DEF IInv
<1> QED
  BY <1>1, <1>2, <1>3, <1>4, <1>5, <1>6 DEF IInv

LEMMA OthersKeep ==
  ASSUME IInv,
         \/ StopBeforeAsking \/ AnswerFails \/ AnswerText \/ Finalize \/ GiveUp
         \/ Interrupted \/ ConfirmExecuted \/ Crash \/ Edit
         \/ \E budget \in Budgets : Restart(budget)
  PROVE  IInv'
<1>1. version \in 0..MaxVersion /\ config \in Budgets /\ crashes \in 0..MaxCrashes
  BY DEF IInv, TypeOK
<1>2. CASE StopBeforeAsking \/ AnswerFails
  BY <1>1, <1>2, StillKeeps DEF StopBeforeAsking, AnswerFails, MayAsk
<1>3. CASE AnswerText \/ Finalize \/ GiveUp
  BY <1>1, <1>3, EndKeeps DEF AnswerText, Finalize, GiveUp
<1>4. CASE Interrupted
  BY <1>1, <1>4, StillKeeps DEF Interrupted, AtCall, ExecutionState
<1>5. CASE ConfirmExecuted
  BY <1>1, <1>5, StillKeeps DEF ConfirmExecuted, AtCall, ExecutionState
<1>6. CASE Crash
  <2>1. crashes' \in 0..MaxCrashes
    BY <1>1, <1>6, ReActConstants DEF Crash
  <2>2. CASE call = "executing"
    <3>1. pc = "handler" /\ run = snap
      BY <1>6, <2>2 DEF IInv, Checkpoint, Crash, AtCall
    <3>2. call \in ExecutionState
      BY <2>2 DEF ExecutionState
    <3>3. /\ pc' = "gone" /\ UNCHANGED <<run, call, snap, config, version, frozen, past>>
      BY <1>6, <2>2, <3>1 DEF Crash
    <3> QED
      BY <1>1, <2>1, <3>1, <3>2, <3>3, StillKeeps DEF AtCall
  <2>3. CASE call # "executing"
    BY <1>6, <2>1, <2>3, EndKeeps DEF Crash
  <2> QED
    BY <2>2, <2>3
<1>7. CASE Edit
  <2>1. version' \in 0..MaxVersion
    BY <1>1, <1>7, ReActConstants DEF Edit
  <2> QED
    BY <1>1, <1>7, <2>1, StillKeeps DEF Edit
<1>8. ASSUME NEW budget \in Budgets, Restart(budget) PROVE IInv'
  BY <1>1, <1>8, StillKeeps DEF Restart
<1> QED
  BY <1>2, <1>3, <1>4, <1>5, <1>6, <1>7, <1>8

\* A call that is refused is shown as one that was not executed, which it was not.
LEMMA SkipKeeps == ASSUME IInv, Skip PROVE IInv'
<1> DEFINE g == IF run.stop THEN run.guard ELSE Synced(run.guard)
           s == run.step
           i == Index(run)
<1>1. /\ run \in Run /\ past \in Seq(Seq(PastCall)) /\ run.step \in Nat
      /\ run.results \in Seq(Results) /\ Len(run.results) \in Nat
      /\ run.batch \in Seq(Keys) /\ Len(run.batch) \in Nat /\ Len(run.batch) <= MaxBatch
      /\ run.guard \in Guard /\ i \in Nat /\ i = Len(run.results) + 1
  BY Typed DEF IInv
<1>2. version \in 0..MaxVersion
  BY DEF IInv, TypeOK
<1>3. g \in Guard /\ g.max = run.guard.max /\ g.used = run.guard.used
      /\ g.denials = run.guard.denials /\ g.fails = run.guard.fails
  BY <1>1, <1>2, SyncedFacts
<1>4. /\ pc = "calling" /\ i <= Len(run.batch)
      /\ run' = [run EXCEPT !.results = Append(@, "unexecuted"), !.stop = TRUE, !.guard = g]
      /\ UNCHANGED <<pc, call, snap, config, version, crashes, frozen, past>>
  BY DEF Skip, InBatch
<1>5. /\ i \in DOMAIN past[s] /\ past[s][i].out = "none" /\ past[s][i].starts = 0
  BY <1>4, AtHand DEF AtBatch
<1> HIDE DEF g
<1>6. /\ run'.step = s /\ run'.batch = run.batch /\ run'.memory = run.memory
      /\ run'.stop = TRUE /\ run'.results = Append(run.results, "unexecuted") /\ run'.guard = g
  BY <1>1, <1>4 DEF Run
<1>7. /\ run'.results \in Seq(Results) /\ Len(run'.results) = i /\ Index(run') = i + 1
      /\ run'.results[i] = "unexecuted"
      /\ \A j \in 1..Len(run.results) : run'.results[j] = run.results[j]
  BY <1>1, <1>6 DEF Index, Results
<1>8. TypeOK'
  <2>1. run'.results \in Seq(Results) /\ Len(run'.results) <= MaxBatch
    BY <1>1, <1>4, <1>7, ReActConstants
  <2>2. run'.results \in Rounds
    BY <2>1, RoundIsSequence
  <2>3. run' \in Run
    BY <1>1, <1>3, <1>4, <1>6, <2>2 DEF Run
  <2>4. Len(run'.results) <= Len(run'.batch)
    BY <1>4, <1>6, <1>7
  <2> QED
    BY <1>4, <2>3, <2>4 DEF IInv, TypeOK, Index
<1>9. Checkpoint'
  BY <1>4 DEF IInv, Checkpoint, AtCall
<1>10. Progress'
  <2>1. AtBatch
    BY <1>4 DEF AtBatch
  <2>2. ASSUME NEW j \in DOMAIN run.batch
        PROVE  /\ past[s][j].key = run.batch[j]
               /\ j <= Len(run'.results) => Shown(past[s][j]) = run'.results[j]
               /\ j > Len(run'.results) => past[s][j].out = "none" /\ past[s][j].starts = 0
    <3>1. /\ j \in DOMAIN past[s] /\ j \in Nat /\ j >= 1 /\ past[s][j].key = run.batch[j]
          /\ j <= Len(run.results) => Shown(past[s][j]) = run.results[j]
          /\ j > Len(run.results) => past[s][j].out = "none" /\ past[s][j].starts = 0
      BY SMTT(40), <1>1, <1>4, <2>1 DEF IInv, Progress
    <3>2. j <= i /\ j # i => j \in 1..Len(run.results)
      BY <1>1, <3>1
    <3>3. Shown(past[s][i]) = "unexecuted"
      BY <1>5 DEF Shown
    <3>4. j > i => j > Len(run.results)
      BY <1>1, <3>1
    <3>5. j \in 1..Len(run.results) => j <= Len(run.results)
      BY <1>1
    <3> HIDE DEF i, s
    <3> QED
      BY <1>7, <3>1, <3>2, <3>3, <3>4, <3>5
  <2>3. /\ Len(run.memory) = s - 1 /\ Len(past) = s /\ s <= MaxSteps
        /\ DOMAIN past[s] = DOMAIN run.batch
    BY <2>1 DEF IInv, Progress
  <2>4. /\ Len(run'.memory) = run'.step - 1 /\ Len(past') = run'.step /\ run'.step <= MaxSteps
        /\ DOMAIN past'[run'.step] = DOMAIN run'.batch /\ Len(run'.batch) <= MaxBatch
        /\ \A j \in DOMAIN run'.batch :
             /\ past'[run'.step][j].key = run'.batch[j]
             /\ j <= Len(run'.results) => Shown(past'[run'.step][j]) = run'.results[j]
             /\ j > Len(run'.results) =>
                  past'[run'.step][j].out = "none" /\ past'[run'.step][j].starts = 0
    <3>1. run'.step = s /\ run'.batch = run.batch /\ run'.memory = run.memory /\ past' = past
      BY <1>4, <1>6
    <3> HIDE DEF s
    <3> QED
      BY <1>1, <2>2, <2>3, <3>1
  <2> QED
    BY <1>4, <2>4 DEF Progress, Shown
<1>11. Remembered'
  BY <1>4, <1>6 DEF IInv, Remembered, Shown
<1>12. Observed'
  BY <1>3, <1>4, <1>6, SamePast DEF IInv, Observed, AtBatch
<1>13. Budgeted'
  BY <1>3, <1>4, <1>6 DEF IInv, Budgeted, AtBatch
<1>14. DenialsStick'
  BY <1>4, SamePast DEF IInv
<1> QED
  BY <1>8, <1>9, <1>10, <1>11, <1>12, <1>13, <1>14 DEF IInv

\* A new round begins with calls nobody knows of.
LEMMA AnswerKeeps == ASSUME IInv, NEW batch \in Batches, AnswerCalls(batch) PROVE IInv'
<1> DEFINE s == run.step
           round == [i \in DOMAIN batch |->
                       [key |-> batch[i], out |-> "none", starts |-> 0, pardons |-> 0]]
<1>1. /\ run \in Run /\ past \in Seq(Seq(PastCall)) /\ run.step \in Nat /\ run.step >= 1
      /\ run.guard \in Guard
  BY Typed DEF IInv
<1>2. /\ pc = "asking" /\ run.step <= MaxSteps /\ pc' = "calling"
      /\ run' = [run EXCEPT !.batch = batch]
      /\ past' = Append(SubSeq(past, 1, s - 1), round)
      /\ UNCHANGED <<call, snap, config, version, crashes, frozen>>
  BY DEF AnswerCalls, MayAsk
<1>3. batch \in Seq(Keys) /\ 1 <= Len(batch) /\ Len(batch) <= MaxBatch
  BY BatchIsSequence
<1>4. round \in Seq(PastCall) /\ DOMAIN round = DOMAIN batch /\ DOMAIN batch = 1..Len(batch)
      /\ \A i \in DOMAIN batch : /\ round[i].key = batch[i] /\ round[i].out = "none"
                                 /\ round[i].starts = 0
  <2>1. DOMAIN batch = 1..Len(batch) /\ Len(batch) \in Nat /\ \A i \in 1..Len(batch) : batch[i] \in Keys
    BY <1>3
  <2>2. round \in [1..Len(batch) -> PastCall]
    BY <2>1 DEF PastCall
  <2>3. round \in Seq(PastCall)
    BY <2>1, <2>2
  <2> QED
    BY <2>1, <2>3
<1> HIDE DEF round
<1>5. /\ Len(past) = s - 1 /\ run.batch = << >> /\ run.results = << >> /\ ~run.stop
      /\ Len(run.memory) = s - 1
  BY <1>2 DEF IInv, Progress
<1>6. /\ past' \in Seq(Seq(PastCall)) /\ Len(past') = s /\ past'[s] = round
      /\ \A x \in DOMAIN past : past'[x] = past[x]
      /\ DOMAIN past = 1..(s - 1) /\ DOMAIN past' = 1..s
  <2>1. SubSeq(past, 1, s - 1) = past
    BY <1>1, <1>5
  <2>2. past' = Append(past, round)
    BY <1>2, <2>1
  <2> QED
    BY SMTT(40), <1>1, <1>4, <1>5, <2>2
<1>7. /\ run' \in Run /\ run'.step = s /\ run'.batch = batch /\ run'.results = << >>
      /\ run'.memory = run.memory /\ run'.stop = run.stop /\ run'.guard = run.guard
  BY <1>1, <1>2, <1>5 DEF Run
<1>8. TypeOK'
  BY <1>2, <1>3, <1>6, <1>7 DEF IInv, TypeOK, Place, Index
<1>9. Checkpoint'
  BY <1>2 DEF IInv, Checkpoint, AtCall
<1>10. Progress'
  <2>1. ASSUME NEW j \in DOMAIN batch
        PROVE  j >= 1 /\ past'[s][j].key = batch[j] /\ past'[s][j].out = "none" /\ past'[s][j].starts = 0
    BY <1>3, <1>4, <1>6
  <2>2. Len(run'.results) = 0 /\ \A j \in DOMAIN batch : ~(j <= 0)
    BY <1>3, <1>7, <2>1
  <2>3. /\ Len(run'.memory) = run'.step - 1 /\ Len(past') = run'.step /\ run'.step <= MaxSteps
        /\ DOMAIN past'[run'.step] = DOMAIN run'.batch /\ Len(run'.batch) <= MaxBatch
        /\ \A j \in DOMAIN run'.batch :
             /\ past'[run'.step][j].key = run'.batch[j]
             /\ j <= Len(run'.results) => Shown(past'[run'.step][j]) = run'.results[j]
             /\ j > Len(run'.results) =>
                  past'[run'.step][j].out = "none" /\ past'[run'.step][j].starts = 0
    BY <1>2, <1>3, <1>4, <1>5, <1>6, <1>7, <2>1, <2>2
  <2> QED
    BY <1>2, <2>3 DEF Progress, Shown
<1>11. Remembered'
  <2>1. run.memory \in Seq(Rounds)
    BY Typed DEF IInv
  <2>2. \A x \in DOMAIN run.memory : x \in DOMAIN past
    BY <1>1, <1>5, <1>6, <2>1
  <2>3. ASSUME NEW x \in DOMAIN run.memory
        PROVE  run.memory[x] = [i \in DOMAIN past'[x] |-> Shown(past'[x][i])]
    <3>1. past'[x] = past[x]
      BY <1>6, <2>2
    <3>2. run.memory[x] = [i \in DOMAIN past[x] |-> Shown(past[x][i])]
      BY <1>2 DEF IInv, Remembered
    <3> QED
      BY <3>1, <3>2
  <2> QED
    BY <1>7, <2>3 DEF Remembered, Shown
<1>12. /\ \A c \in Places : c \in Places' /\ Was(c)' = Was(c)
       /\ \A c \in Places' : c \notin Places => Was(c)'.out = "none" /\ Was(c)'.starts = 0
  <2>1. ASSUME NEW c \in Places PROVE c \in Places' /\ Was(c)' = Was(c)
    BY <1>6 DEF Places, Was
  <2>2. ASSUME NEW c \in Places', c \notin Places
        PROVE  Was(c)'.out = "none" /\ Was(c)'.starts = 0
    <3>1. c \in (1..MaxSteps) \X (1..MaxBatch) /\ c[1] \in DOMAIN past' /\ c[2] \in DOMAIN past'[c[1]]
      BY DEF Places
    <3>2. c[1] = s
      BY <1>1, <1>6, <2>2, <3>1 DEF Places
    <3> QED
      BY <1>4, <1>6, <3>1, <3>2 DEF Was
  <2> QED
    BY <2>1, <2>2
<1>13. Counted' = Counted
  BY <1>12 DEF Counted
<1>14. Denied' = Denied /\ \A k : Streak(k)' = Streak(k)
  <2>1. \A c \in Counted : Was(c)'.key = Was(c).key /\ Was(c)'.out = Was(c).out
    BY <1>12 DEF Counted
  <2> QED
    BY <1>13, <2>1, SameCounts
<1>15. Observed'
  BY <1>2, <1>7, <1>13, <1>14 DEF IInv, Observed, AtBatch
<1>16. Budgeted'
  BY <1>2, <1>7 DEF IInv, Budgeted, AtBatch
<1>17. DenialsStick'
  <2> SUFFICES ASSUME NEW c \in Places', NEW d \in Places', Before(c, d), Was(c)'.out = "denied",
                      Was(d)'.key = Was(c)'.key
               PROVE  Was(d)'.out = "none" /\ Was(d)'.starts = 0
    BY DEF DenialsStick, Before
  <2>1. c \in Places
    BY <1>12
  <2> QED
    BY <1>12, <2>1 DEF IInv, DenialsStick
<1> QED
  BY <1>8, <1>9, <1>10, <1>11, <1>15, <1>16, <1>17 DEF IInv

\* A round that is done is remembered as it was.
LEMMA CloseKeeps == ASSUME IInv, CloseBatch PROVE IInv'
<1> DEFINE s == run.step
<1>1. /\ run \in Run /\ past \in Seq(Seq(PastCall)) /\ run.step \in Nat /\ run.step >= 1
      /\ run.results \in Seq(Results) /\ Len(run.results) \in Nat
      /\ run.batch \in Seq(Keys) /\ Len(run.batch) \in Nat /\ Len(run.results) <= Len(run.batch)
      /\ run.memory \in Seq(Rounds) /\ run.stop \in BOOLEAN /\ run.guard \in Guard
      /\ Index(run) = Len(run.results) + 1
  BY Typed DEF IInv
<1>2. /\ pc = "calling" /\ ~(Index(run) <= Len(run.batch))
      /\ run' = [run EXCEPT !.memory = Append(@, run.results), !.batch = << >>,
                            !.results = << >>, !.step = IF run.stop THEN @ ELSE @ + 1]
      /\ pc' = IF run.stop THEN "finalizing" ELSE "asking"
      /\ UNCHANGED <<call, snap, config, version, crashes, frozen, past>>
  BY DEF CloseBatch, InBatch
<1>3. AtBatch
  BY <1>2 DEF AtBatch
<1>4. Len(run.results) = Len(run.batch) /\ run.results \in Rounds
  BY <1>1, <1>2 DEF Run
<1>5. /\ run'.step = IF run.stop THEN s ELSE s + 1
      /\ run'.batch = << >> /\ run'.results = << >>
      /\ run'.memory = Append(run.memory, run.results) /\ run'.stop = run.stop
      /\ run'.guard = run.guard
      /\ DOMAIN run' = DOMAIN run
  BY <1>1, <1>2 DEF Run
<1>6. Len(run.memory) = s - 1 /\ Len(past) = s /\ s <= MaxSteps
  BY <1>3 DEF IInv, Progress
<1>7. TypeOK'
  <2>1. run'.memory \in Seq(Rounds)
    BY <1>1, <1>4, <1>5
  <2>2. run'.step \in 1..(MaxSteps + 1)
    BY SMTT(40), <1>1, <1>5, <1>6, ReActConstants
  <2>3. << >> \in Rounds
    <3>1. << >> \in Seq(Results) /\ Len(<< >>) <= MaxBatch
      BY ReActConstants
    <3> QED
      BY <3>1, RoundIsSequence
  <2>4. run' \in Run
    BY <1>1, <1>2, <1>5, <2>1, <2>2, <2>3 DEF Run
  <2>5. Len(run'.results) <= Len(run'.batch)
    BY <1>5
  <2> QED
    BY <1>2, <2>4, <2>5 DEF IInv, TypeOK, Place, Index
<1>8. Checkpoint'
  BY <1>2 DEF IInv, Checkpoint, AtCall
<1>9. Progress'
  <2>1. Len(run'.memory) = s
    BY <1>1, <1>5, <1>6
  <2> QED
    BY <1>1, <1>2, <1>5, <1>6, <2>1 DEF Progress, AtBatch
<1>10. Remembered'
  <2>1. run.results = [i \in DOMAIN past[s] |-> Shown(past[s][i])]
    <3>1. DOMAIN run.results = DOMAIN run.batch /\ DOMAIN past[s] = DOMAIN run.batch
      BY <1>1, <1>3, <1>4 DEF IInv, Progress
    <3>2. ASSUME NEW i \in DOMAIN run.batch PROVE run.results[i] = Shown(past[s][i])
      <4>1. i <= Len(run.results)
        BY <1>1, <1>4
      <4> QED
        BY <1>3, <4>1 DEF IInv, Progress
    <3>3. run.results = [i \in DOMAIN run.results |-> run.results[i]]
      BY <1>1
    <3> QED
      BY <3>1, <3>2, <3>3
  <2>2. ASSUME NEW x \in DOMAIN run'.memory
        PROVE  run'.memory[x] = [i \in DOMAIN past[x] |-> Shown(past[x][i])]
    <3>1. x \in 1..s
      BY <1>1, <1>5, <1>6
    <3>2. CASE x = s
      BY <1>1, <1>5, <1>6, <2>1, <3>2
    <3>3. CASE x # s
      <4>1. x \in DOMAIN run.memory /\ run'.memory[x] = run.memory[x]
        BY SMTT(40), <1>1, <1>5, <1>6, <3>1, <3>3
      <4> QED
        BY <1>2, <4>1 DEF IInv, Remembered
    <3> QED
      BY <3>2, <3>3
  <2> QED
    BY <1>2, <2>2 DEF Remembered, Shown
<1>11. Observed'
  BY <1>2, <1>3, <1>5, SamePast DEF IInv, Observed, AtBatch
<1>12. Budgeted'
  BY <1>2, <1>3, <1>5 DEF IInv, Budgeted, AtBatch
<1>13. DenialsStick'
  BY <1>2, SamePast DEF IInv
<1> QED
  BY <1>7, <1>8, <1>9, <1>10, <1>11, <1>12, <1>13 DEF IInv

-----------------------------------------------------------------------------
LEMMA InitHolds == Init => IInv
<1> SUFFICES ASSUME Init PROVE IInv
  OBVIOUS
<1>1. /\ pc = "asking" /\ config \in Budgets /\ run = FreshRun(config) /\ call = NoCheckpoint
      /\ snap = run /\ version = 0 /\ crashes = 0 /\ frozen = config /\ past = << >>
  BY DEF Init
<1>2. NewGuard(config) \in Guard
  BY <1>1, NewGuardFacts
<1>3. /\ run.step = 1 /\ run.batch = << >> /\ run.results = << >> /\ run.memory = << >>
      /\ run.stop = FALSE /\ run.guard = NewGuard(config)
  BY <1>1 DEF FreshRun
<1>4. run \in Run
  <2>1. << >> \in Seq(Results) /\ Len(<< >>) <= MaxBatch
    BY ReActConstants
  <2>2. << >> \in Rounds
    BY <2>1, RoundIsSequence
  <2>3. 1 \in 1..(MaxSteps + 1)
    BY ReActConstants
  <2> QED
    BY <1>1, <1>2, <2>2, <2>3 DEF FreshRun, Run
<1>5. TypeOK
  BY <1>1, <1>3, <1>4, ReActConstants DEF TypeOK, Place
<1>6. Checkpoint /\ Progress /\ Remembered
  BY <1>1, <1>3 DEF Checkpoint, Progress, Remembered, AtCall, AtBatch, NoCheckpoint
<1>7. Places = {}
  BY <1>1 DEF Places
<1>8. Counted = {} /\ Denied = {} /\ \A k : Streak(k) = {}
  BY <1>7 DEF Counted, Denied, Streak
<1>9. Observed
  <2>1. run.guard.used = 0 /\ run.guard.denials = {} /\ \A k \in Keys : run.guard.fails[k] = 0
    BY <1>3 DEF NewGuard
  <2>2. Cardinality(Counted) = 0 /\ \A k : Cardinality(Streak(k)) = 0
    BY <1>8, FS_EmptySet
  <2> QED
    BY <1>8, <2>1, <2>2 DEF Observed
<1>10. Budgeted
  <2>1. config \in Nat
    BY <1>1, ReActConstants
  <2> QED
    BY <1>1, <1>3, <2>1 DEF Budgeted, NewGuard
<1>11. DenialsStick
  BY <1>7 DEF DenialsStick
<1> QED
  BY <1>5, <1>6, <1>9, <1>10, <1>11 DEF IInv

LEMMA StepKeeps == IInv /\ [Next]_vars => IInv'
<1> SUFFICES ASSUME IInv, [Next]_vars PROVE IInv'
  OBVIOUS
<1>1. CASE UNCHANGED vars
  <2>1. UNCHANGED <<pc, run, call, snap, config, version, crashes, frozen, past>>
    BY <1>1 DEF vars
  <2>2. version \in 0..MaxVersion /\ config \in Budgets /\ crashes \in 0..MaxCrashes
    BY DEF IInv, TypeOK
  <2> QED
    BY <2>1, <2>2, StillKeeps
<1>2. CASE Loop
  BY <1>2, OthersKeep, AnswerKeeps, SkipKeeps, CallsKeep, CloseKeeps, DeclineKeeps, SettlesKeep
     DEF Loop
<1>3. CASE Resume
  BY <1>3, OthersKeep, RestartsKeep, SettlesKeep DEF Resume
<1>4. CASE Crash \/ Edit \/ \E budget \in Budgets : Restart(budget)
  BY <1>4, OthersKeep
<1> QED
  BY <1>1, <1>2, <1>3, <1>4 DEF Next

THEOREM Invariance == Spec => []IInv
<1>1. Init => IInv
  BY InitHolds
<1>2. IInv /\ [Next]_vars => IInv'
  BY StepKeeps
<1> QED
  BY <1>1, <1>2, PTL DEF Spec

-----------------------------------------------------------------------------
\* The types; a checkpoint stops at a call that has no result yet.
THEOREM TypeCorrect == Spec => []TypeOK
<1>1. IInv => TypeOK
  BY DEF IInv
<1> QED
  BY <1>1, Invariance, PTL

\* Over every pause, crash, retry and restart, what the model is shown and what the guard
\* counts is what happened (resumable.py, the snapshot of a run).
THEOREM GoesOnUninterrupted == Spec => []RunIsAsUninterrupted
<1>1. IInv => RunIsAsUninterrupted
  <2> SUFFICES ASSUME IInv PROVE MemoryIsTrue /\ GuardIsTrue
    BY DEF RunIsAsUninterrupted
  <2>1. MemoryIsTrue
    BY DEF IInv, MemoryIsTrue, Remembered, Shown, Was
  <2>2. GuardIsTrue
    BY DEF IInv, GuardIsTrue, Observed, AtBatch
  <2> QED
    BY <2>1, <2>2
<1> QED
  BY <1>1, Invariance, PTL

\* A denied operation is neither executed nor asked for again, whatever else the run does
\* and however often it is resumed (docs/execution-policy.md).
THEOREM DenialIsFinal == Spec => []DenialsStick
<1>1. IInv => DenialsStick
  BY DEF IInv
<1> QED
  BY <1>1, Invariance, PTL

-----------------------------------------------------------------------------
(* The budget.                                                             *)

\* A call is started by itself or because it was approved; all else leaves the numbers
\* of its starts, or is a retry an operator asked for.
LEMMA OnlyTwoStart ==
  ASSUME IInv, [Next]_vars, NEW c \in Places, StartedAnew(c)
  PROVE  Start \/ Approve
<1>1. past \in Seq(Seq(PastCall)) /\ Was(c) \in PastCall
  BY Typed, PlaceFacts DEF IInv
<1>2. ASSUME past' = past PROVE FALSE
  <2>1. Was(c)' = Was(c)
    BY <1>2 DEF Was
  <2>2. Was(c).starts \in Nat
    BY <1>1 DEF PastCall
  <2> QED
    BY <2>1, <2>2 DEF StartedAnew
<1>3. ASSUME NEW e \in PastCall, AtBatch, Index(run) <= Len(run.batch),
             Writes(run.step, Index(run), e),
             e.starts = Entry(run).starts \/ e.pardons # Entry(run).pardons
      PROVE  FALSE
  <2>1. run.step \in DOMAIN past /\ Index(run) \in DOMAIN past[run.step]
        /\ Entry(run) = past[run.step][Index(run)]
    BY <1>3, AtHand
  <2>2. Was(c)' = IF c = <<run.step, Index(run)>> THEN e ELSE Was(c)
    BY <1>1, <1>3, <2>1, WritesFacts
  <2>3. c = <<run.step, Index(run)>> => Was(c) = Entry(run)
    BY <2>1 DEF Was
  <2>4. Was(c).starts \in Nat
    BY <1>1 DEF PastCall
  <2>5. CASE c # <<run.step, Index(run)>>
    BY <2>2, <2>4, <2>5 DEF StartedAnew
  <2>6. CASE c = <<run.step, Index(run)>>
    <3>1. Was(c)' = e /\ Was(c) = Entry(run)
      BY <2>2, <2>3, <2>6
    <3> QED
      BY <1>3, <2>4, <3>1 DEF StartedAnew
  <2> QED
    BY <2>5, <2>6
<1>4. ASSUME AtCall, NEW e \in PastCall, Note(snap, e),
             e.starts = Entry(snap).starts \/ e.pardons # Entry(snap).pardons
      PROVE  FALSE
  <2>1. run = snap /\ Index(run) <= Len(run.batch) /\ AtBatch
    BY <1>4, CheckpointEntry DEF AtCall, AtBatch
  <2>2. Writes(run.step, Index(run), e)
    BY <1>4, <2>1 DEF Note, Writes
  <2> QED
    BY <1>3, <1>4, <2>1, <2>2
<1>5. ASSUME NEW out \in Outcomes, Decline(out) PROVE FALSE
  <2> DEFINE e == Settled(Entry(run), out)
  <2>1. pc = "calling" /\ Index(run) <= Len(run.batch) /\ Note(Checked(run), Settled(Entry(Checked(run)), out))
    BY <1>5 DEF Decline, Passes, InBatch
  <2>2. Writes(run.step, Index(run), e)
    BY <2>1, CheckedFacts DEF Note, Writes
  <2>3. Entry(run) \in PastCall /\ AtBatch
    BY <2>1, AtHand DEF AtBatch
  <2>4. e \in PastCall /\ e.starts = Entry(run).starts
    BY <2>3, EntryFacts
  <2> HIDE DEF e
  <2> QED
    BY <1>3, <2>1, <2>2, <2>3, <2>4
<1>6. ASSUME AtCall, NEW out \in Outcomes, Note(snap, Settled(Entry(snap), out)) PROVE FALSE
  <2>1. Entry(snap) \in PastCall
    BY <1>6, CheckpointEntry
  <2>2. Settled(Entry(snap), out) \in PastCall /\ Settled(Entry(snap), out).starts = Entry(snap).starts
    BY <2>1, EntryFacts
  <2> QED
    BY <1>4, <1>6, <2>2
<1>7. ASSUME AtCall, NEW e \in PastCall, Note(snap, e), e.pardons = Entry(snap).pardons + 1
      PROVE  FALSE
  <2>1. Entry(snap).pardons \in Nat
    BY <1>7, CheckpointEntry DEF PastCall
  <2> QED
    BY <1>4, <1>7, <2>1
<1>8. ASSUME NEW batch \in Batches, AnswerCalls(batch) PROVE FALSE
  <2>1. pc = "asking" /\ Len(past) = run.step - 1 /\ run.step \in Nat
    BY <1>8, Typed DEF AnswerCalls, MayAsk, IInv, Progress
  <2>2. SubSeq(past, 1, run.step - 1) = past
    BY <1>1, <2>1
  <2>3. \E round : past' = Append(past, round)
    BY <1>8, <2>2 DEF AnswerCalls
  <2>4. c[1] \in DOMAIN past
    BY DEF Places
  <2>5. past'[c[1]] = past[c[1]]
    BY <1>1, <2>3, <2>4
  <2> QED
    <3>1. Was(c)' = Was(c)
      BY <2>5 DEF Was
    <3>2. Was(c).starts \in Nat
      BY <1>1 DEF PastCall
    <3> QED
      BY <3>1, <3>2 DEF StartedAnew
<1>9. "denied" \in Outcomes
  BY DEF Outcomes
<1>10. CASE Loop
  <2>1. ASSUME NEW out \in Outcomes, NEW same \in BOOLEAN, FinishCall(out, same) PROVE FALSE
    BY <1>6, <2>1 DEF FinishCall, AtCall
  <2>2. CASE StopBeforeAsking \/ AnswerFails \/ AnswerText \/ Skip \/ AskApproval \/ CloseBatch \/ Finalize
    BY <1>2, <2>2 DEF StopBeforeAsking, AnswerFails, AnswerText, Skip, AskApproval, CloseBatch, Finalize
  <2> QED
    BY <1>5, <1>8, <1>10, <2>1, <2>2 DEF Loop
<1>11. CASE Resume
  <2>1. CASE GiveUp \/ Interrupted \/ ConfirmExecuted
    BY <1>2, <2>1 DEF GiveUp, Interrupted, ConfirmExecuted
  <2>2. CASE Reject
    BY <1>6, <1>9, <2>2 DEF Reject, AtCall
  <2>3. ASSUME NEW out \in Outcomes, Reconcile(out) PROVE FALSE
    BY <1>6, <2>3 DEF Reconcile, AtCall
  <2>4. ASSUME AtCall
        PROVE  /\ Pardoned(Entry(snap)) \in PastCall
               /\ Pardoned(Entry(snap)).pardons = Entry(snap).pardons + 1
               /\ Settled(Pardoned(Entry(snap)), "denied") \in PastCall
               /\ Settled(Pardoned(Entry(snap)), "denied").pardons = Entry(snap).pardons + 1
               /\ Started(Pardoned(Entry(snap))) \in PastCall
               /\ Started(Pardoned(Entry(snap))).pardons = Entry(snap).pardons + 1
    <3> DEFINE p == Pardoned(Entry(snap))
    <3>1. p \in PastCall /\ p.pardons = Entry(snap).pardons + 1
      BY <1>9, <2>4, CheckpointEntry, EntryFacts
    <3> HIDE DEF p
    <3>2. /\ Settled(p, "denied") \in PastCall /\ Settled(p, "denied").pardons = p.pardons
          /\ Started(p) \in PastCall /\ Started(p).pardons = p.pardons
      BY <1>9, <3>1, EntryFacts
    <3> QED
      BY <3>1, <3>2 DEF p
  <2>5. CASE RetryAsked \/ RetryDenied \/ RetryAllowed
    <3>1. AtCall
      BY <2>5 DEF RetryAsked, RetryDenied, RetryAllowed, AtCall
    <3> QED
      BY <1>7, <2>4, <2>5, <3>1 DEF RetryAsked, RetryDenied, RetryAllowed
  <2> QED
    BY <1>11, <2>1, <2>2, <2>3, <2>5 DEF Resume
<1>12. CASE Crash \/ Edit \/ \E budget \in Budgets : Restart(budget)
  BY <1>2, <1>12 DEF Crash, Edit, Restart
<1>13. CASE UNCHANGED vars
  BY <1>2, <1>13 DEF vars
<1> QED
  BY <1>10, <1>11, <1>12, <1>13 DEF Next

\* A handler starts within the budget the run began with and within that of the process,
\* but for a retry an operator asked for (guard.py, the stricter budget at a restart).
THEOREM BudgetIsFrozen == Spec => BudgetNeverGrows
<1>1. IInv /\ [Next]_vars => WithinBudget
  <2> SUFFICES ASSUME IInv, [Next]_vars, NEW c \in Places, StartedAnew(c)
               PROVE  Cardinality(Counted) < frozen /\ Cardinality(Counted) < config
    BY DEF WithinBudget
  <2>1. /\ run.guard \in Guard /\ run.guard.max \in Nat /\ run.guard.used \in Nat
        /\ config \in Budgets /\ config \in Nat /\ frozen \in Nat
    <3>1. run.guard \in Guard /\ config \in Budgets /\ frozen \in Budgets
      BY Typed DEF IInv, TypeOK
    <3> QED
      BY <3>1, ReActConstants DEF Guard
  <2>2. CASE Start
    <3>1. pc = "calling" /\ ~(Checked(run).guard.used >= Checked(run).guard.max)
      BY <2>2 DEF Start, Passes, InBatch, Refuses
    <3>2. run.guard.used < run.guard.max
      BY <2>1, <3>1, CheckedFacts
    <3>3. /\ run.guard.used = Cardinality(Counted)
          /\ run.guard.max <= frozen /\ run.guard.max <= config
      BY <3>1 DEF IInv, Observed, Budgeted, AtBatch
    <3> QED
      BY <2>1, <3>2, <3>3
  <2>3. CASE Approve
    <3> DEFINE g == Rebuilt(snap.guard)
    <3>1. pc = "paused" /\ run = snap /\ ~(Resumed.guard.used >= Resumed.guard.max)
      BY <2>3, CheckpointEntry DEF Approve, AtCall, Refuses
    <3>2. /\ g \in Guard /\ g.max <= snap.guard.max /\ g.max <= config
          /\ g.used = snap.guard.used
      BY <2>1, <3>1, RebuiltFacts
    <3>3. Resumed.guard = Synced(g)
      <4>1. snap \in Run
        BY Typed DEF IInv
      <4> HIDE DEF g
      <4>2. [snap EXCEPT !.guard = g].guard = g
        BY <4>1 DEF Run
      <4>3. Resumed = Checked([snap EXCEPT !.guard = g])
        BY DEF Resumed, g
      <4>4. \A r : r \in Run => Checked(r).guard = Synced(r.guard)
        BY DEF Checked, Run
      <4>5. [snap EXCEPT !.guard = g] \in Run
        BY <3>2, <4>1 DEF Run
      <4> QED
        BY <4>2, <4>3, <4>4, <4>5
    <3> HIDE DEF g
    <3>4. version \in 0..MaxVersion
      BY DEF IInv, TypeOK
    <3>5. Synced(g).max = g.max /\ Synced(g).used = g.used /\ g.max \in Nat /\ g.used \in Nat
      BY <3>2, <3>4, SyncedFacts, ReActConstants DEF Guard
    <3>6. run.guard.used = Cardinality(Counted) /\ run.guard.max <= frozen
      BY <3>1 DEF IInv, Observed, Budgeted, AtBatch
    <3>7. g.used < g.max /\ g.used = Cardinality(Counted) /\ g.max <= run.guard.max
      BY <3>1, <3>2, <3>3, <3>5, <3>6
    <3> QED
      BY <2>1, <3>2, <3>5, <3>6, <3>7
  <2> QED
    BY <2>2, <2>3, OnlyTwoStart
<1> QED
  BY <1>1, Invariance, PTL DEF Spec, BudgetNeverGrows

=============================================================================
