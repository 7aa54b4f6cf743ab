------------------------- MODULE EvidenceInvariant -------------------------
(***************************************************************************)
(* The inductive invariant behind the properties of EvidenceChain.  Where  *)
(* a source comes from is settled when it enters the evidence of a run and *)
(* has to survive the result, the next run that reuses it, and whatever    *)
(* overwrites it there; what a verdict cites, when it is submitted.        *)
(***************************************************************************)
EXTENDS EvidenceChain

Keys == SearchKeys \cup ExtractKeys
Stops == {"none", "budget", "model_response", "no_progress"}
Kinds == {"search", "extract", "history"}

RunType ==
  [id : 0..MaxRuns, refs : SUBSET DOMAIN results,
   stage : {"idle", "round", "batch", "summary"}, round : 0..MaxRounds, left : 0..MaxBatch,
   counts : [DOMAIN Limit -> Nat], seen : SUBSET Keys, noNew : Nat, stop : Stops,
   observed : BOOLEAN, progress : BOOLEAN]

HandoffType ==
  [id : 0..MaxRuns, to : {"research_agent"}, todo : 0..MaxRuns, mode : {"read_only"},
   level : Level, criteria : {Criteria},
   status : {"none", "pending", "delivered", "completed"}, result : 0..MaxRuns,
   refs : SUBSET DOMAIN results]

LatestType ==
  [delivery : {"ready", "partial", "none"}, stop : Stops,
   finalization : {"none", "completed", "failed"}]

\* A review, whose evidence and verdicts ReviewFits describes.
ReviewShape ==
  /\ DOMAIN review = DOMAIN NoReview
  /\ review.stage \in {"none", "round", "batch", "done"}
  /\ review.count \in Nat /\ review.round \in Nat /\ review.left \in 0..MaxVerifyBatch
  /\ review.made \in Nat /\ review.cached \subseteq Probes

EvidenceShape ==
  /\ DOMAIN evidence = DOMAIN NoEvidence
  /\ DOMAIN evidence.sources \subseteq Urls /\ evidence.extracted \subseteq Urls
  /\ evidence.failed \in BOOLEAN
  /\ \A u \in DOMAIN evidence.sources : evidence.sources[u].kind \in Kinds

\* The results are a sequence, numbered as they come; a result names earlier ones.
ResultsNumbered ==
  /\ results \in Seq({results[i] : i \in DOMAIN results}) /\ Len(results) <= MaxRuns
  /\ \A i \in DOMAIN results :
       /\ results[i].id = i /\ results[i].refs \subseteq 1..(i - 1)
       /\ \A s \in results[i].sources : s.url \in Urls

ChainTypeOK ==
  /\ ResultsNumbered
  /\ run \in RunType /\ web \subseteq Keys
  /\ latest \in LatestType \cup {Nothing}
  /\ handoff \in HandoffType
  /\ EvidenceShape /\ ReviewShape

-----------------------------------------------------------------------------
\* Reused observations are found where their name says, in a record that refs names.
FoundIn(observations, refs) ==
  \A o \in observations :
    o.kind = "history" =>
      /\ o.id.record \in refs
      /\ \A u \in o.urls :
           \E s \in results[o.id.record].sources : s.obs = o.id.of /\ s.url = u

\* What is asked of every result, and of the evidence of the run in progress.
ResultsAreSound ==
  \A i \in DOMAIN results :
    /\ ProvenanceValid(results[i])
    /\ \A s \in results[i].sources : Traced(results[i], s)
    /\ FoundIn(results[i].observations, results[i].refs)

SourceIsSound(u) ==
  LET s == evidence.sources[u]
  IN  /\ s.url = u /\ Traced(run, s)
      /\ \E o \in evidence.observations : o.id = s.obs /\ u \in o.urls /\ o.kind = s.kind

EvidenceIsSound ==
  /\ FoundIn(evidence.observations, run.refs)
  /\ \A u \in DOMAIN evidence.sources : SourceIsSound(u)

\* Which run, result and handoff belong together.
InStep ==
  /\ run.id = IF run.stage = "idle" THEN Len(results) ELSE Len(results) + 1
  /\ run.refs \subseteq 1..(run.id - 1)
  /\ run.stage # "idle" <=> handoff.status = "pending"
  /\ handoff.status = "pending" => handoff.refs = run.refs /\ handoff.id = run.id
  /\ handoff.status = "delivered" =>
       /\ results # << >>
       /\ handoff.id = Len(results) /\ handoff.result = Len(results)
       /\ handoff.refs = Latest.refs
  /\ handoff.todo = handoff.id

\* The verifier knows the sources of the result and its own observations; a verdict on
\* record cites what it observed, and what supports a pass is usable.
ReviewFits ==
  /\ handoff.status # "delivered" => review = NoReview
  /\ \A r \in DOMAIN review.records :
       r[1] = "source" => \E s \in Latest.sources : s.url = r[2]
  /\ review.observed \subseteq DOMAIN review.records
  /\ Verifying => review.submitted = << >>
  /\ \A i \in DOMAIN review.submitted : Citable(review.submitted[i])

ChainInv ==
  /\ ChainTypeOK
  /\ ResultsAreSound /\ EvidenceIsSound
  /\ InStep /\ ReviewFits
  /\ GateRecognisesResearch

=============================================================================
