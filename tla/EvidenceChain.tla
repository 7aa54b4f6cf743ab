---------------------------- MODULE EvidenceChain ----------------------------
(***************************************************************************)
(* From the web to an accepted report: research runs of one task, the      *)
(* verifier's review of each result, and the gate that decides what of     *)
(* both is believed.  A run may reuse the sources of earlier results of    *)
(* the task; the gate goes back to those results.                          *)
(***************************************************************************)
EXTENDS ResearchRun, VerifierRun, VerificationGate

\* A plan is refused whose todos do not require something (planning.py, line 163).
ASSUME ChainConstants == Criteria # {}

VARIABLES
  handoff,  \* of the latest run, as the gate is given it
  report    \* the gate's report on its result; NoReport before

chainVars == <<researchVars, review, handoff, report>>

Handoff(id, level, refs) ==
  [id |-> id, to |-> "research_agent", todo |-> id, mode |-> "read_only", level |-> level,
   criteria |-> Criteria, status |-> "pending", result |-> 0, refs |-> refs]

ChainInit ==
  /\ ResearchInit /\ VerifierInit
  /\ handoff = [Handoff(0, "basic", {}) EXCEPT !.status = "none"] /\ report = NoReport

-----------------------------------------------------------------------------
\* A result as the gate reads it.
Delivered ==
  LET result == results[Len(results)]
  IN  Merged([id |-> result.id, handoff |-> result.id, owner |-> "research_agent",
              sound |-> ProvenanceValid(result),
              evidence |-> result.cited # {} /\ result.sources # {},
              files |-> {}, completed |-> FALSE, open |-> FALSE,
              failing |-> FALSE, last |-> "ok", calls |-> 0], latest)

\* Lines 113-130: each reused observation is found in a result the handoff names.
Original(result) ==
  \A o \in {x \in result.observations : x.kind = "history"} :
    /\ o.id.record \in handoff.refs /\ ProvenanceValid(results[o.id.record])
    /\ \A u \in o.urls :
         \E s \in results[o.id.record].sources : s.obs = o.id.of /\ s.url = u

Latest == results[Len(results)]

\* The gate asks the verifier, and the mechanical checks let it.
Reviewable ==
  /\ Delivered.sound /\ Original(Latest)
  /\ AsksVerifier(handoff, Delivered, BasicVerify(handoff, Delivered, {}, {}))

\* The supervisor delegates: a new task phase begins with what earlier runs left.
Delegate(refs, level) ==
  /\ handoff.status # "delivered"
  /\ Start(refs)
  /\ handoff' = Handoff(Len(results) + 1, level, refs)
  /\ review' = NoReview /\ report' = NoReport

\* A step of the research agent; its last one delivers.
Research ==
  /\ ResearchStep
  /\ handoff' = IF results' = results THEN handoff
                ELSE [handoff EXCEPT !.status = "delivered", !.result = Latest'.id]
  /\ UNCHANGED <<review, report>>

\* Line 162: the verifier starts from the sources of the result.
StartReview ==
  /\ handoff.status = "delivered" /\ review.stage = "none" /\ Reviewable
  /\ BeginReview([s \in {<<"source", x.url>> : x \in Latest.sources} |->
       \E x \in Latest.sources, o \in Latest.observations :
         s = <<"source", x.url>> /\ o.id = x.obs /\ x.url \in o.urls])
  /\ UNCHANGED <<researchVars, handoff, report>>

Verify ==
  /\ Verifying /\ VerifierStep(handoff.criteria)
  /\ UNCHANGED <<researchVars, handoff, report>>

Answer ==
  LET h == [handoff EXCEPT !.status = "completed"]
  IN  [kind |-> "report", category |-> "none",
       report |-> Report(h, Delivered,
         [passed |-> ReviewPassed(h.criteria), category |-> ReviewCategory(h.criteria),
          status |-> IF Submitted THEN "assessed" ELSE "not_performed",
          assessments |-> review.submitted, evidence |-> CitedEvidence,
          scope |-> IF Submitted THEN "todo" ELSE "run"])]
NoAnswer == [kind |-> "raised", category |-> "model_response", report |-> NoReport]

\* The gate reports.
Gate ==
  /\ handoff.status = "delivered"
  /\ review.stage = IF Reviewable THEN "done" ELSE "none"
  /\ LET h == [handoff EXCEPT !.status = "completed"]
     IN  /\ report' = GateVerify(h, Delivered, {}, {}, Original(Latest),
                        IF review.stage = "done" THEN Answer ELSE NoAnswer)
         /\ handoff' = h
  /\ review' = NoReview
  /\ UNCHANGED researchVars

Agents == Research \/ StartReview \/ Verify \/ Gate
ChainNext ==
  \/ Agents
  \/ \E refs \in SUBSET DOMAIN results, level \in Level : Delegate(refs, level)

ChainSpec == ChainInit /\ [][ChainNext]_chainVars
\* The agents are called in turn by one thread and go on while a delegation is open; the
\* supervisor need not delegate.  This is WF_chainVars(Agents): Busy is ENABLED Agents,
\* which TLC is slow to decide.
Busy == handoff.status \in {"pending", "delivered"}
FairSpec == ChainSpec /\ ([]<>~Busy \/ []<><<Agents>>_chainVars)

-----------------------------------------------------------------------------
\* A source leads back to the web: to a call of its own run that returned that URL, or
\* to a source of the result it was taken from, which the handoff had named.
Traced(result, s) ==
  IF s.kind = "history"
    THEN /\ s.obs.record \in result.refs /\ s.obs.record < result.id
         /\ \E x \in results[s.obs.record].sources : x.obs = s.obs.of /\ x.url = s.url
    ELSE s.obs.run = result.id /\ <<s.obs, s.url>> \in fetched

\* No source without a fetch: whatever the model cites and however searches,
\* extractions and reused sources overwrite one another, each source of each result is
\* valid and leads back to the web.
SourcesAreTraced ==
  \A i \in DOMAIN results :
    /\ ProvenanceValid(results[i])
    /\ \A s \in results[i].sources : Traced(results[i], s)

\* What the research agent builds is what the gate looks for: an honest run never meets
\* a refusal of its identity, which the supervisor could not retry.
GateRecognisesResearch == report.category # "identity"

\* A report that passes after a review: for every required criterion the verifier cites
\* something it had read or observed itself, and each source it cites is traced.
PassedRestsOnEvidence ==
  [][report' # report /\ report'.passed /\ report'.status = "assessed" =>
       \A c \in Criteria \cap Required :
         \E i \in DOMAIN report'.assessments :
           LET a == report'.assessments[i]
           IN  /\ a.criterion = c /\ a.refs # {}
               /\ \A r \in a.refs :
                    /\ r \in review.observed /\ review.records[r]
                    /\ r[1] = "source" =>
                         \E s \in Latest.sources : s.url = r[2] /\ Traced(Latest, s)]_chainVars

\* Every delegation is reported on: rounds, calls and failures of either agent end.
DelegationIsReported == Busy ~> handoff.status = "completed"

=============================================================================
