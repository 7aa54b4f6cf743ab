----------------------------- MODULE VerifierRun -----------------------------
(***************************************************************************)
(* VerifierAgent.verify: the independent verifier reads the evidence of a  *)
(* result, makes observations of its own with read-only tools, and submits *)
(* one verdict per criterion.  Whether the result passes is computed from  *)
(* what it submitted, never said by it.                                    *)
(*                                                                         *)
(* A record of evidence has a name and is usable or not.  The verifier     *)
(* made it `observed' by reading it or by producing it.  Free: the calls   *)
(* of the model, what its tools find, and its verdicts.                    *)
(***************************************************************************)
EXTENDS Requirements

CONSTANTS
  Probes,           \* requests of the read-only tools
  MaxEvidenceCalls, \* max_tool_calls
  MaxVerifyRounds,  \* max_steps
  MaxVerifyBatch,   \* bound: calls of one round
  MaxRefs           \* bound: evidence cited for one criterion

ASSUME VerifierConstants ==
  {MaxEvidenceCalls, MaxVerifyRounds, MaxVerifyBatch} \subseteq Nat \ {0}

VARIABLE review

NoReview ==
  [stage |-> "none", records |-> << >>, observed |-> {}, count |-> 0, round |-> 0,
   left |-> 0, cached |-> {}, made |-> 0, submitted |-> << >>]

VerifierInit == review = NoReview

Verifying == review.stage \in {"round", "batch"}

\* verify is called: records are the sources or executions of the result.
BeginReview(records) ==
  review' = [NoReview EXCEPT !.stage = "round", !.records = records]

Finalizing == review.count >= MaxEvidenceCalls \/ review.round >= MaxVerifyRounds

EndReview(submitted) ==
  review' = [review EXCEPT !.stage = "done", !.submitted = submitted]

-----------------------------------------------------------------------------
(* Requests that fail.                                                     *)

\* A round of evidence whose answer is unusable or over budget ends the gathering.
GatheringFails ==
  /\ review.stage = "round" /\ ~Finalizing
  /\ review' = [review EXCEPT !.count = MaxEvidenceCalls]

\* Any other error, an answer without calls, or a failed last request ends the review.
ReviewGivesUp == review.stage = "round" /\ EndReview(<< >>)

-----------------------------------------------------------------------------
(* A round of calls.  A submission among other calls is refused.           *)

\* Bug for comparison: only calls count, and those that are refused do not.
BeginBatchUncounted ==
  /\ review.stage = "round" /\ ~Finalizing
  /\ review' = [review EXCEPT !.stage = "batch", !.left = MaxVerifyBatch]

BeginBatch ==
  /\ review.stage = "round" /\ ~Finalizing
  /\ review' = [review EXCEPT !.stage = "batch", !.round = @ + 1, !.left = MaxVerifyBatch]

\* A submission that is not alone, or a call over the limit: nothing is done.
CallRejected ==
  /\ review.stage = "batch" /\ review.left > 0
  /\ review' = [review EXCEPT !.left = @ - 1]

Gathering == review.stage = "batch" /\ review.left > 0 /\ review.count < MaxEvidenceCalls
Gathered == [review EXCEPT !.left = @ - 1, !.count = @ + 1]

\* read_evidence, which again is answered from the cache to the same effect.
ReadEvidence(id) ==
  /\ Gathering /\ id \in DOMAIN review.records
  /\ review' = [Gathered EXCEPT !.observed = @ \cup {id}]

\* read_evidence of what there is not, or an answer from the cache.
NothingNew == Gathering /\ review' = Gathered

\* A read-only tool is asked; what it answered is evidence, usable if it went well.  An
\* answer that came at all is not asked for again.
Probe(request, answered, usable) ==
  LET id == <<"verification", review.made + 1>>
  IN  /\ Gathering /\ request \notin review.cached
      /\ usable => answered
      /\ review' = [Gathered EXCEPT
           !.made = @ + 1, !.observed = @ \cup {id},
           !.cached = IF answered THEN @ \cup {request} ELSE @,
           !.records = [r \in DOMAIN @ \cup {id} |-> IF r = id THEN usable ELSE @[r]]]

EndBatch ==
  /\ review.stage = "batch" /\ review.left < MaxVerifyBatch
  /\ review' = [review EXCEPT !.stage = "round"]

-----------------------------------------------------------------------------
(* submit_verification.                                                    *)

\* Bug for comparison: evidence is not asked to have been read.
CitableUnread(a) ==
  /\ a.refs \subseteq DOMAIN review.records
  /\ Supported(a, review.records)

\* What a verdict may cite: it exists, was read, and is usable where it supports passed.
Citable(a) ==
  /\ a.refs \subseteq review.observed
  /\ Supported(a, review.records)

Valid(criteria, assessments) ==
  /\ criteria # {} /\ Injective(CriteriaOf(assessments))
  /\ {assessments[i].criterion : i \in DOMAIN assessments} = criteria
  /\ \A i \in DOMAIN assessments : Citable(assessments[i])

\* The verdicts the verifier may submit, one per criterion.  What a verdict that does
\* not pass cites is left out: nothing reads it.
Submissions(criteria) ==
  LET order == CHOOSE f \in [1..Cardinality(criteria) -> criteria] : Injective(f)
      refs == {s \in SUBSET DOMAIN review.records : Cardinality(s) <= MaxRefs}
      verdicts == {"passed"} \X refs \cup {<<status, {}>> : status \in AssessmentStatus}
  IN  {[i \in DOMAIN order |-> [criterion |-> order[i], status |-> v[i][1], refs |-> v[i][2]]] :
         v \in [DOMAIN order -> verdicts]}

\* A submission alone in its round; a refused one may be repaired in a later round.
Submit(criteria) ==
  /\ review.stage = "round"
  /\ \/ \E a \in Submissions(criteria) :
          Valid(criteria, a)
          /\ review' = [review EXCEPT !.stage = "done", !.round = @ + 1, !.submitted = a]
     \/ /\ ~Finalizing /\ review' = [review EXCEPT !.round = @ + 1]

VerifierStep(criteria) ==
  \/ GatheringFails \/ ReviewGivesUp \/ BeginBatch \/ CallRejected \/ NothingNew \/ EndBatch
  \/ \E id \in DOMAIN review.records : ReadEvidence(id)
  \/ \E request \in Probes, answered, usable \in BOOLEAN : Probe(request, answered, usable)
  \/ Submit(criteria)

\* Lines 234-253: what the report says.
Submitted == review.submitted # << >>
ReviewPassed(criteria) == AssessmentsValid(criteria, review.submitted, review.records)
ReviewCategory(criteria) ==
  IF ReviewPassed(criteria) THEN "none"
  ELSE IF ~Submitted THEN "model_response"
  ELSE IF \E i \in DOMAIN review.submitted : review.submitted[i].status = "insufficient_evidence"
    THEN "insufficient_evidence"
  ELSE "validation"
CitedEvidence ==
  LET cited == UNION {review.submitted[i].refs : i \in DOMAIN review.submitted}
  IN  [r \in cited |-> review.records[r]]

=============================================================================
