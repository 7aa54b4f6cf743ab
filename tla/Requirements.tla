---------------------------- MODULE Requirements ----------------------------
(***************************************************************************)
(* The acceptance contract that is frozen before a todo is delegated, and  *)
(* the rules by which a supervisor may accept what comes back: when a      *)
(* report covers the contract, what blocks an acceptance whatever the      *)
(* supervisor says, and which gaps an acceptance has to disclose.          *)
(*                                                                         *)
(* Texts are left out.  A limitation is named by what it says; the records *)
(* of a result, a report and a review hold the fields the rules read.      *)
(***************************************************************************)
EXTENDS Naturals, Sequences, FiniteSets

CONSTANTS
  Criteria,    \* criterion_ids
  Required     \* those marked required

ASSUME RequirementsConstants == Required \subseteq Criteria

Level == {"basic", "independent"}
ReviewAction == {"accept", "accept_with_limitations", "request_changes", "stop"}
Accepting == {"accept", "accept_with_limitations"}

\* A CriterionAssessment: evidence_refs are names of evidence records.
AssessmentStatus == {"passed", "failed", "insufficient_evidence"}

\* A record, or a dictionary, with the entries of new over those of old.
Merged(new, old) ==
  [x \in DOMAIN new \cup DOMAIN old |-> IF x \in DOMAIN new THEN new[x] ELSE old[x]]

\* A dictionary with one more entry, or another value of one it has.
Added(map, key, value) ==
  [x \in DOMAIN map \cup {key} |-> IF x = key THEN value ELSE map[x]]

\* What a dictionary lookup that finds nothing gives to the rules.
NoReport ==
  [id |-> 0, result |-> 0, handoff |-> 0, todo |-> 0, subject |-> "none",
   passed |-> FALSE, status |-> "assessed", hard |-> FALSE, limits |-> {},
   assessments |-> << >>, evidence |-> << >>, category |-> "none",
   retryable |-> "unset", scope |-> "todo", allowed |-> {}]

-----------------------------------------------------------------------------
CriteriaOf(assessments) == [i \in DOMAIN assessments |-> assessments[i].criterion]

Injective(s) == \A i, j \in DOMAIN s : s[i] = s[j] => i = j

\* A verdict of passed cites evidence, and all of it usable.
Supported(a, evidence) ==
  a.status = "passed" => a.refs # {} /\ \A r \in a.refs : evidence[r]

\* assessment_structure_valid: the report covers the contract once each and
\* cites evidence that exists.
StructureValid(criteria, assessments, evidence) ==
  LET checked == CriteriaOf(assessments)
  IN  /\ criteria # {}
      /\ Injective(checked)
      /\ criteria = {checked[i] : i \in DOMAIN checked}
      /\ \A i \in DOMAIN assessments :
           /\ assessments[i].refs \subseteq DOMAIN evidence
           /\ Supported(assessments[i], evidence)

\* assessments_valid: moreover every required criterion passed.
AssessmentsValid(criteria, assessments, evidence) ==
  /\ criteria \cap Required # {}
  /\ StructureValid(criteria, assessments, evidence)
  /\ \A i \in DOMAIN assessments :
       assessments[i].criterion \in Required => assessments[i].status = "passed"

-----------------------------------------------------------------------------
(* Accepting a result.                                                     *)

\* The report is about the latest result of the latest handoff of the todo.
Identified(todo, result, report) ==
  /\ todo.result # 0 /\ todo.handoff # 0 /\ todo.verification # 0
  /\ result.id = todo.result /\ result.handoff = todo.handoff
  /\ report.id = todo.verification
  /\ report.result = todo.result /\ report.handoff = todo.handoff
  /\ report.subject = todo.owner

\* review_blockers: what no decision of the supervisor overrides.
Blocked(todo, id, result, report) ==
  \/ report.hard
  \/ result.delivery = "none"
  \/ ~Identified(todo, result, report)
  \/ report.category = "identity"
  \/ report.todo # id
  \/ report.status = "checks_only" /\ todo.level = "independent"
  \/ report.category = "permission" /\ report.status = "not_performed"
  \/ /\ todo.criteria # {} /\ report.status = "assessed"
     /\ ~StructureValid(todo.criteria, report.assessments, report.evidence)

\* The criteria of a todo its report does not say have passed.
Unmet(todo, report) ==
  {c \in todo.criteria :
     ~ \E i \in DOMAIN report.assessments :
         /\ report.assessments[i].criterion = c
         /\ report.assessments[i].status = "passed"
         /\ \A j \in DOMAIN report.assessments :
              report.assessments[j].criterion = c => j <= i}

\* Bug for comparison: what the mechanical checks found missing is not disclosed.
GapsOfChecksHidden(todo, report) ==
  IF report.status = "not_performed" THEN report.limits \cup {<<"not assessed">>}
  ELSE IF report.status = "checks_only" THEN {}
  ELSE report.limits \cup {<<"unmet", c>> : c \in Unmet(todo, report)}

\* Bug for comparison: criteria the verifier did not see pass are no gap.
GapsWithoutUnmet(todo, report) == report.limits

\* review_limitations: the gaps an acceptance must disclose.
Gaps(todo, report) ==
  CASE report.status = "not_performed" -> report.limits \cup {<<"not assessed">>}
    [] report.status = "checks_only" -> report.limits
    [] OTHER ->
         LET missing == {<<"unmet", c>> : c \in Unmet(todo, report)}
         IN  report.limits \cup
             (IF ~report.passed /\ missing = {} THEN {<<"reservation">>} ELSE missing)

\* The validator of ResultReview.
ReviewValid(review) ==
  (review.action = "accept_with_limitations") <=> review.limitations # {}

\* accepted_review_valid: what FINISH and the final answer both ask of a todo.
\* todo.review is a set of at most one review.
AcceptedReviewValid(todo, id, result, report) ==
  /\ todo.status = "completed"
  /\ \E review \in todo.review :
       /\ review.action \in Accepting
       /\ review.todo = id /\ review.result = todo.result
       /\ review.handoff = todo.handoff /\ review.verification = todo.verification
       /\ ~Blocked(todo, id, result, report)
       /\ IF review.action = "accept"
            THEN Gaps(todo, report) = {}
            ELSE /\ review.limitations # {}
                 /\ Gaps(todo, report) \subseteq review.limitations

=============================================================================
