--------------------------- MODULE BudgetInvariant ---------------------------
(* The inductive invariant of RequestBudget, from which BudgetProofs derives *)
(* its theorems.                                                           *)
EXTENDS RequestBudget

\* A request is charged and has not left yet.
Pending == {"charged", "sending"}

\* Clients with a charged model request of a kind.
Waiting(kind) == {c \in Clients : op[c].pc \in Pending /\ op[c].req.kind = kind}

\* Nobody writes the ledger between the reading and the charge of a client.
BaseIsCurrent ==
  \A c \in Clients : op[c].pc = "charging" => op[c].base = Tightened(acct, config[c])

\* A ledger has the limits of some client; without its file it counts nothing.
LedgerIsConfigured ==
  IF acct.open THEN acct.limit \in Limits /\ acct.webLimit \in WebLimits
               ELSE acct = NoAccount

\* The ledger covers what has left and what is about to leave.
ModelIsCharged ==
  /\ sent["work"] + Cardinality(Waiting("work")) <= acct.work
  /\ acct.work + sent["final"] + Cardinality(Waiting("final")) <= acct.model

WebIsCharged ==
  /\ \A k \in WebKeys : k \notin acct.webKeys => fetched[k] = 0
  /\ \A k \in WebKeys : fetched[k] <= 1
  /\ \A c \in Clients : op[c].pc \in Pending /\ op[c].req.kind = "web" =>
       op[c].req.id \in acct.webKeys /\ fetched[op[c].req.id] = 0
  /\ \A c, d \in Clients :
       /\ op[c].pc \in Pending /\ op[d].pc \in Pending
       /\ op[c].req.kind = "web" /\ op[d].req = op[c].req
       => c = d

\* A client at the summary of a run is the only one, and the summary is to come.
ClaimIsOwned ==
  /\ \A r \in Runs : summed[r] <= 1
  /\ \A r \in Runs : r \notin claims => summed[r] = 0
  /\ \A c \in Clients : op[c].pc # "idle" /\ op[c].req.kind = "final" =>
       op[c].req.id \in claims /\ summed[op[c].req.id] = 0
  /\ \A c, d \in Clients :
       /\ op[c].pc # "idle" /\ op[d].pc # "idle"
       /\ op[c].req.kind = "final" /\ op[d].req = op[c].req
       => c = d
  /\ \A c \in Clients : op[c].pc = "claimed" => op[c].req.kind = "final"

IInv ==
  /\ TypeOK /\ Exclusive /\ BaseIsCurrent /\ LedgerIsConfigured
  /\ ModelIsCharged /\ WebIsCharged /\ ClaimIsOwned

=============================================================================
