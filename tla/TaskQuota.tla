------------------------------ MODULE TaskQuota ------------------------------
(***************************************************************************)
(* What the resource ledger of a task promises, without files, locks or     *)
(* processes: requests are charged one at a time, before they are sent;     *)
(* work leaves a reserve for final summaries; a web request is charged once *)
(* per set of parameters; limits are only ever tightened.                   *)
(***************************************************************************)
EXTENDS Naturals

CONSTANTS Reserve, WebKeys, Limits, WebLimits

VARIABLE acct  \* counters and limits of the task

\* Limits are only ever tightened once the account is open.
Tightens(l, w) == acct.open => l <= acct.limit /\ w <= acct.webLimit

Charged(model, work, web, keys, l, w) ==
  acct' = [open |-> TRUE, model |-> model, work |-> work, web |-> web,
           webKeys |-> keys, limit |-> l, webLimit |-> w]

QInit == acct = [open |-> FALSE, model |-> 0, work |-> 0, web |-> 0, webKeys |-> {},
                 limit |-> 0, webLimit |-> 0]

QWork(l, w) ==
  /\ acct.model < l /\ acct.work + Reserve < l
  /\ Charged(acct.model + 1, acct.work + 1, acct.web, acct.webKeys, l, w)

QFinal(l, w) ==
  /\ acct.model < l
  /\ Charged(acct.model + 1, acct.work, acct.web, acct.webKeys, l, w)

QWeb(k, l, w) ==
  /\ k \notin acct.webKeys /\ acct.web < w
  /\ Charged(acct.model, acct.work, acct.web + 1, acct.webKeys \cup {k}, l, w)

QNext == \E l \in Limits, w \in WebLimits :
  /\ Tightens(l, w)
  /\ QWork(l, w) \/ QFinal(l, w) \/ \E k \in WebKeys : QWeb(k, l, w)

QSpec == QInit /\ [][QNext]_acct

=============================================================================
