---------------------------- MODULE RequestBudget ----------------------------
(***************************************************************************)
(* The ledger of one task's model and web requests (RequestBudget) and the *)
(* one-time claims of final summaries (FinalizationLedger).  Every request *)
(* is charged in a file before it is sent; a lock file, created            *)
(* exclusively, keeps two requesters from charging at once and outlives a   *)
(* requester that is lost while it holds it.                               *)
(*                                                                         *)
(* A client is a process that works for the task under the limits it was   *)
(* configured with.                                                        *)
(***************************************************************************)
EXTENDS Naturals, FiniteSets

CONSTANTS
  Clients,    \* requesters
  Limits,     \* model limits a client may be configured with
  WebLimits,  \* web limits a client may be configured with
  Reserve,    \* model requests kept for final summaries
  WebKeys,    \* fingerprints of web requests
  Runs,       \* identities of finalizations
  Free,       \* no lock file
  Stale,      \* a lock file whose creator is lost
  None,       \* no identity: a request for work has none
  MaxFaults   \* bound: clients lost or writes failed

ASSUME BudgetConstants ==
  /\ Limits \subseteq Nat /\ Limits # {} /\ WebLimits \subseteq Nat /\ WebLimits # {}
  /\ Reserve \in Nat /\ MaxFaults \in Nat
  /\ IsFiniteSet(Clients) /\ IsFiniteSet(WebKeys)
  /\ Free \notin Clients /\ Stale \notin Clients /\ Free # Stale

VARIABLES
  acct,     \* the ledger file
  lock,     \* the lock file
  op,       \* per client: the request it makes
  config,   \* per client: the limits of its configuration
  claims,   \* claim files
  sent,     \* history: model requests that left, work and final
  fetched,  \* history: web requests that left, per fingerprint
  summed,   \* history: summaries requested per run
  faults

vars == <<acct, lock, op, config, claims, sent, fetched, summed, faults>>

Account ==
  [open : BOOLEAN, model : Nat, work : Nat, web : Nat, webKeys : SUBSET WebKeys,
   limit : Nat, webLimit : Nat]

NoAccount ==
  [open |-> FALSE, model |-> 0, work |-> 0, web |-> 0, webKeys |-> {},
   limit |-> 0, webLimit |-> 0]

Work == [kind |-> "work", id |-> None]
Summary(r) == [kind |-> "final", id |-> r]
Requests ==
  {Work} \cup {Summary(r) : r \in Runs} \cup [kind : {"web"}, id : WebKeys]

At(place, req, base) == [pc |-> place, req |-> req, base |-> base]
Idle == At("idle", Work, NoAccount)

\* Where a client holds the lock.
Section == {"locked", "charging", "charged"}

Init ==
  /\ acct = NoAccount
  /\ lock = Free
  /\ op = [c \in Clients |-> Idle]
  /\ config \in [Clients -> [limit : Limits, webLimit : WebLimits]]
  /\ claims = {}
  /\ sent = [kind \in {"work", "final"} |-> 0]
  /\ fetched = [k \in WebKeys |-> 0]
  /\ summed = [r \in Runs |-> 0]
  /\ faults = 0

Goto(c, place) == op' = [op EXCEPT ![c] = At(place, op[c].req, op[c].base)]
Leave(c) == op' = [op EXCEPT ![c] = Idle]

-----------------------------------------------------------------------------
(* FinalizationLedger.                                                     *)

\* Faulty: the claim of another process is not seen.
ClaimUnchecked(c, r) ==
  /\ op[c].pc = "idle"
  /\ claims' = claims \cup {r}
  /\ op' = [op EXCEPT ![c] = At("claimed", Summary(r), NoAccount)]
  /\ UNCHANGED <<acct, lock, config, sent, fetched, summed, faults>>

\* The claim file is created exclusively, before anything is requested.
Claim(c, r) ==
  /\ op[c].pc = "idle"
  /\ r \notin claims
  /\ claims' = claims \cup {r}
  /\ op' = [op EXCEPT ![c] = At("claimed", Summary(r), NoAccount)]
  /\ UNCHANGED <<acct, lock, config, sent, fetched, summed, faults>>

\* The context does not fit or the lock is held: the run ends without summary.
AbandonSummary(c) ==
  /\ op[c].pc = "claimed"
  /\ Leave(c)
  /\ UNCHANGED <<acct, lock, config, claims, sent, fetched, summed, faults>>

-----------------------------------------------------------------------------
(* RequestBudget._state, model_request and web_request.                    *)

\* Faulty: a lock file that exists is taken over.
AcquireAnyway(c, req) ==
  /\ \/ op[c].pc = "idle" /\ req.kind # "final"
     \/ op[c].pc = "claimed" /\ req = op[c].req
  /\ lock' = c
  /\ op' = [op EXCEPT ![c] = At("locked", req, NoAccount)]
  /\ UNCHANGED <<acct, config, claims, sent, fetched, summed, faults>>

\* The lock file is created exclusively; a request that finds one is refused.
Acquire(c, req) ==
  /\ \/ op[c].pc = "idle" /\ req.kind # "final"
     \/ op[c].pc = "claimed" /\ req = op[c].req
  /\ lock = Free
  /\ lock' = c
  /\ op' = [op EXCEPT ![c] = At("locked", req, NoAccount)]
  /\ UNCHANGED <<acct, config, claims, sent, fetched, summed, faults>>

Tighter(a, b) == IF a <= b THEN a ELSE b

\* The ledger under the stricter of its limits and the client's.
Tightened(a, limits) ==
  [open |-> TRUE, model |-> a.model, work |-> a.work, web |-> a.web, webKeys |-> a.webKeys,
   limit |-> IF a.open THEN Tighter(a.limit, limits.limit) ELSE limits.limit,
   webLimit |-> IF a.open THEN Tighter(a.webLimit, limits.webLimit) ELSE limits.webLimit]

ReadLedger(c) ==
  /\ op[c].pc = "locked"
  /\ op' = [op EXCEPT ![c] = At("charging", op[c].req, Tightened(acct, config[c]))]
  /\ UNCHANGED <<acct, lock, config, claims, sent, fetched, summed, faults>>

\* Faulty: one request more than the reserve admits.
AdmitsOneMore(a, req) ==
  CASE req.kind = "work" -> a.model < a.limit /\ a.work + Reserve <= a.limit
    [] req.kind = "final" -> a.model < a.limit
    [] req.kind = "web" -> req.id \notin a.webKeys /\ a.web < a.webLimit

Admits(a, req) ==
  CASE req.kind = "work" -> a.model < a.limit /\ a.work + Reserve < a.limit
    [] req.kind = "final" -> a.model < a.limit
    [] req.kind = "web" -> req.id \notin a.webKeys /\ a.web < a.webLimit

\* The ledger with the request counted.
With(a, req) ==
  [open |-> a.open, limit |-> a.limit, webLimit |-> a.webLimit,
   model |-> IF req.kind = "web" THEN a.model ELSE a.model + 1,
   work |-> IF req.kind = "work" THEN a.work + 1 ELSE a.work,
   web |-> IF req.kind = "web" THEN a.web + 1 ELSE a.web,
   webKeys |-> IF req.kind = "web" THEN a.webKeys \cup {req.id} ELSE a.webKeys]

\* Faulty: the charge stays in memory until the request has been answered.
ChargeUnsaved(c) ==
  /\ op[c].pc = "charging"
  /\ Admits(op[c].base, op[c].req)
  /\ Goto(c, "charged")
  /\ UNCHANGED <<acct, lock, config, claims, sent, fetched, summed, faults>>

\* The request is admitted and the ledger replaced ...
Charge(c) ==
  /\ op[c].pc = "charging"
  /\ Admits(op[c].base, op[c].req)
  /\ acct' = With(op[c].base, op[c].req)
  /\ Goto(c, "charged")
  /\ UNCHANGED <<lock, config, claims, sent, fetched, summed, faults>>

\* ... or RequestBudgetExceeded is raised, with the ledger as it was.
Refuse(c) ==
  /\ op[c].pc = "charging"
  /\ ~Admits(op[c].base, op[c].req)
  /\ lock' = Free
  /\ Leave(c)
  /\ UNCHANGED <<acct, config, claims, sent, fetched, summed, faults>>

Release(c) ==
  /\ op[c].pc = "charged"
  /\ lock' = Free
  /\ Goto(c, "sending")
  /\ UNCHANGED <<acct, config, claims, sent, fetched, summed, faults>>

\* The request leaves; a retry is a request of its own, a summary is not retried.
Send(c) ==
  LET req == op[c].req IN
  /\ op[c].pc = "sending"
  /\ sent' = IF req.kind = "web" THEN sent ELSE [sent EXCEPT ![req.kind] = @ + 1]
  /\ fetched' = IF req.kind = "web" THEN [fetched EXCEPT ![req.id] = @ + 1] ELSE fetched
  /\ summed' = IF req.kind = "final" THEN [summed EXCEPT ![req.id] = @ + 1] ELSE summed
  /\ Leave(c)
  /\ UNCHANGED <<acct, lock, config, claims, faults>>

-----------------------------------------------------------------------------
\* The ledger cannot be read or written: nothing is charged, the lock is removed.
WriteFails(c) ==
  /\ op[c].pc \in {"locked", "charging"}
  /\ faults < MaxFaults
  /\ faults' = faults + 1
  /\ lock' = Free
  /\ Leave(c)
  /\ UNCHANGED <<acct, config, claims, sent, fetched, summed>>

\* A client is lost; a lock it holds stays.
Crash(c) ==
  /\ op[c].pc # "idle"
  /\ faults < MaxFaults
  /\ faults' = faults + 1
  /\ lock' = IF op[c].pc \in Section THEN Stale ELSE lock
  /\ Leave(c)
  /\ UNCHANGED <<acct, config, claims, sent, fetched, summed>>

\* The application is started with another configuration.
Restart(c, limits) ==
  /\ op[c].pc = "idle"
  /\ config' = [config EXCEPT ![c] = limits]
  /\ UNCHANGED <<acct, lock, op, claims, sent, fetched, summed, faults>>

Next == \E c \in Clients :
  \/ \E r \in Runs : Claim(c, r)
  \/ \E req \in Requests : Acquire(c, req)
  \/ AbandonSummary(c) \/ ReadLedger(c) \/ Charge(c) \/ Refuse(c) \/ Release(c)
  \/ Send(c) \/ WriteFails(c) \/ Crash(c)
  \/ \E limits \in [limit : Limits, webLimit : WebLimits] : Restart(c, limits)

Spec == Init /\ [][Next]_vars

-----------------------------------------------------------------------------
(* Properties.                                                             *)

\* Types; the creator of a lock file that is not stale is at work in it.
TypeOK ==
  /\ acct \in Account
  /\ lock \in Clients \cup {Free, Stale}
  /\ op \in [Clients -> [pc : {"idle", "claimed", "sending"} \cup Section,
                         req : Requests, base : Account]]
  /\ \A c \in Clients : lock = c => op[c].pc \in Section
  /\ config \in [Clients -> [limit : Limits, webLimit : WebLimits]]
  /\ claims \subseteq Runs
  /\ sent \in [{"work", "final"} -> Nat]
  /\ fetched \in [WebKeys -> Nat]
  /\ summed \in [Runs -> Nat]
  /\ faults \in 0..MaxFaults

\* A client in its section holds the lock: with the clause of TypeOK, at most
\* one is.
Exclusive == \A c \in Clients : op[c].pc \in Section => lock = c

\* No request leaves that was not charged before, whoever is lost when: the
\* ledger may count a request that never left, never the other way round.
SentIsCharged ==
  /\ sent["work"] <= acct.work
  /\ acct.work + sent["final"] <= acct.model
  /\ \A k \in WebKeys : fetched[k] <= (IF k \in acct.webKeys THEN 1 ELSE 0)

\* A run asks for its summary at most once, over all processes that resume it.
OneSummaryPerRun == \A r \in Runs : summed[r] <= 1

Quota == INSTANCE TaskQuota

\* Whatever clients do at once, the ledger changes by single admitted charges
\* under limits that only shrink.
KeepsQuota == Quota!QSpec

=============================================================================
