---------------------------- MODULE BudgetProofs ----------------------------
(***************************************************************************)
(* For any set of clients, limits, reserve and fault bound: at most one    *)
(* client holds the lock, nothing leaves uncharged, a run has one summary, *)
(* and the ledger file is the account of TaskQuota.                        *)
(***************************************************************************)
EXTENDS BudgetInvariant, FiniteSetTheorems, TLAPS

\* The ledger under a client's limits is a ledger.
LEMMA TightenedType ==
  ASSUME NEW a \in Account, NEW l \in [limit : Limits, webLimit : WebLimits]
  PROVE  Tightened(a, l) \in Account
BY BudgetConstants DEF Account, Tightened, Tighter

\* A charged ledger is a ledger, and is open.
LEMMA ChargedType ==
  ASSUME NEW a \in Account, NEW req \in Requests
  PROVE  With(a, req) \in Account /\ With(a, req).open = a.open
BY DEF Account, With, Requests, Work, Summary

\* Clients with a charged request are finitely many.
LEMMA WaitingFinite ==
  ASSUME NEW kind
  PROVE  IsFiniteSet(Waiting(kind)) /\ Cardinality(Waiting(kind)) \in Nat
<1>1. IsFiniteSet(Waiting(kind))
  BY BudgetConstants, FS_Subset DEF Waiting
<1> QED
  BY <1>1, FS_CardinalityType

\* Fewer clients wait after a step that charges nothing.
LEMMA FewerWait ==
  ASSUME NEW kind, Waiting(kind)' \subseteq Waiting(kind)
  PROVE  /\ Cardinality(Waiting(kind)') \in Nat
         /\ Cardinality(Waiting(kind)') <= Cardinality(Waiting(kind))
<1>1. IsFiniteSet(Waiting(kind)) /\ Cardinality(Waiting(kind)) \in Nat
  BY WaitingFinite
<1>2. IsFiniteSet(Waiting(kind)') /\ Cardinality(Waiting(kind)') <= Cardinality(Waiting(kind))
  BY <1>1, FS_Subset
<1> QED
  BY <1>2, FS_CardinalityType

\* The invariant holds before the first request.
LEMMA InitInvariant == Init => IInv
<1> SUFFICES ASSUME Init PROVE IInv
  OBVIOUS
<1>1. NoAccount \in Account
  BY DEF NoAccount, Account
<1>2. TypeOK
  BY <1>1, BudgetConstants DEF Init, TypeOK, Idle, At, Requests, Section
<1>3. Exclusive /\ BaseIsCurrent /\ LedgerIsConfigured
  BY DEF Init, Exclusive, BaseIsCurrent, LedgerIsConfigured, Idle, At, Section, NoAccount
<1>4. ModelIsCharged
  <2>1. \A kind : Waiting(kind) = {}
    BY DEF Init, Waiting, Idle, At, Pending
  <2>2. Cardinality(Waiting("work")) = 0 /\ Cardinality(Waiting("final")) = 0
    BY <2>1, FS_EmptySet
  <2> QED
    BY <2>2 DEF Init, ModelIsCharged, NoAccount
<1>5. WebIsCharged /\ ClaimIsOwned
  BY DEF Init, WebIsCharged, ClaimIsOwned, Idle, At, Pending, Work
<1> QED
  BY <1>2, <1>3, <1>4, <1>5 DEF IInv

\* A claim makes its client the only one at the summary of the run.
LEMMA ClaimKeeps ==
  ASSUME IInv, NEW c \in Clients, NEW r \in Runs, Claim(c, r)
  PROVE  IInv'
<1> USE DEF IInv
<1>1. TypeOK'
  BY DEF TypeOK, Claim, At, Summary, Section, NoAccount, Account, Requests, Work
<1>2. Exclusive'
  BY BudgetConstants DEF TypeOK, Exclusive, Claim, At, Summary, Section
<1>3. BaseIsCurrent' /\ LedgerIsConfigured'
  BY DEF TypeOK, BaseIsCurrent, LedgerIsConfigured, Exclusive, Section, Claim, At, Summary
<1>4. ModelIsCharged'
  <2>1. Waiting("work")' \subseteq Waiting("work") /\ Waiting("final")' \subseteq Waiting("final")
    BY DEF TypeOK, Waiting, Pending, Claim, At, Summary
  <2> QED
    BY <2>1, FewerWait, WaitingFinite DEF TypeOK, Account, ModelIsCharged, Claim
<1>5. WebIsCharged'
  BY DEF TypeOK, WebIsCharged, Pending, Claim, At, Summary
<1>6. ClaimIsOwned'
  BY DEF TypeOK, ClaimIsOwned, Requests, Work, Summary, Claim, At
<1> QED
  BY <1>1, <1>2, <1>3, <1>4, <1>5, <1>6

\* A client that gives its summary up holds nothing.
LEMMA AbandonSummaryKeeps ==
  ASSUME IInv, NEW c \in Clients, AbandonSummary(c)
  PROVE  IInv'
<1> USE DEF IInv
<1>1. TypeOK'
  BY DEF TypeOK, AbandonSummary, Leave, Idle, At, Section, NoAccount, Account, Requests, Work, Summary
<1>2. Exclusive'
  BY BudgetConstants DEF TypeOK, Exclusive, AbandonSummary, Leave, Idle, At, Section
<1>3. BaseIsCurrent' /\ LedgerIsConfigured'
  BY DEF TypeOK, BaseIsCurrent, LedgerIsConfigured, Exclusive, Section, AbandonSummary, Leave, Idle, At
<1>4. ModelIsCharged'
  <2>1. Waiting("work")' \subseteq Waiting("work") /\ Waiting("final")' \subseteq Waiting("final")
    BY DEF TypeOK, Waiting, Pending, AbandonSummary, Leave, Idle, At
  <2> QED
    BY <2>1, FewerWait, WaitingFinite DEF TypeOK, Account, ModelIsCharged, AbandonSummary
<1>5. WebIsCharged'
  BY DEF TypeOK, WebIsCharged, Pending, AbandonSummary, Leave, Idle, At
<1>6. ClaimIsOwned'
  BY DEF TypeOK, ClaimIsOwned, Requests, Work, Summary, AbandonSummary, Leave, Idle, At
<1> QED
  BY <1>1, <1>2, <1>3, <1>4, <1>5, <1>6

\* The lock is free, so nobody is in the section.
LEMMA AcquireKeeps ==
  ASSUME IInv, NEW c \in Clients, NEW req \in Requests, Acquire(c, req)
  PROVE  IInv'
<1> USE DEF IInv
<1>1. TypeOK'
  BY DEF TypeOK, Acquire, At, Section, NoAccount, Account, Requests, Work, Summary
<1>2. Exclusive'
  BY BudgetConstants DEF TypeOK, Exclusive, Acquire, At, Section
<1>3. BaseIsCurrent' /\ LedgerIsConfigured'
  BY DEF TypeOK, BaseIsCurrent, LedgerIsConfigured, Exclusive, Section, Acquire, At
<1>4. ModelIsCharged'
  <2>1. Waiting("work")' \subseteq Waiting("work") /\ Waiting("final")' \subseteq Waiting("final")
    BY DEF TypeOK, Waiting, Pending, Acquire, At
  <2> QED
    BY <2>1, FewerWait, WaitingFinite DEF TypeOK, Account, ModelIsCharged, Acquire
<1>5. WebIsCharged'
  BY DEF TypeOK, WebIsCharged, Pending, Acquire, At
<1>6. ClaimIsOwned'
  BY DEF TypeOK, ClaimIsOwned, Requests, Work, Summary, Acquire, At
<1> QED
  BY <1>1, <1>2, <1>3, <1>4, <1>5, <1>6

\* The ledger just read is current by definition.
LEMMA ReadLedgerKeeps ==
  ASSUME IInv, NEW c \in Clients, ReadLedger(c)
  PROVE  IInv'
<1> USE DEF IInv
<1>1. TypeOK'
  <2>1. Tightened(acct, config[c]) \in Account
    BY TightenedType DEF TypeOK
  <2> QED
    BY <2>1 DEF TypeOK, ReadLedger, At, Section
<1>2. Exclusive'
  BY BudgetConstants DEF TypeOK, Exclusive, ReadLedger, At, Section
<1>3. BaseIsCurrent' /\ LedgerIsConfigured'
  BY DEF TypeOK, BaseIsCurrent, LedgerIsConfigured, Exclusive, Section, ReadLedger, At
<1>4. ModelIsCharged'
  <2>1. Waiting("work")' \subseteq Waiting("work") /\ Waiting("final")' \subseteq Waiting("final")
    BY DEF TypeOK, Waiting, Pending, ReadLedger, At
  <2> QED
    BY <2>1, FewerWait, WaitingFinite DEF TypeOK, Account, ModelIsCharged, ReadLedger
<1>5. WebIsCharged'
  BY DEF TypeOK, WebIsCharged, Pending, ReadLedger, At
<1>6. ClaimIsOwned'
  BY DEF TypeOK, ClaimIsOwned, Requests, Work, Summary, ReadLedger, At
<1> QED
  BY <1>1, <1>2, <1>3, <1>4, <1>5, <1>6

\* The holder of the lock is the only one at the ledger.
LEMMA ChargeKeeps ==
  ASSUME IInv, NEW c \in Clients, Charge(c)
  PROVE  IInv'
<1> USE DEF IInv
<1> DEFINE req == op[c].req
<1>1. /\ req \in Requests /\ op[c].base \in Account
      /\ op[c].base = Tightened(acct, config[c])
      /\ acct' = With(op[c].base, req)
  BY DEF TypeOK, BaseIsCurrent, Charge
<1>2. acct' \in Account /\ acct'.open
  BY <1>1, ChargedType DEF Tightened
<1>3. TypeOK'
  BY <1>2 DEF TypeOK, Charge, Goto, At, Section
<1>4. Exclusive'
  BY BudgetConstants DEF TypeOK, Exclusive, Charge, Goto, At, Section
<1>5. BaseIsCurrent' /\ LedgerIsConfigured'
  <2>1. \A d \in Clients \ {c} : op'[d] = op[d] /\ op[d].pc # "charging"
    BY DEF TypeOK, Exclusive, Charge, Goto, Section
  <2>2. op'[c].pc # "charging"
    BY DEF TypeOK, Charge, Goto, At
  <2>3. acct'.limit \in Limits /\ acct'.webLimit \in WebLimits
    BY <1>1, BudgetConstants
    DEF LedgerIsConfigured, TypeOK, Account, With, Tightened, Tighter
  <2> QED
    BY <1>2, <2>1, <2>2, <2>3 DEF BaseIsCurrent, LedgerIsConfigured
<1>6. ModelIsCharged'
  <2>1. c \notin Waiting(req.kind)
    BY DEF Waiting, Pending, Charge
  <2>2. \A kind : Waiting(kind)' = IF kind = req.kind THEN Waiting(kind) \cup {c}
                                                     ELSE Waiting(kind)
    BY DEF TypeOK, Waiting, Pending, Charge, Goto, At
  <2>3. ASSUME NEW kind
        PROVE  Cardinality(Waiting(kind)') = IF kind = req.kind
                 THEN Cardinality(Waiting(kind)) + 1 ELSE Cardinality(Waiting(kind))
    BY <2>1, <2>2, WaitingFinite, FS_AddElement
  <2>4. Cardinality(Waiting("work")') = IF req.kind = "work"
          THEN Cardinality(Waiting("work")) + 1 ELSE Cardinality(Waiting("work"))
    BY <2>3
  <2>5. Cardinality(Waiting("final")') = IF req.kind = "final"
          THEN Cardinality(Waiting("final")) + 1 ELSE Cardinality(Waiting("final"))
    BY <2>3
  <2>6. /\ Cardinality(Waiting("work")) \in Nat /\ Cardinality(Waiting("final")) \in Nat
        /\ sent' = sent /\ sent["work"] \in Nat /\ sent["final"] \in Nat
        /\ acct.work \in Nat /\ acct.model \in Nat
    BY WaitingFinite DEF TypeOK, Account, Charge
  <2>7. /\ acct'.model = IF req.kind = "web" THEN acct.model ELSE acct.model + 1
        /\ acct'.work = IF req.kind = "work" THEN acct.work + 1 ELSE acct.work
    BY <1>1 DEF With, Tightened
  <2>8. req.kind \in {"work", "final", "web"}
    BY <1>1 DEF Requests, Work, Summary
  <2>9. CASE req.kind = "work"
    BY <2>4, <2>5, <2>6, <2>7, <2>9 DEF ModelIsCharged
  <2>10. CASE req.kind = "final"
    BY <2>4, <2>5, <2>6, <2>7, <2>10 DEF ModelIsCharged
  <2>11. CASE req.kind = "web"
    BY <2>4, <2>5, <2>6, <2>7, <2>11 DEF ModelIsCharged
  <2> QED
    BY <2>8, <2>9, <2>10, <2>11
<1>7. WebIsCharged'
  <2>1. op[c].base.webKeys = acct.webKeys
    BY <1>1 DEF Tightened
  <2>2. acct'.webKeys = IF req.kind = "web" THEN acct.webKeys \cup {req.id} ELSE acct.webKeys
    BY <1>1, <2>1 DEF With
  <2>3. req.kind = "web" => req.id \in WebKeys /\ req.id \notin acct.webKeys
    BY <1>1, <2>1 DEF Charge, Admits, Requests, Work, Summary
  <2>4. /\ acct'.webKeys = IF req.kind = "web" THEN acct.webKeys \cup {req.id} ELSE acct.webKeys
        /\ req.kind = "web" => req.id \in WebKeys /\ req.id \notin acct.webKeys
    BY <2>2, <2>3
  <2>5. /\ op'[c].pc \in Pending /\ op'[c].req = req /\ fetched' = fetched
        /\ \A d \in Clients \ {c} : op'[d] = op[d]
    BY DEF TypeOK, Charge, Goto, At, Pending
  <2>6. \A d \in Clients : op[d].pc \in Pending /\ op[d].req.kind = "web" =>
          op[d].req.id \in acct.webKeys
    BY DEF WebIsCharged
  <2> QED
    <3> USE DEF WebIsCharged, TypeOK
    <3>1. /\ \A k \in WebKeys : k \notin acct'.webKeys => fetched'[k] = 0
          /\ \A k \in WebKeys : fetched'[k] <= 1
      BY <2>4, <2>5
    <3>2. \A d \in Clients : op'[d].pc \in Pending /\ op'[d].req.kind = "web" =>
            op'[d].req.id \in acct'.webKeys /\ fetched'[op'[d].req.id] = 0
      BY <2>4, <2>5, <2>6
    <3>3. ASSUME NEW d \in Clients, NEW e \in Clients,
                 op'[d].pc \in Pending, op'[e].pc \in Pending,
                 op'[d].req.kind = "web", op'[e].req = op'[d].req
          PROVE  d = e
      BY <2>4, <2>5, <2>6, <3>3
    <3> QED
      BY <3>1, <3>2, <3>3
<1>8. ClaimIsOwned'
  BY DEF TypeOK, ClaimIsOwned, Requests, Work, Summary, Charge, Goto, At
<1> QED
  BY <1>3, <1>4, <1>5, <1>6, <1>7, <1>8

\* A refused client leaves the ledger as it was.
LEMMA RefuseKeeps ==
  ASSUME IInv, NEW c \in Clients, Refuse(c)
  PROVE  IInv'
<1> USE DEF IInv
<1>1. TypeOK'
  BY BudgetConstants DEF TypeOK, Refuse, Leave, Idle, At, Section, NoAccount, Account, Requests, Work, Summary
<1>2. Exclusive'
  BY BudgetConstants DEF TypeOK, Exclusive, Refuse, Leave, Idle, At, Section
<1>3. BaseIsCurrent' /\ LedgerIsConfigured'
  BY DEF TypeOK, BaseIsCurrent, LedgerIsConfigured, Exclusive, Section, Refuse, Leave, Idle, At
<1>4. ModelIsCharged'
  <2>1. Waiting("work")' \subseteq Waiting("work") /\ Waiting("final")' \subseteq Waiting("final")
    BY DEF TypeOK, Waiting, Pending, Refuse, Leave, Idle, At
  <2> QED
    BY <2>1, FewerWait, WaitingFinite DEF TypeOK, Account, ModelIsCharged, Refuse
<1>5. WebIsCharged'
  BY DEF TypeOK, WebIsCharged, Pending, Refuse, Leave, Idle, At
<1>6. ClaimIsOwned'
  BY DEF TypeOK, ClaimIsOwned, Requests, Work, Summary, Refuse, Leave, Idle, At
<1> QED
  BY <1>1, <1>2, <1>3, <1>4, <1>5, <1>6

\* A charged request stays charged without the lock.
LEMMA ReleaseKeeps ==
  ASSUME IInv, NEW c \in Clients, Release(c)
  PROVE  IInv'
<1> USE DEF IInv
<1>1. TypeOK'
  BY BudgetConstants DEF TypeOK, Release, Goto, At, Section, NoAccount, Account, Requests, Work, Summary
<1>2. Exclusive'
  BY BudgetConstants DEF TypeOK, Exclusive, Release, Goto, At, Section
<1>3. BaseIsCurrent' /\ LedgerIsConfigured'
  BY DEF TypeOK, BaseIsCurrent, LedgerIsConfigured, Exclusive, Section, Release, Goto, At
<1>4. ModelIsCharged'
  <2>1. Waiting("work")' \subseteq Waiting("work") /\ Waiting("final")' \subseteq Waiting("final")
    BY DEF TypeOK, Waiting, Pending, Release, Goto, At
  <2> QED
    BY <2>1, FewerWait, WaitingFinite DEF TypeOK, Account, ModelIsCharged, Release
<1>5. WebIsCharged'
  BY DEF TypeOK, WebIsCharged, Pending, Release, Goto, At
<1>6. ClaimIsOwned'
  BY DEF TypeOK, ClaimIsOwned, Requests, Work, Summary, Release, Goto, At
<1> QED
  BY <1>1, <1>2, <1>3, <1>4, <1>5, <1>6

\* What leaves moves from the waiting to the sent.
LEMMA SendKeeps ==
  ASSUME IInv, NEW c \in Clients, Send(c)
  PROVE  IInv'
<1> USE DEF IInv
<1>1. TypeOK'
  BY DEF TypeOK, Send, Leave, Idle, At, Section, NoAccount, Account, Requests, Work, Summary
<1>2. Exclusive'
  BY BudgetConstants DEF TypeOK, Exclusive, Send, Leave, Idle, At, Section
<1>3. BaseIsCurrent' /\ LedgerIsConfigured'
  BY DEF TypeOK, BaseIsCurrent, LedgerIsConfigured, Exclusive, Section, Send, Leave, Idle, At
<1> DEFINE req == op[c].req
<1>4. ModelIsCharged'
  <2>1. c \in Waiting(req.kind)
    BY DEF Waiting, Pending, Send
  <2>2. op'[c].pc \notin Pending /\ \A d \in Clients \ {c} : op'[d] = op[d]
    BY DEF TypeOK, Send, Leave, Idle, At, Pending
  <2>3. \A kind : Waiting(kind)' = IF kind = req.kind THEN Waiting(kind) \ {c}
                                                     ELSE Waiting(kind)
    BY <2>2 DEF Waiting
  <2>4. ASSUME NEW kind
        PROVE  Cardinality(Waiting(kind)') = IF kind = req.kind
                 THEN Cardinality(Waiting(kind)) - 1 ELSE Cardinality(Waiting(kind))
    BY <2>1, <2>3, WaitingFinite, FS_RemoveElement
  <2>5. Cardinality(Waiting("work")') = IF req.kind = "work"
          THEN Cardinality(Waiting("work")) - 1 ELSE Cardinality(Waiting("work"))
    BY <2>4
  <2>6. Cardinality(Waiting("final")') = IF req.kind = "final"
          THEN Cardinality(Waiting("final")) - 1 ELSE Cardinality(Waiting("final"))
    BY <2>4
  <2>7. /\ Cardinality(Waiting("work")) \in Nat /\ Cardinality(Waiting("final")) \in Nat
        /\ sent["work"] \in Nat /\ sent["final"] \in Nat
        /\ acct' = acct /\ acct.work \in Nat /\ acct.model \in Nat
    BY WaitingFinite DEF TypeOK, Account, Send
  <2>8. /\ sent'["work"] = IF req.kind = "work" THEN sent["work"] + 1 ELSE sent["work"]
        /\ sent'["final"] = IF req.kind = "final" THEN sent["final"] + 1 ELSE sent["final"]
    BY DEF TypeOK, Send, Requests, Work, Summary
  <2>9. CASE req.kind = "work"
    BY <2>5, <2>6, <2>7, <2>8, <2>9 DEF ModelIsCharged
  <2>10. CASE req.kind = "final"
    BY <2>5, <2>6, <2>7, <2>8, <2>10 DEF ModelIsCharged
  <2>11. CASE req.kind \notin {"work", "final"}
    BY <2>5, <2>6, <2>7, <2>8, <2>11 DEF ModelIsCharged
  <2> QED
    BY <2>9, <2>10, <2>11
<1>5. WebIsCharged'
  <2>1. /\ op'[c].pc \notin Pending /\ \A d \in Clients \ {c} : op'[d] = op[d]
        /\ acct' = acct
    BY DEF TypeOK, Send, Leave, Idle, At, Pending
  <2>2. CASE req.kind # "web"
    <3>1. fetched' = fetched
      BY <2>2 DEF Send
    <3> QED
      BY <2>1, <3>1 DEF WebIsCharged
  <2>3. CASE req.kind = "web"
    <3>1. /\ op[c].pc \in Pending /\ req.id \in WebKeys
          /\ req.id \in acct.webKeys /\ fetched[req.id] = 0
      BY <2>3 DEF TypeOK, Send, Pending, WebIsCharged, Requests, Work, Summary
    <3>2. fetched' = [fetched EXCEPT ![req.id] = 1]
      BY <2>3, <3>1 DEF Send
    <3>3. \A d \in Clients : op'[d].pc \in Pending /\ op'[d].req.kind = "web" =>
            op'[d].req.id # req.id
      BY <2>1, <2>3, <3>1 DEF WebIsCharged, TypeOK, Requests, Work, Summary
    <3>4. /\ \A k \in WebKeys : k \notin acct'.webKeys => fetched'[k] = 0
          /\ \A k \in WebKeys : fetched'[k] <= 1
      BY <2>1, <3>1, <3>2 DEF WebIsCharged, TypeOK
    <3>5. \A d \in Clients : op'[d].pc \in Pending /\ op'[d].req.kind = "web" =>
            op'[d].req.id \in acct'.webKeys /\ fetched'[op'[d].req.id] = 0
      <4>1. ASSUME NEW d \in Clients, op'[d].pc \in Pending, op'[d].req.kind = "web"
            PROVE  op'[d].req.id \in acct'.webKeys /\ fetched'[op'[d].req.id] = 0
        <5>1. d # c /\ op'[d] = op[d]
          BY <2>1, <4>1
        <5>2. op[d].req.id \in WebKeys /\ op[d].req.id \in acct.webKeys /\ fetched[op[d].req.id] = 0
          BY <4>1, <5>1 DEF WebIsCharged, TypeOK, Requests, Work, Summary
        <5>3. op'[d].req.id # req.id
          BY <3>3, <4>1
        <5> QED
          BY <2>1, <3>2, <5>1, <5>2, <5>3 DEF TypeOK
      <4> QED
        BY <4>1
    <3>6. \A d, e \in Clients :
            /\ op'[d].pc \in Pending /\ op'[e].pc \in Pending
            /\ op'[d].req.kind = "web" /\ op'[e].req = op'[d].req
            => d = e
      BY <2>1 DEF WebIsCharged
    <3> QED
      BY <3>4, <3>5, <3>6 DEF WebIsCharged
  <2> QED
    BY <2>2, <2>3
<1>6. ClaimIsOwned'
  BY DEF TypeOK, ClaimIsOwned, Requests, Work, Summary, Send, Leave, Idle, At
<1> QED
  BY <1>1, <1>2, <1>3, <1>4, <1>5, <1>6

\* A failed write charges nothing.
LEMMA WriteFailsKeeps ==
  ASSUME IInv, NEW c \in Clients, WriteFails(c)
  PROVE  IInv'
<1> USE DEF IInv
<1>1. TypeOK'
  BY BudgetConstants DEF TypeOK, WriteFails, Leave, Idle, At, Section, NoAccount, Account, Requests, Work, Summary
<1>2. Exclusive'
  BY BudgetConstants DEF TypeOK, Exclusive, WriteFails, Leave, Idle, At, Section
<1>3. BaseIsCurrent' /\ LedgerIsConfigured'
  BY DEF TypeOK, BaseIsCurrent, LedgerIsConfigured, Exclusive, Section, WriteFails, Leave, Idle, At
<1>4. ModelIsCharged'
  <2>1. Waiting("work")' \subseteq Waiting("work") /\ Waiting("final")' \subseteq Waiting("final")
    BY DEF TypeOK, Waiting, Pending, WriteFails, Leave, Idle, At
  <2> QED
    BY <2>1, FewerWait, WaitingFinite DEF TypeOK, Account, ModelIsCharged, WriteFails
<1>5. WebIsCharged'
  BY DEF TypeOK, WebIsCharged, Pending, WriteFails, Leave, Idle, At
<1>6. ClaimIsOwned'
  BY DEF TypeOK, ClaimIsOwned, Requests, Work, Summary, WriteFails, Leave, Idle, At
<1> QED
  BY <1>1, <1>2, <1>3, <1>4, <1>5, <1>6

\* A request of a lost client is charged and never leaves.
LEMMA CrashKeeps ==
  ASSUME IInv, NEW c \in Clients, Crash(c)
  PROVE  IInv'
<1> USE DEF IInv
<1>1. TypeOK'
  BY BudgetConstants DEF TypeOK, Crash, Leave, Idle, At, Section, NoAccount, Account, Requests, Work, Summary
<1>2. Exclusive'
  BY BudgetConstants DEF TypeOK, Exclusive, Crash, Leave, Idle, At, Section
<1>3. BaseIsCurrent' /\ LedgerIsConfigured'
  BY DEF TypeOK, BaseIsCurrent, LedgerIsConfigured, Exclusive, Section, Crash, Leave, Idle, At
<1>4. ModelIsCharged'
  <2>1. Waiting("work")' \subseteq Waiting("work") /\ Waiting("final")' \subseteq Waiting("final")
    BY DEF TypeOK, Waiting, Pending, Crash, Leave, Idle, At
  <2> QED
    BY <2>1, FewerWait, WaitingFinite DEF TypeOK, Account, ModelIsCharged, Crash
<1>5. WebIsCharged'
  BY DEF TypeOK, WebIsCharged, Pending, Crash, Leave, Idle, At
<1>6. ClaimIsOwned'
  BY DEF TypeOK, ClaimIsOwned, Requests, Work, Summary, Crash, Leave, Idle, At
<1> QED
  BY <1>1, <1>2, <1>3, <1>4, <1>5, <1>6

\* An idle client has no ledger in its hands.
LEMMA RestartKeeps ==
  ASSUME IInv, NEW c \in Clients, NEW limits \in [limit : Limits, webLimit : WebLimits], Restart(c, limits)
  PROVE  IInv'
<1> USE DEF IInv
<1>1. TypeOK'
  BY DEF TypeOK, Restart, Section, NoAccount, Account, Requests, Work, Summary
<1>2. Exclusive'
  BY BudgetConstants DEF TypeOK, Exclusive, Restart, Section
<1>3. BaseIsCurrent' /\ LedgerIsConfigured'
  BY DEF TypeOK, BaseIsCurrent, LedgerIsConfigured, Exclusive, Section, Restart
<1>4. ModelIsCharged'
  <2>1. Waiting("work")' \subseteq Waiting("work") /\ Waiting("final")' \subseteq Waiting("final")
    BY DEF TypeOK, Waiting, Pending, Restart
  <2> QED
    BY <2>1, FewerWait, WaitingFinite DEF TypeOK, Account, ModelIsCharged, Restart
<1>5. WebIsCharged'
  BY DEF TypeOK, WebIsCharged, Pending, Restart
<1>6. ClaimIsOwned'
  BY DEF TypeOK, ClaimIsOwned, Requests, Work, Summary, Restart
<1> QED
  BY <1>1, <1>2, <1>3, <1>4, <1>5, <1>6

\* Every step keeps the invariant: one case per action.
LEMMA NextInvariant == IInv /\ [Next]_vars => IInv'
<1> SUFFICES ASSUME IInv, [Next]_vars PROVE IInv'
  OBVIOUS
<1>1. CASE UNCHANGED vars
  BY <1>1 DEF IInv, vars, TypeOK, Exclusive, BaseIsCurrent, LedgerIsConfigured,
              ModelIsCharged, Waiting, WebIsCharged, ClaimIsOwned
<1>2. ASSUME NEW c \in Clients, NEW r \in Runs, Claim(c, r) PROVE IInv'
  BY <1>2, ClaimKeeps
<1>3. ASSUME NEW c \in Clients, NEW req \in Requests, Acquire(c, req) PROVE IInv'
  BY <1>3, AcquireKeeps
<1>4. ASSUME NEW c \in Clients, AbandonSummary(c) PROVE IInv'
  BY <1>4, AbandonSummaryKeeps
<1>5. ASSUME NEW c \in Clients, ReadLedger(c) PROVE IInv'
  BY <1>5, ReadLedgerKeeps
<1>6. ASSUME NEW c \in Clients, Charge(c) PROVE IInv'
  BY <1>6, ChargeKeeps
<1>7. ASSUME NEW c \in Clients, Refuse(c) PROVE IInv'
  BY <1>7, RefuseKeeps
<1>8. ASSUME NEW c \in Clients, Release(c) PROVE IInv'
  BY <1>8, ReleaseKeeps
<1>9. ASSUME NEW c \in Clients, Send(c) PROVE IInv'
  BY <1>9, SendKeeps
<1>10. ASSUME NEW c \in Clients, WriteFails(c) PROVE IInv'
  BY <1>10, WriteFailsKeeps
<1>11. ASSUME NEW c \in Clients, Crash(c) PROVE IInv'
  BY <1>11, CrashKeeps
<1>12. ASSUME NEW c \in Clients, NEW limits \in [limit : Limits, webLimit : WebLimits],
              Restart(c, limits)
       PROVE  IInv'
  BY <1>12, RestartKeeps
<1> QED
  BY <1>1, <1>2, <1>3, <1>4, <1>5, <1>6, <1>7, <1>8, <1>9, <1>10, <1>11, <1>12 DEF Next

\* The inductive invariant holds in every reachable state.
THEOREM InvariantHolds == Spec => []IInv
BY InitInvariant, NextInvariant, PTL DEF Spec

\* The ledger, the lock file and the clients keep their types.
THEOREM BudgetTypes == Spec => []TypeOK
<1>1. IInv => TypeOK
  BY DEF IInv
<1> QED
  BY <1>1, InvariantHolds, PTL

\* The lock file created exclusively (budget.py:35) keeps clients apart: two in
\* the section are one.
THEOREM OneInTheSection ==
  Spec => [](Exclusive /\ \A c, d \in Clients :
               op[c].pc \in Section /\ op[d].pc \in Section => c = d)
<1>1. IInv => Exclusive /\ \A c, d \in Clients :
                op[c].pc \in Section /\ op[d].pc \in Section => c = d
  BY DEF IInv, Exclusive
<1> QED
  BY <1>1, InvariantHolds, PTL

\* Requests are charged before they leave (budget.py:57-76), whatever crashes.
THEOREM NothingLeavesUncharged == Spec => []SentIsCharged
<1>1. ASSUME IInv PROVE SentIsCharged
  <2>1. /\ Cardinality(Waiting("work")) \in Nat /\ Cardinality(Waiting("final")) \in Nat
        /\ sent["work"] \in Nat /\ sent["final"] \in Nat
        /\ acct.work \in Nat /\ acct.model \in Nat
    BY <1>1, WaitingFinite DEF IInv, TypeOK, Account
  <2>2. sent["work"] <= acct.work /\ acct.work + sent["final"] <= acct.model
    BY <1>1, <2>1 DEF IInv, ModelIsCharged
  <2>3. \A k \in WebKeys : fetched[k] <= (IF k \in acct.webKeys THEN 1 ELSE 0)
    BY <1>1 DEF IInv, TypeOK, WebIsCharged
  <2> QED
    BY <2>2, <2>3 DEF SentIsCharged
<1> QED
  BY <1>1, InvariantHolds, PTL

\* The claim file (finalization.py:29) gives a run one summary over all processes.
THEOREM SummaryIsClaimed == Spec => []OneSummaryPerRun
<1>1. IInv => OneSummaryPerRun
  BY DEF IInv, ClaimIsOwned, OneSummaryPerRun
<1> QED
  BY <1>1, InvariantHolds, PTL

\* A charge is a step of the abstract account.
LEMMA ChargeIsQuotaStep ==
  ASSUME IInv, NEW c \in Clients, Charge(c)
  PROVE  Quota!QNext
<1> DEFINE req == op[c].req
           l == acct'.limit
           w == acct'.webLimit
<1>1. /\ req \in Requests /\ acct \in Account
      /\ op[c].base = Tightened(acct, config[c])
      /\ config[c] \in [limit : Limits, webLimit : WebLimits]
      /\ Admits(op[c].base, req) /\ acct' = With(op[c].base, req)
  BY DEF IInv, TypeOK, BaseIsCurrent, Charge
<1>2. l = op[c].base.limit /\ w = op[c].base.webLimit
  BY <1>1 DEF With
<1>3. l \in Limits /\ w \in WebLimits
  BY <1>1, <1>2 DEF IInv, LedgerIsConfigured, Tightened, Tighter
<1>4. Quota!Tightens(l, w)
  <2>1. SUFFICES ASSUME acct.open PROVE l <= acct.limit /\ w <= acct.webLimit
    BY DEF Quota!Tightens
  <2>2. l = Tighter(acct.limit, config[c].limit) /\ w = Tighter(acct.webLimit, config[c].webLimit)
    BY <1>1, <1>2, <2>1 DEF Tightened
  <2>3. /\ acct.limit \in Nat /\ config[c].limit \in Nat
        /\ acct.webLimit \in Nat /\ config[c].webLimit \in Nat
    BY <1>1, BudgetConstants DEF Account
  <2> QED
    BY <2>2, <2>3 DEF Tighter
<1>5. /\ op[c].base.model = acct.model /\ op[c].base.work = acct.work
      /\ op[c].base.web = acct.web /\ op[c].base.webKeys = acct.webKeys
      /\ op[c].base.open
  BY <1>1 DEF Tightened
<1>6. CASE req.kind = "work"
  <2>1. acct.model < l /\ acct.work + Reserve < l
    BY <1>1, <1>2, <1>5, <1>6 DEF Admits
  <2>2. Quota!Charged(acct.model + 1, acct.work + 1, acct.web, acct.webKeys, l, w)
    BY <1>1, <1>2, <1>5, <1>6 DEF Quota!Charged, With
  <2> QED
    BY <1>3, <1>4, <2>1, <2>2 DEF Quota!QNext, Quota!QWork
<1>7. CASE req.kind = "final"
  <2>1. acct.model < l
    BY <1>1, <1>2, <1>5, <1>7 DEF Admits
  <2>2. Quota!Charged(acct.model + 1, acct.work, acct.web, acct.webKeys, l, w)
    BY <1>1, <1>2, <1>5, <1>7 DEF Quota!Charged, With
  <2> QED
    BY <1>3, <1>4, <2>1, <2>2 DEF Quota!QNext, Quota!QFinal
<1>8. CASE req.kind = "web"
  <2>1. req.id \in WebKeys /\ req.id \notin acct.webKeys /\ acct.web < w
    BY <1>1, <1>2, <1>5, <1>8 DEF Admits, Requests, Work, Summary
  <2>2. Quota!Charged(acct.model, acct.work, acct.web + 1, acct.webKeys \cup {req.id}, l, w)
    BY <1>1, <1>2, <1>5, <1>8 DEF Quota!Charged, With
  <2>3. Quota!QWeb(req.id, l, w)
    BY <2>1, <2>2 DEF Quota!QWeb
  <2>4. \E k \in WebKeys : Quota!QWeb(k, l, w)
    BY <2>1, <2>3
  <2> QED
    BY <1>3, <1>4, <2>4 DEF Quota!QNext
<1> QED
  BY <1>1, <1>6, <1>7, <1>8 DEF Requests, Work, Summary

\* The ledger file, charged by any number of processes, is the account of
\* TaskQuota: initial states map to initial states, a charge to a step, every
\* other action to a stutter.
THEOREM LedgerImplementsQuota == Spec => KeepsQuota
<1>1. Init => Quota!QInit
  BY DEF Init, NoAccount, Quota!QInit
<1>2. ASSUME IInv, [Next]_vars PROVE [Quota!QNext]_acct
  <2>1. CASE UNCHANGED vars
    BY <2>1 DEF vars
  <2>2. ASSUME NEW c \in Clients, Charge(c) PROVE Quota!QNext
    BY <1>2, <2>2, ChargeIsQuotaStep
  <2>3. CASE Next
    BY <2>2, <2>3 DEF Next, Claim, Acquire, AbandonSummary, ReadLedger, Refuse,
                      Release, Send, WriteFails, Crash, Restart
  <2> QED
    BY <1>2, <2>1, <2>3
<1> QED
  BY <1>1, <1>2, InvariantHolds, PTL DEF Spec, KeepsQuota, Quota!QSpec

=============================================================================
