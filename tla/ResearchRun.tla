----------------------------- MODULE ResearchRun -----------------------------
(***************************************************************************)
(* ResearchAgent.run: rounds of web requests under the limits of the run   *)
(* and of the task, the evidence they leave (ResearchEvidence), and the    *)
(* one summary, which may cite only the catalog of that evidence.  The     *)
(* runs of one task follow one another; a later one may be given the       *)
(* results of earlier ones as history.                                     *)
(*                                                                         *)
(* Free: which requests the model makes, what a request returns, and what  *)
(* the summary says.  The calls of a round are chosen as they are handled, *)
(* in their order.  A tool_call_id is taken to name one call: the provider *)
(* assigns it, and the code does not check it.                             *)
(***************************************************************************)
EXTENDS Naturals, Sequences, FiniteSets

CONSTANTS
  Urls,          \* pages
  SearchKeys,    \* fingerprints of searches
  ExtractKeys,   \* fingerprints of extractions
  MaxSearches,   \* max_searches, MaxExtracts: per run
  MaxExtracts,
  MaxRounds,     \* max_steps
  MaxBatch,      \* bound: calls of one round
  WebLimit,      \* RequestBudget.web_limit: per task
  CatalogLimit,  \* entries of the catalog
  Fallback,      \* sources of a result that cites none
  MaxRuns        \* bound: delegations to the agent

ASSUME ResearchConstants ==
  /\ SearchKeys \cap ExtractKeys = {}
  /\ {MaxSearches, MaxExtracts, MaxRounds, MaxBatch, WebLimit, CatalogLimit,
      Fallback, MaxRuns} \subseteq Nat \ {0}

VARIABLES
  web,       \* web_keys: requests the task has been charged for
  run,       \* the run in progress
  evidence,  \* its ResearchEvidence
  results,   \* the evidence of the results delivered, which the history keeps
  latest,    \* the rest of the latest result
  fetched    \* auxiliary: <<observation, url>> of all that the web really returned

researchVars == <<web, run, evidence, results, latest, fetched>>

Tool(key) == IF key \in SearchKeys THEN "web_search" ELSE "web_extract"
Limit == [web_search |-> MaxSearches, web_extract |-> MaxExtracts]

NewRun(id, refs) ==
  [id |-> id, refs |-> refs, stage |-> "round", round |-> 0, left |-> 0,
   counts |-> [tool \in DOMAIN Limit |-> 0], seen |-> {}, noNew |-> 0, stop |-> "none",
   observed |-> FALSE, progress |-> FALSE]

Idle(id) == [NewRun(id, {}) EXCEPT !.stage = "idle"]

Nothing == [delivery |-> "none", stop |-> "none", finalization |-> "none"]

NoEvidence ==
  [observations |-> {}, sources |-> << >>, extracted |-> {}, failed |-> FALSE]

ResearchInit ==
  /\ web = {} /\ results = << >> /\ fetched = {}
  /\ run = Idle(0) /\ latest = Nothing
  /\ evidence = NoEvidence

-----------------------------------------------------------------------------
(* ResearchEvidence.  sources is a function of URLs.                       *)

Source(url, obs, kind) == [url |-> url, obs |-> obs, kind |-> kind]
Observation(obs, urls, kind) == [id |-> obs, urls |-> urls, kind |-> kind]
SetSource(sources, source) ==
  [u \in DOMAIN sources \cup {source.url} |-> IF u = source.url THEN source ELSE sources[u]]

\* provenance_valid: each source is a URL some observation of that kind names, and what
\* is cited is a source.
ProvenanceValid(result) ==
  /\ \A s \in result.sources :
       \E o \in result.observations : o.id = s.obs /\ s.url \in o.urls /\ o.kind = s.kind
  /\ result.cited \subseteq {s.url : s \in result.sources}

HistoryId(record, obs) == [record |-> record, of |-> obs]
UrlsOf(result, obs) == {s.url : s \in {x \in result.sources : x.obs = obs}}

\* Bug for comparison: a reused observation claims every URL of its record.
ImportedWhole(record, result) ==
  {Observation(HistoryId(record, s.obs), {x.url : x \in result.sources}, "history") :
     s \in result.sources}

\* The observations import_history makes of one authorised record.
Imported(record, result) ==
  {Observation(HistoryId(record, s.obs), UrlsOf(result, s.obs), "history") :
     s \in result.sources}

\* authorized_history: the results a handoff names, if they are what they claim.
Authorized(refs) == {r \in refs : r \in DOMAIN results /\ ProvenanceValid(results[r])}

\* import_history goes through the records in the order of context_refs; a URL that
\* several have keeps the last.
ImportHistory(refs) ==
  LET known == UNION {{s.url : s \in results[r].sources} : r \in Authorized(refs)}
      of(url) == {r \in Authorized(refs) : \E s \in results[r].sources : s.url = url}
      last(url) == CHOOSE r \in of(url) : \A q \in of(url) : q <= r
      source(url) == CHOOSE s \in results[last(url)].sources : s.url = url
  IN  [NoEvidence EXCEPT
         !.observations = UNION {Imported(r, results[r]) : r \in Authorized(refs)},
         !.sources = [u \in known |-> Source(u, HistoryId(last(u), source(u).obs), "history")]]

\* Bug for comparison: a search takes over every page it meets, as what it was before.
ObserveSearchOver(obs, urls) ==
  [evidence EXCEPT
     !.observations = @ \cup {Observation(obs, urls, "search")},
     !.sources = [u \in DOMAIN @ \cup urls |->
        IF u \in urls THEN Source(u, obs, IF u \in DOMAIN @ THEN @[u].kind ELSE "search")
        ELSE @[u]]]

\* observe, a search: a source that was read or reused keeps its place.  A page already
\* known counts as progress when its date or its snippet is new, of which the latter
\* only where a search found it.
ObserveSearch(obs, urls) ==
  [evidence EXCEPT
     !.observations = @ \cup {Observation(obs, urls, "search")},
     !.sources = [u \in DOMAIN @ \cup urls |->
        IF u \in urls /\ (u \in DOMAIN @ => @[u].kind = "search") THEN Source(u, obs, "search")
        ELSE @[u]]]

\* observe, an extraction.
ObserveExtract(obs, url) ==
  [evidence EXCEPT
     !.observations = @ \cup {Observation(obs, {url}, "extract")},
     !.sources = SetSource(@, Source(url, obs, "extract")),
     !.extracted = @ \cup {url}]

\* observe, a result that is not ok.
ObserveFailure(tool) ==
  IF tool = "web_extract" THEN [evidence EXCEPT !.failed = TRUE] ELSE evidence

Rank(kind) == CASE kind = "extract" -> 2 [] kind = "history" -> 1 [] OTHER -> 0

\* catalog: the best CatalogLimit sources; texts decide among those of a kind.
Catalogs ==
  LET all == DOMAIN evidence.sources
      kind(u) == evidence.sources[u].kind
      size == IF Cardinality(all) < CatalogLimit THEN Cardinality(all) ELSE CatalogLimit
  IN  {c \in SUBSET all :
         /\ Cardinality(c) = size
         /\ \A u \in c, v \in all \ c : Rank(kind(u)) >= Rank(kind(v))}

-----------------------------------------------------------------------------
(* The loop.                                                               *)

\* run is called with a handoff that names earlier results.
Start(refs) ==
  /\ run.stage = "idle" /\ Len(results) < MaxRuns
  /\ refs \subseteq DOMAIN results
  /\ run' = NewRun(Len(results) + 1, refs)
  /\ evidence' = ImportHistory(refs) /\ latest' = Nothing
  /\ UNCHANGED <<web, results, fetched>>

ToolsSpent == \A tool \in DOMAIN Limit : run.counts[tool] >= Limit[tool]

Summarise(stop) ==
  /\ run' = [run EXCEPT !.stage = "summary", !.stop = stop]
  /\ UNCHANGED <<web, evidence, results, latest, fetched>>

\* The rounds or the tools are used up.
Exhausted ==
  /\ run.stage = "round" /\ (run.round = MaxRounds \/ ToolsSpent)
  /\ Summarise("budget")

\* The context or the request is over budget, the answer is unusable, or it makes no call.
EndRounds(stop) ==
  /\ run.stage = "round" /\ run.round < MaxRounds /\ ~ToolsSpent
  /\ stop \in {"budget", "model_response", "none"}
  /\ Summarise(stop)

\* The model answers with calls.
BeginRound ==
  /\ run.stage = "round" /\ run.round < MaxRounds /\ ~ToolsSpent
  /\ run' = [run EXCEPT !.stage = "batch", !.round = @ + 1, !.left = MaxBatch,
                        !.observed = FALSE, !.progress = FALSE]
  /\ UNCHANGED <<web, evidence, results, latest, fetched>>

\* The run after a call that was observed, with progress or without.
Handled(state, progress) ==
  [state EXCEPT !.left = @ - 1, !.observed = TRUE, !.progress = @ \/ progress]

\* A call of a tool that is not exposed.
Unexposed ==
  /\ run.stage = "batch" /\ run.left > 0
  /\ run' = Handled(run, FALSE)
  /\ UNCHANGED <<web, evidence, results, latest, fetched>>

Counted(key) == [run EXCEPT !.counts[Tool(key)] = @ + 1]
\* The run has made the request before, or the call is over its limit.
RunRefuses(key) == key \in run.seen \/ run.counts[Tool(key)] >= Limit[Tool(key)]
\* RequestBudget.web_request raises.
TaskRefuses(key) == key \in web \/ Cardinality(web) >= WebLimit

Refused(key) ==
  /\ run.stage = "batch" /\ run.left > 0
  /\ \/ RunRefuses(key) /\ run' = Handled(Counted(key), FALSE)
     \/ /\ ~RunRefuses(key) /\ TaskRefuses(key)
        /\ run' = [Handled(Counted(key), FALSE) EXCEPT !.stop = "budget"]
  /\ evidence' = ObserveFailure(Tool(key))
  /\ UNCHANGED <<web, results, latest, fetched>>

\* A call is named by its place among the requests the task was charged for.
CallId == [run |-> run.id, call |-> Cardinality(web) + 1]

\* The request is charged, and sent.
Sent(key) ==
  /\ run.stage = "batch" /\ run.left > 0
  /\ ~RunRefuses(key) /\ ~TaskRefuses(key)
  /\ web' = web \cup {key}
  /\ UNCHANGED <<results, latest>>

Asked(key) == [Counted(key) EXCEPT !.seen = @ \cup {key}]

\* The tool fails.
SentFailed(key) ==
  /\ Sent(key)
  /\ run' = Handled(Asked(key), FALSE)
  /\ evidence' = ObserveFailure(Tool(key))
  /\ UNCHANGED fetched

\* It answers something that is no web response, which counts neither way.
SentUnrecognised(key) ==
  /\ Sent(key)
  /\ run' = [Asked(key) EXCEPT !.left = @ - 1]
  /\ UNCHANGED <<evidence, fetched>>

Searched(key, urls, fresh) ==
  /\ Sent(key)
  /\ fresh => urls # {}
  /\ run' = Handled(Asked(key), fresh \/ ~(urls \subseteq DOMAIN evidence.sources))
  /\ evidence' = ObserveSearch(CallId, urls)
  /\ fetched' = fetched \cup {<<CallId, u>> : u \in urls}

Extracted(key, url, fresh) ==
  /\ Sent(key)
  /\ run' = Handled(Asked(key), fresh \/ url \notin evidence.extracted)
  /\ evidence' = ObserveExtract(CallId, url)
  /\ fetched' = fetched \cup {<<CallId, url>>}

\* Lines 248-253.
EndRound ==
  /\ run.stage = "batch" /\ run.left < MaxBatch
  /\ LET noNew == IF ~run.observed THEN run.noNew ELSE IF run.progress THEN 0 ELSE run.noNew + 1
         over == noNew >= 2 \/ run.stop = "budget"
     IN  run' = [run EXCEPT !.noNew = noNew, !.stage = IF over THEN "summary" ELSE "round",
                            !.stop = IF noNew >= 2 THEN "no_progress" ELSE @]
  /\ UNCHANGED <<web, evidence, results, latest, fetched>>

-----------------------------------------------------------------------------
(* The summary, claimed once; the identity of the handoff is new, so that  *)
(* the claim is granted.                                                   *)

\* Line 290: what is cited is in the catalog, and what is ready has findings.
SummaryAccepted(draft, catalog) ==
  /\ draft.cited \subseteq catalog
  /\ draft.delivery = "ready" => draft.cited # {}

\* What the structured model may return: every finding cites, so that there are findings
\* where something is cited.
Drafts ==
  [cited : SUBSET Urls, delivery : {"ready", "partial", "none"}]

Failed(catalog) ==
  [cited |-> {}, delivery |-> IF catalog = {} THEN "none" ELSE "partial"]

\* What of a result lasts: its claims lead back to its observations.
Evident(catalog, draft, fallback) ==
  LET found == IF catalog = {} THEN {} ELSE draft.cited
  IN  [id |-> run.id, refs |-> run.refs, cited |-> found, observations |-> evidence.observations,
       sources |-> {evidence.sources[u] : u \in IF found = {} THEN fallback ELSE found}]

\* What else the gate reads of it.  Open questions are left out: they only add
\* limitations to a report.
Outcome(catalog, draft, finalization) ==
  [delivery |-> IF catalog = {} THEN "none"
                ELSE IF evidence.failed /\ draft.delivery = "ready" THEN "partial"
                ELSE draft.delivery,
   stop |-> run.stop, finalization |-> finalization]

Deliver(catalog, draft, finalization, fallback) ==
  /\ results' = Append(results, Evident(catalog, draft, fallback))
  /\ latest' = Outcome(catalog, draft, finalization)
  /\ run' = Idle(run.id)
  /\ evidence' = NoEvidence
  /\ UNCHANGED <<web, fetched>>

\* Lines 255-318.
Synthesise(draft) ==
  /\ run.stage = "summary"
  /\ \E catalog \in Catalogs :
       \E fallback \in {f \in SUBSET catalog :
            Cardinality(f) = IF Cardinality(catalog) < Fallback THEN Cardinality(catalog)
                             ELSE Fallback} :
         IF SummaryAccepted(draft, catalog)
           THEN Deliver(catalog, draft, "completed", fallback)
           ELSE Deliver(catalog, Failed(catalog), "failed", fallback)

Ask(key) ==
  \/ Refused(key) \/ SentFailed(key) \/ SentUnrecognised(key)
  \/ key \in SearchKeys /\ \E urls \in SUBSET Urls, fresh \in BOOLEAN : Searched(key, urls, fresh)
  \/ key \in ExtractKeys /\ \E url \in Urls, fresh \in BOOLEAN : Extracted(key, url, fresh)

ResearchStep ==
  \/ Exhausted \/ BeginRound \/ EndRound
  \/ \E stop \in {"budget", "model_response", "none"} : EndRounds(stop)
  \/ run.stage = "batch" /\ (Unexposed \/ \E key \in SearchKeys \cup ExtractKeys : Ask(key))
  \/ run.stage = "summary" /\ \E draft \in Drafts : Synthesise(draft)

=============================================================================
