---------------------------- MODULE CompanyPages ----------------------------
(***************************************************************************)
(* The company pages of the API over the data of DatasetRefresh: every     *)
(* route answers from the database or from the hot response cache, never   *)
(* from upstream, and asks the queue for a refresh when what it read is    *)
(* missing or stale (api/handlers).  A commit of the job invalidates hot   *)
(* entries by tags (refresh_state.py, hot_cache.py).                       *)
(*                                                                         *)
(* The queue keeps one job per company (RefreshQueue): a request made      *)
(* while one waits or runs is answered with that one.  A fill of the hot   *)
(* cache is one step; HotCache has its interleavings.                      *)
(***************************************************************************)
EXTENDS DatasetRefresh

CONSTANT Pages       \* the modelled routes

VARIABLES
    req,     \* the reason of the job that waits in the queue, or "none"
    hot,     \* hot[p]: the hot cache entry of the page
    shown    \* shown[p]: the data of the page's last response

pageVars == <<req, hot, shown>>
allVars == <<vars, req, hot, shown>>

NoEntry == [age |-> "none", val |-> Nothing]

-----------------------------------------------------------------------------
(* What a route learns about the age of the data.                          *)

\* The registry gives these datasets six hours; the job's policy, and the
\* snapshot of a company, 24 hours (DatasetRefresh).
ShortTtl == {"financials", "insiders", "form144", "beneficial_ownership", "earnings", "filings"}

MutStaleIsMissing(d) ==
    IF d \notin Sources THEN {"fresh"}
    ELSE IF ~db[d].fresh THEN {"missing"}
    ELSE {"fresh"} \cup (IF d \in ShortTtl THEN {"stale"} ELSE {})

\* cache_state_for_dataset.  Between six and 24 hours the model leaves open
\* which side of the registry's deadline a dataset is on.
cache_state_for_dataset(d) ==
    IF d \notin Sources THEN {"fresh"}
    ELSE IF db[d].hash = NoHash /\ ~db[d].fresh THEN {"missing"}
    ELSE IF ~db[d].fresh THEN {"stale"}
    ELSE {"fresh"} \cup (IF d \in ShortTtl THEN {"stale"} ELSE {})

visible_price_cache_status == IF Strict THEN {"fresh"} ELSE cache_state_for_dataset("prices")

\* The snapshot of the company: when its financials were checked.
cache_state_from_last_checked ==
    IF db["financials"].hash = NoHash THEN "missing"
    ELSE IF db["financials"].fresh THEN "fresh" ELSE "stale"

needs_segment_backfill == {db["financials"].val > 0 /\ ~segments : segments \in SegmentsSeen}

\* The first reason that is not "fresh" decides.
OrElse(reason, reasons) == IF reason # "fresh" THEN {reason} ELSE reasons

refresh_for_snapshot == {cache_state_from_last_checked}

refresh_for_segment_history ==
    OrElse(cache_state_from_last_checked,
           {IF backfill THEN "missing" ELSE "fresh" : backfill \in needs_segment_backfill})

\* "missing" of either goes before "stale" of the other.
refresh_for_financial_page ==
    {IF "missing" \in {cache_state_from_last_checked, price} THEN "missing"
     ELSE IF "stale" \in {cache_state_from_last_checked, price} THEN "stale"
     ELSE IF backfill THEN "missing" ELSE "fresh" :
        price \in visible_price_cache_status, backfill \in needs_segment_backfill}

refresh_for_capital_structure ==
    OrElse(cache_state_from_last_checked,
           IF "capital_structure" \in Derived /\ db["capital_structure"].val = Nothing
           THEN {"missing"} ELSE {"fresh"})

refresh_for_earnings == OrElse(cache_state_from_last_checked, cache_state_for_dataset("earnings"))

\* No code stores proxy statements or marks the dataset, so it is always missing.
refresh_for_governance == OrElse(cache_state_from_last_checked, {"missing"})

\* The stored brief and charts carry the time they were last computed; a job
\* that finds their inputs unchanged leaves it.
refresh_for_stored(d) ==
    IF d \notin Derived THEN {"fresh"}
    ELSE IF db[d].val = Nothing THEN OrElse(cache_state_from_last_checked, {"missing"})
    ELSE {IF db[d].fresh THEN "fresh" ELSE "stale"}

-----------------------------------------------------------------------------
(* The routes: what they read, under which dataset tags they store it, how *)
(* they use the hot cache ("none": not at all; "serve": a stale entry is   *)
(* served and a refresh asked for; "reload": only fresh entries are used)  *)
(* and the reasons for which they may ask for a refresh.                   *)

Route(reads, cache, tags, reasons) ==
    [reads |-> reads \cap Datasets, cache |-> cache, tags |-> tags, reasons |-> reasons]

company_financials == Route({"financials", "prices"}, "serve", {"financials", "prices"},
                            refresh_for_financial_page)
company_models == Route({"financials", "prices"}, "serve", {"financials", "prices"},
                        refresh_for_snapshot)
company_capital_structure == Route({"capital_structure", "financials"}, "serve",
                                   {"capital_structure", "financials"},
                                   refresh_for_capital_structure)
company_peers == Route({"financials", "prices", "derived_metrics"}, "serve",
                       {"financials", "prices", "derived_metrics"}, refresh_for_financial_page)
company_charts == Route({"charts_dashboard"}, "reload", {"charts_dashboard"},
                        refresh_for_stored("charts_dashboard"))
company_brief == Route({"company_research_brief"}, "none", {},
                       refresh_for_stored("company_research_brief"))
company_segment_history == Route({"financials"}, "none", {}, refresh_for_segment_history)
company_insider_trades == Route({"insiders"}, "none", {}, cache_state_for_dataset("insiders"))
company_form144_filings == Route({"form144"}, "none", {}, cache_state_for_dataset("form144"))
company_institutional_holdings ==
    Route({"institutional"}, "none", {}, cache_state_for_dataset("institutional"))
company_beneficial_ownership == Route({"beneficial_ownership"}, "none", {}, refresh_for_snapshot)
company_earnings == Route({"earnings"}, "none", {}, refresh_for_earnings)
company_events == Route({"filings"}, "none", {}, refresh_for_snapshot)
company_capital_markets == Route({"capital_markets"}, "none", {}, refresh_for_snapshot)
company_comment_letters ==
    Route({"comment_letters"}, "none", {}, cache_state_for_dataset("comment_letters"))
company_governance == Route({}, "none", {}, refresh_for_governance)

\* Two requests in one: the route asks for what either of its parts asks for,
\* and the queue answers the second with the job of the first.
company_overview ==
    Route({"financials", "prices", "company_research_brief"}, "reload",
          {"financials", "prices", "company_research_brief"},
          UNION {OrElse(r, company_brief.reasons) : r \in company_financials.reasons})

PageNames == {"financials", "models", "capital_structure", "peers", "charts", "overview", "brief",
              "segments", "insiders", "form144", "institutional", "beneficial_ownership",
              "earnings", "events", "capital_markets", "comment_letters", "governance"}

ASSUME PagesAssumption == Pages \subseteq PageNames

RouteOf(p) ==
    CASE p = "financials" -> company_financials
      [] p = "models" -> company_models
      [] p = "capital_structure" -> company_capital_structure
      [] p = "peers" -> company_peers
      [] p = "charts" -> company_charts
      [] p = "overview" -> company_overview
      [] p = "brief" -> company_brief
      [] p = "segments" -> company_segment_history
      [] p = "insiders" -> company_insider_trades
      [] p = "form144" -> company_form144_filings
      [] p = "institutional" -> company_institutional_holdings
      [] p = "beneficial_ownership" -> company_beneficial_ownership
      [] p = "earnings" -> company_earnings
      [] p = "events" -> company_events
      [] p = "capital_markets" -> company_capital_markets
      [] p = "comment_letters" -> company_comment_letters
      [] p = "governance" -> company_governance

\* The response built from the database; without the company it is empty.
Response(p) ==
    IF known THEN <<"data", [d \in RouteOf(p).reads |-> db[d].val]>> ELSE Nothing

-----------------------------------------------------------------------------
PagesInit ==
    /\ Init
    /\ req = "none"
    /\ hot = [p \in Pages |-> NoEntry]
    /\ shown = [p \in Pages |-> Nothing]

\* _trigger_refresh.
trigger_refresh(reason) ==
    req' = IF reason # "fresh" /\ req = "none" /\ todo = <<>> THEN reason ELSE req

Show(p, val) == shown' = [shown EXCEPT ![p] = val]

VisitFreshEntry(p) ==
    /\ hot[p].age = "fresh"
    /\ Show(p, hot[p].val)
    /\ UNCHANGED <<vars, req, hot>>

VisitStaleEntry(p) ==
    /\ hot[p].age = "stale" /\ RouteOf(p).cache = "serve"
    /\ Show(p, hot[p].val)
    /\ trigger_refresh("stale")
    /\ UNCHANGED <<vars, hot>>

\* Charts that are not stored yet, and responses without a company, are not cached.
MutStoresResponse(p) == known

StoresResponse(p) ==
    /\ known /\ RouteOf(p).cache # "none"
    /\ p = "charts" /\ "charts_dashboard" \in Derived => db["charts_dashboard"].val # Nothing

VisitDatabase(p) ==
    /\ \/ hot[p].age = "none"
       \/ hot[p].age = "stale" /\ RouteOf(p).cache = "reload"
    /\ \E reason \in IF known THEN RouteOf(p).reasons ELSE {"missing"} : trigger_refresh(reason)
    /\ Show(p, Response(p))
    /\ hot' = IF StoresResponse(p)
              THEN [hot EXCEPT ![p] = [age |-> "fresh", val |-> Response(p)]] ELSE hot
    /\ UNCHANGED vars

Visit(p) == VisitFreshEntry(p) \/ VisitStaleEntry(p) \/ VisitDatabase(p)

\* The worker takes the job; "missing" is a forced refresh, the only one that
\* wipes the earnings.
StartRequested ==
    /\ req # "none"
    /\ StartJob(req = "missing")
    /\ req' = "none"
    /\ UNCHANGED <<hot, shown>>

\* An invalidation is of the ticker, the dataset and, as schema version, the
\* payload hash, and takes the entries that carry all of these tags.  The
\* entries carry the schema version of their response.
SchemaTag(p) == IF p = "charts" THEN <<"schema">> ELSE <<"response", p>>
Hits(p, d, hash) == d \in RouteOf(p).tags /\ (hash = NoHash \/ hash = SchemaTag(p))

InvalidateFor(marked) ==
    /\ hot' = [p \in Pages |-> IF \E d \in marked : Hits(p, d, db'[d].hash) THEN NoEntry ELSE hot[p]]
    /\ UNCHANGED <<req, shown>>

\* Datasets found unchanged are marked without an invalidation.
Announced(ds) == {d \in ds : d = "prices" /\ Listed => db'[d].val # db[d].val}

JobStep ==
    \/ RefreshStatements /\ InvalidateFor(IF can_reuse_financials THEN {} ELSE {"financials"})
    \/ RunDatasetJob /\ InvalidateFor(Announced({Now}))
    \/ (FetchOne \/ CommitSession \/ FetchOneFails) /\ InvalidateFor(Announced(DOMAIN own))
    \/ /\ \/ OpenSession \/ WipeEarnings \/ FetchMarket \/ RefreshDerived \/ CompleteJob
          \/ OpenFails \/ StatementsFail \/ DatasetJobFails \/ MarketFails \/ DeriveFails
          \/ CommitFails \/ Crash
       /\ UNCHANGED pageVars

EntryAges(p) ==
    /\ hot[p].age = "fresh"
    /\ hot' = [hot EXCEPT ![p].age = "stale"]
    /\ UNCHANGED <<vars, req, shown>>

MutNeverExpires(p) == FALSE /\ UNCHANGED allVars

EntryExpires(p) ==
    /\ hot[p].age = "stale"
    /\ hot' = [hot EXCEPT ![p] = NoEntry]
    /\ UNCHANGED <<vars, req, shown>>

\* The age of the stored brief and charts, which only the routes read.
AgeStored(d) ==
    /\ todo = <<>> /\ db[d].fresh
    /\ db' = [db EXCEPT ![d].fresh = FALSE]
    /\ UNCHANGED <<up, others, known, todo, force, snap, held, own, reported, faults, pageVars>>

Stored == Derived \cap {"company_research_brief", "charts_dashboard"}

PagesNext ==
    \/ \E p \in Pages : Visit(p) \/ EntryAges(p) \/ EntryExpires(p)
    \/ StartRequested \/ JobStep
    \/ \E s \in Sources : (Publish(s) \/ Age(s)) /\ UNCHANGED pageVars
    \/ OthersChange /\ UNCHANGED pageVars
    \/ \E d \in Stored : AgeStored(d)

PagesSpec == PagesInit /\ [][PagesNext]_allVars

\* The pages are visited again and again, the worker works, and time passes.
PagesFairness ==
    /\ \A p \in Pages : WF_allVars(Visit(p)) /\ WF_allVars(EntryAges(p)) /\ WF_allVars(EntryExpires(p))
    /\ WF_allVars(StartRequested)
    /\ WF_allVars(JobStep /\ (Work \/ WipeEarnings))
    /\ \A s \in Sources : SF_allVars(Age(s) /\ UNCHANGED pageVars)
    /\ \A d \in Stored : SF_allVars(AgeStored(d))

FairPagesSpec == PagesSpec /\ PagesFairness

-----------------------------------------------------------------------------
(* Properties.                                                             *)

\* The values of the pages' variables.  Only routes that use the hot cache
\* have entries, and an entry carries data.
PagesTypeOK ==
    /\ req \in {"none", "stale", "missing"}
    /\ DOMAIN hot = Pages /\ DOMAIN shown = Pages
    /\ \A p \in Pages : /\ DOMAIN hot[p] = {"age", "val"}
                        /\ hot[p].age \in {"none", "fresh", "stale"}
                        /\ hot[p].age # "none" => RouteOf(p).cache # "none" /\ hot[p].val # Nothing

\* In the end every page shows what upstream publishes, although no request
\* waits for a refresh: visits alone start the jobs, through hot entries that
\* hide the database and datasets that the job's policy takes for fresh.
PagesCatchUp ==
    <>[](/\ \A s \in Sources : db[s].val = up[s]
         /\ \A d \in Derived : ComputedFromRows(d)
         /\ \A p \in Pages : shown[p] = Response(p))

\* A company with data is not refreshed by force for ever: forced jobs ignore
\* the freshness window and delete the earnings releases before they fetch.
ForcedJobsStop == <>[](~force /\ req # "missing")

\* A commit drops the hot entries of the pages tagged with the datasets it
\* changed: a fresh entry has the committed rows.
CommitInvalidates ==
    \A p \in Pages : hot[p].age = "fresh" => hot[p].val = Response(p)
=============================================================================
