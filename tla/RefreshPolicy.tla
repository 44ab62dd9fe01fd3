--------------------------- MODULE RefreshPolicy ---------------------------
(***************************************************************************)
(* The decision a refresh job takes before it fetches anything             *)
(* (refresh_orchestrator.py, RefreshPolicy and _refresh_cached_company):   *)
(* skip the SEC, refresh one kind of dataset, or refresh everything.       *)
(*                                                                         *)
(* A policy p is a record                                                  *)
(*   known     the company has a row (company is not None)                 *)
(*   force     the job was asked to ignore the freshness window            *)
(*   segments  some stored statement carries a segment breakdown           *)
(*   fresh     the datasets checked within freshness_window_hours          *)
(* The flags refresh_insider_data, refresh_institutional_data and          *)
(* refresh_beneficial_ownership_data are TRUE in every job of the queue.   *)
(***************************************************************************)
EXTENDS Sequences

\* The datasets a job fetches from the SEC, a market data provider or 13F data.
SourceDatasets == {"financials", "prices", "insiders", "form144", "institutional",
                   "beneficial_ownership", "earnings", "filings", "capital_markets",
                   "comment_letters"}

\* The caches a job computes from them, and from each other.
DerivedDatasets == {"capital_structure", "company_research_brief", "derived_metrics",
                    "earnings_models", "charts_dashboard"}

Policies == [known : BOOLEAN, force : BOOLEAN, segments : BOOLEAN,
             fresh : SUBSET SourceDatasets]

Fresh(p, d) == d \in p.fresh

\* Form 4/5 and Form 144 are refreshed together.
effective_insider_fresh(p) == Fresh(p, "insiders") /\ Fresh(p, "form144")

effective_non_core_fresh(p) == {"filings", "capital_markets", "comment_letters"} \subseteq p.fresh

\* What every shortcut asks for first.
CachedStatementsUsable(p) ==
    p.known /\ ~p.force /\ Fresh(p, "financials") /\ p.segments

can_skip_sec_refresh(p) ==
    /\ CachedStatementsUsable(p)
    /\ Fresh(p, "prices") /\ effective_insider_fresh(p) /\ Fresh(p, "institutional")
    /\ Fresh(p, "beneficial_ownership") /\ Fresh(p, "earnings")
    /\ effective_non_core_fresh(p)

\* The four shortcuts on ownership data and earnings, and the one on prices,
\* look at each other and not at the three non-core datasets.
can_refresh_beneficial_only(p) ==
    /\ CachedStatementsUsable(p)
    /\ Fresh(p, "prices") /\ effective_insider_fresh(p) /\ Fresh(p, "institutional")
    /\ Fresh(p, "earnings")
    /\ ~Fresh(p, "beneficial_ownership")

can_refresh_earnings_only(p) ==
    /\ CachedStatementsUsable(p)
    /\ Fresh(p, "prices") /\ effective_insider_fresh(p) /\ Fresh(p, "institutional")
    /\ Fresh(p, "beneficial_ownership")
    /\ ~Fresh(p, "earnings")

can_refresh_insiders_only(p) ==
    /\ CachedStatementsUsable(p)
    /\ Fresh(p, "prices") /\ Fresh(p, "institutional")
    /\ Fresh(p, "beneficial_ownership") /\ Fresh(p, "earnings")
    /\ ~effective_insider_fresh(p)

can_refresh_institutional_only(p) ==
    /\ CachedStatementsUsable(p)
    /\ Fresh(p, "prices") /\ effective_insider_fresh(p)
    /\ Fresh(p, "beneficial_ownership") /\ Fresh(p, "earnings")
    /\ ~Fresh(p, "institutional")

can_refresh_prices_only(p) ==
    /\ CachedStatementsUsable(p)
    /\ ~Fresh(p, "prices") /\ effective_insider_fresh(p) /\ Fresh(p, "institutional")
    /\ Fresh(p, "beneficial_ownership") /\ Fresh(p, "earnings")

\* What the three shortcuts on non-core data share: the rest is fresh.
CoreFresh(p) ==
    /\ CachedStatementsUsable(p)
    /\ Fresh(p, "prices") /\ effective_insider_fresh(p) /\ Fresh(p, "institutional")
    /\ Fresh(p, "beneficial_ownership") /\ Fresh(p, "earnings")

can_refresh_filings_only(p) ==
    /\ CoreFresh(p)
    /\ Fresh(p, "capital_markets") /\ Fresh(p, "comment_letters") /\ ~Fresh(p, "filings")

can_refresh_capital_markets_only(p) ==
    /\ CoreFresh(p)
    /\ Fresh(p, "filings") /\ Fresh(p, "comment_letters") /\ ~Fresh(p, "capital_markets")

can_refresh_comment_letters_only(p) ==
    /\ CoreFresh(p)
    /\ Fresh(p, "filings") /\ Fresh(p, "capital_markets") /\ ~Fresh(p, "comment_letters")

\* The branches of _refresh_cached_company in the order of its tests; a job
\* that takes none of them goes on with _refresh_from_sec.
Branches == {"skip", "beneficial_ownership", "earnings", "insiders", "institutional",
             "prices", "filings", "capital_markets", "comment_letters", "sec"}

Branch(p) ==
    CASE can_skip_sec_refresh(p)             -> "skip"
      [] can_refresh_beneficial_only(p)      -> "beneficial_ownership"
      [] can_refresh_earnings_only(p)        -> "earnings"
      [] can_refresh_insiders_only(p)        -> "insiders"
      [] can_refresh_institutional_only(p)   -> "institutional"
      [] can_refresh_prices_only(p)          -> "prices"
      [] can_refresh_filings_only(p)         -> "filings"
      [] can_refresh_capital_markets_only(p) -> "capital_markets"
      [] can_refresh_comment_letters_only(p) -> "comment_letters"
      [] OTHER                               -> "sec"

\* The datasets a branch fetches.
FetchedBy(b, p) ==
    CASE b = "skip"     -> {}
      [] b = "insiders" -> {"insiders", "form144"}
      [] b = "sec"      ->
            {"financials", "filings", "capital_markets", "comment_letters"}
            \cup {d \in {"institutional", "beneficial_ownership", "earnings", "prices"} :
                     p.force \/ ~Fresh(p, d)}
            \cup (IF p.force \/ ~effective_insider_fresh(p) THEN {"insiders", "form144"} ELSE {})
      [] OTHER          -> {b}
=============================================================================
