------------------------ MODULE CompanyPagesProofs ------------------------
(***************************************************************************)
(* Proofs about CompanyPages, for any choice of pages, datasets and        *)
(* settings.                                                               *)
(***************************************************************************)
EXTENDS CompanyPages, TLAPS

Reasons == {"fresh", "stale", "missing"}

\* Whatever a route read, it asks for a refresh for one of three reasons.
LEMMA RouteReasons ==
    ASSUME NEW p \in Pages
    PROVE  RouteOf(p).reasons \subseteq Reasons
<1>1. \A d : cache_state_for_dataset(d) \subseteq Reasons
  BY DEF cache_state_for_dataset, Reasons
<1>2. cache_state_from_last_checked \in Reasons
  BY DEF cache_state_from_last_checked, Reasons
<1>3. \A reason \in Reasons, reasons \in SUBSET Reasons : OrElse(reason, reasons) \subseteq Reasons
  BY DEF OrElse
<1>4. {"fresh"} \subseteq Reasons /\ {"missing"} \subseteq Reasons /\ {"stale"} \subseteq Reasons
  BY DEF Reasons
<1>5. refresh_for_snapshot \subseteq Reasons
  BY <1>2 DEF refresh_for_snapshot
<1>6. refresh_for_segment_history \subseteq Reasons
  BY <1>2, <1>3, <1>4 DEF refresh_for_segment_history
<1>7. refresh_for_financial_page \subseteq Reasons
  BY DEF refresh_for_financial_page, Reasons
<1>8. refresh_for_capital_structure \subseteq Reasons
  BY <1>2, <1>3, <1>4 DEF refresh_for_capital_structure
<1>9. refresh_for_earnings \subseteq Reasons
  BY <1>1, <1>2, <1>3 DEF refresh_for_earnings
<1>10. refresh_for_governance \subseteq Reasons
  BY <1>2, <1>3, <1>4 DEF refresh_for_governance
<1>11. \A d : refresh_for_stored(d) \subseteq Reasons
  <2>1. \A d : OrElse(cache_state_from_last_checked, {"missing"}) \subseteq Reasons
    BY <1>2, <1>3, <1>4
  <2>2. QED
    BY <2>1 DEF refresh_for_stored, Reasons
<1>12. \A reads, cache, tags, reasons : Route(reads, cache, tags, reasons).reasons = reasons
  BY DEF Route
<1>13. company_overview.reasons \subseteq Reasons
  <2>1. company_brief.reasons \subseteq Reasons /\ company_financials.reasons \subseteq Reasons
    BY <1>7, <1>11, <1>12 DEF company_brief, company_financials
  <2>2. \A r \in company_financials.reasons : OrElse(r, company_brief.reasons) \subseteq Reasons
    BY <1>3, <2>1
  <2>3. QED
    BY <1>12, <2>2 DEF company_overview
<1>14. p \in PageNames
  BY PagesAssumption
<1> HIDE DEF Reasons
<1>15. QED
  BY <1>1, <1>5, <1>6, <1>7, <1>8, <1>9, <1>10, <1>11, <1>12, <1>13, <1>14
     DEF PageNames, RouteOf, company_financials, company_models, company_capital_structure,
         company_peers, company_charts, company_brief, company_segment_history,
         company_insider_trades, company_form144_filings, company_institutional_holdings,
         company_beneficial_ownership, company_earnings, company_events,
         company_capital_markets, company_comment_letters, company_governance

\* A response that may be stored carries data.
LEMMA ResponseIsData ==
    ASSUME NEW p, known
    PROVE  Response(p) # Nothing
BY DEF Response, Nothing

\* What a request for a refresh leaves in the queue.
LEMMA RequestTyped ==
    ASSUME req \in {"none", "stale", "missing"}, NEW reason \in Reasons, trigger_refresh(reason)
    PROVE  req' \in {"none", "stale", "missing"}
BY DEF trigger_refresh, Reasons

\* The pages whose routes use the hot cache: the same in every state, whatever
\* data the routes read.
Cached == {p \in Pages : RouteOf(p).cache # "none"}

LEMMA CachedIsFixed == Cached' = Cached
<1>1. ASSUME NEW p \in Pages
      PROVE  RouteOf(p).cache' = RouteOf(p).cache
  <2>1. p \in PageNames
    BY PagesAssumption
  <2>2. QED
    BY <2>1 DEF PageNames, RouteOf, Route, company_financials, company_models,
           company_capital_structure, company_peers, company_charts, company_brief,
           company_segment_history, company_insider_trades, company_form144_filings,
           company_institutional_holdings, company_beneficial_ownership, company_earnings,
           company_events, company_capital_markets, company_comment_letters,
           company_governance, company_overview
<1>2. QED
  BY <1>1 DEF Cached

\* The part of PagesTypeOK that is about the entries.
EntriesOK ==
    \A p \in Pages : /\ DOMAIN hot[p] = {"age", "val"}
                     /\ hot[p].age \in {"none", "fresh", "stale"}
                     /\ hot[p].age # "none" => p \in Cached /\ hot[p].val # Nothing

\* The other parts.
OthersOK == req \in {"none", "stale", "missing"} /\ DOMAIN hot = Pages /\ DOMAIN shown = Pages

LEMMA PagesTyped == PagesTypeOK <=> EntriesOK /\ OthersOK
BY DEF PagesTypeOK, EntriesOK, OthersOK, Cached

\* The same after a step.
LEMMA PagesTypedNext == PagesTypeOK' <=> EntriesOK' /\ OthersOK'
BY PagesTyped, PTL

\* A step after which every entry is gone, the one it was, older, or a stored
\* response with data.
EntriesChange ==
    \A p \in Pages :
        \/ hot'[p] = NoEntry
        \/ hot'[p] = hot[p]
        \/ hot[p].age # "none" /\ hot'[p] = [hot[p] EXCEPT !.age = "stale"]
        \/ \E val : /\ p \in Cached /\ val # Nothing
                    /\ hot'[p] = [age |-> "fresh", val |-> val]

LEMMA EntriesStay == EntriesOK /\ EntriesChange => EntriesOK'
<1> SUFFICES ASSUME EntriesOK, EntriesChange, NEW p \in Pages
             PROVE  /\ DOMAIN hot'[p] = {"age", "val"}
                    /\ hot'[p].age \in {"none", "fresh", "stale"}
                    /\ hot'[p].age # "none" => p \in Cached /\ hot'[p].val # Nothing
  BY CachedIsFixed DEF EntriesOK
<1> HIDE DEF Nothing
<1>1. /\ DOMAIN hot[p] = {"age", "val"}
      /\ hot[p].age \in {"none", "fresh", "stale"}
      /\ hot[p].age # "none" => p \in Cached /\ hot[p].val # Nothing
  BY DEF EntriesOK
<1>2. CASE hot'[p] = NoEntry
  BY <1>2 DEF NoEntry
<1>3. CASE hot'[p] = hot[p]
  BY <1>1, <1>3
<1>4. CASE hot[p].age # "none" /\ hot'[p] = [hot[p] EXCEPT !.age = "stale"]
  <2>1. DOMAIN hot'[p] = {"age", "val"} /\ hot'[p].age = "stale" /\ hot'[p].val = hot[p].val
    BY <1>1, <1>4
  <2>2. QED
    BY <1>1, <1>4, <2>1
<1>5. ASSUME NEW val, p \in Cached, val # Nothing, hot'[p] = [age |-> "fresh", val |-> val]
      PROVE  DOMAIN hot'[p] = {"age", "val"} /\ hot'[p].age = "fresh" /\ hot'[p].val # Nothing
  BY <1>5
<1>6. QED
  BY <1>2, <1>3, <1>4, <1>5 DEF EntriesChange

\* A visit stores data, for pages that use the cache only.
LEMMA VisitTyped ==
    ASSUME PagesTypeOK, NEW p \in Pages, Visit(p)
    PROVE  PagesTypeOK'
<1>1. DOMAIN shown' = Pages
  BY DEF Visit, VisitFreshEntry, VisitStaleEntry, VisitDatabase, Show, PagesTypeOK
<1>2. EntriesOK /\ req \in {"none", "stale", "missing"} /\ DOMAIN hot = Pages
  BY PagesTyped DEF OthersOK
<1>3. req' \in {"none", "stale", "missing"}
  <2>1. CASE VisitFreshEntry(p)
    BY <1>2, <2>1 DEF VisitFreshEntry
  <2>2. CASE VisitStaleEntry(p)
    BY <1>2, <2>2, RequestTyped DEF VisitStaleEntry, Reasons
  <2>3. CASE VisitDatabase(p)
    <3>1. PICK reason \in IF known THEN RouteOf(p).reasons ELSE {"missing"} :
             trigger_refresh(reason)
      BY <2>3 DEF VisitDatabase
    <3>2. reason \in Reasons
      BY <3>1, RouteReasons DEF Reasons
    <3>3. QED
      BY <1>2, <3>1, <3>2, RequestTyped
  <2>4. QED
    BY <2>1, <2>2, <2>3 DEF Visit
<1>4. CASE hot' = hot
  <2>1. EntriesChange
    BY <1>4 DEF EntriesChange
  <2>2. OthersOK'
    BY <1>1, <1>2, <1>3, <1>4 DEF OthersOK
  <2>3. QED
    BY <1>2, <2>1, <2>2, EntriesStay, PagesTypedNext
<1>5. CASE VisitDatabase(p) /\ StoresResponse(p)
  <2>1. hot' = [hot EXCEPT ![p] = [age |-> "fresh", val |-> Response(p)]]
    BY <1>5 DEF VisitDatabase
  <2>2. p \in Cached /\ Response(p) # Nothing
    BY <1>5, ResponseIsData DEF StoresResponse, Cached
  <2>3. DOMAIN hot' = Pages /\ \A q \in Pages \ {p} : hot'[q] = hot[q]
    BY <1>2, <2>1
  <2>4. hot'[p] = [age |-> "fresh", val |-> Response(p)]
    BY <1>2, <2>1
  <2>5. EntriesChange
    BY <2>2, <2>3, <2>4 DEF EntriesChange
  <2>6. OthersOK'
    BY <1>1, <1>3, <2>3 DEF OthersOK
  <2>7. QED
    BY <1>2, <2>5, <2>6, EntriesStay, PagesTypedNext
<1>6. QED
  BY <1>4, <1>5 DEF Visit, VisitFreshEntry, VisitStaleEntry, VisitDatabase

\* The steps of the job, of upstream and of time leave entries, drop them or
\* make them old.
LEMMA OtherTyped ==
    ASSUME PagesTypeOK, UNCHANGED shown, req' = req \/ req' = "none", DOMAIN hot' = Pages,
           EntriesChange
    PROVE  PagesTypeOK'
<1>1. EntriesOK /\ OthersOK
  BY PagesTyped
<1>2. OthersOK'
  BY <1>1 DEF OthersOK
<1>3. QED
  BY <1>1, <1>2, EntriesStay, PagesTypedNext

LEMMA PagesNextTyped == PagesTypeOK /\ [PagesNext]_allVars => PagesTypeOK'
<1> SUFFICES ASSUME PagesTypeOK, [PagesNext]_allVars PROVE PagesTypeOK'
  OBVIOUS
<1>0. DOMAIN hot = Pages
  BY DEF PagesTypeOK
<1>1. ASSUME UNCHANGED <<hot, shown>>, req' = req \/ req' = "none" PROVE PagesTypeOK'
  BY <1>0, <1>1, OtherTyped DEF EntriesChange
<1>2. ASSUME NEW marked, InvalidateFor(marked) PROVE PagesTypeOK'
  <2>1. UNCHANGED shown /\ req' = req /\ DOMAIN hot' = Pages
    BY <1>2 DEF InvalidateFor
  <2>2. \A p \in Pages : hot'[p] = NoEntry \/ hot'[p] = hot[p]
    BY <1>2 DEF InvalidateFor
  <2>3. EntriesChange
    BY <2>2 DEF EntriesChange
  <2>4. QED
    BY <2>1, <2>3, OtherTyped
<1>3. ASSUME NEW p \in Pages, Visit(p) PROVE PagesTypeOK'
  BY <1>3, VisitTyped
<1>4. ASSUME NEW p \in Pages, EntryAges(p) PROVE PagesTypeOK'
  <2>1. UNCHANGED <<req, shown>> /\ hot[p].age = "fresh"
        /\ hot' = [hot EXCEPT ![p] = [hot[p] EXCEPT !.age = "stale"]]
    BY <1>4 DEF EntryAges
  <2>2. DOMAIN hot' = Pages /\ \A q \in Pages \ {p} : hot'[q] = hot[q]
    BY <1>0, <2>1
  <2>3. hot'[p] = [hot[p] EXCEPT !.age = "stale"]
    BY <1>0, <2>1
  <2>4. EntriesChange
    BY <2>1, <2>2, <2>3 DEF EntriesChange
  <2>5. QED
    BY <2>1, <2>2, <2>4, OtherTyped
<1>5. ASSUME NEW p \in Pages, EntryExpires(p) PROVE PagesTypeOK'
  <2>1. UNCHANGED <<req, shown>> /\ DOMAIN hot' = Pages /\ hot'[p] = NoEntry
        /\ \A q \in Pages \ {p} : hot'[q] = hot[q]
    BY <1>0, <1>5 DEF EntryExpires
  <2>2. EntriesChange
    BY <2>1 DEF EntriesChange
  <2>3. QED
    BY <2>1, <2>2, OtherTyped
<1>6. CASE StartRequested
  BY <1>1, <1>6 DEF StartRequested
<1>7. CASE JobStep
  BY <1>1, <1>2, <1>7 DEF JobStep, pageVars
<1>8. ASSUME NEW s \in Sources, (Publish(s) \/ Age(s)) /\ UNCHANGED pageVars PROVE PagesTypeOK'
  BY <1>1, <1>8 DEF pageVars
<1>9. ASSUME NEW d \in Stored, AgeStored(d) PROVE PagesTypeOK'
  BY <1>1, <1>9 DEF AgeStored, pageVars
<1>10. CASE OthersChange /\ UNCHANGED pageVars
  BY <1>1, <1>10 DEF pageVars
<1>11. CASE UNCHANGED allVars
  BY <1>1, <1>11 DEF allVars
<1>12. QED
  BY <1>3, <1>4, <1>5, <1>6, <1>7, <1>8, <1>9, <1>10, <1>11 DEF PagesNext

\* Whatever the routes read and however the job, its failures and the ages of
\* datasets fall between visits: a request for a refresh is forced or not, and
\* a hot entry belongs to a route that uses the cache and is never the empty
\* response given before the company is known, which it would go on serving.
THEOREM PagesTypeCorrect == PagesSpec => []PagesTypeOK
<1>1. PagesInit => PagesTypeOK
  BY DEF PagesInit, PagesTypeOK, NoEntry
<1>2. QED
  BY <1>1, PagesNextTyped, PTL DEF PagesSpec
=============================================================================
