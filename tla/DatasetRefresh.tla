--------------------------- MODULE DatasetRefresh ---------------------------
(***************************************************************************)
(* What one refresh job does to the data of a company: the datasets it     *)
(* fetches, the caches it derives from them, and the payload hashes that   *)
(* decide what is computed again (refresh_orchestrator.py, refresh_state.py*)
(* and the persist functions of the derived caches).                       *)
(*                                                                         *)
(* One job runs at a time: RefreshQueue shows when the queue guarantees    *)
(* that (OneActivePerCompany).  Upstream data changes and time passes at   *)
(* any moment; a fetch, a commit or the process may fail at each step, and *)
(* an error in one document of a fetch may be swallowed: what could be     *)
(* read is stored and marked as usual (gaps).                              *)
(* Jobs are asked for with force by the routes alone: CompanyPages adds    *)
(* the forced jobs, and what only they do, to the jobs of Next.            *)
(* The forecast and oil overlays that a job also stores are left out: no   *)
(* modelled dataset is computed from them.                                 *)
(***************************************************************************)
EXTENDS RefreshPolicy, Naturals

CONSTANTS
    Sources,         \* the modelled part of SourceDatasets
    Derived,         \* the modelled part of DerivedDatasets
    Strict,          \* settings.strict_official_mode: no market data
    Listed,          \* the market data provider knows the ticker
    HasSegments,     \* the company reports segments
    AuxIo,           \* settings.refresh_aux_io_max_workers > 1: prices are prefetched
    SixK,            \* the earnings releases are 6-K filings, not 8-K
    MaxVersion,      \* bound: versions of a dataset that are published
    MaxOthers,       \* bound: changes of the stored data that has no hash
    MaxFaults        \* bound: failures

ASSUME DatasetAssumption ==
    /\ Sources \subseteq SourceDatasets /\ "financials" \in Sources
    /\ Derived \subseteq DerivedDatasets
    /\ {Strict, Listed, HasSegments, AuxIo, SixK} \subseteq BOOLEAN
    /\ MaxVersion \in Nat \ {0} /\ {MaxOthers, MaxFaults} \subseteq Nat

Datasets == Sources \cup Derived

VARIABLES
    up,        \* up[s]: the version of s that is published upstream
    db,        \* db[d]: the committed rows and refresh state of d
    others,    \* version of the stored data that no fingerprint covers: model
               \* runs, rows of peers, proxy statements, the macro snapshot
    known,     \* the company has a row
    todo,      \* the steps the running job has left; empty when none runs
    force,     \* the force flag of the running job
    snap,      \* upstream versions read by _load_refresh_bootstrap_inputs
    held,      \* payload hashes of the state rows the job's session keeps alive
    own,       \* what the session has written and not committed
    reported,  \* the last event of the job: "none", "running", "completed", "failed"
    faults     \* failures so far

vars == <<up, db, others, known, todo, force, snap, held, own, reported, faults>>

-----------------------------------------------------------------------------
(* Rows and payload hashes.  A row's val is the version of the stored data *)
(* (0: none) or, for a derived cache, the values it was computed from; its *)
(* gaps are the datasets of which a document that could not be read is     *)
(* missing in it.  Hashes are tuples that start with how they were made.   *)

NoHash == <<"none">>
Nothing == <<"nothing">>

EmptyRow(d) ==
    [val |-> IF d \in Sources THEN 0 ELSE Nothing, hash |-> NoHash, fresh |-> FALSE, gaps |-> {}]

\* Most hashes of fetched data are of the filing index: what a document lacks
\* is not in them.  These are of the rows that were fetched.  For prices rest is
\* the version that was stored, as only the tail from the latest stored trade
\* date is fetched; for the others it is 1 when something could not be read.
HashedByPayload == {"prices", "institutional", "beneficial_ownership", "filings"}

SourceHash(s, v, rest) == IF s \in HashedByPayload THEN <<"fetched", v, rest>> ELSE <<"fetched", v>>

VersionOf(h) == h[2]

\* The session sees its own writes over the committed rows.
View(d) == IF d \in DOMAIN own THEN own[d] ELSE db[d]

\* get_dataset_state returns the object of the identity map if there is one:
\* neither mark_dataset_checked (a Core upsert) nor a commit
\* (expire_on_commit=False) refreshes it.
dataset_payload_hash(d) == IF d \in DOMAIN held THEN held[d] ELSE View(d).hash
HashesSeen == [d \in Datasets |-> dataset_payload_hash(d)]

\* The hashes that enter the fingerprint of a derived cache.
FingerprintOf(d) ==
    Datasets \cap
    CASE d = "derived_metrics"   -> {"financials"} \cup (IF Strict THEN {} ELSE {"prices"})
      [] d = "capital_structure" -> {"financials"}
      [] d = "earnings_models"   -> {"financials", "earnings"}
      [] d = "company_research_brief" ->
            (SourceDatasets \ (IF Strict THEN {"prices"} ELSE {})) \cup {"capital_structure"}
      [] d = "charts_dashboard"  -> {"financials", "derived_metrics", "capital_structure",
                                     "earnings_models", "company_research_brief"}

Fingerprint(d, hash) ==
    IF \E i \in FingerprintOf(d) : hash[i] = NoHash THEN NoHash
    ELSE <<"inputs", [i \in FingerprintOf(d) |-> hash[i]]>>

\* The data a derived cache is really computed from.  The brief also takes in
\* model runs, peers' rows, proxy statements and the macro snapshot ("others").
ReadBy(d) ==
    (Datasets \cup {"others"}) \cap
    CASE d = "derived_metrics"   -> {"financials"} \cup (IF Strict THEN {} ELSE {"prices"})
      [] d = "capital_structure" -> {"financials"}
      [] d = "earnings_models"   -> {"financials", "earnings"}
      [] d = "company_research_brief" -> SourceDatasets \cup {"capital_structure", "others"}
      [] d = "charts_dashboard"  -> {"financials", "earnings", "capital_markets",
                                     "earnings_models"}

\* An instance keeps the caches through which a fingerprint covers the
\* company's datasets that are read; no fingerprint covers the others.
ASSUME CoverAssumption ==
    \A d \in Derived : \A s \in ReadBy(d) \cap Sources :
        \/ s = "prices" /\ Strict
        \/ \E i \in {d} \cup (FingerprintOf(d) \cap Derived) : s \in FingerprintOf(i)

Content(d, val) == <<"computed", [i \in ReadBy(d) |-> IF i = "others" THEN others ELSE val[i]]>>

\* Without a fingerprint the row's hash is that of the payload, or, for the
\* brief and the charts, the version of their schema.
Fallback(d, content) ==
    IF d \in {"company_research_brief", "charts_dashboard"} THEN <<"schema">>
    ELSE <<"payload", content>>

-----------------------------------------------------------------------------
(* The steps of a job.                                                     *)

Ops == {"open", "statements", "wipe", "job", "fetch", "market", "derive", "commit", "complete"}
Steps == [op : Ops, ds : Datasets \cup {"none"}]

On(op, d) == IF d \in Datasets THEN <<[op |-> op, ds |-> d]>> ELSE <<>>
Do(op) == <<[op |-> op, ds |-> "none"]>>

\* _refresh_company_brief_readiness_caches
Readiness(withCapitalStructure) ==
    (IF withCapitalStructure THEN On("derive", "capital_structure") ELSE <<>>)
    \o On("derive", "company_research_brief")

\* _refresh_company_dashboard_caches
Dashboard(withMetrics, withEarnings) ==
    (IF withMetrics THEN On("derive", "derived_metrics") ELSE <<>>)
    \o (IF withEarnings THEN On("derive", "earnings_models") ELSE <<>>)
    \o On("derive", "charts_dashboard")

AllCaches == Readiness(TRUE) \o Dashboard(TRUE, TRUE)

\* The branches of _refresh_cached_company.  "skip" reports before it commits.
CachedSteps(b) ==
    CASE b = "skip"     -> AllCaches \o Do("complete") \o Do("commit")
      [] b = "insiders" -> On("fetch", "insiders") \o On("fetch", "form144")
                           \o Readiness(FALSE) \o Dashboard(FALSE, FALSE)
                           \o Do("commit") \o Do("complete")
      [] b = "prices"   -> On("market", "prices") \o AllCaches \o Do("commit") \o Do("complete")
      [] OTHER          -> On("fetch", b) \o Readiness(FALSE) \o Dashboard(FALSE, b = "earnings")
                           \o Do("commit") \o Do("complete")

\* _refresh_from_sec, with _run_dataset_job around the datasets of ds.  A
\* forced earnings refresh deletes the stored releases in a commit of its own.
SecSteps(ds, forced) ==
    LET Job(d) == IF d \in ds THEN On("job", d) ELSE <<>>
    IN  Do("open") \o On("statements", "financials")
        \o Job("insiders") \o Job("form144") \o Job("institutional")
        \o Job("beneficial_ownership")
        \o (IF forced THEN On("wipe", "earnings") ELSE <<>>) \o Job("earnings")
        \o Job("filings") \o Job("capital_markets") \o Job("comment_letters")
        \o Job("prices") \o AllCaches \o Do("commit") \o Do("complete")

-----------------------------------------------------------------------------
Init ==
    /\ up = [s \in Sources |-> 1]
    /\ db = [d \in Datasets |-> EmptyRow(d)]
    /\ others = 0
    /\ known = FALSE
    /\ todo = <<>> /\ force = FALSE
    /\ snap = up
    /\ held = <<>> /\ own = <<>>
    /\ reported = "none"
    /\ faults = 0

\* A filing that could not be read may be the one that carries the segments.
SegmentsSeen ==
    {HasSegments /\ db["financials"].val > 0} \cup {FALSE : g \in db["financials"].gaps}

\* _build_refresh_policy: datasets outside the model count as fresh.
PolicyNow(f, segments) ==
    [known |-> known, force |-> f, segments |-> segments,
     fresh |-> {d \in SourceDatasets :
                   d \notin Sources \/ db[d].fresh \/ (d = "prices" /\ Strict)}]

\* run_refresh_job and refresh_company: the branch is chosen once.
StartJob(f) ==
    /\ todo = <<>>
    /\ \E segments \in SegmentsSeen :
          LET p == PolicyNow(f, segments)
              b == Branch(p)
          IN  todo' = IF b = "sec" THEN SecSteps(FetchedBy(b, p), f) ELSE CachedSteps(b)
    /\ force' = f
    /\ reported' = "running"
    /\ UNCHANGED <<up, db, others, known, snap, held, own, faults>>

At(op) == todo # <<>> /\ Head(todo).op = op
Now == Head(todo).ds

\* The row of d that the session writes.
Put(d, row) == [x \in DOMAIN own \cup {d} |-> IF x = d THEN row ELSE own[x]]
Committed == [d \in Datasets |-> View(d)]

\* The session ends with the job; a rollback empties it and expires every
\* object it keeps, so that the next read is of the database.
Idle == todo' = <<>> /\ force' = FALSE /\ snap' = [s \in Sources |-> 1] /\ held' = <<>> /\ own' = <<>>

Continue(h, o) ==
    IF Tail(todo) = <<>> THEN Idle
    ELSE todo' = Tail(todo) /\ held' = h /\ own' = o /\ UNCHANGED <<force, snap>>

\* An event after the terminal one is not recorded (RefreshQueue, TerminalIsFinal).
Report(r) == reported' = IF reported = "completed" THEN reported ELSE r
Fault == faults < MaxFaults /\ faults' = faults + 1
FailJob == Fault /\ Idle /\ Report("failed")

\* _load_refresh_bootstrap_inputs reads the SEC; the new session then loads the
\* state rows that _refresh_from_sec refers to until it returns: that of
\* financials, and that of prices when their history is prefetched.
MutHeld == {d \in Sources : db[d].hash # NoHash}

Held ==
    {d \in Sources : /\ db[d].hash # NoHash
                     /\ \/ d = "financials"
                        \/ d = "prices" /\ AuxIo /\ ~Strict /\ (force \/ ~db[d].fresh)}

OpenSession ==
    /\ At("open")
    /\ snap' = up
    /\ held' = [d \in Held |-> db[d].hash]
    /\ todo' = Tail(todo)
    /\ UNCHANGED <<up, db, others, known, force, own, reported, faults>>

OpenFails == At("open") /\ FailJob /\ UNCHANGED <<up, db, others, known>>

MutReuse == ~force /\ "financials" \in DOMAIN held

MutRepairs ==
    /\ ~force /\ "financials" \in DOMAIN held
    /\ held["financials"] = SourceHash("financials", snap["financials"], 0)
    /\ db["financials"].gaps = {}

\* Unchanged statements are only marked as checked.  (The job also asks for
\* the risk signals to be stored under the same hash; they are stored and
\* marked in the transactions of the statements.)
can_reuse_financials ==
    ~force /\ "financials" \in DOMAIN held /\ held["financials"] = SourceHash("financials", snap["financials"], 0)

\* What is missing in the statements of this job: a filing summary or report
\* that fails is left out (missed), and a gap of a filing that is no longer
\* among the six that are parsed stays.
StatementGaps(missed) ==
    IF missed THEN {{"financials"}} ELSE {{}, db["financials"].gaps}

StatementRows(missed) ==
    LET hash == SourceHash("financials", snap["financials"], 0)
    IN  IF can_reuse_financials
        THEN {[db["financials"] EXCEPT !.hash = hash, !.fresh = TRUE]}
        ELSE {[val |-> snap["financials"], hash |-> hash, fresh |-> TRUE, gaps |-> g] :
                 g \in StatementGaps(missed)}

\* Otherwise they are parsed and stored again, under the hash of the filing
\* index whatever could be read.  Committed with the company row.
RefreshStatements ==
    /\ At("statements")
    /\ \E missed \in BOOLEAN :
          /\ IF missed THEN ~can_reuse_financials /\ Fault ELSE UNCHANGED faults
          /\ \E row \in StatementRows(missed) : db' = [db EXCEPT !["financials"] = row]
    /\ known' = TRUE
    /\ Continue(held, own)
    /\ UNCHANGED <<up, others, reported>>

StatementsFail == At("statements") /\ FailJob /\ UNCHANGED <<up, db, others, known>>

\* The versions a fetch may return: that of the filing index, or, for data
\* that is not in it, what is published when the request is answered.
Versions(s) ==
    CASE s = "prices"        -> {v \in 1..MaxVersion : snap[s] <= v /\ v <= up[s]}
      [] s = "institutional" -> {up[s]}
      [] OTHER               -> {snap[s]}

\* The fetches that go on when a document (for institutional holdings: a fund)
\* cannot be read, and store the rest.
Swallows == {"earnings", "comment_letters", "beneficial_ownership", "filings", "institutional"}

\* Releases in 8-K filings and comment letters whose document was missing are
\* stored without it and not fetched again before a forced refresh; a release
\* in a 6-K filing is left out, and fetched again as one that is not stored.
KeptGaps(s) ==
    IF (s = "earnings" /\ ~SixK) \/ (s = "comment_letters" /\ ~force) THEN View(s).gaps ELSE {}

FetchesDocuments(s, v) ==
    /\ s \in Swallows
    /\ s \in HashedByPayload \/ v # View(s).val \/ force \/ KeptGaps(s) # View(s).gaps

\* The fetched rows are added to the stored ones and the dataset is marked.
CompleteRow(s, v) ==
    [val |-> v, hash |-> SourceHash(s, v, IF s = "prices" THEN View(s).val ELSE 0),
     fresh |-> TRUE, gaps |-> KeptGaps(s)]

\* The holdings of a fund that fails stay as they were: what is stored is of
\* the old version, when the others have nothing new, or counts as the new one.
\* Only the others are in the hash, which can be that of an earlier version (w).
IncompleteRows(s, v) ==
    IF s = "institutional"
    THEN UNION {[val : {x}, hash : {SourceHash(s, w, 1) : w \in 0..x}, fresh : {TRUE},
                 gaps : {{s}, View(s).gaps}] : x \in {View(s).val, v}}
    ELSE {[val |-> v, hash |-> SourceHash(s, v, 1), fresh |-> TRUE, gaps |-> {s}]}

\* What a dataset's refresh function leaves.  Prices the provider does
\* not have are marked as checked under the hash they had; in strict mode
\* nothing happens.
FetchedRows(s, v, missed) ==
    CASE s = "prices" /\ Strict  -> {View(s)}
      [] s = "prices" /\ ~Strict /\ ~Listed -> {[View(s) EXCEPT !.fresh = TRUE]}
      [] OTHER -> IF missed THEN IncompleteRows(s, v) ELSE {CompleteRow(s, v)}

MayMiss(s, v, missed) == IF missed THEN FetchesDocuments(s, v) /\ Fault ELSE UNCHANGED faults

\* A forced earnings refresh deletes the stored releases and commits before it fetches.
WipeEarnings ==
    /\ At("wipe")
    /\ db' = [db EXCEPT ![Now].val = 0, ![Now].gaps = {}]
    /\ Continue(held, own)
    /\ UNCHANGED <<up, others, known, reported, faults>>

\* _run_dataset_job: commit, or roll back and go on with the next dataset.
RunDatasetJob ==
    /\ At("job")
    /\ \E v \in Versions(Now), missed \in BOOLEAN :
          /\ MayMiss(Now, v, missed)
          /\ \E row \in FetchedRows(Now, v, missed) : db' = [db EXCEPT ![Now] = row]
    /\ Continue(held, own)
    /\ UNCHANGED <<up, others, known, reported>>

DatasetJobFails ==
    /\ At("job") /\ Fault
    /\ Continue(<<>>, <<>>)
    /\ UNCHANGED <<up, db, others, known, reported>>

\* The fetch of a shortcut branch: the refresh functions first commit what the
\* session holds, the rows they write wait for the end of the branch, and an
\* error ends the job.
FetchOne ==
    /\ At("fetch")
    /\ db' = Committed
    /\ \E missed \in BOOLEAN :
          /\ MayMiss(Now, up[Now], missed)
          /\ \E row \in FetchedRows(Now, up[Now], missed) : Continue(held, [d \in {Now} |-> row])
    /\ UNCHANGED <<up, others, known, reported>>

FetchOneFails ==
    /\ At("fetch") /\ FailJob
    /\ db' = Committed
    /\ UNCHANGED <<up, others, known>>

\* The prices branch goes on after an error.
FetchMarket ==
    /\ At("market")
    /\ \E row \in FetchedRows(Now, up[Now], FALSE) : Continue(held, Put(Now, row))
    /\ UNCHANGED <<up, db, others, known, reported, faults>>

MarketFails ==
    /\ At("market") /\ Fault
    /\ Continue(<<>>, <<>>)
    /\ UNCHANGED <<up, db, others, known, reported>>

MutInputsUnchanged(d) == ~force /\ dataset_payload_hash(d) # NoHash

\* The _refresh_*_cache functions: nothing is computed when the fingerprint of
\* the inputs is the stored one.
InputsUnchanged(d) ==
    LET fp == Fingerprint(d, HashesSeen)
    IN  ~force /\ fp # NoHash /\ dataset_payload_hash(d) = fp

MutDerivedRow(d) ==
    LET fp == Fingerprint(d, HashesSeen)
        content == Content(d, [i \in Datasets |-> db[i].val])
    IN  [val |-> content,
         hash |-> IF fp = NoHash THEN Fallback(d, content) ELSE fp,
         fresh |-> TRUE, gaps |-> UNION {db[i].gaps : i \in ReadBy(d) \cap Datasets}]

DerivedRow(d) ==
    LET fp == Fingerprint(d, HashesSeen)
        content == Content(d, [i \in Datasets |-> View(i).val])
    IN  [val |-> content,
         hash |-> IF fp = NoHash THEN Fallback(d, content) ELSE fp,
         fresh |-> TRUE, gaps |-> UNION {View(i).gaps : i \in ReadBy(d) \cap Datasets}]

RefreshDerived ==
    /\ At("derive")
    /\ Continue(held, IF InputsUnchanged(Now) THEN own ELSE Put(Now, DerivedRow(Now)))
    /\ UNCHANGED <<up, db, others, known, reported, faults>>

DeriveFails == At("derive") /\ FailJob /\ UNCHANGED <<up, db, others, known>>

CommitSession ==
    /\ At("commit")
    /\ db' = Committed
    /\ Continue(held, <<>>)
    /\ UNCHANGED <<up, others, known, reported, faults>>

CommitFails == At("commit") /\ FailJob /\ UNCHANGED <<up, db, others, known>>

CompleteJob ==
    /\ At("complete")
    /\ Report("completed")
    /\ Continue(held, own)
    /\ UNCHANGED <<up, db, others, known, faults>>

\* The worker dies; the queue hands the job to another one later.
Crash ==
    /\ todo # <<>> /\ Fault /\ Idle /\ Report("none")
    /\ UNCHANGED <<up, db, others, known>>

-----------------------------------------------------------------------------
(* The surroundings.  Only the start of a job reads the age of a dataset,  *)
(* and a mark resets it, so datasets need to age only between jobs.        *)

Publish(s) ==
    /\ up[s] < MaxVersion
    /\ up' = [up EXCEPT ![s] = @ + 1]
    /\ UNCHANGED <<db, others, known, todo, force, snap, held, own, reported, faults>>

Age(s) ==
    /\ todo = <<>> /\ db[s].fresh
    /\ db' = [db EXCEPT ![s].fresh = FALSE]
    /\ UNCHANGED <<up, others, known, todo, force, snap, held, own, reported, faults>>

\* A route computes models, a peer is refreshed, proxy or macro data arrives.
OthersChange ==
    /\ others < MaxOthers
    /\ others' = others + 1
    /\ UNCHANGED <<up, db, known, todo, force, snap, held, own, reported, faults>>

Work ==
    \/ OpenSession \/ RefreshStatements \/ RunDatasetJob \/ FetchOne
    \/ FetchMarket \/ RefreshDerived \/ CommitSession \/ CompleteJob

Failure ==
    \/ OpenFails \/ StatementsFail \/ DatasetJobFails \/ FetchOneFails \/ MarketFails
    \/ DeriveFails \/ CommitFails \/ Crash

Next ==
    \/ StartJob(FALSE) \/ Work \/ Failure
    \/ \E s \in Sources : Publish(s) \/ Age(s)
    \/ OthersChange

Spec == Init /\ [][Next]_vars

\* The worker goes on with its job, the company is visited again and again (or
\* refreshed on a schedule), and time passes.
Fairness ==
    /\ WF_vars(Work)
    /\ WF_vars(StartJob(FALSE))
    /\ \A s \in Sources : SF_vars(Age(s))

FairSpec == Spec /\ Fairness

-----------------------------------------------------------------------------
(* Properties.                                                             *)

SourceHashes == {NoHash} \cup {<<"fetched", v>> : v \in 0..MaxVersion}
                \cup {<<"fetched", v, w>> : v \in 0..MaxVersion, w \in 0..MaxVersion}
SourceRows == [val : 0..MaxVersion, hash : SourceHashes, fresh : BOOLEAN, gaps : SUBSET Sources]

\* The values of the variables; those of a derived row are left open.
TypeOK ==
    /\ up \in [Sources -> 1..MaxVersion]
    /\ snap \in [Sources -> 1..MaxVersion]
    /\ DOMAIN db = Datasets /\ DOMAIN own \subseteq Datasets
    /\ \A s \in Sources : View(s) \in SourceRows /\ db[s] \in SourceRows
    /\ others \in 0..MaxOthers
    /\ known \in BOOLEAN /\ force \in BOOLEAN
    /\ todo \in Seq(Steps)
    /\ DOMAIN held \subseteq {"financials", "prices"} \cap Sources
    /\ \A d \in DOMAIN held : held[d] \in SourceHashes
    /\ reported \in {"none", "running", "completed", "failed"}
    /\ faults \in 0..MaxFaults

\* The hash of the holdings of some of the funds: it does not tell which rows
\* are stored beside theirs.
PartialHash(s, h) == s = "institutional" /\ h # NoHash /\ h[3] = 1

\* The payload hash of a fetched dataset names the version of the rows that are
\* stored, after every commit, rollback, failure and crash of an unforced job,
\* and, where it is a hash of the fetched rows, whether something is missing in
\* them.  A hash ahead of its rows would hide the newer rows from every later
\* fingerprint.  What the code does not keep: the hashes of the filing index say
\* nothing about documents that could not be read (gaps), and that of the
\* holdings of some funds says nothing about those of the others.
RowsMatchHash ==
    \A s \in Sources :
        db[s].hash # NoHash /\ ~PartialHash(s, db[s].hash)
        => /\ VersionOf(db[s].hash) = db[s].val
           /\ s \in HashedByPayload \ {"prices"} => (db[s].hash[3] = 1 <=> db[s].gaps # {})

CommittedHashes == [d \in Datasets |-> db[d].hash]

\* The payload of d was computed from the versions of the company's datasets
\* that are stored; of the others it may have an older state.
ComputedFromRows(d) ==
    db[d].val # Nothing /\ \A i \in ReadBy(d) \cap Datasets : db[d].val[2][i] = db[i].val

\* The next job will take d for unchanged.  Inputs without a fingerprint of
\* their own (Fallback), or with the hash of some funds, are left out.
TakenForCurrent(d) ==
    /\ \A i \in FingerprintOf(d) : /\ db[i].hash[1] \in {"fetched", "inputs"}
                                   /\ ~PartialHash(i, db[i].hash)
    /\ db[d].hash = Fingerprint(d, CommittedHashes)

\* And so are the caches that d depends on.
ChainTakenForCurrent(d) ==
    \A i \in {d} \cup (FingerprintOf(d) \cap Derived) : TakenForCurrent(i)

\* When the next job will take a derived cache, and those it depends on, for
\* unchanged, its payload was computed from the versions of the company's
\* datasets that are in the database: jobs that fetch on an old filing index,
\* fail half way, roll back, or read the hashes of an old state object leave no
\* payload behind that all later jobs take for current.  It need not be current
\* in what no fingerprint covers: the brief's model runs, peers, proxy
\* statements and macro data.
HashIsHonest ==
    \A d \in Derived : ChainTakenForCurrent(d) => ComputedFromRows(d)

\* The datasets whose missing documents are fetched again under the same hash.
Refetched == {"institutional"} \cup (IF SixK THEN {"earnings"} ELSE {})

\* When the next job will take a derived cache, and those it depends on, for
\* unchanged, it lacks the documents that its inputs lack, no more and no
\* fewer: a swallowed error leaves incomplete rows under a full hash, and a
\* later unforced job that repaired them under that hash would leave the caches
\* computed without the document for ever.
GapsAreHonest ==
    \A d \in Derived :
        ChainTakenForCurrent(d)
        => \A s \in Sources \ Refetched :
              s \in db[d].gaps <=> \E i \in ReadBy(d) \cap Datasets : s \in db[i].gaps

\* Every dataset has in the end the version upstream publishes and every derived
\* cache is computed from these, whatever failed before: a lost commit, also
\* one after the job was reported as completed (the skip branch), a crash, a
\* dataset that was skipped by a shortcut branch.  Documents that could not be
\* read are in the end stored where every job fetches them again; in
\* statements, earnings releases and comment letters they may stay missing
\* until the next version or a forced refresh.
Converges ==
    <>[](/\ \A s \in Sources : db[s].val = up[s] /\ (s \in HashedByPayload => db[s].gaps = {})
         /\ \A d \in Derived : ComputedFromRows(d))

\* When a job has been reported as completed, the derived caches it skipped
\* because their "dependent inputs are unchanged" are those computed from the
\* rows in the database.
CompletedIsCurrent ==
    todo = <<>> /\ reported = "completed" /\ faults = 0
    => \A d \in Derived : ComputedFromRows(d)
=============================================================================
