------------------------ MODULE DatasetRefreshProofs ------------------------
(***************************************************************************)
(* Proofs about RefreshPolicy and DatasetRefresh.                          *)
(***************************************************************************)
EXTENDS DatasetRefresh, SequenceTheorems, TLAPS

-----------------------------------------------------------------------------
(* The policy.                                                             *)

\* Only a job without anything to do skips the SEC: the company is known, no
\* fetch was asked for, and every dataset was checked in the window
\* (can_skip_sec_refresh).
THEOREM SkipMeansFresh ==
    ASSUME NEW p \in Policies, Branch(p) = "skip"
    PROVE  p.known /\ ~p.force /\ p.segments /\ p.fresh = SourceDatasets
<1>1. can_skip_sec_refresh(p)
  BY DEF Branch
<1>2. \A d \in SourceDatasets : d \in p.fresh
  BY <1>1 DEF can_skip_sec_refresh, CachedStatementsUsable, effective_insider_fresh,
              effective_non_core_fresh, Fresh, SourceDatasets
<1>3. p.fresh \subseteq SourceDatasets
  BY DEF Policies
<1>. QED
  BY <1>1, <1>2, <1>3 DEF can_skip_sec_refresh, CachedStatementsUsable

\* Whatever branch a job takes, it fetches a stale dataset if there is one: no
\* combination of stale datasets makes the shortcut branches of
\* _refresh_cached_company, which look at some datasets only, pass over all of
\* them.
THEOREM EveryJobMakesProgress ==
    ASSUME NEW p \in Policies, p.fresh # SourceDatasets
    PROVE  \E d \in FetchedBy(Branch(p), p) : d \in SourceDatasets /\ ~Fresh(p, d)
<1>1. PICK d \in SourceDatasets : ~Fresh(p, d)
  BY DEF Policies, Fresh
<1>2. CASE Branch(p) = "sec"
  <2>1. CASE d \in {"financials", "filings", "capital_markets", "comment_letters"}
    BY <1>1, <1>2, <2>1 DEF FetchedBy
  <2>2. CASE d \in {"institutional", "beneficial_ownership", "earnings", "prices"}
    BY <1>1, <1>2, <2>2 DEF FetchedBy
  <2>3. CASE d \in {"insiders", "form144"}
    <3>1. ~effective_insider_fresh(p)
      BY <1>1, <2>3 DEF effective_insider_fresh
    <3>. QED
      BY <1>1, <1>2, <2>3, <3>1 DEF FetchedBy
  <2>. QED
    BY <2>1, <2>2, <2>3 DEF SourceDatasets
<1>3. CASE Branch(p) = "insiders"
  <2>1. ~effective_insider_fresh(p)
    BY <1>3 DEF Branch, can_refresh_insiders_only
  <2>. QED
    BY <1>3, <2>1 DEF FetchedBy, effective_insider_fresh, SourceDatasets
<1>4. CASE Branch(p) = "skip"
  BY <1>4, SkipMeansFresh
<1>5. CASE Branch(p) \in Branches \ {"sec", "insiders", "skip"}
  <2>1. FetchedBy(Branch(p), p) = {Branch(p)} /\ Branch(p) \in SourceDatasets
    BY <1>5 DEF FetchedBy, Branches, SourceDatasets
  <2>2. ~Fresh(p, Branch(p))
    BY <1>5 DEF Branch, Branches, can_refresh_beneficial_only, can_refresh_earnings_only,
       can_refresh_institutional_only, can_refresh_prices_only, can_refresh_filings_only,
       can_refresh_capital_markets_only, can_refresh_comment_letters_only
  <2>. QED
    BY <2>1, <2>2
<1>6. Branch(p) \in Branches
  BY DEF Branch, Branches
<1>. QED
  BY <1>2, <1>3, <1>4, <1>5, <1>6 DEF Branches

-----------------------------------------------------------------------------
(* The steps of an unforced job.  Its plan is a tail of open, statements   *)
(* and steps of the other kinds, so that nothing comes between the read of *)
(* the state row of financials and its use.                                *)

LaterSteps ==
    {st \in Steps : /\ st.op \notin {"open", "statements", "wipe"}
                    /\ st.op \in {"job", "fetch", "market"} => st.ds \in Sources
                    /\ st.op = "derive" => st.ds \in Derived}

OpenStep == [op |-> "open", ds |-> "none"]
StatementsStep == [op |-> "statements", ds |-> "financials"]

Opening(q) == \E r \in Seq(LaterSteps) : q = <<OpenStep, StatementsStep>> \o r
Stating(q) == \E r \in Seq(LaterSteps) : q = <<StatementsStep>> \o r
Plan(q) == q \in Seq(LaterSteps) \/ Stating(q) \/ Opening(q)

LEMMA SourceStep ==
    ASSUME NEW op \in {"job", "fetch", "market"}, NEW d \in SourceDatasets
    PROVE  On(op, d) \in Seq(LaterSteps)
<1>1. d \in Datasets => d \in Sources
  BY DatasetAssumption DEF Datasets, SourceDatasets, DerivedDatasets
<1>2. d \in Datasets => [op |-> op, ds |-> d] \in LaterSteps
  BY <1>1 DEF LaterSteps, Steps, Ops
<1>. QED
  BY <1>2 DEF On

LEMMA DerivedStep ==
    ASSUME NEW d \in DerivedDatasets
    PROVE  On("derive", d) \in Seq(LaterSteps)
<1>1. d \in Datasets => d \in Derived
  BY DatasetAssumption DEF Datasets, SourceDatasets, DerivedDatasets
<1>2. d \in Datasets => [op |-> "derive", ds |-> d] \in LaterSteps
  BY <1>1 DEF LaterSteps, Steps, Ops
<1>. QED
  BY <1>2 DEF On

LEMMA PlainStep ==
    ASSUME NEW op \in {"commit", "complete"}
    PROVE  Do(op) \in Seq(LaterSteps)
<1>1. [op |-> op, ds |-> "none"] \in LaterSteps
  BY DEF LaterSteps, Steps, Ops
<1>. QED
  BY <1>1 DEF Do

LEMMA Concat ==
    ASSUME NEW S, NEW s \in Seq(S), NEW t \in Seq(S)
    PROVE  s \o t \in Seq(S)
  OBVIOUS

LEMMA ConcatFive ==
    ASSUME NEW S, NEW a \in Seq(S), NEW b \in Seq(S), NEW c \in Seq(S), NEW d \in Seq(S),
           NEW e \in Seq(S)
    PROVE  a \o b \o c \o d \o e \in Seq(S)
<1>1. a \o b \in Seq(S)
  BY Concat
<1>2. a \o b \o c \in Seq(S)
  BY <1>1, Concat
<1>3. a \o b \o c \o d \in Seq(S)
  BY <1>2, Concat
<1>. QED
  BY <1>3, Concat

LEMMA EmptyPlan == ASSUME NEW S PROVE <<>> \in Seq(S)
  OBVIOUS

LEMMA CacheSteps ==
    ASSUME NEW m \in BOOLEAN, NEW e \in BOOLEAN
    PROVE  Readiness(m) \in Seq(LaterSteps) /\ Dashboard(m, e) \in Seq(LaterSteps)
           /\ AllCaches \in Seq(LaterSteps)
<1>1. \A c \in BOOLEAN : Readiness(c) \in Seq(LaterSteps)
  <2>. SUFFICES ASSUME NEW c \in BOOLEAN PROVE Readiness(c) \in Seq(LaterSteps)
    OBVIOUS
  <2>1. (IF c THEN On("derive", "capital_structure") ELSE <<>>) \in Seq(LaterSteps)
    BY DerivedStep, EmptyPlan DEF DerivedDatasets
  <2>2. On("derive", "company_research_brief") \in Seq(LaterSteps)
    BY DerivedStep DEF DerivedDatasets
  <2>. QED
    BY <2>1, <2>2, Concat DEF Readiness
<1>2. \A c, g \in BOOLEAN : Dashboard(c, g) \in Seq(LaterSteps)
  <2>. SUFFICES ASSUME NEW c \in BOOLEAN, NEW g \in BOOLEAN PROVE Dashboard(c, g) \in Seq(LaterSteps)
    OBVIOUS
  <2>1. (IF c THEN On("derive", "derived_metrics") ELSE <<>>) \in Seq(LaterSteps)
    BY DerivedStep, EmptyPlan DEF DerivedDatasets
  <2>2. (IF g THEN On("derive", "earnings_models") ELSE <<>>) \in Seq(LaterSteps)
    BY DerivedStep, EmptyPlan DEF DerivedDatasets
  <2>3. On("derive", "charts_dashboard") \in Seq(LaterSteps)
    BY DerivedStep DEF DerivedDatasets
  <2>4. (IF c THEN On("derive", "derived_metrics") ELSE <<>>)
        \o (IF g THEN On("derive", "earnings_models") ELSE <<>>) \in Seq(LaterSteps)
    BY <2>1, <2>2, Concat
  <2>. QED
    BY <2>3, <2>4, Concat DEF Dashboard
<1>. QED
  BY <1>1, <1>2, Concat DEF AllCaches

LEMMA CachedStepsTyped ==
    ASSUME NEW b \in Branches, b # "sec"
    PROVE  CachedSteps(b) \in Seq(LaterSteps)
<1>1. Do("commit") \in Seq(LaterSteps) /\ Do("complete") \in Seq(LaterSteps)
  BY PlainStep
<1>2. Readiness(FALSE) \in Seq(LaterSteps) /\ AllCaches \in Seq(LaterSteps)
      /\ \A g \in BOOLEAN : Dashboard(FALSE, g) \in Seq(LaterSteps)
  BY CacheSteps
<1>3. CASE b = "skip"
  <2>1. CachedSteps(b) = AllCaches \o Do("complete") \o Do("commit")
    BY <1>3 DEF CachedSteps
  <2>. QED
    BY <1>1, <1>2, <2>1, Concat
<1>4. CASE b = "insiders"
  <2>1. CachedSteps(b) = On("fetch", "insiders") \o On("fetch", "form144") \o Readiness(FALSE)
                         \o Dashboard(FALSE, FALSE) \o Do("commit") \o Do("complete")
    BY <1>4 DEF CachedSteps
  <2>2. On("fetch", "insiders") \in Seq(LaterSteps) /\ On("fetch", "form144") \in Seq(LaterSteps)
    BY SourceStep DEF SourceDatasets
  <2>3. On("fetch", "insiders") \o On("fetch", "form144") \o Readiness(FALSE)
        \o Dashboard(FALSE, FALSE) \o Do("commit") \in Seq(LaterSteps)
    BY <1>1, <1>2, <2>2, ConcatFive
  <2>. QED
    BY <1>1, <2>1, <2>3, Concat
<1>5. CASE b = "prices"
  <2>1. CachedSteps(b) = On("market", "prices") \o AllCaches \o Do("commit") \o Do("complete")
    BY <1>5 DEF CachedSteps
  <2>2. On("market", "prices") \in Seq(LaterSteps)
    BY SourceStep DEF SourceDatasets
  <2>. QED
    BY <1>1, <1>2, <2>1, <2>2, Concat
<1>6. CASE b \notin {"skip", "insiders", "prices"}
  <2>. DEFINE D == Dashboard(FALSE, b = "earnings")
  <2>1. CachedSteps(b) = On("fetch", b) \o Readiness(FALSE) \o D \o Do("commit") \o Do("complete")
    BY <1>6 DEF CachedSteps
  <2>2. On("fetch", b) \in Seq(LaterSteps)
    BY <1>6, SourceStep DEF SourceDatasets, Branches
  <2>3. D \in Seq(LaterSteps)
    BY <1>2
  <2>. HIDE DEF D
  <2>4. On("fetch", b) \o Readiness(FALSE) \o D \o Do("commit") \o Do("complete") \in Seq(LaterSteps)
    BY <1>1, <1>2, <2>2, <2>3, ConcatFive
  <2>. QED
    BY <2>1, <2>4
<1>. QED
  BY <1>3, <1>4, <1>5, <1>6

LEMMA Pair ==
    ASSUME NEW a, NEW b PROVE <<a>> \o <<b>> = <<a, b>> \o <<>>
<1>. DEFINE S == {a, b}
<1>1. <<a>> \in Seq(S) /\ <<b>> \in Seq(S) /\ <<a, b>> \in Seq(S) /\ <<>> \in Seq(S)
  OBVIOUS
<1>2. Len(<<a>> \o <<b>>) = 2 /\ (<<a>> \o <<b>>)[1] = a /\ (<<a>> \o <<b>>)[2] = b
  BY <1>1
<1>3. <<a, b>> \o <<>> = <<a, b>>
  BY <1>1
<1>4. <<a>> \o <<b>> \in Seq(S) /\ Len(<<a, b>>) = 2 /\ <<a, b>>[1] = a /\ <<a, b>>[2] = b
  BY <1>1
<1>5. \A i \in 1..Len(<<a>> \o <<b>>) : (<<a>> \o <<b>>)[i] = <<a, b>>[i]
  BY <1>2, <1>4
<1>6. <<a>> \o <<b>> = <<a, b>>
  BY <1>1, <1>2, <1>4, <1>5, SeqEqual
<1>. QED
  BY <1>3, <1>6

LEMMA OpeningExtends ==
    ASSUME NEW q, Opening(q), NEW t \in Seq(LaterSteps)
    PROVE  Opening(q \o t)
<1>1. PICK r \in Seq(LaterSteps) : q = <<OpenStep, StatementsStep>> \o r
  BY DEF Opening
<1>2. r \o t \in Seq(LaterSteps)
  BY Concat
<1>3. q \o t = <<OpenStep, StatementsStep>> \o (r \o t)
  BY <1>1
<1>. QED
  BY <1>2, <1>3 DEF Opening

LEMMA SecStepsPlan ==
    ASSUME NEW ds
    PROVE  Opening(SecSteps(ds, FALSE))
<1>. DEFINE Job(d) == IF d \in ds THEN On("job", d) ELSE <<>>
            None == IF FALSE THEN On("wipe", "earnings") ELSE <<>>
            S0 == Do("open") \o On("statements", "financials")
            S1 == S0 \o Job("insiders") \o Job("form144") \o Job("institutional")
            S2 == S1 \o Job("beneficial_ownership") \o None \o Job("earnings")
            S3 == S2 \o Job("filings") \o Job("capital_markets") \o Job("comment_letters")
            S4 == S3 \o Job("prices") \o AllCaches \o Do("commit")
<1>1. \A d \in SourceDatasets : Job(d) \in Seq(LaterSteps)
  BY SourceStep, EmptyPlan
<1>2. None \in Seq(LaterSteps) /\ AllCaches \in Seq(LaterSteps)
      /\ Do("commit") \in Seq(LaterSteps) /\ Do("complete") \in Seq(LaterSteps)
  BY CacheSteps, EmptyPlan, PlainStep
<1>3. /\ Job("insiders") \in Seq(LaterSteps) /\ Job("form144") \in Seq(LaterSteps)
      /\ Job("institutional") \in Seq(LaterSteps) /\ Job("beneficial_ownership") \in Seq(LaterSteps)
      /\ Job("earnings") \in Seq(LaterSteps) /\ Job("filings") \in Seq(LaterSteps)
      /\ Job("capital_markets") \in Seq(LaterSteps) /\ Job("comment_letters") \in Seq(LaterSteps)
      /\ Job("prices") \in Seq(LaterSteps)
  BY <1>1 DEF SourceDatasets
<1>. HIDE DEF Job, None
<1>4. Opening(S0)
  <2>1. Do("open") = <<OpenStep>> /\ On("statements", "financials") = <<StatementsStep>>
    BY DatasetAssumption DEF Do, On, Datasets, OpenStep, StatementsStep
  <2>2. <<OpenStep>> \o <<StatementsStep>> = <<OpenStep, StatementsStep>> \o <<>>
    BY Pair
  <2>. QED
    BY <2>1, <2>2, EmptyPlan DEF Opening
<1>. HIDE DEF S0
<1>5. Opening(S1)
  BY <1>3, <1>4, OpeningExtends
<1>. HIDE DEF S1
<1>6. Opening(S2)
  BY <1>2, <1>3, <1>5, OpeningExtends
<1>. HIDE DEF S2
<1>7. Opening(S3)
  BY <1>3, <1>6, OpeningExtends
<1>. HIDE DEF S3
<1>8. Opening(S4)
  BY <1>2, <1>3, <1>7, OpeningExtends
<1>9. SecSteps(ds, FALSE) = S4 \o Do("complete")
  BY DEF SecSteps, S0, S1, S2, S3, Job, None
<1>. HIDE DEF S4
<1>. QED
  BY <1>2, <1>8, <1>9, OpeningExtends

LEMMA JobPlan ==
    ASSUME NEW p, NEW b, b = Branch(p)
    PROVE  Plan(IF b = "sec" THEN SecSteps(FetchedBy(b, p), FALSE) ELSE CachedSteps(b))
<1>1. b \in Branches
  BY DEF Branch, Branches
<1>. QED
  BY <1>1, SecStepsPlan, CachedStepsTyped DEF Plan

\* A new job opens its session before it reads the statements.
LEMMA NotStating ==
    ASSUME NEW q, q \in Seq(LaterSteps) \/ Opening(q), q # <<>>
    PROVE  Head(q).op # "statements"
<1>1. CASE q \in Seq(LaterSteps)
  BY <1>1 DEF LaterSteps
<1>2. CASE Opening(q)
  BY <1>2 DEF Opening, OpenStep
<1>. QED
  BY <1>1, <1>2

LEMMA StartsOpen ==
    ASSUME NEW p, NEW b, b = Branch(p), NEW q,
           q = IF b = "sec" THEN SecSteps(FetchedBy(b, p), FALSE) ELSE CachedSteps(b),
           q # <<>>
    PROVE  Head(q).op # "statements"
<1>1. b \in Branches
  BY DEF Branch, Branches
<1>2. q \in Seq(LaterSteps) \/ Opening(q)
  BY <1>1, SecStepsPlan, CachedStepsTyped
<1>. QED
  BY <1>2, NotStating

\* What is left of a plan after a step.
LEMMA AfterOpen ==
    ASSUME NEW q, Plan(q), q # <<>>, Head(q).op = "open"
    PROVE  Stating(Tail(q)) /\ Tail(q) # <<>>
<1>1. PICK r \in Seq(LaterSteps) : q = <<OpenStep, StatementsStep>> \o r
  <2>1. ~(q \in Seq(LaterSteps))
    BY DEF LaterSteps
  <2>2. ~Stating(q)
    BY DEF Stating, StatementsStep
  <2>. QED
    BY <2>1, <2>2 DEF Plan, Opening
<1>2. Tail(q) = <<StatementsStep>> \o r /\ Tail(q) # <<>>
  BY <1>1
<1>. QED
  BY <1>2 DEF Stating

LEMMA AfterStatements ==
    ASSUME NEW q, Plan(q), q # <<>>, Head(q).op = "statements"
    PROVE  Tail(q) \in Seq(LaterSteps)
<1>1. PICK r \in Seq(LaterSteps) : q = <<StatementsStep>> \o r
  <2>1. ~(q \in Seq(LaterSteps))
    BY DEF LaterSteps
  <2>2. ~Opening(q)
    BY DEF Opening, OpenStep
  <2>. QED
    BY <2>1, <2>2 DEF Plan, Stating
<1>2. StatementsStep \in {StatementsStep} /\ Tail(<<StatementsStep>> \o r) = r
  BY DEF StatementsStep
<1>. QED
  BY <1>1, <1>2

LEMMA AfterLater ==
    ASSUME NEW q, Plan(q), q # <<>>, Head(q).op \notin {"open", "statements"}
    PROVE  q \in Seq(LaterSteps) /\ Head(q) \in LaterSteps /\ Tail(q) \in Seq(LaterSteps)
<1>1. ~Stating(q) /\ ~Opening(q)
  BY DEF Stating, Opening, OpenStep, StatementsStep
<1>. QED
  BY <1>1 DEF Plan

LEMMA PlanTyped ==
    ASSUME NEW q, Plan(q) PROVE q \in Seq(Steps)
<1>1. LaterSteps \subseteq Steps
  BY DEF LaterSteps
<1>2. OpenStep \in Steps /\ StatementsStep \in Steps
  BY DatasetAssumption DEF OpenStep, StatementsStep, Steps, Ops, Datasets
<1>3. Seq(LaterSteps) \subseteq Seq(Steps)
  BY <1>1
<1>4. <<StatementsStep>> \in Seq(Steps) /\ <<OpenStep, StatementsStep>> \in Seq(Steps)
  BY <1>2
<1>. QED
  BY <1>3, <1>4, Concat DEF Plan, Stating, Opening
-----------------------------------------------------------------------------
(* The inductive invariant of unforced jobs.                               *)

\* The hash of a row is not newer than its data, is that of its data unless it
\* covers only some of the funds, and shows a gap if it can.
Shown(s, row) == s \in HashedByPayload \ {"prices"} => (row.hash[3] = 1 <=> row.gaps # {})

Honest(s, row) ==
    /\ row \in SourceRows
    /\ row.hash # NoHash =>
          /\ VersionOf(row.hash) \in Nat /\ VersionOf(row.hash) <= row.val
          /\ ~PartialHash(s, row.hash) => VersionOf(row.hash) = row.val /\ Shown(s, row)

SessionOK(h, o) ==
    /\ DOMAIN o \subseteq Datasets
    /\ \A s \in Sources : s \in DOMAIN o => Honest(s, o[s])
    /\ DOMAIN h \subseteq {"financials", "prices"} \cap Sources
    /\ \A d \in DOMAIN h : h[d] \in SourceHashes

WorldOK ==
    /\ up \in [Sources -> 1..MaxVersion]
    /\ others \in 0..MaxOthers /\ known \in BOOLEAN
    /\ reported \in {"none", "running", "completed", "failed"}
    /\ faults \in 0..MaxFaults

RowsOK == db = [d \in Datasets |-> db[d]] /\ \A s \in Sources : Honest(s, db[s])

JobOK ==
    /\ Plan(todo) /\ force = FALSE
    /\ snap \in [Sources -> 1..MaxVersion]
    /\ SessionOK(held, own)

\* The statements are compared with the hash that is still in the database.
HeldIsCurrent ==
    At("statements") /\ "financials" \in DOMAIN held => held["financials"] = db["financials"].hash

Inv == WorldOK /\ RowsOK /\ JobOK /\ HeldIsCurrent

LEMMA EmptyDomain == DOMAIN <<>> = {}
  OBVIOUS

LEMMA EmptySession == SessionOK(<<>>, <<>>)
  BY EmptyDomain DEF SessionOK

LEMMA NoPlan == Plan(<<>>)
  BY EmptyPlan DEF Plan

LEMMA FinancialsIn == "financials" \in Sources /\ Sources \subseteq Datasets
  BY DatasetAssumption DEF Datasets

LEMMA InitInv == Init => Inv
<1>. SUFFICES ASSUME Init PROVE Inv
  OBVIOUS
<1>1. WorldOK
  <2>1. up \in [Sources -> 1..MaxVersion] /\ faults \in 0..MaxFaults /\ others \in 0..MaxOthers
    BY DatasetAssumption DEF Init
  <2>2. known \in BOOLEAN /\ reported \in {"none", "running", "completed", "failed"}
    BY DEF Init
  <2>. QED
    BY <2>1, <2>2 DEF WorldOK
<1>2. RowsOK
  <2>1. \A s \in Sources : db[s] = [val |-> 0, hash |-> NoHash, fresh |-> FALSE, gaps |-> {}]
    BY FinancialsIn DEF Init, EmptyRow
  <2>2. [val |-> 0, hash |-> NoHash, fresh |-> FALSE, gaps |-> {}] \in SourceRows
    BY DatasetAssumption DEF SourceRows, SourceHashes
  <2>3. db = [d \in Datasets |-> db[d]]
    BY DEF Init
  <2>. QED
    BY <2>1, <2>2, <2>3 DEF RowsOK, Honest
<1>3. JobOK
  BY DatasetAssumption, EmptySession, NoPlan DEF Init, JobOK
<1>4. HeldIsCurrent
  BY DEF Init, HeldIsCurrent, At
<1>. QED
  BY <1>1, <1>2, <1>3, <1>4 DEF Inv

LEMMA IdleOK == ASSUME Idle PROVE JobOK' /\ HeldIsCurrent'
<1>1. snap' \in [Sources -> 1..MaxVersion]
  BY DatasetAssumption DEF Idle
<1>2. Plan(todo') /\ force' = FALSE /\ SessionOK(held', own')
  BY NoPlan, EmptySession DEF Idle
<1>3. HeldIsCurrent'
  BY DEF Idle, HeldIsCurrent, At
<1>. QED
  BY <1>1, <1>2, <1>3 DEF JobOK

\* After the statements no step of the plan reads the state row again.
LEMMA ContinueOK ==
    ASSUME Inv, todo # <<>>, Head(todo).op # "open",
           NEW h, NEW o, SessionOK(h, o), Continue(h, o)
    PROVE  JobOK' /\ HeldIsCurrent'
<1>1. CASE Tail(todo) = <<>>
  BY <1>1, IdleOK DEF Continue
<1>2. CASE Tail(todo) # <<>>
  <2>1. Tail(todo) \in Seq(LaterSteps)
    <3>1. Plan(todo)
      BY DEF Inv, JobOK
    <3>. QED
      BY <3>1, AfterStatements, AfterLater
  <2>2. todo' = Tail(todo) /\ held' = h /\ own' = o /\ force' = force /\ snap' = snap
    BY <1>2 DEF Continue
  <2>3. JobOK'
    BY <2>1, <2>2 DEF Inv, JobOK, Plan
  <2>4. Head(todo') \in LaterSteps
    BY <1>2, <2>1, <2>2
  <2>5. HeldIsCurrent'
    BY <2>4 DEF HeldIsCurrent, At, LaterSteps
  <2>. QED
    BY <2>3, <2>5
<1>. QED
  BY <1>1, <1>2

\* What the rest of a step may do.
LEMMA NowTyped ==
    ASSUME Inv, todo # <<>>, Head(todo).op \in {"job", "fetch", "market"}
    PROVE  Now \in Sources
<1>1. Head(todo) \in LaterSteps
  BY AfterLater DEF Inv, JobOK
<1>. QED
  BY <1>1 DEF LaterSteps, Now

LEMMA ViewHonest ==
    ASSUME Inv PROVE \A s \in Sources : Honest(s, View(s))
  BY DEF Inv, RowsOK, JobOK, SessionOK, View

LEMMA CommittedOK ==
    ASSUME Inv, db' = Committed PROVE RowsOK'
<1>1. db' = [d \in Datasets |-> db'[d]]
  BY DEF Committed
<1>2. \A s \in Sources : db'[s] = View(s)
  BY FinancialsIn DEF Committed
<1>. QED
  BY <1>1, <1>2, ViewHonest DEF RowsOK, Honest

LEMMA VersionsTyped ==
    ASSUME Inv, NEW s \in Sources, NEW v \in Versions(s)
    PROVE  v \in 1..MaxVersion
<1>1. CASE s = "prices"
  <2>1. Versions(s) = {w \in 1..MaxVersion : snap[s] <= w /\ w <= up[s]}
    BY <1>1 DEF Versions
  <2>. QED
    BY <2>1
<1>2. CASE s = "institutional"
  <2>1. Versions(s) = {up[s]}
    BY <1>2 DEF Versions
  <2>. QED
    BY <2>1 DEF Inv, WorldOK
<1>3. CASE s \notin {"prices", "institutional"}
  <2>1. Versions(s) = {snap[s]}
    BY <1>3 DEF Versions
  <2>. QED
    BY <2>1 DEF Inv, JobOK
<1>. QED
  BY <1>1, <1>2, <1>3

LEMMA HashTyped ==
    ASSUME NEW s, NEW v \in 0..MaxVersion, NEW w \in 0..MaxVersion
    PROVE  /\ SourceHash(s, v, w) \in SourceHashes /\ VersionOf(SourceHash(s, v, w)) = v
           /\ s \in HashedByPayload => SourceHash(s, v, w)[3] = w
  BY DEF SourceHash, SourceHashes, VersionOf

LEMMA Numbers == 0 \in 0..MaxVersion /\ 1 \in 0..MaxVersion /\ 0..MaxVersion \subseteq Nat
  BY DatasetAssumption

LEMMA KeptTyped ==
    ASSUME Inv, NEW s \in Sources
    PROVE  /\ KeptGaps(s) \in SUBSET Sources
           /\ s \in HashedByPayload => KeptGaps(s) = {}
<1>1. View(s).gaps \in SUBSET Sources
  BY ViewHonest DEF Honest, SourceRows
<1>. QED
  BY <1>1 DEF KeptGaps, HashedByPayload

\* Everything was read.
LEMMA CompleteHonest ==
    ASSUME Inv, NEW s \in Sources, NEW v \in 1..MaxVersion
    PROVE  Honest(s, CompleteRow(s, v))
<1>. DEFINE w == IF s = "prices" THEN View(s).val ELSE 0
            h == SourceHash(s, v, w)
            k == KeptGaps(s)
<1>1. v \in 0..MaxVersion /\ View(s).val \in 0..MaxVersion
  BY ViewHonest, DatasetAssumption DEF SourceRows, Honest
<1>2. w \in 0..MaxVersion
  BY <1>1, Numbers
<1>3. k \in SUBSET Sources /\ (s \in HashedByPayload => k = {})
  BY KeptTyped
<1>4. s # "prices" => w = 0
  OBVIOUS
<1>5. CompleteRow(s, v) = [val |-> v, hash |-> h, fresh |-> TRUE, gaps |-> k]
  BY DEF CompleteRow
<1>. HIDE DEF w, k
<1>6. h \in SourceHashes /\ VersionOf(h) = v /\ (s \in HashedByPayload => h[3] = w)
  BY <1>1, <1>2, HashTyped
<1>. HIDE DEF h
<1>. DEFINE row == [val |-> v, hash |-> h, fresh |-> TRUE, gaps |-> k]
<1>7. row \in SourceRows /\ VersionOf(row.hash) \in Nat /\ VersionOf(row.hash) = row.val
      /\ VersionOf(row.hash) <= row.val
  BY <1>1, <1>3, <1>6 DEF SourceRows
<1>8. Shown(s, row)
  BY <1>3, <1>4, <1>6 DEF Shown
<1>. QED
  BY <1>5, <1>7, <1>8 DEF Honest

\* Something could not be read.
LEMMA IncompleteHonest ==
    ASSUME Inv, NEW s \in Sources, NEW v \in 1..MaxVersion, NEW row \in IncompleteRows(s, v),
           s # "prices"
    PROVE  Honest(s, row)
<1>1. v \in 0..MaxVersion /\ View(s).val \in 0..MaxVersion /\ View(s).gaps \in SUBSET Sources
  BY ViewHonest, DatasetAssumption DEF SourceRows, Honest
<1>2. CASE s = "institutional"
  <2>1. PICK x \in {View(s).val, v} :
           row \in [val : {x}, hash : {SourceHash(s, w, 1) : w \in 0..x}, fresh : {TRUE},
                    gaps : {{s}, View(s).gaps}]
    BY <1>2 DEF IncompleteRows
  <2>. PICK w \in 0..x : row.hash = SourceHash(s, w, 1)
    BY <2>1
  <2>. DEFINE g == row.gaps
  <2>2. x \in 0..MaxVersion /\ w \in 0..MaxVersion /\ w <= x /\ w \in Nat /\ g \in SUBSET Sources
    BY <1>1, <2>1, DatasetAssumption
  <2>. DEFINE h == SourceHash(s, w, 1)
  <2>3. h \in SourceHashes /\ VersionOf(h) = w /\ h[3] = 1
    BY <1>2, <2>2, HashTyped, Numbers DEF HashedByPayload
  <2>4. h # NoHash
    BY <1>2 DEF NoHash, SourceHash, HashedByPayload
  <2>5. row = [val |-> x, hash |-> h, fresh |-> TRUE, gaps |-> g]
    BY <2>1
  <2>. HIDE DEF g
  <2>. HIDE DEF h
  <2>6. row \in SourceRows /\ row.hash = h /\ row.val = x
    BY <2>2, <2>3, <2>5 DEF SourceRows
  <2>7. PartialHash(s, h)
    BY <1>2, <2>3, <2>4 DEF PartialHash
  <2>. QED
    BY <2>2, <2>3, <2>6, <2>7 DEF Honest
<1>3. CASE s # "institutional"
  <2>. DEFINE h == SourceHash(s, v, 1)
  <2>1. row = [val |-> v, hash |-> h, fresh |-> TRUE, gaps |-> {s}]
    BY <1>3 DEF IncompleteRows
  <2>2. h \in SourceHashes /\ VersionOf(h) = v /\ (s \in HashedByPayload => h[3] = 1)
    BY <1>1, HashTyped, Numbers
  <2>. HIDE DEF h
  <2>3. row \in SourceRows /\ VersionOf(row.hash) \in Nat /\ VersionOf(row.hash) <= row.val
        /\ VersionOf(row.hash) = row.val
    BY <1>1, <2>1, <2>2 DEF SourceRows
  <2>4. Shown(s, row)
    BY <2>1, <2>2 DEF Shown
  <2>. QED
    BY <2>3, <2>4 DEF Honest
<1>. QED
  BY <1>2, <1>3

\* A mark without new rows.
LEMMA MarkedHonest ==
    ASSUME NEW s, NEW row, Honest(s, row), NEW b \in BOOLEAN
    PROVE  Honest(s, [row EXCEPT !.fresh = b])
<1>. DEFINE new == [row EXCEPT !.fresh = b]
<1>1. row \in SourceRows
  BY DEF Honest
<1>2. new \in SourceRows /\ new.val = row.val /\ new.hash = row.hash /\ new.gaps = row.gaps
  BY <1>1 DEF SourceRows
<1>. HIDE DEF new
<1>3. Shown(s, row) => Shown(s, new)
  BY <1>2 DEF Shown
<1>4. Honest(s, new)
  BY <1>2, <1>3 DEF Honest
<1>. QED
  BY <1>4 DEF new

\* What a fetch leaves, in three cases.
LEMMA FetchedCases ==
    ASSUME NEW s, NEW v, NEW missed \in BOOLEAN, NEW row \in FetchedRows(s, v, missed)
    PROVE  \/ row = View(s) \/ row = [View(s) EXCEPT !.fresh = TRUE]
           \/ ~(s = "prices" /\ Strict)
              /\ (row = CompleteRow(s, v) \/ (missed /\ row \in IncompleteRows(s, v)))
<1>1. CASE s = "prices" /\ Strict
  BY <1>1 DEF FetchedRows
<1>2. CASE s = "prices" /\ ~Strict /\ ~Listed
  BY <1>2 DEF FetchedRows
<1>3. CASE ~(s = "prices" /\ Strict) /\ ~(s = "prices" /\ ~Listed)
  <2>1. FetchedRows(s, v, missed) = IF missed THEN IncompleteRows(s, v) ELSE {CompleteRow(s, v)}
    BY <1>3 DEF FetchedRows
  <2>. QED
    BY <1>3, <2>1
<1>. QED
  BY <1>1, <1>2, <1>3

LEMMA FetchedHonest ==
    ASSUME Inv, NEW s \in Sources, NEW v \in 1..MaxVersion, NEW missed \in BOOLEAN,
           missed => s # "prices", NEW row \in FetchedRows(s, v, missed)
    PROVE  Honest(s, row)
<1>1. Honest(s, View(s)) /\ Honest(s, [View(s) EXCEPT !.fresh = TRUE])
  BY ViewHonest, MarkedHonest
<1>2. \/ row = View(s) \/ row = [View(s) EXCEPT !.fresh = TRUE]
      \/ row = CompleteRow(s, v) \/ (missed /\ row \in IncompleteRows(s, v))
  BY FetchedCases
<1>3. Honest(s, CompleteRow(s, v))
  BY CompleteHonest
<1>4. CASE missed /\ row \in IncompleteRows(s, v)
  BY <1>4, IncompleteHonest
<1>. QED
  BY <1>1, <1>2, <1>3, <1>4

\* Prices are fetched as a whole or not at all.
LEMMA MissTyped ==
    ASSUME Inv, NEW s, NEW v, NEW missed \in BOOLEAN, MayMiss(s, v, missed)
    PROVE  faults' \in 0..MaxFaults /\ (missed => s # "prices")
  BY DatasetAssumption DEF MayMiss, FetchesDocuments, Swallows, Fault, Inv, WorldOK

\* The bookkeeping of failures and events.
LEMMA FaultTyped ==
    ASSUME Inv, Fault PROVE faults' \in 0..MaxFaults
  BY DatasetAssumption DEF Inv, WorldOK, Fault

LEMMA ReportTyped ==
    ASSUME Inv, NEW r \in {"none", "completed", "failed"}, Report(r)
    PROVE  reported' \in {"none", "running", "completed", "failed"}
  BY DEF Inv, WorldOK, Report

LEMMA FailJobOK ==
    ASSUME Inv, FailJob, UNCHANGED <<up, others, known>>
    PROVE  WorldOK' /\ JobOK' /\ HeldIsCurrent'
<1>1. faults' \in 0..MaxFaults /\ reported' \in {"none", "running", "completed", "failed"}
  BY FaultTyped, ReportTyped DEF FailJob
<1>2. JobOK' /\ HeldIsCurrent'
  BY IdleOK DEF FailJob
<1>. QED
  BY <1>1, <1>2 DEF Inv, WorldOK

LEMMA SameRows == ASSUME Inv, UNCHANGED db PROVE RowsOK'
  BY DEF Inv, RowsOK

LEMMA SameWorld == ASSUME Inv, UNCHANGED <<up, others, known, reported, faults>> PROVE WorldOK'
  BY DEF Inv, WorldOK

LEMMA StartJobInv ==
    ASSUME Inv, StartJob(FALSE) PROVE Inv'
<1>0. PICK segments \in SegmentsSeen :
         LET p == PolicyNow(FALSE, segments)
             b == Branch(p)
         IN  todo' = IF b = "sec" THEN SecSteps(FetchedBy(b, p), FALSE) ELSE CachedSteps(b)
  BY DEF StartJob
<1>. DEFINE p == PolicyNow(FALSE, segments)
            b == Branch(p)
            q == IF b = "sec" THEN SecSteps(FetchedBy(b, p), FALSE) ELSE CachedSteps(b)
<1>1. todo' = q /\ force' = FALSE /\ reported' = "running" /\ todo = <<>>
      /\ UNCHANGED <<up, db, others, known, snap, held, own, faults>>
  BY <1>0 DEF StartJob
<1>2. Plan(q)
  BY JobPlan
<1>. HIDE DEF q
<1>3. JobOK'
  BY <1>1, <1>2 DEF Inv, JobOK
<1>4. WorldOK' /\ RowsOK'
  BY <1>1 DEF Inv, WorldOK, RowsOK
<1>5. HeldIsCurrent'
  <2>1. q # <<>> => Head(q).op # "statements"
    BY StartsOpen DEF q
  <2>. QED
    BY <1>1, <2>1 DEF HeldIsCurrent, At
<1>. QED
  BY <1>3, <1>4, <1>5 DEF Inv

LEMMA OpenSessionInv ==
    ASSUME Inv, OpenSession PROVE Inv'
<1>. USE DEF OpenSession, At
<1>1. WorldOK' /\ RowsOK'
  BY SameWorld, SameRows
<1>2. Stating(todo')
  BY AfterOpen DEF Inv, JobOK
<1>3. SessionOK(held', own')
  <2>1. Held \subseteq {"financials", "prices"} \cap Sources
    BY DEF Held
  <2>2. \A d \in Held : db[d].hash \in SourceHashes
    BY <2>1 DEF Inv, RowsOK, Honest, SourceRows
  <2>3. SessionOK(held, own) /\ own' = own /\ held' = [d \in Held |-> db[d].hash]
    BY DEF Inv, JobOK
  <2>. QED
    BY <2>1, <2>2, <2>3 DEF SessionOK
<1>4. snap' \in [Sources -> 1..MaxVersion] /\ force' = FALSE
  BY DEF Inv, WorldOK, JobOK
<1>5. HeldIsCurrent'
  BY DEF HeldIsCurrent
<1>. QED
  BY <1>1, <1>2, <1>3, <1>4, <1>5 DEF Inv, JobOK, Plan

LEMMA PutRow ==
    ASSUME Inv, NEW s \in Sources, NEW row, Honest(s, row), db' = [db EXCEPT ![s] = row]
    PROVE  RowsOK'
<1>1. db' = [d \in Datasets |-> db'[d]]
  BY DEF Inv, RowsOK
<1>2. \A t \in Sources : db'[t] = IF t = s THEN row ELSE db[t]
  BY FinancialsIn DEF Inv, RowsOK
<1>3. \A t \in Sources : Honest(t, db'[t])
  BY <1>2 DEF Inv, RowsOK
<1>. QED
  BY <1>1, <1>3 DEF RowsOK, Honest, Shown, PartialHash

\* The statements that are kept or stored.
LEMMA StatementsHonest ==
    ASSUME Inv, At("statements"), NEW missed \in BOOLEAN, NEW row \in StatementRows(missed)
    PROVE  /\ Honest("financials", row)
           /\ row.val = IF can_reuse_financials THEN db["financials"].val ELSE snap["financials"]
<1>. DEFINE v == snap["financials"]
            h == SourceHash("financials", v, 0)
<1>1. v \in 1..MaxVersion /\ v \in 0..MaxVersion
  BY FinancialsIn, DatasetAssumption DEF Inv, JobOK
<1>2. h \in SourceHashes /\ VersionOf(h) = v /\ h # NoHash
  BY <1>1, HashTyped, Numbers DEF SourceHash, NoHash, HashedByPayload
<1>3. Honest("financials", db["financials"])
  BY FinancialsIn DEF Inv, RowsOK
<1>4. db["financials"].gaps \in SUBSET Sources
  BY <1>3 DEF Honest, SourceRows
<1>5. \A r : Shown("financials", r)
  BY DEF Shown, HashedByPayload
<1>6. CASE can_reuse_financials
  <2>1. row = [db["financials"] EXCEPT !.hash = h, !.fresh = TRUE]
    BY <1>6 DEF StatementRows
  <2>2. held["financials"] = h /\ held["financials"] = db["financials"].hash
    BY <1>6 DEF can_reuse_financials, Inv, HeldIsCurrent
  <2>. HIDE DEF h
  <2>3. db["financials"] \in SourceRows
    BY <1>3 DEF Honest
  <2>4. row = [db["financials"] EXCEPT !.fresh = TRUE] /\ row.val = db["financials"].val
    BY <2>1, <2>2, <2>3 DEF SourceRows
  <2>. QED
    BY <1>3, <1>6, <2>4, MarkedHonest
<1>7. CASE ~can_reuse_financials
  <2>1. PICK g \in StatementGaps(missed) :
               row = [val |-> v, hash |-> h, fresh |-> TRUE, gaps |-> g]
    BY <1>7 DEF StatementRows
  <2>2. g \in SUBSET Sources
    BY <1>4, FinancialsIn DEF StatementGaps
  <2>. HIDE DEF h
  <2>3. row \in SourceRows /\ VersionOf(row.hash) \in Nat /\ VersionOf(row.hash) <= row.val
        /\ VersionOf(row.hash) = row.val /\ row.val = v
    BY <1>1, <1>2, <2>1, <2>2 DEF SourceRows
  <2>. QED
    BY <1>5, <1>7, <2>3 DEF Honest
<1>. QED
  BY <1>6, <1>7

LEMMA RefreshStatementsInv ==
    ASSUME Inv, RefreshStatements PROVE Inv'
<1>1. At("statements") /\ known' = TRUE
      /\ Continue(held, own) /\ UNCHANGED <<up, others, reported>>
  BY DEF RefreshStatements
<1>2. PICK missed \in BOOLEAN :
         /\ IF missed THEN ~can_reuse_financials /\ Fault ELSE UNCHANGED faults
         /\ \E row \in StatementRows(missed) : db' = [db EXCEPT !["financials"] = row]
  BY DEF RefreshStatements
<1>3. PICK row \in StatementRows(missed) : db' = [db EXCEPT !["financials"] = row]
  BY <1>2
<1>4. RowsOK'
  BY <1>1, <1>3, FinancialsIn, StatementsHonest, PutRow
<1>5. JobOK' /\ HeldIsCurrent'
  BY <1>1, ContinueOK DEF At, Inv, JobOK
<1>6. faults' \in 0..MaxFaults
  BY <1>2, FaultTyped DEF Inv, WorldOK
<1>7. WorldOK'
  BY <1>1, <1>6 DEF Inv, WorldOK
<1>. QED
  BY <1>4, <1>5, <1>7 DEF Inv

LEMMA RunDatasetJobInv ==
    ASSUME Inv, RunDatasetJob PROVE Inv'
<1>1. Now \in Sources
  BY NowTyped DEF RunDatasetJob, At
<1>2. PICK v \in Versions(Now), missed \in BOOLEAN :
         /\ MayMiss(Now, v, missed)
         /\ \E row \in FetchedRows(Now, v, missed) : db' = [db EXCEPT ![Now] = row]
  BY DEF RunDatasetJob
<1>3. PICK row \in FetchedRows(Now, v, missed) : db' = [db EXCEPT ![Now] = row]
  BY <1>2
<1>4. faults' \in 0..MaxFaults /\ Honest(Now, row)
  BY <1>1, <1>2, MissTyped, VersionsTyped, FetchedHonest
<1>5. RowsOK'
  BY <1>1, <1>3, <1>4, PutRow
<1>6. JobOK' /\ HeldIsCurrent'
  BY ContinueOK DEF RunDatasetJob, At, Inv, JobOK
<1>7. WorldOK'
  BY <1>4 DEF RunDatasetJob, Inv, WorldOK
<1>. QED
  BY <1>5, <1>6, <1>7 DEF Inv

LEMMA FetchOneInv ==
    ASSUME Inv, FetchOne PROVE Inv'
<1>1. Now \in Sources
  BY NowTyped DEF FetchOne, At
<1>2. PICK missed \in BOOLEAN :
         /\ MayMiss(Now, up[Now], missed)
         /\ \E row \in FetchedRows(Now, up[Now], missed) : Continue(held, [d \in {Now} |-> row])
  BY DEF FetchOne
<1>3. PICK row \in FetchedRows(Now, up[Now], missed) : Continue(held, [d \in {Now} |-> row])
  BY <1>2
<1>4. faults' \in 0..MaxFaults /\ Honest(Now, row)
  BY <1>1, <1>2, MissTyped, FetchedHonest DEF Inv, WorldOK
<1>5. SessionOK(held, [d \in {Now} |-> row])
  BY <1>1, <1>4, FinancialsIn DEF SessionOK, Inv, JobOK
<1>6. JobOK' /\ HeldIsCurrent'
  BY <1>3, <1>5, ContinueOK DEF FetchOne, At
<1>7. RowsOK'
  BY CommittedOK DEF FetchOne
<1>8. WorldOK'
  BY <1>4 DEF FetchOne, Inv, WorldOK
<1>. QED
  BY <1>6, <1>7, <1>8 DEF Inv

LEMMA FetchMarketInv ==
    ASSUME Inv, FetchMarket PROVE Inv'
<1>1. Now \in Sources
  BY NowTyped DEF FetchMarket, At
<1>2. PICK row \in FetchedRows(Now, up[Now], FALSE) : Continue(held, Put(Now, row))
  BY DEF FetchMarket
<1>3. Honest(Now, row)
  BY <1>1, FetchedHonest DEF Inv, WorldOK
<1>4. SessionOK(held, Put(Now, row))
  BY <1>1, <1>3, FinancialsIn DEF SessionOK, Inv, JobOK, Put
<1>5. JobOK' /\ HeldIsCurrent'
  BY <1>2, <1>4, ContinueOK DEF FetchMarket, At
<1>6. RowsOK' /\ WorldOK'
  BY SameRows, SameWorld DEF FetchMarket
<1>. QED
  BY <1>5, <1>6 DEF Inv

LEMMA RefreshDerivedInv ==
    ASSUME Inv, RefreshDerived PROVE Inv'
<1>1. Now \in Derived /\ Now \in Datasets /\ Now \notin Sources
  <2>1. Head(todo) \in LaterSteps /\ Head(todo).op = "derive"
    BY AfterLater DEF RefreshDerived, At, Inv, JobOK
  <2>2. Now \in Derived
    BY <2>1 DEF LaterSteps, Now
  <2>. QED
    BY <2>2, DatasetAssumption DEF Datasets, SourceDatasets, DerivedDatasets
<1>2. SessionOK(held, own)
  BY DEF Inv, JobOK
<1>3. SessionOK(held, Put(Now, DerivedRow(Now)))
  BY <1>1, <1>2 DEF SessionOK, Put
<1>4. SessionOK(held, IF InputsUnchanged(Now) THEN own ELSE Put(Now, DerivedRow(Now)))
  BY <1>2, <1>3
<1>5. JobOK' /\ HeldIsCurrent'
  BY <1>4, ContinueOK DEF RefreshDerived, At
<1>6. RowsOK' /\ WorldOK'
  BY SameRows, SameWorld DEF RefreshDerived
<1>. QED
  BY <1>5, <1>6 DEF Inv

LEMMA CommitSessionInv ==
    ASSUME Inv, CommitSession PROVE Inv'
<1>1. SessionOK(held, <<>>)
  BY EmptyDomain DEF SessionOK, Inv, JobOK
<1>2. JobOK' /\ HeldIsCurrent'
  BY <1>1, ContinueOK DEF CommitSession, At
<1>3. RowsOK' /\ WorldOK'
  BY CommittedOK, SameWorld DEF CommitSession
<1>. QED
  BY <1>2, <1>3 DEF Inv

LEMMA CompleteJobInv ==
    ASSUME Inv, CompleteJob PROVE Inv'
<1>1. JobOK' /\ HeldIsCurrent'
  BY ContinueOK DEF CompleteJob, At, Inv, JobOK
<1>2. RowsOK'
  BY SameRows DEF CompleteJob
<1>3. WorldOK'
  BY ReportTyped DEF CompleteJob, Inv, WorldOK
<1>. QED
  BY <1>1, <1>2, <1>3 DEF Inv

\* A failed dataset is rolled back and the job goes on without its session.
LEMMA RollbackInv ==
    ASSUME Inv, DatasetJobFails \/ MarketFails PROVE Inv'
<1>1. /\ At("job") \/ At("market")
      /\ Fault /\ Continue(<<>>, <<>>) /\ UNCHANGED <<up, db, others, known, reported>>
  BY DEF DatasetJobFails, MarketFails
<1>2. JobOK' /\ HeldIsCurrent'
  BY <1>1, ContinueOK, EmptySession DEF At
<1>3. RowsOK'
  BY <1>1, SameRows
<1>4. WorldOK'
  BY <1>1, FaultTyped DEF Inv, WorldOK
<1>. QED
  BY <1>2, <1>3, <1>4 DEF Inv

LEMMA FailureInv ==
    ASSUME Inv, Failure PROVE Inv'
<1>1. CASE OpenFails \/ StatementsFail \/ DeriveFails \/ CommitFails
  <2>1. FailJob /\ UNCHANGED <<up, db, others, known>>
    BY <1>1 DEF OpenFails, StatementsFail, DeriveFails, CommitFails
  <2>. QED
    BY <2>1, FailJobOK, SameRows DEF Inv
<1>2. CASE DatasetJobFails \/ MarketFails
  BY <1>2, RollbackInv
<1>3. CASE FetchOneFails
  BY <1>3, FailJobOK, CommittedOK DEF FetchOneFails, Inv
<1>4. CASE Crash
  <2>1. JobOK' /\ HeldIsCurrent'
    BY <1>4, IdleOK DEF Crash
  <2>2. WorldOK'
    BY <1>4, FaultTyped, ReportTyped DEF Crash, Inv, WorldOK
  <2>3. RowsOK'
    BY <1>4, SameRows DEF Crash
  <2>. QED
    BY <2>1, <2>2, <2>3 DEF Inv
<1>. QED
  BY <1>1, <1>2, <1>3, <1>4 DEF Failure

LEMMA PublishInv ==
    ASSUME Inv, NEW s \in Sources, Publish(s) PROVE Inv'
<1>1. up' \in [Sources -> 1..MaxVersion]
  BY DatasetAssumption DEF Publish, Inv, WorldOK
<1>2. WorldOK' /\ RowsOK' /\ JobOK' /\ HeldIsCurrent'
  BY <1>1 DEF Publish, Inv, WorldOK, RowsOK, JobOK, HeldIsCurrent, At
<1>. QED
  BY <1>2 DEF Inv

LEMMA AgeInv ==
    ASSUME Inv, NEW s \in Sources, Age(s) PROVE Inv'
<1>. DEFINE row == [db[s] EXCEPT !.fresh = FALSE]
<1>1. db' = [db EXCEPT ![s] = row] /\ todo = <<>>
      /\ UNCHANGED <<up, others, known, todo, force, snap, held, own, reported, faults>>
  BY DEF Age
<1>2. Honest(s, row)
  BY MarkedHonest DEF Inv, RowsOK
<1>. HIDE DEF row
<1>3. RowsOK'
  BY <1>1, <1>2, PutRow
<1>4. WorldOK' /\ JobOK' /\ HeldIsCurrent'
  BY <1>1 DEF Inv, WorldOK, JobOK, HeldIsCurrent, At
<1>. QED
  BY <1>3, <1>4 DEF Inv

LEMMA OthersInv ==
    ASSUME Inv, OthersChange PROVE Inv'
<1>1. others' \in 0..MaxOthers
  BY DatasetAssumption DEF OthersChange, Inv, WorldOK
<1>2. WorldOK' /\ RowsOK' /\ JobOK' /\ HeldIsCurrent'
  BY <1>1 DEF OthersChange, Inv, WorldOK, RowsOK, JobOK, HeldIsCurrent, At
<1>. QED
  BY <1>2 DEF Inv

LEMMA NextInv == Inv /\ [Next]_vars => Inv'
<1>. SUFFICES ASSUME Inv, [Next]_vars PROVE Inv'
  OBVIOUS
<1>1. CASE StartJob(FALSE)
  BY <1>1, StartJobInv
<1>2. CASE Work
  BY <1>2, OpenSessionInv, RefreshStatementsInv, RunDatasetJobInv, FetchOneInv, FetchMarketInv,
     RefreshDerivedInv, CommitSessionInv, CompleteJobInv DEF Work
<1>3. CASE Failure
  BY <1>3, FailureInv
<1>4. CASE \E s \in Sources : Publish(s) \/ Age(s)
  BY <1>4, PublishInv, AgeInv
<1>5. CASE OthersChange
  BY <1>5, OthersInv
<1>6. CASE UNCHANGED vars
  BY <1>6 DEF vars, Inv, WorldOK, RowsOK, JobOK, HeldIsCurrent, At
<1>. QED
  BY <1>1, <1>2, <1>3, <1>4, <1>5, <1>6 DEF Next

LEMMA InvImplies == Inv => TypeOK /\ RowsMatchHash
<1>. SUFFICES ASSUME Inv PROVE TypeOK /\ RowsMatchHash
  OBVIOUS
<1>1. \A s \in Sources : Honest(s, View(s)) /\ Honest(s, db[s])
  BY ViewHonest DEF Inv, RowsOK
<1>2. RowsMatchHash
  BY <1>1 DEF RowsMatchHash, Honest, Shown
<1>3. DOMAIN db = Datasets
  BY DEF Inv, RowsOK
<1>4. todo \in Seq(Steps) /\ force \in BOOLEAN
  BY PlanTyped DEF Inv, JobOK
<1>5. TypeOK
  BY <1>1, <1>3, <1>4 DEF TypeOK, Inv, WorldOK, JobOK, SessionOK, Honest
<1>. QED
  BY <1>2, <1>5

\* The variables of DatasetRefresh keep their types, for every choice of
\* datasets, settings and bounds.
THEOREM DatasetTypeCorrect == Spec => []TypeOK
<1>1. Spec => []Inv
  BY InitInv, NextInv, PTL DEF Spec
<1>. QED
  BY <1>1, InvImplies, PTL

\* The payload hash of a fetched dataset names the version of its stored rows
\* after every commit, rollback, failed fetch, swallowed error and crash, and a
\* hash of fetched rows tells whether something is missing in them.  Unchanged
\* statements may be kept because the hash they are compared with is still the
\* committed one (HeldIsCurrent), and a rolled back fetch takes its hash with
\* its rows.  It does not say that the rows are complete (gaps).
THEOREM HashesMatchRows == Spec => []RowsMatchHash
<1>1. Spec => []Inv
  BY InitInv, NextInv, PTL DEF Spec
<1>. QED
  BY <1>1, InvImplies, PTL
=============================================================================
