------------------------ MODULE DatasetHonestyProofs ------------------------
(***************************************************************************)
(* Proof that the payload hash of a derived cache does not lie about the   *)
(* versions of the company's datasets: a cache that the next job takes for *)
(* unchanged was computed from those that are stored (HashIsHonest of      *)
(* DatasetRefresh), for every choice of datasets, settings, numbers of     *)
(* versions and failures, errors that a fetch swallows among them.         *)
(*                                                                         *)
(* The argument is by inequalities between versions.  Stored data never    *)
(* gets older; the hashes a job sees are never newer than the rows it      *)
(* reads; so hashes in a fingerprint <= data in the payload <= stored      *)
(* data.  When the stored hashes are those of the fingerprint, and each    *)
(* names the version of its rows (HashesMatchRows), the three are equal.   *)
(* The data no fingerprint covers (others) is outside the argument.        *)
(***************************************************************************)
EXTENDS DatasetRefreshProofs

-----------------------------------------------------------------------------
(* The shape of a plan: a job either works off the SEC plan or fetches at   *)
(* most a kind of dataset in a shortcut, and fetches prices once.           *)

SecKind == {st \in Steps : st.op \notin {"fetch", "market"}}
CachedKind == {st \in Steps : st.op \notin {"open", "statements", "job"}}
PricesStep == [op |-> "job", ds |-> "prices"]

Contains(q, st) == \E n \in 1..Len(q) : q[n] = st
PricesOnce(q) == \A m, n \in 1..Len(q) : q[m] = PricesStep /\ q[n] = PricesStep => m = n

\* A step of the SEC plan that writes source rows is still to come.
SecAhead(q) == \E n \in 1..Len(q) : q[n].op \in {"open", "statements", "job"}

Shape(q) == (q \in Seq(SecKind) \/ q \in Seq(CachedKind)) /\ PricesOnce(q)

-----------------------------------------------------------------------------
(* Versions.                                                               *)

Stored == [s \in Sources |-> db[s].val]
Seen == [s \in Sources |-> View(s).val]

\* Stored data is never newer than what the session sees, and that never newer
\* than what is published; in strict mode there are no prices.
Ordered ==
    /\ \A s \in Sources : Stored[s] <= Seen[s] /\ Seen[s] <= up[s]
    /\ Strict /\ "prices" \in Sources => Seen["prices"] = 0

\* The filing index is not newer than what is published and, when a SEC plan has
\* read it, not older than the rows the plan is about to replace.
SnapCovers ==
    /\ \A s \in Sources : snap[s] <= up[s]
    /\ todo # <<>> /\ Head(todo).op # "open" =>
          /\ SecAhead(todo) => \A s \in Sources \ {"prices", "institutional"} : Stored[s] <= snap[s]
          /\ Contains(todo, PricesStep) => Stored["prices"] <= snap["prices"]

\* The session writes source rows only in a shortcut, and nothing between jobs.
SessionSmall ==
    /\ SecAhead(todo) => DOMAIN own \cap Sources = {}
    /\ todo = <<>> => own = <<>> /\ held = <<>>

\* The state rows a session keeps are never newer than the stored data.
HeldIsOld == \A s \in DOMAIN held : VersionOf(held[s]) \in Nat /\ VersionOf(held[s]) <= Stored[s]

-----------------------------------------------------------------------------
(* Rows of derived caches.  f and g are what a fingerprint was made of.     *)

\* The fingerprint is not newer than the data V.
Below(d, f, V) ==
    \A s \in FingerprintOf(d) \cap Sources : VersionOf(f[s]) \in Nat /\ VersionOf(f[s]) <= V[s]

\* The payload lies between its fingerprint and the data V.
Between(d, val, f, V) ==
    /\ val = <<"computed", [i \in ReadBy(d) |-> val[2][i]]>>
    /\ \A s \in ReadBy(d) \cap Sources :
          /\ val[2][s] \in Nat /\ val[2][s] <= V[s]
          /\ s \in FingerprintOf(d) => VersionOf(f[s]) \in Nat /\ VersionOf(f[s]) <= val[2][s]

\* So does a payload that is covered through the fingerprint of another cache.
Through(d, i, val, g, V) ==
    /\ \A s \in ReadBy(d) \cap FingerprintOf(i) \cap Sources :
          VersionOf(g[s]) \in Nat /\ VersionOf(g[s]) <= val[2][s]
    /\ i \in ReadBy(d) => Between(i, val[2][i], g, V)

Covered(d, row, V) ==
    row.hash[1] = "inputs" =>
        LET f == row.hash[2] IN
        /\ Below(d, f, V) /\ Between(d, row.val, f, V)
        /\ \A i \in FingerprintOf(d) \cap Derived :
              f[i][1] = "inputs" => Through(d, i, row.val, f[i][2], V)

RowsCovered ==
    \A d \in Derived : /\ Covered(d, db[d], Stored)
                       /\ d \in DOMAIN own => Covered(d, own[d], Seen)

HonestInv ==
    /\ Shape(todo) /\ Ordered /\ SnapCovers /\ SessionSmall /\ HeldIsOld /\ RowsCovered

-----------------------------------------------------------------------------
(* The plan of a job has this shape, and keeps it.                         *)

\* A step on a dataset is in S when it would be for a modelled dataset.
LEMMA OnIn ==
    ASSUME NEW S, NEW op, NEW d, d \in Datasets => [op |-> op, ds |-> d] \in S
    PROVE  On(op, d) \in Seq(S)
  BY DEF On

\* The cache steps are in every set that has the steps on derived caches.
LEMMA CacheStepsIn ==
    ASSUME NEW S, \A d \in DerivedDatasets : On("derive", d) \in Seq(S)
    PROVE  /\ \A c \in BOOLEAN : Readiness(c) \in Seq(S)
           /\ \A c, g \in BOOLEAN : Dashboard(c, g) \in Seq(S)
           /\ AllCaches \in Seq(S)
<1>1. \A c \in BOOLEAN : Readiness(c) \in Seq(S)
  <2>. SUFFICES ASSUME NEW c \in BOOLEAN PROVE Readiness(c) \in Seq(S)
    OBVIOUS
  <2>1. (IF c THEN On("derive", "capital_structure") ELSE <<>>) \in Seq(S)
    BY EmptyPlan DEF DerivedDatasets
  <2>2. On("derive", "company_research_brief") \in Seq(S)
    BY DEF DerivedDatasets
  <2>. QED
    BY <2>1, <2>2, Concat DEF Readiness
<1>2. \A c, g \in BOOLEAN : Dashboard(c, g) \in Seq(S)
  <2>. SUFFICES ASSUME NEW c \in BOOLEAN, NEW g \in BOOLEAN PROVE Dashboard(c, g) \in Seq(S)
    OBVIOUS
  <2>1. (IF c THEN On("derive", "derived_metrics") ELSE <<>>) \in Seq(S)
    BY EmptyPlan DEF DerivedDatasets
  <2>2. (IF g THEN On("derive", "earnings_models") ELSE <<>>) \in Seq(S)
    BY EmptyPlan DEF DerivedDatasets
  <2>3. On("derive", "charts_dashboard") \in Seq(S)
    BY DEF DerivedDatasets
  <2>4. (IF c THEN On("derive", "derived_metrics") ELSE <<>>)
        \o (IF g THEN On("derive", "earnings_models") ELSE <<>>) \in Seq(S)
    BY <2>1, <2>2, Concat
  <2>. QED
    BY <2>3, <2>4, Concat DEF Dashboard
<1>. QED
  BY <1>1, <1>2, Concat DEF AllCaches

\* A shortcut branch has no step of the SEC plan.
LEMMA CachedShape ==
    ASSUME NEW b \in Branches, b # "sec"
    PROVE  CachedSteps(b) \in Seq(CachedKind)
<1>0. \A d \in DerivedDatasets : On("derive", d) \in Seq(CachedKind)
  BY OnIn DEF CachedKind, Steps, Ops
<1>1. Do("commit") \in Seq(CachedKind) /\ Do("complete") \in Seq(CachedKind)
  <2>1. \A op \in {"commit", "complete"} : [op |-> op, ds |-> "none"] \in CachedKind
    BY DEF CachedKind, Steps, Ops
  <2>. QED
    BY <2>1 DEF Do
<1>2. Readiness(FALSE) \in Seq(CachedKind) /\ AllCaches \in Seq(CachedKind)
      /\ \A g \in BOOLEAN : Dashboard(FALSE, g) \in Seq(CachedKind)
  BY <1>0, CacheStepsIn
<1>3. ASSUME NEW op \in {"fetch", "market"}, NEW d PROVE On(op, d) \in Seq(CachedKind)
  <2>1. d \in Datasets => [op |-> op, ds |-> d] \in CachedKind
    BY DEF CachedKind, Steps, Ops
  <2>. QED
    BY <2>1, OnIn
<1>4. CASE b = "skip"
  <2>1. CachedSteps(b) = AllCaches \o Do("complete") \o Do("commit")
    BY <1>4 DEF CachedSteps
  <2>. QED
    BY <1>1, <1>2, <2>1, Concat
<1>5. CASE b = "insiders"
  <2>1. CachedSteps(b) = On("fetch", "insiders") \o On("fetch", "form144") \o Readiness(FALSE)
                         \o Dashboard(FALSE, FALSE) \o Do("commit") \o Do("complete")
    BY <1>5 DEF CachedSteps
  <2>2. On("fetch", "insiders") \in Seq(CachedKind) /\ On("fetch", "form144") \in Seq(CachedKind)
    BY <1>3
  <2>3. On("fetch", "insiders") \o On("fetch", "form144") \o Readiness(FALSE)
        \o Dashboard(FALSE, FALSE) \o Do("commit") \in Seq(CachedKind)
    BY <1>1, <1>2, <2>2, ConcatFive
  <2>. QED
    BY <1>1, <2>1, <2>3, Concat
<1>6. CASE b = "prices"
  <2>1. CachedSteps(b) = On("market", "prices") \o AllCaches \o Do("commit") \o Do("complete")
    BY <1>6 DEF CachedSteps
  <2>2. On("market", "prices") \in Seq(CachedKind)
    BY <1>3
  <2>. QED
    BY <1>1, <1>2, <2>1, <2>2, Concat
<1>7. CASE b \notin {"skip", "insiders", "prices"}
  <2>. DEFINE D == Dashboard(FALSE, b = "earnings")
  <2>1. CachedSteps(b) = On("fetch", b) \o Readiness(FALSE) \o D \o Do("commit") \o Do("complete")
    BY <1>7 DEF CachedSteps
  <2>2. On("fetch", b) \in Seq(CachedKind)
    BY <1>3
  <2>3. D \in Seq(CachedKind)
    BY <1>2
  <2>. HIDE DEF D
  <2>4. On("fetch", b) \o Readiness(FALSE) \o D \o Do("commit") \o Do("complete")
        \in Seq(CachedKind)
    BY <1>1, <1>2, <2>2, <2>3, ConcatFive
  <2>. QED
    BY <2>1, <2>4
<1>. QED
  BY <1>4, <1>5, <1>6, <1>7

\* The steps of the SEC plan other than the fetch of prices.
OtherKind == SecKind \ {PricesStep}

LEMMA OtherSeq == Seq(OtherKind) \subseteq Seq(SecKind)
<1>1. OtherKind \subseteq SecKind
  BY DEF OtherKind
<1>. QED
  BY <1>1

LEMMA OncePrices ==
    ASSUME NEW q \in Seq(OtherKind), NEW j, j = <<>> \/ j = <<PricesStep>>, PricesStep \in SecKind
    PROVE  q \o j \in Seq(SecKind) /\ PricesOnce(q \o j)
<1>1. q \in Seq(SecKind) /\ j \in Seq(SecKind)
  <2>1. <<PricesStep>> \in Seq(SecKind) /\ <<>> \in Seq(SecKind)
    BY EmptyPlan
  <2>. QED
    BY <2>1, OtherSeq
<1>2. \A n \in 1..Len(q) : q[n] # PricesStep
  BY DEF OtherKind
<1>3. q \o j \in Seq(SecKind)
  BY <1>1, Concat
<1>4. ASSUME NEW n \in 1..Len(q \o j), (q \o j)[n] = PricesStep
      PROVE  n = Len(q) + 1
  BY <1>1, <1>2, <1>4
<1>. QED
  BY <1>3, <1>4 DEF PricesOnce

LEMMA OnceExtends ==
    ASSUME NEW q \in Seq(SecKind), PricesOnce(q), NEW t \in Seq(OtherKind)
    PROVE  q \o t \in Seq(SecKind) /\ PricesOnce(q \o t)
<1>1. t \in Seq(SecKind)
  BY DEF OtherKind
<1>2. \A n \in 1..Len(t) : t[n] # PricesStep
  BY DEF OtherKind
<1>3. ASSUME NEW n \in 1..Len(q \o t), (q \o t)[n] = PricesStep
      PROVE  n \in 1..Len(q) /\ q[n] = PricesStep
  BY <1>1, <1>2, <1>3
<1>. QED
  BY <1>1, <1>3, Concat DEF PricesOnce

LEMMA SecShape ==
    ASSUME NEW ds
    PROVE  SecSteps(ds, FALSE) \in Seq(SecKind) /\ PricesOnce(SecSteps(ds, FALSE))
<1>. DEFINE Job(d) == IF d \in ds THEN On("job", d) ELSE <<>>
            None == IF FALSE THEN On("wipe", "earnings") ELSE <<>>
            S0 == Do("open") \o On("statements", "financials")
            S1 == S0 \o Job("insiders") \o Job("form144") \o Job("institutional")
            S2 == S1 \o Job("beneficial_ownership") \o None \o Job("earnings")
            S3 == S2 \o Job("filings") \o Job("capital_markets") \o Job("comment_letters")
            S4 == S3 \o Job("prices")
            S5 == S4 \o AllCaches \o Do("commit")
<1>1. \A d \in SourceDatasets \ {"prices"} : Job(d) \in Seq(OtherKind)
  <2>. SUFFICES ASSUME NEW d \in SourceDatasets \ {"prices"} PROVE Job(d) \in Seq(OtherKind)
    OBVIOUS
  <2>1. d \in Datasets => [op |-> "job", ds |-> d] \in OtherKind
    BY DEF OtherKind, SecKind, PricesStep, Steps, Ops
  <2>. QED
    BY <2>1, OnIn, EmptyPlan
<1>2. /\ Job("insiders") \in Seq(OtherKind) /\ Job("form144") \in Seq(OtherKind)
      /\ Job("institutional") \in Seq(OtherKind) /\ Job("beneficial_ownership") \in Seq(OtherKind)
      /\ Job("earnings") \in Seq(OtherKind) /\ Job("filings") \in Seq(OtherKind)
      /\ Job("capital_markets") \in Seq(OtherKind) /\ Job("comment_letters") \in Seq(OtherKind)
  BY <1>1 DEF SourceDatasets
<1>3. /\ Do("open") \in Seq(OtherKind) /\ Do("commit") \in Seq(OtherKind)
      /\ Do("complete") \in Seq(OtherKind)
  <2>1. \A op \in {"open", "commit", "complete"} : [op |-> op, ds |-> "none"] \in OtherKind
    BY DEF OtherKind, SecKind, PricesStep, Steps, Ops
  <2>. QED
    BY <2>1 DEF Do
<1>4. None \in Seq(OtherKind) /\ On("statements", "financials") \in Seq(OtherKind)
  <2>1. "financials" \in Datasets => [op |-> "statements", ds |-> "financials"] \in OtherKind
    BY DEF OtherKind, SecKind, PricesStep, Steps, Ops
  <2>. QED
    BY <2>1, OnIn, EmptyPlan
<1>5. AllCaches \in Seq(OtherKind)
  <2>1. \A d \in DerivedDatasets : On("derive", d) \in Seq(OtherKind)
    <3>. SUFFICES ASSUME NEW d PROVE On("derive", d) \in Seq(OtherKind)
      OBVIOUS
    <3>1. d \in Datasets => [op |-> "derive", ds |-> d] \in OtherKind
      BY DEF OtherKind, SecKind, PricesStep, Steps, Ops
    <3>. QED
      BY <3>1, OnIn
  <2>. QED
    BY <2>1, CacheStepsIn
<1>6. (Job("prices") = <<>> \/ Job("prices") = <<PricesStep>>)
      /\ (Job("prices") # <<>> => PricesStep \in SecKind)
  BY DEF On, PricesStep, SecKind, Steps, Ops
<1>. HIDE DEF Job, None
<1>7. S0 \in Seq(OtherKind)
  BY <1>3, <1>4, Concat
<1>. HIDE DEF S0
<1>8. S1 \in Seq(OtherKind)
  <2>1. S0 \o Job("insiders") \in Seq(OtherKind)
    BY <1>2, <1>7, Concat
  <2>2. S0 \o Job("insiders") \o Job("form144") \in Seq(OtherKind)
    BY <1>2, <2>1, Concat
  <2>. QED
    BY <1>2, <2>2, Concat
<1>. HIDE DEF S1
<1>9. S2 \in Seq(OtherKind)
  <2>1. S1 \o Job("beneficial_ownership") \in Seq(OtherKind)
    BY <1>2, <1>8, Concat
  <2>2. S1 \o Job("beneficial_ownership") \o None \in Seq(OtherKind)
    BY <1>4, <2>1, Concat
  <2>. QED
    BY <1>2, <2>2, Concat
<1>. HIDE DEF S2
<1>10. S3 \in Seq(OtherKind)
  <2>1. S2 \o Job("filings") \in Seq(OtherKind)
    BY <1>2, <1>9, Concat
  <2>2. S2 \o Job("filings") \o Job("capital_markets") \in Seq(OtherKind)
    BY <1>2, <2>1, Concat
  <2>. QED
    BY <1>2, <2>2, Concat
<1>. HIDE DEF S3
<1>11. S4 \in Seq(SecKind) /\ PricesOnce(S4)
  <2>1. CASE Job("prices") = <<>>
    <3>1. S4 = S3
      BY <1>10, <2>1
    <3>2. \A n \in 1..Len(S3) : S3[n] # PricesStep
      BY <1>10 DEF OtherKind
    <3>3. S3 \in Seq(SecKind)
      BY <1>10 DEF OtherKind
    <3>. QED
      BY <3>1, <3>2, <3>3 DEF PricesOnce
  <2>2. CASE Job("prices") # <<>>
    BY <1>6, <1>10, <2>2, OncePrices
  <2>. QED
    BY <2>1, <2>2
<1>. HIDE DEF S4
<1>12. S5 \in Seq(SecKind) /\ PricesOnce(S5)
  <2>1. S4 \o AllCaches \in Seq(SecKind) /\ PricesOnce(S4 \o AllCaches)
    BY <1>5, <1>11, OnceExtends
  <2>. QED
    BY <1>3, <2>1, OnceExtends
<1>13. SecSteps(ds, FALSE) = S5 \o Do("complete")
  BY DEF SecSteps, S0, S1, S2, S3, S4, S5, Job, None
<1>. HIDE DEF S5
<1>. QED
  BY <1>3, <1>12, <1>13, OnceExtends

\* A shortcut has no step that writes rows of an old filing index.
LEMMA CachedQuiet ==
    ASSUME NEW q \in Seq(CachedKind)
    PROVE  ~SecAhead(q) /\ ~Contains(q, PricesStep) /\ PricesOnce(q)
<1>1. \A n \in 1..Len(q) : q[n].op \notin {"open", "statements", "job"}
  BY DEF CachedKind
<1>2. \A n \in 1..Len(q) : q[n] # PricesStep
  BY <1>1 DEF PricesStep
<1>. QED
  BY <1>1, <1>2 DEF SecAhead, Contains, PricesOnce

LEMMA EmptyShape == Shape(<<>>) /\ ~SecAhead(<<>>) /\ ~Contains(<<>>, PricesStep)
<1>1. <<>> \in Seq(CachedKind)
  BY EmptyPlan
<1>. QED
  BY <1>1, CachedQuiet DEF Shape

\* What is left of a plan: prices are not fetched again, and what is still to
\* come was to come before.
LEMMA ShapeTail ==
    ASSUME NEW q, Shape(q), q # <<>>
    PROVE  /\ Shape(Tail(q))
           /\ SecAhead(Tail(q)) => SecAhead(q) /\ Head(q).op \notin {"fetch", "market"}
           /\ Contains(Tail(q), PricesStep) => Contains(q, PricesStep) /\ Head(q) # PricesStep
<1>1. PICK S \in {SecKind, CachedKind} : q \in Seq(S)
  BY DEF Shape
<1>2. /\ Tail(q) \in Seq(S) /\ Len(Tail(q)) = Len(q) - 1 /\ Len(q) \in Nat \ {0}
      /\ \A n \in 1..Len(Tail(q)) : Tail(q)[n] = q[n + 1] /\ n + 1 \in 1..Len(q)
  BY <1>1
<1>3. Head(q) = q[1] /\ 1 \in 1..Len(q) /\ Head(q) \in S
  BY <1>1, <1>2
<1>4. PricesOnce(Tail(q))
  <2>1. ASSUME NEW m \in 1..Len(Tail(q)), NEW n \in 1..Len(Tail(q)),
               Tail(q)[m] = PricesStep, Tail(q)[n] = PricesStep
        PROVE  m = n
    <3>1. q[m + 1] = PricesStep /\ q[n + 1] = PricesStep
          /\ m + 1 \in 1..Len(q) /\ n + 1 \in 1..Len(q)
      BY <1>2, <2>1
    <3>2. m + 1 = n + 1
      BY <3>1 DEF Shape, PricesOnce
    <3>. QED
      BY <3>2
  <2>. QED
    BY <2>1 DEF PricesOnce
<1>5. SecAhead(Tail(q)) => SecAhead(q)
  BY <1>2 DEF SecAhead
<1>6. ASSUME SecAhead(q) PROVE Head(q).op \notin {"fetch", "market"}
  <2>1. q \in Seq(SecKind)
    BY <1>6, CachedQuiet DEF Shape
  <2>2. Head(q) \in SecKind
    BY <1>3, <2>1
  <2>. QED
    BY <2>2 DEF SecKind
<1>7. ASSUME Contains(Tail(q), PricesStep)
      PROVE  Contains(q, PricesStep) /\ Head(q) # PricesStep
  <2>1. PICK n \in 1..Len(Tail(q)) : Tail(q)[n] = PricesStep
    BY <1>7 DEF Contains
  <2>2. n + 1 \in 1..Len(q) /\ q[n + 1] = PricesStep /\ n + 1 # 1
    BY <1>2, <2>1
  <2>. QED
    BY <1>3, <2>2 DEF Contains, Shape, PricesOnce
<1>. QED
  BY <1>1, <1>2, <1>4, <1>5, <1>6, <1>7 DEF Shape

-----------------------------------------------------------------------------
(* Versions are numbers, and a covered row stays covered by newer data.     *)

LEMMA Nats ==
    ASSUME Inv
    PROVE  /\ Stored \in [Sources -> Nat] /\ Seen \in [Sources -> Nat]
           /\ up \in [Sources -> Nat] /\ snap \in [Sources -> Nat]
           /\ \A s \in Sources : 1 <= up[s]
<1>1. \A s \in Sources : db[s].val \in Nat /\ View(s).val \in Nat
  BY ViewHonest, DatasetAssumption DEF Inv, RowsOK, Honest, SourceRows
<1>2. Stored \in [Sources -> Nat] /\ Seen \in [Sources -> Nat]
  BY <1>1 DEF Stored, Seen
<1>3. up \in [Sources -> 1..MaxVersion] /\ snap \in [Sources -> 1..MaxVersion]
  BY DEF Inv, WorldOK, JobOK
<1>4. 1..MaxVersion \subseteq Nat /\ \A n \in 1..MaxVersion : 1 <= n
  BY DatasetAssumption
<1>. QED
  BY <1>2, <1>3, <1>4

LEMMA NatsNext ==
    ASSUME Inv'
    PROVE  /\ Stored' \in [Sources -> Nat] /\ Seen' \in [Sources -> Nat]
           /\ up' \in [Sources -> Nat] /\ snap' \in [Sources -> Nat]
           /\ \A s \in Sources : 1 <= up'[s]
<1>1. \A s \in Sources : Honest(s, View(s))'
  BY DEF Inv, RowsOK, JobOK, SessionOK, View
<1>2. \A s \in Sources : (db[s].val)' \in Nat /\ (View(s).val)' \in Nat
  BY <1>1, DatasetAssumption DEF Inv, RowsOK, Honest, SourceRows
<1>3. Stored' \in [Sources -> Nat] /\ Seen' \in [Sources -> Nat]
  BY <1>2 DEF Stored, Seen
<1>4. up' \in [Sources -> 1..MaxVersion] /\ snap' \in [Sources -> 1..MaxVersion]
  BY DEF Inv, WorldOK, JobOK
<1>5. 1..MaxVersion \subseteq Nat /\ \A n \in 1..MaxVersion : 1 <= n
  BY DatasetAssumption
<1>. QED
  BY <1>3, <1>4, <1>5

LEMMA BetweenMono ==
    ASSUME NEW d, NEW val, NEW f, NEW V \in [Sources -> Nat], NEW W \in [Sources -> Nat],
           \A s \in Sources : V[s] <= W[s], Between(d, val, f, V)
    PROVE  Between(d, val, f, W)
<1>1. ASSUME NEW s \in ReadBy(d) \cap Sources PROVE val[2][s] <= W[s]
  BY <1>1 DEF Between
<1>. QED
  BY <1>1 DEF Between

LEMMA BelowMono ==
    ASSUME NEW d, NEW f, NEW V \in [Sources -> Nat], NEW W \in [Sources -> Nat],
           \A s \in Sources : V[s] <= W[s], Below(d, f, V)
    PROVE  Below(d, f, W)
<1>1. ASSUME NEW s \in FingerprintOf(d) \cap Sources PROVE VersionOf(f[s]) <= W[s]
  BY <1>1 DEF Below
<1>. QED
  BY <1>1 DEF Below

LEMMA CoveredMono ==
    ASSUME NEW d, NEW row, NEW V \in [Sources -> Nat], NEW W \in [Sources -> Nat],
           \A s \in Sources : V[s] <= W[s], Covered(d, row, V)
    PROVE  Covered(d, row, W)
<1>. SUFFICES ASSUME row.hash[1] = "inputs" PROVE Covered(d, row, W)
  BY DEF Covered
<1>. DEFINE f == row.hash[2]
<1>1. Below(d, f, V) /\ Between(d, row.val, f, V)
      /\ \A i \in FingerprintOf(d) \cap Derived :
            f[i][1] = "inputs" => Through(d, i, row.val, f[i][2], V)
  BY DEF Covered
<1>2. Below(d, f, W) /\ Between(d, row.val, f, W)
  BY <1>1, BelowMono, BetweenMono
<1>3. ASSUME NEW i \in FingerprintOf(d) \cap Derived, f[i][1] = "inputs"
      PROVE  Through(d, i, row.val, f[i][2], W)
  <2>1. Through(d, i, row.val, f[i][2], V)
    BY <1>1, <1>3
  <2>2. i \in ReadBy(d) => Between(i, row.val[2][i], f[i][2], W)
    BY <2>1, BetweenMono DEF Through
  <2>. QED
    BY <2>1, <2>2 DEF Through
<1>. QED
  BY <1>2, <1>3 DEF Covered

LEMMA ViewCovered ==
    ASSUME Inv, HonestInv, NEW d \in Derived
    PROVE  Covered(d, View(d), Seen)
<1>1. CASE d \in DOMAIN own
  BY <1>1 DEF HonestInv, RowsCovered, View
<1>2. CASE d \notin DOMAIN own
  <2>1. View(d) = db[d] /\ Covered(d, db[d], Stored)
    BY <1>2 DEF HonestInv, RowsCovered, View
  <2>. QED
    BY <2>1, Nats, CoveredMono DEF HonestInv, Ordered
<1>. QED
  BY <1>1, <1>2

-----------------------------------------------------------------------------
(* What a step does to the database, and to the session.                   *)

DbFine ==
    /\ \A s \in Sources : Stored[s] <= up[s]
    /\ Strict /\ "prices" \in Sources => Stored["prices"] = 0
    /\ \A d \in Derived : Covered(d, db[d], Stored)

LEMMA HonestDb == ASSUME Inv, HonestInv PROVE DbFine
<1>1. \A s \in Sources : Stored[s] <= up[s]
  BY Nats DEF HonestInv, Ordered
<1>2. Strict /\ "prices" \in Sources => Stored["prices"] = 0
  <2>. SUFFICES ASSUME Strict, "prices" \in Sources PROVE Stored["prices"] = 0
    OBVIOUS
  <2>1. Stored["prices"] <= 0 /\ Stored["prices"] \in Nat
    BY Nats DEF HonestInv, Ordered
  <2>. QED
    BY <2>1
<1>. QED
  BY <1>1, <1>2 DEF DbFine, HonestInv, RowsCovered

\* An empty session sees the database.
LEMMA CleanView ==
    ASSUME Inv', DbFine', own' = <<>>
    PROVE  Seen' = Stored' /\ Ordered' /\ RowsCovered'
<1>1. Seen' = Stored'
  BY EmptyDomain DEF Seen, Stored, View
<1>2. \A s \in Sources : Stored'[s] <= Seen'[s]
  BY <1>1, NatsNext
<1>3. Ordered'
  BY <1>1, <1>2 DEF Ordered, DbFine
<1>4. RowsCovered'
  BY EmptyDomain DEF DbFine, RowsCovered
<1>. QED
  BY <1>1, <1>3, <1>4

\* The end of a job, also of a failed one.
LEMMA IdleHonest ==
    ASSUME Inv', DbFine', Idle
    PROVE  HonestInv'
<1>1. todo' = <<>> /\ own' = <<>> /\ held' = <<>> /\ snap' = [s \in Sources |-> 1]
  BY DEF Idle
<1>2. Ordered' /\ RowsCovered'
  BY <1>1, CleanView
<1>3. \A s \in Sources : snap'[s] <= up'[s]
  BY <1>1, NatsNext
<1>4. Shape(todo') /\ SnapCovers' /\ SessionSmall' /\ HeldIsOld'
  BY <1>1, <1>3, EmptyShape, EmptyDomain DEF SnapCovers, SessionSmall, HeldIsOld
<1>. QED
  BY <1>2, <1>4 DEF HonestInv

LEMMA DbSame ==
    ASSUME Inv, HonestInv, UNCHANGED <<up, db>>
    PROVE  DbFine' /\ Stored' = Stored
<1>1. DbFine /\ Stored' = Stored
  BY HonestDb DEF Stored
<1>. QED
  BY <1>1 DEF DbFine

LEMMA DbCommitted ==
    ASSUME Inv, HonestInv, db' = Committed, up' = up
    PROVE  DbFine' /\ Stored' = Seen
<1>1. \A d \in Datasets : db'[d] = View(d)
  BY DEF Committed
<1>2. Stored' = Seen
  BY <1>1, FinancialsIn DEF Stored, Seen
<1>3. \A d \in Derived : Covered(d, db'[d], Seen)
  BY <1>1, ViewCovered DEF Datasets
<1>4. \A s \in Sources : Seen[s] <= up[s]
  BY DEF HonestInv, Ordered
<1>5. Strict /\ "prices" \in Sources => Seen["prices"] = 0
  BY DEF HonestInv, Ordered
<1>. QED
  BY <1>2, <1>3, <1>4, <1>5 DEF DbFine

\* One source row is replaced by data that is not older.
LEMMA DbPut ==
    ASSUME Inv, HonestInv, NEW s \in Sources, NEW row,
           row.val \in Nat, Stored[s] <= row.val, row.val <= up[s],
           Strict /\ s = "prices" => row.val = 0,
           db' = [db EXCEPT ![s] = row], up' = up, Inv'
    PROVE  /\ DbFine'
           /\ \A t \in Sources : Stored'[t] = IF t = s THEN row.val ELSE Stored[t]
           /\ \A t \in Sources : Stored[t] <= Stored'[t]
<1>1. /\ db'[s] = row
      /\ \A d \in Datasets \ {s} : db'[d] = db[d]
  BY FinancialsIn DEF Inv, RowsOK
<1>3. DbFine
  BY HonestDb
<1>4. \A t \in Sources : Stored'[t] = IF t = s THEN row.val ELSE Stored[t]
  BY <1>1, FinancialsIn DEF Stored
<1>5. \A t \in Sources : Stored[t] <= Stored'[t]
  BY <1>4, Nats
<1>6. \A t \in Sources : Stored'[t] <= up'[t]
  BY <1>3, <1>4 DEF DbFine
<1>7. Strict /\ "prices" \in Sources => Stored'["prices"] = 0
  BY <1>3, <1>4 DEF DbFine
<1>8. ASSUME NEW d \in Derived PROVE Covered(d, db'[d], Stored')
  <2>1. db'[d] = db[d]
    BY <1>1, DatasetAssumption DEF Datasets, SourceDatasets, DerivedDatasets
  <2>2. Covered(d, db[d], Stored)
    BY <1>3 DEF DbFine
  <2>. QED
    BY <1>5, <2>1, <2>2, Nats, NatsNext, CoveredMono
<1>. QED
  BY <1>4, <1>5, <1>6, <1>7, <1>8 DEF DbFine

\* The rest of the plan after a step that writes no older data, and only
\* writes sources as the plan of the SEC does.
LEMMA ContinueHonest ==
    ASSUME Inv, HonestInv, Inv', DbFine', todo # <<>>, Head(todo).op # "open",
           NEW h, NEW o, Continue(h, o), up' = up,
           \A s \in Sources : Stored[s] <= Stored'[s],
           SecAhead(todo) =>
              \A s \in Sources \ {"prices", "institutional"} : Stored'[s] <= snap[s],
           Contains(todo, PricesStep) /\ Head(todo) # PricesStep =>
              Stored'["prices"] = Stored["prices"],
           SecAhead(Tail(todo)) => DOMAIN o \cap Sources = {},
           h = held \/ h = <<>>,
           own' = o => Ordered' /\ RowsCovered'
    PROVE  HonestInv'
<1>1. CASE Tail(todo) = <<>>
  BY <1>1, IdleHonest DEF Continue
<1>2. CASE Tail(todo) # <<>>
  <2>1. todo' = Tail(todo) /\ held' = h /\ own' = o /\ snap' = snap
    BY <1>2 DEF Continue
  <2>2. /\ Shape(Tail(todo))
        /\ SecAhead(Tail(todo)) => SecAhead(todo)
        /\ Contains(Tail(todo), PricesStep) =>
              Contains(todo, PricesStep) /\ Head(todo) # PricesStep
    BY ShapeTail DEF HonestInv
  <2>3. SnapCovers'
    BY <2>1, <2>2 DEF HonestInv, SnapCovers
  <2>4. SessionSmall'
    BY <1>2, <2>1 DEF SessionSmall
  <2>5. HeldIsOld'
    <3>1. CASE h = <<>>
      BY <2>1, <3>1, EmptyDomain DEF HeldIsOld
    <3>2. CASE h = held
      <4>. SUFFICES ASSUME NEW s \in DOMAIN held
                    PROVE  VersionOf(held[s]) \in Nat /\ VersionOf(held[s]) <= Stored'[s]
        BY <2>1, <3>2 DEF HeldIsOld
      <4>1. VersionOf(held[s]) \in Nat /\ VersionOf(held[s]) <= Stored[s]
        BY DEF HonestInv, HeldIsOld
      <4>2. s \in Sources
        BY DEF Inv, JobOK, SessionOK
      <4>. QED
        BY <4>1, <4>2, Nats, NatsNext
    <3>. QED
      BY <3>1, <3>2
  <2>. QED
    BY <2>1, <2>2, <2>3, <2>4, <2>5 DEF HonestInv
<1>. QED
  BY <1>1, <1>2

-----------------------------------------------------------------------------
(* The steps on source rows.                                               *)

\* A fetch does not take a dataset back.
LEMMA FetchedNotOlder ==
    ASSUME Inv, HonestInv, NEW s \in Sources, NEW v \in 1..MaxVersion,
           v <= up[s], ~(s = "prices" /\ Strict) => Seen[s] <= v,
           NEW missed \in BOOLEAN, NEW row \in FetchedRows(s, v, missed)
    PROVE  /\ row.val \in Nat /\ Seen[s] <= row.val /\ row.val <= up[s]
           /\ row.val = Seen[s] \/ row.val = v
           /\ Strict /\ s = "prices" => row.val = 0
<1>1. v \in Nat /\ Seen[s] \in Nat /\ Seen[s] <= up[s] /\ up[s] \in Nat
  BY Nats, DatasetAssumption DEF HonestInv, Ordered
<1>2. Seen[s] = View(s).val /\ (Strict /\ s = "prices" => Seen[s] = 0)
  BY DEF Seen, HonestInv, Ordered
<1>3. CASE row = View(s) \/ row = [View(s) EXCEPT !.fresh = TRUE]
  <2>1. Honest(s, View(s))
    BY ViewHonest
  <2>2. row.val = Seen[s]
    BY <1>2, <1>3, <2>1 DEF Honest, SourceRows
  <2>. QED
    BY <1>1, <1>2, <2>2
<1>4. CASE /\ ~(s = "prices" /\ Strict)
           /\ row = CompleteRow(s, v) \/ row \in IncompleteRows(s, v)
  <2>1. row.val = v \/ row.val = Seen[s]
    <3>1. CASE row = CompleteRow(s, v)
      BY <3>1 DEF CompleteRow
    <3>2. CASE row \in IncompleteRows(s, v) /\ s = "institutional"
      <4>1. PICK x \in {View(s).val, v} :
               row \in [val : {x}, hash : {SourceHash(s, w, 1) : w \in 0..x}, fresh : {TRUE},
                        gaps : {{s}, View(s).gaps}]
        BY <3>2 DEF IncompleteRows
      <4>2. row.val = x
        BY <4>1
      <4>. QED
        BY <1>2, <4>2
    <3>3. CASE row \in IncompleteRows(s, v) /\ s # "institutional"
      BY <3>3 DEF IncompleteRows
    <3>. QED
      BY <1>4, <3>1, <3>2, <3>3
  <2>. QED
    BY <1>1, <1>4, <2>1
<1>. QED
  BY <1>3, <1>4, FetchedCases

\* While rows of the filing index are to come, the session has written none.
LEMMA QuietSession ==
    ASSUME Inv, HonestInv, SecAhead(todo)
    PROVE  Seen = Stored /\ DOMAIN own \cap Sources = {}
  BY DEF HonestInv, SessionSmall, Seen, Stored, View

LEMMA HeadAhead ==
    ASSUME Inv, todo # <<>>
    PROVE  /\ Head(todo).op \in {"open", "statements", "job"} => SecAhead(todo)
           /\ Head(todo) \in Steps
           /\ Head(todo) = PricesStep => Contains(todo, PricesStep)
<1>1. todo \in Seq(Steps)
  BY PlanTyped DEF Inv, JobOK
<1>2. 1 \in 1..Len(todo) /\ Head(todo) = todo[1]
  BY <1>1
<1>. QED
  BY <1>1, <1>2 DEF SecAhead, Contains

\* The rows of a session over a changed database, with no source row of its own.
LEMMA QuietView ==
    ASSUME Inv, HonestInv, Inv', DbFine', own' = own, DOMAIN own \cap Sources = {},
           \A s \in Sources : Stored[s] <= Stored'[s]
    PROVE  Ordered' /\ RowsCovered'
<1>1. Seen' = Stored'
  BY DEF Seen, Stored, View
<1>2. Seen = Stored
  BY DEF Seen, Stored, View
<1>3. Ordered'
  BY <1>1, NatsNext DEF DbFine, Ordered
<1>4. ASSUME NEW d \in Derived, d \in DOMAIN own PROVE Covered(d, own[d], Seen')
  <2>1. Covered(d, own[d], Seen)
    BY <1>4 DEF HonestInv, RowsCovered
  <2>. QED
    BY <1>1, <1>2, <2>1, Nats, NatsNext, CoveredMono
<1>5. RowsCovered'
  BY <1>4 DEF RowsCovered, DbFine
<1>. QED
  BY <1>3, <1>5

\* A step of the SEC plan that commits one source row.
LEMMA SecWrite ==
    ASSUME Inv, HonestInv, Inv', todo # <<>>, Head(todo).op \in {"statements", "job"},
           NEW s \in Sources, NEW row, row.val \in Nat, Stored[s] <= row.val, row.val <= up[s],
           Strict /\ s = "prices" => row.val = 0,
           s \notin {"prices", "institutional"} => row.val <= snap[s],
           s = "prices" => Head(todo) = PricesStep,
           db' = [db EXCEPT ![s] = row], up' = up, Continue(held, own)
    PROVE  HonestInv'
<1>1. SecAhead(todo)
  BY HeadAhead
<1>2. DOMAIN own \cap Sources = {}
  BY <1>1, QuietSession
<1>3. /\ DbFine'
      /\ \A t \in Sources : Stored'[t] = IF t = s THEN row.val ELSE Stored[t]
      /\ \A t \in Sources : Stored[t] <= Stored'[t]
  BY DbPut
<1>4. \A t \in Sources \ {"prices", "institutional"} : Stored'[t] <= snap[t]
  <2>1. \A t \in Sources \ {"prices", "institutional"} : Stored[t] <= snap[t]
    BY <1>1 DEF HonestInv, SnapCovers
  <2>. QED
    BY <1>3, <2>1
<1>5. Contains(todo, PricesStep) /\ Head(todo) # PricesStep => Stored'["prices"] = Stored["prices"]
  <2>. SUFFICES ASSUME Contains(todo, PricesStep), s # "prices"
                PROVE  Stored'["prices"] = Stored["prices"]
    OBVIOUS
  <2>1. PricesStep \in Steps
    <3>1. todo \in Seq(Steps)
      BY PlanTyped DEF Inv, JobOK
    <3>. QED
      BY <3>1 DEF Contains
  <2>2. "prices" \in Sources
    BY <2>1, DatasetAssumption
       DEF PricesStep, Steps, Datasets, SourceDatasets, DerivedDatasets
  <2>. QED
    BY <1>3, <2>2
<1>6. own' = own => Ordered' /\ RowsCovered'
  BY <1>2, <1>3, QuietView
<1>. QED
  BY <1>2, <1>3, <1>4, <1>5, <1>6, ContinueHonest

LEMMA RefreshStatementsHonest ==
    ASSUME Inv, HonestInv, Inv', RefreshStatements PROVE HonestInv'
<1>. DEFINE v == snap["financials"]
<1>1. /\ todo # <<>> /\ Head(todo).op = "statements" /\ At("statements")
      /\ up' = up /\ Continue(held, own)
  BY DEF RefreshStatements, At
<1>. PICK missed \in BOOLEAN :
        \E row \in StatementRows(missed) : db' = [db EXCEPT !["financials"] = row]
  BY DEF RefreshStatements
<1>2. PICK row \in StatementRows(missed) : db' = [db EXCEPT !["financials"] = row]
  OBVIOUS
<1>3. Stored["financials"] <= v /\ v <= up["financials"]
  <2>1. SecAhead(todo)
    BY <1>1, HeadAhead
  <2>. QED
    BY <1>1, <2>1, FinancialsIn DEF HonestInv, SnapCovers
<1>4. v \in Nat /\ Stored["financials"] \in Nat /\ up["financials"] \in Nat
      /\ Stored["financials"] = db["financials"].val
  BY Nats, FinancialsIn DEF Stored
<1>5. row.val \in {Stored["financials"], v}
  BY <1>1, <1>4, StatementsHonest
<1>6. row.val \in Nat /\ Stored["financials"] <= row.val /\ row.val <= v
      /\ row.val <= up["financials"]
  BY <1>3, <1>4, <1>5
<1>. QED
  BY <1>1, <1>2, <1>6, FinancialsIn, SecWrite

LEMMA RunDatasetJobHonest ==
    ASSUME Inv, HonestInv, Inv', RunDatasetJob PROVE HonestInv'
<1>1. /\ todo # <<>> /\ Head(todo).op = "job" /\ Now = Head(todo).ds
      /\ up' = up /\ Continue(held, own)
  BY DEF RunDatasetJob, At, Now
<1>2. PICK v \in Versions(Now), missed \in BOOLEAN :
         \E r \in FetchedRows(Now, v, missed) : db' = [db EXCEPT ![Now] = r]
  BY DEF RunDatasetJob
<1>. DEFINE s == Now
<1>. PICK row \in FetchedRows(s, v, missed) : db' = [db EXCEPT ![s] = row]
  BY <1>2
<1>3. s \in Sources /\ v \in 1..MaxVersion /\ v \in Nat
  BY <1>1, NowTyped, VersionsTyped, DatasetAssumption
<1>4. SecAhead(todo) /\ Seen = Stored
  BY <1>1, HeadAhead, QuietSession
<1>5. s = "prices" => Head(todo) = PricesStep /\ Contains(todo, PricesStep)
  BY <1>1, HeadAhead DEF Steps, PricesStep
<1>6. Stored[s] <= v /\ v <= up[s] /\ (s \notin {"prices", "institutional"} => v = snap[s])
  <2>1. CASE s = "prices"
    <3>1. Stored["prices"] <= snap["prices"]
      BY <1>1, <1>5, <2>1 DEF HonestInv, SnapCovers
    <3>2. snap[s] <= v /\ v <= up[s]
      BY <2>1 DEF Versions
    <3>. QED
      BY <1>3, <2>1, <3>1, <3>2, Nats
  <2>2. CASE s = "institutional"
    <3>1. v = up[s]
      BY <2>2 DEF Versions
    <3>. QED
      BY <1>3, <1>4, <2>2, <3>1, Nats DEF HonestInv, Ordered
  <2>3. CASE s \notin {"prices", "institutional"}
    <3>1. v = snap[s]
      BY <2>3 DEF Versions
    <3>. QED
      BY <1>1, <1>3, <1>4, <2>3, <3>1 DEF HonestInv, SnapCovers
  <2>. QED
    BY <2>1, <2>2, <2>3
<1>7. /\ row.val \in Nat /\ Stored[s] <= row.val /\ row.val <= up[s]
      /\ row.val = Stored[s] \/ row.val = v
      /\ Strict /\ s = "prices" => row.val = 0
  BY <1>3, <1>4, <1>6, FetchedNotOlder
<1>8. s \notin {"prices", "institutional"} => row.val <= snap[s]
  BY <1>3, <1>6, <1>7, Nats
<1>. QED
  BY <1>1, <1>3, <1>5, <1>7, <1>8, SecWrite

\* A rolled back fetch leaves the committed rows.
LEMMA RollbackHonest ==
    ASSUME Inv, HonestInv, Inv', DatasetJobFails \/ MarketFails PROVE HonestInv'
<1>1. /\ todo # <<>> /\ Head(todo).op \in {"job", "market"} /\ Continue(<<>>, <<>>)
      /\ UNCHANGED <<up, db>>
  BY DEF DatasetJobFails, MarketFails, At
<1>2. DbFine' /\ Stored' = Stored
  BY <1>1, DbSame
<1>3. own' = <<>> => Ordered' /\ RowsCovered'
  BY <1>2, CleanView
<1>4. SecAhead(todo) =>
         \A s \in Sources \ {"prices", "institutional"} : Stored'[s] <= snap[s]
  BY <1>1, <1>2 DEF HonestInv, SnapCovers
<1>5. DOMAIN <<>> \cap Sources = {} /\ \A s \in Sources : Stored[s] <= Stored'[s]
  BY <1>2, EmptyDomain, Nats
<1>. QED
  BY <1>1, <1>2, <1>3, <1>4, <1>5, ContinueHonest

\* A shortcut branch commits what its session holds, then holds the new row.
LEMMA FetchOneHonest ==
    ASSUME Inv, HonestInv, Inv', FetchOne PROVE HonestInv'
<1>. DEFINE s == Now
<1>. PICK missed \in BOOLEAN :
        \E r \in FetchedRows(s, up[s], missed) : Continue(held, [d \in {s} |-> r])
  BY DEF FetchOne
<1>. PICK row \in FetchedRows(s, up[s], missed) : Continue(held, [d \in {s} |-> row])
  OBVIOUS
<1>. DEFINE o == [d \in {s} |-> row]
<1>1. /\ todo # <<>> /\ Head(todo).op = "fetch" /\ Continue(held, o)
      /\ db' = Committed /\ up' = up
  BY DEF FetchOne, At
<1>2. s \in Sources /\ up[s] \in 1..MaxVersion /\ Seen[s] <= up[s]
  BY <1>1, NowTyped DEF Inv, WorldOK, HonestInv, Ordered
<1>3. /\ row.val \in Nat /\ Seen[s] <= row.val /\ row.val <= up[s]
      /\ Strict /\ s = "prices" => row.val = 0
  BY <1>2, Nats, FetchedNotOlder
<1>4. DbFine' /\ Stored' = Seen
  BY <1>1, DbCommitted
<1>5. ~SecAhead(todo) /\ ~SecAhead(Tail(todo)) /\ ~Contains(todo, PricesStep)
  <2>1. Head(todo) \notin SecKind
    BY <1>1 DEF SecKind
  <2>2. todo \in Seq(CachedKind)
    BY <1>1, <2>1 DEF HonestInv, Shape
  <2>3. Tail(todo) \in Seq(CachedKind)
    BY <1>1, <2>2
  <2>. QED
    BY <2>2, <2>3, CachedQuiet
<1>6. ASSUME own' = o PROVE Ordered' /\ RowsCovered'
  <2>1. \A t \in Sources : View(t)' = IF t = s THEN row ELSE db'[t]
    BY <1>6 DEF View
  <2>2. \A t \in Sources : Seen'[t] = IF t = s THEN row.val ELSE Stored'[t]
    BY <2>1 DEF Seen, Stored
  <2>3. \A t \in Sources : Stored'[t] <= Seen'[t] /\ Seen'[t] <= up'[t]
    <3>. SUFFICES ASSUME NEW t \in Sources PROVE Stored'[t] <= Seen'[t] /\ Seen'[t] <= up'[t]
      OBVIOUS
    <3>1. Stored'[t] = Seen[t] /\ up'[t] = up[t] /\ Seen[t] \in Nat /\ Seen[t] <= up[t]
      BY <1>1, <1>4, Nats DEF HonestInv, Ordered
    <3>2. (t = s /\ Seen'[t] = row.val) \/ Seen'[t] = Seen[t]
      BY <2>2, <3>1
    <3>. QED
      BY <1>3, <3>1, <3>2
  <2>4. Ordered'
    BY <1>3, <1>4, <2>2, <2>3 DEF Ordered, DbFine
  <2>5. \A d \in Derived : d \notin DOMAIN o
    BY <1>2, DatasetAssumption DEF SourceDatasets, DerivedDatasets
  <2>6. RowsCovered'
    BY <1>4, <1>6, <2>5 DEF RowsCovered, DbFine
  <2>. QED
    BY <2>4, <2>6
<1>7. \A t \in Sources : Stored[t] <= Stored'[t]
  BY <1>4 DEF HonestInv, Ordered
<1>. HIDE DEF o
<1>. QED
  BY <1>1, <1>4, <1>5, <1>6, <1>7, ContinueHonest

\* The prices branch adds the new row to what its session holds.
LEMMA FetchMarketHonest ==
    ASSUME Inv, HonestInv, Inv', FetchMarket PROVE HonestInv'
<1>. DEFINE s == Now
<1>. PICK row \in FetchedRows(s, up[s], FALSE) : Continue(held, Put(s, row))
  BY DEF FetchMarket
<1>. DEFINE o == Put(s, row)
<1>1. /\ todo # <<>> /\ Head(todo).op = "market" /\ Continue(held, o)
      /\ UNCHANGED <<up, db>>
  BY DEF FetchMarket, At
<1>2. s \in Sources /\ up[s] \in 1..MaxVersion /\ Seen[s] <= up[s]
  BY <1>1, NowTyped DEF Inv, WorldOK, HonestInv, Ordered
<1>3. /\ row.val \in Nat /\ Seen[s] <= row.val /\ row.val <= up[s]
      /\ Strict /\ s = "prices" => row.val = 0
  <2>. DEFINE m == FALSE
  <2>1. m \in BOOLEAN /\ row \in FetchedRows(s, up[s], m)
    OBVIOUS
  <2>. HIDE DEF m
  <2>. QED
    BY <1>2, <2>1, Nats, FetchedNotOlder
<1>4. DbFine' /\ Stored' = Stored
  BY <1>1, DbSame
<1>5. ~SecAhead(todo) /\ ~SecAhead(Tail(todo)) /\ ~Contains(todo, PricesStep)
  <2>1. Head(todo) \notin SecKind
    BY <1>1 DEF SecKind
  <2>2. todo \in Seq(CachedKind)
    BY <1>1, <2>1 DEF HonestInv, Shape
  <2>3. Tail(todo) \in Seq(CachedKind)
    BY <1>1, <2>2
  <2>. QED
    BY <2>2, <2>3, CachedQuiet
<1>6. ASSUME own' = o PROVE Ordered' /\ RowsCovered'
  <2>1. \A d \in Datasets : View(d)' = IF d = s THEN row ELSE View(d)
    BY <1>1, <1>6 DEF View, Put
  <2>2. \A t \in Sources : Seen'[t] = IF t = s THEN row.val ELSE Seen[t]
    BY <2>1, FinancialsIn DEF Seen
  <2>3. \A t \in Sources : /\ Stored'[t] <= Seen'[t] /\ Seen'[t] <= up'[t]
                           /\ Seen[t] <= Seen'[t]
    <3>. SUFFICES ASSUME NEW t \in Sources
                  PROVE  /\ Stored'[t] <= Seen'[t] /\ Seen'[t] <= up'[t]
                         /\ Seen[t] <= Seen'[t]
      OBVIOUS
    <3>1. /\ Stored'[t] = Stored[t] /\ up'[t] = up[t] /\ Seen[t] \in Nat /\ Stored[t] \in Nat
          /\ Seen[t] <= up[t] /\ Stored[t] <= Seen[t]
      BY <1>1, <1>4, Nats DEF HonestInv, Ordered
    <3>2. (t = s /\ Seen'[t] = row.val) \/ Seen'[t] = Seen[t]
      BY <2>2
    <3>. QED
      BY <1>3, <3>1, <3>2
  <2>4. Ordered'
    BY <1>3, <2>2, <2>3 DEF Ordered, HonestInv
  <2>5. ASSUME NEW d \in Derived, d \in DOMAIN o PROVE Covered(d, o[d], Seen')
    <3>1. d # s
      BY <1>2, DatasetAssumption DEF SourceDatasets, DerivedDatasets
    <3>2. d \in DOMAIN own /\ o[d] = own[d]
      BY <2>5, <3>1 DEF Put
    <3>3. Covered(d, own[d], Seen)
      BY <3>2 DEF HonestInv, RowsCovered
    <3>. QED
      BY <2>3, <3>2, <3>3, Nats, NatsNext, CoveredMono
  <2>6. RowsCovered'
    BY <1>4, <1>6, <2>5 DEF RowsCovered, DbFine
  <2>. QED
    BY <2>4, <2>6
<1>7. \A t \in Sources : Stored[t] <= Stored'[t]
  BY <1>4, Nats
<1>. HIDE DEF o
<1>. QED
  BY <1>1, <1>4, <1>5, <1>6, <1>7, ContinueHonest

-----------------------------------------------------------------------------
(* A derived row is covered by what the session sees.                      *)

\* The hash of a source that a job sees is never newer than the rows it sees.
LEMMA HashSeenOld ==
    ASSUME Inv, HonestInv, NEW s \in Sources, dataset_payload_hash(s) # NoHash
    PROVE  LET n == VersionOf(dataset_payload_hash(s)) IN n \in Nat /\ n <= Seen[s]
<1>1. CASE s \in DOMAIN held
  <2>1. dataset_payload_hash(s) = held[s] /\ VersionOf(held[s]) \in Nat
        /\ VersionOf(held[s]) <= Stored[s]
    BY <1>1 DEF dataset_payload_hash, HonestInv, HeldIsOld
  <2>2. Stored[s] <= Seen[s]
    BY DEF HonestInv, Ordered
  <2>. QED
    BY <2>1, <2>2, Nats
<1>2. CASE s \notin DOMAIN held
  <2>1. dataset_payload_hash(s) = View(s).hash /\ Honest(s, View(s))
    BY <1>2, ViewHonest DEF dataset_payload_hash
  <2>2. VersionOf(View(s).hash) \in Nat /\ VersionOf(View(s).hash) <= Seen[s]
    BY <2>1 DEF Honest, Seen
  <2>. QED
    BY <2>1, <2>2, Nats
<1>. QED
  BY <1>1, <1>2

LEMMA DerivedCovered ==
    ASSUME Inv, HonestInv, NEW d \in Derived
    PROVE  Covered(d, DerivedRow(d), Seen)
<1>. DEFINE fp == Fingerprint(d, HashesSeen)
            content == Content(d, [i \in Datasets |-> View(i).val])
            f == [i \in FingerprintOf(d) |-> HashesSeen[i]]
            row == DerivedRow(d)
<1>1. row.val = content /\ row.hash = IF fp = NoHash THEN Fallback(d, content) ELSE fp
  BY DEF DerivedRow
<1>2. CASE fp = NoHash
  <2>1. row.hash[1] \in {"schema", "payload"}
    BY <1>1, <1>2 DEF Fallback
  <2>. QED
    BY <2>1 DEF Covered
<1>3. CASE fp # NoHash
  <2>1. row.hash = <<"inputs", f>> /\ \A i \in FingerprintOf(d) : HashesSeen[i] # NoHash
    BY <1>1, <1>3 DEF Fingerprint
  <2>2. FingerprintOf(d) \subseteq Datasets /\ "others" \notin Datasets
    BY DatasetAssumption DEF FingerprintOf, Datasets, SourceDatasets, DerivedDatasets
  <2>3. \A i \in FingerprintOf(d) : f[i] = dataset_payload_hash(i) /\ f[i] # NoHash
    BY <2>1, <2>2 DEF HashesSeen
  <2>4. \A s \in FingerprintOf(d) \cap Sources : VersionOf(f[s]) \in Nat /\ VersionOf(f[s]) <= Seen[s]
    BY <2>3, HashSeenOld
  <2>5. content = <<"computed", [i \in ReadBy(d) |->
                                   IF i = "others" THEN others ELSE [j \in Datasets |-> View(j).val][i]]>>
    BY DEF Content
  <2>6. \A i \in ReadBy(d) \cap Datasets : content[2][i] = View(i).val
    BY <2>2, <2>5
  <2>7. \A s \in ReadBy(d) \cap Sources : content[2][s] = Seen[s]
    BY <2>6, FinancialsIn DEF Seen
  <2>. HIDE DEF f, content, fp, row
  <2>8. Below(d, f, Seen)
    BY <2>4 DEF Below
  <2>9. Between(d, content, f, Seen)
    <3>1. content = <<"computed", [i \in ReadBy(d) |-> content[2][i]]>>
      BY <2>5
    <3>2. \A s \in ReadBy(d) \cap Sources : content[2][s] \in Nat /\ content[2][s] <= Seen[s]
      BY <2>7, Nats
    <3>3. \A s \in ReadBy(d) \cap Sources :
             s \in FingerprintOf(d) => VersionOf(f[s]) \in Nat /\ VersionOf(f[s]) <= content[2][s]
      BY <2>4, <2>7
    <3>. QED
      BY <3>1, <3>2, <3>3 DEF Between
  <2>10. ASSUME NEW i \in FingerprintOf(d) \cap Derived, f[i][1] = "inputs"
         PROVE  Through(d, i, content, f[i][2], Seen)
    <3>1. i \notin DOMAIN held
      BY DatasetAssumption DEF Inv, JobOK, SessionOK, SourceDatasets, DerivedDatasets
    <3>2. f[i] = View(i).hash
      BY <2>3, <3>1 DEF dataset_payload_hash
    <3>3. Below(i, f[i][2], Seen) /\ Between(i, View(i).val, f[i][2], Seen)
      BY <2>10, <3>2, ViewCovered DEF Covered
    <3>4. \A s \in ReadBy(d) \cap FingerprintOf(i) \cap Sources :
             VersionOf(f[i][2][s]) \in Nat /\ VersionOf(f[i][2][s]) <= content[2][s]
      BY <2>7, <3>3 DEF Below
    <3>5. i \in ReadBy(d) => content[2][i] = View(i).val
      BY <2>6 DEF Datasets
    <3>. QED
      BY <3>3, <3>4, <3>5 DEF Through
  <2>11. row.hash[2] = f /\ row.val = content
    BY <1>1, <2>1
  <2>. QED
    BY <2>8, <2>9, <2>10, <2>11 DEF Covered, row
<1>. QED
  BY <1>2, <1>3

LEMMA NowDerived ==
    ASSUME Inv, At("derive")
    PROVE  Now \in Derived /\ Now \in Datasets /\ Now \notin Sources
<1>1. Head(todo) \in LaterSteps
  BY AfterLater DEF At, Inv, JobOK
<1>2. Now \in Derived
  BY <1>1 DEF At, LaterSteps, Now
<1>. QED
  BY <1>2, DatasetAssumption DEF Datasets, SourceDatasets, DerivedDatasets

\* A cache is left alone, or computed from what the session sees.
LEMMA RefreshDerivedHonest ==
    ASSUME Inv, HonestInv, Inv', RefreshDerived PROVE HonestInv'
<1>. DEFINE d == Now
            row == DerivedRow(d)
            o == IF InputsUnchanged(d) THEN own ELSE Put(d, row)
<1>1. /\ todo # <<>> /\ Head(todo).op = "derive" /\ Continue(held, o)
      /\ UNCHANGED <<up, db>>
  BY DEF RefreshDerived, At
<1>2. d \in Derived /\ d \in Datasets /\ d \notin Sources
  BY <1>1, NowDerived DEF At
<1>3. DbFine' /\ Stored' = Stored
  BY <1>1, DbSame
<1>4. Covered(d, row, Seen)
  BY <1>2, DerivedCovered
<1>5. /\ DOMAIN o \cap Sources = DOMAIN own \cap Sources
      /\ \A s \in Sources : s \in DOMAIN own => o[s] = own[s]
      /\ \A x \in DOMAIN o : (o[x] = row /\ x = d) \/ (x \in DOMAIN own /\ o[x] = own[x])
  <2>1. CASE InputsUnchanged(d)
    BY <2>1
  <2>2. CASE ~InputsUnchanged(d)
    <3>1. o = [x \in DOMAIN own \cup {d} |-> IF x = d THEN row ELSE own[x]]
      BY <2>2 DEF Put
    <3>. HIDE DEF o, row
    <3>. QED
      BY <1>2, <3>1
  <2>. QED
    BY <2>1, <2>2
<1>. HIDE DEF o, row
<1>6. ASSUME own' = o PROVE Ordered' /\ RowsCovered'
  <2>1. \A s \in Sources : View(s)' = View(s)
    BY <1>1, <1>5, <1>6 DEF View
  <2>2. Seen' = Seen
    BY <2>1 DEF Seen
  <2>3. Ordered'
    BY <1>1, <1>3, <2>2 DEF Ordered, HonestInv
  <2>4. ASSUME NEW x \in Derived, x \in DOMAIN o PROVE Covered(x, o[x], Seen)
    BY <1>4, <1>5, <2>4 DEF HonestInv, RowsCovered
  <2>5. RowsCovered'
    BY <1>3, <1>6, <2>2, <2>4 DEF RowsCovered, DbFine
  <2>. QED
    BY <2>3, <2>5
<1>7. SecAhead(Tail(todo)) => DOMAIN o \cap Sources = {}
  BY <1>1, <1>5, ShapeTail, QuietSession DEF HonestInv
<1>8. SecAhead(todo) =>
         \A s \in Sources \ {"prices", "institutional"} : Stored'[s] <= snap[s]
  BY <1>1, <1>3 DEF HonestInv, SnapCovers
<1>9. \A s \in Sources : Stored[s] <= Stored'[s]
  BY <1>3, Nats
<1>. QED
  BY <1>1, <1>3, <1>6, <1>7, <1>8, <1>9, ContinueHonest

\* A commit stores what the session saw.
LEMMA CommitSessionHonest ==
    ASSUME Inv, HonestInv, Inv', CommitSession PROVE HonestInv'
<1>1. /\ todo # <<>> /\ Head(todo).op = "commit" /\ Continue(held, <<>>)
      /\ db' = Committed /\ up' = up
  BY DEF CommitSession, At
<1>2. DbFine' /\ Stored' = Seen
  BY <1>1, DbCommitted
<1>3. own' = <<>> => Ordered' /\ RowsCovered'
  BY <1>2, CleanView
<1>4. SecAhead(todo) => Stored' = Stored
  BY <1>2, QuietSession
<1>5. SecAhead(todo) =>
         \A s \in Sources \ {"prices", "institutional"} : Stored'[s] <= snap[s]
  BY <1>1, <1>4 DEF HonestInv, SnapCovers
<1>6. Contains(todo, PricesStep) => Stored'["prices"] = Stored["prices"]
  BY <1>4 DEF Contains, SecAhead, PricesStep
<1>7. DOMAIN <<>> \cap Sources = {} /\ \A s \in Sources : Stored[s] <= Stored'[s]
  BY <1>2, EmptyDomain DEF HonestInv, Ordered
<1>. QED
  BY <1>1, <1>2, <1>3, <1>5, <1>6, <1>7, ContinueHonest

LEMMA CompleteJobHonest ==
    ASSUME Inv, HonestInv, Inv', CompleteJob PROVE HonestInv'
<1>1. /\ todo # <<>> /\ Head(todo).op = "complete" /\ Continue(held, own)
      /\ UNCHANGED <<up, db>>
  BY DEF CompleteJob, At
<1>2. DbFine' /\ Stored' = Stored
  BY <1>1, DbSame
<1>3. own' = own => Ordered' /\ RowsCovered'
  <2>. SUFFICES ASSUME own' = own PROVE Ordered' /\ RowsCovered'
    OBVIOUS
  <2>1. Seen' = Seen
    BY <1>1 DEF Seen, View
  <2>. QED
    BY <1>1, <1>2, <2>1 DEF HonestInv, Ordered, RowsCovered, DbFine
<1>4. SecAhead(Tail(todo)) => DOMAIN own \cap Sources = {}
  BY <1>1, ShapeTail, QuietSession DEF HonestInv
<1>5. SecAhead(todo) =>
         \A s \in Sources \ {"prices", "institutional"} : Stored'[s] <= snap[s]
  BY <1>1, <1>2 DEF HonestInv, SnapCovers
<1>6. \A s \in Sources : Stored[s] <= Stored'[s]
  BY <1>2, Nats
<1>. QED
  BY <1>1, <1>2, <1>3, <1>4, <1>5, <1>6, ContinueHonest

\* The session of a SEC plan: its filing index is what is published, and the
\* state rows it loads are the committed ones.
LEMMA OpenSessionHonest ==
    ASSUME Inv, HonestInv, Inv', OpenSession PROVE HonestInv'
<1>1. /\ todo # <<>> /\ Head(todo).op = "open" /\ todo' = Tail(todo)
      /\ snap' = up /\ held' = [d \in Held |-> db[d].hash]
      /\ UNCHANGED <<up, db, own>>
  BY DEF OpenSession, At
<1>2. DbFine' /\ Stored' = Stored
  BY <1>1, DbSame
<1>3. SecAhead(todo) /\ DOMAIN own \cap Sources = {}
  BY <1>1, HeadAhead, QuietSession
<1>4. Ordered' /\ RowsCovered'
  BY <1>1, <1>2, <1>3, Nats, QuietView
<1>5. Shape(todo') /\ todo' # <<>>
  BY <1>1, ShapeTail, AfterOpen DEF HonestInv, Inv, JobOK
<1>6. SnapCovers'
  <2>1. \A s \in Sources : Stored'[s] <= snap'[s] /\ snap'[s] <= up'[s]
    BY <1>1, <1>2, HonestDb, Nats DEF DbFine
  <2>2. Contains(todo', PricesStep) => "prices" \in Sources
    <3>. SUFFICES ASSUME Contains(todo', PricesStep) PROVE "prices" \in Sources
      OBVIOUS
    <3>1. todo' \in Seq(Steps)
      BY PlanTyped DEF Inv, JobOK
    <3>2. PricesStep \in Steps
      BY <3>1 DEF Contains
    <3>. QED
      BY <3>2, DatasetAssumption DEF PricesStep, Steps, Datasets, SourceDatasets, DerivedDatasets
  <2>. QED
    BY <2>1, <2>2 DEF SnapCovers
<1>7. HeldIsOld'
  <2>. SUFFICES ASSUME NEW s \in Held
                PROVE  VersionOf(db[s].hash) \in Nat /\ VersionOf(db[s].hash) <= Stored[s]
    BY <1>1, <1>2 DEF HeldIsOld
  <2>1. s \in Sources /\ db[s].hash # NoHash
    BY DEF Held
  <2>. QED
    BY <2>1 DEF Inv, RowsOK, Honest, Stored
<1>8. SessionSmall'
  BY <1>1, <1>3, <1>5 DEF SessionSmall
<1>. QED
  BY <1>4, <1>5, <1>6, <1>7, <1>8 DEF HonestInv

LEMMA StartJobHonest ==
    ASSUME Inv, HonestInv, Inv', StartJob(FALSE) PROVE HonestInv'
<1>. PICK segments \in SegmentsSeen :
         LET p == PolicyNow(FALSE, segments)
             b == Branch(p)
         IN  todo' = IF b = "sec" THEN SecSteps(FetchedBy(b, p), FALSE) ELSE CachedSteps(b)
  BY DEF StartJob
<1>. DEFINE p == PolicyNow(FALSE, segments)
            b == Branch(p)
            q == IF b = "sec" THEN SecSteps(FetchedBy(b, p), FALSE) ELSE CachedSteps(b)
<1>1. todo' = q /\ todo = <<>> /\ UNCHANGED <<up, db, snap, held, own>>
  BY DEF StartJob
<1>2. own = <<>> /\ held = <<>>
  BY <1>1 DEF HonestInv, SessionSmall
<1>3. b \in Branches
  BY DEF Branch, Branches
<1>4. Shape(q) /\ (q = <<>> \/ Head(q).op = "open" \/ (~SecAhead(q) /\ ~Contains(q, PricesStep)))
  <2>1. CASE b = "sec"
    <3>1. Opening(q) /\ Shape(q)
      BY <2>1, SecStepsPlan, SecShape DEF Shape
    <3>. HIDE DEF q
    <3>2. Head(q) = OpenStep
      BY <3>1 DEF Opening
    <3>. QED
      BY <3>1, <3>2 DEF OpenStep
  <2>2. CASE b # "sec"
    BY <1>3, <2>2, CachedShape, CachedQuiet DEF Shape
  <2>. QED
    BY <2>1, <2>2
<1>. HIDE DEF q
<1>5. DbFine' /\ Stored' = Stored
  BY <1>1, DbSame
<1>6. Ordered' /\ RowsCovered'
  BY <1>1, <1>2, <1>5, CleanView
<1>7. SnapCovers'
  BY <1>1, <1>4 DEF HonestInv, SnapCovers
<1>8. SessionSmall' /\ HeldIsOld'
  BY <1>1, <1>2, EmptyDomain DEF SessionSmall, HeldIsOld
<1>. QED
  BY <1>1, <1>4, <1>6, <1>7, <1>8 DEF HonestInv

LEMMA FailureHonest ==
    ASSUME Inv, HonestInv, Inv', Failure PROVE HonestInv'
<1>1. CASE OpenFails \/ StatementsFail \/ DeriveFails \/ CommitFails \/ Crash
  <2>1. Idle /\ UNCHANGED <<up, db>>
    BY <1>1 DEF OpenFails, StatementsFail, DeriveFails, CommitFails, Crash, FailJob
  <2>. QED
    BY <2>1, DbSame, IdleHonest
<1>2. CASE DatasetJobFails \/ MarketFails
  BY <1>2, RollbackHonest
<1>3. CASE FetchOneFails
  <2>1. Idle /\ db' = Committed /\ up' = up
    BY <1>3 DEF FetchOneFails, FailJob
  <2>. QED
    BY <2>1, DbCommitted, IdleHonest
<1>. QED
  BY <1>1, <1>2, <1>3 DEF Failure

LEMMA SameHonest ==
    ASSUME HonestInv, UNCHANGED <<up, db, todo, snap, held, own>> PROVE HonestInv'
<1>1. Stored' = Stored /\ Seen' = Seen
  BY DEF Stored, Seen, View
<1>2. Ordered' /\ RowsCovered'
  BY <1>1 DEF HonestInv, Ordered, RowsCovered
<1>3. SnapCovers' /\ SessionSmall' /\ HeldIsOld' /\ Shape(todo')
  BY <1>1 DEF HonestInv, SnapCovers, SessionSmall, HeldIsOld
<1>. QED
  BY <1>2, <1>3 DEF HonestInv

LEMMA PublishHonest ==
    ASSUME Inv, HonestInv, Inv', NEW s \in Sources, Publish(s) PROVE HonestInv'
<1>1. /\ up' = [up EXCEPT ![s] = @ + 1]
      /\ UNCHANGED <<db, todo, snap, held, own>>
  BY DEF Publish
<1>2. Stored' = Stored /\ Seen' = Seen
  BY <1>1 DEF Stored, Seen, View
<1>3. \A t \in Sources : up[t] <= up'[t] /\ up[t] \in Nat /\ up'[t] \in Nat
  BY <1>1, Nats
<1>4. Ordered' /\ \A t \in Sources : snap'[t] <= up'[t]
  <2>1. ASSUME NEW t \in Sources PROVE Seen[t] <= up'[t] /\ snap[t] <= up'[t]
    <3>1. Seen[t] <= up[t] /\ snap[t] <= up[t]
      BY DEF HonestInv, Ordered, SnapCovers
    <3>. QED
      BY <1>3, <3>1, Nats
  <2>. QED
    BY <1>1, <1>2, <2>1 DEF HonestInv, Ordered
<1>5. SnapCovers'
  BY <1>1, <1>2, <1>4 DEF HonestInv, SnapCovers
<1>6. RowsCovered' /\ HeldIsOld' /\ SessionSmall' /\ Shape(todo')
  BY <1>1, <1>2 DEF HonestInv, RowsCovered, HeldIsOld, SessionSmall
<1>. QED
  BY <1>4, <1>5, <1>6 DEF HonestInv

LEMMA OthersHonest ==
    ASSUME Inv, HonestInv, Inv', OthersChange PROVE HonestInv'
<1>1. UNCHANGED <<up, db, todo, snap, held, own>>
  BY DEF OthersChange
<1>. QED
  BY <1>1, SameHonest

LEMMA AgeHonest ==
    ASSUME Inv, HonestInv, Inv', NEW s \in Sources, Age(s) PROVE HonestInv'
<1>1. /\ todo = <<>> /\ db' = [db EXCEPT ![s].fresh = FALSE]
      /\ UNCHANGED <<up, todo, snap, held, own>>
  BY DEF Age
<1>2. own = <<>> /\ held = <<>>
  BY <1>1 DEF HonestInv, SessionSmall
<1>. DEFINE row == [db[s] EXCEPT !.fresh = FALSE]
<1>3. row.val = Stored[s] /\ Stored[s] \in Nat /\ Stored[s] <= up[s]
  BY HonestDb, Nats DEF Inv, RowsOK, Honest, SourceRows, Stored, DbFine
<1>4. Strict /\ s = "prices" => row.val = 0
  BY <1>3, HonestDb DEF DbFine
<1>5. db' = [db EXCEPT ![s] = row]
  BY <1>1
<1>. HIDE DEF row
<1>6. DbFine'
  <2>1. row.val \in Nat /\ Stored[s] <= row.val /\ row.val <= up[s] /\ up' = up
    BY <1>1, <1>3
  <2>. QED
    BY <1>4, <1>5, <2>1, DbPut
<1>7. Ordered' /\ RowsCovered'
  BY <1>1, <1>2, <1>6, CleanView
<1>8. SnapCovers' /\ SessionSmall' /\ HeldIsOld' /\ Shape(todo')
  BY <1>1, <1>2, EmptyDomain DEF HonestInv, SnapCovers, SessionSmall, HeldIsOld
<1>. QED
  BY <1>7, <1>8 DEF HonestInv

-----------------------------------------------------------------------------
(* The invariant of every unforced job.                                    *)

LEMMA HonestInit == Init => HonestInv
<1>. SUFFICES ASSUME Init PROVE HonestInv
  OBVIOUS
<1>1. todo = <<>> /\ own = <<>> /\ held = <<>> /\ snap = up /\ up = [s \in Sources |-> 1]
  BY DEF Init
<1>2. \A s \in Sources : db[s].val = 0 /\ View(s).val = 0
  BY <1>1, EmptyDomain, FinancialsIn DEF Init, EmptyRow, View
<1>3. Ordered
  BY <1>1, <1>2 DEF Ordered, Stored, Seen
<1>4. RowsCovered
  <2>1. \A d \in Derived : db[d].hash[1] # "inputs"
    BY DEF Init, EmptyRow, Datasets, NoHash
  <2>. QED
    BY <1>1, <2>1, EmptyDomain DEF RowsCovered, Covered
<1>5. Shape(todo) /\ SnapCovers /\ SessionSmall /\ HeldIsOld
  BY <1>1, EmptyShape, EmptyDomain DEF SnapCovers, SessionSmall, HeldIsOld
<1>. QED
  BY <1>3, <1>4, <1>5 DEF HonestInv

LEMMA HonestNext == Inv /\ HonestInv /\ [Next]_vars => (Inv /\ HonestInv)'
<1>. SUFFICES ASSUME Inv, HonestInv, [Next]_vars PROVE Inv' /\ HonestInv'
  OBVIOUS
<1>1. Inv'
  BY NextInv
<1>2. CASE StartJob(FALSE)
  BY <1>1, <1>2, StartJobHonest
<1>3. CASE Work
  BY <1>1, <1>3, OpenSessionHonest, RefreshStatementsHonest, RunDatasetJobHonest, FetchOneHonest,
     FetchMarketHonest, RefreshDerivedHonest, CommitSessionHonest, CompleteJobHonest DEF Work
<1>4. CASE Failure
  BY <1>1, <1>4, FailureHonest
<1>5. CASE \E s \in Sources : Publish(s) \/ Age(s)
  BY <1>1, <1>5, PublishHonest, AgeHonest
<1>6. CASE OthersChange
  BY <1>1, <1>6, OthersHonest
<1>7. CASE UNCHANGED vars
  BY <1>1, <1>7, SameHonest DEF vars
<1>. QED
  BY <1>1, <1>2, <1>3, <1>4, <1>5, <1>6, <1>7 DEF Next

-----------------------------------------------------------------------------
(* From the invariant to the property.                                     *)

\* The hash of a row that will be taken for current is made of the stored
\* hashes, and those of fetched data are the stored versions.
LEMMA TakenHash ==
    ASSUME Inv, NEW e \in Derived, TakenForCurrent(e)
    PROVE  /\ db[e].hash = <<"inputs", db[e].hash[2]>>
           /\ \A i \in FingerprintOf(e) : db[e].hash[2][i] = db[i].hash
           /\ \A s \in FingerprintOf(e) \cap Sources : VersionOf(db[e].hash[2][s]) = Stored[s]
<1>. DEFINE f == [i \in FingerprintOf(e) |-> CommittedHashes[i]]
<1>1. FingerprintOf(e) \subseteq Datasets
  BY DEF FingerprintOf
<1>2. \A i \in FingerprintOf(e) : db[i].hash # NoHash /\ CommittedHashes[i] = db[i].hash
  BY <1>1 DEF TakenForCurrent, NoHash, CommittedHashes
<1>3. db[e].hash = <<"inputs", f>>
  BY <1>2 DEF TakenForCurrent, Fingerprint
<1>4. \A i \in FingerprintOf(e) : f[i] = db[i].hash
  BY <1>2
<1>. HIDE DEF f
<1>5. \A s \in FingerprintOf(e) \cap Sources : VersionOf(f[s]) = Stored[s]
  <2>. SUFFICES ASSUME NEW s \in FingerprintOf(e) \cap Sources
                PROVE  VersionOf(db[s].hash) = db[s].val
    BY <1>4 DEF Stored
  <2>1. db[s].hash # NoHash /\ ~PartialHash(s, db[s].hash)
    BY <1>2 DEF TakenForCurrent
  <2>. QED
    BY <2>1 DEF Inv, RowsOK, Honest
<1>. QED
  BY <1>3, <1>4, <1>5

\* A payload over fetched data that its fingerprint covers is the current one.
LEMMA Pinned ==
    ASSUME Inv, NEW e \in Derived, NEW val, NEW g, Between(e, val, g, Stored),
           \A s \in FingerprintOf(e) \cap Sources : VersionOf(g[s]) = Stored[s],
           ReadBy(e) \subseteq FingerprintOf(e) \cap Sources
    PROVE  val = <<"computed", [i \in ReadBy(e) |-> db[i].val]>>
<1>1. \A s \in ReadBy(e) : val[2][s] = db[s].val
  <2>. SUFFICES ASSUME NEW s \in ReadBy(e) PROVE val[2][s] = db[s].val
    OBVIOUS
  <2>1. Stored[s] <= val[2][s] /\ val[2][s] <= Stored[s] /\ val[2][s] \in Nat
    BY DEF Between
  <2>2. Stored[s] \in Nat /\ Stored[s] = db[s].val
    BY Nats DEF Stored
  <2>. QED
    BY <2>1, <2>2
<1>2. val = <<"computed", [i \in ReadBy(e) |-> val[2][i]]>>
  BY DEF Between
<1>3. [i \in ReadBy(e) |-> val[2][i]] = [i \in ReadBy(e) |-> db[i].val]
  BY <1>1
<1>. QED
  BY <1>2, <1>3

\* The caches that others are computed from are in the fingerprint of those,
\* and cover all that they read themselves.
LEMMA ReadDerived ==
    ASSUME NEW d \in Derived, NEW i \in ReadBy(d) \cap Derived
    PROVE  i \in FingerprintOf(d) /\ ReadBy(i) \subseteq FingerprintOf(i) \cap Sources
<1>1. d \in DerivedDatasets /\ i \in DerivedDatasets /\ i \in Datasets
  BY DatasetAssumption DEF Datasets
<1>2. \/ d = "company_research_brief" /\ i = "capital_structure"
      \/ d = "charts_dashboard" /\ i = "earnings_models"
  BY <1>1 DEF ReadBy, DerivedDatasets, SourceDatasets
<1>3. CASE d = "company_research_brief" /\ i = "capital_structure"
  <2>1. i \in FingerprintOf(d)
    BY <1>1, <1>3 DEF FingerprintOf
  <2>2. ReadBy(i) = (Datasets \cup {"others"}) \cap {"financials"} /\ FingerprintOf(i) = Datasets \cap {"financials"}
    BY <1>3 DEF ReadBy, FingerprintOf
  <2>. QED
    BY <2>1, <2>2, DatasetAssumption DEF Datasets, DerivedDatasets, SourceDatasets
<1>4. CASE d = "charts_dashboard" /\ i = "earnings_models"
  <2>1. i \in FingerprintOf(d)
    BY <1>1, <1>4 DEF FingerprintOf
  <2>2. /\ ReadBy(i) = (Datasets \cup {"others"}) \cap {"financials", "earnings"}
        /\ FingerprintOf(i) = Datasets \cap {"financials", "earnings"}
    BY <1>4 DEF ReadBy, FingerprintOf
  <2>. QED
    BY <2>1, <2>2, DatasetAssumption DEF Datasets, DerivedDatasets, SourceDatasets
<1>. QED
  BY <1>2, <1>3, <1>4

LEMMA HonestHolds ==
    ASSUME Inv, HonestInv
    PROVE  HashIsHonest
<1>. SUFFICES ASSUME NEW d \in Derived,
                     \A i \in {d} \cup (FingerprintOf(d) \cap Derived) : TakenForCurrent(i)
              PROVE  ComputedFromRows(d)
  BY DEF HashIsHonest, ChainTakenForCurrent
<1>. DEFINE f == db[d].hash[2]
            val == db[d].val
<1>1. /\ db[d].hash[1] = "inputs" /\ \A i \in FingerprintOf(d) : f[i] = db[i].hash
      /\ \A s \in FingerprintOf(d) \cap Sources : VersionOf(f[s]) = Stored[s]
  <2>1. TakenForCurrent(d)
    OBVIOUS
  <2>. HIDE DEF f
  <2>. QED
    BY <2>1, TakenHash DEF f
<1>2. /\ Below(d, f, Stored) /\ Between(d, val, f, Stored)
      /\ \A i \in FingerprintOf(d) \cap Derived :
            f[i][1] = "inputs" => Through(d, i, val, f[i][2], Stored)
  BY <1>1 DEF HonestInv, RowsCovered, Covered
<1>3. ASSUME NEW i \in FingerprintOf(d) \cap Derived
      PROVE  /\ Through(d, i, val, f[i][2], Stored)
             /\ \A s \in FingerprintOf(i) \cap Sources : VersionOf(f[i][2][s]) = Stored[s]
  <2>1. TakenForCurrent(i) /\ f[i] = db[i].hash
    BY <1>1
  <2>2. f[i][1] = "inputs"
        /\ \A s \in FingerprintOf(i) \cap Sources : VersionOf(f[i][2][s]) = Stored[s]
    BY <2>1, TakenHash
  <2>. QED
    BY <1>2, <2>2
<1>. HIDE DEF f, val
<1>4. ASSUME NEW s \in ReadBy(d) \cap Sources PROVE val[2][s] = db[s].val
  <2>1. val[2][s] \in Nat /\ val[2][s] <= Stored[s] /\ Stored[s] \in Nat /\ Stored[s] = db[s].val
    BY <1>2, Nats DEF Between, Stored
  <2>2. CASE s = "prices" /\ Strict
    <3>1. Stored[s] = 0
      BY <2>2, HonestDb DEF DbFine
    <3>. QED
      BY <2>1, <3>1
  <2>3. CASE s \in FingerprintOf(d)
    <3>1. Stored[s] <= val[2][s]
      BY <1>1, <1>2, <2>3 DEF Between
    <3>. QED
      BY <2>1, <3>1
  <2>4. ASSUME NEW i \in FingerprintOf(d) \cap Derived, s \in FingerprintOf(i)
        PROVE  val[2][s] = db[s].val
    <3>1. Stored[s] <= val[2][s]
      BY <1>3, <2>4 DEF Through
    <3>. QED
      BY <2>1, <3>1
  <2>. QED
    BY <2>2, <2>3, <2>4, CoverAssumption
<1>5. ASSUME NEW i \in ReadBy(d) \cap Derived PROVE val[2][i] = db[i].val
  <2>1. i \in FingerprintOf(d) /\ ReadBy(i) \subseteq FingerprintOf(i) \cap Sources
    BY ReadDerived
  <2>2. /\ Between(i, val[2][i], f[i][2], Stored)
        /\ \A s \in FingerprintOf(i) \cap Sources : VersionOf(f[i][2][s]) = Stored[s]
    BY <1>3, <2>1 DEF Through
  <2>3. val[2][i] = <<"computed", [j \in ReadBy(i) |-> db[j].val]>>
    BY <2>1, <2>2, Pinned
  <2>4. db[i].hash[1] = "inputs"
        /\ \A s \in FingerprintOf(i) \cap Sources : VersionOf(db[i].hash[2][s]) = Stored[s]
    BY <2>1, TakenHash
  <2>5. Between(i, db[i].val, db[i].hash[2], Stored)
    BY <2>4 DEF HonestInv, RowsCovered, Covered
  <2>6. db[i].val = <<"computed", [j \in ReadBy(i) |-> db[j].val]>>
    BY <2>1, <2>4, <2>5, Pinned
  <2>. QED
    BY <2>3, <2>6
<1>6. \A i \in ReadBy(d) \cap Datasets : val[2][i] = db[i].val
  BY <1>4, <1>5 DEF Datasets
<1>7. val[1] = "computed"
  BY <1>2 DEF Between
<1>8. val # Nothing
  BY <1>7 DEF Nothing
<1>. QED
  BY <1>6, <1>8 DEF ComputedFromRows, val

\* A derived cache that the next job will take for unchanged, together with the
\* caches its fingerprint goes through, was computed from the versions of the
\* company's datasets that are in the database: for every choice of datasets
\* that CoverAssumption admits, in strict mode or not, and whatever failed, was
\* swallowed, rolled back or published in between ("dependent inputs are
\* unchanged" in refresh_orchestrator.py).  Of the data that is in no
\* fingerprint (ReadBy, "others") it promises nothing.
THEOREM UnchangedMeansCurrent == Spec => []HashIsHonest
<1>1. Spec => [](Inv /\ HonestInv)
  BY InitInv, HonestInit, HonestNext, PTL DEF Spec
<1>2. Inv /\ HonestInv => HashIsHonest
  BY HonestHolds
<1>. QED
  BY <1>1, <1>2, PTL
=============================================================================
