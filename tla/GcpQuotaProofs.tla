--------------------------- MODULE GcpQuotaProofs ---------------------------
(***************************************************************************)
(* The GCP quota collector keeps its types and implements QuotaExport, for *)
(* every list of the project and of its regions.                           *)
(***************************************************************************)
EXTENDS GcpQuota, QuotaLoopProofs

Scans == [pc : {"idle", "project", "project cached", "regions cached"}, todo : Seq(Entries)]

ScanInv == scan \in [Scrapes -> Scans] /\ account \in [Quotas -> Readings]

\* The pairs of a series and an object that Collect may have made of a result.
Measured == {<<SeriesOf(w[1], w[2]), w[2]>> : w \in written}

\* The labels of a result whose usage is set are those of its limit.
LabelsKept ==
    \A r \in Requests : \A k \in DOMAIN request[r].at :
        request[r].at[k] = SeriesOf(k, request[r].items[k])

GcpInv ==
    /\ DownIsEmpty /\ ScanInv /\ CacheCovered /\ LabelsKept
    /\ written \subseteq Metrics \X Objects
    /\ CollectInv(Measured, TRUE)

-----------------------------------------------------------------------------
LEMMA GcpInit == Init => GcpInv
<1> SUFFICES ASSUME Init PROVE GcpInv
  OBVIOUS
<1>1. DownIsEmpty /\ CacheCovered /\ written = {}
  BY InitLoop DEF Init
<1>4. CollectInv(Measured, TRUE)
  BY CollectStarts DEF Init, LoopInit
<1>5. LabelsKept
  BY NothingIn DEF Init, LoopInit, LabelsKept, NoRequests, IdleRequest
<1>2. IdleScan \in Scans
  BY DEF IdleScan, Scans
<1>3. ScanInv
  BY <1>2 DEF Init, ScanInv
<1>6. QED
  BY <1>1, <1>3, <1>4, <1>5 DEF GcpInv

\* What is measured for the copied results of a request.
LEMMA ItemsMeasured ==
  ASSUME GcpInv, NEW r \in Requests, NEW m \in DOMAIN request[r].items
  PROVE  <<SeriesOf(m, request[r].items[m]), request[r].items[m]>> \in Measured
<1>1. <<m, request[r].items[m]>> \in written
  BY DEF GcpInv, CollectInv, RequestsOK
<1>2. QED
  BY <1>1 DEF Measured

\* A step of Collect is one of the loop's, with a result and its labels.
LEMMA GcpCollects ==
  ASSUME GcpInv, NEW r \in Requests, Collect(r)
  PROVE  /\ CollectInv(Measured, TRUE)' /\ LabelsKept'
         /\ UNCHANGED <<scrapeVars, account, scan>>
         /\ MapsTo(Measured, r)
<1>1. PICK key, labels :
         /\ CollectStep(TRUE, r, key, labels)
         /\ key \in DOMAIN request[r].items => labels = SeriesOf(key, request[r].items[key])
  <2>1. ASSUME NEW m, SetUsage(r, m, SeriesOf(m, request[r].items[m]))
                        \/ SetLimit(r, m, SeriesOf(m, request[r].items[m]))
        PROVE  CollectStep(TRUE, r, m, SeriesOf(m, request[r].items[m]))
    BY <2>1 DEF CollectStep
  <2>2. CASE \E m : SetUsage(r, m, SeriesOf(m, request[r].items[m]))
                      \/ SetLimit(r, m, SeriesOf(m, request[r].items[m]))
    BY <2>1, <2>2
  <2>3. CASE Arrive(r) \/ Finish(r) \/ CopyItems(r) \/ LimitsThenUsages(r)
    <3>1. \A m, x : CollectStep(TRUE, r, m, x)
      BY <2>3 DEF CollectStep
    <3>2. QED
      BY <3>1
  <2>4. QED
    BY <2>2, <2>3 DEF Collect
<1>2. key \in DOMAIN request[r].items => <<labels, request[r].items[key]>> \in Measured
  BY <1>1, ItemsMeasured
<1>3. key \in DOMAIN request[r].at => request[r].at[key] = labels
  BY <1>1 DEF GcpInv, CollectInv, RequestsOK, IsRequest, LabelsKept
<1>4. UNCHANGED Measured
  BY <1>1 DEF CollectStep, Measured, Arrive, CopyItems, Finish, SetUsage, SetLimit,
     LimitsThenUsages, UsagesThenLimits, EmitFirst, Respond, scrapeVars
<1>5. PICK M : M = Measured
  OBVIOUS
<1>6. CollectInv(M, TRUE)' /\ UNCHANGED scrapeVars /\ MapsTo(M, r)
  BY <1>1, <1>2, <1>3, <1>5, CollectSteps DEF GcpInv
<1>7. LabelsKept'
  <2>0. KeepsLabels(r, key, labels)
    BY <1>1, <1>5, CollectAt DEF GcpInv
  <2>1. ASSUME NEW q \in Requests, NEW k \in DOMAIN request'[q].at
        PROVE  request'[q].at[k] = SeriesOf(k, request'[q].items[k])
    BY <1>1, <2>0, <2>1 DEF GcpInv, LabelsKept, KeepsLabels
  <2>2. QED
    BY <2>1 DEF LabelsKept
<1>8. QED
  BY <1>4, <1>5, <1>6, <1>7 DEF Collect

\* Every step is one of the loop's steps.
LEMMA GcpControl ==
  ASSUME GcpInv, [Next]_gcpVars
  PROVE  DownIsEmpty'
<1>1. ASSUME NEW r \in Requests, Collect(r) PROVE UNCHANGED scrapeVars
  BY <1>1, GcpCollects
<1>2. \/ \E s \in Scrapes : Begin(s) \/ Return(s) \/ (s \in inFlight /\ Misses(s))
      \/ \E key, object : CacheSet(key, object)
      \/ Expire \/ AccountChanged \/ Die \/ UNCHANGED scrapeVars
  BY <1>1 DEF Next, gcpVars, loopVars, Scrape, BeginScrape, CallFails, GetProject, GetRegionList,
         CacheQuota, ScrapeReturns, AccountChanges
<1>3. QED
  BY <1>2, LoopSteps DEF GcpInv

\* An answer reads each quota of a list as the account has it.
LEMMA AnswerType ==
  ASSUME ScanInv, NEW list \in Seq(Quotas)
  PROVE  Answer(list) \in Seq(Entries)
<1>1. \A i \in DOMAIN list :
         [metric |-> list[i].metric, from |-> list[i].region,
          current |-> account[list[i]].current, limit |-> account[list[i]].limit] \in Entries
  BY DEF Entries, ScanInv, Metrics, Regions, Usages, Limits
<1>2. Len(list) \in Nat /\ DOMAIN list = 1 .. Len(list)
  OBVIOUS
<1>3. QED
  BY <1>1, <1>2 DEF Answer

LEMMA ElementOf ==
  ASSUME NEW S, NEW q \in Seq(S), NEW i \in DOMAIN q
  PROVE  q[i] \in S
OBVIOUS

LEMMA ScanFields ==
  ASSUME ScanInv, NEW s \in Scrapes
  PROVE  scan[s] \in Scans /\ scan[s].todo \in Seq(Entries)
BY DEF ScanInv, Scans

LEMMA GcpScan ==
  ASSUME GcpInv, [Next]_gcpVars
  PROVE  ScanInv'
<1> ScanInv
  BY DEF GcpInv
<1>0. IdleScan \in Scans
  BY DEF IdleScan, Scans
<1>1. ASSUME NEW s \in Scrapes, BeginScrape(s) PROVE ScanInv'
  BY <1>1 DEF BeginScrape, ScanInv, Scans
<1>2. ASSUME NEW s \in Scrapes, CallFails(s) PROVE ScanInv'
  BY <1>0, <1>2 DEF CallFails, ScanInv
<1>3. ASSUME NEW s \in Scrapes, GetProject(s) PROVE ScanInv'
  <2>1. [pc |-> "project cached", todo |-> Answer(ProjectQuotas)] \in Scans
    BY AnswerType, QuotasAssumption DEF Scans
  <2>2. QED
    BY <1>3, <2>1 DEF GetProject, ScanInv
<1>4. ASSUME NEW s \in Scrapes, GetRegionList(s) PROVE ScanInv'
  <2>1. [pc |-> "regions cached", todo |-> Answer(RegionQuotas)] \in Scans
    BY AnswerType, QuotasAssumption DEF Scans
  <2>2. QED
    BY <1>4, <2>1 DEF GetRegionList, ScanInv
<1>5. ASSUME NEW s \in Scrapes, CacheQuota(s) PROVE ScanInv'
  <2>1. Tail(scan[s].todo) \in Seq(Entries)
    BY <1>5, ScanFields DEF CacheQuota
  <2>2. [scan[s] EXCEPT !.todo = Tail(@)] \in Scans
    BY <2>1, ScanFields DEF Scans
  <2>3. QED
    BY <1>5, <2>2 DEF CacheQuota, ScanInv
<1>6. ASSUME NEW s \in Scrapes, ScrapeReturns(s) PROVE ScanInv'
  BY <1>0, <1>6 DEF ScrapeReturns, ScanInv
<1>7. CASE (\E r \in Requests : Collect(r)) \/ (Expire /\ UNCHANGED <<account, scan>>)
  BY <1>7 DEF Collect, ScanInv
<1>8. CASE AccountChanges
  BY <1>8 DEF AccountChanges, ScanInv
<1>9. CASE UNCHANGED gcpVars
  BY <1>9 DEF gcpVars, ScanInv
<1>10. QED
  BY <1>1, <1>2, <1>3, <1>4, <1>5, <1>6, <1>7, <1>8, <1>9 DEF Next, Scrape

-----------------------------------------------------------------------------
(* Each step in terms of QuotaExport *)

MeasureStep ==
    /\ written \subseteq written' /\ written' \subseteq Metrics \X Objects
    /\ UNCHANGED collectVars

RestartStep ==
    /\ written' = {}
    /\ request' = NoRequests /\ gaugeCurrent' = Empty /\ gaugeLimit' = Empty /\ overlapped' = FALSE

LEMMA GcpExport ==
  ASSUME GcpInv, [Next]_gcpVars
  PROVE  \/ CacheCovered' /\ MeasureStep
         \/ CacheCovered' /\ RestartStep
         \/ UNCHANGED <<cache, written>> /\ \E r \in Requests : Collect(r)
<1> USE DEF GcpInv
<1>1. ASSUME NEW s \in Scrapes, CacheQuota(s), ~UNCHANGED loopVars
      PROVE  CacheCovered' /\ MeasureStep
  <2> DEFINE e == Head(scan[s].todo)
  <2>1. Used(e) /\ CacheSet(e.metric, ObjectOf(e))
    BY <1>1 DEF CacheQuota
  <2>2. e \in Entries
    BY <1>1, ScanFields DEF CacheQuota
  <2>3. e.metric \in Metrics /\ ObjectOf(e) \in Objects
    BY <2>1, <2>2 DEF Entries, Objects, Used, ObjectOf
  <2>4. QED
    BY <2>1, <2>3, SetCovers DEF MeasureStep
<1>2. CASE \E r \in Requests : Collect(r)
  BY <1>2, GcpCollects DEF scrapeVars
<1>3. ASSUME NEW s \in Scrapes, CallFails(s) PROVE CacheCovered' /\ RestartStep
  BY <1>3, DieCovers DEF CallFails, RestartStep, Die
<1>4. CASE Expire
  BY <1>4, ExpireCovers DEF MeasureStep
<1>5. CASE UNCHANGED <<cache, written, collectVars>>
  BY <1>5, SameCovers DEF MeasureStep
<1>6. QED
  BY <1>1, <1>2, <1>3, <1>4, <1>5 DEF Next, gcpVars, loopVars, scrapeVars, Scrape, BeginScrape, Begin,
     GetProject, GetRegionList, ScrapeReturns, Return, AccountChanges, AccountChanged

LEMMA MeasuredGrows ==
  ASSUME NEW W, NEW V, W \subseteq V
  PROVE  {<<SeriesOf(w[1], w[2]), w[2]>> : w \in W} \subseteq {<<SeriesOf(w[1], w[2]), w[2]>> : w \in V}
OBVIOUS

LEMMA GcpMeasures ==
  ASSUME GcpInv, MeasureStep PROVE CollectInv(Measured, TRUE)' /\ LabelsKept'
<1>1. PICK M, N : M = Measured /\ N = Measured'
  OBVIOUS
<1>2. M \subseteq N
  BY <1>1, MeasuredGrows DEF Measured, MeasureStep
<1>3. CollectInv(N, TRUE)'
  BY <1>1, <1>2, CollectStays DEF GcpInv, MeasureStep
<1>4. QED
  BY <1>1, <1>3 DEF GcpInv, LabelsKept, MeasureStep, collectVars

LEMMA GcpRestarts ==
  ASSUME RestartStep PROVE CollectInv(Measured, TRUE)' /\ LabelsKept'
<1>1. PICK N : N = Measured'
  OBVIOUS
<1>2. CollectInv(N, TRUE)'
  BY CollectRestarts DEF RestartStep
<1>3. \A r \in Requests : DOMAIN request'[r].at = {}
  <2>1. IdleRequest.at = Empty
    BY DEF IdleRequest
  <2>2. \A r \in Requests : request'[r] = IdleRequest
    BY DEF RestartStep, NoRequests
  <2>3. QED
    BY <2>1, <2>2, NothingIn
<1>4. QED
  BY <1>1, <1>2, <1>3 DEF LabelsKept

LEMMA GcpStep == GcpInv /\ [Next]_gcpVars => GcpInv'
<1> SUFFICES ASSUME GcpInv, [Next]_gcpVars PROVE GcpInv'
  OBVIOUS
<1>1. DownIsEmpty' /\ ScanInv'
  BY GcpControl, GcpScan
<1>2. CASE CacheCovered' /\ MeasureStep
  BY <1>1, <1>2, GcpMeasures DEF GcpInv, MeasureStep
<1>3. CASE CacheCovered' /\ RestartStep
  BY <1>1, <1>3, GcpRestarts DEF GcpInv, RestartStep
<1>4. CASE UNCHANGED <<cache, written>> /\ \E r \in Requests : Collect(r)
  BY <1>1, <1>4, GcpCollects, SameCovers DEF GcpInv
<1>5. QED
  BY <1>2, <1>3, <1>4, GcpExport

LEMMA SeriesType ==
  ASSUME NEW m \in Metrics, NEW object
  PROVE  SeriesOf(m, object) \in Series
<1>1. CASE object.from # NoRegion
  BY <1>1 DEF SeriesOf, Series
<1>2. CASE object.from = NoRegion
  BY <1>2 DEF SeriesOf, Series
<1>3. QED
  BY <1>1, <1>2

\* What was measured was measured for a series.
LEMMA MeasuredType ==
  ASSUME NEW W, W \subseteq Metrics \X Objects
  PROVE  {<<SeriesOf(w[1], w[2]), w[2]>> : w \in W} \subseteq Series \X Objects
<1>1. ASSUME NEW w \in W PROVE <<SeriesOf(w[1], w[2]), w[2]>> \in Series \X Objects
  BY SeriesType
<1>2. QED
  BY <1>1

LEMMA GcpTypes == GcpInv => TypeOK
<1> SUFFICES ASSUME GcpInv PROVE TypeOK
  OBVIOUS
<1>1. Measured \subseteq Series \X Objects
  BY MeasuredType DEF GcpInv, Measured
<1>2. PICK M : M = Measured
  OBVIOUS
<1>3. LoopTypeOK(Metrics, Objects, Series)
  BY <1>1, <1>2, LoopTypes DEF GcpInv
<1>4. ASSUME NEW s \in Scrapes
      PROVE  /\ scan[s].pc \in {"idle", "project", "project cached", "regions cached"}
             /\ \A i \in DOMAIN scan[s].todo : scan[s].todo[i] \in Entries
  <2>1. scan[s] \in Scans /\ scan[s].todo \in Seq(Entries)
    BY ScanFields DEF GcpInv
  <2>2. scan[s].pc \in {"idle", "project", "project cached", "regions cached"}
    BY <2>1 DEF Scans
  <2>3. \A i \in DOMAIN scan[s].todo : scan[s].todo[i] \in Entries
    BY <2>1, ElementOf
  <2>4. QED
    BY <2>2, <2>3
<1>5. account \in [Quotas -> Readings]
  BY DEF GcpInv, ScanInv
<1>6. QED
  BY <1>3, <1>4, <1>5 DEF TypeOK

-----------------------------------------------------------------------------
\* The collector keeps its types, and caches no unused quota.
THEOREM GcpTypeCorrect == Spec => []TypeOK
<1>1. Spec => []GcpInv
  BY GcpInit, GcpStep, PTL DEF Spec
<1>2. QED
  BY <1>1, GcpTypes, PTL

\* Whatever region caches its metric last, whenever entries expire and however
\* many requests are in flight, an answer holds only what was measured, under a
\* series of the kind that was measured; and as long as requests come one at a
\* time it pairs each usage with the limit measured with it, for every series
\* there is: the collector implements QuotaExport.
THEOREM GcpImplementsExport == Spec => ExportSpec
<1> DEFINE vars == <<Measured, DOMAIN gaugeCurrent, Answers, overlapped>>
<1>1. Init => Export!Init
  <2> SUFFICES ASSUME Init PROVE Export!Init
    OBVIOUS
  <2>1. Measured = {} /\ DOMAIN gaugeCurrent = {} /\ overlapped = FALSE
    BY NothingIn DEF Init, LoopInit, Measured
  <2>2. Answers = [r \in Requests |-> NoAnswer]
    BY DEF Init, LoopInit, Answers, NoRequests, IdleRequest
  <2>3. QED
    BY <2>1, <2>2 DEF Export!Init, Measured, NoAnswer, Empty, Export!NoAnswers, Export!NoAnswer,
                      Export!Nothing
<1>2. GcpInv /\ [Next]_gcpVars => [Export!Next]_vars
  <2> SUFFICES ASSUME GcpInv, [Next]_gcpVars PROVE [Export!Next]_vars
    OBVIOUS
  <2>1. Measured' \subseteq Series \X Objects
    BY GcpStep, MeasuredType DEF GcpInv, Measured
  <2>2. CASE MeasureStep
    <3>1. Measured \subseteq Measured'
      BY <2>2, MeasuredGrows DEF MeasureStep, Measured
    <3>2. UNCHANGED <<DOMAIN gaugeCurrent, Answers, overlapped>>
      BY <2>2 DEF MeasureStep, collectVars, Answers
    <3>3. QED
      BY <2>1, <3>1, <3>2 DEF Export!Next, Export!Measure, Measured
  <2>3. CASE RestartStep
    <3>1. Measured' = {} /\ DOMAIN gaugeCurrent' = {} /\ overlapped' = FALSE
      BY <2>3, NothingIn DEF RestartStep, Measured
    <3>2. Answers' = [r \in Requests |-> NoAnswer]
      BY <2>3 DEF RestartStep, Answers, NoRequests, IdleRequest
    <3>3. QED
      BY <3>1, <3>2 DEF Export!Next, Export!Restart, Measured, NoAnswer, Empty,
                        Export!NoAnswers, Export!NoAnswer, Export!Nothing
  <2>4. CASE UNCHANGED <<cache, written>> /\ \E r \in Requests : Collect(r)
    <3>1. PICK r \in Requests : MapsTo(Measured, r) /\ UNCHANGED Measured
      BY <2>4, GcpCollects DEF Measured
    <3>2. CASE ShowsMore(Measured)
      BY <3>1, <3>2 DEF ShowsMore, Export!Next, Export!Show, Measured
    <3>3. CASE Nobody
      BY <3>1, <3>3 DEF Nobody, Export!Next, Export!RequestsOverlap, Measured
    <3>4. CASE Forgets(r)
      BY <3>1, <3>4 DEF Forgets, Export!Next, Export!Finish, Measured, NoAnswer, Empty,
                        Export!NoAnswer, Export!Nothing
    <3>5. CASE AnswersWith(Measured, r, Answers'[r])
      BY <3>1, <3>5 DEF AnswersWith, AnswerMeasured, Export!Next, Export!Respond, Measured,
                        Export!EachIsMeasured, Export!PairsAreMeasured
    <3>6. QED
      BY <3>1, <3>2, <3>3, <3>4, <3>5 DEF MapsTo
  <2>5. QED
    BY <2>2, <2>3, <2>4, GcpExport
<1>3. QED
  BY <1>1, <1>2, GcpInit, GcpStep, PTL DEF Spec, ExportSpec, Export!Spec, Measured

-----------------------------------------------------------------------------
(* The cache shows the account *)

\* The object of quota q, and the entries of q's metric, in an account A.
CorrectObject(A, q) == [from |-> q.region, current |-> A[q].current, limit |-> A[q].limit]

\* The quotas that are used, and cached under a metric of their own.
Lone(A) == {q \in Quotas : A[q].current # 0 /\ \A p \in Quotas : p.metric = q.metric => p = q}

Shows(A, C, q) == q.metric \in DOMAIN C => C[q.metric] = CorrectObject(A, q)

Exact(A, e) == \A q \in Lone(A) : e.metric = q.metric => ObjectOf(e) = CorrectObject(A, q)

\* A scrape in the state sc has still to come to the quota q.
ToCome(sc, q) ==
    \/ sc.pc = "project"
    \/ sc.pc = "project cached" /\ \E i \in DOMAIN RegionQuotas : RegionQuotas[i] = q
    \/ \E i \in DOMAIN sc.todo : sc.todo[i].metric = q.metric

SlotsIdle == \A s \in Scrapes \ inFlight : scan[s] = IdleScan

TodoExact ==
    Knowing => \A s \in Scrapes : \A i \in DOMAIN scan[s].todo : Exact(account, scan[s].todo[i])

Progress ==
    \A s \in inFlight \ stale : \A q \in Lone(account) :
        ToCome(scan[s], q) \/ Shows(account, cache, q)

Mirror == settled => \A q \in Lone(account) : Shows(account, cache, q)

MirrorInv == SlotsIdle /\ TodoExact /\ Progress /\ Mirror

LEMMA SameMirror ==
  ASSUME MirrorInv, UNCHANGED <<account, scan, cache, inFlight, stale, settled>>
  PROVE  MirrorInv'
BY DEF MirrorInv, SlotsIdle, TodoExact, Knowing, Progress, Mirror

LEMMA NoElements ==
  /\ \A q : q = <<>> => DOMAIN q = {}
  /\ IdleScan.pc = "idle" /\ DOMAIN IdleScan.todo = {}
BY DEF IdleScan

LEMMA BeginMirror ==
  ASSUME GcpInv, MirrorInv, NEW s \in Scrapes, BeginScrape(s) PROVE MirrorInv'
<1>1. /\ scan \in [Scrapes -> Scans] /\ scan' = [scan EXCEPT ![s].pc = "project"]
      /\ UNCHANGED <<account, cache, settled>> /\ inFlight' = inFlight \cup {s}
      /\ s \notin inFlight /\ stale' \subseteq stale \cup {s} /\ stale \subseteq stale'
  BY DEF BeginScrape, Begin, GcpInv, ScanInv, DownIsEmpty
<1>2. /\ scan'[s].pc = "project" /\ scan'[s].todo = <<>>
      /\ \A t \in Scrapes : t # s => scan'[t] = scan[t]
  BY <1>1 DEF MirrorInv, SlotsIdle, IdleScan
<1>3. SlotsIdle' /\ Mirror'
  BY <1>1, <1>2 DEF MirrorInv, SlotsIdle, Mirror
<1>4. TodoExact'
  <2>1. ASSUME Knowing', NEW t \in Scrapes, NEW i \in DOMAIN scan'[t].todo
        PROVE  Exact(account, scan'[t].todo[i])
    <3>1. t # s /\ scan'[t] = scan[t]
      BY <1>2, <2>1
    <3>2. inFlight # {}
      BY <2>1, <3>1 DEF MirrorInv, SlotsIdle, IdleScan
    <3>3. Knowing
      BY <2>1, <3>2, KnowingStarts DEF BeginScrape, GcpInv
    <3>4. QED
      BY <2>1, <3>1, <3>3 DEF MirrorInv, TodoExact
  <2>2. QED
    BY <1>1, <2>1 DEF TodoExact
<1>5. Progress'
  <2>1. \A q \in Lone(account) : ToCome(scan'[s], q)
    BY <1>2 DEF ToCome
  <2>2. \A t \in inFlight' \ stale' : t \in Scrapes /\ (t = s \/ t \in inFlight \ stale)
    BY <1>1 DEF GcpInv, DownIsEmpty
  <2>3. QED
    BY <1>1, <1>2, <2>1, <2>2 DEF MirrorInv, Progress
<1>6. QED
  BY <1>3, <1>4, <1>5 DEF MirrorInv

\* The entries of an answer are the account's.
LEMMA AnswerExact ==
  ASSUME NEW list \in Seq(Quotas)
  PROVE  /\ \A i \in DOMAIN Answer(list) : Exact(account, Answer(list)[i])
         /\ DOMAIN Answer(list) = DOMAIN list
         /\ \A i \in DOMAIN list : Answer(list)[i].metric = list[i].metric
<1>1. \A i \in DOMAIN list : list[i] \in Quotas
  BY ElementOf
<1>2. QED
  BY <1>1 DEF Answer, Exact, Lone, ObjectOf, CorrectObject

\* An answer is to be cached whole, after the project that of the regions.
LEMMA GetMirror ==
  ASSUME GcpInv, MirrorInv, NEW s \in Scrapes, GetProject(s) \/ GetRegionList(s)
  PROVE  MirrorInv'
<1> DEFINE list == IF scan[s].pc = "project" THEN ProjectQuotas ELSE RegionQuotas
<1>1. /\ list \in Seq(Quotas) /\ UNCHANGED <<account, cache, inFlight, stale, settled>>
      /\ scan[s].pc \in {"project", "project cached"}
      /\ scan[s].pc = "project cached" => DOMAIN scan[s].todo = {}
  BY QuotasAssumption, NoElements DEF GetProject, GetRegionList, loopVars, scrapeVars
<1>2. /\ scan'[s].todo = Answer(list)
      /\ scan[s].pc = "project" => scan'[s].pc = "project cached"
      /\ scan[s].pc = "project cached" => scan'[s].pc = "regions cached"
      /\ \A t \in Scrapes : t # s => scan'[t] = scan[t]
  <2>1. scan \in [Scrapes -> Scans]
    BY DEF GcpInv, ScanInv
  <2>2. CASE GetProject(s)
    BY <2>1, <2>2 DEF GetProject
  <2>3. CASE GetRegionList(s)
    BY <2>1, <2>3 DEF GetRegionList
  <2>4. QED
    BY <2>2, <2>3
<1>3. SlotsIdle' /\ Mirror'
  <2>1. s \in inFlight
    <3>1. scan[s].pc # "idle"
      BY <1>1
    <3>2. QED
      BY <3>1, NoElements DEF MirrorInv, SlotsIdle
  <2>2. SlotsIdle'
    BY <1>1, <1>2, <2>1 DEF MirrorInv, SlotsIdle
  <2>3. Mirror'
    BY <1>1 DEF MirrorInv, Mirror
  <2>4. QED
    BY <2>2, <2>3
<1>4. TodoExact'
  <2>1. \A i \in DOMAIN Answer(list) : Exact(account, Answer(list)[i])
    BY <1>1, AnswerExact
  <2>2. Knowing' => Knowing
    BY <1>1 DEF Knowing
  <2>3. QED
    BY <1>1, <1>2, <2>1, <2>2 DEF MirrorInv, TodoExact
<1>5. ASSUME NEW q \in Lone(account), ToCome(scan[s], q) PROVE ToCome(scan'[s], q)
  <2>1. \/ \E i \in DOMAIN list : list[i] = q
        \/ scan[s].pc = "project" /\ \E i \in DOMAIN RegionQuotas : RegionQuotas[i] = q
    <3>1. q \in Quotas
      BY DEF Lone
    <3>2. CASE scan[s].pc = "project"
      BY <3>1, <3>2 DEF Quotas
    <3>3. CASE scan[s].pc = "project cached"
      BY <1>1, <1>5, <3>3 DEF ToCome
    <3>4. QED
      BY <1>1, <3>2, <3>3
  <2>2. ASSUME NEW i \in DOMAIN list, list[i] = q
        PROVE  i \in DOMAIN Answer(list) /\ Answer(list)[i].metric = q.metric
    BY <1>1, <2>2, AnswerExact
  <2>3. QED
    BY <1>2, <2>1, <2>2 DEF ToCome
<1>6. Progress'
  BY <1>1, <1>2, <1>5 DEF MirrorInv, Progress, GcpInv, DownIsEmpty
<1>7. QED
  BY <1>3, <1>4, <1>6 DEF MirrorInv

LEMMA TailElements ==
  ASSUME NEW S, NEW q \in Seq(S), q # <<>>
  PROVE  /\ 1 \in DOMAIN q /\ Head(q) = q[1]
         /\ \A i \in DOMAIN Tail(q) : i + 1 \in DOMAIN q /\ Tail(q)[i] = q[i + 1]
         /\ \A i \in DOMAIN q : i = 1 \/ (i - 1 \in DOMAIN Tail(q) /\ Tail(q)[i - 1] = q[i])
OBVIOUS

LEMMA CacheMirror ==
  ASSUME GcpInv, MirrorInv, NEW s \in Scrapes, CacheQuota(s) PROVE MirrorInv'
<1> DEFINE todo == scan[s].todo
           e == Head(todo)
<1>1. /\ todo \in Seq(Entries) /\ todo # <<>>
      /\ UNCHANGED <<account, inFlight, stale, settled>>
      /\ \/ Used(e) /\ CacheSet(e.metric, ObjectOf(e))
         \/ ~Used(e) /\ UNCHANGED cache
  BY ScanFields, SetShows DEF CacheQuota, loopVars, scrapeVars, GcpInv
<1>2. /\ scan'[s].pc = scan[s].pc /\ scan'[s].todo = Tail(todo)
      /\ \A t \in Scrapes : t # s => scan'[t] = scan[t]
  <2>1. scan' = [scan EXCEPT ![s].todo = Tail(@)] /\ scan \in [Scrapes -> Scans]
    BY DEF CacheQuota, GcpInv, ScanInv
  <2>2. QED
    BY <2>1 DEF Scans
<1>3. /\ \A i \in DOMAIN Tail(todo) : i + 1 \in DOMAIN todo /\ Tail(todo)[i] = todo[i + 1]
      /\ \A i \in DOMAIN todo : i = 1 \/ (i - 1 \in DOMAIN Tail(todo) /\ Tail(todo)[i - 1] = todo[i])
      /\ 1 \in DOMAIN todo /\ e = todo[1]
  BY <1>1, TailElements
<1>4. ASSUME Knowing, NEW q \in Lone(account), e.metric = q.metric
      PROVE  Shows(account, cache', q)
  <2>1. ObjectOf(e) = CorrectObject(account, q)
    <3>1. Exact(account, e)
      BY <1>3, <1>4 DEF MirrorInv, TodoExact
    <3>2. QED
      BY <1>4, <3>1 DEF Exact
  <2>2. Used(e)
    BY <2>1 DEF Used, ObjectOf, CorrectObject, Lone
  <2>3. cache'[e.metric] = ObjectOf(e)
    <3>1. CacheSet(e.metric, ObjectOf(e))
      BY <1>1, <2>2
    <3>2. QED
      BY <3>1, SetShows
  <2>4. QED
    BY <1>4, <2>1, <2>3 DEF Shows
<1>5. ASSUME NEW q \in Lone(account), e.metric # q.metric, Shows(account, cache, q)
      PROVE  Shows(account, cache', q)
  <2>1. q.metric \in DOMAIN cache' => q.metric \in DOMAIN cache /\ cache'[q.metric] = cache[q.metric]
    <3>1. CASE CacheSet(e.metric, ObjectOf(e))
      <4>1. /\ DOMAIN cache' = DOMAIN cache \cup {e.metric}
            /\ \A k \in DOMAIN cache : k # e.metric => cache'[k] = cache[k]
        BY <3>1, SetShows
      <4>2. QED
        BY <1>5, <4>1
    <3>2. QED
      BY <1>1, <3>1
  <2>2. QED
    BY <1>5, <2>1 DEF Shows
<1>6. Knowing' <=> Knowing
  BY <1>1 DEF Knowing
<1>7. SlotsIdle' /\ Mirror'
  <2>1. s \in inFlight
    BY <1>1 DEF MirrorInv, SlotsIdle, IdleScan
  <2>2. QED
    BY <1>1, <1>2, <1>4, <1>5, <2>1 DEF MirrorInv, SlotsIdle, Mirror, Knowing
<1>8. TodoExact'
  <2>1. ASSUME Knowing, NEW t \in Scrapes, NEW i \in DOMAIN scan'[t].todo
        PROVE  Exact(account, scan'[t].todo[i])
    <3>1. \A j \in DOMAIN scan[t].todo : Exact(account, scan[t].todo[j])
      BY <2>1 DEF MirrorInv, TodoExact
    <3>2. CASE t = s
      <4>1. i + 1 \in DOMAIN todo /\ scan'[t].todo[i] = todo[i + 1]
        BY <1>2, <1>3, <2>1, <3>2
      <4>2. QED
        BY <3>1, <3>2, <4>1
    <3>3. CASE t # s
      BY <1>2, <2>1, <3>1, <3>3
    <3>4. QED
      BY <3>2, <3>3
  <2>2. QED
    BY <1>1, <1>6, <2>1 DEF TodoExact
<1>9. Progress'
  <2>1. ASSUME NEW t \in inFlight \ stale, NEW q \in Lone(account)
        PROVE  ToCome(scan'[t], q) \/ Shows(account, cache', q)
    <3>1. Knowing /\ t \in Scrapes
      BY DEF Knowing, GcpInv, DownIsEmpty
    <3>2. CASE e.metric = q.metric
      BY <1>4, <3>1, <3>2
    <3>3. CASE e.metric # q.metric
      <4>1. ASSUME ToCome(scan[t], q) PROVE ToCome(scan'[t], q)
        <5>1. CASE t = s
          <6>1. ASSUME NEW i \in DOMAIN todo, todo[i].metric = q.metric
                PROVE  \E j \in DOMAIN Tail(todo) : Tail(todo)[j].metric = q.metric
            BY <1>3, <3>3, <6>1
          <6>2. QED
            BY <1>2, <4>1, <5>1, <6>1 DEF ToCome
        <5>2. CASE t # s
          BY <1>2, <3>1, <4>1, <5>2
        <5>3. QED
          BY <5>1, <5>2
      <4>2. QED
        BY <1>5, <3>3, <4>1 DEF MirrorInv, Progress
    <3>4. QED
      BY <3>2, <3>3
  <2>2. QED
    BY <1>1, <2>1 DEF Progress
<1>10. QED
  BY <1>7, <1>8, <1>9 DEF MirrorInv

\* A scrape that returns and missed nothing has come to every quota.
LEMMA ReturnMirror ==
  ASSUME GcpInv, MirrorInv, NEW s \in Scrapes, ScrapeReturns(s) PROVE MirrorInv'
<1>1. /\ UNCHANGED <<account, cache>> /\ inFlight' = inFlight \ {s} /\ stale' = stale \ {s}
      /\ s \in inFlight /\ settled' = (settled \/ s \notin stale)
      /\ scan[s].pc = "regions cached" /\ DOMAIN scan[s].todo = {}
      /\ scan'[s] = IdleScan /\ \A t \in Scrapes : t # s => scan'[t] = scan[t]
  BY NoElements DEF ScrapeReturns, Return, GcpInv, ScanInv
<1>2. \A q \in Lone(account) : ~ToCome(scan[s], q)
  BY <1>1 DEF ToCome
<1>3. SlotsIdle' /\ Mirror'
  BY <1>1, <1>2 DEF MirrorInv, SlotsIdle, Mirror, Progress
<1>4. Knowing' => Knowing
  BY KnowingStays DEF ScrapeReturns, GcpInv
<1>5. TodoExact'
  <2>1. DOMAIN scan'[s].todo = {}
    BY <1>1, NoElements
  <2>2. QED
    BY <1>1, <1>4, <2>1 DEF MirrorInv, TodoExact
<1>6. Progress'
  BY <1>1 DEF MirrorInv, Progress, GcpInv, DownIsEmpty
<1>7. QED
  BY <1>3, <1>5, <1>6 DEF MirrorInv

LEMMA ExpireMirror ==
  ASSUME MirrorInv, Expire, UNCHANGED <<account, scan>> PROVE MirrorInv'
<1>1. UNCHANGED <<inFlight, stale, settled>>
  BY ExpireShows
<1>2. \A q \in Lone(account) : Shows(account, cache, q) => Shows(account, cache', q)
  BY ExpireShows DEF Shows
<1>3. QED
  BY <1>1, <1>2 DEF MirrorInv, SlotsIdle, TodoExact, Knowing, Progress, Mirror

LEMMA MirrorStep == GcpInv /\ MirrorInv /\ [Next]_gcpVars => MirrorInv'
<1> SUFFICES ASSUME GcpInv, MirrorInv, [Next]_gcpVars PROVE MirrorInv'
  OBVIOUS
<1>1. ASSUME NEW s \in Scrapes, CallFails(s) PROVE MirrorInv'
  <2>1. scan' = [t \in Scrapes |-> IdleScan] /\ inFlight' = {} /\ settled' = FALSE
    BY <1>1 DEF CallFails, Die
  <2>2. QED
    BY <2>1 DEF MirrorInv, SlotsIdle, TodoExact, Progress, Mirror, Knowing
<1>2. CASE AccountChanges
  <2>1. stale' = inFlight /\ settled' = FALSE /\ UNCHANGED <<scan, inFlight>>
    BY <1>2 DEF AccountChanges, AccountChanged
  <2>2. QED
    BY <2>1 DEF MirrorInv, SlotsIdle, TodoExact, Progress, Mirror, Knowing
<1>3. CASE Expire /\ UNCHANGED <<account, scan>>
  BY <1>3, ExpireMirror
<1>4. CASE (\E r \in Requests : Collect(r)) \/ UNCHANGED gcpVars
  BY <1>4, SameMirror, GcpCollects DEF scrapeVars, gcpVars, loopVars
<1>5. QED
  BY <1>1, <1>2, <1>3, <1>4, BeginMirror, GetMirror, CacheMirror, ReturnMirror DEF Next, Scrape

\* When nothing has changed since a scrape read the account, the cache shows what
\* the account has, for every used quota with a metric of its own, whatever
\* scrapes overlap: none of those in flight read the account before it changed.
THEOREM GcpMirrorsAccount == Spec => []MirrorsAccount
<1>1. Init => MirrorInv
  BY DEF Init, LoopInit, IdleScan, MirrorInv, SlotsIdle, TodoExact, Progress, Mirror
<1>2. MirrorInv => MirrorsAccount
  BY DEF MirrorInv, Mirror, Lone, Shows, CorrectObject, MirrorsAccount
<1>3. QED
  BY <1>1, <1>2, GcpInit, GcpStep, MirrorStep, PTL DEF Spec
=============================================================================
