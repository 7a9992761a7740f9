------------------------------ MODULE GcpQuota ------------------------------
(***************************************************************************)
(* The GCP quota collector, pkg/cloud/gcp/gcp_quota.go.  A scrape is       *)
(* sequential: the quotas of the project, then those of every region, are  *)
(* cached under their metric, whatever the region.                         *)
(***************************************************************************)
EXTENDS QuotaLoop, Sequences, Integers

CONSTANTS
    ProjectQuotas, \* the quotas of the project, in the order of the answer
    RegionQuotas,  \* the quotas of the regions, region after region
    NoRegion,      \* the region of a quota of the project
    Home,          \* conf.Region
    Readings       \* what a quota may read: usages with limits

VARIABLES
    account, \* the usage and the limit of every quota
    scan     \* the scrapes in flight

gcpVars == <<loopVars, account, scan>>

Quotas  == {ProjectQuotas[i] : i \in DOMAIN ProjectQuotas}
               \cup {RegionQuotas[i] : i \in DOMAIN RegionQuotas}
Metrics == {q.metric : q \in Quotas}
Regions == {q.region : q \in Quotas}
\* quota.Usage is a float64 and not 0 when it is cached; "from", the region
\* that was measured, is in no label.
Usages  == {r.current : r \in Readings}
Limits  == {r.limit : r \in Readings}
Objects == [from : Regions, current : Usages \ {0}, limit : Limits]
Series  == [regional : BOOLEAN, metric : Metrics]
IdleScan == [pc |-> "idle", todo |-> <<>>]

ASSUME QuotasAssumption == ProjectQuotas \in Seq(Quotas) /\ RegionQuotas \in Seq(Quotas)

Init ==
    /\ LoopInit
    /\ account \in [Quotas -> Readings]
    /\ scan = [s \in Scrapes |-> IdleScan]

BeginScrape(s) ==
    /\ Begin(s)
    /\ scan' = [scan EXCEPT ![s].pc = "project"]
    /\ UNCHANGED account

\* An error leaves a nil answer, which the loop over its quotas dereferences.
CallFails(s) ==
    /\ \/ scan[s].pc = "project"
       \/ scan[s].pc = "project cached" /\ scan[s].todo = <<>>
    /\ Die
    /\ scan' = [t \in Scrapes |-> IdleScan]
    /\ UNCHANGED account

Answer(list) == [i \in DOMAIN list |->
    [metric |-> list[i].metric, from |-> list[i].region,
     current |-> account[list[i]].current, limit |-> account[list[i]].limit]]

GetProject(s) ==
    /\ scan[s].pc = "project"
    /\ scan' = [scan EXCEPT ![s] = [pc |-> "project cached", todo |-> Answer(ProjectQuotas)]]
    /\ UNCHANGED <<loopVars, account>>

GetRegionList(s) ==
    /\ scan[s].pc = "project cached" /\ scan[s].todo = <<>>
    /\ scan' = [scan EXCEPT ![s] = [pc |-> "regions cached", todo |-> Answer(RegionQuotas)]]
    /\ UNCHANGED <<loopVars, account>>

ObjectOf(e) == [from |-> e.from, current |-> e.current, limit |-> e.limit]

AnyQuota(e) == TRUE        \* mutant of Used
Used(e) == e.current # 0

CacheQuota(s) ==
    LET e == Head(scan[s].todo) IN
    /\ scan[s].todo # <<>>
    /\ scan' = [scan EXCEPT ![s].todo = Tail(@)]
    /\ \/ Used(e) /\ CacheSet(e.metric, ObjectOf(e))
       \/ ~Used(e) /\ UNCHANGED loopVars
    /\ UNCHANGED account

ScrapeReturns(s) ==
    /\ scan[s].pc = "regions cached" /\ scan[s].todo = <<>>
    /\ Return(s)
    /\ scan' = [scan EXCEPT ![s] = IdleScan]
    /\ UNCHANGED account

SeriesOf(metric, object) == [regional |-> object.from # NoRegion, metric |-> metric]

\* Both labels are made of the same result.
Collect(r) ==
    /\ \/ Arrive(r) \/ Finish(r) \/ CopyItems(r) \/ LimitsThenUsages(r)
       \/ \E m \in DOMAIN request[r].items :
            LET labels == SeriesOf(m, request[r].items[m])
            IN  SetUsage(r, m, labels) \/ SetLimit(r, m, labels)
    /\ UNCHANGED <<account, scan>>

AccountChanges ==
    /\ \E q \in Quotas, r \in Readings : account' = [account EXCEPT ![q] = r]
    /\ account' # account
    /\ AccountChanged
    /\ UNCHANGED scan

Scrape(s) ==
    \/ BeginScrape(s) \/ CallFails(s) \/ GetProject(s) \/ CacheQuota(s)
    \/ GetRegionList(s) \/ ScrapeReturns(s)

Next ==
    \/ \E s \in Scrapes : Scrape(s)
    \/ \E r \in Requests : Collect(r)
    \/ Expire /\ UNCHANGED <<account, scan>>
    \/ AccountChanges

Spec == Init /\ [][Next]_gcpVars

-----------------------------------------------------------------------------
(* Properties *)

Entries == [metric : Metrics, from : Regions, current : Usages, limit : Limits]

\* The variables have their shapes; in particular no unused quota is cached.
TypeOK ==
    /\ LoopTypeOK(Metrics, Objects, Series)
    /\ account \in [Quotas -> Readings]
    /\ \A s \in Scrapes :
         /\ scan[s].pc \in {"idle", "project", "project cached", "regions cached"}
         /\ \A i \in DOMAIN scan[s].todo : scan[s].todo[i] \in Entries

\* What an answer shows was measured for its series, and unless requests overlap
\* a usage is shown with the limit measured with it.
Export == INSTANCE QuotaExport WITH
    Series <- Series, Results <- Objects, Requests <- Requests,
    shown <- DOMAIN gaugeCurrent, answer <- Answers, overlapped <- overlapped,
    measured <- {<<SeriesOf(w[1], w[2]), w[2]>> : w \in written}
ExportSpec == Export!Spec

\* When the account has not changed since a scrape read it, the cache shows the
\* account for every metric that one place only lists, unless it is unused.
MirrorsAccount ==
    settled => \A q \in Quotas :
        /\ \A p \in Quotas : p.metric = q.metric => p = q
        /\ account[q].current # 0
        /\ q.metric \in DOMAIN cache
        => cache[q.metric] = [from |-> q.region, current |-> account[q].current,
                              limit |-> account[q].limit]

\* The alert cpe_quota_current / on(QuotaCode) group_left() cpe_quota_limit
\* needs one limit series per quota code.
OneLimitSeriesPerCode == \A x, y \in DOMAIN gaugeLimit : x.metric = y.metric => x = y

\* The alert says "Quota Region: {{ $labels.Region }}": a regional series shows
\* what was measured in the region of its label.
RegionOfLabel ==
    \A x \in DOMAIN gaugeCurrent : x.regional => \E w \in written :
        w[1] = x.metric /\ w[2].from = Home /\ w[2].current = gaugeCurrent[x]
=============================================================================
