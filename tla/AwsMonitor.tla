----------------------------- MODULE AwsMonitor -----------------------------
(***************************************************************************)
(* The CloudWatch collector of pkg/cloud/aws/monitor with main's loop.  A  *)
(* scrape lists the tagged resources of each job, then, in a goroutine per *)
(* metric of the job, lists CloudWatch's metrics of that name, keeps those *)
(* that belong to such a resource, and queries them in batches.  All that  *)
(* is found replaces the slice m.metrics, which requests read without a    *)
(* lock: when the collector is registered (Describe), and again when it is *)
(* gathered (Collect).                                                     *)
(***************************************************************************)
EXTENDS MetricWindow, FiniteSets, FiniteSetsExt

CONSTANTS
    Scrapes,    \* slots for scrapes in flight
    Job,      \* job type -> searchTags (the values that a key may have),
              \* exportedTags, length, delay, rounding
    Metric,   \* <<job type, name>> -> stats, period, length, timestamp
    Resource, \* ARN -> types, tags, and the dimension that the ARN gives it
    Cw,       \* what CloudWatch can list -> job type, name, dimensions
    Accounts, \* the states of the account: resources, metrics, and those of
              \* them that have no points lately
    Default,    \* the default length and period, 300 seconds in the code
    MaxMetricCount, \* metrics per query, 20 in the code
    StartTime, MaxTime \* bounds of the clock

VARIABLES
    serving, \* whether main serves requests
    scrape,  \* the scrapes in flight
    metrics, \* m.metrics, a slice: what its pointer and what its length say
    request, \* the request in progress
    account, \* the resources and the metrics that exist
    now

vars == <<serving, scrape, metrics, request, account, now>>

Jobs == DOMAIN Job
Tasks == DOMAIN Metric \* a goroutine each
Resources == DOMAIN Resource
Matching(k, tags, search) == k \in DOMAIN tags /\ tags[k] \in search[k]

ASSUME MonitorAssumption ==
    /\ Accounts \subseteq [res : SUBSET Resources, cw : SUBSET DOMAIN Cw, silent : SUBSET DOMAIN Cw]
    /\ \A g \in Tasks : g[1] \in Jobs

\* CloudWatch refuses a query whose period is not positive.
ASSUME TimesAssumption ==
    /\ Default \in Nat \ {0} /\ StartTime \in Int /\ MaxTime \in Int /\ StartTime <= MaxTime
    /\ \A g \in Tasks : Metric[g].period \in Nat \ {0}
    /\ \A j \in Jobs : Job[j].delay \in Nat /\ Job[j].rounding \in Int

\* CloudWatch knows metrics of one name apart by their dimensions, whose values
\* are not empty.  Labels have a prefix that tells a dimension from a tag.
ASSUME NamesAssumption ==
    /\ \A c, d \in DOMAIN Cw :
         /\ Cw[c].type = Cw[d].type /\ Cw[c].name = Cw[d].name
         /\ DOMAIN Cw[c].dims = DOMAIN Cw[d].dims
         /\ \A k \in DOMAIN Cw[c].dims : Cw[c].dims[k] = Cw[d].dims[k]
         => c = d
    /\ \A c \in DOMAIN Cw : \A k \in DOMAIN Cw[c].dims :
         Cw[c].dims[k] # "" /\ k # "name" /\ \A j \in Jobs : k \notin Job[j].exportedTags

ASSUME FiniteAssumption ==
    /\ IsFiniteSet(Resources) /\ IsFiniteSet(DOMAIN Cw) /\ IsFiniteSet(Tasks)
    /\ \A g \in Tasks : IsFiniteSet(Metric[g].stats)
    /\ \A j \in Jobs : IsFiniteSet(DOMAIN Job[j].searchTags)

IdleTask == [pc |-> "wait", todo |-> {}]
IdleScrape ==
    [pc |-> "idle", seen |-> [j \in Jobs |-> {}], res |-> [j \in Jobs |-> {}],
     task |-> [g \in Tasks |-> IdleTask], data |-> {}, kept |-> [res |-> {}, cw |-> {}]]
IdleRequest == [pc |-> "idle", descs |-> {}]
NoMetrics == [array |-> {}, len |-> 0]

Init ==
    /\ serving = FALSE /\ metrics = NoMetrics /\ request = IdleRequest
    /\ scrape = [s \in Scrapes |-> IdleScrape]
    /\ account \in Accounts /\ now = StartTime

-----------------------------------------------------------------------------
(* A scrape.  kept is history: the part of the account that is there all   *)
(* the time.                                                               *)

\* Mutant of Tagged: one of the tags is enough.
TaggedByOne(j, r) ==
    \E k \in DOMAIN Job[j].searchTags : Matching(k, Resource[r].tags, Job[j].searchTags)

\* filterThroughTags: every searched tag is there with a value that matches.
Tagged(j, r) ==
    LET search == Job[j].searchTags IN
    Cardinality({k \in DOMAIN search : Matching(k, Resource[r].tags, search)})
        = Cardinality(DOMAIN search)

\* The resources among R that a dimension of a CloudWatch metric names.
Matches(c, R) ==
    {r \in R : Matching(Resource[r].dim, Cw[c].dims, [d \in {Resource[r].dim} |-> {Resource[r].value}])}

BeginScrape(s) ==
    /\ scrape[s].pc = "idle"
    /\ serving \/ \A t \in Scrapes : scrape[t].pc = "idle"
    /\ scrape' = [scrape EXCEPT ![s] =
         [IdleScrape EXCEPT !.pc = "collect", !.kept = [res |-> account.res, cw |-> account.cw]]]
    /\ UNCHANGED <<serving, metrics, request, account, now>>

\* A page of getTaggedResource.  With the last one the goroutines of the job's
\* metrics begin (and seen is all of Resources).
TagPage(s, j) ==
    LET rest == {r \in account.res : j \in Resource[r].types} \ scrape[s].seen[j] IN
    /\ scrape[s].pc = "collect" /\ scrape[s].seen[j] # Resources
    /\ \E page \in SUBSET rest :
         /\ page = {} => rest = {}
         /\ scrape' = [scrape EXCEPT
              ![s].seen[j] = IF page = rest THEN Resources ELSE @ \cup page,
              ![s].res[j] = @ \cup {r \in page : Tagged(j, r)},
              ![s].task = [g \in Tasks |-> IF page = rest /\ g[1] = j
                             THEN [IdleTask EXCEPT !.pc = "list"] ELSE @[g]]]
    /\ UNCHANGED <<serving, metrics, request, account, now>>

\* What a goroutine queries: a metric comes once for each resource that matches
\* it (filterMetricsList), and names the resource that matches its first
\* dimension that has one (getCloudwatchDataFromMetric).
Entries(g, found, R, named) ==
    UNION {{[task |-> g, stat |-> stat, cw |-> c, via |-> r, res |-> named[c]] :
              stat \in Metric[g].stats, r \in Matches(c, R)} : c \in found}

\* The resource that names each metric, one of those that match it.
NamedBy(found, R) == {f \in [found -> R] : \A c \in found : f[c] \in Matches(c, R)}

\* Mutant of ListMetrics: a goroutine with nothing to query never calls Done.
ListMetricsOrHang(s, g) ==
    LET R == scrape[s].res[g[1]]
        found == {c \in account.cw : <<Cw[c].type, Cw[c].name>> = g /\ Matches(c, R) # {}}
    IN
    /\ scrape[s].task[g].pc = "list"
    /\ \E named \in NamedBy(found, R) :
         scrape' = [scrape EXCEPT ![s].task[g] =
                      [pc |-> IF found = {} THEN "hang" ELSE "query", todo |-> Entries(g, found, R, named)]]
    /\ UNCHANGED <<serving, metrics, request, account, now>>

\* getFullMetricsListByName and what follows.
ListMetrics(s, g) ==
    LET R == scrape[s].res[g[1]]
        found == {c \in account.cw : <<Cw[c].type, Cw[c].name>> = g /\ Matches(c, R) # {}}
    IN
    /\ scrape[s].task[g].pc = "list"
    /\ \E named \in NamedBy(found, R) :
         scrape' = [scrape EXCEPT ![s].task[g] =
                      [pc |-> IF found = {} THEN "done" ELSE "query", todo |-> Entries(g, found, R, named)]]
    /\ UNCHANGED <<serving, metrics, request, account, now>>

\* The window of a query at this time.
WindowOf(g) ==
    LET job == Job[g[1]] IN
    Window(now, RoundingPeriod(Default, job.rounding, Metric[g].period),
           InputLength(Default, job.length, {Metric[t].length : t \in {u \in Tasks : u[1] = g[1]}}),
           job.delay)

\* Mutant of Rest: an incomplete batch is the last but not asked for.
RestOfFull(todo, batch) == IF Cardinality(todo \ batch) < MaxMetricCount THEN {} ELSE todo \ batch
Rest(todo, batch) == todo \ batch

\* One batch of a goroutine: GetMetricData, whose answers hold the newest point
\* of each metric, or none, and are appended under the lock.
Query(s, g) ==
    LET todo == scrape[s].task[g].todo
        size == IF Cardinality(todo) < MaxMetricCount THEN Cardinality(todo) ELSE MaxMetricCount
    IN
    /\ scrape[s].task[g].pc = "query"
    /\ \E batch \in kSubset(size, todo) :
         scrape' = [scrape EXCEPT
           ![s].task[g] = [pc |-> IF Rest(todo, batch) = {} THEN "done" ELSE "query",
                           todo |-> Rest(todo, batch)],
           ![s].data = @ \cup {[entry |-> e, at |-> IF e.cw \in account.silent THEN NoPoint
                                    ELSE Newest(WindowOf(g), Metric[g].period)] : e \in batch}]
    /\ UNCHANGED <<serving, metrics, request, account, now>>

\* metricTags: an exported tag is empty where the resource does not have it.
TagOf(r, key) == IF key \in DOMAIN Resource[r].tags THEN Resource[r].tags[key] ELSE ""

\* createPrometheusLabels: the resource, the dimensions, and the exported tags.
LabelsOf(e) ==
    LET dims == Cw[e.cw].dims IN
    [l \in {"name"} \cup DOMAIN dims \cup Job[e.task[1]].exportedTags |->
       IF l = "name" THEN e.res ELSE IF l \in DOMAIN dims THEN dims[l] ELSE TagOf(e.res, l)]
NameOf(e) == <<e.task, e.stat>>

\* recordLabelsForMetric: the labels that some series of a name has.
Observed(S, name) == UNION {DOMAIN LabelsOf(x.entry) : x \in {y \in S : NameOf(y.entry) = name}}

\* Mutant of Consistent: labels stay as they are.
Inconsistent(S, d) == LabelsOf(d.entry)

\* ensureLabelConsistencyForMetrics: every series of a name has the labels that
\* one of them has.
Consistent(S, d) ==
    LET own == LabelsOf(d.entry) IN
    [l \in Observed(S, NameOf(d.entry)) |-> IF l \in DOMAIN own THEN own[l] ELSE ""]

\* createPrometheusMetricsFromCwData: a metric without a point is exported as
\* NaN, but left out when it should have a timestamp.
Series(s) ==
    LET S == {d \in scrape[s].data : d.at # NoPoint \/ ~Metric[d.entry.task].timestamp} IN
    {[name |-> NameOf(d.entry), labels |-> Consistent(S, d), at |-> d.at, entry |-> d.entry] : d \in S}

AllDone(s) == \A g \in Tasks : scrape[s].task[g].pc = "done"

\* m.metrics = metrics, not atomic: the length and the pointer of the slice are
\* two words.
WriteLength(s) ==
    /\ scrape[s].pc = "collect" /\ AllDone(s)
    /\ metrics' = [metrics EXCEPT !.len = Cardinality(Series(s))]
    /\ scrape' = [scrape EXCEPT ![s].pc = "publish"]
    /\ UNCHANGED <<serving, request, account, now>>

\* Mutant of WritePointer: the new series are appended to the old ones.
AppendMetrics(s) ==
    /\ scrape[s].pc = "publish"
    /\ metrics' = [metrics EXCEPT !.array = @ \cup Series(s)]
    /\ scrape' = [scrape EXCEPT ![s] = IdleScrape]
    /\ serving' = TRUE
    /\ UNCHANGED <<request, account, now>>

\* The first scrape returns to main, which then serves.
WritePointer(s) ==
    /\ scrape[s].pc = "publish"
    /\ metrics' = [metrics EXCEPT !.array = Series(s)]
    /\ scrape' = [scrape EXCEPT ![s] = IdleScrape]
    /\ serving' = TRUE
    /\ UNCHANGED <<request, account, now>>

\* The process dies and Kubernetes starts it again.
Restart ==
    /\ serving' = FALSE /\ metrics' = NoMetrics /\ request' = IdleRequest
    /\ scrape' = [s \in Scrapes |-> IdleScrape]

\* Any failed call of a scrape is log.Fatal.
Fatal(s) == scrape[s].pc = "collect" /\ ~AllDone(s) /\ Restart /\ UNCHANGED <<account, now>>

-----------------------------------------------------------------------------
(* A request: handler of aws.go.                                           *)

Desc(x) == <<x.name, x.labels>>
Agree(S) == \A x, y \in S : x.name = y.name => DOMAIN x.labels = DOMAIN y.labels
Distinct(S) == Cardinality({Desc(x) : x \in S}) = Cardinality(S)

\* A loop over m.metrics reads as many elements as the length says of the array
\* that the pointer says.
Reads == kSubset(metrics.len, metrics.array)

\* Describe, at the registration in a new registry: label names that disagree
\* make it panic, which net/http recovers.
Register ==
    /\ serving /\ request.pc = "idle"
    /\ \E S \in Reads :
         request' = IF Agree(S) THEN [pc |-> "gather", descs |-> {Desc(x) : x \in S}]
                    ELSE [IdleRequest EXCEPT !.pc = "panic"]
    /\ UNCHANGED <<serving, scrape, metrics, account, now>>

\* Collect, when the registry gathers: a series that is there twice, or that no
\* Describe has announced, is an error (a collector that announced nothing may
\* send anything).
Gather ==
    /\ request.pc = "gather"
    /\ \E S \in Reads :
         request' = [request EXCEPT !.pc =
           IF ~Distinct(S) THEN "duplicates"
           ELSE IF request.descs # {} /\ ~({Desc(x) : x \in S} \subseteq request.descs)
           THEN "undescribed" ELSE "ok"]
    /\ UNCHANGED <<serving, scrape, metrics, account, now>>

EndRequest ==
    /\ request.pc \in {"panic", "duplicates", "undescribed", "ok"}
    /\ request' = IdleRequest
    /\ UNCHANGED <<serving, scrape, metrics, account, now>>

\* With the new length and the old pointer, a loop runs past the end of the old
\* array.
ReadPastEnd ==
    /\ serving /\ request.pc \in {"idle", "gather"} /\ metrics.len > Cardinality(metrics.array)
    /\ Restart /\ UNCHANGED <<account, now>>

-----------------------------------------------------------------------------
(* The environment.                                                        *)

\* Resources and metrics come or go.
AccountChanges ==
    /\ account' \in Accounts \ {account}
    /\ scrape' = [s \in Scrapes |-> [scrape[s] EXCEPT
                    !.kept = [res |-> @.res \cap account'.res, cw |-> @.cw \cap account'.cw]]]
    /\ UNCHANGED <<serving, metrics, request, now>>

TimePasses ==
    now < MaxTime /\ now' = now + 1 /\ UNCHANGED <<serving, scrape, metrics, request, account>>

ScrapeStep(s) ==
    \/ \E j \in Jobs : TagPage(s, j)
    \/ \E g \in Tasks : ListMetrics(s, g) \/ Query(s, g)
    \/ WriteLength(s) \/ WritePointer(s)

Next ==
    \/ \E s \in Scrapes : BeginScrape(s) \/ ScrapeStep(s) \/ Fatal(s)
    \/ Register \/ Gather \/ EndRequest \/ ReadPastEnd
    \/ AccountChanges \/ TimePasses

Spec == Init /\ [][Next]_vars

\* A job waits for a page of its resources, or a goroutine for its metrics.
JobCalls(s, j) == scrape[s].pc = "collect" /\ scrape[s].seen[j] # Resources
TaskCalls(s, g) == scrape[s].task[g].pc \in {"list", "query"}

\* The scheduler runs what a scrape does without a call.  A call may stay
\* unanswered: neither main's context nor the HTTP client has a deadline.
FairSpec == Spec /\ \A s \in Scrapes : WF_vars(WriteLength(s) \/ WritePointer(s))

-----------------------------------------------------------------------------
(* Properties *)

TypeOK ==
    /\ serving \in BOOLEAN /\ account \in Accounts /\ now \in StartTime .. MaxTime
    /\ request.pc \in {"idle", "gather", "panic", "duplicates", "undescribed", "ok"}
    /\ metrics.len \in Nat
    /\ \A s \in Scrapes :
         /\ scrape[s].pc \in {"idle", "collect", "publish"}
         /\ \A j \in Jobs : scrape[s].res[j] \subseteq scrape[s].seen[j]
         /\ \A g \in Tasks : scrape[s].task[g].pc \in {"wait", "list", "query", "done"}

\* When a scrape publishes, every metric that belongs to a tagged resource, if
\* both were there all the time, is exported once for each statistic: no page,
\* no batch and no goroutine is lost or counted twice.  Left out may be only a
\* metric with timestamps that has no point.
KeptMetricsAreExported ==
    \A s \in Scrapes : scrape[s].pc = "publish" =>
      \A g \in Tasks, r \in scrape[s].kept.res, c \in scrape[s].kept.cw :
        g[1] \in Resource[r].types /\ Tagged(g[1], r)
          /\ <<Cw[c].type, Cw[c].name>> = g /\ Matches(c, {r}) # {} =>
        \A stat \in Metric[g].stats :
          LET found == {x \in Series(s) : x.entry.task = g /\ x.entry.stat = stat
                                            /\ x.entry.cw = c /\ x.entry.via = r}
          IN  Cardinality(found) = 1 \/ (found = {} /\ Metric[g].timestamp)

\* A series is named after a resource that its dimensions name, and that has
\* every tag that the job searches.
SeriesNameTheirResource ==
    \A x \in metrics.array :
      LET arn == x.labels["name"]
          job == x.entry.task[1]
      IN  /\ Matches(x.entry.cw, {arn}) # {} /\ job \in Resource[arn].types
          /\ \A k \in DOMAIN Job[job].searchTags :
               Matching(k, Resource[arn].tags, Job[job].searchTags)

\* However a request's two readings of the slice interleave with a scrape, the
\* registration does not panic: all series of one name have the same labels.
\* And as long as each metric has one dimension that a resource gives it, no two
\* of them have the same name and the same values, or Gather would refuse them.
SeriesAreConsistent ==
    /\ request.pc # "panic"
    /\ (\A a \in Accounts : \A c \in a.cw : Cardinality(Matches(c, Resources)) <= 1)
         => request.pc # "duplicates"

\* The value of a metric is of a period that is over, so that it is final,
\* when the metric is rounded to its own period, at most the default.
PointsAreFinal ==
    \A x \in metrics.array :
      LET job == Job[x.entry.task[1]]
          period == Metric[x.entry.task].period
      IN  x.at # NoPoint /\ job.rounding = NotConfigured /\ period <= Default
            => x.at + period <= now

\* As long as scrapes do not overlap, a series never falls back on an older
\* point.
PointsNeverRegress ==
    [][\A x \in metrics.array, y \in metrics'.array :
         Desc(x) = Desc(y) /\ x.at # NoPoint /\ y.at # NoPoint => y.at >= x.at]_metrics

\* A scrape ends, with its series published, or the process does, unless one of its
\* calls is never answered: each goroutine that was added to a wait group, also
\* one with nothing to query or with an incomplete last batch, comes to its Done.
ScrapesEnd ==
    \A s \in Scrapes :
        /\ \A j \in Jobs : []<>~JobCalls(s, j)
        /\ \A g \in Tasks : []<>~TaskCalls(s, g)
        => (scrape[s].pc = "collect" ~> scrape[s].pc = "idle")

\* Series always differ.  In the code a metric that two dimensions match is
\* appended twice.
SentSeriesDiffer == request.pc # "duplicates"

\* Collect sends what Describe has announced.  In the code a scrape may come
\* between the two.
SentIsDescribed == request.pc # "undescribed"

\* Reading the slice while a scrape replaces it is safe.  In the code the new
\* length may be seen with the old array.
ReadsStayInArray == serving => metrics.len <= Cardinality(metrics.array)
=============================================================================
