# TLA+ specifications of the cloud provider exporter

The exporter is a Prometheus exporter for one cloud account. It measures the
account's quotas periodically, keeps the results in a cache, and shows them,
with the provider's health events, on `/metrics`. This directory models its Go
code in TLA+, checks the models with TLC and proves theorems about them with
TLAPS. `PROJECT.json` maps every definition to the lines it stands for.

## 1. Inventory

### 1.1 Components

| component | code | state | operations | model |
|---|---|---|---|---|
| start, configuration, Vault client | `main.go` 21-48, `pkg/config`, `pkg/vault`, `pkg/errorutil`, `pkg/cloud/factory` | configuration, Vault token, credentials, attempt and delay of a retry | `ReadConf`, `NewExporter`, `NewVaultClient` (login), `CredentialsFromPath` (reads), `RetryOnErr`, `StartExporter` | Startup |
| main loop | `main.go` 50-73 | the ticker | first `Scrape`, register handlers, serve, `go Scrape` at each tick | AwsExporter, QuotaLoop |
| AWS quota collector | `pkg/cloud/aws/quota/aws_quota.go` | package variables `serviceQuotaMap`, `account`, `waitGroup`; cache; gauges | `Scrape` (list, one goroutine per code, wait), `Collect` | AwsQuota, GoWaitGroup |
| Azure quota collector | `pkg/cloud/azure/azure_quota.go` | cache; gauges; a wait group per scrape | `scrape` (three goroutines, pages), `Collect` | AzureQuota |
| GCP quota collector | `pkg/cloud/gcp/gcp_quota.go` | cache; gauges | `scrape` (project, regions), `Collect` | GcpQuota |
| AliCloud quota collector | `pkg/cloud/alicloud/alicloud_quota.go` | cache; gauges | `scrape` (product after product), `Collect` | AliQuota |
| result cache | `common.QuotaCache`, vendored go-cache | entries with expiration | `Set`, `Items`, janitor | GoCache |
| gauges and counters | `pkg/cloud/common/common.go` | `QuotaCurrent`, `QuotaLimit`, four health counters | `Init...`, `WithLabelValues(..).Set/Inc`, `Reset`, `Collect` | within the collectors |
| health collectors | `aws_health.go`, `azure_health.go`, `gcp_health.go`, `alicloud_health.go` | the four counters | `Collect` | HealthCollector |
| backup bucket collectors | `vault_backup_bucket.go` of four providers | none but locals | `Collect` | BucketCollector |
| AWS usage counts | the cases of the switch in `aws_quota.go` 246-459 | locals of the goroutine | one or two lists per code, page by page, then `cache.Set` | AwsUsage |
| AWS CloudWatch monitor | `pkg/cloud/aws/monitor` (commented out in `aws.go` at this commit) | the slice `m.metrics` | `Scrape` (one goroutine per job and one per metric, pages, batches), `Describe`, `Collect` | MetricWindow, AwsMonitor |
| Helm chart, alerts, dashboards | `helm/` | - | - | not modelled, quoted in findings |
| SDKs, Prometheus client, Go runtime | `vendor/` | - | - | only go-cache and `sync.WaitGroup`, as far as used |

### 1.2 How they interact

`main` reads the configuration, logs in to Vault, reads the credentials,
creates the cache and the collectors, and calls `Scrape` once. Only when that
returns does it serve HTTP and create the ticker. From then on three kinds of
goroutines share the package variables: scrapes (one more at each tick, whether
or not the last one has returned) with the goroutines they start, requests of
Prometheus (`promhttp` may run several), and the janitor of the cache.

    ticker --> Scrape --> goroutine per quota --Set--> QuotaCache --Items--> Collect --> gauges --> Prometheus
                  |            |                            ^                   ^
                  |            +--Done--> waitGroup         janitor             |
                  +--writes--> serviceQuotaMap, account ------------------------+

Usage and limit live in two gauges which the alert
`cpe_quota_current / on(QuotaCode) group_left() cpe_quota_limit` joins again.
Health and bucket collectors ask the provider while the request waits. Any
unrecovered panic and any `log.Fatal` ends the process; the Kubernetes
Deployment starts it again with empty memory.

### 1.3 What is hard

- Scrapes overlap with themselves and share `waitGroup` and `serviceQuotaMap` (AWS).
- A request reads the cache once and then sets two series per result while scrapes
  and other requests, which set the same gauges, go on.
- Nothing bounds a call: `main.go:27` passes `context.Background()`, and neither the
  AWS SDK's client nor autorest's has a timeout. A scrape waits for its calls.
- Entries expire in the cache but never in the gauges.
- Errors of the AWS API are logged and then a nil answer is used; other codes return early.
- Lists come in pages and fail in the middle, or change in the middle.
- Vault refuses for a while, or its secret is rotated between two reads.
- Requests at the same time reset and fill the same health counters.
- The monitor replaces a slice, without a lock, that each request reads twice;
  its goroutines append to shared slices; its windows of time are rounded.

Each of these is a row of "hazards" in `PROJECT.json`, at its line, with the
properties that watch it.

### 1.4 What makes each component correct

- **Start**: it ends; delays back off within bounds; nothing starts unless every
  credential has been read in an answer of Vault (which may be the empty string);
  the project of GCP belongs to its service account.
- **AWS scrape**: `Wait` covers exactly the scrape's own goroutines, every path
  calls `Done`, no panic of the wait group.
- **All quota collectors**: every value of a response was measured for its series,
  and requests one at a time pair a usage with the limit measured with it; one
  limit series per code; a full scrape of an unchanging account leaves the account
  in the cache.
- **AWS usage**: in a quiet account the count is of what the quota names, whatever
  the pages; while the account changes, what nobody touches counts once. The code
  has this for five of the nine cases; three of the others count something else (section 3).
- **Health**: a response counts each event of the answer, and each of its affected
  entities, once.
- **Bucket**: the pages add up to the bucket.
- **Monitor**: every metric of a tagged resource is exported once per statistic,
  under the name of that resource, with labels that agree with the other series
  of its name, and with a value that is final and never replaced by an older one.

## 2. Modules

    GoWaitGroup --\                                 Startup ---------\
    GoCache -------+--> AwsQuota --> AwsExporter    HealthCollector --+--> ExporterProcess --> MCExporterProcess
                                      |     |       BucketCollector -/          |
                           MCAwsExporter  AwsExporterProofs        ExporterProcessProofs

    QuotaLoop --> AzureQuota, GcpQuota, AliQuota     (each implements QuotaExport)
        |               |         |         |
    QuotaLoopProofs --> AzureQuotaProofs, GcpQuotaProofs, AliQuotaProofs

    MetricWindow --> AwsMonitor --> MCAwsMonitor     AwsUsage --> MCAwsUsage
                         |                              |
                     AwsMonitorProofs               AwsUsageProofs

**GoWaitGroup** are the operators of `sync.WaitGroup`: the counter and the
sleeping waiters of its state word, the waiters released by the last `Done`, and
the three misuses that panic. **GoCache** is `Set`, `Items`, `DeleteExpired`
of go-cache.

**AwsQuota** has one action per piece of `Scrape`, of its goroutines and of
`Collect` between two points at which another goroutine can matter. Limits and
usages are represented by the *version* of the account in which they were read,
which is all that "current", "older" and "of one measurement" need.
`serviceQuotaMap` is a Go map: its writes are two steps (`ListQuota`,
`AssignQuota`), and a read or write of another goroutine in between either ends
the process ("map race") or goes unnoticed, the two outcomes the runtime has. A
failed call that the code only logs is a `Crash`, since the nil answer is used
in the next line. **AwsExporter** adds main's boot, ticker and server, a clock,
and changes of the account. `scrape`, `worker` and `collect` are the program
counters of goroutines; `written` and `floor` are history variables.

**QuotaLoop** is main's loop, the cache and the gauges for the three other
providers, without a clock: ticks come and entries expire at any time. A request
has a slot of its own and its steps are `Arrive`, `CopyItems` (`Items()`), for each
copied result `SetUsage` and `SetLimit`, then `EmitFirst` and `Respond`, which
send one gauge and the other, and `Finish`; the gauges belong to all requests. What
a response shows is kept from the moment it is sent. **AzureQuota** has the
three goroutines and their wait group, which is local to a scrape, and the
subscription, of which a request assigns ID and name one after the other
(`AssignID`, `AssignName`) to variables that every request reads when it looks up a
series (`LabelsOf`); **GcpQuota** has the project and its regions; **AliQuota** the
products. A quota reads one of `Readings`, pairs of usage and limit.
`overlapped`, `stale`, `settled`, `calm` and `read` are history. A scrape in flight is `stale`
when it can have missed a change or a failed call, or when a stale scrape may still
overwrite what it caches, for then it is not the last word; `settled` says that
a scrape which is not stale has returned since the account changed.
**QuotaExport** is the abstract specification all three implement: each usage and
each limit of an answer was measured for its series since the process started, and
as long as requests have come one at a time, every series that there is is in the
answer, with a usage and a limit of one measurement.

**Startup** is the start with `RetryOnErr` as a state machine (`retry`: attempt,
delay, asleep). `attempt` is a `uint8`: it wraps at `UintMax + 1`. `credentials`
maps what was read to the version of the secret it came from. **HealthCollector**
and **BucketCollector** treat all four providers, with the provider as a parameter where
their code differs; any number of requests (`HealthRequests`) use the same counters.
The provider answers with any set of affected entities (`Affected`), none and
several included where the code allows it; `alone` is history, of a request that
met no other.
**ExporterProcess** composes the three for one process.

**AwsUsage** is what AwsQuota takes as one number: the case of one quota code,
with its calls and pages, on an account (`items`) that may change between two of
them. Items have a place (subnet or VPC), a size and a type; `Listed` are
the filters of the request, `Counted` what the items of an answer add. A failed
`DescribeSubnets` is only logged (`SubnetsFail`), so that an account without a
gateway still gets its zero (`ListWithoutSubnets`). `touched`
is history: the items of which nothing is promised any more.

**MetricWindow** is the arithmetic of `aws_monitor.go`: rounding, the window of
a query, and the newest point in it. **AwsMonitor** is a scrape of CloudWatch with
main's loop. A scrape lists tagged resources page by page per job
(`TagPage`), then has a goroutine per metric that lists CloudWatch's metrics
(`ListMetrics`) and queries them in batches (`Query`); `Series` is what it
makes of the answers. `m.metrics = metrics` is two steps, `WriteLength` and
`WritePointer`, as it is two words of memory; a request is two steps too,
`Register` (Describe) and `Gather` (Collect), each of which reads as many
elements as the length says of the array that the pointer says. `kept` is
history: the resources and metrics that were there since the scrape began.

The `MC` modules hold the values that the `.cfg` files give to CONSTANTS.

### Abstractions to know of

- AWS: a page of `ListServiceQuotas` is one quota (the order and the size of
  pages do not matter, for the loop handles each quota by itself). What a case
  of the switch counts is one number of the account in AwsQuota; AwsUsage says
  which. Struct values torn by the unlocked map and the race on the string
  `account` are not modelled.
- AWS usage: an item has one type bit (`fits`), which each case reads as its own
  filter. The sum of GiB is an `int32` in the code, out of the reach of any
  account; a page without items is the last. The "instances" case takes the
  first data point of the answer, which is any of them.
- Monitor: the pages of `ListMetrics` are one step, as nothing happens between
  two of them; CloudWatch answers each query of a batch once, by its ID (the
  random IDs are taken to differ), with the newest point first; of the words of the
  slice the length is written first; a job type occurs once. Prefixes and cases of label names, custom
  tags, `NilToZero`, the metric's own `Delay` (which the code does not use),
  and an unknown job type (a nil dereference) are left out.
- All quota collectors: a gauge's `Collect(ch)` is one step; in the code it emits series
  by series. Azure: the two variables of the subscription are read in one step for
  each series, and a string is assigned at once.
- AliCloud asks for the first page of each product's quotas only; so does the
  model (`QuotasOf` is that page). GCP's constructor replaces main's cache by
  one of six and ten minutes; without a clock that makes no difference here.
- Azure: a list that fails at the first call ends silently, since `NotDone()`
  of the empty page is false; one that fails later returns. Both are
  `PageFails`; what differs is only the log.
- Health: an entity is what distinguishes the label values of two entities of one event; an answer has no
  two entities of one event with the same label values.
  "closed" stands for `Resolved` in Azure and for `AVAILABLE` in GCP; for AliCloud the state stands for the
  severity, the label that distinguishes two reports of one title.
- At this commit only AliCloud registers its health collector, and the handlers
  of the buckets and of the monitor are commented out; tests build those of health and buckets. The models are of the
  collectors, started by `ExporterProcess`.
- `ListenAndServe` failing (logged, the process stays) and `/healthz` are left out.

## 3. Runs

Every run takes at most three minutes or so with two workers.

| run | what it asks | bounds |
|---|---|---|
| `aws_serial` | With scrapes shorter than the period and one request at a time: no wait group panic; serving only after a full scrape; cached codes are listed ones; one limit series per code; a response pairs what was measured together and is as new as the cache was when the request began; a code that every scrape measures stays in the cache; usages never go back | two codes (one measured through `UsageMetric`, one that tolerates errors and may be missing from the list), two versions of the account, three instants with `Expiration` 1 and period 1, which is 2 * period - 1: two scrapes after the first and any number of requests, and restarts |
| `aws_overlap` | Two scrapes in flight: the shared counter stays exact, a scrape that left `Wait` has no goroutine, and a scrape hangs only if a call is never answered | two slots, two codes, of which one returns early when the account is not an "hdl" one, no requests, three instants: three scrapes |
| `aws_usage` | The cases of the switch for volumes, VPCs, addresses, hosts and classic load balancers count a quiet account exactly, and an account that changes as far as nobody touches it | three keys in two zones, two sizes, TiB of two GiB, one key that changes; pages of any size |
| `aws_nat` | finding, see below | the same, but nothing changes |
| `aws_monitor` | What was there all the time is exported once, under its resource's name, with labels that agree; values are final and never older; a scrape hangs only if a call is never answered | two metrics (one with timestamps), five CloudWatch metrics of two load balancers, batches of two, two states of the account, two instants, one scrape at a time, requests at any time |
| `gcp_quota` | `GcpQuota` implements `QuotaExport`, and mirrors the account | one metric of the project and one of the region, three readings with usage 0, 1, 2; one request |
| `ali_quota` | `AliQuota` implements `QuotaExport`; a product that answered is shown as it is although others fail | two products; two requests at once |
| `azure_quota` | `AzureQuota` implements `QuotaExport`, and mirrors the account; two scrapes in flight each wait for their own goroutines; one limit series per code | two slots, a list of one quota and an empty one, four readings (unused, used, more used, unlimited); one request, whose calls for the subscription succeed |
| `azure_unused` | finding, see below | one list |
| `process` | Start, health and bucket for all providers and one nobody knows: see 1.4 | three attempts, one rotation; three events in batches of two, each with any of two affected entities, one request; three keys, one of which changes while the bucket is read |
| `ali_health` | finding, see below | one event, one request after the other |
| `health_overlap` | finding, see below | one event, two requests at once |

Why the bounds are enough: the interesting interference is between two
goroutines of each kind. Two codes let one worker be behind the other; two
scrapes in flight are all that the shared wait group needs to be released and
added to at once; two versions of the account tell an old result from a new
one, and usage 0 is the reading that is not cached. Two requests of `ali_quota` can
set the gauges between each other's steps in every order; Gcp and Azure have the same
steps, by QuotaLoop, so that one request there leaves room for what is their own. Three events or three
queries with batches of two give a full batch and a rest; three keys give one
that is counted, one that changes, and one on another page. `VaultMaxAttempts`
is the real 3, and the `uint8` is small enough (`UintMax` 3) to wrap right after
it. The lists of `azure_quota` have one page, as two scrapes in flight already
multiply everything else; lists of several pages, and of any length, are
covered by the proofs of section 4.

Each cfg names its bounds; in the modules they are `MaxVersion`, `MaxTime`,
`MaxRotations`, `MaxCount` and `MaxTouched`. `MaxTime` stops the clock of
AwsExporter (`Horizon` stutters there, so that the end of the clock is not taken
for a deadlock) and of AwsMonitor. Deadlock is checked in every run.

### Findings

- `azure_unused`: a usage that falls to zero is not cached, and gauges keep
  their series, so that the last positive usage is shown for good, where the
  help text says "Current usage value of quota". GCP and AliCloud do the same.
- `aws_nat`: the quota is of "NAT gateways per Availability Zone" (`aws_quota.go:417`), but
  the first gateway of a zone enters it with 0 (line 442): the largest zone
  is one short, and an account with one gateway has none. `GatewaysOneShort`
  (section 4) says by how much, for any account.
- `ali_health`: AliCloud's health collector never resets its counters, so that
  an event counts 2 at the second request; the test, which makes a new
  collector per request, expects 1.
- `health_overlap`: the health collectors reset and fill package variables
  without a lock, where the interface of `Collector` says that `Collect` "may be
  called concurrently and must therefore be implemented in a concurrency safe
  way": of two requests at once one counts on top of the other.

### Configurations that show a disagreement

Each of these cfg files checks one property that the code, or the limit that a
count is compared with, suggests, and that TLC finds violated; they are run by hand,
`tlc -config <cfg> <module>`.

| cfg | module | property | what the counterexample shows |
|---|---|---|---|
| `GcpRegion.cfg` | MCGcpQuota | `RegionOfLabel` | the alert shows `Quota Region: {{ $labels.Region }}`, but every regional quota is labelled with `conf.Region` and cached under its metric alone: the series shows the last region of the list |
| `AzureBucket.cfg` | MCExporterProcess | `LastBackupDate` | Azure's bucket collector exports `createdTime`, which nothing assigns, as the date of the last modification (`const.go:43`) |
| `AwsExpiry.cfg` | MCAwsExporter | `RenewedEntriesAreLive` | an entry that lives one instant less than twice the period less an instant: a code measured early in one scrape and late in the next is gone in between. The shipped `values.yaml` (50 minutes, and 60 minutes between scrapes) is far below |
| `AwsRouteTables.cfg` | MCAwsUsage | `RouteTablesPerVpc` | the route tables of all VPCs are added up, for a quota per VPC |
| `AwsNlb.cfg` | MCAwsUsage | `NetworkLoadBalancersOnly` | load balancers are listed without their type, so that those of an application count as network ones |
| `MonitorDuplicates.cfg` | MCAwsMonitor | `SentSeriesDiffer` | a metric with two dimensions of tagged resources is appended twice, and gathering fails for the whole response |
| `MonitorDescribe.cfg` | MCAwsMonitor | `SentIsDescribed` | a scrape between Describe and Collect: the response has a series nobody announced, and gathering fails |
| `MonitorRace.cfg` | MCAwsMonitor | `ReadsStayInArray` | a request that sees the new length with the old array reads past its end |

### Properties that hold only under a condition

The runs choose the condition; without it TLC finds a counterexample:

- `NoWaitGroupFault` needs scrapes that do not overlap (`SlowScrapes = FALSE`).
  With overlap, a `Spawn` between the release of waiters and the `WakeUp` makes
  `Wait` panic ("WaitGroup is reused before previous Wait has returned").
- `ResponsePairsMatch` needs one request at a time and one alias, and `UsageNeverRegresses`
  also scrapes that do not overlap: of two in flight the older measurement may be
  cached last. It is about the codes of listed quotas; results without a quota
  share the empty code.
- AwsExporter's `OneLimitSeriesPerCode` needs an alias that stays the same, that of
  AzureQuota calls for the subscription that succeed (`SubscriptionReads = {TRUE}`): one that fails
  empties the labels, and from then on a code has two limit series, for which the
  alert has no answer. The property of this name in GcpQuota is no part of a run: it fails
  when the project and a region list the same metric.
- `RenewedEntriesAreLive` needs entries that never expire or live for twice the
  period less an instant, the longest way from the start of one scrape to the end
  of the next (`AwsExpiry.cfg` has one instant less). With the shipped `values.yaml`
  an entry is gone before the next scrape, and the gauges serve as the memory: what
  a request finds in the cache it shows (`ResponsesAreFresh`, for any expiration),
  what it does not find it shows as of an older request. Codes that
  tolerate errors (`TolerantCodes`) may be measured in one scrape and not in the
  next, and are left out.
- `ResponsesAreFresh` needs one request at a time, scrapes that do not overlap, and one
  alias.
- `ProjectMatchesAccount` is of GCP only: the keys of the other providers come
  from several reads and may mix versions of the secret.
- `MirrorsReadProducts` needs scrapes that do not overlap (`Overlap = FALSE`), and
  ARNs that name their product, so that no product overwrites another's quota.
- `MirrorsAccount` with overlapping scrapes is about a scrape that no other one
  overwrites with what it read before: that is what `stale` is for.
- `HealthResponse` is about a request that met no other (`alone`). Two requests at once
  are in reach of it (with one provider, one event and one entity TLC visits 2 million
  states), and it is proved for any number; `ConcurrentResponse`, of
  all requests, fails (`health_overlap`). AliCloud's collector has no reset and is left to
  `ali_health`.
- `ExportSpec` promises pairs of one measurement as long as requests have come one at a
  time; when they overlap, one may set the usage, and another the limit, of
  another measurement than the one it finds in the other gauge.
- `ScrapesEnd` of AwsExporter and of AwsMonitor needs calls that are answered.
- `PointsAreFinal` is about metrics with a period of at most 300 seconds in jobs
  without a `roundingPeriod`: only then is the window rounded to the metric's own
  period. The shipped `values.yaml` has metrics of 600 seconds (and nests the
  jobs under `discovery`, which the configuration's struct does not read).
- `PointsNeverRegress` needs scrapes that do not overlap, and metrics of which one
  dimension belongs to a resource: with two of them one array can have two points
  of a series, from two batches.
- The second part of `SeriesAreConsistent` is about metrics of which one
  dimension belongs to a resource (`MonitorDuplicates.cfg`).

### Fairness

Neither `main` nor a client of a cloud has a deadline: `main.go:27` passes
`context.Background()`, the HTTP client that the AWS SDK builds has no timeout, and
that of autorest has none either. A call may stay unanswered for ever, and then
`Wait` does not return. So nothing is assumed of calls: `FairSpec` of AwsExporter has weak
fairness of those steps of each scrape and of each of its goroutines which are no
call (what the Go scheduler runs), of the release of waiters and the returns to main,
and `ScrapesEnd` says that a scrape ends *if* its calls are answered: it supposes that
no goroutine in flight stays in `ScrapeCalls` or `WorkerCalls` for ever. What it rules out is a
scrape that hangs in spite of its answers, because a path forgets `Done` or a
waiter is not released. All goroutines in flight are supposed so, not only the scrape's
own, since the wait group is shared: a call of another scrape may keep this one waiting. `FairSpec` of
AwsMonitor is fairness of the two writes of the slice, and its `ScrapesEnd` the same with `JobCalls`
and `TaskCalls`. AzureQuota has a wait group per scrape, so that its `ScrapesEnd` supposes answers to
the scrape's own calls only; `AzureEnds.cfg` (MCAzureQuota), run by hand, checks it with two
scrapes in flight and passes. Nothing is assumed of the clock, the account, Prometheus or the janitor.
The clock of `aws_overlap` is bounded, so that it has finitely many scrapes: scrapes
that overlap for ever may keep the shared counter above zero, and `Wait` waiting.

In ExporterProcess only `Start` is fair: Vault answers, refuses, or the request times out
after the 60 seconds that its client has by default, and delays end.
A process that dies satisfies `ScrapesEnd` vacuously; this is
deliberate, as the property is about waiting for ever.

## 4. Proofs

For every set of codes, products, lists, jobs, metrics, slots and requests, and
all durations and bounds:

| theorem | module | statement |
|---|---|---|
| `TypeCorrect` | AwsExporterProofs | `Spec => []TypeOK` |
| `CounterCorrect` | AwsExporterProofs | `Spec => []CounterCountsWorkers` |
| `WaitCoversOwnWorkers` | AwsExporterProofs | `Spec => []EndedScrapeHasNoWorkers` |
| `NoOverlapNoFault` | AwsExporterProofs | `~SlowScrapes`: `Spec => []NoWaitGroupFault` |
| `CachedAreListed` | AwsExporterProofs | `Spec => []CachedCodesAreListed` |
| `ServedAfterFullScrape` | AwsExporterProofs | `Spec => []ServesAfterFullScrape` |
| `OneLimitSeries` | AwsExporterProofs | `OneAlias`: `Spec => []OneLimitSeriesPerCode` |
| `ResponsePairs` | AwsExporterProofs | `OneRequest`, `OneAlias`: `Spec => []ResponsePairsMatch` |
| `UsageGoesForward` | AwsExporterProofs | `OneRequest`, `~SlowScrapes`: `Spec => UsageNeverRegresses` |
| `ResponsesFresh` | AwsExporterProofs | `OneRequest`, `OneAlias`, `~SlowScrapes`: `Spec => []ResponsesAreFresh`, for any expiration |
| `RenewedStayLive` | AwsExporterProofs | `OneAlias`, `LongExpiration`, `~SlowScrapes`: `Spec => []RenewedEntriesAreLive` |
| `AliTypeCorrect` | AliQuotaProofs | `Spec => []TypeOK` of AliQuota |
| `AliImplementsExport` | AliQuotaProofs | `Spec => ExportSpec`, AliQuota implements QuotaExport |
| `AliMirrorsReadProducts` | AliQuotaProofs | `~Overlap`, `ArnsNameTheirProduct`: `Spec => []MirrorsReadProducts` |
| `GcpTypeCorrect` | GcpQuotaProofs | `Spec => []TypeOK` of GcpQuota |
| `GcpImplementsExport` | GcpQuotaProofs | `Spec => ExportSpec`, GcpQuota implements QuotaExport |
| `GcpMirrorsAccount` | GcpQuotaProofs | `Spec => []MirrorsAccount`, with overlap or without |
| `AzureTypeCorrect` | AzureQuotaProofs | `Spec => []TypeOK` of AzureQuota |
| `AzureReturnsAlone` | AzureQuotaProofs | `Spec => []ReturnedScrapeIsIdle` |
| `AzureImplementsExport` | AzureQuotaProofs | `Spec => ExportSpec`, AzureQuota implements QuotaExport |
| `AzureOneLimitSeries` | AzureQuotaProofs | `SubscriptionReads \subseteq {TRUE}`: `Spec => []OneLimitSeriesPerCode` |
| `AzureMirrorsAccount` | AzureQuotaProofs | `Spec => []MirrorsAccount`, with overlap or without |
| `StartsWithCredentials` | ExporterProcessProofs | `Spec => []StartedIsComplete` |
| `ProjectOfAccount` | ExporterProcessProofs | `Spec => []ProjectMatchesAccount` |
| `RetriesBackOff` | ExporterProcessProofs | `Spec => []BackoffBounds` |
| `HealthCountsAnswer` | ExporterProcessProofs | `Spec => []HealthResponse`, for any number of requests |
| `BucketIsSummed` | ExporterProcessProofs | `Spec => []BucketResponse` |
| `ExporterTypes` | ExporterProcessProofs | `Spec => []TypeOK` of ExporterProcess |
| `UsageTypes` | AwsUsageProofs | `Spec => []TypeOK` of AwsUsage |
| `UntouchedCount` | AwsUsageProofs | `Spec => []UntouchedAreCounted` (volumes, VPCs, addresses, hosts, classic load balancers) |
| `QuietCount` | AwsUsageProofs | `Spec => []QuietAccountIsCounted` (of the same cases) |
| `GatewaysOneShort` | AwsUsageProofs | `Spec => []GatewaysAreOneShort` (the gateways are one short of the largest zone) |
| `RoundsDown` | AwsMonitorProofs | rounding half a period back is rounding down to a multiple |
| `PointIsFound` | AwsMonitorProofs | a window of at least one period contains the newest point before its end |
| `NewestPointIsFinal` | AwsMonitorProofs | the period of that point is over, if rounded to it |
| `MonitorTypes` | AwsMonitorProofs | `Spec => []TypeOK` of AwsMonitor |
| `PointsFinal` | AwsMonitorProofs | `Spec => []PointsAreFinal` |
| `ResourcesAreTheirs` | AwsMonitorProofs | `Spec => []SeriesNameTheirResource` |
| `RequestsGetConsistentSeries` | AwsMonitorProofs | `Spec => []SeriesAreConsistent` |
| `KeptAreExported` | AwsMonitorProofs | `Spec => []KeptMetricsAreExported` |
| `PointsGoForward` | AwsMonitorProofs | `OneScrape`, `OneDimension`: `Spec => PointsNeverRegress` |

What stands before the colon is the theorem's hypothesis about the constants;
each is the condition under which the run checks the property (section 3), and
TLC finds a counterexample to the property on an instance without it: `OneRequest` says that
there is one slot for requests, `OneScrape` one for scrapes, `OneAlias` that the account's alias stays,
`LongExpiration` that entries never expire or live `2 * ScrapingDuration - 1`.

The theorems otherwise rest on the named assumptions of the modules, which TLC
evaluates in their runs: `CodesAssumption` and `TimeAssumption` (AWS),
`ListsAssumption` (AliQuota: the lists are sequences), `QuotasAssumption` (GcpQuota, the same),
`ServicesAssumption` (AzureQuota: finitely many lists), `RetryAssumption`,
`HealthAssumption` and `BucketAssumption` (ExporterProcess), `UsageAssumption` (AwsUsage: finitely
many keys, which are positive numbers, and sizes that are numbers), and four of AwsMonitor:
`MonitorAssumption` and `FiniteAssumption` are about shapes, `TimesAssumption`
has positive periods (CloudWatch refuses others), and `NamesAssumption` has what
CloudWatch promises of metrics, that those of one name differ in their dimensions.

### AWS: the wait group

`TypeOK` is not inductive. `TypeInv` adds `MeasuredUsage` (a goroutine about to
cache a result has measured a version, not the zero value) and `SnapshotHasKey`
(the key whose limit is set next is still in the request's snapshot). Lemmas
`Same...` say that a part of the invariant survives a step that leaves its
variables alone, so that an action's proof is about what it changes.

The counter needs to know whose goroutines it counts. `GroupInv` is
`CounterCountsWorkers` with `WorkersBelong` (a scrape has goroutines only between
its first `go` and the return of `Wait`, and none for a code it has not come
to: a `Spawn` adds a goroutine that was not there), `SleepersWait` (waiters sleep
in `Wait`, and those released have no goroutine left, even while another
scrape's are running) and `DeadIsIdle` (a dead process has none). That `Wait`
covers its own goroutines, although another scrape counts in the same group,
follows from `WorkersBelong`: at counter zero there are no goroutines at all,
and those of other scrapes that come later are not this one's.

Without overlap, `OneAtATime` says that at most one scrape is in flight
(`OneInFlight`) and that none is when a tick is due (`TickFindsNone`, from the
guard of `TimePasses`). With `GroupInv`, `Add` then never meets a released
waiter, and `WakeUp` never a counter that is not zero.

### AWS: the responses

A cached code is listed as the goroutine that caches it was given its quota by
the map: `ListedInv` adds `WriteIsQuota` (what an assignment to the map writes)
and `WorkersKnowTheirQuota`. Quotas are never taken out of the map.

`FullInv` follows a code that nothing excuses (`Required`) from the list to the
cache: it is still to be listed, in the assignment, or in the map
(`ListProgress`, for which `OneWriter` has the map race end the process);
its goroutine is still to be started, at work, or its result is cached
(`MeasuredOrAtWork`); and a scrape that waits has started all (`WaitsAfterSpawning`).
With `GroupInv` the first scrape returns when none is at work.

`SeriesInv` says that what is exported is labelled as the map says and with an
alias of the account (`AliasKnown`). `PairInv` is `ResponsePairsMatch` at
every moment: a series pairs what was measured together unless a request is
between its two `Set` calls, and then the usage is already the one of the copied item
(`UsageIsSet`). `ItemsWritten` has copies hold results that were cached.

That usages go forward is an order of versions along the way of a result:
account, goroutine, cache, copied items, gauge. `OrderInv` has each at least as new
as what follows it (`WrittenIsPast`, `MeasuredIsNewest`, `CacheIsNewest`,
`ItemsAreAhead`). It needs `OneAtATime` where a goroutine caches a result:
no other has cached a newer one since.

`FloorInv` carries through a request what was cached for its live codes when it
began: by the copied item while the code is in the copy, by the gauge from then on;
with `OrderInv` neither gets older. This holds for any expiration.

`RenewedEntriesAreLive` is the only property about time. `TimeInv` gives each
code a `Deadline` which its entry reaches (`EntriesOnTime`), before the next tick if the scrape
in flight has still to measure it and a period later if not; the
alternative is that only one usage of the code was ever cached (`OneUsage`).
`BootInv` starts this: the first scrape may be longer than an expiration, but
caches each code once. `AgainInv` says that what one scrape measures every later one measures too.

### The other providers

The three collectors map to QuotaExport by their gauges, by the answers that are sent,
and by the history of `CacheSet`. What their requests have in common is proved once, in
QuotaLoopProofs. `CacheCovered`: an entry of the cache is one that was measured,
however it was overwritten and whatever expired. `ShownIn`: what the gauges and the
answers show was measured, for any number of requests (`CollectShows`). `AloneInv`: unless
requests have overlapped, the gauges hold pairs of one measurement except for the one series
whose usage is set and whose limit is not (`PendingAt`), and that one request knows
(`CollectAlone`). `HalfSent`: unless requests have overlapped, the gauge that a request has sent is still
as it was when it sends the other (`CollectSends`). `CollectSteps` puts
them together: a step of a request is a step of QuotaExport or changes nothing of it. It leaves to each
collector where its labels come from.

That what AliQuota's `CacheSet` stores is a result of its own quota
needs `ScanInv`: what a scrape has still to cache is a rest of the answer for
the product it asks. With overlap, several scrapes do this at once, and `OneScan`
says that a step of one leaves the others alone.

GcpQuota caches a metric whatever the region and shows it in the series of the
region it was measured in, so that the same key feeds two series: the mapping of
`measured` (`Measured`) takes a cached pair to the series it is shown in, and
`ShownIsMeasured` says that a series shows what was cached under its metric.

In AzureQuota, `ListerInv` (a goroutine that is there belongs to a scrape in
flight, and one that is not is as it was at first) and `GroupInv` (the wait group
counts the goroutines that are there) are one invariant: `StaysAlive` is a step
that leaves the goroutines there, `DoneCounts` one that ends one of them, and
`BeginCounts` the three `go` statements; at zero there is none left
(`EmptyGroup`), which is what a return needs. `AzureOneLimitSeries` needs that no request
looks up a series before it has itself assigned both labels (`KnownInv`: a request that has
copied the cache leaves them known, and no other request takes that back).

`MirrorsAccount` looks as if it were about one scrape, but the others in flight write
to the same cache. `Knowing` (QuotaLoopProofs) is the state in which this does no
harm: the cache is settled, or a scrape in flight has missed nothing. In it
nothing that any scrape has read is out of date (GcpQuota's `TodoExact`, AzureQuota's `PagesExact`),
since a change or a crash ends `Knowing` and only a scrape that begins alone
starts it (`KnowingStarts`). `Progress` then says of a scrape that is not stale that what
it has not come to is all that the cache may still lack, and `Mirror` that nothing is
missing once one has returned. Both are about quotas with a key of their own
(`Lone`), which no other quota overwrites. AliQuota goes on after a failed call,
so that its property is about products, one by one: `AnswerOK` says that the rest of an
answer is the account's for as long as no quota of the product changes, and that
the cache shows what came before that rest.

### Start and health

`StartupInv` has three parts that `StartedIsComplete` does not show: a read gives all of its
credentials or none (`ReadsAreWhole`), the reads left are those not yet given
(`StartsComplete` at the end of them), and project and service account are of one
version of the secret, being of one read (`OneAccount`). `RetryInv` keeps the
attempts below the limit while one is to come.

A response of the health collector that met no other request counts every event of its
answer once: `ResponseInv` says that such a request is the only one in progress, and
that the counters hold the part of the answer which it has been through, and of the entities
those of that part whose batch has been asked for (`CountsAnswer`; `Waiting` are the events whose
batch has not). That no entity is counted twice needs batches without common events
(`BatchesOK`) and answers with one state per event (`AnswerOK`). These are kept by every
request, alone or not, since a request may begin while others are in progress.

That the retries back off (`Backoff`) is about the delay before the n-th retry as well as about their
sum: a delay is between 2^n and 3^n times the base while it is to come, and half of
that while it passes. The solvers do not know `^`, so the powers are a
recursive function, `Power`, and `PowerIs` proves its equation.

### Sums: the bucket and AWS usage

What a page adds is a fold, and a fold is a recursive function on the subsets of the page, of which
TLA+ promises nothing before one is shown to exist. `SomeRecursive` shows it for
any function `h` that adds an element and any `r` that takes one out: of the subsets without such a
function one would be least (`LeastSet`, which stands for induction over
finite sets), and those below it agree on what they have in common (`OneRecursive`).
`SumUpFold` and `TotalFold` are the equations of the two folds, and `TotalOne` says
that of a total any object can be taken out first.

The invariant is an existence: there is a bucket `w` that the sum is exactly of (`AddsUpTo`),
whose objects are those seen when their page was read (`SummedAs`). It has
every untouched object up to the marker, and none behind it (`Seen`), so that
the next page, which lies behind the marker as a whole, repeats none of them and
skips none (`PageSums`). A response is then about `w`, which is the bucket itself if
nothing was touched. `OneMoreObject` is `Accumulate`: some object has the largest size and
some object both the last date and the exported size.

AwsUsage has the same invariant (`CountedAs`) for the cases that count items or add up
volumes. For its bounds on sums, a sum of sizes is the cardinality of a union of disjoint sets, one
unit per GiB (`VolumesAreUnits`), to which the theorems about finite sets apply. The
gateways are counted in one step after the list of their subnets: `LargestZone` is the
largest of the zones and `GatewayInv` bounds it by what nobody touched in the meantime.
`GatewaysOneShort` states the defect of the code and not a promise: on a quiet account with
gateways the cached usage is that of the largest zone less one.

### The monitor

`NewestPointIsFinal` is arithmetic: `RoundsDown` gives a multiple of the
period at or before now, the newest point begins before it, and therefore a
whole period before it.

`MonitorInv` says of every scrape (`ScrapeOK`) that it has found only tagged
resources of the job's type (`FoundOK`), that each statistic of a metric and the
resource it was found through is queried once and lies either in the queue or in
the data (`WorkOK`), and that no data are newer than what can be
there (`DataOK`). `KeptOK` follows what stays through the scrape: its resource is still
to be listed or among the found ones, its metric is still to be queried or among
the data (`OnItsWay`). All of this is about one scrape, and no step of another
touches it; what `WritePointer` publishes is then an array with `ArrayOK`, and
since a request reads one array or the other, whole or in part, so is what it
reads. `PointsGoForward` adds that a scrape's points are not older than those
exported (`NewerInv`), from the monotony of the window in time (`LatestMonotone`).

### What TLC alone checks

- Liveness (`ScrapesEnd`, `StartEnds`) and whatever is about
  `ENABLED`: out of reach of the prover.
- That the hypotheses of the theorems are needed, and the findings and configurations of
  section 3, which are counterexamples.

Every invariant and action property of a passing run is a theorem, and so is every
refinement.

## 5. Plan

1. AwsExporter as an implementation of QuotaExport too, with the gauges of the
   usage as what is shown; the limits come from the same results and need a mapping
   of their own. `OrderInv` has what the steps need.
2. Composition: AwsUsage as what `Measure` of AwsQuota takes for one number, by a refinement
   in which the steps of a count are stutters until its `cache.Set`.
3. Larger instances: two jobs that share a resource in the monitor; Azure's lists
   of several pages with overlap.

## 6. Not modelled

The clients that constructors build and their credentials' encoding, `azure.go`'s
token and subscription clients among them (SDK code); logging; the labels that no
property tells apart; the Helm chart; `/healthz`. `RetryOnErrWithLog` and
`error.go`, which nothing calls.
