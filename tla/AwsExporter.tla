---------------------------- MODULE AwsExporter ----------------------------
(***************************************************************************)
(* main.go composed with the AWS quota collector: the process boots, runs  *)
(* the first Scrape before it serves, then starts one Scrape in its own    *)
(* goroutine at every tick, whether or not the last one has returned,      *)
(* while Prometheus requests /metrics.  A panic in any goroutine ends the  *)
(* process and the Kubernetes Deployment starts it again.                  *)
(***************************************************************************)
EXTENDS AwsQuota

CONSTANTS
    ScrapingDuration, \* conf.ScrapingDuration, the ticker's period
    SlowScrapes,      \* may a Scrape outlast the tick after the one it began at?
    Steady,           \* bound: codes that nothing changes in the account
    MaxTime           \* bound: the last instant of the clock

ASSUME TimeAssumption ==
    /\ ScrapingDuration \in Nat \ {0}
    /\ SlowScrapes \in BOOLEAN /\ Steady \subseteq Codes
    /\ MaxTime \in Nat

VARIABLE nextTick     \* when the ticker fires next

allVars == <<vars, nextTick>>

Init ==
    /\ process = "down" /\ fault = "none"
    /\ now = 0 /\ cloud = [c \in Codes |-> 0]
    /\ FreshMemory
    /\ nextTick = 0

InFlight == {s \in Scrapes : scrape[s].pc # "idle"}

\* main, up to the call of Scrape on line 50.
Start ==
    /\ process = "down"
    /\ process' = "boot" /\ fault' = "none"
    /\ \E s \in Scrapes : BeginScrape(s)
    /\ UNCHANGED <<environment, nextTick, quotas, mapWrite, account, wg, worker, cache,
                   gaugeCurrent, gaugeLimit, collect, written, floor>>

\* The return of the first Scrape lets main serve and create the ticker.
Serve ==
    /\ process = "boot"
    /\ \E s \in Scrapes : ScrapeReturns(s)
    /\ process' = "serving"
    /\ nextTick' = now + ScrapingDuration
    /\ UNCHANGED <<fault, environment, quotas, mapWrite, account, wg, worker, cache,
                   gaugeCurrent, gaugeLimit, collect, written, floor>>

Tick ==
    /\ process = "serving" /\ now = nextTick
    /\ \E s \in Scrapes : scrape[s].pc = "idle" /\ BeginScrape(s)
    /\ nextTick' = now + ScrapingDuration
    /\ UNCHANGED <<process, fault, environment, quotas, mapWrite, account, wg, worker,
                   cache, gaugeCurrent, gaugeLimit, collect, written, floor>>

EndScrape ==
    /\ process = "serving"
    /\ \E s \in Scrapes : ScrapeReturns(s)
    /\ UNCHANGED <<process, fault, environment, nextTick, quotas, mapWrite, account, wg,
                   worker, cache, gaugeCurrent, gaugeLimit, collect, written, floor>>

\* Time: a tick that is due is taken before time goes on.  Unless scrapes may
\* be slow, the tick does not come while one is in flight.
TimePasses ==
    /\ now < MaxTime
    /\ process = "serving" =>
         /\ now < nextTick
         /\ SlowScrapes \/ now + 1 < nextTick \/ InFlight = {}
    /\ now' = now + 1
    /\ UNCHANGED <<process, fault, cloud, memory, nextTick>>

CloudChanges(c) ==
    /\ cloud[c] < MaxVersion /\ c \notin Steady
    /\ cloud' = [cloud EXCEPT ![c] = @ + 1]
    /\ UNCHANGED <<process, fault, now, memory, nextTick>>

Scraping ==
    /\ process # "down"
    /\ \/ \E s \in Scrapes : ScrapeStep(s)
       \/ \E s \in Scrapes, c \in Codes : WorkerStep(s, c)
       \/ ReleaseWaiters
       \/ Janitor
    /\ nextTick' = nextTick

\* /metrics is handled once main has registered the handler.
Serving ==
    /\ process = "serving"
    /\ \E k \in Collectors : BeginCollect(k) \/ CollectStep(k)
    /\ nextTick' = nextTick

\* The end of the bounded clock is not a deadlock of the exporter.
Horizon == now = MaxTime /\ process = "serving" /\ InFlight = {} /\ UNCHANGED allVars

Next ==
    \/ Start \/ Serve \/ Tick \/ EndScrape
    \/ Scraping \/ Serving
    \/ TimePasses \/ Horizon \/ \E c \in Codes : CloudChanges(c)

Spec == Init /\ [][Next]_allVars

\* The scrape, or the goroutine of a code, waits for the answer to a call.
ScrapeCalls(s) ==
    scrape[s].pc = "account" \/ (scrape[s].pc = "list" /\ scrape[s].todo # {})

WorkerCalls(s, c) ==
    /\ worker[s][c].pc = "call"
    /\ ~(c \in UsageMetricCodes /\ worker[s][c].limit = None)
    /\ ~(c \in HdlCodes /\ account \notin HdlAliases)

\* Fairness.  Goroutines are scheduled, so what they do without a call is done.
\* Neither the context of main nor the HTTP client of the SDK has a deadline, so
\* that a call may stay unanswered.  Nothing obliges the clock, the cloud or
\* Prometheus to move.
Fairness ==
    /\ \A s \in Scrapes :
         WF_allVars(Scraping /\ ScrapeStep(s) /\ ~ScrapeCalls(s))
    /\ \A s \in Scrapes, c \in Codes :
         WF_allVars(Scraping /\ WorkerStep(s, c) /\ ~WorkerCalls(s, c))
    /\ WF_allVars(Scraping /\ ReleaseWaiters)
    /\ \A s \in Scrapes : WF_allVars((Serve \/ EndScrape) /\ ScrapeReturns(s))

FairSpec == Spec /\ Fairness

-----------------------------------------------------------------------------
(* Properties *)

WorkerStates == [pc : {"none", "call", "set", "done"}, limit : Values, current : Values]

ScrapeStates ==
    [pc : {"idle", "account", "list", "assign", "spawn", "wait", "ended"},
     todo : SUBSET Codes]

IsPartialFunction(f, S, T) == DOMAIN f \subseteq S /\ f \in [DOMAIN f -> T]

CachedItems == [object : Results, expiration : Int]

IsCollectState(r) ==
    /\ r = [pc |-> r.pc, items |-> r.items, at |-> r.at, limits |-> r.limits]
    /\ r.pc \in {"idle", "current", "limit", "emit"}
    /\ IsPartialFunction(r.items, Keys, Results)
    /\ r.at \in Series
    /\ r.limits \in [Series -> GaugeValues]

MainOK ==
    /\ process \in {"down", "boot", "serving"}
    /\ fault \in {"none", "api error", "nil quota", "map race", "waitgroup"}
    /\ now \in Nat /\ nextTick \in Nat
    /\ cloud \in [Codes -> Versions]

ListOK ==
    /\ quotas \in [Codes -> Values]
    /\ mapWrite \in [code : Keys, limit : Values]
    /\ account \in Accounts

ScrapeOK ==
    /\ wg \in CWG!WaitGroups(Scrapes)
    /\ scrape \in [Scrapes -> ScrapeStates]
    /\ worker \in [Scrapes -> [Codes -> WorkerStates]]

CacheOK ==
    /\ IsPartialFunction(cache, Keys, CachedItems)
    /\ written \subseteq Keys \X Results

GaugeOK == gaugeCurrent \in [Series -> GaugeValues] /\ gaugeLimit \in [Series -> GaugeValues]

CollectOK ==
    /\ collect = [k \in Collectors |-> collect[k]]
    /\ \A k \in Collectors : IsCollectState(collect[k])
    /\ floor \in [Collectors -> SUBSET (Keys \X Results)]

\* Every variable has the shape its declaration says.
TypeOK == MainOK /\ ListOK /\ ScrapeOK /\ CacheOK /\ GaugeOK /\ CollectOK

LiveWorkers == {w \in Scrapes \X Codes : worker[w[1]][w[2]].pc # "none"}

\* When Wait returns to a Scrape, each goroutine that Scrape started has run to
\* its end, although the group is shared with other scrapes: main serves and
\* the log says "End collect" only after every result is in the cache.
EndedScrapeHasNoWorkers ==
    \A s \in Scrapes : scrape[s].pc \in {"idle", "ended"} =>
        \A c \in Codes : worker[s][c].pc = "none"

\* /metrics is served only after a Scrape that measured every quota that has no
\* excuse: a failed call ends the process instead of leaving a hole.
ServesAfterFullScrape ==
    process = "serving" =>
        \A c \in Codes \ (TolerantCodes \cup HdlCodes \cup Unlisted) :
            \E r \in Results : <<c, r>> \in written

\* The counter of waitGroup is the number of goroutines between their Add and
\* their Done, whatever scrapes overlap: no early return path loses a Done.
CounterCountsWorkers == wg.counter = Cardinality(LiveWorkers)

\* Scrapes that do not overlap never trip the checks of sync.WaitGroup.
NoWaitGroupFault == fault # "waitgroup"

\* A result is cached under a code only after the quota of that code was
\* listed, so Collect never labels it with empty names from serviceQuotaMap.
CachedCodesAreListed ==
    /\ \A c \in DOMAIN cache \cap Codes : quotas[c] # None
    /\ \A k \in Collectors : \A c \in DOMAIN collect[k].items \cap Codes : quotas[c] # None

\* The alert cpe_quota_current / on(QuotaCode) group_left() cpe_quota_limit has
\* one limit series per quota code to divide by, as long as the alias of the
\* account stays the same.
OneLimitSeriesPerCode ==
    \A x, y \in Series :
        x.code = y.code /\ gaugeLimit[x] # Absent /\ gaugeLimit[y] # Absent => x = y

\* A response shows, for a code, a usage and a limit from one measurement, not
\* the usage of one scrape against the limit of another.
ResponsePairsMatch ==
    \A k \in Collectors : collect[k].pc = "emit" /\ process = "serving" =>
        \A x \in Series : x.code # NoCode /\ collect[k].limits[x] # Absent =>
            <<x.code, [limit |-> collect[k].limits[x], current |-> gaugeCurrent[x]]>>
                \in written

\* A response is, for every code that has a live entry when the request begins,
\* at least as new as all that had been cached for the code by then, although
\* the gauges are shared and keep what older requests set.
ResponsesAreFresh ==
    \A k \in Collectors : collect[k].pc = "emit" =>
        \A x \in Series, r \in floor[k] :
            r[1] = x.code /\ x.code \in Codes /\ gaugeCurrent[x] # Absent =>
                gaugeCurrent[x] >= r[2].current

\* From the second scrape on, a code that every scrape measures has a live entry
\* at every instant, so that no request falls back on the gauge of an older
\* scrape.  It takes an Expiration of twice the period less an instant, as a code
\* is measured anywhere between the start and the end of a scrape.
RenewedEntriesAreLive ==
    process = "serving" =>
        \A c \in Codes \ TolerantCodes :
            c \in CCache!Live(cache, now) \/ \A q, r \in Results :
                <<c, q>> \in written /\ <<c, r>> \in written => q.current = r.current

\* While a process lives, a series once exported is exported for ever, and the
\* usage exported for a code never goes back to an older measurement.  (Results
\* without a quota share the empty code, whatever code they measure.)
UsageNeverRegresses ==
    [][process' # "down" =>
         \A x \in Series :
             /\ gaugeCurrent[x] # Absent => gaugeCurrent'[x] # Absent
             /\ x.code # NoCode => gaugeCurrent'[x] >= gaugeCurrent[x]]_allVars

\* A scrape hangs only if a call of its own, or of a goroutine that any scrape
\* started on the shared wait group, is never answered: no wake-up is lost and no
\* Done is missing, though a scrape may begin while Wait is being released.
ScrapesEnd ==
    \A s \in Scrapes :
        /\ []<>~ScrapeCalls(s)
        /\ \A t \in Scrapes, c \in Codes : []<>~WorkerCalls(t, c)
        => (scrape[s].pc # "idle" ~> scrape[s].pc = "idle")
=============================================================================
