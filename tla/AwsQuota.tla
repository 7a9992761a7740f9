------------------------------ MODULE AwsQuota ------------------------------
(***************************************************************************)
(* The AWS quota collector, pkg/cloud/aws/quota/aws_quota.go: Scrape lists *)
(* the quotas, starts one goroutine per quota code that measures the usage *)
(* and caches the pair, and waits for them; Collect copies the cache into  *)
(* the two gauges and hands the gauges to Prometheus.                      *)
(*                                                                         *)
(* Everything the code keeps in package variables is one variable here and *)
(* is shared by every Scrape and Collect in flight, as in the code:        *)
(* serviceQuotaMap, account, waitGroup, common.QuotaCache, QuotaCurrent    *)
(* and QuotaLimit.  A step of the module is the code between two points    *)
(* where another goroutine can matter.  A limit or a usage is represented  *)
(* by the version of the account's state (cloud) in which it was read.     *)
(***************************************************************************)
EXTENDS Integers, FiniteSets

CONSTANTS
    Scrapes,          \* slots: the scrapes that can be in flight together
    Collectors,       \* slots: the /metrics requests in flight together
    Codes,            \* quotaCodeList
    UsageMetricCodes, \* codes measured through q.UsageMetric (line 250)
    TolerantCodes,    \* codes whose worker returns on an error (lines 380-408)
    HdlCodes,         \* codes measured in "hdl" accounts only (line 306)
    Unlisted,         \* codes that ListServiceQuotas may leave out
    AliasReplies,     \* what ListAccountAliases may answer
    HdlAliases,       \* the aliases that contain "hdl"
    NoAlias,          \* the empty alias
    NoCode,           \* the empty quota code
    Expiration,       \* conf.CacheExpiration
    MaxVersion        \* bound: how often each quota changes in the cloud

ASSUME CodesAssumption ==
    /\ IsFiniteSet(Codes) /\ IsFiniteSet(Scrapes)
    /\ NoCode \notin Codes
    /\ UsageMetricCodes \subseteq Codes /\ TolerantCodes \subseteq Codes
    /\ HdlCodes \subseteq Codes /\ Unlisted \subseteq Codes
    /\ HdlAliases \subseteq AliasReplies
    /\ Expiration \in Int /\ MaxVersion \in Nat

VARIABLES
    process,      \* the exporter: "down", "boot" (first Scrape) or "serving"
    fault,        \* why the process died last
    now,          \* the clock
    cloud,        \* version of the account's state, per quota code
    quotas,       \* serviceQuotaMap: the version of the limit listed
    mapWrite,     \* the assignment to serviceQuotaMap in progress, if any
    account,      \* the account alias
    wg,           \* waitGroup
    scrape,       \* the scrapes in flight
    worker,       \* their goroutines
    cache,        \* common.QuotaCache
    gaugeCurrent, \* common.QuotaCurrent
    gaugeLimit,   \* common.QuotaLimit
    collect,      \* the requests in flight
    written,      \* history: the results cached since the process started
    floor         \* history: per request, what had been cached, when it began,
                  \* for the keys that were live in the cache then

CWG == INSTANCE GoWaitGroup
CCache == INSTANCE GoCache

Keys     == Codes \cup {NoCode}
Accounts == AliasReplies \cup {NoAlias}
None     == -1                 \* the zero value: no quota, a limit of 0
Absent   == -2                 \* no series in a gauge
Versions == 0 .. MaxVersion
Values   == Versions \cup {None}
GaugeValues == Values \cup {Absent}
Series   == [code : Keys, named : BOOLEAN, account : Accounts]
Results  == [limit : Values, current : Versions]
NoWrite  == [code |-> NoCode, limit |-> None]

memory == <<quotas, mapWrite, account, wg, scrape, worker, cache, gaugeCurrent,
            gaugeLimit, collect, written, floor>>
environment == <<now, cloud>>
vars == <<process, fault, environment, memory>>

IdleScrape  == [pc |-> "idle", todo |-> {}]
IdleWorker  == [pc |-> "none", limit |-> None, current |-> None]
NoSeries    == [s \in Series |-> Absent]
CollectState(pc, items, at, limits) ==
    [pc |-> pc, items |-> items, at |-> at, limits |-> limits]
NoLabels    == [code |-> NoCode, named |-> FALSE, account |-> NoAlias]
IdleCollect == CollectState("idle", CCache!EmptyCache, NoLabels, NoSeries)

\* The package variables when the process starts; InitQuotaGaugeVec and
\* cache.New make the gauges and the cache empty.
NoQuotas    == [c \in Codes |-> None]
NoScrapes   == [s \in Scrapes |-> IdleScrape]
NoWorkers   == [s \in Scrapes |-> [c \in Codes |-> IdleWorker]]
NoCollects  == [k \in Collectors |-> IdleCollect]
NoFloor     == [k \in Collectors |-> {}]

FreshMemory ==
    /\ quotas = NoQuotas /\ mapWrite = NoWrite /\ account = NoAlias
    /\ wg = CWG!NewWaitGroup /\ scrape = NoScrapes /\ worker = NoWorkers
    /\ cache = CCache!EmptyCache
    /\ gaugeCurrent = NoSeries /\ gaugeLimit = NoSeries
    /\ collect = NoCollects /\ written = {} /\ floor = NoFloor

\* A panic or a fatal error of any goroutine ends the process; its memory is
\* lost, and the next process starts from FreshMemory.
Crash(f) ==
    /\ process' = "down" /\ fault' = f
    /\ quotas' = NoQuotas /\ mapWrite' = NoWrite /\ account' = NoAlias
    /\ wg' = CWG!NewWaitGroup /\ scrape' = NoScrapes /\ worker' = NoWorkers
    /\ cache' = CCache!EmptyCache
    /\ gaugeCurrent' = NoSeries /\ gaugeLimit' = NoSeries
    /\ collect' = NoCollects /\ written' = {} /\ floor' = NoFloor
    /\ UNCHANGED environment

-----------------------------------------------------------------------------
(* Scrape *)

BeginScrape(s) == scrape' = [scrape EXCEPT ![s] = [pc |-> "account", todo |-> {}]]

\* ListAccountAliases and GetCallerIdentity: an error leaves a nil output,
\* which the next line dereferences.  An empty list keeps the old alias.
ListAccount(s) ==
    /\ scrape[s].pc = "account"
    /\ \/ Crash("api error")
       \/ \E a \in AliasReplies :
            /\ account' = IF a = NoAlias THEN account ELSE a
            /\ scrape' = [scrape EXCEPT ![s] = [pc |-> "list", todo |-> Codes]]
            /\ UNCHANGED <<process, fault, environment, quotas, mapWrite, wg, worker,
                           cache, gaugeCurrent, gaugeLimit, collect, written, floor>>

\* A page of ListServiceQuotas gives the quota of code c, or the service has
\* no applied value for it, or the page fails and its nil output is read.
\* The runtime ends a process that writes a map another goroutine is writing.
ListQuota(s, c) ==
    /\ scrape[s].pc = "list" /\ c \in scrape[s].todo
    /\ \/ Crash("api error")
       \/ /\ c \in Unlisted
          /\ scrape' = [scrape EXCEPT ![s].todo = @ \ {c}]
          /\ UNCHANGED <<process, fault, environment, quotas, mapWrite, account, wg, worker,
                         cache, gaugeCurrent, gaugeLimit, collect, written, floor>>
       \/ /\ mapWrite # NoWrite
          /\ Crash("map race")
       \/ /\ mapWrite = NoWrite
          /\ mapWrite' = [code |-> c, limit |-> cloud[c]]
          /\ scrape' = [scrape EXCEPT ![s] = [pc |-> "assign", todo |-> @.todo \ {c}]]
          /\ UNCHANGED <<process, fault, environment, quotas, account, wg, worker,
                         cache, gaugeCurrent, gaugeLimit, collect, written, floor>>

AssignQuota(s) ==
    /\ scrape[s].pc = "assign"
    /\ quotas' = [quotas EXCEPT ![mapWrite.code] = mapWrite.limit]
    /\ mapWrite' = NoWrite
    /\ scrape' = [scrape EXCEPT ![s].pc = "list"]
    /\ UNCHANGED <<process, fault, environment, account, wg, worker,
                   cache, gaugeCurrent, gaugeLimit, collect, written, floor>>

EndList(s) ==
    /\ scrape[s].pc = "list" /\ scrape[s].todo = {}
    /\ scrape' = [scrape EXCEPT ![s] = [pc |-> "spawn", todo |-> Codes]]
    /\ UNCHANGED <<process, fault, environment, quotas, mapWrite, account, wg, worker,
                   cache, gaugeCurrent, gaugeLimit, collect, written, floor>>

\* waitGroup.Add(1); go func(...)(qCode, serviceQuotaMap[qCode]).  The read of
\* the map during a write ends the process or, unnoticed, finds the old value.
Spawn(s, c) ==
    /\ scrape[s].pc = "spawn" /\ c \in scrape[s].todo
    /\ \/ CWG!AddPanics(wg) /\ Crash("waitgroup")
       \/ mapWrite # NoWrite /\ Crash("map race")
       \/ /\ ~CWG!AddPanics(wg)
          /\ wg' = CWG!Add(wg)
          /\ worker' = [worker EXCEPT ![s][c] =
                           [pc |-> "call", limit |-> quotas[c], current |-> None]]
          /\ scrape' = [scrape EXCEPT ![s].todo = @ \ {c}]
          /\ UNCHANGED <<process, fault, environment, quotas, mapWrite, account,
                         cache, gaugeCurrent, gaugeLimit, collect, written, floor>>

\* Mutant of Wait: no call of waitGroup.Wait().
NoWait(s) ==
    /\ scrape[s].pc = "spawn" /\ scrape[s].todo = {}
    /\ scrape' = [scrape EXCEPT ![s].pc = "ended"]
    /\ UNCHANGED <<process, fault, environment, quotas, mapWrite, account, wg, worker,
                   cache, gaugeCurrent, gaugeLimit, collect, written, floor>>

\* waitGroup.Wait(): returns at once on a zero counter, else sleeps.
Wait(s) ==
    /\ scrape[s].pc = "spawn" /\ scrape[s].todo = {}
    /\ \/ /\ CWG!WaitReturnsAtOnce(wg)
          /\ scrape' = [scrape EXCEPT ![s].pc = "ended"]
          /\ wg' = wg
       \/ /\ ~CWG!WaitReturnsAtOnce(wg)
          /\ scrape' = [scrape EXCEPT ![s].pc = "wait"]
          /\ wg' = CWG!Sleep(wg, s)
    /\ UNCHANGED <<process, fault, environment, quotas, mapWrite, account, worker,
                   cache, gaugeCurrent, gaugeLimit, collect, written, floor>>

\* The released waiter looks at the word again before Wait returns.
WakeUp(s) ==
    /\ scrape[s].pc = "wait" /\ s \in wg.woken
    /\ \/ CWG!WakePanics(wg) /\ Crash("waitgroup")
       \/ /\ ~CWG!WakePanics(wg)
          /\ scrape' = [scrape EXCEPT ![s].pc = "ended"]
          /\ wg' = CWG!Wake(wg, s)
          /\ UNCHANGED <<process, fault, environment, quotas, mapWrite, account, worker,
                         cache, gaugeCurrent, gaugeLimit, collect, written, floor>>

ScrapeReturns(s) ==
    /\ scrape[s].pc = "ended"
    /\ scrape' = [scrape EXCEPT ![s] = IdleScrape]

-----------------------------------------------------------------------------
(* The goroutine of scrape s for code c *)

SetWorker(s, c, w) == worker' = [worker EXCEPT ![s][c] = w]

SkippedWithoutDone(w) == IdleWorker               \* mutant of Skipped
MeasuredNothing(w, v) == [w EXCEPT !.pc = "set"]  \* mutant of Measured

\* Where an early return and a measured usage leave the goroutine.
Skipped(w)     == [w EXCEPT !.pc = "done"]
Measured(w, v) == [w EXCEPT !.pc = "set", !.current = v]

\* Measuring the usage.  Without a listed quota q is the zero value: its nil
\* UsageMetric is dereferenced, the other codes go on with it.
Measure(s, c) ==
    LET w == worker[s][c]
        skip == /\ SetWorker(s, c, Skipped(w))
                /\ UNCHANGED <<process, fault, environment, quotas, mapWrite, account, wg,
                               scrape, cache, gaugeCurrent, gaugeLimit, collect,
                               written, floor>>
    IN
    /\ w.pc = "call"
    /\ \/ /\ c \in UsageMetricCodes /\ w.limit = None
          /\ Crash("nil quota")
       \/ c \in HdlCodes /\ account \notin HdlAliases /\ skip
       \/ /\ ~(c \in UsageMetricCodes /\ w.limit = None)
          /\ ~(c \in HdlCodes /\ account \notin HdlAliases)
          /\ \/ c \in TolerantCodes /\ skip
             \/ c \notin TolerantCodes /\ Crash("api error")
             \/ /\ SetWorker(s, c, Measured(w, cloud[c]))
                /\ UNCHANGED <<process, fault, environment, quotas, mapWrite, account, wg,
                               scrape, cache, gaugeCurrent, gaugeLimit, collect,
                               written, floor>>

\* Mutant of CacheKey: the code of the loop as the key.
CacheKeyOfLoop(c, q) == c

\* The result is cached under q.QuotaCode: the empty code for a zero q.
CacheKey(c, q) == IF q = None THEN NoCode ELSE c

\* Mutant of CacheResult: Add, which leaves a live entry alone.
AddResult(s, c) ==
    LET w == worker[s][c]
        key == CacheKey(c, w.limit)
        result == [limit |-> w.limit, current |-> w.current]
    IN
    /\ w.pc = "set"
    /\ cache' = IF key \in CCache!Live(cache, now) THEN cache
                ELSE CCache!Set(cache, key, result, now, Expiration)
    /\ SetWorker(s, c, [w EXCEPT !.pc = "done"])
    /\ written' = written \cup {<<key, result>>}
    /\ UNCHANGED <<process, fault, environment, quotas, mapWrite, account, wg, scrape,
                   gaugeCurrent, gaugeLimit, collect, floor>>

CacheResult(s, c) ==
    LET w == worker[s][c]
        key == CacheKey(c, w.limit)
        result == [limit |-> w.limit, current |-> w.current]
    IN
    /\ w.pc = "set"
    /\ cache' = CCache!Set(cache, key, result, now, Expiration)
    /\ SetWorker(s, c, [w EXCEPT !.pc = "done"])
    /\ written' = written \cup {<<key, result>>}
    /\ UNCHANGED <<process, fault, environment, quotas, mapWrite, account, wg, scrape,
                   gaugeCurrent, gaugeLimit, collect, floor>>

\* Mutant of WorkerDone: Done both deferred and called.
WorkerDoneTwice(s, c) ==
    /\ worker[s][c].pc = "done"
    /\ \/ CWG!DonePanics(wg) /\ Crash("waitgroup")
       \/ /\ ~CWG!DonePanics(wg)
          /\ wg' = CWG!Done(CWG!Done(wg))
          /\ SetWorker(s, c, IdleWorker)
          /\ UNCHANGED <<process, fault, environment, quotas, mapWrite, account, scrape,
                         cache, gaugeCurrent, gaugeLimit, collect, written, floor>>

\* defer waitGroup.Done()
WorkerDone(s, c) ==
    /\ worker[s][c].pc = "done"
    /\ \/ CWG!DonePanics(wg) /\ Crash("waitgroup")
       \/ /\ ~CWG!DonePanics(wg)
          /\ wg' = CWG!Done(wg)
          /\ SetWorker(s, c, IdleWorker)
          /\ UNCHANGED <<process, fault, environment, quotas, mapWrite, account, scrape,
                         cache, gaugeCurrent, gaugeLimit, collect, written, floor>>

\* The Done that reached zero wakes the sleeping waiters.
ReleaseWaiters ==
    /\ CWG!Releasing(wg)
    /\ wg' = CWG!Release(wg)
    /\ UNCHANGED <<process, fault, environment, quotas, mapWrite, account, scrape, worker,
                   cache, gaugeCurrent, gaugeLimit, collect, written, floor>>

\* The janitor goroutine of the cache.
Janitor ==
    /\ cache' = CCache!DeleteExpired(cache, now)
    /\ cache' # cache
    /\ UNCHANGED <<process, fault, environment, quotas, mapWrite, account, wg, scrape,
                   worker, gaugeCurrent, gaugeLimit, collect, written, floor>>

-----------------------------------------------------------------------------
(* Collect, one request of Prometheus *)

\* common.QuotaCache.Items()
BeginCollect(k) ==
    /\ collect[k].pc = "idle"
    /\ collect' = [collect EXCEPT ![k] =
                     CollectState("current", CCache!Items(cache, now), NoLabels, NoSeries)]
    /\ floor' = [floor EXCEPT ![k] = {w \in written : w[1] \in CCache!Live(cache, now)}]
    /\ UNCHANGED <<process, fault, environment, quotas, mapWrite, account, wg, scrape,
                   worker, cache, gaugeCurrent, gaugeLimit, written>>

\* The service and quota names come from serviceQuotaMap; only the quota code
\* comes from the cached result.
LabelsOf(key) ==
    [code |-> key, named |-> key \in Codes /\ quotas[key] # None, account |-> account]

\* q := serviceQuotaMap[...]; QuotaCurrent.WithLabelValues(...).Set(...)
SetCurrent(k, key) ==
    /\ collect[k].pc = "current" /\ key \in DOMAIN collect[k].items
    /\ \/ mapWrite # NoWrite /\ Crash("map race")
       \/ /\ gaugeCurrent' = [gaugeCurrent EXCEPT ![LabelsOf(key)] = collect[k].items[key].current]
          /\ collect' = [collect EXCEPT ![k] =
                             CollectState("limit", @.items, LabelsOf(key), @.limits)]
          /\ UNCHANGED <<process, fault, environment, quotas, mapWrite, account, wg, scrape,
                         worker, cache, gaugeLimit, written, floor>>

\* Mutant of ExportedLimit: the limit that the list holds now.
ListedLimit(key, item) == IF key \in Codes THEN quotas[key] ELSE item.limit

ExportedLimit(key, item) == item.limit

\* QuotaLimit.WithLabelValues(...).Set(...) reads the account again.
SetLimit(k) ==
    LET key == collect[k].at.code
        labels == [collect[k].at EXCEPT !.account = account]
    IN
    /\ collect[k].pc = "limit"
    /\ gaugeLimit' = [gaugeLimit EXCEPT ![labels] = ExportedLimit(key, collect[k].items[key])]
    /\ collect' = [collect EXCEPT ![k] =
                     CollectState("current", [x \in DOMAIN @.items \ {key} |-> @.items[x]],
                                  @.at, @.limits)]
    /\ UNCHANGED <<process, fault, environment, quotas, mapWrite, account, wg, scrape,
                   worker, cache, gaugeCurrent, written, floor>>

\* common.QuotaLimit.Collect(ch): the response holds the limits of now ...
EmitLimits(k) ==
    /\ collect[k].pc = "current" /\ DOMAIN collect[k].items = {}
    /\ collect' = [collect EXCEPT ![k] =
                     CollectState("emit", @.items, @.at, gaugeLimit)]
    /\ UNCHANGED <<process, fault, environment, quotas, mapWrite, account, wg, scrape,
                   worker, cache, gaugeCurrent, gaugeLimit, written, floor>>

\* Mutant of EmitCurrents: the gauge reset after it is emitted.
EmitAndReset(k) ==
    /\ collect[k].pc = "emit"
    /\ collect' = [collect EXCEPT ![k] = IdleCollect]
    /\ gaugeCurrent' = NoSeries
    /\ floor' = [floor EXCEPT ![k] = {}]
    /\ UNCHANGED <<process, fault, environment, quotas, mapWrite, account, wg, scrape,
                   worker, cache, gaugeLimit, written>>

\* ... and common.QuotaCurrent.Collect(ch) the usages of now; it is complete.
EmitCurrents(k) ==
    /\ collect[k].pc = "emit"
    /\ collect' = [collect EXCEPT ![k] = IdleCollect]
    /\ floor' = [floor EXCEPT ![k] = {}]
    /\ UNCHANGED <<process, fault, environment, quotas, mapWrite, account, wg, scrape,
                   worker, cache, gaugeCurrent, gaugeLimit, written>>

-----------------------------------------------------------------------------
(* What goroutines the module has, for Next and for fairness *)

ScrapeStep(s) ==
    \/ ListAccount(s) \/ AssignQuota(s) \/ EndList(s) \/ Wait(s) \/ WakeUp(s)
    \/ \E c \in Codes : ListQuota(s, c) \/ Spawn(s, c)

WorkerStep(s, c) == Measure(s, c) \/ CacheResult(s, c) \/ WorkerDone(s, c)

CollectStep(k) ==
    \/ SetLimit(k) \/ EmitLimits(k) \/ EmitCurrents(k)
    \/ \E key \in Keys : SetCurrent(k, key)
=============================================================================
