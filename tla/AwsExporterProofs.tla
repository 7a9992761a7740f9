------------------------- MODULE AwsExporterProofs -------------------------
(***************************************************************************)
(* Theorems about AwsExporter, for every set of scrapes, requests and      *)
(* quota codes and every configuration of the durations: the types; the    *)
(* shared waitGroup however scrapes overlap, and its contract when they do *)
(* not; and what a response is made of: quotas that were listed, a         *)
(* complete first scrape before main serves, one limit series for a quota  *)
(* code, and a usage and a limit of one measurement.                       *)
(***************************************************************************)
EXTENDS AwsExporter, FiniteSetTheorems, TLAPS

\* What TypeOK rests on: a measured usage is a version, and the key whose
\* gauge a request sets next is one of the keys it copied from the cache.
MeasuredUsage ==
    \A s \in Scrapes, c \in Codes :
        worker[s][c].pc = "set" => worker[s][c].current \in Versions

SnapshotHasKey ==
    \A k \in Collectors :
        collect[k].pc = "limit" => collect[k].at.code \in DOMAIN collect[k].items

ScrapeInv  == ScrapeOK /\ MeasuredUsage
CollectInv == CollectOK /\ SnapshotHasKey
TypeInv    == MainOK /\ ListOK /\ ScrapeInv /\ CacheOK /\ GaugeOK /\ CollectInv

Faults == {"none", "api error", "nil quota", "map race", "waitgroup"}

-----------------------------------------------------------------------------
(* The parts of TypeInv that a step leaves alone *)

LEMMA SameMain ==
  ASSUME MainOK, UNCHANGED <<process, fault, now, cloud, nextTick>> PROVE MainOK'
BY DEF MainOK

LEMMA SameList ==
  ASSUME ListOK, UNCHANGED <<quotas, mapWrite, account>> PROVE ListOK'
BY DEF ListOK

LEMMA SameScrape ==
  ASSUME ScrapeInv, UNCHANGED <<wg, scrape, worker>> PROVE ScrapeInv'
BY DEF ScrapeInv, ScrapeOK, MeasuredUsage

LEMMA SameCache ==
  ASSUME CacheOK, UNCHANGED <<cache, written>> PROVE CacheOK'
BY DEF CacheOK

LEMMA SameGauge ==
  ASSUME GaugeOK, UNCHANGED <<gaugeCurrent, gaugeLimit>> PROVE GaugeOK'
BY DEF GaugeOK

LEMMA SameCollect ==
  ASSUME CollectInv, UNCHANGED <<collect, floor>> PROVE CollectInv'
BY DEF CollectInv, CollectOK, SnapshotHasKey

-----------------------------------------------------------------------------
(* The memory of a new process, and of a dead one *)

LEMMA FreshCollectState == IsCollectState(IdleCollect) /\ NoSeries \in [Series -> GaugeValues]
<1>1. NoSeries \in [Series -> GaugeValues]
  BY DEF NoSeries, GaugeValues, Absent
<1>2. IsPartialFunction(CCache!EmptyCache, Keys, Results)
  BY DEF IsPartialFunction, CCache!EmptyCache
<1>3. QED
  BY <1>1, <1>2 DEF IsCollectState, IdleCollect, CollectState, NoLabels, Series, Keys, Accounts

LEMMA FreshMemoryTyped == MainOK /\ FreshMemory => TypeInv
<1> SUFFICES ASSUME MainOK, FreshMemory PROVE TypeInv
  OBVIOUS
<1>1. ListOK
  BY DEF FreshMemory, NoQuotas, NoWrite, Values, None, Keys, Accounts, ListOK
<1>2. wg \in CWG!WaitGroups(Scrapes) /\ scrape \in [Scrapes -> ScrapeStates]
  BY DEF FreshMemory, CWG!WaitGroups, CWG!NewWaitGroup, NoScrapes, IdleScrape, ScrapeStates
<1>3. worker \in [Scrapes -> [Codes -> WorkerStates]] /\ MeasuredUsage
  BY DEF FreshMemory, NoWorkers, IdleWorker, WorkerStates, Values, None, MeasuredUsage
<1>4. CacheOK
  BY DEF FreshMemory, CCache!EmptyCache, IsPartialFunction, CacheOK
<1>5. GaugeOK
  BY FreshCollectState DEF FreshMemory, GaugeOK
<1>6. CollectInv
  BY FreshCollectState
  DEF FreshMemory, NoCollects, NoFloor, SnapshotHasKey, IdleCollect, CollectState, CollectInv, CollectOK
<1>7. QED
  BY <1>1, <1>2, <1>3, <1>4, <1>5, <1>6 DEF TypeInv, ScrapeInv, ScrapeOK

LEMMA InitTyped == Init => TypeInv
BY FreshMemoryTyped, CodesAssumption DEF Init, MainOK, Versions

LEMMA CrashTyped ==
  ASSUME MainOK, NEW f \in Faults, Crash(f), nextTick' = nextTick
  PROVE  TypeInv'
<1>1. MainOK' /\ FreshMemory'
  BY DEF MainOK, Faults, FreshMemory, Crash, environment
<1>2. QED
  BY <1>1, FreshMemoryTyped, PTL

-----------------------------------------------------------------------------
(* How a step changes a scrape or a worker *)

LEMMA ScrapeMoves ==
  ASSUME ScrapeInv, NEW s \in Scrapes, NEW r \in ScrapeStates,
         scrape' = [scrape EXCEPT ![s] = r], worker' = worker,
         wg' \in CWG!WaitGroups(Scrapes)
  PROVE  ScrapeInv'
BY DEF ScrapeInv, ScrapeOK, MeasuredUsage

LEMMA WorkerMoves ==
  ASSUME ScrapeInv, NEW s \in Scrapes, NEW c \in Codes, NEW w \in WorkerStates,
         w.pc = "set" => w.current \in Versions,
         worker' = [worker EXCEPT ![s][c] = w],
         scrape' \in [Scrapes -> ScrapeStates], wg' \in CWG!WaitGroups(Scrapes)
  PROVE  ScrapeInv'
BY DEF ScrapeInv, ScrapeOK, MeasuredUsage

LEMMA WaitGroupTyped ==
  ASSUME NEW g \in CWG!WaitGroups(Scrapes), NEW s \in Scrapes
  PROVE  {CWG!Add(g), CWG!Done(g), CWG!Release(g), CWG!Sleep(g, s), CWG!Wake(g, s)}
            \subseteq CWG!WaitGroups(Scrapes)
<1>1. CWG!Add(g) \in CWG!WaitGroups(Scrapes) /\ CWG!Done(g) \in CWG!WaitGroups(Scrapes)
  BY DEF CWG!WaitGroups, CWG!Add, CWG!Done
<1>2. CWG!Release(g) \in CWG!WaitGroups(Scrapes)
  BY DEF CWG!WaitGroups, CWG!Release
<1>3. CWG!Sleep(g, s) \in CWG!WaitGroups(Scrapes) /\ CWG!Wake(g, s) \in CWG!WaitGroups(Scrapes)
  BY DEF CWG!WaitGroups, CWG!Sleep, CWG!Wake
<1>4. QED
  BY <1>1, <1>2, <1>3

LEMMA ScrapeStateFields ==
  ASSUME ScrapeInv, NEW s \in Scrapes
  PROVE  /\ scrape[s] = [pc |-> scrape[s].pc, todo |-> scrape[s].todo]
         /\ scrape[s].todo \subseteq Codes
         /\ scrape[s].pc \in {"idle", "account", "list", "assign", "spawn", "wait", "ended"}
BY DEF ScrapeInv, ScrapeOK, ScrapeStates

-----------------------------------------------------------------------------
(* One lemma per action of a scrape *)

LEMMA ListAccountTyped ==
  ASSUME TypeInv, nextTick' = nextTick, NEW s \in Scrapes, ListAccount(s)
  PROVE  TypeInv'
<1>1. CASE Crash("api error")
  BY <1>1, CrashTyped DEF Faults, TypeInv
<1>2. CASE ~Crash("api error")
  <2> DEFINE r == [pc |-> "list", todo |-> Codes]
  <2>1. ListOK'
    BY <1>2 DEF ListAccount, ListOK, Accounts, TypeInv
  <2>2. scrape' = [scrape EXCEPT ![s] = r] /\ UNCHANGED <<wg, worker>>
    BY <1>2 DEF ListAccount
  <2>3. r \in ScrapeStates
    BY DEF ScrapeStates
  <2>4. ScrapeInv'
    BY <2>2, <2>3, ScrapeMoves DEF TypeInv, ScrapeInv, ScrapeOK
  <2>5. QED
    BY <1>2, <2>1, <2>4, SameMain, SameCache, SameGauge, SameCollect
    DEF ListAccount, TypeInv, environment
<1>3. QED
  BY <1>1, <1>2

LEMMA ListQuotaTyped ==
  ASSUME TypeInv, nextTick' = nextTick, NEW s \in Scrapes, NEW c \in Codes, ListQuota(s, c)
  PROVE  TypeInv'
<1>1. CASE \E f \in Faults : Crash(f)
  BY <1>1, CrashTyped DEF TypeInv
<1>2. CASE ~(\E f \in Faults : Crash(f))
  <2> DEFINE r1 == [scrape[s] EXCEPT !.todo = @ \ {c}]
             r2 == [pc |-> "assign", todo |-> scrape[s].todo \ {c}]
  <2>1. /\ mapWrite' = mapWrite \/ mapWrite' = [code |-> c, limit |-> cloud[c]]
        /\ UNCHANGED <<quotas, account, wg, worker>>
    BY <1>2 DEF ListQuota, Faults
  <2>2. ListOK'
    <3>1. [code |-> c, limit |-> cloud[c]] \in [code : Keys, limit : Values]
      BY DEF TypeInv, MainOK, Keys, Values
    <3>2. QED
      BY <2>1, <3>1 DEF ListOK, TypeInv
  <2>3. \E r \in {r1, r2} : scrape' = [scrape EXCEPT ![s] = r]
    BY <1>2 DEF ListQuota, Faults, TypeInv, ScrapeInv, ScrapeOK
  <2>4. r1 \in ScrapeStates /\ r2 \in ScrapeStates
    BY ScrapeStateFields DEF ScrapeStates, TypeInv, ScrapeInv, ScrapeOK
  <2>5. ScrapeInv'
    BY <2>1, <2>3, <2>4, ScrapeMoves DEF TypeInv, ScrapeInv, ScrapeOK
  <2>6. QED
    BY <1>2, <2>2, <2>5, SameMain, SameCache, SameGauge, SameCollect
    DEF ListQuota, TypeInv, environment, Faults
<1>3. QED
  BY <1>1, <1>2

LEMMA AssignQuotaTyped ==
  ASSUME TypeInv, nextTick' = nextTick, NEW s \in Scrapes, AssignQuota(s)
  PROVE  TypeInv'
<1> DEFINE r == [scrape[s] EXCEPT !.pc = "list"]
<1>1. NoWrite \in [code : Keys, limit : Values]
  BY DEF NoWrite, Keys, Values, None
<1>2. ListOK'
  BY <1>1 DEF AssignQuota, ListOK, TypeInv
<1>3. scrape' = [scrape EXCEPT ![s] = r] /\ r \in ScrapeStates
  BY DEF AssignQuota, TypeInv, ScrapeInv, ScrapeOK, ScrapeStates
<1>4. ScrapeInv'
  BY <1>3, ScrapeMoves DEF AssignQuota, TypeInv, ScrapeInv, ScrapeOK
<1>5. QED
  BY <1>2, <1>4, SameMain, SameCache, SameGauge, SameCollect
  DEF AssignQuota, TypeInv, environment

LEMMA EndListTyped ==
  ASSUME TypeInv, nextTick' = nextTick, NEW s \in Scrapes, EndList(s)
  PROVE  TypeInv'
<1>1. [pc |-> "spawn", todo |-> Codes] \in ScrapeStates
  BY DEF ScrapeStates
<1>2. ScrapeInv'
  BY <1>1, ScrapeMoves DEF EndList, TypeInv, ScrapeInv, ScrapeOK
<1>3. QED
  BY <1>2, SameMain, SameList, SameCache, SameGauge, SameCollect
  DEF EndList, TypeInv, environment

LEMMA SpawnTyped ==
  ASSUME TypeInv, nextTick' = nextTick, NEW s \in Scrapes, NEW c \in Codes, Spawn(s, c)
  PROVE  TypeInv'
<1>1. CASE \E f \in Faults : Crash(f)
  BY <1>1, CrashTyped DEF TypeInv
<1>2. CASE ~(\E f \in Faults : Crash(f))
  <2> DEFINE w == [pc |-> "call", limit |-> quotas[c], current |-> None]
             r == [scrape[s] EXCEPT !.todo = @ \ {c}]
  <2>1. w \in WorkerStates
    BY DEF TypeInv, ListOK, WorkerStates, Values, None
  <2>2. /\ wg' = CWG!Add(wg) /\ worker' = [worker EXCEPT ![s][c] = w]
        /\ scrape' = [scrape EXCEPT ![s].todo = @ \ {c}]
    BY <1>2 DEF Spawn, Faults
  <2>3. wg' \in CWG!WaitGroups(Scrapes)
    BY <2>2, WaitGroupTyped DEF TypeInv, ScrapeInv, ScrapeOK
  <2>4. scrape' \in [Scrapes -> ScrapeStates]
    BY <2>2, ScrapeStateFields DEF TypeInv, ScrapeInv, ScrapeOK, ScrapeStates
  <2>5. ScrapeInv'
    BY <2>1, <2>2, <2>3, <2>4, WorkerMoves DEF TypeInv
  <2>6. QED
    BY <1>2, <2>5, SameMain, SameList, SameCache, SameGauge, SameCollect
    DEF Spawn, TypeInv, environment, Faults
<1>3. QED
  BY <1>1, <1>2

LEMMA WaitTyped ==
  ASSUME TypeInv, nextTick' = nextTick, NEW s \in Scrapes, Wait(s) \/ WakeUp(s)
  PROVE  TypeInv'
<1>1. CASE \E f \in Faults : Crash(f)
  BY <1>1, CrashTyped DEF TypeInv
<1>2. CASE ~(\E f \in Faults : Crash(f))
  <2>1. /\ wg' \in {wg, CWG!Sleep(wg, s), CWG!Wake(wg, s)}
        /\ \E pc \in {"wait", "ended"} : scrape' = [scrape EXCEPT ![s].pc = pc]
        /\ worker' = worker
    BY <1>2 DEF Wait, WakeUp, Faults
  <2>2. wg' \in CWG!WaitGroups(Scrapes)
    BY <2>1, WaitGroupTyped DEF TypeInv, ScrapeInv, ScrapeOK
  <2>3. PICK pc \in {"wait", "ended"} : scrape' = [scrape EXCEPT ![s].pc = pc]
    BY <2>1
  <2>4. ScrapeInv'
    <3> DEFINE r == [scrape[s] EXCEPT !.pc = pc]
    <3>1. scrape' = [scrape EXCEPT ![s] = r] /\ r \in ScrapeStates
      BY <2>3 DEF TypeInv, ScrapeInv, ScrapeOK, ScrapeStates
    <3>2. QED
      BY <2>1, <2>2, <3>1, ScrapeMoves DEF TypeInv
  <2>5. QED
    BY <1>2, <2>4, SameMain, SameList, SameCache, SameGauge, SameCollect
    DEF Wait, WakeUp, TypeInv, environment, Faults
<1>3. QED
  BY <1>1, <1>2

LEMMA MeasureTyped ==
  ASSUME TypeInv, nextTick' = nextTick, NEW s \in Scrapes, NEW c \in Codes, Measure(s, c)
  PROVE  TypeInv'
<1>1. CASE \E f \in Faults : Crash(f)
  BY <1>1, CrashTyped DEF TypeInv
<1>2. CASE ~(\E f \in Faults : Crash(f))
  <2> DEFINE v == worker[s][c]
             w1 == [v EXCEPT !.pc = "done"]
             w2 == [v EXCEPT !.pc = "set", !.current = cloud[c]]
  <2>1. v \in WorkerStates /\ cloud[c] \in Versions
    BY DEF TypeInv, ScrapeInv, ScrapeOK, MainOK
  <2>2. w1 \in WorkerStates /\ w2 \in WorkerStates /\ w1.pc = "done" /\ w2.current \in Versions
    BY <2>1 DEF WorkerStates, Values
  <2>3. (\E w \in {w1, w2} : worker' = [worker EXCEPT ![s][c] = w]) /\ UNCHANGED <<wg, scrape>>
    BY <1>2 DEF Measure, Skipped, Measured, SetWorker, Faults
  <2>4. ScrapeInv'
    <3>1. PICK w \in {w1, w2} : worker' = [worker EXCEPT ![s][c] = w]
      BY <2>3
    <3>2. w \in WorkerStates /\ (w.pc = "set" => w.current \in Versions)
      BY <2>2
    <3>3. scrape' \in [Scrapes -> ScrapeStates] /\ wg' \in CWG!WaitGroups(Scrapes)
      BY <2>3 DEF TypeInv, ScrapeInv, ScrapeOK
    <3>4. QED
      BY <3>1, <3>2, <3>3, WorkerMoves DEF TypeInv
  <2>5. QED
    BY <1>2, <2>4, SameMain, SameList, SameCache, SameGauge, SameCollect
    DEF Measure, Skipped, Measured, TypeInv, environment, Faults
<1>3. QED
  BY <1>1, <1>2

LEMMA CacheResultTyped ==
  ASSUME TypeInv, nextTick' = nextTick, NEW s \in Scrapes, NEW c \in Codes, CacheResult(s, c)
  PROVE  TypeInv'
<1> DEFINE v == worker[s][c]
           key == CacheKey(c, v.limit)
           result == [limit |-> v.limit, current |-> v.current]
           item == [object |-> result,
                    expiration |-> IF CCache!DefaultExpiration(Expiration) > 0
                                   THEN now + Expiration ELSE 0]
<1>1. v \in WorkerStates /\ v.current \in Versions /\ now \in Nat
  <2>1. v.pc = "set"
    BY DEF CacheResult
  <2>2. v \in WorkerStates
    BY DEF TypeInv, ScrapeInv, ScrapeOK
  <2>3. v.current \in Versions
    BY <2>1 DEF TypeInv, ScrapeInv, MeasuredUsage
  <2>4. now \in Nat
    BY DEF TypeInv, MainOK
  <2>5. QED
    BY <2>2, <2>3, <2>4
<1>2. key \in Keys /\ result \in Results
  <2>1. v.limit \in Values
    BY <1>1 DEF WorkerStates
  <2>2. QED
    BY <1>1, <2>1 DEF CacheKey, Keys, Results
<1>3. CacheOK'
  <2>1. item \in CachedItems
    BY <1>1, <1>2, CodesAssumption DEF CachedItems
  <2>2. cache' = [x \in DOMAIN cache \cup {key} |-> IF x = key THEN item ELSE cache[x]]
    BY DEF CacheResult, CCache!Set
  <2>3. IsPartialFunction(cache', Keys, CachedItems)
    BY <1>2, <2>1, <2>2 DEF IsPartialFunction, TypeInv, CacheOK
  <2>4. written' \subseteq Keys \X Results
    BY <1>2 DEF CacheResult, TypeInv, CacheOK
  <2>5. QED
    BY <2>3, <2>4 DEF CacheOK
<1>4. ScrapeInv'
  <2> DEFINE w == [v EXCEPT !.pc = "done"]
  <2>1. w \in WorkerStates /\ w.pc = "done"
    BY <1>1 DEF WorkerStates
  <2>2. worker' = [worker EXCEPT ![s][c] = w] /\ UNCHANGED <<wg, scrape>>
    BY DEF CacheResult, SetWorker
  <2>3. QED
    BY <2>1, <2>2, WorkerMoves DEF TypeInv, ScrapeInv, ScrapeOK
<1>5. QED
  BY <1>3, <1>4, SameMain, SameList, SameGauge, SameCollect DEF CacheResult, TypeInv, environment

LEMMA WorkerDoneTyped ==
  ASSUME TypeInv, nextTick' = nextTick, NEW s \in Scrapes, NEW c \in Codes, WorkerDone(s, c)
  PROVE  TypeInv'
<1>1. CASE \E f \in Faults : Crash(f)
  BY <1>1, CrashTyped DEF TypeInv
<1>2. CASE ~(\E f \in Faults : Crash(f))
  <2>1. /\ wg' = CWG!Done(wg) /\ worker' = [worker EXCEPT ![s][c] = IdleWorker]
        /\ scrape' = scrape
    BY <1>2 DEF WorkerDone, SetWorker, Faults
  <2>2. IdleWorker \in WorkerStates /\ IdleWorker.pc = "none"
    BY DEF IdleWorker, WorkerStates, Values, None
  <2>3. wg' \in CWG!WaitGroups(Scrapes)
    BY <2>1, WaitGroupTyped DEF TypeInv, ScrapeInv, ScrapeOK
  <2>4. ScrapeInv'
    BY <2>1, <2>2, <2>3, WorkerMoves DEF TypeInv, ScrapeInv, ScrapeOK
  <2>5. QED
    BY <1>2, <2>4, SameMain, SameList, SameCache, SameGauge, SameCollect
    DEF WorkerDone, TypeInv, environment, Faults
<1>3. QED
  BY <1>1, <1>2

LEMMA BackgroundTyped ==
  ASSUME TypeInv, nextTick' = nextTick, ReleaseWaiters \/ Janitor
  PROVE  TypeInv'
<1>1. CASE ReleaseWaiters
  <2>1. CWG!Release(wg) \in CWG!WaitGroups(Scrapes)
    BY DEF TypeInv, ScrapeInv, ScrapeOK, CWG!WaitGroups, CWG!Release
  <2>2. ScrapeInv'
    BY <1>1, <2>1 DEF ReleaseWaiters, TypeInv, ScrapeInv, ScrapeOK, MeasuredUsage
  <2>3. QED
    BY <1>1, <2>2, SameMain, SameList, SameCache, SameGauge, SameCollect
    DEF ReleaseWaiters, TypeInv, environment
<1>2. CASE Janitor
  <2>1. cache' = [k \in CCache!Live(cache, now) |-> cache[k]]
    BY <1>2 DEF Janitor, CCache!DeleteExpired
  <2>2. CCache!Live(cache, now) \subseteq DOMAIN cache
    BY DEF CCache!Live
  <2>3. CacheOK'
    BY <1>2, <2>1, <2>2 DEF Janitor, TypeInv, CacheOK, IsPartialFunction
  <2>4. QED
    BY <1>2, <2>3, SameMain, SameList, SameScrape, SameGauge, SameCollect
    DEF Janitor, TypeInv, environment
<1>3. QED
  BY <1>1, <1>2

-----------------------------------------------------------------------------
(* One lemma per action of a request *)

LEMMA SnapshotTyped ==
  ASSUME CacheOK, NEW t PROVE IsPartialFunction(CCache!Items(cache, t), Keys, Results)
BY DEF CacheOK, IsPartialFunction, CCache!Items, CCache!Live, CachedItems

LEMMA CollectMoves ==
  ASSUME CollectInv, NEW k \in Collectors, NEW r,
         IsCollectState(r), r.pc = "limit" => r.at.code \in DOMAIN r.items,
         collect' = [collect EXCEPT ![k] = r],
         floor' \in [Collectors -> SUBSET (Keys \X Results)]
  PROVE  CollectInv'
<1>1. collect' = [j \in Collectors |-> IF j = k THEN r ELSE collect[j]]
  BY DEF CollectInv, CollectOK
<1>2. collect' = [j \in Collectors |-> collect'[j]]
  BY <1>1
<1>3. \A j \in Collectors : IsCollectState(collect'[j])
  BY <1>1 DEF CollectInv, CollectOK
<1>4. SnapshotHasKey'
  BY <1>1 DEF CollectInv, SnapshotHasKey
<1>5. QED
  BY <1>2, <1>3, <1>4 DEF CollectInv, CollectOK

LEMMA BeginCollectTyped ==
  ASSUME TypeInv, nextTick' = nextTick, NEW k \in Collectors, BeginCollect(k)
  PROVE  TypeInv'
<1> DEFINE r == CollectState("current", CCache!Items(cache, now), NoLabels, NoSeries)
<1>1. r = [pc |-> "current", items |-> CCache!Items(cache, now),
           at |-> NoLabels, limits |-> NoSeries]
  BY DEF CollectState
<1>2. IsCollectState(r) /\ r.pc # "limit"
  <2>1. IsPartialFunction(CCache!Items(cache, now), Keys, Results)
    BY SnapshotTyped DEF TypeInv
  <2>2. NoLabels \in Series
    BY DEF NoLabels, Series, Keys, Accounts
  <2>3. QED
    BY <1>1, <2>1, <2>2, FreshCollectState DEF IsCollectState
<1>3. /\ collect' = [collect EXCEPT ![k] = r]
      /\ floor' = [floor EXCEPT ![k] = {w \in written : w[1] \in CCache!Live(cache, now)}]
  BY DEF BeginCollect
<1>4. floor' \in [Collectors -> SUBSET (Keys \X Results)]
  BY <1>3 DEF TypeInv, CollectInv, CollectOK, CacheOK
<1>5. CollectInv'
  BY <1>2, <1>3, <1>4, CollectMoves DEF TypeInv
<1>6. QED
  BY <1>5, SameMain, SameList, SameScrape, SameCache, SameGauge
  DEF BeginCollect, TypeInv, environment

LEMMA LabelsTyped == ASSUME ListOK, NEW key \in Keys PROVE LabelsOf(key) \in Series
BY DEF LabelsOf, Series, ListOK

LEMMA SetCurrentTyped ==
  ASSUME TypeInv, nextTick' = nextTick, NEW k \in Collectors, NEW key \in Keys, SetCurrent(k, key)
  PROVE  TypeInv'
<1>1. CASE \E f \in Faults : Crash(f)
  BY <1>1, CrashTyped DEF TypeInv
<1>2. CASE ~(\E f \in Faults : Crash(f))
  <2> DEFINE old == collect[k]
             r == [pc |-> "limit", items |-> old.items, at |-> LabelsOf(key),
                   limits |-> old.limits]
             v == old.items[key].current
  <2>1. /\ key \in DOMAIN old.items
        /\ gaugeCurrent' = [gaugeCurrent EXCEPT ![LabelsOf(key)] = v]
        /\ collect' = [collect EXCEPT ![k] = r]
        /\ UNCHANGED <<gaugeLimit, floor>>
    BY <1>2 DEF SetCurrent, CollectState, Faults
  <2>2. IsCollectState(old)
    BY DEF TypeInv, CollectInv, CollectOK
  <2>4. LabelsOf(key) \in Series /\ LabelsOf(key).code = key
    BY LabelsTyped DEF TypeInv, LabelsOf
  <2>5. IsCollectState(r) /\ r.at.code \in DOMAIN r.items
    BY <2>1, <2>2, <2>4 DEF IsCollectState
  <2>6. CollectInv'
    BY <2>1, <2>5, CollectMoves DEF TypeInv, CollectInv, CollectOK
  <2>7. v \in GaugeValues
    BY <2>1, <2>2 DEF IsCollectState, IsPartialFunction, Results, Values, GaugeValues
  <2>8. GaugeOK'
    BY <2>1, <2>7 DEF TypeInv, GaugeOK
  <2>9. QED
    BY <1>2, <2>6, <2>8, SameMain, SameList, SameScrape, SameCache
    DEF SetCurrent, TypeInv, environment, Faults
<1>3. QED
  BY <1>1, <1>2

LEMMA SetLimitTyped ==
  ASSUME TypeInv, nextTick' = nextTick, NEW k \in Collectors, SetLimit(k)
  PROVE  TypeInv'
<1> DEFINE old == collect[k]
           key == old.at.code
           rest == [x \in DOMAIN old.items \ {key} |-> old.items[x]]
           r == [pc |-> "current", items |-> rest, at |-> old.at, limits |-> old.limits]
<1>1. IsCollectState(old) /\ old.pc = "limit" /\ key \in DOMAIN old.items
  BY DEF SetLimit, ExportedLimit, TypeInv, CollectInv, CollectOK, SnapshotHasKey
<1>2. old.items[key].limit \in GaugeValues
  BY <1>1 DEF IsCollectState, IsPartialFunction, Results, GaugeValues
<1>3. GaugeOK'
  BY <1>2 DEF SetLimit, ExportedLimit, TypeInv, GaugeOK
<1>4. IsCollectState(r) /\ r.pc # "limit"
  BY <1>1 DEF IsCollectState, IsPartialFunction
<1>5. collect' = [collect EXCEPT ![k] = r]
  BY DEF SetLimit, ExportedLimit, CollectState
<1>6. CollectInv'
  BY <1>4, <1>5, CollectMoves DEF SetLimit, ExportedLimit, TypeInv, CollectInv, CollectOK
<1>7. QED
  BY <1>3, <1>6, SameMain, SameList, SameScrape, SameCache DEF SetLimit, ExportedLimit, TypeInv, environment

LEMMA EmitTyped ==
  ASSUME TypeInv, nextTick' = nextTick, NEW k \in Collectors, EmitLimits(k) \/ EmitCurrents(k)
  PROVE  TypeInv'
<1>1. CASE EmitLimits(k)
  <2> DEFINE old == collect[k]
             r == [pc |-> "emit", items |-> old.items, at |-> old.at, limits |-> gaugeLimit]
  <2>1. IsCollectState(old) /\ gaugeLimit \in [Series -> GaugeValues]
    BY DEF TypeInv, CollectInv, CollectOK, GaugeOK
  <2>2. IsCollectState(r) /\ r.pc # "limit"
    BY <2>1 DEF IsCollectState
  <2>3. collect' = [collect EXCEPT ![k] = r]
    BY <1>1 DEF EmitLimits, CollectState
  <2>4. CollectInv'
    BY <1>1, <2>2, <2>3, CollectMoves DEF EmitLimits, TypeInv, CollectInv, CollectOK
  <2>5. QED
    BY <1>1, <2>4, SameMain, SameList, SameScrape, SameCache, SameGauge
    DEF EmitLimits, TypeInv, environment
<1>2. CASE EmitCurrents(k)
  <2>1. IsCollectState(IdleCollect) /\ IdleCollect.pc # "limit"
    BY FreshCollectState DEF IdleCollect, CollectState
  <2>2. CollectInv'
    BY <1>2, <2>1, CollectMoves DEF EmitCurrents, TypeInv, CollectInv, CollectOK
  <2>3. QED
    BY <1>2, <2>2, SameMain, SameList, SameScrape, SameCache, SameGauge
    DEF EmitCurrents, TypeInv, environment
<1>3. QED
  BY <1>1, <1>2

-----------------------------------------------------------------------------
(* The steps of main, time and the cloud, and the theorem *)

LEMMA MainStepTyped ==
  ASSUME TypeInv, Start \/ Serve \/ Tick \/ EndScrape PROVE TypeInv'
<1>1. PICK s \in Scrapes, r \in {[pc |-> "account", todo |-> {}], IdleScrape} :
        scrape' = [scrape EXCEPT ![s] = r]
  BY DEF Start, Serve, Tick, EndScrape, BeginScrape, ScrapeReturns
<1>2. r \in ScrapeStates
  BY DEF IdleScrape, ScrapeStates
<1>3. UNCHANGED <<now, cloud, quotas, mapWrite, account, wg, worker, cache, written,
                  gaugeCurrent, gaugeLimit, collect, floor>>
  BY DEF Start, Serve, Tick, EndScrape, environment
<1>4. ScrapeInv'
  BY <1>1, <1>2, <1>3, ScrapeMoves DEF TypeInv, ScrapeInv, ScrapeOK
<1>5. MainOK'
  <2>1. now + ScrapingDuration \in Nat
    <3>1. now \in Nat
      BY DEF TypeInv, MainOK
    <3>2. QED
      BY <3>1, TimeAssumption
  <2>2. nextTick' \in Nat
    BY <2>1 DEF Start, Serve, Tick, EndScrape, TypeInv, MainOK
  <2>3. process' \in {"down", "boot", "serving"} /\ fault' \in Faults
    BY DEF Start, Serve, Tick, EndScrape, TypeInv, MainOK, Faults
  <2>4. QED
    BY <1>3, <2>2, <2>3 DEF TypeInv, MainOK, Faults
<1>6. QED
  BY <1>3, <1>4, <1>5, SameList, SameCache, SameGauge, SameCollect DEF TypeInv

LEMMA EnvironmentTyped ==
  ASSUME TypeInv, TimePasses \/ \E c \in Codes : CloudChanges(c) PROVE TypeInv'
<1>1. MainOK'
  <2>1. CASE TimePasses
    <3>1. now \in Nat
      BY DEF TypeInv, MainOK
    <3>2. now' = now + 1 /\ now' \in Nat
      BY <2>1, <3>1 DEF TimePasses
    <3>3. QED
      BY <2>1, <3>2 DEF TimePasses, TypeInv, MainOK
  <2>2. ASSUME NEW c \in Codes, CloudChanges(c) PROVE MainOK'
    <3>1. cloud \in [Codes -> Versions] /\ cloud[c] < MaxVersion
      BY <2>2 DEF CloudChanges, TypeInv, MainOK
    <3>2. cloud[c] + 1 \in Versions
      BY <3>1, CodesAssumption DEF Versions
    <3>3. cloud' \in [Codes -> Versions]
      BY <2>2, <3>1, <3>2 DEF CloudChanges
    <3>4. QED
      BY <2>2, <3>3 DEF CloudChanges, TypeInv, MainOK
  <2>3. QED
    BY <2>1, <2>2
<1>2. QED
  BY <1>1, SameList, SameScrape, SameCache, SameGauge, SameCollect
  DEF TimePasses, CloudChanges, memory, TypeInv

LEMMA StepTyped == TypeInv /\ [Next]_allVars => TypeInv'
<1> SUFFICES ASSUME TypeInv, [Next]_allVars PROVE TypeInv'
  OBVIOUS
<1>1. CASE Start \/ Serve \/ Tick \/ EndScrape
  BY <1>1, MainStepTyped
<1>2. CASE Scraping
  <2>1. ASSUME NEW s \in Scrapes, ScrapeStep(s) PROVE TypeInv'
    BY <1>2, <2>1, ListAccountTyped, ListQuotaTyped, AssignQuotaTyped, EndListTyped,
       SpawnTyped, WaitTyped DEF Scraping, ScrapeStep
  <2>2. ASSUME NEW s \in Scrapes, NEW c \in Codes, WorkerStep(s, c) PROVE TypeInv'
    BY <1>2, <2>2, MeasureTyped, CacheResultTyped, WorkerDoneTyped DEF Scraping, WorkerStep
  <2>3. QED
    BY <1>2, <2>1, <2>2, BackgroundTyped DEF Scraping
<1>3. CASE Serving
  <2>1. ASSUME NEW k \in Collectors, BeginCollect(k) \/ CollectStep(k) PROVE TypeInv'
    BY <1>3, <2>1, BeginCollectTyped, SetCurrentTyped, SetLimitTyped, EmitTyped
    DEF Serving, CollectStep
  <2>2. QED
    BY <1>3, <2>1 DEF Serving
<1>4. CASE TimePasses \/ \E c \in Codes : CloudChanges(c)
  BY <1>4, EnvironmentTyped
<1>5. CASE UNCHANGED allVars
  BY <1>5, SameMain, SameList, SameScrape, SameCache, SameGauge, SameCollect
  DEF allVars, vars, memory, environment, TypeInv
<1>6. QED
  BY <1>1, <1>2, <1>3, <1>4, <1>5 DEF Next, Horizon

\* The types of all variables hold in every reachable state, whatever scrapes,
\* requests and crashes interleave.
THEOREM TypeCorrect == Spec => []TypeOK
<1>1. TypeInv => TypeOK
  BY DEF TypeInv, TypeOK, ScrapeInv, CollectInv
<1>2. QED
  BY <1>1, InitTyped, StepTyped, PTL DEF Spec

-----------------------------------------------------------------------------
(* The shared waitGroup: its counter is the number of goroutines running,  *)
(* and a Scrape whose Wait returned has none left.                         *)

NoWorkersOf(s) == \A c \in Codes : worker[s][c].pc = "none"

\* A scrape has goroutines only from its first go statement to the return of
\* Wait, and never one for a code it has not come to.
WorkersBelong ==
    \A s \in Scrapes :
        /\ scrape[s].pc \notin {"spawn", "wait"} => NoWorkersOf(s)
        /\ scrape[s].pc = "spawn" =>
             \A c \in scrape[s].todo : worker[s][c].pc = "none"

\* Only scrapes inside Wait sleep on the group, and one that was woken has no
\* goroutine left, even while the goroutines of another scrape run.
SleepersWait ==
    /\ wg.waiters \cap wg.woken = {}
    /\ \A s \in wg.waiters : scrape[s].pc = "wait"
    /\ \A s \in wg.woken : scrape[s].pc = "wait" /\ NoWorkersOf(s)

\* A dead process has no goroutines.
DeadIsIdle ==
    process = "down" => wg = CWG!NewWaitGroup /\ worker = NoWorkers /\ scrape = NoScrapes

GroupInv == CounterCountsWorkers /\ WorkersBelong /\ SleepersWait /\ DeadIsIdle

-----------------------------------------------------------------------------
LEMMA LiveWorkersFinite ==
  ASSUME TypeInv
  PROVE  /\ IsFiniteSet(LiveWorkers)
         /\ \A s \in Scrapes, c \in Codes :
               <<s, c>> \in LiveWorkers <=> worker[s][c].pc # "none"
<1>1. IsFiniteSet(Scrapes \X Codes)
  BY CodesAssumption, FS_Product
<1>2. LiveWorkers \subseteq Scrapes \X Codes
  BY DEF LiveWorkers
<1>3. QED
  BY <1>1, <1>2, FS_Subset DEF LiveWorkers

LEMMA CounterZero ==
  ASSUME TypeInv, CounterCountsWorkers, wg.counter = 0, NEW s \in Scrapes
  PROVE  NoWorkersOf(s)
<1>1. LiveWorkers = {}
  BY LiveWorkersFinite, FS_EmptySet DEF CounterCountsWorkers
<1>2. QED
  BY <1>1, LiveWorkersFinite DEF NoWorkersOf

LEMMA FreshGroup == FreshMemory => GroupInv
<1> SUFFICES ASSUME FreshMemory PROVE GroupInv
  OBVIOUS
<1>1. \A s \in Scrapes : NoWorkersOf(s) /\ scrape[s].pc = "idle"
  BY DEF FreshMemory, NoWorkers, IdleWorker, NoScrapes, IdleScrape, NoWorkersOf
<1>2. LiveWorkers = {}
  BY <1>1 DEF LiveWorkers, NoWorkersOf
<1>3. CounterCountsWorkers
  BY <1>2, FS_EmptySet DEF FreshMemory, CWG!NewWaitGroup, CounterCountsWorkers
<1>4. QED
  BY <1>1, <1>3
  DEF FreshMemory, CWG!NewWaitGroup, GroupInv, WorkersBelong, SleepersWait, DeadIsIdle

LEMMA CrashGroup == ASSUME NEW f \in Faults, Crash(f) PROVE GroupInv'
<1>1. FreshMemory'
  BY DEF Crash, FreshMemory
<1>2. QED
  BY <1>1, FreshGroup, PTL

LEMMA SameGroup ==
  ASSUME GroupInv, UNCHANGED <<wg, scrape, worker>>, process' = process
  PROVE  GroupInv'
BY DEF GroupInv, CounterCountsWorkers, LiveWorkers, WorkersBelong, SleepersWait, DeadIsIdle,
       NoWorkersOf

\* What a step of one goroutine changes.
LEMMA WorkerChange ==
  ASSUME TypeInv, NEW s \in Scrapes, NEW c \in Codes, NEW w,
         worker' = [worker EXCEPT ![s][c] = w]
  PROVE  /\ \A x \in Scrapes, y \in Codes :
              worker'[x][y] = IF x = s /\ y = c THEN w ELSE worker[x][y]
         /\ LiveWorkers' = IF w.pc = "none" THEN LiveWorkers \ {<<s, c>>}
                                            ELSE LiveWorkers \cup {<<s, c>>}
<1>1. \A x \in Scrapes, y \in Codes :
        worker'[x][y] = IF x = s /\ y = c THEN w ELSE worker[x][y]
  BY DEF TypeInv, ScrapeInv, ScrapeOK
<1>2. QED
  BY <1>1 DEF LiveWorkers

\* A step that moves scrape s and no goroutine.
LEMMA ScrapeChange ==
  ASSUME TypeInv, NEW s \in Scrapes, NEW r, scrape' = [scrape EXCEPT ![s] = r]
  PROVE  \A x \in Scrapes : scrape'[x] = IF x = s THEN r ELSE scrape[x]
BY DEF TypeInv, ScrapeInv, ScrapeOK

\* A scrape that is not yet inside Wait, or no longer, moves on.
LEMMA OutsideWait ==
  ASSUME TypeInv, GroupInv, NEW s \in Scrapes, NEW r \in ScrapeStates,
         scrape' = [scrape EXCEPT ![s] = r], UNCHANGED <<wg, worker>>,
         scrape[s].pc \notin {"spawn", "wait"}, process' # "down"
  PROVE  GroupInv'
<1>1. \A x \in Scrapes : scrape'[x] = IF x = s THEN r ELSE scrape[x]
  BY ScrapeChange
<1>2. NoWorkersOf(s) /\ NoWorkersOf(s)'
  BY DEF GroupInv, WorkersBelong, NoWorkersOf
<1>3. CounterCountsWorkers'
  BY DEF GroupInv, CounterCountsWorkers, LiveWorkers
<1>4. WorkersBelong'
  <2>1. r.todo \subseteq Codes
    BY DEF ScrapeStates
  <2>2. QED
    BY <1>1, <1>2, <2>1 DEF GroupInv, WorkersBelong, NoWorkersOf
<1>5. SleepersWait'
  BY <1>1 DEF GroupInv, SleepersWait, NoWorkersOf, TypeInv, ScrapeInv, ScrapeOK, CWG!WaitGroups
<1>6. QED
  BY <1>3, <1>4, <1>5 DEF GroupInv, DeadIsIdle

\* A goroutine moves on without ending.
LEMMA WorkerGoesOn ==
  ASSUME TypeInv, GroupInv, NEW s \in Scrapes, NEW c \in Codes, NEW w,
         worker' = [worker EXCEPT ![s][c] = w], UNCHANGED <<wg, scrape, process>>,
         worker[s][c].pc # "none", w.pc # "none", process # "down"
  PROVE  GroupInv'
<1>1. \A x \in Scrapes, y \in Codes :
        worker'[x][y].pc = "none" <=> worker[x][y].pc = "none"
  BY WorkerChange
<1>2. LiveWorkers' = LiveWorkers
  BY <1>1 DEF LiveWorkers
<1>3. CounterCountsWorkers'
  BY <1>2 DEF GroupInv, CounterCountsWorkers
<1>4. WorkersBelong'
  BY <1>1 DEF GroupInv, WorkersBelong, NoWorkersOf, TypeInv, ScrapeInv, ScrapeOK, ScrapeStates
<1>5. SleepersWait'
  BY <1>1 DEF GroupInv, SleepersWait, NoWorkersOf, TypeInv, ScrapeInv, ScrapeOK, CWG!WaitGroups
<1>6. QED
  BY <1>3, <1>4, <1>5 DEF GroupInv, DeadIsIdle

-----------------------------------------------------------------------------
(* The actions that touch the group *)

LEMMA SpawnGroup ==
  ASSUME TypeInv, GroupInv, process # "down", NEW s \in Scrapes, NEW c \in Codes, Spawn(s, c)
  PROVE  GroupInv'
<1>1. CASE \E f \in Faults : Crash(f)
  BY <1>1, CrashGroup
<1>2. CASE ~(\E f \in Faults : Crash(f))
  <2> DEFINE w == [pc |-> "call", limit |-> quotas[c], current |-> None]
             r == [scrape[s] EXCEPT !.todo = @ \ {c}]
  <2>1. /\ wg' = CWG!Add(wg) /\ worker' = [worker EXCEPT ![s][c] = w]
        /\ scrape' = [scrape EXCEPT ![s] = r] /\ process' = process
        /\ scrape[s].pc = "spawn" /\ c \in scrape[s].todo
    BY <1>2 DEF Spawn, Faults
  <2>2. \A x \in Scrapes : scrape'[x] = IF x = s THEN r ELSE scrape[x]
    BY <2>1, ScrapeChange
  <2>3. r.pc = "spawn" /\ r.todo = scrape[s].todo \ {c} /\ r.todo \subseteq Codes
    <3>1. scrape[s] \in ScrapeStates
      BY DEF TypeInv, ScrapeInv, ScrapeOK
    <3>2. QED
      BY <2>1, <3>1 DEF ScrapeStates
  <2>4. /\ \A x \in Scrapes, y \in Codes :
             worker'[x][y] = IF x = s /\ y = c THEN w ELSE worker[x][y]
        /\ LiveWorkers' = LiveWorkers \cup {<<s, c>>}
    <3>1. w.pc # "none" /\ worker' = [worker EXCEPT ![s][c] = w]
      BY <2>1
    <3> HIDE DEF w
    <3>2. /\ \A x \in Scrapes, y \in Codes :
               worker'[x][y] = IF x = s /\ y = c THEN w ELSE worker[x][y]
          /\ LiveWorkers' = IF w.pc = "none" THEN LiveWorkers \ {<<s, c>>}
                                             ELSE LiveWorkers \cup {<<s, c>>}
      BY <3>1, WorkerChange
    <3>3. QED
      BY <3>1, <3>2
  <2>5. <<s, c>> \notin LiveWorkers /\ IsFiniteSet(LiveWorkers)
    BY <2>1, LiveWorkersFinite DEF GroupInv, WorkersBelong
  <2>6. /\ wg'.counter = wg.counter + 1 /\ wg'.waiters = wg.waiters /\ wg'.woken = wg.woken
        /\ s \notin wg.woken
    BY <2>1 DEF TypeInv, ScrapeInv, ScrapeOK, CWG!WaitGroups, CWG!Add, GroupInv, SleepersWait
  <2>7. CounterCountsWorkers'
    <3>1. Cardinality(LiveWorkers \cup {<<s, c>>}) = Cardinality(LiveWorkers) + 1
      BY <2>5, FS_AddElement
    <3>2. Cardinality(LiveWorkers') = wg'.counter
      BY <2>4, <2>6, <3>1 DEF GroupInv, CounterCountsWorkers
    <3>3. QED
      BY <3>2 DEF CounterCountsWorkers
  <2>8. WorkersBelong'
    <3>1. ASSUME NEW x \in Scrapes, x # s
          PROVE  /\ scrape'[x] = scrape[x]
                 /\ \A y \in Codes : worker'[x][y] = worker[x][y]
      BY <2>2, <2>4, <3>1
    <3>2. \A y \in r.todo : worker'[s][y].pc = "none"
      BY <2>1, <2>3, <2>4 DEF GroupInv, WorkersBelong
    <3>3. scrape'[s].pc = "spawn" /\ scrape'[s].todo = r.todo
      BY <2>2, <2>3
    <3>4. \A x \in Scrapes : x # s /\ scrape[x].pc = "spawn" => scrape[x].todo \subseteq Codes
      BY ScrapeStateFields DEF TypeInv
    <3>5. QED
      BY <3>1, <3>2, <3>3, <3>4 DEF GroupInv, WorkersBelong, NoWorkersOf
  <2>9. SleepersWait'
    BY <2>1, <2>2, <2>4, <2>6
    DEF GroupInv, SleepersWait, NoWorkersOf, TypeInv, ScrapeInv, ScrapeOK, CWG!WaitGroups
  <2>10. QED
    BY <2>1, <2>7, <2>8, <2>9 DEF GroupInv, DeadIsIdle
<1>3. QED
  BY <1>1, <1>2

LEMMA WaitGroupStep ==
  ASSUME TypeInv, GroupInv, process # "down", NEW s \in Scrapes, Wait(s) \/ WakeUp(s)
  PROVE  GroupInv'
<1>1. CASE \E f \in Faults : Crash(f)
  BY <1>1, CrashGroup
<1>2. CASE ~(\E f \in Faults : Crash(f))
  <2>1. worker' = worker /\ process' = process
    BY <1>2 DEF Wait, WakeUp, Faults
  <2>2. PICK p \in {"wait", "ended"} : scrape' = [scrape EXCEPT ![s] = [scrape[s] EXCEPT !.pc = p]]
    BY <1>2 DEF Wait, WakeUp, Faults
  <2>3. \A x \in Scrapes : scrape'[x] = IF x = s THEN [scrape[s] EXCEPT !.pc = p] ELSE scrape[x]
    BY <2>2, ScrapeChange
  <2>4. scrape'[s].pc = p
    BY <2>3, ScrapeStateFields DEF TypeInv
  <2>5. wg.waiters \subseteq Scrapes /\ wg.woken \subseteq Scrapes
    BY DEF TypeInv, ScrapeInv, ScrapeOK, CWG!WaitGroups
  <2>6. CASE Wait(s) /\ wg.counter = 0
    <3>1. wg' = wg /\ p = "ended" /\ scrape[s].pc = "spawn"
      BY <1>2, <2>2, <2>4, <2>6, ScrapeStateFields
      DEF Wait, CWG!WaitReturnsAtOnce, TypeInv, ScrapeInv, ScrapeOK
    <3>2. NoWorkersOf(s)
      BY <2>6, CounterZero DEF GroupInv
    <3>3. CounterCountsWorkers'
      BY <2>1, <3>1 DEF GroupInv, CounterCountsWorkers, LiveWorkers
    <3>4. WorkersBelong'
      BY <2>1, <2>3, <2>4, <3>1, <3>2 DEF GroupInv, WorkersBelong, NoWorkersOf
    <3>5. SleepersWait'
      BY <2>1, <2>3, <2>5, <3>1 DEF GroupInv, SleepersWait, NoWorkersOf
    <3>6. QED
      BY <2>1, <3>3, <3>4, <3>5 DEF GroupInv, DeadIsIdle
  <2>7. CASE Wait(s) /\ wg.counter # 0
    <3>1. wg' = CWG!Sleep(wg, s) /\ p = "wait" /\ scrape[s].pc = "spawn"
      BY <1>2, <2>2, <2>4, <2>7, ScrapeStateFields
      DEF Wait, CWG!WaitReturnsAtOnce, TypeInv, ScrapeInv, ScrapeOK
    <3>2. wg'.counter = wg.counter /\ wg'.waiters = wg.waiters \cup {s} /\ wg'.woken = wg.woken
      BY <3>1 DEF CWG!Sleep, CWG!WaitGroups, TypeInv, ScrapeInv, ScrapeOK
    <3>3. CounterCountsWorkers'
      BY <2>1, <3>2 DEF GroupInv, CounterCountsWorkers, LiveWorkers
    <3>4. WorkersBelong'
      BY <2>1, <2>3, <2>4, <3>1 DEF GroupInv, WorkersBelong, NoWorkersOf
    <3>5. SleepersWait'
      BY <2>1, <2>3, <2>4, <2>5, <3>1, <3>2 DEF GroupInv, SleepersWait, NoWorkersOf
    <3>6. QED
      BY <2>1, <3>3, <3>4, <3>5 DEF GroupInv, DeadIsIdle
  <2>8. CASE WakeUp(s)
    <3>1. wg' = CWG!Wake(wg, s) /\ s \in wg.woken
      BY <1>2, <2>8 DEF WakeUp, Faults
    <3>2. wg'.counter = wg.counter /\ wg'.waiters = wg.waiters /\ wg'.woken = wg.woken \ {s}
      BY <3>1 DEF CWG!Wake, CWG!WaitGroups, TypeInv, ScrapeInv, ScrapeOK
    <3>3. NoWorkersOf(s) /\ scrape[s].pc = "wait"
      BY <3>1 DEF GroupInv, SleepersWait
    <3>4. p = "ended"
      BY <1>2, <2>4, <2>8, <3>3, ScrapeStateFields DEF WakeUp, Faults, TypeInv, ScrapeInv, ScrapeOK
    <3>5. CounterCountsWorkers'
      BY <2>1, <3>2 DEF GroupInv, CounterCountsWorkers, LiveWorkers
    <3>6. WorkersBelong'
      BY <2>1, <2>3, <2>4, <3>3, <3>4 DEF GroupInv, WorkersBelong, NoWorkersOf
    <3>7. SleepersWait'
      BY <2>1, <2>3, <2>5, <3>1, <3>2 DEF GroupInv, SleepersWait, NoWorkersOf
    <3>8. QED
      BY <2>1, <3>5, <3>6, <3>7 DEF GroupInv, DeadIsIdle
  <2>9. QED
    BY <2>6, <2>7, <2>8
<1>3. QED
  BY <1>1, <1>2

LEMMA WorkerDoneGroup ==
  ASSUME TypeInv, GroupInv, process # "down", NEW s \in Scrapes, NEW c \in Codes,
         WorkerDone(s, c)
  PROVE  GroupInv' /\ ~CWG!DonePanics(wg)
<1>1. <<s, c>> \in LiveWorkers /\ IsFiniteSet(LiveWorkers)
  BY LiveWorkersFinite DEF WorkerDone
<1>2. wg.counter > 0 /\ wg.counter \in Int
  <2>1. Cardinality(LiveWorkers) \in Nat /\ Cardinality(LiveWorkers) # 0
    BY <1>1, FS_CardinalityType, FS_EmptySet
  <2>2. Cardinality(LiveWorkers) > 0 /\ Cardinality(LiveWorkers) \in Int
    BY <2>1
  <2>3. QED
    BY <2>2 DEF GroupInv, CounterCountsWorkers
<1>3. ~CWG!DonePanics(wg)
  BY <1>2 DEF CWG!DonePanics
<1>4. /\ wg' = CWG!Done(wg) /\ worker' = [worker EXCEPT ![s][c] = IdleWorker]
      /\ UNCHANGED <<scrape, process>>
  BY <1>3 DEF WorkerDone, SetWorker
<1>5. IdleWorker.pc = "none"
  BY DEF IdleWorker
<1>6. /\ \A x \in Scrapes, y \in Codes :
           worker'[x][y] = IF x = s /\ y = c THEN IdleWorker ELSE worker[x][y]
      /\ LiveWorkers' = LiveWorkers \ {<<s, c>>}
  <2> DEFINE w == IdleWorker
  <2>1. w.pc = "none" /\ worker' = [worker EXCEPT ![s][c] = w]
    BY <1>4, <1>5
  <2>2. /\ \A x \in Scrapes, y \in Codes :
             worker'[x][y] = IF x = s /\ y = c THEN w ELSE worker[x][y]
        /\ LiveWorkers' = IF w.pc = "none" THEN LiveWorkers \ {<<s, c>>}
                                           ELSE LiveWorkers \cup {<<s, c>>}
    <3> HIDE DEF w
    <3>1. QED
      BY <2>1, WorkerChange
  <2>3. QED
    BY <2>1, <2>2
<1>7. /\ wg'.counter = wg.counter - 1 /\ wg'.waiters = wg.waiters /\ wg'.woken = wg.woken
      /\ wg.waiters \subseteq Scrapes /\ wg.woken \subseteq Scrapes
  BY <1>4 DEF TypeInv, ScrapeInv, ScrapeOK, CWG!WaitGroups, CWG!Done
<1>8. CounterCountsWorkers'
  <2>1. Cardinality(LiveWorkers \ {<<s, c>>}) = Cardinality(LiveWorkers) - 1
    BY <1>1, FS_RemoveElement
  <2>2. Cardinality(LiveWorkers') = wg'.counter
    BY <1>6, <1>7, <2>1 DEF GroupInv, CounterCountsWorkers
  <2>3. QED
    BY <2>2 DEF CounterCountsWorkers
<1>9. \A x \in Scrapes, y \in Codes : worker[x][y].pc = "none" => worker'[x][y].pc = "none"
  BY <1>5, <1>6
<1>10. WorkersBelong'
  <2>1. \A x \in Scrapes : scrape[x].todo \subseteq Codes
    BY ScrapeStateFields DEF TypeInv
  <2>2. QED
    BY <1>4, <1>9, <2>1 DEF GroupInv, WorkersBelong, NoWorkersOf
<1>11. SleepersWait'
  BY <1>4, <1>7, <1>9 DEF GroupInv, SleepersWait, NoWorkersOf
<1>12. QED
  BY <1>3, <1>4, <1>8, <1>10, <1>11 DEF GroupInv, DeadIsIdle

LEMMA ReleaseGroup ==
  ASSUME TypeInv, GroupInv, process # "down", ReleaseWaiters
  PROVE  GroupInv'
<1>1. /\ wg' = CWG!Release(wg) /\ wg.counter = 0
      /\ UNCHANGED <<scrape, worker, process>>
  BY DEF ReleaseWaiters, CWG!Releasing
<1>2. wg'.counter = 0 /\ wg'.waiters = {} /\ wg'.woken = wg.woken \cup wg.waiters
  BY <1>1 DEF CWG!Release
<1>3. \A s \in Scrapes : NoWorkersOf(s)
  BY <1>1, CounterZero DEF GroupInv
<1>4. wg.waiters \subseteq Scrapes
  BY DEF TypeInv, ScrapeInv, ScrapeOK, CWG!WaitGroups
<1>5. CounterCountsWorkers' /\ WorkersBelong'
  BY <1>1, <1>2 DEF GroupInv, CounterCountsWorkers, LiveWorkers, WorkersBelong, NoWorkersOf
<1>6. SleepersWait'
  BY <1>1, <1>2, <1>3, <1>4 DEF GroupInv, SleepersWait, NoWorkersOf
<1>7. QED
  BY <1>1, <1>5, <1>6 DEF GroupInv, DeadIsIdle

-----------------------------------------------------------------------------
(* Every other action *)

LEMMA ListGroup ==
  ASSUME TypeInv, GroupInv, process # "down", NEW s \in Scrapes,
         \/ ListAccount(s) \/ AssignQuota(s) \/ EndList(s)
         \/ \E c \in Codes : ListQuota(s, c)
  PROVE  GroupInv'
<1>1. CASE \E f \in Faults : Crash(f)
  BY <1>1, CrashGroup
<1>2. CASE ~(\E f \in Faults : Crash(f))
  <2>1. scrape[s].pc \in {"account", "assign", "list"} /\ UNCHANGED <<wg, worker, process>>
    BY <1>2 DEF ListAccount, AssignQuota, EndList, ListQuota, Faults
  <2>2. scrape[s] \in ScrapeStates /\ scrape \in [Scrapes -> ScrapeStates]
    BY DEF TypeInv, ScrapeInv, ScrapeOK
  <2>3. \E r \in ScrapeStates : scrape' = [scrape EXCEPT ![s] = r]
    <3>1. CASE ListAccount(s) \/ EndList(s)
      BY <1>2, <3>1 DEF ListAccount, EndList, Faults, ScrapeStates
    <3>2. CASE AssignQuota(s)
      BY <2>2, <3>2 DEF AssignQuota, ScrapeStates
    <3>3. ASSUME NEW c \in Codes, ListQuota(s, c)
          PROVE  \E r \in ScrapeStates : scrape' = [scrape EXCEPT ![s] = r]
      <4> DEFINE r1 == [scrape[s] EXCEPT !.todo = @ \ {c}]
                 r2 == [pc |-> "assign", todo |-> scrape[s].todo \ {c}]
      <4>1. \E r \in {r1, r2} : scrape' = [scrape EXCEPT ![s] = r]
        BY <1>2, <2>2, <3>3 DEF ListQuota, Faults
      <4>2. r1 \in ScrapeStates /\ r2 \in ScrapeStates
        BY <2>2 DEF ScrapeStates
      <4>3. QED
        BY <4>1, <4>2
    <3>4. QED
      BY <3>1, <3>2, <3>3
  <2>4. QED
    BY <2>1, <2>3, OutsideWait
<1>3. QED
  BY <1>1, <1>2

LEMMA MeasureGroup ==
  ASSUME TypeInv, GroupInv, process # "down", NEW s \in Scrapes, NEW c \in Codes,
         Measure(s, c) \/ CacheResult(s, c)
  PROVE  GroupInv'
<1>1. CASE \E f \in Faults : Crash(f)
  BY <1>1, CrashGroup
<1>2. CASE ~(\E f \in Faults : Crash(f))
  <2> DEFINE v == worker[s][c]
             w1 == [v EXCEPT !.pc = "done"]
             w2 == [v EXCEPT !.pc = "set", !.current = cloud[c]]
  <2>1. v \in WorkerStates
    BY DEF TypeInv, ScrapeInv, ScrapeOK
  <2>2. w1.pc = "done" /\ w2.pc = "set"
    BY <2>1 DEF WorkerStates
  <2>3. /\ \E w \in {w1, w2} : worker' = [worker EXCEPT ![s][c] = w]
        /\ v.pc # "none" /\ UNCHANGED <<wg, scrape, process>>
    BY <1>2 DEF Measure, Skipped, Measured, CacheResult, SetWorker, Faults
  <2>4. PICK w \in {w1, w2} : worker' = [worker EXCEPT ![s][c] = w]
    BY <2>3
  <2>5. w.pc # "none"
    BY <2>2
  <2>6. QED
    BY <2>3, <2>4, <2>5, WorkerGoesOn
<1>3. QED
  BY <1>1, <1>2

LEMMA MainGroup ==
  ASSUME TypeInv, GroupInv, Start \/ Serve \/ Tick \/ EndScrape PROVE GroupInv'
<1>1. PICK s \in Scrapes, r \in {[pc |-> "account", todo |-> {}], IdleScrape} :
        /\ scrape' = [scrape EXCEPT ![s] = r]
        /\ process = "down" \/ scrape[s].pc \in {"idle", "ended"}
  BY DEF Start, Serve, Tick, EndScrape, BeginScrape, ScrapeReturns
<1>2. r \in ScrapeStates
  BY DEF IdleScrape, ScrapeStates
<1>3. UNCHANGED <<wg, worker>> /\ process' # "down"
  BY DEF Start, Serve, Tick, EndScrape
<1>4. scrape[s].pc \notin {"spawn", "wait"}
  BY <1>1 DEF GroupInv, DeadIsIdle, NoScrapes, IdleScrape
<1>5. QED
  BY <1>1, <1>2, <1>3, <1>4, OutsideWait

LEMMA RequestGroup ==
  ASSUME TypeInv, GroupInv, NEW k \in Collectors, BeginCollect(k) \/ CollectStep(k)
  PROVE  GroupInv'
<1>1. CASE \E f \in Faults : Crash(f)
  BY <1>1, CrashGroup
<1>2. CASE ~(\E f \in Faults : Crash(f))
  BY <1>2, SameGroup
  DEF BeginCollect, CollectStep, SetCurrent, SetLimit, ExportedLimit, EmitLimits, EmitCurrents, Faults
<1>3. QED
  BY <1>1, <1>2

LEMMA StepGroup == TypeInv /\ GroupInv /\ [Next]_allVars => GroupInv'
<1> SUFFICES ASSUME TypeInv, GroupInv, [Next]_allVars PROVE GroupInv'
  OBVIOUS
<1>1. CASE Start \/ Serve \/ Tick \/ EndScrape
  BY <1>1, MainGroup
<1>2. CASE Scraping
  <2>1. process # "down"
    BY <1>2 DEF Scraping
  <2>2. ASSUME NEW s \in Scrapes, ScrapeStep(s) PROVE GroupInv'
    BY <2>1, <2>2, ListGroup, SpawnGroup, WaitGroupStep DEF ScrapeStep
  <2>3. ASSUME NEW s \in Scrapes, NEW c \in Codes, WorkerStep(s, c) PROVE GroupInv'
    BY <2>1, <2>3, MeasureGroup, WorkerDoneGroup DEF WorkerStep
  <2>4. CASE Janitor
    BY <2>4, SameGroup DEF Janitor
  <2>5. QED
    BY <1>2, <2>1, <2>2, <2>3, <2>4, ReleaseGroup DEF Scraping
<1>3. CASE Serving
  BY <1>3, RequestGroup DEF Serving
<1>4. CASE TimePasses \/ \E c \in Codes : CloudChanges(c)
  BY <1>4, SameGroup DEF TimePasses, CloudChanges, memory
<1>5. CASE UNCHANGED allVars
  BY <1>5, SameGroup DEF allVars, vars, memory
<1>6. QED
  BY <1>1, <1>2, <1>3, <1>4, <1>5 DEF Next, Horizon

LEMMA StrengthenedInvariant == Spec => [](TypeInv /\ GroupInv)
<1>1. Init => TypeInv /\ GroupInv
  BY InitTyped, FreshGroup DEF Init
<1>2. QED
  BY <1>1, StepTyped, StepGroup, PTL DEF Spec

\* However the scrapes overlap, the counter of the shared waitGroup is the
\* number of goroutines between their Add and their Done.
THEOREM CounterCorrect == Spec => []CounterCountsWorkers
<1>1. TypeInv /\ GroupInv => CounterCountsWorkers
  BY DEF GroupInv
<1>2. QED
  BY <1>1, StrengthenedInvariant, PTL

\* However the scrapes overlap, Wait returns to a Scrape only when none of the
\* goroutines that Scrape started is left.
THEOREM WaitCoversOwnWorkers == Spec => []EndedScrapeHasNoWorkers
<1>1. TypeInv /\ GroupInv => EndedScrapeHasNoWorkers
  BY DEF GroupInv, WorkersBelong, EndedScrapeHasNoWorkers, NoWorkersOf
<1>2. QED
  BY <1>1, StrengthenedInvariant, PTL

-----------------------------------------------------------------------------
(* When no Scrape outlasts its period (SlowScrapes = FALSE), at most one   *)
(* is in flight, and sync.WaitGroup never panics.  With overlap TLC shows  *)
(* that it can.                                                            *)

OneInFlight == \A s, t \in InFlight : s = t

TickFindsNone == process = "serving" /\ now = nextTick => InFlight = {}

OneAtATime == OneInFlight /\ TickFindsNone /\ NoWaitGroupFault

Combined == TypeInv /\ GroupInv /\ OneAtATime

-----------------------------------------------------------------------------
LEMMA FewerInFlight ==
  ASSUME OneInFlight, TickFindsNone, InFlight' \subseteq InFlight,
         UNCHANGED <<now, nextTick>>, process' \in {process, "down"}
  PROVE  OneInFlight' /\ TickFindsNone'
BY DEF OneInFlight, TickFindsNone

LEMMA CrashEmptiesFlight == ASSUME NEW f, Crash(f) PROVE InFlight' = {}
BY DEF Crash, InFlight, NoScrapes, IdleScrape

\* No step of a scrape, a goroutine or a request puts a scrape in flight.
LEMMA ScrapingFlight ==
  ASSUME TypeInv, Scraping \/ Serving
  PROVE  /\ InFlight' \subseteq InFlight /\ UNCHANGED <<now, nextTick>>
         /\ process' \in {process, "down"}
<1>0. UNCHANGED nextTick
  BY DEF Scraping, Serving
<1>1. CASE \E f \in Faults : Crash(f)
  BY <1>0, <1>1, CrashEmptiesFlight DEF Crash, environment
<1>2. CASE ~(\E f \in Faults : Crash(f))
  <2>1. ASSUME NEW s \in Scrapes, ScrapeStep(s)
        PROVE  /\ scrape[s].pc # "idle" /\ UNCHANGED <<now, process>>
               /\ \A x \in Scrapes : x # s => scrape'[x] = scrape[x]
    <3>1. scrape[s].pc # "idle" /\ UNCHANGED <<now, process>>
      BY <1>2, <2>1 DEF ScrapeStep, ListAccount, ListQuota, AssignQuota, EndList, Spawn, Wait,
         WakeUp, Faults, environment
    <3>2. \A x \in Scrapes : x # s => scrape'[x] = scrape[x]
      BY <1>2, <2>1 DEF ScrapeStep, ListAccount, ListQuota, AssignQuota, EndList, Spawn, Wait,
         WakeUp, Faults, TypeInv, ScrapeInv, ScrapeOK
    <3>3. QED
      BY <3>1, <3>2
  <2>2. ASSUME NEW s \in Scrapes, NEW c \in Codes, WorkerStep(s, c)
        PROVE  UNCHANGED <<scrape, now, process>>
    BY <1>2, <2>2 DEF WorkerStep, Measure, Skipped, Measured, CacheResult, WorkerDone, Faults, environment
  <2>3. ASSUME ReleaseWaiters \/ Janitor PROVE UNCHANGED <<scrape, now, process>>
    BY <2>3 DEF ReleaseWaiters, Janitor, environment
  <2>4. ASSUME NEW k \in Collectors, BeginCollect(k) \/ CollectStep(k)
        PROVE  UNCHANGED <<scrape, now, process>>
    BY <1>2, <2>4 DEF BeginCollect, CollectStep, SetCurrent, SetLimit, ExportedLimit, EmitLimits, EmitCurrents,
       Faults, environment
  <2>5. QED
    BY <1>0, <2>1, <2>2, <2>3, <2>4 DEF Scraping, Serving, InFlight
<1>3. QED
  BY <1>1, <1>2

\* Neither Add, Done nor the end of Wait panics.
LEMMA NoFaultStep ==
  ASSUME Combined, Scraping \/ Serving PROVE fault' # "waitgroup"
<1> USE DEF Combined, OneAtATime, NoWaitGroupFault
<1> SUFFICES ASSUME fault' = "waitgroup" PROVE FALSE
  OBVIOUS
<1>1. ASSUME NEW s \in Scrapes, NEW c \in Codes, Spawn(s, c), CWG!AddPanics(wg) PROVE FALSE
  <2>1. PICK t \in wg.waiters : scrape[t].pc = "wait"
    BY <1>1 DEF CWG!AddPanics, CWG!Releasing, GroupInv, SleepersWait
  <2>2. t \in Scrapes /\ scrape[s].pc = "spawn"
    BY <1>1, <2>1 DEF Spawn, TypeInv, ScrapeInv, ScrapeOK, CWG!WaitGroups
  <2>3. QED
    BY <2>1, <2>2 DEF OneInFlight, InFlight
<1>2. ASSUME NEW s \in Scrapes, WakeUp(s), CWG!WakePanics(wg) PROVE FALSE
  <2>1. s \in wg.woken /\ scrape[s].pc = "wait" /\ NoWorkersOf(s)
    BY <1>2 DEF WakeUp, GroupInv, SleepersWait
  <2>2. CASE wg.counter # 0
    <3>1. LiveWorkers # {}
      BY <2>2, FS_EmptySet DEF GroupInv, CounterCountsWorkers
    <3>2. PICK t \in Scrapes, c \in Codes : worker[t][c].pc # "none"
      BY <3>1 DEF LiveWorkers
    <3>3. scrape[t].pc # "idle"
      BY <3>2 DEF GroupInv, WorkersBelong, NoWorkersOf
    <3>4. QED
      BY <2>1, <3>2, <3>3 DEF OneInFlight, InFlight, NoWorkersOf
  <2>3. CASE wg.waiters # {}
    <3>1. PICK t \in wg.waiters : scrape[t].pc = "wait"
      BY <2>3 DEF GroupInv, SleepersWait
    <3>2. t \in Scrapes /\ t # s
      BY <2>1, <3>1 DEF TypeInv, ScrapeInv, ScrapeOK, CWG!WaitGroups, GroupInv, SleepersWait
    <3>3. QED
      BY <2>1, <3>1, <3>2 DEF OneInFlight, InFlight
  <2>4. QED
    BY <1>2, <2>2, <2>3 DEF CWG!WakePanics
<1>3. ASSUME NEW s \in Scrapes, NEW c \in Codes, WorkerDone(s, c), CWG!DonePanics(wg) PROVE FALSE
  <2>1. process # "down"
    BY <1>3 DEF WorkerDone, GroupInv, DeadIsIdle, NoWorkers, IdleWorker
  <2>2. QED
    BY <1>3, <2>1, WorkerDoneGroup
<1>4. ASSUME NEW s \in Scrapes, ScrapeStep(s) PROVE FALSE
  BY <1>1, <1>2, <1>4
  DEF ScrapeStep, ListAccount, ListQuota, AssignQuota, EndList, Spawn, Wait, WakeUp, Crash, TypeInv, MainOK
<1>5. ASSUME NEW s \in Scrapes, NEW c \in Codes, WorkerStep(s, c) PROVE FALSE
  BY <1>3, <1>5 DEF WorkerStep, Measure, Skipped, Measured, CacheResult, WorkerDone, Crash, TypeInv, MainOK
<1>6. ASSUME ReleaseWaiters \/ Janitor PROVE FALSE
  BY <1>6 DEF ReleaseWaiters, Janitor
<1>7. ASSUME NEW k \in Collectors, BeginCollect(k) \/ CollectStep(k) PROVE FALSE
  BY <1>7 DEF BeginCollect, CollectStep, SetCurrent, SetLimit, ExportedLimit, EmitLimits, EmitCurrents, Crash
<1>8. QED
  BY <1>4, <1>5, <1>6, <1>7 DEF Scraping, Serving

\* The steps of main and of the environment.
LEMMA MainStep ==
  ASSUME Combined, ~SlowScrapes, Next, ~(Scraping \/ Serving)
  PROVE  OneAtATime'
<1> USE DEF Combined, OneAtATime, NoWaitGroupFault
<1>1. ASSUME Start PROVE OneAtATime'
  <2>1. PICK s \in Scrapes : BeginScrape(s)
    BY <1>1 DEF Start
  <2>2. InFlight' \subseteq {s}
    BY <1>1, <2>1 DEF Start, BeginScrape, InFlight, GroupInv, DeadIsIdle, NoScrapes, IdleScrape
  <2>3. process' = "boot" /\ fault' = "none"
    BY <1>1 DEF Start
  <2>4. QED
    BY <2>2, <2>3 DEF OneInFlight, TickFindsNone
<1>2. ASSUME Serve PROVE OneAtATime'
  <2>1. PICK s \in Scrapes : ScrapeReturns(s)
    BY <1>2 DEF Serve
  <2>2. InFlight' \subseteq InFlight \ {s} /\ s \in InFlight
    BY <2>1 DEF ScrapeReturns, InFlight, IdleScrape, TypeInv, ScrapeInv, ScrapeOK
  <2>3. InFlight' = {}
    BY <2>2 DEF OneInFlight
  <2>4. fault' = fault
    BY <1>2 DEF Serve
  <2>5. QED
    BY <2>3, <2>4 DEF OneInFlight, TickFindsNone
<1>3. ASSUME Tick PROVE OneAtATime'
  <2>1. PICK s \in Scrapes : BeginScrape(s)
    BY <1>3 DEF Tick
  <2>2. InFlight = {}
    BY <1>3 DEF Tick, TickFindsNone
  <2>3. InFlight' \subseteq {s}
    BY <2>1, <2>2 DEF BeginScrape, InFlight, TypeInv, ScrapeInv, ScrapeOK
  <2>4. now \in Nat /\ ScrapingDuration \in Nat \ {0}
    BY TimeAssumption DEF TypeInv, MainOK
  <2>5. now' = now /\ nextTick' = now + ScrapingDuration /\ fault' = fault
    BY <1>3 DEF Tick, environment
  <2>6. now' # nextTick'
    BY <2>4, <2>5
  <2>7. QED
    BY <2>3, <2>5, <2>6 DEF OneInFlight, TickFindsNone
<1>4. ASSUME EndScrape PROVE OneAtATime'
  <2>1. PICK s \in Scrapes : ScrapeReturns(s)
    BY <1>4 DEF EndScrape
  <2>2. InFlight' \subseteq InFlight
    BY <2>1 DEF ScrapeReturns, InFlight, IdleScrape, TypeInv, ScrapeInv, ScrapeOK
  <2>3. UNCHANGED <<now, nextTick, process, fault>>
    BY <1>4 DEF EndScrape, environment
  <2>4. QED
    BY <2>2, <2>3, FewerInFlight
<1>5. ASSUME TimePasses PROVE OneAtATime'
  <2>1. UNCHANGED <<process, fault, nextTick, scrape>> /\ InFlight' = InFlight
    BY <1>5 DEF TimePasses, memory, InFlight
  <2>2. now \in Nat /\ nextTick \in Nat /\ now' = now + 1
    BY <1>5 DEF TimePasses, TypeInv, MainOK
  <2>3. process = "serving" /\ now' = nextTick => InFlight = {}
    BY <1>5, <2>2 DEF TimePasses
  <2>4. QED
    BY <2>1, <2>3 DEF OneInFlight, TickFindsNone
<1>6. ASSUME NEW c \in Codes, CloudChanges(c) PROVE OneAtATime'
  <2>1. UNCHANGED <<process, fault, now, nextTick, scrape>> /\ InFlight' = InFlight
    BY <1>6 DEF CloudChanges, memory, InFlight
  <2>2. QED
    BY <2>1 DEF OneInFlight, TickFindsNone
<1>7. ASSUME Horizon PROVE OneAtATime'
  <2>1. UNCHANGED <<process, fault, now, nextTick, scrape>> /\ InFlight' = InFlight
    BY <1>7 DEF Horizon, allVars, vars, memory, environment, InFlight
  <2>2. QED
    BY <2>1 DEF OneInFlight, TickFindsNone
<1>8. QED
  BY <1>1, <1>2, <1>3, <1>4, <1>5, <1>6, <1>7 DEF Next

LEMMA OneAtATimeStep ==
  ASSUME Combined, ~SlowScrapes, [Next]_allVars
  PROVE  OneAtATime'
<1>1. ASSUME Scraping \/ Serving PROVE OneAtATime'
  <2>1. fault' # "waitgroup"
    BY <1>1, NoFaultStep
  <2>2. OneInFlight' /\ TickFindsNone'
    BY <1>1, ScrapingFlight, FewerInFlight DEF Combined, OneAtATime
  <2>3. QED
    BY <2>1, <2>2 DEF OneAtATime, NoWaitGroupFault
<1>2. ASSUME Next, ~(Scraping \/ Serving) PROVE OneAtATime'
  BY <1>2, MainStep
<1>3. ASSUME UNCHANGED allVars PROVE OneAtATime'
  <2>1. UNCHANGED <<process, fault, now, nextTick, scrape>> /\ InFlight' = InFlight
    BY <1>3 DEF allVars, vars, memory, environment, InFlight
  <2>2. QED
    BY <2>1 DEF Combined, OneAtATime, OneInFlight, TickFindsNone, NoWaitGroupFault
<1>4. QED
  BY <1>1, <1>2, <1>3

-----------------------------------------------------------------------------
LEMMA OneAtATimeInvariant ==
  ASSUME ~SlowScrapes
  PROVE  Spec => []Combined
<1>1. Init => OneAtATime
  BY DEF Init, FreshMemory, NoScrapes, IdleScrape, OneAtATime, OneInFlight, TickFindsNone,
     NoWaitGroupFault, InFlight
<1>2. (TypeInv /\ GroupInv) /\ OneAtATime /\ [Next]_allVars => OneAtATime'
  BY OneAtATimeStep DEF Combined
<1>3. (TypeInv /\ GroupInv) /\ OneAtATime => Combined
  BY DEF Combined
<1>4. QED
  BY <1>1, <1>2, <1>3, StrengthenedInvariant, PTL DEF Spec

\* main starts a Scrape at every tick without looking at the previous one
\* (main.go line 71).  If no Scrape outlasts its period, the shared WaitGroup
\* is used within its contract, for any number of quota codes, slots,
\* requests and instants: neither Add, Done nor Wait panics.
THEOREM NoOverlapNoFault ==
  ASSUME ~SlowScrapes
  PROVE  Spec => []NoWaitGroupFault
<1>1. Combined => NoWaitGroupFault
  BY DEF Combined, OneAtATime
<1>2. QED
  BY <1>1, OneAtATimeInvariant, PTL

-----------------------------------------------------------------------------
(* The responses                                                           *)

\* A crash is a step of every scrape, goroutine and request that can fail.
LEMMA CrashIsFresh ==
  ASSUME NEW f \in Faults, Crash(f) PROVE FreshMemory' /\ process' = "down"
BY DEF Crash, FreshMemory

-----------------------------------------------------------------------------
(* What a step of a goroutine or of a request leaves alone                 *)

\* A goroutine that is not stopped by a crash: it skips its code, measures it,
\* caches the result or ends.
LEMMA WorkerFrame ==
  ASSUME TypeInv, NEW s \in Scrapes, NEW c \in Codes, WorkerStep(s, c),
         ~(\E f \in Faults : Crash(f))
  PROVE  /\ UNCHANGED <<process, now, cloud, quotas, mapWrite, account, scrape, gaugeCurrent,
                        gaugeLimit, collect, floor>>
         /\ \A x \in Scrapes, y \in Codes :
              /\ x # s \/ y # c => worker'[x][y] = worker[x][y]
              /\ worker'[x][y].limit \in {worker[x][y].limit, None}
<1>1. UNCHANGED <<process, now, cloud, quotas, mapWrite, account, scrape, gaugeCurrent,
                  gaugeLimit, collect, floor>>
  BY DEF WorkerStep, WorkerDone, CacheResult, Measure, Skipped, Measured, environment, Faults
<1>2. worker[s][c] \in WorkerStates /\ worker \in [Scrapes -> [Codes -> WorkerStates]]
  BY DEF TypeInv, ScrapeInv, ScrapeOK
<1>3. CASE WorkerDone(s, c)
  <2>1. worker' = [worker EXCEPT ![s][c] = IdleWorker]
    BY <1>3 DEF WorkerDone, SetWorker, Faults
  <2>2. QED
    BY <1>1, <1>2, <2>1 DEF IdleWorker
<1>4. CASE CacheResult(s, c)
  BY <1>1, <1>2, <1>4 DEF CacheResult, SetWorker, WorkerStates
<1>5. CASE Measure(s, c)
  <2> DEFINE w1 == Skipped(worker[s][c])
             w2 == Measured(worker[s][c], cloud[c])
  <2>1. PICK w \in {w1, w2} : worker' = [worker EXCEPT ![s][c] = w]
    BY <1>5 DEF Measure, SetWorker, Faults
  <2>2. w.limit = worker[s][c].limit
    BY <1>2 DEF Skipped, Measured, WorkerStates
  <2>3. QED
    BY <1>1, <1>2, <2>1, <2>2
<1>6. QED
  BY <1>3, <1>4, <1>5 DEF WorkerStep

LEMMA ScrapeFrame ==
  ASSUME TypeInv, NEW s \in Scrapes, ScrapeStep(s), ~(\E f \in Faults : Crash(f))
  PROVE  /\ UNCHANGED <<process, now, cloud, cache, gaugeCurrent, gaugeLimit, collect, written,
                        floor>>
         /\ \A x \in Scrapes : x # s => scrape'[x] = scrape[x]
<1>1. UNCHANGED <<process, now, cloud, cache, gaugeCurrent, gaugeLimit, collect, written, floor>>
  BY DEF ScrapeStep, ListAccount, ListQuota, AssignQuota, EndList, Spawn, Wait, WakeUp,
     environment, Faults
<1>2. \A x \in Scrapes : x # s => scrape'[x] = scrape[x]
  BY DEF ScrapeStep, ListAccount, ListQuota, AssignQuota, EndList, Spawn, Wait, WakeUp,
     Faults, TypeInv, ScrapeInv, ScrapeOK
<1>3. QED
  BY <1>1, <1>2

LEMMA RequestFrame ==
  ASSUME TypeInv, NEW k \in Collectors, BeginCollect(k) \/ CollectStep(k),
         ~(\E f \in Faults : Crash(f))
  PROVE  /\ UNCHANGED <<process, now, cloud, quotas, mapWrite, account, scrape, worker, cache,
                        written>>
         /\ \A j \in Collectors : j # k => collect'[j] = collect[j]
<1>1. UNCHANGED <<process, now, cloud, quotas, mapWrite, account, scrape, worker, cache, written>>
  BY DEF BeginCollect, CollectStep, SetCurrent, SetLimit, EmitLimits, EmitCurrents,
     environment, Faults
<1>2. \A j \in Collectors : j # k => collect'[j] = collect[j]
  BY DEF BeginCollect, CollectStep, SetCurrent, SetLimit, EmitLimits, EmitCurrents, Faults,
     TypeInv, CollectInv, CollectOK
<1>3. QED
  BY <1>1, <1>2

-----------------------------------------------------------------------------
(* A result is cached under a code only after its quota was listed         *)

\* An assignment to serviceQuotaMap in progress brings the quota of a code.
WriteIsQuota ==
    mapWrite = NoWrite \/ (mapWrite.code \in Codes /\ mapWrite.limit \in Versions)

\* A goroutine that was given a quota found it in the map.
WorkersKnowTheirQuota ==
    \A s \in Scrapes, c \in Codes : worker[s][c].limit # None => quotas[c] # None

ListedInv == WriteIsQuota /\ WorkersKnowTheirQuota /\ CachedCodesAreListed

LEMMA FreshListed == FreshMemory => ListedInv
<1> SUFFICES ASSUME FreshMemory PROVE ListedInv
  OBVIOUS
<1>1. WriteIsQuota /\ WorkersKnowTheirQuota
  BY DEF FreshMemory, NoWorkers, IdleWorker, WriteIsQuota, WorkersKnowTheirQuota
<1>2. CachedCodesAreListed
  BY DEF FreshMemory, NoCollects, IdleCollect, CollectState, CCache!EmptyCache,
     CachedCodesAreListed
<1>3. QED
  BY <1>1, <1>2 DEF ListedInv

LEMMA CrashListed == ASSUME NEW f \in Faults, Crash(f) PROVE ListedInv'
<1>1. FreshMemory'
  BY CrashIsFresh
<1>2. QED
  BY <1>1, FreshListed, PTL

\* Nothing removes a quota from the map of a living process.
LEMMA QuotasStay ==
  ASSUME TypeInv, WriteIsQuota, NEW s \in Scrapes, AssignQuota(s), NEW c \in Codes,
         quotas[c] # None
  PROVE  quotas'[c] # None
<1>1. quotas'[c] = IF mapWrite.code = c THEN mapWrite.limit ELSE quotas[c]
  BY DEF AssignQuota, TypeInv, ListOK
<1>2. mapWrite = NoWrite => mapWrite.code # c
  BY CodesAssumption DEF NoWrite
<1>3. QED
  BY <1>1, <1>2, CodesAssumption DEF WriteIsQuota, Versions, None

\* The steps of a scrape and of its goroutines.
LEMMA ScrapeListed ==
  ASSUME TypeInv, ListedInv, NEW s \in Scrapes, ScrapeStep(s)
  PROVE  ListedInv'
<1>1. CASE \E f \in Faults : Crash(f)
  BY <1>1, CrashListed
<1>2. CASE ~(\E f \in Faults : Crash(f))
  <2>1. CASE ListAccount(s) \/ EndList(s) \/ Wait(s) \/ WakeUp(s)
    BY <1>2, <2>1
    DEF ListAccount, EndList, Wait, WakeUp, Faults, ListedInv, WriteIsQuota,
        WorkersKnowTheirQuota, CachedCodesAreListed
  <2>2. CASE AssignQuota(s)
    <3>1. mapWrite' = NoWrite /\ UNCHANGED <<worker, cache, collect>>
      BY <2>2 DEF AssignQuota
    <3>2. \A c \in Codes : quotas[c] # None => quotas'[c] # None
      BY <2>2, QuotasStay DEF ListedInv
    <3>3. QED
      BY <3>1, <3>2
      DEF ListedInv, WriteIsQuota, WorkersKnowTheirQuota, CachedCodesAreListed
  <2>3. ASSUME NEW c \in Codes, ListQuota(s, c) PROVE ListedInv'
    <3>1. /\ mapWrite' = mapWrite \/ mapWrite' = [code |-> c, limit |-> cloud[c]]
          /\ UNCHANGED <<quotas, worker, cache, collect>>
      BY <1>2, <2>3 DEF ListQuota, Faults
    <3>2. cloud[c] \in Versions
      BY DEF TypeInv, MainOK
    <3>3. WriteIsQuota'
      BY <3>1, <3>2 DEF ListedInv, WriteIsQuota
    <3>4. QED
      BY <3>1, <3>3 DEF ListedInv, WorkersKnowTheirQuota, CachedCodesAreListed
  <2>4. ASSUME NEW c \in Codes, Spawn(s, c) PROVE ListedInv'
    <3> DEFINE w == [pc |-> "call", limit |-> quotas[c], current |-> None]
    <3>1. /\ worker' = [worker EXCEPT ![s][c] = w]
          /\ UNCHANGED <<quotas, mapWrite, cache, collect>>
      BY <1>2, <2>4 DEF Spawn, Faults
    <3>2. \A x \in Scrapes, y \in Codes :
            worker'[x][y] = IF x = s /\ y = c THEN w ELSE worker[x][y]
      BY <3>1 DEF TypeInv, ScrapeInv, ScrapeOK
    <3>3. WorkersKnowTheirQuota'
      BY <3>1, <3>2 DEF ListedInv, WorkersKnowTheirQuota
    <3>4. QED
      BY <3>1, <3>3 DEF ListedInv, WriteIsQuota, CachedCodesAreListed
  <2>5. QED
    BY <2>1, <2>2, <2>3, <2>4 DEF ScrapeStep
<1>3. QED
  BY <1>1, <1>2

LEMMA WorkerListed ==
  ASSUME TypeInv, ListedInv, NEW s \in Scrapes, NEW c \in Codes, WorkerStep(s, c)
  PROVE  ListedInv'
<1>1. CASE \E f \in Faults : Crash(f)
  BY <1>1, CrashListed
<1>2. CASE ~(\E f \in Faults : Crash(f))
  <2>1. UNCHANGED <<quotas, mapWrite, collect>>
    BY <1>2, WorkerFrame
  <2>2. \A x \in Scrapes, y \in Codes : worker'[x][y].limit \in {worker[x][y].limit, None}
    BY <1>2, WorkerFrame
  <2>3. WriteIsQuota' /\ WorkersKnowTheirQuota'
    BY <2>1, <2>2 DEF ListedInv, WriteIsQuota, WorkersKnowTheirQuota
  <2>4. \A x \in (DOMAIN cache') \cap Codes : x \in DOMAIN cache \/ quotas[x] # None
    <3>1. CASE CacheResult(s, c)
      <4>1. DOMAIN cache' = DOMAIN cache \cup {CacheKey(c, worker[s][c].limit)}
        BY <3>1 DEF CacheResult, CCache!Set
      <4>2. CacheKey(c, worker[s][c].limit) \in Codes => worker[s][c].limit # None
        BY CodesAssumption DEF CacheKey
      <4>3. CacheKey(c, worker[s][c].limit) \in {c, NoCode}
        BY DEF CacheKey
      <4>4. QED
        BY <4>1, <4>2, <4>3, CodesAssumption DEF ListedInv, WorkersKnowTheirQuota
    <3>2. CASE Measure(s, c) \/ WorkerDone(s, c)
      BY <1>2, <3>2 DEF WorkerDone, Measure, Skipped, Measured, Faults
    <3>3. QED
      BY <3>1, <3>2 DEF WorkerStep
  <2>5. CachedCodesAreListed'
    BY <2>1, <2>4 DEF ListedInv, CachedCodesAreListed
  <2>6. QED
    BY <2>3, <2>5 DEF ListedInv
<1>3. QED
  BY <1>1, <1>2

\* A request holds keys of the cache, and drops them one by one.
LEMMA RequestListed ==
  ASSUME TypeInv, ListedInv, NEW k \in Collectors, BeginCollect(k) \/ CollectStep(k)
  PROVE  ListedInv'
<1>1. CASE \E f \in Faults : Crash(f)
  BY <1>1, CrashListed
<1>2. CASE ~(\E f \in Faults : Crash(f))
  <2>1. UNCHANGED <<quotas, mapWrite, worker, cache>>
    BY <1>2, RequestFrame
  <2>2. DOMAIN collect'[k].items \subseteq DOMAIN collect[k].items \cup DOMAIN cache
    <3> USE DEF TypeInv, CollectInv, CollectOK, CollectState
    <3>1. CASE BeginCollect(k)
      BY <3>1 DEF BeginCollect, CCache!Items, CCache!Live
    <3>2. CASE SetLimit(k)
      BY <3>2 DEF SetLimit
    <3>3. CASE EmitLimits(k)
      BY <3>3 DEF EmitLimits
    <3>4. CASE EmitCurrents(k)
      BY <3>4 DEF EmitCurrents, IdleCollect, CCache!EmptyCache
    <3>5. ASSUME NEW key \in Keys, SetCurrent(k, key)
          PROVE  collect'[k].items = collect[k].items
      <4>1. \E r : collect' = [collect EXCEPT ![k] = r] /\ r.items = collect[k].items
        BY <1>2, <3>5 DEF SetCurrent, Faults
      <4>2. QED
        BY <4>1
    <3>6. QED
      BY <3>1, <3>2, <3>3, <3>4, <3>5 DEF CollectStep
  <2>3. \A j \in Collectors : j # k => collect'[j] = collect[j]
    BY <1>2, RequestFrame
  <2>4. QED
    BY <2>1, <2>2, <2>3
    DEF ListedInv, WriteIsQuota, WorkersKnowTheirQuota, CachedCodesAreListed
<1>3. QED
  BY <1>1, <1>2

LEMMA StepListed == TypeInv /\ ListedInv /\ [Next]_allVars => ListedInv'
<1> SUFFICES ASSUME TypeInv, ListedInv, [Next]_allVars PROVE ListedInv'
  OBVIOUS
<1>1. CASE UNCHANGED <<quotas, mapWrite, worker, cache, collect>>
  BY <1>1 DEF ListedInv, WriteIsQuota, WorkersKnowTheirQuota, CachedCodesAreListed
<1>2. CASE Start \/ Serve \/ Tick \/ EndScrape
  BY <1>1, <1>2 DEF Start, Serve, Tick, EndScrape
<1>3. CASE Scraping
  <2>1. ASSUME Janitor PROVE ListedInv'
    <3>1. DOMAIN cache' \subseteq DOMAIN cache
      BY <2>1 DEF Janitor, CCache!DeleteExpired, CCache!Live
    <3>2. QED
      BY <2>1, <3>1
      DEF Janitor, ListedInv, WriteIsQuota, WorkersKnowTheirQuota, CachedCodesAreListed
  <2>2. QED
    BY <1>1, <1>3, <2>1, ScrapeListed, WorkerListed DEF Scraping, ReleaseWaiters
<1>4. CASE Serving
  BY <1>4, RequestListed DEF Serving
<1>5. CASE TimePasses \/ UNCHANGED allVars \/ \E c \in Codes : CloudChanges(c)
  BY <1>1, <1>5 DEF TimePasses, CloudChanges, memory, allVars, vars
<1>6. QED
  BY <1>2, <1>3, <1>4, <1>5 DEF Next, Horizon

LEMMA ListedInvariant == Spec => [](TypeInv /\ ListedInv)
<1>1. Init => TypeInv /\ ListedInv
  BY InitTyped, FreshListed DEF Init
<1>2. QED
  BY <1>1, StepTyped, StepListed, PTL DEF Spec

\* A response never names a code whose quota is not in serviceQuotaMap: the
\* lookup of Collect (aws_quota.go:465) always finds the service and the name.
THEOREM CachedAreListed == Spec => []CachedCodesAreListed
<1>1. TypeInv /\ ListedInv => CachedCodesAreListed
  BY DEF ListedInv
<1>2. QED
  BY <1>1, ListedInvariant, PTL

-----------------------------------------------------------------------------
(* main serves only after a complete scrape                                *)

\* The codes whose measurement has no excuse to be left out.
Required == Codes \ (TolerantCodes \cup HdlCodes \cup Unlisted)

Cached(c) == \E r \in Results : <<c, r>> \in written

\* At most one assignment to the map is in progress, the others end the process.
OneWriter ==
    /\ \A s, t \in Scrapes : scrape[s].pc = "assign" /\ scrape[t].pc = "assign" => s = t
    /\ \A s \in Scrapes : scrape[s].pc = "assign" => mapWrite # NoWrite

\* A quota is in the map from the moment a scrape has gone past it in the list.
ListProgress ==
    \A s \in Scrapes, c \in Codes \ Unlisted :
        \/ scrape[s].pc \in {"idle", "account"}
        \/ scrape[s].pc \in {"list", "assign"} /\ c \in scrape[s].todo
        \/ scrape[s].pc = "assign" /\ mapWrite.code = c
        \/ quotas[c] # None

WorkersHaveQuota ==
    \A s \in Scrapes, c \in Codes \ Unlisted :
        worker[s][c].pc \in {"call", "set"} => worker[s][c].limit # None

\* A scrape that has listed the quotas still has to start the goroutine of a
\* code, or the goroutine is at work, or its result is in the cache.
MeasuredOrAtWork ==
    \A s \in Scrapes, c \in Required :
        scrape[s].pc \in {"spawn", "wait", "ended"} =>
            c \in scrape[s].todo \/ worker[s][c].pc \in {"call", "set"} \/ Cached(c)

WaitsAfterSpawning ==
    \A s \in Scrapes : scrape[s].pc \in {"wait", "ended"} => scrape[s].todo = {}

ServesComplete == process = "serving" => \A c \in Required : Cached(c)

FullInv == /\ OneWriter /\ ListProgress /\ WorkersHaveQuota
           /\ MeasuredOrAtWork /\ WaitsAfterSpawning /\ ServesComplete

LEMMA FreshFull == FreshMemory /\ process # "serving" => FullInv
BY DEF FreshMemory, NoScrapes, IdleScrape, NoWorkers, IdleWorker, FullInv, OneWriter,
   ListProgress, WorkersHaveQuota, MeasuredOrAtWork, WaitsAfterSpawning, ServesComplete

LEMMA CrashFull == ASSUME NEW f \in Faults, Crash(f) PROVE FullInv'
<1>1. FreshMemory' /\ (process # "serving")'
  BY CrashIsFresh
<1>2. QED
  BY <1>1, FreshFull, PTL

LEMMA SameFull ==
  ASSUME FullInv, UNCHANGED <<quotas, mapWrite, scrape, worker, written>>,
         process' \in {process, "boot"}
  PROVE  FullInv'
BY DEF FullInv, OneWriter, ListProgress, WorkersHaveQuota, MeasuredOrAtWork,
   WaitsAfterSpawning, ServesComplete, Cached

\* A scrape works through the list of quotas.
LEMMA ListFull ==
  ASSUME TypeInv, ListedInv, FullInv, NEW s \in Scrapes, ~(\E f \in Faults : Crash(f)),
         ListAccount(s) \/ AssignQuota(s) \/ EndList(s) \/ \E c \in Codes : ListQuota(s, c)
  PROVE  FullInv'
<1>1. /\ UNCHANGED <<process, written, worker>>
      /\ \A x \in Scrapes : x # s => scrape'[x] = scrape[x]
  <2>1. ScrapeStep(s)
    BY DEF ScrapeStep
  <2>2. worker' = worker
    BY DEF ListAccount, ListQuota, AssignQuota, EndList, Faults
  <2>3. QED
    BY <2>1, <2>2, ScrapeFrame
<1>2. scrape \in [Scrapes -> ScrapeStates] /\ scrape[s] \in ScrapeStates
  BY DEF TypeInv, ScrapeInv, ScrapeOK
<1>3. CASE ListAccount(s)
  <2>1. scrape'[s] = [pc |-> "list", todo |-> Codes] /\ UNCHANGED <<quotas, mapWrite>>
    BY <1>2, <1>3 DEF ListAccount, Faults
  <2>2. QED
    BY <1>1, <2>1
    DEF FullInv, OneWriter, ListProgress, WorkersHaveQuota, MeasuredOrAtWork,
        WaitsAfterSpawning, ServesComplete, Cached
<1>4. CASE EndList(s)
  <2>1. /\ scrape[s].pc = "list" /\ scrape[s].todo = {}
        /\ scrape'[s] = [pc |-> "spawn", todo |-> Codes] /\ UNCHANGED <<quotas, mapWrite>>
    BY <1>2, <1>4 DEF EndList
  <2>2. QED
    BY <1>1, <2>1
    DEF FullInv, OneWriter, ListProgress, WorkersHaveQuota, MeasuredOrAtWork,
        WaitsAfterSpawning, ServesComplete, Cached, Required
<1>5. ASSUME NEW c \in Codes, ListQuota(s, c) PROVE FullInv'
  <2>1. /\ scrape[s].pc = "list" /\ quotas' = quotas
        /\ scrape'[s].todo = scrape[s].todo \ {c}
        /\ \/ c \in Unlisted /\ scrape'[s].pc = "list" /\ mapWrite' = mapWrite
           \/ scrape'[s].pc = "assign" /\ mapWrite = NoWrite
              /\ mapWrite' = [code |-> c, limit |-> cloud[c]]
    <3>1. /\ scrape[s].pc = "list" /\ quotas' = quotas
          /\ \/ /\ c \in Unlisted /\ mapWrite' = mapWrite
                /\ scrape' = [scrape EXCEPT ![s].todo = @ \ {c}]
             \/ /\ mapWrite = NoWrite /\ mapWrite' = [code |-> c, limit |-> cloud[c]]
                /\ scrape' = [scrape EXCEPT ![s] = [pc |-> "assign", todo |-> @.todo \ {c}]]
      BY <1>5 DEF ListQuota, Faults
    <3>2. QED
      BY <1>2, <3>1 DEF ScrapeStates
  <2>2. CASE c \in Unlisted /\ scrape'[s].pc = "list" /\ mapWrite' = mapWrite
    BY <1>1, <2>1, <2>2
    DEF FullInv, OneWriter, ListProgress, WorkersHaveQuota, MeasuredOrAtWork,
        WaitsAfterSpawning, ServesComplete, Cached
  <2>3. CASE /\ scrape'[s].pc = "assign" /\ mapWrite = NoWrite
             /\ mapWrite' = [code |-> c, limit |-> cloud[c]]
    <3>1. \A x \in Scrapes : scrape[x].pc # "assign"
      BY <2>3 DEF FullInv, OneWriter
    <3>2. mapWrite' # NoWrite /\ mapWrite'.code = c
      BY <2>3, CodesAssumption DEF NoWrite
    <3>3. OneWriter'
      BY <1>1, <3>1, <3>2 DEF OneWriter
    <3>4. ListProgress'
      BY <1>1, <2>1, <2>3, <3>1, <3>2 DEF FullInv, ListProgress
    <3>5. QED
      BY <1>1, <2>1, <2>3, <3>3, <3>4
      DEF FullInv, WorkersHaveQuota, MeasuredOrAtWork, WaitsAfterSpawning, ServesComplete, Cached
  <2>4. QED
    BY <2>1, <2>2, <2>3
<1>6. CASE AssignQuota(s)
  <2>1. /\ scrape[s].pc = "assign" /\ scrape'[s].pc = "list" /\ mapWrite' = NoWrite
        /\ scrape'[s].todo = scrape[s].todo
        /\ quotas' = [quotas EXCEPT ![mapWrite.code] = mapWrite.limit]
    BY <1>2, <1>6 DEF AssignQuota, ScrapeStates
  <2>2. mapWrite.code \in Codes /\ quotas'[mapWrite.code] # None
    BY <2>1, CodesAssumption
    DEF FullInv, OneWriter, ListedInv, WriteIsQuota, TypeInv, ListOK, Versions, None
  <2>3. \A c \in Codes : quotas[c] # None => quotas'[c] # None
    BY <1>6, QuotasStay DEF ListedInv
  <2>4. \A x \in Scrapes : x # s => scrape[x].pc # "assign"
    BY <2>1 DEF FullInv, OneWriter
  <2>5. OneWriter'
    BY <1>1, <2>1, <2>4 DEF OneWriter
  <2>6. ListProgress'
    BY <1>1, <2>1, <2>2, <2>3, <2>4 DEF FullInv, ListProgress
  <2>7. QED
    BY <1>1, <2>1, <2>5, <2>6
    DEF FullInv, WorkersHaveQuota, MeasuredOrAtWork, WaitsAfterSpawning, ServesComplete, Cached
<1>7. QED
  BY <1>3, <1>4, <1>5, <1>6

\* It starts the goroutines and waits for them.
LEMMA WaitFull ==
  ASSUME TypeInv, FullInv, NEW s \in Scrapes, ~(\E f \in Faults : Crash(f)),
         Wait(s) \/ WakeUp(s) \/ \E c \in Codes : Spawn(s, c)
  PROVE  FullInv'
<1>1. /\ UNCHANGED <<process, written, quotas, mapWrite>>
      /\ \A x \in Scrapes : x # s => scrape'[x] = scrape[x]
  <2>1. ScrapeStep(s)
    BY DEF ScrapeStep
  <2>2. UNCHANGED <<quotas, mapWrite>>
    BY DEF Wait, WakeUp, Spawn, Faults
  <2>3. QED
    BY <2>1, <2>2, ScrapeFrame
<1>2. scrape \in [Scrapes -> ScrapeStates] /\ scrape[s] \in ScrapeStates
  BY DEF TypeInv, ScrapeInv, ScrapeOK
<1>3. CASE Wait(s) \/ WakeUp(s)
  <2>1. /\ scrape[s].pc \in {"spawn", "wait"} /\ scrape'[s].pc \in {"wait", "ended"}
        /\ scrape[s].pc = "spawn" => scrape[s].todo = {}
        /\ scrape'[s].todo = scrape[s].todo /\ worker' = worker
    <3>1. /\ scrape[s].pc \in {"spawn", "wait"} /\ worker' = worker
          /\ scrape[s].pc = "spawn" => scrape[s].todo = {}
          /\ \/ scrape' = [scrape EXCEPT ![s].pc = "wait"]
             \/ scrape' = [scrape EXCEPT ![s].pc = "ended"]
      BY <1>3 DEF Wait, WakeUp, Faults
    <3>2. QED
      BY <1>2, <3>1 DEF ScrapeStates
  <2>2. QED
    BY <1>1, <2>1
    DEF FullInv, OneWriter, ListProgress, WorkersHaveQuota, MeasuredOrAtWork,
        WaitsAfterSpawning, ServesComplete, Cached
<1>4. ASSUME NEW c \in Codes, Spawn(s, c) PROVE FullInv'
  <2> DEFINE w == [pc |-> "call", limit |-> quotas[c], current |-> None]
  <2>1. /\ scrape[s].pc = "spawn" /\ scrape'[s].pc = "spawn"
        /\ scrape'[s].todo = scrape[s].todo \ {c}
        /\ worker' = [worker EXCEPT ![s][c] = w]
    <3>1. /\ scrape[s].pc = "spawn" /\ scrape' = [scrape EXCEPT ![s].todo = @ \ {c}]
          /\ worker' = [worker EXCEPT ![s][c] = w]
      BY <1>4 DEF Spawn, Faults
    <3>2. QED
      BY <1>2, <3>1 DEF ScrapeStates
  <2>2. \A x \in Scrapes, y \in Codes :
          worker'[x][y] = IF x = s /\ y = c THEN w ELSE worker[x][y]
    BY <2>1 DEF TypeInv, ScrapeInv, ScrapeOK
  <2>3. OneWriter' /\ ListProgress' /\ WaitsAfterSpawning' /\ ServesComplete'
    BY <1>1, <2>1
    DEF FullInv, OneWriter, ListProgress, WaitsAfterSpawning, ServesComplete, Cached
  <2>4. WorkersHaveQuota'
    BY <1>1, <2>1, <2>2 DEF FullInv, ListProgress, WorkersHaveQuota
  <2>5. MeasuredOrAtWork'
    BY <1>1, <2>1, <2>2 DEF FullInv, MeasuredOrAtWork, Cached
  <2>6. QED
    BY <2>3, <2>4, <2>5 DEF FullInv
<1>5. QED
  BY <1>3, <1>4

\* Its goroutines: the one of a required code ends only after it has cached.
LEMMA WorkerFull ==
  ASSUME TypeInv, FullInv, NEW s \in Scrapes, NEW c \in Codes, WorkerStep(s, c),
         ~(\E f \in Faults : Crash(f))
  PROVE  FullInv'
<1>1. /\ UNCHANGED <<process, quotas, mapWrite, scrape>>
      /\ \A x \in Scrapes, y \in Codes : x # s \/ y # c => worker'[x][y] = worker[x][y]
  BY WorkerFrame
<1>2. worker[s][c] \in WorkerStates /\ worker \in [Scrapes -> [Codes -> WorkerStates]]
  BY DEF TypeInv, ScrapeInv, ScrapeOK
<1>3. CASE Measure(s, c)
  <2>1. /\ worker[s][c].pc = "call" /\ written' = written
        /\ worker'[s][c].limit = worker[s][c].limit
        /\ worker'[s][c].pc = "done" => c \in TolerantCodes \cup HdlCodes
        /\ worker'[s][c].pc \in {"done", "set"}
    <3>1. /\ worker[s][c].pc = "call" /\ written' = written
          /\ \/ /\ c \in TolerantCodes \cup HdlCodes
                /\ worker' = [worker EXCEPT ![s][c] = Skipped(worker[s][c])]
             \/ worker' = [worker EXCEPT ![s][c] = Measured(worker[s][c], cloud[c])]
      BY <1>3 DEF Measure, SetWorker, Faults
    <3>2. /\ Skipped(worker[s][c]).limit = worker[s][c].limit
          /\ Skipped(worker[s][c]).pc = "done"
          /\ Measured(worker[s][c], cloud[c]).limit = worker[s][c].limit
          /\ Measured(worker[s][c], cloud[c]).pc = "set"
      BY <1>2 DEF Skipped, Measured, WorkerStates
    <3>3. QED
      BY <1>2, <3>1, <3>2
  <2>2. QED
    BY <1>1, <2>1
    DEF FullInv, OneWriter, ListProgress, WorkersHaveQuota, MeasuredOrAtWork,
        WaitsAfterSpawning, ServesComplete, Cached, Required
<1>4. CASE CacheResult(s, c)
  <2> DEFINE result == [limit |-> worker[s][c].limit, current |-> worker[s][c].current]
  <2>1. /\ worker[s][c].pc = "set" /\ worker'[s][c].pc = "done"
        /\ written' = written \cup {<<CacheKey(c, worker[s][c].limit), result>>}
    BY <1>2, <1>4 DEF CacheResult, SetWorker, WorkerStates
  <2>2. result \in Results
    BY <1>2, <2>1 DEF TypeInv, ScrapeInv, MeasuredUsage, WorkerStates, Results
  <2>3. \A y \in Codes : Cached(y) => Cached(y)'
    BY <2>1 DEF Cached
  <2>4. c \in Required => Cached(c)'
    <3> SUFFICES ASSUME c \in Required PROVE Cached(c)'
      OBVIOUS
    <3>1. worker[s][c].limit # None
      BY <2>1 DEF FullInv, WorkersHaveQuota, Required
    <3>2. <<c, result>> \in written'
      BY <2>1, <3>1 DEF CacheKey
    <3>3. QED
      BY <2>2, <3>2 DEF Cached
  <2>5. QED
    BY <1>1, <2>1, <2>3, <2>4
    DEF FullInv, OneWriter, ListProgress, WorkersHaveQuota, MeasuredOrAtWork,
        WaitsAfterSpawning, ServesComplete, Required
<1>5. CASE WorkerDone(s, c)
  <2>1. worker[s][c].pc = "done" /\ worker'[s][c].pc = "none" /\ written' = written
    <3>1. /\ worker[s][c].pc = "done" /\ written' = written
          /\ worker' = [worker EXCEPT ![s][c] = IdleWorker]
      BY <1>5 DEF WorkerDone, SetWorker, Faults
    <3>2. QED
      BY <1>2, <3>1 DEF IdleWorker
  <2>2. \A x \in Scrapes, y \in Codes :
          worker'[x][y].pc \in {"call", "set"} <=> worker[x][y].pc \in {"call", "set"}
    BY <1>1, <2>1
  <2>3. \A x \in Scrapes, y \in Codes :
          worker'[x][y].pc \in {"call", "set"} => worker'[x][y] = worker[x][y]
    BY <1>1, <2>1
  <2>4. WorkersHaveQuota'
    BY <2>3, <2>2 DEF FullInv, WorkersHaveQuota
  <2>5. MeasuredOrAtWork'
    BY <1>1, <2>1, <2>2 DEF FullInv, MeasuredOrAtWork, Cached, Required
  <2>6. QED
    BY <1>1, <2>1, <2>4, <2>5
    DEF FullInv, OneWriter, ListProgress, WaitsAfterSpawning, ServesComplete, Cached
<1>6. QED
  BY <1>3, <1>4, <1>5 DEF WorkerStep

\* The first Scrape returns to main when all its goroutines have ended.
LEMMA MainFull ==
  ASSUME TypeInv, GroupInv, FullInv, Start \/ Serve \/ Tick \/ EndScrape
  PROVE  FullInv'
<1>1. PICK s \in Scrapes, r \in {[pc |-> "account", todo |-> {}], IdleScrape} :
        /\ scrape' = [scrape EXCEPT ![s] = r]
        /\ Serve => scrape[s].pc = "ended"
        /\ scrape[s].pc = "assign" => process = "down"
  BY DEF Start, Serve, Tick, EndScrape, BeginScrape, ScrapeReturns
<1>2. \A x \in Scrapes : scrape'[x] = IF x = s THEN r ELSE scrape[x]
  BY <1>1, ScrapeChange
<1>3. UNCHANGED <<quotas, mapWrite, worker, written>> /\ r.pc \in {"idle", "account"}
  BY DEF Start, Serve, Tick, EndScrape, IdleScrape
<1>4. Serve => \A c \in Required : Cached(c)
  <2> SUFFICES ASSUME Serve, NEW c \in Required PROVE Cached(c)
    OBVIOUS
  <2>1. scrape[s].pc = "ended" /\ worker[s][c].pc = "none" /\ scrape[s].todo = {}
    BY <1>1 DEF GroupInv, WorkersBelong, NoWorkersOf, Required, FullInv, WaitsAfterSpawning
  <2>2. QED
    BY <2>1 DEF FullInv, MeasuredOrAtWork
<1>5. ServesComplete'
  BY <1>3, <1>4 DEF Start, Serve, Tick, EndScrape, FullInv, ServesComplete, Cached
<1>6. QED
  BY <1>2, <1>3, <1>5
  DEF FullInv, OneWriter, ListProgress, WorkersHaveQuota, MeasuredOrAtWork,
      WaitsAfterSpawning, Cached

LEMMA StepFull == TypeInv /\ GroupInv /\ ListedInv /\ FullInv /\ [Next]_allVars => FullInv'
<1> SUFFICES ASSUME TypeInv, GroupInv, ListedInv, FullInv, [Next]_allVars PROVE FullInv'
  OBVIOUS
<1>1. CASE \E f \in Faults : Crash(f)
  BY <1>1, CrashFull
<1>2. CASE Start \/ Serve \/ Tick \/ EndScrape
  BY <1>2, MainFull
<1>3. CASE Scraping /\ ~(\E f \in Faults : Crash(f))
  <2>1. ASSUME NEW s \in Scrapes, ScrapeStep(s) PROVE FullInv'
    BY <1>3, <2>1, ListFull, WaitFull DEF ScrapeStep
  <2>2. ASSUME ReleaseWaiters \/ Janitor PROVE FullInv'
    BY <2>2, SameFull DEF ReleaseWaiters, Janitor
  <2>3. QED
    BY <1>3, <2>1, <2>2, WorkerFull DEF Scraping
<1>4. CASE Serving /\ ~(\E f \in Faults : Crash(f))
  BY <1>4, RequestFrame, SameFull DEF Serving
<1>5. CASE TimePasses \/ UNCHANGED allVars \/ \E c \in Codes : CloudChanges(c)
  BY <1>5, SameFull DEF TimePasses, CloudChanges, memory, allVars, vars
<1>6. QED
  BY <1>1, <1>2, <1>3, <1>4, <1>5 DEF Next, Horizon

LEMMA ListInvariant == Spec => [](TypeInv /\ GroupInv /\ ListedInv /\ FullInv)
<1>1. Init => FullInv
  BY FreshFull DEF Init
<1>2. QED
  BY <1>1, StepFull, StrengthenedInvariant, ListedInvariant, PTL DEF Spec

\* main.go serves /metrics after the first Scrape (line 50): however that scrape
\* interleaves with its goroutines and whatever crashed before, every quota with
\* no excuse has been measured and cached by then.
THEOREM ServedAfterFullScrape == Spec => []ServesAfterFullScrape
<1>1. FullInv => ServesAfterFullScrape
  BY DEF FullInv, ServesComplete, ServesAfterFullScrape, Required, Cached
<1>2. QED
  BY <1>1, ListInvariant, PTL

-----------------------------------------------------------------------------
(* One limit series for a quota code                                       *)

\* The account has one alias as long as the exporter runs.
OneAlias == \A a, b \in AliasReplies : a = b

\* A scrape past its first call, and so every request, knows the alias.
AliasKnown ==
    /\ \A s \in Scrapes : scrape[s].pc \notin {"idle", "account"} => account \in AliasReplies
    /\ process = "serving" => account \in AliasReplies

\* The labels that a series of the two gauges has.
IsExportedSeries(x) == x.named = (x.code \in Codes) /\ x.account \in AliasReplies

SeriesInv ==
    /\ AliasKnown
    /\ \A x \in Series :
         gaugeLimit[x] # Absent \/ gaugeCurrent[x] # Absent => IsExportedSeries(x)
    /\ \A k \in Collectors : collect[k].pc = "limit" => IsExportedSeries(collect[k].at)

LEMMA FreshSeries == FreshMemory /\ process # "serving" => SeriesInv
BY DEF FreshMemory, NoScrapes, IdleScrape, NoSeries, NoCollects, IdleCollect, CollectState,
   SeriesInv, AliasKnown

LEMMA CrashSeries == ASSUME NEW f \in Faults, Crash(f) PROVE SeriesInv'
<1>1. FreshMemory' /\ (process # "serving")'
  BY CrashIsFresh
<1>2. QED
  BY <1>1, FreshSeries, PTL

LEMMA SameSeries ==
  ASSUME SeriesInv, AliasKnown', UNCHANGED <<gaugeCurrent, gaugeLimit, collect>>
  PROVE  SeriesInv'
BY DEF SeriesInv, IsExportedSeries

LEMMA ScrapeSeries ==
  ASSUME TypeInv, SeriesInv, NEW s \in Scrapes, ScrapeStep(s), ~(\E f \in Faults : Crash(f))
  PROVE  SeriesInv'
<1>1. /\ UNCHANGED <<process, gaugeCurrent, gaugeLimit, collect>>
      /\ \A x \in Scrapes : x # s => scrape'[x] = scrape[x]
  BY ScrapeFrame
<1>2. account' = account \/ account' \in AliasReplies
  BY DEF ScrapeStep, ListAccount, ListQuota, AssignQuota, EndList, Spawn, Wait, WakeUp, Faults
<1>3. CASE ListAccount(s)
  <2>1. account' \in AliasReplies
    BY <1>3 DEF ListAccount, Faults, TypeInv, ListOK, Accounts
  <2>2. QED
    BY <1>1, <2>1, SameSeries DEF AliasKnown
<1>4. CASE ~ListAccount(s)
  <2>1. scrape[s].pc \notin {"idle", "account"}
    BY <1>4 DEF ScrapeStep, ListQuota, AssignQuota, EndList, Spawn, Wait, WakeUp, Faults
  <2>2. account \in AliasReplies
    BY <2>1 DEF SeriesInv, AliasKnown
  <2>3. QED
    BY <1>1, <1>2, <2>2, SameSeries DEF AliasKnown
<1>5. QED
  BY <1>3, <1>4

LEMMA RequestSeries ==
  ASSUME TypeInv, ListedInv, SeriesInv, process = "serving", NEW k \in Collectors,
         BeginCollect(k) \/ CollectStep(k), ~(\E f \in Faults : Crash(f))
  PROVE  SeriesInv'
<1>1. /\ UNCHANGED <<process, account, scrape, quotas>>
      /\ \A j \in Collectors : j # k => collect'[j] = collect[j]
  BY RequestFrame
<1>2. AliasKnown' /\ account \in AliasReplies
  BY <1>1 DEF SeriesInv, AliasKnown
<1>3. /\ collect = [j \in Collectors |-> collect[j]]
      /\ gaugeLimit \in [Series -> GaugeValues] /\ gaugeCurrent \in [Series -> GaugeValues]
  BY DEF TypeInv, CollectInv, CollectOK, GaugeOK
<1>4. ASSUME NEW key \in Keys, SetCurrent(k, key) PROVE SeriesInv'
  <2>1. /\ key \in DOMAIN collect[k].items /\ gaugeLimit' = gaugeLimit
        /\ collect'[k].at = LabelsOf(key)
        /\ \A x \in Series : x # LabelsOf(key) => gaugeCurrent'[x] = gaugeCurrent[x]
    <3>1. /\ key \in DOMAIN collect[k].items /\ gaugeLimit' = gaugeLimit
          /\ gaugeCurrent' =
               [gaugeCurrent EXCEPT ![LabelsOf(key)] = collect[k].items[key].current]
          /\ collect' = [collect EXCEPT ![k] =
                           [pc |-> "limit", items |-> @.items, at |-> LabelsOf(key),
                            limits |-> @.limits]]
      BY <1>4 DEF SetCurrent, CollectState, Faults
    <3>2. QED
      BY <1>3, <3>1
  <2>2. key \in Codes => quotas[key] # None
    BY <2>1 DEF ListedInv, CachedCodesAreListed
  <2>3. IsExportedSeries(LabelsOf(key))
    BY <1>2, <2>2 DEF LabelsOf, IsExportedSeries
  <2>4. QED
    BY <1>1, <1>2, <2>1, <2>3 DEF SeriesInv, IsExportedSeries
<1>5. CASE SetLimit(k)
  <2> DEFINE labels == [collect[k].at EXCEPT !.account = account]
  <2>1. /\ collect[k].pc = "limit" /\ collect'[k].pc = "current" /\ gaugeCurrent' = gaugeCurrent
        /\ \A x \in Series : x # labels => gaugeLimit'[x] = gaugeLimit[x]
    BY <1>3, <1>5 DEF SetLimit, CollectState
  <2>2. IsExportedSeries(labels)
    <3>1. collect[k].at \in Series /\ IsExportedSeries(collect[k].at)
      BY <2>1 DEF SeriesInv, TypeInv, CollectInv, CollectOK, IsCollectState
    <3>2. QED
      BY <1>2, <3>1 DEF IsExportedSeries, Series
  <2>3. QED
    BY <1>1, <1>2, <2>1, <2>2 DEF SeriesInv, IsExportedSeries
<1>6. CASE BeginCollect(k) \/ EmitLimits(k) \/ EmitCurrents(k)
  <2>1. UNCHANGED <<gaugeCurrent, gaugeLimit>> /\ collect'[k].pc # "limit"
    BY <1>3, <1>6
    DEF BeginCollect, EmitLimits, EmitCurrents, IdleCollect, CollectState
  <2>2. QED
    BY <1>1, <1>2, <2>1 DEF SeriesInv, IsExportedSeries
<1>7. QED
  BY <1>4, <1>5, <1>6 DEF CollectStep

LEMMA MainSeries ==
  ASSUME TypeInv, SeriesInv, Start \/ Serve \/ Tick \/ EndScrape PROVE SeriesInv'
<1>1. PICK s \in Scrapes, r \in {[pc |-> "account", todo |-> {}], IdleScrape} :
        /\ scrape' = [scrape EXCEPT ![s] = r]
        /\ Serve => scrape[s].pc = "ended"
  BY DEF Start, Serve, Tick, EndScrape, BeginScrape, ScrapeReturns
<1>2. \A x \in Scrapes : scrape'[x] = IF x = s THEN r ELSE scrape[x]
  BY <1>1, ScrapeChange
<1>3. UNCHANGED <<account, gaugeCurrent, gaugeLimit, collect>> /\ r.pc \in {"idle", "account"}
  BY DEF Start, Serve, Tick, EndScrape, IdleScrape
<1>4. process' = "serving" => Serve \/ process = "serving"
  BY DEF Start, Serve, Tick, EndScrape
<1>5. AliasKnown'
  BY <1>1, <1>2, <1>3, <1>4 DEF SeriesInv, AliasKnown
<1>6. QED
  BY <1>3, <1>5, SameSeries

LEMMA StepSeries == TypeInv /\ ListedInv /\ SeriesInv /\ [Next]_allVars => SeriesInv'
<1> SUFFICES ASSUME TypeInv, ListedInv, SeriesInv, [Next]_allVars PROVE SeriesInv'
  OBVIOUS
<1>1. CASE \E f \in Faults : Crash(f)
  BY <1>1, CrashSeries
<1>2. CASE UNCHANGED <<process, account, scrape, gaugeCurrent, gaugeLimit, collect>>
  BY <1>2, SameSeries DEF SeriesInv, AliasKnown
<1>3. CASE Scraping /\ ~(\E f \in Faults : Crash(f))
  BY <1>2, <1>3, ScrapeSeries, WorkerFrame DEF Scraping, ReleaseWaiters, Janitor
<1>4. CASE Serving /\ ~(\E f \in Faults : Crash(f))
  BY <1>4, RequestSeries DEF Serving
<1>5. CASE TimePasses \/ UNCHANGED allVars \/ \E c \in Codes : CloudChanges(c)
  BY <1>2, <1>5 DEF TimePasses, CloudChanges, memory, allVars, vars
<1>6. QED
  BY <1>1, <1>3, <1>4, <1>5, MainSeries DEF Next, Horizon

LEMMA SeriesInvariant == Spec => [](TypeInv /\ ListedInv /\ SeriesInv)
<1>1. Init => SeriesInv
  BY FreshSeries DEF Init
<1>2. QED
  BY <1>1, StepSeries, ListedInvariant, PTL DEF Spec

\* The alert divides by cpe_quota_limit on(QuotaCode): with one alias there is
\* one series to divide by, though the labels are looked up at each request
\* while scrapes list the quotas again (aws_quota.go lines 465-468).
THEOREM OneLimitSeries ==
  ASSUME OneAlias
  PROVE  Spec => []OneLimitSeriesPerCode
<1>1. SeriesInv => OneLimitSeriesPerCode
  BY DEF SeriesInv, IsExportedSeries, OneLimitSeriesPerCode, OneAlias, Series
<1>2. QED
  BY <1>1, SeriesInvariant, PTL

-----------------------------------------------------------------------------
(* A usage and a limit of one measurement                                  *)

OneRequest == \A j, k \in Collectors : j = k

\* What the cache holds, and a request copied from it, was cached.
ItemsWritten ==
    /\ \A c \in DOMAIN cache : <<c, cache[c].object>> \in written
    /\ \A k \in Collectors : \A c \in DOMAIN collect[k].items :
           <<c, collect[k].items[c]>> \in written

LEMMA FreshItems == FreshMemory => ItemsWritten
BY DEF FreshMemory, NoCollects, IdleCollect, CollectState, CCache!EmptyCache, ItemsWritten

LEMMA CrashItems == ASSUME NEW f \in Faults, Crash(f) PROVE ItemsWritten'
<1>1. FreshMemory'
  BY CrashIsFresh
<1>2. QED
  BY <1>1, FreshItems, PTL

\* What a goroutine caches, and under which key.
KeyOf(s, c)    == CacheKey(c, worker[s][c].limit)
ResultOf(s, c) == [limit |-> worker[s][c].limit, current |-> worker[s][c].current]

LEMMA CacheResultEffect ==
  ASSUME TypeInv, NEW s \in Scrapes, NEW c \in Codes, CacheResult(s, c)
  PROVE  /\ worker[s][c].pc = "set" /\ ResultOf(s, c) \in Results
         /\ written' = written \cup {<<KeyOf(s, c), ResultOf(s, c)>>}
         /\ DOMAIN cache' = DOMAIN cache \cup {KeyOf(s, c)}
         /\ cache'[KeyOf(s, c)].object = ResultOf(s, c)
         /\ \A x \in DOMAIN cache : x # KeyOf(s, c) => cache'[x] = cache[x]
<1>1. worker[s][c].pc = "set" /\ ResultOf(s, c) \in Results
  BY DEF CacheResult, TypeInv, ScrapeInv, ScrapeOK, MeasuredUsage, WorkerStates, Results, ResultOf
<1>2. written' = written \cup {<<KeyOf(s, c), ResultOf(s, c)>>}
  BY DEF CacheResult, KeyOf, ResultOf
<1>3. /\ DOMAIN cache' = DOMAIN cache \cup {KeyOf(s, c)}
      /\ cache'[KeyOf(s, c)].object = ResultOf(s, c)
      /\ \A x \in DOMAIN cache : x # KeyOf(s, c) => cache'[x] = cache[x]
  BY DEF CacheResult, CCache!Set, KeyOf, ResultOf
<1>4. QED
  BY <1>1, <1>2, <1>3

LEMMA JanitorEffect ==
  ASSUME Janitor
  PROVE  \A c \in DOMAIN cache' : c \in DOMAIN cache /\ cache'[c] = cache[c]
BY DEF Janitor, CCache!DeleteExpired, CCache!Live

\* A request takes its items from the cache, and drops them one by one.
LEMMA RequestItems ==
  ASSUME TypeInv, ItemsWritten, NEW k \in Collectors, BeginCollect(k) \/ CollectStep(k),
         ~(\E f \in Faults : Crash(f))
  PROVE  ItemsWritten'
<1>1. /\ UNCHANGED <<cache, written>>
      /\ \A j \in Collectors : j # k => collect'[j] = collect[j]
  BY RequestFrame
<1> USE DEF TypeInv, CollectInv, CollectOK, CollectState
<1>2. CASE BeginCollect(k)
  <2>1. collect'[k].items = CCache!Items(cache, now)
    BY <1>2 DEF BeginCollect
  <2>2. QED
    BY <1>1, <2>1 DEF ItemsWritten, CCache!Items, CCache!Live
<1>3. CASE ~BeginCollect(k)
  <2>1. /\ DOMAIN collect'[k].items \subseteq DOMAIN collect[k].items
        /\ \A c \in DOMAIN collect'[k].items : collect'[k].items[c] = collect[k].items[c]
    <3>1. CASE SetLimit(k)
      BY <3>1 DEF SetLimit
    <3>2. CASE EmitLimits(k)
      BY <3>2 DEF EmitLimits
    <3>3. CASE EmitCurrents(k)
      BY <3>3 DEF EmitCurrents, IdleCollect, CCache!EmptyCache
    <3>4. ASSUME NEW key \in Keys, SetCurrent(k, key)
          PROVE  collect'[k].items = collect[k].items
      <4>1. collect' = [collect EXCEPT ![k] =
                           [pc |-> "limit", items |-> @.items, at |-> LabelsOf(key),
                            limits |-> @.limits]]
        BY <3>4 DEF SetCurrent, Faults
      <4>2. QED
        BY <4>1
    <3>5. QED
      BY <1>3, <3>1, <3>2, <3>3, <3>4 DEF CollectStep
  <2>2. QED
    BY <1>1, <2>1 DEF ItemsWritten
<1>4. QED
  BY <1>2, <1>3

LEMMA StepItems == TypeInv /\ ItemsWritten /\ [Next]_allVars => ItemsWritten'
<1> SUFFICES ASSUME TypeInv, ItemsWritten, [Next]_allVars PROVE ItemsWritten'
  OBVIOUS
<1>1. CASE \E f \in Faults : Crash(f)
  BY <1>1, CrashItems
<1>2. CASE UNCHANGED <<cache, written, collect>>
  BY <1>2 DEF ItemsWritten
<1>3. CASE Scraping /\ ~(\E f \in Faults : Crash(f))
  <2>1. ASSUME Janitor PROVE ItemsWritten'
    BY <2>1, JanitorEffect DEF Janitor, ItemsWritten
  <2>2. ASSUME NEW s \in Scrapes, ScrapeStep(s) PROVE ItemsWritten'
    BY <1>2, <1>3, <2>2, ScrapeFrame
  <2>3. ASSUME NEW s \in Scrapes, NEW c \in Codes, WorkerStep(s, c) PROVE ItemsWritten'
    <3>1. CASE CacheResult(s, c)
      <4>1. collect' = collect
        BY <3>1 DEF CacheResult
      <4>2. QED
        BY <3>1, <4>1, CacheResultEffect DEF ItemsWritten
    <3>2. CASE Measure(s, c) \/ WorkerDone(s, c)
      BY <1>2, <1>3, <3>2 DEF Measure, Skipped, Measured, WorkerDone, Faults
    <3>3. QED
      BY <2>3, <3>1, <3>2 DEF WorkerStep
  <2>4. QED
    BY <1>2, <1>3, <2>1, <2>2, <2>3 DEF Scraping, ReleaseWaiters
<1>4. CASE Serving /\ ~(\E f \in Faults : Crash(f))
  BY <1>4, RequestItems DEF Serving
<1>5. CASE Start \/ Serve \/ Tick \/ EndScrape
  BY <1>2, <1>5 DEF Start, Serve, Tick, EndScrape
<1>6. CASE TimePasses \/ UNCHANGED allVars \/ \E c \in Codes : CloudChanges(c)
  BY <1>2, <1>6 DEF TimePasses, CloudChanges, memory, allVars, vars
<1>7. QED
  BY <1>1, <1>3, <1>4, <1>5, <1>6 DEF Next, Horizon

\* Between the two Set calls of an item, its usage is exported already.
UsageIsSet ==
    \A k \in Collectors : collect[k].pc = "limit" =>
        gaugeCurrent[collect[k].at] = collect[k].items[collect[k].at.code].current

LimitsAreEmitted ==
    \A k \in Collectors : collect[k].pc = "emit" => collect[k].limits = gaugeLimit

\* A series pairs a usage with its limit, unless a request is between the two.
PairsMatch ==
    \A x \in Series : x.code # NoCode /\ gaugeLimit[x] # Absent =>
        \/ <<x.code, [limit |-> gaugeLimit[x], current |-> gaugeCurrent[x]]>> \in written
        \/ \E k \in Collectors : collect[k].pc = "limit" /\ collect[k].at = x

PairInv == UsageIsSet /\ LimitsAreEmitted /\ PairsMatch

LEMMA FreshPairs == FreshMemory => PairInv
BY DEF FreshMemory, NoSeries, NoCollects, IdleCollect, CollectState,
   PairInv, UsageIsSet, LimitsAreEmitted, PairsMatch

LEMMA CrashPairs == ASSUME NEW f \in Faults, Crash(f) PROVE PairInv'
<1>1. FreshMemory'
  BY CrashIsFresh
<1>2. QED
  BY <1>1, FreshPairs, PTL

\* A step that exports nothing.
LEMMA SamePairs ==
  ASSUME PairInv, UNCHANGED <<gaugeCurrent, gaugeLimit, collect>>, written \subseteq written'
  PROVE  PairInv'
BY DEF PairInv, UsageIsSet, LimitsAreEmitted, PairsMatch

LEMMA RequestPairs ==
  ASSUME OneRequest, OneAlias, TypeInv, SeriesInv, ItemsWritten, PairInv, process = "serving",
         NEW k \in Collectors, BeginCollect(k) \/ CollectStep(k), ~(\E f \in Faults : Crash(f))
  PROVE  PairInv'
<1>1. UNCHANGED <<cache, written, account>>
  BY RequestFrame
<1>2. /\ collect = [j \in Collectors |-> collect[j]] /\ \A j \in Collectors : j = k
      /\ gaugeLimit \in [Series -> GaugeValues] /\ gaugeCurrent \in [Series -> GaugeValues]
      /\ IsCollectState(collect[k])
  BY DEF TypeInv, CollectInv, CollectOK, GaugeOK, OneRequest
<1>3. ASSUME NEW key \in Keys, SetCurrent(k, key) PROVE PairInv'
  <2> DEFINE items == collect[k].items
  <2>1. /\ collect[k].pc = "current" /\ key \in DOMAIN items
        /\ gaugeCurrent' = [gaugeCurrent EXCEPT ![LabelsOf(key)] = items[key].current]
        /\ gaugeLimit' = gaugeLimit
        /\ collect'[k].pc = "limit" /\ collect'[k].items = items
        /\ collect'[k].at = LabelsOf(key)
    <3>1. /\ collect[k].pc = "current" /\ key \in DOMAIN items
          /\ gaugeCurrent' = [gaugeCurrent EXCEPT ![LabelsOf(key)] = items[key].current]
          /\ gaugeLimit' = gaugeLimit
          /\ collect' = [collect EXCEPT ![k] =
                           [pc |-> "limit", items |-> @.items, at |-> LabelsOf(key),
                            limits |-> @.limits]]
      BY <1>3 DEF SetCurrent, CollectState, Faults
    <3>2. QED
      BY <1>2, <3>1
  <2>2. LabelsOf(key) \in Series /\ LabelsOf(key).code = key
    BY LabelsTyped DEF TypeInv, LabelsOf
  <2>3. UsageIsSet'
    BY <1>2, <2>1, <2>2 DEF UsageIsSet
  <2>4. PairsMatch'
    BY <1>1, <1>2, <2>1 DEF PairInv, PairsMatch
  <2>5. LimitsAreEmitted'
    BY <1>1, <1>2, <2>1 DEF PairInv, LimitsAreEmitted
  <2>6. QED
    BY <2>3, <2>4, <2>5 DEF PairInv
<1>4. CASE SetLimit(k)
  <2> DEFINE at == collect[k].at
             items == collect[k].items
  <2>1. collect[k].pc = "limit" /\ at \in Series /\ at.code \in DOMAIN items
    BY <1>2, <1>4 DEF SetLimit, TypeInv, CollectInv, SnapshotHasKey, IsCollectState
  <2>2. [at EXCEPT !.account = account] = at
    <3>1. at.account = account
      BY <2>1 DEF SeriesInv, AliasKnown, IsExportedSeries, OneAlias
    <3>2. QED
      BY <2>1, <3>1 DEF Series
  <2>3. /\ gaugeLimit' = [gaugeLimit EXCEPT ![at] = items[at.code].limit]
        /\ gaugeCurrent' = gaugeCurrent
        /\ collect'[k].pc = "current"
        /\ collect'[k].items = [x \in DOMAIN items \ {at.code} |-> items[x]]
    BY <1>2, <1>4, <2>2 DEF SetLimit, ExportedLimit, CollectState
  <2>4. items[at.code] \in Results /\ <<at.code, items[at.code]>> \in written
    BY <1>2, <2>1 DEF IsCollectState, IsPartialFunction, ItemsWritten
  <2>5. gaugeCurrent[at] = items[at.code].current
    BY <2>1 DEF PairInv, UsageIsSet
  <2>6. <<at.code, [limit |-> gaugeLimit'[at], current |-> gaugeCurrent'[at]]>> \in written
    BY <1>2, <2>1, <2>3, <2>4, <2>5 DEF Results
  <2>7. PairsMatch'
    <3>1. \A x \in Series : x # at =>
            /\ gaugeLimit'[x] = gaugeLimit[x]
            /\ ~(\E j \in Collectors : collect[j].pc = "limit" /\ collect[j].at = x)
      BY <1>2, <2>3
    <3>2. QED
      BY <1>1, <2>3, <2>6, <3>1 DEF PairInv, PairsMatch
  <2>8. UsageIsSet' /\ LimitsAreEmitted'
    BY <1>1, <1>2, <2>3 DEF PairInv, UsageIsSet, LimitsAreEmitted
  <2>9. QED
    BY <2>7, <2>8 DEF PairInv
<1>5. CASE BeginCollect(k) \/ EmitLimits(k) \/ EmitCurrents(k)
  <2>1. /\ collect[k].pc # "limit" /\ collect'[k].pc # "limit"
        /\ collect'[k].pc = "emit" => collect'[k].limits = gaugeLimit
        /\ UNCHANGED <<gaugeCurrent, gaugeLimit>>
    BY <1>2, <1>5 DEF BeginCollect, EmitLimits, EmitCurrents, IdleCollect, CollectState
  <2>2. QED
    BY <1>1, <1>2, <2>1 DEF PairInv, UsageIsSet, LimitsAreEmitted, PairsMatch
<1>6. QED
  BY <1>3, <1>4, <1>5 DEF CollectStep

LEMMA StepPairs ==
  ASSUME OneRequest, OneAlias
  PROVE  TypeInv /\ SeriesInv /\ ItemsWritten /\ PairInv /\ [Next]_allVars => PairInv'
<1> SUFFICES ASSUME TypeInv, SeriesInv, ItemsWritten, PairInv, [Next]_allVars PROVE PairInv'
  OBVIOUS
<1>1. CASE \E f \in Faults : Crash(f)
  BY <1>1, CrashPairs
<1>2. CASE Scraping /\ ~(\E f \in Faults : Crash(f))
  <2>1. UNCHANGED <<gaugeCurrent, gaugeLimit, collect>>
    BY <1>2, ScrapeFrame, WorkerFrame DEF Scraping, ReleaseWaiters, Janitor
  <2>2. written \subseteq written'
    <3>1. ASSUME NEW s \in Scrapes, NEW c \in Codes, WorkerStep(s, c)
          PROVE  written \subseteq written'
      BY <1>2, <3>1
      DEF WorkerStep, Measure, Skipped, Measured, CacheResult, WorkerDone, Faults
    <3>2. QED
      BY <1>2, <3>1, ScrapeFrame DEF Scraping, ReleaseWaiters, Janitor
  <2>3. QED
    BY <2>1, <2>2, SamePairs
<1>3. CASE Serving /\ ~(\E f \in Faults : Crash(f))
  BY <1>3, RequestPairs DEF Serving
<1>4. CASE Start \/ Serve \/ Tick \/ EndScrape
  BY <1>4, SamePairs DEF Start, Serve, Tick, EndScrape
<1>5. CASE TimePasses \/ UNCHANGED allVars \/ \E c \in Codes : CloudChanges(c)
  BY <1>5, SamePairs DEF TimePasses, CloudChanges, memory, allVars, vars
<1>6. QED
  BY <1>1, <1>2, <1>3, <1>4, <1>5 DEF Next, Horizon

LEMMA ItemsInvariant == Spec => []ItemsWritten
<1>1. Init => ItemsWritten
  BY FreshItems DEF Init
<1>2. QED
  BY <1>1, StepItems, ListedInvariant, PTL DEF Spec

LEMMA PairInvariant ==
  ASSUME OneRequest, OneAlias
  PROVE  Spec => []PairInv
<1>1. Init => PairInv
  BY FreshPairs DEF Init
<1>2. QED
  BY <1>1, StepPairs, SeriesInvariant, ItemsInvariant, PTL DEF Spec

\* As long as requests come one at a time and the alias stays the same, a
\* response never sets the usage of one scrape against the limit of another,
\* though scrapes fill the cache and entries expire while it is put together.
THEOREM ResponsePairs ==
  ASSUME OneRequest, OneAlias
  PROVE  Spec => []ResponsePairsMatch
<1>1. PairInv => ResponsePairsMatch
  BY DEF PairInv, LimitsAreEmitted, PairsMatch, ResponsePairsMatch, OneRequest
<1>2. QED
  BY <1>1, PairInvariant, PTL

-----------------------------------------------------------------------------
(* The usage exported for a code never goes back                           *)

\* No result of the set has a usage of c that is newer than v.
NewestOf(W, c, v) == \A r \in Results : <<c, r>> \in W => r.current <= v
Newest(c, v) == NewestOf(written, c, v)

WrittenIsPast == \A c \in Codes : Newest(c, cloud[c])

MeasuredIsNewest ==
    \A s \in Scrapes, c \in Codes : worker[s][c].pc = "set" =>
        worker[s][c].current <= cloud[c] /\ Newest(c, worker[s][c].current)

CacheIsNewest == \A c \in DOMAIN cache \cap Codes : Newest(c, cache[c].object.current)

\* What a request has not exported yet is at least as new as the gauge.
ItemsAreAhead ==
    \A k \in Collectors : \A c \in DOMAIN collect[k].items \cap Codes :
        \A x \in Series : x.code = c => gaugeCurrent[x] <= collect[k].items[c].current

ExportedWasWritten ==
    \A x \in Series : x.code # NoCode /\ gaugeCurrent[x] # Absent =>
        \E r \in Results : <<x.code, r>> \in written /\ gaugeCurrent[x] = r.current

OrderInv == /\ WrittenIsPast /\ MeasuredIsNewest /\ CacheIsNewest
            /\ ItemsAreAhead /\ ExportedWasWritten

LEMMA Numbers ==
  /\ \A v \in Versions : v \in Nat /\ v # Absent /\ v > Absent
  /\ \A v \in GaugeValues : v \in Int
BY CodesAssumption DEF Versions, GaugeValues, Values, None, Absent

LEMMA FreshOrder == FreshMemory => OrderInv
BY DEF FreshMemory, NoWorkers, IdleWorker, NoSeries, NoCollects, IdleCollect, CollectState,
   CCache!EmptyCache, OrderInv, Newest, NewestOf, WrittenIsPast, MeasuredIsNewest,
   CacheIsNewest, ItemsAreAhead, ExportedWasWritten

LEMMA CrashOrder == ASSUME NEW f \in Faults, Crash(f) PROVE OrderInv'
<1>1. FreshMemory'
  BY CrashIsFresh
<1>2. QED
  BY <1>1, FreshOrder, PTL

LEMMA SameOrder ==
  ASSUME OrderInv, UNCHANGED <<cloud, worker, cache, gaugeCurrent, collect, written>>
  PROVE  OrderInv'
BY DEF OrderInv, Newest, WrittenIsPast, MeasuredIsNewest, CacheIsNewest, ItemsAreAhead,
   ExportedWasWritten

\* When scrapes do not overlap, a code has one goroutine at most.
LEMMA OneWorker ==
  ASSUME Combined, NEW s \in Scrapes, NEW t \in Scrapes, NEW c \in Codes, NEW d \in Codes,
         worker[s][c].pc # "none", worker[t][d].pc # "none"
  PROVE  s = t
<1>1. scrape[s].pc # "idle" /\ scrape[t].pc # "idle"
  BY DEF Combined, GroupInv, WorkersBelong, NoWorkersOf
<1>2. QED
  BY <1>1 DEF Combined, OneAtATime, OneInFlight, InFlight

LEMMA ScrapeOrder ==
  ASSUME TypeInv, OrderInv, NEW s \in Scrapes, ScrapeStep(s), ~(\E f \in Faults : Crash(f))
  PROVE  OrderInv'
<1>1. UNCHANGED <<cloud, cache, gaugeCurrent, collect, written>>
  BY ScrapeFrame
<1>2. \A x \in Scrapes, y \in Codes : worker'[x][y].pc = "set" => worker'[x][y] = worker[x][y]
  <2>1. ASSUME NEW c \in Codes, Spawn(s, c)
        PROVE  \A x \in Scrapes, y \in Codes :
                 worker'[x][y].pc = "set" => worker'[x][y] = worker[x][y]
    <3> DEFINE w == [pc |-> "call", limit |-> quotas[c], current |-> None]
    <3>1. worker' = [worker EXCEPT ![s][c] = w]
      BY <2>1 DEF Spawn, Faults
    <3>2. QED
      BY <3>1 DEF TypeInv, ScrapeInv, ScrapeOK
  <2>2. CASE ~(\E c \in Codes : Spawn(s, c))
    BY <2>2 DEF ScrapeStep, ListAccount, ListQuota, AssignQuota, EndList, Wait, WakeUp, Faults
  <2>3. QED
    BY <2>1, <2>2
<1>3. MeasuredIsNewest'
  BY <1>1, <1>2 DEF OrderInv, MeasuredIsNewest, Newest, NewestOf
<1>4. QED
  BY <1>1, <1>3
  DEF OrderInv, Newest, WrittenIsPast, CacheIsNewest, ItemsAreAhead, ExportedWasWritten

LEMMA WorkerOrder ==
  ASSUME Combined, OrderInv, NEW s \in Scrapes, NEW c \in Codes, WorkerStep(s, c),
         ~(\E f \in Faults : Crash(f))
  PROVE  OrderInv'
<1> USE DEF Combined
<1>1. /\ UNCHANGED <<cloud, gaugeCurrent, collect>>
      /\ \A x \in Scrapes, y \in Codes : x # s \/ y # c => worker'[x][y] = worker[x][y]
  BY WorkerFrame
<1>2. worker[s][c] \in WorkerStates /\ worker \in [Scrapes -> [Codes -> WorkerStates]]
  BY DEF TypeInv, ScrapeInv, ScrapeOK
<1>3. \A d \in Codes : cloud[d] \in Nat
  BY Numbers DEF TypeInv, MainOK
<1>4. CASE Measure(s, c)
  <2>1. /\ UNCHANGED <<cache, written>>
        /\ worker'[s][c].pc = "set" => worker'[s][c].current = cloud[c]
    <3>1. /\ UNCHANGED <<cache, written>>
          /\ \/ worker' = [worker EXCEPT ![s][c] = Skipped(worker[s][c])]
             \/ worker' = [worker EXCEPT ![s][c] = Measured(worker[s][c], cloud[c])]
      BY <1>4 DEF Measure, Skipped, Measured, SetWorker, Faults
    <3>2. Skipped(worker[s][c]).pc = "done" /\ Measured(worker[s][c], cloud[c]).current = cloud[c]
      BY <1>2 DEF Skipped, Measured, WorkerStates
    <3>3. QED
      BY <1>2, <3>1, <3>2
  <2>2. MeasuredIsNewest'
    BY <1>1, <1>3, <2>1 DEF OrderInv, WrittenIsPast, MeasuredIsNewest, Newest, NewestOf
  <2>3. QED
    BY <1>1, <2>1, <2>2
    DEF OrderInv, Newest, WrittenIsPast, CacheIsNewest, ItemsAreAhead, ExportedWasWritten
<1>5. CASE WorkerDone(s, c)
  <2>1. UNCHANGED <<cache, written>> /\ worker'[s][c].pc = "none"
    <3>1. UNCHANGED <<cache, written>> /\ worker' = [worker EXCEPT ![s][c] = IdleWorker]
      BY <1>5 DEF WorkerDone, SetWorker, Faults
    <3>2. QED
      BY <1>2, <3>1 DEF IdleWorker
  <2>2. MeasuredIsNewest'
    BY <1>1, <2>1 DEF OrderInv, MeasuredIsNewest, Newest, NewestOf
  <2>3. QED
    BY <1>1, <2>1, <2>2
    DEF OrderInv, Newest, WrittenIsPast, CacheIsNewest, ItemsAreAhead, ExportedWasWritten
<1>6. CASE CacheResult(s, c)
  <2> DEFINE key == KeyOf(s, c)
             r == ResultOf(s, c)
  <2>1. /\ worker[s][c].pc = "set" /\ r \in Results
        /\ written' = written \cup {<<key, r>>}
        /\ DOMAIN cache' = DOMAIN cache \cup {key}
        /\ cache'[key].object = r
        /\ \A x \in DOMAIN cache : x # key => cache'[x] = cache[x]
    BY <1>6, CacheResultEffect
  <2>2. /\ r.current = worker[s][c].current /\ r.current \in Nat
        /\ key \in {c, NoCode}
    BY <2>1, Numbers DEF ResultOf, KeyOf, CacheKey, Results
  <2>3. r.current <= cloud[c] /\ Newest(c, r.current)
    BY <2>1, <2>2 DEF OrderInv, MeasuredIsNewest
  <2>4. NewestOf(written', c, r.current) /\ NewestOf(written', c, cloud[c])
    BY <1>3, <2>1, <2>2, <2>3 DEF OrderInv, WrittenIsPast, Newest, NewestOf
  <2>5. \A d \in Codes : d # c => \A v : NewestOf(written, d, v) => NewestOf(written', d, v)
    BY <2>1, <2>2, CodesAssumption DEF NewestOf
  <2>7. WrittenIsPast'
    BY <1>1, <2>4, <2>5 DEF OrderInv, WrittenIsPast, Newest
  <2>8. MeasuredIsNewest'
    <3>1. worker'[s][c].pc = "done"
      BY <1>2, <1>6 DEF CacheResult, SetWorker, WorkerStates
    <3>2. ASSUME NEW x \in Scrapes, NEW y \in Codes, worker'[x][y].pc = "set"
          PROVE  y # c /\ worker'[x][y] = worker[x][y]
      <4>1. worker[x][y].pc = "set" /\ (x # s \/ y # c) /\ worker'[x][y] = worker[x][y]
        BY <1>1, <3>1, <3>2
      <4>2. x = s
        BY <2>1, <4>1, OneWorker
      <4>3. QED
        BY <4>1, <4>2
    <3>3. QED
      BY <1>1, <2>5, <3>2 DEF OrderInv, MeasuredIsNewest, Newest, NewestOf
  <2>9. CacheIsNewest'
    <3>1. ASSUME NEW d \in Codes, d \in DOMAIN cache'
          PROVE  NewestOf(written', d, cache'[d].object.current)
      <4>1. CASE d = key
        <5>1. d = c /\ cache'[d].object = r
          BY <2>1, <2>2, <4>1, CodesAssumption
        <5>2. QED
          BY <2>4, <5>1
      <4>2. CASE d # key
        <5>1. d \in DOMAIN cache /\ cache'[d] = cache[d]
          BY <2>1, <3>1, <4>2
        <5>2. NewestOf(written, d, cache[d].object.current)
          BY <5>1 DEF OrderInv, CacheIsNewest, Newest
        <5>3. QED
          BY <2>1, <4>2, <5>1, <5>2 DEF NewestOf
      <4>3. QED
        BY <4>1, <4>2
    <3>2. QED
      BY <3>1 DEF CacheIsNewest, Newest
  <2>10. QED
    <3>1. ItemsAreAhead' /\ ExportedWasWritten'
      BY <1>1, <2>1 DEF OrderInv, ItemsAreAhead, ExportedWasWritten
    <3>2. QED
      BY <2>7, <2>8, <2>9, <3>1 DEF OrderInv
<1>7. QED
  BY <1>4, <1>5, <1>6 DEF WorkerStep

\* A request exports its copy of the cache.
LEMMA RequestOrder ==
  ASSUME OneRequest, TypeInv, ItemsWritten, OrderInv, NEW k \in Collectors,
         BeginCollect(k) \/ CollectStep(k), ~(\E f \in Faults : Crash(f))
  PROVE  /\ OrderInv'
         /\ \A x \in Series :
              /\ gaugeCurrent[x] # Absent => gaugeCurrent'[x] # Absent
              /\ x.code # NoCode => gaugeCurrent'[x] >= gaugeCurrent[x]
<1>1. UNCHANGED <<cloud, worker, cache, written>>
  BY RequestFrame
<1>2. /\ collect = [j \in Collectors |-> collect[j]] /\ \A j \in Collectors : j = k
      /\ gaugeCurrent \in [Series -> GaugeValues] /\ IsCollectState(collect[k])
  BY DEF TypeInv, CollectInv, CollectOK, GaugeOK, OneRequest
<1>3. \A x \in Series : gaugeCurrent[x] \in Int
  BY <1>2, Numbers
<1>4. ASSUME NEW key \in Keys, SetCurrent(k, key)
      PROVE  /\ OrderInv'
             /\ \A x \in Series :
                  /\ gaugeCurrent[x] # Absent => gaugeCurrent'[x] # Absent
                  /\ x.code # NoCode => gaugeCurrent'[x] >= gaugeCurrent[x]
  <2> DEFINE items == collect[k].items
             at == LabelsOf(key)
  <2>1. /\ key \in DOMAIN items /\ collect'[k].items = items
        /\ gaugeCurrent' = [gaugeCurrent EXCEPT ![at] = items[key].current]
    <3>1. /\ key \in DOMAIN items
          /\ gaugeCurrent' = [gaugeCurrent EXCEPT ![at] = items[key].current]
          /\ collect' = [collect EXCEPT ![k] =
                           [pc |-> "limit", items |-> @.items, at |-> LabelsOf(key),
                            limits |-> @.limits]]
      BY <1>4 DEF SetCurrent, CollectState, Faults
    <3>2. QED
      BY <1>2, <3>1
  <2>2. at \in Series /\ at.code = key
    BY LabelsTyped DEF TypeInv, LabelsOf
  <2>3. /\ items[key] \in Results /\ items[key].current \in Versions
        /\ <<key, items[key]>> \in written
    BY <1>2, <2>1 DEF IsCollectState, IsPartialFunction, ItemsWritten, Results
  <2>4. /\ gaugeCurrent'[at] = items[key].current
        /\ \A x \in Series : x # at => gaugeCurrent'[x] = gaugeCurrent[x]
    BY <1>2, <2>1, <2>2
  <2>5. ExportedWasWritten'
    BY <1>1, <2>2, <2>3, <2>4 DEF OrderInv, ExportedWasWritten
  <2>6. ItemsAreAhead'
    <3>1. ASSUME NEW c \in DOMAIN items \cap Codes, NEW x \in Series, x.code = c
          PROVE  gaugeCurrent'[x] <= items[c].current
      <4>1. CASE x = at
        BY <2>2, <2>3, <2>4, <3>1, <4>1, Numbers
      <4>2. CASE x # at
        BY <2>4, <3>1, <4>2 DEF OrderInv, ItemsAreAhead
      <4>3. QED
        BY <4>1, <4>2
    <3>2. QED
      BY <1>2, <2>1, <3>1 DEF ItemsAreAhead
  <2>7. \A x \in Series :
          /\ gaugeCurrent[x] # Absent => gaugeCurrent'[x] # Absent
          /\ x.code # NoCode => gaugeCurrent'[x] >= gaugeCurrent[x]
    <3>1. key # NoCode => gaugeCurrent[at] <= items[key].current
      BY <2>1, <2>2 DEF OrderInv, ItemsAreAhead, Keys
    <3>2. QED
      BY <1>3, <2>2, <2>3, <2>4, <3>1, Numbers
  <2>8. QED
    BY <1>1, <2>5, <2>6, <2>7
    DEF OrderInv, Newest, WrittenIsPast, MeasuredIsNewest, CacheIsNewest
<1>5. CASE BeginCollect(k)
  <2>1. gaugeCurrent' = gaugeCurrent /\ collect'[k].items = CCache!Items(cache, now)
    BY <1>2, <1>5 DEF BeginCollect, CollectState
  <2>2. ItemsAreAhead'
    <3>1. ASSUME NEW c \in DOMAIN collect'[k].items \cap Codes, NEW x \in Series, x.code = c
          PROVE  gaugeCurrent[x] <= collect'[k].items[c].current
      <4>1. /\ c \in DOMAIN cache /\ collect'[k].items[c] = cache[c].object
            /\ cache[c].object.current \in Versions
        BY <2>1, <3>1
        DEF CCache!Items, CCache!Live, TypeInv, CacheOK, IsPartialFunction, CachedItems, Results
      <4>2. CASE gaugeCurrent[x] = Absent
        BY <4>1, <4>2, Numbers DEF Absent
      <4>3. CASE gaugeCurrent[x] # Absent
        BY <3>1, <4>1, <4>3, CodesAssumption
        DEF OrderInv, ExportedWasWritten, CacheIsNewest, Newest, NewestOf
      <4>4. QED
        BY <4>2, <4>3
    <3>2. QED
      BY <1>2, <2>1, <3>1 DEF ItemsAreAhead
  <2>3. QED
    BY <1>1, <1>3, <2>1, <2>2
    DEF OrderInv, Newest, WrittenIsPast, MeasuredIsNewest, CacheIsNewest, ExportedWasWritten
<1>6. CASE SetLimit(k) \/ EmitLimits(k) \/ EmitCurrents(k)
  <2>1. /\ gaugeCurrent' = gaugeCurrent
        /\ DOMAIN collect'[k].items \subseteq DOMAIN collect[k].items
        /\ \A c \in DOMAIN collect'[k].items : collect'[k].items[c] = collect[k].items[c]
    BY <1>2, <1>6
    DEF SetLimit, EmitLimits, EmitCurrents, IdleCollect, CollectState, CCache!EmptyCache
  <2>2. ItemsAreAhead'
    BY <1>2, <2>1 DEF OrderInv, ItemsAreAhead
  <2>3. QED
    BY <1>1, <1>3, <2>1, <2>2
    DEF OrderInv, Newest, WrittenIsPast, MeasuredIsNewest, CacheIsNewest, ExportedWasWritten
<1>7. QED
  BY <1>4, <1>5, <1>6 DEF CollectStep

LEMMA CloudOrder ==
  ASSUME TypeInv, OrderInv, NEW c \in Codes, CloudChanges(c) PROVE OrderInv'
<1>1. UNCHANGED <<worker, cache, gaugeCurrent, collect, written>>
  BY DEF CloudChanges, memory
<1>2. \A d \in Codes : cloud[d] \in Nat /\ cloud'[d] \in Nat /\ cloud[d] <= cloud'[d]
  <2>1. cloud \in [Codes -> Versions] /\ cloud' = [cloud EXCEPT ![c] = @ + 1]
    BY DEF CloudChanges, TypeInv, MainOK
  <2>2. QED
    BY <2>1, Numbers
<1>3. \A r \in Results : r.current \in Nat
  BY Numbers DEF Results
<1>4. WrittenIsPast'
  BY <1>1, <1>2, <1>3 DEF OrderInv, WrittenIsPast, Newest, NewestOf
<1>5. MeasuredIsNewest'
  <2>1. \A s \in Scrapes, d \in Codes : worker[s][d].pc = "set" => worker[s][d].current \in Nat
    BY Numbers DEF TypeInv, ScrapeInv, MeasuredUsage
  <2>2. QED
    BY <1>1, <1>2, <2>1 DEF OrderInv, MeasuredIsNewest, Newest, NewestOf
<1>6. QED
  BY <1>1, <1>4, <1>5 DEF OrderInv, Newest, CacheIsNewest, ItemsAreAhead, ExportedWasWritten

\* A step with the order it preserves.
Forward ==
    process' # "down" =>
        \A x \in Series :
            /\ gaugeCurrent[x] # Absent => gaugeCurrent'[x] # Absent
            /\ x.code # NoCode => gaugeCurrent'[x] >= gaugeCurrent[x]

LEMMA StepOrder ==
  ASSUME OneRequest
  PROVE  Combined /\ ItemsWritten /\ OrderInv /\ [Next]_allVars => OrderInv' /\ Forward
<1> SUFFICES ASSUME Combined, ItemsWritten, OrderInv, [Next]_allVars
             PROVE  OrderInv' /\ Forward
  OBVIOUS
<1> USE DEF Combined
<1>1. CASE \E f \in Faults : Crash(f)
  BY <1>1, CrashOrder, CrashIsFresh DEF Forward
<1>2. gaugeCurrent' = gaugeCurrent => Forward
  <2>1. \A x \in Series : gaugeCurrent[x] \in Int
    BY Numbers DEF TypeInv, GaugeOK
  <2>2. QED
    BY <2>1 DEF Forward
<1>3. CASE Scraping /\ ~(\E f \in Faults : Crash(f))
  <2>1. ASSUME Janitor PROVE OrderInv'
    BY <2>1, JanitorEffect
    DEF Janitor, OrderInv, Newest, WrittenIsPast, MeasuredIsNewest, CacheIsNewest,
        ItemsAreAhead, ExportedWasWritten, environment
  <2>2. ASSUME ReleaseWaiters PROVE OrderInv'
    BY <2>2, SameOrder DEF ReleaseWaiters, environment
  <2>3. gaugeCurrent' = gaugeCurrent
    BY <1>3, ScrapeFrame, WorkerFrame DEF Scraping, ReleaseWaiters, Janitor
  <2>4. QED
    BY <1>2, <1>3, <2>1, <2>2, <2>3, ScrapeOrder, WorkerOrder DEF Scraping
<1>4. CASE Serving /\ ~(\E f \in Faults : Crash(f))
  BY <1>4, RequestOrder DEF Serving, Forward
<1>5. CASE Start \/ Serve \/ Tick \/ EndScrape
  BY <1>2, <1>5, SameOrder DEF Start, Serve, Tick, EndScrape, environment
<1>6. CASE TimePasses \/ UNCHANGED allVars
  BY <1>2, <1>6, SameOrder DEF TimePasses, memory, allVars, vars, environment
<1>7. CASE \E c \in Codes : CloudChanges(c)
  BY <1>2, <1>7, CloudOrder DEF CloudChanges, memory
<1>8. QED
  BY <1>1, <1>3, <1>4, <1>5, <1>6, <1>7 DEF Next, Horizon

LEMMA OrderInvariant ==
  ASSUME OneRequest, ~SlowScrapes
  PROVE  Spec => [](Combined /\ ItemsWritten /\ OrderInv)
<1>1. Init => OrderInv
  BY FreshOrder DEF Init
<1>2. QED
  BY <1>1, StepOrder, OneAtATimeInvariant, ItemsInvariant, PTL DEF Spec

\* When scrapes do not overlap and requests come one at a time, no step of a
\* living process takes a usage back to an older measurement or drops a series:
\* neither an expiry, the janitor, nor a scrape during the request.
THEOREM UsageGoesForward ==
  ASSUME OneRequest, ~SlowScrapes
  PROVE  Spec => UsageNeverRegresses
<1>1. Combined /\ ItemsWritten /\ OrderInv /\ [Next]_allVars => [Forward]_allVars
  BY StepOrder
<1>2. Spec => [][Forward]_allVars
  BY <1>1, OrderInvariant, PTL DEF Spec
<1>3. QED
  BY <1>2 DEF Forward, UsageNeverRegresses

-----------------------------------------------------------------------------
(* From the second scrape on, what every scrape measures is in the cache    *)

\* Entries outlive the longest way to the next measurement of their code: from
\* the start of one scrape to the last instant of the next.
LongExpiration == Expiration <= 0 \/ Expiration >= 2 * ScrapingDuration - 1

\* Scrape s has still to cache a result of code c.
PendingIn(s, c) ==
    \/ scrape[s].pc \in {"account", "list", "assign"}
    \/ scrape[s].pc = "spawn" /\ c \in scrape[s].todo
    \/ worker[s][c].pc \in {"call", "set"}

Pending(c) == \E s \in Scrapes : PendingIn(s, c)

NeverCached(c) == \A r \in Results : <<c, r>> \notin written

OneUsage(c) ==
    \A q, r \in Results : <<c, q>> \in written /\ <<c, r>> \in written => q.current = r.current

DeadForgets == process = "down" => written = {}

\* A code that was cached once has a quota, and is measured, in later scrapes.
CachedHaveQuota ==
    \A c \in Codes : NeverCached(c) \/
        /\ quotas[c] # None
        /\ \A s \in Scrapes : worker[s][c].pc \in {"call", "set"} => worker[s][c].limit # None

HdlIsMeasured ==
    \A c \in HdlCodes : account \in HdlAliases \/
        /\ NeverCached(c)
        /\ \A s \in Scrapes : worker[s][c].pc # "set"

AgainInv == DeadForgets /\ CachedHaveQuota /\ HdlIsMeasured

LEMMA CrashAgain == ASSUME NEW f \in Faults, Crash(f) PROVE AgainInv'
<1>1. written' = {} /\ worker' = NoWorkers
  BY DEF Crash
<1>2. \A t \in Scrapes, d \in Codes : worker'[t][d].pc = "none"
  BY <1>1 DEF NoWorkers, IdleWorker
<1>3. QED
  BY <1>1, <1>2, CodesAssumption
  DEF AgainInv, DeadForgets, CachedHaveQuota, HdlIsMeasured, NeverCached

LEMMA SameAgain ==
  ASSUME AgainInv, UNCHANGED <<quotas, account, worker, written>>,
         process' = "down" => process = "down"
  PROVE  AgainInv'
BY DEF AgainInv, DeadForgets, CachedHaveQuota, HdlIsMeasured, NeverCached

LEMMA ScrapeAgain ==
  ASSUME OneAlias, TypeInv, ListedInv, AgainInv, process # "down", NEW s \in Scrapes,
         ScrapeStep(s), ~(\E f \in Faults : Crash(f))
  PROVE  AgainInv'
<1>1. UNCHANGED <<process, written>>
  BY ScrapeFrame
<1>2. CASE ListAccount(s)
  <2>1. /\ UNCHANGED <<quotas, worker>>
        /\ account' = account \/ account' \in AliasReplies
    BY <1>2 DEF ListAccount, Faults
  <2>2. account \in HdlAliases => account' = account
    BY <2>1, CodesAssumption DEF OneAlias
  <2>3. QED
    BY <1>1, <2>1, <2>2, CodesAssumption
    DEF AgainInv, DeadForgets, CachedHaveQuota, HdlIsMeasured, NeverCached
<1>3. CASE AssignQuota(s)
  <2>1. UNCHANGED <<account, worker>>
    BY <1>3 DEF AssignQuota
  <2>2. \A c \in Codes : quotas[c] # None => quotas'[c] # None
    BY <1>3, QuotasStay DEF ListedInv
  <2>3. QED
    BY <1>1, <2>1, <2>2
    DEF AgainInv, DeadForgets, CachedHaveQuota, HdlIsMeasured, NeverCached
<1>4. ASSUME NEW c \in Codes, Spawn(s, c) PROVE AgainInv'
  <2> DEFINE w == [pc |-> "call", limit |-> quotas[c], current |-> None]
  <2>1. UNCHANGED <<account, quotas>> /\ worker' = [worker EXCEPT ![s][c] = w]
    BY <1>4 DEF Spawn, Faults
  <2>2. \A x \in Scrapes, y \in Codes :
          worker'[x][y] = IF x = s /\ y = c THEN w ELSE worker[x][y]
    BY <2>1 DEF TypeInv, ScrapeInv, ScrapeOK
  <2>3. QED
    BY <1>1, <2>1, <2>2, CodesAssumption
    DEF AgainInv, DeadForgets, CachedHaveQuota, HdlIsMeasured, NeverCached
<1>5. CASE EndList(s) \/ Wait(s) \/ WakeUp(s) \/ \E c \in Codes : ListQuota(s, c)
  <2>1. UNCHANGED <<quotas, account, worker>>
    BY <1>5 DEF EndList, Wait, WakeUp, ListQuota, Faults
  <2>2. QED
    BY <1>1, <2>1, SameAgain
<1>6. QED
  BY <1>2, <1>3, <1>4, <1>5 DEF ScrapeStep

\* How a goroutine moves on.
LEMMA MeasureEffect ==
  ASSUME TypeInv, NEW s \in Scrapes, NEW c \in Codes, Measure(s, c),
         ~(\E f \in Faults : Crash(f))
  PROVE  /\ worker[s][c].pc = "call" /\ UNCHANGED <<cache, written>>
         /\ worker'[s][c].limit = worker[s][c].limit
         /\ \/ worker'[s][c].pc = "set" /\ (c \in HdlCodes => account \in HdlAliases)
            \/ /\ worker'[s][c].pc = "done"
               /\ c \in TolerantCodes \/ (c \in HdlCodes /\ account \notin HdlAliases)
<1>1. worker[s][c] \in WorkerStates /\ worker \in [Scrapes -> [Codes -> WorkerStates]]
  BY DEF TypeInv, ScrapeInv, ScrapeOK
<1>2. /\ worker[s][c].pc = "call" /\ UNCHANGED <<cache, written>>
      /\ \/ /\ worker' = [worker EXCEPT ![s][c] = Skipped(worker[s][c])]
            /\ c \in TolerantCodes \/ (c \in HdlCodes /\ account \notin HdlAliases)
         \/ /\ worker' = [worker EXCEPT ![s][c] = Measured(worker[s][c], cloud[c])]
            /\ c \in HdlCodes => account \in HdlAliases
  BY DEF Measure, Skipped, Measured, SetWorker, Faults
<1>3. /\ Skipped(worker[s][c]).pc = "done" /\ Measured(worker[s][c], cloud[c]).pc = "set"
      /\ Skipped(worker[s][c]).limit = worker[s][c].limit
      /\ Measured(worker[s][c], cloud[c]).limit = worker[s][c].limit
  BY <1>1 DEF Skipped, Measured, WorkerStates
<1>4. QED
  BY <1>1, <1>2, <1>3

LEMMA WorkerDoneEffect ==
  ASSUME TypeInv, NEW s \in Scrapes, NEW c \in Codes, WorkerDone(s, c),
         ~(\E f \in Faults : Crash(f))
  PROVE  /\ worker[s][c].pc = "done" /\ UNCHANGED <<cache, written>>
         /\ worker'[s][c].pc = "none"
<1>1. worker \in [Scrapes -> [Codes -> WorkerStates]]
  BY DEF TypeInv, ScrapeInv, ScrapeOK
<1>2. /\ worker[s][c].pc = "done" /\ UNCHANGED <<cache, written>>
      /\ worker' = [worker EXCEPT ![s][c] = IdleWorker]
  BY DEF WorkerDone, SetWorker, Faults
<1>3. QED
  BY <1>1, <1>2 DEF IdleWorker

LEMMA WorkerAgain ==
  ASSUME Combined, ListedInv, AgainInv, process # "down", NEW s \in Scrapes, NEW c \in Codes,
         WorkerStep(s, c), ~(\E f \in Faults : Crash(f))
  PROVE  AgainInv'
<1> USE DEF Combined
<1>1. /\ UNCHANGED <<process, account, quotas>>
      /\ \A x \in Scrapes, y \in Codes : x # s \/ y # c => worker'[x][y] = worker[x][y]
  BY WorkerFrame
<1>2. CASE Measure(s, c)
  BY <1>1, <1>2, MeasureEffect, CodesAssumption
  DEF AgainInv, DeadForgets, CachedHaveQuota, HdlIsMeasured, NeverCached
<1>3. CASE WorkerDone(s, c)
  BY <1>1, <1>3, WorkerDoneEffect, CodesAssumption
  DEF AgainInv, DeadForgets, CachedHaveQuota, HdlIsMeasured, NeverCached
<1>4. CASE CacheResult(s, c)
  <2> DEFINE key == KeyOf(s, c)
  <2>1. /\ worker[s][c].pc = "set" /\ worker'[s][c].pc = "done"
        /\ written' = written \cup {<<key, ResultOf(s, c)>>}
        /\ key \in {c, NoCode} /\ (key = c => worker[s][c].limit # None)
    <3>1. worker'[s][c].pc = "done"
      BY <1>4 DEF CacheResult, SetWorker, TypeInv, ScrapeInv, ScrapeOK, WorkerStates
    <3>2. key \in {c, NoCode} /\ (key = c => worker[s][c].limit # None)
      BY CodesAssumption DEF KeyOf, CacheKey
    <3>3. QED
      BY <1>4, <3>1, <3>2, CacheResultEffect
  <2>2. \A d \in Codes : d # key /\ NeverCached(d) => NeverCached(d)'
    BY <2>1 DEF NeverCached
  <2>3. \A t \in Scrapes : worker'[t][c].pc \notin {"call", "set"}
    BY <1>1, <2>1, OneWorker
  <2>4. CachedHaveQuota'
    <3>1. key = c => quotas[c] # None
      BY <2>1 DEF ListedInv, WorkersKnowTheirQuota
    <3>2. QED
      BY <1>1, <2>1, <2>2, <2>3, <3>1, CodesAssumption DEF AgainInv, CachedHaveQuota
  <2>5. HdlIsMeasured'
    <3>1. c \in HdlCodes => account \in HdlAliases
      BY <2>1 DEF AgainInv, HdlIsMeasured
    <3>2. QED
      BY <1>1, <2>1, <2>2, <3>1, CodesAssumption DEF AgainInv, HdlIsMeasured
  <2>6. QED
    BY <1>1, <2>4, <2>5 DEF AgainInv, DeadForgets
<1>5. QED
  BY <1>2, <1>3, <1>4 DEF WorkerStep

LEMMA StepAgain ==
  ASSUME OneAlias
  PROVE  Combined /\ ListedInv /\ AgainInv /\ [Next]_allVars => AgainInv'
<1> SUFFICES ASSUME Combined, ListedInv, AgainInv, [Next]_allVars PROVE AgainInv'
  OBVIOUS
<1> USE DEF Combined
<1>1. CASE \E f \in Faults : Crash(f)
  BY <1>1, CrashAgain
<1>2. CASE Scraping /\ ~(\E f \in Faults : Crash(f))
  BY <1>2, ScrapeAgain, WorkerAgain, SameAgain DEF Scraping, ReleaseWaiters, Janitor
<1>3. CASE Serving /\ ~(\E f \in Faults : Crash(f))
  BY <1>3, RequestFrame, SameAgain DEF Serving
<1>4. CASE Start \/ Serve \/ Tick \/ EndScrape
  BY <1>4, SameAgain DEF Start, Serve, Tick, EndScrape
<1>5. CASE TimePasses \/ UNCHANGED allVars \/ \E c \in Codes : CloudChanges(c)
  BY <1>5, SameAgain DEF TimePasses, CloudChanges, memory, allVars, vars
<1>6. QED
  BY <1>1, <1>2, <1>3, <1>4, <1>5 DEF Next, Horizon

\* When the entry of a code is needed for the last time: before the next tick
\* if the scrape in flight is still to measure the code, else one period later.
Deadline(c) == IF Pending(c) THEN nextTick - 1 ELSE nextTick + ScrapingDuration - 1

OnTime(c) ==
    c \in DOMAIN cache /\ (cache[c].expiration = 0 \/ cache[c].expiration >= Deadline(c))

ClockInv == process = "serving" => now <= nextTick /\ nextTick <= now + ScrapingDuration

\* The first scrape caches a code once.  (It may take longer than an expiration.)
BootInv ==
    process = "boot" => \A c \in Codes : OneUsage(c) /\ (Pending(c) => NeverCached(c))

EntriesOnTime ==
    process = "serving" => \A c \in Codes \ TolerantCodes : OnTime(c) \/ OneUsage(c)

TimeInv == ClockInv /\ BootInv /\ EntriesOnTime

LEMMA NotTimed == ASSUME process = "down" PROVE TimeInv
BY DEF TimeInv, ClockInv, BootInv, EntriesOnTime

LEMMA CrashTime == ASSUME NEW f \in Faults, Crash(f) PROVE TimeInv'
<1>1. (process = "down")'
  BY DEF Crash
<1>2. QED
  BY <1>1, NotTimed, PTL

LEMMA SameTime ==
  ASSUME TimeInv, UNCHANGED <<process, now, nextTick, cache, written>>,
         \A c \in Codes : Pending(c)' <=> Pending(c)
  PROVE  TimeInv'
BY DEF TimeInv, ClockInv, BootInv, EntriesOnTime, OneUsage, NeverCached, OnTime, Deadline

\* Until the result of a code is cached, its scrape is on the way to it.
LEMMA ScrapePending ==
  ASSUME TypeInv, NEW s \in Scrapes, ScrapeStep(s), ~(\E f \in Faults : Crash(f)),
         NEW d \in Codes
  PROVE  Pending(d)' <=> Pending(d)
<1>1. \A x \in Scrapes : x # s => scrape'[x] = scrape[x]
  BY ScrapeFrame
<1>2. /\ scrape \in [Scrapes -> ScrapeStates] /\ scrape[s] \in ScrapeStates
      /\ worker \in [Scrapes -> [Codes -> WorkerStates]]
  BY DEF TypeInv, ScrapeInv, ScrapeOK
<1>3. (\A x \in Scrapes : PendingIn(x, d)' <=> PendingIn(x, d)) => (Pending(d)' <=> Pending(d))
  BY DEF Pending
<1>4. CASE ListAccount(s) \/ AssignQuota(s) \/ EndList(s)
  <2>1. /\ worker' = worker /\ scrape[s].pc \in {"account", "assign", "list"}
        /\ \/ scrape'[s].pc = "list"
           \/ scrape'[s].pc = "spawn" /\ scrape'[s].todo = Codes
    <3>1. /\ worker' = worker /\ scrape[s].pc \in {"account", "assign", "list"}
          /\ \/ scrape' = [scrape EXCEPT ![s] = [pc |-> "list", todo |-> Codes]]
             \/ scrape' = [scrape EXCEPT ![s].pc = "list"]
             \/ scrape' = [scrape EXCEPT ![s] = [pc |-> "spawn", todo |-> Codes]]
      BY <1>4 DEF ListAccount, AssignQuota, EndList, Faults
    <3>2. QED
      BY <1>2, <3>1 DEF ScrapeStates
  <2>2. QED
    BY <1>1, <1>3, <2>1 DEF PendingIn
<1>5. ASSUME NEW c \in Codes, ListQuota(s, c) PROVE Pending(d)' <=> Pending(d)
  <2>1. worker' = worker /\ scrape[s].pc = "list" /\ scrape'[s].pc \in {"list", "assign"}
    <3>1. /\ worker' = worker /\ scrape[s].pc = "list"
          /\ \/ scrape' = [scrape EXCEPT ![s].todo = @ \ {c}]
             \/ scrape' = [scrape EXCEPT ![s] = [pc |-> "assign", todo |-> @.todo \ {c}]]
      BY <1>5 DEF ListQuota, Faults
    <3>2. QED
      BY <1>2, <3>1 DEF ScrapeStates
  <2>2. QED
    BY <1>1, <1>3, <2>1 DEF PendingIn
<1>6. ASSUME NEW c \in Codes, Spawn(s, c) PROVE Pending(d)' <=> Pending(d)
  <2> DEFINE w == [pc |-> "call", limit |-> quotas[c], current |-> None]
  <2>1. /\ scrape[s].pc = "spawn" /\ scrape'[s].pc = "spawn"
        /\ c \in scrape[s].todo /\ scrape'[s].todo = scrape[s].todo \ {c}
        /\ worker' = [worker EXCEPT ![s][c] = w]
    <3>1. /\ scrape[s].pc = "spawn" /\ scrape' = [scrape EXCEPT ![s].todo = @ \ {c}]
          /\ c \in scrape[s].todo /\ worker' = [worker EXCEPT ![s][c] = w]
      BY <1>6 DEF Spawn, Faults
    <3>2. QED
      BY <1>2, <3>1 DEF ScrapeStates
  <2>2. \A x \in Scrapes, y \in Codes :
          worker'[x][y] = IF x = s /\ y = c THEN w ELSE worker[x][y]
    BY <1>2, <2>1
  <2>3. \A x \in Scrapes : PendingIn(x, d)' <=> PendingIn(x, d)
    BY <1>1, <2>1, <2>2 DEF PendingIn
  <2>4. QED
    BY <1>3, <2>3
<1>7. CASE Wait(s) \/ WakeUp(s)
  <2>1. /\ worker' = worker /\ scrape'[s].pc \in {"wait", "ended"}
        /\ scrape[s].pc = "wait" \/ (scrape[s].pc = "spawn" /\ scrape[s].todo = {})
    <3>1. /\ worker' = worker
          /\ scrape[s].pc = "wait" \/ (scrape[s].pc = "spawn" /\ scrape[s].todo = {})
          /\ \/ scrape' = [scrape EXCEPT ![s].pc = "wait"]
             \/ scrape' = [scrape EXCEPT ![s].pc = "ended"]
      BY <1>7 DEF Wait, WakeUp, Faults
    <3>2. QED
      BY <1>2, <3>1 DEF ScrapeStates
  <2>2. QED
    BY <1>1, <1>3, <2>1 DEF PendingIn
<1>8. QED
  BY <1>4, <1>5, <1>6, <1>7 DEF ScrapeStep

\* The goroutines of other codes do not matter to a code.
LEMMA WorkerPending ==
  ASSUME TypeInv, NEW s \in Scrapes, NEW c \in Codes, WorkerStep(s, c),
         ~(\E f \in Faults : Crash(f)), NEW d \in Codes,
         \/ d # c
         \/ worker'[s][c].pc \in {"call", "set"} <=> worker[s][c].pc \in {"call", "set"}
  PROVE  Pending(d)' <=> Pending(d)
<1>1. /\ scrape' = scrape
      /\ \A x \in Scrapes, y \in Codes : x # s \/ y # c => worker'[x][y] = worker[x][y]
  BY WorkerFrame
<1>2. \A x \in Scrapes : PendingIn(x, d)' <=> PendingIn(x, d)
  BY <1>1 DEF PendingIn
<1>3. QED
  BY <1>2 DEF Pending

\* The arithmetic of the clock.
LEMMA Clock ==
  ASSUME TypeInv
  PROVE  /\ now \in Int /\ nextTick \in Int /\ Expiration \in Int
         /\ ScrapingDuration \in Int /\ ScrapingDuration >= 1
<1>1. now \in Nat /\ nextTick \in Nat
  BY DEF TypeInv, MainOK
<1>2. ScrapingDuration \in Nat \ {0} /\ Expiration \in Int
  BY TimeAssumption, CodesAssumption
<1>3. QED
  BY <1>1, <1>2

\* A goroutine whose scrape is in flight runs before the next tick.
LEMMA InFlightBeforeTick ==
  ASSUME Combined, TimeInv, process = "serving", InFlight # {}
  PROVE  now <= nextTick - 1
BY Clock DEF Combined, OneAtATime, TickFindsNone, TimeInv, ClockInv

\* Nor is anything pending when no scrape is in flight.
LEMMA PendingInFlight ==
  ASSUME Combined, NEW c \in Codes, Pending(c) PROVE InFlight # {}
<1>1. PICK s \in Scrapes : PendingIn(s, c)
  BY DEF Pending
<1>2. scrape[s].pc # "idle"
  BY <1>1 DEF PendingIn, Combined, GroupInv, WorkersBelong, NoWorkersOf
<1>3. QED
  BY <1>2 DEF InFlight

\* An entry that is on time is live.
LEMMA OnTimeIsLive ==
  ASSUME Combined, TimeInv, process = "serving", NEW c \in Codes, OnTime(c)
  PROVE  c \in CCache!Live(cache, now)
<1>1. now <= nextTick
  BY DEF TimeInv, ClockInv
<1>2. Pending(c) => now <= nextTick - 1
  BY PendingInFlight, InFlightBeforeTick
<1>3. now <= Deadline(c)
  BY <1>1, <1>2, Clock DEF Deadline, Combined
<1>4. cache[c].expiration \in Int /\ Deadline(c) \in Int /\ now \in Int
  BY Clock DEF Combined, OnTime, TypeInv, CacheOK, IsPartialFunction, CachedItems, Deadline
<1>5. ~CCache!Expired(cache[c], now)
  BY <1>3, <1>4 DEF OnTime, CCache!Expired
<1>6. QED
  BY <1>5 DEF OnTime, CCache!Live

LEMMA JanitorTime ==
  ASSUME Combined, TimeInv, Janitor, nextTick' = nextTick PROVE TimeInv'
<1>1. /\ UNCHANGED <<process, now, nextTick, written, scrape, worker>>
      /\ cache' = CCache!DeleteExpired(cache, now)
  BY DEF Janitor, environment
<1>2. \A c \in Codes : Pending(c)' <=> Pending(c)
  BY <1>1 DEF Pending, PendingIn
<1>3. ASSUME process = "serving", NEW c \in Codes, OnTime(c) PROVE OnTime(c)'
  <2>1. c \in DOMAIN cache' /\ cache'[c] = cache[c]
    BY <1>1, <1>3, OnTimeIsLive DEF CCache!DeleteExpired
  <2>2. Deadline(c)' = Deadline(c)
    BY <1>1, <1>2 DEF Deadline
  <2>3. QED
    BY <1>3, <2>1, <2>2 DEF OnTime
<1>4. ClockInv' /\ BootInv'
  BY <1>1, <1>2 DEF TimeInv, ClockInv, BootInv, OneUsage, NeverCached
<1>5. EntriesOnTime'
  BY <1>1, <1>3 DEF TimeInv, EntriesOnTime, OneUsage
<1>6. QED
  BY <1>4, <1>5 DEF TimeInv

\* The expiration that Set gives an entry.
LEMMA CacheResultExpiration ==
  ASSUME TypeInv, NEW s \in Scrapes, NEW c \in Codes, CacheResult(s, c)
  PROVE  cache'[KeyOf(s, c)].expiration = IF Expiration > 0 THEN now + Expiration ELSE 0
<1>1. cache' = CCache!Set(cache, KeyOf(s, c), ResultOf(s, c), now, Expiration)
  BY DEF CacheResult, KeyOf, ResultOf
<1>2. cache'[KeyOf(s, c)].expiration =
        IF CCache!DefaultExpiration(Expiration) > 0 THEN now + Expiration ELSE 0
  BY <1>1 DEF CCache!Set
<1>3. QED
  BY <1>2, Clock DEF CCache!DefaultExpiration

\* A result that is cached makes the entry of its code on time until the scrape
\* after the next tick has cached the next one.
LEMMA CacheResultTime ==
  ASSUME LongExpiration, Combined, AgainInv, TimeInv,
         NEW s \in Scrapes, NEW c \in Codes, CacheResult(s, c), nextTick' = nextTick,
         ~(\E f \in Faults : Crash(f))
  PROVE  TimeInv'
<1> USE DEF Combined
<1> DEFINE key == KeyOf(s, c)
<1>1. /\ worker[s][c].pc = "set" /\ ResultOf(s, c) \in Results
      /\ written' = written \cup {<<key, ResultOf(s, c)>>}
      /\ DOMAIN cache' = DOMAIN cache \cup {key}
      /\ \A x \in DOMAIN cache : x # key => cache'[x] = cache[x]
  BY CacheResultEffect
<1>2. /\ key \in {c, NoCode} /\ NoCode \notin Codes
      /\ key = NoCode => worker[s][c].limit = None
  BY CodesAssumption DEF KeyOf, CacheKey
<1>3. /\ UNCHANGED <<process, now, nextTick, scrape>>
      /\ \A x \in Scrapes, y \in Codes : x # s \/ y # c => worker'[x][y] = worker[x][y]
  BY WorkerFrame DEF WorkerStep
<1>4. worker'[s][c].pc = "done"
  BY <1>1 DEF CacheResult, SetWorker, TypeInv, ScrapeInv, ScrapeOK, WorkerStates
<1>5. Pending(c) /\ ~Pending(c)'
  <2>1. /\ PendingIn(s, c) /\ scrape[s].pc \in {"spawn", "wait"}
        /\ scrape[s].pc = "spawn" => c \notin scrape[s].todo
    BY <1>1 DEF PendingIn, GroupInv, WorkersBelong, NoWorkersOf
  <2>2. ASSUME NEW x \in Scrapes, x # s PROVE ~PendingIn(x, c)
    <3>1. scrape[x].pc = "idle"
      BY <2>1, <2>2 DEF OneAtATime, OneInFlight, InFlight
    <3>2. QED
      BY <3>1 DEF PendingIn, GroupInv, WorkersBelong, NoWorkersOf
  <2>3. \A x \in Scrapes : ~PendingIn(x, c)'
    BY <1>3, <1>4, <2>1, <2>2 DEF PendingIn
  <2>4. QED
    BY <2>1, <2>3 DEF Pending
<1>6. \A d \in Codes : d # c => (Pending(d)' <=> Pending(d))
  BY WorkerPending DEF WorkerStep
<1>7. \A d \in Codes : d # key => (NeverCached(d)' <=> NeverCached(d))
                             /\ (OneUsage(d)' <=> OneUsage(d))
  BY <1>1 DEF NeverCached, OneUsage
<1>8. key = NoCode => NeverCached(c)
  BY <1>1, <1>2 DEF AgainInv, CachedHaveQuota
<1>9. NeverCached(c) => OneUsage(c)'
  BY <1>1 DEF NeverCached, OneUsage
<1>10. ClockInv'
  BY <1>3 DEF TimeInv, ClockInv
<1>11. BootInv'
  BY <1>2, <1>3, <1>5, <1>6, <1>7, <1>9 DEF TimeInv, BootInv
<1>12. EntriesOnTime'
  <2>1. ASSUME process = "serving", NEW d \in Codes \ TolerantCodes, d # c
        PROVE  OnTime(d)' \/ OneUsage(d)'
    <3>1. OnTime(d) => OnTime(d)'
      <4>1. d \in DOMAIN cache => d \in DOMAIN cache' /\ cache'[d] = cache[d]
        BY <1>1, <1>2, <2>1
      <4>2. Deadline(d)' = Deadline(d)
        BY <1>3, <1>6, <2>1 DEF Deadline
      <4>3. QED
        BY <4>1, <4>2 DEF OnTime
    <3>2. QED
      BY <1>2, <1>7, <2>1, <3>1 DEF TimeInv, EntriesOnTime
  <2>2. ASSUME process = "serving", key = c PROVE OnTime(c)'
    <3>1. /\ c \in DOMAIN cache'
          /\ cache'[c].expiration = IF Expiration > 0 THEN now + Expiration ELSE 0
      BY <1>1, <2>2, CacheResultExpiration
    <3>2. Deadline(c)' = nextTick + ScrapingDuration - 1
      BY <1>3, <1>5 DEF Deadline
    <3>3. nextTick <= now + ScrapingDuration
      BY <2>2 DEF TimeInv, ClockInv
    <3>4. \/ cache'[c].expiration = 0
          \/ cache'[c].expiration >= nextTick + ScrapingDuration - 1
      BY <3>1, <3>3, Clock DEF LongExpiration
    <3>5. QED
      BY <3>1, <3>2, <3>4 DEF OnTime
  <2>3. QED
    BY <1>2, <1>3, <1>8, <1>9, <2>1, <2>2 DEF EntriesOnTime
<1>13. QED
  BY <1>10, <1>11, <1>12 DEF TimeInv

\* A goroutine that ends without a result is of a code that may fail, or of one
\* that is not measured in this account.
LEMMA WorkerTime ==
  ASSUME LongExpiration, Combined, AgainInv, TimeInv,
         NEW s \in Scrapes, NEW c \in Codes, WorkerStep(s, c), nextTick' = nextTick,
         ~(\E f \in Faults : Crash(f))
  PROVE  TimeInv'
<1> USE DEF Combined
<1>1. UNCHANGED <<process, now, nextTick>>
  BY WorkerFrame
<1>2. CASE CacheResult(s, c)
  BY <1>2, CacheResultTime
<1>3. CASE WorkerDone(s, c)
  <2>1. /\ UNCHANGED <<cache, written>>
        /\ worker'[s][c].pc \in {"call", "set"} <=> worker[s][c].pc \in {"call", "set"}
    BY <1>3, WorkerDoneEffect
  <2>2. QED
    BY <1>1, <2>1, WorkerPending, SameTime
<1>4. CASE Measure(s, c)
  <2>1. /\ worker[s][c].pc = "call" /\ UNCHANGED <<cache, written>>
        /\ \/ worker'[s][c].pc = "set"
           \/ /\ worker'[s][c].pc = "done"
              /\ c \in TolerantCodes \/ (c \in HdlCodes /\ account \notin HdlAliases)
    BY <1>4, MeasureEffect
  <2>2. CASE worker'[s][c].pc = "set"
    BY <1>1, <2>1, <2>2, WorkerPending, SameTime
  <2>3. CASE worker'[s][c].pc = "done"
    <3>1. c \in TolerantCodes \/ NeverCached(c)
      BY <2>1, <2>3 DEF AgainInv, HdlIsMeasured
    <3>2. NeverCached(c) => OneUsage(c)
      BY DEF NeverCached, OneUsage
    <3>3. \A d \in Codes : d # c => (Pending(d)' <=> Pending(d))
      BY WorkerPending
    <3>4. Pending(c)
      BY <2>1 DEF Pending, PendingIn
    <3>5. ClockInv' /\ BootInv'
      BY <1>1, <2>1, <3>3, <3>4 DEF TimeInv, ClockInv, BootInv, OneUsage, NeverCached
    <3>6. EntriesOnTime'
      BY <1>1, <2>1, <3>1, <3>2, <3>3
      DEF TimeInv, EntriesOnTime, OneUsage, OnTime, Deadline
    <3>7. QED
      BY <3>5, <3>6 DEF TimeInv
  <2>4. QED
    BY <2>1, <2>2, <2>3
<1>5. QED
  BY <1>2, <1>3, <1>4 DEF WorkerStep

\* A new scrape is to measure every code, one that returns has none left.
LEMMA MainTime ==
  ASSUME Combined, AgainInv, TimeInv, Start \/ Serve \/ Tick \/ EndScrape
  PROVE  TimeInv'
<1> USE DEF Combined
<1>1. ASSUME Start PROVE TimeInv'
  <2>1. process = "down" /\ process' = "boot" /\ written' = written
    BY <1>1 DEF Start
  <2>2. written = {}
    BY <2>1 DEF AgainInv, DeadForgets
  <2>3. QED
    BY <2>1, <2>2 DEF TimeInv, ClockInv, BootInv, EntriesOnTime, OneUsage, NeverCached
<1>2. ASSUME Serve PROVE TimeInv'
  <2>1. /\ process = "boot" /\ process' = "serving" /\ nextTick' = now + ScrapingDuration
        /\ UNCHANGED <<now, written>>
    BY <1>2 DEF Serve, environment
  <2>2. ClockInv'
    BY <2>1, Clock DEF ClockInv
  <2>3. QED
    BY <2>1, <2>2 DEF TimeInv, BootInv, EntriesOnTime, OneUsage
<1>3. ASSUME Tick PROVE TimeInv'
  <2>1. /\ process = "serving" /\ process' = "serving" /\ now = nextTick
        /\ nextTick' = now + ScrapingDuration /\ UNCHANGED <<now, written, cache, worker>>
        /\ \E s \in Scrapes : BeginScrape(s)
    BY <1>3 DEF Tick, environment
  <2>2. ClockInv'
    BY <2>1, Clock DEF ClockInv
  <2>3. PICK s \in Scrapes : BeginScrape(s)
    BY <2>1
  <2>4. scrape'[s].pc = "account"
    BY <2>3 DEF BeginScrape, TypeInv, ScrapeInv, ScrapeOK
  <2>5. InFlight = {}
    BY <2>1 DEF OneAtATime, TickFindsNone
  <2>6. \A c \in Codes : ~Pending(c) /\ Pending(c)'
    BY <2>4, <2>5, PendingInFlight DEF Pending, PendingIn
  <2>7. \A c \in Codes : Deadline(c)' = Deadline(c)
    BY <2>1, <2>6, Clock DEF Deadline
  <2>8. EntriesOnTime'
    BY <2>1, <2>7 DEF TimeInv, EntriesOnTime, OneUsage, OnTime
  <2>9. QED
    BY <2>1, <2>2, <2>8 DEF TimeInv, BootInv
<1>4. ASSUME EndScrape PROVE TimeInv'
  <2>1. UNCHANGED <<process, now, nextTick, cache, written, worker>>
        /\ \E s \in Scrapes : ScrapeReturns(s)
    BY <1>4 DEF EndScrape, environment
  <2>2. PICK s \in Scrapes : ScrapeReturns(s)
    BY <2>1
  <2>3. /\ scrape[s].pc = "ended" /\ scrape'[s].pc = "idle"
        /\ \A x \in Scrapes : x # s => scrape'[x] = scrape[x]
    BY <2>2 DEF ScrapeReturns, IdleScrape, TypeInv, ScrapeInv, ScrapeOK
  <2>4. \A c \in Codes, x \in Scrapes : PendingIn(x, c)' <=> PendingIn(x, c)
    BY <2>1, <2>3 DEF PendingIn
  <2>5. \A c \in Codes : Pending(c)' <=> Pending(c)
    BY <2>4 DEF Pending
  <2>6. QED
    BY <2>1, <2>5, SameTime
<1>5. QED
  BY <1>1, <1>2, <1>3, <1>4

\* The clock stops at a tick that is due.
LEMMA ClockTime ==
  ASSUME TypeInv, TimeInv, TimePasses PROVE TimeInv'
<1>1. /\ UNCHANGED <<process, nextTick, cache, written, scrape, worker>>
      /\ now' = now + 1 /\ (process = "serving" => now < nextTick)
  BY DEF TimePasses, memory
<1>2. \A c \in Codes : Pending(c)' <=> Pending(c)
  BY <1>1 DEF Pending, PendingIn
<1>3. ClockInv'
  BY <1>1, Clock DEF TimeInv, ClockInv
<1>4. QED
  BY <1>1, <1>2, <1>3
  DEF TimeInv, BootInv, EntriesOnTime, OneUsage, NeverCached, OnTime, Deadline

LEMMA StepTime ==
  ASSUME LongExpiration
  PROVE  Combined /\ AgainInv /\ TimeInv /\ [Next]_allVars => TimeInv'
<1> SUFFICES ASSUME Combined, AgainInv, TimeInv, [Next]_allVars PROVE TimeInv'
  OBVIOUS
<1> USE DEF Combined
<1>1. CASE \E f \in Faults : Crash(f)
  BY <1>1, CrashTime
<1>2. ASSUME UNCHANGED <<process, now, nextTick, cache, written, scrape, worker>>
      PROVE  TimeInv'
  <2>1. \A c \in Codes : Pending(c)' <=> Pending(c)
    BY <1>2 DEF Pending, PendingIn
  <2>2. QED
    BY <1>2, <2>1, SameTime
<1>3. CASE Scraping /\ ~(\E f \in Faults : Crash(f))
  <2>1. nextTick' = nextTick
    BY <1>3 DEF Scraping
  <2>2. ASSUME NEW s \in Scrapes, ScrapeStep(s) PROVE TimeInv'
    BY <1>3, <2>1, <2>2, ScrapeFrame, ScrapePending, SameTime
  <2>3. ASSUME ReleaseWaiters PROVE TimeInv'
    BY <1>2, <2>1, <2>3 DEF ReleaseWaiters, environment
  <2>4. QED
    BY <1>3, <2>1, <2>2, <2>3, WorkerTime, JanitorTime DEF Scraping
<1>4. CASE Serving /\ ~(\E f \in Faults : Crash(f))
  BY <1>2, <1>4, RequestFrame DEF Serving
<1>5. CASE Start \/ Serve \/ Tick \/ EndScrape
  BY <1>5, MainTime
<1>6. CASE UNCHANGED allVars \/ \E c \in Codes : CloudChanges(c)
  BY <1>2, <1>6 DEF CloudChanges, memory, allVars, vars, environment
<1>7. QED
  BY <1>1, <1>3, <1>4, <1>5, <1>6, ClockTime DEF Next, Horizon

LEMMA FreshTime == FreshMemory /\ process = "down" => AgainInv /\ TimeInv
<1>1. FreshMemory => AgainInv
  BY CodesAssumption
  DEF FreshMemory, NoWorkers, IdleWorker, AgainInv, DeadForgets, CachedHaveQuota,
      HdlIsMeasured, NeverCached
<1>2. QED
  BY <1>1, NotTimed

LEMMA TimeInvariant ==
  ASSUME OneAlias, LongExpiration, ~SlowScrapes
  PROVE  Spec => []TimeInv
<1>1. Init => AgainInv /\ TimeInv
  BY FreshTime DEF Init
<1>2. QED
  BY <1>1, StepAgain, StepTime, OneAtATimeInvariant, ListedInvariant, PTL DEF Spec

\* If entries live at least twice the ticker's period less an instant, and scrapes
\* do not overlap, a code that every scrape measures is in the cache at every
\* instant from the second scrape on.
THEOREM RenewedStayLive ==
  ASSUME OneAlias, LongExpiration, ~SlowScrapes
  PROVE  Spec => []RenewedEntriesAreLive
<1>1. Combined /\ TimeInv => RenewedEntriesAreLive
  BY OnTimeIsLive DEF RenewedEntriesAreLive, TimeInv, EntriesOnTime, OneUsage
<1>2. QED
  BY <1>1, TimeInvariant, OneAtATimeInvariant, ListedInvariant, PTL

-----------------------------------------------------------------------------
(* A response is as new as the cache was when the request began            *)

\* No series of c is below v.
ShownAtLeast(c, v) ==
    \A x \in Series : x.code = c /\ gaugeCurrent[x] # Absent => gaugeCurrent[x] >= v

\* What was cached, when a request began, for a code with a live entry is exported,
\* or replaced, in the course of the request: while the code is in the copy by its
\* entry there, then by its series.
FloorInv ==
    /\ \A k \in Collectors : collect[k].pc = "emit" => DOMAIN collect[k].items = {}
    /\ \A k \in Collectors, c \in Codes, r \in Results :
         <<c, r>> \in floor[k] =>
             IF c \in DOMAIN collect[k].items
             THEN collect[k].items[c].current >= r.current
             ELSE ShownAtLeast(c, r.current)

LEMMA FreshFloor == FreshMemory => FloorInv
BY DEF FreshMemory, NoCollects, IdleCollect, CollectState, NoFloor, FloorInv

LEMMA CrashFloor == ASSUME NEW f \in Faults, Crash(f) PROVE FloorInv'
<1>1. FreshMemory'
  BY CrashIsFresh
<1>2. QED
  BY <1>1, FreshFloor, PTL

LEMMA SameFloor ==
  ASSUME FloorInv, UNCHANGED <<gaugeCurrent, collect, floor>> PROVE FloorInv'
BY DEF FloorInv, ShownAtLeast

\* When a request begins, a live entry is the newest of its code.
LEMMA BeginFloor ==
  ASSUME OneRequest, Combined, OrderInv, NEW k \in Collectors, BeginCollect(k)
  PROVE  FloorInv'
<1> USE DEF Combined
<1>1. /\ collect = [j \in Collectors |-> collect[j]] /\ \A j \in Collectors : j = k
      /\ floor \in [Collectors -> SUBSET (Keys \X Results)]
  BY DEF TypeInv, CollectInv, CollectOK, OneRequest
<1>2. /\ gaugeCurrent' = gaugeCurrent
      /\ floor'[k] = {w \in written : w[1] \in CCache!Live(cache, now)}
      /\ collect'[k].items = CCache!Items(cache, now) /\ collect'[k].pc = "current"
  BY <1>1 DEF BeginCollect, CollectState
<1>3. ASSUME NEW c \in CCache!Live(cache, now), c \in Codes, NEW r \in Results,
             <<c, r>> \in written
      PROVE  cache[c].object.current >= r.current
  <2>1. c \in DOMAIN cache /\ cache[c].object.current \in Versions
    BY DEF CCache!Live, TypeInv, CacheOK, IsPartialFunction, CachedItems, Results
  <2>2. r.current <= cache[c].object.current
    BY <1>3, <2>1 DEF OrderInv, CacheIsNewest, Newest, NewestOf
  <2>3. QED
    BY <2>1, <2>2, Numbers DEF Results
<1>4. /\ DOMAIN collect'[k].items = CCache!Live(cache, now)
      /\ \A c \in CCache!Live(cache, now) : collect'[k].items[c] = cache[c].object
  BY <1>2 DEF CCache!Items
<1>5. QED
  BY <1>1, <1>2, <1>3, <1>4 DEF FloorInv, ShownAtLeast

LEMMA RequestFloor ==
  ASSUME OneRequest, OneAlias, Combined, SeriesInv, PairInv, OrderInv, FloorInv, NEW k \in Collectors, BeginCollect(k) \/ CollectStep(k),
         ~(\E f \in Faults : Crash(f))
  PROVE  FloorInv'
<1> USE DEF Combined
<1>1. /\ collect = [j \in Collectors |-> collect[j]] /\ \A j \in Collectors : j = k
      /\ floor \in [Collectors -> SUBSET (Keys \X Results)]
      /\ gaugeCurrent \in [Series -> GaugeValues] /\ IsCollectState(collect[k])
  BY DEF TypeInv, CollectInv, CollectOK, GaugeOK, OneRequest
<1>2. ASSUME NEW key \in Keys, SetCurrent(k, key) PROVE FloorInv'
  <2> DEFINE items == collect[k].items
             at == LabelsOf(key)
  <2>1. /\ key \in DOMAIN items /\ floor' = floor
        /\ collect'[k].items = items /\ collect'[k].pc = "limit"
        /\ gaugeCurrent' = [gaugeCurrent EXCEPT ![at] = items[key].current]
    <3>1. /\ key \in DOMAIN items /\ floor' = floor
          /\ gaugeCurrent' = [gaugeCurrent EXCEPT ![at] = items[key].current]
          /\ collect' = [collect EXCEPT ![k] =
                           [pc |-> "limit", items |-> @.items, at |-> LabelsOf(key),
                            limits |-> @.limits]]
      BY <1>2 DEF SetCurrent, CollectState, Faults
    <3>2. QED
      BY <1>1, <3>1
  <2>2. at \in Series /\ at.code = key
    BY LabelsTyped DEF TypeInv, LabelsOf
  <2>3. \A x \in Series : x.code \notin DOMAIN items => gaugeCurrent'[x] = gaugeCurrent[x]
    BY <1>1, <2>1, <2>2
  <2>4. QED
    BY <1>1, <2>1, <2>3 DEF FloorInv, ShownAtLeast
<1>3. CASE SetLimit(k)
  <2> DEFINE at == collect[k].at
             items == collect[k].items
  <2>1. collect[k].pc = "limit" /\ at \in Series /\ at.code \in DOMAIN items
    BY <1>1, <1>3 DEF SetLimit, TypeInv, CollectInv, SnapshotHasKey, IsCollectState
  <2>2. /\ gaugeCurrent' = gaugeCurrent /\ floor' = floor /\ collect'[k].pc = "current"
        /\ collect'[k].items = [x \in DOMAIN items \ {at.code} |-> items[x]]
    BY <1>1, <1>3 DEF SetLimit, CollectState
  <2>3. gaugeCurrent[at] = items[at.code].current
    BY <2>1 DEF PairInv, UsageIsSet
  <2>4. ASSUME NEW x \in Series, x.code = at.code, gaugeCurrent[x] # Absent PROVE x = at
    <3>1. x.named = at.named /\ x.account = at.account
      BY <2>1, <2>4 DEF SeriesInv, IsExportedSeries, OneAlias
    <3>2. QED
      BY <2>1, <2>4, <3>1 DEF Series
  <2>5. ASSUME NEW c \in Codes, NEW r \in Results, <<c, r>> \in floor[k],
               c = at.code
        PROVE  ShownAtLeast(c, r.current)
    <3>1. items[c].current >= r.current
      BY <2>1, <2>5 DEF FloorInv
    <3>2. QED
      BY <2>3, <2>4, <2>5, <3>1 DEF ShownAtLeast
  <2>6. QED
    BY <1>1, <2>2, <2>5 DEF FloorInv, ShownAtLeast
<1>4. CASE EmitLimits(k)
  <2>1. /\ gaugeCurrent' = gaugeCurrent /\ floor' = floor
        /\ collect'[k].items = collect[k].items /\ DOMAIN collect[k].items = {}
    BY <1>1, <1>4 DEF EmitLimits, CollectState
  <2>2. QED
    BY <1>1, <2>1 DEF FloorInv, ShownAtLeast
<1>5. CASE EmitCurrents(k)
  <2>1. floor'[k] = {} /\ collect'[k].pc = "idle"
    BY <1>1, <1>5 DEF EmitCurrents, IdleCollect, CollectState
  <2>2. QED
    BY <1>1, <2>1 DEF FloorInv
<1>6. QED
  BY <1>2, <1>3, <1>4, <1>5, BeginFloor DEF CollectStep

LEMMA StepFloor ==
  ASSUME OneRequest, OneAlias
  PROVE  /\ Combined /\ SeriesInv /\ PairInv /\ OrderInv /\ FloorInv
         /\ [Next]_allVars
         => FloorInv'
<1> SUFFICES ASSUME Combined, SeriesInv, PairInv, OrderInv, FloorInv, [Next]_allVars
             PROVE  FloorInv'
  OBVIOUS
<1> USE DEF Combined
<1>1. CASE \E f \in Faults : Crash(f)
  BY <1>1, CrashFloor
<1>2. CASE Scraping /\ ~(\E f \in Faults : Crash(f))
  BY <1>2, ScrapeFrame, WorkerFrame, SameFloor DEF Scraping, ReleaseWaiters, Janitor
<1>3. CASE Serving /\ ~(\E f \in Faults : Crash(f))
  BY <1>3, RequestFloor DEF Serving
<1>4. CASE Start \/ Serve \/ Tick \/ EndScrape
  BY <1>4, SameFloor DEF Start, Serve, Tick, EndScrape
<1>5. CASE TimePasses \/ UNCHANGED allVars \/ \E c \in Codes : CloudChanges(c)
  BY <1>5, SameFloor DEF TimePasses, CloudChanges, memory, allVars, vars
<1>6. QED
  BY <1>1, <1>2, <1>3, <1>4, <1>5 DEF Next, Horizon

\* With one request at a time, scrapes that do not overlap, and one alias, a response
\* is, for every code with a live entry, as new as all that had been cached when the
\* request began, whatever the expiration of entries is.
THEOREM ResponsesFresh ==
  ASSUME OneRequest, OneAlias, ~SlowScrapes
  PROVE  Spec => []ResponsesAreFresh
<1>1. Init => FloorInv
  BY FreshFloor DEF Init
<1>2. TypeInv /\ FloorInv => ResponsesAreFresh
  <2> SUFFICES ASSUME TypeInv, FloorInv, NEW k \in Collectors, collect[k].pc = "emit",
                      NEW x \in Series, NEW r \in floor[k], r[1] = x.code,
                      x.code \in Codes, gaugeCurrent[x] # Absent
               PROVE  gaugeCurrent[x] >= r[2].current
    BY DEF ResponsesAreFresh
  <2>1. r[2] \in Results /\ r = <<x.code, r[2]>>
    BY DEF TypeInv, CollectInv, CollectOK
  <2>2. QED
    BY <2>1 DEF FloorInv, ShownAtLeast
<1>3. Combined => TypeInv
  BY DEF Combined
<1>4. QED
  BY <1>1, <1>2, <1>3, StepFloor, OrderInvariant, SeriesInvariant, PairInvariant, PTL DEF Spec
=============================================================================
