-------------------------- MODULE AwsMonitorProofs --------------------------
(***************************************************************************)
(* What the windows of MetricWindow contain, for all times and durations,  *)
(* and what that and the scrapes of AwsMonitor mean for the series that    *)
(* are exported.                                                           *)
(***************************************************************************)
EXTENDS AwsMonitor, FiniteSetTheorems, TLAPS

-----------------------------------------------------------------------------
(* The windows *)

Positive == Nat \ {0}

\* Division with rest.
LEMMA DivMod ==
    ASSUME NEW t \in Int, NEW d \in Positive
    PROVE  /\ t \div d \in Int /\ t % d \in Int
           /\ t = (t \div d) * d + (t % d)
           /\ 0 <= t % d /\ t % d < d
  BY SMTT(30) DEF Positive

\* Half of a duration, as an integer.
LEMMA Half ==
    ASSUME NEW d \in Positive
    PROVE  /\ d \div 2 \in Nat
           /\ 2 * (d \div 2) <= d /\ d <= 2 * (d \div 2) + 1
  BY SMT DEF Positive

\* Half a period back and then to the nearest multiple is down to a multiple:
\* the window never ends after now, nor a whole period before it
\* (determineGetMetricDataWindow).
THEOREM RoundsDown ==
    ASSUME NEW time \in Int, NEW d \in Positive
    PROVE  /\ RoundedNow(time, d) \in Int
           /\ \E q \in Int : RoundedNow(time, d) = q * d
           /\ RoundedNow(time, d) <= time /\ time < RoundedNow(time, d) + d
  <1> DEFINE half == d \div 2
             t == time - half
             q == t \div d
             r == t % d
  <1>1. /\ half \in Nat /\ 2 * half <= d /\ d <= 2 * half + 1 /\ d \in Int /\ d > 0
    BY Half DEF Positive
  <1>2. t \in Int
    BY <1>1
  <1>3. /\ q \in Int /\ r \in Int /\ t = q * d + r /\ 0 <= r /\ r < d
    BY <1>2, DivMod
  <1>4. RoundedNow(time, d) = IF r + r < d THEN t - r ELSE t + (d - r)
    BY <1>1 DEF RoundedNow, RoundTime
  <1> HIDE DEF half, q, r
  <1>5. CASE r + r < d
    <2>1. RoundedNow(time, d) = q * d
      BY <1>1, <1>2, <1>3, <1>4, <1>5
    <2>2. RoundedNow(time, d) = time - half - r
      BY <1>1, <1>3, <1>4, <1>5
    <2>3. RoundedNow(time, d) <= time /\ time < RoundedNow(time, d) + d
      BY <2>2, <1>1, <1>3, <1>5
    <2> QED
      BY <2>1, <2>2, <2>3, <1>1, <1>3
  <1>6. CASE ~(r + r < d)
    <2>1. RoundedNow(time, d) = time - half + (d - r)
      BY <1>1, <1>3, <1>4, <1>6
    <2>2. time - half + (d - r) = q * d + d
      BY <1>1, <1>2, <1>3
    <2>3. q * d + d = (q + 1) * d /\ q + 1 \in Int
      BY <1>1, <1>3
    <2>4. RoundedNow(time, d) <= time /\ time < RoundedNow(time, d) + d
      BY <2>1, <1>1, <1>3, <1>6
    <2>5. RoundedNow(time, d) = (q + 1) * d
      BY <2>1, <2>2, <2>3
    <2>6. RoundedNow(time, d) \in Int
      BY <2>1, <1>1, <1>3
    <2> QED
      BY <2>3, <2>4, <2>5, <2>6
  <1> QED
    BY <1>5, <1>6

\* The last multiple of the period that begins before the end of a window.
LEMMA LastBegunFacts ==
    ASSUME NEW end \in Int, NEW period \in Positive
    PROVE  /\ LastBegun(end, period) \in Int
           /\ LastBegun(end, period) < end /\ end <= LastBegun(end, period) + period
  <1>1. end - 1 \in Int
    OBVIOUS
  <1> DEFINE q == (end - 1) \div period
             r == (end - 1) % period
  <1>2. /\ q \in Int /\ r \in Int /\ end - 1 = q * period + r /\ 0 <= r /\ r < period
    BY <1>1, DivMod
  <1>3. LastBegun(end, period) = q * period
    BY DEF LastBegun
  <1> HIDE DEF q, r
  <1> QED
    BY <1>2, <1>3 DEF Positive

\* A window at least as long as the period holds a point, if the metric has one.
THEOREM PointIsFound ==
    ASSUME NEW time \in Int, NEW rounding \in Int, NEW length \in Int, NEW delay \in Int,
           NEW period \in Positive, period <= length
    PROVE  Newest(Window(time, rounding, length, delay), period)
             = LastBegun(RoundedNow(time, rounding) - delay, period)
  <1> DEFINE R == RoundedNow(time, rounding)
  <1>1. R \in Int
    <2>1. CASE rounding > 0
      BY <2>1, RoundsDown DEF Positive
    <2>2. CASE ~(rounding > 0)
      BY <2>2 DEF RoundedNow
    <2> QED
      BY <2>1, <2>2
  <1>2. LastBegun(R - delay, period) >= R - (length + delay)
    BY <1>1, LastBegunFacts, R - delay \in Int DEF Positive
  <1> QED
    BY <1>2 DEF Newest, Window

\* Without a configured rounding, a metric whose period is at most the default
\* is rounded to its own period.
LEMMA OwnRounding ==
    ASSUME NEW default \in Positive, NEW period \in Positive, period <= default
    PROVE  RoundingPeriod(default, NotConfigured, period) = period
  BY DEF RoundingPeriod, NotConfigured, Positive

\* Then the newest point in the window covers a period that is over: the value
\* that is exported is final, at whatever time the scrape comes
\* (createGetMetricDataInput).
THEOREM NewestPointIsFinal ==
    ASSUME NEW time \in Int, NEW default \in Positive, NEW period \in Positive,
           period <= default, NEW delay \in Nat
    PROVE  LastBegun(RoundedNow(time, RoundingPeriod(default, NotConfigured, period)) - delay, period)
             + period <= time
  <1> DEFINE R == RoundedNow(time, period)
  <1>1. /\ R \in Int /\ R <= time /\ \E q \in Int : R = q * period
    BY RoundsDown
  <1>2. PICK q \in Int : R = q * period
    BY <1>1
  <1> DEFINE e == R - delay
             p == (e - 1) \div period
  <1>3. e \in Int /\ e - 1 \in Int
    BY <1>1
  <1>4. p \in Int /\ LastBegun(e, period) = p * period /\ p * period < e
    BY <1>3, DivMod, LastBegunFacts DEF LastBegun
  <1> HIDE DEF R, p
  <1>5. p * period < q * period
    BY <1>1, <1>2, <1>4 DEF Positive
  <1>6. p + 1 <= q
    <2>1. CASE q <= p
      BY <2>1, <1>2, <1>4, <1>5 DEF Positive
    <2> QED
      BY <2>1, <1>2, <1>4
  <1>7. p * period + period <= q * period
    <2>1. (p + 1) * period <= q * period
      BY <1>2, <1>4, <1>6 DEF Positive
    <2> QED
      BY <2>1, <1>4 DEF Positive
  <1>8. RoundedNow(time, RoundingPeriod(default, NotConfigured, period)) = R
    BY OwnRounding DEF R
  <1>9. p * period \in Int /\ q * period \in Int /\ p * period + period <= time
    BY <1>1, <1>2, <1>4, <1>7 DEF Positive
  <1> QED
    BY <1>4, <1>8, <1>9

\* Multiples of a period, in order.
LEMMA Multiples ==
    ASSUME NEW p \in Int, NEW q \in Int, NEW d \in Positive, p * d < q * d + d
    PROVE  p * d <= q * d
  <1>1. q * d + d = (q + 1) * d
    BY DEF Positive
  <1>2. p <= q
    <2>1. CASE q + 1 <= p
      <3>1. (q + 1) * d <= p * d
        BY <2>1 DEF Positive
      <3>2. p * d \in Int /\ (q + 1) * d \in Int
        BY DEF Positive
      <3> QED
        BY <1>1, <3>1, <3>2
    <2> QED
      BY <2>1
  <1> QED
    BY <1>2 DEF Positive

\* The windows of later scrapes do not end earlier.
LEMMA RoundedNowMonotone ==
    ASSUME NEW t \in Int, NEW u \in Int, t <= u, NEW rounding \in Int
    PROVE  /\ RoundedNow(t, rounding) \in Int /\ RoundedNow(u, rounding) \in Int
           /\ RoundedNow(t, rounding) <= RoundedNow(u, rounding)
  <1>1. CASE rounding > 0
    <2>1. rounding \in Positive
      BY <1>1 DEF Positive
    <2>2. /\ RoundedNow(t, rounding) \in Int /\ \E p \in Int : RoundedNow(t, rounding) = p * rounding
          /\ RoundedNow(t, rounding) <= t
      BY <2>1, RoundsDown
    <2>3. /\ RoundedNow(u, rounding) \in Int /\ \E q \in Int : RoundedNow(u, rounding) = q * rounding
          /\ u < RoundedNow(u, rounding) + rounding
      BY <2>1, RoundsDown
    <2>4. PICK p \in Int, q \in Int :
            RoundedNow(t, rounding) = p * rounding /\ RoundedNow(u, rounding) = q * rounding
      BY <2>2, <2>3
    <2>5. RoundedNow(t, rounding) < RoundedNow(u, rounding) + rounding
      BY <2>2, <2>3
    <2>6. p * rounding <= q * rounding
      BY <2>1, <2>4, <2>5, Multiples
    <2> QED
      BY <2>2, <2>3, <2>4, <2>6
  <1>2. CASE ~(rounding > 0)
    BY <1>2 DEF RoundedNow
  <1> QED
    BY <1>1, <1>2

LEMMA LastBegunMonotone ==
    ASSUME NEW e \in Int, NEW f \in Int, e <= f, NEW period \in Positive
    PROVE  LastBegun(e, period) <= LastBegun(f, period)
  <1>1. /\ LastBegun(e, period) \in Int /\ LastBegun(e, period) < e
        /\ LastBegun(f, period) \in Int /\ f <= LastBegun(f, period) + period
    BY LastBegunFacts
  <1>2. LastBegun(e, period) < LastBegun(f, period) + period
    BY <1>1 DEF Positive
  <1> DEFINE p == (e - 1) \div period
             q == (f - 1) \div period
  <1>3. p \in Int /\ q \in Int
    BY DivMod, e - 1 \in Int, f - 1 \in Int
  <1>4. LastBegun(e, period) = p * period /\ LastBegun(f, period) = q * period
    BY DEF LastBegun
  <1> HIDE DEF p, q
  <1> QED
    BY <1>2, <1>3, <1>4, Multiples

-----------------------------------------------------------------------------
(* The states of the scrapes *)

Stats == UNION {Metric[g].stats : g \in Tasks}
AllEntries == [task : Tasks, stat : Stats, cw : DOMAIN Cw, via : Resources, res : Resources]
Points == [entry : AllEntries, at : Int]
TaskStates == [pc : {"wait", "list", "query", "done"}, todo : SUBSET AllEntries]
ScrapeStates ==
    [pc : {"idle", "collect", "publish"}, seen : [Jobs -> SUBSET Resources],
     res : [Jobs -> SUBSET Resources], task : [Tasks -> TaskStates], data : SUBSET Points,
     kept : [res : SUBSET Resources, cw : SUBSET DOMAIN Cw]]

\* An entry is of a metric that some account has, and that both resources match.
EntryOK(e) ==
    /\ e.stat \in Metric[e.task].stats /\ <<Cw[e.cw].type, Cw[e.cw].name>> = e.task
    /\ \E a \in Accounts : e.cw \in a.cw
    /\ e.via \in Matches(e.cw, Resources) /\ e.res \in Matches(e.cw, Resources)
    /\ e.task[1] \in Resource[e.res].types /\ Tagged(e.task[1], e.res)

\* The newest point of a metric at time t.
Latest(g, t) ==
    LET job == Job[g[1]]
        period == Metric[g].period
    IN  LastBegun(RoundedNow(t, RoundingPeriod(Default, job.rounding, period)) - job.delay, period)

\* A point x is one that there was by time t.
PointOK(x, t) == EntryOK(x.entry) /\ (x.at # NoPoint => x.at <= Latest(x.entry.task, t))

\* What a scrape h has found of the resources; the tasks of a job wait for all.
FoundOK(h) ==
    /\ \A j \in Jobs : /\ h.res[j] \subseteq h.seen[j]
                       /\ \A r \in h.res[j] : j \in Resource[r].types /\ Tagged(j, r)
    /\ \A g \in Tasks : h.task[g].pc # "wait" => h.seen[g[1]] = Resources
    /\ h.pc # "collect" => \A g \in Tasks : h.task[g].pc \in {"wait", "done"}
    /\ h.pc = "publish" => \A g \in Tasks : h.task[g].pc = "done"

\* A statistic of a metric comes once for a resource.
Key(e) == <<e.task, e.stat, e.cw, e.via>>

WorkOK(h) ==
    /\ \A g \in Tasks :
         /\ h.task[g].pc # "query" => h.task[g].todo = {}
         /\ \A e \in h.task[g].todo : e.task = g /\ EntryOK(e)
         /\ \A e, f \in h.task[g].todo : Key(e) = Key(f) => e = f
         /\ \A e \in h.task[g].todo, d \in h.data : Key(e) # Key(d.entry)
    /\ \A d, f \in h.data : Key(d.entry) = Key(f.entry) => d = f
    /\ \A d \in h.data : h.task[d.entry.task].pc \in {"query", "done"}

DataOK(h, t) == IsFiniteSet(h.data) /\ \A d \in h.data : PointOK(d, t)

\* A metric c of task g belongs to resource r.
Belongs(g, r, c) ==
    /\ g[1] \in Resource[r].types /\ Tagged(g[1], r)
    /\ <<Cw[c].type, Cw[c].name>> = g /\ r \in Matches(c, Resources)

\* ... and is on its way to m.metrics.
OnItsWay(h, g, r, c, stat) ==
    /\ h.task[g].pc = "wait" /\ r \in h.seen[g[1]] => r \in h.res[g[1]]
    /\ h.task[g].pc = "list" => r \in h.res[g[1]]
    /\ h.task[g].pc \in {"query", "done"} =>
         \/ \E e \in h.task[g].todo : Key(e) = <<g, stat, c, r>>
         \/ \E d \in h.data : Key(d.entry) = <<g, stat, c, r>>

KeptOK(h, a) ==
    /\ h.kept.res \subseteq a.res /\ h.kept.cw \subseteq a.cw
    /\ \A g \in Tasks, r \in h.kept.res, c \in h.kept.cw :
         Belongs(g, r, c) => \A stat \in Metric[g].stats : OnItsWay(h, g, r, c, stat)

OneDimension == \A a \in Accounts : \A c \in a.cw : Cardinality(Matches(c, Resources)) <= 1

\* What requests read, at time t.
ArrayOK(A, t) ==
    /\ IsFiniteSet(A) /\ Agree(A)
    /\ \A x \in A : PointOK(x, t) /\ x.entry \in AllEntries /\ x.at \in Int
                    /\ x.name = NameOf(x.entry) /\ x.labels["name"] = x.entry.res
    /\ OneDimension => \A x, y \in A : Desc(x) = Desc(y) => x = y

ScrapeOK(h, a, t) == FoundOK(h) /\ WorkOK(h) /\ DataOK(h, t) /\ KeptOK(h, a)

RequestStates == {"idle", "gather", "panic", "duplicates", "undescribed", "ok"}
StatesInv ==
    /\ serving \in BOOLEAN /\ account \in Accounts /\ now \in StartTime .. MaxTime
    /\ request = [pc |-> request.pc, descs |-> request.descs] /\ request.pc \in RequestStates
    /\ metrics = [array |-> metrics.array, len |-> metrics.len] /\ metrics.len \in Nat
    /\ scrape \in [Scrapes -> ScrapeStates]

MonitorInv ==
    /\ StatesInv
    /\ \A s \in Scrapes : ScrapeOK(scrape[s], account, now)
    /\ ArrayOK(metrics.array, now)
    /\ request.pc # "panic" /\ (OneDimension => request.pc # "duplicates")

LEMMA AccountParts ==
  ASSUME NEW a \in Accounts
  PROVE  a.res \subseteq Resources /\ a.cw \subseteq DOMAIN Cw
BY MonitorAssumption

LEMMA MatchesIn ==
  ASSUME NEW c, NEW R \in SUBSET Resources, NEW r
  PROVE  r \in Matches(c, R) <=> r \in R /\ r \in Matches(c, Resources)
BY DEF Matches

LEMMA TaskJobs ==
  ASSUME NEW g \in Tasks
  PROVE  /\ g[1] \in Jobs /\ Metric[g].period \in Positive
         /\ Job[g[1]].delay \in Nat /\ Job[g[1]].rounding \in Int /\ Default \in Positive
BY MonitorAssumption, TimesAssumption DEF Positive

\* What a finite set maps to.
LEMMA FiniteImage ==
  ASSUME NEW S, IsFiniteSet(S), NEW T, NEW f \in [S -> T], \A y \in T : \E x \in S : f[x] = y
  PROVE  IsFiniteSet(T)
<1>1. f \in Surjection(S, T)
  BY DEF Surjection
<1>2. QED
  BY <1>1, FS_Surjection

LEMMA FiniteEntries == IsFiniteSet(AllEntries)
<1> DEFINE StatsOf == {Metric[g].stats : g \in Tasks}
           f == [g \in Tasks |-> Metric[g].stats]
           P1 == Resources \X Resources
           P2 == (DOMAIN Cw) \X P1
           P3 == Stats \X P2
           P4 == Tasks \X P3
           e == [p \in P4 |-> [task |-> p[1], stat |-> p[2][1], cw |-> p[2][2][1],
                               via |-> p[2][2][2][1], res |-> p[2][2][2][2]]]
<1>1. IsFiniteSet(StatsOf)
  <2>1. f \in [Tasks -> StatsOf] /\ \A y \in StatsOf : \E x \in Tasks : f[x] = y
    OBVIOUS
  <2> HIDE DEF f, StatsOf
  <2>2. QED
    BY <2>1, FiniteImage, FiniteAssumption
<1>2. IsFiniteSet(Stats)
  BY <1>1, FS_UNION, FiniteAssumption DEF Stats
<1> HIDE DEF P1, P2, P3, P4
<1>3. IsFiniteSet(P4)
  <2>1. IsFiniteSet(P1)
    BY FS_Product, FiniteAssumption DEF P1
  <2>2. IsFiniteSet(P2)
    BY <2>1, FS_Product, FiniteAssumption DEF P2
  <2>3. IsFiniteSet(P3)
    BY <1>2, <2>2, FS_Product DEF P3
  <2>4. QED
    BY <2>3, FS_Product, FiniteAssumption DEF P4
<1>4. e \in [P4 -> AllEntries]
  <2>1. ASSUME NEW p \in P4
        PROVE  [task |-> p[1], stat |-> p[2][1], cw |-> p[2][2][1],
                via |-> p[2][2][2][1], res |-> p[2][2][2][2]] \in AllEntries
    <3>1. p[1] \in Tasks /\ p[2] \in P3
      BY DEF P4
    <3>2. p[2][1] \in Stats /\ p[2][2] \in P2
      BY <3>1 DEF P3
    <3>3. p[2][2][1] \in DOMAIN Cw /\ p[2][2][2] \in P1
      BY <3>2 DEF P2
    <3>4. p[2][2][2][1] \in Resources /\ p[2][2][2][2] \in Resources
      BY <3>3 DEF P1
    <3>5. QED
      BY <3>1, <3>2, <3>3, <3>4 DEF AllEntries
  <2>2. QED
    BY <2>1
<1>5. ASSUME NEW y \in AllEntries
      PROVE  \E x \in P4 : e[x] = y
  <2>1. /\ y.task \in Tasks /\ y.stat \in Stats /\ y.cw \in DOMAIN Cw
        /\ y.via \in Resources /\ y.res \in Resources
        /\ y = [task |-> y.task, stat |-> y.stat, cw |-> y.cw, via |-> y.via, res |-> y.res]
    BY DEF AllEntries
  <2> DEFINE x1 == <<y.via, y.res>>
             x2 == <<y.cw, x1>>
             x3 == <<y.stat, x2>>
             x4 == <<y.task, x3>>
  <2>2. x1 \in P1 /\ x1[1] = y.via /\ x1[2] = y.res
    BY <2>1 DEF P1
  <2> HIDE DEF x1
  <2>3. x2 \in P2 /\ x2[1] = y.cw /\ x2[2] = x1
    BY <2>1, <2>2 DEF P2
  <2> HIDE DEF x2
  <2>4. x3 \in P3 /\ x3[1] = y.stat /\ x3[2] = x2
    BY <2>1, <2>3 DEF P3
  <2> HIDE DEF x3
  <2>5. x4 \in P4 /\ x4[1] = y.task /\ x4[2] = x3
    BY <2>1, <2>4 DEF P4
  <2> HIDE DEF x4
  <2>6. e[x4] = y
    BY <2>1, <2>2, <2>3, <2>4, <2>5
  <2>7. QED
    BY <2>5, <2>6
<1> HIDE DEF e
<1>6. QED
  BY <1>3, <1>4, <1>5, FiniteImage

\* A goroutine's queries, one by one.
LEMMA EntriesAre ==
  ASSUME NEW g, NEW found, NEW R, NEW named, NEW e
  PROVE  e \in Entries(g, found, R, named) <=>
           \E c \in found : \E stat \in Metric[g].stats, r \in Matches(c, R) :
             e = [task |-> g, stat |-> stat, cw |-> c, via |-> r, res |-> named[c]]
<1> DEFINE Of(c) == {[task |-> g, stat |-> stat, cw |-> c, via |-> r, res |-> named[c]] :
                       stat \in Metric[g].stats, r \in Matches(c, R)}
<1>1. Entries(g, found, R, named) = UNION {Of(c) : c \in found}
  BY DEF Entries
<1>2. ASSUME NEW c
      PROVE  e \in Of(c) <=> \E stat \in Metric[g].stats, r \in Matches(c, R) :
               e = [task |-> g, stat |-> stat, cw |-> c, via |-> r, res |-> named[c]]
  OBVIOUS
<1> HIDE DEF Of
<1>3. e \in UNION {Of(c) : c \in found} <=> \E c \in found : e \in Of(c)
  OBVIOUS
<1>4. QED
  BY <1>1, <1>2, <1>3

\* The newest point is none, or that of Latest; later it is not older.
LEMMA NewestIsLatest ==
  ASSUME NEW g
  PROVE  Newest(WindowOf(g), Metric[g].period) \in {NoPoint, Latest(g, now)}
BY DEF Newest, WindowOf, Window, Latest

LEMMA LatestMonotone ==
  ASSUME NEW g \in Tasks, NEW t \in Int, NEW u \in Int, t <= u
  PROVE  Latest(g, t) \in Int /\ Latest(g, u) \in Int /\ Latest(g, t) <= Latest(g, u)
<1> DEFINE job == Job[g[1]]
           period == Metric[g].period
           rounding == RoundingPeriod(Default, job.rounding, period)
           R(v) == RoundedNow(v, rounding)
<1>1. period \in Positive /\ job.delay \in Nat /\ job.rounding \in Int /\ Default \in Positive
  BY TaskJobs
<1>2. rounding \in Int
  BY <1>1 DEF RoundingPeriod, Positive
<1> HIDE DEF job, period, rounding
<1>3. R(t) \in Int /\ R(u) \in Int /\ R(t) <= R(u)
  BY <1>2, RoundedNowMonotone
<1>4. /\ R(t) - job.delay \in Int /\ R(u) - job.delay \in Int
      /\ R(t) - job.delay <= R(u) - job.delay
  BY <1>1, <1>3
<1> HIDE DEF R
<1>5. /\ LastBegun(R(t) - job.delay, period) \in Int /\ LastBegun(R(u) - job.delay, period) \in Int
      /\ LastBegun(R(t) - job.delay, period) <= LastBegun(R(u) - job.delay, period)
  BY <1>1, <1>4, LastBegunFacts, LastBegunMonotone
<1>6. QED
  BY <1>5 DEF Latest, R, rounding, job, period

-----------------------------------------------------------------------------
(* The steps of a scrape: what becomes of its state h is k. *)

SameBut(h, k, fields) == \A f \in {"pc", "seen", "res", "task", "data", "kept"} \ fields : k[f] = h[f]

OnlyScrape(s) ==
    /\ scrape' \in [Scrapes -> ScrapeStates]
    /\ \A t \in Scrapes : t # s => scrape'[t] = scrape[t]

Paged(h, k, a, j, page) ==
    LET rest == {r \in a.res : j \in Resource[r].types} \ h.seen[j] IN
    /\ h.pc = "collect" /\ h.seen[j] # Resources /\ page \subseteq rest
    /\ k.seen = [h.seen EXCEPT ![j] = IF page = rest THEN Resources ELSE @ \cup page]
    /\ k.res = [h.res EXCEPT ![j] = @ \cup {r \in page : Tagged(j, r)}]
    /\ k.task = [g \in Tasks |-> IF page = rest /\ g[1] = j
                    THEN [IdleTask EXCEPT !.pc = "list"] ELSE h.task[g]]
    /\ SameBut(h, k, {"seen", "res", "task"})

LEMMA TagPageEffect ==
  ASSUME StatesInv, NEW s \in Scrapes, NEW j \in Jobs, TagPage(s, j)
  PROVE  OnlyScrape(s) /\ \E page \in SUBSET Resources : Paged(scrape[s], scrape'[s], account, j, page)
<1> DEFINE h == scrape[s]
           rest == {r \in account.res : j \in Resource[r].types} \ h.seen[j]
           K(page) == [h EXCEPT
              !.seen[j] = IF page = rest THEN Resources ELSE @ \cup page,
              !.res[j] = @ \cup {r \in page : Tagged(j, r)},
              !.task = [g \in Tasks |-> IF page = rest /\ g[1] = j
                          THEN [IdleTask EXCEPT !.pc = "list"] ELSE @[g]]]
<1>1. h \in ScrapeStates /\ scrape \in [Scrapes -> ScrapeStates]
  BY DEF StatesInv
<1>2. /\ h.pc = "collect" /\ h.seen[j] # Resources
      /\ \E page \in SUBSET rest : scrape' = [scrape EXCEPT ![s] = K(page)]
  <2>1. PICK page \in SUBSET rest :
          scrape' = [scrape EXCEPT
              ![s].seen[j] = IF page = rest THEN Resources ELSE @ \cup page,
              ![s].res[j] = @ \cup {r \in page : Tagged(j, r)},
              ![s].task = [g \in Tasks |-> IF page = rest /\ g[1] = j
                             THEN [IdleTask EXCEPT !.pc = "list"] ELSE @[g]]]
    BY DEF TagPage
  <2>2. scrape' = [scrape EXCEPT ![s] = K(page)]
    BY <1>1, <2>1 DEF ScrapeStates
  <2>3. QED
    BY <2>2 DEF TagPage
<1>3. PICK page \in SUBSET rest : scrape' = [scrape EXCEPT ![s] = K(page)]
  BY <1>2
<1>9. page \subseteq rest /\ page \in SUBSET Resources
  BY AccountParts DEF StatesInv
<1>4. Paged(h, K(page), account, j, page)
  BY <1>1, <1>2, <1>9 DEF Paged, SameBut, ScrapeStates
<1>5. K(page) \in ScrapeStates
  BY <1>1, <1>9 DEF ScrapeStates, TaskStates, IdleTask
<1> HIDE DEF h, K, rest
<1>6. QED
  BY <1>1, <1>3, <1>9, <1>4, <1>5 DEF OnlyScrape, h

Found(g, R, a) == {c \in a.cw : <<Cw[c].type, Cw[c].name>> = g /\ Matches(c, R) # {}}

Listed(h, k, a, g, named) ==
    LET R == h.res[g[1]] IN
    /\ h.task[g].pc = "list" /\ named \in NamedBy(Found(g, R, a), R)
    /\ k.task = [h.task EXCEPT ![g] = [pc |-> IF Found(g, R, a) = {} THEN "done" ELSE "query",
                                      todo |-> Entries(g, Found(g, R, a), R, named)]]
    /\ SameBut(h, k, {"task"})

Queried(h, k, t, g, batch, at) ==
    /\ h.task[g].pc = "query" /\ batch \subseteq h.task[g].todo
    /\ at \in [batch -> {NoPoint, Latest(g, t)}]
    /\ k.task = [h.task EXCEPT ![g] = [pc |-> IF Rest(h.task[g].todo, batch) = {} THEN "done" ELSE "query",
                                      todo |-> Rest(h.task[g].todo, batch)]]
    /\ k.data = h.data \cup {[entry |-> e, at |-> at[e]] : e \in batch}
    /\ SameBut(h, k, {"task", "data"})

LEMMA ListMetricsEffect ==
  ASSUME StatesInv, NEW s \in Scrapes, NEW g \in Tasks, ListMetrics(s, g)
  PROVE  OnlyScrape(s) /\ \E named : Listed(scrape[s], scrape'[s], account, g, named)
<1> DEFINE h == scrape[s]
           R == h.res[g[1]]
           found == Found(g, R, account)
           T(named) == [pc |-> IF found = {} THEN "done" ELSE "query",
                        todo |-> Entries(g, found, R, named)]
           K(named) == [h EXCEPT !.task[g] = T(named)]
<1>1. h \in ScrapeStates /\ scrape \in [Scrapes -> ScrapeStates] /\ g[1] \in Jobs
  BY TaskJobs DEF StatesInv
<1>2. h.task[g].pc = "list" /\ \E named \in NamedBy(found, R) : scrape' = [scrape EXCEPT ![s].task[g] = T(named)]
  BY DEF ListMetrics, Found
<1>3. PICK named \in NamedBy(found, R) : scrape' = [scrape EXCEPT ![s].task[g] = T(named)]
  BY <1>2
<1>4. R \subseteq Resources /\ found \subseteq DOMAIN Cw
  BY <1>1, AccountParts DEF ScrapeStates, StatesInv, Found
<1>5. T(named) \in TaskStates
  <2>1. ASSUME NEW e \in Entries(g, found, R, named)
        PROVE  e \in AllEntries
    <3>1. PICK c \in found, stat \in Metric[g].stats :
            \E r \in Matches(c, R) :
              e = [task |-> g, stat |-> stat, cw |-> c, via |-> r, res |-> named[c]]
      BY EntriesAre
    <3>2. PICK r \in Matches(c, R) :
              e = [task |-> g, stat |-> stat, cw |-> c, via |-> r, res |-> named[c]]
      BY <3>1
    <3>3. r \in R /\ named[c] \in R /\ stat \in Stats
      BY <1>3 DEF Matches, NamedBy, Stats
    <3>4. QED
      BY <1>4, <3>2, <3>3 DEF AllEntries
  <2>2. QED
    BY <2>1 DEF TaskStates
<1> HIDE DEF T, found, R
<1>6. scrape' = [scrape EXCEPT ![s] = K(named)] /\ K(named) \in ScrapeStates
  BY <1>1, <1>3, <1>5 DEF ScrapeStates
<1>7. Listed(h, K(named), account, g, named)
  BY <1>1, <1>2 DEF Listed, SameBut, ScrapeStates, T, found, R
<1> HIDE DEF h, K
<1>8. QED
  BY <1>1, <1>6, <1>7 DEF OnlyScrape, h

LEMMA QueryEffect ==
  ASSUME StatesInv, NEW s \in Scrapes, NEW g \in Tasks, Query(s, g)
  PROVE  OnlyScrape(s) /\ \E batch, at : Queried(scrape[s], scrape'[s], now, g, batch, at)
<1> DEFINE h == scrape[s]
           todo == h.task[g].todo
           T(batch) == [pc |-> IF Rest(todo, batch) = {} THEN "done" ELSE "query",
                        todo |-> Rest(todo, batch)]
           A(e) == IF e.cw \in account.silent THEN NoPoint ELSE Newest(WindowOf(g), Metric[g].period)
           N(batch) == {[entry |-> e, at |-> A(e)] : e \in batch}
           K(batch) == [h EXCEPT !.task[g] = T(batch), !.data = @ \cup N(batch)]
<1>1. h \in ScrapeStates /\ scrape \in [Scrapes -> ScrapeStates]
  BY DEF StatesInv
<1>2. h.task[g].pc = "query" /\ \E batch \in SUBSET todo :
        scrape' = [scrape EXCEPT ![s].task[g] = T(batch), ![s].data = @ \cup N(batch)]
  BY DEF Query, kSubset
<1>3. PICK batch \in SUBSET todo :
        scrape' = [scrape EXCEPT ![s].task[g] = T(batch), ![s].data = @ \cup N(batch)]
  BY <1>2
<1>4. todo \subseteq AllEntries
  BY <1>1 DEF ScrapeStates, TaskStates
<1> DEFINE at == [e \in batch |-> A(e)]
<1>5. ASSUME NEW e PROVE A(e) \in {NoPoint, Latest(g, now)} /\ A(e) \in Int
  <2>1. A(e) \in {NoPoint, Latest(g, now)}
    BY NewestIsLatest
  <2>2. Latest(g, now) \in Int
    BY LatestMonotone, TimesAssumption DEF StatesInv
  <2>3. QED
    BY <2>1, <2>2 DEF NoPoint
<1> HIDE DEF A
<1>6. at \in [batch -> {NoPoint, Latest(g, now)}] /\ N(batch) = {[entry |-> e, at |-> at[e]] : e \in batch}
  BY <1>5
<1>7. N(batch) \subseteq Points
  BY <1>4, <1>5 DEF Points
<1>8. T(batch) \in TaskStates
  BY <1>4 DEF TaskStates, Rest
<1> HIDE DEF T, N, todo, at
<1>9. scrape' = [scrape EXCEPT ![s] = K(batch)] /\ K(batch) \in ScrapeStates
  BY <1>1, <1>3, <1>7, <1>8 DEF ScrapeStates
<1>10. Queried(h, K(batch), now, g, batch, at)
  BY <1>1, <1>2, <1>3, <1>6 DEF Queried, SameBut, ScrapeStates, T, todo
<1> HIDE DEF h, K
<1>11. QED
  BY <1>1, <1>9, <1>10 DEF OnlyScrape, h

-----------------------------------------------------------------------------
(* The steps keep the invariant. *)

LEMMA PagedOK ==
  ASSUME NEW h \in ScrapeStates, NEW k \in ScrapeStates, NEW a \in Accounts, NEW t, NEW j \in Jobs,
         NEW page \in SUBSET Resources, Paged(h, k, a, j, page), ScrapeOK(h, a, t)
  PROVE  ScrapeOK(k, a, t)
<1> DEFINE rest == {r \in a.res : j \in Resource[r].types} \ h.seen[j]
<1>1. /\ h.pc = "collect" /\ k.pc = "collect" /\ k.data = h.data /\ k.kept = h.kept
      /\ h.seen[j] # Resources /\ page \subseteq rest
  BY DEF Paged, SameBut
<1>2. /\ \A i \in Jobs : i # j => k.seen[i] = h.seen[i] /\ k.res[i] = h.res[i]
      /\ k.seen[j] = IF page = rest THEN Resources ELSE h.seen[j] \cup page
      /\ k.res[j] = h.res[j] \cup {r \in page : Tagged(j, r)}
  BY DEF Paged, ScrapeStates
<1> HIDE DEF rest
<1>3. \A g \in Tasks :
        \/ k.task[g] = h.task[g] /\ ~(page = rest /\ g[1] = j)
        \/ /\ k.task[g].pc = "list" /\ k.task[g].todo = {}
           /\ page = rest /\ g[1] = j /\ h.task[g].pc = "wait"
  BY <1>1 DEF Paged, ScrapeOK, FoundOK, IdleTask, rest
<1>4. FoundOK(k)
  <2>1. ASSUME NEW i \in Jobs
        PROVE  /\ k.res[i] \subseteq k.seen[i]
               /\ \A r \in k.res[i] : i \in Resource[r].types /\ Tagged(i, r)
    BY <1>1, <1>2 DEF ScrapeOK, FoundOK, ScrapeStates, rest
  <2>2. ASSUME NEW g \in Tasks, k.task[g].pc # "wait"
        PROVE  k.seen[g[1]] = Resources
    BY <2>2, <1>1, <1>2, <1>3, TaskJobs DEF ScrapeOK, FoundOK
  <2>3. QED
    BY <1>1, <2>1, <2>2 DEF FoundOK
<1>5. WorkOK(k)
  <2>1. ASSUME NEW g \in Tasks
        PROVE  /\ k.task[g].pc # "query" => k.task[g].todo = {}
               /\ \A e \in k.task[g].todo : e \in h.task[g].todo
    BY <1>3 DEF ScrapeOK, WorkOK
  <2>2. ASSUME NEW d \in h.data
        PROVE  k.task[d.entry.task].pc \in {"query", "done"}
    <3>1. d.entry.task \in Tasks /\ h.task[d.entry.task].pc \in {"query", "done"}
      BY DEF ScrapeOK, WorkOK, ScrapeStates, Points, AllEntries
    <3>2. QED
      BY <1>3, <3>1
  <2>3. \A d, f \in h.data : Key(d.entry) = Key(f.entry) => d = f
    BY DEF ScrapeOK, WorkOK
  <2>4. ASSUME NEW g \in Tasks
        PROVE  /\ \A e \in h.task[g].todo : e.task = g /\ EntryOK(e)
               /\ \A e, f \in h.task[g].todo : Key(e) = Key(f) => e = f
               /\ \A e \in h.task[g].todo, d \in h.data : Key(e) # Key(d.entry)
    BY DEF ScrapeOK, WorkOK
  <2>5. QED
    BY <1>1, <2>1, <2>2, <2>3, <2>4 DEF WorkOK
<1>6. DataOK(k, t)
  BY <1>1 DEF ScrapeOK, DataOK
<1>7. KeptOK(k, a)
  <2>1. k.kept.res \subseteq a.res /\ k.kept.cw \subseteq a.cw
    BY <1>1 DEF ScrapeOK, KeptOK
  <2>2. ASSUME NEW g \in Tasks, NEW r \in k.kept.res, NEW c \in k.kept.cw, Belongs(g, r, c),
               NEW stat \in Metric[g].stats
        PROVE  OnItsWay(k, g, r, c, stat)
    <3>1. OnItsWay(h, g, r, c, stat)
      BY <2>2, <1>1 DEF ScrapeOK, KeptOK
    <3>2. g[1] \in Jobs /\ g[1] \in Resource[r].types /\ Tagged(g[1], r) /\ r \in a.res
      BY <2>1, <2>2, TaskJobs DEF Belongs
    <3>3. CASE g[1] # j
      BY <1>1, <1>2, <1>3, <3>1, <3>2, <3>3 DEF OnItsWay
    <3>4. CASE g[1] = j /\ h.task[g].pc # "wait"
      BY <1>1, <3>2, <3>4 DEF ScrapeOK, FoundOK
    <3>5. CASE g[1] = j /\ h.task[g].pc = "wait"
      <4>1. r \in h.seen[j] => r \in h.res[j]
        BY <3>1, <3>5 DEF OnItsWay
      <4>2. r \in page => r \in k.res[j]
        BY <1>2, <3>2, <3>5
      <4>3. r \in h.seen[j] \/ r \in rest
        BY <3>2, <3>5 DEF rest
      <4>4. k.task[g].pc \in {"wait", "list"}
        BY <1>3, <3>5
      <4>5. QED
        BY <1>2, <1>3, <3>5, <4>1, <4>2, <4>3, <4>4 DEF OnItsWay
    <3>6. QED
      BY <3>3, <3>4, <3>5
  <2>3. QED
    BY <2>1, <2>2 DEF KeptOK
<1>8. QED
  BY <1>4, <1>5, <1>6, <1>7 DEF ScrapeOK

LEMMA ListedOK ==
  ASSUME NEW h \in ScrapeStates, NEW k \in ScrapeStates, NEW a \in Accounts, NEW t, NEW g \in Tasks,
         NEW named, Listed(h, k, a, g, named), ScrapeOK(h, a, t)
  PROVE  ScrapeOK(k, a, t)
<1> DEFINE R == h.res[g[1]]
           found == Found(g, R, a)
           todo == Entries(g, found, R, named)
<1>1. /\ h.task[g].pc = "list" /\ g[1] \in Jobs /\ R \subseteq Resources
      /\ named \in NamedBy(found, R)
      /\ k.pc = h.pc /\ k.data = h.data /\ k.kept = h.kept /\ k.seen = h.seen /\ k.res = h.res
  BY TaskJobs DEF Listed, SameBut, ScrapeStates
<1>2. /\ k.task[g] = [pc |-> IF found = {} THEN "done" ELSE "query", todo |-> todo]
      /\ \A i \in Tasks : i # g => k.task[i] = h.task[i]
  BY DEF Listed, ScrapeStates
<1>3. ASSUME NEW e \in todo
      PROVE  /\ e.task = g /\ e.stat \in Metric[g].stats /\ e.cw \in found
             /\ e.via \in Matches(e.cw, R) /\ e.res = named[e.cw]
             /\ e = [task |-> g, stat |-> e.stat, cw |-> e.cw, via |-> e.via, res |-> named[e.cw]]
  <2>1. PICK c \in found : \E stat \in Metric[g].stats, r \in Matches(c, R) :
              e = [task |-> g, stat |-> stat, cw |-> c, via |-> r, res |-> named[c]]
    BY EntriesAre
  <2>2. QED
    BY <2>1
<1>4. ASSUME NEW c \in found, NEW stat \in Metric[g].stats, NEW r \in Matches(c, R)
      PROVE  [task |-> g, stat |-> stat, cw |-> c, via |-> r, res |-> named[c]] \in todo
  BY EntriesAre
<1>5. found = {} => todo = {}
  BY <1>3
<1> HIDE DEF todo, found, R
<1>6. FoundOK(k)
  <2>1. h.pc = "collect"
    BY <1>1 DEF ScrapeOK, FoundOK, ScrapeStates
  <2>2. \A i \in Tasks : k.task[i].pc # "wait" => k.seen[i[1]] = Resources
    BY <1>1, <1>2 DEF ScrapeOK, FoundOK
  <2>3. QED
    BY <1>1, <2>1, <2>2 DEF ScrapeOK, FoundOK
<1>7. WorkOK(k)
  <2>1. ASSUME NEW e \in todo
        PROVE  EntryOK(e)
    <3>1. /\ <<Cw[e.cw].type, Cw[e.cw].name>> = g /\ e.cw \in a.cw
          /\ e.via \in Matches(e.cw, Resources)
      BY <1>1, <1>3, MatchesIn DEF found, Found
    <3>2. e.res \in Matches(e.cw, Resources) /\ e.res \in R
      BY <1>1, <1>3, MatchesIn DEF NamedBy
    <3>3. e.task[1] \in Resource[e.res].types /\ Tagged(e.task[1], e.res)
      BY <1>1, <1>3, <3>2 DEF ScrapeOK, FoundOK, R
    <3>4. QED
      BY <1>3, <3>1, <3>2, <3>3 DEF EntryOK
  <2>2. ASSUME NEW e \in todo, NEW f \in todo, Key(e) = Key(f)
        PROVE  e = f
    <3>1. e.stat = f.stat /\ e.cw = f.cw /\ e.via = f.via
      BY <2>2 DEF Key
    <3>2. QED
      BY <1>3, <3>1
  <2>3. ASSUME NEW d \in h.data
        PROVE  d.entry.task \in Tasks /\ d.entry.task # g /\ k.task[d.entry.task].pc \in {"query", "done"}
    <3>1. d.entry.task \in Tasks /\ h.task[d.entry.task].pc \in {"query", "done"}
      BY DEF ScrapeOK, WorkOK, ScrapeStates, Points, AllEntries
    <3>2. QED
      BY <1>1, <1>2, <3>1
  <2>4. ASSUME NEW e \in todo, NEW d \in h.data
        PROVE  Key(e) # Key(d.entry)
    BY <1>3, <2>3 DEF Key
  <2>5. k.task[g].pc # "query" => k.task[g].todo = {}
    BY <1>2, <1>5
  <2>6. \A e \in todo : e.task = g
    BY <1>3
  <2>7. k.task[g].todo = todo
    BY <1>2
  <2>8. ASSUME NEW i \in Tasks
        PROVE  /\ k.task[i].pc # "query" => k.task[i].todo = {}
               /\ \A e \in k.task[i].todo : e.task = i /\ EntryOK(e)
               /\ \A e, f \in k.task[i].todo : Key(e) = Key(f) => e = f
               /\ \A e \in k.task[i].todo, d \in k.data : Key(e) # Key(d.entry)
    <3>1. CASE i = g
      BY <3>1, <1>1, <2>1, <2>2, <2>4, <2>5, <2>6, <2>7
    <3>2. CASE i # g
      BY <3>2, <1>1, <1>2 DEF ScrapeOK, WorkOK
    <3>3. QED
      BY <3>1, <3>2
  <2>9. QED
    BY <1>1, <2>3, <2>8 DEF ScrapeOK, WorkOK
<1>8. DataOK(k, t)
  BY <1>1 DEF ScrapeOK, DataOK
<1>9. KeptOK(k, a)
  <2>1. k.kept.res \subseteq a.res /\ k.kept.cw \subseteq a.cw
    BY <1>1 DEF ScrapeOK, KeptOK
  <2>2. ASSUME NEW i \in Tasks, NEW r \in k.kept.res, NEW c \in k.kept.cw, Belongs(i, r, c),
               NEW stat \in Metric[i].stats
        PROVE  OnItsWay(k, i, r, c, stat)
    <3>1. OnItsWay(h, i, r, c, stat)
      BY <2>2, <1>1 DEF ScrapeOK, KeptOK
    <3>2. CASE i # g
      BY <1>1, <1>2, <3>1, <3>2 DEF OnItsWay
    <3>3. CASE i = g
      <4>1. r \in R
        BY <1>1, <3>1, <3>3 DEF OnItsWay, R
      <4>2. r \in Matches(c, R)
        BY <1>1, <2>2, <4>1, MatchesIn DEF Belongs
      <4>3. c \in found
        BY <2>1, <2>2, <3>3, <4>2 DEF found, Found, Belongs
      <4> DEFINE e == [task |-> g, stat |-> stat, cw |-> c, via |-> r, res |-> named[c]]
      <4>4. e \in todo /\ Key(e) = <<i, stat, c, r>>
        BY <1>4, <3>3, <4>2, <4>3 DEF Key
      <4>5. k.task[g].pc \in {"query", "done"} /\ k.task[g].todo = todo
        BY <1>2
      <4> HIDE DEF e
      <4>6. \E f \in k.task[i].todo : Key(f) = <<i, stat, c, r>>
        BY <3>3, <4>4, <4>5
      <4>7. QED
        BY <3>3, <4>5, <4>6 DEF OnItsWay
    <3>4. QED
      BY <3>2, <3>3
  <2>3. QED
    BY <2>1, <2>2 DEF KeptOK
<1>10. QED
  BY <1>6, <1>7, <1>8, <1>9 DEF ScrapeOK

LEMMA QueriedOK ==
  ASSUME NEW h \in ScrapeStates, NEW k \in ScrapeStates, NEW a \in Accounts, NEW t \in Int,
         NEW g \in Tasks, NEW batch, NEW at, Queried(h, k, t, g, batch, at), ScrapeOK(h, a, t)
  PROVE  ScrapeOK(k, a, t)
<1> DEFINE todo == h.task[g].todo
           rest == todo \ batch
           new == {[entry |-> e, at |-> at[e]] : e \in batch}
<1>1. /\ h.task[g].pc = "query" /\ batch \subseteq todo /\ at \in [batch -> {NoPoint, Latest(g, t)}]
      /\ k.pc = h.pc /\ k.kept = h.kept /\ k.seen = h.seen /\ k.res = h.res
      /\ k.data = h.data \cup new
  BY DEF Queried, SameBut
<1>2. /\ k.task[g] = [pc |-> IF rest = {} THEN "done" ELSE "query", todo |-> rest]
      /\ \A i \in Tasks : i # g => k.task[i] = h.task[i]
  BY DEF Queried, ScrapeStates, Rest
<1>3. \A d \in new : d.entry \in batch /\ d = [entry |-> d.entry, at |-> at[d.entry]] /\ d.at = at[d.entry]
  OBVIOUS
<1>4. \A e \in batch : \E d \in new : d.entry = e
  <2>1. ASSUME NEW e \in batch PROVE \E d \in new : d.entry = e
    <3> DEFINE d == [entry |-> e, at |-> at[e]]
    <3>1. d \in new /\ d.entry = e
      OBVIOUS
    <3> HIDE DEF d
    <3>2. QED
      BY <3>1
  <2>2. QED
    BY <2>1
<1>5. todo \subseteq AllEntries /\ IsFiniteSet(new)
  <2>1. todo \subseteq AllEntries
    BY DEF ScrapeStates, TaskStates
  <2>2. IsFiniteSet(batch)
    BY <1>1, <2>1, FiniteEntries, FS_Subset
  <2> DEFINE f == [e \in batch |-> [entry |-> e, at |-> at[e]]]
  <2>3. f \in [batch -> new] /\ \A y \in new : \E x \in batch : f[x] = y
    OBVIOUS
  <2> HIDE DEF f, new
  <2>4. QED
    BY <2>1, <2>2, <2>3, FiniteImage
<1>6. /\ \A e \in todo : e.task = g /\ EntryOK(e)
      /\ \A e, f \in todo : Key(e) = Key(f) => e = f
      /\ \A e \in todo, d \in h.data : Key(e) # Key(d.entry)
      /\ \A d, f \in h.data : Key(d.entry) = Key(f.entry) => d = f
  BY DEF ScrapeOK, WorkOK
<1> HIDE DEF todo, rest, new
<1>7. FoundOK(k)
  <2>1. h.pc = "collect"
    BY <1>1 DEF ScrapeOK, FoundOK, ScrapeStates
  <2>2. \A i \in Tasks : k.task[i].pc # "wait" => k.seen[i[1]] = Resources
    BY <1>1, <1>2 DEF ScrapeOK, FoundOK
  <2>3. QED
    BY <1>1, <2>1, <2>2 DEF ScrapeOK, FoundOK
<1>8. WorkOK(k)
  <2>1. ASSUME NEW d \in k.data, NEW f \in k.data, Key(d.entry) = Key(f.entry)
        PROVE  d = f
    <3>1. CASE d \in h.data /\ f \in h.data
      BY <1>6, <2>1, <3>1
    <3>2. CASE d \in new /\ f \in new
      <4>1. d.entry = f.entry
        BY <1>1, <1>3, <1>6, <2>1, <3>2
      <4>2. QED
        BY <1>3, <3>2, <4>1
    <3>3. CASE d \in new /\ f \in h.data
      BY <1>1, <1>3, <1>6, <2>1, <3>3
    <3>4. CASE d \in h.data /\ f \in new
      BY <1>1, <1>3, <1>6, <2>1, <3>4
    <3>5. QED
      BY <1>1, <3>1, <3>2, <3>3, <3>4
  <2>2. ASSUME NEW i \in Tasks, NEW e \in k.task[i].todo
        PROVE  e \in h.task[i].todo /\ (i = g => e \notin batch)
    BY <1>2, <2>2 DEF rest, todo
  <2>3. ASSUME NEW i \in Tasks
        PROVE  /\ k.task[i].pc # "query" => k.task[i].todo = {}
               /\ \A e \in k.task[i].todo : e.task = i /\ EntryOK(e)
               /\ \A e, f \in k.task[i].todo : Key(e) = Key(f) => e = f
    <3>1. k.task[i].pc # "query" => k.task[i].todo = {}
      BY <1>2 DEF ScrapeOK, WorkOK
    <3>2. QED
      BY <2>2, <3>1 DEF ScrapeOK, WorkOK
  <2>4. ASSUME NEW i \in Tasks, NEW e \in k.task[i].todo, NEW d \in k.data
        PROVE  Key(e) # Key(d.entry)
    <3>1. CASE d \in h.data
      BY <2>2, <2>4, <3>1 DEF ScrapeOK, WorkOK
    <3>2. CASE d \in new /\ i = g
      BY <1>1, <1>3, <1>6, <2>2, <2>4, <3>2 DEF todo
    <3>3. CASE d \in new /\ i # g
      <4>1. d.entry.task = g /\ e.task = i
        BY <1>1, <1>3, <1>6, <2>3, <2>4, <3>3
      <4>2. QED
        BY <3>3, <4>1 DEF Key
    <3>4. QED
      BY <1>1, <3>1, <3>2, <3>3
  <2>5. ASSUME NEW d \in k.data
        PROVE  k.task[d.entry.task].pc \in {"query", "done"}
    <3>1. k.task[g].pc \in {"query", "done"}
      BY <1>2
    <3>2. CASE d \in h.data
      <4>1. d.entry.task \in Tasks /\ h.task[d.entry.task].pc \in {"query", "done"}
        BY <3>2 DEF ScrapeOK, WorkOK, ScrapeStates, Points, AllEntries
      <4>2. QED
        BY <1>2, <3>1, <4>1
    <3>3. CASE d \in new
      <4>1. d.entry.task = g
        BY <1>1, <1>3, <1>6, <3>3
      <4>2. QED
        BY <3>1, <4>1
    <3>4. QED
      BY <1>1, <3>2, <3>3
  <2>6. QED
    BY <2>1, <2>3, <2>4, <2>5 DEF WorkOK
<1>9. DataOK(k, t)
  <2>1. IsFiniteSet(k.data)
    <3>1. IsFiniteSet(h.data)
      BY DEF ScrapeOK, DataOK
    <3>2. IsFiniteSet(h.data \cup new)
      BY <1>5, <3>1, FS_Union
    <3>3. QED
      BY <1>1, <3>2
  <2>2. ASSUME NEW d \in new
        PROVE  PointOK(d, t)
    <3>1. d.entry \in batch /\ d.at = at[d.entry]
      BY <1>3
    <3>2. EntryOK(d.entry) /\ d.entry.task = g /\ d.at \in {NoPoint, Latest(g, t)}
      BY <1>1, <1>6, <3>1
    <3>3. Latest(g, t) \in Int
      BY LatestMonotone
    <3>4. QED
      BY <3>2, <3>3 DEF PointOK
  <2>3. QED
    BY <1>1, <2>1, <2>2 DEF ScrapeOK, DataOK
<1>10. KeptOK(k, a)
  <2>1. k.kept.res \subseteq a.res /\ k.kept.cw \subseteq a.cw
    BY <1>1 DEF ScrapeOK, KeptOK
  <2>2. ASSUME NEW i \in Tasks, NEW r \in k.kept.res, NEW c \in k.kept.cw, Belongs(i, r, c),
               NEW stat \in Metric[i].stats
        PROVE  OnItsWay(k, i, r, c, stat)
    <3> DEFINE q == <<i, stat, c, r>>
    <3>1. OnItsWay(h, i, r, c, stat)
      BY <2>2, <1>1 DEF ScrapeOK, KeptOK
    <3>2. CASE i # g
      BY <1>1, <1>2, <3>1, <3>2 DEF OnItsWay
    <3>3. CASE i = g
      <4>1. (\E e \in todo : Key(e) = q) \/ (\E d \in h.data : Key(d.entry) = q)
        BY <1>1, <3>1, <3>3 DEF OnItsWay, todo
      <4> HIDE DEF q
      <4>2. (\E e \in rest : Key(e) = q) \/ (\E d \in k.data : Key(d.entry) = q)
        <5>1. CASE \E d \in h.data : Key(d.entry) = q
          BY <5>1, <1>1
        <5>2. ASSUME NEW e \in todo, Key(e) = q, e \in batch
              PROVE  \E d \in k.data : Key(d.entry) = q
          BY <5>2, <1>1, <1>4
        <5>3. QED
          BY <4>1, <5>1, <5>2 DEF rest
      <4>3. k.task[g].pc \in {"query", "done"} /\ k.task[g].todo = rest
        BY <1>2
      <4>4. QED
        BY <3>3, <4>2, <4>3 DEF OnItsWay, q
    <3>4. QED
      BY <3>2, <3>3
  <2>3. QED
    BY <2>1, <2>2 DEF KeptOK
<1>11. QED
  BY <1>7, <1>8, <1>9, <1>10 DEF ScrapeOK

-----------------------------------------------------------------------------
(* What a scrape publishes *)

Sent(D) == {d \in D : d.at # NoPoint \/ ~Metric[d.entry.task].timestamp}
SeriesOf(S, d) == [name |-> NameOf(d.entry), labels |-> Consistent(S, d), at |-> d.at, entry |-> d.entry]
AllSeries(D) == {SeriesOf(Sent(D), d) : d \in Sent(D)}

LEMMA SeriesAre ==
  ASSUME NEW s
  PROVE  Series(s) = AllSeries(scrape[s].data)
BY DEF Series, AllSeries, SeriesOf, Sent

LEMMA FiniteSeries ==
  ASSUME NEW D, IsFiniteSet(D)
  PROVE  IsFiniteSet(AllSeries(D)) /\ Cardinality(AllSeries(D)) \in Nat
<1> DEFINE f == [d \in Sent(D) |-> SeriesOf(Sent(D), d)]
<1>1. IsFiniteSet(Sent(D))
  BY FS_Subset DEF Sent
<1>2. f \in [Sent(D) -> AllSeries(D)] /\ \A y \in AllSeries(D) : \E x \in Sent(D) : f[x] = y
  BY DEF AllSeries
<1> HIDE DEF f
<1>3. IsFiniteSet(AllSeries(D))
  BY <1>1, <1>2, FiniteImage
<1>4. QED
  BY <1>3, FS_CardinalityType

\* The labels of a series: those that a series of the name has, with the values
\* of its own labels.
LEMMA LabelsAre ==
  ASSUME NEW S, NEW d \in S
  PROVE  /\ DOMAIN Consistent(S, d) = Observed(S, NameOf(d.entry))
         /\ DOMAIN LabelsOf(d.entry) \subseteq DOMAIN Consistent(S, d)
         /\ \A l \in DOMAIN LabelsOf(d.entry) : Consistent(S, d)[l] = LabelsOf(d.entry)[l]
         /\ \A l \in DOMAIN Consistent(S, d) :
              l \notin DOMAIN LabelsOf(d.entry) => Consistent(S, d)[l] = ""
<1>1. DOMAIN Consistent(S, d) = Observed(S, NameOf(d.entry))
  BY DEF Consistent
<1>2. DOMAIN LabelsOf(d.entry) \subseteq Observed(S, NameOf(d.entry))
  BY DEF Observed
<1>3. \A l \in Observed(S, NameOf(d.entry)) :
        Consistent(S, d)[l] = IF l \in DOMAIN LabelsOf(d.entry) THEN LabelsOf(d.entry)[l] ELSE ""
  BY DEF Consistent
<1>4. QED
  BY <1>1, <1>2, <1>3

LEMMA OwnLabels ==
  ASSUME NEW e
  PROVE  /\ DOMAIN LabelsOf(e) = {"name"} \cup DOMAIN Cw[e.cw].dims \cup Job[e.task[1]].exportedTags
         /\ LabelsOf(e)["name"] = e.res
         /\ \A k \in DOMAIN Cw[e.cw].dims : k # "name" => LabelsOf(e)[k] = Cw[e.cw].dims[k]
<1>1. LabelsOf(e) = [l \in {"name"} \cup DOMAIN Cw[e.cw].dims \cup Job[e.task[1]].exportedTags |->
         IF l = "name" THEN e.res ELSE IF l \in DOMAIN Cw[e.cw].dims THEN Cw[e.cw].dims[l] ELSE TagOf(e.res, l)]
  BY DEF LabelsOf
<1>2. QED
  BY <1>1

\* The dimensions of a series can be read from its labels.
LEMMA DimensionsAreLabels ==
  ASSUME NEW S, NEW d \in S, NEW f \in S, Consistent(S, d) = Consistent(S, f),
         d.entry.cw \in DOMAIN Cw, f.entry.cw \in DOMAIN Cw, f.entry.task \in Tasks,
         NEW k \in DOMAIN Cw[d.entry.cw].dims
  PROVE  k \in DOMAIN Cw[f.entry.cw].dims /\ Cw[d.entry.cw].dims[k] = Cw[f.entry.cw].dims[k]
<1>1. /\ Cw[d.entry.cw].dims[k] # "" /\ k # "name" /\ k \notin Job[f.entry.task[1]].exportedTags
  BY NamesAssumption, TaskJobs
<1>2. k \in DOMAIN LabelsOf(d.entry) /\ LabelsOf(d.entry)[k] = Cw[d.entry.cw].dims[k]
  BY <1>1, OwnLabels
<1> DEFINE C == Consistent(S, d)
           E == Consistent(S, f)
           L == LabelsOf(d.entry)
           M == LabelsOf(f.entry)
<1>3. DOMAIN L \subseteq DOMAIN C /\ \A l \in DOMAIN L : C[l] = L[l]
  BY LabelsAre
<1>4. /\ \A l \in DOMAIN M : E[l] = M[l]
      /\ \A l \in DOMAIN E : l \notin DOMAIN M => E[l] = ""
  BY LabelsAre
<1>5. C = E
  OBVIOUS
<1>6. /\ DOMAIN M = {"name"} \cup DOMAIN Cw[f.entry.cw].dims \cup Job[f.entry.task[1]].exportedTags
      /\ \A l \in DOMAIN Cw[f.entry.cw].dims : l # "name" => M[l] = Cw[f.entry.cw].dims[l]
  BY OwnLabels
<1> HIDE DEF C, E, L, M
<1>7. k \in DOMAIN C /\ C[k] = Cw[d.entry.cw].dims[k]
  BY <1>2, <1>3 DEF L
<1>8. k \in DOMAIN M /\ E[k] = M[k]
  BY <1>1, <1>4, <1>5, <1>7
<1>9. k \in DOMAIN Cw[f.entry.cw].dims /\ M[k] = Cw[f.entry.cw].dims[k]
  BY <1>1, <1>6, <1>8
<1>10. QED
  BY <1>5, <1>7, <1>8, <1>9

\* Two numbers of a set with at most one.
LEMMA AtMostOne ==
  ASSUME NEW S, IsFiniteSet(S), Cardinality(S) <= 1, NEW x \in S, NEW y \in S
  PROVE  x = y
<1>1. Cardinality(S) \in Nat /\ Cardinality(S) # 0
  BY FS_CardinalityType, FS_EmptySet
<1>2. Cardinality(S) = 1
  BY <1>1
<1>3. QED
  BY <1>2, FS_Singleton

LEMMA SeriesOK ==
  ASSUME NEW h \in ScrapeStates, NEW a, NEW t, ScrapeOK(h, a, t)
  PROVE  ArrayOK(AllSeries(h.data), t)
<1> DEFINE S == Sent(h.data)
           A == AllSeries(h.data)
<1>1. /\ IsFiniteSet(h.data) /\ \A d \in h.data : PointOK(d, t)
      /\ \A d, f \in h.data : Key(d.entry) = Key(f.entry) => d = f
  BY DEF ScrapeOK, DataOK, WorkOK
<1>2. S \subseteq h.data /\ \A d \in S : d.entry \in AllEntries /\ d.at \in Int
  BY DEF Sent, ScrapeStates, Points
<1>3. IsFiniteSet(A)
  BY <1>1, FiniteSeries
<1>4. \A x \in A : \E d \in S : x = SeriesOf(S, d)
  BY DEF AllSeries
<1> HIDE DEF S, A
<1>5. Agree(A)
  <2>1. ASSUME NEW x \in A, NEW y \in A, x.name = y.name
        PROVE  DOMAIN x.labels = DOMAIN y.labels
    <3>1. PICK d \in S, f \in S : x = SeriesOf(S, d) /\ y = SeriesOf(S, f)
      BY <1>4, <2>1
    <3>2. NameOf(d.entry) = NameOf(f.entry)
      BY <2>1, <3>1 DEF SeriesOf
    <3>3. x.labels = Consistent(S, d) /\ y.labels = Consistent(S, f)
      BY <3>1 DEF SeriesOf
    <3>4. /\ DOMAIN Consistent(S, d) = Observed(S, NameOf(d.entry))
          /\ DOMAIN Consistent(S, f) = Observed(S, NameOf(f.entry))
      BY LabelsAre
    <3>5. QED
      BY <3>2, <3>3, <3>4
  <2>2. QED
    BY <2>1 DEF Agree
<1>6. ASSUME NEW x \in A
      PROVE  PointOK(x, t) /\ x.entry \in AllEntries /\ x.at \in Int
               /\ x.name = NameOf(x.entry) /\ x.labels["name"] = x.entry.res
  <2>1. PICK d \in S : x = SeriesOf(S, d)
    BY <1>4
  <2>2. /\ x.entry = d.entry /\ x.at = d.at /\ x.name = NameOf(d.entry) /\ x.labels = Consistent(S, d)
    BY <2>1 DEF SeriesOf
  <2>3. x.labels["name"] = x.entry.res
    <3>1. "name" \in DOMAIN LabelsOf(d.entry) /\ LabelsOf(d.entry)["name"] = d.entry.res
      BY OwnLabels
    <3>2. \A l \in DOMAIN LabelsOf(d.entry) : Consistent(S, d)[l] = LabelsOf(d.entry)[l]
      BY LabelsAre
    <3>3. QED
      BY <2>2, <3>1, <3>2
  <2>4. PointOK(x, t)
    BY <1>1, <1>2, <2>2 DEF PointOK
  <2>5. QED
    BY <1>2, <2>2, <2>3, <2>4
<1>7. ASSUME OneDimension, NEW x \in A, NEW y \in A, Desc(x) = Desc(y)
      PROVE  x = y
  <2>1. PICK d \in S, f \in S : x = SeriesOf(S, d) /\ y = SeriesOf(S, f)
    BY <1>4, <1>7
  <2>2. NameOf(d.entry) = NameOf(f.entry) /\ Consistent(S, d) = Consistent(S, f)
    BY <1>7, <2>1 DEF SeriesOf, Desc
  <2>3. d.entry.task = f.entry.task /\ d.entry.stat = f.entry.stat
    BY <2>2 DEF NameOf
  <2>4. EntryOK(d.entry) /\ EntryOK(f.entry) /\ d.entry \in AllEntries /\ f.entry \in AllEntries
    BY <1>1, <1>2 DEF PointOK
  <2>5. /\ d.entry.cw \in DOMAIN Cw /\ f.entry.cw \in DOMAIN Cw
        /\ d.entry.task \in Tasks /\ f.entry.task \in Tasks
    BY <2>4 DEF AllEntries
  <2>6. /\ Cw[d.entry.cw].type = Cw[f.entry.cw].type /\ Cw[d.entry.cw].name = Cw[f.entry.cw].name
    BY <2>3, <2>4 DEF EntryOK
  <2>7. \A k \in DOMAIN Cw[d.entry.cw].dims :
          k \in DOMAIN Cw[f.entry.cw].dims /\ Cw[d.entry.cw].dims[k] = Cw[f.entry.cw].dims[k]
    BY <2>2, <2>5, DimensionsAreLabels
  <2>8. \A k \in DOMAIN Cw[f.entry.cw].dims : k \in DOMAIN Cw[d.entry.cw].dims
    BY <2>2, <2>5, DimensionsAreLabels
  <2>9. DOMAIN Cw[d.entry.cw].dims = DOMAIN Cw[f.entry.cw].dims
    BY <2>7, <2>8
  <2>10. d.entry.cw = f.entry.cw
    BY <2>5, <2>6, <2>7, <2>9, NamesAssumption
  <2>11. d.entry.via = f.entry.via
    <3> DEFINE M == Matches(d.entry.cw, Resources)
    <3>1. d.entry.via \in M /\ f.entry.via \in M
      BY <2>4, <2>10 DEF EntryOK
    <3>2. IsFiniteSet(M)
      BY FS_Subset, FiniteAssumption DEF Matches
    <3>3. Cardinality(M) <= 1
      BY <1>7, <2>4 DEF EntryOK, OneDimension
    <3> HIDE DEF M
    <3>4. QED
      BY <3>1, <3>2, <3>3, AtMostOne
  <2>12. Key(d.entry) = Key(f.entry)
    BY <2>3, <2>10, <2>11 DEF Key
  <2>13. QED
    BY <1>1, <1>2, <2>1, <2>12
<1>8. QED
  BY <1>3, <1>5, <1>6, <1>7 DEF ArrayOK, A

-----------------------------------------------------------------------------
(* The invariant *)

Begun(a) == [IdleScrape EXCEPT !.pc = "collect", !.kept = [res |-> a.res, cw |-> a.cw]]

LEMMA FreshOK ==
  ASSUME NEW a \in Accounts, NEW t, NEW k \in {IdleScrape, Begun(a)}
  PROVE  k \in ScrapeStates /\ ScrapeOK(k, a, t)
<1>1. a.res \subseteq Resources /\ a.cw \subseteq DOMAIN Cw
  BY AccountParts
<1> DEFINE none == [j \in Jobs |-> {}]
           waiting == [g \in Tasks |-> [pc |-> "wait", todo |-> {}]]
<1>2. IdleScrape = [pc |-> "idle", seen |-> none, res |-> none, task |-> waiting,
                    data |-> {}, kept |-> [res |-> {}, cw |-> {}]]
  <2>1. [g \in Tasks |-> IdleTask] = waiting
    BY DEF IdleTask
  <2>2. IdleScrape = [pc |-> "idle", seen |-> none, res |-> none, task |-> [g \in Tasks |-> IdleTask],
                      data |-> {}, kept |-> [res |-> {}, cw |-> {}]]
    BY DEF IdleScrape
  <2> HIDE DEF none, waiting
  <2>3. QED
    BY <2>1, <2>2
<1>3. none \in [Jobs -> SUBSET Resources] /\ waiting \in [Tasks -> TaskStates]
  BY DEF TaskStates
<1>4. \A j \in Jobs : none[j] = {}
  OBVIOUS
<1>5. \A g \in Tasks : waiting[g].pc = "wait" /\ waiting[g].todo = {}
  OBVIOUS
<1> HIDE DEF none, waiting
<1>6. IdleScrape \in ScrapeStates
  BY <1>2, <1>3 DEF ScrapeStates
<1>7. /\ k \in ScrapeStates
      /\ k.pc \in {"idle", "collect"} /\ k.data = {}
      /\ k.seen = none /\ k.res = none /\ k.task = waiting
      /\ k.kept.res \subseteq a.res /\ k.kept.cw \subseteq a.cw
  <2>1. CASE k = IdleScrape
    BY <1>2, <1>6, <2>1
  <2>2. CASE k = Begun(a)
    <3>1. /\ IdleScrape.pc = "idle" /\ IdleScrape.data = {} /\ IdleScrape.seen = none
          /\ IdleScrape.res = none /\ IdleScrape.task = waiting
      BY <1>2
    <3>2. QED
      BY <1>1, <1>6, <2>2, <3>1 DEF Begun, ScrapeStates
  <2>3. QED
    BY <2>1, <2>2
<1>8. FoundOK(k)
  BY <1>7, <1>4, <1>5 DEF FoundOK
<1>9. WorkOK(k)
  BY <1>7, <1>5 DEF WorkOK
<1>10. DataOK(k, t)
  BY <1>7, FS_EmptySet DEF DataOK
<1>11. KeptOK(k, a)
  BY <1>7, <1>4, <1>5, TaskJobs DEF KeptOK, OnItsWay
<1>12. QED
  BY <1>7, <1>8, <1>9, <1>10, <1>11 DEF ScrapeOK

LEMMA PointsStay ==
  ASSUME NEW x, x.entry.task \in Tasks, x.at \in Int, NEW t \in Int, NEW u \in Int, t <= u, PointOK(x, t)
  PROVE  PointOK(x, u)
<1>1. /\ Latest(x.entry.task, t) \in Int /\ Latest(x.entry.task, u) \in Int
      /\ Latest(x.entry.task, t) <= Latest(x.entry.task, u)
  BY LatestMonotone
<1>2. QED
  BY <1>1 DEF PointOK

\* Time and the account's changes do not disturb a scrape.
LEMMA LaterOK ==
  ASSUME NEW h \in ScrapeStates, NEW a, NEW t \in Int, NEW u \in Int, t <= u, ScrapeOK(h, a, t)
  PROVE  ScrapeOK(h, a, u)
<1>1. ASSUME NEW d \in h.data
      PROVE  PointOK(d, u)
  <2>1. d.entry.task \in Tasks /\ d.at \in Int
    BY DEF ScrapeStates, Points, AllEntries
  <2>2. QED
    BY <2>1, PointsStay DEF ScrapeOK, DataOK
<1>2. QED
  BY <1>1 DEF ScrapeOK, DataOK

LEMMA LaterArrayOK ==
  ASSUME NEW A, NEW t \in Int, NEW u \in Int, t <= u, ArrayOK(A, t)
  PROVE  ArrayOK(A, u)
<1>1. ASSUME NEW x \in A
      PROVE  PointOK(x, u)
  <2>1. x.entry.task \in Tasks /\ x.at \in Int /\ PointOK(x, t)
    BY DEF ArrayOK, AllEntries
  <2>2. QED
    BY <2>1, PointsStay
<1>2. QED
  BY <1>1 DEF ArrayOK

LEMMA ChangedOK ==
  ASSUME NEW h \in ScrapeStates, NEW a, NEW b, NEW t, ScrapeOK(h, a, t),
         NEW k, k = [h EXCEPT !.kept = [res |-> @.res \cap b.res, cw |-> @.cw \cap b.cw]]
  PROVE  k \in ScrapeStates /\ ScrapeOK(k, b, t)
<1>1. /\ k.pc = h.pc /\ k.seen = h.seen /\ k.res = h.res /\ k.task = h.task /\ k.data = h.data
      /\ k.kept.res = h.kept.res \cap b.res /\ k.kept.cw = h.kept.cw \cap b.cw
  BY DEF ScrapeStates
<1>2. k \in ScrapeStates
  BY DEF ScrapeStates
<1>3. FoundOK(k) /\ WorkOK(k) /\ DataOK(k, t)
  BY <1>1 DEF ScrapeOK, FoundOK, WorkOK, DataOK
<1>4. KeptOK(k, b)
  <2>1. ASSUME NEW g \in Tasks, NEW r \in k.kept.res, NEW c \in k.kept.cw, Belongs(g, r, c),
               NEW stat \in Metric[g].stats
        PROVE  OnItsWay(k, g, r, c, stat)
    <3>1. OnItsWay(h, g, r, c, stat)
      BY <1>1, <2>1 DEF ScrapeOK, KeptOK
    <3>2. QED
      BY <1>1, <3>1 DEF OnItsWay
  <2>2. QED
    BY <1>1, <2>1 DEF KeptOK
<1>5. QED
  BY <1>2, <1>3, <1>4 DEF ScrapeOK

LEMMA PublishingOK ==
  ASSUME NEW h \in ScrapeStates, NEW a, NEW t, ScrapeOK(h, a, t), \A g \in Tasks : h.task[g].pc = "done",
         NEW k, k = [h EXCEPT !.pc = "publish"]
  PROVE  k \in ScrapeStates /\ ScrapeOK(k, a, t)
<1>1. /\ k.seen = h.seen /\ k.res = h.res /\ k.task = h.task /\ k.data = h.data /\ k.kept = h.kept
      /\ k.pc = "publish"
  BY DEF ScrapeStates
<1>2. k \in ScrapeStates
  BY DEF ScrapeStates
<1>3. FoundOK(k) /\ WorkOK(k) /\ DataOK(k, t)
  BY <1>1 DEF ScrapeOK, FoundOK, WorkOK, DataOK
<1>4. KeptOK(k, a)
  <2>1. ASSUME NEW g \in Tasks, NEW r \in k.kept.res, NEW c \in k.kept.cw, Belongs(g, r, c),
               NEW stat \in Metric[g].stats
        PROVE  OnItsWay(k, g, r, c, stat)
    <3>1. OnItsWay(h, g, r, c, stat)
      BY <1>1, <2>1 DEF ScrapeOK, KeptOK
    <3>2. QED
      BY <1>1, <3>1 DEF OnItsWay
  <2>2. QED
    BY <1>1, <2>1 DEF ScrapeOK, KeptOK
<1>5. QED
  BY <1>2, <1>3, <1>4 DEF ScrapeOK

\* A loop over some of a slice.
LEMMA DistinctDescs ==
  ASSUME NEW A, NEW S \in SUBSET A, NEW t, ArrayOK(A, t), OneDimension
  PROVE  Distinct(S)
<1> DEFINE D == {Desc(x) : x \in S}
           f == [x \in S |-> Desc(x)]
<1>1. IsFiniteSet(S) /\ \A x, y \in S : Desc(x) = Desc(y) => x = y
  BY FS_Subset DEF ArrayOK
<1>2. f \in Bijection(S, D)
  <2>1. f \in [S -> D]
    OBVIOUS
  <2>2. \A y \in D : \E x \in S : f[x] = y
    OBVIOUS
  <2>3. \A x, y \in S : f[x] = f[y] => x = y
    BY <1>1
  <2> HIDE DEF f, D
  <2>4. QED
    BY <2>1, <2>2, <2>3 DEF Bijection, Injection, Surjection, IsInjective
<1> HIDE DEF f
<1>3. ExistsBijection(S, D)
  BY <1>2 DEF ExistsBijection
<1> HIDE DEF D
<1>4. Cardinality(D) = Cardinality(S)
  BY <1>1, <1>3, FS_Bijection
<1>5. QED
  BY <1>4 DEF Distinct, D

Quiet == request.pc # "panic" /\ (OneDimension => request.pc # "duplicates")

\* A step of one scrape, with the slice and the requests as they are.
LEMMA ScrapeStepKeeps ==
  ASSUME MonitorInv, NEW s \in Scrapes, OnlyScrape(s), ScrapeOK(scrape'[s], account, now),
         metrics' = metrics, UNCHANGED <<serving, request, account, now>>
  PROVE  MonitorInv'
<1>1. StatesInv'
  BY DEF MonitorInv, StatesInv, OnlyScrape
<1>2. ASSUME NEW t \in Scrapes
      PROVE  ScrapeOK(scrape'[t], account', now')
  BY DEF MonitorInv, OnlyScrape
<1>3. ArrayOK(metrics'.array, now')
  BY DEF MonitorInv
<1>4. QED
  BY <1>1, <1>2, <1>3 DEF MonitorInv

\* A step of a request alone.
LEMMA RequestStepKeeps ==
  ASSUME MonitorInv, UNCHANGED <<serving, scrape, metrics, account, now>>,
         request' = [pc |-> request'.pc, descs |-> request'.descs],
         request'.pc \in RequestStates, Quiet'
  PROVE  MonitorInv'
<1>1. StatesInv'
  BY DEF MonitorInv, StatesInv
<1>2. ASSUME NEW t \in Scrapes
      PROVE  ScrapeOK(scrape'[t], account', now')
  BY DEF MonitorInv
<1>3. ArrayOK(metrics'.array, now')
  BY DEF MonitorInv
<1>4. QED
  BY <1>1, <1>2, <1>3 DEF MonitorInv, Quiet

LEMMA EmptyArrayOK ==
  ASSUME NEW t
  PROVE  ArrayOK({}, t)
BY FS_EmptySet DEF ArrayOK, Agree

LEMMA RestartKeeps ==
  ASSUME MonitorInv, Restart, UNCHANGED <<account, now>>
  PROVE  MonitorInv'
<1>1. IdleScrape \in ScrapeStates /\ ScrapeOK(IdleScrape, account, now)
  BY FreshOK DEF MonitorInv, StatesInv
<1>2. /\ request' = [pc |-> "idle", descs |-> {}] /\ metrics' = [array |-> {}, len |-> 0]
      /\ serving' = FALSE /\ scrape' = [s \in Scrapes |-> IdleScrape]
  BY DEF Restart, IdleRequest, NoMetrics
<1>3. StatesInv'
  BY <1>1, <1>2 DEF MonitorInv, StatesInv, RequestStates
<1>4. ASSUME NEW t \in Scrapes
      PROVE  ScrapeOK(scrape'[t], account', now')
  BY <1>1, <1>2
<1>5. ArrayOK(metrics'.array, now')
  BY <1>2, EmptyArrayOK
<1>6. QED
  BY <1>2, <1>3, <1>4, <1>5 DEF MonitorInv

LEMMA MonitorStarts ==
  Init => MonitorInv
<1> SUFFICES ASSUME Init PROVE MonitorInv
  OBVIOUS
<1>1. IdleScrape \in ScrapeStates /\ ScrapeOK(IdleScrape, account, now)
  BY FreshOK DEF Init
<1>2. /\ request = [pc |-> "idle", descs |-> {}] /\ metrics = [array |-> {}, len |-> 0]
      /\ scrape = [s \in Scrapes |-> IdleScrape] /\ now = StartTime /\ serving = FALSE
  BY DEF Init, IdleRequest, NoMetrics
<1>3. StatesInv
  <2>1. now \in StartTime .. MaxTime /\ account \in Accounts /\ serving \in BOOLEAN
    <3>1. now = StartTime /\ serving = FALSE /\ account \in Accounts
      BY <1>2 DEF Init
    <3>2. StartTime \in StartTime .. MaxTime
      BY TimesAssumption
    <3>3. QED
      BY <3>1, <3>2
  <2>2. scrape \in [Scrapes -> ScrapeStates]
    BY <1>1, <1>2
  <2>3. /\ request = [pc |-> request.pc, descs |-> request.descs] /\ request.pc \in RequestStates
        /\ metrics = [array |-> metrics.array, len |-> metrics.len] /\ metrics.len \in Nat
    BY <1>2 DEF RequestStates
  <2>4. QED
    BY <2>1, <2>2, <2>3 DEF StatesInv
<1>4. ASSUME NEW t \in Scrapes
      PROVE  ScrapeOK(scrape[t], account, now)
  BY <1>1, <1>2
<1>5. ArrayOK(metrics.array, now)
  BY <1>2, EmptyArrayOK
<1>6. QED
  BY <1>2, <1>3, <1>4, <1>5 DEF MonitorInv

LEMMA MonitorStays ==
  MonitorInv /\ [Next]_vars => MonitorInv'
<1> SUFFICES ASSUME MonitorInv, [Next]_vars PROVE MonitorInv'
  OBVIOUS
<1>1. /\ StatesInv /\ now \in Int /\ account \in Accounts
      /\ scrape \in [Scrapes -> ScrapeStates] /\ metrics.len \in Nat
      /\ metrics = [array |-> metrics.array, len |-> metrics.len]
  BY TimesAssumption DEF MonitorInv, StatesInv
<1>2. ASSUME NEW s \in Scrapes
      PROVE  scrape[s] \in ScrapeStates /\ ScrapeOK(scrape[s], account, now)
  BY <1>1 DEF MonitorInv
<1>3. ASSUME NEW s \in Scrapes, BeginScrape(s)
      PROVE  MonitorInv'
  <2>1. scrape' = [scrape EXCEPT ![s] = Begun(account)]
    BY <1>3 DEF BeginScrape, Begun
  <2>2. Begun(account) \in ScrapeStates /\ ScrapeOK(Begun(account), account, now)
    BY <1>1, FreshOK
  <2>3. OnlyScrape(s) /\ ScrapeOK(scrape'[s], account, now)
    BY <1>1, <2>1, <2>2 DEF OnlyScrape
  <2>4. QED
    BY <1>3, <2>3, ScrapeStepKeeps DEF BeginScrape
<1>4. ASSUME NEW s \in Scrapes, NEW j \in Jobs, TagPage(s, j)
      PROVE  MonitorInv'
  <2>1. OnlyScrape(s) /\ \E page \in SUBSET Resources : Paged(scrape[s], scrape'[s], account, j, page)
    BY <1>1, <1>4, TagPageEffect
  <2>2. ScrapeOK(scrape'[s], account, now)
    BY <1>1, <1>2, <2>1, PagedOK DEF OnlyScrape
  <2>3. QED
    BY <1>4, <2>1, <2>2, ScrapeStepKeeps DEF TagPage
<1>5. ASSUME NEW s \in Scrapes, NEW g \in Tasks, ListMetrics(s, g)
      PROVE  MonitorInv'
  <2>1. OnlyScrape(s) /\ \E named : Listed(scrape[s], scrape'[s], account, g, named)
    BY <1>1, <1>5, ListMetricsEffect
  <2>2. ScrapeOK(scrape'[s], account, now)
    BY <1>1, <1>2, <2>1, ListedOK DEF OnlyScrape
  <2>3. QED
    BY <1>5, <2>1, <2>2, ScrapeStepKeeps DEF ListMetrics
<1>6. ASSUME NEW s \in Scrapes, NEW g \in Tasks, Query(s, g)
      PROVE  MonitorInv'
  <2>1. OnlyScrape(s) /\ \E batch, at : Queried(scrape[s], scrape'[s], now, g, batch, at)
    BY <1>1, <1>6, QueryEffect
  <2>2. ScrapeOK(scrape'[s], account, now)
    BY <1>1, <1>2, <2>1, QueriedOK DEF OnlyScrape
  <2>3. QED
    BY <1>6, <2>1, <2>2, ScrapeStepKeeps DEF Query
<1>7. ASSUME NEW s \in Scrapes, WriteLength(s)
      PROVE  MonitorInv'
  <2> DEFINE k == [scrape[s] EXCEPT !.pc = "publish"]
             n == Cardinality(Series(s))
  <2>1. k \in ScrapeStates /\ ScrapeOK(k, account, now)
    BY <1>2, <1>7, PublishingOK DEF WriteLength, AllDone
  <2>2. scrape' = [scrape EXCEPT ![s] = k]
    BY <1>1, <1>7 DEF WriteLength
  <2>3. n \in Nat
    <3>1. IsFiniteSet(scrape[s].data)
      BY <1>2 DEF ScrapeOK, DataOK
    <3>2. QED
      BY <3>1, FiniteSeries, SeriesAre
  <2> HIDE DEF k, n
  <2>4. metrics' = [array |-> metrics.array, len |-> n]
    BY <1>1, <1>7 DEF WriteLength, n
  <2>5. StatesInv'
    BY <1>1, <1>7, <2>1, <2>2, <2>3, <2>4 DEF WriteLength, StatesInv
  <2>6. ASSUME NEW t \in Scrapes
        PROVE  ScrapeOK(scrape'[t], account', now')
    BY <1>1, <1>2, <1>7, <2>1, <2>2 DEF WriteLength
  <2>7. ArrayOK(metrics'.array, now')
    BY <1>7, <2>4 DEF WriteLength, MonitorInv
  <2>8. QED
    BY <1>7, <2>5, <2>6, <2>7 DEF WriteLength, MonitorInv
<1>8. ASSUME NEW s \in Scrapes, WritePointer(s)
      PROVE  MonitorInv'
  <2>1. IdleScrape \in ScrapeStates /\ ScrapeOK(IdleScrape, account, now)
    BY <1>1, FreshOK
  <2>2. metrics' = [array |-> Series(s), len |-> metrics.len]
    BY <1>1, <1>8 DEF WritePointer
  <2>3. StatesInv'
    BY <1>1, <1>8, <2>1, <2>2 DEF WritePointer, StatesInv
  <2>4. ASSUME NEW t \in Scrapes
        PROVE  ScrapeOK(scrape'[t], account', now')
    BY <1>1, <1>2, <1>8, <2>1 DEF WritePointer
  <2>5. ArrayOK(metrics'.array, now')
    BY <1>2, <1>8, <2>2, SeriesOK, SeriesAre DEF WritePointer
  <2>6. QED
    BY <1>8, <2>3, <2>4, <2>5 DEF WritePointer, MonitorInv
<1>9. ASSUME NEW s \in Scrapes, Fatal(s)
      PROVE  MonitorInv'
  BY <1>9, RestartKeeps DEF Fatal
<1>10. ASSUME Register
       PROVE  MonitorInv'
  <2>1. PICK S \in SUBSET metrics.array :
          request' = IF Agree(S) THEN [pc |-> "gather", descs |-> {Desc(x) : x \in S}]
                     ELSE [IdleRequest EXCEPT !.pc = "panic"]
    BY <1>10 DEF Register, Reads, kSubset
  <2>2. Agree(S)
    BY DEF MonitorInv, ArrayOK, Agree
  <2> DEFINE D == {Desc(x) : x \in S}
  <2>3. request' = [pc |-> "gather", descs |-> D]
    BY <2>1, <2>2
  <2> HIDE DEF D
  <2>4. QED
    BY <1>10, <2>3, RequestStepKeeps DEF Register, Quiet, RequestStates
<1>11. ASSUME Gather
       PROVE  MonitorInv'
  <2>1. PICK S \in SUBSET metrics.array :
          request' = [request EXCEPT !.pc =
             IF ~Distinct(S) THEN "duplicates"
             ELSE IF request.descs # {} /\ ~({Desc(x) : x \in S} \subseteq request.descs)
             THEN "undescribed" ELSE "ok"]
    BY <1>11 DEF Gather, Reads, kSubset
  <2>2. OneDimension => Distinct(S)
    BY DistinctDescs DEF MonitorInv
  <2>3. \E pc \in {"duplicates", "undescribed", "ok"} :
          request' = [request EXCEPT !.pc = pc] /\ (pc = "duplicates" => ~Distinct(S))
    BY <2>1
  <2>4. request' = [pc |-> request'.pc, descs |-> request.descs] /\ request'.pc \in {"duplicates", "undescribed", "ok"}
    BY <1>1, <2>3 DEF StatesInv
  <2>5. OneDimension => request'.pc # "duplicates"
    BY <1>1, <2>2, <2>3 DEF StatesInv
  <2>6. QED
    BY <1>11, <2>4, <2>5, RequestStepKeeps DEF Gather, Quiet, RequestStates
<1>12. ASSUME EndRequest
       PROVE  MonitorInv'
  BY <1>12, RequestStepKeeps DEF EndRequest, IdleRequest, Quiet, RequestStates
<1>13. ASSUME ReadPastEnd
       PROVE  MonitorInv'
  BY <1>13, RestartKeeps DEF ReadPastEnd
<1>14. ASSUME AccountChanges
       PROVE  MonitorInv'
  <2>1. ASSUME NEW s \in Scrapes
        PROVE  scrape'[s] \in ScrapeStates /\ ScrapeOK(scrape'[s], account', now)
    BY <1>2, <1>14, ChangedOK DEF AccountChanges
  <2>2. StatesInv'
    BY <1>1, <1>14, <2>1 DEF AccountChanges, StatesInv
  <2>3. QED
    BY <1>14, <2>1, <2>2 DEF AccountChanges, MonitorInv
<1>15. ASSUME TimePasses
       PROVE  MonitorInv'
  <2>1. now' \in Int /\ now <= now' /\ now' \in StartTime .. MaxTime
    BY <1>1, <1>15, TimesAssumption DEF TimePasses, StatesInv
  <2>2. ASSUME NEW s \in Scrapes
        PROVE  ScrapeOK(scrape'[s], account', now')
    BY <1>1, <1>2, <1>15, <2>1, LaterOK DEF TimePasses
  <2>3. ArrayOK(metrics'.array, now')
    BY <1>1, <1>15, <2>1, LaterArrayOK DEF TimePasses, MonitorInv
  <2>4. StatesInv'
    BY <1>1, <1>15, <2>1 DEF TimePasses, StatesInv
  <2>5. QED
    BY <1>15, <2>2, <2>3, <2>4 DEF TimePasses, MonitorInv
<1>16. CASE UNCHANGED vars
  BY <1>16 DEF vars, MonitorInv, StatesInv
<1>17. QED
  BY <1>3, <1>4, <1>5, <1>6, <1>7, <1>8, <1>9, <1>10, <1>11, <1>12, <1>13, <1>14, <1>15, <1>16
     DEF Next, ScrapeStep

LEMMA MonitorInvariant == Spec => []MonitorInv
<1>1. QED
  BY MonitorStarts, MonitorStays, PTL DEF Spec

-----------------------------------------------------------------------------
(* What the invariant implies *)

\* The variables of the scrapes, of the slice and of a request take the values
\* they should; only resources that were seen are kept (AwsMonitor).
THEOREM MonitorTypes == Spec => []TypeOK
<1>1. ASSUME MonitorInv PROVE TypeOK
  <2>1. ASSUME NEW s \in Scrapes
        PROVE  /\ scrape[s].pc \in {"idle", "collect", "publish"}
               /\ \A j \in Jobs : scrape[s].res[j] \subseteq scrape[s].seen[j]
               /\ \A g \in Tasks : scrape[s].task[g].pc \in {"wait", "list", "query", "done"}
    <3>1. scrape[s] \in ScrapeStates /\ FoundOK(scrape[s])
      BY <1>1 DEF MonitorInv, StatesInv, ScrapeOK
    <3>2. QED
      BY <3>1 DEF ScrapeStates, TaskStates, FoundOK
  <2>2. QED
    BY <1>1, <2>1 DEF MonitorInv, StatesInv, TypeOK, RequestStates
<1>2. MonitorInv => TypeOK
  BY <1>1
<1>3. QED
  BY <1>2, MonitorInvariant, PTL

\* Whenever a scrape comes, and however long its queries take, a metric that is
\* rounded to its own period is exported with a value that will not change: the
\* period of its point is over (createGetMetricDataInput, addQueryResultsToMetricData).
THEOREM PointsFinal == Spec => []PointsAreFinal
<1>1. ASSUME MonitorInv PROVE PointsAreFinal
  <2> SUFFICES ASSUME NEW x \in metrics.array,
                      x.at # NoPoint, Job[x.entry.task[1]].rounding = NotConfigured,
                      Metric[x.entry.task].period <= Default
               PROVE  x.at + Metric[x.entry.task].period <= now
    BY DEF PointsAreFinal
  <2> DEFINE g == x.entry.task
             period == Metric[g].period
  <2>1. PointOK(x, now) /\ g \in Tasks /\ x.at \in Int /\ now \in Int
    BY <1>1, TimesAssumption DEF MonitorInv, ArrayOK, AllEntries, StatesInv
  <2>2. x.at <= Latest(g, now) /\ Latest(g, now) \in Int
    BY <2>1, LatestMonotone DEF PointOK
  <2>3. period \in Positive /\ Default \in Positive /\ Job[g[1]].delay \in Nat
    BY <2>1, TaskJobs
  <2>4. Latest(g, now) + period <= now
    BY <2>1, <2>3, NewestPointIsFinal DEF Latest
  <2>5. QED
    BY <2>1, <2>2, <2>3, <2>4 DEF Positive
<1>2. MonitorInv => PointsAreFinal
  BY <1>1
<1>3. QED
  BY <1>2, MonitorInvariant, PTL

\* No series is exported under a resource of another metric or job, nor under one
\* that lacks a tag (filterThroughTags, getCloudwatchDataFromMetric).
THEOREM ResourcesAreTheirs == Spec => []SeriesNameTheirResource
<1>1. ASSUME MonitorInv, NEW x \in metrics.array
      PROVE  /\ Matches(x.entry.cw, {x.labels["name"]}) # {}
             /\ x.entry.task[1] \in Resource[x.labels["name"]].types
             /\ \A k \in DOMAIN Job[x.entry.task[1]].searchTags :
                  Matching(k, Resource[x.labels["name"]].tags, Job[x.entry.task[1]].searchTags)
  <2> DEFINE arn == x.entry.res
             job == x.entry.task[1]
             search == Job[job].searchTags
             tagged == {k \in DOMAIN search : Matching(k, Resource[arn].tags, search)}
  <2>1. /\ EntryOK(x.entry) /\ x.entry.task \in Tasks /\ x.entry.res \in Resources
        /\ x.labels["name"] = arn
    BY <1>1 DEF MonitorInv, ArrayOK, AllEntries, PointOK
  <2>2. Matches(x.entry.cw, {arn}) # {}
    <3>1. arn \in Matches(x.entry.cw, Resources) /\ {arn} \in SUBSET Resources
      BY <2>1 DEF EntryOK
    <3>2. arn \in Matches(x.entry.cw, {arn})
      BY <3>1, MatchesIn
    <3>3. QED
      BY <3>2
  <2>3. tagged = DOMAIN search
    <3>1. Cardinality(tagged) = Cardinality(DOMAIN search)
      BY <2>1 DEF EntryOK, Tagged
    <3>2. IsFiniteSet(DOMAIN search)
      BY <2>1, TaskJobs, FiniteAssumption
    <3>3. tagged \in SUBSET DOMAIN search
      OBVIOUS
    <3> HIDE DEF tagged
    <3>4. QED
      BY <3>1, <3>2, <3>3, FS_Subset
  <2>4. \A k \in DOMAIN search : Matching(k, Resource[arn].tags, search)
    BY <2>3
  <2>5. QED
    BY <2>1, <2>2, <2>4 DEF EntryOK
<1>2. MonitorInv => SeriesNameTheirResource
  BY <1>1 DEF SeriesNameTheirResource
<1>3. QED
  BY <1>2, MonitorInvariant, PTL

\* Whatever a request reads of the slice, and whenever, its label names agree; and
\* if no two dimensions of a metric name resources, nothing is there twice
\* (ensureLabelConsistencyForMetrics, Describe, Collect).
THEOREM RequestsGetConsistentSeries == Spec => []SeriesAreConsistent
<1>1. MonitorInv => SeriesAreConsistent
  BY DEF MonitorInv, SeriesAreConsistent, OneDimension
<1>2. QED
  BY <1>1, MonitorInvariant, PTL

\* What belongs to a resource that stays is in the series that a scrape publishes,
\* in whatever order pages, goroutines and batches come (getMetricDataForQueries,
\* getFilteredMetricDatas).
THEOREM KeptAreExported == Spec => []KeptMetricsAreExported
<1>1. ASSUME MonitorInv PROVE KeptMetricsAreExported
  <2> SUFFICES ASSUME NEW s \in Scrapes, scrape[s].pc = "publish",
                      NEW g \in Tasks, NEW r \in scrape[s].kept.res, NEW c \in scrape[s].kept.cw,
                      g[1] \in Resource[r].types /\ Tagged(g[1], r)
                        /\ <<Cw[c].type, Cw[c].name>> = g /\ Matches(c, {r}) # {},
                      NEW stat \in Metric[g].stats
               PROVE  LET found == {x \in Series(s) : x.entry.task = g /\ x.entry.stat = stat
                                                         /\ x.entry.cw = c /\ x.entry.via = r}
                      IN  Cardinality(found) = 1 \/ (found = {} /\ Metric[g].timestamp)
    BY <1>1, Zenon DEF KeptMetricsAreExported
  <2> DEFINE h == scrape[s]
             key == <<g, stat, c, r>>
             S == Sent(h.data)
             found == {x \in Series(s) : x.entry.task = g /\ x.entry.stat = stat
                                            /\ x.entry.cw = c /\ x.entry.via = r}
  <2>1. h \in ScrapeStates /\ ScrapeOK(h, account, now)
    BY <1>1 DEF MonitorInv, StatesInv
  <2>2. Belongs(g, r, c)
    <3>1. r \in Resources
      BY <1>1, <2>1 DEF ScrapeStates
    <3>2. r \in Matches(c, {r})
      BY <1>1 DEF Matches
    <3>3. r \in Matches(c, Resources)
      BY <3>1, <3>2, MatchesIn
    <3>4. QED
      BY <1>1, <3>3 DEF Belongs
  <2>3. OnItsWay(h, g, r, c, stat) /\ h.task[g].pc = "done" /\ h.task[g].todo = {}
    BY <1>1, <2>1, <2>2 DEF ScrapeOK, KeptOK, FoundOK, WorkOK
  <2>4. PICK d \in h.data : Key(d.entry) = key
    BY <2>3 DEF OnItsWay
  <2>5. \A f \in h.data : Key(f.entry) = key => f = d
    BY <2>1, <2>4 DEF ScrapeOK, WorkOK
  <2>6. ASSUME NEW x
        PROVE  x \in found <=> d \in S /\ x = SeriesOf(S, d)
    <3>1. Series(s) = {SeriesOf(S, f) : f \in S}
      BY SeriesAre DEF AllSeries
    <3>2. ASSUME NEW f \in S
          PROVE  /\ f \in h.data /\ SeriesOf(S, f).entry = f.entry
                 /\ Key(f.entry) = key <=> /\ f.entry.task = g /\ f.entry.stat = stat
                                            /\ f.entry.cw = c /\ f.entry.via = r
      BY DEF Sent, SeriesOf, Key
    <3> HIDE DEF S, h, key
    <3>3. ASSUME x \in found
          PROVE  d \in S /\ x = SeriesOf(S, d)
      <4>1. PICK f \in S : x = SeriesOf(S, f)
        BY <3>1, <3>3
      <4>2. Key(f.entry) = key
        BY <3>2, <3>3, <4>1
      <4>3. QED
        BY <2>5, <3>2, <4>1, <4>2
    <3>4. ASSUME d \in S, x = SeriesOf(S, d)
          PROVE  x \in found
      BY <2>4, <3>1, <3>2, <3>4
    <3>5. QED
      BY <3>3, <3>4
  <2>7. CASE d \in S
    <3>1. found = {SeriesOf(S, d)}
      BY <2>6, <2>7
    <3>2. Cardinality(found) = 1
      BY <3>1, FS_Singleton
    <3>3. QED
      BY <3>2
  <2>8. CASE d \notin S
    <3>1. found = {}
      BY <2>6, <2>8
    <3>2. d.entry.task = g
      BY <2>4 DEF Key
    <3>3. Metric[g].timestamp
      BY <2>4, <2>8, <3>2 DEF Sent
    <3>4. QED
      BY <3>1, <3>3
  <2>9. QED
    BY <2>7, <2>8
<1>2. MonitorInv => KeptMetricsAreExported
  BY <1>1
<1>3. QED
  BY <1>2, MonitorInvariant, PTL

-----------------------------------------------------------------------------
(* The points of one scrape after another *)

OneScrape == \A s, t \in Scrapes : s = t

\* A scrape's points are not older than those of the scrape before it.
Newer(D, A) ==
    \A d \in D, x \in A :
      d.entry.task = x.entry.task /\ d.at # NoPoint /\ x.at # NoPoint => d.at >= x.at

NewerInv == \A s \in Scrapes : Newer(scrape[s].data, metrics.array)

NoOlder ==
    \A x \in metrics.array, y \in metrics'.array :
      Desc(x) = Desc(y) /\ x.at # NoPoint /\ y.at # NoPoint => y.at >= x.at

LEMMA NewerStarts ==
  Init => NewerInv
BY DEF Init, NewerInv, Newer, NoMetrics

LEMMA NewerStays ==
  ASSUME OneScrape, MonitorInv, NewerInv, [Next]_vars
  PROVE  NewerInv'
<1>1. /\ StatesInv /\ now \in Int /\ account \in Accounts /\ scrape \in [Scrapes -> ScrapeStates]
  BY TimesAssumption DEF MonitorInv, StatesInv
<1>2. ASSUME metrics'.array = metrics.array,
             \A s \in Scrapes : scrape'[s].data \subseteq scrape[s].data
      PROVE  NewerInv'
  <2>1. ASSUME NEW s \in Scrapes
        PROVE  Newer(scrape'[s].data, metrics'.array)
    BY <1>2 DEF NewerInv, Newer
  <2>2. QED
    BY <2>1 DEF NewerInv
<1>3. ASSUME metrics'.array = {} \/ \A s \in Scrapes : scrape'[s].data = {}
      PROVE  NewerInv'
  BY <1>3 DEF NewerInv, Newer
<1>4. ASSUME NEW s \in Scrapes, OnlyScrape(s), scrape'[s].data = scrape[s].data, metrics' = metrics
      PROVE  NewerInv'
  BY <1>2, <1>4 DEF OnlyScrape
<1>5. ASSUME Restart
      PROVE  NewerInv'
  BY <1>3, <1>5 DEF Restart, NoMetrics
<1>6. ASSUME NEW s \in Scrapes, BeginScrape(s)
      PROVE  NewerInv'
  <2>1. scrape' = [scrape EXCEPT ![s] = Begun(account)] /\ metrics' = metrics
    BY <1>6 DEF BeginScrape, Begun
  <2>2. Begun(account).data = {}
    BY DEF Begun, IdleScrape
  <2>3. QED
    BY <1>1, <1>2, <2>1, <2>2
<1>7. ASSUME NEW s \in Scrapes, NEW j \in Jobs, TagPage(s, j)
      PROVE  NewerInv'
  <2>1. OnlyScrape(s) /\ scrape'[s].data = scrape[s].data
    <3>1. OnlyScrape(s) /\ \E page \in SUBSET Resources : Paged(scrape[s], scrape'[s], account, j, page)
      BY <1>1, <1>7, TagPageEffect
    <3>2. PICK page \in SUBSET Resources : Paged(scrape[s], scrape'[s], account, j, page)
      BY <3>1
    <3>3. SameBut(scrape[s], scrape'[s], {"seen", "res", "task"})
      BY <3>2 DEF Paged
    <3>4. QED
      BY <3>1, <3>3 DEF SameBut
  <2>2. QED
    BY <1>4, <1>7, <2>1 DEF TagPage
<1>8. ASSUME NEW s \in Scrapes, NEW g \in Tasks, ListMetrics(s, g)
      PROVE  NewerInv'
  <2>1. OnlyScrape(s) /\ scrape'[s].data = scrape[s].data
    BY <1>1, <1>8, ListMetricsEffect DEF Listed, SameBut
  <2>2. QED
    BY <1>4, <1>8, <2>1 DEF ListMetrics
<1>9. ASSUME NEW s \in Scrapes, NEW g \in Tasks, Query(s, g)
      PROVE  NewerInv'
  <2>1. OnlyScrape(s) /\ metrics' = metrics
    BY <1>1, <1>9, QueryEffect DEF Query
  <2>2. PICK batch, at : Queried(scrape[s], scrape'[s], now, g, batch, at)
    BY <1>1, <1>9, QueryEffect
  <2>3. /\ batch \subseteq scrape[s].task[g].todo /\ at \in [batch -> {NoPoint, Latest(g, now)}]
        /\ scrape'[s].data = scrape[s].data \cup {[entry |-> e, at |-> at[e]] : e \in batch}
    BY <2>2 DEF Queried
  <2>4. ASSUME NEW d \in scrape'[s].data, NEW x \in metrics.array,
               d.entry.task = x.entry.task, d.at # NoPoint, x.at # NoPoint
        PROVE  d.at >= x.at
    <3>1. CASE d \in scrape[s].data
      BY <2>4, <3>1 DEF NewerInv, Newer
    <3>2. CASE d \notin scrape[s].data
      <4>1. PICK e \in batch : d = [entry |-> e, at |-> at[e]]
        BY <2>3, <3>2
      <4>2. d.entry.task = g /\ d.at = Latest(g, now)
        BY <2>3, <2>4, <4>1 DEF MonitorInv, ScrapeOK, WorkOK
      <4>3. x.at <= Latest(g, now) /\ x.at \in Int
        BY <2>4, <4>2 DEF MonitorInv, ArrayOK, PointOK
      <4>4. Latest(g, now) \in Int
        BY <1>1, LatestMonotone
      <4>5. QED
        BY <4>2, <4>3, <4>4
    <3>3. QED
      BY <3>1, <3>2
  <2>5. ASSUME NEW t \in Scrapes
        PROVE  Newer(scrape'[t].data, metrics'.array)
    <3>1. CASE t = s
      BY <2>1, <2>4, <3>1 DEF Newer
    <3>2. CASE t # s
      BY <2>1, <3>2 DEF OnlyScrape, NewerInv
    <3>3. QED
      BY <3>1, <3>2
  <2>6. QED
    BY <2>5 DEF NewerInv
<1>10. ASSUME NEW s \in Scrapes, WriteLength(s)
       PROVE  NewerInv'
  <2>1. metrics'.array = metrics.array /\ scrape' = [scrape EXCEPT ![s].pc = "publish"]
    BY <1>1, <1>10 DEF WriteLength, StatesInv
  <2>2. \A t \in Scrapes : scrape'[t].data = scrape[t].data
    BY <1>1, <2>1 DEF ScrapeStates
  <2>3. QED
    BY <1>2, <2>1, <2>2
<1>11. ASSUME NEW s \in Scrapes, WritePointer(s)
       PROVE  NewerInv'
  <2>1. scrape'[s] = IdleScrape /\ \A t \in Scrapes : t = s
    BY <1>1, <1>11 DEF WritePointer, OneScrape
  <2>2. IdleScrape.data = {}
    BY DEF IdleScrape
  <2>3. QED
    BY <1>3, <2>1, <2>2
<1>12. ASSUME NEW s \in Scrapes, Fatal(s)
       PROVE  NewerInv'
  BY <1>5, <1>12 DEF Fatal
<1>13. ASSUME Register \/ Gather \/ EndRequest \/ TimePasses \/ UNCHANGED vars
       PROVE  NewerInv'
  <2>1. scrape' = scrape /\ metrics' = metrics
    BY <1>13 DEF Register, Gather, EndRequest, TimePasses, vars
  <2>2. QED
    BY <1>2, <2>1
<1>14. ASSUME ReadPastEnd
       PROVE  NewerInv'
  BY <1>5, <1>14 DEF ReadPastEnd
<1>15. ASSUME AccountChanges
       PROVE  NewerInv'
  <2>1. metrics' = metrics /\ \A t \in Scrapes : scrape'[t].data = scrape[t].data
    BY <1>1, <1>15 DEF AccountChanges, ScrapeStates
  <2>2. QED
    BY <1>2, <2>1
<1>16. QED
  BY <1>6, <1>7, <1>8, <1>9, <1>10, <1>11, <1>12, <1>13, <1>14, <1>15 DEF Next, ScrapeStep

LEMMA StepNoOlder ==
  ASSUME OneDimension, MonitorInv, NewerInv, [Next]_vars, metrics' # metrics
  PROVE  NoOlder
<1>1. ASSUME metrics'.array = metrics.array
      PROVE  NoOlder
  <2>1. \A x, y \in metrics.array : Desc(x) = Desc(y) => x = y
    BY DEF MonitorInv, ArrayOK
  <2>2. \A x \in metrics.array : x.at \in Int
    BY DEF MonitorInv, ArrayOK
  <2>3. QED
    BY <1>1, <2>1, <2>2 DEF NoOlder
<1>2. ASSUME Restart
      PROVE  NoOlder
  BY <1>2 DEF Restart, NoMetrics, NoOlder
<1>3. ASSUME NEW s \in Scrapes, WritePointer(s)
      PROVE  NoOlder
  <2>1. metrics'.array = AllSeries(scrape[s].data)
    BY <1>3, SeriesAre DEF WritePointer, MonitorInv, StatesInv
  <2>2. ASSUME NEW x \in metrics.array, NEW y \in metrics'.array, Desc(x) = Desc(y),
               x.at # NoPoint, y.at # NoPoint
        PROVE  y.at >= x.at
    <3> DEFINE S == Sent(scrape[s].data)
    <3>1. PICK d \in S : y = SeriesOf(S, d)
      BY <2>1, <2>2 DEF AllSeries
    <3>2. d \in scrape[s].data /\ y.at = d.at /\ y.name = NameOf(d.entry)
      BY <3>1 DEF Sent, SeriesOf
    <3>3. x.name = NameOf(x.entry)
      BY DEF MonitorInv, ArrayOK
    <3>4. NameOf(x.entry) = NameOf(d.entry)
      BY <2>2, <3>2, <3>3 DEF Desc
    <3>5. x.entry.task = d.entry.task
      BY <3>4 DEF NameOf
    <3>6. QED
      BY <2>2, <3>2, <3>5 DEF NewerInv, Newer
  <2>3. QED
    BY <2>2 DEF NoOlder
<1>4. ASSUME NEW s \in Scrapes, WriteLength(s)
      PROVE  NoOlder
  BY <1>1, <1>4 DEF WriteLength, MonitorInv, StatesInv
<1>5. ASSUME NEW s \in Scrapes, BeginScrape(s) \/ ScrapeStep(s) \/ Fatal(s)
      PROVE  NoOlder
  <2>1. CASE BeginScrape(s)
    BY <2>1 DEF BeginScrape
  <2>2. CASE \E j \in Jobs : TagPage(s, j)
    BY <2>2 DEF TagPage
  <2>3. CASE \E g \in Tasks : ListMetrics(s, g) \/ Query(s, g)
    BY <2>3 DEF ListMetrics, Query
  <2>4. CASE Fatal(s)
    BY <1>2, <2>4 DEF Fatal
  <2>5. QED
    BY <1>3, <1>4, <1>5, <2>1, <2>2, <2>3, <2>4 DEF ScrapeStep
<1>6. CASE Register \/ Gather \/ EndRequest \/ AccountChanges \/ TimePasses \/ UNCHANGED vars
  BY <1>6 DEF Register, Gather, EndRequest, AccountChanges, TimePasses, vars
<1>7. CASE ReadPastEnd
  BY <1>2, <1>7 DEF ReadPastEnd
<1>8. QED
  BY <1>5, <1>6, <1>7 DEF Next

\* While no two scrapes overlap, the next one never replaces the point of a series
\* by an older one: no window ends before that of an earlier scrape
\* (determineGetMetricDataWindow, scrapeAwsData).
THEOREM PointsGoForward ==
  ASSUME OneScrape, OneDimension
  PROVE  Spec => PointsNeverRegress
<1>1. MonitorInv /\ NewerInv /\ [Next]_vars => NewerInv'
  BY NewerStays
<1>2. MonitorInv /\ NewerInv /\ [Next]_vars => [NoOlder]_metrics
  BY StepNoOlder
<1>3. Spec => [][NoOlder]_metrics
  BY <1>1, <1>2, NewerStarts, MonitorInvariant, PTL DEF Spec
<1>4. QED
  BY <1>3 DEF NoOlder, PointsNeverRegress
=============================================================================
