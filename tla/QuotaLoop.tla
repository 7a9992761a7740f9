----------------------------- MODULE QuotaLoop -----------------------------
(***************************************************************************)
(* What the Azure, GCP and AliCloud exporters have in common: main's loop, *)
(* which runs a first Scrape, serves, and starts a Scrape at every tick;   *)
(* common.QuotaCache; and Collect, which each request of Prometheus runs   *)
(* in a goroutine of its own: it copies the cache, sets the two gauges of  *)
(* every copied result one after the other, and sends one gauge, then the  *)
(* other.  The gauges are shared by all requests.  Compared with           *)
(* AwsExporter the clock is left out: a tick may come at any time, and a   *)
(* cached result may expire at any time.                                   *)
(***************************************************************************)
CONSTANTS
    Scrapes,  \* slots: the scrapes that can be in flight together
    Overlap,  \* may a tick come while a scrape is in flight?
    Requests  \* slots: the requests that can be in flight together

ASSUME OverlapAssumption == Overlap \in BOOLEAN

VARIABLES
    process,    \* "down", "boot" (first Scrape) or "serving"
    inFlight,   \* the scrapes in flight
    cache,      \* common.QuotaCache, from key to object
    request,    \* the requests in flight
    gaugeCurrent, \* common.QuotaCurrent: the usage shown per series
    gaugeLimit, \* common.QuotaLimit: the limit shown per series
    overlapped, \* history: have two requests been in flight together?
    written,    \* history: the objects cached since the process started
    stale,      \* history: scrapes in flight that miss something, because the
                \* account changed after they began or a call failed, or whose
                \* results a scrape that misses something may overwrite
    settled     \* history: a scrape read the account as it is now, in full, and
                \* no scrape overwrites it with what was before

scrapeVars == <<process, inFlight, cache, written, stale, settled>>
collectVars == <<request, gaugeCurrent, gaugeLimit, overlapped>>
loopVars == <<scrapeVars, collectVars>>

Empty == [x \in {} |-> 0]
Override(f, g) == [x \in DOMAIN f \cup DOMAIN g |-> IF x \in DOMAIN g THEN g[x] ELSE f[x]]
Only(key, value) == [x \in {key} |-> value]
Without(f, key) == [x \in DOMAIN f \ {key} |-> f[x]]

NoAnswer == [usage |-> Empty, limit |-> Empty]

\* items: the copied results whose gauges are not both set; at: the one whose
\* usage is set but not its limit, with its labels; sent: what is in the answer.
IdleRequest == [pc |-> "idle", items |-> Empty, at |-> Empty, sent |-> NoAnswer]
NoRequests == [r \in Requests |-> IdleRequest]

LoopInit ==
    /\ process = "down" /\ inFlight = {} /\ cache = Empty
    /\ request = NoRequests /\ gaugeCurrent = Empty /\ gaugeLimit = Empty
    /\ overlapped = FALSE
    /\ written = {} /\ stale = {} /\ settled = FALSE

\* exporter.Scrape(ctx) before main serves, go exporter.Scrape(ctx) at a tick.
Begin(s) ==
    /\ \/ process = "down" /\ process' = "boot"
       \/ /\ process = "serving" /\ process' = process
          /\ s \notin inFlight
          /\ Overlap \/ inFlight = {}
    /\ inFlight' = inFlight \cup {s}
    /\ stale' = IF stale = {} THEN {} ELSE stale \cup {s}
    /\ UNCHANGED <<cache, written, settled, collectVars>>

Return(s) ==
    /\ s \in inFlight
    /\ process' = "serving"
    /\ inFlight' = inFlight \ {s}
    /\ stale' = stale \ {s}
    /\ settled' = (settled \/ s \notin stale)
    /\ UNCHANGED <<cache, written, collectVars>>

\* The process ends, by a panic or because the container is stopped.
Die ==
    /\ process # "down" /\ process' = "down"
    /\ inFlight' = {} /\ cache' = Empty
    /\ request' = NoRequests /\ gaugeCurrent' = Empty /\ gaugeLimit' = Empty
    /\ overlapped' = FALSE
    /\ written' = {} /\ stale' = {} /\ settled' = FALSE

\* Mutant of CacheSet: Add, which leaves an entry that exists alone.
CacheAdd(key, object) ==
    /\ cache' = Override(Only(key, object), cache)
    /\ written' = written \cup {<<key, object>>}
    /\ UNCHANGED <<process, inFlight, stale, settled, collectVars>>

\* common.QuotaCache.Set(key, object, cache.DefaultExpiration)
CacheSet(key, object) ==
    /\ cache' = Override(cache, Only(key, object))
    /\ written' = written \cup {<<key, object>>}
    /\ UNCHANGED <<process, inFlight, stale, settled, collectVars>>

Expire ==
    /\ \E key \in DOMAIN cache : cache' = Without(cache, key)
    /\ UNCHANGED <<process, inFlight, written, stale, settled, collectVars>>

\* The account changes: no scrape in flight is sure to see it.
AccountChanged ==
    /\ stale' = inFlight /\ settled' = FALSE
    /\ UNCHANGED <<process, inFlight, cache, written, collectVars>>

\* A failed call that the scrape survives.
Misses(s) ==
    /\ stale' = stale \cup {s}
    /\ UNCHANGED <<process, inFlight, cache, written, settled, collectVars>>

-----------------------------------------------------------------------------
(* Collect, for request r *)

Arrive(r) ==
    /\ process = "serving" /\ request[r].pc = "idle"
    /\ request' = [request EXCEPT ![r].pc = "begun"]
    /\ overlapped' = (overlapped \/ \E q \in Requests : request[q].pc # "idle")
    /\ UNCHANGED <<scrapeVars, gaugeCurrent, gaugeLimit>>

\* common.QuotaCache.Items()
CopyItems(r) ==
    /\ request[r].pc = "begun"
    /\ request' = [request EXCEPT ![r].pc = "set", ![r].items = cache]
    /\ UNCHANGED <<scrapeVars, gaugeCurrent, gaugeLimit, overlapped>>

\* common.QuotaCurrent.WithLabelValues(...).Set(result...CurrentValue)
SetUsage(r, key, labels) ==
    /\ request[r].pc = "set" /\ key \in DOMAIN request[r].items /\ request[r].at = Empty
    /\ gaugeCurrent' = Override(gaugeCurrent, Only(labels, request[r].items[key].current))
    /\ request' = [request EXCEPT ![r].at = Only(key, labels)]
    /\ UNCHANGED <<scrapeVars, gaugeLimit, overlapped>>

\* Mutant of SetLimit: the limit is set only when the series is new.
SetNewLimit(r, key, labels) ==
    /\ key \in DOMAIN request[r].at
    /\ gaugeLimit' = Override(Only(labels, request[r].items[key].limit), gaugeLimit)
    /\ request' = [request EXCEPT ![r].items = Without(@, key), ![r].at = Empty]
    /\ UNCHANGED <<scrapeVars, gaugeCurrent, overlapped>>

\* common.QuotaLimit.WithLabelValues(...).Set(result...LimitValue)
SetLimit(r, key, labels) ==
    /\ key \in DOMAIN request[r].at
    /\ gaugeLimit' = Override(gaugeLimit, Only(labels, request[r].items[key].limit))
    /\ request' = [request EXCEPT ![r].items = Without(@, key), ![r].at = Empty]
    /\ UNCHANGED <<scrapeVars, gaugeCurrent, overlapped>>

\* Both gauges are set for every result; one gauge is sent ...
EmitFirst(r, sent) ==
    /\ request[r].pc = "set" /\ request[r].items = Empty
    /\ request' = [request EXCEPT ![r].pc = "half", ![r].sent = sent]
    /\ UNCHANGED <<scrapeVars, gaugeCurrent, gaugeLimit, overlapped>>

\* ... and then the other: the answer is complete, and written to Prometheus.
Respond(r, sent) ==
    /\ request[r].pc = "half"
    /\ request' = [request EXCEPT ![r].pc = "sent", ![r].sent = sent]
    /\ UNCHANGED <<scrapeVars, gaugeCurrent, gaugeLimit, overlapped>>

Finish(r) ==
    /\ request[r].pc = "sent"
    /\ request' = [request EXCEPT ![r] = IdleRequest]
    /\ UNCHANGED <<scrapeVars, gaugeCurrent, gaugeLimit, overlapped>>

Answers == [r \in Requests |-> IF request[r].pc = "sent" THEN request[r].sent ELSE NoAnswer]

\* QuotaLimit.Collect(ch) before QuotaCurrent.Collect(ch), or after it.
LimitsThenUsages(r) ==
    \/ EmitFirst(r, [NoAnswer EXCEPT !.limit = gaugeLimit])
    \/ Respond(r, [request[r].sent EXCEPT !.usage = gaugeCurrent])

UsagesThenLimits(r) ==
    \/ EmitFirst(r, [NoAnswer EXCEPT !.usage = gaugeCurrent])
    \/ Respond(r, [request[r].sent EXCEPT !.limit = gaugeLimit])

-----------------------------------------------------------------------------
IsAnswer(q, Objects, Series) ==
    /\ DOMAIN q.usage \subseteq Series /\ DOMAIN q.limit \subseteq Series
    /\ \A x \in DOMAIN q.usage : \E o \in Objects : q.usage[x] = o.current
    /\ \A x \in DOMAIN q.limit : \E o \in Objects : q.limit[x] = o.limit

IsCache(c, Keys, Objects) == DOMAIN c \subseteq Keys /\ \A k \in DOMAIN c : c[k] \in Objects

LoopTypeOK(Keys, Objects, Series) ==
    /\ process \in {"down", "boot", "serving"}
    /\ inFlight \subseteq Scrapes /\ stale \subseteq inFlight /\ settled \in BOOLEAN
    /\ overlapped \in BOOLEAN
    /\ IsCache(cache, Keys, Objects) /\ written \subseteq Keys \X Objects
    /\ IsAnswer([usage |-> gaugeCurrent, limit |-> gaugeLimit], Objects, Series)
    /\ \A r \in Requests :
         /\ request[r].pc \in {"idle", "begun", "set", "half", "sent"}
         /\ IsCache(request[r].items, Keys, Objects)
         /\ DOMAIN request[r].at \subseteq DOMAIN request[r].items
         /\ IsAnswer(request[r].sent, Objects, Series)
=============================================================================
