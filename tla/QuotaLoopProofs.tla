-------------------------- MODULE QuotaLoopProofs --------------------------
(***************************************************************************)
(* What the steps of QuotaLoop do to the cache, to the gauges and to the   *)
(* answers, for any number of requests at once: all show only objects that *)
(* were cached since the process started.  M stands for the pairs of a     *)
(* series and an object that the cached results make.                      *)
(***************************************************************************)
EXTENDS QuotaLoop, TLAPS

CacheCovered == \A k \in DOMAIN cache : <<k, cache[k]>> \in written

\* A dead process remembers nothing and has no scrapes.
DownIsEmpty ==
    /\ process \in {"down", "boot", "serving"}
    /\ process = "down" => inFlight = {}
    /\ inFlight \subseteq Scrapes /\ stale \subseteq inFlight /\ settled \in BOOLEAN

LEMMA InitLoop ==
  ASSUME LoopInit
  PROVE  CacheCovered /\ DownIsEmpty /\ written = {}
BY DEF LoopInit, CacheCovered, DownIsEmpty, Empty

LEMMA SetCovers ==
  ASSUME CacheCovered, NEW key, NEW object, CacheSet(key, object)
  PROVE  CacheCovered' /\ written' = written \cup {<<key, object>>} /\ UNCHANGED collectVars
BY DEF CacheCovered, CacheSet, Override, Only

LEMMA ExpireCovers ==
  ASSUME CacheCovered, Expire
  PROVE  CacheCovered' /\ UNCHANGED written /\ UNCHANGED collectVars
BY DEF CacheCovered, Expire, Without

LEMMA DieCovers ==
  ASSUME Die
  PROVE  CacheCovered' /\ DownIsEmpty' /\ written' = {}
BY DEF CacheCovered, DownIsEmpty, Die, Empty

LEMMA SameCovers ==
  ASSUME CacheCovered, UNCHANGED <<cache, written>>
  PROVE  CacheCovered'
BY DEF CacheCovered

\* The control of the loop, whatever the step.
LEMMA LoopSteps ==
  ASSUME DownIsEmpty,
         \/ \E s \in Scrapes : Begin(s) \/ Return(s) \/ (s \in inFlight /\ Misses(s))
         \/ \E key, object : CacheSet(key, object)
         \/ Expire \/ AccountChanged \/ Die \/ UNCHANGED scrapeVars
  PROVE  DownIsEmpty'
BY DEF DownIsEmpty, Begin, Return, Misses, CacheSet, Expire, AccountChanged, Die, scrapeVars

-----------------------------------------------------------------------------
(* What history knows of the account *)

\* As long as the cache is settled, or a scrape in flight has missed nothing,
\* all that scrapes in flight have read still describes the account.
Knowing == settled \/ \E s \in inFlight : s \notin stale

LEMMA KnowingStarts ==
  ASSUME DownIsEmpty, NEW s, Begin(s), Knowing', ~Knowing PROVE inFlight = {}
BY DEF DownIsEmpty, Begin, Knowing

LEMMA KnowingStays ==
  ASSUME DownIsEmpty, NEW s, Return(s) \/ Misses(s), Knowing' PROVE Knowing
BY DEF DownIsEmpty, Return, Misses, Knowing

LEMMA KnowingEnds ==
  ASSUME AccountChanged \/ Die PROVE ~Knowing'
BY DEF AccountChanged, Die, Knowing

\* Set and expiry in terms of one key.
LEMMA SetShows ==
  ASSUME NEW key, NEW object, CacheSet(key, object)
  PROVE  /\ DOMAIN cache' = DOMAIN cache \cup {key} /\ cache'[key] = object
         /\ \A k \in DOMAIN cache : k # key => cache'[k] = cache[k]
         /\ UNCHANGED <<process, inFlight, stale, settled>>
BY DEF CacheSet, Override, Only

LEMMA ExpireShows ==
  ASSUME Expire
  PROVE  /\ \A k \in DOMAIN cache' : k \in DOMAIN cache /\ cache'[k] = cache[k]
         /\ UNCHANGED <<process, inFlight, stale, settled>>
BY DEF Expire, Without

-----------------------------------------------------------------------------
(* The requests in flight *)

IsRequest(q) ==
    /\ q = [pc |-> q.pc, items |-> q.items, at |-> q.at, sent |-> q.sent]
    /\ q.sent = [usage |-> q.sent.usage, limit |-> q.sent.limit]
    /\ q.pc \in {"idle", "begun", "set", "half", "sent"}
    /\ DOMAIN q.at \subseteq DOMAIN q.items
    /\ \A k, l \in DOMAIN q.at : k = l
    /\ q.pc # "set" => DOMAIN q.items = {}

\* Every request has its shape, and what it still has to set was cached.
RequestsOK ==
    /\ request = [r \in Requests |-> request[r]]
    /\ \A r \in Requests : IsRequest(request[r])
    /\ \A r \in Requests : \A k \in DOMAIN request[r].items : <<k, request[r].items[k]>> \in written

LEMMA NoRequestsOK ==
  ASSUME request = NoRequests PROVE RequestsOK
<1>1. IsRequest(IdleRequest) /\ DOMAIN IdleRequest.items = {}
  BY DEF IsRequest, IdleRequest, NoAnswer, Empty
<1>2. QED
  BY <1>1 DEF NoRequests, RequestsOK

LEMMA NothingIn == \A f : f = Empty => DOMAIN f = {}
BY DEF Empty

LEMMA OnlyIn == \A k, v : DOMAIN Only(k, v) = {k} /\ Only(k, v)[k] = v
BY DEF Only

\* What each step of a request leaves of it.
LEMMA RequestSteps ==
  ASSUME RequestsOK, CacheCovered, NEW r \in Requests, NEW key, NEW labels, NEW sent,
         sent = [usage |-> sent.usage, limit |-> sent.limit],
         \/ Arrive(r) \/ CopyItems(r) \/ Finish(r)
         \/ SetUsage(r, key, labels) \/ SetLimit(r, key, labels)
         \/ EmitFirst(r, sent) \/ Respond(r, sent)
  PROVE  /\ RequestsOK'
         /\ \A q \in Requests \ {r} : request'[q] = request[q]
         /\ UNCHANGED scrapeVars
         /\ Arrive(r) => request'[r] = [request[r] EXCEPT !.pc = "begun"]
         /\ CopyItems(r) => request'[r] = [request[r] EXCEPT !.pc = "set", !.items = cache]
         /\ Finish(r) => request'[r] = IdleRequest
         /\ SetUsage(r, key, labels) => request'[r] = [request[r] EXCEPT !.at = Only(key, labels)]
         /\ SetLimit(r, key, labels) =>
              request'[r] = [request[r] EXCEPT !.items = Without(@, key), !.at = Empty]
         /\ EmitFirst(r, sent) => request'[r] = [request[r] EXCEPT !.pc = "half", !.sent = sent]
         /\ Respond(r, sent) => request'[r] = [request[r] EXCEPT !.pc = "sent", !.sent = sent]
<1> DEFINE old == request[r]
           new == request'[r]
<1>1. IsRequest(old) /\ request = [q \in Requests |-> request[q]]
  BY DEF RequestsOK
<1>2. /\ \A q \in Requests \ {r} : request'[q] = request[q]
      /\ request' = [q \in Requests |-> request'[q]]
      /\ UNCHANGED scrapeVars
  <2>1. ASSUME NEW a, request' = [request EXCEPT ![r] = a]
        PROVE  /\ \A q \in Requests \ {r} : request'[q] = request[q]
               /\ request' = [q \in Requests |-> request'[q]]
    BY <1>1, <2>1
  <2>2. /\ \E a : request' = [request EXCEPT ![r] = a]
        /\ UNCHANGED scrapeVars
    BY DEF Arrive, CopyItems, Finish, SetUsage, SetLimit, EmitFirst, Respond
  <2>3. QED
    BY <2>1, <2>2
<1>3. /\ Arrive(r) => new = [old EXCEPT !.pc = "begun"]
      /\ CopyItems(r) => new = [old EXCEPT !.pc = "set", !.items = cache]
      /\ Finish(r) => new = IdleRequest
  BY <1>1 DEF Arrive, CopyItems, Finish
<1>4. /\ SetUsage(r, key, labels) => new = [old EXCEPT !.at = Only(key, labels)]
      /\ SetLimit(r, key, labels) => new = [old EXCEPT !.items = Without(@, key), !.at = Empty]
  BY <1>1 DEF SetUsage, SetLimit
<1>5. /\ EmitFirst(r, sent) => new = [old EXCEPT !.pc = "half", !.sent = sent]
      /\ Respond(r, sent) => new = [old EXCEPT !.pc = "sent", !.sent = sent]
  BY <1>1 DEF EmitFirst, Respond
<1>6. IsRequest(new) /\ \A k \in DOMAIN new.items : <<k, new.items[k]>> \in written
  <2>0. \A k \in DOMAIN old.items : <<k, old.items[k]>> \in written
    BY DEF RequestsOK
  <2>1. CASE Arrive(r) \/ EmitFirst(r, sent) \/ Respond(r, sent)
    BY <1>1, <1>3, <1>5, <2>0, <2>1, NothingIn DEF Arrive, EmitFirst, Respond, IsRequest
  <2>2. CASE CopyItems(r)
    <3>1. new = [pc |-> "set", items |-> cache, at |-> old.at, sent |-> old.sent]
      BY <1>1, <1>3, <2>2 DEF IsRequest
    <3>2. DOMAIN old.at = {}
      BY <1>1, <2>2 DEF CopyItems, IsRequest
    <3>3. QED
      BY <1>1, <3>1, <3>2 DEF CacheCovered, IsRequest
  <2>3. CASE Finish(r)
    BY <1>3, <2>3 DEF IsRequest, IdleRequest, NoAnswer, Empty
  <2>4. CASE SetUsage(r, key, labels)
    <3>1. new = [pc |-> "set", items |-> old.items, at |-> Only(key, labels), sent |-> old.sent]
      BY <1>1, <1>4, <2>4 DEF SetUsage, IsRequest
    <3>2. key \in DOMAIN old.items
      BY <2>4 DEF SetUsage
    <3>3. DOMAIN new.at = {key} /\ new.items = old.items /\ new.pc = "set" /\ new.sent = old.sent
      <4> HIDE DEF new, old
      <4>1. new.at = Only(key, labels) /\ new.items = old.items /\ new.pc = "set" /\ new.sent = old.sent
        BY <3>1
      <4>2. QED
        BY <4>1, OnlyIn
    <3>4. new = [pc |-> new.pc, items |-> new.items, at |-> new.at, sent |-> new.sent]
      BY <3>1
    <3>5. QED
      BY <1>1, <2>0, <3>2, <3>3, <3>4 DEF IsRequest
  <2>5. CASE SetLimit(r, key, labels)
    <3>1. new = [pc |-> old.pc, items |-> Without(old.items, key), at |-> Empty, sent |-> old.sent]
      BY <1>1, <1>4, <2>5 DEF IsRequest
    <3>2. QED
      BY <1>1, <2>0, <3>1, NothingIn DEF IsRequest, Without
  <2>6. QED
    BY <2>1, <2>2, <2>3, <2>4, <2>5
<1>7. RequestsOK'
  BY <1>2, <1>6 DEF RequestsOK, scrapeVars
<1>8. QED
  BY <1>2, <1>3, <1>4, <1>5, <1>7

-----------------------------------------------------------------------------
(* What is shown and sent was measured *)

AnswerMeasured(M, a) ==
    /\ \A x \in DOMAIN a.usage : \E m \in M : m[1] = x /\ m[2].current = a.usage[x]
    /\ \A x \in DOMAIN a.limit : \E m \in M : m[1] = x /\ m[2].limit = a.limit[x]

Gauges == [usage |-> gaugeCurrent, limit |-> gaugeLimit]
ShownIn(M) == AnswerMeasured(M, Gauges) /\ \A r \in Requests : AnswerMeasured(M, request[r].sent)

LEMMA NothingShown ==
  ASSUME NEW M, request = NoRequests, gaugeCurrent = Empty, gaugeLimit = Empty
  PROVE  ShownIn(M)
BY NothingIn DEF ShownIn, AnswerMeasured, Gauges, NoRequests, IdleRequest, NoAnswer

LEMMA MoreMeasured ==
  ASSUME NEW M, NEW N, NEW a, M \subseteq N, AnswerMeasured(M, a)
  PROVE  AnswerMeasured(N, a)
BY DEF AnswerMeasured

LEMMA ShownStays ==
  ASSUME NEW M, NEW N, M \subseteq N, ShownIn(M), UNCHANGED collectVars
  PROVE  ShownIn(N)'
<1>1. AnswerMeasured(N, Gauges) /\ \A r \in Requests : AnswerMeasured(N, request[r].sent)
  BY MoreMeasured DEF ShownIn
<1>2. QED
  BY <1>1 DEF ShownIn, AnswerMeasured, Gauges, collectVars

LEMMA OverrideOnly ==
  ASSUME NEW f, NEW x, NEW v
  PROVE  /\ DOMAIN Override(f, Only(x, v)) = DOMAIN f \cup {x}
         /\ Override(f, Only(x, v))[x] = v
         /\ \A y \in DOMAIN f : y # x => Override(f, Only(x, v))[y] = f[y]
BY DEF Override, Only

LEMMA OverrideMeasured ==
  ASSUME NEW M, NEW u, NEW l, NEW x, NEW o, <<x, o>> \in M,
         AnswerMeasured(M, [usage |-> u, limit |-> l])
  PROVE  /\ AnswerMeasured(M, [usage |-> Override(u, Only(x, o.current)), limit |-> l])
         /\ AnswerMeasured(M, [usage |-> u, limit |-> Override(l, Only(x, o.limit))])
<1>1. /\ \A y \in DOMAIN u : \E m \in M : m[1] = y /\ m[2].current = u[y]
      /\ \A y \in DOMAIN l : \E m \in M : m[1] = y /\ m[2].limit = l[y]
  BY DEF AnswerMeasured
<1>2. \E m \in M : m[1] = x /\ m[2].current = o.current /\ m[2].limit = o.limit
  OBVIOUS
<1> DEFINE newU == Override(u, Only(x, o.current))
           newL == Override(l, Only(x, o.limit))
<1>3. DOMAIN newU = DOMAIN u \cup {x} /\ newU[x] = o.current /\ \A y \in DOMAIN u : y # x => newU[y] = u[y]
  BY DEF Override, Only
<1>4. DOMAIN newL = DOMAIN l \cup {x} /\ newL[x] = o.limit /\ \A y \in DOMAIN l : y # x => newL[y] = l[y]
  BY DEF Override, Only
<1> HIDE DEF newU, newL
<1>5. AnswerMeasured(M, [usage |-> newU, limit |-> l])
  BY <1>1, <1>2, <1>3 DEF AnswerMeasured
<1>6. AnswerMeasured(M, [usage |-> u, limit |-> newL])
  BY <1>1, <1>2, <1>4 DEF AnswerMeasured
<1>7. QED
  BY <1>5, <1>6 DEF newU, newL

\* A step of a request shows only what was measured, if its labels fit.
LEMMA CollectShows ==
  ASSUME RequestsOK, NEW M, ShownIn(M),
         NEW r \in Requests, NEW key, NEW labels,
         key \in DOMAIN request[r].items => <<labels, request[r].items[key]>> \in M,
         \/ Arrive(r) \/ CopyItems(r) \/ Finish(r)
         \/ SetUsage(r, key, labels) \/ SetLimit(r, key, labels)
         \/ LimitsThenUsages(r) \/ UsagesThenLimits(r)
  PROVE  ShownIn(M)'
<1> DEFINE old == request[r]
           new == request'[r]
<1>1. IsRequest(old) /\ request = [q \in Requests |-> request[q]]
  BY DEF RequestsOK
<1>2. \A q \in Requests : AnswerMeasured(M, request[q].sent)
  BY DEF ShownIn
<1>3. AnswerMeasured(M, Gauges)
  BY DEF ShownIn
<1>4. \A q \in Requests \ {r} : request'[q] = request[q]
  BY <1>1 DEF Arrive, CopyItems, Finish, SetUsage, SetLimit, EmitFirst, Respond,
              LimitsThenUsages, UsagesThenLimits
<1>5. SUFFICES AnswerMeasured(M, Gauges') /\ AnswerMeasured(M, new.sent)
  BY <1>2, <1>4 DEF ShownIn
<1>6. CASE Arrive(r) \/ CopyItems(r)
  <2>1. new.sent = old.sent
    <3>1. \/ new = [old EXCEPT !.pc = "begun"]
          \/ new = [old EXCEPT !.pc = "set", !.items = cache]
      BY <1>1, <1>6 DEF Arrive, CopyItems
    <3>2. QED
      BY <1>1, <3>1 DEF IsRequest
  <2>2. UNCHANGED Gauges
    BY <1>6 DEF Arrive, CopyItems, Gauges
  <2>3. QED
    BY <1>2, <1>3, <2>1, <2>2
<1>7. CASE Finish(r)
  <2>1. new.sent = NoAnswer /\ UNCHANGED Gauges
    BY <1>1, <1>7 DEF Finish, IdleRequest, Gauges
  <2>2. QED
    BY <1>3, <2>1, NothingIn DEF AnswerMeasured, NoAnswer
<1>8. CASE SetUsage(r, key, labels)
  <2>1. /\ gaugeCurrent' = Override(gaugeCurrent, Only(labels, old.items[key].current))
        /\ gaugeLimit' = gaugeLimit
        /\ <<labels, old.items[key]>> \in M
    BY <1>8 DEF SetUsage
  <2>4. new.sent = old.sent
    <3>1. new = [old EXCEPT !.at = Only(key, labels)]
      BY <1>1, <1>8 DEF SetUsage
    <3>2. QED
      BY <1>1, <3>1 DEF IsRequest
  <2>2. AnswerMeasured(M, Gauges')
    <3> HIDE DEF old
    <3>1. QED
      BY <1>3, <2>1, OverrideMeasured DEF Gauges
  <2>3. QED
    BY <1>2, <2>2, <2>4
<1>9. CASE SetLimit(r, key, labels)
  <2>1. /\ gaugeLimit' = Override(gaugeLimit, Only(labels, old.items[key].limit))
        /\ gaugeCurrent' = gaugeCurrent
        /\ <<labels, old.items[key]>> \in M
    BY <1>1, <1>9 DEF SetLimit, IsRequest
  <2>4. new.sent = old.sent
    <3>1. new = [old EXCEPT !.items = Without(@, key), !.at = Empty]
      BY <1>1, <1>9 DEF SetLimit
    <3>2. QED
      BY <1>1, <3>1 DEF IsRequest
  <2>2. AnswerMeasured(M, Gauges')
    <3> HIDE DEF old
    <3>1. QED
      BY <1>3, <2>1, OverrideMeasured DEF Gauges
  <2>3. QED
    BY <1>2, <2>2, <2>4
<1>10. CASE LimitsThenUsages(r) \/ UsagesThenLimits(r)
  <2>1. UNCHANGED Gauges
    BY <1>10 DEF LimitsThenUsages, UsagesThenLimits, EmitFirst, Respond, Gauges
  <2>2. \/ new.sent = [NoAnswer EXCEPT !.limit = gaugeLimit]
        \/ new.sent = [old.sent EXCEPT !.usage = gaugeCurrent]
        \/ new.sent = [NoAnswer EXCEPT !.usage = gaugeCurrent]
        \/ new.sent = [old.sent EXCEPT !.limit = gaugeLimit]
    <3>1. CASE LimitsThenUsages(r)
      <4>1. \/ new = [old EXCEPT !.pc = "half", !.sent = [NoAnswer EXCEPT !.limit = gaugeLimit]]
            \/ new = [old EXCEPT !.pc = "sent", !.sent = [old.sent EXCEPT !.usage = gaugeCurrent]]
        BY <1>1, <3>1 DEF LimitsThenUsages, EmitFirst, Respond
      <4>2. QED
        BY <1>1, <4>1 DEF IsRequest
    <3>2. CASE UsagesThenLimits(r)
      <4>1. \/ new = [old EXCEPT !.pc = "half", !.sent = [NoAnswer EXCEPT !.usage = gaugeCurrent]]
            \/ new = [old EXCEPT !.pc = "sent", !.sent = [old.sent EXCEPT !.limit = gaugeLimit]]
        BY <1>1, <3>2 DEF UsagesThenLimits, EmitFirst, Respond
      <4>2. QED
        BY <1>1, <4>1 DEF IsRequest
    <3>3. QED
      BY <1>10, <3>1, <3>2
  <2>3. old.sent = [usage |-> old.sent.usage, limit |-> old.sent.limit]
    BY <1>1 DEF IsRequest
  <2>4. AnswerMeasured(M, old.sent)
    BY <1>2
  <2>5. AnswerMeasured(M, new.sent)
    <3> HIDE DEF new, old
    <3>1. \/ new.sent = [usage |-> Empty, limit |-> gaugeLimit]
          \/ new.sent = [usage |-> gaugeCurrent, limit |-> old.sent.limit]
          \/ new.sent = [usage |-> gaugeCurrent, limit |-> Empty]
          \/ new.sent = [usage |-> old.sent.usage, limit |-> gaugeLimit]
      BY <2>2, <2>3 DEF NoAnswer
    <3>2. QED
      BY <1>3, <2>4, <3>1, NothingIn DEF AnswerMeasured, Gauges
  <2>6. QED
    BY <1>3, <2>1, <2>5
<1>11. QED
  BY <1>6, <1>7, <1>8, <1>9, <1>10
-----------------------------------------------------------------------------
(* Requests that come one at a time *)

Busy(r) == request[r].pc # "idle"

\* Usage and limit of x were measured together.
PairIn(M, x) ==
    /\ x \in DOMAIN gaugeCurrent /\ x \in DOMAIN gaugeLimit
    /\ \E m \in M : m[1] = x /\ m[2].current = gaugeCurrent[x] /\ m[2].limit = gaugeLimit[x]

\* The usage of x is the one of the object whose limit is set next.
PendingAt(x) ==
    \E r \in Requests : \E k \in DOMAIN request[r].at :
        /\ request[r].at[k] = x /\ x \in DOMAIN gaugeCurrent
        /\ gaugeCurrent[x] = request[r].items[k].current

Alone(M) ==
    /\ \A p, q \in Requests : Busy(p) /\ Busy(q) => p = q
    /\ \A r \in Requests : \A k \in DOMAIN request[r].at : PendingAt(request[r].at[k])
    /\ \A x \in DOMAIN gaugeCurrent \cup DOMAIN gaugeLimit : PairIn(M, x) \/ PendingAt(x)

AloneInv(M) == ~overlapped => Alone(M)

LEMMA NobodyAlone ==
  ASSUME NEW M, request = NoRequests, gaugeCurrent = Empty, gaugeLimit = Empty
  PROVE  AloneInv(M)
<1>1. \A r \in Requests : ~Busy(r) /\ DOMAIN request[r].at = {}
  BY NothingIn DEF NoRequests, IdleRequest, Busy
<1>2. DOMAIN gaugeCurrent = {} /\ DOMAIN gaugeLimit = {}
  BY NothingIn
<1>3. QED
  BY <1>1, <1>2 DEF AloneInv, Alone

LEMMA AloneStays ==
  ASSUME NEW M, NEW N, M \subseteq N, AloneInv(M), UNCHANGED collectVars
  PROVE  AloneInv(N)'
<1>1. UNCHANGED <<request, gaugeCurrent, gaugeLimit, overlapped>>
  BY DEF collectVars
<1>2. \A x : PairIn(M, x) => PairIn(N, x)'
  BY <1>1 DEF PairIn
<1>3. \A x : PendingAt(x) => PendingAt(x)'
  BY <1>1 DEF PendingAt
<1>4. QED
  BY <1>1, <1>2, <1>3 DEF AloneInv, Alone, Busy

LEMMA CollectAlone ==
  ASSUME RequestsOK, NEW M, AloneInv(M),
         NEW r \in Requests, NEW key, NEW labels,
         key \in DOMAIN request[r].items => <<labels, request[r].items[key]>> \in M,
         ~overlapped /\ key \in DOMAIN request[r].at => request[r].at[key] = labels,
         \/ Arrive(r) \/ CopyItems(r) \/ Finish(r)
         \/ SetUsage(r, key, labels) \/ SetLimit(r, key, labels)
         \/ LimitsThenUsages(r) \/ UsagesThenLimits(r)
  PROVE  AloneInv(M)'
<1> DEFINE old == request[r]
           new == request'[r]
<1> SUFFICES ASSUME ~overlapped' PROVE Alone(M)'
  BY DEF AloneInv
<1>1. IsRequest(old) /\ request = [q \in Requests |-> request[q]]
  BY DEF RequestsOK
<1>2. \A q \in Requests \ {r} : request'[q] = request[q]
  BY <1>1 DEF Arrive, CopyItems, Finish, SetUsage, SetLimit, EmitFirst, Respond,
              LimitsThenUsages, UsagesThenLimits
<1>3. ~overlapped /\ Alone(M)
  <2>1. ~overlapped
    <3>1. CASE Arrive(r)
      BY <3>1, Zenon DEF Arrive
    <3>2. CASE overlapped' = overlapped
      BY <3>2
    <3>3. QED
      BY <3>1, <3>2 DEF CopyItems, Finish, SetUsage, SetLimit, EmitFirst, Respond,
                        LimitsThenUsages, UsagesThenLimits
  <2>2. QED
    BY <2>1 DEF AloneInv
<1>4. \A q \in Requests \ {r} : ~Busy(q)
  <2>1. CASE Arrive(r)
    BY <2>1, Zenon DEF Arrive, Busy
  <2>2. CASE Busy(r)
    BY <1>3, <2>2 DEF Alone
  <2>3. Arrive(r) \/ old.pc \in {"begun", "set", "half", "sent"}
    BY <1>1 DEF CopyItems, Finish, SetUsage, SetLimit, EmitFirst, Respond, IsRequest,
                LimitsThenUsages, UsagesThenLimits
  <2>4. QED
    BY <2>1, <2>2, <2>3 DEF Busy
<1>5. \A q \in Requests \ {r} : ~Busy(q)' /\ DOMAIN request'[q].at = {}
  BY <1>2, <1>4 DEF Busy, RequestsOK, IsRequest
<1>6. \A p, q \in Requests : Busy(p)' /\ Busy(q)' => p = q
  BY <1>5
<1>7. \A x : PendingAt(x) => \E k \in DOMAIN old.at :
         old.at[k] = x /\ x \in DOMAIN gaugeCurrent /\ gaugeCurrent[x] = old.items[k].current
  BY <1>4 DEF PendingAt, Busy, RequestsOK, IsRequest
<1>8. ASSUME UNCHANGED <<gaugeCurrent, gaugeLimit>>, DOMAIN new.at = {}, DOMAIN old.at = {}
      PROVE  Alone(M)'
  <2>1. \A x : ~PendingAt(x)
    BY <1>7, <1>8
  <2>2. \A x : PairIn(M, x) => PairIn(M, x)'
    BY <1>8 DEF PairIn
  <2>3. \A q \in Requests : DOMAIN request'[q].at = {}
    BY <1>5, <1>8
  <2>4. QED
    BY <1>3, <1>6, <1>8, <2>1, <2>2, <2>3 DEF Alone
<1>9. CASE Arrive(r) \/ CopyItems(r)
  <2>1. \/ new = [old EXCEPT !.pc = "begun"]
        \/ new = [old EXCEPT !.pc = "set", !.items = cache]
    BY <1>1, <1>9 DEF Arrive, CopyItems
  <2>2. old.pc # "set" /\ UNCHANGED <<gaugeCurrent, gaugeLimit>>
    BY <1>9 DEF Arrive, CopyItems
  <2>3. DOMAIN old.at = {} /\ new.at = old.at
    BY <1>1, <2>1, <2>2 DEF IsRequest
  <2>4. QED
    BY <1>8, <2>2, <2>3
<1>10. CASE Finish(r)
  <2>1. new = IdleRequest
    BY <1>1, <1>10 DEF Finish
  <2>2. old.pc # "set" /\ UNCHANGED <<gaugeCurrent, gaugeLimit>>
    BY <1>10 DEF Finish
  <2>3. DOMAIN old.at = {} /\ DOMAIN new.at = {}
    BY <1>1, <2>1, <2>2, NothingIn DEF IsRequest, IdleRequest
  <2>4. QED
    BY <1>8, <2>2, <2>3
<1>11. CASE LimitsThenUsages(r) \/ UsagesThenLimits(r)
  <2>1. ASSUME NEW sent, EmitFirst(r, sent) \/ Respond(r, sent)
        PROVE  new.at = old.at
    <3>1. new = [old EXCEPT !.pc = "half", !.sent = sent] \/ new = [old EXCEPT !.pc = "sent", !.sent = sent]
      BY <1>1, <2>1 DEF EmitFirst, Respond
    <3>2. QED
      BY <1>1, <3>1 DEF IsRequest
  <2>2. DOMAIN old.items = {} /\ UNCHANGED <<gaugeCurrent, gaugeLimit>>
    BY <1>1, <1>11, NothingIn DEF LimitsThenUsages, UsagesThenLimits, EmitFirst, Respond, IsRequest
  <2>3. DOMAIN old.at = {} /\ new.at = old.at
    BY <1>1, <1>11, <2>1, <2>2 DEF IsRequest, LimitsThenUsages, UsagesThenLimits
  <2>4. QED
    BY <1>8, <2>2, <2>3
<1>12. CASE SetUsage(r, key, labels)
  <2>1. new.at = Only(key, labels) /\ new.items = old.items
    <3>1. new = [old EXCEPT !.at = Only(key, labels)]
      BY <1>1, <1>12 DEF SetUsage
    <3>2. QED
      BY <1>1, <3>1 DEF IsRequest
  <2>2. gaugeCurrent' = Override(gaugeCurrent, Only(labels, old.items[key].current))
    BY <1>12 DEF SetUsage
  <2>3. gaugeLimit' = gaugeLimit /\ DOMAIN old.at = {}
    BY <1>12, NothingIn DEF SetUsage
  <2>4. DOMAIN gaugeCurrent' = DOMAIN gaugeCurrent \cup {labels}
    BY <2>2 DEF Override, Only
  <2>5. gaugeCurrent'[labels] = old.items[key].current
    BY <2>2 DEF Override, Only
  <2>6. \A x \in DOMAIN gaugeCurrent : x # labels => gaugeCurrent'[x] = gaugeCurrent[x]
    BY <2>2 DEF Override, Only
  <2>7. DOMAIN new.at = {key} /\ new.at[key] = labels
    BY <2>1, OnlyIn
  <2>8. PendingAt(labels)'
    <3>1. /\ key \in DOMAIN new.at /\ new.at[key] = labels /\ labels \in DOMAIN gaugeCurrent'
          /\ gaugeCurrent'[labels] = new.items[key].current
      BY <2>1, <2>4, <2>5, <2>7
    <3>2. QED
      BY <3>1 DEF PendingAt
  <2>9. \A x : x # labels /\ PairIn(M, x) => PairIn(M, x)'
    BY <2>3, <2>4, <2>6 DEF PairIn
  <2>10. \A x : ~PendingAt(x)
    BY <1>7, <2>3
  <2>11. \A q \in Requests : \A k \in DOMAIN request'[q].at : request'[q].at[k] = labels
    BY <1>5, <2>7
  <2>12. QED
    BY <1>3, <1>6, <2>3, <2>4, <2>8, <2>9, <2>10, <2>11 DEF Alone
<1>13. CASE SetLimit(r, key, labels)
  <2>1. DOMAIN new.at = {}
    <3>1. new = [old EXCEPT !.items = Without(@, key), !.at = Empty]
      BY <1>1, <1>13 DEF SetLimit
    <3>2. new.at = Empty
      BY <1>1, <3>1 DEF IsRequest
    <3>3. QED
      BY <3>2, NothingIn
  <2>2. gaugeLimit' = Override(gaugeLimit, Only(labels, old.items[key].limit))
    BY <1>13 DEF SetLimit
  <2>3. gaugeCurrent' = gaugeCurrent /\ key \in DOMAIN old.at /\ key \in DOMAIN old.items
    BY <1>1, <1>13 DEF SetLimit, IsRequest
  <2>4. DOMAIN gaugeLimit' = DOMAIN gaugeLimit \cup {labels}
    BY <2>2 DEF Override, Only
  <2>5. gaugeLimit'[labels] = old.items[key].limit
    BY <2>2 DEF Override, Only
  <2>6. \A x \in DOMAIN gaugeLimit : x # labels => gaugeLimit'[x] = gaugeLimit[x]
    BY <2>2 DEF Override, Only
  <2>7. \A k \in DOMAIN old.at : k = key
    BY <1>1, <2>3 DEF IsRequest
  <2>8. old.at[key] = labels
    BY <1>3, <2>3
  <2>9. PendingAt(labels)
    BY <1>3, <2>3, <2>8 DEF Alone
  <2>10. labels \in DOMAIN gaugeCurrent /\ gaugeCurrent[labels] = old.items[key].current
    BY <1>7, <2>7, <2>9
  <2>11. PairIn(M, labels)'
    <3>1. <<labels, old.items[key]>> \in M
      BY <2>3
    <3>2. QED
      BY <2>3, <2>4, <2>5, <2>10, <3>1 DEF PairIn
  <2>12. \A x : x # labels /\ PairIn(M, x) => PairIn(M, x)'
    BY <2>3, <2>4, <2>6 DEF PairIn
  <2>13. \A x : PendingAt(x) => x = labels
    BY <1>7, <2>7, <2>8
  <2>14. \A q \in Requests : DOMAIN request'[q].at = {}
    BY <1>5, <2>1
  <2>15. QED
    BY <1>3, <1>6, <2>3, <2>4, <2>11, <2>12, <2>13, <2>14 DEF Alone
<1>14. QED
  BY <1>9, <1>10, <1>11, <1>12, <1>13
-----------------------------------------------------------------------------
(* The answers *)

\* The gauge that is sent first has not changed since: the limits, or the usages.
HalfSent(limits) ==
    ~overlapped => \A r \in Requests : request[r].pc = "half" =>
        IF limits THEN request[r].sent.limit = gaugeLimit ELSE request[r].sent.usage = gaugeCurrent

LEMMA NothingSent ==
  ASSUME NEW limits, request = NoRequests PROVE HalfSent(limits)
BY DEF HalfSent, NoRequests, IdleRequest

LEMMA HalfStays ==
  ASSUME NEW limits, HalfSent(limits), UNCHANGED collectVars PROVE HalfSent(limits)'
BY DEF HalfSent, collectVars

LEMMA SendingSteps ==
  ASSUME RequestsOK, NEW r \in Requests, NEW limits \in BOOLEAN,
         \/ limits /\ LimitsThenUsages(r)
         \/ ~limits /\ UsagesThenLimits(r)
  PROVE  /\ \/ /\ request[r].pc = "set" /\ request'[r].pc = "half"
               /\ IF limits THEN request'[r].sent.limit = gaugeLimit
                            ELSE request'[r].sent.usage = gaugeCurrent
            \/ /\ request[r].pc = "half" /\ request'[r].pc = "sent"
               /\ IF limits
                  THEN request'[r].sent = [usage |-> gaugeCurrent, limit |-> request[r].sent.limit]
                  ELSE request'[r].sent = [usage |-> request[r].sent.usage, limit |-> gaugeLimit]
         /\ UNCHANGED <<gaugeCurrent, gaugeLimit, overlapped>>
<1> DEFINE old == request[r]
           new == request'[r]
<1>1. IsRequest(old) /\ request = [q \in Requests |-> request[q]]
  BY DEF RequestsOK
<1>2. CASE limits
  <2>1. \/ EmitFirst(r, [NoAnswer EXCEPT !.limit = gaugeLimit])
        \/ Respond(r, [old.sent EXCEPT !.usage = gaugeCurrent])
    BY <1>2 DEF LimitsThenUsages
  <2>2. \/ /\ old.pc = "set"
           /\ new = [old EXCEPT !.pc = "half", !.sent = [NoAnswer EXCEPT !.limit = gaugeLimit]]
        \/ /\ old.pc = "half"
           /\ new = [old EXCEPT !.pc = "sent", !.sent = [old.sent EXCEPT !.usage = gaugeCurrent]]
    BY <1>1, <2>1 DEF EmitFirst, Respond
  <2>3. UNCHANGED <<gaugeCurrent, gaugeLimit, overlapped>>
    BY <2>1 DEF EmitFirst, Respond
  <2>4. QED
    BY <1>1, <1>2, <2>2, <2>3 DEF IsRequest, NoAnswer
<1>3. CASE ~limits
  <2>1. \/ EmitFirst(r, [NoAnswer EXCEPT !.usage = gaugeCurrent])
        \/ Respond(r, [old.sent EXCEPT !.limit = gaugeLimit])
    BY <1>3 DEF UsagesThenLimits
  <2>2. \/ /\ old.pc = "set"
           /\ new = [old EXCEPT !.pc = "half", !.sent = [NoAnswer EXCEPT !.usage = gaugeCurrent]]
        \/ /\ old.pc = "half"
           /\ new = [old EXCEPT !.pc = "sent", !.sent = [old.sent EXCEPT !.limit = gaugeLimit]]
    BY <1>1, <2>1 DEF EmitFirst, Respond
  <2>3. UNCHANGED <<gaugeCurrent, gaugeLimit, overlapped>>
    BY <2>1 DEF EmitFirst, Respond
  <2>4. QED
    BY <1>1, <1>3, <2>2, <2>3 DEF IsRequest, NoAnswer
<1>4. QED
  BY <1>2, <1>3

LEMMA CollectSends ==
  ASSUME RequestsOK, NEW M, AloneInv(M), NEW limits \in BOOLEAN, HalfSent(limits),
         NEW r \in Requests, NEW key, NEW labels,
         \/ Arrive(r) \/ CopyItems(r) \/ Finish(r)
         \/ SetUsage(r, key, labels) \/ SetLimit(r, key, labels)
         \/ limits /\ LimitsThenUsages(r)
         \/ ~limits /\ UsagesThenLimits(r)
  PROVE  HalfSent(limits)'
<1> SUFFICES ASSUME ~overlapped', NEW q \in Requests, request'[q].pc = "half"
             PROVE  IF limits THEN request'[q].sent.limit = gaugeLimit'
                    ELSE request'[q].sent.usage = gaugeCurrent'
  BY DEF HalfSent
<1> DEFINE old == request[r]
           new == request'[r]
<1>1. IsRequest(old) /\ request = [p \in Requests |-> request[p]]
  BY DEF RequestsOK
<1>2. \A p \in Requests \ {r} : request'[p] = request[p]
  BY <1>1 DEF Arrive, CopyItems, Finish, SetUsage, SetLimit, EmitFirst, Respond,
              LimitsThenUsages, UsagesThenLimits
<1>3. CASE Arrive(r)
  <2>1. ~overlapped /\ \A p \in Requests : request[p].pc = "idle"
    BY <1>3, Zenon DEF Arrive
  <2>2. new.pc = "begun"
    BY <1>1, <1>3 DEF Arrive, IsRequest
  <2>3. QED
    BY <1>2, <2>1, <2>2
<1>4. CASE SetUsage(r, key, labels) \/ SetLimit(r, key, labels)
  <2>1. old.pc = "set" /\ new.pc = "set" /\ ~overlapped
    <3>1. new = [old EXCEPT !.at = Only(key, labels)]
              \/ new = [old EXCEPT !.items = Without(@, key), !.at = Empty]
      BY <1>1, <1>4 DEF SetUsage, SetLimit
    <3>2. old.pc = "set"
      BY <1>1, <1>4 DEF SetUsage, SetLimit, IsRequest
    <3>3. ~overlapped
      BY <1>4 DEF SetUsage, SetLimit
    <3>4. QED
      BY <1>1, <3>1, <3>2, <3>3 DEF IsRequest
  <2>2. q # r /\ request[q].pc = "half"
    BY <1>2, <2>1
  <2>3. QED
    BY <2>1, <2>2 DEF AloneInv, Alone, Busy
<1>5. CASE CopyItems(r) \/ Finish(r)
  <2>1. new.pc # "half"
    <3>1. CASE CopyItems(r)
      BY <1>1, <3>1 DEF CopyItems, IsRequest
    <3>2. CASE Finish(r)
      BY <1>1, <3>2 DEF Finish, IdleRequest
    <3>3. QED
      BY <1>5, <3>1, <3>2
  <2>2. UNCHANGED <<gaugeCurrent, gaugeLimit, overlapped>>
    BY <1>5 DEF CopyItems, Finish
  <2>3. QED
    BY <1>2, <2>1, <2>2 DEF HalfSent
<1>6. CASE (limits /\ LimitsThenUsages(r)) \/ (~limits /\ UsagesThenLimits(r))
  BY <1>2, <1>6, SendingSteps DEF HalfSent
<1>7. QED
  BY <1>3, <1>4, <1>5, <1>6

\* The steps of QuotaExport, for what the gauges and the answers show of M.
ShowsMore(M) ==
    /\ DOMAIN gaugeCurrent \subseteq DOMAIN gaugeCurrent'
    /\ DOMAIN gaugeCurrent' \subseteq {m[1] : m \in M}
    /\ UNCHANGED <<Answers, overlapped>>

AnswersWith(M, r, a) ==
    /\ AnswerMeasured(M, a)
    /\ ~overlapped =>
         /\ DOMAIN a.usage = DOMAIN gaugeCurrent /\ DOMAIN a.limit = DOMAIN gaugeCurrent
         /\ \A x \in DOMAIN a.usage : \E m \in M :
              m[1] = x /\ m[2].current = a.usage[x] /\ m[2].limit = a.limit[x]
    /\ Answers' = [Answers EXCEPT ![r] = a]
    /\ UNCHANGED <<DOMAIN gaugeCurrent, overlapped>>

Forgets(r) ==
    /\ Answers' = [Answers EXCEPT ![r] = NoAnswer]
    /\ UNCHANGED <<DOMAIN gaugeCurrent, overlapped>>

Nobody == overlapped' = TRUE /\ UNCHANGED <<DOMAIN gaugeCurrent, Answers>>

LEMMA CollectMaps ==
  ASSUME RequestsOK, NEW M, ShownIn(M), AloneInv(M), NEW limits \in BOOLEAN, HalfSent(limits),
         overlapped \in BOOLEAN,
         NEW r \in Requests, NEW key, NEW labels,
         key \in DOMAIN request[r].items => <<labels, request[r].items[key]>> \in M,
         \/ Arrive(r) \/ CopyItems(r) \/ Finish(r)
         \/ SetUsage(r, key, labels) \/ SetLimit(r, key, labels)
         \/ limits /\ LimitsThenUsages(r)
         \/ ~limits /\ UsagesThenLimits(r)
  PROVE  \/ ShowsMore(M) \/ Nobody \/ Forgets(r)
         \/ AnswersWith(M, r, Answers'[r])
         \/ UNCHANGED <<DOMAIN gaugeCurrent, Answers, overlapped>>
<1> DEFINE old == request[r]
           new == request'[r]
<1>1. IsRequest(old) /\ request = [q \in Requests |-> request[q]]
  BY DEF RequestsOK
<1>2. \A q \in Requests \ {r} : request'[q] = request[q]
  BY <1>1 DEF Arrive, CopyItems, Finish, SetUsage, SetLimit, EmitFirst, Respond,
              LimitsThenUsages, UsagesThenLimits
<1>3. ASSUME old.pc # "sent", new.pc # "sent" PROVE UNCHANGED Answers
  BY <1>2, <1>3 DEF Answers
<1>4. CASE Arrive(r)
  <2>1. old.pc # "sent" /\ new.pc # "sent"
    BY <1>1, <1>4 DEF Arrive, IsRequest
  <2>2. overlapped' = TRUE \/ overlapped' = overlapped
    BY <1>4, Zenon DEF Arrive
  <2>3. QED
    BY <1>3, <1>4, <2>1, <2>2 DEF Arrive, Nobody
<1>5. CASE CopyItems(r)
  <2>1. old.pc # "sent" /\ new.pc # "sent"
    BY <1>1, <1>5 DEF CopyItems, IsRequest
  <2>2. QED
    BY <1>3, <1>5, <2>1 DEF CopyItems
<1>6. CASE Finish(r)
  <2>1. new = IdleRequest
    BY <1>1, <1>6 DEF Finish
  <2>2. Answers' = [Answers EXCEPT ![r] = NoAnswer]
    <3>1. new.pc = "idle"
      BY <2>1 DEF IdleRequest
    <3>2. Answers'[r] = NoAnswer /\ \A q \in Requests \ {r} : Answers'[q] = Answers[q]
      BY <1>2, <3>1 DEF Answers
    <3>3. QED
      BY <3>2 DEF Answers
  <2>3. QED
    BY <1>6, <2>2 DEF Finish, Forgets
<1>7. CASE SetLimit(r, key, labels)
  <2>1. old.pc # "sent" /\ new.pc # "sent"
    BY <1>1, <1>7 DEF SetLimit, IsRequest
  <2>2. QED
    BY <1>3, <1>7, <2>1 DEF SetLimit
<1>8. CASE SetUsage(r, key, labels)
  <2>1. old.pc # "sent" /\ new.pc # "sent"
    BY <1>1, <1>8 DEF SetUsage, IsRequest
  <2>2. DOMAIN gaugeCurrent' = DOMAIN gaugeCurrent \cup {labels}
    BY <1>8 DEF SetUsage, Override, Only
  <2>3. DOMAIN gaugeCurrent \subseteq {m[1] : m \in M}
    BY DEF ShownIn, AnswerMeasured, Gauges
  <2>4. labels \in {m[1] : m \in M}
    <3>1. <<labels, old.items[key]>> \in M
      BY <1>8 DEF SetUsage
    <3>2. QED
      BY <3>1
  <2>5. UNCHANGED <<Answers, overlapped>>
    BY <1>3, <1>8, <2>1 DEF SetUsage
  <2>6. QED
    BY <2>2, <2>3, <2>4, <2>5 DEF ShowsMore
<1>9. CASE (limits /\ LimitsThenUsages(r)) \/ (~limits /\ UsagesThenLimits(r))
  <2>1. UNCHANGED <<gaugeCurrent, gaugeLimit, overlapped>>
    BY <1>9, SendingSteps
  <2>2. CASE old.pc = "set" /\ new.pc = "half"
    BY <1>3, <2>1, <2>2
  <2>3. CASE /\ old.pc = "half" /\ new.pc = "sent"
             /\ IF limits THEN new.sent = [usage |-> gaugeCurrent, limit |-> old.sent.limit]
                          ELSE new.sent = [usage |-> old.sent.usage, limit |-> gaugeLimit]
    <3>1. Answers' = [Answers EXCEPT ![r] = new.sent] /\ Answers'[r] = new.sent
      BY <1>2, <2>3 DEF Answers
    <3>2. AnswerMeasured(M, new.sent)
      <4>1. ShownIn(M)'
        BY <1>9, CollectShows
      <4>2. QED
        BY <4>1 DEF ShownIn
    <3>3. ASSUME ~overlapped
          PROVE  /\ DOMAIN new.sent.usage = DOMAIN gaugeCurrent
                 /\ DOMAIN new.sent.limit = DOMAIN gaugeCurrent
                 /\ \A x \in DOMAIN new.sent.usage : \E m \in M :
                      m[1] = x /\ m[2].current = new.sent.usage[x] /\ m[2].limit = new.sent.limit[x]
      <4>1. new.sent = [usage |-> gaugeCurrent, limit |-> gaugeLimit]
        BY <1>1, <2>3, <3>3 DEF HalfSent, IsRequest
      <4>2. \A x : ~PendingAt(x)
        <5>1. \A q \in Requests \ {r} : request[q].pc = "idle"
          BY <2>3, <3>3 DEF AloneInv, Alone, Busy
        <5>2. \A q \in Requests : DOMAIN request[q].at = {}
          BY <2>3, <5>1 DEF RequestsOK, IsRequest
        <5>3. QED
          BY <5>2 DEF PendingAt
      <4>3. \A x \in DOMAIN gaugeCurrent \cup DOMAIN gaugeLimit : PairIn(M, x)
        BY <3>3, <4>2 DEF AloneInv, Alone
      <4>4. QED
        <5> HIDE DEF new
        <5>1. new.sent.usage = gaugeCurrent /\ new.sent.limit = gaugeLimit
          BY <4>1
        <5>2. DOMAIN gaugeCurrent = DOMAIN gaugeLimit
          BY <4>3 DEF PairIn
        <5>3. QED
          BY <4>3, <5>1, <5>2 DEF PairIn
    <3>4. QED
      <4> HIDE DEF new
      <4>1. AnswersWith(M, r, new.sent)
        BY <2>1, <3>1, <3>2, <3>3 DEF AnswersWith
      <4>2. QED
        BY <3>1, <4>1
  <2>4. (old.pc = "set" /\ new.pc = "half")
        \/ /\ old.pc = "half" /\ new.pc = "sent"
           /\ IF limits THEN new.sent = [usage |-> gaugeCurrent, limit |-> old.sent.limit]
                        ELSE new.sent = [usage |-> old.sent.usage, limit |-> gaugeLimit]
    BY <1>9, SendingSteps
  <2>5. QED
    BY <2>2, <2>3, <2>4
<1>10. QED
  BY <1>4, <1>5, <1>6, <1>7, <1>8, <1>9
-----------------------------------------------------------------------------
(* What a provider's proof needs *)

\* All that holds of the requests, for the pairs M that were measured and for the
\* gauge that is sent first.
CollectInv(M, limits) ==
    /\ RequestsOK /\ ShownIn(M) /\ AloneInv(M) /\ HalfSent(limits)
    /\ overlapped \in BOOLEAN

LEMMA CollectStarts ==
  ASSUME NEW M, NEW limits,
         request = NoRequests, gaugeCurrent = Empty, gaugeLimit = Empty, overlapped = FALSE
  PROVE  CollectInv(M, limits)
BY NoRequestsOK, NothingShown, NobodyAlone, NothingSent DEF CollectInv

LEMMA CollectRestarts ==
  ASSUME NEW M, NEW limits
  PROVE  (request = NoRequests /\ gaugeCurrent = Empty /\ gaugeLimit = Empty /\ overlapped = FALSE)'
            => CollectInv(M, limits)'
<1>1. (request = NoRequests /\ gaugeCurrent = Empty /\ gaugeLimit = Empty /\ overlapped = FALSE)
         => CollectInv(M, limits)
  BY CollectStarts
<1>2. QED
  BY <1>1, PTL

LEMMA CollectStays ==
  ASSUME NEW M, NEW N, NEW limits, CollectInv(M, limits), M \subseteq N,
         written \subseteq written', UNCHANGED collectVars
  PROVE  CollectInv(N, limits)'
<1>1. RequestsOK'
  BY DEF CollectInv, RequestsOK, collectVars
<1>2. ShownIn(N)' /\ AloneInv(N)' /\ HalfSent(limits)'
  BY ShownStays, AloneStays, HalfStays DEF CollectInv
<1>3. QED
  BY <1>1, <1>2 DEF CollectInv, collectVars

CollectStep(limits, r, key, labels) ==
    \/ Arrive(r) \/ CopyItems(r) \/ Finish(r)
    \/ SetUsage(r, key, labels) \/ SetLimit(r, key, labels)
    \/ limits /\ LimitsThenUsages(r)
    \/ ~limits /\ UsagesThenLimits(r)

MapsTo(M, r) ==
    \/ ShowsMore(M) \/ Nobody \/ Forgets(r)
    \/ AnswersWith(M, r, Answers'[r])
    \/ UNCHANGED <<DOMAIN gaugeCurrent, Answers, overlapped>>

LEMMA CollectSteps ==
  ASSUME NEW M, NEW limits \in BOOLEAN, CollectInv(M, limits), CacheCovered,
         NEW r \in Requests, NEW key, NEW labels,
         key \in DOMAIN request[r].items => <<labels, request[r].items[key]>> \in M,
         ~overlapped /\ key \in DOMAIN request[r].at => request[r].at[key] = labels,
         CollectStep(limits, r, key, labels)
  PROVE  CollectInv(M, limits)' /\ UNCHANGED scrapeVars /\ MapsTo(M, r)
<1>1. ShownIn(M)' /\ AloneInv(M)'
  BY CollectShows, CollectAlone DEF CollectInv, CollectStep
<1>2. HalfSent(limits)'
  BY CollectSends DEF CollectInv, CollectStep
<1>3. MapsTo(M, r)
  BY CollectMaps DEF CollectInv, CollectStep, MapsTo
<1>4. RequestsOK' /\ UNCHANGED scrapeVars
  <2>1. CASE \E sent : /\ sent = [usage |-> sent.usage, limit |-> sent.limit]
                       /\ EmitFirst(r, sent) \/ Respond(r, sent)
    BY <2>1, RequestSteps DEF CollectInv
  <2>2. CASE \/ Arrive(r) \/ CopyItems(r) \/ Finish(r)
             \/ SetUsage(r, key, labels) \/ SetLimit(r, key, labels)
    <3>1. NoAnswer = [usage |-> NoAnswer.usage, limit |-> NoAnswer.limit]
      BY DEF NoAnswer
    <3>2. QED
      BY <2>2, <3>1, RequestSteps DEF CollectInv
  <2>3. ASSUME LimitsThenUsages(r) \/ UsagesThenLimits(r)
        PROVE  \E sent : /\ sent = [usage |-> sent.usage, limit |-> sent.limit]
                         /\ EmitFirst(r, sent) \/ Respond(r, sent)
    <3>1. IsRequest(request[r])
      BY DEF CollectInv, RequestsOK
    <3>2. PICK sent :
             /\ \/ sent = [NoAnswer EXCEPT !.limit = gaugeLimit]
                \/ sent = [request[r].sent EXCEPT !.usage = gaugeCurrent]
                \/ sent = [NoAnswer EXCEPT !.usage = gaugeCurrent]
                \/ sent = [request[r].sent EXCEPT !.limit = gaugeLimit]
             /\ EmitFirst(r, sent) \/ Respond(r, sent)
      BY <2>3, Zenon DEF LimitsThenUsages, UsagesThenLimits
    <3>3. sent = [usage |-> sent.usage, limit |-> sent.limit]
      BY <3>1, <3>2 DEF IsRequest, NoAnswer
    <3>4. QED
      BY <3>2, <3>3
  <2>4. QED
    BY <2>1, <2>2, <2>3 DEF CollectStep
<1>5. overlapped' \in BOOLEAN
  <2>1. CASE Arrive(r)
    BY <2>1, Zenon DEF Arrive
  <2>2. CASE overlapped' = overlapped
    BY <2>2 DEF CollectInv
  <2>3. QED
    BY <2>1, <2>2 DEF CollectStep, CopyItems, Finish, SetUsage, SetLimit,
       LimitsThenUsages, UsagesThenLimits, EmitFirst, Respond
<1>6. QED
  BY <1>1, <1>2, <1>3, <1>4, <1>5 DEF CollectInv

\* The labels of a result are those its usage was set with.
KeepsLabels(r, key, labels) ==
    \A q \in Requests : \A k \in DOMAIN request'[q].at :
        /\ k \in DOMAIN request[q].items /\ request'[q].items[k] = request[q].items[k]
        /\ \/ k \in DOMAIN request[q].at /\ request'[q].at[k] = request[q].at[k]
           \/ q = r /\ k = key /\ request'[q].at[k] = labels

LEMMA CollectAt ==
  ASSUME NEW M, NEW limits \in BOOLEAN, CollectInv(M, limits),
         NEW r \in Requests, NEW key, NEW labels, CollectStep(limits, r, key, labels)
  PROVE  KeepsLabels(r, key, labels)
<1> SUFFICES ASSUME NEW q \in Requests, NEW k \in DOMAIN request'[q].at
             PROVE  /\ k \in DOMAIN request[q].items /\ request'[q].items[k] = request[q].items[k]
                    /\ \/ k \in DOMAIN request[q].at /\ request'[q].at[k] = request[q].at[k]
                       \/ q = r /\ k = key /\ request'[q].at[k] = labels
  BY DEF KeepsLabels
<1> DEFINE old == request[r]
           new == request'[r]
<1>1. IsRequest(old) /\ IsRequest(request[q]) /\ request = [p \in Requests |-> request[p]]
  BY DEF CollectInv, RequestsOK
<1>2. \A p \in Requests \ {r} : request'[p] = request[p]
  BY <1>1 DEF CollectStep, Arrive, CopyItems, Finish, SetUsage, SetLimit, EmitFirst, Respond,
              LimitsThenUsages, UsagesThenLimits
<1>3. CASE q # r
  BY <1>1, <1>2, <1>3 DEF IsRequest
<1>4. CASE q = r
  <2>1. ASSUME new.at = old.at, old.pc # "set" \/ new.items = old.items
        PROVE  k \in DOMAIN old.at /\ new.at[k] = old.at[k] /\ k \in DOMAIN old.items
                 /\ new.items[k] = old.items[k]
    BY <1>1, <1>4, <2>1 DEF IsRequest
  <2>2. CASE Arrive(r) \/ CopyItems(r)
    <3>1. \/ new = [old EXCEPT !.pc = "begun"]
          \/ new = [old EXCEPT !.pc = "set", !.items = cache]
      BY <1>1, <2>2 DEF Arrive, CopyItems
    <3>2. old.pc # "set" /\ new.at = old.at
      BY <1>1, <2>2, <3>1 DEF Arrive, CopyItems, IsRequest
    <3>3. QED
      BY <1>4, <2>1, <3>2
  <2>3. CASE Finish(r)
    <3>1. new = IdleRequest
      BY <1>1, <2>3 DEF Finish
    <3>2. QED
      BY <1>4, <3>1, NothingIn DEF IdleRequest
  <2>4. CASE SetUsage(r, key, labels)
    <3>1. new = [old EXCEPT !.at = Only(key, labels)]
      BY <1>1, <2>4 DEF SetUsage
    <3>2. new.at = Only(key, labels) /\ new.items = old.items
      BY <1>1, <3>1 DEF IsRequest
    <3>3. DOMAIN new.at = {key} /\ new.at[key] = labels /\ key \in DOMAIN old.items
      BY <2>4, <3>2, OnlyIn DEF SetUsage
    <3>4. QED
      BY <1>4, <3>2, <3>3
  <2>5. CASE SetLimit(r, key, labels)
    <3>1. new = [old EXCEPT !.items = Without(@, key), !.at = Empty]
      BY <1>1, <2>5 DEF SetLimit
    <3>2. new.at = Empty
      BY <1>1, <3>1 DEF IsRequest
    <3>3. QED
      BY <1>4, <3>2, NothingIn
  <2>6. ASSUME NEW sent, EmitFirst(r, sent) \/ Respond(r, sent)
        PROVE  new.at = old.at /\ new.items = old.items
    <3>1. \/ new = [old EXCEPT !.pc = "half", !.sent = sent]
          \/ new = [old EXCEPT !.pc = "sent", !.sent = sent]
      BY <1>1, <2>6 DEF EmitFirst, Respond
    <3>2. QED
      BY <1>1, <3>1 DEF IsRequest
  <2>7. CASE LimitsThenUsages(r) \/ UsagesThenLimits(r)
    <3>1. new.at = old.at /\ new.items = old.items
      BY <2>6, <2>7 DEF LimitsThenUsages, UsagesThenLimits
    <3>2. QED
      BY <1>4, <2>1, <3>1
  <2>8. QED
    BY <2>2, <2>3, <2>4, <2>5, <2>7 DEF CollectStep
<1>5. QED
  BY <1>3, <1>4

LEMMA AnswerTypes ==
  ASSUME NEW M, NEW O, NEW S, M \subseteq S \X O, NEW a, AnswerMeasured(M, a)
  PROVE  IsAnswer(a, O, S)
BY DEF AnswerMeasured, IsAnswer

LEMMA LoopTypes ==
  ASSUME NEW Keys, NEW O, NEW S, NEW M, NEW limits, M \subseteq S \X O, written \subseteq Keys \X O,
         DownIsEmpty, CacheCovered, CollectInv(M, limits)
  PROVE  LoopTypeOK(Keys, O, S)
<1>1. ASSUME NEW f, \A k \in DOMAIN f : <<k, f[k]>> \in written PROVE IsCache(f, Keys, O)
  BY <1>1 DEF IsCache
<1>2. IsCache(cache, Keys, O)
  BY <1>1 DEF CacheCovered
<1>3. IsAnswer(Gauges, O, S) /\ \A r \in Requests : IsAnswer(request[r].sent, O, S)
  BY AnswerTypes DEF CollectInv, ShownIn
<1>4. ASSUME NEW r \in Requests
      PROVE  /\ request[r].pc \in {"idle", "begun", "set", "half", "sent"}
             /\ IsCache(request[r].items, Keys, O)
             /\ DOMAIN request[r].at \subseteq DOMAIN request[r].items
  BY <1>1 DEF CollectInv, RequestsOK, IsRequest
<1>5. QED
  BY <1>2, <1>3, <1>4 DEF LoopTypeOK, DownIsEmpty, CollectInv, Gauges
=============================================================================
