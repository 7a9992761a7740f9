-------------------------- MODULE AzureQuotaProofs --------------------------
(***************************************************************************)
(* The Azure quota collector keeps its types, a scrape that returns leaves *)
(* no goroutine behind, and the collector implements QuotaExport, however  *)
(* many lists, pages and overlapping scrapes there are.                    *)
(***************************************************************************)
EXTENDS AzureQuota, QuotaLoopProofs, FiniteSetTheorems

Pages == UNION {[D -> Readings] : D \in SUBSET Codes}
Listers == [pc : {"none", "first", "next", "end"}, left : SUBSET Codes, page : Pages]

\* A goroutine that is not there is as it was at first, and one that is there
\* belongs to a scrape in flight and has codes of its list left.
ListerOK(s, v) ==
    /\ lister[s][v].pc = "none" => lister[s][v] = IdleLister
    /\ lister[s][v].pc # "none" => s \in inFlight
    /\ lister[s][v].left \subseteq ListedBy[v]

ListerInv ==
    /\ lister \in [Scrapes -> [Services -> Listers]]
    /\ \A s \in Scrapes, v \in Services : ListerOK(s, v)

Live(s) == {v \in Services : lister[s][v].pc # "none"}

\* The wait group counts the goroutines.
GroupInv == group \in [Scrapes -> Nat] /\ \A s \in Scrapes : group[s] = Cardinality(Live(s))

AccountInv == account \in [Quotas -> Readings]

\* The pairs of a series and an object that Collect may make of a result.
Measured == {p \in Series \X Objects : <<p[1].code, p[2]>> \in written}

\* A request asks for the subscription before it copies the cache, and the labels
\* stay while a result is set, unless another request changes them.
LabelInv ==
    /\ subscription \in Subscriptions /\ calm \subseteq Requests
    /\ reply \in [Requests -> [pc : {"call", "name", "ready"}, known : BOOLEAN]]
    /\ \A r \in Requests : reply[r].pc # "call" => request[r].pc = "begun"
    /\ ~overlapped => \A r \in Requests : \A k \in DOMAIN request[r].at :
         request[r].at[k] = LabelsOf(k)

AzureInv ==
    /\ DownIsEmpty /\ AccountInv /\ ListerInv /\ GroupInv /\ CacheCovered /\ LabelInv
    /\ written \subseteq Codes \X Objects
    /\ CollectInv(Measured, FALSE)

-----------------------------------------------------------------------------
LEMMA EmptyPage == Empty \in Pages /\ IdleLister \in Listers
<1>1. Empty \in [{} -> Readings]
  BY DEF Empty
<1>2. Empty \in Pages
  BY <1>1 DEF Pages
<1>3. QED
  BY <1>2 DEF IdleLister, Listers

\* No goroutines at all: when the process starts, and when it starts again.
LEMMA NoListersOK ==
  ASSUME lister = NoListers, group = [s \in Scrapes |-> 0]
  PROVE  ListerInv /\ GroupInv
<1>1. ListerInv
  BY EmptyPage DEF ListerInv, NoListers, ListerOK, IdleLister
<1>2. ASSUME NEW s \in Scrapes PROVE Live(s) = {}
  BY DEF Live, NoListers, IdleLister
<1>3. QED
  BY <1>1, <1>2, FS_EmptySet DEF GroupInv

LEMMA AzureInit == Init => AzureInv
<1> SUFFICES ASSUME Init PROVE AzureInv
  OBVIOUS
<1>1. DownIsEmpty /\ CacheCovered /\ written = {}
  BY InitLoop DEF Init
<1>2. CollectInv(Measured, FALSE)
  BY CollectStarts DEF Init, LoopInit
<1>3. \A r \in Requests : DOMAIN request[r].at = {}
  BY NothingIn DEF Init, LoopInit, NoRequests, IdleRequest
<1>4. LabelInv
  BY <1>3 DEF Init, LabelInv, Subscriptions, NoSubscription, NoReply
<1>5. QED
  BY <1>1, <1>2, <1>4, NoListersOK DEF Init, AzureInv, AccountInv

-----------------------------------------------------------------------------
(* The requests *)

LEMMA ItemsMeasured ==
  ASSUME AzureInv, NEW r \in Requests, NEW c \in DOMAIN request[r].items
  PROVE  <<LabelsOf(c), request[r].items[c]>> \in Measured
<1>1. <<c, request[r].items[c]>> \in written
  BY DEF AzureInv, CollectInv, RequestsOK
<1>2. c \in Codes /\ request[r].items[c] \in Objects
  BY <1>1 DEF AzureInv
<1>3. LabelsOf(c) \in Series /\ LabelsOf(c).code = c
  BY <1>2 DEF AzureInv, LabelInv, Subscriptions, LabelsOf, Series
<1>4. QED
  BY <1>1, <1>2, <1>3 DEF Measured

\* A step of Collect is one of the loop's, with a result and the labels that the
\* variables hold, or it assigns a variable.
LEMMA AzureCollectStep ==
  ASSUME AzureInv, NEW r \in Requests, Collect(r)
  PROVE  \/ /\ \E key : CollectStep(FALSE, r, key, LabelsOf(key))
            /\ subscription' = subscription
            /\ CopyItems(r) => reply' = [reply EXCEPT ![r] = NoReply]
            /\ CopyItems(r) \/ reply' = reply
            /\ calm' \subseteq calm \cup {r}
         \/ /\ AssignName(r) \/ \E known \in SubscriptionReads : AssignID(r, known)
            /\ UNCHANGED loopVars
<1>0. IsRequest(request[r])
  BY DEF AzureInv, CollectInv, RequestsOK
<1>1. ASSUME NEW c, SetUsage(r, c, LabelsOf(c)) \/ SetLimit(r, c, LabelsOf(c))
      PROVE  CollectStep(FALSE, r, c, LabelsOf(c))
  BY <1>1 DEF CollectStep
<1>2. ASSUME Arrive(r) \/ UsagesThenLimits(r) \/ Finish(r) \/ CopyItems(r)
      PROVE  \A key : CollectStep(FALSE, r, key, LabelsOf(key))
  BY <1>2 DEF CollectStep
<1>3. CASE /\ \/ Arrive(r) \/ UsagesThenLimits(r)
              \/ \E c : SetUsage(r, c, LabelsOf(c)) \/ SetLimit(r, c, LabelsOf(c))
           /\ UNCHANGED labelVars
  <2>1. \E key : CollectStep(FALSE, r, key, LabelsOf(key))
    BY <1>1, <1>2, <1>3
  <2>2. ~CopyItems(r)
    BY <1>0, <1>3 DEF Arrive, UsagesThenLimits, EmitFirst, Respond, SetUsage, SetLimit, CopyItems,
       IsRequest
  <2>3. QED
    BY <1>3, <2>1, <2>2 DEF labelVars
<1>4. CASE Finish(r) /\ calm' = calm \ {r} /\ UNCHANGED <<subscription, reply>>
  <2>1. \E key : CollectStep(FALSE, r, key, LabelsOf(key))
    BY <1>2, <1>4
  <2>2. ~CopyItems(r)
    BY <1>4 DEF Finish, CopyItems
  <2>3. QED
    BY <1>4, <2>1, <2>2
<1>5. CASE CopyCache(r)
  <2>1. \E key : CollectStep(FALSE, r, key, LabelsOf(key))
    BY <1>2, <1>5 DEF CopyCache
  <2>2. QED
    BY <1>5, <2>1 DEF CopyCache
<1>6. CASE AssignName(r) \/ \E known \in SubscriptionReads : AssignID(r, known)
  BY <1>6 DEF AssignName, AssignID
<1>7. QED
  BY <1>3, <1>4, <1>5, <1>6 DEF Collect

LEMMA StillAlone ==
  ASSUME AzureInv, NEW limits, NEW r, NEW key, NEW labels,
         CollectStep(limits, r, key, labels), ~overlapped'
  PROVE  ~overlapped
<1>1. CASE Arrive(r)
  BY <1>1, Zenon DEF Arrive
<1>2. CASE overlapped' = overlapped
  BY <1>2
<1>3. QED
  BY <1>1, <1>2 DEF CollectStep, CopyItems, Finish, SetUsage, SetLimit,
     LimitsThenUsages, UsagesThenLimits, EmitFirst, Respond

\* Only a request that has begun leaves the state "begun", by its copy.
LEMMA StillBegun ==
  ASSUME AzureInv, NEW r \in Requests, NEW key, NEW labels,
         CollectStep(FALSE, r, key, labels), ~CopyItems(r)
  PROVE  \A q \in Requests : request[q].pc = "begun" => request'[q].pc = "begun"
<1>1. request = [q \in Requests |-> request[q]] /\ IsRequest(request[r])
  BY DEF AzureInv, CollectInv, RequestsOK
<1>2. \A q \in Requests \ {r} : request'[q] = request[q]
  BY <1>1 DEF CollectStep, Arrive, Finish, SetUsage, SetLimit, EmitFirst, Respond,
     LimitsThenUsages, UsagesThenLimits
<1>3. request[r].pc # "begun"
  BY <1>1 DEF CollectStep, Arrive, Finish, SetUsage, SetLimit, EmitFirst, Respond,
     LimitsThenUsages, UsagesThenLimits, IsRequest
<1>4. QED
  BY <1>2, <1>3

LEMMA AzureCollects ==
  ASSUME AzureInv, NEW r \in Requests, Collect(r)
  PROVE  /\ CollectInv(Measured, FALSE)' /\ LabelInv'
         /\ UNCHANGED <<scrapeVars, scanVars>>
         /\ MapsTo(Measured, r)
<1>0. PICK M : M = Measured
  OBVIOUS
<1>1. ASSUME NEW key, CollectStep(FALSE, r, key, LabelsOf(key)),
             subscription' = subscription,
             CopyItems(r) => reply' = [reply EXCEPT ![r] = NoReply],
             CopyItems(r) \/ reply' = reply,
             calm' \subseteq calm \cup {r}
      PROVE  CollectInv(Measured, FALSE)' /\ LabelInv' /\ UNCHANGED scrapeVars /\ MapsTo(Measured, r)
  <2>1. key \in DOMAIN request[r].items => <<LabelsOf(key), request[r].items[key]>> \in Measured
    BY ItemsMeasured
  <2>2. ~overlapped /\ key \in DOMAIN request[r].at => request[r].at[key] = LabelsOf(key)
    BY DEF AzureInv, LabelInv
  <2>3. PICK labels : labels = LabelsOf(key)
    OBVIOUS
  <2>4. CollectInv(M, FALSE)' /\ UNCHANGED scrapeVars /\ MapsTo(M, r)
    BY <1>0, <1>1, <2>1, <2>2, <2>3, CollectSteps DEF AzureInv
  <2>5. UNCHANGED Measured
    BY <2>4 DEF scrapeVars, Measured
  <2>6. KeepsLabels(r, key, labels)
    BY <1>0, <1>1, <2>3, CollectAt DEF AzureInv
  <2>7. ASSUME ~overlapped', NEW q \in Requests, NEW k \in DOMAIN request'[q].at
        PROVE  request'[q].at[k] = LabelsOf(k)'
    <3>1. ~overlapped
      BY <1>1, <2>7, StillAlone
    <3>2. LabelsOf(k)' = LabelsOf(k)
      BY <1>1 DEF LabelsOf
    <3>3. \/ k \in DOMAIN request[q].at /\ request'[q].at[k] = request[q].at[k]
          \/ k = key /\ request'[q].at[k] = labels
      BY <2>6, <2>7 DEF KeepsLabels
    <3>4. QED
      BY <2>3, <3>1, <3>2, <3>3 DEF AzureInv, LabelInv
  <2>8. ASSUME NEW q \in Requests, reply'[q].pc # "call" PROVE request'[q].pc = "begun"
    <3>1. CASE ~CopyItems(r)
      BY <1>1, <2>8, <3>1, StillBegun DEF AzureInv, LabelInv
    <3>2. CASE CopyItems(r)
      <4>1. request = [x \in Requests |-> request[x]]
        BY DEF AzureInv, CollectInv, RequestsOK
      <4>2. \A x \in Requests \ {r} : request'[x] = request[x]
        BY <3>2, <4>1 DEF CopyItems
      <4>3. /\ reply \in [Requests -> [pc : {"call", "name", "ready"}, known : BOOLEAN]]
            /\ reply' = [reply EXCEPT ![r] = NoReply]
        BY <1>1, <3>2 DEF AzureInv, LabelInv
      <4>4. q # r /\ reply'[q] = reply[q]
        BY <2>8, <4>3 DEF NoReply
      <4>5. QED
        BY <2>8, <4>2, <4>4 DEF AzureInv, LabelInv
    <3>3. QED
      BY <3>1, <3>2
  <2>9. /\ subscription' \in Subscriptions /\ calm' \subseteq Requests
        /\ reply' \in [Requests -> [pc : {"call", "name", "ready"}, known : BOOLEAN]]
    <3>1. NoReply \in [pc : {"call", "name", "ready"}, known : BOOLEAN]
      BY DEF NoReply
    <3>2. QED
      BY <1>1, <3>1 DEF AzureInv, LabelInv
  <2>10. LabelInv'
    BY <2>7, <2>8, <2>9 DEF LabelInv
  <2>11. QED
    BY <1>0, <2>4, <2>5, <2>10
<1>2. ASSUME AssignName(r) \/ \E known \in SubscriptionReads : AssignID(r, known)
      PROVE  CollectInv(Measured, FALSE)' /\ LabelInv' /\ UNCHANGED scrapeVars /\ MapsTo(Measured, r)
  <2>1. UNCHANGED loopVars
    BY <1>2 DEF AssignName, AssignID
  <2>2. UNCHANGED <<scrapeVars, collectVars, Measured>>
    BY <2>1 DEF loopVars, scrapeVars, Measured
  <2>3. CollectInv(M, FALSE)'
    BY <1>0, <2>2, CollectStays DEF AzureInv, scrapeVars
  <2>4. MapsTo(Measured, r)
    BY <2>2 DEF MapsTo, collectVars, Answers
  <2>5. request[r].pc = "begun"
    BY <1>2 DEF AssignName, AssignID, AzureInv, LabelInv
  <2>6. /\ subscription' \in Subscriptions /\ calm' \subseteq Requests
        /\ reply' \in [Requests -> [pc : {"call", "name", "ready"}, known : BOOLEAN]]
        /\ \A q \in Requests \ {r} : reply'[q] = reply[q]
    <3>1. CASE AssignName(r)
      BY <3>1 DEF AssignName, AzureInv, LabelInv, Subscriptions
    <3>2. CASE \E known \in SubscriptionReads : AssignID(r, known)
      BY <3>2, ServicesAssumption DEF AssignID, AzureInv, LabelInv, Subscriptions
    <3>3. QED
      BY <1>2, <3>1, <3>2
  <2>7. ASSUME ~overlapped, NEW q \in Requests PROVE DOMAIN request[q].at = {}
    <3>1. IsRequest(request[q])
      BY DEF AzureInv, CollectInv, RequestsOK
    <3>2. request[q].pc # "set"
      BY <2>5, <2>7 DEF AzureInv, CollectInv, AloneInv, Alone, Busy
    <3>3. QED
      BY <3>1, <3>2 DEF IsRequest
  <2>8. LabelInv'
    BY <2>2, <2>5, <2>6, <2>7 DEF LabelInv, AzureInv, collectVars
  <2>9. QED
    BY <1>0, <2>2, <2>3, <2>4, <2>8
<1>3. QED
  BY <1>1, <1>2, AzureCollectStep DEF Collect

-----------------------------------------------------------------------------
(* The loop *)

LEMMA ListerFields ==
  ASSUME ListerInv, NEW s \in Scrapes, NEW v \in Services
  PROVE  /\ lister[s][v] \in Listers /\ ListerOK(s, v)
         /\ lister[s][v].left \subseteq Codes /\ lister[s][v].page \in Pages
BY DEF ListerInv, Listers

\* Every step is one of the loop's steps, with s in Scrapes.
LEMMA AzureControl ==
  ASSUME AzureInv, [Next]_azureVars
  PROVE  DownIsEmpty'
<1> DEFINE LoopStep ==
      \/ \E s \in Scrapes : Begin(s) \/ Return(s) \/ (s \in inFlight /\ Misses(s))
      \/ \E key, object : CacheSet(key, object)
      \/ Expire \/ AccountChanged \/ Die \/ UNCHANGED scrapeVars
<1>1. ASSUME NEW s \in Scrapes, NEW v \in Services, ListStep(s, v) PROVE LoopStep
  <2>1. CASE PageFails(s, v)
    <3>1. s \in inFlight
      BY <2>1, ListerFields DEF PageFails, AzureInv, ListerOK
    <3>2. QED
      BY <2>1, <3>1 DEF PageFails
  <2>2. CASE ReadPage(s, v) \/ EndList(s, v) \/ Done(s, v)
    BY <2>2 DEF ReadPage, EndList, Done, loopVars
  <2>3. ASSUME NEW c \in Codes, CacheUsage(s, v, c) PROVE LoopStep
    BY <2>3 DEF CacheUsage, loopVars
  <2>4. QED
    BY <1>1, <2>1, <2>2, <2>3 DEF ListStep
<1>2. ASSUME NEW s \in Scrapes, BeginScrape(s) \/ ScrapeReturns(s) PROVE LoopStep
  BY <1>2 DEF BeginScrape, ScrapeReturns
<1>3. ASSUME NEW r \in Requests, Collect(r) PROVE LoopStep
  BY <1>3, AzureCollects
<1>4. ASSUME Expire PROVE LoopStep
  BY <1>4
<1>5. ASSUME AccountChanges PROVE LoopStep
  BY <1>5 DEF AccountChanges
<1>6. ASSUME Restart PROVE LoopStep
  BY <1>6 DEF Restart
<1>7. ASSUME UNCHANGED azureVars PROVE LoopStep
  BY <1>7 DEF azureVars, loopVars
<1>8. LoopStep
  <2> HIDE DEF LoopStep
  <2>1. QED
    BY <1>1, <1>2, <1>3, <1>4, <1>5, <1>6, <1>7 DEF Next
<1>9. QED
  BY <1>8, LoopSteps DEF AzureInv

-----------------------------------------------------------------------------
(* The goroutines *)

\* One goroutine becomes l and the others stay as they are.
Becomes(s, v, l) ==
    /\ lister' \in [Scrapes -> [Services -> Listers]]
    /\ lister'[s][v] = l
    /\ \A t \in Scrapes, w \in Services : <<t, w>> # <<s, v>> => lister'[t][w] = lister[t][w]

LEMMA SetOne ==
  ASSUME ListerInv, NEW s \in Scrapes, NEW v \in Services, NEW l \in Listers,
         SetLister(s, v, l)
  PROVE  Becomes(s, v, l)
BY DEF ListerInv, SetLister, Becomes

\* A goroutine that stays alive, in a scrape that stays in flight.
LEMMA StaysAlive ==
  ASSUME ListerInv, GroupInv, NEW s \in Scrapes, NEW v \in Services, NEW l,
         Becomes(s, v, l), lister[s][v].pc # "none", l.pc # "none",
         l.left \subseteq ListedBy[v], UNCHANGED <<inFlight, group>>
  PROVE  ListerInv' /\ GroupInv'
<1>1. ASSUME NEW t \in Scrapes, NEW w \in Services PROVE ListerOK(t, w)'
  <2>1. CASE t = s /\ w = v
    BY <2>1, ListerFields DEF Becomes, ListerOK
  <2>2. CASE ~(t = s /\ w = v)
    BY <2>2, ListerFields DEF Becomes, ListerOK
  <2>3. QED
    BY <2>1, <2>2
<1>2. ASSUME NEW t \in Scrapes PROVE Live(t)' = Live(t)
  <2>1. ASSUME NEW w \in Services PROVE lister'[t][w].pc # "none" <=> lister[t][w].pc # "none"
    BY DEF Becomes
  <2>2. QED
    BY <2>1 DEF Live
<1>3. QED
  BY <1>1, <1>2 DEF ListerInv, GroupInv, Becomes

\* wg.Done() takes a goroutine out of the group and out of the program.
LEMMA DoneCounts ==
  ASSUME ListerInv, GroupInv, NEW s \in Scrapes, NEW v \in Services, Done(s, v)
  PROVE  ListerInv' /\ GroupInv'
<1>1. Becomes(s, v, IdleLister)
  BY EmptyPage, SetOne DEF Done
<1>2. ASSUME NEW t \in Scrapes, NEW w \in Services PROVE ListerOK(t, w)'
  <2>1. CASE t = s /\ w = v
    BY <1>1, <2>1 DEF Becomes, ListerOK, IdleLister
  <2>2. CASE ~(t = s /\ w = v)
    BY <1>1, <2>2, ListerFields DEF Becomes, ListerOK, Done, loopVars, scrapeVars
  <2>3. QED
    BY <2>1, <2>2
<1>3. Live(s)' = Live(s) \ {v} /\ v \in Live(s)
  BY <1>1 DEF Becomes, Live, IdleLister, Done
<1>4. ASSUME NEW t \in Scrapes, t # s PROVE Live(t)' = Live(t)
  BY <1>1, <1>4 DEF Becomes, Live
<1>5. IsFiniteSet(Live(s))
  BY ServicesAssumption, FS_Subset DEF Live
<1>6. Cardinality(Live(s)') = group[s] - 1 /\ Cardinality(Live(s)') \in Nat
  BY <1>3, <1>5, FS_RemoveElement, FS_CardinalityType DEF GroupInv
<1>7. GroupInv'
  BY <1>4, <1>6 DEF Done, GroupInv
<1>8. QED
  BY <1>1, <1>2, <1>7 DEF ListerInv, Becomes

\* A scrape begins in a slot that has no goroutines.
LEMMA BeginCounts ==
  ASSUME DownIsEmpty, ListerInv, GroupInv, NEW s \in Scrapes, BeginScrape(s)
  PROVE  ListerInv' /\ GroupInv'
<1> DEFINE first(v) == [pc |-> "first", left |-> ListedBy[v], page |-> Empty]
<1>1. inFlight' = inFlight \cup {s}
  BY DEF BeginScrape, Begin
<1>2. \A v \in Services : first(v) \in Listers
  BY EmptyPage DEF Listers, Codes
<1>3. /\ lister' \in [Scrapes -> [Services -> Listers]]
      /\ lister'[s] = [v \in Services |-> first(v)]
      /\ \A t \in Scrapes \ {s} : lister'[t] = lister[t]
  BY <1>2 DEF BeginScrape, ListerInv
<1>4. ASSUME NEW t \in Scrapes, NEW v \in Services PROVE ListerOK(t, v)'
  <2>1. CASE t = s
    BY <1>1, <1>3, <2>1 DEF ListerOK
  <2>2. CASE t # s
    BY <1>1, <1>3, <2>2, ListerFields DEF ListerOK
  <2>3. QED
    BY <2>1, <2>2
<1>5. Live(s)' = Services
  BY <1>3 DEF Live
<1>6. ASSUME NEW t \in Scrapes, t # s PROVE Live(t)' = Live(t)
  BY <1>3, <1>6 DEF Live
<1>7. Cardinality(Services) \in Nat
  BY ServicesAssumption, FS_CardinalityType
<1>8. GroupInv'
  BY <1>5, <1>6, <1>7 DEF GroupInv, BeginScrape
<1>9. QED
  BY <1>3, <1>4, <1>8 DEF ListerInv

\* waitGroup.Wait() returns when the scrape has no goroutine left.
LEMMA EmptyGroup ==
  ASSUME ListerInv, GroupInv, NEW s \in Scrapes, group[s] = 0
  PROVE  \A v \in Services : lister[s][v] = IdleLister
<1>1. IsFiniteSet(Live(s)) /\ Cardinality(Live(s)) = 0
  BY ServicesAssumption, FS_Subset DEF Live, GroupInv
<1>2. Live(s) = {}
  BY <1>1, FS_EmptySet
<1>3. QED
  BY <1>2, ListerFields DEF Live, ListerOK

LEMMA ReturnCounts ==
  ASSUME ListerInv, GroupInv, NEW s \in Scrapes, ScrapeReturns(s)
  PROVE  ListerInv' /\ GroupInv'
<1>1. inFlight' = inFlight \ {s} /\ UNCHANGED <<lister, group>>
  BY DEF ScrapeReturns, Return, scanVars
<1>2. \A v \in Services : lister[s][v].pc = "none"
  BY EmptyGroup DEF ScrapeReturns, IdleLister
<1>3. ASSUME NEW t \in Scrapes, NEW v \in Services PROVE ListerOK(t, v)'
  BY <1>1, <1>2, ListerFields DEF ListerOK
<1>4. QED
  BY <1>1, <1>3 DEF ListerInv, GroupInv, Live

\* A page read holds readings of codes of the list.
LEMMA PageType ==
  ASSUME AccountInv, NEW v \in Services, NEW codes \in SUBSET ListedBy[v]
  PROVE  [c \in codes |-> account[<<v, c>>]] \in Pages
<1>1. \A c \in codes : <<v, c>> \in Quotas
  BY DEF Quotas, Codes
<1>2. codes \subseteq Codes
  BY DEF Codes
<1>3. [c \in codes |-> account[<<v, c>>]] \in [codes -> Readings]
  BY <1>1 DEF AccountInv
<1>4. QED
  BY <1>2, <1>3 DEF Pages

LEMMA AzureListers ==
  ASSUME AzureInv, [Next]_azureVars
  PROVE  ListerInv' /\ GroupInv'
<1> ListerInv /\ GroupInv /\ AccountInv /\ DownIsEmpty
  BY DEF AzureInv
<1>1. ASSUME NEW s \in Scrapes, NEW v \in Services, ReadPage(s, v) PROVE ListerInv' /\ GroupInv'
  <2> DEFINE l == lister[s][v]
  <2>1. PICK codes \in SUBSET l.left :
           SetLister(s, v, [pc |-> "next", left |-> l.left \ codes,
                            page |-> [c \in codes |-> account[<<v, c>>]]])
    BY <1>1 DEF ReadPage
  <2>2. codes \subseteq ListedBy[v] /\ l.left \subseteq Codes
    BY ListerFields DEF ListerOK
  <2> DEFINE n == [pc |-> "next", left |-> l.left \ codes, page |-> [c \in codes |-> account[<<v, c>>]]]
  <2>3. n \in Listers
    BY <2>2, PageType DEF Listers
  <2>4. n.pc # "none" /\ n.left \subseteq ListedBy[v]
    BY ListerFields DEF ListerOK
  <2>5. l.pc # "none" /\ UNCHANGED <<inFlight, group>>
    BY <1>1 DEF ReadPage, loopVars, scrapeVars
  <2>6. QED
    <3> HIDE DEF n
    <3>1. QED
      BY <2>1, <2>3, <2>4, <2>5, SetOne, StaysAlive DEF n
<1>2. ASSUME NEW s \in Scrapes, NEW v \in Services, PageFails(s, v) \/ EndList(s, v)
      PROVE  ListerInv' /\ GroupInv'
  <2> DEFINE n == [IdleLister EXCEPT !.pc = "end"]
  <2>1. n \in Listers /\ n.pc # "none" /\ n.left \subseteq ListedBy[v]
    BY EmptyPage DEF Listers, IdleLister
  <2>2. SetLister(s, v, n) /\ lister[s][v].pc # "none" /\ UNCHANGED <<inFlight, group>>
    BY <1>2 DEF PageFails, EndList, Misses, loopVars, scrapeVars
  <2>3. QED
    <3> HIDE DEF n
    <3>1. QED
      BY <2>1, <2>2, SetOne, StaysAlive
<1>3. ASSUME NEW s \in Scrapes, NEW v \in Services, NEW c \in Codes, CacheUsage(s, v, c)
      PROVE  ListerInv' /\ GroupInv'
  <2> DEFINE l == lister[s][v]
             p == [x \in DOMAIN l.page \ {c} |-> l.page[x]]
             n == [l EXCEPT !.page = p]
  <2>1. l \in Listers /\ l.left \subseteq ListedBy[v] /\ l.page \in Pages
    BY ListerFields DEF ListerOK
  <2>2. p \in Pages
    <3>1. PICK D \in SUBSET Codes : l.page \in [D -> Readings]
      BY <2>1 DEF Pages
    <3>2. p \in [D \ {c} -> Readings]
      BY <3>1
    <3>3. QED
      BY <3>2 DEF Pages
  <2>3. n \in Listers /\ n.pc = l.pc /\ n.left = l.left
    BY <2>1, <2>2 DEF Listers
  <2>4. SetLister(s, v, n) /\ l.pc # "none" /\ UNCHANGED <<inFlight, group>>
    BY <1>3 DEF CacheUsage, CacheSet, loopVars, scrapeVars
  <2>5. QED
    <3> HIDE DEF n
    <3>1. QED
      BY <2>1, <2>3, <2>4, SetOne, StaysAlive
<1>4. ASSUME NEW s \in Scrapes, NEW v \in Services, Done(s, v) PROVE ListerInv' /\ GroupInv'
  BY <1>4, DoneCounts
<1>5. ASSUME NEW s \in Scrapes, BeginScrape(s) \/ ScrapeReturns(s) PROVE ListerInv' /\ GroupInv'
  BY <1>5, BeginCounts, ReturnCounts
<1>6. CASE Restart
  <2>1. ListerInv' /\ GroupInv'
    <3>1. lister' = NoListers /\ group' = [s \in Scrapes |-> 0]
      BY <1>6 DEF Restart
    <3>2. \A s \in Scrapes, v \in Services : lister'[s][v] = IdleLister
      BY <3>1 DEF NoListers
    <3>3. ListerInv'
      BY <3>1, <3>2, EmptyPage DEF ListerInv, ListerOK, NoListers, IdleLister
    <3>4. \A s \in Scrapes : Live(s)' = {}
      BY <3>2 DEF Live, IdleLister
    <3>5. QED
      BY <3>1, <3>3, <3>4, FS_EmptySet DEF GroupInv
  <2>2. QED
    BY <2>1
<1>7. CASE UNCHANGED <<inFlight, group, lister>>
  BY <1>7 DEF ListerInv, ListerOK, GroupInv, Live
<1>8. QED
  BY <1>1, <1>2, <1>3, <1>4, <1>5, <1>6, <1>7, AzureCollects DEF Next, ListStep, azureVars, loopVars,
     scrapeVars, scanVars, Expire, AccountChanges, AccountChanged

LEMMA AzureAccount ==
  ASSUME AzureInv, [Next]_azureVars
  PROVE  AccountInv'
<1> USE DEF AzureInv
<1>1. CASE AccountChanges
  BY <1>1 DEF AccountChanges, AccountInv
<1>2. CASE ~AccountChanges
  BY <1>2 DEF Next, ListStep, azureVars, scanVars, BeginScrape, ReadPage, PageFails, EndList, Done,
     CacheUsage, ScrapeReturns, Collect, Restart, AccountInv
<1>3. QED
  BY <1>1, <1>2

-----------------------------------------------------------------------------
(* Each step in terms of QuotaExport *)

MeasureStep ==
    /\ written \subseteq written' /\ written' \subseteq Codes \X Objects
    /\ UNCHANGED <<collectVars, subscription, reply>> /\ calm' \subseteq calm

RestartStep ==
    /\ written' = {}
    /\ request' = NoRequests /\ gaugeCurrent' = Empty /\ gaugeLimit' = Empty /\ overlapped' = FALSE
    /\ subscription' = NoSubscription /\ calm' = {} /\ reply' = [r \in Requests |-> NoReply]

\* A usage that is kept is used and limited.
LEMMA KeptIsObject ==
  ASSUME NEW u \in Readings, Kept(u)
  PROVE  u \in Objects
<1>1. u = [current |-> u.current, limit |-> u.limit]
  BY ServicesAssumption
<1>2. u.current # 0 /\ u.limit # Unlimited
  BY DEF Kept
<1>3. QED
  BY <1>1, <1>2 DEF Objects

LEMMA AzureExport ==
  ASSUME AzureInv, [Next]_azureVars
  PROVE  \/ CacheCovered' /\ MeasureStep
         \/ CacheCovered' /\ RestartStep
         \/ UNCHANGED <<cache, written>> /\ \E r \in Requests : Collect(r)
<1> USE DEF AzureInv
<1>1. ASSUME NEW s \in Scrapes, NEW v \in Services, NEW c \in Codes, CacheUsage(s, v, c),
             ~UNCHANGED loopVars
      PROVE  CacheCovered' /\ MeasureStep
  <2> DEFINE u == lister[s][v].page[c]
  <2>1. c \in DOMAIN lister[s][v].page /\ Kept(u) /\ CacheSet(c, u)
    BY <1>1 DEF CacheUsage
  <2>2. u \in Readings
    BY <2>1, ListerFields DEF Pages
  <2>3. u \in Objects
    BY <2>1, <2>2, KeptIsObject
  <2>4. UNCHANGED labelVars
    BY <1>1 DEF CacheUsage
  <2>5. QED
    BY <2>1, <2>3, <2>4, SetCovers DEF MeasureStep, labelVars
<1>2. CASE \E r \in Requests : Collect(r)
  BY <1>2, AzureCollects DEF scrapeVars
<1>3. CASE Restart
  BY <1>3, DieCovers DEF Restart, RestartStep, Die
<1>4. CASE Expire /\ UNCHANGED labelVars
  BY <1>4, ExpireCovers DEF MeasureStep, labelVars
<1>5. CASE UNCHANGED <<cache, written, collectVars, subscription, reply>> /\ calm' \subseteq calm
  BY <1>5, SameCovers DEF MeasureStep
<1>6. ASSUME NEW s \in Scrapes, NEW v \in Services, ListStep(s, v)
      PROVE  \/ UNCHANGED <<cache, written, collectVars, labelVars>>
             \/ \E c \in Codes : CacheUsage(s, v, c) /\ ~UNCHANGED loopVars
  BY <1>6 DEF ListStep, ReadPage, PageFails, Misses, EndList, Done, CacheUsage, loopVars, scrapeVars
<1>7. ASSUME NEW s \in Scrapes, BeginScrape(s) \/ ScrapeReturns(s)
      PROVE  UNCHANGED <<cache, written, collectVars, labelVars>>
  BY <1>7 DEF BeginScrape, Begin, ScrapeReturns, Return
<1>8. CASE AccountChanges
  BY <1>5, <1>8 DEF AccountChanges, AccountChanged
<1>9. CASE UNCHANGED azureVars
  BY <1>5, <1>9 DEF azureVars, loopVars, scrapeVars, labelVars
<1>10. QED
  BY <1>1, <1>2, <1>3, <1>4, <1>5, <1>6, <1>7, <1>8, <1>9 DEF Next, labelVars

LEMMA MeasuredGrows ==
  ASSUME NEW W, NEW V, W \subseteq V
  PROVE  {p \in Series \X Objects : <<p[1].code, p[2]>> \in W}
           \subseteq {p \in Series \X Objects : <<p[1].code, p[2]>> \in V}
OBVIOUS

LEMMA AzureMeasures ==
  ASSUME AzureInv, MeasureStep PROVE CollectInv(Measured, FALSE)' /\ LabelInv'
<1>1. PICK M, N : M = Measured /\ N = Measured'
  OBVIOUS
<1>2. M \subseteq N
  BY <1>1, MeasuredGrows DEF Measured, MeasureStep
<1>3. CollectInv(N, FALSE)'
  BY <1>1, <1>2, CollectStays DEF AzureInv, MeasureStep
<1>4. LabelInv'
  BY DEF AzureInv, LabelInv, LabelsOf, MeasureStep, collectVars
<1>5. QED
  BY <1>1, <1>3, <1>4

LEMMA AzureRestarts ==
  ASSUME RestartStep PROVE CollectInv(Measured, FALSE)' /\ LabelInv'
<1>1. PICK N : N = Measured'
  OBVIOUS
<1>2. CollectInv(N, FALSE)'
  BY CollectRestarts DEF RestartStep
<1>3. \A r \in Requests : request'[r].at = Empty
  BY DEF RestartStep, NoRequests, IdleRequest
<1>4. LabelInv'
  BY <1>3, NothingIn DEF RestartStep, LabelInv, Subscriptions, NoSubscription, NoReply
<1>5. QED
  BY <1>1, <1>2, <1>4

LEMMA AzureStep == AzureInv /\ [Next]_azureVars => AzureInv'
<1> SUFFICES ASSUME AzureInv, [Next]_azureVars PROVE AzureInv'
  OBVIOUS
<1>1. DownIsEmpty' /\ AccountInv' /\ ListerInv' /\ GroupInv'
  BY AzureControl, AzureAccount, AzureListers
<1>2. CASE CacheCovered' /\ MeasureStep
  BY <1>1, <1>2, AzureMeasures DEF AzureInv, MeasureStep
<1>3. CASE CacheCovered' /\ RestartStep
  BY <1>1, <1>3, AzureRestarts DEF AzureInv, RestartStep
<1>4. CASE UNCHANGED <<cache, written>> /\ \E r \in Requests : Collect(r)
  BY <1>1, <1>4, AzureCollects, SameCovers DEF AzureInv
<1>5. QED
  BY <1>2, <1>3, <1>4, AzureExport

LEMMA AzureTypes == AzureInv => TypeOK
<1> SUFFICES ASSUME AzureInv PROVE TypeOK
  OBVIOUS
<1> USE DEF AzureInv
<1>1. PICK M : M = Measured
  OBVIOUS
<1>2. M \subseteq Series \X Objects
  BY <1>1 DEF Measured
<1>3. LoopTypeOK(Codes, Objects, Series)
  BY <1>1, <1>2, LoopTypes
<1>4. ASSUME NEW s \in Scrapes PROVE group[s] \in 0 .. Cardinality(Services)
  <2>1. Cardinality(Live(s)) <= Cardinality(Services)
    BY ServicesAssumption, FS_Subset DEF Live
  <2>2. Cardinality(Services) \in Nat
    BY ServicesAssumption, FS_CardinalityType
  <2>3. group[s] \in Nat /\ group[s] = Cardinality(Live(s))
    BY DEF GroupInv
  <2>4. QED
    BY <2>1, <2>2, <2>3
<1>5. group \in [Scrapes -> 0 .. Cardinality(Services)]
  BY <1>4 DEF GroupInv
<1>6. ASSUME NEW s \in Scrapes, NEW v \in Services PROVE IsLister(lister[s][v])
  <2>0. lister[s][v].page \in Pages
    BY ListerFields
  <2>1. PICK D \in SUBSET Codes : lister[s][v].page \in [D -> Readings]
    BY <2>0 DEF Pages
  <2>2. lister[s][v].pc \in {"none", "first", "next", "end"} /\ lister[s][v].left \subseteq Codes
    BY ListerFields DEF Listers
  <2>3. QED
    BY <2>1, <2>2 DEF IsLister
<1>7. QED
  BY <1>3, <1>5, <1>6 DEF TypeOK, AccountInv, LabelInv

LEMMA AzureIdle == AzureInv => ReturnedScrapeIsIdle
BY ListerFields DEF AzureInv, GroupInv, Live, ListerOK, ReturnedScrapeIsIdle

-----------------------------------------------------------------------------
\* The collector keeps its types, and caches neither unused nor unlimited
\* quotas.
THEOREM AzureTypeCorrect == Spec => []TypeOK
<1>1. Spec => []AzureInv
  BY AzureInit, AzureStep, PTL DEF Spec
<1>2. QED
  BY <1>1, AzureTypes, PTL

\* Whatever pages fail and however many scrapes overlap, waitGroup.Wait() returns
\* to a scrape only when its own goroutines are gone.
THEOREM AzureReturnsAlone == Spec => []ReturnedScrapeIsIdle
<1>1. Spec => []AzureInv
  BY AzureInit, AzureStep, PTL DEF Spec
<1>2. QED
  BY <1>1, AzureIdle, PTL

\* Whatever lists fail, whatever name the subscription has, whichever entries expire
\* and however many requests are in flight, an answer holds only what was measured;
\* and as long as requests come one at a time it pairs each usage with the limit
\* measured with it, for every series there is: the collector implements QuotaExport.
THEOREM AzureImplementsExport == Spec => ExportSpec
<1> DEFINE vars == <<Measured, DOMAIN gaugeCurrent, Answers, overlapped>>
<1>1. Init => Export!Init
  <2> SUFFICES ASSUME Init PROVE Export!Init
    OBVIOUS
  <2>1. Measured = {} /\ DOMAIN gaugeCurrent = {} /\ overlapped = FALSE
    BY NothingIn DEF Init, LoopInit, Measured
  <2>2. Answers = [r \in Requests |-> NoAnswer]
    BY DEF Init, LoopInit, Answers, NoRequests, IdleRequest
  <2>3. QED
    BY <2>1, <2>2 DEF Export!Init, Measured, NoAnswer, Empty, Export!NoAnswers, Export!NoAnswer,
                      Export!Nothing
<1>2. AzureInv /\ [Next]_azureVars => [Export!Next]_vars
  <2> SUFFICES ASSUME AzureInv, [Next]_azureVars PROVE [Export!Next]_vars
    OBVIOUS
  <2>1. Measured' \subseteq Series \X Objects
    BY DEF Measured
  <2>2. CASE MeasureStep
    <3>1. Measured \subseteq Measured'
      BY <2>2, MeasuredGrows DEF MeasureStep, Measured
    <3>2. UNCHANGED <<DOMAIN gaugeCurrent, Answers, overlapped>>
      BY <2>2 DEF MeasureStep, collectVars, Answers
    <3>3. QED
      BY <2>1, <3>1, <3>2 DEF Export!Next, Export!Measure, Measured
  <2>3. CASE RestartStep
    <3>1. Measured' = {} /\ DOMAIN gaugeCurrent' = {} /\ overlapped' = FALSE
      BY <2>3, NothingIn DEF RestartStep, Measured
    <3>2. Answers' = [r \in Requests |-> NoAnswer]
      BY <2>3 DEF RestartStep, Answers, NoRequests, IdleRequest
    <3>3. QED
      BY <3>1, <3>2 DEF Export!Next, Export!Restart, Measured, NoAnswer, Empty,
                        Export!NoAnswers, Export!NoAnswer, Export!Nothing
  <2>4. CASE UNCHANGED <<cache, written>> /\ \E r \in Requests : Collect(r)
    <3>1. PICK r \in Requests : MapsTo(Measured, r) /\ UNCHANGED Measured
      BY <2>4, AzureCollects DEF Measured
    <3>2. CASE ShowsMore(Measured)
      BY <3>1, <3>2 DEF ShowsMore, Export!Next, Export!Show, Measured
    <3>3. CASE Nobody
      BY <3>1, <3>3 DEF Nobody, Export!Next, Export!RequestsOverlap, Measured
    <3>4. CASE Forgets(r)
      BY <3>1, <3>4 DEF Forgets, Export!Next, Export!Finish, Measured, NoAnswer, Empty,
                        Export!NoAnswer, Export!Nothing
    <3>5. CASE AnswersWith(Measured, r, Answers'[r])
      BY <3>1, <3>5 DEF AnswersWith, AnswerMeasured, Export!Next, Export!Respond, Measured,
                        Export!EachIsMeasured, Export!PairsAreMeasured
    <3>6. QED
      BY <3>1, <3>2, <3>3, <3>4, <3>5 DEF MapsTo
  <2>5. QED
    BY <2>2, <2>3, <2>4, AzureExport
<1>3. QED
  BY <1>1, <1>2, AzureInit, AzureStep, PTL DEF Spec, ExportSpec, Export!Spec, Measured

-----------------------------------------------------------------------------
(* The labels of the subscription *)

Known(x) == x = [code |-> x.code, id |-> TRUE, name |-> TRUE]

\* A request comes to its results only after it assigned both variables.
KnownInv ==
    /\ \A x \in DOMAIN gaugeLimit : Known(x)
    /\ \A r \in Requests :
         /\ request[r].pc = "set" => subscription.id = TRUE /\ subscription.name = TRUE
         /\ reply[r].pc = "name" => subscription.id = TRUE /\ reply[r].known = TRUE
         /\ reply[r].pc = "ready" => subscription.id = TRUE /\ subscription.name = TRUE

LEMMA KnownStays ==
  ASSUME KnownInv, UNCHANGED <<gaugeLimit, subscription, reply>>,
         \A r \in Requests : request'[r].pc = "set" => request[r].pc = "set"
  PROVE  KnownInv'
BY DEF KnownInv

\* A step of a request that leaves the limits and the subscription alone.
LEMMA KnownRequest ==
  ASSUME AzureInv, KnownInv, NEW r \in Requests, UNCHANGED <<subscription, reply>>,
         \/ Arrive(r) \/ UsagesThenLimits(r) \/ Finish(r)
         \/ \E c, labels : SetUsage(r, c, labels)
  PROVE  KnownInv'
<1>1. request = [q \in Requests |-> request[q]] /\ IsRequest(request[r])
  BY DEF AzureInv, CollectInv, RequestsOK
<1>2. UNCHANGED gaugeLimit
  BY DEF Arrive, UsagesThenLimits, EmitFirst, Respond, Finish, SetUsage
<1>3. \A q \in Requests \ {r} : request'[q] = request[q]
  BY <1>1 DEF Arrive, UsagesThenLimits, EmitFirst, Respond, Finish, SetUsage
<1>4. request'[r].pc = "set" => request[r].pc = "set"
  BY <1>1 DEF Arrive, UsagesThenLimits, EmitFirst, Respond, Finish, SetUsage, IsRequest,
     IdleRequest
<1>5. QED
  BY <1>2, <1>3, <1>4, KnownStays

\* A limit is set with the labels that the variables hold.
LEMMA KnownLimit ==
  ASSUME AzureInv, KnownInv, NEW r \in Requests, NEW c, SetLimit(r, c, LabelsOf(c)),
         UNCHANGED labelVars
  PROVE  KnownInv'
<1>1. request = [q \in Requests |-> request[q]] /\ IsRequest(request[r])
  BY DEF AzureInv, CollectInv, RequestsOK
<1>2. request[r].pc = "set"
  BY <1>1 DEF SetLimit, IsRequest
<1>3. Known(LabelsOf(c))
  BY <1>2 DEF KnownInv, Known, LabelsOf
<1>4. DOMAIN gaugeLimit' = DOMAIN gaugeLimit \cup {LabelsOf(c)}
  BY DEF SetLimit, Override, Only
<1>5. \A x \in DOMAIN gaugeLimit' : Known(x)
  BY <1>3, <1>4 DEF KnownInv
<1>6. \A q \in Requests : request'[q].pc = "set" => request[q].pc = "set"
  BY <1>1, <1>2 DEF SetLimit
<1>7. QED
  BY <1>5, <1>6 DEF KnownInv, labelVars

LEMMA KnownCopy ==
  ASSUME AzureInv, KnownInv, NEW r \in Requests, CopyCache(r)
  PROVE  KnownInv'
<1>1. request = [q \in Requests |-> request[q]]
  BY DEF AzureInv, CollectInv, RequestsOK
<1>2. /\ reply \in [Requests -> [pc : {"call", "name", "ready"}, known : BOOLEAN]]
      /\ reply' = [reply EXCEPT ![r] = NoReply]
      /\ UNCHANGED <<gaugeLimit, subscription>>
  BY DEF AzureInv, LabelInv, CopyCache, CopyItems
<1>3. subscription.id = TRUE /\ subscription.name = TRUE
  BY DEF CopyCache, KnownInv
<1>4. reply'[r].pc = "call" /\ \A q \in Requests \ {r} : reply'[q] = reply[q]
  BY <1>2 DEF NoReply
<1>5. \A q \in Requests : reply'[q].pc = "name" => subscription.id = TRUE /\ reply'[q].known = TRUE
  BY <1>4 DEF KnownInv
<1>6. QED
  BY <1>2, <1>3, <1>5 DEF KnownInv

\* The variables are assigned what GetSubscriptionInfo returned.
LEMMA KnownAssign ==
  ASSUME SubscriptionReads \subseteq {TRUE}, AzureInv, KnownInv, NEW r \in Requests,
         AssignName(r) \/ \E known \in SubscriptionReads : AssignID(r, known)
  PROVE  KnownInv'
<1>1. /\ reply \in [Requests -> [pc : {"call", "name", "ready"}, known : BOOLEAN]]
      /\ subscription \in Subscriptions
  BY DEF AzureInv, LabelInv
<1>2. UNCHANGED <<gaugeLimit, request>>
  BY DEF AssignName, AssignID, loopVars, collectVars
<1>3. CASE AssignName(r)
  <2>1. subscription' = [subscription EXCEPT !.name = TRUE] /\ subscription.id = TRUE
    BY <1>3 DEF AssignName, KnownInv
  <2>2. subscription'.id = TRUE /\ subscription'.name = TRUE
    BY <1>1, <2>1 DEF Subscriptions
  <2>3. \A q \in Requests : reply'[q].pc = "name" => reply'[q].known = TRUE
    BY <1>1, <1>3 DEF AssignName, KnownInv
  <2>4. QED
    BY <1>2, <2>2, <2>3 DEF KnownInv
<1>4. CASE AssignID(r, TRUE)
  <2>1. subscription' = [subscription EXCEPT !.id = TRUE]
    BY <1>4 DEF AssignID
  <2>2. subscription'.id = TRUE /\ subscription'.name = subscription.name
    BY <1>1, <2>1 DEF Subscriptions
  <2>3. /\ reply'[r].pc = "name" /\ reply'[r].known = TRUE
        /\ \A q \in Requests \ {r} : reply'[q] = reply[q]
    BY <1>1, <1>4 DEF AssignID
  <2>4. ASSUME NEW q \in Requests
        PROVE  /\ request'[q].pc = "set" => subscription'.name = TRUE
               /\ reply'[q].pc = "name" => reply'[q].known = TRUE
               /\ reply'[q].pc = "ready" => subscription'.name = TRUE
    <3>1. reply'[q].pc = "ready" => reply[q].pc = "ready"
      BY <2>3
    <3>2. reply'[q].pc = "name" => reply'[q].known = TRUE
      BY <2>3 DEF KnownInv
    <3>3. QED
      BY <1>2, <2>2, <3>1, <3>2 DEF KnownInv
  <2>5. QED
    BY <1>2, <2>2, <2>4 DEF KnownInv
<1>5. QED
  BY <1>3, <1>4

LEMMA KnownStep ==
  ASSUME SubscriptionReads \subseteq {TRUE}, AzureInv, KnownInv, [Next]_azureVars
  PROVE  KnownInv'
<1>1. CASE MeasureStep
  BY <1>1, KnownStays DEF MeasureStep, collectVars
<1>2. CASE RestartStep
  BY <1>2, NothingIn DEF RestartStep, KnownInv, NoRequests, IdleRequest, NoReply
<1>3. ASSUME NEW r \in Requests, Collect(r) PROVE KnownInv'
  <2>1. CASE /\ \/ Arrive(r) \/ UsagesThenLimits(r) \/ Finish(r)
                \/ \E c, labels : SetUsage(r, c, labels)
             /\ UNCHANGED <<subscription, reply>>
    BY <2>1, KnownRequest
  <2>2. CASE UNCHANGED labelVars /\ \E c : SetLimit(r, c, LabelsOf(c))
    BY <2>2, KnownLimit
  <2>3. CASE CopyCache(r) \/ AssignName(r) \/ \E known \in SubscriptionReads : AssignID(r, known)
    BY <2>3, KnownCopy, KnownAssign
  <2>4. QED
    BY <1>3, <2>1, <2>2, <2>3 DEF Collect, labelVars
<1>4. QED
  BY <1>1, <1>2, <1>3, AzureExport

\* If the subscription can be read whenever a request asks for it, a quota code has
\* one series of limits at most, however many requests assign the two variables of
\* its labels at the same time.
THEOREM AzureOneLimitSeries ==
  ASSUME SubscriptionReads \subseteq {TRUE}
  PROVE  Spec => []OneLimitSeriesPerCode
<1>1. Init => KnownInv
  BY NothingIn DEF Init, LoopInit, KnownInv, NoRequests, IdleRequest, NoReply
<1>2. AzureInv /\ KnownInv /\ [Next]_azureVars => KnownInv'
  BY KnownStep
<1>3. KnownInv => OneLimitSeriesPerCode
  BY DEF KnownInv, Known, OneLimitSeriesPerCode
<1>4. QED
  BY <1>1, <1>2, <1>3, AzureInit, AzureStep, PTL DEF Spec

-----------------------------------------------------------------------------
(* The cache shows the account *)

\* In an account A, the quotas that are used and limited, with a code of their
\* own, and whether a cache C shows one of them.
Lone(A) == {q \in Quotas : Kept(A[q]) /\ \A p \in Quotas : p[2] = q[2] => p = q}
Shows(A, C, q) == q[2] \in DOMAIN C => C[q[2]] = A[q]

\* A goroutine in the state l has still to come to the code c.
ToCome(l, c) == c \in l.left \/ c \in DOMAIN l.page

\* A goroutine of service v in the state l read what is in the account A.
ExactPage(A, v, l) == \A c \in DOMAIN l.page : l.page[c] = A[<<v, c>>]

PageListed(v, l) ==
    /\ DOMAIN l.page \subseteq ListedBy[v]
    /\ l.pc = "end" => \A c \in Codes : ~ToCome(l, c)

PagesListed == \A s \in Scrapes, v \in Services : PageListed(v, lister[s][v])

PagesExact == Knowing => \A s \in Scrapes, v \in Services : ExactPage(account, v, lister[s][v])

Progress ==
    \A s \in inFlight \ stale : \A q \in Lone(account) :
        ToCome(lister[s][q[1]], q[2]) \/ Shows(account, cache, q)

Mirror == settled => \A q \in Lone(account) : Shows(account, cache, q)

MirrorInv == PagesListed /\ PagesExact /\ Progress /\ Mirror

LEMMA LoneFields ==
  ASSUME NEW q \in Lone(account)
  PROVE  /\ q \in Quotas /\ q = <<q[1], q[2]>> /\ Kept(account[q])
         /\ q[1] \in Services /\ q[2] \in Codes /\ q[2] \in ListedBy[q[1]]
         /\ \A v \in Services : q[2] \in ListedBy[v] => v = q[1]
<1>1. q \in Quotas /\ q \in Services \X Codes /\ q[2] \in ListedBy[q[1]]
  BY DEF Lone, Quotas
<1>2. ASSUME NEW v \in Services, q[2] \in ListedBy[v] PROVE v = q[1]
  <2>1. <<v, q[2]>> \in Quotas
    BY <1>1, <1>2 DEF Quotas
  <2>2. <<v, q[2]>> = q
    BY <2>1 DEF Lone
  <2>3. QED
    BY <2>2
<1>3. QED
  BY <1>1, <1>2 DEF Lone

LEMMA IdlePage ==
  /\ \A v \in Services : PageListed(v, IdleLister) /\ ExactPage(account, v, IdleLister)
  /\ \A v \in Services : PageListed(v, [IdleLister EXCEPT !.pc = "end"])
  /\ \A v \in Services : ExactPage(account, v, [IdleLister EXCEPT !.pc = "end"])
  /\ \A c : ~ToCome(IdleLister, c) /\ ~ToCome([IdleLister EXCEPT !.pc = "end"], c)
BY DEF IdleLister, PageListed, ExactPage, ToCome, Empty

\* A goroutine of scrape s goes on without caching anything.
LEMMA GoesOn ==
  ASSUME AzureInv, MirrorInv, NEW s \in Scrapes, NEW v \in Services, NEW n, Becomes(s, v, n),
         UNCHANGED <<account, cache, inFlight, settled>>, stale \subseteq stale', Knowing' => Knowing,
         PageListed(v, n), Knowing => ExactPage(account, v, n),
         s \notin stale' => \A c \in ListedBy[v] : ToCome(lister[s][v], c) => ToCome(n, c)
  PROVE  MirrorInv'
<1>1. /\ lister'[s][v] = n
      /\ \A t \in Scrapes, w \in Services : t # s \/ w # v => lister'[t][w] = lister[t][w]
  BY DEF Becomes
<1>2. ASSUME NEW t \in Scrapes, NEW w \in Services
      PROVE  /\ PageListed(w, lister'[t][w])
             /\ Knowing => ExactPage(account, w, lister'[t][w])
             /\ t \notin stale' => \A c \in ListedBy[w] :
                    ToCome(lister[t][w], c) => ToCome(lister'[t][w], c)
  <2>1. CASE t = s /\ w = v
    BY <1>1, <2>1
  <2>2. CASE t # s \/ w # v
    BY <1>1, <2>2 DEF MirrorInv, PagesListed, PagesExact
  <2>3. QED
    BY <2>1, <2>2
<1>3. PagesListed'
  BY <1>2 DEF PagesListed
<1>4. PagesExact'
  BY <1>2 DEF PagesExact
<1>5. Progress'
  <2>1. ASSUME NEW t \in inFlight' \ stale', NEW q \in Lone(account)
        PROVE  ToCome(lister'[t][q[1]], q[2]) \/ Shows(account, cache, q)
    <3>1. t \in Scrapes /\ t \in inFlight \ stale
      BY DEF AzureInv, DownIsEmpty
    <3>2. ToCome(lister[t][q[1]], q[2]) \/ Shows(account, cache, q)
      BY <3>1 DEF MirrorInv, Progress
    <3>3. QED
      BY <1>2, <3>1, <3>2, LoneFields
  <2>2. QED
    BY <2>1 DEF Progress
<1>6. Mirror'
  BY DEF MirrorInv, Mirror
<1>7. QED
  BY <1>3, <1>4, <1>5, <1>6 DEF MirrorInv

LEMMA SameMirror ==
  ASSUME MirrorInv, UNCHANGED <<account, lister, cache, inFlight, stale, settled>>
  PROVE  MirrorInv'
BY DEF MirrorInv, PagesListed, PagesExact, Knowing, Progress, Mirror

LEMMA ListMirror ==
  ASSUME AzureInv, MirrorInv, NEW s \in Scrapes, NEW v \in Services,
         ReadPage(s, v) \/ PageFails(s, v) \/ EndList(s, v) \/ Done(s, v)
  PROVE  MirrorInv'
<1> DEFINE l == lister[s][v]
<1> ListerInv
  BY DEF AzureInv
<1>1. UNCHANGED <<account, cache, inFlight, settled>> /\ stale \subseteq stale' /\ (Knowing' => Knowing)
  BY DEF ReadPage, PageFails, EndList, Done, Misses, loopVars, scrapeVars, Knowing
<1>2. CASE ReadPage(s, v)
  <2>1. PICK codes \in SUBSET l.left :
           SetLister(s, v, [pc |-> "next", left |-> l.left \ codes,
                            page |-> [c \in codes |-> account[<<v, c>>]]])
    BY <1>2 DEF ReadPage
  <2> DEFINE n == [pc |-> "next", left |-> l.left \ codes, page |-> [c \in codes |-> account[<<v, c>>]]]
  <2>2. codes \subseteq ListedBy[v] /\ l.left \subseteq Codes /\ l.page = Empty
    BY <1>2, ListerFields DEF ListerOK, ReadPage
  <2>3. n \in Listers
    BY <2>2, PageType DEF Listers, AzureInv
  <2>4. PageListed(v, n) /\ ExactPage(account, v, n)
    BY <2>2 DEF PageListed, ExactPage
  <2>5. \A c \in ListedBy[v] : ToCome(l, c) => ToCome(n, c)
    BY <2>2 DEF ToCome, Empty
  <2>6. QED
    <3> HIDE DEF n
    <3>1. Becomes(s, v, n)
      BY <2>1, <2>3, SetOne DEF n
    <3>2. QED
      BY <1>1, <2>4, <2>5, <3>1, GoesOn
<1>3. CASE PageFails(s, v) \/ EndList(s, v)
  <2> DEFINE n == [IdleLister EXCEPT !.pc = "end"]
  <2>1. n \in Listers /\ PageListed(v, n) /\ ExactPage(account, v, n)
    BY EmptyPage, IdlePage DEF Listers, IdleLister
  <2>2. SetLister(s, v, n)
    BY <1>3 DEF PageFails, EndList
  <2>3. s \notin stale' => \A c \in ListedBy[v] : ~ToCome(l, c)
    BY <1>3 DEF PageFails, EndList, Misses, ToCome, Empty
  <2>4. QED
    <3> HIDE DEF n
    <3>1. Becomes(s, v, n)
      BY <2>1, <2>2, SetOne
    <3>2. QED
      BY <1>1, <2>1, <2>3, <3>1, GoesOn
<1>4. CASE Done(s, v)
  <2>1. Becomes(s, v, IdleLister) /\ l.pc = "end"
    BY <1>4, EmptyPage, SetOne DEF Done
  <2>2. \A c \in ListedBy[v] : ~ToCome(l, c)
    BY <2>1 DEF MirrorInv, PagesListed, PageListed, Codes
  <2>3. QED
    BY <1>1, <2>1, <2>2, IdlePage, GoesOn
<1>5. QED
  BY <1>2, <1>3, <1>4

\* A usage of a page is cached, if it is kept.
LEMMA CacheMirror ==
  ASSUME AzureInv, MirrorInv, NEW s \in Scrapes, NEW v \in Services, NEW c \in Codes,
         CacheUsage(s, v, c)
  PROVE  MirrorInv'
<1> DEFINE l == lister[s][v]
           n == [l EXCEPT !.page = [x \in DOMAIN l.page \ {c} |-> l.page[x]]]
<1>1. /\ l \in Listers /\ l.pc = "next" /\ c \in DOMAIN l.page
      /\ UNCHANGED <<account, inFlight, stale, settled>>
      /\ \/ Kept(l.page[c]) /\ CacheSet(c, l.page[c])
         \/ ~Kept(l.page[c]) /\ UNCHANGED cache
  BY ListerFields, SetShows DEF CacheUsage, loopVars, scrapeVars, AzureInv
<1>2. /\ lister'[s][v] = n /\ n.left = l.left /\ n.pc = l.pc
      /\ DOMAIN n.page = DOMAIN l.page \ {c} /\ \A x \in DOMAIN n.page : n.page[x] = l.page[x]
      /\ \A t \in Scrapes, w \in Services : t # s \/ w # v => lister'[t][w] = lister[t][w]
  <2>1. lister' = [lister EXCEPT ![s][v] = n] /\ lister \in [Scrapes -> [Services -> Listers]]
    BY DEF CacheUsage, SetLister, AzureInv, ListerInv
  <2>2. QED
    BY <1>1, <2>1 DEF Listers
<1> HIDE DEF n
<1>3. c \in ListedBy[v]
  BY <1>1 DEF MirrorInv, PagesListed, PageListed
<1>4. Knowing' <=> Knowing
  BY <1>1 DEF Knowing
<1>5. ASSUME Knowing, NEW q \in Lone(account), q[2] = c PROVE Shows(account, cache', q)
  <2>1. q[1] = v /\ q = <<v, c>> /\ Kept(account[q])
    BY <1>3, <1>5, LoneFields
  <2>2. l.page[c] = account[q]
    BY <1>1, <1>5, <2>1 DEF MirrorInv, PagesExact, ExactPage
  <2>3. CacheSet(c, l.page[c])
    BY <1>1, <2>1, <2>2
  <2>4. cache'[c] = account[q]
    BY <2>2, <2>3, SetShows
  <2>5. QED
    BY <1>5, <2>4 DEF Shows
<1>6. ASSUME NEW q \in Lone(account), q[2] # c, Shows(account, cache, q)
      PROVE  Shows(account, cache', q)
  <2>1. q[2] \in DOMAIN cache' => q[2] \in DOMAIN cache /\ cache'[q[2]] = cache[q[2]]
    <3>1. CASE CacheSet(c, l.page[c])
      <4>1. /\ DOMAIN cache' = DOMAIN cache \cup {c}
            /\ \A k \in DOMAIN cache : k # c => cache'[k] = cache[k]
        BY <3>1, SetShows
      <4>2. QED
        BY <1>6, <4>1
    <3>2. QED
      BY <1>1, <3>1
  <2>2. QED
    BY <1>6, <2>1 DEF Shows
<1>7. PagesListed' /\ PagesExact'
  <2>1. ASSUME NEW t \in Scrapes, NEW w \in Services
        PROVE  /\ PageListed(w, lister'[t][w])
               /\ Knowing => ExactPage(account, w, lister'[t][w])
    <3>1. PageListed(w, lister[t][w]) /\ (Knowing => ExactPage(account, w, lister[t][w]))
      BY DEF MirrorInv, PagesListed, PagesExact
    <3>2. CASE t = s /\ w = v
      BY <1>1, <1>2, <3>1, <3>2 DEF PageListed, ExactPage
    <3>3. CASE t # s \/ w # v
      BY <1>2, <3>1, <3>3
    <3>4. QED
      BY <3>2, <3>3
  <2>2. QED
    BY <1>1, <1>4, <2>1 DEF PagesListed, PagesExact
<1>8. Progress'
  <2>1. ASSUME NEW t \in inFlight \ stale, NEW q \in Lone(account)
        PROVE  ToCome(lister'[t][q[1]], q[2]) \/ Shows(account, cache', q)
    <3>1. Knowing /\ t \in Scrapes /\ q[1] \in Services
      BY LoneFields DEF Knowing, AzureInv, DownIsEmpty
    <3>2. CASE q[2] = c
      BY <1>5, <3>1, <3>2
    <3>3. CASE q[2] # c
      <4>1. ToCome(lister[t][q[1]], q[2]) => ToCome(lister'[t][q[1]], q[2])
        <5>1. CASE t = s /\ q[1] = v
          BY <1>2, <3>3, <5>1 DEF ToCome
        <5>2. CASE t # s \/ q[1] # v
          BY <1>2, <3>1, <5>2
        <5>3. QED
          BY <5>1, <5>2
      <4>2. QED
        BY <1>6, <3>3, <4>1 DEF MirrorInv, Progress
    <3>4. QED
      BY <3>2, <3>3
  <2>2. QED
    BY <1>1, <2>1 DEF Progress
<1>9. Mirror'
  BY <1>1, <1>5, <1>6 DEF MirrorInv, Mirror, Knowing
<1>10. QED
  BY <1>7, <1>8, <1>9 DEF MirrorInv

LEMMA BeginMirror ==
  ASSUME AzureInv, MirrorInv, NEW s \in Scrapes, BeginScrape(s) PROVE MirrorInv'
<1> DEFINE first(v) == [pc |-> "first", left |-> ListedBy[v], page |-> Empty]
<1>1. /\ UNCHANGED <<account, cache, settled>> /\ inFlight' = inFlight \cup {s}
      /\ s \notin inFlight /\ stale \subseteq stale'
  BY DEF BeginScrape, Begin, AzureInv, DownIsEmpty
<1>2. /\ \A v \in Services : lister'[s][v] = first(v)
      /\ \A t \in Scrapes : t # s => lister'[t] = lister[t]
  BY DEF BeginScrape, AzureInv, ListerInv
<1>3. \A v \in Services : /\ PageListed(v, first(v)) /\ ExactPage(account, v, first(v))
                          /\ \A c \in ListedBy[v] : ToCome(first(v), c)
  BY DEF PageListed, ExactPage, ToCome, Empty
<1> HIDE DEF first
<1>4. PagesListed'
  BY <1>2, <1>3 DEF MirrorInv, PagesListed
<1>5. PagesExact'
  <2>1. ASSUME Knowing', NEW t \in Scrapes, NEW v \in Services, t # s
        PROVE  ExactPage(account, v, lister[t][v])
    <3>1. CASE inFlight = {}
      <4>1. lister[t][v] = IdleLister
        BY <3>1, ListerFields DEF AzureInv, ListerOK
      <4>2. QED
        BY <4>1, IdlePage
    <3>2. CASE inFlight # {}
      BY <2>1, <3>2, KnowingStarts DEF BeginScrape, AzureInv, MirrorInv, PagesExact
    <3>3. QED
      BY <3>1, <3>2
  <2>2. QED
    BY <1>1, <1>2, <1>3, <2>1 DEF PagesExact
<1>6. Progress'
  <2>1. \A t \in inFlight' \ stale' : t \in Scrapes /\ (t = s \/ t \in inFlight \ stale)
    BY <1>1 DEF AzureInv, DownIsEmpty
  <2>2. \A q \in Lone(account) : ToCome(lister'[s][q[1]], q[2])
    BY <1>2, <1>3, LoneFields
  <2>3. QED
    BY <1>1, <1>2, <2>1, <2>2 DEF MirrorInv, Progress
<1>7. Mirror'
  BY <1>1 DEF MirrorInv, Mirror
<1>8. QED
  BY <1>4, <1>5, <1>6, <1>7 DEF MirrorInv

\* A scrape that returns and missed nothing has come to every quota.
LEMMA ReturnMirror ==
  ASSUME AzureInv, MirrorInv, NEW s \in Scrapes, ScrapeReturns(s) PROVE MirrorInv'
<1>1. /\ UNCHANGED <<account, cache, lister>> /\ inFlight' = inFlight \ {s} /\ stale' = stale \ {s}
      /\ s \in inFlight /\ settled' = (settled \/ s \notin stale)
  BY DEF ScrapeReturns, Return, scanVars
<1>2. \A q \in Lone(account) : ~ToCome(lister[s][q[1]], q[2])
  BY EmptyGroup, IdlePage, LoneFields DEF ScrapeReturns, AzureInv
<1>3. Knowing' => Knowing
  BY KnowingStays DEF ScrapeReturns, AzureInv
<1>4. Mirror'
  BY <1>1, <1>2 DEF MirrorInv, Mirror, Progress
<1>5. Progress'
  BY <1>1 DEF MirrorInv, Progress
<1>6. PagesListed' /\ PagesExact'
  BY <1>1, <1>3 DEF MirrorInv, PagesListed, PagesExact
<1>7. QED
  BY <1>4, <1>5, <1>6 DEF MirrorInv

LEMMA ExpireMirror ==
  ASSUME MirrorInv, Expire, UNCHANGED scanVars PROVE MirrorInv'
<1>1. UNCHANGED <<inFlight, stale, settled>>
  BY ExpireShows
<1>2. \A q \in Lone(account) : Shows(account, cache, q) => Shows(account, cache', q)
  BY ExpireShows DEF Shows
<1>3. QED
  BY <1>1, <1>2 DEF scanVars, MirrorInv, PagesListed, PagesExact, Knowing, Progress, Mirror

LEMMA MirrorStep == AzureInv /\ MirrorInv /\ [Next]_azureVars => MirrorInv'
<1> SUFFICES ASSUME AzureInv, MirrorInv, [Next]_azureVars PROVE MirrorInv'
  OBVIOUS
<1>1. CASE AccountChanges
  <2>1. stale' = inFlight /\ settled' = FALSE /\ UNCHANGED <<lister, inFlight>>
    BY <1>1 DEF AccountChanges, AccountChanged
  <2>2. QED
    BY <2>1 DEF MirrorInv, PagesListed, PagesExact, Progress, Mirror, Knowing
<1>2. CASE Restart
  <2>1. inFlight' = {} /\ settled' = FALSE
    BY <1>2 DEF Restart, Die
  <2>2. \A s \in Scrapes, v \in Services : lister'[s][v] = IdleLister
    BY <1>2 DEF Restart, NoListers
  <2>3. QED
    BY <2>1, <2>2, IdlePage DEF MirrorInv, PagesListed, PagesExact, Progress, Mirror, Knowing
<1>3. CASE (\E r \in Requests : Collect(r)) \/ UNCHANGED azureVars
  BY <1>3, SameMirror, AzureCollects DEF scrapeVars, scanVars, azureVars, loopVars
<1>4. QED
  BY <1>1, <1>2, <1>3, BeginMirror, ListMirror, CacheMirror, ReturnMirror, ExpireMirror
  DEF Next, ListStep

\* When nothing has changed since a scrape read the account in full, the cache
\* shows what the account has, for every used and limited quota with a code of its
\* own, though a list may fail in one scrape while another scrape is in flight.
THEOREM AzureMirrorsAccount == Spec => []MirrorsAccount
<1>1. Init => MirrorInv
  BY IdlePage
  DEF Init, LoopInit, NoListers, MirrorInv, PagesListed, PagesExact, Knowing, Progress, Mirror
<1>2. MirrorInv => MirrorsAccount
  BY DEF MirrorInv, Mirror, Lone, Shows, MirrorsAccount
<1>3. QED
  BY <1>1, <1>2, AzureInit, AzureStep, MirrorStep, PTL DEF Spec
=============================================================================
