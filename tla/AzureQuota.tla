----------------------------- MODULE AzureQuota -----------------------------
(***************************************************************************)
(* The Azure quota collector, pkg/cloud/azure/azure_quota.go.  A scrape    *)
(* reads three lists of usages in three goroutines and waits for them with *)
(* a wait group of its own.  The lists of network and compute come page by *)
(* page, the list of storage in one answer.  A request asks for the ID and *)
(* the name of the subscription before it reads the cache, and keeps them  *)
(* in two package variables, which every request in flight reads.          *)
(***************************************************************************)
EXTENDS QuotaLoop, Integers, FiniteSets

CONSTANTS
    Services,  \* the lists: network, storage, compute
    Paged,     \* those that come in pages
    ListedBy,  \* per service, the codes of its list
    Readings,  \* what a quota may read: usages with limits
    SubscriptionReads, \* may GetSubscriptionInfo succeed (TRUE) or fail (FALSE)?
    Unlimited  \* a limit of at least 2147483647

ASSUME ServicesAssumption ==
    /\ IsFiniteSet(Services) /\ Paged \subseteq Services
    /\ SubscriptionReads \subseteq BOOLEAN
    /\ \A r \in Readings : r = [current |-> r.current, limit |-> r.limit]

VARIABLES
    account, \* per quota, a service and a code: the usage and the limit
    group,   \* per scrape, the counter of its wait group
    lister,  \* per scrape, its goroutines
    subscription, \* subscriptionID and subscriptionName: are they set?
    reply,   \* per request, what GetSubscriptionInfo returned to it
    calm     \* history: requests in flight that copied the cache when it was
             \* settled, with no change of the account since

scanVars == <<account, group, lister>>
labelVars == <<subscription, reply, calm>>
azureVars == <<loopVars, scanVars, labelVars>>

Codes == UNION {ListedBy[v] : v \in Services}
Quotas == {q \in Services \X Codes : q[2] \in ListedBy[q[1]]}
Objects == [current : {r.current : r \in Readings} \ {0},
            limit : {r.limit : r \in Readings} \ {Unlimited}]
\* An empty label of the subscription is FALSE.
Subscriptions == [id : BOOLEAN, name : BOOLEAN]
Series == [code : Codes, id : BOOLEAN, name : BOOLEAN]
NoSubscription == [id |-> FALSE, name |-> FALSE]
NoReply == [pc |-> "call", known |-> FALSE]
IdleLister == [pc |-> "none", left |-> {}, page |-> Empty]
NoListers == [s \in Scrapes |-> [v \in Services |-> IdleLister]]

Init ==
    /\ LoopInit
    /\ account \in [Quotas -> Readings]
    /\ group = [s \in Scrapes |-> 0]
    /\ lister = NoListers
    /\ subscription = NoSubscription /\ calm = {}
    /\ reply = [r \in Requests |-> NoReply]

\* waitGroup.Add(3) and the three go statements
BeginScrape(s) ==
    /\ Begin(s)
    /\ group' = [group EXCEPT ![s] = Cardinality(Services)]
    /\ lister' = [lister EXCEPT ![s] =
           [v \in Services |-> [pc |-> "first", left |-> ListedBy[v], page |-> Empty]]]
    /\ UNCHANGED <<account, labelVars>>

SetLister(s, v, l) == lister' = [lister EXCEPT ![s][v] = l]

\* The answer to a call: some of the codes not read yet, all for storage.
ReadPage(s, v) ==
    LET l == lister[s][v] IN
    /\ l.pc \in {"first", "next"} /\ l.page = Empty /\ l.left # {}
    /\ \E codes \in SUBSET l.left :
         /\ codes # {} /\ (v \in Paged \/ codes = l.left)
         /\ SetLister(s, v, [pc |-> "next", left |-> l.left \ codes,
                             page |-> [c \in codes |-> account[<<v, c>>]]])
    /\ UNCHANGED <<loopVars, account, group, labelVars>>

\* A call fails.  The goroutine returns and what earlier pages held stays.
PageFails(s, v) ==
    LET l == lister[s][v] IN
    /\ l.pc = "first" \/ (l.pc = "next" /\ v \in Paged)
    /\ l.page = Empty
    /\ SetLister(s, v, [IdleLister EXCEPT !.pc = "end"])
    /\ Misses(s)
    /\ UNCHANGED <<account, group, labelVars>>

\* Mutant of Kept: without the test of the usage.
AnyUsage(u) == u.limit # Unlimited

Kept(u) == u.limit # Unlimited /\ u.current > 0

CacheUsage(s, v, c) ==
    LET l == lister[s][v] IN
    /\ l.pc = "next" /\ c \in DOMAIN l.page
    /\ SetLister(s, v, [l EXCEPT !.page = [x \in DOMAIN l.page \ {c} |-> l.page[x]]])
    /\ \/ Kept(l.page[c]) /\ CacheSet(c, l.page[c])
       \/ ~Kept(l.page[c]) /\ UNCHANGED loopVars
    /\ UNCHANGED <<account, group, labelVars>>

\* No further page: usage.NotDone() is false.
EndList(s, v) ==
    LET l == lister[s][v] IN
    /\ l.pc \in {"first", "next"} /\ l.left = {} /\ l.page = Empty
    /\ SetLister(s, v, [IdleLister EXCEPT !.pc = "end"])
    /\ UNCHANGED <<loopVars, account, group, labelVars>>

\* defer wg.Done()
Done(s, v) ==
    /\ lister[s][v].pc = "end"
    /\ group' = [group EXCEPT ![s] = @ - 1]
    /\ SetLister(s, v, IdleLister)
    /\ UNCHANGED <<loopVars, account, labelVars>>

\* Mutant of ScrapeReturns: Wait returns when two of three are done.
ReturnEarly(s) ==
    /\ group[s] <= 1
    /\ Return(s)
    /\ UNCHANGED <<scanVars, labelVars>>

\* waitGroup.Wait() returns, and scrape with it.
ScrapeReturns(s) ==
    /\ group[s] = 0
    /\ Return(s)
    /\ UNCHANGED <<scanVars, labelVars>>

\* GetSubscriptionInfo answers, or fails and returns empty strings.  They are
\* assigned to the two package variables one after the other.
AssignID(r, known) ==
    /\ request[r].pc = "begun" /\ reply[r].pc = "call"
    /\ subscription' = [subscription EXCEPT !.id = known]
    /\ reply' = [reply EXCEPT ![r] = [pc |-> "name", known |-> known]]
    /\ UNCHANGED <<loopVars, calm>>

AssignName(r) ==
    /\ reply[r].pc = "name"
    /\ subscription' = [subscription EXCEPT !.name = reply[r].known]
    /\ reply' = [reply EXCEPT ![r].pc = "ready"]
    /\ UNCHANGED <<loopVars, calm>>

\* Mutant of CopyCache: it does not wait for the answer.
CopyEarly(r) ==
    /\ CopyItems(r)
    /\ reply' = [reply EXCEPT ![r] = NoReply]
    /\ calm' = IF settled THEN calm \cup {r} ELSE calm
    /\ subscription' = subscription

CopyCache(r) ==
    /\ reply[r].pc = "ready"
    /\ CopyItems(r)
    /\ reply' = [reply EXCEPT ![r] = NoReply]
    /\ calm' = IF settled THEN calm \cup {r} ELSE calm
    /\ subscription' = subscription

\* Both series are looked up with the labels that the variables hold then.
LabelsOf(c) == [code |-> c, id |-> subscription.id, name |-> subscription.name]

Collect(r) ==
    /\ \/ /\ \/ Arrive(r) \/ UsagesThenLimits(r)
             \/ \E c \in DOMAIN request[r].items :
                  SetUsage(r, c, LabelsOf(c)) \/ SetLimit(r, c, LabelsOf(c))
          /\ UNCHANGED labelVars
       \/ Finish(r) /\ calm' = calm \ {r} /\ UNCHANGED <<subscription, reply>>
       \/ AssignName(r) \/ CopyCache(r) \/ \E known \in SubscriptionReads : AssignID(r, known)
    /\ UNCHANGED scanVars

AccountChanges ==
    /\ \E q \in Quotas, u \in Readings : account' = [account EXCEPT ![q] = u]
    /\ account' # account
    /\ AccountChanged
    /\ calm' = {}
    /\ UNCHANGED <<group, lister, subscription, reply>>

\* The container is stopped.
Restart ==
    /\ Die
    /\ group' = [s \in Scrapes |-> 0] /\ lister' = NoListers
    /\ subscription' = NoSubscription /\ calm' = {}
    /\ reply' = [r \in Requests |-> NoReply]
    /\ UNCHANGED account

ListStep(s, v) ==
    \/ ReadPage(s, v) \/ PageFails(s, v) \/ EndList(s, v) \/ Done(s, v)
    \/ \E c \in Codes : CacheUsage(s, v, c)

Next ==
    \/ \E s \in Scrapes : BeginScrape(s) \/ ScrapeReturns(s)
    \/ \E s \in Scrapes, v \in Services : ListStep(s, v)
    \/ \E r \in Requests : Collect(r)
    \/ Expire /\ UNCHANGED <<scanVars, labelVars>>
    \/ AccountChanges \/ Restart

Spec == Init /\ [][Next]_azureVars

\* The goroutine of list v waits for the answer to a call.
Calling(s, v) ==
    LET l == lister[s][v] IN l.page = Empty /\ (l.pc = "first" \/ (l.pc = "next" /\ l.left # {}))

\* The goroutines are scheduled: what they do without a call is done.  Neither
\* the context of main nor the HTTP client of the SDK has a deadline, so that a
\* call may stay unanswered.  Ticks, requests and changes need not come.
Fairness ==
    /\ \A s \in Scrapes, v \in Services : WF_azureVars(ListStep(s, v) /\ ~Calling(s, v))
    /\ \A s \in Scrapes : WF_azureVars(ScrapeReturns(s))

FairSpec == Spec /\ Fairness

-----------------------------------------------------------------------------
(* Properties *)

IsLister(l) ==
    /\ l.pc \in {"none", "first", "next", "end"} /\ l.left \subseteq Codes
    /\ DOMAIN l.page \subseteq Codes /\ \A c \in DOMAIN l.page : l.page[c] \in Readings

\* The variables have their shapes; in particular neither an unused nor an
\* unlimited quota is cached.
TypeOK ==
    /\ LoopTypeOK(Codes, Objects, Series)
    /\ account \in [Quotas -> Readings]
    /\ group \in [Scrapes -> 0 .. Cardinality(Services)]
    /\ subscription \in Subscriptions /\ calm \subseteq Requests
    /\ reply \in [Requests -> [pc : {"call", "name", "ready"}, known : BOOLEAN]]
    /\ \A s \in Scrapes, v \in Services : IsLister(lister[s][v])

\* A scrape that has returned has no goroutine left, and no other scrape's
\* goroutines count in its wait group, so that overlapping scrapes are safe.
ReturnedScrapeIsIdle ==
    \A s \in Scrapes :
        /\ s \notin inFlight => \A v \in Services : lister[s][v] = IdleLister
        /\ group[s] = Cardinality({v \in Services : lister[s][v].pc # "none"})

\* What an answer shows was measured for its series, and unless requests overlap
\* a usage is shown with the limit measured with it.
Export == INSTANCE QuotaExport WITH
    Series <- Series, Results <- Objects, Requests <- Requests,
    shown <- DOMAIN gaugeCurrent, answer <- Answers, overlapped <- overlapped,
    measured <- {p \in Series \X Objects : <<p[1].code, p[2]>> \in written}
ExportSpec == Export!Spec

\* When the account has not changed since a scrape read it in full, the cache
\* shows the account for every quota that is used and limited.
MirrorsAccount ==
    settled => \A q \in Quotas :
        /\ \A p \in Quotas : p[2] = q[2] => p = q
        /\ Kept(account[q]) /\ q[2] \in DOMAIN cache
        => cache[q[2]] = account[q]

\* A scrape hangs only if a call of its own is never answered: not because a
\* list fails, nor because another scrape in flight hangs.
ScrapesEnd ==
    \A s \in Scrapes :
        (\A v \in Services : []<>~Calling(s, v)) => (s \in inFlight ~> s \notin inFlight)

\* cpe_quota_current is the "Current usage value of quota": a response made after
\* a scrape read the account as it still is shows the usages of the account.
UsageIsCurrent ==
    [][\A r \in calm : request[r].pc = "half" /\ request'[r].pc = "sent" =>
         \A x \in DOMAIN request'[r].sent.usage : \A q \in Quotas :
             x.code = q[2] /\ account[q].limit # Unlimited
                 => request'[r].sent.usage[x] = account[q].current]_azureVars

\* The alert cpe_quota_current / on(QuotaCode) group_left() cpe_quota_limit
\* needs one limit series per quota code.  It has one as long as the subscription
\* can be read, although requests share the two variables of its labels.
OneLimitSeriesPerCode == \A x, y \in DOMAIN gaugeLimit : x.code = y.code => x = y
=============================================================================
