-------------------------- MODULE HealthCollector --------------------------
(***************************************************************************)
(* The health collectors of the four providers: aws_health.go,             *)
(* azure_health.go, gcp_health.go and alicloud_health.go.  They ask the    *)
(* provider when Prometheus asks them, and count the answer in the package *)
(* variables of common.go.  Three of them reset the counters first;        *)
(* AliCloud's does not.  AWS lists events in pages and asks for affected   *)
(* entities in batches of ARNs; the others get everything in one answer.   *)
(* An event has any number of affected entities, none included, in AWS and *)
(* in Azure, and one in GCP and in AliCloud.                               *)
(* p is the provider throughout and q a request.  promhttp runs the        *)
(* requests at the same time, and all of them count in the same counters.  *)
(***************************************************************************)
EXTENDS Integers, FiniteSets

CONSTANTS
    Events,    \* event IDs (ARNs, for AliCloud titles)
    States,    \* "open", "closed", "upcoming"; closed stands for "Resolved"
               \* in Azure and for "AVAILABLE" in GCP
    Entities,  \* what tells the affected entities of one event apart
    BatchSize, \* the ARNs that one DescribeAffectedEntities takes (10)
    HealthRequests, \* the requests that may be in progress
    MaxCount   \* bound: no request begins on an event that counts so much

ASSUME HealthAssumption ==
    /\ IsFiniteSet(Events) /\ BatchSize \in Nat \ {0} /\ MaxCount \in Nat

VARIABLES
    feed,     \* the provider's events, with their states
    counters, \* HealthEvent, AffectedEntity, HealthOpenedTotal, HealthClosedTotal
    health    \* the requests in progress

healthVars == <<feed, counters, health>>

NoEvents == [e \in {} |-> "open"]
NoCounters == [event |-> [x \in {} |-> 0], affected |-> [e \in {} |-> 0],
               opened |-> 0, closed |-> 0]

\* entities: the provider's answer of the affected ones; alone, a history
\* variable: no other request has been in progress since this one began.
IdleHealth == [pc |-> "idle", left |-> {}, answer |-> {}, todo |-> {},
               batch |-> {}, batches |-> {}, entities |-> {}, alone |-> FALSE]
AllFeeds == UNION {[S -> States] : S \in SUBSET Events}

\* CounterVec.WithLabelValues(label).Inc() for each of the labels
Inc(counter, labels) ==
    [x \in DOMAIN counter \cup labels |->
        (IF x \in DOMAIN counter THEN counter[x] ELSE 0) + (IF x \in labels THEN 1 ELSE 0)]

HealthInit ==
    /\ feed = NoEvents /\ counters = NoCounters
    /\ health = [q \in HealthRequests |-> IdleHealth]

OthersList(q) == \E x \in HealthRequests \ {q} : health[x].pc = "list"

\* The four calls of Reset, which AliCloud's collector does not have.
AfterResets(p) == IF p = "alicloud" THEN counters ELSE NoCounters

\* Collect begins.  What the provider's events were before does not matter,
\* unless another request lists them.
BeginHealth(p, q) ==
    /\ health[q].pc = "idle"
    /\ IF OthersList(q) THEN UNCHANGED feed ELSE feed' \in AllFeeds
    /\ counters' = AfterResets(p)
    /\ \A x \in DOMAIN counters'.event : counters'.event[x] < MaxCount
    /\ health' = [r \in HealthRequests |->
           IF r = q THEN [IdleHealth EXCEPT !.pc = "list", !.left = Events,
                              !.alone = \A x \in HealthRequests \ {q} : health[x].pc = "idle"]
           ELSE [health[r] EXCEPT !.alone = FALSE]]

\* A page of DescribeEvents, or the one answer of the others.  An answer of
\* AliCloud that is no success has no events.
ListEvents(p, q) ==
    LET answer == {<<e, feed[e]>> : e \in health[q].left \cap DOMAIN feed} IN
    /\ health[q].pc = "list" /\ health[q].left # {}
    /\ \/ /\ p = "aws"
          /\ \E page \in SUBSET health[q].left :
               /\ page # {}
               /\ health' = [health EXCEPT ![q].left = @ \ page,
                                           ![q].answer = @ \cup {a \in answer : a[1] \in page}]
       \/ p # "aws" /\ health' = [health EXCEPT ![q].left = {}, ![q].answer = answer]
       \/ p = "alicloud" /\ health' = [health EXCEPT ![q].left = {}]
    /\ UNCHANGED <<feed, counters>>

\* The affected entities that p may answer for a set of events.
Affected(p, answer) ==
    {S \in SUBSET ({x[1] : x \in answer} \X Entities) :
        p \in {"gcp", "alicloud"} =>
            \A x \in answer : \E entity \in Entities : {y \in S : y[1] = x[1]} = {<<x[1], entity>>}}

\* All is listed.  AWS returns without a metric when there are no events.
EventsListed(p, q) ==
    /\ health[q].pc = "list" /\ health[q].left = {}
    /\ \/ p = "aws" /\ health[q].answer = {} /\ health' = [health EXCEPT ![q] = IdleHealth]
       \/ /\ p # "aws" \/ health[q].answer # {}
          /\ \E S \in Affected(p, health[q].answer) :
               health' = [health EXCEPT ![q].pc = "count", ![q].todo = health[q].answer,
                                        ![q].entities = S]
    /\ feed' = (IF OthersList(q) THEN feed ELSE NoEvents) /\ UNCHANGED counters

Opened(p, state) == IF p = "aws" THEN state = "open" ELSE state # "closed"

EntitiesOf(q, E) == {x \in health[q].entities : x[1] \in E}

\* One iteration of the loop over the events.  AWS asks for the entities later.
CountEvent(p, q, e, state) ==
    LET one(b) == IF p # "alicloud" /\ b THEN 1 ELSE 0
        batch == health[q].batch \cup {e}
        full == Cardinality(batch) = BatchSize
    IN
    /\ health[q].pc = "count" /\ <<e, state>> \in health[q].todo
    /\ counters' = [event |-> Inc(counters.event, {<<e, state>>}),
                    affected |-> IF p = "aws" THEN counters.affected
                                 ELSE Inc(counters.affected, EntitiesOf(q, {e})),
                    opened |-> counters.opened + one(Opened(p, state)),
                    closed |-> counters.closed + one(state = "closed")]
    /\ health' = [health EXCEPT
           ![q].todo = @ \ {<<e, state>>},
           ![q].batch = IF p # "aws" \/ full THEN {} ELSE batch,
           ![q].batches = IF p = "aws" /\ full THEN @ \cup {batch} ELSE @]
    /\ UNCHANGED feed

FullBatches(q) == health[q].batches     \* mutant of AllBatches: the rest is lost

AllBatches(q) == health[q].batches \cup ({health[q].batch} \ {{}})

EventsCounted(q) ==
    /\ health[q].pc = "count" /\ health[q].todo = {}
    /\ health' = [health EXCEPT ![q].pc = "affected", ![q].batch = {}, ![q].batches = AllBatches(q)]
    /\ UNCHANGED <<feed, counters>>

\* DescribeAffectedEntities for one batch of ARNs.
CountAffected(q) ==
    /\ health[q].pc = "affected"
    /\ \E batch \in health[q].batches :
         /\ counters' = [counters EXCEPT !.affected = Inc(@, EntitiesOf(q, batch))]
         /\ health' = [health EXCEPT ![q].batches = @ \ {batch}]
    /\ UNCHANGED feed

Complete(q) == health[q].pc = "affected" /\ health[q].batches = {}

\* The four calls of Collect emit what was counted.
EndHealth(q) ==
    /\ Complete(q)
    /\ health' = [health EXCEPT ![q] = IdleHealth]
    /\ UNCHANGED <<feed, counters>>

\* A call fails or its answer cannot be read: log.Fatal.
HealthIsFatal ==
    \E q \in HealthRequests :
      \/ health[q].pc = "list" /\ health[q].left # {}
      \/ health[q].pc = "affected" /\ health[q].batches # {}

\* An event begins, ends or changes while a request is in progress.
FeedChanges ==
    /\ \E q \in HealthRequests : health[q].pc = "list"
    /\ feed' \in AllFeeds
    /\ \E e \in Events : \A x \in Events \ {e} :
         (x \in DOMAIN feed <=> x \in DOMAIN feed') /\ (x \in DOMAIN feed => feed'[x] = feed[x])
    /\ UNCHANGED <<counters, health>>

HealthStep(p) ==
    \/ \E q \in HealthRequests :
         \/ BeginHealth(p, q) \/ ListEvents(p, q) \/ EventsListed(p, q)
         \/ \E e \in Events, state \in States : CountEvent(p, q, e, state)
         \/ EventsCounted(q) \/ CountAffected(q) \/ EndHealth(q)
    \/ FeedChanges

-----------------------------------------------------------------------------
(* Properties *)

HealthTypeOK ==
    /\ feed \in AllFeeds
    /\ DOMAIN counters.event \subseteq Events \X States
    /\ DOMAIN counters.affected \subseteq Events \X Entities
    /\ counters.opened \in Nat /\ counters.closed \in Nat
    /\ \A q \in HealthRequests :
         LET h == health[q] IN
         /\ h.pc \in {"idle", "list", "count", "affected"}
         /\ h.left \subseteq Events /\ h.batch \subseteq Events
         /\ h.answer \subseteq Events \X States /\ h.todo \subseteq h.answer
         /\ \A b \in h.batches : b \subseteq Events /\ Cardinality(b) \in 1 .. BatchSize
         /\ h.entities \subseteq Events \X Entities /\ h.alone \in BOOLEAN

\* Every event of the provider's answer counts once, each of the affected entities
\* once, and nothing else counts; the totals agree.
CountsItsAnswer(p, q) ==
    LET answer == health[q].answer IN
    /\ DOMAIN counters.event = answer
    /\ \A x \in answer : counters.event[x] = 1
    /\ DOMAIN counters.affected = health[q].entities
    /\ \A x \in health[q].entities : counters.affected[x] = 1
    /\ counters.closed = Cardinality({x \in answer : x[2] = "closed"})
    /\ counters.opened = Cardinality({x \in answer : Opened(p, x[2])})

\* A response of a collector that resets the counters is the provider's answer,
\* whatever the requests before it left behind, in whatever pages and batches AWS
\* gives it and whatever changes in between, unless two requests met.
ResponseIsAnswer(p) ==
    \A q \in HealthRequests :
      Complete(q) /\ health[q].alone /\ p # "alicloud" => CountsItsAnswer(p, q)

\* The Collector interface wants a Collect that several requests may call at the
\* same time: each response is the answer to its own request.
EachResponseIsAnswer(p) ==
    \A q \in HealthRequests : Complete(q) /\ p # "alicloud" => CountsItsAnswer(p, q)

\* The test of AliCloud's collector expects "cpe_health_events{...} 1" for an
\* event that the answer lists once.
EventCountsOnce(p) ==
    \A q \in HealthRequests :
      Complete(q) /\ p = "alicloud" => \A x \in health[q].answer : counters.event[x] = 1
=============================================================================
