------------------------------ MODULE AliQuota ------------------------------
(***************************************************************************)
(* The AliCloud quota collector, pkg/cloud/alicloud/alicloud_quota.go.  A  *)
(* scrape asks for the quotas of one product after the other.  The SDK     *)
(* answers a failed call with an empty response, so that the scrape goes   *)
(* on with the next product.                                               *)
(***************************************************************************)
EXTENDS QuotaLoop, Sequences, Integers

CONSTANTS
    ProdCodeList, \* the products, in the order of the code
    QuotasOf,     \* per product, the sequence of its quotas (their ARNs)
    ReadingsOf    \* per ARN, what the quota may read: usages with limits

VARIABLES
    account, \* the usage and the limit of every quota
    scan,    \* the scrapes in flight
    read     \* history: the products whose last answer was complete, is cached
             \* and still describes the account

aliVars == <<loopVars, account, scan, read>>

Products == {ProdCodeList[i] : i \in DOMAIN ProdCodeList}
ArnsOf(p) == {QuotasOf[p][i] : i \in DOMAIN QuotasOf[p]}
Arns == UNION {ArnsOf(p) : p \in Products}
Readings == UNION {ReadingsOf[a] : a \in Arns}
Objects == [current : {r.current : r \in Readings} \ {0}, limit : {r.limit : r \in Readings}]
IdleScan == [left |-> <<>>, todo |-> <<>>, exact |-> FALSE]

ASSUME ListsAssumption ==
    /\ ProdCodeList \in Seq(Products)
    /\ \A p \in Products : QuotasOf[p] \in Seq(ArnsOf(p))
    /\ \A r \in Readings : r = [current |-> r.current, limit |-> r.limit]

Init ==
    /\ LoopInit
    /\ account \in [Arns -> Readings] /\ \A a \in Arns : account[a] \in ReadingsOf[a]
    /\ scan = [s \in Scrapes |-> IdleScan]
    /\ read = {}

BeginScrape(s) ==
    /\ Begin(s)
    /\ scan' = [scan EXCEPT ![s].left = ProdCodeList]
    /\ UNCHANGED <<account, read>>

\* The product is the head of "left" until its answer is cached.
Asking(s)  == s \in inFlight /\ scan[s].left # <<>>
Answer(p)  == [i \in DOMAIN QuotasOf[p] |-> [arn |-> QuotasOf[p][i], pair |-> account[QuotasOf[p][i]]]]

CallFails(s) ==
    /\ Asking(s) /\ scan[s].todo = <<>>
    /\ scan' = [scan EXCEPT ![s].left = Tail(@)]
    /\ Misses(s)
    /\ UNCHANGED <<account, read>>

ListProductQuotas(s) ==
    LET p == Head(scan[s].left) IN
    /\ Asking(s) /\ scan[s].todo = <<>>
    /\ QuotasOf[p] # <<>>
    /\ scan' = [scan EXCEPT ![s].todo = Answer(p), ![s].exact = TRUE]
    /\ read' = read \ {p}
    /\ UNCHANGED <<loopVars, account>>

AnyQuota(e) == TRUE             \* mutant of Used
Used(e) == e.pair.current # 0

\* One quota of the answer; a quota that is not used is skipped.
CacheQuota(s) ==
    LET e == Head(scan[s].todo)
        p == Head(scan[s].left)
        last == Tail(scan[s].todo) = <<>>
    IN
    /\ Asking(s) /\ scan[s].todo # <<>>
    /\ scan' = [scan EXCEPT ![s].todo = Tail(@), ![s].left = IF last THEN Tail(@) ELSE @]
    /\ read' = IF last /\ scan[s].exact THEN read \cup {p} ELSE read
    /\ \/ Used(e) /\ CacheSet(e.arn, e.pair)
       \/ ~Used(e) /\ UNCHANGED loopVars
    /\ UNCHANGED account

ScrapeReturns(s) ==
    /\ scan[s].left = <<>>
    /\ Return(s)
    /\ UNCHANGED <<account, scan, read>>

\* The labels are those of the result, one series per ARN.
Collect(r) ==
    /\ \/ Arrive(r) \/ Finish(r) \/ CopyItems(r) \/ LimitsThenUsages(r)
       \/ \E arn \in DOMAIN request[r].items : SetUsage(r, arn, arn) \/ SetLimit(r, arn, arn)
    /\ UNCHANGED <<account, scan, read>>

AccountChanges ==
    \E p \in Products : \E arn \in ArnsOf(p) : \E r \in ReadingsOf[arn] :
        /\ account' = [account EXCEPT ![arn] = r]
        /\ account' # account
        /\ read' = read \ {p}
        /\ scan' = [s \in Scrapes |->
               IF scan[s].left # <<>> /\ Head(scan[s].left) = p
               THEN [scan[s] EXCEPT !.exact = FALSE] ELSE scan[s]]
        /\ AccountChanged

\* The container is stopped: no error of the API ends this process.
Restart ==
    /\ Die
    /\ scan' = [s \in Scrapes |-> IdleScan] /\ read' = {}
    /\ UNCHANGED account

Scrape(s) ==
    \/ BeginScrape(s) \/ CallFails(s) \/ ListProductQuotas(s) \/ CacheQuota(s)
    \/ ScrapeReturns(s)

Next ==
    \/ \E s \in Scrapes : Scrape(s)
    \/ \E r \in Requests : Collect(r)
    \/ Expire /\ UNCHANGED <<account, scan, read>>
    \/ AccountChanges \/ Restart

Spec == Init /\ [][Next]_aliVars

-----------------------------------------------------------------------------
(* Properties *)

\* The variables have their shapes; in particular no unused quota is cached.
TypeOK ==
    /\ LoopTypeOK(Arns, Objects, Arns)
    /\ account \in [Arns -> Readings]
    /\ read \subseteq Products
    /\ \A s \in Scrapes :
         /\ \A i \in DOMAIN scan[s].left : scan[s].left[i] \in Products
         /\ \A i \in DOMAIN scan[s].todo : scan[s].todo[i].arn \in ArnsOf(Head(scan[s].left))
         /\ scan[s].exact \in BOOLEAN

\* What an answer shows was measured for its series, and unless requests overlap
\* a usage is shown with the limit measured with it.
Export == INSTANCE QuotaExport WITH
    Series <- Arns, Results <- Objects, Requests <- Requests,
    shown <- DOMAIN gaugeCurrent, answer <- Answers, overlapped <- overlapped,
    measured <- written
ExportSpec == Export!Spec

\* A product that answered is shown as it is, whatever the calls for the other
\* products returned, before or after it in the same scrape.
MirrorsReadProducts ==
    \A p \in read : \A arn \in ArnsOf(p) \cap DOMAIN cache :
        account[arn].current # 0 => cache[arn] = account[arn]
=============================================================================
