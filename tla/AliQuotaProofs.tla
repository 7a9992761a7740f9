--------------------------- MODULE AliQuotaProofs ---------------------------
(***************************************************************************)
(* The AliCloud quota collector keeps its types and implements             *)
(* QuotaExport, for every list of products and quotas.                     *)
(***************************************************************************)
EXTENDS AliQuota, QuotaLoopProofs

Entries == [arn : Arns, pair : Readings]
Scans == [left : Seq(Products), todo : Seq(Entries), exact : BOOLEAN]

\* A scan is a rest of the products, and a rest of the answer for the first of
\* them; a scrape that is not in flight has nothing left to cache.
ScanOK(s) ==
    /\ scan[s] \in Scans
    /\ scan[s].todo # <<>> => s \in inFlight /\ scan[s].left # <<>>
    /\ \A i \in DOMAIN scan[s].todo : scan[s].todo[i].arn \in ArnsOf(Head(scan[s].left))

ScanInv == scan \in [Scrapes -> Scans] /\ \A s \in Scrapes : ScanOK(s)

AccountInv == account \in [Arns -> Readings] /\ read \subseteq Products

\* The label of a result is its ARN.
LabelsKept == \A r \in Requests : \A k \in DOMAIN request[r].at : request[r].at[k] = k

AliInv ==
    /\ DownIsEmpty /\ ScanInv /\ AccountInv /\ CacheCovered /\ LabelsKept
    /\ written \subseteq Arns \X Objects
    /\ CollectInv(written, TRUE)

-----------------------------------------------------------------------------
LEMMA AliInit == Init => AliInv
<1> SUFFICES ASSUME Init PROVE AliInv
  OBVIOUS
<1>1. DownIsEmpty /\ CacheCovered /\ written = {}
  BY InitLoop DEF Init
<1>6. CollectInv(written, TRUE)
  BY CollectStarts DEF Init, LoopInit
<1>7. LabelsKept
  BY NothingIn DEF Init, LoopInit, LabelsKept, NoRequests, IdleRequest
<1>2. AccountInv
  BY DEF Init, AccountInv
<1>3. IdleScan \in Scans
  BY DEF IdleScan, Scans
<1>4. ScanInv
  BY <1>3 DEF Init, ScanInv, ScanOK, IdleScan
<1>5. QED
  BY <1>1, <1>2, <1>4, <1>6, <1>7 DEF AliInv

\* A step of Collect is one of the loop's, with a result and its ARN.
LEMMA AliCollects ==
  ASSUME AliInv, NEW r \in Requests, Collect(r)
  PROVE  /\ CollectInv(written, TRUE)' /\ LabelsKept'
         /\ UNCHANGED <<scrapeVars, account, scan, read>>
         /\ MapsTo(written, r)
<1>1. PICK key : CollectStep(TRUE, r, key, key)
  <2>1. ASSUME NEW arn, SetUsage(r, arn, arn) \/ SetLimit(r, arn, arn)
        PROVE  CollectStep(TRUE, r, arn, arn)
    BY <2>1 DEF CollectStep
  <2>2. CASE \E arn : SetUsage(r, arn, arn) \/ SetLimit(r, arn, arn)
    BY <2>1, <2>2
  <2>3. CASE Arrive(r) \/ Finish(r) \/ CopyItems(r) \/ LimitsThenUsages(r)
    <3>1. \A x : CollectStep(TRUE, r, x, x)
      BY <2>3 DEF CollectStep
    <3>2. QED
      BY <3>1
  <2>4. QED
    BY <2>2, <2>3 DEF Collect
<1>2. key \in DOMAIN request[r].items => <<key, request[r].items[key]>> \in written
  BY DEF AliInv, CollectInv, RequestsOK
<1>3. key \in DOMAIN request[r].at => request[r].at[key] = key
  BY DEF AliInv, LabelsKept
<1>4. UNCHANGED written
  BY <1>1 DEF CollectStep, Arrive, CopyItems, Finish, SetUsage, SetLimit,
     LimitsThenUsages, UsagesThenLimits, EmitFirst, Respond, scrapeVars
<1>5. PICK M : M = written
  OBVIOUS
<1>6. CollectInv(M, TRUE)' /\ UNCHANGED scrapeVars /\ MapsTo(M, r)
  BY <1>1, <1>2, <1>3, <1>5, CollectSteps DEF AliInv
<1>7. KeepsLabels(r, key, key)
  BY <1>1, <1>5, CollectAt DEF AliInv
<1>8. LabelsKept'
  BY <1>7 DEF AliInv, LabelsKept, KeepsLabels
<1>9. QED
  BY <1>4, <1>5, <1>6, <1>8 DEF Collect

\* Every step is one of the loop's steps, with s in Scrapes.
LEMMA AliControl ==
  ASSUME AliInv, [Next]_aliVars
  PROVE  DownIsEmpty'
<1>1. ASSUME NEW r \in Requests, Collect(r) PROVE UNCHANGED scrapeVars
  BY <1>1, AliCollects
<1>2. \/ \E s \in Scrapes : Begin(s) \/ Return(s) \/ (s \in inFlight /\ Misses(s))
      \/ \E key, object : CacheSet(key, object)
      \/ Expire \/ AccountChanged \/ Die \/ UNCHANGED scrapeVars
  BY <1>1 DEF Next, aliVars, loopVars, Scrape, BeginScrape, CallFails, Asking, ListProductQuotas,
         CacheQuota, ScrapeReturns, AccountChanges, Restart
<1>3. QED
  BY <1>2, LoopSteps DEF AliInv

LEMMA AnswerType ==
  ASSUME AccountInv, NEW p \in Products
  PROVE  /\ Answer(p) \in Seq(Entries)
         /\ \A i \in DOMAIN Answer(p) : Answer(p)[i].arn \in ArnsOf(p)
         /\ QuotasOf[p] # <<>> => Answer(p) # <<>>
<1>1. QuotasOf[p] \in Seq(ArnsOf(p)) /\ ArnsOf(p) \subseteq Arns
  BY ListsAssumption DEF Arns
<1>2. \A i \in DOMAIN QuotasOf[p] : QuotasOf[p][i] \in ArnsOf(p)
  BY DEF ArnsOf
<1>3. Answer(p) \in Seq(Entries)
  <2>1. \A i \in DOMAIN QuotasOf[p] :
           [arn |-> QuotasOf[p][i], pair |-> account[QuotasOf[p][i]]] \in Entries
    BY <1>1, <1>2 DEF Entries, AccountInv
  <2>2. Len(QuotasOf[p]) \in Nat /\ DOMAIN QuotasOf[p] = 1 .. Len(QuotasOf[p])
    BY <1>1
  <2>3. QED
    BY <2>1, <2>2 DEF Answer
<1>4. QED
  BY <1>1, <1>2, <1>3 DEF Answer

LEMMA ProductsInOrder == ProdCodeList \in Seq(Products)
BY ListsAssumption

LEMMA ScanFields ==
  ASSUME ScanInv, NEW s \in Scrapes
  PROVE  /\ scan[s].left \in Seq(Products) /\ scan[s].todo \in Seq(Entries)
         /\ scan[s].exact \in BOOLEAN /\ scan[s] \in Scans /\ ScanOK(s)
BY DEF ScanInv, Scans

\* What the three forms of a step of one scrape leave.
OnlyScan(s, l, t, e) ==
    /\ scan' \in [Scrapes -> Scans]
    /\ \A u \in Scrapes \ {s} : scan'[u] = scan[u]
    /\ scan'[s].left = l /\ scan'[s].todo = t /\ scan'[s].exact = e

LEMMA UpdateScan ==
  ASSUME ScanInv, NEW s \in Scrapes,
         NEW l \in Seq(Products), NEW t \in Seq(Entries), NEW e \in BOOLEAN
  PROVE  /\ scan' = [scan EXCEPT ![s].left = l] => OnlyScan(s, l, scan[s].todo, scan[s].exact)
         /\ scan' = [scan EXCEPT ![s].todo = t, ![s].exact = e] => OnlyScan(s, scan[s].left, t, e)
         /\ scan' = [scan EXCEPT ![s].todo = t, ![s].left = l] => OnlyScan(s, l, t, scan[s].exact)
<1>1. scan \in [Scrapes -> Scans] /\ scan[s] \in Scans
  BY DEF ScanInv
<1>2. ASSUME scan' = [scan EXCEPT ![s].left = l]
      PROVE  OnlyScan(s, l, scan[s].todo, scan[s].exact)
  BY <1>1, <1>2 DEF OnlyScan, Scans
<1>3. ASSUME scan' = [scan EXCEPT ![s].todo = t, ![s].exact = e]
      PROVE  OnlyScan(s, scan[s].left, t, e)
  BY <1>1, <1>3 DEF OnlyScan, Scans
<1>4. ASSUME scan' = [scan EXCEPT ![s].todo = t, ![s].left = l]
      PROVE  OnlyScan(s, l, t, scan[s].exact)
  BY <1>1, <1>4 DEF OnlyScan, Scans
<1>5. QED
  BY <1>2, <1>3, <1>4

\* A step of one scrape leaves the others alone.
LEMMA OneScan ==
  ASSUME ScanInv, NEW s \in Scrapes, NEW l, NEW t, NEW e,
         OnlyScan(s, l, t, e), inFlight \ {s} \subseteq inFlight',
         t # <<>> => s \in inFlight' /\ l # <<>>,
         \A i \in DOMAIN t : t[i].arn \in ArnsOf(Head(l))
  PROVE  ScanInv'
<1>1. scan' \in [Scrapes -> Scans]
  BY DEF OnlyScan
<1>2. ScanOK(s)'
  BY <1>1 DEF ScanOK, OnlyScan
<1>3. ASSUME NEW u \in Scrapes, u # s PROVE ScanOK(u)'
  <2>1. scan'[u] = scan[u] /\ ScanOK(u)
    BY <1>3 DEF ScanInv, OnlyScan
  <2>2. QED
    BY <1>3, <2>1 DEF ScanOK
<1>4. QED
  BY <1>1, <1>2, <1>3 DEF ScanInv

LEMMA AliScan ==
  ASSUME AliInv, [Next]_aliVars
  PROVE  ScanInv'
<1> ScanInv /\ DownIsEmpty
  BY DEF AliInv
<1>1. ASSUME NEW s \in Scrapes, BeginScrape(s) PROVE ScanInv'
  <2>1. scan[s].todo = <<>> /\ inFlight' = inFlight \cup {s}
    BY <1>1 DEF BeginScrape, Begin, ScanInv, ScanOK, DownIsEmpty
  <2>2. OnlyScan(s, ProdCodeList, <<>>, scan[s].exact)
    BY <1>1, <2>1, ProductsInOrder, ScanFields, UpdateScan DEF BeginScrape
  <2>3. QED
    BY <2>1, <2>2, OneScan
<1>2. ASSUME NEW s \in Scrapes, CallFails(s) PROVE ScanInv'
  <2>1. Tail(scan[s].left) \in Seq(Products) /\ scan[s].todo = <<>> /\ UNCHANGED inFlight
    BY <1>2, ScanFields DEF CallFails, Asking, Misses
  <2>2. OnlyScan(s, Tail(scan[s].left), <<>>, scan[s].exact)
    BY <1>2, <2>1, ScanFields, UpdateScan DEF CallFails
  <2>3. QED
    BY <2>1, <2>2, OneScan
<1>3. ASSUME NEW s \in Scrapes, ListProductQuotas(s) PROVE ScanInv'
  <2> DEFINE p == Head(scan[s].left)
  <2>1. p \in Products /\ scan[s].left # <<>> /\ s \in inFlight /\ UNCHANGED inFlight
    BY <1>3, ScanFields DEF ListProductQuotas, Asking, loopVars, scrapeVars
  <2>2. Answer(p) \in Seq(Entries) /\ \A i \in DOMAIN Answer(p) : Answer(p)[i].arn \in ArnsOf(p)
    BY <2>1, AnswerType DEF AliInv
  <2>3. OnlyScan(s, scan[s].left, Answer(p), TRUE)
    BY <1>3, <2>2, ScanFields, UpdateScan DEF ListProductQuotas
  <2>4. QED
    BY <2>1, <2>2, <2>3, OneScan
<1>4. ASSUME NEW s \in Scrapes, CacheQuota(s) PROVE ScanInv'
  <2> DEFINE todo == Tail(scan[s].todo)
             left == IF todo = <<>> THEN Tail(scan[s].left) ELSE scan[s].left
  <2>1. /\ scan[s].todo # <<>> /\ scan[s].left # <<>> /\ s \in inFlight
        /\ UNCHANGED inFlight
    BY <1>4 DEF CacheQuota, Asking, CacheSet, loopVars, scrapeVars
  <2>2. /\ todo \in Seq(Entries) /\ left \in Seq(Products)
        /\ \A i \in DOMAIN todo :
              i + 1 \in DOMAIN scan[s].todo /\ todo[i] = scan[s].todo[i + 1]
    BY <2>1, ScanFields
  <2>3. OnlyScan(s, left, todo, scan[s].exact)
    <3>1. scan' = [scan EXCEPT ![s].todo = todo, ![s].left = left]
      BY <1>4, ScanFields DEF CacheQuota, ScanInv, Scans
    <3>2. QED
      BY <2>2, <3>1, ScanFields, UpdateScan
  <2>4. \A i \in DOMAIN todo : todo # <<>> /\ todo[i].arn \in ArnsOf(Head(scan[s].left))
    BY <2>2, ScanFields DEF ScanOK
  <2>5. QED
    BY <2>1, <2>3, <2>4, OneScan
<1>5. ASSUME NEW s \in Scrapes, ScrapeReturns(s) PROVE ScanInv'
  <2>1. scan[s].todo = <<>> /\ scan' = scan /\ inFlight' = inFlight \ {s}
    BY <1>5, ScanFields DEF ScrapeReturns, Return, ScanOK
  <2>2. OnlyScan(s, scan[s].left, <<>>, scan[s].exact)
    BY <2>1 DEF ScanInv, OnlyScan
  <2>3. QED
    BY <2>1, <2>2, OneScan
<1>6. CASE (\E r \in Requests : Collect(r)) \/ (Expire /\ UNCHANGED <<account, scan, read>>)
  BY <1>6, AliCollects DEF scrapeVars, Expire, ScanInv, ScanOK
<1>7. CASE AccountChanges
  <2>1. PICK p \in Products : scan' = [s \in Scrapes |->
           IF scan[s].left # <<>> /\ Head(scan[s].left) = p
           THEN [scan[s] EXCEPT !.exact = FALSE] ELSE scan[s]]
    BY <1>7 DEF AccountChanges
  <2>2. UNCHANGED inFlight
    BY <1>7 DEF AccountChanges, AccountChanged
  <2>3. ASSUME NEW s \in Scrapes
        PROVE  scan'[s] \in Scans /\ scan'[s].left = scan[s].left /\ scan'[s].todo = scan[s].todo
    <3>1. scan[s] \in Scans
      BY ScanFields
    <3>2. LET x == [scan[s] EXCEPT !.exact = FALSE]
          IN  x \in Scans /\ x.left = scan[s].left /\ x.todo = scan[s].todo
      BY <3>1 DEF Scans
    <3>3. QED
      BY <2>1, <3>1, <3>2
  <2>4. scan' \in [Scrapes -> Scans]
    BY <2>1, <2>3
  <2>5. QED
    BY <2>2, <2>3, <2>4 DEF ScanInv, ScanOK
<1>8. CASE Restart
  <2>1. IdleScan \in Scans
    BY DEF IdleScan, Scans
  <2>2. QED
    BY <1>8, <2>1 DEF Restart, ScanInv, ScanOK, IdleScan
<1>9. CASE UNCHANGED aliVars
  BY <1>9 DEF aliVars, loopVars, scrapeVars, ScanInv, ScanOK
<1>10. QED
  BY <1>1, <1>2, <1>3, <1>4, <1>5, <1>6, <1>7, <1>8, <1>9 DEF Next, Scrape

LEMMA AliAccount ==
  ASSUME AliInv, [Next]_aliVars
  PROVE  AccountInv'
<1> USE DEF AliInv
<1>1. ASSUME NEW s \in Scrapes, CacheQuota(s) PROVE AccountInv'
  <2>1. Head(scan[s].left) \in Products
    BY <1>1, ScanFields DEF CacheQuota, Asking
  <2>2. QED
    BY <1>1, <2>1 DEF CacheQuota, AccountInv
<1>2. CASE AccountChanges
  <2>1. PICK p \in Products : \E arn \in ArnsOf(p) : \E r \in ReadingsOf[arn] :
           account' = [account EXCEPT ![arn] = r] /\ read' = read \ {p}
    BY <1>2 DEF AccountChanges
  <2>2. \A arn \in ArnsOf(p) : arn \in Arns /\ ReadingsOf[arn] \subseteq Readings
    BY DEF Arns, Readings
  <2>3. QED
    BY <2>1, <2>2 DEF AccountInv
<1>3. CASE ~AccountChanges /\ ~(\E s \in Scrapes : CacheQuota(s))
  BY <1>3 DEF Next, aliVars, Scrape, BeginScrape, CallFails, ListProductQuotas, ScrapeReturns,
         Collect, Restart, AccountInv
<1>4. QED
  BY <1>1, <1>2, <1>3

-----------------------------------------------------------------------------
(* Each step in terms of QuotaExport *)

MeasureStep ==
    /\ written \subseteq written' /\ written' \subseteq Arns \X Objects
    /\ UNCHANGED collectVars

RestartStep ==
    /\ written' = {}
    /\ request' = NoRequests /\ gaugeCurrent' = Empty /\ gaugeLimit' = Empty /\ overlapped' = FALSE

LEMMA AliExport ==
  ASSUME AliInv, [Next]_aliVars
  PROVE  \/ CacheCovered' /\ MeasureStep
         \/ CacheCovered' /\ RestartStep
         \/ UNCHANGED <<cache, written>> /\ \E r \in Requests : Collect(r)
<1> USE DEF AliInv
<1>1. ASSUME NEW s \in Scrapes, CacheQuota(s), ~UNCHANGED loopVars
      PROVE  CacheCovered' /\ MeasureStep
  <2> DEFINE e == Head(scan[s].todo)
  <2>1. Used(e) /\ CacheSet(e.arn, e.pair)
    BY <1>1 DEF CacheQuota
  <2>2. e \in Entries
    BY <1>1, ScanFields DEF CacheQuota
  <2>3. e.arn \in Arns /\ e.pair \in Objects
    BY <2>1, <2>2, ListsAssumption DEF Entries, Objects, Used
  <2>4. QED
    BY <2>1, <2>3, SetCovers DEF MeasureStep
<1>2. CASE \E r \in Requests : Collect(r)
  BY <1>2, AliCollects DEF scrapeVars
<1>3. CASE Restart
  BY <1>3, DieCovers DEF Restart, RestartStep, Die
<1>4. CASE Expire
  BY <1>4, ExpireCovers DEF MeasureStep
<1>5. CASE UNCHANGED <<cache, written, collectVars>>
  BY <1>5, SameCovers DEF MeasureStep
<1>6. QED
  BY <1>1, <1>2, <1>3, <1>4, <1>5 DEF Next, aliVars, loopVars, scrapeVars, Scrape, BeginScrape, Begin,
     CallFails, Misses, ListProductQuotas, ScrapeReturns, Return, AccountChanges, AccountChanged

LEMMA AliMeasures ==
  ASSUME AliInv, MeasureStep PROVE CollectInv(written, TRUE)' /\ LabelsKept'
<1>1. PICK M, N : M = written /\ N = written'
  OBVIOUS
<1>2. CollectInv(N, TRUE)'
  BY <1>1, CollectStays DEF AliInv, MeasureStep
<1>3. QED
  BY <1>1, <1>2 DEF AliInv, LabelsKept, MeasureStep, collectVars

LEMMA AliRestarts ==
  ASSUME RestartStep PROVE CollectInv(written, TRUE)' /\ LabelsKept'
<1>1. PICK N : N = written'
  OBVIOUS
<1>2. CollectInv(N, TRUE)'
  BY CollectRestarts DEF RestartStep
<1>3. \A r \in Requests : request'[r].at = Empty
  BY DEF RestartStep, NoRequests, IdleRequest
<1>4. QED
  BY <1>1, <1>2, <1>3, NothingIn DEF LabelsKept

LEMMA AliStep == AliInv /\ [Next]_aliVars => AliInv'
<1> SUFFICES ASSUME AliInv, [Next]_aliVars PROVE AliInv'
  OBVIOUS
<1>1. DownIsEmpty' /\ ScanInv' /\ AccountInv'
  BY AliControl, AliScan, AliAccount
<1>2. CASE CacheCovered' /\ MeasureStep
  BY <1>1, <1>2, AliMeasures DEF AliInv, MeasureStep
<1>3. CASE CacheCovered' /\ RestartStep
  BY <1>1, <1>3, AliRestarts DEF AliInv, RestartStep
<1>4. CASE UNCHANGED <<cache, written>> /\ \E r \in Requests : Collect(r)
  BY <1>1, <1>4, AliCollects, SameCovers DEF AliInv
<1>5. QED
  BY <1>2, <1>3, <1>4, AliExport

LEMMA AliTypes == AliInv => TypeOK
<1> SUFFICES ASSUME AliInv PROVE TypeOK
  OBVIOUS
<1>1. PICK M : M = written
  OBVIOUS
<1>3. LoopTypeOK(Arns, Objects, Arns)
  BY <1>1, LoopTypes DEF AliInv
<1>4. ASSUME NEW s \in Scrapes
      PROVE  /\ \A i \in DOMAIN scan[s].left : scan[s].left[i] \in Products
             /\ \A i \in DOMAIN scan[s].todo : scan[s].todo[i].arn \in ArnsOf(Head(scan[s].left))
             /\ scan[s].exact \in BOOLEAN
  <2>1. scan[s].left \in Seq(Products) /\ scan[s].exact \in BOOLEAN /\ ScanOK(s)
    BY ScanFields DEF AliInv
  <2>2. QED
    BY <2>1 DEF ScanOK
<1>5. QED
  BY <1>3, <1>4 DEF TypeOK, AliInv, AccountInv

-----------------------------------------------------------------------------
\* The collector keeps its types, and caches no unused quota.
THEOREM AliTypeCorrect == Spec => []TypeOK
<1>1. Spec => []AliInv
  BY AliInit, AliStep, PTL DEF Spec
<1>2. QED
  BY <1>1, AliTypes, PTL

\* Whatever calls fail, whenever entries expire and however many requests are in
\* flight, an answer holds only what was measured; and as long as requests come one
\* at a time it pairs each usage with the limit measured with it, for every series
\* there is: the collector implements QuotaExport.
THEOREM AliImplementsExport == Spec => ExportSpec
<1> DEFINE vars == <<written, DOMAIN gaugeCurrent, Answers, overlapped>>
<1>1. Init => Export!Init
  <2> SUFFICES ASSUME Init PROVE Export!Init
    OBVIOUS
  <2>1. written = {} /\ DOMAIN gaugeCurrent = {} /\ overlapped = FALSE
    BY NothingIn DEF Init, LoopInit
  <2>2. Answers = [r \in Requests |-> NoAnswer]
    BY DEF Init, LoopInit, Answers, NoRequests, IdleRequest
  <2>3. QED
    BY <2>1, <2>2 DEF Export!Init, NoAnswer, Empty, Export!NoAnswers, Export!NoAnswer,
                      Export!Nothing
<1>2. AliInv /\ [Next]_aliVars => [Export!Next]_vars
  <2> SUFFICES ASSUME AliInv, [Next]_aliVars PROVE [Export!Next]_vars
    OBVIOUS
  <2>1. CASE MeasureStep
    <3>1. UNCHANGED <<DOMAIN gaugeCurrent, Answers, overlapped>>
      BY <2>1 DEF MeasureStep, collectVars, Answers
    <3>2. QED
      BY <2>1, <3>1 DEF MeasureStep, Export!Next, Export!Measure
  <2>2. CASE RestartStep
    <3>1. written' = {} /\ DOMAIN gaugeCurrent' = {} /\ overlapped' = FALSE
      BY <2>2, NothingIn DEF RestartStep
    <3>2. Answers' = [r \in Requests |-> NoAnswer]
      BY <2>2 DEF RestartStep, Answers, NoRequests, IdleRequest
    <3>3. QED
      BY <3>1, <3>2 DEF Export!Next, Export!Restart, NoAnswer, Empty,
                        Export!NoAnswers, Export!NoAnswer, Export!Nothing
  <2>3. CASE UNCHANGED <<cache, written>> /\ \E r \in Requests : Collect(r)
    <3>1. PICK r \in Requests : MapsTo(written, r) /\ UNCHANGED written
      BY <2>3, AliCollects
    <3>2. CASE ShowsMore(written)
      BY <3>1, <3>2 DEF ShowsMore, Export!Next, Export!Show
    <3>3. CASE Nobody
      BY <3>1, <3>3 DEF Nobody, Export!Next, Export!RequestsOverlap
    <3>4. CASE Forgets(r)
      BY <3>1, <3>4 DEF Forgets, Export!Next, Export!Finish, NoAnswer, Empty,
                        Export!NoAnswer, Export!Nothing
    <3>5. CASE AnswersWith(written, r, Answers'[r])
      BY <3>1, <3>5 DEF AnswersWith, AnswerMeasured, Export!Next, Export!Respond,
                        Export!EachIsMeasured, Export!PairsAreMeasured
    <3>6. QED
      BY <3>1, <3>2, <3>3, <3>4, <3>5 DEF MapsTo
  <2>4. QED
    BY <2>1, <2>2, <2>3, AliExport
<1>3. QED
  BY <1>1, <1>2, AliInit, AliStep, PTL DEF Spec, ExportSpec, Export!Spec

-----------------------------------------------------------------------------
(* A product that answered is shown as it is                               *)

\* An ARN names the product of its quota.
ArnsNameTheirProduct ==
    \A p, q \in Products : p # q => ArnsOf(p) \cap ArnsOf(q) = {}

\* A cache C shows a quota as it is in the account A, if it is used.
Shows(A, C, arn) == arn \in DOMAIN C /\ A[arn].current # 0 => C[arn] = A[arn]

ToCome(todo, arn) == \E i \in DOMAIN todo : todo[i].arn = arn

OneScrape == \A s, t \in inFlight : s = t

\* While an answer is being cached its product does not count as read; unless the
\* account has changed since, its entries are the account's, and what is not
\* among them any more is in the cache.
AnswerOK(s) ==
    LET p == Head(scan[s].left)
        todo == scan[s].todo
    IN
    todo # <<>> =>
        /\ p \notin read
        /\ scan[s].exact =>
             /\ \A i \in DOMAIN todo : todo[i].pair = account[todo[i].arn]
             /\ \A arn \in ArnsOf(p) : ToCome(todo, arn) \/ Shows(account, cache, arn)

ReadInv ==
    /\ OneScrape
    /\ \A s \in Scrapes : AnswerOK(s)
    /\ \A p \in read : \A arn \in ArnsOf(p) : Shows(account, cache, arn)

LEMMA SameRead ==
  ASSUME ReadInv, UNCHANGED <<account, scan, cache, read>>, inFlight' \subseteq inFlight
  PROVE  ReadInv'
BY DEF ReadInv, OneScrape, AnswerOK

\* Only one scrape has entries left to cache.
LEMMA OneAnswer ==
  ASSUME AliInv, OneScrape, NEW s \in inFlight, NEW t \in Scrapes, scan[t].todo # <<>>
  PROVE  t = s
BY ScanFields DEF AliInv, ScanOK, OneScrape

\* A step after which no answer is being cached.
LEMMA NothingToCache ==
  ASSUME ReadInv, OneScrape', \A t \in Scrapes : scan'[t].todo = <<>>,
         UNCHANGED <<account, cache, read>>
  PROVE  ReadInv'
BY DEF ReadInv, AnswerOK

LEMMA ListRead ==
  ASSUME AliInv, ReadInv, NEW s \in Scrapes, ListProductQuotas(s) PROVE ReadInv'
<1> DEFINE p == Head(scan[s].left)
<1>1. /\ s \in inFlight /\ scan[s].left # <<>> /\ read' = read \ {p}
      /\ UNCHANGED <<account, cache, inFlight>>
  BY DEF ListProductQuotas, Asking, loopVars, scrapeVars
<1>2. p \in Products
  BY <1>1, ScanFields DEF AliInv
<1>3. /\ scan'[s].left = scan[s].left /\ scan'[s].todo = Answer(p)
      /\ \A t \in Scrapes : t # s => scan'[t] = scan[t]
  <2>1. OnlyScan(s, scan[s].left, Answer(p), TRUE)
    BY <1>2, AnswerType, ScanFields, UpdateScan DEF ListProductQuotas, AliInv
  <2>2. QED
    BY <2>1 DEF OnlyScan
<1>4. AnswerOK(s)'
  <2>1. \A i \in DOMAIN Answer(p) : Answer(p)[i].pair = account[Answer(p)[i].arn]
    BY DEF Answer
  <2>2. \A arn \in ArnsOf(p) : ToCome(Answer(p), arn)
    BY DEF Answer, ArnsOf, ToCome
  <2>3. QED
    BY <1>1, <1>3, <2>1, <2>2 DEF AnswerOK
<1>5. ASSUME NEW t \in Scrapes, t # s PROVE AnswerOK(t)'
  <2>1. scan'[t].todo = <<>>
    BY <1>1, <1>3, <1>5, OneAnswer DEF ReadInv
  <2>2. QED
    BY <2>1 DEF AnswerOK
<1>6. QED
  BY <1>1, <1>4, <1>5 DEF ReadInv, OneScrape

LEMMA NoElements == \A q : q = <<>> => DOMAIN q = {}
OBVIOUS

LEMMA TailElements ==
  ASSUME NEW S, NEW q \in Seq(S), q # <<>>
  PROVE  /\ 1 \in DOMAIN q /\ Head(q) = q[1]
         /\ \A i \in DOMAIN Tail(q) : i + 1 \in DOMAIN q /\ Tail(q)[i] = q[i + 1]
         /\ \A i \in DOMAIN q : i = 1 \/ (i - 1 \in DOMAIN Tail(q) /\ Tail(q)[i - 1] = q[i])
         /\ Tail(q) = <<>> => \A i \in DOMAIN q : i = 1
<1>1. /\ 1 \in DOMAIN q /\ Head(q) = q[1]
      /\ \A i \in DOMAIN Tail(q) : i + 1 \in DOMAIN q /\ Tail(q)[i] = q[i + 1]
      /\ \A i \in DOMAIN q : i = 1 \/ (i - 1 \in DOMAIN Tail(q) /\ Tail(q)[i - 1] = q[i])
  OBVIOUS
<1>2. ASSUME Tail(q) = <<>> PROVE \A i \in DOMAIN q : i = 1
  <2>1. DOMAIN Tail(q) = {}
    BY <1>2, NoElements
  <2>2. QED
    BY <1>1, <2>1
<1>3. QED
  BY <1>1, <1>2

LEMMA CacheRead ==
  ASSUME ArnsNameTheirProduct, AliInv, ReadInv, NEW s \in Scrapes, CacheQuota(s) PROVE ReadInv'
<1> DEFINE todo == scan[s].todo
           e == Head(todo)
           p == Head(scan[s].left)
<1>1. /\ s \in inFlight /\ scan[s].left # <<>> /\ todo \in Seq(Entries) /\ todo # <<>>
      /\ UNCHANGED <<account, inFlight>>
      /\ \/ Used(e) /\ CacheSet(e.arn, e.pair)
         \/ ~Used(e) /\ UNCHANGED cache
      /\ p \in Products
  <2>1. /\ s \in inFlight /\ scan[s].left # <<>> /\ todo # <<>> /\ UNCHANGED account
        /\ \/ Used(e) /\ CacheSet(e.arn, e.pair)
           \/ ~Used(e) /\ UNCHANGED loopVars
    BY DEF CacheQuota, Asking
  <2>2. UNCHANGED inFlight
    BY <2>1 DEF CacheSet, loopVars, scrapeVars
  <2>3. todo \in Seq(Entries) /\ scan[s].left \in Seq(Products)
    BY ScanFields DEF AliInv
  <2>4. p \in Products
    BY <2>1, <2>3
  <2>5. QED
    BY <2>1, <2>2, <2>3, <2>4 DEF loopVars, scrapeVars
<1>2. /\ read' = IF Tail(todo) = <<>> /\ scan[s].exact THEN read \cup {p} ELSE read
      /\ scan'[s].todo = Tail(todo) /\ scan'[s].exact = scan[s].exact
      /\ Tail(todo) # <<>> => scan'[s].left = scan[s].left
      /\ \A t \in Scrapes : t # s => scan'[t] = scan[t]
  <2>1. scan \in [Scrapes -> Scans] /\ scan[s] \in Scans
    BY DEF AliInv, ScanInv
  <2>2. QED
    BY <2>1 DEF CacheQuota, Scans
<1>3. /\ \A i \in DOMAIN Tail(todo) : i + 1 \in DOMAIN todo /\ Tail(todo)[i] = todo[i + 1]
      /\ \A i \in DOMAIN todo : i = 1 \/ (i - 1 \in DOMAIN Tail(todo) /\ Tail(todo)[i - 1] = todo[i])
      /\ 1 \in DOMAIN todo /\ e = todo[1]
      /\ Tail(todo) = <<>> => \A i \in DOMAIN todo : i = 1
  BY <1>1, TailElements
<1>4. /\ p \notin read /\ e.arn \in ArnsOf(p)
      /\ scan[s].exact =>
           /\ \A i \in DOMAIN todo : todo[i].pair = account[todo[i].arn]
           /\ \A arn \in ArnsOf(p) : ToCome(todo, arn) \/ Shows(account, cache, arn)
  BY <1>1, <1>3, ScanFields DEF ReadInv, AnswerOK, AliInv, ScanOK
<1>5. ASSUME NEW arn, arn # e.arn, Shows(account, cache, arn) PROVE Shows(account, cache', arn)
  <2>1. arn \in DOMAIN cache' => arn \in DOMAIN cache /\ cache'[arn] = cache[arn]
    <3>1. CASE CacheSet(e.arn, e.pair)
      <4> HIDE DEF e
      <4>1. /\ DOMAIN cache' = DOMAIN cache \cup {e.arn}
            /\ \A k \in DOMAIN cache : k # e.arn => cache'[k] = cache[k]
        BY <3>1, SetShows
      <4>2. QED
        BY <1>5, <4>1
    <3>2. QED
      BY <1>1, <3>1
  <2>2. QED
    BY <1>5, <2>1 DEF Shows
<1>6. ASSUME scan[s].exact PROVE Shows(account, cache', e.arn)
  <2>1. e.pair = account[e.arn]
    BY <1>3, <1>4, <1>6
  <2>2. ASSUME account[e.arn].current # 0 PROVE cache'[e.arn] = account[e.arn]
    <3>1. CacheSet(e.arn, e.pair)
      BY <1>1, <2>1, <2>2 DEF Used
    <3>2. QED
      BY <2>1, <3>1, SetShows
  <2>3. QED
    BY <2>2 DEF Shows
<1>7. ASSUME scan[s].exact, NEW arn \in ArnsOf(p)
      PROVE  ToCome(Tail(todo), arn) \/ Shows(account, cache', arn)
  <2>1. CASE arn = e.arn
    BY <1>6, <1>7, <2>1
  <2>2. CASE arn # e.arn
    <3>1. ToCome(todo, arn) => ToCome(Tail(todo), arn)
      BY <1>3, <2>2 DEF ToCome
    <3>2. QED
      BY <1>4, <1>5, <1>7, <2>2, <3>1
  <2>3. QED
    BY <2>1, <2>2
<1>8. AnswerOK(s)'
  <2>1. ASSUME Tail(todo) # <<>>, scan[s].exact, NEW i \in DOMAIN Tail(todo)
        PROVE  Tail(todo)[i].pair = account[Tail(todo)[i].arn]
    BY <1>3, <1>4, <2>1
  <2>2. QED
    BY <1>1, <1>2, <1>4, <1>7, <2>1 DEF AnswerOK
<1>9. ASSUME NEW t \in Scrapes, t # s PROVE AnswerOK(t)'
  <2>1. scan'[t].todo = <<>>
    BY <1>1, <1>2, <1>9, OneAnswer DEF ReadInv
  <2>2. QED
    BY <2>1 DEF AnswerOK
<1>10. ASSUME NEW q \in read', NEW arn \in ArnsOf(q) PROVE Shows(account, cache', arn)
  <2>1. CASE q \in read
    <3>1. q # p /\ q \in Products
      BY <1>4, <2>1 DEF AliInv, AccountInv
    <3>2. arn # e.arn
      BY <1>1, <1>4, <1>10, <3>1 DEF ArnsNameTheirProduct
    <3>3. QED
      BY <1>5, <1>10, <2>1, <3>2 DEF ReadInv
  <2>2. CASE q \notin read
    <3>1. q = p /\ scan[s].exact /\ Tail(todo) = <<>>
      BY <1>2, <1>10, <2>2
    <3>2. ~ToCome(Tail(todo), arn)
      BY <1>3, <3>1 DEF ToCome
    <3>3. QED
      BY <1>7, <1>10, <3>1, <3>2
  <2>3. QED
    BY <2>1, <2>2
<1>11. QED
  BY <1>1, <1>8, <1>9, <1>10 DEF ReadInv, OneScrape

\* A change of one quota makes what was read of its product inexact.
LEMMA ChangeRead ==
  ASSUME ArnsNameTheirProduct, AliInv, ReadInv, AccountChanges PROVE ReadInv'
<1>1. PICK p \in Products :
        \E arn \in ArnsOf(p) : \E r \in ReadingsOf[arn] :
          /\ account' = [account EXCEPT ![arn] = r]
          /\ read' = read \ {p}
          /\ scan' = [s \in Scrapes |->
                 IF scan[s].left # <<>> /\ Head(scan[s].left) = p
                 THEN [scan[s] EXCEPT !.exact = FALSE] ELSE scan[s]]
  BY DEF AccountChanges
<1>2. PICK c \in ArnsOf(p) : \E r : account' = [account EXCEPT ![c] = r]
  BY <1>1
<1>3. UNCHANGED <<cache, inFlight>>
  BY DEF AccountChanges, AccountChanged
<1>4. ASSUME NEW q \in Products, q # p, NEW arn \in ArnsOf(q) PROVE account'[arn] = account[arn]
  <2>1. arn # c /\ account \in [Arns -> Readings] /\ arn \in Arns
    BY <1>4 DEF ArnsNameTheirProduct, AliInv, AccountInv, Arns
  <2>2. QED
    BY <1>2, <2>1
<1>5. ASSUME NEW s \in Scrapes PROVE AnswerOK(s)'
  <2>1. CASE scan[s].todo = <<>>
    <3>1. scan'[s].todo = <<>>
      BY <1>1, <2>1, ScanFields DEF AliInv, Scans
    <3>2. QED
      BY <3>1 DEF AnswerOK
  <2>2. CASE scan[s].todo # <<>> /\ Head(scan[s].left) = p
    <3>1. scan[s].left # <<>> /\ scan[s] \in Scans
      BY <2>2, ScanFields DEF AliInv, ScanOK
    <3>2. scan'[s].left = scan[s].left /\ scan'[s].exact = FALSE
      BY <1>1, <2>2, <3>1 DEF Scans
    <3>3. QED
      BY <1>1, <2>2, <3>2 DEF AnswerOK
  <2>3. CASE scan[s].todo # <<>> /\ Head(scan[s].left) # p
    <3> DEFINE q == Head(scan[s].left)
    <3>1. scan'[s] = scan[s] /\ q \in Products /\ \A i \in DOMAIN scan[s].todo : scan[s].todo[i].arn \in ArnsOf(q)
      BY <1>1, <2>3, ScanFields DEF AliInv, ScanOK
    <3>2. \A arn \in ArnsOf(q) : account'[arn] = account[arn]
      BY <1>4, <2>3, <3>1
    <3>3. \A arn \in ArnsOf(q) : Shows(account, cache, arn) => Shows(account', cache, arn)
      BY <3>2 DEF Shows
    <3>4. AnswerOK(s)
      BY DEF ReadInv
    <3>5. q \notin read /\ read' \subseteq read
      BY <1>1, <2>3, <3>4 DEF AnswerOK
    <3>6. ASSUME scan[s].exact, NEW i \in DOMAIN scan[s].todo
          PROVE  scan[s].todo[i].pair = account'[scan[s].todo[i].arn]
      BY <2>3, <3>1, <3>2, <3>4, <3>6 DEF AnswerOK
    <3>7. ASSUME scan[s].exact, NEW arn \in ArnsOf(q)
          PROVE  ToCome(scan[s].todo, arn) \/ Shows(account', cache, arn)
      BY <2>3, <3>3, <3>4, <3>7 DEF AnswerOK
    <3>8. QED
      BY <1>3, <3>1, <3>5, <3>6, <3>7 DEF AnswerOK
  <2>4. QED
    BY <2>1, <2>2, <2>3
<1>6. ASSUME NEW q \in read', NEW arn \in ArnsOf(q) PROVE Shows(account', cache, arn)
  <2>1. q \in read /\ q # p /\ q \in Products
    BY <1>1, <1>6 DEF AliInv, AccountInv
  <2>2. QED
    BY <1>4, <1>6, <2>1 DEF ReadInv, Shows
<1>7. QED
  BY <1>3, <1>5, <1>6 DEF ReadInv, OneScrape

LEMMA ReadStep ==
  ASSUME ~Overlap, ArnsNameTheirProduct
  PROVE  AliInv /\ ReadInv /\ [Next]_aliVars => ReadInv'
<1> SUFFICES ASSUME AliInv, ReadInv, [Next]_aliVars PROVE ReadInv'
  OBVIOUS
<1>1. ASSUME NEW s \in Scrapes, BeginScrape(s) PROVE ReadInv'
  <2>1. inFlight = {} /\ inFlight' = {s} /\ UNCHANGED <<account, cache, read>>
    BY <1>1 DEF BeginScrape, Begin, AliInv, DownIsEmpty
  <2>2. \A t \in Scrapes : scan[t] \in Scans /\ scan[t].todo = <<>>
    BY <2>1, ScanFields DEF AliInv, ScanOK
  <2>3. \A t \in Scrapes : scan'[t].todo = <<>>
    BY <1>1, <2>2 DEF BeginScrape, AliInv, ScanInv, Scans
  <2>4. QED
    BY <2>1, <2>3, NothingToCache DEF OneScrape
<1>2. ASSUME NEW s \in Scrapes, CallFails(s) PROVE ReadInv'
  <2>1. /\ s \in inFlight /\ scan[s].todo = <<>> /\ UNCHANGED <<account, cache, read, inFlight>>
    BY <1>2 DEF CallFails, Asking, Misses
  <2>2. \A t \in Scrapes : scan[t].todo = <<>>
    BY <2>1, OneAnswer DEF ReadInv
  <2>3. \A t \in Scrapes : scan'[t].todo = <<>>
    BY <1>2, <2>2 DEF CallFails, AliInv, ScanInv, Scans
  <2>4. QED
    BY <2>1, <2>3, NothingToCache DEF OneScrape, ReadInv
<1>3. CASE Expire /\ UNCHANGED <<account, scan, read>>
  <2>1. \A arn : Shows(account, cache, arn) => Shows(account, cache', arn)
    BY <1>3, ExpireShows DEF Shows
  <2>2. QED
    BY <1>3, <2>1, ExpireShows DEF ReadInv, OneScrape, AnswerOK
<1>4. CASE Restart
  <2>1. inFlight' = {} /\ read' = {} /\ \A s \in Scrapes : scan'[s] = IdleScan
    BY <1>4 DEF Restart, Die
  <2>2. QED
    BY <2>1 DEF ReadInv, OneScrape, AnswerOK, IdleScan
<1>5. CASE \/ \E r \in Requests : Collect(r)
           \/ UNCHANGED aliVars \/ \E s \in Scrapes : ScrapeReturns(s)
  BY <1>5, SameRead, AliCollects DEF scrapeVars, ScrapeReturns, Return, aliVars, loopVars
<1>6. QED
  BY <1>1, <1>2, <1>3, <1>4, <1>5, ListRead, CacheRead, ChangeRead DEF Next, Scrape

\* As long as scrapes do not overlap and no two products have a quota in common, a
\* product that answered is shown as it is until one of its quotas changes,
\* whatever the calls for the other products returned.
THEOREM AliMirrorsReadProducts ==
  ASSUME ~Overlap, ArnsNameTheirProduct
  PROVE  Spec => []MirrorsReadProducts
<1>1. Init => ReadInv
  BY DEF Init, LoopInit, IdleScan, ReadInv, OneScrape, AnswerOK
<1>2. ReadInv => MirrorsReadProducts
  BY DEF ReadInv, Shows, MirrorsReadProducts
<1>3. QED
  BY <1>1, <1>2, AliInit, AliStep, ReadStep, PTL DEF Spec
=============================================================================
