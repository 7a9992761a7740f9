------------------------------ MODULE AwsUsage ------------------------------
(***************************************************************************)
(* What the goroutines of Scrape in aws_quota.go count: the cases of the   *)
(* switch over the quota codes.  AwsQuota takes the usage of a quota as    *)
(* one number read from the account; here is how that number comes from    *)
(* lists that the account answers in pages, or in two calls, and that may  *)
(* change in between.  One case of one goroutine, again and again.         *)
(***************************************************************************)
EXTENDS Integers, FiniteSets, FiniteSetsExt, SequencesExt

CONSTANTS
    Keys,    \* the keys of items, numbers in the order of the lists
    Subnets, \* where an item is: a subnet for a gateway, a VPC for a route table
    ZoneOf,  \* the availability zone of each of them
    Sizes,   \* the GiB of a volume, the maximum of a data point
    GiBPerTiB,
    MaxTouched \* bound: how many keys change while a case runs

Single == {"addresses", "hosts", "instances", "gateways"}
Paged == {"volumes", "route_tables", "vpcs", "nlbs", "clbs"}
Cases == Single \cup Paged

\* An item fits when it is of the type that the quota is about: a gp2 volume,
\* an x2idn host, an available gateway, a network load balancer, a data point
\* with the statistic Maximum.
Items == [at : Subnets, size : Sizes, fits : BOOLEAN]
Accounts == UNION {[S -> Items] : S \in SUBSET Keys}

ASSUME UsageAssumption ==
    /\ Keys \subseteq Nat \ {0} /\ IsFiniteSet(Keys) /\ IsFiniteSet(Subnets)
    /\ Sizes \subseteq Nat /\ IsFiniteSet(Sizes) /\ Sizes # {}
    /\ GiBPerTiB \in Nat \ {0} /\ MaxTouched \in Nat

VARIABLES
    items,   \* the items of the case in the account
    usage,   \* the goroutine: pc, case, marker, count, and subnets it listed
    before,  \* history: the items when the case began
    touched  \* history: the keys that changed since then

vars == <<items, usage, before, touched>>

NoItems == [k \in {} |-> 0]
IdleUsage == [pc |-> "idle", case |-> "vpcs", marker |-> 0, count |-> 0, subnets |-> {}]

Init == items = NoItems /\ usage = IdleUsage /\ before = NoItems /\ touched = {}

\* The case begins, on any account.  The case of the route tables ends here,
\* without a result, unless the account has "hdl" in its name.
Begin ==
    /\ usage.pc = "idle"
    /\ \E c \in Cases :
         usage' = [IdleUsage EXCEPT !.pc = IF c = "gateways" THEN "subnets" ELSE "list", !.case = c]
    /\ items' \in Accounts /\ before' = items' /\ touched' = {}

\* The filters of the requests; load balancers are listed whatever their type.
Listed(c) ==
    {k \in DOMAIN items : c \in {"volumes", "hosts", "gateways"} => items[k].fits}

\* DescribeSubnets: every gateway is in a subnet that exists.
ListSubnets ==
    /\ usage.pc = "subnets"
    /\ \E S \in SUBSET Subnets :
         /\ {items[k].at : k \in DOMAIN items} \subseteq S
         /\ usage' = [usage EXCEPT !.pc = "list", !.subnets = S]
    /\ UNCHANGED <<items, before, touched>>

\* DescribeSubnets fails, which is only logged.
SubnetsFail ==
    /\ usage.pc = "subnets"
    /\ usage' = [usage EXCEPT !.pc = "nosubnets"]
    /\ UNCHANGED <<items, before, touched>>

\* The gateways per zone: the first one of a zone enters it with 0.
PerZone(S) ==
    [z \in {ZoneOf[items[k].at] : k \in S} |->
        Cardinality({k \in S : ZoneOf[items[k].at] = z}) - 1]

\* The GiB of the volumes S of an account.
Volumes(account, S) == FoldSet(LAMBDA k, sum : sum + account[k].size, 0, S)

\* Mutant of Counted: the search for the largest zone begins with -1.
CountedFromMinusOne(c, S) ==
    CASE c = "volumes" -> Volumes(items, S)
      [] c = "gateways" ->
           LET zones == PerZone({k \in S : items[k].at \in usage.subnets})
           IN  Max({-1} \cup {zones[z] : z \in DOMAIN zones})
      [] OTHER -> Cardinality(S)

\* What the items of an answer add to the count.
Counted(c, S) ==
    CASE c = "volumes" -> Volumes(items, S)
      [] c = "gateways" ->
           LET zones == PerZone({k \in S : items[k].at \in usage.subnets})
           IN  Max({0} \cup {zones[z] : z \in DOMAIN zones})
      [] OTHER -> Cardinality(S)

\* Mutant of ListPage: the first page only.
ListOnePage ==
    LET rest == {k \in Listed(usage.case) : k > usage.marker} IN
    /\ usage.pc = "list" /\ usage.case \in Paged
    /\ \E page \in SUBSET rest :
         /\ \A k \in page, l \in rest \ page : k < l
         /\ page = {} => rest = {}
         /\ usage' = [usage EXCEPT !.pc = "cache", !.count = @ + Counted(usage.case, page)]
    /\ UNCHANGED <<items, before, touched>>

\* NextPage of a pager, until there are no more pages.
ListPage ==
    LET rest == {k \in Listed(usage.case) : k > usage.marker} IN
    /\ usage.pc = "list" /\ usage.case \in Paged
    /\ \E page \in SUBSET rest :
         /\ \A k \in page, l \in rest \ page : k < l
         /\ page = {} => rest = {}
         /\ usage' = [usage EXCEPT
              !.pc = IF page = rest THEN "cache" ELSE "list",
              !.marker = IF page = rest THEN @ ELSE Max(page),
              !.count = @ + Counted(usage.case, page)]
    /\ UNCHANGED <<items, before, touched>>

\* One call whose answer is not paged.  Of the data points of an hour the first
\* counts; without any the usage is 0.
ListAll ==
    /\ usage.pc = "list" /\ usage.case \in Single
    /\ IF usage.case = "instances" /\ DOMAIN items # {}
       THEN \E k \in DOMAIN items :
              usage' = [usage EXCEPT !.pc = "cache", !.count = IF items[k].fits THEN items[k].size ELSE 0]
       ELSE usage' = [usage EXCEPT !.pc = "cache", !.count = Counted(usage.case, Listed(usage.case))]
    /\ UNCHANGED <<items, before, touched>>

EndCase == usage' = IdleUsage /\ items' = NoItems /\ before' = NoItems /\ touched' = {}

\* The gateways are listed, but not the subnets: the first gateway uses the nil
\* answer and the process ends.  Without any there is nothing to look up.
ListWithoutSubnets ==
    /\ usage.pc = "nosubnets"
    /\ IF Listed(usage.case) = {}
       THEN usage' = [usage EXCEPT !.pc = "cache"] /\ UNCHANGED <<items, before, touched>>
       ELSE EndCase

\* Mutant of Fails: what has been counted so far is cached.
FailsLate ==
    /\ usage.pc \in {"list", "nosubnets"}
    /\ usage' = [usage EXCEPT !.pc = "cache"]
    /\ UNCHANGED <<items, before, touched>>

\* The call that lists the items fails.  The load balancers' cases return without
\* a result; in the others the nil answer is used and the process ends.
Fails == usage.pc \in {"list", "nosubnets"} /\ EndCase

\* The value that is cached: volumes are divided as integers, so that Round
\* finds nothing to round.
Value == IF usage.case = "volumes" THEN usage.count \div GiBPerTiB ELSE usage.count
CacheValue == usage.pc = "cache" /\ EndCase

\* The account changes while the case runs.
AccountChanges ==
    /\ usage.pc \in {"subnets", "nosubnets", "list"} /\ Cardinality(touched) < MaxTouched
    /\ \E k \in Keys :
         /\ items' \in {a \in Accounts : \A x \in Keys \ {k} :
                (x \in DOMAIN items <=> x \in DOMAIN a) /\ (x \in DOMAIN a => a[x] = items[x])}
         /\ items' # items
         /\ touched' = touched \cup {k}
    /\ UNCHANGED <<usage, before>>

Next ==
    \/ Begin \/ ListSubnets \/ SubnetsFail \/ ListPage \/ ListAll \/ ListWithoutSubnets
    \/ Fails \/ CacheValue \/ AccountChanges
Spec == Init /\ [][Next]_vars
-----------------------------------------------------------------------------
(* Properties *)

TypeOK ==
    /\ items \in Accounts /\ before \in Accounts /\ touched \subseteq Keys
    /\ usage.pc \in {"idle", "subnets", "nosubnets", "list", "cache"} /\ usage.case \in Cases
    /\ usage.marker \in Keys \cup {0} /\ usage.count \in Nat /\ usage.subnets \subseteq Subnets

Quiet == usage.pc = "cache" /\ touched = {}
Fit == {k \in DOMAIN before : before[k].fits}
MostOf(S, P(_)) ==
    Max({0} \cup {Cardinality({k \in S : P(before[k].at) = P(before[l].at)}) : l \in S})

\* The cases whose count is of all that the account has of the kind that the
\* quota names; for the hosts, of those with the type it names.
Whole == {"vpcs", "addresses", "clbs"}

\* In an account that does not change, what is cached is what the quota is of,
\* whatever the pages: the full TiB of its gp2 volumes (a started one does not
\* count), its VPCs, addresses, x2idn hosts and classic load balancers.
QuietAccountIsCounted ==
    Quiet =>
      /\ usage.case = "volumes" =>
           /\ Value * GiBPerTiB <= Volumes(before, Fit)
           /\ Volumes(before, Fit) < (Value + 1) * GiBPerTiB
      /\ usage.case = "hosts" => Value = Cardinality(Fit)
      /\ usage.case \in Whole => Value = Cardinality(DOMAIN before)

\* While the account changes, the volumes, VPCs, addresses, hosts and classic load
\* balancers that nobody touches are counted once each, and nothing is counted
\* twice: a page never repeats or loses an item because another one came or went.
UntouchedAreCounted ==
    LET kept == DOMAIN before \ touched IN
    usage.pc = "cache" =>
      /\ usage.case \in Whole =>
           Value \in Cardinality(kept) .. Cardinality(kept \cup touched)
      /\ usage.case = "hosts" =>
           Value \in Cardinality(kept \cap Fit) .. Cardinality((kept \cap Fit) \cup touched)
      /\ usage.case = "volumes" =>
           /\ usage.count >= Volumes(before, kept \cap Fit)
           /\ usage.count <= Volumes(before, kept \cap Fit) + Cardinality(touched) * Max(Sizes)

\* The quota is of gateways per zone: the zone with the most of them counts.
\* The code forgets the first gateway of each zone.
GatewaysPerZone ==
    Quiet /\ usage.case = "gateways" => Value = MostOf(Fit, LAMBDA s : ZoneOf[s])

\* By how much it is wrong: a quiet account's largest zone counts one gateway less
\* than it has; the gateways that change in between account for the rest.
GatewaysAreOneShort ==
    LET most == MostOf((DOMAIN before \ touched) \cap Fit, LAMBDA s : ZoneOf[s]) IN
    usage.pc = "cache" /\ usage.case = "gateways" =>
      Value \in most - 1 .. most - 1 + Cardinality(touched) + (IF most = 0 THEN 1 ELSE 0)

\* The quota is of route tables per VPC: the VPC with the most of them counts.
\* The code counts those of all VPCs.
RouteTablesPerVpc ==
    Quiet /\ usage.case = "route_tables" => Value = MostOf(DOMAIN before, LAMBDA s : s)

\* The quota is of network load balancers.  The code counts the application
\* load balancers too.
NetworkLoadBalancersOnly ==
    Quiet /\ usage.case = "nlbs" => Value = Cardinality(Fit)
=============================================================================
