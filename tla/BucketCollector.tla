-------------------------- MODULE BucketCollector --------------------------
(***************************************************************************)
(* The collectors of the Vault backup bucket, vault_backup_bucket.go of    *)
(* the four providers.  Each lists the objects of the bucket page by page, *)
(* in the order of their keys from a marker, and sums them up in local     *)
(* variables.  The bucket may change between two pages.  p is the provider *)
(* throughout.  One request at a time.                                     *)
(***************************************************************************)
EXTENDS Integers, FiniteSets, FiniteSetsExt, Folds

CONSTANTS
    Keys,    \* the keys of objects, numbers in their order
    Backups, \* what an object may be: a size and the date of its last change
             \* (for GCP, where an object is never changed, of its creation)
    MaxTouched \* bound: how many keys change while a list is read

ZeroTime == 0
Sizes == {b.size : b \in Backups}
Dates == {b.date : b \in Backups}

ASSUME BucketAssumption ==
    /\ Keys \subseteq Nat \ {0} /\ IsFiniteSet(Keys)
    /\ Sizes \subseteq Nat /\ Dates \subseteq Nat \ {ZeroTime}
    /\ MaxTouched \in Nat

VARIABLES
    objects, \* the bucket
    listing, \* the request in progress
    before,  \* history: the bucket when the request began
    touched  \* history: the keys written or deleted since then

bucketVars == <<objects, listing, before, touched>>

Buckets == UNION {[S -> Backups] : S \in SUBSET Keys}
NoObjects == [k \in {} |-> 0]
NoSum == [count |-> 0, total |-> 0, biggest |-> 0, date |-> ZeroTime, lastSize |-> 0]
IdleListing == [pc |-> "idle", marker |-> 0, sum |-> NoSum]

BucketInit ==
    objects = NoObjects /\ listing = IdleListing /\ before = NoObjects /\ touched = {}

\* Collect begins, on any bucket.
BeginBucket ==
    /\ listing.pc = "idle"
    /\ objects' \in Buckets
    /\ before' = objects' /\ touched' = {}
    /\ listing' = [IdleListing EXCEPT !.pc = "list"]

\* Mutant of Accumulate: the size of the last object is that of the biggest.
AccumulateBiggest(sum, o) ==
    [count |-> sum.count + 1, total |-> sum.total + o.size,
     biggest |-> IF o.size > sum.biggest THEN o.size ELSE sum.biggest,
     date |-> IF o.date > sum.date THEN o.date ELSE sum.date,
     lastSize |-> IF o.size > sum.biggest THEN o.size ELSE sum.lastSize]

\* The body of the loop over the objects of a page; After is strict.
Accumulate(sum, o) ==
    [count |-> sum.count + 1, total |-> sum.total + o.size,
     biggest |-> IF o.size > sum.biggest THEN o.size ELSE sum.biggest,
     date |-> IF o.date > sum.date THEN o.date ELSE sum.date,
     lastSize |-> IF o.date > sum.date THEN o.size ELSE sum.lastSize]

\* The loop: the objects of a page in the order of their keys.
SumUp(sum, page) ==
    MapThenFoldSet(LAMBDA k, s : Accumulate(s, objects[k]), sum,
                   LAMBDA k : k, LAMBDA S : Max(S), page)

\* A page: some of the objects after the marker, in order.  While there are
\* more the answer is truncated and the marker moves on.
ListPage ==
    LET rest == {k \in DOMAIN objects : k > listing.marker} IN
    /\ listing.pc = "list"
    /\ \E page \in SUBSET rest :
         /\ \A k \in page, l \in rest \ page : k < l
         /\ page = {} => rest = {}
         /\ listing' = [pc |-> IF page = rest THEN "emit" ELSE "list",
                        marker |-> IF page = rest THEN 0 ELSE Max(page),
                        sum |-> SumUp(listing.sum, page)]
    /\ UNCHANGED <<objects, before, touched>>

EndListing == listing' = IdleListing /\ before' = NoObjects /\ touched' = {} /\ objects' = NoObjects

\* An error: the response says only that the list is no success.
BucketFails(p) == listing.pc = "list" /\ p # "azure" /\ EndListing

\* In Azure it is log.Fatalf, before the metric.
BucketIsFatal(p) == listing.pc = "list" /\ p = "azure"

\* The response.  Azure's collector exports a time that it never assigns.
EndBucket == listing.pc = "emit" /\ EndListing
ExportedDate(p) == IF p = "azure" THEN ZeroTime ELSE listing.sum.date

\* A backup is written, overwritten or deleted while the list is read.
BucketChanges ==
    /\ listing.pc = "list" /\ Cardinality(touched) < MaxTouched
    /\ \E k \in Keys :
         /\ objects' \in {b \in Buckets : \A x \in Keys \ {k} :
                (x \in DOMAIN objects <=> x \in DOMAIN b) /\ (x \in DOMAIN b => b[x] = objects[x])}
         /\ objects' # objects
         /\ touched' = touched \cup {k}
    /\ UNCHANGED <<listing, before>>

BucketStep(p) ==
    BeginBucket \/ ListPage \/ BucketFails(p) \/ EndBucket \/ BucketChanges

-----------------------------------------------------------------------------
(* Properties *)

Total(b, S) == FoldSet(LAMBDA k, sum : sum + b[k].size, 0, S)

BucketTypeOK ==
    /\ objects \in Buckets /\ before \in Buckets /\ touched \subseteq Keys
    /\ listing.pc \in {"idle", "list", "emit"}
    /\ listing.marker \in Keys \cup {0}
    /\ listing.sum \in [count : 0 .. Cardinality(Keys), total : Nat, biggest : Sizes \cup {0},
                        date : Dates \cup {ZeroTime}, lastSize : Sizes \cup {0}]

\* In a bucket that does not change, the pages add up to the bucket: how many
\* objects, how large, and the size of one that was modified last.
StableBucketIsSummed ==
    listing.pc = "emit" /\ touched = {} =>
        LET sum == listing.sum
            all == DOMAIN before
        IN
        /\ sum.count = Cardinality(all) /\ sum.total = Total(before, all)
        /\ \A k \in all : before[k].size <= sum.biggest /\ before[k].date <= sum.date
        /\ all # {} =>
             /\ \E k \in all : before[k].size = sum.biggest
             /\ \E k \in all : before[k].date = sum.date /\ before[k].size = sum.lastSize

\* While the bucket changes, the objects that nobody touches are counted, each
\* of them once, and no key is counted twice.
UntouchedObjectsAreCounted ==
    listing.pc = "emit" =>
        LET sum == listing.sum
            kept == DOMAIN before \ touched
        IN
        /\ sum.count \in Cardinality(kept) .. Cardinality(kept \cup touched)
        /\ sum.total >= Total(before, kept)
        /\ \A k \in kept : before[k].size <= sum.biggest /\ before[k].date <= sum.date

\* "The last modified date of the object that was modified most recently".
DateOfLastIsExported(p) ==
    listing.pc = "emit" /\ touched = {} =>
        \A k \in DOMAIN before : before[k].date <= ExportedDate(p)
=============================================================================
