--------------------------- MODULE AwsUsageProofs ---------------------------
(***************************************************************************)
(* Proofs about AwsUsage.  What has been counted is described by the       *)
(* account w that the count adds up: w has the items of the pages read so  *)
(* far, each as it was when its page was read.  A sum of sizes is the      *)
(* cardinality of a union of disjoint sets, one unit per GiB, so that the  *)
(* theorems about finite sets apply to it.                                 *)
(***************************************************************************)
EXTENDS AwsUsage, FiniteSetTheorems, WellFoundedInduction, TLAPS

-----------------------------------------------------------------------------
(* Finite sets *)

\* Induction over a finite set: of a class of its subsets one is least.
LEMMA LeastSet ==
  ASSUME NEW S, IsFiniteSet(S), NEW B, B \subseteq SUBSET S, B # {}
  PROVE  \E T \in B : \A U \in B : ~(U \subseteq T /\ U # T)
<1>1. FiniteSubsetsOf(S) = SUBSET S
  BY FS_FiniteSubsetsOfFinite
<1>2. IsWellFoundedOn(StrictSubsetOrdering(S), SUBSET S)
  BY <1>1, FS_StrictSubsetOrderingWellFounded
<1>3. \E T \in B : \A U \in B : ~ (<<U, T>> \in StrictSubsetOrdering(S))
  BY <1>2, WFMin
<1>4. QED
  BY <1>3 DEF StrictSubsetOrdering

LEMMA LeastImage ==
  ASSUME NEW S, IsFiniteSet(S), S # {}, NEW f \in [S -> SUBSET S]
  PROVE  \E x \in S : \A y \in S : ~(f[y] \subseteq f[x] /\ f[y] # f[x])
<1> DEFINE B == {f[x] : x \in S}
<1>1. B \subseteq SUBSET S /\ B # {}
  OBVIOUS
<1>2. \E T \in B : \A U \in B : ~(U \subseteq T /\ U # T)
  <2> HIDE DEF B
  <2>1. QED
    BY <1>1, LeastSet
<1>3. QED
  BY <1>2

\* A finite set of numbers has a maximum.
LEMMA MaxOfFinite ==
  ASSUME NEW S, IsFiniteSet(S), S # {}, \A x \in S : x \in Int
  PROVE  Max(S) \in S /\ \A x \in S : x <= Max(S)
<1> DEFINE above == [x \in S |-> {y \in S : y >= x}]
<1>1. above \in [S -> SUBSET S]
  OBVIOUS
<1>2. ASSUME NEW x \in S, NEW y \in S, y > x
      PROVE  above[y] \subseteq above[x] /\ above[y] # above[x]
  <2>1. x \in Int /\ y \in Int /\ \A z \in S : z \in Int
    OBVIOUS
  <2>2. \A z \in S : z >= y => z >= x
    BY <1>2, <2>1
  <2>3. x >= x /\ ~(x >= y)
    BY <1>2, <2>1
  <2>4. QED
    BY <2>2, <2>3
<1> HIDE DEF above
<1>3. PICK x \in S : \A y \in S : ~(above[y] \subseteq above[x] /\ above[y] # above[x])
  BY <1>1, LeastImage
<1>4. ASSUME NEW y \in S PROVE x >= y
  <2>1. ~(y > x)
    BY <1>2, <1>3
  <2>2. QED
    BY <2>1
<1>5. QED
  BY <1>4 DEF Max

\* A part of a finite set, and its size.
LEMMA PartOf ==
  ASSUME NEW S, IsFiniteSet(S), NEW T, T \subseteq S
  PROVE  /\ IsFiniteSet(T) /\ Cardinality(T) \in Nat /\ Cardinality(S) \in Nat
         /\ Cardinality(T) <= Cardinality(S)
BY FS_Subset, FS_CardinalityType

LEMMA DisjointUnion ==
  ASSUME NEW S, IsFiniteSet(S), NEW T, IsFiniteSet(T), S \cap T = {}
  PROVE  /\ IsFiniteSet(S \cup T)
         /\ Cardinality(S \cup T) = Cardinality(S) + Cardinality(T)
BY FS_Union, FS_EmptySet, FS_CardinalityType

\* A union is at most as large as its parts together.
LEMMA UnionBound ==
  ASSUME NEW S, IsFiniteSet(S), NEW T, IsFiniteSet(T)
  PROVE  /\ IsFiniteSet(S \cup T)
         /\ Cardinality(S \cup T) <= Cardinality(S) + Cardinality(T)
<1>1. IsFiniteSet(S \cap T)
  BY FS_Intersection
<1>2. Cardinality(S) \in Nat /\ Cardinality(T) \in Nat /\ Cardinality(S \cap T) \in Nat
  BY <1>1, FS_CardinalityType
<1>3. /\ IsFiniteSet(S \cup T)
      /\ Cardinality(S \cup T) = Cardinality(S) + Cardinality(T) - Cardinality(S \cap T)
  BY FS_Union
<1>4. QED
  BY <1>2, <1>3

-----------------------------------------------------------------------------
(* Sums of sizes *)

Units(a, S) == UNION {{k} \X (1 .. a[k].size) : k \in S}

LEMMA UnitsOfOne ==
  ASSUME NEW k, NEW n \in Nat
  PROVE  IsFiniteSet({k} \X (1 .. n)) /\ Cardinality({k} \X (1 .. n)) = n
<1>1. IsFiniteSet(1 .. n) /\ Cardinality(1 .. n) = n
  BY FS_Interval
<1>2. IsFiniteSet({k}) /\ Cardinality({k}) = 1
  BY FS_Singleton
<1>3. QED
  BY <1>1, <1>2, FS_Product

LEMMA FiniteUnits ==
  ASSUME NEW S, IsFiniteSet(S), NEW a, \A k \in S : a[k].size \in Nat
  PROVE  IsFiniteSet(Units(a, S)) /\ Cardinality(Units(a, S)) \in Nat
<1> DEFINE UnitsOf(k) == {k} \X (1 .. a[k].size)
           F == {UnitsOf(k) : k \in S}
           f == [k \in S |-> UnitsOf(k)]
<1>1. \A k \in S : IsFiniteSet(UnitsOf(k))
  BY UnitsOfOne
<1>2. f \in Surjection(S, F)
  BY DEF Surjection
<1>3. IsFiniteSet(F)
  BY <1>2, FS_Surjection
<1>4. IsFiniteSet(UNION F)
  <2> HIDE DEF UnitsOf
  <2>1. \A T \in F : IsFiniteSet(T)
    BY <1>1
  <2>2. QED
    BY <1>3, <2>1, FS_UNION
<1>5. QED
  BY <1>4, FS_CardinalityType DEF Units

LEMMA OneMoreUnit ==
  ASSUME NEW S, IsFiniteSet(S), NEW a, \A k \in S : a[k].size \in Nat, NEW e \in S
  PROVE  Cardinality(Units(a, S)) = Cardinality(Units(a, S \ {e})) + a[e].size
<1> DEFINE E == {e} \X (1 .. a[e].size)
<1>1. Units(a, S) = Units(a, S \ {e}) \cup E /\ Units(a, S \ {e}) \cap E = {}
  BY DEF Units
<1>2. IsFiniteSet(Units(a, S \ {e})) /\ Cardinality(Units(a, S \ {e})) \in Nat
  BY FiniteUnits, FS_RemoveElement
<1>3. IsFiniteSet(E) /\ Cardinality(E) = a[e].size
  BY UnitsOfOne
<1> HIDE DEF E
<1>4. QED
  BY <1>1, <1>2, <1>3, DisjointUnion

\* The fold of volumes: it is the number of units for every subset, as a least
\* one for which it is not would have an element that the fold takes out.
LEMMA VolumesAreUnits ==
  ASSUME NEW S, IsFiniteSet(S), NEW a, \A k \in S : a[k].size \in Nat
  PROVE  Volumes(a, S) = Cardinality(Units(a, S))
<1> DEFINE Step(f) == [s \in SUBSET S |-> IF s = {} THEN 0
                        ELSE f[s \ {CHOOSE x \in s : TRUE}] + a[CHOOSE x \in s : TRUE].size]
           g == [s \in SUBSET S |-> Cardinality(Units(a, s))]
           iter == CHOOSE f : f = Step(f)
<1>1. Volumes(a, S) = iter[S]
  BY DEF Volumes, FoldSet, MapThenFoldSet
<1>2. Cardinality(Units(a, {})) = 0
  BY FS_EmptySet DEF Units
<1>3. ASSUME NEW s \in SUBSET S, s # {}
      PROVE  g[s] = g[s \ {CHOOSE x \in s : TRUE}] + a[CHOOSE x \in s : TRUE].size
  <2>1. IsFiniteSet(s)
    BY FS_Subset
  <2>2. (CHOOSE x \in s : TRUE) \in s
    <3>1. \E x \in s : TRUE
      BY <1>3
    <3>2. QED
      BY <3>1, Zenon
  <2> DEFINE e == CHOOSE x \in s : TRUE
  <2>3. Cardinality(Units(a, s)) = Cardinality(Units(a, s \ {e})) + a[e].size
    <3> HIDE DEF e
    <3>1. QED
      BY <2>1, <2>2, OneMoreUnit DEF e
  <2>4. QED
    BY <2>3
<1>4. g = Step(g)
  BY <1>2, <1>3
<1>5. iter = Step(iter)
  <2> HIDE DEF g, Step
  <2>1. QED
    BY <1>4
<1> HIDE DEF iter, g
<1> DEFINE B == {s \in SUBSET S : iter[s] # g[s]}
<1>6. B = {}
  <2> SUFFICES ASSUME B # {} PROVE FALSE
    OBVIOUS
  <2>1. PICK s \in B : \A u \in B : ~(u \subseteq s /\ u # s)
    <3>1. B \subseteq SUBSET S
      OBVIOUS
    <3> HIDE DEF B
    <3>2. QED
      BY <3>1, LeastSet
  <2>2. s # {}
    BY <1>4, <1>5
  <2> DEFINE e == CHOOSE x \in s : TRUE
  <2>3. e \in s
    BY <2>2
  <2>4. iter[s \ {e}] = g[s \ {e}]
    BY <2>1, <2>3
  <2>5. QED
    BY <2>2, <2>4, <1>4, <1>5
<1>7. QED
  BY <1>1, <1>6 DEF g

LEMMA VolumesType ==
  ASSUME NEW S, IsFiniteSet(S), NEW a, \A k \in S : a[k].size \in Nat
  PROVE  Volumes(a, S) \in Nat
BY VolumesAreUnits, FiniteUnits

LEMMA VolumesAdd ==
  ASSUME NEW S, IsFiniteSet(S), NEW T, IsFiniteSet(T), S \cap T = {},
         NEW a, \A k \in S \cup T : a[k].size \in Nat
  PROVE  Volumes(a, S \cup T) = Volumes(a, S) + Volumes(a, T)
<1>1. Units(a, S \cup T) = Units(a, S) \cup Units(a, T) /\ Units(a, S) \cap Units(a, T) = {}
  BY DEF Units
<1>2. IsFiniteSet(S \cup T)
  BY FS_Union
<1>3. IsFiniteSet(Units(a, S)) /\ IsFiniteSet(Units(a, T))
  BY FiniteUnits
<1>4. Cardinality(Units(a, S \cup T)) = Cardinality(Units(a, S)) + Cardinality(Units(a, T))
  BY <1>1, <1>3, DisjointUnion
<1>5. QED
  BY <1>2, <1>4, VolumesAreUnits

\* Only the sizes of the items matter.
LEMMA VolumesAgree ==
  ASSUME NEW S, IsFiniteSet(S), NEW a, NEW b, \A k \in S : a[k].size \in Nat /\ a[k].size = b[k].size
  PROVE  Volumes(a, S) = Volumes(b, S)
<1>1. Units(a, S) = Units(b, S)
  BY DEF Units
<1>2. QED
  BY <1>1, VolumesAreUnits

\* A sum over S and a part T of it: what is not in T adds at most m for each.
LEMMA VolumesBounds ==
  ASSUME NEW S, IsFiniteSet(S), NEW T, T \subseteq S, NEW m \in Nat,
         NEW a, \A k \in S : a[k].size \in Nat, \A k \in S \ T : a[k].size <= m
  PROVE  /\ Volumes(a, T) <= Volumes(a, S)
         /\ Volumes(a, S) <= Volumes(a, T) + Cardinality(S \ T) * m
<1> DEFINE R == S \ T
<1>1. IsFiniteSet(T) /\ IsFiniteSet(R)
  BY PartOf
<1>2. Volumes(a, S) = Volumes(a, T) + Volumes(a, R)
  <2>1. S = T \cup R /\ T \cap R = {}
    OBVIOUS
  <2> HIDE DEF R
  <2>2. QED
    BY <1>1, <2>1, VolumesAdd
<1>3. Volumes(a, T) \in Nat /\ Volumes(a, R) \in Nat
  BY <1>1, VolumesType
<1>4. Units(a, R) \subseteq R \X (1 .. m)
  BY DEF Units
<1>5. IsFiniteSet(R \X (1 .. m)) /\ Cardinality(R \X (1 .. m)) = Cardinality(R) * m
  <2>1. IsFiniteSet(1 .. m) /\ Cardinality(1 .. m) = m
    BY FS_Interval
  <2> HIDE DEF R
  <2>2. QED
    BY <1>1, <2>1, FS_Product
<1>6. Cardinality(Units(a, R)) <= Cardinality(R) * m
  BY <1>4, <1>5, PartOf
<1>7. Volumes(a, R) <= Cardinality(R) * m
  BY <1>1, <1>6, VolumesAreUnits
<1>8. Cardinality(R) * m \in Nat
  BY <1>1, FS_CardinalityType
<1>9. QED
  BY <1>2, <1>3, <1>7, <1>8

-----------------------------------------------------------------------------
(* The invariant *)

LEMMA AccountParts ==
  ASSUME NEW a \in Accounts
  PROVE  /\ DOMAIN a \subseteq Keys /\ IsFiniteSet(DOMAIN a) /\ a = [k \in DOMAIN a |-> a[k]]
         /\ \A k \in DOMAIN a : /\ a[k] \in Items /\ a[k].at \in Subnets
                                /\ a[k].size \in Sizes /\ a[k].size \in Nat
<1>1. PICK S \in SUBSET Keys : a \in [S -> Items]
  BY DEF Accounts
<1>2. QED
  BY <1>1, PartOf, UsageAssumption DEF Items

LEMMA IsAccount ==
  ASSUME NEW S, S \subseteq Keys, NEW a \in [S -> Items]
  PROVE  a \in Accounts
BY DEF Accounts

LEMMA NoItemsAccount == NoItems \in Accounts /\ DOMAIN NoItems = {}
<1>1. NoItems \in [{} -> Items] /\ {} \subseteq Keys
  BY DEF NoItems
<1>2. QED
  BY <1>1, IsAccount

Fits(c, x) == c \in {"volumes", "hosts", "gateways"} => x.fits

\* What the cases that count whole lists make of an account w.
WholeCases == Cases \ {"instances", "gateways"}
Amount(c, w) == IF c = "volumes" THEN Volumes(w, DOMAIN w) ELSE Cardinality(DOMAIN w)

\* The count is that of w: no key is in it twice, what nobody touched is as it was
\* before, and is there once the marker has passed it.
CountedAs(w) ==
    /\ \A k \in DOMAIN w :
         k \in touched \/ (k \in DOMAIN before /\ w[k] = before[k] /\ Fits(usage.case, w[k]))
    /\ \A k \in DOMAIN w : usage.pc = "list" => k <= usage.marker
    /\ \A k \in DOMAIN before \ touched :
         Fits(usage.case, before[k]) /\ (usage.pc = "cache" \/ k <= usage.marker) => k \in DOMAIN w
    /\ usage.count = Amount(usage.case, w)

CountInv ==
    usage.pc \in {"list", "cache"} /\ usage.case \in WholeCases => \E w \in Accounts : CountedAs(w)

\* What nobody touched is as it was before.
UntouchedInv ==
    \A k \in Keys \ touched :
        (k \in DOMAIN items <=> k \in DOMAIN before) /\ (k \in DOMAIN items => items[k] = before[k])

Untouched == DOMAIN before \ touched

SubnetInv ==
    /\ usage.pc \in {"subnets", "nosubnets"} => usage.case = "gateways"
    /\ usage.pc = "list" /\ usage.case = "gateways" =>
         \A k \in Untouched : before[k].at \in usage.subnets

\* A case of one call has counted nothing before it.
SingleInv ==
    usage.pc \in {"subnets", "nosubnets", "list"} /\ usage.case \in Single => usage.marker = 0 /\ usage.count = 0

\* The largest zone of the gateways that nobody touched.
Zone(a, S, z) == {k \in S : ZoneOf[a[k].at] = z}
LargestZone(a, S) == Max({0} \cup {Cardinality(Zone(a, S, ZoneOf[a[l].at])) : l \in S})

GatewayInv ==
    LET most == LargestZone(before, Untouched \cap Fit) IN
    usage.pc = "cache" /\ usage.case = "gateways" =>
        usage.count \in most - 1 .. most - 1 + Cardinality(touched) + (IF most = 0 THEN 1 ELSE 0)

UsageStates == [pc : {"idle", "subnets", "nosubnets", "list", "cache"}, case : Cases,
                marker : Keys \cup {0}, count : Nat, subnets : SUBSET Subnets]

UsageInv ==
    /\ TypeOK /\ usage \in UsageStates
    /\ UntouchedInv /\ SubnetInv /\ SingleInv /\ CountInv /\ GatewayInv

-----------------------------------------------------------------------------
(* The steps *)

LEMMA FreshUsage ==
  ASSUME items = NoItems, before = NoItems, touched = {}, usage = IdleUsage
  PROVE  UsageInv
<1>1. NoItems \in Accounts /\ DOMAIN NoItems = {}
  BY NoItemsAccount
<1>2. usage \in UsageStates
  BY UsageAssumption DEF IdleUsage, UsageStates, Cases, Paged
<1>3. TypeOK
  BY <1>1, <1>2 DEF TypeOK, UsageStates
<1>4. usage.pc = "idle"
  BY DEF IdleUsage
<1>5. UntouchedInv /\ SubnetInv /\ SingleInv /\ CountInv /\ GatewayInv
  BY <1>1, <1>4 DEF UntouchedInv, SubnetInv, SingleInv, CountInv, GatewayInv
<1>6. QED
  BY <1>2, <1>3, <1>5 DEF UsageInv

LEMMA EndUsage ==
  ASSUME EndCase PROVE UsageInv'
<1>1. (items = NoItems /\ before = NoItems /\ touched = {} /\ usage = IdleUsage)'
  BY DEF EndCase
<1>2. QED
  BY <1>1, FreshUsage, PTL

LEMMA BeginUsage ==
  ASSUME UsageInv, Begin PROVE UsageInv'
<1>1. PICK c \in Cases :
        usage' = [IdleUsage EXCEPT !.pc = IF c = "gateways" THEN "subnets" ELSE "list", !.case = c]
  BY DEF Begin
<1>2. /\ usage'.pc = (IF c = "gateways" THEN "subnets" ELSE "list") /\ usage'.case = c
      /\ usage'.marker = 0 /\ usage'.count = 0 /\ usage'.subnets = {}
  BY <1>1 DEF IdleUsage
<1>3. usage' \in UsageStates
  BY <1>1, <1>2 DEF IdleUsage, UsageStates
<1>4. items' \in Accounts /\ before' = items' /\ touched' = {}
  BY DEF Begin
<1>5. TypeOK'
  BY <1>3, <1>4 DEF TypeOK, UsageStates
<1>6. UntouchedInv' /\ SubnetInv' /\ SingleInv' /\ GatewayInv'
  BY <1>2, <1>4 DEF UntouchedInv, SubnetInv, SingleInv, GatewayInv
<1>7. CountInv'
  <2>1. Volumes(NoItems, {}) = 0 /\ Cardinality({}) = 0
    BY FS_EmptySet, VolumesAreUnits DEF Units
  <2>2. Amount(c, NoItems) = 0
    BY <2>1, NoItemsAccount DEF Amount
  <2>3. \A k \in DOMAIN before' : ~(k <= 0)
    BY <1>4, AccountParts, UsageAssumption
  <2>4. usage.pc' = "list" => CountedAs(NoItems)'
    BY <1>2, <2>2, <2>3, NoItemsAccount DEF CountedAs
  <2>5. QED
    BY <1>2, <2>4, NoItemsAccount DEF CountInv
<1>8. QED
  BY <1>3, <1>5, <1>6, <1>7 DEF UsageInv

LEMMA SubnetsUsage ==
  ASSUME UsageInv, ListSubnets PROVE UsageInv'
<1>1. PICK S \in SUBSET Subnets :
        /\ {items[k].at : k \in DOMAIN items} \subseteq S
        /\ usage' = [usage EXCEPT !.pc = "list", !.subnets = S]
  BY DEF ListSubnets
<1>2. usage.pc = "subnets" /\ UNCHANGED <<items, before, touched>> /\ usage \in UsageStates /\ TypeOK
  BY DEF ListSubnets, UsageInv
<1>3. usage.case = "gateways"
  BY <1>2 DEF UsageInv, SubnetInv
<1>4. /\ usage' \in UsageStates /\ usage'.pc = "list" /\ usage'.case = "gateways"
      /\ usage'.subnets = S /\ usage'.marker = usage.marker /\ usage'.count = usage.count
  BY <1>1, <1>2, <1>3 DEF UsageStates
<1>5. TypeOK'
  BY <1>2, <1>4 DEF TypeOK, UsageStates
<1>6. \A k \in Untouched : before[k].at \in S
  BY <1>1, <1>2, AccountParts DEF Untouched, UntouchedInv, UsageInv, TypeOK
<1>7. SubnetInv' /\ SingleInv'
  BY <1>2, <1>3, <1>4, <1>6 DEF SubnetInv, SingleInv, Untouched, UsageInv
<1>8. UntouchedInv'
  BY <1>2 DEF UntouchedInv, UsageInv
<1>9. CountInv' /\ GatewayInv'
  BY <1>4 DEF CountInv, GatewayInv, WholeCases
<1>10. QED
  BY <1>4, <1>5, <1>7, <1>8, <1>9 DEF UsageInv

LEMMA SubnetsFailUsage ==
  ASSUME UsageInv, SubnetsFail PROVE UsageInv'
<1>1. /\ usage.pc = "subnets" /\ usage \in UsageStates /\ TypeOK
      /\ UNCHANGED <<items, before, touched>> /\ usage' = [usage EXCEPT !.pc = "nosubnets"]
  BY DEF SubnetsFail, UsageInv
<1>2. /\ usage' \in UsageStates /\ usage'.pc = "nosubnets" /\ usage'.case = usage.case
      /\ usage'.marker = usage.marker /\ usage'.count = usage.count
  BY <1>1 DEF UsageStates
<1>3. TypeOK'
  BY <1>1, <1>2 DEF TypeOK, UsageStates
<1>4. UntouchedInv' /\ SubnetInv' /\ SingleInv' /\ CountInv' /\ GatewayInv'
  BY <1>1, <1>2 DEF UsageInv, UntouchedInv, SubnetInv, SingleInv, CountInv, GatewayInv
<1>5. QED
  BY <1>2, <1>3, <1>4 DEF UsageInv

LEMMA ChangeUsage ==
  ASSUME UsageInv, AccountChanges PROVE UsageInv'
<1>1. PICK k \in Keys :
        /\ items' \in {a \in Accounts : \A x \in Keys \ {k} :
                (x \in DOMAIN items <=> x \in DOMAIN a) /\ (x \in DOMAIN a => a[x] = items[x])}
        /\ touched' = touched \cup {k}
  BY DEF AccountChanges
<1>2. UNCHANGED <<usage, before>> /\ usage.pc \in {"subnets", "nosubnets", "list"}
  BY DEF AccountChanges
<1>3. usage' \in UsageStates /\ TypeOK'
  BY <1>1, <1>2 DEF UsageInv, TypeOK
<1>4. UntouchedInv'
  BY <1>1, <1>2 DEF UsageInv, UntouchedInv
<1>5. SubnetInv' /\ SingleInv'
  BY <1>1, <1>2 DEF UsageInv, SubnetInv, SingleInv, Untouched
<1>6. GatewayInv'
  BY <1>2 DEF GatewayInv
<1>7. CountInv'
  <2> SUFFICES ASSUME usage.pc = "list", usage.case \in WholeCases
               PROVE  \E w \in Accounts : CountedAs(w)'
    BY <1>2 DEF CountInv
  <2>1. PICK w \in Accounts : CountedAs(w)
    BY DEF UsageInv, CountInv
  <2>2. CountedAs(w)'
    BY <1>1, <1>2, <2>1 DEF CountedAs
  <2>3. QED
    BY <2>2
<1>8. QED
  BY <1>3, <1>4, <1>5, <1>6, <1>7 DEF UsageInv

-----------------------------------------------------------------------------
\* What the count of a case that counts whole lists adds.
LEMMA WholeCount ==
  ASSUME NEW c \in WholeCases, NEW S
  PROVE  Counted(c, S) = IF c = "volumes" THEN Volumes(items, S) ELSE Cardinality(S)
BY DEF Counted, WholeCases

LEMMA ListedFits ==
  ASSUME NEW c, NEW k
  PROVE  k \in Listed(c) <=> k \in DOMAIN items /\ Fits(c, items[k])
BY DEF Listed, Fits

\* The count of w and of a page after it.
Joined(w, page) == [k \in DOMAIN w \cup page |-> IF k \in page THEN items[k] ELSE w[k]]

LEMMA JoinedCounts ==
  ASSUME UsageInv, NEW c \in WholeCases, NEW w \in Accounts, NEW page, page \subseteq DOMAIN items,
         DOMAIN w \cap page = {}
  PROVE  /\ Joined(w, page) \in Accounts /\ DOMAIN Joined(w, page) = DOMAIN w \cup page
         /\ Amount(c, Joined(w, page)) = Amount(c, w) + Counted(c, page)
         /\ Counted(c, page) \in Nat
<1> DEFINE v == Joined(w, page)
<1>1. items \in Accounts
  BY DEF UsageInv, TypeOK
<1>2. /\ IsFiniteSet(DOMAIN w) /\ IsFiniteSet(page) /\ DOMAIN w \subseteq Keys /\ page \subseteq Keys
      /\ \A k \in DOMAIN w : w[k].size \in Nat /\ w[k] \in Items
      /\ \A k \in page : items[k].size \in Nat /\ items[k] \in Items
  BY <1>1, AccountParts, PartOf
<1>3. /\ v \in [DOMAIN w \cup page -> Items] /\ DOMAIN v = DOMAIN w \cup page
      /\ \A k \in DOMAIN w : v[k] = w[k]
      /\ \A k \in page : v[k] = items[k]
  BY <1>2 DEF Joined
<1>4. v \in Accounts
  BY <1>2, <1>3, IsAccount
<1>5. /\ Cardinality(DOMAIN w \cup page) = Cardinality(DOMAIN w) + Cardinality(page)
      /\ Cardinality(page) \in Nat
  BY <1>2, DisjointUnion, FS_CardinalityType
<1>6. /\ Volumes(v, DOMAIN w \cup page) = Volumes(w, DOMAIN w) + Volumes(items, page)
      /\ Volumes(items, page) \in Nat
  <2> HIDE DEF v
  <2>1. /\ \A k \in DOMAIN w : v[k].size \in Nat /\ v[k].size = w[k].size
        /\ \A k \in page : v[k].size \in Nat /\ v[k].size = items[k].size
    BY <1>2, <1>3
  <2>2. Volumes(v, DOMAIN w \cup page) = Volumes(v, DOMAIN w) + Volumes(v, page)
    BY <1>2, <2>1, VolumesAdd
  <2>3. Volumes(v, DOMAIN w) = Volumes(w, DOMAIN w) /\ Volumes(v, page) = Volumes(items, page)
    BY <1>2, <2>1, VolumesAgree
  <2>4. Volumes(items, page) \in Nat
    BY <1>2, VolumesType
  <2>5. QED
    BY <2>2, <2>3, <2>4
<1> HIDE DEF v
<1>7. Amount(c, v) = Amount(c, w) + Counted(c, page) /\ Counted(c, page) \in Nat
  BY <1>3, <1>5, <1>6, WholeCount DEF Amount
<1>8. QED
  BY <1>3, <1>4, <1>7 DEF v

\* A step of the goroutine after which w and a page are counted.
LEMMA PageCounted ==
  ASSUME UsageInv, NEW w \in Accounts, CountedAs(w), NEW page \in SUBSET Listed(usage.case),
         usage.case \in WholeCases, usage.pc = "list", \A k \in page : k > usage.marker,
         UNCHANGED <<items, before, touched>>,
         usage'.case = usage.case, usage'.count = usage.count + Counted(usage.case, page),
         usage'.marker \in Int,
         usage'.pc = "list" => \A k \in page : k <= usage'.marker,
         usage'.pc = "list" => usage.marker <= usage'.marker,
         \A k \in Listed(usage.case) \ page :
            k > usage.marker => usage'.pc = "list" /\ ~(k <= usage'.marker)
  PROVE  \E v \in Accounts : CountedAs(v)'
<1> DEFINE c == usage.case
<1>1. /\ items \in Accounts /\ before \in Accounts /\ UntouchedInv /\ usage \in UsageStates
      /\ usage.marker \in Int
  <2>1. usage.marker \in Keys \cup {0} /\ \A k \in Keys : k \in Int
    BY UsageAssumption DEF UsageInv, UsageStates
  <2>2. QED
    BY <2>1 DEF UsageInv, TypeOK
<1>2. /\ page \subseteq DOMAIN items /\ \A k \in page : Fits(c, items[k])
      /\ page \subseteq Keys /\ DOMAIN w \subseteq Keys /\ DOMAIN before \subseteq Keys
      /\ \A k \in Keys : k \in Int
  BY <1>1, ListedFits, AccountParts, UsageAssumption
<1>3. \A k \in DOMAIN w : k <= usage.marker
  BY DEF CountedAs
<1>4. DOMAIN w \cap page = {}
  BY <1>1, <1>2, <1>3
<1>5. PICK v \in Accounts : v = Joined(w, page)
  BY <1>2, <1>4, JoinedCounts
<1>6. /\ DOMAIN v = DOMAIN w \cup page
      /\ Amount(c, v) = Amount(c, w) + Counted(c, page)
      /\ \A k \in DOMAIN w : v[k] = w[k]
      /\ \A k \in page : v[k] = items[k]
  BY <1>2, <1>4, <1>5, JoinedCounts DEF Joined
<1>7. \A k \in DOMAIN v : k \in touched \/ (k \in DOMAIN before /\ v[k] = before[k] /\ Fits(c, v[k]))
  <2>1. \A k \in page \ touched : k \in DOMAIN before /\ items[k] = before[k]
    BY <1>1, <1>2 DEF UntouchedInv
  <2>2. QED
    BY <1>2, <1>6, <2>1 DEF CountedAs
<1>8. usage'.pc = "list" => \A k \in DOMAIN v : k <= usage'.marker
  <2> SUFFICES ASSUME usage'.pc = "list", NEW k \in DOMAIN w PROVE k <= usage'.marker
    BY <1>6
  <2>1. k <= usage.marker /\ usage.marker <= usage'.marker
    BY <1>3
  <2>2. QED
    BY <1>1, <1>2, <2>1
<1>9. ASSUME NEW k \in DOMAIN before \ touched, Fits(c, before[k]),
             usage'.pc = "cache" \/ k <= usage'.marker
      PROVE  k \in DOMAIN v
  <2>1. k \in Listed(c)
    BY <1>1, <1>2, <1>9, ListedFits DEF UntouchedInv
  <2>2. CASE k <= usage.marker
    BY <1>6, <1>9, <2>2 DEF CountedAs
  <2>3. CASE k > usage.marker
    BY <1>6, <1>9, <2>1, <2>3
  <2>4. QED
    BY <1>1, <1>2, <2>2, <2>3
<1>10. usage'.count = Amount(c, v)
  BY <1>6 DEF CountedAs
<1>11. CountedAs(v)'
  BY <1>7, <1>8, <1>9, <1>10 DEF CountedAs
<1>12. QED
  BY <1>11

LEMMA PageUsage ==
  ASSUME UsageInv, ListPage PROVE UsageInv'
<1> DEFINE c == usage.case
           rest == {k \in Listed(c) : k > usage.marker}
<1>1. /\ usage.pc = "list" /\ c \in Paged /\ UNCHANGED <<items, before, touched>>
      /\ usage \in UsageStates /\ TypeOK
  BY DEF ListPage, UsageInv
<1>2. PICK page \in SUBSET rest :
        /\ \A k \in page, l \in rest \ page : k < l
        /\ page = {} => rest = {}
        /\ usage' = [usage EXCEPT
              !.pc = IF page = rest THEN "cache" ELSE "list",
              !.marker = IF page = rest THEN @ ELSE Max(page),
              !.count = @ + Counted(c, page)]
  BY DEF ListPage
<1>3. /\ page \subseteq DOMAIN items /\ DOMAIN items \subseteq Keys /\ page \subseteq Listed(c)
      /\ IsFiniteSet(page) /\ c \in WholeCases /\ \A k \in Keys : k \in Int
  BY <1>1, <1>2, ListedFits, AccountParts, PartOf, UsageAssumption
  DEF TypeOK, Paged, Single, WholeCases, Cases
<1>4. Counted(c, page) \in Nat
  <2>1. NoItems \in Accounts /\ DOMAIN NoItems \cap page = {}
    BY NoItemsAccount
  <2> HIDE DEF rest
  <2>2. QED
    BY <1>3, <2>1, JoinedCounts
<1>5. page # rest => Max(page) \in page /\ \A k \in page : k <= Max(page)
  BY <1>2, <1>3, MaxOfFinite
<1>6. usage.marker \in Int /\ usage.marker \in Keys \cup {0}
  BY <1>1, <1>3 DEF UsageStates
<1>7. /\ usage'.pc = (IF page = rest THEN "cache" ELSE "list") /\ usage'.case = c
      /\ usage'.marker = (IF page = rest THEN usage.marker ELSE Max(page))
      /\ usage'.count = usage.count + Counted(c, page)
  BY <1>1, <1>2 DEF UsageStates
<1>8. usage' \in UsageStates
  <2>1. /\ usage'.marker \in Keys \cup {0}
        /\ usage'.count \in Nat
    BY <1>1, <1>3, <1>4, <1>5, <1>6, <1>7 DEF UsageStates
  <2>2. QED
    BY <1>1, <1>2, <1>7, <2>1 DEF UsageStates
<1>9. TypeOK'
  BY <1>1, <1>8 DEF TypeOK, UsageStates
<1>10. /\ UntouchedInv' /\ SubnetInv' /\ SingleInv' /\ GatewayInv'
  BY <1>1, <1>7 DEF UsageInv, UntouchedInv, SubnetInv, SingleInv, GatewayInv, Paged, Single
<1>11. CountInv'
  <2>1. PICK w \in Accounts : CountedAs(w)
    BY <1>1, <1>3 DEF UsageInv, CountInv
  <2>2. usage'.marker \in Int
    BY <1>3, <1>5, <1>6, <1>7
  <2>3. \A k \in page : k > usage.marker
    BY <1>2
  <2>4. usage'.pc = "list" => (\A k \in page : k <= usage'.marker) /\ usage.marker <= usage'.marker
    BY <1>3, <1>5, <1>6, <1>7, <2>3
  <2>5. ASSUME NEW k \in Listed(c) \ page, k > usage.marker
        PROVE  usage'.pc = "list" /\ ~(k <= usage'.marker)
    <3>1. k \in rest \ page /\ page # rest /\ k \in Keys
      BY <1>3, <2>5, ListedFits
    <3>2. Max(page) < k /\ usage'.marker = Max(page)
      BY <1>2, <1>5, <1>7, <3>1
    <3>3. QED
      BY <1>3, <1>5, <1>7, <3>1, <3>2
  <2> HIDE DEF rest
  <2>6. \E v \in Accounts : CountedAs(v)'
    BY <1>1, <1>3, <1>7, <2>1, <2>2, <2>3, <2>4, <2>5, PageCounted
  <2>7. QED
    BY <2>6 DEF CountInv
<1>12. QED
  BY <1>8, <1>9, <1>10, <1>11 DEF UsageInv

-----------------------------------------------------------------------------
(* The gateways *)

\* Those that the answer has: what nobody touched is among them, as it was.
Gateways == {k \in Listed("gateways") : items[k].at \in usage.subnets}

LEMMA FiniteZones ==
  ASSUME NEW a, NEW S, IsFiniteSet(S)
  PROVE  LET sizes == {0} \cup {Cardinality(Zone(a, S, ZoneOf[a[l].at])) : l \in S}
         IN  IsFiniteSet(sizes) /\ sizes # {} /\ \A n \in sizes : n \in Nat
<1> DEFINE size(l) == Cardinality(Zone(a, S, ZoneOf[a[l].at]))
           T == {size(l) : l \in S}
           f == [l \in S |-> size(l)]
<1>1. \A l \in S : size(l) \in Nat
  <2>1. \A z : Zone(a, S, z) \subseteq S
    BY DEF Zone
  <2>2. QED
    BY <2>1, PartOf
<1> HIDE DEF size
<1>2. f \in Surjection(S, T)
  BY DEF Surjection
<1>3. IsFiniteSet(T)
  BY <1>2, FS_Surjection
<1>4. IsFiniteSet({0} \cup T)
  BY <1>3, FS_Singleton, FS_Union
<1>5. QED
  BY <1>1, <1>4 DEF size

\* The largest zone is 0 or that of a gateway, and none is larger.
LEMMA LargestZoneIs ==
  ASSUME NEW a, NEW S, IsFiniteSet(S)
  PROVE  /\ LargestZone(a, S) \in Nat
         /\ LargestZone(a, S) = 0 \/ \E l \in S : LargestZone(a, S) = Cardinality(Zone(a, S, ZoneOf[a[l].at]))
         /\ \A l \in S : Cardinality(Zone(a, S, ZoneOf[a[l].at])) <= LargestZone(a, S)
<1> DEFINE sizes == {0} \cup {Cardinality(Zone(a, S, ZoneOf[a[l].at])) : l \in S}
<1>1. IsFiniteSet(sizes) /\ sizes # {} /\ \A n \in sizes : n \in Nat
  BY FiniteZones
<1>2. LargestZone(a, S) = Max(sizes)
  BY DEF LargestZone
<1>3. Max(sizes) \in sizes /\ \A n \in sizes : n <= Max(sizes)
  <2> HIDE DEF sizes
  <2>1. QED
    BY <1>1, MaxOfFinite
<1>4. QED
  BY <1>1, <1>2, <1>3

\* What the code makes of the zones: each is one short.
LEMMA GatewaysCounted ==
  ASSUME IsFiniteSet(Gateways)
  PROVE  LET n == Counted("gateways", Listed("gateways")) IN
         /\ n \in Nat
         /\ n = 0 \/ \E l \in Gateways : n = Cardinality(Zone(items, Gateways, ZoneOf[items[l].at])) - 1
         /\ \A l \in Gateways : Cardinality(Zone(items, Gateways, ZoneOf[items[l].at])) - 1 <= n
<1> DEFINE G == Gateways
           size(l) == Cardinality(Zone(items, G, ZoneOf[items[l].at]))
           T == {size(l) - 1 : l \in G}
           f == [l \in G |-> size(l) - 1]
<1>1. \A l \in G : size(l) \in Nat /\ size(l) > 0
  <2> SUFFICES ASSUME NEW l \in G PROVE size(l) \in Nat /\ size(l) > 0
    OBVIOUS
  <2> DEFINE Z == Zone(items, G, ZoneOf[items[l].at])
  <2>1. Z \subseteq G /\ l \in Z
    BY DEF Zone
  <2>2. IsFiniteSet(Z) /\ Cardinality(Z) \in Nat /\ (Cardinality(Z) = 0 <=> Z = {})
    BY <2>1, PartOf, FS_EmptySet
  <2>3. QED
    BY <2>1, <2>2
<1>2. Counted("gateways", Listed("gateways")) = Max({0} \cup T)
  <2>1. PerZone(G) = [z \in {ZoneOf[items[k].at] : k \in G} |-> Cardinality(Zone(items, G, z)) - 1]
    BY DEF PerZone, Zone
  <2>2. {PerZone(G)[z] : z \in DOMAIN PerZone(G)} = T
    BY <2>1
  <2>3. QED
    BY <2>2 DEF Counted, Gateways
<1> HIDE DEF size
<1>3. f \in Surjection(G, T)
  BY DEF Surjection
<1> DEFINE U == {0} \cup T
<1>4. IsFiniteSet(U)
  BY <1>3, FS_Surjection, FS_Singleton, FS_Union
<1>5. U # {} /\ \A n \in U : n \in Nat
  BY <1>1
<1>6. Max(U) \in U /\ \A n \in U : n <= Max(U)
  <2> HIDE DEF U
  <2>1. QED
    BY <1>4, <1>5, MaxOfFinite
<1>7. QED
  BY <1>2, <1>5, <1>6 DEF size

\* Of two sets of gateways, the sizes of the largest zones differ by at most the
\* gateways that only one has, and by the one that the code forgets per zone.
LEMMA GatewaysInBounds ==
  ASSUME UsageInv, usage.pc = "list", usage.case = "gateways"
  PROVE  LET most == LargestZone(before, Untouched \cap Fit)
             n == Counted("gateways", Listed("gateways"))
         IN  /\ n \in Nat
             /\ n \in most - 1 .. most - 1 + Cardinality(touched) + (IF most = 0 THEN 1 ELSE 0)
<1> DEFINE G == Gateways
           K == Untouched \cap Fit
           most == LargestZone(before, K)
           n == Counted("gateways", Listed("gateways"))
<1>1. /\ items \in Accounts /\ before \in Accounts /\ touched \subseteq Keys
      /\ UntouchedInv /\ SubnetInv
  BY DEF UsageInv, TypeOK
<1>2. /\ G \subseteq DOMAIN items /\ \A k \in G : items[k].fits
  BY ListedFits DEF Gateways, Fits
<1>3. IsFiniteSet(G) /\ IsFiniteSet(K) /\ IsFiniteSet(touched) /\ Cardinality(touched) \in Nat
  BY <1>1, <1>2, AccountParts, PartOf, UsageAssumption DEF Untouched
<1>4. K \subseteq G /\ \A k \in K : items[k] = before[k]
  BY <1>1, AccountParts, ListedFits DEF Untouched, UntouchedInv, SubnetInv, Gateways, Fits, Fit
<1>5. G \subseteq K \cup touched
  BY <1>1, <1>2, AccountParts DEF Untouched, UntouchedInv, Fit
<1>6. /\ most \in Nat
      /\ most = 0 \/ \E l \in K : most = Cardinality(Zone(before, K, ZoneOf[before[l].at]))
      /\ \A l \in K : Cardinality(Zone(before, K, ZoneOf[before[l].at])) <= most
  <2> HIDE DEF K
  <2>1. QED
    BY <1>3, LargestZoneIs
<1>7. /\ n \in Nat
      /\ n = 0 \/ \E l \in G : n = Cardinality(Zone(items, G, ZoneOf[items[l].at])) - 1
      /\ \A l \in G : Cardinality(Zone(items, G, ZoneOf[items[l].at])) - 1 <= n
  BY <1>3, GatewaysCounted
<1> HIDE DEF G, K, most, n
<1>8. \A z : /\ IsFiniteSet(Zone(items, G, z)) /\ IsFiniteSet(Zone(before, K, z))
             /\ Cardinality(Zone(items, G, z)) \in Nat /\ Cardinality(Zone(before, K, z)) \in Nat
             /\ Cardinality(Zone(before, K, z)) <= Cardinality(Zone(items, G, z))
  <2> SUFFICES ASSUME NEW z
               PROVE  /\ IsFiniteSet(Zone(items, G, z)) /\ IsFiniteSet(Zone(before, K, z))
                      /\ Cardinality(Zone(items, G, z)) \in Nat /\ Cardinality(Zone(before, K, z)) \in Nat
                      /\ Cardinality(Zone(before, K, z)) <= Cardinality(Zone(items, G, z))
    OBVIOUS
  <2>1. Zone(before, K, z) \subseteq Zone(items, G, z) /\ Zone(items, G, z) \subseteq G
    BY <1>4 DEF Zone
  <2>2. QED
    BY <1>3, <2>1, PartOf
<1>9. \A z : Cardinality(Zone(items, G, z)) <= Cardinality(Zone(before, K, z)) + Cardinality(touched)
  <2> SUFFICES ASSUME NEW z
               PROVE  Cardinality(Zone(items, G, z)) <= Cardinality(Zone(before, K, z)) + Cardinality(touched)
    OBVIOUS
  <2>1. Zone(items, G, z) \subseteq Zone(before, K, z) \cup touched
    BY <1>4, <1>5 DEF Zone
  <2>2. /\ IsFiniteSet(Zone(before, K, z) \cup touched)
        /\ Cardinality(Zone(before, K, z) \cup touched)
             <= Cardinality(Zone(before, K, z)) + Cardinality(touched)
    BY <1>3, <1>8, UnionBound
  <2>3. /\ Cardinality(Zone(items, G, z)) <= Cardinality(Zone(before, K, z) \cup touched)
        /\ Cardinality(Zone(before, K, z) \cup touched) \in Nat
    BY <2>1, <2>2, PartOf
  <2>4. QED
    BY <1>3, <1>8, <2>2, <2>3
<1>10. most - 1 <= n
  <2>1. CASE most = 0
    BY <1>7, <2>1
  <2>2. ASSUME NEW l \in K, most = Cardinality(Zone(before, K, ZoneOf[before[l].at]))
        PROVE  most - 1 <= n
    <3>1. l \in G /\ items[l] = before[l]
      BY <1>4
    <3>2. Cardinality(Zone(items, G, ZoneOf[before[l].at])) - 1 <= n
      BY <1>7, <3>1
    <3>3. QED
      BY <1>6, <1>7, <1>8, <2>2, <3>2
  <2>3. QED
    BY <1>6, <2>1, <2>2
<1>11. n <= most - 1 + Cardinality(touched) + (IF most = 0 THEN 1 ELSE 0)
  <2>1. CASE n = 0
    BY <1>3, <1>6, <2>1
  <2>2. ASSUME NEW l \in G, n = Cardinality(Zone(items, G, ZoneOf[items[l].at])) - 1
        PROVE  n <= most - 1 + Cardinality(touched)
    <3> DEFINE z == ZoneOf[items[l].at]
    <3>1. Cardinality(Zone(before, K, z)) <= most
      <4>1. CASE Zone(before, K, z) = {}
        BY <1>6, <4>1, FS_EmptySet
      <4>2. ASSUME NEW k \in Zone(before, K, z) PROVE Cardinality(Zone(before, K, z)) <= most
        <5>1. k \in K /\ ZoneOf[before[k].at] = z
          BY DEF Zone
        <5>2. QED
          BY <1>6, <5>1
      <4>3. QED
        BY <4>1, <4>2
    <3>2. Cardinality(Zone(items, G, z)) <= Cardinality(Zone(before, K, z)) + Cardinality(touched)
      BY <1>9
    <3>3. Cardinality(Zone(items, G, z)) \in Nat /\ Cardinality(Zone(before, K, z)) \in Nat
      BY <1>8
    <3> HIDE DEF z
    <3>4. n = Cardinality(Zone(items, G, z)) - 1
      BY <2>2 DEF z
    <3>5. QED
      BY <1>3, <1>6, <3>1, <3>2, <3>3, <3>4
  <2>3. QED
    BY <1>3, <1>6, <1>7, <2>1, <2>2
<1>12. n \in most - 1 .. most - 1 + Cardinality(touched) + (IF most = 0 THEN 1 ELSE 0)
  BY <1>3, <1>6, <1>7, <1>10, <1>11
<1>13. QED
  BY <1>7, <1>12 DEF n, most, K

-----------------------------------------------------------------------------
LEMMA AllUsage ==
  ASSUME UsageInv, ListAll PROVE UsageInv'
<1> DEFINE c == usage.case
           all == Listed(c)
<1>1. /\ usage.pc = "list" /\ c \in Single /\ UNCHANGED <<items, before, touched>>
      /\ usage \in UsageStates /\ TypeOK /\ usage.marker = 0 /\ usage.count = 0
  BY DEF ListAll, UsageInv, SingleInv
<1>2. /\ all \subseteq DOMAIN items /\ DOMAIN items \subseteq Keys /\ IsFiniteSet(all)
      /\ \A k \in DOMAIN items : items[k].size \in Nat
      /\ \A k \in Keys : k \in Int /\ k > 0
  BY <1>1, ListedFits, AccountParts, PartOf, UsageAssumption DEF TypeOK
<1> HIDE DEF all
<1>3. PICK n : /\ usage' = [usage EXCEPT !.pc = "cache", !.count = n]
               /\ c # "instances" => n = Counted(c, all)
               /\ n = Counted(c, all) \/ \E k \in DOMAIN items : n = IF items[k].fits THEN items[k].size ELSE 0
  <2>1. CASE c = "instances" /\ DOMAIN items # {}
    BY <2>1 DEF ListAll
  <2>2. CASE ~(c = "instances" /\ DOMAIN items # {})
    BY <2>2 DEF ListAll, all
  <2>3. QED
    BY <2>1, <2>2
<1>4. Counted(c, all) \in Nat
  <2>1. CASE c = "gateways"
    BY <1>1, <2>1, GatewaysInBounds DEF all
  <2>2. CASE c # "gateways"
    <3>1. Counted(c, all) = Cardinality(all)
      BY <1>1, <2>2 DEF Counted, Single
    <3>2. QED
      BY <1>2, <3>1, FS_CardinalityType
  <2>3. QED
    BY <2>1, <2>2
<1>5. n \in Nat
  BY <1>2, <1>3, <1>4
<1>6. /\ usage' \in UsageStates /\ usage'.pc = "cache" /\ usage'.case = c
      /\ usage'.marker = usage.marker /\ usage'.count = n
  BY <1>1, <1>3, <1>5 DEF UsageStates
<1>7. TypeOK'
  BY <1>1, <1>6 DEF TypeOK, UsageStates
<1>8. UntouchedInv' /\ SubnetInv' /\ SingleInv'
  BY <1>1, <1>6 DEF UsageInv, UntouchedInv, SubnetInv, SingleInv
<1>9. GatewayInv'
  <2> SUFFICES ASSUME c = "gateways" PROVE GatewayInv'
    BY <1>6 DEF GatewayInv
  <2> DEFINE most == LargestZone(before, Untouched \cap Fit)
  <2>1. n \in most - 1 .. most - 1 + Cardinality(touched) + (IF most = 0 THEN 1 ELSE 0)
    BY <1>1, <1>3, GatewaysInBounds DEF all
  <2>2. most' = most
    BY <1>1 DEF LargestZone, Zone, Untouched, Fit
  <2> HIDE DEF most
  <2>3. usage'.count \in most' - 1 .. most' - 1 + Cardinality(touched') + (IF most' = 0 THEN 1 ELSE 0)
    BY <1>1, <1>6, <2>1, <2>2
  <2>4. QED
    BY <2>3 DEF GatewayInv, most
<1>10. CountInv'
  <2> SUFFICES ASSUME c \in WholeCases PROVE \E w \in Accounts : CountedAs(w)'
    BY <1>6 DEF CountInv
  <2>1. PICK w \in Accounts : CountedAs(w)
    BY <1>1 DEF UsageInv, CountInv
  <2>2. n = usage.count + Counted(c, all)
    BY <1>1, <1>3, <1>4 DEF WholeCases
  <2>3. usage'.marker \in Int /\ \A k \in all : k > usage.marker
    BY <1>1, <1>2, <1>6
  <2>4. QED
    BY <1>1, <1>6, <2>1, <2>2, <2>3, PageCounted DEF all
<1>11. QED
  BY <1>6, <1>7, <1>8, <1>9, <1>10 DEF UsageInv

\* Without the subnets 0 is cached only when no gateway is listed, and then nobody
\* left one untouched.
LEMMA WithoutSubnetsUsage ==
  ASSUME UsageInv, ListWithoutSubnets PROVE UsageInv'
<1>1. CASE EndCase
  BY <1>1, EndUsage
<1>2. CASE ~EndCase
  <2>1. /\ usage.pc = "nosubnets" /\ usage.case = "gateways" /\ Listed("gateways") = {}
        /\ usage' = [usage EXCEPT !.pc = "cache"] /\ UNCHANGED <<items, before, touched>>
    BY <1>2 DEF ListWithoutSubnets, UsageInv, SubnetInv
  <2>2. usage \in UsageStates /\ TypeOK /\ usage.count = 0
    BY <2>1 DEF UsageInv, SingleInv, Single
  <2>3. /\ usage' \in UsageStates /\ usage'.pc = "cache" /\ usage'.case = "gateways"
        /\ usage'.count = 0
    BY <2>1, <2>2 DEF UsageStates
  <2>4. TypeOK'
    BY <2>1, <2>3, <2>2 DEF TypeOK, UsageStates
  <2>5. UntouchedInv' /\ SubnetInv' /\ SingleInv' /\ CountInv'
    BY <2>1, <2>3 DEF UsageInv, UntouchedInv, SubnetInv, SingleInv, CountInv, WholeCases
  <2>6. Untouched \cap Fit = {}
    <3>1. \A k \in Untouched \cap Fit : k \in Listed("gateways")
      BY <2>2, AccountParts DEF Untouched, Fit, UsageInv, UntouchedInv, Listed, TypeOK
    <3>2. QED
      BY <2>1, <3>1
  <2>7. GatewayInv'
    <3>1. LargestZone(before, {}) = Max({0}) /\ Max({0}) = 0
      <4>1. LargestZone(before, {}) = Max({0})
        BY DEF LargestZone
      <4>2. IsFiniteSet({0}) /\ {0} # {} /\ {0} \subseteq Int
        BY FS_Singleton
      <4>3. Max({0}) \in {0}
        BY <4>2, MaxOfFinite
      <4>4. QED
        BY <4>1, <4>3
    <3>2. (Untouched \cap Fit)' = {} /\ touched' = touched /\ before' = before
      BY <2>1, <2>6 DEF Untouched, Fit
    <3>3. Cardinality(touched) \in Nat
      BY <2>2, UsageAssumption, FS_Subset, FS_CardinalityType DEF TypeOK
    <3>4. LargestZone(before, Untouched \cap Fit)' = 0
      BY <3>1, <3>2 DEF LargestZone, Zone
    <3>5. QED
      BY <2>3, <3>2, <3>3, <3>4 DEF GatewayInv
  <2>8. QED
    BY <2>3, <2>4, <2>5, <2>7 DEF UsageInv
<1>3. QED
  BY <1>1, <1>2

LEMMA UsageStep == UsageInv /\ [Next]_vars => UsageInv'
<1> SUFFICES ASSUME UsageInv, [Next]_vars PROVE UsageInv'
  OBVIOUS
<1>1. CASE Fails \/ CacheValue
  BY <1>1, EndUsage DEF Fails, CacheValue
<1>2. CASE UNCHANGED vars
  <2>1. UNCHANGED <<items, usage, before, touched>>
    BY <1>2 DEF vars
  <2>2. QED
    BY <2>1 DEF UsageInv, TypeOK, UntouchedInv, SubnetInv, SingleInv, CountInv, CountedAs, GatewayInv,
                LargestZone, Zone, Untouched, Fit
<1>3. QED
  BY <1>1, <1>2, BeginUsage, SubnetsUsage, SubnetsFailUsage, PageUsage, AllUsage,
     WithoutSubnetsUsage, ChangeUsage DEF Next

LEMMA UsageInvariant == Spec => []UsageInv
<1>1. Init => UsageInv
  BY FreshUsage DEF Init
<1>2. QED
  BY <1>1, UsageStep, PTL DEF Spec

-----------------------------------------------------------------------------
(* What is cached *)

LEMMA MaxSize == Max(Sizes) \in Nat /\ \A n \in Sizes : n <= Max(Sizes)
<1>1. IsFiniteSet(Sizes) /\ Sizes # {} /\ \A n \in Sizes : n \in Nat
  BY UsageAssumption
<1>2. \A n \in Sizes : n \in Int
  BY <1>1
<1>3. Max(Sizes) \in Sizes /\ \A n \in Sizes : n <= Max(Sizes)
  BY <1>1, <1>2, MaxOfFinite
<1>4. QED
  BY <1>1, <1>3

\* A result of a whole list lies between what nobody touched and that with all
\* that somebody touched.
LEMMA WholeBounds ==
  ASSUME UsageInv, usage.pc = "cache", usage.case \in WholeCases,
         NEW K, K = {k \in Untouched : Fits(usage.case, before[k])}
  PROVE  /\ IsFiniteSet(K) /\ IsFiniteSet(touched) /\ IsFiniteSet(K \cup touched)
         /\ usage.case # "volumes" =>
              usage.count \in Cardinality(K) .. Cardinality(K \cup touched)
         /\ usage.case = "volumes" =>
              /\ usage.count \in Nat /\ Volumes(before, K) \in Nat
              /\ usage.count >= Volumes(before, K)
              /\ usage.count <= Volumes(before, K) + Cardinality(touched) * Max(Sizes)
<1>1. PICK w \in Accounts : CountedAs(w)
  BY DEF UsageInv, CountInv
<1> DEFINE W == DOMAIN w
<1>2. /\ before \in Accounts /\ touched \subseteq Keys /\ IsFiniteSet(W) /\ IsFiniteSet(touched)
      /\ \A k \in W : w[k].size \in Nat /\ w[k].size \in Sizes
      /\ \A k \in DOMAIN before : before[k].size \in Nat
  BY AccountParts, PartOf, UsageAssumption DEF UsageInv, TypeOK
<1>3. K \subseteq W /\ W \subseteq K \cup touched /\ \A k \in K : w[k] = before[k] /\ k \in DOMAIN before
  BY <1>1 DEF CountedAs, Untouched
<1>4. IsFiniteSet(K) /\ IsFiniteSet(K \cup touched)
  BY <1>2, <1>3, PartOf, UnionBound
<1>5. usage.count = Amount(usage.case, w)
  BY <1>1 DEF CountedAs
<1> HIDE DEF W
<1>6. ASSUME usage.case # "volumes"
      PROVE  usage.count \in Cardinality(K) .. Cardinality(K \cup touched)
  <2>1. usage.count = Cardinality(W)
    BY <1>5, <1>6 DEF Amount, W
  <2>2. /\ Cardinality(K) <= Cardinality(W) /\ Cardinality(W) <= Cardinality(K \cup touched)
        /\ Cardinality(K) \in Nat /\ Cardinality(W) \in Nat /\ Cardinality(K \cup touched) \in Nat
    BY <1>2, <1>3, <1>4, PartOf
  <2>3. QED
    BY <2>1, <2>2
<1>7. ASSUME usage.case = "volumes"
      PROVE  /\ usage.count \in Nat /\ Volumes(before, K) \in Nat
             /\ usage.count >= Volumes(before, K)
             /\ usage.count <= Volumes(before, K) + Cardinality(touched) * Max(Sizes)
  <2> DEFINE m == Max(Sizes)
  <2>1. m \in Nat /\ \A n \in Sizes : n <= m
    BY MaxSize
  <2> HIDE DEF m
  <2>2. /\ Volumes(w, K) <= Volumes(w, W)
        /\ Volumes(w, W) <= Volumes(w, K) + Cardinality(W \ K) * m
    BY <1>2, <1>3, <2>1, VolumesBounds
  <2>3. Volumes(w, K) = Volumes(before, K)
    BY <1>2, <1>3, <1>4, VolumesAgree
  <2>4. Volumes(before, K) \in Nat /\ Volumes(w, W) \in Nat
    BY <1>2, <1>3, <1>4, VolumesType
  <2>5. usage.count = Volumes(w, W)
    BY <1>5, <1>7 DEF Amount, W
  <2>6. Cardinality(W \ K) <= Cardinality(touched) /\ Cardinality(W \ K) \in Nat /\ Cardinality(touched) \in Nat
    BY <1>2, <1>3, PartOf
  <2>7. Cardinality(W \ K) * m <= Cardinality(touched) * m
    BY <2>1, <2>6
  <2>8. Cardinality(W \ K) * m \in Nat /\ Cardinality(touched) * m \in Nat
    BY <2>1, <2>6
  <2>9. QED
    BY <2>2, <2>3, <2>4, <2>5, <2>7, <2>8 DEF m
<1>8. QED
  BY <1>2, <1>4, <1>6, <1>7

\* The count, the marker and the account of a case keep their types.
THEOREM UsageTypes == Spec => []TypeOK
<1>1. UsageInv => TypeOK
  BY DEF UsageInv
<1>2. QED
  BY <1>1, UsageInvariant, PTL

\* Whatever the pages, and however the account changes between two calls of a
\* case: a volume, VPC, address, host or classic load balancer that nobody touches
\* counts once, and nothing counts twice.
THEOREM UntouchedCount == Spec => []UntouchedAreCounted
<1>1. UsageInv => UntouchedAreCounted
  <2> SUFFICES ASSUME UsageInv, usage.pc = "cache" PROVE UntouchedAreCounted
    BY DEF UntouchedAreCounted
  <2> DEFINE kept == DOMAIN before \ touched
             K == {k \in Untouched : Fits(usage.case, before[k])}
  <2>1. CASE usage.case \in Whole
    <3>1. usage.case \in WholeCases /\ usage.case \notin {"volumes", "hosts", "gateways"}
      BY <2>1 DEF Whole, WholeCases, Cases, Single, Paged
    <3>2. K = kept
      BY <3>1 DEF Fits, Untouched
    <3>3. usage.count \in Cardinality(K) .. Cardinality(K \cup touched)
      BY <3>1, WholeBounds
    <3>4. QED
      BY <3>1, <3>2, <3>3 DEF UntouchedAreCounted, Value
  <2>2. CASE usage.case \in {"volumes", "hosts"}
    <3>1. usage.case \in WholeCases
      BY <2>2 DEF WholeCases, Cases, Single, Paged
    <3>2. K = kept \cap Fit
      BY <2>2 DEF Fits, Untouched, Fit
    <3> HIDE DEF K
    <3>3. /\ usage.case # "volumes" =>
               usage.count \in Cardinality(K) .. Cardinality(K \cup touched)
          /\ usage.case = "volumes" =>
               /\ usage.count >= Volumes(before, K)
               /\ usage.count <= Volumes(before, K) + Cardinality(touched) * Max(Sizes)
      BY <3>1, WholeBounds DEF K
    <3>4. QED
      BY <2>2, <3>2, <3>3 DEF UntouchedAreCounted, Value, Whole
  <2>3. CASE usage.case \in {"instances", "gateways", "nlbs", "route_tables"}
    BY <2>3 DEF UntouchedAreCounted, Whole
  <2>4. usage.case \in Cases
    BY DEF UsageInv, TypeOK
  <2>5. QED
    BY <2>1, <2>2, <2>3, <2>4 DEF Cases, Single, Paged, Whole
<1>2. QED
  BY <1>1, UsageInvariant, PTL

\* The disagreement with the comment "NAT gateways per Availability Zone" has one
\* size in every account: what is cached is one less than the largest zone has.
THEOREM GatewaysOneShort == Spec => []GatewaysAreOneShort
<1>1. UsageInv => GatewaysAreOneShort
  <2> SUFFICES ASSUME UsageInv, usage.pc = "cache", usage.case = "gateways"
               PROVE  GatewaysAreOneShort
    BY DEF GatewaysAreOneShort
  <2> DEFINE kept == DOMAIN before \ touched
             most == LargestZone(before, Untouched \cap Fit)
  <2>1. usage.count \in most - 1 .. most - 1 + Cardinality(touched) + (IF most = 0 THEN 1 ELSE 0)
    BY DEF UsageInv, GatewayInv
  <2>2. MostOf(kept \cap Fit, LAMBDA s : ZoneOf[s]) = most
    BY DEF MostOf, LargestZone, Zone, Untouched
  <2> HIDE DEF most
  <2>3. QED
    BY <2>1, <2>2 DEF GatewaysAreOneShort, Value
<1>2. QED
  BY <1>1, UsageInvariant, PTL

\* In an account that does not change, the cases of the volumes, VPCs, addresses,
\* hosts and classic load balancers cache what the account has, rounded down to TiB
\* for volumes.
THEOREM QuietCount == Spec => []QuietAccountIsCounted
<1>1. UsageInv => QuietAccountIsCounted
  <2> SUFFICES ASSUME UsageInv, usage.pc = "cache", touched = {} PROVE QuietAccountIsCounted
    BY DEF QuietAccountIsCounted, Quiet
  <2> DEFINE K == {k \in Untouched : Fits(usage.case, before[k])}
  <2>1. Cardinality(touched) = 0 /\ Untouched = DOMAIN before /\ K \cup touched = K
    BY FS_EmptySet DEF Untouched
  <2>2. CASE usage.case \in Whole \cup {"hosts"}
    <3>1. usage.case \in WholeCases /\ usage.case \notin {"volumes", "gateways"}
      BY <2>2 DEF Whole, WholeCases, Cases, Single, Paged
    <3>2. K = IF usage.case = "hosts" THEN Fit ELSE DOMAIN before
      BY <2>1, <2>2 DEF Fits, Fit, Whole
    <3> HIDE DEF K
    <3>3. usage.count \in Cardinality(K) .. Cardinality(K) /\ IsFiniteSet(K)
      BY <2>1, <3>1, WholeBounds DEF K
    <3>4. usage.count = Cardinality(K)
      BY <3>3, FS_CardinalityType
    <3>5. QED
      BY <2>2, <3>1, <3>2, <3>4 DEF QuietAccountIsCounted, Value, Whole
  <2>3. CASE usage.case = "volumes"
    <3>1. usage.case \in WholeCases
      BY <2>3 DEF WholeCases, Cases, Single, Paged
    <3>2. K = Fit
      BY <2>1, <2>3 DEF Fits, Fit
    <3> HIDE DEF K
    <3>3. /\ usage.count \in Nat /\ Volumes(before, K) \in Nat
          /\ usage.count >= Volumes(before, K)
          /\ usage.count <= Volumes(before, K) + Cardinality(touched) * Max(Sizes)
      BY <2>3, <3>1, WholeBounds DEF K
    <3>4. Max(Sizes) \in Nat
      BY MaxSize
    <3>5. usage.count = Volumes(before, Fit)
      BY <2>1, <3>2, <3>3, <3>4
    <3>6. ASSUME NEW n \in Nat, NEW d \in Nat \ {0}
          PROVE  (n \div d) * d <= n /\ n < (n \div d + 1) * d
      <4>1. /\ n \div d \in Nat /\ n % d \in Nat /\ n % d < d
            /\ n = d * (n \div d) + (n % d)
        BY SMTT(30)
      <4>2. QED
        BY <4>1, SMTT(30)
    <3>7. QED
      BY <2>3, <3>3, <3>5, <3>6, UsageAssumption DEF QuietAccountIsCounted, Value, Whole
  <2>4. CASE usage.case \in {"gateways", "instances", "nlbs", "route_tables"}
    BY <2>4 DEF QuietAccountIsCounted, Whole
  <2>5. usage.case \in Cases
    BY DEF UsageInv, TypeOK
  <2>6. QED
    BY <2>2, <2>3, <2>4, <2>5 DEF Cases, Single, Paged, Whole
<1>2. QED
  BY <1>1, UsageInvariant, PTL
=============================================================================
