------------------------------ MODULE GoCache ------------------------------
(***************************************************************************)
(* The in-memory cache of vendor/github.com/patrickmn/go-cache as the      *)
(* exporter uses it (common.ICache: Set and Items, and the janitor that    *)
(* cache.New starts).  A cache is a function from the keys it holds to     *)
(* items; every operator is one critical section of the cache's RWMutex.   *)
(***************************************************************************)
EXTENDS Integers

EmptyCache == [k \in {} |-> 0]

\* newCache: an expiration of zero means "never", like a negative one.
DefaultExpiration(de) == IF de = 0 THEN -1 ELSE de

\* An Expiration of 0 never expires; otherwise an item is live up to and
\* including its expiration instant.
Expired(item, now) == item.expiration > 0 /\ now > item.expiration

\* Mutant of Set: an entry that exists keeps its expiration.
SetKeepingExpiration(items, k, obj, now, de) ==
    [x \in DOMAIN items \cup {k} |->
        IF x = k
        THEN [object |-> obj,
              expiration |-> IF k \in DOMAIN items THEN items[k].expiration
                             ELSE IF DefaultExpiration(de) > 0 THEN now + de ELSE 0]
        ELSE items[x]]

Set(items, k, obj, now, de) ==
    [x \in DOMAIN items \cup {k} |->
        IF x = k
        THEN [object |-> obj,
              expiration |-> IF DefaultExpiration(de) > 0 THEN now + de ELSE 0]
        ELSE items[x]]

Live(items, now) == {k \in DOMAIN items : ~Expired(items[k], now)}

\* The copy that Items returns holds the objects of the live keys.
Items(items, now) == [k \in Live(items, now) |-> items[k].object]

DeleteExpired(items, now) == [k \in Live(items, now) |-> items[k]]
=============================================================================
