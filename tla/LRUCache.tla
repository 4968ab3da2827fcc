------------------------------ MODULE LRUCache ------------------------------
(***************************************************************************)
(* The least-recently-used cache of internal/cache/lru_cache.go.           *)
(*                                                                         *)
(* The cache is a map from keys to list elements and a list of elements in *)
(* recency order.  An element is named by the key its entry holds: order   *)
(* is the list, front first, and items[k] the value reached through the    *)
(* map.  Every operation holds the cache's mutex throughout, so each is    *)
(* one action.                                                             *)
(***************************************************************************)
EXTENDS Integers, SequencesExt

CONSTANTS
    Keys,
    Capacities,   \* capacities Resize is called with, good and bad
    MaxUses       \* bound: how many uses the history counts

ASSUME CapacitiesAssumption == Capacities \subseteq Int

VARIABLES
    capacity, items, order,
    clock,        \* history: number of uses so far
    lastUse       \* history: the use that last touched each key

cacheVars == <<capacity, items, order, clock, lastUse>>

NewLRUCache(c) ==
    /\ c > 0
    /\ capacity = c
    /\ items = <<>>
    /\ order = <<>>
    /\ clock = 0
    /\ lastUse = [k \in Keys |-> 0]

-----------------------------------------------------------------------------

Hit(k) == k \in DOMAIN items

\* The list without k's element, which is unlinked where it stands.
Unlisted(k) == RemoveAt(order, CHOOSE i \in DOMAIN order : order[i] = k)

MoveToFront(k) == <<k>> \o Unlisted(k)

Use(k) ==
    /\ clock < MaxUses
    /\ clock' = clock + 1
    /\ lastUse' = [lastUse EXCEPT ![k] = clock + 1]

Without(S) == Restrict(items, DOMAIN items \ S)

With(map, k, v) == [j \in DOMAIN map \cup {k} |-> IF j = k THEN v ELSE map[j]]

\* A hit moves the element to the front; the caller reads Hit(k) and items[k].
Get(k) ==
    /\ IF Hit(k)
         THEN order' = MoveToFront(k) /\ Use(k)
         ELSE UNCHANGED <<order, clock, lastUse>>
    /\ UNCHANGED <<capacity, items>>

PutKeepsEvicted(k, v) ==         \* faulty: eviction leaves the map entry behind
    /\ order' = IF Hit(k) THEN MoveToFront(k)
                ELSE IF Len(order) + 1 > capacity THEN Front(<<k>> \o order)
                ELSE <<k>> \o order
    /\ items' = With(items, k, v)
    /\ Use(k)
    /\ UNCHANGED capacity

\* An existing key is overwritten in place.  A new one is pushed to the front,
\* and past the capacity the back of the list goes, from the list and the map.
Put(k, v) ==
    /\ \/ /\ Hit(k)
          /\ order' = MoveToFront(k)
          /\ items' = [items EXCEPT ![k] = v]
       \/ /\ ~Hit(k)
          /\ Len(order) + 1 <= capacity
          /\ order' = <<k>> \o order
          /\ items' = With(items, k, v)
       \/ /\ ~Hit(k)
          /\ Len(order) + 1 > capacity
          /\ order' = Front(<<k>> \o order)
          /\ items' = With(Without({Last(<<k>> \o order)}), k, v)
    /\ Use(k)
    /\ UNCHANGED capacity

Delete(k) ==
    /\ Hit(k)
    /\ order' = Unlisted(k)
    /\ items' = Without({k})
    /\ UNCHANGED <<capacity, clock, lastUse>>

Clear ==
    /\ order' = <<>>
    /\ items' = <<>>
    /\ UNCHANGED <<capacity, clock, lastUse>>

ResizeKeepsNewcomers(c) ==       \* faulty: evicts from the front of the list
    /\ c > 0
    /\ LET n == Len(order)
           kept == IF n > c THEN SubSeq(order, n - c + 1, n) ELSE order
       IN /\ order' = kept
          /\ items' = Restrict(items, ToSet(kept))
    /\ capacity' = c
    /\ UNCHANGED <<clock, lastUse>>

\* Shrinking evicts from the back until the cache fits; a capacity that is not
\* positive is refused.
Resize(c) ==
    /\ c > 0
    /\ LET kept == IF Len(order) > c THEN SubSeq(order, 1, c) ELSE order
       IN /\ order' = kept
          /\ items' = Without(ToSet(order) \ ToSet(kept))
    /\ capacity' = c
    /\ UNCHANGED <<clock, lastUse>>

-----------------------------------------------------------------------------

CacheInit == \E c \in Capacities : NewLRUCache(c)

\* The whole interface, by callers that put values of V.
CacheNext(V) ==
    \/ \E k \in Keys : Get(k) \/ Delete(k) \/ \E v \in V : Put(k, v)
    \/ \E c \in Capacities : Resize(c)
    \/ Clear

CacheSpec(V) == CacheInit /\ [][CacheNext(V)]_cacheVars

-----------------------------------------------------------------------------

(* The map and the list never part: same keys, each listed once, and never  *)
(* more of them than the capacity in force.  An element left in only one of *)
(* the two would be evicted by nobody, or found by nobody.                  *)
MapMatchesList ==
    /\ ToSet(order) = DOMAIN items
    /\ IsInjective(order)
    /\ Len(order) <= capacity /\ capacity > 0

(* A shrinking Resize, and a Put into a full cache, keep the most recently  *)
(* used entries: what a step that is no Delete or Clear evicts was used     *)
(* before everything it keeps.                                              *)
EvictsOldest ==
    [][LET gone == DOMAIN items \ DOMAIN items'
           kept == DOMAIN items \cap DOMAIN items'
       IN (capacity' < capacity \/ clock' > clock) =>
            \A g \in gone, k \in kept : lastUse[g] < lastUse[k]]_cacheVars

-----------------------------------------------------------------------------
(* The inductive invariant behind both.                                     *)

Stamps == [Keys -> Nat]

CacheTypeOK ==
    /\ capacity \in Int
    /\ items = [k \in DOMAIN items |-> items[k]] /\ DOMAIN items \subseteq Keys
    /\ order \in Seq(Keys)
    /\ clock \in Nat
    /\ lastUse \in Stamps

\* The list is in the order of the last uses, the latest in front.
RecencyOrder ==
    /\ \A i, j \in DOMAIN order : i < j => lastUse[order[j]] < lastUse[order[i]]
    /\ \A k \in Keys : lastUse[k] <= clock

CacheInv == CacheTypeOK /\ MapMatchesList /\ RecencyOrder
=============================================================================
