-------------------------- MODULE PlanCacheProofs --------------------------
(* Proofs about LRUCache and PlanCache.                                    *)
EXTENDS PlanCache, CollectionFacts

-----------------------------------------------------------------------------
(* Lists in the order of last use.  Such a list is injective.              *)

Sorted(s, use) == \A i, j \in DOMAIN s : i < j => use[s[j]] < use[s[i]]

LEMMA SortedIsInjective ==
  ASSUME NEW s \in Seq(Keys), NEW use, \A x \in Keys : use[x] \in Nat, Sorted(s, use)
  PROVE  IsInjective(s)
<1> SUFFICES ASSUME NEW i \in DOMAIN s, NEW j \in DOMAIN s, s[i] = s[j], i # j PROVE FALSE
  BY DEF IsInjective
<1>1. i \in Int /\ j \in Int /\ use[s[i]] \in Int
  OBVIOUS
<1>2. CASE i < j
  BY <1>1, <1>2 DEF Sorted
<1>3. CASE j < i
  BY <1>1, <1>3 DEF Sorted
<1> QED
  BY <1>1, <1>2, <1>3

\* Unlinking one element leaves the others in their order.
LEMMA UnlinkSorted ==
  ASSUME NEW s \in Seq(Keys), NEW use, \A x \in Keys : use[x] \in Nat, Sorted(s, use),
         NEW p \in 1 .. Len(s), NEW t, t = RemoveAt(s, p)
  PROVE  /\ t \in Seq(Keys) /\ Len(t) = Len(s) - 1
         /\ ToSet(t) = ToSet(s) \ {s[p]}
         /\ Sorted(t, use)
<1>1. t \in Seq(Keys) /\ Len(t) = Len(s) - 1
  BY RemoveAtSeq
<1>2. \A i \in 1 .. Len(t) : t[i] = IF i < p THEN s[i] ELSE s[i + 1]
  BY <1>1, RemoveAtSeq
<1>3. IsInjective(s)
  BY SortedIsInjective
<1>4. ASSUME NEW i \in 1 .. Len(t) PROVE t[i] \in ToSet(s) \ {s[p]}
  <2>1. PICK j \in 1 .. Len(s) : t[i] = s[j] /\ j # p
    <3>1. CASE i < p
      BY <1>1, <1>2, <3>1
    <3>2. CASE ~(i < p)
      <4>1. i + 1 \in 1 .. Len(s) /\ i + 1 # p /\ t[i] = s[i + 1]
        BY <1>1, <1>2, <3>2
      <4> QED
        BY <4>1
    <3> QED
      BY <3>1, <3>2
  <2> QED
    BY <1>3, <2>1, ElementsOf DEF IsInjective
<1>5. ASSUME NEW i \in 1 .. Len(s), i # p PROVE s[i] \in ToSet(t)
  <2>1. CASE i < p
    <3>1. i \in 1 .. Len(t) /\ t[i] = s[i]
      BY <1>1, <1>2, <2>1
    <3> QED
      BY <1>1, <3>1, ElementsOf
  <2>2. CASE i > p
    <3>1. i - 1 \in 1 .. Len(t) /\ ~(i - 1 < p) /\ (i - 1) + 1 = i
      BY <1>1, <2>2
    <3>2. t[i - 1] = s[i]
      BY <1>2, <3>1
    <3> QED
      BY <1>1, <3>1, <3>2, ElementsOf
  <2> QED
    BY <1>5, <2>1, <2>2
<1>6. ToSet(t) = ToSet(s) \ {s[p]}
  <2>1. \A x \in ToSet(t) : x \in ToSet(s) \ {s[p]}
    BY <1>1, <1>4, ElementsOf
  <2>2. \A x \in ToSet(s) \ {s[p]} : x \in ToSet(t)
    BY <1>5, ElementsOf
  <2> QED
    BY <2>1, <2>2
<1>7. Sorted(t, use)
  <2> SUFFICES ASSUME NEW i \in 1 .. Len(t), NEW j \in 1 .. Len(t), i < j
               PROVE  use[t[j]] < use[t[i]]
    BY <1>1 DEF Sorted
  <2>1. PICK u \in DOMAIN s : t[i] = s[u] /\ u = IF i < p THEN i ELSE i + 1
    BY <1>1, <1>2
  <2>2. PICK v \in DOMAIN s : t[j] = s[v] /\ v = IF j < p THEN j ELSE j + 1
    BY <1>1, <1>2
  <2>3. u < v
    BY <2>1, <2>2
  <2> QED
    BY <2>1, <2>2, <2>3 DEF Sorted
<1> QED
  BY <1>1, <1>6, <1>7

\* An element just used goes in front of those used before.
LEMMA PrependSorted ==
  ASSUME NEW s \in Seq(Keys), NEW use, \A x \in Keys : use[x] \in Nat, Sorted(s, use),
         NEW k \in Keys \ ToSet(s), NEW after, \A x \in Keys : use[x] < after[k],
         \A x \in Keys \ {k} : after[x] = use[x]
  PROVE  /\ <<k>> \o s \in Seq(Keys) /\ Len(<<k>> \o s) = Len(s) + 1
         /\ ToSet(<<k>> \o s) = ToSet(s) \cup {k}
         /\ Sorted(<<k>> \o s, after)
<1> DEFINE t == <<k>> \o s
<1>1. t \in Seq(Keys) /\ Len(t) = Len(s) + 1
  OBVIOUS
<1>2. t[1] = k /\ \A i \in 1 .. Len(s) : t[i + 1] = s[i]
  OBVIOUS
<1> HIDE DEF t
<1>3. \A i \in 2 .. Len(t) : i - 1 \in 1 .. Len(s) /\ t[i] = s[i - 1]
  BY <1>1, <1>2
<1>4. ToSet(t) = ToSet(s) \cup {k}
  <2>1. \A x \in ToSet(t) : \E i \in 1 .. Len(t) : t[i] = x
    BY <1>1 DEF ToSet
  <2>2. \A i \in 1 .. Len(t) : t[i] \in ToSet(t)
    BY <1>1, ElementsOf
  <2>3. \A i \in 1 .. Len(t) : t[i] \in ToSet(s) \cup {k}
    <3>1. \A i \in 1 .. Len(s) : s[i] \in ToSet(s)
      BY ElementsOf
    <3>2. \A i \in 1 .. Len(t) : i = 1 \/ i \in 2 .. Len(t)
      BY <1>1
    <3> QED
      BY <1>2, <1>3, <3>1, <3>2
  <2>4. \A i \in 1 .. Len(s) : s[i] \in ToSet(t)
    <3>1. \A i \in 1 .. Len(s) : i + 1 \in 1 .. Len(t) /\ t[i + 1] = s[i]
      BY <1>1, <1>2
    <3> QED
      BY <2>2, <3>1
  <2>5. k \in ToSet(t)
    <3>1. 1 \in 1 .. Len(t)
      BY <1>1
    <3> QED
      BY <1>2, <2>2, <3>1
  <2>6. \A x \in ToSet(s) : x \in ToSet(t)
    <3>1. \A x \in ToSet(s) : \E i \in 1 .. Len(s) : s[i] = x
      BY ElementsOf
    <3> QED
      BY <2>4, <3>1
  <2> QED
    BY <2>1, <2>3, <2>5, <2>6
<1>5. \A i \in 1 .. Len(s) : s[i] \in Keys /\ after[s[i]] = use[s[i]]
  BY DEF ToSet
<1>6. Sorted(t, after)
  <2> SUFFICES ASSUME NEW i \in 1 .. Len(t), NEW j \in 1 .. Len(t), i < j
               PROVE  after[t[j]] < after[t[i]]
    BY <1>1 DEF Sorted
  <2>1. j - 1 \in 1 .. Len(s) /\ t[j] = s[j - 1]
    BY <1>1, <1>3
  <2>2. CASE i = 1
    BY <1>2, <1>5, <2>1, <2>2
  <2>3. CASE i # 1
    <3>1. i - 1 \in 1 .. Len(s) /\ t[i] = s[i - 1] /\ i - 1 < j - 1
      BY <1>1, <1>3, <2>3
    <3>2. use[s[j - 1]] < use[s[i - 1]]
      BY <2>1, <3>1 DEF Sorted
    <3> QED
      BY <1>5, <2>1, <3>1, <3>2
  <2> QED
    BY <2>2, <2>3
<1> QED
  BY <1>1, <1>4, <1>6 DEF t

\* What is cut off the end of the list was used before everything that stays.
LEMMA PrefixSorted ==
  ASSUME NEW s \in Seq(Keys), NEW use, \A x \in Keys : use[x] \in Nat, Sorted(s, use),
         NEW n \in 0 .. Len(s)
  PROVE  /\ SubSeq(s, 1, n) \in Seq(Keys) /\ Len(SubSeq(s, 1, n)) = n
         /\ ToSet(SubSeq(s, 1, n)) \subseteq ToSet(s)
         /\ Sorted(SubSeq(s, 1, n), use)
         /\ \A g \in ToSet(s) \ ToSet(SubSeq(s, 1, n)), k \in ToSet(SubSeq(s, 1, n)) :
              use[g] < use[k]
<1> DEFINE t == SubSeq(s, 1, n)
<1>1. t \in Seq(Keys) /\ Len(t) = n /\ \A i \in 1 .. n : t[i] = s[i]
  OBVIOUS
<1> HIDE DEF t
<1>2. ToSet(t) \subseteq ToSet(s)
  BY <1>1 DEF ToSet
<1>3. Sorted(t, use)
  BY <1>1 DEF Sorted
<1>4. ASSUME NEW g \in ToSet(s) \ ToSet(t), NEW k \in ToSet(t) PROVE use[g] < use[k]
  <2>1. PICK j \in 1 .. Len(s) : s[j] = g
    BY DEF ToSet
  <2>2. PICK i \in 1 .. n : s[i] = k
    BY <1>1 DEF ToSet
  <2>3. ~(j \in 1 .. n)
    BY <1>1, <2>1, ElementsOf
  <2>4. i < j /\ i \in DOMAIN s /\ j \in DOMAIN s
    BY <2>3
  <2> QED
    BY <2>1, <2>2, <2>4 DEF Sorted
<1> QED
  BY <1>1, <1>2, <1>3, <1>4 DEF t

-----------------------------------------------------------------------------
(* The cache.                                                              *)

\* The operations of the list, on the list of a cache that is sound.
LEMMA ListOperations ==
  ASSUME CacheInv
  PROVE  /\ \A k \in Keys : Hit(k) =>
              /\ Unlisted(k) \in Seq(Keys) /\ Len(Unlisted(k)) = Len(order) - 1
              /\ ToSet(Unlisted(k)) = DOMAIN items \ {k}
              /\ Sorted(Unlisted(k), lastUse)
         /\ order \in Seq(Keys) /\ ToSet(order) = DOMAIN items /\ Sorted(order, lastUse)
         /\ \A k \in Keys : lastUse[k] \in Nat /\ lastUse[k] < clock + 1
<1>1. order \in Seq(Keys) /\ ToSet(order) = DOMAIN items /\ Sorted(order, lastUse)
  BY DEF CacheInv, CacheTypeOK, MapMatchesList, RecencyOrder, Sorted
<1>2. \A k \in Keys : lastUse[k] \in Nat /\ lastUse[k] < clock + 1
  BY DEF CacheInv, CacheTypeOK, RecencyOrder, Stamps
<1>3. ASSUME NEW k \in Keys, Hit(k)
      PROVE  /\ Unlisted(k) \in Seq(Keys) /\ Len(Unlisted(k)) = Len(order) - 1
             /\ ToSet(Unlisted(k)) = DOMAIN items \ {k}
             /\ Sorted(Unlisted(k), lastUse)
  <2> DEFINE p == CHOOSE i \in DOMAIN order : order[i] = k
  <2>1. p \in 1 .. Len(order) /\ order[p] = k
    <3>1. k \in ToSet(order)
      BY <1>1, <1>3 DEF Hit
    <3>2. \E i \in DOMAIN order : order[i] = k
      BY <3>1 DEF ToSet
    <3> QED
      BY <1>1, <3>2
  <2>2. Unlisted(k) = RemoveAt(order, p)
    BY DEF Unlisted
  <2> HIDE DEF p
  <2> QED
    BY <1>1, <1>2, <2>1, <2>2, UnlinkSorted
<1> QED
  BY <1>1, <1>2, <1>3

\* What is needed of a list and a map for the cache to stay sound.
LEMMA SoundAgain ==
  ASSUME capacity' \in Int, capacity' > 0,
         items' = [k \in DOMAIN items' |-> items'[k]],
         order' \in Seq(Keys), Len(order') <= capacity',
         ToSet(order') = DOMAIN items', Sorted(order', lastUse'),
         clock' \in Nat, lastUse' \in Stamps, \A k \in Keys : lastUse'[k] <= clock'
  PROVE  CacheInv'
<1>1. IsInjective(order')
  <2>1. \A k \in Keys : lastUse'[k] \in Nat
    BY DEF Stamps
  <2> QED
    BY <2>1, SortedIsInjective
<1>2. DOMAIN items' \subseteq Keys
  BY ElementsOf
<1> QED
  BY <1>1, <1>2 DEF CacheInv, CacheTypeOK, MapMatchesList, RecencyOrder, Sorted

LEMMA CacheInvInit == CacheInit => CacheInv
<1> SUFFICES ASSUME NEW c \in Capacities, NewLRUCache(c) PROVE CacheInv
  BY DEF CacheInit
<1>1. /\ capacity \in Int /\ capacity > 0 /\ items = <<>> /\ order = <<>>
      /\ clock = 0 /\ lastUse = [k \in Keys |-> 0]
  BY CapacitiesAssumption DEF NewLRUCache
<1>2. CacheTypeOK
  BY <1>1 DEF CacheTypeOK, Stamps
<1>3. MapMatchesList
  BY <1>1 DEF MapMatchesList, ToSet, IsInjective
<1>4. RecencyOrder
  BY <1>1 DEF RecencyOrder
<1> QED
  BY <1>2, <1>3, <1>4 DEF CacheInv

\* The list a hit or a push leaves: k in front of what is left of s.
LEMMA UsedInFront ==
  ASSUME CacheInv, NEW k \in Keys, Use(k),
         NEW s \in Seq(Keys), Sorted(s, lastUse), k \notin ToSet(s)
  PROVE  /\ <<k>> \o s \in Seq(Keys) /\ Len(<<k>> \o s) = Len(s) + 1
         /\ ToSet(<<k>> \o s) = ToSet(s) \cup {k}
         /\ Sorted(<<k>> \o s, lastUse')
         /\ clock' \in Nat /\ lastUse' \in Stamps
         /\ \A x \in Keys : lastUse'[x] <= clock'
<1>1. clock \in Nat /\ lastUse \in Stamps /\ \A x \in Keys : lastUse[x] <= clock
  BY DEF CacheInv, CacheTypeOK, RecencyOrder
<1>2. clock' = clock + 1 /\ lastUse' = [lastUse EXCEPT ![k] = clock + 1]
  BY DEF Use
<1>3. lastUse' \in Stamps /\ clock' \in Nat
  BY <1>1, <1>2 DEF Stamps
<1>4. lastUse'[k] = clock + 1 /\ \A x \in Keys \ {k} : lastUse'[x] = lastUse[x]
  BY <1>1, <1>2 DEF Stamps
<1>5. \A x \in Keys : lastUse[x] \in Nat /\ lastUse[x] < clock + 1
  BY <1>1 DEF Stamps
<1>6. \A x \in Keys : lastUse'[x] <= clock'
  BY <1>1, <1>2, <1>4, <1>5
<1>7. /\ <<k>> \o s \in Seq(Keys) /\ Len(<<k>> \o s) = Len(s) + 1
      /\ ToSet(<<k>> \o s) = ToSet(s) \cup {k}
      /\ Sorted(<<k>> \o s, lastUse')
  <2>1. \A x \in Keys : lastUse[x] < lastUse'[k]
    BY <1>4, <1>5
  <2> QED
    BY <1>4, <1>5, <2>1, PrependSorted
<1> QED
  BY <1>3, <1>6, <1>7

\* A cache that shows what it holds under its list.
LEMMA CacheFacts ==
  ASSUME CacheInv
  PROVE  /\ capacity \in Int /\ capacity > 0 /\ Len(order) <= capacity /\ Len(order) \in Nat
         /\ items = [k \in DOMAIN items |-> items[k]] /\ DOMAIN items \subseteq Keys
         /\ clock \in Nat /\ lastUse \in Stamps /\ \A k \in Keys : lastUse[k] <= clock
  BY DEF CacheInv, CacheTypeOK, MapMatchesList, RecencyOrder

LEMMA GetStep == ASSUME CacheInv, NEW k \in Keys, Get(k) PROVE CacheInv'
<1>1. CASE Hit(k)
  <2> DEFINE s == Unlisted(k)
  <2>1. /\ s \in Seq(Keys) /\ Len(s) = Len(order) - 1 /\ ToSet(s) = DOMAIN items \ {k}
        /\ Sorted(s, lastUse)
    BY <1>1, ListOperations
  <2>2. order' = <<k>> \o s /\ Use(k) /\ UNCHANGED <<capacity, items>>
    BY <1>1 DEF Get, MoveToFront
  <2> HIDE DEF s
  <2>3. /\ <<k>> \o s \in Seq(Keys) /\ Len(<<k>> \o s) = Len(s) + 1
        /\ ToSet(<<k>> \o s) = ToSet(s) \cup {k}
        /\ Sorted(<<k>> \o s, lastUse')
        /\ clock' \in Nat /\ lastUse' \in Stamps
        /\ \A x \in Keys : lastUse'[x] <= clock'
    BY <2>1, <2>2, UsedInFront
  <2>4. ToSet(s) \cup {k} = DOMAIN items
    BY <1>1, <2>1 DEF Hit
  <2>5. ToSet(order') = DOMAIN items' /\ Sorted(order', lastUse') /\ order' \in Seq(Keys)
    BY <2>1, <2>2, <2>3, <2>4
  <2>6. Len(order') <= capacity'
    BY <2>1, <2>2, <2>3, CacheFacts
  <2>7. /\ capacity' \in Int /\ capacity' > 0
        /\ items' = [j \in DOMAIN items' |-> items'[j]]
    BY <2>2, CacheFacts
  <2> QED
    BY <2>3, <2>5, <2>6, <2>7, SoundAgain
<1>2. CASE ~Hit(k)
  BY <1>2 DEF Get, CacheInv, CacheTypeOK, MapMatchesList, RecencyOrder
<1> QED
  BY <1>1, <1>2

LEMMA DeleteStep == ASSUME CacheInv, NEW k \in Keys, Delete(k) PROVE CacheInv'
<1> DEFINE s == Unlisted(k)
<1>1. /\ s \in Seq(Keys) /\ Len(s) = Len(order) - 1 /\ ToSet(s) = DOMAIN items \ {k}
      /\ Sorted(s, lastUse)
  BY ListOperations DEF Delete
<1>2. /\ order' = s /\ UNCHANGED <<capacity, clock, lastUse>>
      /\ items' = Restrict(items, DOMAIN items \ {k})
  BY DEF Delete, Without
<1> HIDE DEF s
<1>3. DOMAIN items' = DOMAIN items \ {k} /\ items' = [j \in DOMAIN items' |-> items'[j]]
  BY <1>2 DEF Restrict
<1>4. ToSet(order') = DOMAIN items' /\ Sorted(order', lastUse') /\ order' \in Seq(Keys)
  BY <1>1, <1>2, <1>3
<1>5. Len(order') <= capacity' /\ capacity' \in Int /\ capacity' > 0
  BY <1>1, <1>2, CacheFacts
<1>6. /\ clock' \in Nat /\ lastUse' \in Stamps
      /\ \A x \in Keys : lastUse'[x] <= clock'
  BY <1>2, CacheFacts
<1> QED
  BY <1>3, <1>4, <1>5, <1>6, SoundAgain

LEMMA ClearStep == ASSUME CacheInv, Clear PROVE CacheInv'
<1>1. order' = <<>> /\ items' = <<>> /\ UNCHANGED <<capacity, clock, lastUse>>
  BY DEF Clear
<1>2. CacheTypeOK'
  BY <1>1 DEF CacheInv, CacheTypeOK
<1>3. MapMatchesList'
  BY <1>1, CacheFacts DEF MapMatchesList, ToSet, IsInjective
<1>4. RecencyOrder'
  BY <1>1 DEF CacheInv, RecencyOrder
<1> QED
  BY <1>2, <1>3, <1>4 DEF CacheInv

\* What Resize keeps.
LEMMA ResizeKeeps ==
  ASSUME CacheInv, NEW c \in Capacities, Resize(c)
  PROVE  /\ order' \in Seq(Keys) /\ Len(order') <= c
         /\ ToSet(order') = DOMAIN items' /\ DOMAIN items' \subseteq DOMAIN items
         /\ items' = [k \in DOMAIN items' |-> items'[k]]
         /\ Sorted(order', lastUse)
         /\ \A g \in DOMAIN items \ DOMAIN items', k \in DOMAIN items' : lastUse[g] < lastUse[k]
         /\ capacity' = c /\ c \in Int /\ c > 0 /\ UNCHANGED <<clock, lastUse>>
<1>1. c \in Int /\ c > 0 /\ capacity' = c /\ UNCHANGED <<clock, lastUse>>
  BY CapacitiesAssumption DEF Resize
<1>2. /\ order \in Seq(Keys) /\ ToSet(order) = DOMAIN items /\ Sorted(order, lastUse)
      /\ \A k \in Keys : lastUse[k] \in Nat
  BY ListOperations
<1>3. /\ order' \in Seq(Keys) /\ Len(order') <= c /\ ToSet(order') \subseteq ToSet(order)
      /\ Sorted(order', lastUse)
      /\ \A g \in ToSet(order) \ ToSet(order'), k \in ToSet(order') : lastUse[g] < lastUse[k]
  <2>1. CASE Len(order) > c
    <3>1. order' = SubSeq(order, 1, c) /\ c \in 0 .. Len(order)
      BY <1>1, <2>1, CacheFacts DEF Resize
    <3> QED
      BY <1>1, <1>2, <3>1, PrefixSorted
  <2>2. CASE ~(Len(order) > c)
    <3>1. order' = order
      BY <2>2 DEF Resize
    <3> QED
      BY <1>1, <1>2, <2>2, <3>1, CacheFacts
  <2> QED
    BY <2>1, <2>2
<1>4. items' = Restrict(items, DOMAIN items \ (ToSet(order) \ ToSet(order')))
  BY DEF Resize, Without
<1>5. DOMAIN items' = ToSet(order') /\ items' = [k \in DOMAIN items' |-> items'[k]]
  BY <1>2, <1>3, <1>4 DEF Restrict
<1> QED
  BY <1>1, <1>2, <1>3, <1>5

LEMMA ResizeStep == ASSUME CacheInv, NEW c \in Capacities, Resize(c) PROVE CacheInv'
  BY CacheFacts, ResizeKeeps, SoundAgain

\* What Put keeps.
LEMMA PutKeeps ==
  ASSUME CacheInv, NEW k \in Keys, NEW v, Put(k, v)
  PROVE  /\ order' \in Seq(Keys) /\ Len(order') <= capacity
         /\ ToSet(order') = DOMAIN items'
         /\ items' = [j \in DOMAIN items' |-> items'[j]]
         /\ Sorted(order', lastUse')
         /\ \A g \in DOMAIN items \ DOMAIN items', j \in DOMAIN items \cap DOMAIN items' :
              lastUse[g] < lastUse[j]
         /\ capacity' = capacity
         /\ clock' \in Nat /\ lastUse' \in Stamps /\ \A x \in Keys : lastUse'[x] <= clock'
<1>1. /\ order \in Seq(Keys) /\ ToSet(order) = DOMAIN items /\ Sorted(order, lastUse)
      /\ \A x \in Keys : lastUse[x] \in Nat
  BY ListOperations
<1>2. Use(k) /\ capacity' = capacity
  BY DEF Put
<1>3. CASE Hit(k)
  <2> DEFINE s == Unlisted(k)
  <2>1. /\ s \in Seq(Keys) /\ Len(s) = Len(order) - 1 /\ ToSet(s) = DOMAIN items \ {k}
        /\ Sorted(s, lastUse)
    BY <1>3, ListOperations
  <2>2. order' = <<k>> \o s /\ items' = [items EXCEPT ![k] = v]
    BY <1>3 DEF Put, MoveToFront
  <2> HIDE DEF s
  <2>3. /\ <<k>> \o s \in Seq(Keys) /\ Len(<<k>> \o s) = Len(s) + 1
        /\ ToSet(<<k>> \o s) = ToSet(s) \cup {k}
        /\ Sorted(<<k>> \o s, lastUse')
        /\ clock' \in Nat /\ lastUse' \in Stamps
        /\ \A x \in Keys : lastUse'[x] <= clock'
    BY <1>2, <2>1, UsedInFront
  <2>4. DOMAIN items' = DOMAIN items /\ items' = [j \in DOMAIN items' |-> items'[j]]
    BY <2>2, CacheFacts
  <2>5. ToSet(s) \cup {k} = DOMAIN items
    BY <1>3, <2>1 DEF Hit
  <2>6. Len(order') <= capacity
    BY <2>1, <2>2, <2>3, CacheFacts
  <2> QED
    BY <1>2, <2>2, <2>3, <2>4, <2>5, <2>6
<1>4. CASE ~Hit(k)
  <2> DEFINE pushed == <<k>> \o order
  <2>1. k \notin ToSet(order)
    BY <1>1, <1>4 DEF Hit
  <2>2. /\ pushed \in Seq(Keys) /\ Len(pushed) = Len(order) + 1
        /\ ToSet(pushed) = ToSet(order) \cup {k}
        /\ Sorted(pushed, lastUse')
        /\ clock' \in Nat /\ lastUse' \in Stamps
        /\ \A x \in Keys : lastUse'[x] <= clock'
    BY <1>1, <1>2, <2>1, UsedInFront
  <2>3. \A x \in Keys \ {k} : lastUse'[x] = lastUse[x]
    BY <1>2, CacheFacts DEF Use, Stamps
  <2>4. pushed[1] = k /\ \A i \in 1 .. Len(order) : pushed[i + 1] = order[i]
    BY <1>1
  <2> HIDE DEF pushed
  <2>5. CASE Len(order) + 1 <= capacity
    <3>1. order' = pushed /\ items' = With(items, k, v)
      BY <1>4, <2>5, CacheFacts DEF Put, pushed
    <3>2. DOMAIN items' = DOMAIN items \cup {k} /\ items' = [j \in DOMAIN items' |-> items'[j]]
      BY <3>1 DEF With
    <3> QED
      BY <1>1, <1>2, <2>2, <2>5, <3>1, <3>2
  <2>6. CASE ~(Len(order) + 1 <= capacity)
    <3> DEFINE n == Len(order)
               last == order[n]
    <3>1. n = capacity /\ n \in 1 .. n /\ n \in Nat
      BY <2>6, CacheFacts
    <3>2. /\ order' = SubSeq(pushed, 1, n)
          /\ items' = With(Without({pushed[n + 1]}), k, v)
      <4>1. /\ order' = Front(pushed)
            /\ items' = With(Without({Last(pushed)}), k, v)
        BY <1>4, <2>6 DEF Put, pushed
      <4>2. Len(pushed) = n + 1 /\ Len(pushed) - 1 = n
        BY <2>2, <3>1
      <4>3. Front(pushed) = SubSeq(pushed, 1, n) /\ Last(pushed) = pushed[n + 1]
        BY <4>2 DEF Front, Last
      <4> QED
        BY <4>1, <4>3
    <3>3. pushed[n + 1] = last /\ last \in DOMAIN items
      BY <1>1, <2>4, <3>1, ElementsOf
    <3>4. /\ DOMAIN items' = (DOMAIN items \ {last}) \cup {k}
          /\ items' = [j \in DOMAIN items' |-> items'[j]]
      BY <3>2, <3>3 DEF With, Without, Restrict
    <3>5. \A x \in Keys : lastUse'[x] \in Nat
      BY <2>2 DEF Stamps
    <3>6. /\ order' \in Seq(Keys) /\ Len(order') = n /\ ToSet(order') \subseteq ToSet(pushed)
          /\ Sorted(order', lastUse')
          /\ \A i \in 1 .. n : order'[i] = pushed[i]
      <4>1. n \in 0 .. Len(pushed)
        BY <2>2, <3>1
      <4>2. \A i \in 1 .. n : SubSeq(pushed, 1, n)[i] = pushed[i]
        BY <2>2, <4>1
      <4> QED
        BY <2>2, <3>2, <3>5, <4>1, <4>2, PrefixSorted
    <3>7. ToSet(order') = DOMAIN items'
      <4>1. \A x \in ToSet(order') : \E i \in 1 .. n : pushed[i] = x
        BY <3>6, ElementsOf
      <4>2. \A i \in 1 .. n : pushed[i] \in ToSet(order')
        BY <3>6, ElementsOf
      <4>3. IsInjective(pushed) /\ IsInjective(order)
        BY <1>1, <2>2, <3>5, SortedIsInjective
      <4>4. \A i \in 1 .. n : pushed[i] # last
        BY <2>2, <3>1, <3>3, <4>3 DEF IsInjective
      <4>5. \A x \in ToSet(order') : x \in DOMAIN items'
        BY <1>1, <2>2, <3>4, <3>6, <4>1, <4>4
      <4>6. k \in ToSet(order')
        BY <2>4, <3>1, <4>2
      <4>7. ASSUME NEW x \in DOMAIN items \ {last} PROVE x \in ToSet(order')
        <5>1. PICK i \in 1 .. n : order[i] = x
          BY <1>1, ElementsOf
        <5>2. i + 1 \in 1 .. n /\ pushed[i + 1] = x
          BY <2>4, <3>1, <4>7, <5>1
        <5> QED
          BY <4>2, <5>2
      <4> QED
        BY <3>4, <4>5, <4>6, <4>7
    <3>8. ASSUME NEW g \in DOMAIN items \ DOMAIN items', NEW j \in DOMAIN items \cap DOMAIN items'
          PROVE  lastUse[g] < lastUse[j]
      <4>1. g = last /\ j # last
        BY <1>4, <3>4 DEF Hit
      <4>2. PICK i \in 1 .. n : order[i] = j
        BY <1>1, ElementsOf
      <4>3. i < n
        BY <3>1, <4>1, <4>2
      <4> QED
        BY <1>1, <3>1, <4>1, <4>2, <4>3 DEF Sorted
    <3> QED
      BY <1>2, <2>2, <3>1, <3>4, <3>6, <3>7, <3>8
  <2> QED
    BY <2>5, <2>6
<1> QED
  BY <1>3, <1>4

LEMMA PutStep == ASSUME CacheInv, NEW k \in Keys, NEW v, Put(k, v) PROVE CacheInv'
  BY CacheFacts, PutKeeps, SoundAgain

-----------------------------------------------------------------------------
(* Theorems about the cache, whoever uses it.                              *)

LEMMA CacheInvStep ==
  ASSUME NEW V, CacheInv, [CacheNext(V)]_cacheVars
  PROVE  CacheInv'
<1>1. CASE UNCHANGED cacheVars
  BY <1>1 DEF cacheVars, CacheInv, CacheTypeOK, MapMatchesList, RecencyOrder
<1> QED
  BY <1>1, GetStep, DeleteStep, PutStep, ResizeStep, ClearStep DEF CacheNext

LEMMA CacheInvariance == ASSUME NEW CONSTANT V PROVE CacheSpec(V) => []CacheInv
  BY CacheInvInit, CacheInvStep, PTL DEF CacheSpec

\* The map and the list of the cache never part, and it never outgrows the
\* capacity in force.
THEOREM CacheIsSound == ASSUME NEW CONSTANT V PROVE CacheSpec(V) => []MapMatchesList
<1>1. CacheInv => MapMatchesList
  BY DEF CacheInv
<1> QED
  BY <1>1, CacheInvariance, PTL

\* What a step may evict.
Evicts ==
    (capacity' < capacity \/ clock' > clock) =>
        \A g \in DOMAIN items \ DOMAIN items', k \in DOMAIN items \cap DOMAIN items' :
            lastUse[g] < lastUse[k]

LEMMA EvictsStep == ASSUME NEW V, CacheInv, [CacheNext(V)]_cacheVars PROVE Evicts
<1>1. CASE UNCHANGED cacheVars
  BY <1>1 DEF cacheVars, Evicts
<1>2. ASSUME NEW k \in Keys, Get(k) PROVE Evicts
  BY <1>2 DEF Get, Evicts
<1>3. ASSUME NEW k \in Keys, Delete(k) PROVE Evicts
  <2>1. capacity' = capacity /\ clock' = clock /\ clock \in Nat /\ capacity \in Int
    BY <1>3, CacheFacts DEF Delete
  <2> QED
    BY <2>1 DEF Evicts
<1>4. ASSUME NEW k \in Keys, NEW v, Put(k, v) PROVE Evicts
  BY <1>4, PutKeeps DEF Evicts
<1>5. ASSUME NEW c \in Capacities, Resize(c) PROVE Evicts
  BY <1>5, ResizeKeeps DEF Evicts
<1>6. ASSUME Clear PROVE Evicts
  <2>1. capacity' = capacity /\ clock' = clock /\ clock \in Nat /\ capacity \in Int
    BY <1>6, CacheFacts DEF Clear
  <2> QED
    BY <2>1 DEF Evicts
<1> QED
  BY <1>1, <1>2, <1>3, <1>4, <1>5, <1>6 DEF CacheNext

\* A shrinking Resize, or a Put into a full cache, drops what was used before
\* everything it keeps.
THEOREM OldestGoFirst == ASSUME NEW CONSTANT V PROVE CacheSpec(V) => EvictsOldest
<1>1. CacheInv /\ [CacheNext(V)]_cacheVars => [Evicts]_cacheVars
  BY EvictsStep
<1>2. [Evicts]_cacheVars =>
        [LET gone == DOMAIN items \ DOMAIN items'
             kept == DOMAIN items \cap DOMAIN items'
         IN (capacity' < capacity \/ clock' > clock) =>
              \A g \in gone, k \in kept : lastUse[g] < lastUse[k]]_cacheVars
  BY DEF Evicts
<1> QED
  BY <1>1, <1>2, CacheInvariance, PTL DEF CacheSpec, EvictsOldest

-----------------------------------------------------------------------------
(* The loop of dedupeStrings.                                              *)

KeepNew(out, x) == IF Contains(out, x) THEN out ELSE Append(out, x)

\* What the loop has done after m terms.
FirstOf(out, in, m) ==
    /\ \A i \in 1 .. m : \E j \in 1 .. Len(out) : out[j] = in[i]
    /\ \A j \in 1 .. Len(out) : \E i \in 1 .. m : in[i] = out[j]
    /\ \A i, j \in 1 .. Len(out) : i < j =>
         \E q \in 1 .. m : in[q] = out[i] /\ \A n \in 1 .. q : in[n] # out[j]

LEMMA KeepNewStep ==
  ASSUME NEW S, NEW in \in Seq(S), NEW m \in 0 .. Len(in) - 1,
         NEW out \in Seq(S), FirstOf(out, in, m)
  PROVE  /\ KeepNew(out, in[m + 1]) \in Seq(S)
         /\ FirstOf(KeepNew(out, in[m + 1]), in, m + 1)
<1> DEFINE x == in[m + 1]
<1>0. m + 1 \in 1 .. Len(in) /\ x \in S /\ \A i \in 1 .. m + 1 : i \in 1 .. m \/ i = m + 1
  OBVIOUS
<1> HIDE DEF x
<1>1. CASE Contains(out, x)
  <2>1. PICK j \in 1 .. Len(out) : out[j] = x
    BY <1>1 DEF Contains
  <2>2. \A i \in 1 .. m + 1 : \E u \in 1 .. Len(out) : out[u] = in[i]
    BY <1>0, <2>1 DEF FirstOf, x
  <2>3. \A u \in 1 .. Len(out) : \E i \in 1 .. m + 1 : in[i] = out[u]
    BY DEF FirstOf
  <2>4. FirstOf(out, in, m + 1)
    <3>1. \A i, u \in 1 .. Len(out) : i < u =>
            \E q \in 1 .. m + 1 : in[q] = out[i] /\ \A n \in 1 .. q : in[n] # out[u]
      BY DEF FirstOf
    <3> QED
      BY <2>2, <2>3, <3>1 DEF FirstOf
  <2> QED
    BY <1>1, <2>4 DEF KeepNew, x
<1>2. CASE ~Contains(out, x)
  <2> DEFINE new == Append(out, x)
  <2>1. /\ new \in Seq(S) /\ Len(new) = Len(out) + 1 /\ Len(out) \in Nat
        /\ \A i \in 1 .. Len(out) : new[i] = out[i]
        /\ new[Len(out) + 1] = x
    BY <1>0
  <2> HIDE DEF new
  <2>2. \A i \in 1 .. Len(new) : i \in 1 .. Len(out) \/ i = Len(out) + 1
    BY <2>1
  <2>3. \A i \in 1 .. m : in[i] # x
    BY <1>2 DEF FirstOf, Contains
  <2>4. \A i \in 1 .. m + 1 : \E j \in 1 .. Len(new) : new[j] = in[i]
    <3>1. ASSUME NEW i \in 1 .. m PROVE \E j \in 1 .. Len(new) : new[j] = in[i]
      <4>1. PICK j \in 1 .. Len(out) : out[j] = in[i]
        BY DEF FirstOf
      <4> QED
        BY <2>1, <4>1
    <3>2. \E j \in 1 .. Len(new) : new[j] = in[m + 1]
      BY <2>1 DEF x
    <3> QED
      BY <1>0, <3>1, <3>2
  <2>5. \A j \in 1 .. Len(new) : \E i \in 1 .. m + 1 : in[i] = new[j]
    <3>1. ASSUME NEW j \in 1 .. Len(out) PROVE \E i \in 1 .. m + 1 : in[i] = new[j]
      <4>1. PICK i \in 1 .. m : in[i] = out[j]
        BY DEF FirstOf
      <4> QED
        BY <2>1, <4>1
    <3> QED
      BY <2>1, <2>2, <3>1 DEF x
  <2>6. ASSUME NEW i \in 1 .. Len(new), NEW j \in 1 .. Len(new), i < j
        PROVE  \E q \in 1 .. m + 1 : in[q] = new[i] /\ \A n \in 1 .. q : in[n] # new[j]
    <3>1. i \in 1 .. Len(out)
      BY <2>1, <2>2, <2>6
    <3>2. CASE j \in 1 .. Len(out)
      <4>1. PICK q \in 1 .. m : in[q] = out[i] /\ \A n \in 1 .. q : in[n] # out[j]
        BY <2>6, <3>1, <3>2 DEF FirstOf
      <4>2. q \in 1 .. m + 1 /\ new[i] = out[i] /\ new[j] = out[j]
        BY <2>1, <3>1, <3>2
      <4> QED
        BY <4>1, <4>2
    <3>3. CASE j = Len(out) + 1
      <4>1. PICK q \in 1 .. m : in[q] = out[i]
        BY <3>1 DEF FirstOf
      <4>2. \A n \in 1 .. q : in[n] # x
        BY <2>3, <4>1
      <4> QED
        BY <2>1, <3>1, <3>3, <4>1, <4>2
    <3> QED
      BY <2>2, <3>2, <3>3
  <2>7. FirstOf(new, in, m + 1)
    BY <2>4, <2>5, <2>6 DEF FirstOf
  <2> QED
    BY <1>2, <2>1, <2>7 DEF KeepNew, x, new
<1> QED
  BY <1>1, <1>2

\* The loop does compute a sequence, and it is the one wanted.
LEMMA DedupeKeepsFirst ==
  ASSUME NEW S, NEW in \in Seq(S)
  PROVE  FirstOccurrences(dedupeStrings(in), in)
<1> DEFINE n == Len(in)
           F == [k \in 1 .. n |-> [d \in Seq(S) |-> KeepNew(d, in[k])]]
           Loop(f) == [k \in 0 .. n |-> IF k = 0 THEN <<>> ELSE KeepNew(f[k - 1], in[k])]
           kept == CHOOSE f : f = Loop(f)
           U == {m \in 0 .. n : kept[m] \in Seq(S) /\ FirstOf(kept[m], in, m)}
<1>0. n \in Nat
  OBVIOUS
<1>1. ASSUME NEW d \in Seq(S), NEW k \in 1 .. n
      PROVE  F[k][d] = KeepNew(d, in[k]) /\ F[k][d] \in Seq(S)
  <2>1. in[k] \in S /\ F[k][d] = KeepNew(d, in[k])
    OBVIOUS
  <2> HIDE DEF F
  <2> QED
    BY <2>1 DEF KeepNew
<1>2. Turns(F, Seq(S), n) /\ <<>> \in Seq(S)
  BY <1>1 DEF Turns
<1> HIDE DEF F
<1>3. \E f : Runs(f, F, <<>>, Seq(S), n)
  BY <1>0, <1>2, LoopRuns
<1>4. kept = Loop(kept)
  <2>1. PICK f : Runs(f, F, <<>>, Seq(S), n)
    BY <1>3
  <2>2. f[0] = <<>> /\ \A k \in 1 .. n : f[k] = KeepNew(f[k - 1], in[k])
    BY <1>1, <2>1 DEF Runs
  <2>3. f = [k \in 0 .. n |-> f[k]]
    BY <2>1 DEF Runs
  <2>4. \A k \in 0 .. n : k = 0 \/ k \in 1 .. n
    BY <1>0
  <2>5. f = Loop(f)
    BY <2>2, <2>3, <2>4
  <2> HIDE DEF Loop
  <2> QED
    BY <2>5
<1>5. dedupeStrings(in) = kept[n]
  BY DEF dedupeStrings, KeepNew
<1> HIDE DEF kept
<1>6. kept[0] = <<>> /\ \A k \in 0 .. n - 1 : kept[k + 1] = KeepNew(kept[k], in[k + 1])
  <2>1. \A k \in 0 .. n : kept[k] = Loop(kept)[k]
    BY <1>4
  <2> QED
    BY <1>0, <2>1
<1> HIDE DEF Loop
<1>7. 0 \in U
  <2>1. kept[0] = <<>> /\ <<>> \in Seq(S) /\ Len(<<>>) = 0
    BY <1>6
  <2>2. kept[0] \in Seq(S) /\ Len(kept[0]) = 0
    BY <2>1
  <2>3. FirstOf(kept[0], in, 0)
    BY <2>2 DEF FirstOf
  <2> QED
    BY <1>0, <2>2, <2>3
<1>8. ASSUME NEW m \in 0 .. n - 1, m \in U PROVE m + 1 \in U
  <2>1. m + 1 \in 0 .. n
    BY <1>0
  <2>2. kept[m + 1] = KeepNew(kept[m], in[m + 1])
    BY <1>6
  <2> QED
    BY <1>8, <2>1, <2>2, KeepNewStep
<1>9. n \in U
  <2> HIDE DEF U, n
  <2>1. \A k \in 0 .. n - 1 : k \in U => k + 1 \in U
    BY <1>8
  <2>2. \A m \in 0 .. n : m \in U
    BY <1>0, <1>7, <2>1, Induction
  <2> QED
    BY <1>0, <2>2
<1>10. kept[n] \in Seq(S) /\ FirstOf(kept[n], in, n)
  BY <1>9
<1> HIDE DEF U
<1>11. FirstOccurrences(kept[n], in)
  <2> DEFINE out == kept[n]
  <2>1. out \in Seq(S) /\ FirstOf(out, in, Len(in))
    BY <1>10
  <2> HIDE DEF out
  <2>2. \A x \in ToSet(out) : x \in ToSet(in)
    <3>1. \A j \in 1 .. Len(out) : \E i \in 1 .. Len(in) : in[i] = out[j]
      BY <2>1 DEF FirstOf
    <3> QED
      BY <2>1, <3>1 DEF ToSet
  <2>3. \A x \in ToSet(in) : x \in ToSet(out)
    <3>1. \A i \in 1 .. Len(in) : \E j \in 1 .. Len(out) : out[j] = in[i]
      BY <2>1 DEF FirstOf
    <3> QED
      BY <2>1, <3>1 DEF ToSet
  <2>4. DOMAIN out = 1 .. Len(out) /\ DOMAIN in = 1 .. Len(in)
    BY <2>1
  <2>5. FirstOccurrences(out, in)
    <3>1. ToSet(out) = ToSet(in)
      BY <2>2, <2>3
    <3>2. \A i, j \in 1 .. Len(out) : i < j =>
            \E m \in 1 .. Len(in) : in[m] = out[i] /\ \A q \in 1 .. m : in[q] # out[j]
      BY <2>1 DEF FirstOf
    <3>3. \A i, j \in DOMAIN out : i < j =>
            \E m \in DOMAIN in : in[m] = out[i] /\ \A q \in 1 .. m : in[q] # out[j]
      BY <2>4, <3>2
    <3> QED
      BY <3>1, <3>3 DEF FirstOccurrences
  <2> QED
    BY <2>5 DEF out
<1> QED
  BY <1>5, <1>11

-----------------------------------------------------------------------------
(* Engine.Plan over the cache, whoever else uses it.                       *)

\* The values the engine puts.
Plans == {Cached(QueryOf[r]) : r \in Requests}

CachePart == UNCHANGED cacheVars \/ CacheNext(Plans)

\* To the cache, a step of Plan is a use of its interface, or nothing.
LEMMA PlanStepUsesCache ==
  ASSUME [PlanNext \/ Beside]_planVars
  PROVE  CachePart
<1>1. ASSUME NEW r \in Requests, Lookup(r) PROVE CachePart
  BY <1>1, RequestsAssumption DEF Lookup, CacheNext, CachePart
<1>2. ASSUME NEW r \in Requests, Fill(r) PROVE CachePart
  BY <1>2, RequestsAssumption DEF Fill, CacheNext, CachePart, Plans
<1>3. ASSUME EngineStop PROVE CachePart
  BY <1>3 DEF EngineStop, CacheNext, CachePart
<1>4. ASSUME Tick PROVE CachePart
  BY <1>4 DEF Tick, CachePart
<1>5. ASSUME Beside PROVE CachePart
  BY <1>5 DEF Beside, CacheNext, CachePart
<1>6. ASSUME UNCHANGED planVars PROVE CachePart
  BY <1>6 DEF planVars, CachePart
<1> QED
  BY <1>1, <1>2, <1>3, <1>4, <1>5, <1>6 DEF PlanNext

\* What the cache holds after such a step it held before, but for a plan that
\* was just put.
LEMMA ItemsAfter ==
  /\ \A k \in Keys : Get(k) => items' = items
  /\ \A k \in Keys : Delete(k) =>
        \A j \in DOMAIN items' : j \in DOMAIN items /\ items'[j] = items[j]
  /\ \A k \in Keys, v \in Plans : Put(k, v) =>
        \A j \in DOMAIN items' : items'[j] = v \/ (j \in DOMAIN items /\ items'[j] = items[j])
  /\ \A c \in Capacities : Resize(c) =>
        \A j \in DOMAIN items' : j \in DOMAIN items /\ items'[j] = items[j]
  /\ Clear => DOMAIN items' = {}
<1>1. ASSUME NEW k \in Keys, NEW v \in Plans, Put(k, v)
      PROVE  \A j \in DOMAIN items' :
               items'[j] = v \/ (j \in DOMAIN items /\ items'[j] = items[j])
  <2>1. \/ items' = [items EXCEPT ![k] = v]
        \/ items' = With(items, k, v)
        \/ items' = With(Without({Last(<<k>> \o order)}), k, v)
    BY <1>1 DEF Put
  <2>2. ASSUME items' = [items EXCEPT ![k] = v]
        PROVE  \A j \in DOMAIN items' :
                 items'[j] = v \/ (j \in DOMAIN items /\ items'[j] = items[j])
    BY <2>2
  <2>3. ASSUME NEW map, items' = With(map, k, v),
               \A j \in DOMAIN map : j \in DOMAIN items /\ map[j] = items[j]
        PROVE  \A j \in DOMAIN items' :
                 items'[j] = v \/ (j \in DOMAIN items /\ items'[j] = items[j])
    BY <2>3 DEF With
  <2>4. \A S : \A j \in DOMAIN Without(S) : j \in DOMAIN items /\ Without(S)[j] = items[j]
    BY DEF Without, Restrict
  <2> QED
    BY <2>1, <2>2, <2>3, <2>4
<1>2. ASSUME NEW k \in Keys, Delete(k)
      PROVE  \A j \in DOMAIN items' : j \in DOMAIN items /\ items'[j] = items[j]
  BY <1>2 DEF Delete, Without, Restrict
<1>3. ASSUME NEW c \in Capacities, Resize(c)
      PROVE  \A j \in DOMAIN items' : j \in DOMAIN items /\ items'[j] = items[j]
  <2>1. \E S : items' = Without(S)
    BY <1>3 DEF Resize
  <2> QED
    BY <2>1 DEF Without, Restrict
<1> QED
  BY <1>1, <1>2, <1>3 DEF Get, Clear

LEMMA EntriesStep ==
  ASSUME Entries, [PlanNext \/ Beside]_planVars
  PROVE  Entries'
<1>1. CASE UNCHANGED cacheVars
  BY <1>1 DEF cacheVars, Entries
<1>2. CASE CacheNext(Plans)
  <2>1. ASSUME NEW k \in DOMAIN items' PROVE \E p \in Requests : items'[k] = Cached(QueryOf[p])
    <3>1. items'[k] \in Plans \/ (k \in DOMAIN items /\ items'[k] = items[k])
      BY <1>2, ItemsAfter DEF CacheNext
    <3> QED
      BY <3>1 DEF Entries, Plans
  <2> QED
    BY <2>1 DEF Entries
<1> QED
  BY <1>1, <1>2, PlanStepUsesCache DEF CachePart

LEMMA EqualToItself == ASSUME NEW q, IsQuery(q) PROVE Equal(q, q)
  BY DEF Equal, EqualParameters, EqualBound

LEMMA PlanStep ==
  ASSUME PlanInv, [PlanNext \/ Beside]_planVars
  PROVE  PlanTypeOK' /\ PlansTaken'
<1> DEFINE Made(r, q) == \E p \in Requests : /\ Equal(QueryOf[r], QueryOf[p])
                                            /\ q = Optimise(QueryOf[p])
           Stages == [Requests -> {"parsed", "missed", "planned"}]
<1>1. /\ stage \in Stages /\ plan = [r \in Requests |-> plan[r]] /\ now \in Nat
      /\ \A r \in Requests : stage[r] = "planned" => Made(r, plan[r])
  BY DEF PlanInv, PlanTypeOK, PlansTaken
<1>2. ASSUME NEW r \in Requests, NEW q, Planned(r, q), Made(r, q), UNCHANGED now
      PROVE  PlanTypeOK' /\ PlansTaken'
  <2>1. stage' = [stage EXCEPT ![r] = "planned"] /\ plan' = [plan EXCEPT ![r] = q]
    BY <1>2 DEF Planned
  <2>2. PlanTypeOK'
    BY <1>1, <1>2, <2>1 DEF PlanTypeOK
  <2>3. ASSUME NEW t \in Requests, stage'[t] = "planned" PROVE Made(t, plan'[t])
    <3>1. CASE t = r
      BY <1>1, <1>2, <2>1, <3>1
    <3>2. CASE t # r
      <4>1. stage[t] = "planned" /\ plan'[t] = plan[t]
        BY <1>1, <2>1, <2>3, <3>2
      <4> QED
        BY <1>1, <4>1
    <3> QED
      BY <3>1, <3>2
  <2> QED
    BY <2>2, <2>3 DEF PlansTaken
<1>3. ASSUME NEW r \in Requests, Lookup(r) PROVE PlanTypeOK' /\ PlansTaken'
  <2> DEFINE key == HashOf[QueryOf[r]]
  <2>1. CASE Hit(key) /\ Equal(QueryOf[r], items[key].parsed)
    <3>1. Planned(r, items[key].optimised) /\ UNCHANGED now
      BY <1>3, <2>1 DEF Lookup
    <3>2. PICK p \in Requests : items[key] = Cached(QueryOf[p])
      BY <2>1 DEF PlanInv, Entries, Hit
    <3>3. items[key].parsed = QueryOf[p] /\ items[key].optimised = Optimise(QueryOf[p])
      BY <3>2 DEF Cached
    <3> QED
      BY <1>2, <2>1, <3>1, <3>3
  <2>2. CASE ~(Hit(key) /\ Equal(QueryOf[r], items[key].parsed))
    <3>1. stage' = [stage EXCEPT ![r] = "missed"] /\ UNCHANGED <<plan, now>>
      BY <1>3, <2>2 DEF Lookup
    <3>2. PlanTypeOK'
      BY <1>1, <3>1 DEF PlanTypeOK
    <3>3. \A t \in Requests : stage'[t] = "planned" => stage[t] = "planned" /\ plan'[t] = plan[t]
      BY <1>1, <3>1
    <3> QED
      BY <1>1, <3>2, <3>3 DEF PlansTaken
  <2> QED
    BY <2>1, <2>2
<1>4. ASSUME NEW r \in Requests, Fill(r) PROVE PlanTypeOK' /\ PlansTaken'
  <2>1. Planned(r, Optimise(QueryOf[r])) /\ UNCHANGED now
    BY <1>4 DEF Fill
  <2>2. Made(r, Optimise(QueryOf[r]))
    BY RequestsAssumption, EqualToItself
  <2> QED
    BY <1>2, <2>1, <2>2
<1>5. CASE Tick
  <2>1. now' \in Nat /\ UNCHANGED <<stage, plan>>
    BY <1>1, <1>5 DEF Tick
  <2> QED
    BY <1>1, <2>1 DEF PlanTypeOK, PlansTaken
<1>6. CASE EngineStop \/ Beside \/ UNCHANGED planVars
  <2>1. UNCHANGED <<stage, plan, now>>
    BY <1>6 DEF EngineStop, Beside, planVars
  <2> QED
    BY <1>1, <2>1 DEF PlanTypeOK, PlansTaken
<1> QED
  BY <1>3, <1>4, <1>5, <1>6 DEF PlanNext

LEMMA PlanInvariance == SharedPlanSpec => []PlanInv
<1>1. PlanInit => PlanInv
  <2> SUFFICES ASSUME PlanInit PROVE PlanInv
    OBVIOUS
  <2>1. CacheInv
    BY CacheInvInit DEF PlanInit
  <2>2. PlanTypeOK /\ PlansTaken
    BY DEF PlanInit, PlanTypeOK, PlansTaken
  <2>3. Entries
    BY DEF PlanInit, CacheInit, NewLRUCache, Entries
  <2> QED
    BY <2>1, <2>2, <2>3 DEF PlanInv
<1>2. PlanInv /\ [PlanNext \/ Beside]_planVars => PlanInv'
  <2> SUFFICES ASSUME PlanInv, [PlanNext \/ Beside]_planVars PROVE PlanInv'
    OBVIOUS
  <2>1. CacheInv' /\ Entries'
    BY PlanStepUsesCache, CacheInvStep, EntriesStep DEF PlanInv, CachePart
  <2> QED
    BY <2>1, PlanStep DEF PlanInv
<1> QED
  BY <1>1, <1>2, PTL DEF SharedPlanSpec

\* An equal query's plan does what the request asked.
LEMMA EqualPlansAlike ==
  ASSUME NEW q, NEW p, IsQuery(q), IsQuery(p), Equal(q, p)
  PROVE  LET o == Optimise(p)
         IN /\ o.graph = q.graph /\ o.write = q.write
            /\ o.top = q.top /\ o.depth = q.depth /\ o.since = q.since /\ o.until = q.until
            /\ \A l \in Lists : IF q.write THEN o.lists[l] = q.lists[l]
                                ELSE FirstOccurrences(o.lists[l], q.lists[l])
<1>1. /\ p.graph = q.graph /\ p.write = q.write /\ p.top = q.top /\ p.depth = q.depth
      /\ \A l \in Lists : p.lists[l] = q.lists[l] /\ q.lists[l] \in Seq(ToSet(q.lists[l]))
  BY DEF Equal, EqualParameters, IsQuery
<1>2. p.since = q.since /\ p.until = q.until
  <2>1. /\ IsBound(p.since) /\ IsBound(q.since) /\ EqualBound(q.since, p.since)
        /\ IsBound(p.until) /\ IsBound(q.until) /\ EqualBound(q.until, p.until)
    BY DEF Equal, EqualParameters, IsQuery
  <2>2. ASSUME NEW b, NEW c, IsBound(b), IsBound(c), EqualBound(b, c) PROVE c = b
    BY <2>2 DEF EqualBound, IsBound
  <2> QED
    BY <2>1, <2>2
<1>3. DOMAIN p = {"graph", "write", "top", "depth", "since", "until", "lists"}
  BY DEF IsQuery
<1>4. CASE q.write
  BY <1>1, <1>2, <1>4 DEF Optimise, Dedupe
<1>5. CASE ~q.write
  <2> DEFINE deduped == [l \in Lists |-> dedupeStrings(p.lists[l])]
             o == [p EXCEPT !.lists = deduped]
  <2>1. Optimise(p) = o
    BY <1>1, <1>5 DEF Optimise, Dedupe
  <2>2. \A l \in Lists : deduped[l] = dedupeStrings(q.lists[l])
    BY <1>1
  <2> HIDE DEF deduped
  <2>3. /\ o.lists = deduped
        /\ o.graph = p.graph /\ o.write = p.write
        /\ o.top = p.top /\ o.depth = p.depth /\ o.since = p.since /\ o.until = p.until
    BY <1>3
  <2> HIDE DEF o
  <2>4. \A l \in Lists : FirstOccurrences(o.lists[l], q.lists[l])
    BY <1>1, <2>2, <2>3, DedupeKeepsFirst
  <2> QED
    BY <1>1, <1>2, <1>5, <2>1, <2>3, <2>4
<1> QED
  BY <1>1, <1>4, <1>5 DEF IsQuery

\* Whatever hashes collide, whoever filled, evicted or cleared an entry and
\* whenever the stream runs, the plan a request gets asks what it asked.
THEOREM PlansAreOwn == SharedPlanSpec => []PlanIsOwn
<1>1. ASSUME PlanInv PROVE PlanIsOwn
  <2> SUFFICES ASSUME NEW r \in Requests, stage[r] = "planned"
               PROVE  LET q == QueryOf[r]
                      IN /\ plan[r].graph = q.graph /\ plan[r].write = q.write
                         /\ \A l \in Lists : IF q.write THEN plan[r].lists[l] = q.lists[l]
                                             ELSE FirstOccurrences(plan[r].lists[l], q.lists[l])
                         /\ plan[r].top = q.top /\ plan[r].depth = q.depth
                         /\ \A b \in {"since", "until"} :
                              CASE q[b].type = "relative" -> Window(plan[r], now)[b] = now - q[b].n
                                [] q[b].type = "absolute" -> Window(plan[r], now)[b] = q[b].n
                                [] q[b].type = "nil" -> plan[r][b] = NoBound
    BY DEF PlanIsOwn
  <2>1. PICK p \in Requests : Equal(QueryOf[r], QueryOf[p]) /\ plan[r] = Optimise(QueryOf[p])
    BY <1>1 DEF PlanInv, PlansTaken
  <2> DEFINE q == QueryOf[r]
  <2>2. IsQuery(q) /\ IsQuery(QueryOf[p])
    BY RequestsAssumption
  <2>3. /\ plan[r].graph = q.graph /\ plan[r].write = q.write
        /\ \A l \in Lists : IF q.write THEN plan[r].lists[l] = q.lists[l]
                            ELSE FirstOccurrences(plan[r].lists[l], q.lists[l])
        /\ plan[r].top = q.top /\ plan[r].depth = q.depth
        /\ plan[r].since = q.since /\ plan[r].until = q.until
    BY <2>1, <2>2, EqualPlansAlike
  <2> HIDE DEF q
  <2>4. ASSUME NEW b \in {"since", "until"}
        PROVE  CASE q[b].type = "relative" -> Window(plan[r], now)[b] = now - q[b].n
                 [] q[b].type = "absolute" -> Window(plan[r], now)[b] = q[b].n
                 [] q[b].type = "nil" -> plan[r][b] = NoBound
    <3>1. plan[r][b] = q[b] /\ IsBound(q[b])
      BY <2>2, <2>3 DEF IsQuery
    <3>2. Window(plan[r], now)[b] = Resolve(q[b], now)
      BY <3>1 DEF Window
    <3>3. q[b].type \in {"relative", "absolute", "nil"}
      BY <3>1 DEF IsBound
    <3>4. q[b].type = "nil" => q[b] = NoBound
      BY <3>1 DEF IsBound, NoBound
    <3> QED
      BY <3>1, <3>2, <3>3, <3>4 DEF Resolve
  <2> QED
    BY <2>3, <2>4 DEF q
<1> QED
  BY <1>1, PlanInvariance, PTL

\* The engine is one of those callers, so its cache is sound and evicts the
\* oldest.
THEOREM EnginesCacheIsSound == SharedPlanSpec => []MapMatchesList /\ EvictsOldest
<1>1. PlanInit => CacheInit
  BY DEF PlanInit
<1>2. [PlanNext \/ Beside]_planVars => [CacheNext(Plans)]_cacheVars
  BY PlanStepUsesCache DEF CachePart
<1>3. SharedPlanSpec => CacheSpec(Plans)
  BY <1>1, <1>2, PTL DEF SharedPlanSpec, CacheSpec
<1>4. CacheSpec(Plans) => []MapMatchesList
  BY CacheIsSound
<1>5. CacheSpec(Plans) => EvictsOldest
  BY OldestGoFirst
<1> QED
  BY <1>3, <1>4, <1>5, PTL
=============================================================================
