---------------------------- MODULE VectorIndex ----------------------------
(***************************************************************************)
(* The vector index of internal/index/rptree.go over random-projection     *)
(* trees (internal/containers/trees/rptree.go).                            *)
(*                                                                         *)
(* The trees cannot delete or replace, so the vectors map is the truth and *)
(* the trees keep stale copies until a rebuild.  Every tree holds the same *)
(* copies; they differ in the leaves a walk reads first, which depends on  *)
(* random projections and is a nondeterministic choice here.  A vector is  *)
(* a point on a line with the dimension it claims.  Writes run under the   *)
(* graph's write lock, one action each; a search changes nothing.          *)
(***************************************************************************)
EXTENDS Integers, SequencesExt, FiniteSetsExt, Bags

CONSTANTS
    Keys,          \* ordered as integers
    Vectors,       \* the vectors callers send: [dim, x]
    Queries,       \* the points searched for
    Trees,
    FlushFactor,   \* entries per live vector that a tree may hold
    Overfetch      \* candidates a walk gathers per result

\* A key and a point stand for what the comparator and Distance order.
ASSUME PointsAssumption ==
    Keys \subseteq Int /\ Queries \subseteq Int /\ \A v \in Vectors : v.x \in Int
ASSUME FlushFactorAssumption == FlushFactor \in Nat \ {0}
ASSUME OverfetchAssumption == Overfetch \in Nat \ {0}
\* adjust gives the index a tree if the configuration names none.
ASSUME TreesAssumption == Trees # {}

VARIABLES
    vectors,       \* live vectors
    forest,        \* the bag of copies every tree holds
    entries,       \* how many they are: the count each tree keeps
    dim            \* 0 until the first Insert

vectorVars == <<vectors, forest, entries, dim>>

Copy(key, v) == [key |-> key, vector |-> v]

-----------------------------------------------------------------------------
(* Writes.                                                                 *)

\* NewGraph asks for dimension 0, which defers the forest.
VectorInit == vectors = <<>> /\ forest = EmptyBag /\ entries = 0 /\ dim = 0

\* A new forest of the live vectors alone.
Rebuild(live) ==
    /\ forest' = SetToBag({Copy(key, live[key]) : key \in DOMAIN live})
    /\ entries' = Cardinality(DOMAIN live)

OvergrownLate(live, count) ==      \* faulty: off by one
    count > FlushFactor * (Cardinality(DOMAIN live) + 1)

\* A tree holds more than FlushFactor entries per live vector.
Overgrown(live, count) == count > FlushFactor * Cardinality(DOMAIN live)

\* The trees come to hold count copies, unless that is too many.
MaybeFlush(live, copies, count) ==
    \/ Overgrown(live, count) /\ Rebuild(live)
    \/ ~Overgrown(live, count) /\ forest' = copies /\ entries' = count

With(key, v) == [k \in DOMAIN vectors \cup {key} |-> IF k = key THEN v ELSE vectors[k]]

InsertRefused(key, v) ==
    /\ v.dim = 0 \/ (dim # 0 /\ v.dim # dim)
    /\ UNCHANGED vectorVars

\* An equal vector under the key adds nothing; any other is the new live one,
\* and its old copy stays behind.
InsertVector(key, v) ==
    /\ v.dim # 0 /\ dim \in {0, v.dim}
    /\ dim' = v.dim
    /\ \/ /\ key \in DOMAIN vectors /\ vectors[key] = v
          /\ UNCHANGED <<vectors, forest, entries>>
       \/ /\ ~ (key \in DOMAIN vectors /\ vectors[key] = v)
          /\ vectors' = With(key, v)
          /\ MaybeFlush(vectors', forest (+) SetToBag({Copy(key, v)}), entries + 1)

UpdateVector(key, v) == key \in DOMAIN vectors /\ InsertVector(key, v)

\* The dimension stays, whatever is deleted.
DeleteVector(key) ==
    /\ key \in DOMAIN vectors
    /\ vectors' = Restrict(vectors, DOMAIN vectors \ {key})
    /\ MaybeFlush(vectors', forest, entries)
    /\ UNCHANGED dim

FlushForest ==
    /\ Rebuild(vectors)
    /\ UNCHANGED <<vectors, dim>>

VectorNext ==
    \/ \E key \in Keys, v \in Vectors : InsertVector(key, v) \/ UpdateVector(key, v) \/ InsertRefused(key, v)
    \/ \E key \in Keys : DeleteVector(key)
    \/ FlushForest

VectorSpec == VectorInit /\ [][VectorNext]_vectorVars

-----------------------------------------------------------------------------
(* Search.                                                                 *)

Distance(q, v) == IF q < v.x THEN v.x - q ELSE q - v.x

CopyDistances(q, S, key) == {Distance(q, c.vector) : c \in {c \in S : c.key = key}}

PooledAtFarthest(q, k, S) ==          \* faulty: a stale copy speaks for its key
    LET keys == {c.key : c \in S}
        at(key) == Max(CopyDistances(q, S, key))
    IN {out \in kSubset(Min({k, Cardinality(keys)}), keys) :
          \A a \in out, b \in keys \ out : at(a) <= at(b)}

\* Each key competes at its nearest copy for the k places of the pool; which
\* of two ties keeps a place depends on the heap.
Pooled(q, k, S) ==
    LET keys == {c.key : c \in S}
        at(key) == Min(CopyDistances(q, S, key))
    IN {out \in kSubset(Min({k, Cardinality(keys)}), keys) :
          \A a \in out, b \in keys \ out : at(a) <= at(b)}

Accepted(keep) == {c \in BagToSet(forest) : c.key \in keep}
Gathered(S) == BagCardinality(Restrict(forest, S))

\* One tree's answer, from what its walk met.  The walk stops once it holds
\* Overfetch accepted copies per result, or has read every leaf.
Nearest(q, k, keep) ==
    LET walks == {S \in SUBSET Accepted(keep) :
                    S = Accepted(keep) \/ Gathered(S) >= k * Overfetch}
    IN UNION {Pooled(q, k, S) : S \in walks}

Nearer(q, a, b) ==
    LET da == Distance(q, vectors[a])
        db == Distance(q, vectors[b])
    IN da < db \/ (da = db /\ a < b)

\* The keys in S from the nearest to the farthest.
ByDistance(q, S) ==
    CHOOSE s \in [1 .. Cardinality(S) -> S] :
        \A i, j \in DOMAIN s : i < j => Nearer(q, s[i], s[j])

\* Re-ranking by the distance to the live vector, ties by key.
Ranked(q, k, keys) ==
    LET all == ByDistance(q, keys \cap DOMAIN vectors)
    IN IF k <= 0 \/ Len(all) <= k THEN all ELSE SubSeq(all, 1, k)

\* The readings a search may return.  k <= 0 asks for every match and reads
\* the live vectors themselves.
Read(q, k, keep) ==
    IF k <= 0 THEN {Ranked(q, 0, DOMAIN vectors \cap keep)}
    ELSE {Ranked(q, k, UNION Range(f)) : f \in [Trees -> Nearest(q, k, keep)]}

-----------------------------------------------------------------------------
(* Properties.                                                             *)

(* The forest never loses a live vector: each has a copy at its current     *)
(* place, however many moves, deletes and rebuilds came before; Entries is  *)
(* at most FlushFactor times Count, as its comment says; and every vector   *)
(* has the index's dimension, stale copies included, so no distance is ever *)
(* taken between two lengths.                                               *)
ForestHoldsLive ==
    /\ DOMAIN vectors \subseteq Keys
    /\ \A key \in DOMAIN vectors : BagIn(Copy(key, vectors[key]), forest)
    /\ entries <= FlushFactor * Cardinality(DOMAIN vectors)
    /\ \A v \in Range(vectors) \cup {c.vector : c \in BagToSet(forest)} : v.dim = dim

\* What makes the forest's promise inductive.
VectorInv ==
    /\ IsFiniteSet(DOMAIN vectors) /\ IsFiniteSet(DOMAIN forest)
    /\ \A key \in DOMAIN vectors : vectors[key] \in Vectors
    /\ \A c \in DOMAIN forest : c.vector \in Vectors
    /\ entries \in Nat
    /\ dim = 0 => DOMAIN vectors = {} /\ DOMAIN forest = {}
    /\ ForestHoldsLive

\* No walk holds enough before it has met every copy that keep accepts, as in
\* a tree of up to k * Overfetch entries.
ReadsEverything(k, keep) ==
    \A S \in SUBSET Accepted(keep) : Gathered(S) >= k * Overfetch => S = Accepted(keep)

Live(keep) == DOMAIN vectors \cap keep

\* Other keys with a copy, live or stale, as near to q as the live vector of key.
CrowdedBy(q, key, keep) ==
    {c.key : c \in {c \in Accepted(keep) :
       c.key # key /\ Distance(q, c.vector) <= Distance(q, vectors[key])}}

FoundUnlessCrowded(q, k, keep) ==
    ReadsEverything(k, keep) =>
      \A out \in Read(q, k, keep), key \in Live(keep) :
         key \in ToSet(out) \/ Cardinality(CrowdedBy(q, key, keep)) >= k

(* A search whose walks read everything misses a live key only when k other  *)
(* keys have a copy as near: the key's own stale copies, and copies farther  *)
(* away than its live vector, never cost it its place (Nearest's pool and    *)
(* read's ranking, after any inserts, moves, deletes and rebuilds).          *)
FoundUnlessCrowdedOut ==
    \A q \in Queries, k \in 1 .. 2, keep \in {Keys, Keys \ {1}} : FoundUnlessCrowded(q, k, keep)

=============================================================================
