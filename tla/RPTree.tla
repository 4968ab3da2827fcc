------------------------------- MODULE RPTree -------------------------------
(***************************************************************************)
(* One random-projection tree (internal/containers/trees/rptree.go) kept   *)
(* in step with the vector index that owns it.                             *)
(*                                                                         *)
(* VectorIndex knows a tree as the bag of its copies and a walk as any     *)
(* large enough part of it; here the tree has its leaves and splits, and   *)
(* the walk is the code's: down the near sides, deferring the far ones.    *)
(* A point lies on a line, so a row of the projection is the factor it     *)
(* applies to the point's coordinate.  Which row a split draws, and how    *)
(* its unstable sort leaves ties, is nondeterministic.                     *)
(***************************************************************************)
EXTENDS VectorIndex, Heap

CONSTANTS
    Rows,          \* the projection: factors, 0 for a direction across the line
    LeafSize,
    TreeKeys       \* bound: the keys written while the tree is kept

ASSUME TreeAssumption == LeafSize \in Nat \ {0} /\ TreeKeys \subseteq Keys

VARIABLE tree      \* a leaf, [data], or an inner node, [row, val, left, right]

treeVars == <<vectorVars, tree>>

\* The first Insert makes the forest, with the dimension.
NoTree == <<>>
LeafOf(data) == [data |-> data]
isDataLeaf(n) == "data" \in DOMAIN n
ApplyRow(x, row) == row * x

-----------------------------------------------------------------------------
(* Insert.                                                                 *)

goesLeft(n, x) == ApplyRow(x, n.row) < n.val

\* The orders a sort by projected coordinate may leave.
Sorted(data, row) ==
    {s \in {[i \in DOMAIN data |-> data[f[i]]] : f \in Permutations(DOMAIN data)} :
       \A i \in 2 .. Len(data) :
          ApplyRow(s[i - 1].vector.x, row) <= ApplyRow(s[i].vector.x, row)}

\* Halves of the sorted points, whatever repeats; the threshold is the first
\* coordinate of the right half.
split(data) ==
    LET mid == Len(data) \div 2
        halves(s, row) == [row |-> row,
                           val |-> ApplyRow(s[mid + 1].vector.x, row),
                           left |-> LeafOf(SubSeq(s, 1, mid)),
                           right |-> LeafOf(SubSeq(s, mid + 1, Len(s)))]
    IN UNION {{halves(s, row) : s \in Sorted(data, row)} : row \in Rows}

\* The trees n may become when c is routed to its leaf.
RECURSIVE insert(_, _)
insert(n, c) ==
    IF ~isDataLeaf(n) THEN
      IF goesLeft(n, c.vector.x) THEN {[n EXCEPT !.left = m] : m \in insert(n.left, c)}
      ELSE {[n EXCEPT !.right = m] : m \in insert(n.right, c)}
    ELSE IF Len(n.data) < LeafSize THEN {LeafOf(Append(n.data, c))}
    ELSE split(Append(n.data, c))

\* RPTreeIndex.Flush: the live vectors in key order into an empty tree.
Rebuilt(live) ==
    FoldLeft(LAMBDA T, key : UNION {insert(t, Copy(key, live[key])) : t \in T},
             {LeafOf(<<>>)}, SetToSortSeq(DOMAIN live, <))

-----------------------------------------------------------------------------
(* Nearest.                                                                *)

Deviation(n, q) ==
    LET d == ApplyRow(q, n.row) - n.val IN IF d < 0 THEN -d ELSE d

\* From n to a leaf: its contents, and the subtrees turned away from.
RECURSIVE descend(_, _, _)
descend(n, q, deferred) ==
    IF isDataLeaf(n) THEN [data |-> n.data, deferred |-> deferred]
    ELSE LET near == IF goesLeft(n, q) THEN n.left ELSE n.right
             far == IF goesLeft(n, q) THEN n.right ELSE n.left
         IN descend(near, q, Append(deferred, [node |-> far, deviation |-> Deviation(n, q)]))

RECURSIVE probe(_, _, _, _, _)
probe(q, budget, keep, candidates, deferred) ==
    LET best == CHOOSE i \in DOMAIN deferred :
                  \A j \in DOMAIN deferred :
                     \/ deferred[i].deviation < deferred[j].deviation
                     \/ deferred[i].deviation = deferred[j].deviation /\ i <= j
        next == descend(deferred[best].node, q, RemoveAt(deferred, best))
        admitted == SelectSeq(next.data, LAMBDA c : c.key \in keep)
    IN IF Len(candidates) >= budget \/ deferred = <<>> THEN candidates
       ELSE probe(q, budget, keep, candidates \o admitted, next.deferred)

Candidates(q, k, keep) ==
    probe(q, k * Overfetch, keep, <<>>, <<[node |-> tree, deviation |-> 0]>>)

ItemOf(q, c) == [key |-> c.key, priority |-> Distance(q, c.vector), value |-> c]

everyCopy(q, candidates) ==          \* faulty: a key may enter more than once
    [i \in DOMAIN candidates |-> ItemOf(q, candidates[i])]

\* Each key enters the pool once, at its nearest copy, in candidate order.
nearestCopies(q, candidates) ==
    FoldLeft(LAMBDA items, c :
               LET seen == {i \in DOMAIN items : items[i].key = c.key}
                   item == ItemOf(q, c)
               IN IF seen = {} THEN Append(items, item)
                  ELSE [i \in DOMAIN items |->
                          IF i \in seen /\ item.priority < items[i].priority
                            THEN item ELSE items[i]],
             <<>>, candidates)

\* The pool: a queue of at most k items with the farthest on top.
pool(k, items) ==
    FoldLeft(LAMBDA h, item :
               IF Len(h.items) < k THEN Pushed(h, item)
               ELSE IF item.priority < h.items[1].priority THEN Pushed(Popped(h), item)
               ELSE h,
             NewHeapCap(<<>>), items)

RECURSIVE drain(_)
drain(h) == IF h.items = <<>> THEN <<>> ELSE Append(drain(Popped(h)), h.items[1].value)

TreeNearest(q, k, keep) == drain(pool(k, nearestCopies(q, Candidates(q, k, keep))))

RECURSIVE LeavesOf(_)
LeavesOf(n) == IF isDataLeaf(n) THEN n.data ELSE LeavesOf(n.left) \o LeavesOf(n.right)

\* RPTree.Range: the copies in a box, read off the leaves.
TreeRange(lo, hi) ==
    SelectSeq(LeavesOf(tree), LAMBDA c : c.vector.x >= lo /\ c.vector.x <= hi)

-----------------------------------------------------------------------------
(* The index's writes, with the tree.                                      *)

TreeInit == VectorInit /\ tree = NoTree

TreeOrNew == IF tree = NoTree THEN LeafOf(<<>>) ELSE tree

TreeInsert(key, v) ==
    /\ InsertVector(key, v)
    /\ \/ vectors' = vectors /\ UNCHANGED tree
       \/ /\ vectors' # vectors /\ ~Overgrown(vectors', entries + 1)
          /\ tree' \in insert(TreeOrNew, Copy(key, v))
       \/ /\ vectors' # vectors /\ Overgrown(vectors', entries + 1)
          /\ tree' \in Rebuilt(vectors')

TreeDelete(key) ==
    /\ DeleteVector(key)
    /\ \/ ~Overgrown(vectors', entries) /\ UNCHANGED tree
       \/ Overgrown(vectors', entries) /\ tree' \in Rebuilt(vectors')

TreeFlush ==
    /\ FlushForest
    /\ tree' \in IF tree = NoTree THEN {tree} ELSE Rebuilt(vectors)

TreeRefused(key, v) == InsertRefused(key, v) /\ UNCHANGED tree

TreeNext ==
    \/ \E key \in TreeKeys : TreeDelete(key)
    \/ \E key \in TreeKeys, v \in Vectors : TreeInsert(key, v) \/ TreeRefused(key, v)
    \/ TreeFlush

TreeSpec == TreeInit /\ [][TreeNext]_treeVars

-----------------------------------------------------------------------------

BagOf(s) == [c \in ToSet(s) |-> Cardinality({i \in DOMAIN s : s[i] = c})]

(* The tree's leaves hold the copies the index counts on, as many as it     *)
(* counts, each once per Insert, through every split.  What the walk and    *)
(* its pool answer is one of the answers VectorIndex allows a tree, nearest *)
(* first: the probes reach every leaf, and a key with several copies takes  *)
(* one place, at the nearest one the walk met.                              *)
TreeWalksAreReadings ==
    tree # NoTree =>
    /\ BagOf(LeavesOf(tree)) = forest /\ Len(LeavesOf(tree)) = entries
    /\ \A q \in Queries, k \in {1, 2}, keep \in {Keys, Keys \ {1}} :
         LET out == TreeNearest(q, k, keep)
         IN /\ {c.key : c \in ToSet(out)} \in Nearest(q, k, keep)
            /\ \A c \in ToSet(out), d \in ToSet(Candidates(q, k, keep)) : c.key = d.key =>
                 Distance(q, c.vector) <= Distance(q, d.vector)
            /\ \A i, j \in DOMAIN out : i < j =>
                 /\ out[i].key # out[j].key
                 /\ Distance(q, out[i].vector) <= Distance(q, out[j].vector)
    /\ \A lo, hi \in Queries : BagOf(TreeRange(lo, hi)) =
         Restrict(forest, {c \in BagToSet(forest) : lo <= c.vector.x /\ c.vector.x <= hi})

(* What rptree_test.go:343 pins of an index with one tree, for a search that *)
(* reads all of it: "a key whose live vector is nearest is returned, whatever *)
(* stale copies the forest holds".                                           *)
NearestIsFound ==
    tree # NoTree =>
    \A q \in Queries, k \in {1, 2} : ReadsEverything(k, Keys) =>
      LET out == Ranked(q, k, {c.key : c \in ToSet(TreeNearest(q, k, Keys))})
      IN \A key \in DOMAIN vectors :
           (\A other \in DOMAIN vectors \ {key} :
              Distance(q, vectors[key]) < Distance(q, vectors[other])) => key \in ToSet(out)
=============================================================================
