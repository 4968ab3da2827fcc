------------------------------- MODULE BTree -------------------------------
(***************************************************************************)
(* The ordered container of internal/containers/trees/btree.go.            *)
(*                                                                         *)
(* A node is its sorted values and its children, none in a leaf and one    *)
(* more than it has values otherwise.  Values are integers under their own *)
(* order.  Positions count from 1 where the code counts from 0: child i    *)
(* lies before value i.  The tree is owned by one goroutine, so each       *)
(* operation is one action, its descent a recursion.                       *)
(***************************************************************************)
EXTENDS Integers, SequencesExt, FiniteSetsExt

CONSTANTS
    TreeValues,    \* the values inserted, deleted and looked up
    Degree         \* minimum degree

ASSUME DegreeAssumption == Degree \in Nat /\ Degree >= 2

VARIABLES
    btree,         \* [root, length]
    stored,        \* history: the values inserted and not deleted
    panicked       \* an index was out of range

btreeVars == <<btree, stored, panicked>>

Leaf(values) == [values |-> values, children |-> <<>>]
NewBTree == [root |-> Leaf(<<>>), length |-> 0]

isLeaf(n) == n.children = <<>>
maxValues == 2 * Degree - 1
minValues == Degree - 1

\* The position of v, or of the first greater value.
find(n, v) == Cardinality({i \in DOMAIN n.values : n.values[i] < v}) + 1
Holds(n, v) == find(n, v) <= Len(n.values) /\ n.values[find(n, v)] = v

RECURSIVE Find(_, _)
Find(n, v) == Holds(n, v) \/ (~isLeaf(n) /\ Find(n.children[find(n, v)], v))

RECURSIVE Values(_)
Values(n) ==
    IF isLeaf(n) THEN n.values
    ELSE FlattenSeq([i \in DOMAIN n.values |-> Append(Values(n.children[i]), n.values[i])])
         \o Values(Last(n.children))

-----------------------------------------------------------------------------
(* Insert.                                                                 *)

\* The full child i becomes two, around its median, which moves up.
splitChild(n, i) ==
    LET child == n.children[i]
        part(f, l) == [values |-> SubSeq(child.values, f, l),
                       children |-> IF isLeaf(child) THEN <<>>
                                    ELSE SubSeq(child.children, f, l + 1)]
    IN [values |-> InsertAt(n.values, i, child.values[Degree]),
        children |-> InsertAt([n.children EXCEPT ![i] = part(1, Degree - 1)],
                              i + 1, part(Degree + 1, maxValues))]

\* The subtree n with v in it, if it was not.
RECURSIVE insertNonFull(_, _)
insertNonFull(n, v) ==
    LET i == find(n, v)
        full == Len(n.children[i].values) = maxValues
        m == IF full THEN splitChild(n, i) ELSE n
        j == IF full /\ v > m.values[i] THEN i + 1 ELSE i
    IN IF Holds(n, v) THEN n
       ELSE IF isLeaf(n) THEN Leaf(InsertAt(n.values, i, v))
       ELSE IF full /\ v = m.values[i] THEN m
       ELSE [m EXCEPT !.children[j] = insertNonFull(m.children[j], v)]

\* A full root is split before it is known whether v is a duplicate.
Insert(v) ==
    LET root == IF Len(btree.root.values) = maxValues
                  THEN splitChild([values |-> <<>>, children |-> <<btree.root>>], 1)
                  ELSE btree.root
        duplicate == Find(btree.root, v)
    IN /\ btree' = [root |-> insertNonFull(root, v),
                    length |-> btree.length + (IF duplicate THEN 0 ELSE 1)]
       /\ stored' = stored \cup {v}
       /\ UNCHANGED panicked

-----------------------------------------------------------------------------
(* Delete.                                                                 *)

RECURSIVE max(_)
max(n) == IF isLeaf(n) THEN Last(n.values) ELSE max(Last(n.children))

RECURSIVE min(_)
min(n) == IF isLeaf(n) THEN Head(n.values) ELSE min(Head(n.children))

mergeChildren(n, i) ==
    LET left == n.children[i]
        right == n.children[i + 1]
        one == [values |-> Append(left.values, n.values[i]) \o right.values,
                children |-> left.children \o right.children]
    IN [values |-> RemoveAt(n.values, i),
        children |-> RemoveAt([n.children EXCEPT ![i] = one], i + 1)]

borrowFromLeftForgets(n, i) ==       \* faulty: the last child stays behind
    LET child == n.children[i]
        left == n.children[i - 1]
    IN [values |-> [n.values EXCEPT ![i - 1] = Last(left.values)],
        children |-> [n.children EXCEPT
            ![i] = [@ EXCEPT !.values = <<n.values[i - 1]>> \o @],
            ![i - 1] = [@ EXCEPT !.values = Front(@)]]]

borrowFromLeft(n, i) ==
    LET child == n.children[i]
        left == n.children[i - 1]
        lent == IF isLeaf(left) THEN <<>> ELSE <<Last(left.children)>>
    IN [values |-> [n.values EXCEPT ![i - 1] = Last(left.values)],
        children |-> [n.children EXCEPT
            ![i] = [values |-> <<n.values[i - 1]>> \o child.values,
                    children |-> lent \o child.children],
            ![i - 1] = [values |-> Front(left.values),
                        children |-> SubSeq(left.children, 1, Len(left.children) - 1)]]]

borrowFromRight(n, i) ==
    LET child == n.children[i]
        right == n.children[i + 1]
        lent == IF isLeaf(right) THEN <<>> ELSE <<Head(right.children)>>
    IN [values |-> [n.values EXCEPT ![i] = Head(right.values)],
        children |-> [n.children EXCEPT
            ![i] = [values |-> Append(child.values, n.values[i]),
                    children |-> child.children \o lent],
            ![i + 1] = [values |-> Tail(right.values),
                        children |-> SubSeq(right.children, 2, Len(right.children))]]]

\* The parent after child i was topped up, and the child the descent goes on
\* into.  An only child has no sibling to take from or to merge with.
fill(n, i) ==
    LET spare(j) == j \in DOMAIN n.children /\ Len(n.children[j].values) > minValues
    IN CASE spare(i - 1) -> [n |-> borrowFromLeft(n, i), i |-> i, panic |-> FALSE]
         [] ~spare(i - 1) /\ spare(i + 1) ->
              [n |-> borrowFromRight(n, i), i |-> i, panic |-> FALSE]
         [] ~spare(i - 1) /\ ~spare(i + 1) /\ i < Len(n.children) ->
              [n |-> mergeChildren(n, i), i |-> i, panic |-> FALSE]
         [] ~spare(i - 1) /\ i = Len(n.children) /\ i > 1 ->
              [n |-> mergeChildren(n, i - 1), i |-> i - 1, panic |-> FALSE]
         [] OTHER -> [n |-> n, i |-> i, panic |-> TRUE]

\* The subtree n without v, whether v was found, and whether an index went out
\* of range on the way.
RECURSIVE delete(_, _)
delete(n, v) ==
    LET i == find(n, v)
        into(m, j, w) == LET d == delete(m.children[j], w)
                         IN [d EXCEPT !.n = [m EXCEPT !.children[j] = d.n]]
        swapped(w) == [n EXCEPT !.values[i] = w]
        left == n.children[i]
        right == n.children[i + 1]
        f == fill(n, i)
    IN IF Holds(n, v) THEN
         IF isLeaf(n)
           THEN [n |-> Leaf(RemoveAt(n.values, i)), found |-> TRUE, panic |-> FALSE]
         ELSE IF Len(left.values) > minValues THEN into(swapped(max(left)), i, max(left))
         ELSE IF Len(right.values) > minValues THEN into(swapped(min(right)), i + 1, min(right))
         ELSE into(mergeChildren(n, i), i, v)
       ELSE IF isLeaf(n) THEN [n |-> n, found |-> FALSE, panic |-> FALSE]
       ELSE IF Len(left.values) > minValues THEN into(n, i, v)
       ELSE IF f.panic THEN [n |-> n, found |-> FALSE, panic |-> TRUE]
       ELSE into(f.n, f.i, v)

\* Only a delete that found its value drops a root left empty.
Delete(v) ==
    LET d == delete(btree.root, v)
        root == IF d.found /\ d.n.values = <<>> /\ ~isLeaf(d.n) THEN d.n.children[1] ELSE d.n
    IN /\ panicked' = d.panic
       /\ btree' = [root |-> root, length |-> btree.length - (IF d.found THEN 1 ELSE 0)]
       /\ stored' = IF d.panic THEN stored ELSE stored \ {v}

BTreeInit == btree = NewBTree /\ stored = {} /\ panicked = FALSE

BTreeNext == ~panicked /\ \E v \in TreeValues : Insert(v) \/ Delete(v)

BTreeSpec == BTreeInit /\ [][BTreeNext]_btreeVars

-----------------------------------------------------------------------------
(* Properties.                                                             *)

RECURSIVE Depths(_)
Depths(n) ==
    IF isLeaf(n) THEN {0} ELSE {d + 1 : d \in UNION {Depths(c) : c \in ToSet(n.children)}}

RECURSIVE Balanced(_)
Balanced(n) ==
    isLeaf(n) \/ /\ Len(n.children) = Len(n.values) + 1
                 /\ \A c \in ToSet(n.children) :
                      Len(c.values) \in minValues .. maxValues /\ Balanced(c)

(* Through splits, borrowings and merges, of deletes that find nothing too,  *)
(* the tree holds what was inserted and not deleted: Values lists it in     *)
(* order, Len counts it, Find finds it and nothing else; every node but the *)
(* root holds between Degree - 1 and 2 * Degree - 1 values and all leaves   *)
(* are equally deep.                                                        *)
TreeIsSound ==
    /\ LET listed == Values(btree.root)
       IN /\ ToSet(listed) = stored
          /\ \A i \in 2 .. Len(listed) : listed[i - 1] < listed[i]
    /\ btree.length = Cardinality(stored)
    /\ \A v \in TreeValues : Find(btree.root, v) <=> v \in stored
    /\ Len(btree.root.values) <= maxValues
    /\ Balanced(btree.root)
    /\ Cardinality(Depths(btree.root)) = 1

(* Delete reports whether a value was removed, whatever was asked before: it *)
(* never indexes past a node's children.                                    *)
DeleteReports == ~panicked
=============================================================================
