-------------------------------- MODULE Heap --------------------------------
(***************************************************************************)
(* The keyed max-heap of internal/containers/heap.go and the priority      *)
(* queue over it (priority_queue.go).                                      *)
(*                                                                         *)
(* A heap is the slice of its items and the map from a key to its slot;    *)
(* an item is its key and its priority.  Slots count from 1 where the code *)
(* counts from 0: the parent of i is i \div 2.  The queue's mutex covers   *)
(* each operation, so each is one action.                                  *)
(***************************************************************************)
EXTENDS Integers, SequencesExt

CONSTANTS
    ItemKeys,      \* the keys items are pushed under, 1 .. n
    Priorities

ASSUME ItemsAssumption ==
    IsFiniteSet(ItemKeys) /\ ItemKeys = 1 .. Cardinality(ItemKeys) /\ Priorities \subseteq Nat

VARIABLES
    heap,          \* [items, lookup]
    queued         \* history: the priority each queued key must have

heapVars == <<heap, queued>>

Parent(i) == i \div 2

Item(key, p) == [key |-> key, priority |-> p]

-----------------------------------------------------------------------------

Swap(h, i, j) ==
    [items |-> [h.items EXCEPT ![i] = h.items[j], ![j] = h.items[i]],
     lookup |-> [h.lookup EXCEPT ![h.items[j].key] = i, ![h.items[i].key] = j]]

\* Each percolation is a loop: a turn moves the item from at to its parent or its
\* larger child, and where the loop breaks the turns left change nothing.
Rise(s) ==
    LET up == Parent(s.at)
    IN IF s.at = 1 \/ s.heap.items[up].priority >= s.heap.items[s.at].priority THEN s
       ELSE [heap |-> Swap(s.heap, s.at, up), at |-> up]

PercolateUp(h, i) ==
    LET after[n \in 0 .. i] ==
            IF n = 0 THEN [heap |-> h, at |-> i] ELSE Rise(after[n - 1])
    IN after[i].heap

\* The larger child, the left one of two equals, if it exceeds the item.
Sink(s) ==
    LET p(j) == s.heap.items[j].priority
        size == Len(s.heap.items)
        left == 2 * s.at
        right == left + 1
        larger == IF left <= size /\ p(left) > p(s.at) THEN left ELSE s.at
        largest == IF right <= size /\ p(right) > p(larger) THEN right ELSE larger
    IN IF largest = s.at THEN s ELSE [heap |-> Swap(s.heap, s.at, largest), at |-> largest]

PercolateDown(h, i) ==
    LET after[n \in 0 .. Len(h.items)] ==
            IF n = 0 THEN [heap |-> h, at |-> i] ELSE Sink(after[n - 1])
    IN after[Len(h.items)].heap

\* Floyd's heapify, on a copy: every parent is sifted down, the last one first.
Unsorted(items) ==
    [items |-> <<>> \o items,
     lookup |-> [k \in {items[i].key : i \in DOMAIN items} |->
                   CHOOSE i \in DOMAIN items : items[i].key = k]]

NewHeapCap(items) ==
    LET parents == Len(items) \div 2
        after[n \in 0 .. parents] ==
            IF n = 0 THEN Unsorted(items) ELSE PercolateDown(after[n - 1], parents + 1 - n)
    IN after[parents]

Forget(h, key) == [h EXCEPT !.lookup = Restrict(@, DOMAIN @ \ {key})]

\* The last item moves into the slot.
FillSlot(h, i) ==
    [items |-> Front([h.items EXCEPT ![i] = Last(h.items)]),
     lookup |-> [h.lookup EXCEPT ![Last(h.items).key] = i]]

Popped(h) ==
    LET r == Forget(h, h.items[1].key)
    IN IF Len(h.items) = 1 THEN [r EXCEPT !.items = <<>>]
       ELSE PercolateDown(FillSlot(r, 1), 1)

RemovedDown(h, key) ==               \* faulty: the moved item is only sifted down
    LET i == h.lookup[key]
        r == Forget(h, key)
    IN CASE key \notin DOMAIN h.lookup -> h
         [] key \in DOMAIN h.lookup /\ i = 1 -> Popped(h)
         [] key \in DOMAIN h.lookup /\ i = Len(h.items) /\ i # 1 ->
              [r EXCEPT !.items = Front(@)]
         [] OTHER -> PercolateDown(FillSlot(r, i), i)

\* Any slot: the moved item may be out of place in either direction.
Removed(h, key) ==
    LET i == h.lookup[key]
        r == Forget(h, key)
        moved == FillSlot(r, i)
    IN CASE key \notin DOMAIN h.lookup -> h
         [] key \in DOMAIN h.lookup /\ i = 1 -> Popped(h)
         [] key \in DOMAIN h.lookup /\ i = Len(h.items) /\ i # 1 ->
              [r EXCEPT !.items = Front(@)]
         [] OTHER -> IF moved.items[i].priority > moved.items[Parent(i)].priority
                       THEN PercolateUp(moved, i) ELSE PercolateDown(moved, i)

\* f with k at x.
Placed(f, k, x) == [j \in DOMAIN f \cup {k} |-> IF j = k THEN x ELSE f[j]]

\* A queued key keeps the higher priority; on a tie the new item replaces it.
Pushed(h, item) ==
    LET key == item.key
        r == Removed(h, key)
        n == Len(r.items) + 1
    IN IF key \in DOMAIN h.lookup /\ h.items[h.lookup[key]].priority > item.priority THEN h
       ELSE PercolateUp([items |-> Append(r.items, item), lookup |-> Placed(r.lookup, key, n)], n)

-----------------------------------------------------------------------------
(* The operations, and what a caller may expect of them.                   *)

HeapInit ==
    \E n \in 0 .. Cardinality(ItemKeys) : \E p \in [1 .. n -> Priorities] :
        /\ heap = NewHeapCap([i \in 1 .. n |-> Item(i, p[i])])
        /\ queued = p

Enqueue(key, p) ==
    /\ heap' = Pushed(heap, Item(key, p))
    /\ queued' = IF key \in DOMAIN queued /\ queued[key] > p THEN queued
                 ELSE Placed(queued, key, p)

Dequeue ==
    /\ heap.items # <<>>
    /\ heap' = Popped(heap)
    /\ queued' = Restrict(queued, DOMAIN queued \ {heap.items[1].key})

RemoveKey(key) ==
    /\ heap' = Removed(heap, key)
    /\ queued' = Restrict(queued, DOMAIN queued \ {key})

ClearHeap ==
    /\ heap' = NewHeapCap(<<>>)
    /\ queued' = <<>>

HeapNext ==
    \/ \E key \in ItemKeys : RemoveKey(key) \/ \E p \in Priorities : Enqueue(key, p)
    \/ Dequeue
    \/ ClearHeap

HeapSpec == HeapInit /\ [][HeapNext]_heapVars

-----------------------------------------------------------------------------

(* The heap holds exactly the keys queued, each at its highest priority yet,  *)
(* the map finds each of them where the slice has it, and no item outranks   *)
(* its parent, so Peek and Dequeue give a highest one: whatever removals     *)
(* from the middle and replacements came before.                             *)
HeapIsSound ==
    /\ {<<it.key, it.priority>> : it \in ToSet(heap.items)}
         = {<<k, queued[k]>> : k \in DOMAIN queued}
    /\ heap.lookup = [k \in DOMAIN queued |->
                        CHOOSE i \in DOMAIN heap.items : heap.items[i].key = k]
    /\ Len(heap.items) = Cardinality(DOMAIN queued)
    /\ \A i \in 2 .. Len(heap.items) :
         heap.items[Parent(i)].priority >= heap.items[i].priority

(* Why it is: the map and the slice are inverse to each other at every step, *)
(* also while an item is on its way.                                         *)
Matched(h, q) ==
    /\ h = [items |-> h.items, lookup |-> h.lookup]
    /\ h.items \in Seq([key : ItemKeys, priority : Priorities])
    /\ h.lookup \in [DOMAIN q -> 1 .. Len(h.items)]
    /\ \A i \in 1 .. Len(h.items) : LET it == h.items[i] IN
          it.key \in DOMAIN q /\ h.lookup[it.key] = i /\ it.priority = q[it.key]
    /\ \A k \in DOMAIN q : h.items[h.lookup[k]].key = k

\* No item outranks its parent.
ParentsFirst(h) ==
    \A i \in 2 .. Len(h.items) : h.items[Parent(i)].priority >= h.items[i].priority

HeapInv ==
    /\ queued \in UNION {[S -> Priorities] : S \in SUBSET ItemKeys}
    /\ Matched(heap, queued) /\ ParentsFirst(heap)
=============================================================================
