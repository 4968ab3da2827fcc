----------------------------- MODULE MCIndexes -----------------------------
(* The indexes and the containers below them, each on its own: a behaviour   *)
(* exercises one of them and leaves the others as they were made.            *)
(*   text    three documents and chunks of two, so that lists split; texts   *)
(*           that share a term with their replacement, repeat one, hold none *)
(*   vector  three keys over every walk a tree might take                    *)
(*   tree    two keys over one tree with its splits and its own walk         *)
(*   heap    six keys, enough for a removal that moves an item up            *)
(*   btree   degree two and enough values for three levels                   *)
EXTENDS TextIndex, RPTree, BTree

MCTexts == {<<"a">>, <<"b">>, <<"a", "b", "a">>, <<>>}
MCVectors == {[dim |-> 2, x |-> x] : x \in 0 .. 2} \cup {[dim |-> 3, x |-> 1], [dim |-> 0, x |-> 0]}
MCRows == {-1, 0, 1}

VARIABLE part
indexVars == <<part, idx, treeVars, heapVars, btreeVars>>

EmptyHeap == heap = NewHeapCap(<<>>) /\ queued = <<>>

MCInit ==
    /\ TextInit /\ TreeInit /\ BTreeInit
    /\ \/ part \in {"text", "vector", "tree", "btree"} /\ EmptyHeap
       \/ part = "heap" /\ HeapInit

MCNext ==
    /\ UNCHANGED part
    /\ \/ part = "text" /\ TextNext /\ UNCHANGED <<treeVars, heapVars, btreeVars>>
       \/ part = "vector" /\ VectorNext /\ UNCHANGED <<idx, tree, heapVars, btreeVars>>
       \/ part = "tree" /\ TreeNext /\ UNCHANGED <<idx, heapVars, btreeVars>>
       \/ part = "heap" /\ HeapNext /\ UNCHANGED <<idx, treeVars, btreeVars>>
       \/ part = "btree" /\ BTreeNext /\ UNCHANGED <<idx, treeVars, heapVars>>

MCSpec == MCInit /\ [][MCNext]_indexVars
=============================================================================
