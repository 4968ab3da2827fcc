-------------------------- MODULE MemoryGraphProofs --------------------------
(* Proofs about MemoryGraph: the edges, the indexes and the book.          *)
EXTENDS MemoryGraph, CollectionFacts

-----------------------------------------------------------------------------
(* The adjacency views as sets of pairs.                                   *)

In(rows, a, b) == a \in DOMAIN rows /\ b \in DOMAIN rows[a]

LEMMA RowFacts ==
  ASSUME NEW rows, NEW a
  PROVE  /\ \A b : b \in DOMAIN Row(rows, a) <=> In(rows, a, b)
         /\ \A b : b \in DOMAIN Row(rows, a) => Row(rows, a)[b] = rows[a][b]
  BY DEF Row, In

LEMMA LinkFacts ==
  ASSUME NEW rows, NEW a, NEW b, NEW e
  PROVE  /\ \A x, y : In(Link(rows, a, b, e), x, y) <=> In(rows, x, y) \/ (x = a /\ y = b)
         /\ Link(rows, a, b, e)[a][b] = e
         /\ \A x, y : In(rows, x, y) /\ ~(x = a /\ y = b) =>
              Link(rows, a, b, e)[x][y] = rows[x][y]
         /\ (\A x \in DOMAIN rows : rows[x] # <<>>) =>
              \A x \in DOMAIN Link(rows, a, b, e) : Link(rows, a, b, e)[x] # <<>>
<1> DEFINE row == Row(rows, a)
           new == With(row, b, e)
           all == With(rows, a, new)
<1>1. /\ DOMAIN new = DOMAIN row \cup {b} /\ new[b] = e
      /\ \A y \in DOMAIN row : y # b => new[y] = row[y]
  BY DEF With
<1>2. \A y : (y \in DOMAIN row <=> In(rows, a, y)) /\ (y \in DOMAIN row => row[y] = rows[a][y])
  BY RowFacts
<1>3. new # <<>>
  BY <1>1
<1> HIDE DEF row, new
<1>4. /\ DOMAIN all = DOMAIN rows \cup {a} /\ all[a] = new
      /\ \A x \in DOMAIN rows : x # a => all[x] = rows[x]
  BY DEF With
<1> HIDE DEF all
<1>5. Link(rows, a, b, e) = all
  BY DEF Link, all, new, row
<1>6. \A x, y : In(all, x, y) <=> In(rows, x, y) \/ (x = a /\ y = b)
  BY <1>1, <1>2, <1>4 DEF In
<1>7. all[a][b] = e /\ \A x, y : In(rows, x, y) /\ ~(x = a /\ y = b) => all[x][y] = rows[x][y]
  BY <1>1, <1>2, <1>4 DEF In
<1>8. (\A x \in DOMAIN rows : rows[x] # <<>>) => \A x \in DOMAIN all : all[x] # <<>>
  BY <1>3, <1>4
<1> QED
  BY <1>5, <1>6, <1>7, <1>8

LEMMA UnlinkFacts ==
  ASSUME NEW rows, NEW P
  PROVE  /\ \A x, y : In(Unlink(rows, P), x, y) <=> In(rows, x, y) /\ <<x, y>> \notin P
         /\ \A x, y : In(Unlink(rows, P), x, y) => Unlink(rows, P)[x][y] = rows[x][y]
         /\ \A x \in DOMAIN Unlink(rows, P) : Unlink(rows, P)[x] # <<>>
<1> DEFINE left(x) == {y \in DOMAIN rows[x] : <<x, y>> \notin P}
           new == Unlink(rows, P)
<1>1. /\ DOMAIN new = {x \in DOMAIN rows : left(x) # {}}
      /\ \A x \in DOMAIN new : new[x] = Restrict(rows[x], left(x))
  BY DEF Unlink
<1>2. \A x : DOMAIN Restrict(rows[x], left(x)) = left(x)
             /\ \A y \in left(x) : Restrict(rows[x], left(x))[y] = rows[x][y]
  BY DEF Restrict
<1> HIDE DEF new
<1>3. \A x \in DOMAIN new : DOMAIN new[x] = left(x) /\ left(x) # {}
  BY <1>1, <1>2
<1>4. \A x, y : In(new, x, y) <=> In(rows, x, y) /\ <<x, y>> \notin P
  BY <1>1, <1>3 DEF In
<1>5. \A x, y : In(new, x, y) => new[x][y] = rows[x][y]
  BY <1>1, <1>2, <1>3 DEF In
<1>6. ASSUME NEW x \in DOMAIN new, new[x] = <<>> PROVE FALSE
  <2>1. DOMAIN new[x] = {}
    BY <1>6
  <2> QED
    BY <1>3, <2>1
<1> QED
  BY <1>4, <1>5, <1>6 DEF new

\* EdgesAreWhole, said of the pairs.
Ends == \A k \in Stored(Edges) : /\ Has(Source(nodes[k]), {"fact"})
                                 /\ Has(Target(nodes[k]), Anchors)
                                 /\ In(targets, Source(nodes[k]), Target(nodes[k]))
Entered == \A a, b : In(targets, a, b) =>
              /\ In(sources, b, a) /\ sources[b][a] = targets[a][b]
              /\ Has(targets[a][b], Edges)
              /\ Source(nodes[targets[a][b]]) = a /\ Target(nodes[targets[a][b]]) = b
Mirrored == \A a, b : In(sources, b, a) => In(targets, a, b)
NoEmptyRow == /\ \A a \in DOMAIN targets : targets[a] # <<>>
              /\ \A b \in DOMAIN sources : sources[b] # <<>>

LEMMA WholeMeans == EdgesAreWhole <=> Ends /\ Entered /\ Mirrored /\ NoEmptyRow
<1>1. /\ \A rows, a, b : b \in DOMAIN Row(rows, a) <=> In(rows, a, b)
      /\ \A rows, a, b : In(rows, a, b) <=> a \in DOMAIN rows /\ b \in DOMAIN rows[a]
  BY RowFacts DEF In
<1> QED
  BY <1>1 DEF EdgesAreWhole, Ends, Entered, Mirrored, NoEmptyRow

LEMMA WholeMeansAfter == EdgesAreWhole' <=> Ends' /\ Entered' /\ Mirrored' /\ NoEmptyRow'
  BY WholeMeans, PTL

LEMMA FiledMeans == \A p : p \in Filed <=> \E a, b : p = <<a, b>> /\ In(targets, a, b)
  BY DEF Filed, In

-----------------------------------------------------------------------------
(* Nodes and keys.                                                         *)

LEMMA KeyFacts ==
  /\ \A n : Key(n)[1] = n.kind
  /\ \A n, m : IsEdge(n) /\ IsEdge(m) /\ Source(n) = Source(m) /\ Target(n) = Target(m)
                 => Key(n) = Key(m)
  /\ \A n : IsEdge(n) => Source(n)[1] = "fact" /\ Target(n)[1] \in Anchors
  /\ \A n : IsEdge(n) => n.kind \notin Anchors /\ n.kind # "fact"
<1>1. \A n : Key(n)[1] = n.kind
  BY DEF Key
<1>2. \A n : IsEdge(n) => /\ n.kind \notin Anchors /\ n.kind # "fact"
                          /\ Source(n)[1] = "fact" /\ Target(n)[1] \in Anchors
  BY DEF IsEdge, Edges, Anchors, TargetKind, Source, Target
<1>3. ASSUME NEW n, NEW m, IsEdge(n), IsEdge(m), Source(n) = Source(m), Target(n) = Target(m)
      PROVE  Key(n) = Key(m)
  <2>1. n.value = m.value
    BY <1>3 DEF Source
  <2>2. n.anchor = m.anchor /\ TargetKind[n.kind] = TargetKind[m.kind]
    BY <1>3 DEF Target
  <2>3. n.kind = m.kind
    BY <1>3, <2>2 DEF IsEdge, Edges, TargetKind
  <2> QED
    BY <1>3, <2>1, <2>2, <2>3 DEF Key
<1> QED
  BY <1>1, <1>2, <1>3

\* A stored node is where its key says, and its kind is in its key.
LEMMA StoredFacts ==
  ASSUME NodesOK
  PROVE  /\ \A k \in DOMAIN nodes : Key(nodes[k]) = k /\ k[1] = nodes[k].kind
         /\ \A k, S : Has(k, S) <=> k \in DOMAIN nodes /\ k[1] \in S
         /\ \A k, S : k \in Stored(S) <=> k \in DOMAIN nodes /\ k[1] \in S
<1>1. \A k \in DOMAIN nodes : Key(nodes[k]) = k /\ k[1] = nodes[k].kind
  BY KeyFacts DEF NodesOK
<1> QED
  BY <1>1 DEF Has, Stored

\* What a store does to the nodes: one more, and none changes its kind.
LEMMA StoreNode ==
  ASSUME NodesOK, NEW n, IsNode(n), nodes' = With(nodes, Key(n), n)
  PROVE  /\ NodesOK'
         /\ DOMAIN nodes' = DOMAIN nodes \cup {Key(n)}
         /\ nodes'[Key(n)] = n
         /\ \A k \in DOMAIN nodes : k # Key(n) => nodes'[k] = nodes[k]
<1>1. /\ DOMAIN nodes' = DOMAIN nodes \cup {Key(n)} /\ nodes'[Key(n)] = n
      /\ \A k \in DOMAIN nodes : k # Key(n) => nodes'[k] = nodes[k]
  BY DEF With
<1>2. NodesOK'
  BY <1>1 DEF NodesOK
<1> QED
  BY <1>1, <1>2

\* The stored keys, after a step that keeps NodesOK.
LEMMA StoredFactsAfter ==
  ASSUME NodesOK'
  PROVE  /\ \A k \in DOMAIN nodes' : Key(nodes'[k]) = k /\ k[1] = nodes'[k].kind
         /\ \A k, S : Has(k, S)' <=> k \in DOMAIN nodes' /\ k[1] \in S
         /\ \A k, S : k \in Stored(S)' <=> k \in DOMAIN nodes' /\ k[1] \in S
<1>1. \A k \in DOMAIN nodes' : Key(nodes'[k]) = k /\ k[1] = nodes'[k].kind
  BY KeyFacts DEF NodesOK
<1> QED
  BY <1>1 DEF Has, Stored

\* The pending calls, and those left when the first is taken.
LEMMA HeadFacts ==
  ASSUME PendingOK, pending # <<>>
  PROVE  /\ Len(pending) \in Nat /\ Len(pending) > 0 /\ Head(pending) = pending[1]
         /\ IsNode(pending[1]) /\ pending[1] \in ToSet(pending)
         /\ IsEdge(pending[1]) => /\ Has(Source(pending[1]), {"fact"})
                                 /\ Has(Target(pending[1]), Anchors)
         /\ Tail(pending) \in Seq(ToSet(Tail(pending)))
         /\ Len(Tail(pending)) = Len(pending) - 1
         /\ \A i \in 1 .. Len(pending) - 1 : Tail(pending)[i] = pending[i + 1]
         /\ ToSet(pending) = {pending[1]} \cup ToSet(Tail(pending))
<1>1. pending \in Seq(ToSet(pending))
  BY DEF PendingOK
<1>2. Len(pending) \in Nat /\ Len(pending) > 0 /\ Head(pending) = pending[1]
  BY <1>1
<1>3. /\ IsNode(pending[1])
      /\ IsEdge(pending[1]) => /\ Has(Source(pending[1]), {"fact"})
                              /\ Has(Target(pending[1]), Anchors)
  BY <1>2 DEF PendingOK, Coming
<1>4. /\ Tail(pending) \in Seq(ToSet(pending)) /\ Len(Tail(pending)) = Len(pending) - 1
      /\ \A i \in 1 .. Len(pending) - 1 : Tail(pending)[i] = pending[i + 1]
  BY <1>1, <1>2
<1> DEFINE t == Tail(pending)
<1> HIDE DEF t
<1>5. t \in Seq(ToSet(pending)) /\ Len(t) = Len(pending) - 1
      /\ \A i \in 1 .. Len(pending) - 1 : t[i] = pending[i + 1]
  BY <1>4 DEF t
<1>6. t \in Seq(ToSet(t))
  BY <1>5 DEF ToSet
<1>7. ToSet(pending) = {pending[1]} \cup ToSet(t)
  <2>1. ASSUME NEW x \in ToSet(pending) PROVE x \in {pending[1]} \cup ToSet(t)
    <3>1. PICK i \in 1 .. Len(pending) : pending[i] = x
      BY <1>1, ElementsOf
    <3>2. CASE i # 1
      <4>1. i - 1 \in 1 .. Len(t) /\ t[i - 1] = x
        BY <1>2, <1>5, <3>1, <3>2
      <4> QED
        BY <1>5, <4>1, ElementsOf
    <3> QED
      BY <3>1, <3>2
  <2>2. pending[1] \in ToSet(pending)
    BY <1>1, <1>2, ElementsOf
  <2>3. ToSet(t) \subseteq ToSet(pending)
    BY <1>5, ElementsOf
  <2> QED
    BY <2>1, <2>2, <2>3
<1> QED
  BY <1>2, <1>3, <1>4, <1>6, <1>7 DEF t

\* Taking the first call keeps every edge behind its ends, once that call's
\* node is there.
LEMMA PendingStep ==
  ASSUME NodesOK, NodesOK', PendingOK, pending # <<>>, pending' = Tail(pending),
         DOMAIN nodes' = DOMAIN nodes \cup {Key(pending[1])}
  PROVE  PendingOK'
<1> DEFINE ComingAfter(k, S, i) ==
             \/ k \in DOMAIN nodes' /\ nodes'[k].kind \in S
             \/ \E j \in 1 .. i - 1 : pending'[j].kind \in S /\ Key(pending'[j]) = k
<1>1. \A k, S : Has(k, S) => Has(k, S)'
  BY StoredFacts, StoredFactsAfter
<1>2. /\ pending' \in Seq(ToSet(pending')) /\ Len(pending') = Len(pending) - 1
      /\ \A i \in 1 .. Len(pending) - 1 : pending'[i] = pending[i + 1]
      /\ Len(pending) \in Nat
  BY HeadFacts
<1>3. ASSUME NEW i \in 1 .. Len(pending), NEW k, NEW S, Coming(k, S, i + 1)
      PROVE  ComingAfter(k, S, i)
  <2>1. CASE Has(k, S)
    BY <1>1, <2>1 DEF Has
  <2>2. CASE \E j \in 1 .. i : pending[j].kind \in S /\ Key(pending[j]) = k
    <3>1. PICK j \in 1 .. i : pending[j].kind \in S /\ Key(pending[j]) = k
      BY <2>2
    <3>2. CASE j = 1
      <4>1. k \in DOMAIN nodes' /\ k[1] \in S
        BY <3>1, <3>2, KeyFacts
      <4>2. Has(k, S)'
        BY <4>1, StoredFactsAfter
      <4> QED
        BY <4>2 DEF Has
    <3>3. CASE j # 1
      <4>1. j - 1 \in 1 .. i - 1 /\ j - 1 \in 1 .. Len(pending) - 1 /\ (j - 1) + 1 = j
        BY <1>2, <3>3
      <4>2. pending'[j - 1] = pending[j]
        BY <1>2, <4>1
      <4> QED
        BY <3>1, <4>1, <4>2
    <3> QED
      BY <3>2, <3>3
  <2>3. (i + 1) - 1 = i
    BY <1>2
  <2> HIDE DEF ComingAfter
  <2> QED
    BY <1>3, <2>1, <2>2, <2>3 DEF Coming
<1>4. ASSUME NEW i \in 1 .. Len(pending')
      PROVE  /\ IsNode(pending'[i])
             /\ IsEdge(pending'[i]) => /\ ComingAfter(Source(pending'[i]), {"fact"}, i)
                                      /\ ComingAfter(Target(pending'[i]), Anchors, i)
  <2>1. i + 1 \in 1 .. Len(pending) /\ pending'[i] = pending[i + 1] /\ i \in 1 .. Len(pending)
    BY <1>2
  <2>2. /\ IsNode(pending[i + 1])
        /\ IsEdge(pending[i + 1]) => /\ Coming(Source(pending[i + 1]), {"fact"}, i + 1)
                                    /\ Coming(Target(pending[i + 1]), Anchors, i + 1)
    BY <2>1 DEF PendingOK
  <2> HIDE DEF ComingAfter
  <2> QED
    BY <1>3, <2>1, <2>2
<1> QED
  BY <1>2, <1>4 DEF PendingOK, Coming, Has

-----------------------------------------------------------------------------
(* CommitNode.                                                             *)

\* A new edge between two stored ends.
LEMMA StoreEdgeWhole ==
  ASSUME NodesOK, NodesOK', EdgesAreWhole, NEW n, IsEdge(n),
         Has(Source(n), {"fact"}), Has(Target(n), Anchors),
         Key(n) \notin DOMAIN nodes,
         DOMAIN nodes' = DOMAIN nodes \cup {Key(n)}, nodes'[Key(n)] = n,
         \A k \in DOMAIN nodes : k # Key(n) => nodes'[k] = nodes[k],
         targets' = Link(targets, Source(n), Target(n), Key(n)),
         sources' = Link(sources, Target(n), Source(n), Key(n))
  PROVE  EdgesAreWhole'
<1> DEFINE s == Source(n)
           t == Target(n)
           k0 == Key(n)
<1>0. Ends /\ Entered /\ Mirrored /\ NoEmptyRow
  BY WholeMeans
<1>1. /\ \A x, y : In(targets', x, y) <=> In(targets, x, y) \/ (x = s /\ y = t)
      /\ targets'[s][t] = k0
      /\ \A x, y : In(targets, x, y) /\ ~(x = s /\ y = t) => targets'[x][y] = targets[x][y]
      /\ \A x \in DOMAIN targets' : targets'[x] # <<>>
  BY <1>0, LinkFacts DEF NoEmptyRow
<1>2. /\ \A x, y : In(sources', x, y) <=> In(sources, x, y) \/ (x = t /\ y = s)
      /\ sources'[t][s] = k0
      /\ \A x, y : In(sources, x, y) /\ ~(x = t /\ y = s) => sources'[x][y] = sources[x][y]
      /\ \A x \in DOMAIN sources' : sources'[x] # <<>>
  BY <1>0, LinkFacts DEF NoEmptyRow
<1>3. /\ \A k, S : Has(k, S) <=> k \in DOMAIN nodes /\ k[1] \in S
      /\ \A k, S : Has(k, S)' <=> k \in DOMAIN nodes' /\ k[1] \in S
      /\ \A k, S : k \in Stored(S)' <=> k \in DOMAIN nodes' /\ k[1] \in S
      /\ \A k, S : k \in Stored(S) <=> k \in DOMAIN nodes /\ k[1] \in S
      /\ k0[1] \in Edges
  BY StoredFacts, StoredFactsAfter, KeyFacts DEF IsEdge
<1> HIDE DEF s, t, k0
<1>4. /\ k0 \notin DOMAIN nodes /\ DOMAIN nodes' = DOMAIN nodes \cup {k0} /\ nodes'[k0] = n
      /\ \A k \in DOMAIN nodes : nodes'[k] = nodes[k]
      /\ s = Source(n) /\ t = Target(n) /\ Has(s, {"fact"}) /\ Has(t, Anchors)
  BY DEF k0, s, t
<1>5. Ends'
  <2> SUFFICES ASSUME NEW k \in DOMAIN nodes', k[1] \in Edges
               PROVE  /\ Source(nodes'[k]) \in DOMAIN nodes' /\ Source(nodes'[k])[1] \in {"fact"}
                      /\ Target(nodes'[k]) \in DOMAIN nodes' /\ Target(nodes'[k])[1] \in Anchors
                      /\ In(targets', Source(nodes'[k]), Target(nodes'[k]))
    BY <1>3 DEF Ends
  <2>1. CASE k = k0
    BY <1>1, <1>3, <1>4, <2>1
  <2>2. CASE k # k0
    <3>1. k \in Stored(Edges) /\ nodes'[k] = nodes[k]
      BY <1>3, <1>4, <2>2
    <3>2. /\ Has(Source(nodes[k]), {"fact"}) /\ Has(Target(nodes[k]), Anchors)
          /\ In(targets, Source(nodes[k]), Target(nodes[k]))
      BY <1>0, <3>1 DEF Ends
    <3> QED
      BY <1>1, <1>3, <1>4, <3>1, <3>2
  <2> QED
    BY <2>1, <2>2
<1>6. Entered'
  <2> SUFFICES ASSUME NEW a, NEW b, In(targets', a, b)
               PROVE  /\ In(sources', b, a) /\ sources'[b][a] = targets'[a][b]
                      /\ targets'[a][b] \in DOMAIN nodes' /\ targets'[a][b][1] \in Edges
                      /\ Source(nodes'[targets'[a][b]]) = a /\ Target(nodes'[targets'[a][b]]) = b
    BY <1>3 DEF Entered, In
  <2>1. CASE a = s /\ b = t
    BY <1>1, <1>2, <1>3, <1>4, <2>1
  <2>2. CASE ~(a = s /\ b = t)
    <3>1. In(targets, a, b) /\ targets'[a][b] = targets[a][b]
      BY <1>1, <2>2
    <3>2. /\ In(sources, b, a) /\ sources[b][a] = targets[a][b]
          /\ Has(targets[a][b], Edges)
          /\ Source(nodes[targets[a][b]]) = a /\ Target(nodes[targets[a][b]]) = b
      BY <1>0, <3>1 DEF Entered
    <3> QED
      BY <1>2, <1>3, <1>4, <2>2, <3>1, <3>2
  <2> QED
    BY <2>1, <2>2
<1>7. Mirrored'
  <2>1. \A a, b : In(sources', b, a) => In(targets', a, b)
    BY <1>0, <1>1, <1>2 DEF Mirrored
  <2> QED
    BY <2>1 DEF Mirrored, In
<1>8. NoEmptyRow'
  BY <1>1, <1>2 DEF NoEmptyRow
<1> QED
  BY <1>5, <1>6, <1>7, <1>8, WholeMeansAfter

\* A fact or an anchor stored, again or for the first time.
LEMMA StoreVertexWhole ==
  ASSUME NodesOK, NodesOK', EdgesAreWhole, NEW n, ~IsEdge(n),
         DOMAIN nodes' = DOMAIN nodes \cup {Key(n)},
         \A k \in DOMAIN nodes : k # Key(n) => nodes'[k] = nodes[k],
         UNCHANGED <<targets, sources>>
  PROVE  EdgesAreWhole'
<1>0. Ends /\ Entered /\ Mirrored /\ NoEmptyRow
  BY WholeMeans
<1>1. /\ \A k, S : Has(k, S) <=> k \in DOMAIN nodes /\ k[1] \in S
      /\ \A k, S : Has(k, S)' <=> k \in DOMAIN nodes' /\ k[1] \in S
      /\ \A k, S : k \in Stored(S)' <=> k \in DOMAIN nodes' /\ k[1] \in S
      /\ \A k, S : k \in Stored(S) <=> k \in DOMAIN nodes /\ k[1] \in S
      /\ Key(n)[1] \notin Edges
  BY StoredFacts, StoredFactsAfter, KeyFacts DEF IsEdge
<1>2. \A k \in Stored(Edges)' : k \in Stored(Edges) /\ nodes'[k] = nodes[k]
  BY <1>1
<1>3. \A k, S : Has(k, S) => Has(k, S)'
  BY <1>1
<1>4. Ends'
  <2> SUFFICES ASSUME NEW k \in Stored(Edges)'
               PROVE  /\ Source(nodes'[k]) \in DOMAIN nodes' /\ Source(nodes'[k])[1] \in {"fact"}
                      /\ Target(nodes'[k]) \in DOMAIN nodes' /\ Target(nodes'[k])[1] \in Anchors
                      /\ In(targets', Source(nodes'[k]), Target(nodes'[k]))
    BY <1>1 DEF Ends
  <2>1. /\ Has(Source(nodes[k]), {"fact"}) /\ Has(Target(nodes[k]), Anchors)
        /\ In(targets, Source(nodes[k]), Target(nodes[k])) /\ nodes'[k] = nodes[k]
    BY <1>0, <1>2 DEF Ends
  <2> QED
    BY <1>1, <2>1
<1>5. Entered'
  <2> SUFFICES ASSUME NEW a, NEW b, In(targets, a, b)
               PROVE  /\ In(sources, b, a) /\ sources[b][a] = targets[a][b]
                      /\ targets[a][b] \in DOMAIN nodes' /\ targets[a][b][1] \in Edges
                      /\ Source(nodes'[targets[a][b]]) = a /\ Target(nodes'[targets[a][b]]) = b
    BY <1>1 DEF Entered, In
  <2>1. /\ In(sources, b, a) /\ sources[b][a] = targets[a][b]
        /\ Has(targets[a][b], Edges)
        /\ Source(nodes[targets[a][b]]) = a /\ Target(nodes[targets[a][b]]) = b
    BY <1>0 DEF Entered
  <2> QED
    BY <1>1, <2>1
<1>6. Mirrored' /\ NoEmptyRow'
  BY <1>0 DEF Mirrored, NoEmptyRow, In
<1> QED
  BY <1>4, <1>5, <1>6, WholeMeansAfter

\* The three things a call may come to: an anchor or an edge is there already,
\* a new edge is stored, or a fact or anchor is.
Passed(n) == /\ n.kind # "fact" /\ Key(n) \in DOMAIN nodes
             /\ UNCHANGED <<nodes, targets, sources, text>>
NewEdge(n) == /\ IsEdge(n) /\ Key(n) \notin DOMAIN nodes
              /\ nodes' = With(nodes, Key(n), n) /\ UNCHANGED text
              /\ targets' = Link(targets, Source(n), Target(n), Key(n))
              /\ sources' = Link(sources, Target(n), Source(n), Key(n))
NewVertex(n) == /\ ~IsEdge(n)
                /\ nodes' = With(nodes, Key(n), n) /\ UNCHANGED <<targets, sources>>
                /\ text' = IF n.kind = "fact" THEN text \cup {Key(n)} ELSE text

LEMMA CommitNodeCases ==
  ASSUME PendingOK, CommitNode
  PROVE  LET n == pending[1]
         IN /\ pending # <<>> /\ pending' = Tail(pending) /\ UNCHANGED <<vectors, book>>
            /\ Passed(n) \/ NewEdge(n) \/ NewVertex(n)
<1> DEFINE n == pending[1]
<1>1. pending # <<>> /\ pending' = Tail(pending) /\ UNCHANGED <<vectors, book>>
  BY DEF CommitNode
<1>2. Head(pending) = n /\ IsNode(n)
  BY <1>1, HeadFacts
<1>3. n.kind = "fact" => n.value # <<>>
  BY <1>2, WritesAssumption DEF IsNode, Facts
<1>4. IsEdge(n) => n.kind # "fact"
  BY KeyFacts
<1>5. IF n.kind = "fact" THEN Put(n) ELSE Set(n)
  BY <1>1, <1>2 DEF CommitNode
<1> HIDE DEF n
<1>6. \/ Passed(n) 
      \/ Stores(n) /\ (IsEdge(n) => Key(n) \notin DOMAIN nodes)
  BY <1>4, <1>5 DEF Put, Set, Passed
<1>7. Stores(n) /\ IsEdge(n) /\ Key(n) \notin DOMAIN nodes => NewEdge(n)
  BY <1>4 DEF Stores, NewEdge
<1>8. Stores(n) /\ ~IsEdge(n) => NewVertex(n)
  BY <1>3 DEF Stores, NewVertex
<1> QED
  BY <1>1, <1>6, <1>7, <1>8 DEF n

\* In each of them the call's node is there afterwards.
LEMMA CommitNodeNodes ==
  ASSUME NodesOK, PendingOK, CommitNode
  PROVE  LET n == pending[1]
         IN /\ NodesOK' /\ DOMAIN nodes' = DOMAIN nodes \cup {Key(n)}
            /\ text' = IF n.kind = "fact" THEN text \cup {Key(n)} ELSE text
            /\ \A k, S : k \in Stored(S)' <=> k \in Stored(S) \/ (k = Key(n) /\ n.kind \in S)
            /\ \A k, S : (\E m \in ToSet(pending) : m.kind \in S /\ Key(m) = k) <=>
                 \/ \E m \in ToSet(pending') : m.kind \in S /\ Key(m) = k
                 \/ k = Key(n) /\ n.kind \in S
<1> DEFINE n == pending[1]
<1>1. /\ pending # <<>> /\ pending' = Tail(pending)
      /\ Passed(n) \/ NewEdge(n) \/ NewVertex(n)
  BY CommitNodeCases
<1>2. IsNode(n) /\ ToSet(pending) = {n} \cup ToSet(pending')
  BY <1>1, HeadFacts
<1> HIDE DEF n
<1>3. IsEdge(n) => n.kind # "fact"
  BY KeyFacts
<1>4. /\ NodesOK' /\ DOMAIN nodes' = DOMAIN nodes \cup {Key(n)}
      /\ text' = IF n.kind = "fact" THEN text \cup {Key(n)} ELSE text
  <2>1. CASE Passed(n)
    BY <2>1 DEF Passed, NodesOK
  <2>2. CASE NewEdge(n) \/ NewVertex(n)
    <3>1. nodes' = With(nodes, Key(n), n)
      BY <2>2 DEF NewEdge, NewVertex
    <3> QED
      BY <1>2, <1>3, <2>2, <3>1, StoreNode DEF NewEdge, NewVertex
  <2> QED
    BY <1>1, <2>1, <2>2
<1>5. \A k, S : k \in Stored(S)' <=> k \in Stored(S) \/ (k = Key(n) /\ n.kind \in S)
  BY <1>4, StoredFacts, StoredFactsAfter, KeyFacts
<1>6. \A k, S : (\E m \in ToSet(pending) : m.kind \in S /\ Key(m) = k) <=>
        \/ \E m \in ToSet(pending') : m.kind \in S /\ Key(m) = k
        \/ k = Key(n) /\ n.kind \in S
  BY <1>2
<1> QED
  BY <1>4, <1>5, <1>6 DEF n

LEMMA CommitNodeStep == ASSUME GraphInv, CommitNode PROVE GraphInv'
<1> DEFINE n == pending[1]
<1>1. NodesOK /\ PendingOK /\ EdgesAreWhole /\ IndexesInv
  BY DEF GraphInv
<1>2. /\ pending # <<>> /\ pending' = Tail(pending) /\ UNCHANGED <<vectors, book>>
      /\ Passed(n) \/ NewEdge(n) \/ NewVertex(n)
  BY <1>1, CommitNodeCases
<1>3. /\ IsNode(n)
      /\ IsEdge(n) => Has(Source(n), {"fact"}) /\ Has(Target(n), Anchors)
  BY <1>1, <1>2, HeadFacts
<1>4. /\ NodesOK' /\ DOMAIN nodes' = DOMAIN nodes \cup {Key(n)}
      /\ text' = IF n.kind = "fact" THEN text \cup {Key(n)} ELSE text
      /\ \A k, S : k \in Stored(S)' <=> k \in Stored(S) \/ (k = Key(n) /\ n.kind \in S)
      /\ \A k, S : (\E m \in ToSet(pending) : m.kind \in S /\ Key(m) = k) <=>
           \/ \E m \in ToSet(pending') : m.kind \in S /\ Key(m) = k
           \/ k = Key(n) /\ n.kind \in S
  BY <1>1, CommitNodeNodes
<1>5. PendingOK'
  BY <1>1, <1>2, <1>4, PendingStep
<1> HIDE DEF n
<1>6. EdgesAreWhole'
  <2>1. CASE Passed(n)
    <3>1. Ends' /\ Entered' /\ Mirrored' /\ NoEmptyRow'
      BY <1>1, <2>1, WholeMeans DEF Passed, Ends, Entered, Mirrored, NoEmptyRow, In, Has, Stored
    <3> QED
      BY <3>1, WholeMeansAfter
  <2>2. CASE NewEdge(n) \/ NewVertex(n)
    <3>1. /\ nodes'[Key(n)] = n
          /\ \A k \in DOMAIN nodes : k # Key(n) => nodes'[k] = nodes[k]
      <4>1. nodes' = With(nodes, Key(n), n)
        BY <2>2 DEF NewEdge, NewVertex
      <4> QED
        BY <4>1 DEF With
    <3>2. CASE NewEdge(n)
      BY <1>1, <1>3, <1>4, <3>1, <3>2, StoreEdgeWhole DEF NewEdge
    <3>3. CASE NewVertex(n)
      BY <1>1, <1>4, <3>1, <3>3, StoreVertexWhole DEF NewVertex
    <3> QED
      BY <2>2, <3>2, <3>3
  <2> QED
    BY <1>2, <2>1, <2>2
<1>7. IndexesInv'
  <2>1. text' = Stored({"fact"})'
    BY SMTT(30), <1>1, <1>4 DEF IndexesInv
  <2>2. vectors' \subseteq text' \cup PendingKeys({"fact"})'
    <3> SUFFICES ASSUME NEW k \in vectors, k \notin text'
                 PROVE  \E m \in ToSet(pending') : m.kind \in {"fact"} /\ Key(m) = k
      BY <1>2 DEF PendingKeys
    <3>1. k \in text \/ \E m \in ToSet(pending) : m.kind \in {"fact"} /\ Key(m) = k
      BY <1>1 DEF IndexesInv, PendingKeys
    <3>2. /\ k \notin text /\ ~(k = Key(n) /\ n.kind = "fact")
      BY <1>4
    <3>3. (\E m \in ToSet(pending) : m.kind \in {"fact"} /\ Key(m) = k) <=>
            \/ \E m \in ToSet(pending') : m.kind \in {"fact"} /\ Key(m) = k
            \/ k = Key(n) /\ n.kind \in {"fact"}
      BY <1>4
    <3> QED
      BY <3>1, <3>2, <3>3
  <2> QED
    BY <2>1, <2>2 DEF IndexesInv
<1> QED
  BY <1>4, <1>5, <1>6, <1>7 DEF GraphInv

-----------------------------------------------------------------------------
(* CommitVector.                                                           *)

\* The calls of a loop: the anchor of a name right before its edge.
LEMMA StoreAnchorsFacts ==
  ASSUME NEW edge \in Edges, NEW f \in Facts, NEW names, names \in Seq(ToSet(names)),
         ToSet(names) \subseteq Names
  PROVE  LET s == StoreAnchors(edge, f, names)
         IN /\ s \in Seq(ToSet(s)) /\ Len(s) = 2 * Len(names)
            /\ \A i \in 1 .. Len(s) :
                 /\ IsNode(s[i]) /\ s[i].kind # "fact"
                 /\ IsEdge(s[i]) => /\ Source(s[i]) = <<"fact", f>>
                                   /\ i - 1 \in 1 .. Len(s) /\ s[i - 1].kind \in Anchors
                                   /\ Key(s[i - 1]) = Target(s[i])
<1> DEFINE s == StoreAnchors(edge, f, names)
           m == 2 * Len(names)
<1>0. Len(names) \in Nat /\ m \in Nat /\ \A i \in 1 .. Len(names) : names[i] \in Names
  OBVIOUS
<1>1. s = [i \in 1 .. m |->
              IF i % 2 = 1 THEN Vertex(TargetKind[edge], names[(i + 1) \div 2], 0)
                           ELSE Edge(edge, f, names[i \div 2])]
  BY DEF StoreAnchors
<1> HIDE DEF s
<1>2. Len(s) = m /\ DOMAIN s = 1 .. m
  BY <1>0, <1>1
<1>3. s \in Seq(ToSet(s))
  <2>1. \A i \in 1 .. m : s[i] \in ToSet(s)
    BY <1>2 DEF ToSet
  <2>2. s = [i \in 1 .. m |-> s[i]]
    BY <1>1
  <2>3. s \in [1 .. m -> ToSet(s)]
    BY <2>1, <2>2
  <2> HIDE DEF m
  <2> QED
    BY <1>0, <2>3, SeqDef
<1>4. TargetKind[edge] \in Anchors
  BY DEF Edges, TargetKind, Anchors
<1>5. ASSUME NEW i \in 1 .. m, i % 2 = 1
      PROVE  IsNode(s[i]) /\ s[i].kind = TargetKind[edge]
             /\ s[i].value = names[(i + 1) \div 2]
  <2>1. s[i] = Vertex(TargetKind[edge], names[(i + 1) \div 2], 0)
    BY <1>1, <1>5
  <2>2. s[i].kind = TargetKind[edge] /\ s[i].value = names[(i + 1) \div 2]
    BY <2>1 DEF Vertex
  <2>3. s[i].kind \notin {"fact"} \cup Edges
    BY <1>4, <2>2 DEF Anchors, Edges
  <2> QED
    BY <1>4, <2>2, <2>3 DEF IsNode
<1>6. ASSUME NEW i \in 1 .. m, i % 2 # 1
      PROVE  IsNode(s[i]) /\ s[i].kind = edge /\ s[i].value = f /\ s[i].anchor = names[i \div 2]
  <2>1. s[i] = Edge(edge, f, names[i \div 2])
    BY <1>1, <1>6
  <2>2. s[i].kind = edge /\ s[i].value = f /\ s[i].anchor = names[i \div 2]
    BY <2>1 DEF Edge
  <2>3. i \div 2 \in 1 .. Len(names)
    BY <1>0, <1>6
  <2> QED
    BY <1>0, <2>2, <2>3 DEF IsNode
<1>7. ASSUME NEW i \in 1 .. m
      PROVE  /\ IsNode(s[i]) /\ s[i].kind # "fact"
             /\ IsEdge(s[i]) => /\ Source(s[i]) = <<"fact", f>>
                               /\ i - 1 \in 1 .. m /\ s[i - 1].kind \in Anchors
                               /\ Key(s[i - 1]) = Target(s[i])
  <2>1. CASE i % 2 = 1
    <3>1. IsNode(s[i]) /\ s[i].kind \in Anchors
      BY <1>4, <1>5, <2>1
    <3> QED
      BY <3>1 DEF Anchors, Edges, IsEdge
  <2>2. CASE i % 2 # 1
    <3>1. i - 1 \in 1 .. m /\ (i - 1) % 2 = 1 /\ ((i - 1) + 1) \div 2 = i \div 2
      BY <1>0, <2>2
    <3>2. IsNode(s[i]) /\ s[i].kind = edge /\ s[i].value = f /\ s[i].anchor = names[i \div 2]
      BY <1>6, <2>2
    <3>3. s[i - 1].kind = TargetKind[edge] /\ s[i - 1].value = names[i \div 2]
      BY <1>5, <3>1
    <3>4. Key(s[i - 1]) = <<TargetKind[edge], names[i \div 2]>>
      BY <1>4, <3>3 DEF Key, IsEdge, Edges, Anchors
    <3>5. Target(s[i]) = <<TargetKind[edge], names[i \div 2]>> /\ Source(s[i]) = <<"fact", f>>
      BY <3>2 DEF Target, Source
    <3>6. s[i].kind # "fact"
      BY <3>2 DEF Edges
    <3> QED
      BY <1>4, <3>1, <3>2, <3>3, <3>4, <3>5, <3>6
  <2> QED
    BY <2>1, <2>2
<1> QED
  BY <1>2, <1>3, <1>7 DEF s

\* The calls of a commit: the fact first, and each edge behind both its ends.
LEMMA CallsFacts ==
  ASSUME NEW w \in Writes, NEW ts
  PROVE  LET c == Calls(w, ts)
         IN /\ c \in Seq(ToSet(c)) /\ Len(c) \in Nat /\ 1 \in 1 .. Len(c)
            /\ c[1].kind = "fact" /\ Key(c[1]) = <<"fact", w.fact>>
            /\ \A i \in 1 .. Len(c) :
                 /\ IsNode(c[i])
                 /\ IsEdge(c[i]) => /\ Source(c[i]) = <<"fact", w.fact>>
                                   /\ i - 1 \in 1 .. Len(c) /\ c[i - 1].kind \in Anchors
                                   /\ Key(c[i - 1]) = Target(c[i])
<1> DEFINE F == <<Vertex("fact", w.fact, ts)>>
           A == StoreAnchors("mentions", w.fact, w.entities)
           B == StoreAnchors("isabout", w.fact, w.topics)
           c == F \o A \o B
           D == ToSet(F) \cup ToSet(A) \cup ToSet(B)
           Good(s, i) ==
             /\ IsNode(s[i])
             /\ IsEdge(s[i]) => /\ Source(s[i]) = <<"fact", w.fact>>
                               /\ i - 1 \in 1 .. Len(s) /\ s[i - 1].kind \in Anchors
                               /\ Key(s[i - 1]) = Target(s[i])
<1>1. /\ w.fact \in Facts /\ "mentions" \in Edges /\ "isabout" \in Edges
      /\ ToSet(w.entities) \subseteq Names /\ ToSet(w.topics) \subseteq Names
      /\ w.entities \in Seq(ToSet(w.entities)) /\ w.topics \in Seq(ToSet(w.topics))
  <2>1. w.fact \in Facts /\ "mentions" \in Edges /\ "isabout" \in Edges
    BY DEF Facts, Edges
  <2>2. ToSet(w.entities) \subseteq Names /\ ToSet(w.topics) \subseteq Names
    BY DEF Names
  <2> QED
    BY <2>1, <2>2, WritesAssumption
<1>2. A \in Seq(ToSet(A)) /\ \A i \in 1 .. Len(A) : Good(A, i)
  BY <1>1, StoreAnchorsFacts
<1>3. B \in Seq(ToSet(B)) /\ \A i \in 1 .. Len(B) : Good(B, i)
  BY <1>1, StoreAnchorsFacts
<1>4. F \in Seq(ToSet(F)) /\ Len(F) = 1 /\ F[1].kind = "fact" /\ F[1].value = w.fact
  BY DEF Vertex, ToSet
<1>5. Calls(w, ts) = c
  BY DEF Calls
<1> HIDE DEF A, B, F
<1>6. /\ F \in Seq(D) /\ A \in Seq(D) /\ B \in Seq(D)
      /\ Len(A) \in Nat /\ Len(B) \in Nat
  <2>1. \A S, T : S \subseteq T => Seq(S) \subseteq Seq(T)
    OBVIOUS
  <2> QED
    BY <1>2, <1>3, <1>4, <2>1
<1> HIDE DEF D
<1> DEFINE FA == F \o A
<1>7. /\ FA \in Seq(D) /\ Len(FA) = 1 + Len(A)
      /\ FA[1] = F[1] /\ \A i \in 1 .. Len(A) : FA[1 + i] = A[i]
  <2>1. /\ F \o A \in Seq(D) /\ Len(F \o A) = Len(F) + Len(A)
        /\ \A i \in 1 .. Len(F) : (F \o A)[i] = F[i]
        /\ \A i \in 1 .. Len(A) : (F \o A)[Len(F) + i] = A[i]
    BY <1>6, ConcatFacts
  <2> QED
    BY <1>4, <2>1
<1> HIDE DEF FA
<1>8. /\ FA \o B \in Seq(D) /\ Len(FA \o B) = Len(FA) + Len(B)
      /\ \A i \in 1 .. Len(FA) : (FA \o B)[i] = FA[i]
      /\ \A i \in 1 .. Len(B) : (FA \o B)[Len(FA) + i] = B[i]
  <2>1. FA \in Seq(D) /\ B \in Seq(D)
    BY <1>6, <1>7
  <2> QED
    BY <2>1, ConcatFacts
<1>9. /\ c \in Seq(D) /\ Len(c) = 1 + Len(A) + Len(B) /\ c[1] = F[1]
      /\ \A i \in 1 .. Len(A) : c[1 + i] = A[i]
      /\ \A i \in 1 .. Len(B) : c[1 + Len(A) + i] = B[i]
  <2>1. c = FA \o B
    BY DEF FA
  <2> HIDE DEF c
  <2>2. 1 \in 1 .. Len(FA) /\ \A i \in 1 .. Len(A) : 1 + i \in 1 .. Len(FA)
    BY <1>6, <1>7
  <2>3. c[1] = F[1] /\ \A i \in 1 .. Len(A) : c[1 + i] = A[i]
    BY <1>7, <1>8, <2>1, <2>2
  <2>4. \A i \in 1 .. Len(B) : c[1 + Len(A) + i] = B[i]
    BY <1>7, <1>8, <2>1
  <2> QED
    BY <1>7, <1>8, <2>1, <2>3, <2>4
<1> HIDE DEF c
<1>10. c \in Seq(ToSet(c)) /\ Len(c) \in Nat /\ 1 \in 1 .. Len(c)
  <2>1. Len(c) \in Nat /\ 1 \in 1 .. Len(c)
    BY <1>6, <1>9
  <2> QED
    BY <1>9, <2>1, OwnElements
<1>11. IsNode(F[1]) /\ ~IsEdge(F[1]) /\ Key(F[1]) = <<"fact", w.fact>>
  BY <1>1, <1>4 DEF IsNode, IsEdge, Edges, Key
<1>12. ASSUME NEW i \in 1 .. Len(c) PROVE Good(c, i)
  <2>1. CASE i = 1
    BY <1>9, <1>11, <2>1
  <2>2. CASE i \in 2 .. 1 + Len(A)
    <3>1. i - 1 \in 1 .. Len(A) /\ c[i] = A[i - 1] /\ Good(A, i - 1)
      <4>1. i - 1 \in 1 .. Len(A) /\ 1 + (i - 1) = i
        BY <1>6, <2>2
      <4> QED
        BY <1>2, <1>9, <4>1
    <3>2. CASE (i - 1) - 1 \in 1 .. Len(A)
      <4>1. c[i - 1] = A[(i - 1) - 1] /\ i - 1 \in 1 .. Len(c)
        <5>1. 1 + ((i - 1) - 1) = i - 1 /\ i - 1 \in 1 .. Len(c)
          BY <1>6, <1>9, <2>2, <3>1
        <5> QED
          BY <1>9, <3>2, <5>1
      <4> QED
        BY <3>1, <4>1
    <3>3. CASE (i - 1) - 1 \notin 1 .. Len(A)
      BY <3>1, <3>3
    <3> QED
      BY <3>2, <3>3
  <2>3. CASE i \in 2 + Len(A) .. Len(c)
    <3> DEFINE j == i - (1 + Len(A))
    <3>1. j \in 1 .. Len(B) /\ c[i] = B[j] /\ Good(B, j)
      <4>1. j \in 1 .. Len(B) /\ 1 + Len(A) + j = i
        BY <1>6, <1>9, <2>3
      <4> HIDE DEF j
      <4> QED
        BY <1>3, <1>9, <4>1
    <3>2. CASE j - 1 \in 1 .. Len(B)
      <4>1. c[i - 1] = B[j - 1] /\ i - 1 \in 1 .. Len(c)
        <5>1. 1 + Len(A) + (j - 1) = i - 1 /\ i - 1 \in 1 .. Len(c)
          BY <1>6, <1>9, <2>3, <3>2
        <5> HIDE DEF j
        <5> QED
          BY <1>9, <3>2, <5>1
      <4> HIDE DEF j
      <4> QED
        BY <3>1, <4>1
    <3>3. CASE j - 1 \notin 1 .. Len(B)
      <4> HIDE DEF j
      <4> QED
        BY <3>1, <3>3
    <3> QED
      BY <3>2, <3>3
  <2>4. i = 1 \/ i \in 2 .. 1 + Len(A) \/ i \in 2 + Len(A) .. Len(c)
    BY <1>6, <1>9
  <2> QED
    BY <2>1, <2>2, <2>3, <2>4
<1> QED
  BY <1>5, <1>4, <1>9, <1>10, <1>11, <1>12

LEMMA CommitVectorStep ==
  ASSUME GraphInv, NEW w \in Writes, CommitVector(w)
  PROVE  GraphInv'
<1> DEFINE c == Calls(w, clock')
<1>1. /\ pending = <<>> /\ pending' = c
      /\ vectors' \subseteq vectors \cup {<<"fact", w.fact>>}
      /\ UNCHANGED <<nodes, targets, sources, text>>
  BY DEF CommitVector
<1>2. /\ c \in Seq(ToSet(c)) /\ Len(c) \in Nat /\ 1 \in 1 .. Len(c)
      /\ c[1].kind = "fact" /\ Key(c[1]) = <<"fact", w.fact>>
      /\ \A i \in 1 .. Len(c) :
           /\ IsNode(c[i])
           /\ IsEdge(c[i]) => /\ Source(c[i]) = <<"fact", w.fact>>
                             /\ i - 1 \in 1 .. Len(c) /\ c[i - 1].kind \in Anchors
                             /\ Key(c[i - 1]) = Target(c[i])
  BY CallsFacts
<1> HIDE DEF c
<1>3. PendingOK'
  <2>1. ASSUME NEW i \in 1 .. Len(c), IsEdge(c[i])
        PROVE  /\ \E j \in 1 .. i - 1 : c[j].kind \in {"fact"} /\ Key(c[j]) = Source(c[i])
               /\ \E j \in 1 .. i - 1 : c[j].kind \in Anchors /\ Key(c[j]) = Target(c[i])
    <3>1. i - 1 \in 1 .. i - 1 /\ 1 \in 1 .. i - 1
      BY <1>2, <2>1
    <3> QED
      BY <1>2, <2>1, <3>1
  <2>2. /\ pending' \in Seq(ToSet(pending'))
        /\ \A i \in 1 .. Len(pending') :
             /\ IsNode(pending'[i])
             /\ IsEdge(pending'[i]) =>
                  /\ \E j \in 1 .. i - 1 : /\ pending'[j].kind \in {"fact"}
                                            /\ Key(pending'[j]) = Source(pending'[i])
                  /\ \E j \in 1 .. i - 1 : /\ pending'[j].kind \in Anchors
                                            /\ Key(pending'[j]) = Target(pending'[i])
    BY <1>1, <1>2, <2>1
  <2> QED
    BY <2>2 DEF PendingOK, Coming
<1>4. NodesOK'
  BY <1>1 DEF GraphInv, NodesOK
<1>5. EdgesAreWhole'
  <2>1. Ends' /\ Entered' /\ Mirrored' /\ NoEmptyRow'
    BY <1>1, WholeMeans DEF GraphInv, Ends, Entered, Mirrored, NoEmptyRow, In, Has, Stored
  <2> QED
    BY <2>1, WholeMeansAfter
<1>6. IndexesInv'
  <2>1. vectors \subseteq text
    BY <1>1 DEF GraphInv, IndexesInv, PendingKeys, ToSet
  <2>2. c[1] \in ToSet(pending')
    BY <1>1, <1>2 DEF ToSet
  <2>3. <<"fact", w.fact>> \in PendingKeys({"fact"})'
    BY <1>2, <2>2 DEF PendingKeys
  <2>4. text' = Stored({"fact"})'
    BY <1>1 DEF GraphInv, IndexesInv, Stored
  <2> QED
    BY <1>1, <2>1, <2>3, <2>4 DEF IndexesInv
<1> QED
  BY <1>3, <1>4, <1>5, <1>6 DEF GraphInv

-----------------------------------------------------------------------------
(* Delete.                                                                 *)

\* What goes with k, and what is left of the views.
LEMMA DeleteFacts ==
  ASSUME GraphInv, NEW k \in DOMAIN nodes, Delete(k)
  PROVE  LET gone == {k} \cup Range(Row(targets, k)) \cup Range(Row(sources, k))
         IN /\ k \in gone
            /\ \A j \in gone : j = k \/ (j[1] \in Edges /\ (Source(nodes[j]) = k \/ Target(nodes[j]) = k))
            /\ \A j \in DOMAIN nodes \ gone :
                 j[1] \in Edges => <<Source(nodes[j]), Target(nodes[j])>> \notin Incident(k)
            /\ \A a, b : In(targets, a, b) /\ targets[a][b] \in gone => <<a, b>> \in Incident(k)
            /\ \A a, b : <<a, b>> \in Incident(k) =>
                 In(targets, a, b) /\ (k \in {a, b} \/ IsEdge(nodes[k]))
            /\ \A b : In(targets, k, b) => <<k, b>> \in Incident(k)
            /\ \A a : In(targets, a, k) => <<a, k>> \in Incident(k)
            /\ \A x, y : <<y, x>> \in Swap(Incident(k)) <=> <<x, y>> \in Incident(k)
<1> DEFINE gone == {k} \cup Range(Row(targets, k)) \cup Range(Row(sources, k))
           P == Incident(k)
<1>0. NodesOK /\ Ends /\ Entered /\ Mirrored
  BY WholeMeans DEF GraphInv
<1>1. /\ \A j \in DOMAIN nodes : Key(nodes[j]) = j /\ j[1] = nodes[j].kind
      /\ \A j, S : Has(j, S) <=> j \in DOMAIN nodes /\ j[1] \in S
      /\ \A j, S : j \in Stored(S) <=> j \in DOMAIN nodes /\ j[1] \in S
      /\ \A j \in DOMAIN nodes : j[1] \in Edges <=> IsEdge(nodes[j])
  BY <1>0, StoredFacts DEF IsEdge
<1>2. \A rows, j : j \in Range(Row(rows, k)) <=> \E b : In(rows, k, b) /\ j = rows[k][b]
  BY RowFacts DEF Range
<1>3. \A j : j \in gone <=>
        \/ j = k
        \/ \E b : In(targets, k, b) /\ j = targets[k][b]
        \/ \E a : In(targets, a, k) /\ j = targets[a][k]
  <2>1. \A a : In(sources, k, a) <=> In(targets, a, k)
    BY <1>0 DEF Entered, Mirrored
  <2>2. \A a : In(targets, a, k) => sources[k][a] = targets[a][k]
    BY <1>0 DEF Entered
  <2> QED
    BY <1>2, <2>1, <2>2
<1>4. \A a, b : <<a, b>> \in P <=>
        \/ a = k /\ In(targets, k, b)
        \/ b = k /\ In(targets, a, k)
        \/ IsEdge(nodes[k]) /\ a = Source(nodes[k]) /\ b = Target(nodes[k])
  <2>1. \A a : a \in DOMAIN Row(sources, k) <=> In(targets, a, k)
    BY <1>0, RowFacts DEF Entered, Mirrored
  <2>2. \A b : b \in DOMAIN Row(targets, k) <=> In(targets, k, b)
    BY RowFacts
  <2> QED
    BY <2>1, <2>2 DEF Incident
<1>5. \A x, y : <<y, x>> \in Swap(P) <=> <<x, y>> \in P
  <2>1. \A p \in P : p = <<p[1], p[2]>>
    BY DEF Incident
  <2> QED
    BY <2>1 DEF Swap
<1> HIDE DEF gone, P
\* the entry of a pair is the key of the edge with those ends
<1>6. \A j \in DOMAIN nodes : j[1] \in Edges =>
        targets[Source(nodes[j])][Target(nodes[j])] = j
  <2> SUFFICES ASSUME NEW j \in DOMAIN nodes, j[1] \in Edges
               PROVE  targets[Source(nodes[j])][Target(nodes[j])] = j
    OBVIOUS
  <2> DEFINE i == targets[Source(nodes[j])][Target(nodes[j])]
  <2>1. In(targets, Source(nodes[j]), Target(nodes[j]))
    BY <1>0, <1>1 DEF Ends
  <2>2. /\ Has(i, Edges) /\ Source(nodes[i]) = Source(nodes[j])
        /\ Target(nodes[i]) = Target(nodes[j])
    BY <1>0, <2>1 DEF Entered
  <2> HIDE DEF i
  <2>3. Key(nodes[i]) = Key(nodes[j])
    BY <1>1, <2>2, KeyFacts
  <2> QED
    BY <1>1, <2>2, <2>3 DEF i
<1>7. \A j \in gone : j = k \/ (j[1] \in Edges /\ (Source(nodes[j]) = k \/ Target(nodes[j]) = k))
  BY <1>0, <1>1, <1>3 DEF Entered
<1>8. \A j \in DOMAIN nodes \ gone :
        j[1] \in Edges => <<Source(nodes[j]), Target(nodes[j])>> \notin P
  <2> SUFFICES ASSUME NEW j \in DOMAIN nodes, j \notin gone, j[1] \in Edges,
                      <<Source(nodes[j]), Target(nodes[j])>> \in P
               PROVE  FALSE
    OBVIOUS
  <2>1. targets[Source(nodes[j])][Target(nodes[j])] = j
    BY <1>6
  <2>2. CASE Source(nodes[j]) = k /\ In(targets, k, Target(nodes[j]))
    BY <1>3, <2>1, <2>2
  <2>3. CASE Target(nodes[j]) = k /\ In(targets, Source(nodes[j]), k)
    BY <1>3, <2>1, <2>3
  <2>4. CASE /\ IsEdge(nodes[k]) /\ Source(nodes[j]) = Source(nodes[k])
             /\ Target(nodes[j]) = Target(nodes[k])
    <3>1. Key(nodes[j]) = Key(nodes[k])
      BY <1>1, <2>4, KeyFacts
    <3> QED
      BY <1>1, <1>3, <3>1
  <2> QED
    BY <1>4, <2>2, <2>3, <2>4
<1>9. ASSUME NEW a, NEW b, In(targets, a, b), targets[a][b] \in gone
      PROVE  <<a, b>> \in P
  <2>1. /\ Has(targets[a][b], Edges)
        /\ Source(nodes[targets[a][b]]) = a /\ Target(nodes[targets[a][b]]) = b
    BY <1>0, <1>9 DEF Entered
  <2>2. CASE targets[a][b] = k
    BY <1>1, <1>4, <2>1, <2>2
  <2>3. CASE targets[a][b] # k
    <3>1. a = k \/ b = k
      BY <1>7, <1>9, <2>1, <2>3
    <3> QED
      BY <1>4, <1>9, <3>1
  <2> QED
    BY <2>2, <2>3
<1>10. \A a, b : <<a, b>> \in P => In(targets, a, b) /\ (k \in {a, b} \/ IsEdge(nodes[k]))
  <2>1. IsEdge(nodes[k]) => In(targets, Source(nodes[k]), Target(nodes[k]))
    BY <1>0, <1>1 DEF Ends
  <2> QED
    BY <1>4, <2>1
<1> QED
  BY <1>3, <1>4, <1>5, <1>7, <1>8, <1>9, <1>10 DEF gone, P

LEMMA DeleteStep ==
  ASSUME GraphInv, NEW k \in DOMAIN nodes, Delete(k)
  PROVE  /\ GraphInv' /\ pending = <<>> /\ pending' = <<>>
         /\ \A S : (S \subseteq Anchors \/ S = {"fact"}) => Stored(S)' = Stored(S) \ {k}
         /\ Filed' = Filed \ Incident(k)
<1> DEFINE gone == {k} \cup Range(Row(targets, k)) \cup Range(Row(sources, k))
           P == Incident(k)
<1>0. /\ NodesOK /\ EdgesAreWhole /\ IndexesInv
      /\ Ends /\ Entered /\ Mirrored
  BY WholeMeans DEF GraphInv
<1>1. /\ pending = <<>> /\ pending' = <<>>
      /\ targets' = Unlink(targets, P) /\ sources' = Unlink(sources, Swap(P))
      /\ nodes' = Restrict(nodes, DOMAIN nodes \ gone)
      /\ text' = text \ {k} /\ vectors' = vectors \ {k}
  BY DEF Delete
<1>2. /\ k \in gone
      /\ \A j \in gone : j = k \/ (j[1] \in Edges /\ (Source(nodes[j]) = k \/ Target(nodes[j]) = k))
      /\ \A j \in DOMAIN nodes \ gone :
           j[1] \in Edges => <<Source(nodes[j]), Target(nodes[j])>> \notin P
      /\ \A a, b : In(targets, a, b) /\ targets[a][b] \in gone => <<a, b>> \in P
      /\ \A b : In(targets, k, b) => <<k, b>> \in P
      /\ \A a : In(targets, a, k) => <<a, k>> \in P
      /\ \A x, y : <<y, x>> \in Swap(P) <=> <<x, y>> \in P
  BY DeleteFacts
<1> HIDE DEF gone, P
<1>3. /\ DOMAIN nodes' = DOMAIN nodes \ gone
      /\ \A j \in DOMAIN nodes' : nodes'[j] = nodes[j]
  BY <1>1 DEF Restrict
<1>4. NodesOK'
  BY <1>0, <1>3 DEF NodesOK
<1>5. /\ \A j, S : Has(j, S) <=> j \in DOMAIN nodes /\ j[1] \in S
      /\ \A j, S : Has(j, S)' <=> j \in DOMAIN nodes' /\ j[1] \in S
      /\ \A j, S : j \in Stored(S) <=> j \in DOMAIN nodes /\ j[1] \in S
      /\ \A j, S : j \in Stored(S)' <=> j \in DOMAIN nodes' /\ j[1] \in S
  BY <1>0, <1>4, StoredFacts, StoredFactsAfter
<1>6. /\ \A x, y : In(targets', x, y) <=> In(targets, x, y) /\ <<x, y>> \notin P
      /\ \A x, y : In(targets', x, y) => targets'[x][y] = targets[x][y]
      /\ \A x \in DOMAIN targets' : targets'[x] # <<>>
  BY <1>1, UnlinkFacts
<1>7. /\ \A x, y : In(sources', y, x) <=> In(sources, y, x) /\ <<x, y>> \notin P
      /\ \A x, y : In(sources', y, x) => sources'[y][x] = sources[y][x]
      /\ \A x \in DOMAIN sources' : sources'[x] # <<>>
  <2>1. /\ \A y, x : In(sources', y, x) <=> In(sources, y, x) /\ <<y, x>> \notin Swap(P)
        /\ \A y, x : In(sources', y, x) => sources'[y][x] = sources[y][x]
        /\ \A y \in DOMAIN sources' : sources'[y] # <<>>
    BY <1>1, UnlinkFacts
  <2> QED
    BY <1>2, <2>1
<1>8. "fact" \notin Edges /\ Anchors \cap Edges = {}
  BY DEF Edges, Anchors
<1>9. Ends'
  <2> SUFFICES ASSUME NEW j \in DOMAIN nodes', j[1] \in Edges
               PROVE  /\ Source(nodes'[j]) \in DOMAIN nodes' /\ Source(nodes'[j])[1] \in {"fact"}
                      /\ Target(nodes'[j]) \in DOMAIN nodes' /\ Target(nodes'[j])[1] \in Anchors
                      /\ In(targets', Source(nodes'[j]), Target(nodes'[j]))
    BY <1>5 DEF Ends
  <2> DEFINE s == Source(nodes[j])
             t == Target(nodes[j])
  <2>1. j \in DOMAIN nodes \ gone /\ nodes'[j] = nodes[j] /\ j \in Stored(Edges)
    BY <1>3, <1>5
  <2>2. Has(s, {"fact"}) /\ Has(t, Anchors) /\ In(targets, s, t) /\ <<s, t>> \notin P
    BY <1>0, <1>2, <2>1 DEF Ends
  <2>3. In(targets', s, t)
    BY <1>6, <2>2
  <2>4. s # k /\ t # k
    BY <1>2, <2>2
  <2>5. s \notin gone /\ t \notin gone
    BY <1>2, <1>5, <1>8, <2>2, <2>4
  <2> QED
    BY <1>3, <1>5, <2>1, <2>2, <2>3, <2>5
<1>10. Entered'
  <2> SUFFICES ASSUME NEW a, NEW b, In(targets', a, b)
               PROVE  /\ In(sources', b, a) /\ sources'[b][a] = targets'[a][b]
                      /\ targets'[a][b] \in DOMAIN nodes' /\ targets'[a][b][1] \in Edges
                      /\ Source(nodes'[targets'[a][b]]) = a /\ Target(nodes'[targets'[a][b]]) = b
    BY <1>5 DEF Entered, In
  <2>1. In(targets, a, b) /\ <<a, b>> \notin P /\ targets'[a][b] = targets[a][b]
    BY <1>6
  <2>2. /\ In(sources, b, a) /\ sources[b][a] = targets[a][b]
        /\ Has(targets[a][b], Edges)
        /\ Source(nodes[targets[a][b]]) = a /\ Target(nodes[targets[a][b]]) = b
    BY <1>0, <2>1 DEF Entered
  <2>3. targets[a][b] \notin gone
    BY <1>2, <2>1
  <2> QED
    BY <1>3, <1>5, <1>7, <2>1, <2>2, <2>3
<1>11. Mirrored'
  <2>1. \A a, b : In(sources', b, a) => In(targets', a, b)
    BY <1>0, <1>6, <1>7 DEF Mirrored
  <2> QED
    BY <2>1 DEF Mirrored, In
<1>12. NoEmptyRow'
  BY <1>6, <1>7 DEF NoEmptyRow
<1>13. EdgesAreWhole'
  BY <1>9, <1>10, <1>11, <1>12, WholeMeansAfter
<1>14. ASSUME NEW S, S \subseteq Anchors \/ S = {"fact"} PROVE Stored(S)' = Stored(S) \ {k}
  <2>1. \A j : j[1] \in S => j[1] \notin Edges
    BY <1>8, <1>14
  <2> QED
    BY <1>2, <1>3, <1>5, <2>1
<1>15. IndexesInv'
  <2>1. PendingKeys({"fact"}) = {}
    BY <1>1 DEF PendingKeys, ToSet
  <2> QED
    BY <1>0, <1>1, <1>14, <2>1 DEF IndexesInv
<1>16. PendingOK'
  BY <1>1 DEF PendingOK
<1>17. Filed' = Filed \ P
  <2>1. \A p : p \in Filed' <=> \E a, b : p = <<a, b>> /\ In(targets', a, b)
    BY DEF Filed, In
  <2> QED
    BY <1>6, <2>1, FiledMeans
<1> QED
  BY <1>1, <1>4, <1>13, <1>14, <1>15, <1>16, <1>17 DEF GraphInv, P

-----------------------------------------------------------------------------
(* The theorems.                                                           *)

LEMMA GraphInvInit == Init => GraphInv
<1> SUFFICES ASSUME Init PROVE GraphInv
  OBVIOUS
<1>1. nodes = <<>> /\ targets = <<>> /\ sources = <<>> /\ text = {} /\ vectors = {}
      /\ pending = <<>>
  BY DEF Init
<1>2. NodesOK /\ Stored({"fact"}) = {}
  BY <1>1 DEF NodesOK, Stored
<1>3. PendingOK
  BY <1>1 DEF PendingOK
<1>4. EdgesAreWhole
  BY <1>1 DEF EdgesAreWhole, Stored
<1>5. IndexesInv
  BY <1>1, <1>2 DEF IndexesInv
<1> QED
  BY <1>2, <1>3, <1>4, <1>5 DEF GraphInv

LEMMA StandsStill ==
  ASSUME GraphInv, UNCHANGED <<graph, pending>>
  PROVE  GraphInv'
  BY DEF graph, GraphInv, NodesOK, PendingOK, Coming, EdgesAreWhole, IndexesInv, PendingKeys,
         Stored, Has, Row

LEMMA GraphInvStep == ASSUME GraphInv, [Next]_vars PROVE GraphInv'
<1>1. ASSUME NEW w \in Writes, CommitVector(w) PROVE GraphInv'
  BY <1>1, CommitVectorStep
<1>2. ASSUME NEW w \in Writes, CommitRefused(w) PROVE GraphInv'
  BY <1>2, StandsStill DEF CommitRefused, vars
<1>3. CASE CommitNode
  BY <1>3, CommitNodeStep
<1>4. ASSUME NEW k \in DOMAIN nodes, Delete(k) PROVE GraphInv'
  BY <1>4, DeleteStep
<1>5. ASSUME NEW k \in DOMAIN nodes, Contiguous(k) PROVE GraphInv'
  BY <1>5, StandsStill DEF Contiguous
<1>6. CASE UNCHANGED vars
  BY <1>6, StandsStill DEF vars
<1> QED
  BY <1>1, <1>2, <1>3, <1>4, <1>5, <1>6 DEF Next

LEMMA GraphInvariance == Spec => []GraphInv
  BY GraphInvInit, GraphInvStep, PTL DEF Spec

\* Whatever texts the clients send, however a commit and the deletes between
\* commits are ordered, no edge dangles and the two views agree.
THEOREM NoEdgeDangles == Spec => []EdgesAreWhole
<1>1. GraphInv => EdgesAreWhole
  BY DEF GraphInv
<1> QED
  BY <1>1, GraphInvariance, PTL

\* Between commits a search over either index finds stored facts only, and the
\* text index finds all of them.
THEOREM IndexesFollow == Spec => []IndexesAgree
<1>1. ASSUME GraphInv PROVE IndexesAgree
  <2> SUFFICES ASSUME pending = <<>> PROVE text = Stored({"fact"}) /\ vectors \subseteq text
    BY DEF IndexesAgree
  <2>1. PendingKeys({"fact"}) = {}
    BY DEF PendingKeys, ToSet
  <2> QED
    BY <1>1, <2>1 DEF GraphInv, IndexesInv
<1> QED
  BY <1>1, GraphInvariance, PTL

-----------------------------------------------------------------------------
(* The book, when no fact holds the separator.                             *)

FactsAreWhole == \A w \in Writes : NUL \notin ToSet(w.fact)

\* Two texts joined by a separator the first does not hold can be told apart.
LEMMA SplitAtSeparator ==
  ASSUME NEW S, NEW z \in S,
         NEW s \in Seq(S), NEW t \in Seq(S), NEW u \in Seq(S), NEW v \in Seq(S),
         z \notin ToSet(s), z \notin ToSet(u), s \o <<z>> \o t = u \o <<z>> \o v
  PROVE  s = u /\ t = v
<1> DEFINE Splits(c, x, y) ==
             /\ Len(c) = Len(x) + 1 + Len(y) /\ Len(x) \in Nat /\ Len(y) \in Nat
             /\ \A i \in 1 .. Len(x) : c[i] = x[i]
             /\ c[Len(x) + 1] = z
             /\ \A i \in 1 .. Len(y) : c[Len(x) + 1 + i] = y[i]
           c == s \o <<z>> \o t
<1>1. ASSUME NEW x \in Seq(S), NEW y \in Seq(S) PROVE Splits(x \o <<z>> \o y, x, y)
  <2> DEFINE xz == x \o <<z>>
  <2>1. /\ xz \in Seq(S) /\ Len(xz) = Len(x) + 1 /\ Len(x) \in Nat
        /\ \A i \in 1 .. Len(x) : xz[i] = x[i]
        /\ xz[Len(x) + 1] = z
    <3>1. <<z>> \in Seq(S) /\ Len(<<z>>) = 1 /\ <<z>>[1] = z /\ 1 \in 1 .. 1
      OBVIOUS
    <3>2. /\ xz \in Seq(S) /\ Len(xz) = Len(x) + Len(<<z>>) /\ Len(x) \in Nat
          /\ \A i \in 1 .. Len(x) : xz[i] = x[i]
          /\ \A i \in 1 .. Len(<<z>>) : xz[Len(x) + i] = <<z>>[i]
      BY <3>1, ConcatFacts
    <3> HIDE DEF xz
    <3> QED
      BY <3>1, <3>2
  <2> HIDE DEF xz
  <2> DEFINE all == xz \o y
  <2>2. /\ Len(all) = Len(xz) + Len(y) /\ Len(y) \in Nat
        /\ \A i \in 1 .. Len(xz) : all[i] = xz[i]
        /\ \A i \in 1 .. Len(y) : all[Len(xz) + i] = y[i]
    <3>1. xz \in Seq(S)
      BY <2>1
    <3> QED
      BY <3>1, ConcatFacts
  <2> HIDE DEF all
  <2>3. Splits(all, x, y)
    <3>1. \A i \in 1 .. Len(x) : i \in 1 .. Len(xz)
      BY <2>1
    <3>2. Len(x) + 1 \in 1 .. Len(xz)
      BY <2>1
    <3> QED
      BY <2>1, <2>2, <3>1, <3>2
  <2> QED
    BY <2>3 DEF all, xz
<1>2. Splits(c, s, t)
  BY <1>1
<1>3. Splits(c, u, v)
  <2>1. Splits(u \o <<z>> \o v, u, v)
    BY <1>1
  <2>2. c = u \o <<z>> \o v
    OBVIOUS
  <2> HIDE DEF c, Splits
  <2> QED
    BY <2>1, <2>2
<1> HIDE DEF c
<1>4. /\ \A i \in 1 .. Len(s) : s[i] # z
      /\ \A i \in 1 .. Len(u) : u[i] # z
  BY ElementsOf
<1>5. Len(s) = Len(u)
  <2>1. ~(Len(s) < Len(u))
    <3> SUFFICES ASSUME Len(s) < Len(u) PROVE FALSE
      OBVIOUS
    <3>1. Len(s) + 1 \in 1 .. Len(u)
      BY <1>2, <1>3
    <3> QED
      BY <1>2, <1>3, <1>4, <3>1
  <2>2. ~(Len(u) < Len(s))
    <3> SUFFICES ASSUME Len(u) < Len(s) PROVE FALSE
      OBVIOUS
    <3>1. Len(u) + 1 \in 1 .. Len(s)
      BY <1>2, <1>3
    <3> QED
      BY <1>2, <1>3, <1>4, <3>1
  <2> QED
    BY <1>2, <1>3, <2>1, <2>2
<1>6. Len(t) = Len(v)
  BY <1>2, <1>3, <1>5
<1>7. \A i \in 1 .. Len(s) : s[i] = u[i]
  BY <1>2, <1>3, <1>5
<1>8. \A i \in 1 .. Len(t) : t[i] = v[i]
  BY <1>2, <1>3, <1>5, <1>6
<1>9. s = u
  BY <1>5, <1>7, SeqEqual
<1>10. t = v
  BY <1>6, <1>8, SeqEqual
<1> QED
  BY <1>9, <1>10

LEMMA KeysApart ==
  ASSUME FactsAreWhole, NEW n, NEW m, IsNode(n), IsNode(m), IsEdge(n), IsEdge(m),
         Key(n) = Key(m)
  PROVE  Source(n) = Source(m) /\ Target(n) = Target(m)
<1> DEFINE S == {NUL} \cup ToSet(n.value) \cup ToSet(n.anchor) \cup ToSet(m.value)
                \cup ToSet(m.anchor)
<1>1. /\ n.value \in Facts /\ m.value \in Facts /\ n.anchor \in Names /\ m.anchor \in Names
  BY DEF IsNode, IsEdge
<1>2. \A f \in Facts : f \in Seq(ToSet(f)) /\ NUL \notin ToSet(f)
  BY WritesAssumption DEF Facts, FactsAreWhole
<1>3. \A a \in Names : a \in Seq(ToSet(a))
  BY WritesAssumption DEF Names
<1>4. /\ n.value \in Seq(S) /\ m.value \in Seq(S) /\ n.anchor \in Seq(S) /\ m.anchor \in Seq(S)
  <2>1. \A T, U : T \subseteq U => Seq(T) \subseteq Seq(U)
    OBVIOUS
  <2> QED
    BY <1>1, <1>2, <1>3, <2>1
<1>5. /\ n.kind = m.kind
      /\ n.value \o <<NUL>> \o n.anchor = m.value \o <<NUL>> \o m.anchor
  BY DEF Key
<1>6. NUL \in S
  OBVIOUS
<1>7. NUL \notin ToSet(n.value) /\ NUL \notin ToSet(m.value)
  BY <1>1, <1>2
<1> HIDE DEF S
<1>8. n.value = m.value /\ n.anchor = m.anchor
  BY <1>4, <1>5, <1>6, <1>7, SplitAtSeparator
<1> QED
  BY <1>5, <1>8 DEF Source, Target

LEMMA CommitNodeBook ==
  ASSUME FactsAreWhole, GraphInv, BookInv, CommitNode
  PROVE  BookInv'
<1> DEFINE n == pending[1]
<1>1. NodesOK /\ PendingOK /\ EdgesAreWhole /\ Ends
  BY WholeMeans DEF GraphInv
<1>2. /\ pending # <<>> /\ pending' = Tail(pending) /\ UNCHANGED book
      /\ Passed(n) \/ NewEdge(n) \/ NewVertex(n)
  BY <1>1, CommitNodeCases
<1>3. IsNode(n) /\ ToSet(pending) = {n} \cup ToSet(pending')
  BY <1>1, <1>2, HeadFacts
<1>4. /\ \A k, S : k \in Stored(S)' <=> k \in Stored(S) \/ (k = Key(n) /\ n.kind \in S)
      /\ \A k, S : (\E m \in ToSet(pending) : m.kind \in S /\ Key(m) = k) <=>
           \/ \E m \in ToSet(pending') : m.kind \in S /\ Key(m) = k
           \/ k = Key(n) /\ n.kind \in S
  BY <1>1, CommitNodeNodes
<1> HIDE DEF n
<1>5. ASSUME NEW S
      PROVE  Stored(S)' \cup PendingKeys(S)' = Stored(S) \cup PendingKeys(S)
  <2>1. \A k : k \in PendingKeys(S) <=> \E m \in ToSet(pending) : m.kind \in S /\ Key(m) = k
    BY DEF PendingKeys
  <2>2. \A k : k \in PendingKeys(S)' <=> \E m \in ToSet(pending') : m.kind \in S /\ Key(m) = k
    BY DEF PendingKeys
  <2>3. \A k : k \in Stored(S)' \cup PendingKeys(S)' <=> k \in Stored(S) \cup PendingKeys(S)
    BY <1>4, <2>1, <2>2
  <2> QED
    BY <2>3
<1>6. Filed' \cup PendingLinks' = Filed \cup PendingLinks
  <2> DEFINE pair == <<Source(n), Target(n)>>
  <2>1. PendingLinks = PendingLinks' \cup (IF IsEdge(n) THEN {pair} ELSE {})
    <3>1. PendingLinks = {<<Source(x), Target(x)>> : x \in {m \in ToSet(pending) : IsEdge(m)}}
      BY DEF PendingLinks
    <3>2. PendingLinks' = {<<Source(x), Target(x)>> : x \in {m \in ToSet(pending') : IsEdge(m)}}
      BY DEF PendingLinks
    <3> QED
      BY <1>3, <3>1, <3>2
  <2>2. \A p : p \in Filed' <=> \E a, b : p = <<a, b>> /\ In(targets', a, b)
    BY DEF Filed, In
  <2> HIDE DEF pair
  <2>3. CASE Passed(n)
    <3>1. Filed' = Filed
      BY <2>3 DEF Passed, Filed
    <3>2. IsEdge(n) => pair \in Filed
      <4> SUFFICES ASSUME IsEdge(n) PROVE pair \in Filed
        OBVIOUS
      <4> DEFINE k == Key(n)
      <4>1. k \in DOMAIN nodes /\ IsNode(nodes[k]) /\ Key(nodes[k]) = k
        BY <1>1, <2>3 DEF Passed, NodesOK
      <4>2. IsEdge(nodes[k])
        BY <4>1, KeyFacts DEF IsEdge
      <4>3. Source(nodes[k]) = Source(n) /\ Target(nodes[k]) = Target(n)
        BY <1>3, <4>1, <4>2, KeysApart
      <4>4. In(targets, Source(nodes[k]), Target(nodes[k]))
        BY <1>1, <4>1, <4>2 DEF Ends, Stored, IsEdge
      <4> QED
        BY <4>3, <4>4, FiledMeans DEF pair
    <3> QED
      BY <2>1, <3>1, <3>2
  <2>4. CASE NewEdge(n)
    <3>1. \A a, b : In(targets', a, b) <=> In(targets, a, b) \/ (a = Source(n) /\ b = Target(n))
      BY <2>4, LinkFacts DEF NewEdge
    <3>2. \A p : p \in Filed' <=> p \in Filed \/ p = pair
      BY <2>2, <3>1, FiledMeans DEF pair
    <3>3. IsEdge(n)
      BY <2>4 DEF NewEdge
    <3> QED
      BY <2>1, <3>2, <3>3
  <2>5. CASE NewVertex(n)
    <3>1. Filed' = Filed /\ ~IsEdge(n)
      BY <2>5 DEF NewVertex, Filed
    <3> QED
      BY <2>1, <3>1
  <2> QED
    BY <1>2, <2>3, <2>4, <2>5
<1> QED
  BY <1>2, <1>5, <1>6 DEF BookInv

\* What the two loops of a commit store, as a set.
LEMMA StoreAnchorsSet ==
  ASSUME NEW edge \in Edges, NEW f, NEW names, names \in Seq(ToSet(names))
  PROVE  /\ StoreAnchors(edge, f, names) \in Seq(ToSet(StoreAnchors(edge, f, names)))
         /\ ToSet(StoreAnchors(edge, f, names)) =
               {Vertex(TargetKind[edge], v, 0) : v \in ToSet(names)}
                 \cup {Edge(edge, f, v) : v \in ToSet(names)}
<1> DEFINE s == StoreAnchors(edge, f, names)
           m == 2 * Len(names)
           V(v) == Vertex(TargetKind[edge], v, 0)
           E(v) == Edge(edge, f, v)
<1>0. Len(names) \in Nat /\ m \in Nat
  OBVIOUS
<1>1. s = [i \in 1 .. m |-> IF i % 2 = 1 THEN V(names[(i + 1) \div 2]) ELSE E(names[i \div 2])]
  BY DEF StoreAnchors
<1> HIDE DEF s, V, E
<1>2. DOMAIN s = 1 .. m /\ s = [i \in 1 .. m |-> s[i]]
  BY <1>1
<1>3. \A i \in 1 .. m : s[i] \in ToSet(s)
  BY <1>2 DEF ToSet
<1>4. s \in Seq(ToSet(s))
  <2>1. s \in [1 .. m -> ToSet(s)]
    BY <1>2, <1>3
  <2> HIDE DEF m
  <2> QED
    BY <1>0, <2>1, SeqDef
<1>5. \A x \in ToSet(s) : \E i \in 1 .. m : x = s[i]
  BY <1>2 DEF ToSet
<1>6. ASSUME NEW i \in 1 .. m
      PROVE  \E v \in ToSet(names) : s[i] = V(v) \/ s[i] = E(v)
  <2>1. CASE i % 2 = 1
    <3>1. (i + 1) \div 2 \in 1 .. Len(names) /\ s[i] = V(names[(i + 1) \div 2])
      BY <1>0, <1>1, <2>1
    <3> QED
      BY <3>1, ElementsOf
  <2>2. CASE i % 2 # 1
    <3>1. i \div 2 \in 1 .. Len(names) /\ s[i] = E(names[i \div 2])
      BY <1>0, <1>1, <2>2
    <3> QED
      BY <3>1, ElementsOf
  <2> QED
    BY <2>1, <2>2
<1>7. ASSUME NEW v \in ToSet(names) PROVE V(v) \in ToSet(s) /\ E(v) \in ToSet(s)
  <2>1. PICK j \in 1 .. Len(names) : names[j] = v
    BY ElementsOf
  <2>2. /\ 2 * j \in 1 .. m /\ (2 * j) % 2 # 1 /\ (2 * j) \div 2 = j
        /\ 2 * j - 1 \in 1 .. m /\ (2 * j - 1) % 2 = 1 /\ ((2 * j - 1) + 1) \div 2 = j
    BY <1>0
  <2>3. s[2 * j - 1] = V(v) /\ s[2 * j] = E(v)
    BY <1>1, <2>1, <2>2
  <2> QED
    BY <1>3, <2>2, <2>3
<1> DEFINE R == {V(v) : v \in ToSet(names)} \cup {E(v) : v \in ToSet(names)}
<1>8. \A x : x \in ToSet(s) <=> x \in R
  BY <1>5, <1>6, <1>7
<1>9. ToSet(s) = R
  BY <1>8
<1> QED
  BY <1>4, <1>9 DEF s, V, E

LEMMA CallsSet ==
  ASSUME NEW w \in Writes, NEW ts
  PROVE  ToSet(Calls(w, ts)) =
           {Vertex("fact", w.fact, ts)}
             \cup {Vertex("entity", v, 0) : v \in ToSet(w.entities)}
             \cup {Edge("mentions", w.fact, v) : v \in ToSet(w.entities)}
             \cup {Vertex("topic", v, 0) : v \in ToSet(w.topics)}
             \cup {Edge("isabout", w.fact, v) : v \in ToSet(w.topics)}
<1> DEFINE F == <<Vertex("fact", w.fact, ts)>>
           A == StoreAnchors("mentions", w.fact, w.entities)
           B == StoreAnchors("isabout", w.fact, w.topics)
           D == ToSet(F) \cup ToSet(A) \cup ToSet(B)
<1>1. /\ w.entities \in Seq(ToSet(w.entities)) /\ w.topics \in Seq(ToSet(w.topics))
      /\ "mentions" \in Edges /\ "isabout" \in Edges
      /\ TargetKind["mentions"] = "entity" /\ TargetKind["isabout"] = "topic"
  <2>1. "mentions" \in Edges /\ "isabout" \in Edges
        /\ TargetKind["mentions"] = "entity" /\ TargetKind["isabout"] = "topic"
    BY DEF Edges, TargetKind
  <2> QED
    BY <2>1, WritesAssumption
<1>2. /\ A \in Seq(ToSet(A))
      /\ ToSet(A) = {Vertex("entity", v, 0) : v \in ToSet(w.entities)}
                      \cup {Edge("mentions", w.fact, v) : v \in ToSet(w.entities)}
  BY <1>1, StoreAnchorsSet
<1>3. /\ B \in Seq(ToSet(B))
      /\ ToSet(B) = {Vertex("topic", v, 0) : v \in ToSet(w.topics)}
                      \cup {Edge("isabout", w.fact, v) : v \in ToSet(w.topics)}
  BY <1>1, StoreAnchorsSet
<1>4. F \in Seq(ToSet(F)) /\ ToSet(F) = {Vertex("fact", w.fact, ts)}
  BY DEF ToSet
<1>5. Calls(w, ts) = (F \o A) \o B
  BY DEF Calls
<1> HIDE DEF F, A, B
<1>6. F \in Seq(D) /\ A \in Seq(D) /\ B \in Seq(D)
  <2>1. \A S, T : S \subseteq T => Seq(S) \subseteq Seq(T)
    OBVIOUS
  <2> QED
    BY <1>2, <1>3, <1>4, <2>1
<1> HIDE DEF D
<1>7. F \o A \in Seq(D) /\ ToSet(F \o A) = ToSet(F) \cup ToSet(A)
  BY <1>6, ConcatFacts, ConcatElements
<1> DEFINE FA == F \o A
<1>8. FA \in Seq(D) /\ ToSet(FA) = ToSet(F) \cup ToSet(A) /\ Calls(w, ts) = FA \o B
  BY <1>5, <1>7
<1> HIDE DEF FA
<1>9. ToSet(FA \o B) = ToSet(FA) \cup ToSet(B)
  BY <1>6, <1>8, ConcatElements
<1> QED
  BY <1>2, <1>3, <1>4, <1>8, <1>9

LEMMA CommitVectorBook ==
  ASSUME BookInv, NEW w \in Writes, CommitVector(w)
  PROVE  BookInv'
<1> DEFINE f == <<"fact", w.fact>>
           E == {<<"entity", v>> : v \in ToSet(w.entities)}
           T == {<<"topic", v>> : v \in ToSet(w.topics)}
<1>1. /\ pending = <<>> /\ pending' = Calls(w, clock') /\ book' = Ack(book, w)
      /\ UNCHANGED <<nodes, targets>>
  BY DEF CommitVector
<1>2. /\ book'.facts = book.facts \cup {f}
      /\ book'.anchors = book.anchors \cup E \cup T
      /\ book'.links = book.links \cup {<<f, a>> : a \in E \cup T}
  BY <1>1 DEF Ack
<1>3. \A n : n \in ToSet(pending') <=>
        \/ n = Vertex("fact", w.fact, clock')
        \/ \E v \in ToSet(w.entities) : n = Vertex("entity", v, 0) \/ n = Edge("mentions", w.fact, v)
        \/ \E v \in ToSet(w.topics) : n = Vertex("topic", v, 0) \/ n = Edge("isabout", w.fact, v)
  <2>1. ToSet(pending') =
           {Vertex("fact", w.fact, clock')}
             \cup {Vertex("entity", v, 0) : v \in ToSet(w.entities)}
             \cup {Edge("mentions", w.fact, v) : v \in ToSet(w.entities)}
             \cup {Vertex("topic", v, 0) : v \in ToSet(w.topics)}
             \cup {Edge("isabout", w.fact, v) : v \in ToSet(w.topics)}
    BY <1>1, CallsSet
  <2> QED
    BY <2>1
<1>4. /\ \A k, v, t : Vertex(k, v, t).kind = k /\ Vertex(k, v, t).value = v
      /\ \A k, v, a : Edge(k, v, a).kind = k /\ Edge(k, v, a).value = v /\ Edge(k, v, a).anchor = a
  BY DEF Vertex, Edge
<1>5. /\ \A v, t : Key(Vertex("fact", v, t)) = <<"fact", v>>
      /\ \A v, t : Key(Vertex("entity", v, t)) = <<"entity", v>>
      /\ \A v, t : Key(Vertex("topic", v, t)) = <<"topic", v>>
  <2>1. \A k, v, t : k \notin Edges => Key(Vertex(k, v, t)) = <<k, v>>
    BY <1>4 DEF Key, IsEdge
  <2>2. "fact" \notin Edges /\ "entity" \notin Edges /\ "topic" \notin Edges
    BY DEF Edges
  <2> QED
    BY <2>1, <2>2
<1>6. /\ \A v, a : Source(Edge("mentions", v, a)) = <<"fact", v>>
                  /\ Target(Edge("mentions", v, a)) = <<"entity", a>>
      /\ \A v, a : Source(Edge("isabout", v, a)) = <<"fact", v>>
                  /\ Target(Edge("isabout", v, a)) = <<"topic", a>>
  BY <1>4 DEF Source, Target, TargetKind
<1>7. PendingKeys({"fact"})' = {f}
  <2>1. \A k : k \in PendingKeys({"fact"})' <=> \E n \in ToSet(pending') : n.kind = "fact" /\ Key(n) = k
    BY DEF PendingKeys
  <2>2. \A k : k \in PendingKeys({"fact"})' <=> k = f
    BY <1>3, <1>4, <1>5, <2>1
  <2> QED
    BY <2>2
<1>8. PendingKeys(Anchors)' = E \cup T
  <2>1. \A k : k \in PendingKeys(Anchors)' <=>
                \E n \in ToSet(pending') : n.kind \in {"entity", "topic"} /\ Key(n) = k
    BY DEF PendingKeys, Anchors
  <2>2. ASSUME NEW k, NEW n \in ToSet(pending'), n.kind \in {"entity", "topic"}, Key(n) = k
        PROVE  k \in E \cup T
    BY <1>3, <1>4, <1>5, <2>2
  <2>3. ASSUME NEW v \in ToSet(w.entities) PROVE <<"entity", v>> \in PendingKeys(Anchors)'
    <3>1. Vertex("entity", v, 0) \in ToSet(pending')
      BY <1>3
    <3> QED
      BY <1>4, <1>5, <2>1, <3>1
  <2>4. ASSUME NEW v \in ToSet(w.topics) PROVE <<"topic", v>> \in PendingKeys(Anchors)'
    <3>1. Vertex("topic", v, 0) \in ToSet(pending')
      BY <1>3
    <3> QED
      BY <1>4, <1>5, <2>1, <3>1
  <2> QED
    BY <2>1, <2>2, <2>3, <2>4
<1>9. PendingLinks' = {<<f, a>> : a \in E \cup T}
  <2>1. \A p : p \in PendingLinks' <=>
                \E n \in ToSet(pending') : IsEdge(n) /\ p = <<Source(n), Target(n)>>
    BY DEF PendingLinks
  <2>2. ASSUME NEW n \in ToSet(pending'), IsEdge(n)
        PROVE  Source(n) = f /\ Target(n) \in E \cup T
    <3>1. n.kind \in {"mentions", "isabout"}
      BY <2>2 DEF IsEdge, Edges
    <3> QED
      BY <1>3, <1>4, <1>6, <3>1
  <2>3. ASSUME NEW v \in ToSet(w.entities) PROVE <<f, <<"entity", v>>>> \in PendingLinks'
    <3>1. Edge("mentions", w.fact, v) \in ToSet(pending')
      BY <1>3
    <3>2. IsEdge(Edge("mentions", w.fact, v))
      BY <1>4 DEF IsEdge, Edges
    <3> QED
      BY <1>6, <2>1, <3>1, <3>2
  <2>4. ASSUME NEW v \in ToSet(w.topics) PROVE <<f, <<"topic", v>>>> \in PendingLinks'
    <3>1. Edge("isabout", w.fact, v) \in ToSet(pending')
      BY <1>3
    <3>2. IsEdge(Edge("isabout", w.fact, v))
      BY <1>4 DEF IsEdge, Edges
    <3> QED
      BY <1>6, <2>1, <3>1, <3>2
  <2>5. \A p \in PendingLinks' : p \in {<<f, a>> : a \in E \cup T}
    BY <2>1, <2>2
  <2>6. \A a \in E \cup T : <<f, a>> \in PendingLinks'
    BY <2>3, <2>4
  <2> QED
    BY <2>5, <2>6
<1>10. /\ book.facts = Stored({"fact"}) /\ book.anchors = Stored(Anchors) /\ book.links = Filed
  <2>1. ToSet(pending) = {}
    BY <1>1 DEF ToSet
  <2> QED
    BY <2>1 DEF BookInv, PendingKeys, PendingLinks
<1>11. \A S : Stored(S)' = Stored(S)
  BY <1>1 DEF Stored
<1>12. Filed' = Filed
  BY <1>1 DEF Filed
<1> HIDE DEF f, E, T
<1> QED
  BY <1>2, <1>7, <1>8, <1>9, <1>10, <1>11, <1>12 DEF BookInv

LEMMA BookStep == ASSUME FactsAreWhole, GraphInv, BookInv, [Next]_vars PROVE BookInv'
<1>1. ASSUME NEW w \in Writes, CommitVector(w) PROVE BookInv'
  BY <1>1, CommitVectorBook
<1>2. CASE CommitNode
  BY <1>2, CommitNodeBook
<1>3. ASSUME NEW k \in DOMAIN nodes, Delete(k) PROVE BookInv'
  <2>1. /\ pending = <<>> /\ pending' = <<>>
        /\ Stored({"fact"})' = Stored({"fact"}) \ {k} /\ Stored(Anchors)' = Stored(Anchors) \ {k}
        /\ Filed' = Filed \ Incident(k)
    BY <1>3, DeleteStep
  <2>2. /\ book'.facts = book.facts \ {k} /\ book'.anchors = book.anchors \ {k}
        /\ book'.links = book.links \ Incident(k)
    BY <1>3 DEF Delete
  <2>3. ToSet(pending) = {} /\ ToSet(pending') = {}
    BY <2>1 DEF ToSet
  <2>4. /\ \A S : PendingKeys(S) = {} /\ PendingKeys(S)' = {}
        /\ PendingLinks = {} /\ PendingLinks' = {}
    BY <2>3 DEF PendingKeys, PendingLinks
  <2> QED
    BY <2>1, <2>2, <2>4 DEF BookInv
<1>4. ASSUME UNCHANGED <<nodes, targets, pending, book>> PROVE BookInv'
  BY <1>4 DEF BookInv, Stored, Filed, PendingKeys, PendingLinks
<1>5. ASSUME NEW w \in Writes, CommitRefused(w) PROVE BookInv'
  BY <1>4, <1>5 DEF CommitRefused, vars, graph
<1>6. ASSUME NEW k, Contiguous(k) PROVE BookInv'
  BY <1>4, <1>6 DEF Contiguous, graph
<1>7. CASE UNCHANGED vars
  BY <1>4, <1>7 DEF vars, graph
<1> QED
  BY <1>1, <1>2, <1>3, <1>5, <1>6, <1>7 DEF Next

\* When no fact holds the byte that separates the two texts an edge is hashed
\* from, the graph between commits is what was acknowledged, and no more.
THEOREM NothingForgotten == ASSUME FactsAreWhole PROVE Spec => []RemembersEverything
<1>1. Init => BookInv
  BY DEF Init, BookInv, Stored, Filed, PendingKeys, PendingLinks, ToSet
<1>2. GraphInv /\ BookInv /\ [Next]_vars => BookInv'
  BY BookStep
<1>3. ASSUME BookInv PROVE RemembersEverything
  <2> SUFFICES ASSUME pending = <<>>
               PROVE  /\ book.facts = Stored({"fact"}) /\ book.anchors = Stored(Anchors)
                      /\ book.links = Filed
    BY DEF RemembersEverything
  <2>1. ToSet(pending) = {}
    BY DEF ToSet
  <2> QED
    BY <1>3, <2>1 DEF BookInv, PendingKeys, PendingLinks
<1> QED
  BY <1>1, <1>2, <1>3, GraphInvariance, PTL DEF Spec

-----------------------------------------------------------------------------
(* The caches of temporal neighbours.                                      *)

FactKeys == {<<"fact", w.fact>> : w \in Writes}
Members(a) == {f \in DOMAIN Row(sources, a) : Has(f, {"fact"})}
Times(a) == [f \in Members(a) |-> nodes[f].ts]

Ahead(ts, f, g) == Earlier(ts[f], f, ts[g], g)
Between(ts, f, h, g) == (Ahead(ts, f, h) /\ Ahead(ts, h, g)) \/ (Ahead(ts, g, h) /\ Ahead(ts, h, f))

\* Write time and key order facts strictly.
LEMMA AheadOrders ==
  ASSUME NEW S \in SUBSET FactKeys, NEW ts, IntValued(ts, S)
  PROVE  /\ \A f \in S : ~Ahead(ts, f, f)
         /\ \A f, g, h \in S : Ahead(ts, f, g) /\ Ahead(ts, g, h) => Ahead(ts, f, h)
         /\ \A f, g \in S : f # g => Ahead(ts, f, g) \/ Ahead(ts, g, f)
<1>1. /\ \A f \in FactKeys : KeyRank[f] \in Int
      /\ \A f, g \in FactKeys : KeyRank[f] = KeyRank[g] => f = g
  BY KeyRankAssumption DEF FactKeys
<1>2. \A f \in S : KeyRank[f] \in Int /\ ts[f] \in Int
  BY <1>1 DEF IntValued
<1>3. \A f, g \in S : Ahead(ts, f, g) <=> ts[f] < ts[g] \/ (ts[f] = ts[g] /\ KeyRank[f] < KeyRank[g])
  BY DEF Ahead, Earlier
<1>4. \A f, g \in S : KeyRank[f] = KeyRank[g] => f = g
  BY <1>1
<1>5. \A f \in S : ~Ahead(ts, f, f)
  BY <1>2, <1>3
<1>6. \A f, g, h \in S : Ahead(ts, f, g) /\ Ahead(ts, g, h) => Ahead(ts, f, h)
  BY <1>2, <1>3
<1>7. \A f, g \in S : f # g => Ahead(ts, f, g) \/ Ahead(ts, g, f)
  BY <1>2, <1>3, <1>4
<1> QED
  BY <1>5, <1>6, <1>7

\* So a cached sequence lists its members, each once, in that order.
LEMMA InOrderLists ==
  ASSUME NEW S \in SUBSET FactKeys, IsFiniteSet(S), NEW ts, DOMAIN ts = S, IntValued(ts, S)
  PROVE  LET s == InOrder(ts)
         IN  /\ s \in Seq(S) /\ ToSet(s) = S /\ Len(s) \in Nat
             /\ \A i, j \in 1 .. Len(s) : Ahead(ts, s[i], s[j]) <=> i < j
<1> DEFINE R == {p \in S \X S : Ahead(ts, p[1], p[2])}
           n == Cardinality(S)
           s == InOrder(ts)
<1>1. n \in Nat
  BY FS_CardinalityType
<1>2. \A f, g \in S : <<f, g>> \in R <=> Ahead(ts, f, g)
  OBVIOUS
<1>3. /\ \A f \in S : ~Ahead(ts, f, f)
      /\ \A f, g, h \in S : Ahead(ts, f, g) /\ Ahead(ts, g, h) => Ahead(ts, f, h)
      /\ \A f, g \in S : f # g => Ahead(ts, f, g) \/ Ahead(ts, g, f)
  BY AheadOrders
<1> HIDE DEF R, s
<1>4. Orders(R, S)
  <2> SUFFICES ASSUME NEW f \in S, NEW g \in S, NEW h \in S
               PROVE  /\ <<f, f>> \notin R
                      /\ <<f, g>> \in R /\ <<g, h>> \in R => <<f, h>> \in R
                      /\ f # g => <<f, g>> \in R \/ <<g, f>> \in R
    BY DEF Orders
  <2> QED
    BY <1>2, <1>3
<1>5. \E t \in [1 .. n -> S] : \A i, j \in DOMAIN t : i < j => Ahead(ts, t[i], t[j])
  <2>1. PICK t : LaidOut(t, R, S)
    BY <1>4, Sortable
  <2>2. t \in [1 .. n -> S] /\ DOMAIN t = 1 .. n /\ \A i \in 1 .. n : t[i] \in S
    BY <2>1 DEF LaidOut
  <2>3. \A i, j \in 1 .. n : i < j => Ahead(ts, t[i], t[j])
    BY <1>2, <2>1, <2>2 DEF LaidOut
  <2> QED
    BY <2>2, <2>3
<1>6. s \in [1 .. n -> S] /\ \A i, j \in DOMAIN s : i < j => Ahead(ts, s[i], s[j])
  BY <1>5 DEF InOrder, Ahead, s
<1>7. LaidOut(s, R, S)
  BY <1>2, <1>6 DEF LaidOut
<1>8. s \in Seq(S) /\ Len(s) = n /\ ToSet(s) = S
  BY <1>1, <1>4, <1>7, LayoutIsWhole
<1>9. \A i, j \in 1 .. n : Ahead(ts, s[i], s[j]) <=> i < j
  <2>1. \A i \in 1 .. n : s[i] \in S
    BY <1>6
  <2> SUFFICES ASSUME NEW i \in 1 .. n, NEW j \in 1 .. n PROVE Ahead(ts, s[i], s[j]) <=> i < j
    OBVIOUS
  <2>2. CASE i < j
    BY <1>6, <2>2
  <2>3. CASE i = j
    BY <1>1, <1>3, <2>1, <2>3
  <2>4. CASE j < i
    BY <1>1, <1>3, <1>6, <2>1, <2>4
  <2> QED
    BY <1>1, <2>2, <2>3, <2>4
<1> QED
  BY <1>1, <1>8, <1>9 DEF s

\* The members on either side of f in a sequence are those with none between.
LEMMA AroundIsNearest ==
  ASSUME NEW S \in SUBSET FactKeys, IsFiniteSet(S), NEW ts, DOMAIN ts = S, IntValued(ts, S), NEW f
  PROVE  Around(InOrder(ts), f)
         = {g \in S : f \in S /\ g # f /\ ~ \E h \in S : Between(ts, f, h, g)}
<1> DEFINE s == InOrder(ts)
           n == Len(s)
<1>1. /\ s \in Seq(S) /\ ToSet(s) = S /\ n \in Nat
      /\ \A i, j \in 1 .. n : Ahead(ts, s[i], s[j]) <=> i < j
  BY InOrderLists
<1> HIDE DEF s
<1>2. DOMAIN s = 1 .. n /\ (\A i \in 1 .. n : s[i] \in S) /\ \A g \in S : \E i \in 1 .. n : s[i] = g
  BY <1>1, ElementsOf
<1>3. \A g : g \in Around(s, f) <=>
        \E i \in 1 .. n : /\ s[i] = g
                          /\ (i + 1 \in 1 .. n /\ s[i + 1] = f) \/ (i - 1 \in 1 .. n /\ s[i - 1] = f)
  BY <1>2 DEF Around
<1>4. ASSUME NEW g \in Around(s, f)
      PROVE  g \in S /\ f \in S /\ g # f /\ ~ \E h \in S : Between(ts, f, h, g)
  <2>1. PICK i \in 1 .. n : /\ s[i] = g
                            /\ (i + 1 \in 1 .. n /\ s[i + 1] = f) \/ (i - 1 \in 1 .. n /\ s[i - 1] = f)
    BY <1>3
  <2>2. PICK k \in 1 .. n : s[k] = f /\ (k = i + 1 \/ k = i - 1)
    BY <2>1
  <2>3. g # f
    <3>1. i # k /\ (i < k \/ k < i)
      BY <1>1, <2>2
    <3>2. ~Ahead(ts, s[i], s[i])
      BY <1>1
    <3> QED
      BY <1>1, <2>1, <2>2, <3>1, <3>2
  <2>4. ASSUME NEW h \in S, Between(ts, f, h, g) PROVE FALSE
    <3>1. PICK m \in 1 .. n : s[m] = h
      BY <1>2
    <3>2. (k < m /\ m < i) \/ (i < m /\ m < k)
      BY <1>1, <2>1, <2>2, <2>4, <3>1 DEF Between
    <3> QED
      BY <1>1, <2>2, <3>2
  <2> QED
    BY <1>2, <2>1, <2>2, <2>3, <2>4
<1>5. ASSUME NEW g \in S, f \in S, g # f, ~ \E h \in S : Between(ts, f, h, g)
      PROVE  g \in Around(s, f)
  <2>1. PICK i \in 1 .. n : s[i] = g
    BY <1>2
  <2>2. PICK k \in 1 .. n : s[k] = f
    BY <1>2, <1>5
  <2>3. \A m \in 1 .. n : ~(k < m /\ m < i) /\ ~(i < m /\ m < k)
    BY <1>1, <1>2, <1>5, <2>1, <2>2 DEF Between
  <2>4. i # k
    BY <1>5, <2>1, <2>2
  <2>5. CASE i < k
    <3>1. i + 1 \in 1 .. n /\ i + 1 <= k
      BY <1>1, <2>5
    <3>2. i + 1 = k
      BY <1>1, <2>3, <2>5, <3>1
    <3> QED
      BY <1>3, <2>1, <2>2, <3>1, <3>2
  <2>6. CASE k < i
    <3>1. i - 1 \in 1 .. n /\ k <= i - 1
      BY <1>1, <2>6
    <3>2. i - 1 = k
      BY <1>1, <2>3, <2>6, <3>1
    <3> QED
      BY <1>3, <2>1, <2>2, <3>1, <3>2
  <2> QED
    BY <1>1, <2>4, <2>5, <2>6
<1> QED
  BY <1>4, <1>5 DEF s

\* The facts filed under an anchor, read off either view.
MembersRead ==
  /\ \A a, f : f \in Members(a) <=> In(targets, f, a)
  /\ \A a, f : In(targets, f, a) => Has(f, {"fact"}) /\ Has(a, Anchors)
  /\ Stored({"fact"}) \subseteq FactKeys
  /\ \A a : /\ Members(a) \in SUBSET FactKeys /\ IsFiniteSet(Members(a))
            /\ DOMAIN Times(a) = Members(a) /\ IntValued(Times(a), Members(a))
            /\ Built(a) = InOrder(Times(a))

LEMMA MembersFacts == GraphInv /\ TimesInv => MembersRead
<1> SUFFICES ASSUME GraphInv, TimesInv PROVE MembersRead
  OBVIOUS
<1>1. NodesOK /\ Ends /\ Entered /\ Mirrored
  BY WholeMeans DEF GraphInv
<1>2. \A a, f : In(targets, f, a) => Has(f, {"fact"}) /\ Has(a, Anchors)
  <2> SUFFICES ASSUME NEW a, NEW f, In(targets, f, a) PROVE Has(f, {"fact"}) /\ Has(a, Anchors)
    OBVIOUS
  <2> DEFINE e == targets[f][a]
  <2>1. e \in Stored(Edges) /\ Source(nodes[e]) = f /\ Target(nodes[e]) = a
    BY <1>1 DEF Entered, Has, Stored
  <2> QED
    BY <1>1, <2>1 DEF Ends
<1>3. \A a, f : f \in Members(a) <=> In(targets, f, a)
  <2>1. \A a, f : f \in DOMAIN Row(sources, a) <=> In(sources, a, f)
    BY RowFacts
  <2>2. \A a, f : In(sources, a, f) <=> In(targets, f, a)
    BY <1>1 DEF Entered, Mirrored
  <2> QED
    BY <1>2, <2>1, <2>2 DEF Members
<1>4. Stored({"fact"}) \subseteq FactKeys
  <2> SUFFICES ASSUME NEW k \in Stored({"fact"}) PROVE k \in FactKeys
    OBVIOUS
  <2>1. k \in DOMAIN nodes /\ nodes[k].kind = "fact" /\ nodes[k].value \in Facts /\ Key(nodes[k]) = k
    BY <1>1 DEF Stored, NodesOK, IsNode
  <2>2. k = <<"fact", nodes[k].value>>
    BY <2>1, KeyFacts DEF Key
  <2> QED
    BY <2>1, <2>2 DEF Facts, FactKeys
<1>5. \A a : Members(a) \subseteq Stored({"fact"}) /\ Members(a) \subseteq DOMAIN nodes
  BY DEF Members, Has, Stored
<1>6. ASSUME NEW a
      PROVE  /\ Members(a) \in SUBSET FactKeys /\ IsFiniteSet(Members(a))
             /\ DOMAIN Times(a) = Members(a) /\ IntValued(Times(a), Members(a))
             /\ Built(a) = InOrder(Times(a))
  <2>1. Members(a) \in SUBSET FactKeys /\ IsFiniteSet(Members(a))
    BY <1>4, <1>5, FS_Subset DEF TimesInv
  <2>2. IntValued(Times(a), Members(a))
    BY <1>5 DEF TimesInv, IntValued, Times
  <2>3. Built(a) = InOrder(Times(a))
    BY DEF Built, Times, Members
  <2> QED
    BY <2>1, <2>2, <2>3 DEF Times
<1> QED
  BY <1>2, <1>3, <1>4, <1>6 DEF MembersRead

\* What the graph says of a fact's temporal neighbours is what the sequences of
\* its anchors say.
NeighboursRead ==
  \A f : NeighboursNow(f) = UNION {Around(Built(a), f) : a \in DOMAIN Row(targets, f)}

LEMMA NeighboursAreAround == GraphInv /\ TimesInv => NeighboursRead
<1> SUFFICES ASSUME GraphInv, TimesInv, NEW f
             PROVE  NeighboursNow(f) = UNION {Around(Built(a), f) : a \in DOMAIN Row(targets, f)}
  BY DEF NeighboursRead
<1>1. \A g, a : a \in DOMAIN Row(targets, g) <=> g \in Members(a)
  BY MembersFacts, RowFacts DEF MembersRead
<1>2. \A a : Members(a) \subseteq Stored({"fact"})
  BY DEF Members, Has, Stored
<1>3. \A a : Around(Built(a), f)
             = {g \in Members(a) : /\ f \in Members(a) /\ g # f
                                   /\ ~ \E h \in Members(a) : Between(Times(a), f, h, g)}
  <2> SUFFICES ASSUME NEW a
               PROVE  Around(Built(a), f)
                      = {g \in Members(a) : /\ f \in Members(a) /\ g # f
                                            /\ ~ \E h \in Members(a) : Between(Times(a), f, h, g)}
    OBVIOUS
  <2>1. /\ Members(a) \in SUBSET FactKeys /\ IsFiniteSet(Members(a))
        /\ DOMAIN Times(a) = Members(a) /\ IntValued(Times(a), Members(a))
        /\ Built(a) = InOrder(Times(a))
    BY MembersFacts DEF MembersRead
  <2> QED
    BY <2>1, AroundIsNearest
<1>4. \A a : \A g, h \in Members(a) : f \in Members(a) =>
        (Between(Times(a), f, h, g)
           <=> (Before(f, h) /\ Before(h, g)) \/ (Before(g, h) /\ Before(h, f)))
  BY DEF Between, Ahead, Times, Before
<1>5. \A g : g \in NeighboursNow(f) <=>
        g \in Stored({"fact"}) /\ \E a : /\ f \in Members(a) /\ g \in Members(a) /\ g # f
               /\ ~ \E h \in Stored({"fact"}) :
                     /\ h \in Members(a)
                     /\ (Before(f, h) /\ Before(h, g)) \/ (Before(g, h) /\ Before(h, f))
  BY <1>1 DEF NeighboursNow
<1>6. \A g : g \in NeighboursNow(f) <=> \E a : f \in Members(a) /\ g \in Around(Built(a), f)
  BY <1>2, <1>3, <1>4, <1>5
<1> QED
  BY <1>1, <1>6

\* Caches that drop what a step moved stay fresh: near are the anchors whose
\* members may have changed, K the facts that may have joined one.
Drops(K, near) ==
  /\ sequences' = Restrict(sequences, DOMAIN sequences \ near)
  /\ contiguity' = Restrict(contiguity, DOMAIN contiguity \
                     (K \cup UNION {ToSet(sequences[a]) : a \in near \cap DOMAIN sequences}))

LEMMA DroppedStayFresh ==
  ASSUME GraphInv, TimesInv, CachesFresh, GraphInv', TimesInv', NEW K, NEW near, Drops(K, near),
         \A a, f : a \notin near => (In(targets', f, a) <=> In(targets, f, a)),
         \A a, f : a \notin near /\ In(targets, f, a) => nodes'[f].ts = nodes[f].ts,
         \A a, f : In(targets', f, a) /\ f \notin K => In(targets, f, a)
  PROVE  CachesFresh'
<1>1. /\ \A a, f : f \in Members(a) <=> In(targets, f, a)
      /\ \A a : Built(a) = InOrder(Times(a))
  BY MembersFacts DEF MembersRead
<1>2. /\ \A a, f : f \in Members(a)' <=> In(targets', f, a)
      /\ \A a : Built(a)' = InOrder(Times(a)')
  <2>1. MembersRead'
    BY MembersFacts, PTL
  <2> QED
    BY <2>1 DEF MembersRead, In, InOrder, Earlier
<1>3. ASSUME NEW a, a \notin near PROVE Built(a)' = Built(a)
  <2>1. Members(a)' = Members(a)
    <3>1. \A f : f \in Members(a)' <=> f \in Members(a)
      BY <1>1, <1>2, <1>3
    <3> QED
      BY <3>1 DEF Members
  <2>2. \A f \in Members(a) : nodes'[f].ts = nodes[f].ts
    BY <1>1, <1>3
  <2>3. Times(a)' = Times(a)
    BY <2>1, <2>2 DEF Times
  <2> QED
    BY <1>1, <1>2, <2>3
<1>4. /\ DOMAIN sequences' = DOMAIN sequences \ near
      /\ \A a \in DOMAIN sequences' : sequences'[a] = sequences[a]
  BY DEF Drops, Restrict
<1>5. \A a \in DOMAIN sequences : sequences[a] = Built(a) /\ ToSet(sequences[a]) = Members(a)
  <2> SUFFICES ASSUME NEW a \in DOMAIN sequences
               PROVE  sequences[a] = Built(a) /\ ToSet(sequences[a]) = Members(a)
    OBVIOUS
  <2>1. sequences[a] = InOrder(Times(a))
    BY <1>1 DEF CachesFresh
  <2>2. /\ Members(a) \in SUBSET FactKeys /\ IsFiniteSet(Members(a))
        /\ DOMAIN Times(a) = Members(a) /\ IntValued(Times(a), Members(a))
    BY MembersFacts DEF MembersRead
  <2> QED
    BY <1>1, <2>1, <2>2, InOrderLists
<1>6. ASSUME NEW f \in DOMAIN contiguity'
      PROVE  /\ f \in DOMAIN contiguity /\ contiguity'[f] = contiguity[f] /\ f \notin K
             /\ \A a \in near \cap DOMAIN sequences : f \notin Members(a)
  BY <1>5 DEF Drops, Restrict
<1>7. ASSUME NEW f \in DOMAIN contiguity'
      PROVE  /\ contiguity'[f] = NeighboursNow(f)'
             /\ DOMAIN Row(targets', f) \subseteq DOMAIN sequences'
  <2>1. contiguity[f] = NeighboursNow(f) /\ DOMAIN Row(targets, f) \subseteq DOMAIN sequences
    BY <1>6 DEF CachesFresh
  <2>2. \A a : a \in DOMAIN Row(targets, f) <=> In(targets, f, a)
    BY RowFacts
  <2>3. \A a : a \in DOMAIN Row(targets', f) <=> In(targets', f, a)
    BY RowFacts
  <2>4. \A a \in DOMAIN Row(targets, f) : a \notin near
    BY <1>1, <1>6, <2>1, <2>2
  <2>5. DOMAIN Row(targets', f) = DOMAIN Row(targets, f)
    BY <1>6, <2>2, <2>3, <2>4
  <2>6. \A a \in DOMAIN Row(targets, f) : Built(a)' = Built(a)
    BY <1>3, <2>4
  <2>7. NeighboursNow(f) = UNION {Around(Built(a), f) : a \in DOMAIN Row(targets, f)}
    BY NeighboursAreAround DEF NeighboursRead
  <2>8. NeighboursNow(f)' = UNION {Around(Built(a)', f) : a \in DOMAIN Row(targets', f)}
    <3>1. NeighboursRead'
      BY NeighboursAreAround, PTL
    <3> QED
      BY <3>1 DEF NeighboursRead, Around, Row
  <2>9. NeighboursNow(f)' = NeighboursNow(f)
    BY <2>5, <2>6, <2>7, <2>8
  <2> QED
    BY <1>4, <1>6, <2>1, <2>4, <2>5, <2>9
<1>8. \A a \in DOMAIN sequences' : sequences'[a] = Built(a)'
  BY <1>3, <1>4, <1>5
<1>9. \A f : DOMAIN Row(targets, f)' = DOMAIN Row(targets', f)
  BY DEF Row
<1> QED
  BY <1>7, <1>8, <1>9 DEF CachesFresh

LEMMA TimesStep == ASSUME GraphInv, TimesInv, [Next]_vars PROVE TimesInv'
<1>1. ASSUME NEW w \in Writes, CommitVector(w) PROVE TimesInv'
  <2>1. clock' \in Nat /\ UNCHANGED nodes /\ pending' = Calls(w, clock')
    BY <1>1 DEF CommitVector, TimesInv
  <2>2. \A n \in ToSet(Calls(w, clock')) : n.ts \in Nat
    BY <2>1, CallsSet DEF Vertex, Edge
  <2>3. \A n \in ToSet(pending') : n.ts \in Nat
    BY <2>1, <2>2
  <2> QED
    BY <2>1, <2>3 DEF TimesInv, ToSet
<1>2. CASE CommitNode
  <2> DEFINE n == pending[1]
  <2>1. /\ pending # <<>> /\ pending' = Tail(pending) /\ UNCHANGED clock
        /\ nodes' = nodes \/ nodes' = With(nodes, Key(n), n)
    BY <1>2, CommitNodeCases DEF GraphInv, CommitNode, Passed, NewEdge, NewVertex
  <2>2. /\ pending \in Seq(ToSet(pending)) /\ n \in ToSet(pending)
        /\ Tail(pending) \in Seq(ToSet(Tail(pending))) /\ Len(Tail(pending)) = Len(pending) - 1
    BY <2>1, HeadFacts DEF GraphInv, PendingOK
  <2>3. ToSet(Tail(pending)) \subseteq ToSet(pending)
    <3> SUFFICES ASSUME NEW m \in ToSet(Tail(pending)) PROVE m \in ToSet(pending)
      OBVIOUS
    <3>1. PICK i \in 1 .. Len(Tail(pending)) : Tail(pending)[i] = m
      BY <2>2, ElementsOf
    <3>2. i + 1 \in 1 .. Len(pending) /\ pending[i + 1] = m
      BY <2>1, <2>2, <3>1
    <3> QED
      BY <2>2, <3>2, ElementsOf
  <2>4. \A m \in ToSet(pending') : m.ts \in Nat
    BY <2>1, <2>3 DEF TimesInv
  <2>5. n.ts \in Nat
    BY <2>2 DEF TimesInv
  <2>6. IsFiniteSet(DOMAIN nodes') /\ \A k \in DOMAIN nodes' : nodes'[k].ts \in Nat
    <3>1. CASE nodes' = nodes
      BY <3>1 DEF TimesInv
    <3>2. CASE nodes' = With(nodes, Key(n), n)
      <4>1. /\ DOMAIN nodes' = DOMAIN nodes \cup {Key(n)} /\ nodes'[Key(n)] = n
            /\ \A k \in DOMAIN nodes : k # Key(n) => nodes'[k] = nodes[k]
        BY <3>2 DEF With
      <4>2. IsFiniteSet(DOMAIN nodes')
        BY <4>1, FS_AddElement DEF TimesInv
      <4> HIDE DEF n
      <4> QED
        BY <2>5, <4>1, <4>2 DEF TimesInv
    <3> QED
      BY <2>1, <3>1, <3>2
  <2> QED
    BY <2>1, <2>4, <2>6 DEF TimesInv, ToSet
<1>3. ASSUME NEW k \in DOMAIN nodes, Delete(k) PROVE TimesInv'
  <2>1. /\ UNCHANGED <<clock, pending>> /\ DOMAIN nodes' \subseteq DOMAIN nodes
        /\ \A j \in DOMAIN nodes' : nodes'[j] = nodes[j]
    BY <1>3 DEF Delete, Restrict
  <2>2. IsFiniteSet(DOMAIN nodes')
    BY <2>1, FS_Subset DEF TimesInv
  <2> QED
    BY <2>1, <2>2 DEF TimesInv, ToSet
<1>4. ASSUME UNCHANGED <<nodes, clock, pending>> PROVE TimesInv'
  BY <1>4 DEF TimesInv, ToSet
<1>5. ASSUME NEW w \in Writes, CommitRefused(w) PROVE TimesInv'
  BY <1>4, <1>5 DEF CommitRefused, vars, graph
<1>6. ASSUME NEW k \in DOMAIN nodes, Contiguous(k) PROVE TimesInv'
  BY <1>4, <1>6 DEF Contiguous, graph
<1>7. CASE UNCHANGED vars
  BY <1>4, <1>7 DEF vars, graph
<1> QED
  BY <1>1, <1>2, <1>3, <1>5, <1>6, <1>7 DEF Next

\* A step that leaves the graph alone leaves what it says alone.
LEMMA SameSequences ==
  ASSUME UNCHANGED <<nodes, targets, sources>>
  PROVE  /\ \A a : Built(a)' = Built(a)
         /\ \A f : NeighboursNow(f)' = NeighboursNow(f)
         /\ \A f : DOMAIN Row(targets, f)' = DOMAIN Row(targets, f)
<1>1. \A a : Built(a)' = Built(a)
  BY DEF Built, InOrder, Earlier, Row, Has
<1>2. \A f, g : Before(f, g)' = Before(f, g)
  BY DEF Before, Earlier
<1>3. Stored({"fact"})' = Stored({"fact"})
  BY DEF Stored
<1>4. \A f : Row(targets, f)' = Row(targets, f)
  BY DEF Row
<1> QED
  BY <1>1, <1>2, <1>3, <1>4 DEF NeighboursNow

LEMMA StillFresh ==
  ASSUME CachesFresh, UNCHANGED <<nodes, targets, sources, caches>>
  PROVE  CachesFresh'
<1>1. /\ \A a : Built(a)' = Built(a)
      /\ \A f : NeighboursNow(f)' = NeighboursNow(f)
      /\ \A f : DOMAIN Row(targets, f)' = DOMAIN Row(targets, f)
  BY SameSequences
<1> QED
  BY <1>1 DEF CachesFresh, caches

\* A search reads what the graph says, whether or not it is cached.
LEMMA ContiguousFresh ==
  ASSUME CachesInv, NEW f \in DOMAIN nodes, Contiguous(f)
  PROVE  CachesFresh'
<1> DEFINE filed == {a \in DOMAIN Row(targets, f) : Has(a, Anchors)}
<1>0. GraphInv /\ TimesInv /\ CachesFresh
  BY DEF CachesInv
<1>1. /\ sequences' = [a \in DOMAIN sequences \cup filed |-> SequenceOf(a)]
      /\ contiguity' = With(contiguity, f, UNION {Around(SequenceOf(a), f) : a \in filed})
      /\ UNCHANGED <<nodes, targets, sources>>
  BY DEF Contiguous, graph
<1>2. filed = DOMAIN Row(targets, f)
  BY <1>0, MembersFacts, RowFacts DEF MembersRead
<1>3. \A a : SequenceOf(a) = Built(a)
  BY <1>0 DEF CachesFresh, SequenceOf
<1>4. NeighboursNow(f) = UNION {Around(Built(a), f) : a \in DOMAIN Row(targets, f)}
  BY <1>0, NeighboursAreAround DEF NeighboursRead
<1>5. UNION {Around(SequenceOf(a), f) : a \in filed} = NeighboursNow(f)
  BY <1>2, <1>3, <1>4
<1>6. /\ \A a : Built(a)' = Built(a)
      /\ \A g : NeighboursNow(g)' = NeighboursNow(g)
      /\ \A g : DOMAIN Row(targets, g)' = DOMAIN Row(targets, g)
  BY <1>1, SameSequences
<1> HIDE DEF filed
<1>7. \A a \in DOMAIN sequences' : sequences'[a] = Built(a)'
  BY <1>1, <1>3, <1>6
<1>8. ASSUME NEW g \in DOMAIN contiguity'
      PROVE  contiguity'[g] = NeighboursNow(g)' /\ DOMAIN Row(targets, g)' \subseteq DOMAIN sequences'
  <2>1. CASE g = f
    <3>1. contiguity'[g] = NeighboursNow(f)
      BY <1>1, <1>5, <2>1 DEF With
    <3> QED
      BY <1>1, <1>2, <1>6, <2>1, <3>1
  <2>2. CASE g # f
    <3>1. g \in DOMAIN contiguity /\ contiguity'[g] = contiguity[g]
      BY <1>1, <2>2 DEF With
    <3>2. contiguity[g] = NeighboursNow(g) /\ DOMAIN Row(targets, g) \subseteq DOMAIN sequences
      BY <1>0, <3>1 DEF CachesFresh
    <3> QED
      BY <1>1, <1>6, <3>1, <3>2
  <2> QED
    BY <2>1, <2>2
<1> QED
  BY <1>7, <1>8 DEF CachesFresh

\* A key and its neighbours: what DropSequences visits.
Near(K, out, in) == K \cup UNION {Neighbours(out, in, k) : k \in K}

LEMMA DropSequencesDrops ==
  ASSUME NEW K, NEW out, NEW in, DropSequences(K, out, in)
  PROVE  /\ Drops(K, Near(K, out, in))
         /\ K \subseteq Near(K, out, in)
         /\ \A k \in K : \A b : In(out, k, b) \/ In(in, k, b) => b \in Near(K, out, in)
<1>1. \A k : k \in K => \A b : In(out, k, b) \/ In(in, k, b) => b \in Neighbours(out, in, k)
  BY RowFacts DEF Neighbours
<1> QED
  BY <1>1 DEF DropSequences, Drops, Near

LEMMA CommitNodeCaches ==
  ASSUME GraphInv, CommitNode
  PROVE  LET n == pending[1]
         IN \/ UNCHANGED <<nodes, targets, sources, caches>>
            \/ NewEdge(n) /\ DropSequences({Key(n), Source(n)}, targets', sources')
            \/ NewVertex(n) /\ DropSequences({Key(n)}, targets, sources)
<1> DEFINE n == pending[1]
<1>1. pending # <<>> /\ Head(pending) = n /\ IsNode(n)
  BY HeadFacts DEF GraphInv, CommitNode
<1>2. n.kind = "fact" => n.value # <<>>
  BY <1>1, WritesAssumption DEF IsNode, Facts
<1>3. IsEdge(n) => n.kind # "fact"
  BY KeyFacts
<1>4. IF n.kind = "fact" THEN Put(n) ELSE Set(n)
  BY <1>1 DEF CommitNode
<1> HIDE DEF n
<1>5. \/ UNCHANGED <<nodes, targets, sources, caches>>
      \/ Stores(n) /\ (IsEdge(n) => Key(n) \notin DOMAIN nodes)
  BY <1>3, <1>4 DEF Put, Set
<1>6. Stores(n) /\ IsEdge(n) /\ Key(n) \notin DOMAIN nodes
        => NewEdge(n) /\ DropSequences({Key(n), Source(n)}, targets', sources')
  BY <1>3 DEF Stores, NewEdge
<1>7. Stores(n) /\ ~IsEdge(n) => NewVertex(n) /\ DropSequences({Key(n)}, targets, sources)
  BY <1>2 DEF Stores, NewVertex
<1> QED
  BY <1>5, <1>6, <1>7 DEF n

LEMMA CommitNodeFresh ==
  ASSUME CachesInv, CommitNode, GraphInv', TimesInv'
  PROVE  CachesFresh'
<1> DEFINE n == pending[1]
<1>0. GraphInv /\ TimesInv /\ CachesFresh
  BY DEF CachesInv
<1>1. \/ UNCHANGED <<nodes, targets, sources, caches>>
      \/ NewEdge(n) /\ DropSequences({Key(n), Source(n)}, targets', sources')
      \/ NewVertex(n) /\ DropSequences({Key(n)}, targets, sources)
  BY <1>0, CommitNodeCaches
<1>2. \A a, f : In(targets, f, a) => f \in DOMAIN nodes /\ f[1] = "fact"
  <2>1. \A f : Has(f, {"fact"}) => f \in DOMAIN nodes /\ f[1] = "fact"
    BY <1>0, StoredFacts DEF GraphInv
  <2> QED
    BY <1>0, <2>1, MembersFacts DEF MembersRead
<1> HIDE DEF n
<1>3. CASE UNCHANGED <<nodes, targets, sources, caches>>
  BY <1>0, <1>3, StillFresh
<1>4. CASE NewEdge(n) /\ DropSequences({Key(n), Source(n)}, targets', sources')
  <2> DEFINE K == {Key(n), Source(n)}
             near == Near(K, targets', sources')
  <2>1. /\ Drops(K, near)
        /\ \A k \in K : \A b : In(targets', k, b) \/ In(sources', k, b) => b \in near
    BY <1>4, DropSequencesDrops
  <2> HIDE DEF near
  <2>2. \A x, y : In(targets', x, y) <=> In(targets, x, y) \/ (x = Source(n) /\ y = Target(n))
    BY <1>4, LinkFacts DEF NewEdge
  <2>3. Target(n) \in near
    BY <2>1, <2>2
  <2>4. \A f \in DOMAIN nodes : nodes'[f] = nodes[f]
    BY <1>4 DEF NewEdge, With
  <2>5. \A a, f : a \notin near => (In(targets', f, a) <=> In(targets, f, a))
    BY <2>2, <2>3
  <2>6. \A a, f : In(targets, f, a) => nodes'[f].ts = nodes[f].ts
    BY <1>2, <2>4
  <2>7. \A a, f : In(targets', f, a) /\ f \notin K => In(targets, f, a)
    BY <2>2
  <2> HIDE DEF K
  <2> QED
    BY <1>0, <2>1, <2>5, <2>6, <2>7, DroppedStayFresh
<1>5. CASE NewVertex(n) /\ DropSequences({Key(n)}, targets, sources)
  <2> DEFINE K == {Key(n)}
             near == Near(K, targets, sources)
  <2>1. /\ Drops(K, near)
        /\ \A k \in K : \A b : In(targets, k, b) \/ In(sources, k, b) => b \in near
    BY <1>5, DropSequencesDrops
  <2> HIDE DEF near
  <2>2. \A x, y : In(targets', x, y) <=> In(targets, x, y)
    BY <1>5 DEF NewVertex, In
  <2>3. \A f \in DOMAIN nodes : f # Key(n) => nodes'[f] = nodes[f]
    BY <1>5 DEF NewVertex, With
  <2>4. \A a, f : a \notin near /\ In(targets, f, a) => nodes'[f].ts = nodes[f].ts
    BY <1>2, <2>1, <2>3
  <2> HIDE DEF K
  <2> QED
    BY <1>0, <2>1, <2>2, <2>4, DroppedStayFresh
<1> QED
  BY <1>1, <1>3, <1>4, <1>5

LEMMA DeleteFresh ==
  ASSUME CachesInv, NEW k \in DOMAIN nodes, Delete(k), GraphInv', TimesInv'
  PROVE  CachesFresh'
<1> DEFINE P == Incident(k)
           K == {k} \cup (IF IsEdge(nodes[k]) THEN {Source(nodes[k])} ELSE {})
           near == Near(K, targets, sources)
<1>0. GraphInv /\ TimesInv /\ CachesFresh /\ NodesOK /\ Ends /\ Entered
  BY WholeMeans DEF CachesInv, GraphInv
<1>1. /\ DropSequences(K, targets, sources)
      /\ targets' = Unlink(targets, P)
      /\ \A j \in DOMAIN nodes' : nodes'[j] = nodes[j]
  BY DEF Delete, Restrict
<1>2. /\ Drops(K, near) /\ K \subseteq near
      /\ \A j \in K : \A b : In(targets, j, b) \/ In(sources, j, b) => b \in near
  BY <1>1, DropSequencesDrops
<1>3. \A x, y : In(targets', x, y) <=> In(targets, x, y) /\ <<x, y>> \notin P
  BY <1>1, UnlinkFacts
\* Whatever edge goes, its anchor is near.
<1>4. ASSUME NEW a, NEW f, In(targets, f, a), <<f, a>> \in P PROVE a \in near
  <2>1. \/ f = k
        \/ a = k
        \/ IsEdge(nodes[k]) /\ f = Source(nodes[k])
    <3>1. \/ \E b : <<f, a>> = <<k, b>>
          \/ \E b : <<f, a>> = <<b, k>>
          \/ IsEdge(nodes[k]) /\ <<f, a>> = <<Source(nodes[k]), Target(nodes[k])>>
      BY <1>4 DEF Incident
    <3> QED
      BY <3>1
  <2>2. f \in K \/ a \in K
    BY <2>1
  <2> HIDE DEF near, K
  <2> QED
    BY <1>2, <1>4, <2>2
<1> HIDE DEF near, K, P
<1>5. \A a, f : a \notin near => (In(targets', f, a) <=> In(targets, f, a))
  BY <1>3, <1>4
<1>6. ASSUME NEW a, NEW f, a \notin near, In(targets, f, a) PROVE nodes'[f].ts = nodes[f].ts
  <2>1. MembersRead'
    BY MembersFacts, PTL
  <2>2. In(targets', f, a)
    BY <1>5, <1>6
  <2>3. f \in DOMAIN nodes'
    BY <2>1, <2>2 DEF MembersRead, Has, In
  <2> QED
    BY <1>1, <2>3
<1>7. \A a, f : In(targets', f, a) /\ f \notin K => In(targets, f, a)
  BY <1>3
<1> QED
  BY <1>0, <1>2, <1>5, <1>6, <1>7, DroppedStayFresh

LEMMA CachesStep ==
  ASSUME CachesInv, [Next]_vars, GraphInv', TimesInv'
  PROVE  CachesFresh'
<1>1. CachesFresh
  BY DEF CachesInv
<1>2. ASSUME UNCHANGED <<graph, caches>> PROVE CachesFresh'
  BY <1>1, <1>2, StillFresh DEF graph
<1>3. CASE CommitNode
  BY <1>3, CommitNodeFresh
<1>4. ASSUME NEW k \in DOMAIN nodes, Delete(k) PROVE CachesFresh'
  BY <1>4, DeleteFresh
<1>5. ASSUME NEW k \in DOMAIN nodes, Contiguous(k) PROVE CachesFresh'
  BY <1>5, ContiguousFresh
<1>6. ASSUME NEW w \in Writes, CommitVector(w) PROVE CachesFresh'
  BY <1>1, <1>6, StillFresh DEF CommitVector
<1>7. ASSUME NEW w \in Writes, CommitRefused(w) PROVE CachesFresh'
  BY <1>2, <1>7 DEF CommitRefused, vars
<1>8. CASE UNCHANGED vars
  BY <1>2, <1>8 DEF vars
<1> QED
  BY <1>3, <1>4, <1>5, <1>6, <1>7, <1>8 DEF Next

\* A cached sequence or neighbour list is what the graph says now: dropSequences
\* visits every anchor whose members a write or a delete moves, and takes the
\* lists that were read off them.
THEOREM CachesAreFresh == Spec => []CachesFresh
<1>1. Init => CachesInv
  <2>1. Init => TimesInv /\ CachesFresh
    BY FS_EmptySet DEF Init, TimesInv, CachesFresh, ToSet
  <2> QED
    BY <2>1, GraphInvInit DEF CachesInv
<1>2. ASSUME CachesInv, [Next]_vars PROVE CachesInv'
  <2>1. GraphInv' /\ TimesInv'
    BY <1>2, GraphInvStep, TimesStep DEF CachesInv
  <2> QED
    BY <1>2, <2>1, CachesStep DEF CachesInv
<1>3. CachesInv => CachesFresh
  BY DEF CachesInv
<1> QED
  BY <1>1, <1>2, <1>3, PTL DEF Spec

=============================================================================
