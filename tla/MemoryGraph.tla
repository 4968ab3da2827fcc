---------------------------- MODULE MemoryGraph ----------------------------
(***************************************************************************)
(* The in-process graph of internal/graph/in_memory.go and the writes      *)
(* Stream.Commit (internal/query/stream.go) makes to it.                   *)
(*                                                                         *)
(* A remember is a sequence of calls on the graph: the vector is indexed,  *)
(* the fact is Put, and then an anchor and an edge are Set for each entity *)
(* and each topic.  pending holds the calls still to come, one per step.   *)
(* The caller holds the write lock throughout, so a search, which only     *)
(* touches the caches behind contiguous, and a Delete start when nothing   *)
(* is pending.                                                             *)
(*                                                                         *)
(* A text is a sequence of symbols, because edges are keyed by the text of *)
(* both ends.  The 64-bit hash of a key's material is taken to be          *)
(* injective, so the material itself is the key.                           *)
(***************************************************************************)
EXTENDS Integers, SequencesExt, FiniteSetsExt

CONSTANTS
    Writes,       \* the remembers clients send: [fact, entities, topics, dim]
    NUL,          \* the separator byte in an edge's hash material
    KeyRank,      \* the numeric order of the facts' keys
    MaxTime       \* bound: the last instant of the clock

ASSUME MaxTimeAssumption == MaxTime \in Nat

\* Keys are numbers, and those of two facts differ.
ASSUME KeyRankAssumption ==
    \A v, w \in Writes :
        LET rank(x) == KeyRank[<<"fact", x.fact>>]
        IN rank(v) \in Int /\ (rank(v) = rank(w) => v.fact = w.fact)

\* The parser lets no empty fact through.
ASSUME WritesAssumption ==
    \A w \in Writes :
        /\ w.fact \in Seq(ToSet(w.fact)) \ {<<>>} /\ w.dim \in Nat
        /\ \A names \in {w.entities, w.topics} :
             /\ names \in Seq(ToSet(names))
             /\ \A v \in ToSet(names) : v \in Seq(ToSet(v))

VARIABLES
    nodes,        \* idToNodes
    targets,      \* nodeToTargets: source -> target -> edge
    sources,      \* nodeToSources: target -> source -> edge
    text,         \* keys the text index holds
    vectors,      \* keys the vector index holds
    dim,          \* its dimension, 0 until a vector fixes it
    sequences,    \* per anchor, the cached order of its facts
    contiguity,   \* per fact, its cached temporal neighbours
    clock,
    pending,      \* nodes the running Commit has still to store
    book          \* history: what acknowledged remembers and deletes amount to

graph == <<nodes, targets, sources, text, vectors, dim>>
caches == <<sequences, contiguity>>
vars == <<graph, caches, clock, pending, book>>

-----------------------------------------------------------------------------
(* Nodes and their keys.                                                   *)

Edges == {"mentions", "isabout"}
Anchors == {"entity", "topic"}
TargetKind == [mentions |-> "entity", isabout |-> "topic"]

Vertex(kind, value, ts) == [kind |-> kind, value |-> value, anchor |-> <<>>, ts |-> ts]
Edge(kind, fact, anchor) == [kind |-> kind, value |-> fact, anchor |-> anchor, ts |-> 0]

IsEdge(n) == n.kind \in Edges

EdgeHashOfAnchor(n) ==           \* faulty: hashes one end only
    IF IsEdge(n) THEN <<n.kind, n.anchor>> ELSE <<n.kind, n.value>>

\* A type tag, then the value; for an edge the values of both ends.
Key(n) ==
    IF IsEdge(n) THEN <<n.kind, n.value \o <<NUL>> \o n.anchor>>
                 ELSE <<n.kind, n.value>>

Source(n) == <<"fact", n.value>>
Target(n) == <<TargetKind[n.kind], n.anchor>>

Has(k, kinds) == k \in DOMAIN nodes /\ nodes[k].kind \in kinds

-----------------------------------------------------------------------------
(* The adjacency views.                                                    *)

Row(rows, a) == IF a \in DOMAIN rows THEN rows[a] ELSE <<>>

With(map, k, v) == [j \in DOMAIN map \cup {k} |-> IF j = k THEN v ELSE map[j]]

Link(rows, a, b, e) == With(rows, a, With(Row(rows, a), b, e))

\* Removes the pairs from one view, and every row that leaves empty.
Unlink(rows, pairs) ==
    LET left(a) == {b \in DOMAIN rows[a] : <<a, b>> \notin pairs}
    IN [a \in {a \in DOMAIN rows : left(a) # {}} |-> Restrict(rows[a], left(a))]

Swap(pairs) == {<<p[2], p[1]>> : p \in pairs}

Neighbours(out, in, k) == DOMAIN Row(out, k) \cup DOMAIN Row(in, k)

-----------------------------------------------------------------------------
(* The caches of temporal neighbours.                                      *)

\* Write time, then key.
Earlier(t, f, u, g) == t < u \/ (t = u /\ KeyRank[f] < KeyRank[g])

Before(f, g) == Earlier(nodes[f].ts, f, nodes[g].ts, g)

\* The facts written at the times ts, in that order.
InOrder(ts) ==
    CHOOSE s \in [1 .. Cardinality(DOMAIN ts) -> DOMAIN ts] :
        \A i, j \in DOMAIN s : i < j => Earlier(ts[s[i]], s[i], ts[s[j]], s[j])

Built(a) == InOrder([f \in {f \in DOMAIN Row(sources, a) : Has(f, {"fact"})} |-> nodes[f].ts])

\* sequence: the cached order if there is one.
SequenceOf(a) == IF a \in DOMAIN sequences THEN sequences[a] ELSE Built(a)

\* The members on either side of f.
Around(seq, f) ==
    {seq[i] : i \in {i \in DOMAIN seq : \/ i + 1 \in DOMAIN seq /\ seq[i + 1] = f
                                        \/ i - 1 \in DOMAIN seq /\ seq[i - 1] = f}}

\* contiguous: answered from the cache, or read off the sequences of the
\* fact's anchors and cached with them.  One critical section of sequenceMu.
Contiguous(f) ==
    LET filed == {a \in DOMAIN Row(targets, f) : Has(a, Anchors)}
    IN /\ pending = <<>>
       /\ Has(f, {"fact"})
       /\ f \notin DOMAIN contiguity
       /\ sequences' = [a \in DOMAIN sequences \cup filed |-> SequenceOf(a)]
       /\ contiguity' = With(contiguity, f, UNION {Around(SequenceOf(a), f) : a \in filed})
       /\ UNCHANGED <<graph, clock, pending, book>>

DropOwnSequences(K, out, in) ==  \* faulty: forgets the neighbours' sequences
    /\ sequences' = Restrict(sequences, DOMAIN sequences \ K)
    /\ contiguity' = Restrict(contiguity, DOMAIN contiguity \ K)

\* For each key of K: its own cached list goes, and with its own and its
\* neighbours' sequences the lists of all their members.
DropSequences(K, out, in) ==
    LET near == K \cup UNION {Neighbours(out, in, k) : k \in K}
        members == UNION {ToSet(sequences[a]) : a \in near \cap DOMAIN sequences}
    IN /\ sequences' = Restrict(sequences, DOMAIN sequences \ near)
       /\ contiguity' = Restrict(contiguity, DOMAIN contiguity \ (K \cup members))

-----------------------------------------------------------------------------
(* store, Set, Put and Delete.                                             *)

Stores(n) ==
    /\ nodes' = With(nodes, Key(n), n)
    /\ IF IsEdge(n)
         THEN /\ targets' = Link(targets, Source(n), Target(n), Key(n))
              /\ sources' = Link(sources, Target(n), Source(n), Key(n))
              /\ DropSequences({Key(n), Source(n)}, targets', sources')
         ELSE /\ UNCHANGED <<targets, sources>>
              /\ DropSequences({Key(n)}, targets, sources)
    /\ text' = IF n.kind = "fact" /\ n.value # <<>> THEN text \cup {Key(n)} ELSE text

Put(n) == Stores(n)

\* A taken key is ErrNodeAlreadyExists, which storeAnchor passes over.
Set(n) ==
    \/ /\ Key(n) \in DOMAIN nodes
       /\ UNCHANGED <<nodes, targets, sources, text, caches>>
    \/ /\ Key(n) \notin DOMAIN nodes
       /\ Stores(n)

\* The edges of both views that end with node k, and k's own if it is one.
Incident(k) ==
    {<<k, b>> : b \in DOMAIN Row(targets, k)} \cup
    {<<a, k>> : a \in DOMAIN Row(sources, k)} \cup
    (IF IsEdge(nodes[k]) THEN {<<Source(nodes[k]), Target(nodes[k])>>} ELSE {})

DeleteOutgoingOnly(k) ==         \* faulty: walks one view only
    LET pairs == {<<k, b>> : b \in DOMAIN Row(targets, k)}
        gone == {k} \cup {targets[p[1]][p[2]] : p \in pairs}
    IN /\ pending = <<>>
       /\ k \in DOMAIN nodes
       /\ DropSequences({k}, targets, sources)
       /\ targets' = Unlink(targets, pairs)
       /\ sources' = Unlink(sources, Swap(pairs))
       /\ nodes' = Restrict(nodes, DOMAIN nodes \ gone)
       /\ text' = text \ {k}
       /\ vectors' = vectors \ {k}
       /\ book' = [facts |-> book.facts \ {k}, anchors |-> book.anchors \ {k},
                   links |-> {p \in book.links : k \notin {p[1], p[2]}}]
       /\ UNCHANGED <<dim, clock, pending>>

DeleteKeepsIndexes(k) ==         \* faulty: the index entries stay
    LET gone == {k} \cup Range(Row(targets, k)) \cup Range(Row(sources, k))
    IN /\ pending = <<>>
       /\ k \in DOMAIN nodes
       /\ DropSequences({k} \cup (IF IsEdge(nodes[k]) THEN {Source(nodes[k])} ELSE {}),
                        targets, sources)
       /\ targets' = Unlink(targets, Incident(k))
       /\ sources' = Unlink(sources, Swap(Incident(k)))
       /\ nodes' = Restrict(nodes, DOMAIN nodes \ gone)
       /\ book' = [facts |-> book.facts \ {k}, anchors |-> book.anchors \ {k},
                   links |-> book.links \ Incident(k)]
       /\ UNCHANGED <<text, vectors, dim, clock, pending>>

\* Delete takes the whole edge with either of its ends, or with itself.
Delete(k) ==
    LET gone == {k} \cup Range(Row(targets, k)) \cup Range(Row(sources, k))
    IN /\ pending = <<>>
       /\ k \in DOMAIN nodes
       /\ DropSequences({k} \cup (IF IsEdge(nodes[k]) THEN {Source(nodes[k])} ELSE {}),
                        targets, sources)
       /\ targets' = Unlink(targets, Incident(k))
       /\ sources' = Unlink(sources, Swap(Incident(k)))
       /\ nodes' = Restrict(nodes, DOMAIN nodes \ gone)
       /\ text' = text \ {k}
       /\ vectors' = vectors \ {k}
       /\ book' = [facts |-> book.facts \ {k}, anchors |-> book.anchors \ {k},
                   links |-> book.links \ Incident(k)]
       /\ UNCHANGED <<dim, clock, pending>>

-----------------------------------------------------------------------------
(* Stream.Commit of a remember.                                            *)

\* The calls of the two loops: for each name the anchor, then its edge.
StoreAnchors(edge, fact, names) ==
    [i \in 1 .. 2 * Len(names) |->
        IF i % 2 = 1 THEN Vertex(TargetKind[edge], names[(i + 1) \div 2], 0)
                     ELSE Edge(edge, fact, names[i \div 2])]

Calls(w, ts) ==
    <<Vertex("fact", w.fact, ts)>>
        \o StoreAnchors("mentions", w.fact, w.entities)
        \o StoreAnchors("isabout", w.fact, w.topics)

Ack(b, w) ==
    LET f == <<"fact", w.fact>>
        anchors == {<<"entity", e>> : e \in ToSet(w.entities)} \cup
                   {<<"topic", t>> : t \in ToSet(w.topics)}
    IN [facts |-> b.facts \cup {f}, anchors |-> b.anchors \cup anchors,
        links |-> b.links \cup {<<f, a>> : a \in anchors}]

\* The vector index refuses a dimension that is not its own, and the write
\* fails before the graph is touched.
CommitRefused(w) ==
    /\ pending = <<>>
    /\ w.dim # 0 /\ dim # 0 /\ w.dim # dim
    /\ UNCHANGED vars

\* The clock is read once for the fact; two commits may read the same instant.
CommitVector(w) ==
    /\ pending = <<>>
    /\ w.dim # 0 => dim \in {0, w.dim}
    /\ clock' \in {clock, clock + 1} /\ clock' <= MaxTime
    /\ vectors' = IF w.dim = 0 THEN vectors ELSE vectors \cup {<<"fact", w.fact>>}
    /\ dim' = IF dim = 0 THEN w.dim ELSE dim
    /\ pending' = Calls(w, clock')
    /\ book' = Ack(book, w)
    /\ UNCHANGED <<nodes, targets, sources, text, caches>>

\* The next call: the fact is Put, anchors and edges are Set.
CommitNode ==
    /\ pending # <<>>
    /\ IF Head(pending).kind = "fact" THEN Put(Head(pending)) ELSE Set(Head(pending))
    /\ pending' = Tail(pending)
    /\ UNCHANGED <<vectors, dim, clock, book>>

-----------------------------------------------------------------------------

\* NewGraph.
Init ==
    /\ nodes = <<>> /\ targets = <<>> /\ sources = <<>>
    /\ text = {} /\ vectors = {} /\ dim = 0
    /\ sequences = <<>> /\ contiguity = <<>>
    /\ clock = 0
    /\ pending = <<>>
    /\ book = [facts |-> {}, anchors |-> {}, links |-> {}]

Next ==
    \/ \E w \in Writes : CommitVector(w) \/ CommitRefused(w)
    \/ CommitNode
    \/ \E k \in DOMAIN nodes : Delete(k) \/ Contiguous(k)

Spec == Init /\ [][Next]_vars

-----------------------------------------------------------------------------
(* Properties.                                                             *)

Filed == UNION {{<<a, b>> : b \in DOMAIN targets[a]} : a \in DOMAIN targets}
Stored(kinds) == {k \in DOMAIN nodes : nodes[k].kind \in kinds}

(* Nodes, Size and AdjacencyMap agree on which edges exist (the promise of  *)
(* Delete), and no stored edge dangles, not half way through a commit and   *)
(* not after its fact, its anchor or itself was deleted and remembered      *)
(* again: every edge is entered between a stored fact and a stored anchor,  *)
(* every entry is the key of the edge between that pair, the two views      *)
(* mirror each other, and no row that would count as a vertex is empty.     *)
EdgesAreWhole ==
    /\ \A k \in Stored(Edges) :
         /\ Has(Source(nodes[k]), {"fact"}) /\ Has(Target(nodes[k]), Anchors)
         /\ Target(nodes[k]) \in DOMAIN Row(targets, Source(nodes[k]))
    /\ \A a \in DOMAIN targets : \A b \in DOMAIN targets[a] :
         /\ a \in DOMAIN Row(sources, b)
         /\ sources[b][a] = targets[a][b]
         /\ Has(targets[a][b], Edges)
         /\ Source(nodes[targets[a][b]]) = a /\ Target(nodes[targets[a][b]]) = b
    /\ \A b \in DOMAIN sources : \A a \in DOMAIN sources[b] : b \in DOMAIN Row(targets, a)
    /\ \A a \in DOMAIN targets : targets[a] # <<>>
    /\ \A b \in DOMAIN sources : sources[b] # <<>>

(* The facts written right before and right after f under one of its        *)
(* anchors, read off the graph as it stands.                                *)
NeighboursNow(f) ==
    {g \in Stored({"fact"}) : \E a \in DOMAIN Row(targets, f) :
        /\ a \in DOMAIN Row(targets, g)
        /\ g # f
        /\ ~ \E h \in Stored({"fact"}) :
              /\ a \in DOMAIN Row(targets, h)
              /\ \/ Before(f, h) /\ Before(h, g)
                 \/ Before(g, h) /\ Before(h, f)}

(* A cached sequence never outlives the writes that would change it: every  *)
(* cached neighbour list is what the graph says now, through re-assertions  *)
(* that move a fact in time, new edges and deletes.  A list is read off     *)
(* sequences that are still cached, so dropping one finds the lists it fed. *)
CachesFresh ==
    /\ \A a \in DOMAIN sequences : sequences[a] = Built(a)
    /\ \A f \in DOMAIN contiguity :
         /\ contiguity[f] = NeighboursNow(f)
         /\ DOMAIN Row(targets, f) \subseteq DOMAIN sequences

(* Between commits the text index holds exactly the stored facts, and the   *)
(* vector index only facts that are stored.                                 *)
IndexesAgree ==
    pending = <<>> => /\ text = Stored({"fact"})
                      /\ vectors \subseteq text

(* Between commits the graph is the sum of the acknowledged remembers and   *)
(* of the deletes: each fact filed under every entity and topic it was      *)
(* remembered with, and nothing that a refused write named.                 *)
RemembersEverything ==
    pending = <<>> => /\ book.facts = Stored({"fact"})
                      /\ book.anchors = Stored(Anchors)
                      /\ book.links = Filed

(* A fact is never half-linked to its anchors once its write succeeded.     *)
FiledUnderEveryAnchor == pending = <<>> => book.links \subseteq Filed

-----------------------------------------------------------------------------
(* The inductive invariants behind them.                                    *)

Facts == {w.fact : w \in Writes}
Names == UNION {ToSet(w.entities) \cup ToSet(w.topics) : w \in Writes}

IsNode(n) ==
    /\ n.kind \in {"fact"} \cup Anchors \cup Edges
    /\ n.kind \in {"fact"} \cup Edges => n.value \in Facts
    /\ n.kind \in Edges => n.anchor \in Names

NodesOK == \A k \in DOMAIN nodes : IsNode(nodes[k]) /\ Key(nodes[k]) = k

\* The node with key k is stored, or will be before the i-th pending call.
Coming(k, kinds, i) ==
    \/ Has(k, kinds)
    \/ \E j \in 1 .. i - 1 : pending[j].kind \in kinds /\ Key(pending[j]) = k

\* No edge is stored before both of its ends.
PendingOK ==
    /\ pending \in Seq(ToSet(pending))
    /\ \A i \in 1 .. Len(pending) :
         /\ IsNode(pending[i])
         /\ IsEdge(pending[i]) => /\ Coming(Source(pending[i]), {"fact"}, i)
                                 /\ Coming(Target(pending[i]), Anchors, i)

\* Half way through a commit the indexes and the book are ahead of the graph
\* by what is pending, and by no more.
PendingKeys(kinds) == {Key(n) : n \in {m \in ToSet(pending) : m.kind \in kinds}}

IndexesInv ==
    /\ text = Stored({"fact"})
    /\ vectors \subseteq text \cup PendingKeys({"fact"})

PendingLinks == {<<Source(n), Target(n)>> : n \in {m \in ToSet(pending) : IsEdge(m)}}

BookInv ==
    /\ book.facts = Stored({"fact"}) \cup PendingKeys({"fact"})
    /\ book.anchors = Stored(Anchors) \cup PendingKeys(Anchors)
    /\ book.links = Filed \cup PendingLinks

GraphInv == NodesOK /\ PendingOK /\ EdgesAreWhole /\ IndexesInv

\* What a cached order rests on: finitely many facts, each with a time.
TimesInv ==
    /\ clock \in Nat
    /\ IsFiniteSet(DOMAIN nodes)
    /\ \A k \in DOMAIN nodes : nodes[k].ts \in Nat
    /\ \A n \in ToSet(pending) : n.ts \in Nat

CachesInv == GraphInv /\ TimesInv /\ CachesFresh
=============================================================================
