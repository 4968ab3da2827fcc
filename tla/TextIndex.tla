----------------------------- MODULE TextIndex -----------------------------
(***************************************************************************)
(* The full-text index of internal/index/btree.go: documents, posting      *)
(* lists in sorted chunks with tombstones, the dense numbering of          *)
(* documents, and the lengths its BM25 model (relevance/bm25.go) keeps.    *)
(*                                                                         *)
(* A write holds the graph's write lock throughout, so each is one action  *)
(* on the whole index.  A document is the sequence of its tokens: the      *)
(* tokenizer is outside this module.  The term dictionary is a function;   *)
(* the B-tree behind it is not modelled here.  Positions and numbers count *)
(* from 1 where the code counts from 0.                                    *)
(***************************************************************************)
EXTENDS Integers, SequencesExt, FiniteSetsExt

CONSTANTS
    DocKeys,          \* document keys, ordered as integers
    Texts,         \* the token sequences documents may have
    PostingChunk   \* the most entries a chunk holds

ASSUME PostingChunkAssumption == PostingChunk \in Nat \ {0}
ASSUME DocumentsAssumption == DocKeys \subseteq Int /\ \A t \in Texts : t \in Seq(ToSet(t))

VARIABLE idx

Terms == UNION {ToSet(t) : t \in Texts}

NewBTreeIndex ==
    [documents |-> <<>>, lists |-> <<>>, dead |-> 0, ids |-> <<>>, keys |-> <<>>,
     lengths |-> <<>>, totalLen |-> 0]

TextInit == idx = NewBTreeIndex

Retrieved(x, key) == key \in DOMAIN x.documents

\* f with v under x.
Entered(f, x, v) == [y \in DOMAIN f \cup {x} |-> IF y = x THEN v ELSE f[y]]

\* The elements of s at the places in I, in the order they have in s.
Kept(s, I) ==
    LET at == CHOOSE f \in [1 .. Cardinality(I) -> I] : \A m, n \in DOMAIN f : m < n => f[m] < f[n]
    IN [n \in 1 .. Cardinality(I) |-> s[at[n]]]

-----------------------------------------------------------------------------
(* Posting lists.                                                          *)

NewList == [chunks |-> <<>>, live |-> 0]
ListOf(lists, term) == IF term \in DOMAIN lists THEN lists[term] ELSE NewList

\* Where key sits in the chunks, or where an insert keeps them sorted: the
\* first chunk whose last key reaches it, else the end of the last chunk.
FindPosting(chunks, key) ==
    LET reach == {c \in DOMAIN chunks : Last(chunks[c]).key >= key}
        n == Len(chunks)
    IN IF chunks = <<>> THEN [c |-> 1, i |-> 1, found |-> FALSE]
       ELSE IF reach = {} THEN [c |-> n, i |-> Len(chunks[n]) + 1, found |-> FALSE]
       ELSE LET c == Min(reach)
                i == Min({j \in DOMAIN chunks[c] : chunks[c][j].key >= key})
            IN [c |-> c, i |-> i, found |-> chunks[c][i].key = key]

\* A chunk that outgrows PostingChunk splits into two halves.
InsertPosting(chunks, at, p) ==
    LET chunk == InsertAt(chunks[at.c], at.i, p)
        half == Len(chunk) \div 2
    IN IF chunks = <<>> THEN <<<<p>>>>
       ELSE IF Len(chunk) <= PostingChunk THEN [chunks EXCEPT ![at.c] = chunk]
       ELSE SubSeq(chunks, 1, at.c - 1)
            \o <<SubSeq(chunk, 1, half), SubSeq(chunk, half + 1, Len(chunk))>>
            \o SubSeq(chunks, at.c + 1, Len(chunks))

SetFrequency(chunks, at, n) == [chunks EXCEPT ![at.c][at.i].tf = n]

AddTokenRecounts(lists, key, doc, term) ==  \* faulty: a revived tombstone
    LET list == ListOf(lists, term)         \* is not counted
        at == FindPosting(list.chunks, key)
    IN Entered(lists, term,
         IF ~at.found
         THEN [chunks |-> InsertPosting(list.chunks, at, [key |-> key, doc |-> doc, tf |-> 1]),
               live |-> list.live + 1]
         ELSE [list EXCEPT !.chunks[at.c][at.i].tf = @ + 1])

\* One token of the loop in index: a new posting, a revived tombstone, or one
\* more occurrence.
AddToken(lists, key, doc, term) ==
    LET list == ListOf(lists, term)
        at == FindPosting(list.chunks, key)
        tf == IF at.found THEN list.chunks[at.c][at.i].tf ELSE 0
    IN Entered(lists, term,
         [chunks |-> IF at.found THEN SetFrequency(list.chunks, at, tf + 1)
                     ELSE InsertPosting(list.chunks, at, [key |-> key, doc |-> doc, tf |-> 1]),
          live |-> IF tf = 0 THEN list.live + 1 ELSE list.live])

\* One token of the loop in removePostings.
DropToken(lists, key, term) ==
    LET list == ListOf(lists, term)
        at == FindPosting(list.chunks, key)
    IN IF at.found /\ list.chunks[at.c][at.i].tf # 0
         THEN Entered(lists, term,
                [chunks |-> SetFrequency(list.chunks, at, 0), live |-> list.live - 1])
         ELSE lists

\* The two loops.
AddTokens(lists, key, doc, tokens) ==
    LET after[i \in 0 .. Len(tokens)] ==
            IF i = 0 THEN lists ELSE AddToken(after[i - 1], key, doc, tokens[i])
    IN after[Len(tokens)]

DropTokens(lists, key, tokens) ==
    LET after[i \in 0 .. Len(tokens)] ==
            IF i = 0 THEN lists ELSE DropToken(after[i - 1], key, tokens[i])
    IN after[Len(tokens)]

-----------------------------------------------------------------------------
(* Retiring and compacting.                                                *)

\* The postings become tombstones, the document counts as dead, and the
\* relevance model forgets its length.
RemovePostings(x, key) ==
    [x EXCEPT
        !.lists = DropTokens(@, key, x.documents[key]),
        !.dead = @ + 1,
        !.totalLen = @ - x.lengths[key],
        !.lengths = Restrict(@, DOMAIN @ \ {key})]

Living(chunk) == {i \in DOMAIN chunk : chunk[i].tf # 0}

\* Tombstones and the chunks they leave empty go; what is left is renumbered.
Swept(chunks, ids) ==
    LET left == Kept(chunks, {c \in DOMAIN chunks : Living(chunks[c]) # {}})
        sweep(chunk) == LET live == Kept(chunk, Living(chunk))
                        IN [i \in DOMAIN live |-> [live[i] EXCEPT !.doc = ids[live[i].key]]]
    IN [c \in DOMAIN left |-> sweep(left[c])]

Compacted(x, keys, ids, numbers) ==
    LET kept == {t \in DOMAIN x.lists : x.lists[t].live # 0}
        swept(list) == [list EXCEPT !.chunks = Swept(@, numbers)]
    IN [x EXCEPT !.lists = [t \in kept |-> swept(@[t])],
                 !.ids = ids,
                 !.keys = keys,
                 !.dead = 0]

\* The documents that live on, and the numbers they get.
Surviving(x) == Kept(x.keys, {i \in DOMAIN x.keys : Retrieved(x, x.keys[i])})
Renumbered(keys) == [k \in ToSet(keys) |-> CHOOSE i \in DOMAIN keys : keys[i] = k]

FlushKeepsNumbers(x) ==          \* faulty: the postings keep their old numbers
    Compacted(x, Surviving(x), Renumbered(Surviving(x)), x.ids)

\* Live documents are renumbered in the order they hold, their postings are
\* swept, and every term no live document holds goes.
TextFlush(x) ==
    LET ids == Renumbered(Surviving(x)) IN Compacted(x, Surviving(x), ids, ids)

TextMaybeFlushLate(x) ==             \* faulty: off by one
    IF x.dead <= Cardinality(DOMAIN x.documents) + 1 THEN x ELSE TextFlush(x)

\* Compacts once there are more dead documents than live ones.
TextMaybeFlush(x) ==
    IF x.dead <= Cardinality(DOMAIN x.documents) THEN x ELSE TextFlush(x)

-----------------------------------------------------------------------------
(* The operations.                                                         *)

\* index: the previous document under the key is retired first; a key keeps
\* the number it has until a compaction.
Indexed(x, key, tokens) ==
    LET r == IF Retrieved(x, key) THEN RemovePostings(x, key) ELSE x
        numbered == key \in DOMAIN r.ids
        doc == IF numbered THEN r.ids[key] ELSE Len(r.keys) + 1
    IN TextMaybeFlush(
         [r EXCEPT
            !.ids = Entered(@, key, doc),
            !.keys = IF numbered THEN @ ELSE Append(@, key),
            !.lists = AddTokens(@, key, doc, tokens),
            !.documents = Entered(@, key, tokens),
            !.lengths = Entered(@, key, Len(tokens)),
            !.totalLen = @ + Len(tokens)])

IndexText(key, tokens) == idx' = Indexed(idx, key, tokens)

DeleteText(key) ==
    LET r == RemovePostings(idx, key)
    IN /\ Retrieved(idx, key)
       /\ idx' = TextMaybeFlush([r EXCEPT !.documents = Restrict(@, DOMAIN @ \ {key})])

Compact == idx' = TextFlush(idx)

TextNext ==
    \/ \E key \in DocKeys, tokens \in Texts : IndexText(key, tokens)
    \/ \E key \in DocKeys : DeleteText(key)
    \/ Compact

TextSpec == TextInit /\ [][TextNext]_idx

-----------------------------------------------------------------------------
(* Properties.                                                             *)

PostingsIn(chunks) == UNION {ToSet(chunks[c]) : c \in DOMAIN chunks}
Postings(t) == PostingsIn(idx.lists[t].chunks)
Occurrences(tokens, t) == Cardinality({i \in DOMAIN tokens : tokens[i] = t})
Holding(t) == {k \in DOMAIN idx.documents : t \in ToSet(idx.documents[k])}

\* Chunk after chunk and within one, keys ascend.
Ascending(chunks) ==
    \A c, d \in DOMAIN chunks : \A i \in DOMAIN chunks[c], j \in DOMAIN chunks[d] :
        c < d \/ (c = d /\ i < j) => chunks[c][i].key < chunks[d][j].key

(* The lists say what the documents say, through updates, deletes, revived  *)
(* tombstones, splits and compactions: the chunks of a list laid end to end *)
(* are in strict key order, none empty or over the limit, or find would     *)
(* miss the entries behind one out of place; a document's live postings are *)
(* its terms with their counts; live is the document frequency; and the     *)
(* relevance model has the live documents' lengths: one Removed per Indexed. *)
PostingsMatchDocuments ==
    /\ \A k \in DOMAIN idx.documents : ToSet(idx.documents[k]) \subseteq DOMAIN idx.lists
    /\ \A t \in DOMAIN idx.lists :
         /\ \A c \in DOMAIN idx.lists[t].chunks :
              Len(idx.lists[t].chunks[c]) \in 1 .. PostingChunk
         /\ Ascending(idx.lists[t].chunks)
         /\ idx.lists[t].live = Cardinality(Holding(t))
         /\ {<<p.key, p.tf>> : p \in {p \in Postings(t) : p.tf # 0}}
              = {<<k, Occurrences(idx.documents[k], t)>> : k \in Holding(t)}
    /\ idx.lengths = [k \in DOMAIN idx.documents |-> Len(idx.documents[k])]
    /\ idx.totalLen = SumFunction(idx.lengths)

(* A posting's number is its document's own, and numbers are dense: a search *)
(* indexes its slots by them, so two documents on one number would share a  *)
(* score and a number past the end would be out of range.                   *)
NumbersAreOwn ==
    /\ \A k \in DOMAIN idx.documents : k \in DOMAIN idx.ids
    /\ \A i \in DOMAIN idx.keys : idx.ids[idx.keys[i]] = i
    /\ DOMAIN idx.ids = ToSet(idx.keys)
    /\ \A t \in DOMAIN idx.lists : \A p \in Postings(t) : p.doc = idx.ids[p.key]

(* Entries is at most twice Count, as its comment says, so tombstones stay   *)
(* in proportion to the documents.                                          *)
TextGarbageBounded ==
    Cardinality(DOMAIN idx.documents) + idx.dead <= 2 * Cardinality(DOMAIN idx.documents)

-----------------------------------------------------------------------------
(* What makes them inductive.                                              *)

Posting == [key : DocKeys, doc : Int, tf : Nat]

\* A list as find needs it.
Chunked(chunks) ==
    /\ chunks \in Seq(Seq(Posting))
    /\ \A c \in DOMAIN chunks : Len(chunks[c]) \in 1 .. PostingChunk
    /\ Ascending(chunks)

\* A list tells how often each key's document has its term, n[k], and numbers
\* its postings as ids says; the lists tell count[t][k].
Counted(n) == {k \in DocKeys : n[k] # 0}

TellsOf(list, ids, n) ==
    /\ IsFiniteSet(Counted(n))
    /\ list = [chunks |-> list.chunks, live |-> Cardinality(Counted(n))]
    /\ Chunked(list.chunks)
    /\ \A p \in PostingsIn(list.chunks) :
         p.key \in DOMAIN ids /\ p.doc = ids[p.key] /\ p.tf = n[p.key]
    /\ Counted(n) \subseteq {p.key : p \in PostingsIn(list.chunks)}

Tell(lists, ids, count) ==
    /\ DOMAIN lists \subseteq Terms
    /\ \A t \in Terms : TellsOf(ListOf(lists, t), ids, count[t])

CountOf(documents) ==
    [t \in Terms |-> [k \in DocKeys |->
        IF k \in DOMAIN documents THEN Occurrences(documents[k], t) ELSE 0]]

\* Keys and their numbers.
Numbered(keys, ids) ==
    /\ keys \in Seq(DocKeys)
    /\ DOMAIN ids = ToSet(keys)
    /\ \A i \in DOMAIN keys : ids[keys[i]] = i

\* The index before maybeFlush has looked at it.
Whole(x) ==
    /\ x = [documents |-> x.documents, lists |-> x.lists, dead |-> x.dead, ids |-> x.ids,
            keys |-> x.keys, lengths |-> x.lengths, totalLen |-> x.totalLen]
    /\ IsFiniteSet(DOMAIN x.documents) /\ DOMAIN x.documents \subseteq DOMAIN x.ids
    /\ \A k \in DOMAIN x.documents : x.documents[k] \in Texts
    /\ Numbered(x.keys, x.ids)
    /\ Tell(x.lists, x.ids, CountOf(x.documents))
    /\ x.lengths = [k \in DOMAIN x.documents |-> Len(x.documents[k])]
    /\ x.totalLen = SumFunction(x.lengths)
    /\ x.dead \in Nat

TextInv == Whole(idx) /\ TextGarbageBounded

=============================================================================
