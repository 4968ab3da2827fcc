---------------------------- MODULE IndexProofs ----------------------------
(***************************************************************************)
(* Proofs about the two indexes and the heap.                              *)
(*                                                                         *)
(* TextIndex: what its lists tell is carried through one token, through a   *)
(* document's tokens, and through a compaction, each over the last.        *)
(* VectorIndex: the forest's promise, and that a search which reads all of  *)
(* the trees loses a live key to k nearer copies of other keys only.       *)
(* Heap: the order is of the priorities by slot, where a swap is all a     *)
(* percolation does; the map follows the slice through each swap.          *)
(***************************************************************************)
EXTENDS TextIndex, VectorIndex, Heap, CollectionFacts

-----------------------------------------------------------------------------
(* Posting lists.                                                          *)

\* Kept keeps the places in I and their order.
KeptAs(s, I, f) ==
    /\ f \in [1 .. Cardinality(I) -> I]
    /\ \A m, n \in 1 .. Cardinality(I) : m < n => f[m] < f[n]
    /\ \A i \in I : \E n \in 1 .. Cardinality(I) : f[n] = i
    /\ \A n \in 1 .. Cardinality(I) : Kept(s, I)[n] = s[f[n]]

LEMMA KeptFacts ==
  ASSUME NEW S, NEW s \in Seq(S), NEW I \in SUBSET (1 .. Len(s))
  PROVE  /\ Kept(s, I) \in Seq(S) /\ Len(Kept(s, I)) = Cardinality(I)
         /\ IsFiniteSet(I) /\ Cardinality(I) \in Nat
         /\ \E f : KeptAs(s, I, f)
<1> DEFINE R == {p \in I \X I : p[1] < p[2]}
           n == Cardinality(I)
           Sorted(f) == \A x, y \in DOMAIN f : x < y => f[x] < f[y]
           at == CHOOSE f \in [1 .. n -> I] : Sorted(f)
<1>1. IsFiniteSet(I) /\ n \in Nat
  <2>1. IsFiniteSet(1 .. Len(s))
    BY FS_Interval
  <2> QED
    BY <2>1, FS_Subset, FS_CardinalityType
<1>2. \A a, b \in I : <<a, b>> \in R <=> a < b
  OBVIOUS
<1> HIDE DEF R
<1>3. Orders(R, I)
  <2>1. \A a, b, c \in I : ~(a < a) /\ (a < b /\ b < c => a < c) /\ (a # b => a < b \/ b < a)
    OBVIOUS
  <2> SUFFICES ASSUME NEW a \in I, NEW b \in I, NEW c \in I
               PROVE  /\ <<a, a>> \notin R
                      /\ <<a, b>> \in R /\ <<b, c>> \in R => <<a, c>> \in R
                      /\ a # b => <<a, b>> \in R \/ <<b, a>> \in R
    BY DEF Orders
  <2> QED
    BY <1>2, <2>1
<1>4. \A f \in [1 .. n -> I] : LaidOut(f, R, I) <=> Sorted(f)
  <2> SUFFICES ASSUME NEW f \in [1 .. n -> I] PROVE LaidOut(f, R, I) <=> Sorted(f)
    OBVIOUS
  <2>1. DOMAIN f = 1 .. n /\ \A i \in 1 .. n : f[i] \in I
    OBVIOUS
  <2> QED
    BY <1>2, <2>1 DEF LaidOut
<1> HIDE DEF Sorted
<1>5. LaidOut(at, R, I) /\ Sorted(at)
  <2>1. PICK f : LaidOut(f, R, I)
    BY <1>1, <1>3, Sortable
  <2>2. f \in [1 .. n -> I]
    BY <2>1 DEF LaidOut
  <2>3. at \in [1 .. n -> I] /\ Sorted(at)
    BY <1>4, <2>1, <2>2
  <2> QED
    BY <1>4, <2>3
<1>6. Kept(s, I) = [m \in 1 .. n |-> s[at[m]]]
  BY DEF Kept, Sorted
<1> HIDE DEF at
<1>7. at \in Seq(I) /\ Len(at) = n /\ ToSet(at) = I
  BY <1>1, <1>3, <1>5, LayoutIsWhole
<1>8. at \in [1 .. n -> I] /\ \A i \in I : \E m \in 1 .. n : at[m] = i
  BY <1>7, ElementsOf DEF LaidOut
<1>9. KeptAs(s, I, at)
  BY <1>2, <1>5, <1>6, <1>8 DEF KeptAs, LaidOut
<1>10. \A m \in 1 .. n : s[at[m]] \in S
  <2>1. \A i \in 1 .. Len(s) : s[i] \in S
    OBVIOUS
  <2> QED
    BY <1>8, <2>1
<1> QED
  BY <1>1, <1>6, <1>9, <1>10

\* A list's postings and their places.
LEMMA Places ==
  ASSUME NEW chunks \in Seq(Seq(Posting))
  PROVE  /\ DOMAIN chunks = 1 .. Len(chunks) /\ Len(chunks) \in Nat
         /\ PostingsIn(chunks) \subseteq Posting
         /\ \A c \in 1 .. Len(chunks) :
              /\ chunks[c] \in Seq(Posting)
              /\ DOMAIN chunks[c] = 1 .. Len(chunks[c]) /\ Len(chunks[c]) \in Nat
              /\ \A i \in 1 .. Len(chunks[c]) : chunks[c][i] \in Posting
         /\ \A p : p \in PostingsIn(chunks) <=>
              \E c \in 1 .. Len(chunks) : \E i \in 1 .. Len(chunks[c]) : chunks[c][i] = p
<1>1. \A c \in 1 .. Len(chunks) : chunks[c] \in Seq(Posting)
  OBVIOUS
<1>2. \A c \in 1 .. Len(chunks) : \A p :
        p \in ToSet(chunks[c]) <=> \E i \in 1 .. Len(chunks[c]) : chunks[c][i] = p
  BY <1>1, ElementsOf
<1>3. \A p : p \in PostingsIn(chunks) <=> \E c \in 1 .. Len(chunks) : p \in ToSet(chunks[c])
  <2>1. DOMAIN chunks = 1 .. Len(chunks)
    OBVIOUS
  <2>2. PostingsIn(chunks) = UNION {ToSet(chunks[c]) : c \in 1 .. Len(chunks)}
    BY <2>1 DEF PostingsIn
  <2> QED
    BY <2>2, Zenon
<1>4. \A c \in 1 .. Len(chunks) :
        /\ DOMAIN chunks[c] = 1 .. Len(chunks[c]) /\ Len(chunks[c]) \in Nat
        /\ \A i \in 1 .. Len(chunks[c]) : chunks[c][i] \in Posting
  BY <1>1
<1>5. \A p : p \in PostingsIn(chunks) <=>
        \E c \in 1 .. Len(chunks) : \E i \in 1 .. Len(chunks[c]) : chunks[c][i] = p
  BY <1>2, <1>3
<1>6. PostingsIn(chunks) \subseteq Posting
  <2> SUFFICES ASSUME NEW p \in PostingsIn(chunks) PROVE p \in Posting
    OBVIOUS
  <2>1. PICK c \in 1 .. Len(chunks) : \E i \in 1 .. Len(chunks[c]) : chunks[c][i] = p
    BY <1>5
  <2>2. PICK i \in 1 .. Len(chunks[c]) : chunks[c][i] = p
    BY <2>1
  <2> QED
    BY <1>4, <2>2
<1> QED
  BY <1>1, <1>4, <1>5, <1>6

\* Where a key would sit: the postings before the place are smaller, the others
\* are larger.
Gap(chunks, c, i, key) ==
    /\ c \in 1 .. Len(chunks) /\ i \in 1 .. Len(chunks[c]) + 1
    /\ \A d \in 1 .. Len(chunks) : \A j \in 1 .. Len(chunks[d]) :
         IF d < c \/ (d = c /\ j < i) THEN chunks[d][j].key < key ELSE chunks[d][j].key > key

LEMMA FindFacts ==
  ASSUME NEW chunks, Chunked(chunks), NEW key \in DocKeys, NEW at, at = FindPosting(chunks, key)
  PROVE  \/ /\ at.found /\ at.c \in 1 .. Len(chunks) /\ at.i \in 1 .. Len(chunks[at.c])
            /\ chunks[at.c][at.i].key = key
         \/ ~at.found /\ chunks = <<>>
         \/ ~at.found /\ chunks # <<>> /\ Gap(chunks, at.c, at.i, key)
<1> DEFINE n == Len(chunks)
           K(c, i) == chunks[c][i].key
           reach == {c \in 1 .. n : K(c, Len(chunks[c])) >= key}
<1>1. chunks \in Seq(Seq(Posting)) /\ n \in Nat /\ DOMAIN chunks = 1 .. n /\ key \in Int
  BY DocumentsAssumption, Places DEF Chunked
<1>2. \A c \in 1 .. n : /\ DOMAIN chunks[c] = 1 .. Len(chunks[c])
                        /\ Len(chunks[c]) \in Nat \ {0}
                        /\ \A i \in 1 .. Len(chunks[c]) : K(c, i) \in Int
  <2>1. \A p \in Posting : p.key \in Int
    BY DocumentsAssumption DEF Posting
  <2> SUFFICES ASSUME NEW c \in 1 .. n
               PROVE  /\ DOMAIN chunks[c] = 1 .. Len(chunks[c])
                      /\ Len(chunks[c]) \in Nat \ {0}
                      /\ \A i \in 1 .. Len(chunks[c]) : K(c, i) \in Int
    OBVIOUS
  <2>2. /\ DOMAIN chunks[c] = 1 .. Len(chunks[c]) /\ Len(chunks[c]) \in Nat
        /\ \A i \in 1 .. Len(chunks[c]) : chunks[c][i] \in Posting
    BY <1>1, Places
  <2>3. Len(chunks[c]) # 0
    <3>1. Len(chunks[c]) \in 1 .. PostingChunk
      BY <1>1 DEF Chunked
    <3> QED
      BY <3>1, PostingChunkAssumption
  <2> QED
    BY <2>1, <2>2, <2>3
<1>3. \A c, d \in 1 .. n : \A i \in 1 .. Len(chunks[c]), j \in 1 .. Len(chunks[d]) :
        c < d \/ (c = d /\ i < j) => K(c, i) < K(d, j)
  BY <1>1, <1>2 DEF Chunked, Ascending
<1>4. {c \in DOMAIN chunks : Last(chunks[c]).key >= key} = reach
  BY <1>1 DEF Last
<1>5. \A c \in 1 .. n : Len(chunks[c]) \in 1 .. Len(chunks[c])
  BY <1>2
<1> HIDE DEF n, K, reach
<1>6. CASE chunks = <<>>
  BY <1>6 DEF FindPosting
<1>7. CASE chunks # <<>> /\ reach = {}
  <2>1. at = [c |-> n, i |-> Len(chunks[n]) + 1, found |-> FALSE]
    BY <1>4, <1>7 DEF FindPosting, n
  <2>2. n \in 1 .. n
    BY <1>1, <1>7 DEF n
  <2>3. ASSUME NEW d \in 1 .. n, NEW j \in 1 .. Len(chunks[d])
        PROVE  (d < n \/ (d = n /\ j < Len(chunks[n]) + 1)) /\ K(d, j) < key
    <3>1. ~(K(d, Len(chunks[d])) >= key)
      BY <1>7 DEF reach
    <3>2. j = Len(chunks[d]) \/ K(d, j) < K(d, Len(chunks[d]))
      BY <1>2, <1>3, <1>5
    <3>3. K(d, j) \in Int /\ K(d, Len(chunks[d])) \in Int
      BY <1>2, <1>5
    <3>4. K(d, j) < key
      BY <1>1, <3>1, <3>2, <3>3
    <3>5. d < n \/ (d = n /\ j < Len(chunks[n]) + 1)
      BY <1>1, <1>2
    <3> QED
      BY <3>4, <3>5
  <2>4. Gap(chunks, n, Len(chunks[n]) + 1, key)
    <3>1. Len(chunks[n]) + 1 \in 1 .. Len(chunks[n]) + 1
      BY <1>2, <2>2
    <3>2. \A d \in 1 .. n : \A j \in 1 .. Len(chunks[d]) :
            (d < n \/ (d = n /\ j < Len(chunks[n]) + 1)) /\ chunks[d][j].key < key
      BY <2>3 DEF K
    <3> QED
      BY <2>2, <3>1, <3>2 DEF Gap, n
  <2> QED
    BY <1>7, <2>1, <2>4
<1>8. CASE chunks # <<>> /\ reach # {}
  <2> DEFINE c == Min(reach)
             J == {j \in 1 .. Len(chunks[c]) : K(c, j) >= key}
             i == Min(J)
  <2>1. c \in reach /\ \A y \in reach : c <= y
    <3>1. reach \in SUBSET (1 .. n)
      BY DEF reach
    <3> QED
      BY <1>1, <1>8, <3>1, ExtremesOf
  <2>2. c \in 1 .. n /\ K(c, Len(chunks[c])) >= key
    BY <2>1 DEF reach
  <2>3. at = [c |-> c, i |-> Min({j \in DOMAIN chunks[c] : chunks[c][j].key >= key}),
              found |-> chunks[c][Min({j \in DOMAIN chunks[c] : chunks[c][j].key >= key})].key = key]
    BY <1>4, <1>8 DEF FindPosting
  <2> HIDE DEF c
  <2>4. {j \in DOMAIN chunks[c] : chunks[c][j].key >= key} = J
    BY <1>2, <2>2 DEF K
  <2>5. at = [c |-> c, i |-> i, found |-> K(c, i) = key]
    BY <2>3, <2>4 DEF K
  <2>6. i \in J /\ \A y \in J : i <= y
    <3>1. J \in SUBSET (1 .. Len(chunks[c])) /\ J # {} /\ Len(chunks[c]) \in Nat
      BY <1>2, <1>5, <2>2
    <3> HIDE DEF J
    <3> QED
      BY <3>1, ExtremesOf
  <2>7. i \in 1 .. Len(chunks[c]) /\ K(c, i) >= key
    BY <2>6
  <2>8. \A j \in 1 .. Len(chunks[c]) : j < i => K(c, j) < key
    BY <1>1, <1>2, <2>2, <2>6
  <2> HIDE DEF i, J
  <2>9. CASE K(c, i) = key
    <3>1. at = [c |-> c, i |-> i, found |-> TRUE]
      BY <2>5, <2>9
    <3> QED
      BY <2>2, <2>7, <2>9, <3>1 DEF K, n
  <2>10. CASE K(c, i) # key
    <3>1. K(c, i) > key
      BY <1>1, <1>2, <2>2, <2>7, <2>10
    <3>2. ASSUME NEW d \in 1 .. n, NEW j \in 1 .. Len(chunks[d]), d < c PROVE K(d, j) < key
      <4>1. ~(K(d, Len(chunks[d])) >= key)
        <5>1. d \notin reach
          BY <1>1, <2>1, <2>2, <3>2
        <5> QED
          BY <5>1 DEF reach
      <4>2. j = Len(chunks[d]) \/ K(d, j) < K(d, Len(chunks[d]))
        BY <1>2, <1>3, <1>5
      <4>3. K(d, j) \in Int /\ K(d, Len(chunks[d])) \in Int
        BY <1>2, <1>5
      <4> QED
        BY <1>1, <4>1, <4>2, <4>3
    <3>3. ASSUME NEW d \in 1 .. n, NEW j \in 1 .. Len(chunks[d]), ~(d < c), ~(d = c /\ j < i)
          PROVE  K(d, j) > key
      <4>1. (d = c /\ j = i) \/ c < d \/ (d = c /\ i < j)
        BY <1>1, <1>2, <2>2, <2>7, <3>3
      <4>2. (d = c /\ j = i) \/ K(c, i) < K(d, j)
        BY <1>3, <2>2, <2>7, <4>1
      <4> QED
        BY <1>1, <1>2, <2>2, <2>7, <3>1, <4>2
    <3>4. ASSUME NEW d \in 1 .. n, NEW j \in 1 .. Len(chunks[d])
          PROVE  IF d < c \/ (d = c /\ j < i) THEN K(d, j) < key ELSE K(d, j) > key
      BY <2>8, <3>2, <3>3
    <3>5. i \in 1 .. Len(chunks[c]) + 1
      BY <1>2, <2>2, <2>7
    <3>6. Gap(chunks, c, i, key)
      BY <2>2, <3>4, <3>5 DEF Gap, K, n
    <3>7. at = [c |-> c, i |-> i, found |-> FALSE]
      BY <2>5, <2>10
    <3> QED
      BY <1>8, <3>6, <3>7
  <2> QED
    BY <2>9, <2>10
<1> QED
  BY <1>6, <1>7, <1>8

\* The postings of a list have different keys.
LEMMA OnePlaceEach ==
  ASSUME NEW chunks, Chunked(chunks),
         NEW c \in 1 .. Len(chunks), NEW i \in 1 .. Len(chunks[c]),
         NEW d \in 1 .. Len(chunks), NEW j \in 1 .. Len(chunks[d]),
         chunks[c][i].key = chunks[d][j].key
  PROVE  c = d /\ i = j
<1>1. chunks \in Seq(Seq(Posting))
  BY DEF Chunked
<1>2. /\ DOMAIN chunks = 1 .. Len(chunks) /\ DOMAIN chunks[c] = 1 .. Len(chunks[c])
      /\ DOMAIN chunks[d] = 1 .. Len(chunks[d])
      /\ Len(chunks) \in Nat /\ Len(chunks[c]) \in Nat /\ Len(chunks[d]) \in Nat
      /\ chunks[c][i] \in Posting
  BY <1>1, Places
<1>3. /\ c < d \/ (c = d /\ i < j) => chunks[c][i].key < chunks[d][j].key
      /\ d < c \/ (d = c /\ j < i) => chunks[d][j].key < chunks[c][i].key
  BY <1>2 DEF Chunked, Ascending
<1>4. chunks[c][i].key \in Int
  BY <1>2, DocumentsAssumption DEF Posting
<1> QED
  BY <1>2, <1>3, <1>4

\* Another frequency at one place leaves everything else as it was.
Refreshed(new, chunks, old, n) ==
    /\ Chunked(new)
    /\ \A p : p \in PostingsIn(new) <=>
         \/ p \in PostingsIn(chunks) /\ p.key # old.key
         \/ p = [key |-> old.key, doc |-> old.doc, tf |-> n]

LEMMA SetFrequencyFacts ==
  ASSUME NEW chunks, Chunked(chunks), NEW at, NEW n \in Nat,
         at.c \in 1 .. Len(chunks), at.i \in 1 .. Len(chunks[at.c])
  PROVE  Refreshed(SetFrequency(chunks, at, n), chunks, chunks[at.c][at.i], n)
<1> DEFINE new == SetFrequency(chunks, at, n)
           c == at.c
           i == at.i
           old == chunks[c][i]
           q == [key |-> old.key, doc |-> old.doc, tf |-> n]
           row == [chunks[c] EXCEPT ![i] = q]
<1>1. /\ chunks \in Seq(Seq(Posting)) /\ DOMAIN chunks = 1 .. Len(chunks)
      /\ c \in 1 .. Len(chunks) /\ i \in 1 .. Len(chunks[c])
  BY Places DEF Chunked
<1>2. \A d \in 1 .. Len(chunks) :
        /\ chunks[d] \in Seq(Posting) /\ DOMAIN chunks[d] = 1 .. Len(chunks[d])
        /\ \A j \in 1 .. Len(chunks[d]) : chunks[d][j] \in Posting
  BY <1>1, Places
<1>3. q \in Posting /\ q = [old EXCEPT !.tf = n]
  <2>1. \A x \in Posting : LET y == [key |-> x.key, doc |-> x.doc, tf |-> n]
                          IN  y \in Posting /\ y = [x EXCEPT !.tf = n]
    BY DEF Posting
  <2>2. old \in Posting
    BY <1>1, <1>2
  <2> QED
    BY <2>1, <2>2
<1>4. new = [chunks EXCEPT ![c] = row]
  BY <1>3 DEF SetFrequency
<1>5. row \in Seq(Posting) /\ Len(row) = Len(chunks[c])
  BY <1>1, <1>2, <1>3
<1>6. \A j \in 1 .. Len(chunks[c]) : row[j] = IF j = i THEN q ELSE chunks[c][j]
  BY <1>1, <1>2
<1> HIDE DEF row, q, c, i
<1>7. new \in Seq(Seq(Posting)) /\ Len(new) = Len(chunks)
  BY <1>1, <1>4, <1>5
<1>8. \A d \in 1 .. Len(chunks) : new[d] = IF d = c THEN row ELSE chunks[d]
  BY <1>1, <1>4
<1> HIDE DEF new
<1>9. \A d \in 1 .. Len(chunks) :
        /\ Len(new[d]) = Len(chunks[d])
        /\ \A j \in 1 .. Len(chunks[d]) :
             /\ new[d][j] = IF d = c /\ j = i THEN q ELSE chunks[d][j]
             /\ new[d][j].key = chunks[d][j].key
  <2>1. q.key = chunks[c][i].key
    BY DEF q, c, i
  <2> QED
    BY <1>5, <1>6, <1>8, <2>1
<1>10. /\ DOMAIN new = 1 .. Len(chunks) /\ Len(new) = Len(chunks)
       /\ \A d \in 1 .. Len(chunks) : DOMAIN new[d] = 1 .. Len(chunks[d])
  <2>1. DOMAIN row = 1 .. Len(chunks[c]) /\ DOMAIN new = 1 .. Len(chunks)
    BY <1>5, <1>7
  <2> QED
    BY <1>2, <1>7, <1>8, <2>1
<1>11. Chunked(new)
  <2>1. \A d \in DOMAIN new : Len(new[d]) \in 1 .. PostingChunk
    BY <1>1, <1>9, <1>10 DEF Chunked
  <2>2. Ascending(new)
    <3> SUFFICES ASSUME NEW d \in 1 .. Len(chunks), NEW e \in 1 .. Len(chunks),
                        NEW j \in 1 .. Len(chunks[d]), NEW k \in 1 .. Len(chunks[e]),
                        d < e \/ (d = e /\ j < k)
                 PROVE  new[d][j].key < new[e][k].key
      BY <1>10 DEF Ascending
    <3>1. chunks[d][j].key < chunks[e][k].key
      BY <1>1, <1>2 DEF Chunked, Ascending
    <3> QED
      BY <1>9, <3>1
  <2> QED
    BY <1>7, <2>1, <2>2 DEF Chunked
<1>12. \A p : p \in PostingsIn(new) <=>
         \E d \in 1 .. Len(chunks) : \E j \in 1 .. Len(chunks[d]) : new[d][j] = p
  <2>1. \A p : p \in PostingsIn(new) <=>
          \E d \in 1 .. Len(new) : \E j \in 1 .. Len(new[d]) : new[d][j] = p
    BY <1>7, Places
  <2> QED
    BY <1>9, <1>10, <2>1
<1>13. \A p : p \in PostingsIn(chunks) <=>
         \E d \in 1 .. Len(chunks) : \E j \in 1 .. Len(chunks[d]) : chunks[d][j] = p
  BY <1>1, Places
<1>14. \A d \in 1 .. Len(chunks) : \A j \in 1 .. Len(chunks[d]) :
         chunks[d][j].key = chunks[c][i].key <=> d = c /\ j = i
  BY <1>1, OnePlaceEach
<1>15. \A p : p \in PostingsIn(new) <=>
         (p \in PostingsIn(chunks) /\ p.key # chunks[c][i].key) \/ p = q
  <2>1. ASSUME NEW p, p \in PostingsIn(new)
        PROVE  (p \in PostingsIn(chunks) /\ p.key # chunks[c][i].key) \/ p = q
    <3>1. PICK d \in 1 .. Len(chunks) : \E j \in 1 .. Len(chunks[d]) : new[d][j] = p
      BY <1>12, <2>1
    <3>2. PICK j \in 1 .. Len(chunks[d]) : new[d][j] = p
      BY <3>1
    <3>3. CASE d = c /\ j = i
      BY <1>9, <3>2, <3>3
    <3>4. CASE ~(d = c /\ j = i)
      <4>1. chunks[d][j] = p /\ p.key # chunks[c][i].key
        BY <1>9, <1>14, <3>2, <3>4
      <4> QED
        BY <1>13, <4>1
    <3> QED
      BY <3>3, <3>4
  <2>2. q \in PostingsIn(new)
    <3>1. new[c][i] = q
      BY <1>1, <1>9
    <3> QED
      BY <1>1, <1>12, <3>1
  <2>3. ASSUME NEW p \in PostingsIn(chunks), p.key # chunks[c][i].key PROVE p \in PostingsIn(new)
    <3>1. PICK d \in 1 .. Len(chunks) : \E j \in 1 .. Len(chunks[d]) : chunks[d][j] = p
      BY <1>13
    <3>2. PICK j \in 1 .. Len(chunks[d]) : chunks[d][j] = p
      BY <3>1
    <3>3. new[d][j] = p
      BY <1>9, <2>3, <3>2
    <3> QED
      BY <1>12, <3>3
  <2> QED
    BY <2>1, <2>2, <2>3
<1> QED
  BY <1>11, <1>15 DEF new, q, c, i, Refreshed

\* A part of a sequence.
LEMMA PartFacts ==
  ASSUME NEW S, NEW s \in Seq(S), NEW a \in 1 .. Len(s) + 1, NEW b \in a - 1 .. Len(s)
  PROVE  /\ SubSeq(s, a, b) \in Seq(S) /\ Len(SubSeq(s, a, b)) = b - a + 1
         /\ \A i \in 1 .. b - a + 1 : SubSeq(s, a, b)[i] = s[a - 1 + i]
<1> DEFINE part == SubSeq(s, a, b)
<1>1. Len(s) \in Nat /\ a \in Nat /\ b \in Int
  OBVIOUS
<1>2. \A i \in a .. b : s[i] \in S
  BY <1>1
<1>3. /\ part \in Seq(S) /\ Len(part) = IF a <= b THEN b - a + 1 ELSE 0
      /\ \A i \in 1 .. b - a + 1 : part[i] = s[a + i - 1]
  BY <1>1, <1>2, SubSeqProperties
<1> HIDE DEF part
<1>4. Len(part) = b - a + 1
  BY <1>1, <1>3
<1>5. \A i \in 1 .. b - a + 1 : a + i - 1 = a - 1 + i
  BY <1>1
<1> QED
  BY <1>3, <1>4, <1>5 DEF part

\* A sequence with m between its first a - 1 elements and those from b on.
Splice(s, m, a, b) == SubSeq(s, 1, a - 1) \o m \o SubSeq(s, b, Len(s))
SplicedIn(S, w, s, m, a, b) ==
    /\ w \in Seq(S) /\ Len(w) = (a - 1) + Len(m) + (Len(s) - b + 1)
    /\ \A i \in 1 .. a - 1 : w[i] = s[i]
    /\ \A i \in 1 .. Len(m) : w[(a - 1) + i] = m[i]
    /\ \A i \in 1 .. Len(s) - b + 1 : w[(a - 1) + Len(m) + i] = s[b - 1 + i]

LEMMA SpliceFacts ==
  ASSUME NEW S, NEW s \in Seq(S), NEW m \in Seq(S),
         NEW a \in 1 .. Len(s) + 1, NEW b \in a .. Len(s) + 1
  PROVE  SplicedIn(S, Splice(s, m, a, b), s, m, a, b)
<1> DEFINE x == SubSeq(s, 1, a - 1)
           z == SubSeq(s, b, Len(s))
<1>1. Len(s) \in Nat /\ Len(m) \in Nat /\ a \in Nat /\ b \in Nat
  OBVIOUS
<1>2. x \in Seq(S) /\ Len(x) = a - 1 /\ \A i \in 1 .. a - 1 : x[i] = s[i]
  <2>1. 1 \in 1 .. Len(s) + 1 /\ a - 1 \in 1 - 1 .. Len(s)
    BY <1>1
  <2>2. /\ x \in Seq(S) /\ Len(x) = (a - 1) - 1 + 1
        /\ \A i \in 1 .. (a - 1) - 1 + 1 : x[i] = s[1 - 1 + i]
    BY <2>1, PartFacts
  <2> HIDE DEF x
  <2>3. \A i \in 1 .. a - 1 : 1 - 1 + i = i
    OBVIOUS
  <2> QED
    BY <1>1, <2>2, <2>3
<1>3. /\ z \in Seq(S) /\ Len(z) = Len(s) - b + 1
      /\ \A i \in 1 .. Len(s) - b + 1 : z[i] = s[b - 1 + i]
  <2>1. b \in 1 .. Len(s) + 1 /\ Len(s) \in b - 1 .. Len(s)
    BY <1>1
  <2> QED
    BY <2>1, PartFacts
<1> HIDE DEF x, z
<1> DEFINE y == x \o m
<1>4. /\ y \in Seq(S) /\ Len(y) = (a - 1) + Len(m)
      /\ \A i \in 1 .. a - 1 : y[i] = s[i]
      /\ \A i \in 1 .. Len(m) : y[(a - 1) + i] = m[i]
  <2>0. x \in Seq(S)
    BY <1>2
  <2>1. /\ y \in Seq(S) /\ Len(y) = Len(x) + Len(m)
        /\ \A i \in 1 .. Len(x) : y[i] = x[i]
        /\ \A i \in 1 .. Len(m) : y[Len(x) + i] = m[i]
    BY <2>0, ConcatFacts
  <2> HIDE DEF y
  <2> QED
    BY <1>2, <2>1
<1> HIDE DEF y
<1> DEFINE w == y \o z
<1>5. /\ w \in Seq(S) /\ Len(w) = (a - 1) + Len(m) + (Len(s) - b + 1)
      /\ \A i \in 1 .. (a - 1) + Len(m) : w[i] = y[i]
      /\ \A i \in 1 .. Len(s) - b + 1 : w[(a - 1) + Len(m) + i] = z[i]
  <2>0. y \in Seq(S) /\ z \in Seq(S)
    BY <1>3, <1>4
  <2>1. /\ w \in Seq(S) /\ Len(w) = Len(y) + Len(z)
        /\ \A i \in 1 .. Len(y) : w[i] = y[i]
        /\ \A i \in 1 .. Len(z) : w[Len(y) + i] = z[i]
    BY <2>0, ConcatFacts
  <2> HIDE DEF w
  <2> QED
    BY <1>3, <1>4, <2>1
<1> HIDE DEF w
<1>6. /\ \A i \in 1 .. a - 1 : i \in 1 .. (a - 1) + Len(m)
      /\ \A i \in 1 .. Len(m) : (a - 1) + i \in 1 .. (a - 1) + Len(m)
  BY <1>1
<1> QED
  BY <1>3, <1>4, <1>5, <1>6 DEF x, y, z, w, Splice, SplicedIn

\* A posting put where its key belongs leaves the chunk too long, perhaps, but
\* the list in order.
Ordered(chunks) ==
    /\ chunks \in Seq(Seq(Posting))
    /\ \A c, d \in 1 .. Len(chunks) : \A i \in 1 .. Len(chunks[c]), j \in 1 .. Len(chunks[d]) :
         c < d \/ (c = d /\ i < j) => chunks[c][i].key < chunks[d][j].key

LEMMA OrderedMeans ==
  ASSUME NEW chunks \in Seq(Seq(Posting))
  PROVE  Ordered(chunks) <=> Ascending(chunks)
<1>1. DOMAIN chunks = 1 .. Len(chunks) /\ \A c \in 1 .. Len(chunks) : DOMAIN chunks[c] = 1 .. Len(chunks[c])
  BY Places
<1> QED
  BY <1>1 DEF Ordered, Ascending

Widened(chunks, c, i, p) ==
    LET row == InsertAt(chunks[c], i, p)
        wide == [chunks EXCEPT ![c] = row]
    IN  /\ row \in Seq(Posting) /\ Len(row) = Len(chunks[c]) + 1
        /\ Ordered(wide) /\ Len(wide) = Len(chunks)
        /\ wide[c] = row /\ \A d \in 1 .. Len(chunks) : d # c => wide[d] = chunks[d]
        /\ \A q : q \in PostingsIn(wide) <=> q \in PostingsIn(chunks) \/ q = p

LEMMA WidenFacts ==
  ASSUME NEW chunks, Chunked(chunks), NEW c, NEW i, NEW p \in Posting, Gap(chunks, c, i, p.key)
  PROVE  Widened(chunks, c, i, p)
<1> DEFINE row == InsertAt(chunks[c], i, p)
           wide == [chunks EXCEPT ![c] = row]
           n == Len(chunks)
           L(d) == Len(chunks[d])
<1>1. chunks \in Seq(Seq(Posting)) /\ n \in Nat /\ c \in 1 .. n /\ i \in 1 .. L(c) + 1
  BY DEF Chunked, Gap
<1>2. \A d \in 1 .. n : /\ chunks[d] \in Seq(Posting) /\ L(d) \in Nat
                        /\ \A j \in 1 .. L(d) : chunks[d][j] \in Posting
  BY <1>1, Places
<1>3. /\ row \in Seq(Posting) /\ Len(row) = L(c) + 1
      /\ \A j \in 1 .. i - 1 : row[j] = chunks[c][j]
      /\ row[i] = p
      /\ \A j \in i + 1 .. L(c) + 1 : row[j] = chunks[c][j - 1]
  <2> DEFINE s == chunks[c]
  <2>1. s \in Seq(Posting) /\ L(c) = Len(s) /\ Len(s) \in Nat /\ i \in 1 .. Len(s) + 1 /\ i \in i .. Len(s) + 1
    BY <1>1, <1>2
  <2> DEFINE m == <<p>>
  <2>2. m \in Seq(Posting) /\ Len(m) = 1 /\ m[1] = p
    OBVIOUS
  <2>3. row = Splice(s, m, i, i)
    BY DEF InsertAt, Splice
  <2> HIDE DEF row, s, m
  <2>4. /\ row \in Seq(Posting) /\ Len(row) = (i - 1) + Len(m) + (Len(s) - i + 1)
        /\ \A j \in 1 .. i - 1 : row[j] = s[j]
        /\ \A j \in 1 .. Len(m) : row[(i - 1) + j] = m[j]
        /\ \A j \in 1 .. Len(s) - i + 1 : row[(i - 1) + Len(m) + j] = s[i - 1 + j]
    <3>1. s \in Seq(Posting) /\ m \in Seq(Posting) /\ i \in 1 .. Len(s) + 1 /\ i \in i .. Len(s) + 1
      BY <2>1, <2>2
    <3>2. SplicedIn(Posting, Splice(s, m, i, i), s, m, i, i)
      BY <3>1, SpliceFacts
    <3> QED
      BY <2>3, <3>2 DEF SplicedIn
  <2>5. Len(row) = Len(s) + 1
    BY <2>1, <2>2, <2>4
  <2>6. row[i] = p
    <3>1. row[(i - 1) + 1] = p
      BY <2>2, <2>4
    <3> QED
      BY <2>1, <3>1
  <2>7. ASSUME NEW j \in i + 1 .. Len(s) + 1 PROVE row[j] = s[j - 1]
    <3>1. j - i \in 1 .. Len(s) - i + 1 /\ (i - 1) + 1 + (j - i) = j /\ i - 1 + (j - i) = j - 1
      BY <2>1
    <3>2. row[(i - 1) + 1 + (j - i)] = s[i - 1 + (j - i)]
      BY <2>2, <2>4, <3>1
    <3> QED
      BY <3>1, <3>2
  <2> QED
    BY <2>1, <2>4, <2>5, <2>6, <2>7 DEF s
<1> HIDE DEF row
<1>4. wide \in Seq(Seq(Posting)) /\ Len(wide) = n
  BY <1>1, <1>3
<1>5. wide[c] = row /\ \A d \in 1 .. n : d # c => wide[d] = chunks[d]
  BY <1>1
<1> HIDE DEF wide
<1> DEFINE W(d) == Len(wide[d])
           Was(d, j) == IF d = c /\ j > i THEN j - 1 ELSE j
<1>6. \A d \in 1 .. n : W(d) = IF d = c THEN L(d) + 1 ELSE L(d)
  BY <1>3, <1>5
<1>7. ASSUME NEW d \in 1 .. n, NEW j \in 1 .. W(d), ~(d = c /\ j = i)
      PROVE  Was(d, j) \in 1 .. L(d) /\ wide[d][j] = chunks[d][Was(d, j)]
  <2>1. CASE d # c
    BY <1>5, <1>6, <2>1
  <2>2. CASE d = c /\ j < i
    <3>1. j \in 1 .. i - 1 /\ j \in 1 .. L(c) /\ Was(d, j) = j
      BY <1>1, <1>2, <1>6, <2>2
    <3> QED
      BY <1>3, <1>5, <2>2, <3>1
  <2>3. CASE d = c /\ j > i
    <3>1. j \in i + 1 .. L(c) + 1 /\ j - 1 \in 1 .. L(c) /\ Was(d, j) = j - 1
      BY <1>1, <1>2, <1>6, <2>3
    <3> QED
      BY <1>3, <1>5, <2>3, <3>1
  <2> QED
    BY <1>1, <1>2, <1>7, <2>1, <2>2, <2>3
<1>8. wide[c][i] = p /\ c \in 1 .. n /\ i \in 1 .. W(c)
  BY <1>1, <1>3, <1>5, <1>6
<1>9. \A d \in 1 .. n : W(d) \in Nat
  BY <1>2, <1>6
<1> DEFINE K(d, j) == chunks[d][j].key
<1>10. \A d \in 1 .. n : \A j \in 1 .. L(d) :
         IF d < c \/ (d = c /\ j < i) THEN K(d, j) < p.key ELSE K(d, j) > p.key
  BY DEF Gap
<1>11. \A d, e \in 1 .. n : \A j \in 1 .. L(d), k \in 1 .. L(e) :
         d < e \/ (d = e /\ j < k) => K(d, j) < K(e, k)
  <2>1. Ordered(chunks)
    BY <1>1, OrderedMeans DEF Chunked
  <2> QED
    BY <2>1 DEF Ordered
<1> HIDE DEF K, n, L
<1>12. ASSUME NEW d \in 1 .. n, NEW e \in 1 .. n, NEW j \in 1 .. W(d), NEW k \in 1 .. W(e),
              d < e \/ (d = e /\ j < k)
       PROVE  wide[d][j].key < wide[e][k].key
  <2>0. j \in Nat /\ k \in Nat /\ i \in Nat /\ d \in Nat /\ e \in Nat /\ c \in Nat
    BY <1>1, <1>9
  <2>1. CASE d = c /\ j = i
    <3>1. ~(e = c /\ k = i)
      BY <1>12, <2>0, <2>1
    <3>2. Was(e, k) \in 1 .. L(e) /\ wide[e][k].key = K(e, Was(e, k))
      BY <1>7, <3>1 DEF K
    <3>3. ~(e < c \/ (e = c /\ Was(e, k) < i))
      BY <1>12, <2>0, <2>1
    <3>4. K(e, Was(e, k)) > p.key
      BY <1>10, <3>2, <3>3
    <3> QED
      BY <1>8, <2>1, <3>2, <3>4
  <2>2. CASE e = c /\ k = i
    <3>1. ~(d = c /\ j = i)
      BY <1>12, <2>0, <2>2
    <3>2. Was(d, j) \in 1 .. L(d) /\ wide[d][j].key = K(d, Was(d, j))
      BY <1>7, <3>1 DEF K
    <3>3. d < c \/ (d = c /\ Was(d, j) < i)
      BY <1>12, <2>0, <2>2
    <3>4. K(d, Was(d, j)) < p.key
      BY <1>10, <3>2, <3>3
    <3> QED
      BY <1>8, <2>2, <3>2, <3>4
  <2>3. CASE ~(d = c /\ j = i) /\ ~(e = c /\ k = i)
    <3>1. Was(d, j) \in 1 .. L(d) /\ wide[d][j].key = K(d, Was(d, j))
      BY <1>7, <2>3 DEF K
    <3>2. Was(e, k) \in 1 .. L(e) /\ wide[e][k].key = K(e, Was(e, k))
      BY <1>7, <2>3 DEF K
    <3>3. d < e \/ (d = e /\ Was(d, j) < Was(e, k))
      BY <1>12, <2>0, <2>3
    <3> QED
      BY <1>11, <3>1, <3>2, <3>3
  <2> QED
    BY <2>1, <2>2, <2>3
<1>13. Ordered(wide)
  BY <1>4, <1>12 DEF Ordered
<1>14. ASSUME NEW q, q \in PostingsIn(wide) PROVE q \in PostingsIn(chunks) \/ q = p
  <2>1. PICK d \in 1 .. n : \E j \in 1 .. W(d) : wide[d][j] = q
    BY <1>4, <1>14, Places
  <2>2. PICK j \in 1 .. W(d) : wide[d][j] = q
    BY <2>1
  <2>3. CASE d = c /\ j = i
    BY <1>8, <2>2, <2>3
  <2>4. CASE ~(d = c /\ j = i)
    <3>1. Was(d, j) \in 1 .. L(d) /\ chunks[d][Was(d, j)] = q
      BY <1>7, <2>2, <2>4
    <3> QED
      BY <1>1, <3>1, Places DEF n, L
  <2> QED
    BY <2>3, <2>4
<1>15. p \in PostingsIn(wide)
  BY <1>4, <1>8, Places
<1>16. ASSUME NEW q \in PostingsIn(chunks) PROVE q \in PostingsIn(wide)
  <2>1. PICK d \in 1 .. n : \E j \in 1 .. L(d) : chunks[d][j] = q
    BY <1>1, Places DEF n, L
  <2>2. PICK j \in 1 .. L(d) : chunks[d][j] = q
    BY <2>1
  <2> DEFINE k == IF d = c /\ j >= i THEN j + 1 ELSE j
  <2>3. k \in 1 .. W(d) /\ ~(d = c /\ k = i) /\ Was(d, k) = j
    <3>1. L(d) \in Nat /\ i \in Int /\ W(d) = IF d = c THEN L(d) + 1 ELSE L(d)
      BY <1>1, <1>2, <1>6
    <3> HIDE DEF W, L
    <3>2. CASE d = c /\ j >= i
      BY <3>1, <3>2
    <3>3. CASE ~(d = c /\ j >= i)
      BY <3>1, <3>3
    <3> QED
      BY <3>2, <3>3
  <2>4. wide[d][k] = q
    BY <1>7, <2>2, <2>3
  <2> QED
    BY <1>4, <2>3, <2>4, Places
<1> QED
  BY <1>3, <1>4, <1>5, <1>13, <1>14, <1>15, <1>16 DEF row, wide, n, L, Widened

\* Cutting a chunk in two moves postings to other places and none past another.
Split(new, wide, c, h) ==
    /\ Ordered(new) /\ Len(new) = Len(wide) + 1
    /\ Len(new[c]) = h /\ Len(new[c + 1]) = Len(wide[c]) - h
    /\ \A d \in 1 .. Len(new) : d < c => new[d] = wide[d]
    /\ \A d \in 1 .. Len(new) : d > c + 1 => new[d] = wide[d - 1]
    /\ \A q : q \in PostingsIn(new) <=> q \in PostingsIn(wide)

LEMMA SplitFacts ==
  ASSUME NEW wide, Ordered(wide), NEW c \in 1 .. Len(wide), NEW h \in 1 .. Len(wide[c]) - 1,
         NEW m, m = <<SubSeq(wide[c], 1, h), SubSeq(wide[c], h + 1, Len(wide[c]))>>,
         NEW new, SplicedIn(Seq(Posting), new, wide, m, c, c + 1)
  PROVE  Split(new, wide, c, h)
<1> DEFINE n == Len(wide)
           row == wide[c]
           L(d) == Len(wide[d])
           N(d) == Len(new[d])
<1>1. wide \in Seq(Seq(Posting)) /\ n \in Nat /\ c \in 1 .. n
  BY DEF Ordered
<1>2. \A d \in 1 .. n : wide[d] \in Seq(Posting) /\ L(d) \in Nat
  BY <1>1, Places
<1>3. row \in Seq(Posting) /\ Len(row) = L(c) /\ L(c) \in Nat /\ h \in 1 .. L(c) - 1
  BY <1>1, <1>2
<1> DEFINE a == SubSeq(row, 1, h)
           b == SubSeq(row, h + 1, Len(row))
<1>4. a \in Seq(Posting) /\ Len(a) = h /\ \A j \in 1 .. h : a[j] = row[j]
  <2> HIDE DEF row
  <2>1. 1 \in 1 .. Len(row) + 1 /\ h \in 1 - 1 .. Len(row)
    BY <1>3
  <2>2. /\ a \in Seq(Posting) /\ Len(a) = h - 1 + 1
        /\ \A j \in 1 .. h - 1 + 1 : a[j] = row[1 - 1 + j]
    BY <1>3, <2>1, PartFacts
  <2> HIDE DEF a
  <2>3. h - 1 + 1 = h /\ \A j \in 1 .. h : 1 - 1 + j = j
    BY <1>3
  <2> QED
    BY <2>2, <2>3
<1>5. b \in Seq(Posting) /\ Len(b) = L(c) - h /\ \A j \in 1 .. L(c) - h : b[j] = row[h + j]
  <2> HIDE DEF row
  <2>1. h + 1 \in 1 .. Len(row) + 1 /\ Len(row) \in (h + 1) - 1 .. Len(row)
    BY <1>3
  <2>2. /\ b \in Seq(Posting) /\ Len(b) = Len(row) - (h + 1) + 1
        /\ \A j \in 1 .. Len(row) - (h + 1) + 1 : b[j] = row[(h + 1) - 1 + j]
    BY <1>3, <2>1, PartFacts
  <2> HIDE DEF b
  <2>3. Len(row) - (h + 1) + 1 = L(c) - h /\ \A j \in 1 .. L(c) - h : (h + 1) - 1 + j = h + j
    BY <1>3
  <2> QED
    BY <2>2, <2>3
<1>6. m = <<a, b>>
  OBVIOUS
<1> HIDE DEF a, b
<1>7. Len(m) = 2 /\ m[1] = a /\ m[2] = b
  BY <1>6
<1>8. /\ new \in Seq(Seq(Posting)) /\ Len(new) = n + 1
      /\ \A d \in 1 .. c - 1 : new[d] = wide[d]
      /\ new[c] = a /\ new[c + 1] = b
      /\ \A d \in c + 2 .. n + 1 : new[d] = wide[d - 1]
  <2>1. /\ new \in Seq(Seq(Posting)) /\ Len(new) = (c - 1) + Len(m) + (n - (c + 1) + 1)
        /\ \A i \in 1 .. c - 1 : new[i] = wide[i]
        /\ \A i \in 1 .. Len(m) : new[(c - 1) + i] = m[i]
        /\ \A i \in 1 .. n - (c + 1) + 1 : new[(c - 1) + Len(m) + i] = wide[(c + 1) - 1 + i]
    BY DEF SplicedIn
  <2>2. Len(new) = n + 1
    BY <1>1, <1>7, <2>1
  <2>3. new[c] = a /\ new[c + 1] = b
    <3>1. new[(c - 1) + 1] = m[1] /\ new[(c - 1) + 2] = m[2]
      <4>1. 1 \in 1 .. Len(m) /\ 2 \in 1 .. Len(m)
        BY <1>7
      <4> QED
        BY <2>1, <4>1
    <3>2. (c - 1) + 1 = c /\ (c - 1) + 2 = c + 1
      BY <1>1
    <3> QED
      BY <1>7, <3>1, <3>2
  <2>4. ASSUME NEW d \in c + 2 .. n + 1 PROVE new[d] = wide[d - 1]
    <3>1. /\ d - c - 1 \in 1 .. n - (c + 1) + 1
          /\ (c - 1) + 2 + (d - c - 1) = d /\ (c + 1) - 1 + (d - c - 1) = d - 1
      BY <1>1
    <3>2. new[(c - 1) + 2 + (d - c - 1)] = wide[(c + 1) - 1 + (d - c - 1)]
      BY <1>7, <2>1, <3>1
    <3> QED
      BY <3>1, <3>2
  <2> QED
    BY <2>1, <2>2, <2>3, <2>4
<1>9. N(c) = h /\ N(c + 1) = L(c) - h
  BY <1>4, <1>5, <1>8
<1>10. /\ \A d \in 1 .. n + 1 : d < c => new[d] = wide[d]
       /\ \A d \in 1 .. n + 1 : d > c + 1 => new[d] = wide[d - 1]
  <2>1. /\ \A d \in 1 .. n + 1 : d < c => d \in 1 .. c - 1
        /\ \A d \in 1 .. n + 1 : d > c + 1 => d \in c + 2 .. n + 1
    BY <1>1
  <2> QED
    BY <1>8, <2>1
\* Where a posting was.
<1> DEFINE Chunk(d) == IF d <= c THEN d ELSE d - 1
           Was(d, j) == IF d = c + 1 THEN h + j ELSE j
<1>11. ASSUME NEW d \in 1 .. n + 1, NEW j \in 1 .. N(d)
       PROVE  /\ Chunk(d) \in 1 .. n /\ Was(d, j) \in 1 .. L(Chunk(d))
              /\ new[d][j] = wide[Chunk(d)][Was(d, j)]
  <2>1. CASE d = c
    <3>1. Chunk(d) = c /\ Was(d, j) = j /\ j \in 1 .. h
      BY <1>1, <1>9, <2>1
    <3>2. new[d][j] = row[j] /\ j \in 1 .. L(c)
      BY <1>3, <1>4, <1>8, <2>1, <3>1
    <3> QED
      BY <1>1, <3>1, <3>2
  <2>2. CASE d = c + 1
    <3>1. Chunk(d) = c /\ Was(d, j) = h + j /\ j \in 1 .. L(c) - h
      BY <1>1, <1>9, <2>2
    <3>2. new[d][j] = row[h + j]
      BY <1>5, <1>8, <2>2, <3>1
    <3>3. h + j \in 1 .. L(c)
      <4>1. h \in 1 .. L(c) - 1 /\ L(c) \in Nat
        BY <1>1, <1>3
      <4> HIDE DEF L
      <4> QED
        BY <3>1, <4>1
    <3> QED
      BY <1>1, <3>1, <3>2, <3>3
  <2>3. CASE d < c
    <3>1. Chunk(d) = d /\ Was(d, j) = j /\ d \in 1 .. n
      BY <1>1, <2>3
    <3> QED
      BY <1>10, <2>3, <3>1
  <2>4. CASE d > c + 1
    <3>1. Chunk(d) = d - 1 /\ Was(d, j) = j /\ d - 1 \in 1 .. n
      BY <1>1, <2>4
    <3> QED
      BY <1>10, <2>4, <3>1
  <2> QED
    BY <1>1, <2>1, <2>2, <2>3, <2>4
<1>12. \A d \in 1 .. n + 1 : N(d) \in Nat
  BY <1>8, Places
<1> DEFINE K(d, j) == wide[d][j].key
<1>13. \A d, e \in 1 .. n : \A j \in 1 .. L(d), k \in 1 .. L(e) :
         d < e \/ (d = e /\ j < k) => K(d, j) < K(e, k)
  BY DEF Ordered
<1>14. ASSUME NEW d \in 1 .. n + 1, NEW e \in 1 .. n + 1, NEW j \in 1 .. N(d), NEW k \in 1 .. N(e),
              d < e \/ (d = e /\ j < k)
       PROVE  new[d][j].key < new[e][k].key
  <2>1. /\ Chunk(d) \in 1 .. n /\ Was(d, j) \in 1 .. L(Chunk(d))
        /\ new[d][j].key = K(Chunk(d), Was(d, j))
    BY <1>11
  <2>2. /\ Chunk(e) \in 1 .. n /\ Was(e, k) \in 1 .. L(Chunk(e))
        /\ new[e][k].key = K(Chunk(e), Was(e, k))
    BY <1>11
  <2>3. Chunk(d) < Chunk(e) \/ (Chunk(d) = Chunk(e) /\ Was(d, j) < Was(e, k))
    <3>0. j \in Nat /\ k \in Nat /\ d \in Nat /\ e \in Nat /\ c \in Nat /\ h \in Nat
      BY <1>1, <1>3, <1>12
    <3>1. CASE d = e
      BY <1>14, <3>0, <3>1
    <3>2. CASE d = c /\ e = c + 1
      <4>1. Was(d, j) = j /\ Was(e, k) = h + k /\ j <= h /\ 1 <= k
        BY <1>9, <3>0, <3>2
      <4>2. Chunk(d) = Chunk(e)
        BY <3>0, <3>2
      <4>3. j < h + k
        BY <3>0, <4>1
      <4> QED
        BY <4>1, <4>2, <4>3
    <3>3. CASE d < e /\ ~(d = c /\ e = c + 1)
      <4>1. Chunk(d) < Chunk(e)
        <5>1. CASE e <= c
          BY <3>0, <3>3, <5>1
        <5>2. CASE e > c
          BY <3>0, <3>3, <5>2
        <5> QED
          BY <3>0, <5>1, <5>2
      <4> QED
        BY <4>1
    <3> QED
      BY <1>14, <3>1, <3>2, <3>3
  <2> HIDE DEF K, Chunk, Was, L
  <2> QED
    BY <1>13, <2>1, <2>2, <2>3
<1>15. Ordered(new)
  BY <1>8, <1>14 DEF Ordered
<1>16. ASSUME NEW q \in PostingsIn(new) PROVE q \in PostingsIn(wide)
  <2>1. PICK d \in 1 .. n + 1 : \E j \in 1 .. N(d) : new[d][j] = q
    <3>1. \E d \in 1 .. Len(new) : \E j \in 1 .. N(d) : new[d][j] = q
      BY <1>8, Places
    <3> QED
      BY <1>8, <3>1
  <2>2. PICK j \in 1 .. N(d) : new[d][j] = q
    BY <2>1
  <2>3. Chunk(d) \in 1 .. n /\ Was(d, j) \in 1 .. L(Chunk(d)) /\ wide[Chunk(d)][Was(d, j)] = q
    BY <1>11, <2>2
  <2> HIDE DEF Chunk, Was
  <2> QED
    BY <1>1, <2>3, Places
<1>17. ASSUME NEW q \in PostingsIn(wide) PROVE q \in PostingsIn(new)
  <2>1. PICK d \in 1 .. n : \E j \in 1 .. L(d) : wide[d][j] = q
    BY <1>1, Places
  <2>2. PICK j \in 1 .. L(d) : wide[d][j] = q
    BY <2>1
  <2> DEFINE e == IF d < c \/ (d = c /\ j <= h) THEN d ELSE d + 1
             k == IF d = c /\ j > h THEN j - h ELSE j
  <2>3. e \in 1 .. n + 1 /\ k \in 1 .. N(e) /\ Chunk(e) = d /\ Was(e, k) = j
    <3>0. /\ j \in 1 .. L(d) /\ L(d) \in Nat /\ L(c) \in Nat /\ c \in 1 .. n /\ n \in Nat
          /\ h \in 1 .. L(c) - 1
      BY <1>1, <1>2, <1>3
    <3>1. CASE d < c
      <4>1. e = d /\ k = j
        BY <3>0, <3>1
      <4>2. e \in 1 .. n + 1 /\ N(e) = L(d)
        BY SMTT(30), <1>10, <3>0, <3>1, <4>1
      <4> QED
        BY <3>0, <3>1, <4>1, <4>2
    <3>2. CASE d = c /\ j <= h
      <4>1. e = c /\ k = j /\ j \in 1 .. h
        BY <3>0, <3>2
      <4> QED
        BY <1>9, <3>0, <3>2, <4>1
    <3>3. CASE d = c /\ j > h
      <4>1. e = c + 1 /\ k = j - h /\ j - h \in 1 .. L(c) - h /\ h + (j - h) = j
        BY <3>0, <3>3
      <4> QED
        BY <1>9, <3>0, <3>3, <4>1
    <3>4. CASE d > c
      <4>1. e = d + 1 /\ k = j
        BY <3>0, <3>4
      <4>2. e \in 1 .. n + 1 /\ e > c + 1 /\ e - 1 = d
        BY <3>0, <3>4, <4>1
      <4>3. N(e) = L(d)
        BY <1>10, <4>2
      <4> QED
        BY <3>0, <4>1, <4>2, <4>3
    <3>5. d < c \/ (d = c /\ j <= h) \/ (d = c /\ j > h) \/ d > c
      BY <3>0
    <3> HIDE DEF e, k
    <3> QED
      BY <3>1, <3>2, <3>3, <3>4, <3>5
  <2> HIDE DEF e, k
  <2>4. new[e][k] = q
    BY <1>11, <2>2, <2>3
  <2> QED
    BY <1>8, <2>3, <2>4, Places
<1> QED
  BY <1>8, <1>9, <1>10, <1>15, <1>16, <1>17 DEF Split

LEMMA InsertFacts ==
  ASSUME NEW chunks, Chunked(chunks), NEW at, NEW p \in Posting,
         chunks = <<>> \/ (chunks # <<>> /\ Gap(chunks, at.c, at.i, p.key))
  PROVE  /\ Chunked(InsertPosting(chunks, at, p))
         /\ \A q : q \in PostingsIn(InsertPosting(chunks, at, p)) <=> q \in PostingsIn(chunks) \/ q = p
<1> DEFINE new == InsertPosting(chunks, at, p)
           c == at.c
           row == InsertAt(chunks[c], at.i, p)
           half == Len(row) \div 2
           wide == [chunks EXCEPT ![c] = row]
           n == Len(chunks)
<1>1. CASE chunks = <<>>
  <2>1. new = <<<<p>>>>
    BY <1>1 DEF InsertPosting
  <2> HIDE DEF new
  <2>2. new \in Seq(Seq(Posting)) /\ Len(new) = 1 /\ Len(new[1]) = 1 /\ new[1][1] = p
    BY <2>1
  <2>3. 1 \in 1 .. PostingChunk
    BY PostingChunkAssumption
  <2>4. Ordered(new)
    BY <2>2 DEF Ordered
  <2>5. Chunked(new)
    <3>1. DOMAIN new = 1 .. 1 /\ \A d \in 1 .. 1 : d = 1
      BY <2>2
    <3>2. \A d \in DOMAIN new : Len(new[d]) \in 1 .. PostingChunk
      BY <2>2, <2>3, <3>1
    <3>3. Ascending(new)
      BY <2>2, <2>4, OrderedMeans
    <3> QED
      BY <2>2, <3>2, <3>3 DEF Chunked
  <2>6. \A q : q \in PostingsIn(new) <=> q = p
    <3>1. \A q : q \in PostingsIn(new) <=> \E d \in 1 .. Len(new) : \E j \in 1 .. Len(new[d]) : new[d][j] = q
      BY <2>2, Places
    <3>2. \A d : d \in 1 .. Len(new) <=> d = 1
      BY <2>2
    <3>3. \A j : j \in 1 .. Len(new[1]) <=> j = 1
      BY <2>2
    <3> QED
      BY <2>2, <3>1, <3>2, <3>3
  <2>7. PostingsIn(chunks) = {}
    BY <1>1 DEF PostingsIn
  <2> QED
    BY <2>5, <2>6, <2>7 DEF new
<1>2. CASE chunks # <<>>
  <2>1. Gap(chunks, c, at.i, p.key) /\ c \in 1 .. n
    BY <1>2 DEF Gap
  <2>2. /\ row \in Seq(Posting) /\ Len(row) = Len(chunks[c]) + 1
        /\ Ordered(wide) /\ Len(wide) = n
        /\ wide[c] = row /\ \A d \in 1 .. n : d # c => wide[d] = chunks[d]
        /\ \A q : q \in PostingsIn(wide) <=> q \in PostingsIn(chunks) \/ q = p
    <3>1. Widened(chunks, c, at.i, p)
      BY <2>1, WidenFacts
    <3> QED
      BY <3>1 DEF Widened
  <2>3. /\ chunks \in Seq(Seq(Posting)) /\ n \in Nat
        /\ \A d \in 1 .. n : Len(chunks[d]) \in 1 .. PostingChunk
    BY Places DEF Chunked
  <2>4. new = IF Len(row) <= PostingChunk THEN wide
              ELSE Splice(chunks, <<SubSeq(row, 1, half), SubSeq(row, half + 1, Len(row))>>, c, c + 1)
    BY <1>2 DEF InsertPosting, Splice
  <2> HIDE DEF new, c, row, wide
  <2>5. Len(row) \in Nat /\ Len(row) >= 2 /\ Len(row) <= PostingChunk + 1 /\ PostingChunk \in Nat \ {0}
    BY <2>1, <2>2, <2>3, PostingChunkAssumption
  <2>6. wide \in Seq(Seq(Posting))
    BY <2>2 DEF Ordered
  <2>7. CASE Len(row) <= PostingChunk
    <3>1. new = wide
      BY <2>4, <2>7
    <3>2. \A d \in 1 .. n : Len(wide[d]) \in 1 .. PostingChunk
      <4> SUFFICES ASSUME NEW d \in 1 .. n PROVE Len(wide[d]) \in 1 .. PostingChunk
        OBVIOUS
      <4>1. CASE d = c
        BY <2>2, <2>5, <2>7, <4>1
      <4>2. CASE d # c
        <5>1. wide[d] = chunks[d]
          BY <2>2, <4>2
        <5> QED
          BY <2>3, <5>1
      <4> QED
        BY <4>1, <4>2
    <3>3. DOMAIN wide = 1 .. n
      BY <2>2, <2>6
    <3>4. Chunked(wide)
      BY <2>2, <2>6, <3>2, <3>3, OrderedMeans DEF Chunked
    <3> QED
      BY <2>2, <3>1, <3>4 DEF new
  <2>8. CASE ~(Len(row) <= PostingChunk)
    <3> DEFINE a == SubSeq(row, 1, half)
               b == SubSeq(row, half + 1, Len(row))
               m == <<a, b>>
    <3>1. half \in 1 .. Len(row) - 1 /\ half \in 1 .. PostingChunk /\ Len(row) - half \in 1 .. PostingChunk
      BY <2>5
    <3> HIDE DEF half
    <3>2. new = Splice(chunks, m, c, c + 1)
      BY <2>4, <2>8
    <3>3. m \in Seq(Seq(Posting))
      <4>1. a \in Seq(Posting)
        <5>1. 1 \in 1 .. Len(row) + 1 /\ half \in 1 - 1 .. Len(row)
          BY <2>5, <3>1
        <5> QED
          BY <2>2, <5>1, PartFacts
      <4>2. b \in Seq(Posting)
        <5>1. half + 1 \in 1 .. Len(row) + 1 /\ Len(row) \in (half + 1) - 1 .. Len(row)
          BY <2>5, <3>1
        <5> QED
          BY <2>2, <5>1, PartFacts
      <4> HIDE DEF a, b
      <4> QED
        BY <4>1, <4>2
    <3>4. m = <<SubSeq(wide[c], 1, half), SubSeq(wide[c], half + 1, Len(wide[c]))>>
      BY <2>2
    <3> HIDE DEF a, b, m
    <3>5. SplicedIn(Seq(Posting), new, chunks, m, c, c + 1)
      <4>1. c \in 1 .. Len(chunks) + 1 /\ c + 1 \in c .. Len(chunks) + 1
        BY <2>1, <2>3
      <4> QED
        BY <2>3, <3>2, <3>3, <4>1, SpliceFacts
    <3>6. SplicedIn(Seq(Posting), new, wide, m, c, c + 1)
      <4>1. /\ new \in Seq(Seq(Posting)) /\ Len(new) = (c - 1) + Len(m) + (n - (c + 1) + 1)
            /\ \A i \in 1 .. c - 1 : new[i] = chunks[i]
            /\ \A i \in 1 .. Len(m) : new[(c - 1) + i] = m[i]
            /\ \A i \in 1 .. n - (c + 1) + 1 : new[(c - 1) + Len(m) + i] = chunks[(c + 1) - 1 + i]
        BY <3>5 DEF SplicedIn
      <4>2. \A i \in 1 .. c - 1 : chunks[i] = wide[i]
        BY <2>1, <2>2, <2>3
      <4>3. \A i \in 1 .. n - (c + 1) + 1 : chunks[(c + 1) - 1 + i] = wide[(c + 1) - 1 + i]
        <5>1. \A i \in 1 .. n - (c + 1) + 1 : (c + 1) - 1 + i \in 1 .. n /\ (c + 1) - 1 + i # c
          BY <2>1, <2>3
        <5> QED
          BY <2>2, <5>1
      <4> QED
        BY <2>2, <4>1, <4>2, <4>3 DEF SplicedIn
    <3>7. /\ Ordered(new) /\ Len(new) = n + 1
          /\ Len(new[c]) = half /\ Len(new[c + 1]) = Len(row) - half
          /\ \A d \in 1 .. Len(new) : d < c => new[d] = wide[d]
          /\ \A d \in 1 .. Len(new) : d > c + 1 => new[d] = wide[d - 1]
          /\ \A q : q \in PostingsIn(new) <=> q \in PostingsIn(wide)
      <4>1. c \in 1 .. Len(wide) /\ half \in 1 .. Len(wide[c]) - 1
        BY <2>1, <2>2, <3>1
      <4>2. Split(new, wide, c, half)
        BY <2>2, <3>4, <3>6, <4>1, SplitFacts
      <4> QED
        BY <2>2, <4>2 DEF Split
    <3>8. new \in Seq(Seq(Posting)) /\ DOMAIN new = 1 .. n + 1
      BY <3>7 DEF Ordered
    <3>9. ASSUME NEW d \in 1 .. n + 1 PROVE Len(new[d]) \in 1 .. PostingChunk
      <4>1. CASE d = c \/ d = c + 1
        BY <3>1, <3>7, <4>1
      <4>2. CASE d < c
        <5>1. d \in 1 .. n /\ d # c
          BY <2>1, <2>3, <4>2
        <5>2. new[d] = chunks[d]
          BY <2>2, <3>7, <4>2, <5>1
        <5> QED
          BY <2>3, <5>1, <5>2
      <4>3. CASE d > c + 1
        <5>1. d - 1 \in 1 .. n /\ d - 1 # c
          BY <2>1, <2>3, <4>3
        <5>2. new[d] = chunks[d - 1]
          BY <2>2, <3>7, <4>3, <5>1
        <5> QED
          BY <2>3, <5>1, <5>2
      <4> QED
        BY <2>1, <2>3, <4>1, <4>2, <4>3
    <3>10. Chunked(new)
      BY <3>7, <3>8, <3>9, OrderedMeans DEF Chunked
    <3> QED
      BY <2>2, <3>7, <3>10 DEF new
  <2> QED
    BY <2>7, <2>8
<1> QED
  BY <1>1, <1>2

-----------------------------------------------------------------------------
(* Counting tokens.                                                        *)

Counts == [DocKeys -> Nat]

LEMMA NewListTells ==
  ASSUME NEW ids, NEW n \in Counts, \A k \in DocKeys : n[k] = 0
  PROVE  TellsOf(NewList, ids, n)
<1>1. Counted(n) = {} /\ IsFiniteSet({}) /\ Cardinality({}) = 0
  BY FS_EmptySet DEF Counted
<1>2. NewList.chunks = <<>> /\ NewList.live = 0 /\ NewList = [chunks |-> <<>>, live |-> 0]
  BY DEF NewList
<1>3. PostingsIn(<<>>) = {} /\ Chunked(<<>>)
  BY DEF PostingsIn, Chunked, Ascending
<1> QED
  BY <1>1, <1>2, <1>3 DEF TellsOf

\* A count of one key that changes changes what is counted by that key at most.
LEMMA CountedBy ==
  ASSUME NEW n \in Counts, IsFiniteSet(Counted(n)), NEW key \in DocKeys, NEW m \in Nat
  PROVE  LET after == [n EXCEPT ![key] = m]
         IN  /\ after \in Counts /\ IsFiniteSet(Counted(after))
             /\ after[key] = m /\ \A k \in DocKeys \ {key} : after[k] = n[k]
             /\ Cardinality(Counted(n)) \in Nat
             /\ Cardinality(Counted(after)) =
                  CASE n[key] = 0 /\ m # 0 -> Cardinality(Counted(n)) + 1
                    [] n[key] # 0 /\ m = 0 -> Cardinality(Counted(n)) - 1
                    [] OTHER -> Cardinality(Counted(n))
<1> DEFINE after == [n EXCEPT ![key] = m]
<1>1. after \in Counts /\ after[key] = m /\ \A k \in DocKeys \ {key} : after[k] = n[k]
  BY DEF Counts
<1> HIDE DEF after
<1>2. key \in Counted(n) <=> n[key] # 0
  BY DEF Counted
<1>3. Cardinality(Counted(n)) \in Nat
  BY FS_CardinalityType
<1>4. CASE m # 0 /\ n[key] = 0
  <2>1. Counted(after) = Counted(n) \cup {key}
    BY <1>1, <1>4 DEF Counted
  <2>2. IsFiniteSet(Counted(after)) /\ Cardinality(Counted(after)) = Cardinality(Counted(n)) + 1
    BY <1>2, <1>4, <2>1, FS_AddElement
  <2> QED
    BY <1>1, <1>3, <1>4, <2>2 DEF after
<1>5. CASE m = 0 /\ n[key] # 0
  <2>1. Counted(after) = Counted(n) \ {key}
    BY <1>1, <1>5 DEF Counted
  <2>2. IsFiniteSet(Counted(after)) /\ Cardinality(Counted(after)) = Cardinality(Counted(n)) - 1
    BY <1>2, <1>5, <2>1, FS_RemoveElement
  <2> QED
    BY <1>1, <1>3, <1>5, <2>2 DEF after
<1>6. CASE (m = 0 <=> n[key] = 0)
  <2>1. Counted(after) = Counted(n)
    BY <1>1, <1>6 DEF Counted
  <2> QED
    BY <1>1, <1>3, <1>6, <2>1 DEF after
<1> QED
  BY <1>4, <1>5, <1>6

\* Where find looks for a key whose count is not 0, there it is, and with it.
LEMMA FindCounts ==
  ASSUME NEW list, NEW ids, NEW n \in Counts, TellsOf(list, ids, n), NEW key \in DocKeys,
         NEW at, at = FindPosting(list.chunks, key)
  PROVE  \/ /\ at.found /\ at.c \in 1 .. Len(list.chunks) /\ at.i \in 1 .. Len(list.chunks[at.c])
            /\ list.chunks[at.c][at.i].key = key
            /\ list.chunks[at.c][at.i].tf = n[key]
            /\ list.chunks[at.c][at.i].doc = ids[key] /\ key \in DOMAIN ids
         \/ /\ ~at.found /\ n[key] = 0
            /\ list.chunks = <<>> \/ (list.chunks # <<>> /\ Gap(list.chunks, at.c, at.i, key))
<1> DEFINE chunks == list.chunks
<1>1. Chunked(chunks) /\ chunks \in Seq(Seq(Posting))
  BY DEF TellsOf, Chunked
<1>2. \A p : p \in PostingsIn(chunks) <=>
        \E c \in 1 .. Len(chunks) : \E i \in 1 .. Len(chunks[c]) : chunks[c][i] = p
  BY <1>1, Places
<1>3. \A p \in PostingsIn(chunks) : p.key \in DOMAIN ids /\ p.doc = ids[p.key] /\ p.tf = n[p.key]
  BY DEF TellsOf
<1>4. n[key] # 0 => \E p \in PostingsIn(chunks) : p.key = key
  BY DEF TellsOf, Counted
<1> HIDE DEF chunks
<1>5. \/ /\ at.found /\ at.c \in 1 .. Len(chunks) /\ at.i \in 1 .. Len(chunks[at.c])
         /\ chunks[at.c][at.i].key = key
      \/ ~at.found /\ chunks = <<>>
      \/ ~at.found /\ chunks # <<>> /\ Gap(chunks, at.c, at.i, key)
  BY <1>1, FindFacts DEF chunks
<1>6. CASE /\ at.found /\ at.c \in 1 .. Len(chunks) /\ at.i \in 1 .. Len(chunks[at.c])
           /\ chunks[at.c][at.i].key = key
  <2>1. chunks[at.c][at.i] \in PostingsIn(chunks)
    BY <1>2, <1>6
  <2> QED
    BY <1>3, <1>6, <2>1 DEF chunks
<1>7. CASE ~at.found /\ chunks = <<>>
  <2>1. PostingsIn(chunks) = {}
    BY <1>7 DEF PostingsIn
  <2> QED
    BY <1>4, <1>7, <2>1 DEF chunks
<1>8. CASE ~at.found /\ chunks # <<>> /\ Gap(chunks, at.c, at.i, key)
  <2>1. \A c \in 1 .. Len(chunks) : \A i \in 1 .. Len(chunks[c]) : chunks[c][i].key # key
    <3> SUFFICES ASSUME NEW c \in 1 .. Len(chunks), NEW i \in 1 .. Len(chunks[c]),
                        chunks[c][i].key = key
                 PROVE  FALSE
      OBVIOUS
    <3>1. chunks[c][i].key < key \/ chunks[c][i].key > key
      BY <1>8 DEF Gap
    <3>2. key \in Int
      BY DocumentsAssumption
    <3> QED
      BY <3>1, <3>2
  <2>2. n[key] = 0
    BY <1>2, <1>4, <2>1
  <2> QED
    BY <1>8, <2>2 DEF chunks
<1> QED
  BY <1>5, <1>6, <1>7, <1>8

\* A posting with another frequency is another count of its key.
LEMMA RecountTells ==
  ASSUME NEW list, NEW ids, NEW n \in Counts, TellsOf(list, ids, n), NEW key \in DocKeys,
         NEW at, at = FindPosting(list.chunks, key), at.found, NEW m \in Nat
  PROVE  TellsOf([chunks |-> SetFrequency(list.chunks, at, m),
                  live |-> Cardinality(Counted([n EXCEPT ![key] = m]))],
                 ids, [n EXCEPT ![key] = m])
<1> DEFINE chunks == list.chunks
           new == SetFrequency(chunks, at, m)
           old == chunks[at.c][at.i]
           after == [n EXCEPT ![key] = m]
<1>1. /\ at.c \in 1 .. Len(chunks) /\ at.i \in 1 .. Len(chunks[at.c])
      /\ old.key = key /\ old.doc = ids[key] /\ key \in DOMAIN ids
  BY FindCounts
<1>2. /\ IsFiniteSet(Counted(n)) /\ Chunked(chunks)
      /\ \A p \in PostingsIn(chunks) : p.key \in DOMAIN ids /\ p.doc = ids[p.key] /\ p.tf = n[p.key]
      /\ Counted(n) \subseteq {p.key : p \in PostingsIn(chunks)}
  BY DEF TellsOf
<1>3. /\ Chunked(new)
      /\ \A p : p \in PostingsIn(new) <=>
           \/ p \in PostingsIn(chunks) /\ p.key # old.key
           \/ p = [key |-> old.key, doc |-> old.doc, tf |-> m]
  <2>1. Refreshed(SetFrequency(chunks, at, m), chunks, chunks[at.c][at.i], m)
    BY <1>1, <1>2, SetFrequencyFacts
  <2> QED
    BY <2>1 DEF Refreshed
<1>4. /\ after \in Counts /\ IsFiniteSet(Counted(after))
      /\ after[key] = m /\ \A k \in DocKeys \ {key} : after[k] = n[k]
  BY <1>2, CountedBy
<1>5. \A p \in PostingsIn(chunks) : p.key \in DocKeys
  <2>1. chunks \in Seq(Seq(Posting))
    BY <1>2 DEF Chunked
  <2>2. \A p \in PostingsIn(chunks) : p \in Posting
    BY <2>1, Places
  <2> QED
    BY <2>2 DEF Posting
<1> HIDE DEF new, old, after, chunks
<1>6. ASSUME NEW p \in PostingsIn(new)
      PROVE  p.key \in DOMAIN ids /\ p.doc = ids[p.key] /\ p.tf = after[p.key]
  BY <1>1, <1>2, <1>3, <1>4, <1>5
<1>7. ASSUME NEW k \in Counted(after) PROVE \E p \in PostingsIn(new) : p.key = k
  <2>1. CASE k = key
    <3>1. [key |-> old.key, doc |-> old.doc, tf |-> m] \in PostingsIn(new)
      BY <1>3
    <3> QED
      BY <1>1, <2>1, <3>1
  <2>2. CASE k # key
    <3>1. k \in Counted(n)
      BY <1>4, <2>2 DEF Counted
    <3>2. PICK p \in PostingsIn(chunks) : p.key = k
      BY <1>2, <3>1
    <3> QED
      BY <1>1, <1>3, <2>2, <3>2
  <2> QED
    BY <2>1, <2>2
<1>8. TellsOf([chunks |-> new, live |-> Cardinality(Counted(after))], ids, after)
  <2>1. Counted(after) \subseteq {p.key : p \in PostingsIn(new)}
    BY <1>7
  <2> QED
    BY <1>3, <1>4, <1>6, <2>1 DEF TellsOf
<1> QED
  BY <1>8 DEF new, after, chunks

\* So is a new posting.
LEMMA InsertTells ==
  ASSUME NEW list, NEW ids, NEW n \in Counts, TellsOf(list, ids, n), NEW key \in DocKeys,
         key \in DOMAIN ids, ids[key] \in Int,
         NEW at, at = FindPosting(list.chunks, key), ~at.found
  PROVE  TellsOf([chunks |-> InsertPosting(list.chunks, at, [key |-> key, doc |-> ids[key], tf |-> 1]),
                  live |-> Cardinality(Counted([n EXCEPT ![key] = 1]))],
                 ids, [n EXCEPT ![key] = 1])
<1> DEFINE chunks == list.chunks
           q == [key |-> key, doc |-> ids[key], tf |-> 1]
           new == InsertPosting(chunks, at, q)
           after == [n EXCEPT ![key] = 1]
<1>1. n[key] = 0 /\ (chunks = <<>> \/ (chunks # <<>> /\ Gap(chunks, at.c, at.i, key)))
  BY FindCounts
<1>2. /\ IsFiniteSet(Counted(n)) /\ Chunked(chunks)
      /\ \A p \in PostingsIn(chunks) : p.key \in DOMAIN ids /\ p.doc = ids[p.key] /\ p.tf = n[p.key]
      /\ Counted(n) \subseteq {p.key : p \in PostingsIn(chunks)}
  BY DEF TellsOf
<1>3. q \in Posting /\ q.key = key /\ q.doc = ids[key] /\ q.tf = 1
  BY DEF Posting
<1> HIDE DEF q, chunks
<1>4. /\ Chunked(new)
      /\ \A p : p \in PostingsIn(new) <=> p \in PostingsIn(chunks) \/ p = q
  BY <1>1, <1>2, <1>3, InsertFacts
<1>5. /\ after \in Counts /\ IsFiniteSet(Counted(after))
      /\ after[key] = 1 /\ \A k \in DocKeys \ {key} : after[k] = n[k]
  <2> DEFINE m == 1
  <2>1. m \in Nat
    OBVIOUS
  <2> HIDE DEF m
  <2>2. /\ [n EXCEPT ![key] = m] \in Counts /\ IsFiniteSet(Counted([n EXCEPT ![key] = m]))
        /\ [n EXCEPT ![key] = m][key] = m
        /\ \A k \in DocKeys \ {key} : [n EXCEPT ![key] = m][k] = n[k]
    BY <1>2, <2>1, CountedBy
  <2> QED
    BY <2>2 DEF m
<1>6. PostingsIn(chunks) \subseteq Posting
  BY <1>2, Places DEF Chunked
<1>7. \A p \in PostingsIn(chunks) : p.key \in DocKeys /\ p.key # key
  <2>1. \A p \in PostingsIn(chunks) : p.key \in DocKeys
    BY <1>6 DEF Posting
  <2> SUFFICES ASSUME NEW p \in PostingsIn(chunks), p.key = key PROVE FALSE
    BY <2>1
  <2>2. PICK c \in 1 .. Len(chunks) : \E i \in 1 .. Len(chunks[c]) : chunks[c][i] = p
    BY <1>2, Places DEF Chunked
  <2>3. PICK i \in 1 .. Len(chunks[c]) : chunks[c][i] = p
    BY <2>2
  <2>4. chunks # <<>>
    BY <2>2
  <2>5. chunks[c][i].key < key \/ chunks[c][i].key > key
    BY <1>1, <2>4 DEF Gap
  <2>6. key \in Int
    BY DocumentsAssumption
  <2> QED
    BY <2>3, <2>5, <2>6
<1> HIDE DEF new, after
<1>8. ASSUME NEW p \in PostingsIn(new)
      PROVE  p.key \in DOMAIN ids /\ p.doc = ids[p.key] /\ p.tf = after[p.key]
  BY <1>2, <1>3, <1>4, <1>5, <1>7
<1>9. ASSUME NEW k \in Counted(after) PROVE \E p \in PostingsIn(new) : p.key = k
  <2>1. CASE k = key
    BY <1>3, <1>4, <2>1
  <2>2. CASE k # key
    <3>1. k \in Counted(n)
      BY <1>5, <2>2 DEF Counted
    <3>2. PICK p \in PostingsIn(chunks) : p.key = k
      BY <1>2, <3>1
    <3> QED
      BY <1>4, <3>2
  <2> QED
    BY <2>1, <2>2
<1>10. TellsOf([chunks |-> new, live |-> Cardinality(Counted(after))], ids, after)
  <2>1. Counted(after) \subseteq {p.key : p \in PostingsIn(new)}
    BY <1>9
  <2> QED
    BY <1>4, <1>5, <1>8, <2>1 DEF TellsOf
<1> QED
  BY <1>10 DEF new, after, chunks, q

\* What a dictionary tells after one entry has changed.
LEMMA EnteredTells ==
  ASSUME NEW lists, NEW ids, NEW count \in [Terms -> Counts], Tell(lists, ids, count),
         NEW term \in Terms, NEW list, NEW n, TellsOf(list, ids, n)
  PROVE  Tell(Entered(lists, term, list), ids, [count EXCEPT ![term] = n])
<1> DEFINE new == Entered(lists, term, list)
           after == [count EXCEPT ![term] = n]
<1>1. DOMAIN new = DOMAIN lists \cup {term} /\ DOMAIN lists \subseteq Terms
  BY DEF Entered, Tell
<1>2. ListOf(new, term) = list /\ \A t \in Terms \ {term} : ListOf(new, t) = ListOf(lists, t)
  BY DEF Entered, ListOf
<1>3. after[term] = n /\ \A t \in Terms \ {term} : after[t] = count[t]
  OBVIOUS
<1> HIDE DEF new, after
<1>4. \A t \in Terms : TellsOf(ListOf(new, t), ids, after[t])
  BY <1>2, <1>3 DEF Tell
<1> QED
  BY <1>1, <1>4 DEF Tell, new, after

LEMMA AddTokenTells ==
  ASSUME NEW lists, NEW ids, NEW count \in [Terms -> Counts], Tell(lists, ids, count),
         NEW key \in DocKeys, key \in DOMAIN ids, ids[key] \in Int, NEW term \in Terms
  PROVE  Tell(AddToken(lists, key, ids[key], term), ids,
              [count EXCEPT ![term] = [count[term] EXCEPT ![key] = count[term][key] + 1]])
<1> DEFINE list == ListOf(lists, term)
           at == FindPosting(list.chunks, key)
           tf == IF at.found THEN list.chunks[at.c][at.i].tf ELSE 0
           n == count[term]
           after == [n EXCEPT ![key] = n[key] + 1]
           chunks == IF at.found THEN SetFrequency(list.chunks, at, tf + 1)
                     ELSE InsertPosting(list.chunks, at, [key |-> key, doc |-> ids[key], tf |-> 1])
           live == IF tf = 0 THEN list.live + 1 ELSE list.live
<1>1. n \in Counts /\ n[key] \in Nat /\ TellsOf(list, ids, n)
  BY DEF Tell, Counts
<1>2. AddToken(lists, key, ids[key], term) = Entered(lists, term, [chunks |-> chunks, live |-> live])
  BY DEF AddToken
<1> HIDE DEF list, n
<1>3. tf = n[key] /\ (~at.found => n[key] = 0)
  <2>1. \/ at.found /\ list.chunks[at.c][at.i].tf = n[key]
        \/ ~at.found /\ n[key] = 0
    BY <1>1, FindCounts
  <2> HIDE DEF at
  <2> QED
    BY <2>1
<1> HIDE DEF at
<1>4. list.live = Cardinality(Counted(n)) /\ IsFiniteSet(Counted(n))
  BY <1>1 DEF TellsOf
<1>5. Cardinality(Counted(after)) = IF n[key] = 0 THEN Cardinality(Counted(n)) + 1 ELSE Cardinality(Counted(n))
  <2>1. n[key] + 1 \in Nat /\ n[key] + 1 # 0
    BY <1>1
  <2> DEFINE m == n[key] + 1
  <2> HIDE DEF m
  <2>2. Cardinality(Counted([n EXCEPT ![key] = m])) =
          CASE n[key] = 0 /\ m # 0 -> Cardinality(Counted(n)) + 1
            [] n[key] # 0 /\ m = 0 -> Cardinality(Counted(n)) - 1
            [] OTHER -> Cardinality(Counted(n))
    BY <1>1, <1>4, <2>1, CountedBy DEF m
  <2> QED
    BY <2>1, <2>2 DEF m
<1>6. live = Cardinality(Counted(after))
  BY <1>3, <1>4, <1>5
<1> HIDE DEF tf
<1>7. TellsOf([chunks |-> chunks, live |-> Cardinality(Counted(after))], ids, after)
  <2>1. CASE at.found
    <3>1. n[key] + 1 \in Nat
      BY <1>1
    <3>2. chunks = SetFrequency(list.chunks, at, n[key] + 1)
      BY <1>3, <2>1
    <3> DEFINE m == n[key] + 1
    <3> HIDE DEF m, chunks
    <3>3. TellsOf([chunks |-> SetFrequency(list.chunks, at, m),
                   live |-> Cardinality(Counted([n EXCEPT ![key] = m]))], ids, [n EXCEPT ![key] = m])
      BY <1>1, <2>1, <3>1, RecountTells DEF m, at
    <3> QED
      BY <3>2, <3>3 DEF m
  <2>2. CASE ~at.found
    <3>1. /\ n[key] + 1 = 1
          /\ chunks = InsertPosting(list.chunks, at, [key |-> key, doc |-> ids[key], tf |-> 1])
      BY <1>3, <2>2
    <3> HIDE DEF chunks
    <3>2. TellsOf([chunks |-> InsertPosting(list.chunks, at, [key |-> key, doc |-> ids[key], tf |-> 1]),
                   live |-> Cardinality(Counted([n EXCEPT ![key] = 1]))], ids, [n EXCEPT ![key] = 1])
      BY <1>1, <2>2, InsertTells DEF at
    <3> QED
      BY <3>1, <3>2
  <2> QED
    BY <2>1, <2>2
<1> HIDE DEF chunks, live, after
<1>8. TellsOf([chunks |-> chunks, live |-> live], ids, after)
  BY <1>6, <1>7
<1>9. Tell(Entered(lists, term, [chunks |-> chunks, live |-> live]), ids, [count EXCEPT ![term] = after])
  BY <1>8, EnteredTells
<1> QED
  BY <1>2, <1>9 DEF after, n

LEMMA DropTokenTells ==
  ASSUME NEW lists, NEW ids, NEW count \in [Terms -> Counts], Tell(lists, ids, count),
         NEW key \in DocKeys, NEW term \in Terms
  PROVE  Tell(DropToken(lists, key, term), ids,
              [count EXCEPT ![term] = [count[term] EXCEPT ![key] = 0]])
<1> DEFINE list == ListOf(lists, term)
           at == FindPosting(list.chunks, key)
           n == count[term]
           after == [n EXCEPT ![key] = 0]
           new == [chunks |-> SetFrequency(list.chunks, at, 0), live |-> list.live - 1]
           drops == at.found /\ list.chunks[at.c][at.i].tf # 0
<1>1. n \in Counts /\ n[key] \in Nat /\ TellsOf(list, ids, n)
  BY DEF Tell, Counts
<1>2. DropToken(lists, key, term) = IF drops THEN Entered(lists, term, new) ELSE lists
  BY DEF DropToken
<1> HIDE DEF list, n
<1>3. drops <=> n[key] # 0
  <2>1. \/ at.found /\ list.chunks[at.c][at.i].tf = n[key]
        \/ ~at.found /\ n[key] = 0
    BY <1>1, FindCounts
  <2> HIDE DEF at
  <2> QED
    BY <2>1
<1>4. CASE n[key] # 0
  <2>1. at.found
    BY <1>3, <1>4
  <2> HIDE DEF drops, at
  <2>2. list.live = Cardinality(Counted(n)) /\ IsFiniteSet(Counted(n))
    BY <1>1 DEF TellsOf
  <2>3. 0 \in Nat
    OBVIOUS
  <2>4. Cardinality(Counted(after)) =
          CASE n[key] = 0 /\ 0 # 0 -> Cardinality(Counted(n)) + 1
            [] n[key] # 0 /\ 0 = 0 -> Cardinality(Counted(n)) - 1
            [] OTHER -> Cardinality(Counted(n))
    BY <1>1, <2>2, <2>3, CountedBy
  <2>5. Cardinality(Counted(after)) = Cardinality(Counted(n)) - 1
    BY <1>4, <2>4
  <2>6. TellsOf([chunks |-> SetFrequency(list.chunks, at, 0),
                 live |-> Cardinality(Counted(after))], ids, after)
    BY <1>1, <2>1, <2>3, RecountTells DEF at
  <2>7. TellsOf(new, ids, after)
    BY <2>2, <2>5, <2>6
  <2> HIDE DEF new, after
  <2>8. Tell(Entered(lists, term, new), ids, [count EXCEPT ![term] = after])
    BY <2>7, EnteredTells
  <2> QED
    BY <1>2, <1>3, <1>4, <2>8 DEF after, n
<1>5. CASE n[key] = 0
  <2>1. after = n
    BY <1>1, <1>5 DEF Counts
  <2>2. [count EXCEPT ![term] = n] = count
    BY DEF n
  <2> QED
    BY <1>2, <1>3, <1>5, <2>1, <2>2 DEF n
<1> QED
  BY <1>4, <1>5

-----------------------------------------------------------------------------
(* The loops over a document's tokens.                                     *)

Turn(lists, key, doc, term, op) ==
    IF op = "add" THEN AddToken(lists, key, doc, term) ELSE DropToken(lists, key, term)

TurnsOver(g, m, lists, key, doc, tokens, op) ==
    /\ g = [k \in 0 .. m |-> g[k]] /\ g[0] = lists
    /\ \A k \in 1 .. m : g[k] = Turn(g[k - 1], key, doc, tokens[k], op)

LEMMA TurnsExist ==
  ASSUME NEW n \in Nat, NEW lists, NEW key, NEW doc, NEW tokens, NEW op
  PROVE  \E g : TurnsOver(g, n, lists, key, doc, tokens, op)
<1> DEFINE Over(g, m) == TurnsOver(g, m, lists, key, doc, tokens, op)
           T == {m \in 0 .. n : \E g : Over(g, m)}
<1>1. 0 \in T
  <2> DEFINE g == [k \in 0 .. 0 |-> lists]
  <2>1. g = [k \in 0 .. 0 |-> g[k]] /\ g[0] = lists /\ 1 .. 0 = {}
    OBVIOUS
  <2> HIDE DEF g
  <2>2. Over(g, 0)
    BY <2>1 DEF TurnsOver
  <2> HIDE DEF Over
  <2> QED
    BY <2>2
<1>2. ASSUME NEW m \in 0 .. n - 1, m \in T PROVE m + 1 \in T
  <2>1. PICK g : Over(g, m)
    BY <1>2
  <2> DEFINE next == Turn(g[m], key, doc, tokens[m + 1], op)
             h == [k \in 0 .. m + 1 |-> IF k = m + 1 THEN next ELSE g[k]]
  <2>2. /\ m + 1 \in 0 .. n /\ (m + 1) - 1 = m /\ 0 # m + 1 /\ 0 \in 0 .. m + 1
        /\ m + 1 \in 0 .. m + 1 /\ m \in 0 .. m + 1 /\ m # m + 1
        /\ \A k \in 1 .. m + 1 : k = m + 1 \/ k \in 1 .. m
        /\ \A k \in 1 .. m : /\ k \in 0 .. m + 1 /\ k - 1 \in 0 .. m + 1
                             /\ k # m + 1 /\ k - 1 # m + 1
    OBVIOUS
  <2> HIDE DEF next
  <2>3. h[m + 1] = next /\ \A k \in 0 .. m + 1 : k # m + 1 => h[k] = g[k]
    BY <2>2
  <2>4. h = [k \in 0 .. m + 1 |-> h[k]]
    OBVIOUS
  <2> HIDE DEF h
  <2>5. h[0] = lists
    BY <2>1, <2>2, <2>3 DEF TurnsOver
  <2>6. ASSUME NEW k \in 1 .. m + 1
        PROVE  h[k] = Turn(h[k - 1], key, doc, tokens[k], op)
    <3>1. CASE k = m + 1
      BY <2>2, <2>3, <3>1 DEF next
    <3>2. CASE k \in 1 .. m
      <4>1. g[k] = Turn(g[k - 1], key, doc, tokens[k], op)
        BY <2>1, <3>2 DEF TurnsOver
      <4> QED
        BY <2>2, <2>3, <3>2, <4>1
    <3> QED
      BY <2>2, <3>1, <3>2
  <2>7. Over(h, m + 1)
    BY <2>4, <2>5, <2>6 DEF TurnsOver
  <2> HIDE DEF Over
  <2> QED
    BY <2>2, <2>7
<1>3. \A k \in 0 .. n - 1 : k \in T => k + 1 \in T
  BY <1>2
<1>4. n \in 0 .. n
  OBVIOUS
<1>5. n \in T
  <2> HIDE DEF T
  <2> QED
    BY <1>1, <1>3, <1>4, Induction
<1> QED
  BY <1>5

TurnsTo(result, n, lists, key, doc, tokens, op) ==
    \E g : TurnsOver(g, n, lists, key, doc, tokens, op) /\ result = g[n]

LEMMA TokensTurn ==
  ASSUME NEW lists, NEW key, NEW doc, NEW tokens, Len(tokens) \in Nat
  PROVE  /\ TurnsTo(AddTokens(lists, key, doc, tokens), Len(tokens), lists, key, doc, tokens, "add")
         /\ TurnsTo(DropTokens(lists, key, tokens), Len(tokens), lists, key, doc, tokens, "drop")
<1> DEFINE n == Len(tokens)
           Adding(f) == [i \in 0 .. n |-> IF i = 0 THEN lists ELSE AddToken(f[i - 1], key, doc, tokens[i])]
           Dropping(f) == [i \in 0 .. n |-> IF i = 0 THEN lists ELSE DropToken(f[i - 1], key, tokens[i])]
           added == CHOOSE f : f = Adding(f)
           dropped == CHOOSE f : f = Dropping(f)
<1>1. AddTokens(lists, key, doc, tokens) = added[n] /\ DropTokens(lists, key, tokens) = dropped[n]
  BY DEF AddTokens, DropTokens
<1>2. n \in Nat
  OBVIOUS
<1> HIDE DEF n
<1>3. \A k \in 0 .. n : k = 0 \/ k \in 1 .. n
  BY <1>2
<1>4. \A k \in 1 .. n : k \in 0 .. n /\ k # 0
  BY <1>2
<1>5. 0 \in 0 .. n
  BY <1>2
<1>6. added = Adding(added)
  <2>1. PICK g : TurnsOver(g, n, lists, key, doc, tokens, "add")
    BY <1>2, TurnsExist
  <2>2. /\ g = [k \in 0 .. n |-> g[k]] /\ g[0] = lists
        /\ \A k \in 1 .. n : g[k] = AddToken(g[k - 1], key, doc, tokens[k])
    BY <2>1 DEF TurnsOver, Turn
  <2>3. g = Adding(g)
    BY <1>3, <1>4, <2>2
  <2> HIDE DEF Adding
  <2> QED
    BY <2>3
<1>7. dropped = Dropping(dropped)
  <2>1. PICK g : TurnsOver(g, n, lists, key, doc, tokens, "drop")
    BY <1>2, TurnsExist
  <2>2. /\ g = [k \in 0 .. n |-> g[k]] /\ g[0] = lists
        /\ \A k \in 1 .. n : g[k] = DropToken(g[k - 1], key, tokens[k])
    BY <2>1 DEF TurnsOver, Turn
  <2>3. g = Dropping(g)
    BY <1>3, <1>4, <2>2
  <2> HIDE DEF Dropping
  <2> QED
    BY <2>3
<1> HIDE DEF added, dropped
<1>8. TurnsOver(added, n, lists, key, doc, tokens, "add")
  <2>1. \A k \in 0 .. n : added[k] = Adding(added)[k]
    BY <1>6
  <2>2. added = [k \in 0 .. n |-> added[k]]
    BY <1>6
  <2>3. added[0] = lists /\ \A k \in 1 .. n : added[k] = AddToken(added[k - 1], key, doc, tokens[k])
    BY <1>4, <1>5, <2>1
  <2> QED
    BY <2>2, <2>3 DEF TurnsOver, Turn
<1>9. TurnsOver(dropped, n, lists, key, doc, tokens, "drop")
  <2>1. \A k \in 0 .. n : dropped[k] = Dropping(dropped)[k]
    BY <1>7
  <2>2. dropped = [k \in 0 .. n |-> dropped[k]]
    BY <1>7
  <2>3. dropped[0] = lists /\ \A k \in 1 .. n : dropped[k] = DropToken(dropped[k - 1], key, tokens[k])
    BY <1>4, <1>5, <2>1
  <2> QED
    BY <2>2, <2>3 DEF TurnsOver, Turn
<1> QED
  BY <1>1, <1>8, <1>9 DEF n, TurnsTo

\* The counts of one document among those of all.
Recounted(count, key, c) == [t \in Terms |-> [count[t] EXCEPT ![key] = c[t]]]

RecountedOn(count, key, c, term, v) ==
    /\ Recounted(count, key, c) \in [Terms -> Counts]
    /\ Recounted(count, key, c)[term][key] = c[term]
    /\ [Recounted(count, key, c) EXCEPT ![term] = [Recounted(count, key, c)[term] EXCEPT ![key] = v]]
         = Recounted(count, key, [c EXCEPT ![term] = v])

LEMMA RecountedStep ==
  ASSUME NEW count \in [Terms -> Counts], NEW key \in DocKeys, NEW c \in [Terms -> Nat],
         NEW term \in Terms, NEW v \in Nat
  PROVE  RecountedOn(count, key, c, term, v)
<1>1. \A t \in Terms : count[t] \in Counts /\ [count[t] EXCEPT ![key] = c[t]] \in Counts
                       /\ [count[t] EXCEPT ![key] = c[t]][key] = c[t]
  BY DEF Counts
<1>2. [[count[term] EXCEPT ![key] = c[term]] EXCEPT ![key] = v] = [count[term] EXCEPT ![key] = v]
  BY DEF Counts
<1> QED
  BY <1>1, <1>2 DEF Recounted, RecountedOn

LEMMA AddTurnTells ==
  ASSUME NEW lists, NEW ids, NEW count \in [Terms -> Counts], NEW key \in DocKeys,
         key \in DOMAIN ids, ids[key] \in Int, NEW term \in Terms,
         NEW c \in [Terms -> Nat], Tell(lists, ids, Recounted(count, key, c))
  PROVE  Tell(AddToken(lists, key, ids[key], term), ids,
              Recounted(count, key, [c EXCEPT ![term] = c[term] + 1]))
<1> DEFINE d == Recounted(count, key, c)
           m == c[term] + 1
<1>1. m \in Nat
  OBVIOUS
<1> HIDE DEF m
<1>2. d \in [Terms -> Counts] /\ d[term][key] = c[term]
      /\ [d EXCEPT ![term] = [d[term] EXCEPT ![key] = m]] = Recounted(count, key, [c EXCEPT ![term] = m])
  <2>1. RecountedOn(count, key, c, term, m)
    BY <1>1, RecountedStep
  <2> QED
    BY <2>1 DEF RecountedOn
<1> HIDE DEF d
<1>3. Tell(AddToken(lists, key, ids[key], term), ids,
           [d EXCEPT ![term] = [d[term] EXCEPT ![key] = d[term][key] + 1]])
  BY <1>2, AddTokenTells DEF d
<1> QED
  BY <1>2, <1>3 DEF m

LEMMA DropTurnTells ==
  ASSUME NEW lists, NEW ids, NEW count \in [Terms -> Counts], NEW key \in DocKeys,
         NEW term \in Terms,
         NEW c \in [Terms -> Nat], Tell(lists, ids, Recounted(count, key, c))
  PROVE  Tell(DropToken(lists, key, term), ids, Recounted(count, key, [c EXCEPT ![term] = 0]))
<1> DEFINE d == Recounted(count, key, c)
           m == 0
<1>1. m \in Nat /\ m = 0
  OBVIOUS
<1> HIDE DEF m
<1>2. d \in [Terms -> Counts]
      /\ [d EXCEPT ![term] = [d[term] EXCEPT ![key] = m]] = Recounted(count, key, [c EXCEPT ![term] = m])
  <2>1. RecountedOn(count, key, c, term, m)
    BY <1>1, RecountedStep
  <2> QED
    BY <2>1 DEF RecountedOn
<1> HIDE DEF d
<1>3. Tell(DropToken(lists, key, term), ids, [d EXCEPT ![term] = [d[term] EXCEPT ![key] = 0]])
  BY <1>2, DropTokenTells DEF d
<1> QED
  BY <1>1, <1>2, <1>3

\* How often t is among the first m tokens.
Among(tokens, m, t) == Cardinality({i \in 1 .. m : tokens[i] = t})

AmongNext(tokens, m, t) ==
    Among(tokens, m + 1, t) = IF tokens[m + 1] = t THEN Among(tokens, m, t) + 1
                              ELSE Among(tokens, m, t)

LEMMA AmongFacts ==
  ASSUME NEW tokens, NEW m \in Nat, NEW t
  PROVE  /\ Among(tokens, m, t) \in Nat
         /\ Among(tokens, 0, t) = 0
         /\ AmongNext(tokens, m, t)
<1> DEFINE S(n) == {i \in 1 .. n : tokens[i] = t}
<1>1. IsFiniteSet(S(m))
  <2>1. IsFiniteSet(1 .. m)
    BY FS_Interval
  <2> QED
    BY <2>1, FS_Subset
<1>2. S(0) = {} /\ Cardinality({}) = 0
  <2>1. 1 .. 0 = {}
    OBVIOUS
  <2> QED
    BY <2>1, FS_EmptySet
<1>3. Cardinality(S(m)) \in Nat
  BY <1>1, FS_CardinalityType
<1>4. 1 .. m + 1 = 1 .. m \cup {m + 1} /\ m + 1 \notin 1 .. m
  OBVIOUS
<1>5. CASE tokens[m + 1] = t
  <2>1. S(m + 1) = S(m) \cup {m + 1} /\ m + 1 \notin S(m)
    BY <1>4, <1>5
  <2> HIDE DEF S
  <2>2. Cardinality(S(m + 1)) = Cardinality(S(m)) + 1
    BY <1>1, <2>1, FS_AddElement
  <2> QED
    BY <1>2, <1>3, <1>5, <2>2 DEF Among, AmongNext, S
<1>6. CASE tokens[m + 1] # t
  <2>1. S(m + 1) = S(m)
    BY <1>4, <1>6
  <2> HIDE DEF S
  <2> QED
    BY <1>2, <1>3, <1>6, <2>1 DEF Among, AmongNext, S
<1> QED
  BY <1>5, <1>6

LEMMA OccurrencesFacts ==
  ASSUME NEW tokens \in Texts
  PROVE  /\ tokens \in Seq(ToSet(tokens)) /\ Len(tokens) \in Nat /\ ToSet(tokens) \subseteq Terms
         /\ \A i \in 1 .. Len(tokens) : tokens[i] \in Terms /\ tokens[i] \in ToSet(tokens)
         /\ \A t : /\ Occurrences(tokens, t) = Among(tokens, Len(tokens), t)
                   /\ Occurrences(tokens, t) \in Nat
                   /\ Occurrences(tokens, t) # 0 <=> t \in ToSet(tokens)
<1>1. tokens \in Seq(ToSet(tokens)) /\ Len(tokens) \in Nat /\ DOMAIN tokens = 1 .. Len(tokens)
  BY DocumentsAssumption
<1>2. ToSet(tokens) \subseteq Terms
  BY DEF Terms
<1>3. \A i \in 1 .. Len(tokens) : tokens[i] \in ToSet(tokens)
  BY <1>1 DEF ToSet
<1>4. ASSUME NEW t
      PROVE  /\ Occurrences(tokens, t) = Among(tokens, Len(tokens), t)
             /\ Occurrences(tokens, t) \in Nat
             /\ Occurrences(tokens, t) # 0 <=> t \in ToSet(tokens)
  <2> DEFINE I == {i \in 1 .. Len(tokens) : tokens[i] = t}
  <2>1. Occurrences(tokens, t) = Cardinality(I) /\ Among(tokens, Len(tokens), t) = Cardinality(I)
    BY <1>1 DEF Occurrences, Among
  <2>2. IsFiniteSet(I)
    <3>1. IsFiniteSet(1 .. Len(tokens))
      BY <1>1, FS_Interval
    <3> QED
      BY <3>1, FS_Subset
  <2>3. I # {} <=> t \in ToSet(tokens)
    BY <1>1 DEF ToSet
  <2> HIDE DEF I
  <2> QED
    BY <2>1, <2>2, <2>3, FS_EmptySet, FS_CardinalityType
<1> QED
  BY <1>1, <1>2, <1>3, <1>4

\* The loop in index counts every token of the document.
LEMMA AddTokensTell ==
  ASSUME NEW lists, NEW ids, NEW count \in [Terms -> Counts], Tell(lists, ids, count),
         NEW key \in DocKeys, key \in DOMAIN ids, ids[key] \in Int, NEW tokens \in Texts,
         \A t \in Terms : count[t][key] = 0
  PROVE  Tell(AddTokens(lists, key, ids[key], tokens), ids,
              Recounted(count, key, [t \in Terms |-> Occurrences(tokens, t)]))
<1> DEFINE n == Len(tokens)
           c(m) == [t \in Terms |-> Among(tokens, m, t)]
<1>1. n \in Nat /\ \A i \in 1 .. n : tokens[i] \in Terms
  BY OccurrencesFacts
<1>2. PICK g : TurnsOver(g, n, lists, key, ids[key], tokens, "add")
               /\ AddTokens(lists, key, ids[key], tokens) = g[n]
  <2>1. TurnsTo(AddTokens(lists, key, ids[key], tokens), n, lists, key, ids[key], tokens, "add")
    BY <1>1, TokensTurn
  <2> QED
    BY <2>1 DEF TurnsTo
<1>3. g[0] = lists /\ \A k \in 1 .. n : g[k] = AddToken(g[k - 1], key, ids[key], tokens[k])
  BY <1>2 DEF TurnsOver, Turn
<1>4. \A m \in Nat : c(m) \in [Terms -> Nat]
  BY AmongFacts
<1> DEFINE U == {m \in 0 .. n : Tell(g[m], ids, Recounted(count, key, c(m)))}
<1>5. 0 \in U
  <2>1. c(0) = [t \in Terms |-> 0]
    <3>1. \A t : Among(tokens, 0, t) = 0
      BY <1>1, AmongFacts
    <3> QED
      BY <3>1
  <2>2. Recounted(count, key, c(0)) = count
    BY <2>1 DEF Recounted, Counts
  <2> HIDE DEF c
  <2> QED
    BY <1>1, <1>3, <2>2
<1>6. ASSUME NEW m \in 0 .. n - 1, m \in U PROVE m + 1 \in U
  <2> DEFINE term == tokens[m + 1]
  <2>1. m \in Nat /\ m + 1 \in 1 .. n /\ m + 1 \in 0 .. n /\ (m + 1) - 1 = m /\ term \in Terms
    BY <1>1
  <2>2. g[m + 1] = AddToken(g[m], key, ids[key], term)
    BY <1>3, <2>1
  <2>3. c(m + 1) = [c(m) EXCEPT ![term] = c(m)[term] + 1]
    <3>1. \A t \in Terms : Among(tokens, m + 1, t) = IF term = t THEN Among(tokens, m, t) + 1
                                                     ELSE Among(tokens, m, t)
      <4>1. \A t \in Terms : AmongNext(tokens, m, t)
        BY <2>1, AmongFacts
      <4> QED
        BY <4>1 DEF AmongNext
    <3> HIDE DEF term
    <3> QED
      BY <2>1, <3>1
  <2>4. Tell(g[m], ids, Recounted(count, key, c(m)))
    BY <1>6
  <2>5. c(m) \in [Terms -> Nat]
    BY <1>4, <2>1
  <2> DEFINE now == c(m)
  <2> HIDE DEF term, c, now
  <2>6. Tell(g[m + 1], ids, Recounted(count, key, c(m + 1)))
    <3>1. now \in [Terms -> Nat] /\ Tell(g[m], ids, Recounted(count, key, now))
      BY <2>4, <2>5 DEF now
    <3>2. Tell(AddToken(g[m], key, ids[key], term), ids,
               Recounted(count, key, [now EXCEPT ![term] = now[term] + 1]))
      BY <2>1, <3>1, AddTurnTells
    <3> QED
      BY <2>2, <2>3, <3>2 DEF now
  <2> QED
    BY <2>1, <2>6
<1>7. n \in U
  <2> HIDE DEF U
  <2>1. \A k \in 0 .. n - 1 : k \in U => k + 1 \in U
    BY <1>6
  <2>2. n \in 0 .. n
    BY <1>1
  <2> QED
    BY <1>1, <1>5, <2>1, <2>2, Induction
<1>8. c(n) = [t \in Terms |-> Occurrences(tokens, t)]
  BY OccurrencesFacts
<1> HIDE DEF c
<1> QED
  BY <1>2, <1>7, <1>8

\* The loop in removePostings leaves the document no token.
LEMMA DropTokensTell ==
  ASSUME NEW lists, NEW ids, NEW count \in [Terms -> Counts], Tell(lists, ids, count),
         NEW key \in DocKeys, NEW tokens \in Texts,
         \A t \in Terms : t \notin ToSet(tokens) => count[t][key] = 0
  PROVE  Tell(DropTokens(lists, key, tokens), ids, Recounted(count, key, [t \in Terms |-> 0]))
<1> DEFINE n == Len(tokens)
           c(m) == [t \in Terms |-> IF \E i \in 1 .. m : tokens[i] = t THEN 0 ELSE count[t][key]]
<1>1. n \in Nat /\ \A i \in 1 .. n : tokens[i] \in Terms
  BY OccurrencesFacts
<1>2. PICK g : TurnsOver(g, n, lists, key, 0, tokens, "drop")
               /\ DropTokens(lists, key, tokens) = g[n]
  <2>1. TurnsTo(DropTokens(lists, key, tokens), n, lists, key, 0, tokens, "drop")
    BY <1>1, TokensTurn
  <2> QED
    BY <2>1 DEF TurnsTo
<1>3. g[0] = lists /\ \A k \in 1 .. n : g[k] = DropToken(g[k - 1], key, tokens[k])
  BY <1>2 DEF TurnsOver, Turn
<1>4. \A m \in Nat : c(m) \in [Terms -> Nat]
  BY DEF Counts
<1> DEFINE U == {m \in 0 .. n : Tell(g[m], ids, Recounted(count, key, c(m)))}
<1>5. 0 \in U
  <2>1. 1 .. 0 = {}
    OBVIOUS
  <2>2. \A t \in Terms : c(0)[t] = count[t][key]
    BY <2>1
  <2> HIDE DEF c
  <2>3. Recounted(count, key, c(0)) = count
    BY <2>2 DEF Recounted, Counts
  <2> QED
    BY <1>1, <1>3, <2>3
<1>6. ASSUME NEW m \in 0 .. n - 1, m \in U PROVE m + 1 \in U
  <2> DEFINE term == tokens[m + 1]
  <2>1. m \in Nat /\ m + 1 \in 1 .. n /\ m + 1 \in 0 .. n /\ (m + 1) - 1 = m /\ term \in Terms
    BY <1>1
  <2>2. g[m + 1] = DropToken(g[m], key, term)
    BY <1>3, <2>1
  <2>3. c(m + 1) = [c(m) EXCEPT ![term] = 0]
    <3>1. \A t \in Terms : (\E i \in 1 .. m + 1 : tokens[i] = t)
                             <=> term = t \/ \E i \in 1 .. m : tokens[i] = t
      <4>1. 1 .. m + 1 = 1 .. m \cup {m + 1}
        BY <2>1
      <4> QED
        BY <4>1
    <3> HIDE DEF term
    <3> QED
      BY <2>1, <3>1
  <2>4. Tell(g[m], ids, Recounted(count, key, c(m)))
    BY <1>6
  <2>5. c(m) \in [Terms -> Nat]
    BY <1>4, <2>1
  <2> DEFINE now == c(m)
  <2> HIDE DEF term, c, now
  <2>6. Tell(g[m + 1], ids, Recounted(count, key, c(m + 1)))
    <3>1. now \in [Terms -> Nat] /\ Tell(g[m], ids, Recounted(count, key, now))
      BY <2>4, <2>5 DEF now
    <3>2. Tell(DropToken(g[m], key, term), ids, Recounted(count, key, [now EXCEPT ![term] = 0]))
      BY <2>1, <3>1, DropTurnTells
    <3> QED
      BY <2>2, <2>3, <3>2 DEF now
  <2> QED
    BY <2>1, <2>6
<1>7. n \in U
  <2> HIDE DEF U
  <2>1. \A k \in 0 .. n - 1 : k \in U => k + 1 \in U
    BY <1>6
  <2>2. n \in 0 .. n
    BY <1>1
  <2> QED
    BY <1>1, <1>5, <2>1, <2>2, Induction
<1>8. c(n) = [t \in Terms |-> 0]
  <2>1. tokens \in Seq(ToSet(tokens))
    BY OccurrencesFacts
  <2>2. \A t \in Terms : (\E i \in 1 .. n : tokens[i] = t) <=> t \in ToSet(tokens)
    BY <2>1, ElementsOf
  <2> QED
    BY <2>2
<1> HIDE DEF c
<1> QED
  BY <1>2, <1>7, <1>8

-----------------------------------------------------------------------------
(* Compaction.                                                             *)

Freshened(p, numbers) == [key |-> p.key, doc |-> numbers[p.key], tf |-> p.tf]

SweptRow(chunk, numbers) ==
    LET live == Kept(chunk, Living(chunk))
    IN [i \in DOMAIN live |-> [live[i] EXCEPT !.doc = numbers[live[i].key]]]

\* The living postings of a chunk, in their order.
RowAs(row, chunk, numbers, g) ==
    /\ g \in [1 .. Len(row) -> 1 .. Len(chunk)]
    /\ \A i, j \in 1 .. Len(row) : i < j => g[i] < g[j]
    /\ \A k \in 1 .. Len(chunk) : chunk[k].tf # 0 => \E i \in 1 .. Len(row) : g[i] = k
    /\ \A i \in 1 .. Len(row) : /\ chunk[g[i]].tf # 0
                                /\ row[i] = Freshened(chunk[g[i]], numbers)

LEMMA RowFacts ==
  ASSUME NEW chunk \in Seq(Posting), NEW numbers,
         \A i \in 1 .. Len(chunk) : chunk[i].tf # 0 => numbers[chunk[i].key] \in Int
  PROVE  /\ SweptRow(chunk, numbers) \in Seq(Posting)
         /\ Len(SweptRow(chunk, numbers)) \in Nat
         /\ Len(SweptRow(chunk, numbers)) <= Len(chunk)
         /\ Living(chunk) # {} => Len(SweptRow(chunk, numbers)) # 0
         /\ \E g : RowAs(SweptRow(chunk, numbers), chunk, numbers, g)
<1> DEFINE I == Living(chunk)
           n == Cardinality(I)
           live == Kept(chunk, I)
           row == SweptRow(chunk, numbers)
<1>1. /\ DOMAIN chunk = 1 .. Len(chunk) /\ Len(chunk) \in Nat
      /\ \A i \in 1 .. Len(chunk) : chunk[i] \in Posting
  OBVIOUS
<1>2. I \in SUBSET (1 .. Len(chunk)) /\ \A i \in 1 .. Len(chunk) : i \in I <=> chunk[i].tf # 0
  BY <1>1 DEF Living
<1>3. row = [i \in DOMAIN live |-> [live[i] EXCEPT !.doc = numbers[live[i].key]]]
  BY DEF SweptRow
<1> HIDE DEF I, row
<1>4. live \in Seq(Posting) /\ Len(live) = n /\ IsFiniteSet(I) /\ n \in Nat
  BY <1>2, KeptFacts
<1>5. PICK f : KeptAs(chunk, I, f)
  BY <1>2, KeptFacts
<1>6. /\ f \in [1 .. n -> I] /\ \A m, k \in 1 .. n : m < k => f[m] < f[k]
      /\ \A i \in I : \E m \in 1 .. n : f[m] = i
      /\ \A m \in 1 .. n : live[m] = chunk[f[m]]
  BY <1>5 DEF KeptAs
<1>7. n <= Len(chunk) /\ (I # {} => n # 0)
  <2>1. IsFiniteSet(1 .. Len(chunk)) /\ Cardinality(1 .. Len(chunk)) = Len(chunk)
    <3> DEFINE a == 1
               b == Len(chunk)
    <3>1. a \in Int /\ b \in Int /\ a = 1 /\ b \in Nat
      BY <1>1
    <3> HIDE DEF a, b
    <3>2. IsFiniteSet(a .. b) /\ Cardinality(a .. b) = IF a > b THEN 0 ELSE b - a + 1
      BY <3>1, FS_Interval
    <3>3. Cardinality(a .. b) = b
      BY <3>1, <3>2
    <3> QED
      BY <3>1, <3>2, <3>3 DEF b
  <2>2. n <= Len(chunk)
    BY <1>2, <2>1, FS_Subset
  <2> QED
    BY <1>4, <2>2, FS_EmptySet
<1> HIDE DEF live, n
<1>8. DOMAIN live = 1 .. n
  BY <1>4
<1>9. ASSUME NEW i \in 1 .. n
      PROVE  /\ row[i] = Freshened(chunk[f[i]], numbers) /\ row[i] \in Posting
             /\ chunk[f[i]].tf # 0 /\ f[i] \in 1 .. Len(chunk)
  <2>1. f[i] \in I /\ f[i] \in 1 .. Len(chunk) /\ live[i] = chunk[f[i]]
    BY <1>2, <1>6
  <2>2. chunk[f[i]].tf # 0 /\ numbers[chunk[f[i]].key] \in Int /\ chunk[f[i]] \in Posting
    BY <1>1, <1>2, <2>1
  <2>3. row[i] = [chunk[f[i]] EXCEPT !.doc = numbers[chunk[f[i]].key]]
    BY <1>3, <1>8, <2>1
  <2> DEFINE p == chunk[f[i]]
  <2> HIDE DEF p
  <2>4. [p EXCEPT !.doc = numbers[p.key]] = Freshened(p, numbers) /\ Freshened(p, numbers) \in Posting
    BY <2>2 DEF Posting, Freshened, p
  <2> QED
    BY <2>1, <2>2, <2>3, <2>4 DEF p
<1>10. row \in [1 .. n -> Posting]
  BY <1>3, <1>8, <1>9
<1>11. row \in Seq(Posting) /\ Len(row) = n
  BY <1>4, <1>10, SeqDef
<1>12. RowAs(row, chunk, numbers, f)
  <2>1. f \in [1 .. n -> 1 .. Len(chunk)]
    BY <1>2, <1>6
  <2> QED
    BY <1>2, <1>6, <1>9, <1>11, <2>1 DEF RowAs
<1> QED
  BY <1>4, <1>7, <1>11, <1>12 DEF row, I

LEMMA SweptFacts ==
  ASSUME NEW chunks, Chunked(chunks), NEW numbers,
         \A p \in PostingsIn(chunks) : p.tf # 0 => numbers[p.key] \in Int
  PROVE  /\ Chunked(Swept(chunks, numbers))
         /\ \A q : q \in PostingsIn(Swept(chunks, numbers)) <=>
              \E p \in PostingsIn(chunks) : p.tf # 0 /\ q = Freshened(p, numbers)
<1> DEFINE I == {c \in DOMAIN chunks : Living(chunks[c]) # {}}
           n == Cardinality(I)
           left == Kept(chunks, I)
           new == Swept(chunks, numbers)
<1>1. /\ chunks \in Seq(Seq(Posting)) /\ Ordered(chunks)
      /\ \A c \in 1 .. Len(chunks) : Len(chunks[c]) \in 1 .. PostingChunk
  <2>1. chunks \in Seq(Seq(Posting)) /\ Ascending(chunks)
    BY DEF Chunked
  <2>2. DOMAIN chunks = 1 .. Len(chunks)
    BY <2>1, Places
  <2> QED
    BY <2>1, <2>2, OrderedMeans DEF Chunked
<1>2. /\ DOMAIN chunks = 1 .. Len(chunks)
      /\ \A c \in 1 .. Len(chunks) :
           /\ chunks[c] \in Seq(Posting) /\ DOMAIN chunks[c] = 1 .. Len(chunks[c])
           /\ Len(chunks[c]) \in Nat
      /\ \A p : p \in PostingsIn(chunks) <=>
           \E c \in 1 .. Len(chunks) : \E i \in 1 .. Len(chunks[c]) : chunks[c][i] = p
  BY <1>1, Places
<1>3. I \in SUBSET (1 .. Len(chunks)) /\ \A c \in 1 .. Len(chunks) : c \in I <=> Living(chunks[c]) # {}
  BY <1>2
<1>4. new = [c \in DOMAIN left |-> SweptRow(left[c], numbers)]
  BY DEF Swept, SweptRow
<1> HIDE DEF I, new
<1>5. left \in Seq(Seq(Posting)) /\ Len(left) = n /\ n \in Nat
  BY <1>1, <1>3, KeptFacts
<1>6. PICK f : KeptAs(chunks, I, f)
  BY <1>1, <1>3, KeptFacts
<1>7. /\ f \in [1 .. n -> I] /\ \A m, k \in 1 .. n : m < k => f[m] < f[k]
      /\ \A i \in I : \E m \in 1 .. n : f[m] = i
      /\ \A m \in 1 .. n : left[m] = chunks[f[m]]
  BY <1>6 DEF KeptAs
<1> HIDE DEF left, n
<1>8. DOMAIN left = 1 .. n
  BY <1>5
<1>9. \A c \in 1 .. n : /\ f[c] \in 1 .. Len(chunks) /\ Living(chunks[f[c]]) # {}
                        /\ new[c] = SweptRow(chunks[f[c]], numbers)
  BY <1>3, <1>4, <1>7, <1>8
<1>10. \A c \in 1 .. Len(chunks) : \A i \in 1 .. Len(chunks[c]) :
         chunks[c][i].tf # 0 => numbers[chunks[c][i].key] \in Int
  BY <1>2
<1>11. ASSUME NEW c \in 1 .. n
       PROVE  /\ new[c] \in Seq(Posting) /\ Len(new[c]) \in 1 .. PostingChunk
              /\ \E g : RowAs(new[c], chunks[f[c]], numbers, g)
  <2> DEFINE chunk == chunks[f[c]]
  <2>1. chunk \in Seq(Posting) /\ Living(chunk) # {} /\ new[c] = SweptRow(chunk, numbers)
        /\ Len(chunk) \in 1 .. PostingChunk
    BY <1>1, <1>2, <1>9
  <2>2. \A i \in 1 .. Len(chunk) : chunk[i].tf # 0 => numbers[chunk[i].key] \in Int
    BY <1>9, <1>10
  <2> HIDE DEF chunk
  <2>3. /\ SweptRow(chunk, numbers) \in Seq(Posting)
        /\ Len(SweptRow(chunk, numbers)) \in Nat
        /\ Len(SweptRow(chunk, numbers)) <= Len(chunk)
        /\ Len(SweptRow(chunk, numbers)) # 0
        /\ \E g : RowAs(SweptRow(chunk, numbers), chunk, numbers, g)
    BY <2>1, <2>2, RowFacts
  <2>4. Len(new[c]) \in 1 .. PostingChunk
    <3>1. /\ Len(new[c]) \in Nat /\ Len(new[c]) <= Len(chunk) /\ Len(new[c]) # 0
          /\ Len(chunk) \in 1 .. PostingChunk
      BY <2>1, <2>3
    <3> QED
      BY <3>1, PostingChunkAssumption
  <2> QED
    BY <2>1, <2>3, <2>4 DEF chunk
<1>12. new \in [1 .. n -> Seq(Posting)]
  BY <1>4, <1>8, <1>11
<1>13. new \in Seq(Seq(Posting)) /\ Len(new) = n
  BY <1>5, <1>12, SeqDef
<1>14. ASSUME NEW c \in 1 .. n, NEW d \in 1 .. n,
              NEW i \in 1 .. Len(new[c]), NEW j \in 1 .. Len(new[d]),
              c < d \/ (c = d /\ i < j)
       PROVE  new[c][i].key < new[d][j].key
  <2>1. PICK g : RowAs(new[c], chunks[f[c]], numbers, g)
    BY <1>11
  <2>2. PICK h : RowAs(new[d], chunks[f[d]], numbers, h)
    BY <1>11
  <2>3. /\ new[c][i].key = chunks[f[c]][g[i]].key /\ g[i] \in 1 .. Len(chunks[f[c]])
        /\ new[d][j].key = chunks[f[d]][h[j]].key /\ h[j] \in 1 .. Len(chunks[f[d]])
    <3>1. /\ new[c][i] = Freshened(chunks[f[c]][g[i]], numbers) /\ g[i] \in 1 .. Len(chunks[f[c]])
          /\ new[d][j] = Freshened(chunks[f[d]][h[j]], numbers) /\ h[j] \in 1 .. Len(chunks[f[d]])
      BY <2>1, <2>2 DEF RowAs
    <3> QED
      BY <3>1 DEF Freshened
  <2>4. CASE c < d
    <3>1. f[c] < f[d] /\ f[c] \in 1 .. Len(chunks) /\ f[d] \in 1 .. Len(chunks)
      BY <1>7, <1>9, <2>4
    <3> QED
      BY <1>1, <2>3, <3>1 DEF Ordered
  <2>5. CASE c = d /\ i < j
    <3>1. new[d][j].key = chunks[f[c]][g[j]].key /\ g[j] \in 1 .. Len(chunks[f[c]]) /\ g[i] < g[j]
      <4>1. i \in 1 .. Len(new[c]) /\ j \in 1 .. Len(new[c]) /\ i < j
        BY <2>5
      <4>2. /\ new[c][j] = Freshened(chunks[f[c]][g[j]], numbers) /\ g[j] \in 1 .. Len(chunks[f[c]])
            /\ g[i] < g[j]
        BY <2>1, <4>1 DEF RowAs
      <4> QED
        BY <2>5, <4>2 DEF Freshened
    <3>2. f[c] \in 1 .. Len(chunks)
      BY <1>9
    <3> QED
      BY <1>1, <2>3, <3>1, <3>2 DEF Ordered
  <2> QED
    BY <1>14, <2>4, <2>5
<1>15. Chunked(new)
  <2>1. Ordered(new)
    BY <1>13, <1>14 DEF Ordered
  <2>2. Ascending(new)
    BY <1>13, <2>1, OrderedMeans
  <2>3. DOMAIN new = 1 .. n
    BY <1>12
  <2> QED
    BY <1>11, <1>13, <2>2, <2>3 DEF Chunked
<1>16. \A q : q \in PostingsIn(new) <=> \E c \in 1 .. n : \E i \in 1 .. Len(new[c]) : new[c][i] = q
  BY <1>13, Places
<1>17. ASSUME NEW q \in PostingsIn(new)
       PROVE  \E p \in PostingsIn(chunks) : p.tf # 0 /\ q = Freshened(p, numbers)
  <2>1. PICK c \in 1 .. n : \E i \in 1 .. Len(new[c]) : new[c][i] = q
    BY <1>16
  <2>2. PICK i \in 1 .. Len(new[c]) : new[c][i] = q
    BY <2>1
  <2>3. PICK g : RowAs(new[c], chunks[f[c]], numbers, g)
    BY <1>11
  <2>4. /\ g[i] \in 1 .. Len(chunks[f[c]]) /\ chunks[f[c]][g[i]].tf # 0
        /\ q = Freshened(chunks[f[c]][g[i]], numbers)
    BY <2>2, <2>3 DEF RowAs
  <2>5. chunks[f[c]][g[i]] \in PostingsIn(chunks)
    BY <1>2, <1>9, <2>4
  <2> QED
    BY <2>4, <2>5
<1>18. ASSUME NEW p \in PostingsIn(chunks), p.tf # 0
       PROVE  Freshened(p, numbers) \in PostingsIn(new)
  <2>1. PICK c \in 1 .. Len(chunks) : \E i \in 1 .. Len(chunks[c]) : chunks[c][i] = p
    BY <1>2
  <2>2. PICK i \in 1 .. Len(chunks[c]) : chunks[c][i] = p
    BY <2>1
  <2>3. i \in Living(chunks[c])
    BY <1>2, <1>18, <2>2 DEF Living
  <2>4. PICK m \in 1 .. n : f[m] = c
    BY <1>3, <1>7, <2>3
  <2>5. PICK g : RowAs(new[m], chunks[c], numbers, g)
    BY <1>11, <2>4
  <2>6. PICK k \in 1 .. Len(new[m]) : g[k] = i
    BY <1>18, <2>2, <2>5 DEF RowAs
  <2>7. new[m][k] = Freshened(p, numbers)
    BY <2>2, <2>5, <2>6 DEF RowAs
  <2> QED
    BY <1>16, <2>7
<1>19. \A q : q \in PostingsIn(new) <=>
         \E p \in PostingsIn(chunks) : p.tf # 0 /\ q = Freshened(p, numbers)
  BY <1>17, <1>18
<1> QED
  BY <1>15, <1>19 DEF new

\* A list whose tombstones are swept tells the same.
LEMMA SweepTells ==
  ASSUME NEW list, NEW ids, NEW n \in Counts, TellsOf(list, ids, n), NEW numbers,
         \A k \in Counted(n) : k \in DOMAIN numbers /\ numbers[k] \in Int
  PROVE  TellsOf([list EXCEPT !.chunks = Swept(list.chunks, numbers)], numbers, n)
<1> DEFINE chunks == list.chunks
           new == Swept(chunks, numbers)
<1>1. /\ IsFiniteSet(Counted(n)) /\ Chunked(chunks)
      /\ list = [chunks |-> list.chunks, live |-> Cardinality(Counted(n))]
      /\ \A p \in PostingsIn(chunks) : p.key \in DOMAIN ids /\ p.doc = ids[p.key] /\ p.tf = n[p.key]
      /\ Counted(n) \subseteq {p.key : p \in PostingsIn(chunks)}
  BY DEF TellsOf
<1>2. [list EXCEPT !.chunks = new] = [chunks |-> new, live |-> Cardinality(Counted(n))]
  <2> HIDE DEF new
  <2> QED
    BY <1>1
<1> HIDE DEF chunks
<1>3. \A p \in PostingsIn(chunks) : p \in Posting /\ p.key \in DocKeys
  BY <1>1, Places DEF Chunked, Posting
<1>4. \A p \in PostingsIn(chunks) : p.tf # 0 => p.key \in Counted(n)
  BY <1>1, <1>3 DEF Counted
<1>5. /\ Chunked(new)
      /\ \A q : q \in PostingsIn(new) <=> \E p \in PostingsIn(chunks) : p.tf # 0 /\ q = Freshened(p, numbers)
  BY <1>1, <1>4, SweptFacts
<1> HIDE DEF new
<1>6. ASSUME NEW q \in PostingsIn(new)
      PROVE  q.key \in DOMAIN numbers /\ q.doc = numbers[q.key] /\ q.tf = n[q.key]
  <2>1. PICK p \in PostingsIn(chunks) : p.tf # 0 /\ q = Freshened(p, numbers)
    BY <1>5
  <2>2. q.key = p.key /\ q.doc = numbers[p.key] /\ q.tf = p.tf
    BY <2>1 DEF Freshened
  <2> QED
    BY <1>1, <1>4, <2>1, <2>2
<1>7. ASSUME NEW k \in Counted(n) PROVE \E q \in PostingsIn(new) : q.key = k
  <2>1. PICK p \in PostingsIn(chunks) : p.key = k
    BY <1>1
  <2>2. p.tf # 0
    BY <1>1, <2>1 DEF Counted
  <2>3. Freshened(p, numbers) \in PostingsIn(new) /\ Freshened(p, numbers).key = k
    BY <1>5, <2>1, <2>2 DEF Freshened
  <2> QED
    BY <2>3
<1>8. Counted(n) \subseteq {q.key : q \in PostingsIn(new)}
  BY <1>7
<1>9. TellsOf([chunks |-> new, live |-> Cardinality(Counted(n))], numbers, n)
  BY <1>1, <1>5, <1>6, <1>8 DEF TellsOf
<1> QED
  BY <1>2, <1>9 DEF new, chunks

LEMMA SweepsTell ==
  ASSUME NEW lists, NEW ids, NEW count \in [Terms -> Counts], Tell(lists, ids, count), NEW numbers,
         \A t \in Terms : \A k \in Counted(count[t]) : k \in DOMAIN numbers /\ numbers[k] \in Int,
         NEW kept, kept = {t \in DOMAIN lists : lists[t].live # 0}
  PROVE  Tell([t \in kept |-> [lists[t] EXCEPT !.chunks = Swept(lists[t].chunks, numbers)]],
              numbers, count)
<1> DEFINE new == [t \in kept |-> [lists[t] EXCEPT !.chunks = Swept(lists[t].chunks, numbers)]]
<1>1. DOMAIN lists \subseteq Terms /\ \A t \in Terms : TellsOf(ListOf(lists, t), ids, count[t])
  BY DEF Tell
<1>2. DOMAIN new \subseteq Terms
  BY <1>1
<1>3. ASSUME NEW t \in Terms PROVE TellsOf(ListOf(new, t), numbers, count[t])
  <2>1. count[t] \in Counts /\ TellsOf(ListOf(lists, t), ids, count[t])
        /\ \A k \in Counted(count[t]) : k \in DOMAIN numbers /\ numbers[k] \in Int
    BY <1>1
  <2>2. CASE t \in kept
    <3>1. ListOf(new, t) = [lists[t] EXCEPT !.chunks = Swept(lists[t].chunks, numbers)]
          /\ ListOf(lists, t) = lists[t]
      BY <2>2 DEF ListOf
    <3> HIDE DEF new
    <3> QED
      BY <2>1, <3>1, SweepTells
  <2>3. CASE t \notin kept
    <3>1. ListOf(new, t) = NewList
      BY <2>3 DEF ListOf
    <3> HIDE DEF new
    <3>2. ListOf(lists, t).live = 0
      BY <2>3 DEF ListOf, NewList
    <3>3. IsFiniteSet(Counted(count[t])) /\ ListOf(lists, t).live = Cardinality(Counted(count[t]))
      BY <2>1 DEF TellsOf
    <3>4. Counted(count[t]) = {}
      BY <3>2, <3>3, FS_EmptySet
    <3>5. \A k \in DocKeys : count[t][k] = 0
      BY <3>4 DEF Counted
    <3> QED
      BY <2>1, <3>1, <3>5, NewListTells
  <2> QED
    BY <2>2, <2>3
<1> HIDE DEF new
<1>4. Tell(new, numbers, count)
  BY <1>2, <1>3 DEF Tell
<1> QED
  BY <1>4 DEF new

\* Lists tell the same under numbers that agree where they count.
LEMMA TellOn ==
  ASSUME NEW lists, NEW ids, NEW count, Tell(lists, ids, count), NEW numbers,
         \A k \in DOMAIN ids : k \in DOMAIN numbers /\ numbers[k] = ids[k]
  PROVE  Tell(lists, numbers, count)
<1>1. ASSUME NEW t \in Terms PROVE TellsOf(ListOf(lists, t), numbers, count[t])
  <2>1. TellsOf(ListOf(lists, t), ids, count[t])
    BY DEF Tell
  <2> QED
    BY <2>1 DEF TellsOf
<1> QED
  BY <1>1 DEF Tell

-----------------------------------------------------------------------------
(* The numbers.                                                            *)

LEMMA NumberedFacts ==
  ASSUME NEW keys, NEW ids, Numbered(keys, ids)
  PROVE  /\ keys \in Seq(DocKeys) /\ Len(keys) \in Nat /\ DOMAIN keys = 1 .. Len(keys)
         /\ \A i \in 1 .. Len(keys) : ids[keys[i]] = i /\ keys[i] \in DOMAIN ids
         /\ \A i, j \in 1 .. Len(keys) : keys[i] = keys[j] => i = j
         /\ \A k \in DOMAIN ids : /\ \E i \in 1 .. Len(keys) : keys[i] = k
                                  /\ ids[k] \in Int /\ ids[k] \in 1 .. Len(keys) /\ keys[ids[k]] = k
<1>1. keys \in Seq(DocKeys) /\ DOMAIN keys = 1 .. Len(keys) /\ Len(keys) \in Nat
  BY DEF Numbered
<1>2. \A i \in 1 .. Len(keys) : ids[keys[i]] = i
  BY <1>1 DEF Numbered
<1>3. \A k \in DOMAIN ids : \E i \in 1 .. Len(keys) : keys[i] = k
  BY <1>1, ElementsOf DEF Numbered
<1>4. \A i \in 1 .. Len(keys) : keys[i] \in DOMAIN ids
  BY <1>1, ElementsOf DEF Numbered
<1>5. ASSUME NEW k \in DOMAIN ids
      PROVE  ids[k] \in Int /\ ids[k] \in 1 .. Len(keys) /\ keys[ids[k]] = k
  <2>1. PICK i \in 1 .. Len(keys) : keys[i] = k
    BY <1>3
  <2> QED
    BY <1>2, <2>1
<1>6. ASSUME NEW i \in 1 .. Len(keys), NEW j \in 1 .. Len(keys), keys[i] = keys[j] PROVE i = j
  <2>1. ids[keys[i]] = i /\ ids[keys[j]] = j
    BY <1>2
  <2> QED
    BY <1>6, <2>1
<1> QED
  BY <1>1, <1>2, <1>3, <1>4, <1>5, <1>6

\* A key that has no number yet gets the next.
NumberedBy(keys, ids, key, doc) ==
    /\ Numbered(IF key \in DOMAIN ids THEN keys ELSE Append(keys, key), Entered(ids, key, doc))
    /\ doc \in Int
    /\ key \in DOMAIN Entered(ids, key, doc) /\ Entered(ids, key, doc)[key] = doc
    /\ DOMAIN Entered(ids, key, doc) = DOMAIN ids \cup {key}
    /\ \A k \in DOMAIN ids : Entered(ids, key, doc)[k] = ids[k]

LEMMA NumberedNext ==
  ASSUME NEW keys, NEW ids, Numbered(keys, ids), NEW key \in DocKeys,
         NEW doc, doc = IF key \in DOMAIN ids THEN ids[key] ELSE Len(keys) + 1
  PROVE  NumberedBy(keys, ids, key, doc)
<1> DEFINE new == Entered(ids, key, doc)
<1>1. /\ keys \in Seq(DocKeys) /\ Len(keys) \in Nat /\ DOMAIN keys = 1 .. Len(keys)
      /\ \A i \in 1 .. Len(keys) : ids[keys[i]] = i /\ keys[i] \in DOMAIN ids
      /\ \A k \in DOMAIN ids : ids[k] \in Int
  BY NumberedFacts
<1>2. DOMAIN new = DOMAIN ids \cup {key} /\ new[key] = doc /\ \A k \in DOMAIN ids : new[k] = ids[k]
  BY DEF Entered
<1>3. doc \in Int
  BY <1>1
<1> HIDE DEF new
<1>4. CASE key \in DOMAIN ids
  <2>1. DOMAIN new = ToSet(keys)
    BY <1>2, <1>4 DEF Numbered
  <2>2. Numbered(keys, new)
    BY <1>1, <1>2, <2>1 DEF Numbered
  <2> QED
    BY <1>2, <1>3, <1>4, <2>2 DEF new, NumberedBy
<1>5. CASE key \notin DOMAIN ids
  <2> DEFINE more == Append(keys, key)
             n == Len(keys)
  <2>1. more \in Seq(DocKeys) /\ Len(more) = n + 1 /\ more[n + 1] = key
        /\ \A i \in 1 .. n : more[i] = keys[i]
    BY <1>1
  <2>2. doc = n + 1
    BY <1>5
  <2> HIDE DEF more, n
  <2>3. \A i \in 1 .. n + 1 : i \in 1 .. n \/ i = n + 1
    BY <1>1 DEF n
  <2>4. \A i \in 1 .. n + 1 : new[more[i]] = i
    BY <1>1, <1>2, <2>1, <2>2, <2>3 DEF n
  <2>5. \A x : x \in ToSet(more) <=> \E i \in 1 .. n + 1 : more[i] = x
    BY <2>1, ElementsOf
  <2>6. \A x : x \in ToSet(keys) <=> \E i \in 1 .. n : keys[i] = x
    BY <1>1, ElementsOf DEF n
  <2>7. \A i \in 1 .. n : i \in 1 .. n + 1
    BY <1>1 DEF n
  <2>8. n + 1 \in 1 .. n + 1
    BY <1>1 DEF n
  <2>9. \A x : x \in ToSet(more) <=> x \in ToSet(keys) \/ x = key
    BY <2>1, <2>3, <2>5, <2>6, <2>7, <2>8
  <2>10. DOMAIN new = ToSet(more)
    BY <1>2, <2>9 DEF Numbered
  <2>11. DOMAIN more = 1 .. n + 1
    BY <2>1
  <2>12. Numbered(more, new)
    BY <2>1, <2>4, <2>10, <2>11 DEF Numbered
  <2> QED
    BY <1>2, <1>3, <1>5, <2>12 DEF new, more, NumberedBy
<1> QED
  BY <1>4, <1>5

\* The numbers a compaction gives.
LEMMA RenumberedFacts ==
  ASSUME NEW keys, NEW ids, Numbered(keys, ids), NEW I \in SUBSET (1 .. Len(keys))
  PROVE  /\ Numbered(Kept(keys, I), Renumbered(Kept(keys, I)))
         /\ \A k : k \in DOMAIN Renumbered(Kept(keys, I)) <=> \E i \in I : keys[i] = k
<1> DEFINE new == Kept(keys, I)
           n == Cardinality(I)
           numbers == Renumbered(new)
<1>1. /\ keys \in Seq(DocKeys) /\ Len(keys) \in Nat
      /\ \A i, j \in 1 .. Len(keys) : keys[i] = keys[j] => i = j
  BY NumberedFacts
<1>2. new \in Seq(DocKeys) /\ Len(new) = n /\ n \in Nat
  BY <1>1, KeptFacts
<1>3. PICK f : KeptAs(keys, I, f)
  BY <1>1, KeptFacts
<1>4. /\ f \in [1 .. n -> I] /\ \A m, k \in 1 .. n : m < k => f[m] < f[k]
      /\ \A i \in I : \E m \in 1 .. n : f[m] = i
      /\ \A m \in 1 .. n : new[m] = keys[f[m]]
  BY <1>3 DEF KeptAs
<1>5. numbers = [k \in ToSet(new) |-> CHOOSE i \in DOMAIN new : new[i] = k]
  BY DEF Renumbered
<1> HIDE DEF new, n, numbers
<1>6. DOMAIN new = 1 .. n /\ \A x : x \in ToSet(new) <=> \E i \in 1 .. n : new[i] = x
  BY <1>2, ElementsOf
<1>7. ASSUME NEW i \in 1 .. n, NEW j \in 1 .. n, new[i] = new[j] PROVE i = j
  <2>1. f[i] = f[j] /\ f[i] \in 1 .. Len(keys)
    <3>1. f[i] \in 1 .. Len(keys) /\ f[j] \in 1 .. Len(keys)
      BY <1>4
    <3>2. keys[f[i]] = keys[f[j]]
      BY <1>4, <1>7
    <3> QED
      BY <1>1, <3>1, <3>2
  <2>2. ~(i < j) /\ ~(j < i)
    <3>1. i < j => f[i] < f[j]
      BY <1>4
    <3>2. j < i => f[j] < f[i]
      BY <1>4
    <3> QED
      BY <2>1, <3>1, <3>2
  <2> QED
    BY <1>2, <2>2
<1>8. ASSUME NEW i \in 1 .. n PROVE numbers[new[i]] = i
  <2>1. numbers[new[i]] = CHOOSE j \in 1 .. n : new[j] = new[i]
    BY <1>5, <1>6
  <2>2. \E j \in 1 .. n : new[j] = new[i]
    OBVIOUS
  <2> DEFINE j == CHOOSE j \in 1 .. n : new[j] = new[i]
  <2>3. j \in 1 .. n /\ new[j] = new[i]
    BY <2>2
  <2> HIDE DEF j
  <2>4. j = i
    BY <1>7, <2>3
  <2> QED
    BY <2>1, <2>4 DEF j
<1>9. Numbered(new, numbers)
  BY <1>2, <1>5, <1>6, <1>8 DEF Numbered
<1>10. \A k : k \in DOMAIN numbers <=> \E i \in I : keys[i] = k
  <2>1. \A k : k \in DOMAIN numbers <=> \E m \in 1 .. n : new[m] = k
    BY <1>5, <1>6
  <2>2. ASSUME NEW m \in 1 .. n PROVE \E i \in I : keys[i] = new[m]
    BY <1>4
  <2>3. ASSUME NEW i \in I PROVE \E m \in 1 .. n : new[m] = keys[i]
    <3>1. PICK m \in 1 .. n : f[m] = i
      BY <1>4
    <3> QED
      BY <1>4, <3>1
  <2> QED
    BY <2>1, <2>2, <2>3
<1> QED
  BY <1>9, <1>10 DEF new, numbers

-----------------------------------------------------------------------------
(* What the documents say.                                                 *)

LEMMA CountOfFacts ==
  ASSUME NEW documents, \A k \in DOMAIN documents : documents[k] \in Texts
  PROVE  /\ CountOf(documents) \in [Terms -> Counts]
         /\ \A t \in Terms : \A k \in DocKeys :
              CountOf(documents)[t][k] = IF k \in DOMAIN documents THEN Occurrences(documents[k], t) ELSE 0
         /\ \A t \in Terms : \A k \in DocKeys :
              CountOf(documents)[t][k] # 0 <=> k \in DOMAIN documents /\ t \in ToSet(documents[k])
         /\ \A t \in Terms : Counted(CountOf(documents)[t]) \subseteq DOMAIN documents
<1>1. \A t : \A k \in DOMAIN documents :
        Occurrences(documents[k], t) \in Nat /\ (Occurrences(documents[k], t) # 0 <=> t \in ToSet(documents[k]))
  BY OccurrencesFacts
<1>2. \A t \in Terms : \A k \in DocKeys :
        CountOf(documents)[t][k] = IF k \in DOMAIN documents THEN Occurrences(documents[k], t) ELSE 0
  BY DEF CountOf
<1>3. CountOf(documents) \in [Terms -> Counts]
  BY <1>1 DEF CountOf, Counts
<1>4. \A t \in Terms : \A k \in DocKeys :
        CountOf(documents)[t][k] # 0 <=> k \in DOMAIN documents /\ t \in ToSet(documents[k])
  BY <1>1, <1>2
<1>5. \A t \in Terms : Counted(CountOf(documents)[t]) \subseteq DOMAIN documents
  BY <1>4 DEF Counted
<1> QED
  BY <1>2, <1>3, <1>4, <1>5

LEMMA RestrictFacts ==
  ASSUME NEW f, NEW S \in SUBSET DOMAIN f
  PROVE  DOMAIN Restrict(f, S) = S /\ \A x \in S : Restrict(f, S)[x] = f[x]
BY DEF Restrict

LEMMA CountEntered ==
  ASSUME NEW documents, \A k \in DOMAIN documents : documents[k] \in Texts,
         NEW key \in DocKeys, NEW tokens \in Texts
  PROVE  CountOf(Entered(documents, key, tokens))
           = Recounted(CountOf(documents), key, [t \in Terms |-> Occurrences(tokens, t)])
<1> DEFINE new == Entered(documents, key, tokens)
<1>1. /\ DOMAIN new = DOMAIN documents \cup {key} /\ new[key] = tokens
      /\ \A k \in DOMAIN documents : k # key => new[k] = documents[k]
  BY DEF Entered
<1>2. \A k \in DOMAIN new : new[k] \in Texts
  BY <1>1
<1> HIDE DEF new
<1>3. /\ CountOf(new) \in [Terms -> Counts]
      /\ \A t \in Terms : \A k \in DocKeys :
           CountOf(new)[t][k] = IF k \in DOMAIN new THEN Occurrences(new[k], t) ELSE 0
  BY <1>2, CountOfFacts
<1>4. /\ CountOf(documents) \in [Terms -> Counts]
      /\ \A t \in Terms : \A k \in DocKeys :
           CountOf(documents)[t][k] = IF k \in DOMAIN documents THEN Occurrences(documents[k], t) ELSE 0
  BY CountOfFacts
<1> DEFINE a == CountOf(new)
           b == CountOf(documents)
<1> HIDE DEF a, b
<1>5. ASSUME NEW t \in Terms PROVE a[t] = [b[t] EXCEPT ![key] = Occurrences(tokens, t)]
  <2>1. a[t] \in [DocKeys -> Nat] /\ b[t] \in [DocKeys -> Nat]
    BY <1>3, <1>4 DEF Counts, a, b
  <2>2. a[t][key] = Occurrences(tokens, t)
    BY <1>1, <1>3 DEF a
  <2>3. \A k \in DocKeys : k # key => a[t][k] = b[t][k]
    BY <1>1, <1>3, <1>4 DEF a, b
  <2> QED
    BY <2>1, <2>2, <2>3
<1>6. a = [t \in Terms |-> [b[t] EXCEPT ![key] = [u \in Terms |-> Occurrences(tokens, u)][t]]]
  <2>1. a = [t \in Terms |-> a[t]]
    BY <1>3 DEF a
  <2> QED
    BY <1>5, <2>1
<1> QED
  BY <1>6 DEF Recounted, a, b, new

LEMMA CountRestricted ==
  ASSUME NEW documents, \A k \in DOMAIN documents : documents[k] \in Texts,
         NEW key \in DocKeys
  PROVE  CountOf(Restrict(documents, DOMAIN documents \ {key}))
           = Recounted(CountOf(documents), key, [t \in Terms |-> 0])
<1> DEFINE new == Restrict(documents, DOMAIN documents \ {key})
<1>1. /\ DOMAIN new = DOMAIN documents \ {key}
      /\ \A k \in DOMAIN new : new[k] = documents[k]
  BY RestrictFacts
<1>2. \A k \in DOMAIN new : new[k] \in Texts
  BY <1>1
<1> HIDE DEF new
<1>3. /\ CountOf(new) \in [Terms -> Counts]
      /\ \A t \in Terms : \A k \in DocKeys :
           CountOf(new)[t][k] = IF k \in DOMAIN new THEN Occurrences(new[k], t) ELSE 0
  BY <1>2, CountOfFacts
<1>4. /\ CountOf(documents) \in [Terms -> Counts]
      /\ \A t \in Terms : \A k \in DocKeys :
           CountOf(documents)[t][k] = IF k \in DOMAIN documents THEN Occurrences(documents[k], t) ELSE 0
  BY CountOfFacts
<1> DEFINE a == CountOf(new)
           b == CountOf(documents)
<1> HIDE DEF a, b
<1>5. ASSUME NEW t \in Terms PROVE a[t] = [b[t] EXCEPT ![key] = 0]
  <2>1. a[t] \in [DocKeys -> Nat] /\ b[t] \in [DocKeys -> Nat]
    BY <1>3, <1>4 DEF Counts, a, b
  <2>2. a[t][key] = 0
    BY <1>1, <1>3 DEF a
  <2>3. \A k \in DocKeys : k # key => a[t][k] = b[t][k]
    BY <1>1, <1>3, <1>4 DEF a, b
  <2> QED
    BY <2>1, <2>2, <2>3
<1>6. a = [t \in Terms |-> [b[t] EXCEPT ![key] = [u \in Terms |-> 0][t]]]
  <2>1. a = [t \in Terms |-> a[t]]
    BY <1>3 DEF a
  <2> QED
    BY <1>5, <2>1
<1> QED
  BY <1>6 DEF Recounted, a, b, new

LengthsOf(documents) == [k \in DOMAIN documents |-> Len(documents[k])]

LEMMA SumEntered ==
  ASSUME NEW f, NEW S, IsFiniteSet(S), IntValued(f, S), NEW key, key \notin S,
         NEW g, \A k \in S : g[k] = f[k], g[key] \in Int
  PROVE  /\ SumFunctionOnSet(g, S \cup {key}) = SumFunctionOnSet(f, S) + g[key]
         /\ SumFunctionOnSet(f, S) \in Int
<1>1. IsFiniteSet(S \cup {key}) /\ key \in S \cup {key} /\ (S \cup {key}) \ {key} = S
  BY FS_AddElement
<1>2. IntValued(g, S \cup {key})
  BY DEF IntValued
<1>3. SumFunctionOnSet(g, S \cup {key}) = g[key] + SumFunctionOnSet(g, S)
  <2>1. SumFunctionOnSet(g, S \cup {key}) = g[key] + SumFunctionOnSet(g, (S \cup {key}) \ {key})
    BY <1>1, <1>2, SumApart
  <2> QED
    BY <1>1, <2>1
<1>4. SumFunctionOnSet(g, S) = SumFunctionOnSet(f, S)
  BY SumSame
<1>5. SumFunctionOnSet(f, S) \in Int
  BY SumInt
<1> QED
  BY <1>3, <1>4, <1>5

\* The relevance model's sum, with one document more.
LEMMA LengthsEntered ==
  ASSUME NEW documents, IsFiniteSet(DOMAIN documents),
         \A k \in DOMAIN documents : documents[k] \in Texts,
         NEW new, NEW key, key \notin DOMAIN documents, DOMAIN new = DOMAIN documents \cup {key},
         \A k \in DOMAIN documents : new[k] = documents[k], new[key] \in Texts
  PROVE  /\ SumFunction(LengthsOf(new)) = SumFunction(LengthsOf(documents)) + Len(new[key])
         /\ SumFunction(LengthsOf(documents)) \in Int /\ Len(new[key]) \in Int
<1> DEFINE f == LengthsOf(documents)
           g == LengthsOf(new)
           S == DOMAIN documents
<1>1. \A k \in S : Len(documents[k]) \in Int
  BY OccurrencesFacts
<1>2. Len(new[key]) \in Int
  BY OccurrencesFacts
<1>3. DOMAIN f = S /\ DOMAIN g = S \cup {key} /\ g[key] = Len(new[key])
      /\ \A k \in S : f[k] = Len(documents[k]) /\ g[k] = f[k]
  BY DEF LengthsOf
<1> HIDE DEF f, g, S
<1>4. IntValued(f, S)
  BY <1>1, <1>3 DEF IntValued
<1>5. /\ SumFunctionOnSet(g, S \cup {key}) = SumFunctionOnSet(f, S) + g[key]
      /\ SumFunctionOnSet(f, S) \in Int
  <2>1. IsFiniteSet(S) /\ key \notin S /\ g[key] \in Int /\ \A k \in S : g[k] = f[k]
    BY <1>2, <1>3 DEF S
  <2> QED
    BY <1>4, <2>1, SumEntered
<1>6. SumFunction(g) = SumFunctionOnSet(g, S \cup {key}) /\ SumFunction(f) = SumFunctionOnSet(f, S)
  BY <1>3, SumOfFunction
<1> QED
  BY <1>2, <1>3, <1>5, <1>6 DEF f, g

-----------------------------------------------------------------------------
(* The operations.                                                         *)

LEMMA WholeOf ==
  ASSUME NEW x, NEW documents, NEW lists, NEW dead \in Nat, NEW ids, NEW keys, NEW lengths, NEW totalLen,
         x = [documents |-> documents, lists |-> lists, dead |-> dead, ids |-> ids,
              keys |-> keys, lengths |-> lengths, totalLen |-> totalLen],
         IsFiniteSet(DOMAIN documents), DOMAIN documents \subseteq DOMAIN ids,
         \A k \in DOMAIN documents : documents[k] \in Texts,
         Numbered(keys, ids), Tell(lists, ids, CountOf(documents)),
         lengths = LengthsOf(documents), totalLen = SumFunction(LengthsOf(documents))
  PROVE  Whole(x)
<1>1. /\ x.documents = documents /\ x.lists = lists /\ x.dead = dead /\ x.ids = ids
      /\ x.keys = keys /\ x.lengths = lengths /\ x.totalLen = totalLen
  OBVIOUS
<1>2. x = [documents |-> x.documents, lists |-> x.lists, dead |-> x.dead, ids |-> x.ids,
           keys |-> x.keys, lengths |-> x.lengths, totalLen |-> x.totalLen]
  OBVIOUS
<1>3. x.lengths = [k \in DOMAIN x.documents |-> Len(x.documents[k])]
  BY <1>1 DEF LengthsOf
<1>4. x.totalLen = SumFunction(x.lengths)
  BY <1>1
<1> QED
  BY <1>1, <1>2, <1>3, <1>4 DEF Whole

LEMMA WholeHas ==
  ASSUME NEW x, Whole(x)
  PROVE  /\ x = [documents |-> x.documents, lists |-> x.lists, dead |-> x.dead, ids |-> x.ids,
                 keys |-> x.keys, lengths |-> x.lengths, totalLen |-> x.totalLen]
         /\ IsFiniteSet(DOMAIN x.documents) /\ DOMAIN x.documents \subseteq DOMAIN x.ids
         /\ \A k \in DOMAIN x.documents : x.documents[k] \in Texts
         /\ Numbered(x.keys, x.ids) /\ DOMAIN x.ids \subseteq DocKeys
         /\ Tell(x.lists, x.ids, CountOf(x.documents))
         /\ x.lengths = LengthsOf(x.documents) /\ x.totalLen = SumFunction(LengthsOf(x.documents))
         /\ x.dead \in Nat
<1>1. Numbered(x.keys, x.ids)
  BY DEF Whole
<1>2. DOMAIN x.ids \subseteq DocKeys
  BY <1>1, ElementsOf DEF Numbered
<1>3. x.lengths = LengthsOf(x.documents)
  BY DEF Whole, LengthsOf
<1>4. x.totalLen = SumFunction(LengthsOf(x.documents))
  BY <1>3 DEF Whole
<1> QED
  BY <1>1, <1>2, <1>3, <1>4 DEF Whole

\* A compaction leaves the documents and drops the dead.
LEMMA FlushWhole ==
  ASSUME NEW x, Whole(x)
  PROVE  Whole(TextFlush(x)) /\ TextFlush(x).documents = x.documents /\ TextFlush(x).dead = 0
<1> DEFINE I == {i \in DOMAIN x.keys : Retrieved(x, x.keys[i])}
           keys == Kept(x.keys, I)
           ids == Renumbered(keys)
           kept == {t \in DOMAIN x.lists : x.lists[t].live # 0}
           lists == [t \in kept |-> [x.lists[t] EXCEPT !.chunks = Swept(x.lists[t].chunks, ids)]]
           new == TextFlush(x)
<1>1. /\ x = [documents |-> x.documents, lists |-> x.lists, dead |-> x.dead, ids |-> x.ids,
              keys |-> x.keys, lengths |-> x.lengths, totalLen |-> x.totalLen]
      /\ IsFiniteSet(DOMAIN x.documents) /\ DOMAIN x.documents \subseteq DOMAIN x.ids
      /\ \A k \in DOMAIN x.documents : x.documents[k] \in Texts
      /\ Numbered(x.keys, x.ids)
      /\ Tell(x.lists, x.ids, CountOf(x.documents))
      /\ x.lengths = LengthsOf(x.documents) /\ x.totalLen = SumFunction(LengthsOf(x.documents))
  BY WholeHas
<1>2. new = [x EXCEPT !.lists = lists, !.ids = ids, !.keys = keys, !.dead = 0]
  <2>1. new = Compacted(x, keys, ids, ids)
    BY DEF TextFlush, Surviving
  <2> HIDE DEF keys, ids, new
  <2>2. Compacted(x, keys, ids, ids) = [x EXCEPT !.lists = lists, !.ids = ids, !.keys = keys, !.dead = 0]
    BY DEF Compacted
  <2> QED
    BY <2>1, <2>2
<1>3. /\ I \in SUBSET (1 .. Len(x.keys))
      /\ \A k \in DOMAIN x.documents : \E i \in I : x.keys[i] = k
      /\ \A i \in I : x.keys[i] \in DOMAIN x.documents
  <2>1. DOMAIN x.keys = 1 .. Len(x.keys)
        /\ \A k \in DOMAIN x.ids : \E i \in 1 .. Len(x.keys) : x.keys[i] = k
    BY <1>1, NumberedFacts
  <2> QED
    BY <1>1, <2>1 DEF Retrieved
<1> HIDE DEF I
<1>4. Numbered(keys, ids) /\ \A k : k \in DOMAIN ids <=> \E i \in I : x.keys[i] = k
  BY <1>1, <1>3, RenumberedFacts
<1> HIDE DEF keys, ids
<1>5. DOMAIN ids = DOMAIN x.documents /\ \A k \in DOMAIN ids : ids[k] \in Int
  <2>1. \A k \in DOMAIN ids : ids[k] \in Int
    BY <1>4, NumberedFacts
  <2>2. \A k : k \in DOMAIN ids <=> k \in DOMAIN x.documents
    BY <1>3, <1>4
  <2> QED
    BY <2>1, <2>2
<1>6. /\ CountOf(x.documents) \in [Terms -> Counts]
      /\ \A t \in Terms : Counted(CountOf(x.documents)[t]) \subseteq DOMAIN x.documents
  BY <1>1, CountOfFacts
<1>7. Tell(lists, ids, CountOf(x.documents))
  <2>1. \A t \in Terms : \A k \in Counted(CountOf(x.documents)[t]) : k \in DOMAIN ids /\ ids[k] \in Int
    BY <1>5, <1>6
  <2> QED
    BY <1>1, <1>6, <2>1, SweepsTell
<1> HIDE DEF lists, new
<1>8. new = [documents |-> x.documents, lists |-> lists, dead |-> 0, ids |-> ids,
             keys |-> keys, lengths |-> x.lengths, totalLen |-> x.totalLen]
  BY <1>1, <1>2
<1>9. Whole(new)
  <2>1. 0 \in Nat /\ DOMAIN x.documents \subseteq DOMAIN ids
    BY <1>5
  <2> QED
    BY <1>1, <1>4, <1>7, <1>8, <2>1, WholeOf
<1> QED
  BY <1>8, <1>9 DEF new

\* The document under key retired and forgotten.
Gone(x, key) == [RemovePostings(x, key) EXCEPT !.documents = Restrict(@, DOMAIN @ \ {key})]

LEMMA GoneWhole ==
  ASSUME NEW x, Whole(x), NEW key \in DOMAIN x.documents
  PROVE  /\ Whole(Gone(x, key))
         /\ Gone(x, key) = [documents |-> Restrict(x.documents, DOMAIN x.documents \ {key}),
                            lists |-> DropTokens(x.lists, key, x.documents[key]),
                            dead |-> x.dead + 1, ids |-> x.ids, keys |-> x.keys,
                            lengths |-> Restrict(x.lengths, DOMAIN x.lengths \ {key}),
                            totalLen |-> x.totalLen - x.lengths[key]]
         /\ DOMAIN Gone(x, key).documents = DOMAIN x.documents \ {key}
         /\ \A k \in DOMAIN x.documents : k # key => Gone(x, key).documents[k] = x.documents[k]
<1> DEFINE documents == Restrict(x.documents, DOMAIN x.documents \ {key})
           lists == DropTokens(x.lists, key, x.documents[key])
           lengths == Restrict(x.lengths, DOMAIN x.lengths \ {key})
           totalLen == x.totalLen - x.lengths[key]
           dead == x.dead + 1
           new == Gone(x, key)
<1>1. /\ x = [documents |-> x.documents, lists |-> x.lists, dead |-> x.dead, ids |-> x.ids,
              keys |-> x.keys, lengths |-> x.lengths, totalLen |-> x.totalLen]
      /\ IsFiniteSet(DOMAIN x.documents) /\ DOMAIN x.documents \subseteq DOMAIN x.ids
      /\ \A k \in DOMAIN x.documents : x.documents[k] \in Texts
      /\ Numbered(x.keys, x.ids) /\ DOMAIN x.ids \subseteq DocKeys
      /\ Tell(x.lists, x.ids, CountOf(x.documents))
      /\ x.lengths = LengthsOf(x.documents) /\ x.totalLen = SumFunction(LengthsOf(x.documents))
      /\ x.dead \in Nat
  BY WholeHas
<1>2. key \in DocKeys /\ x.documents[key] \in Texts
  BY <1>1
<1>3. new = [documents |-> documents, lists |-> lists, dead |-> dead, ids |-> x.ids,
             keys |-> x.keys, lengths |-> lengths, totalLen |-> totalLen]
  <2> DEFINE r == RemovePostings(x, key)
  <2>1. r = [x EXCEPT !.lists = lists, !.dead = dead, !.totalLen = totalLen, !.lengths = lengths]
    BY DEF RemovePostings
  <2> HIDE DEF lists, dead, totalLen, lengths, r
  <2>2. r = [documents |-> x.documents, lists |-> lists, dead |-> dead, ids |-> x.ids,
             keys |-> x.keys, lengths |-> lengths, totalLen |-> totalLen]
    BY <1>1, <2>1
  <2>3. new = [r EXCEPT !.documents = Restrict(r.documents, DOMAIN r.documents \ {key})]
    BY DEF Gone, r
  <2> QED
    BY <2>2, <2>3
<1>4. DOMAIN documents = DOMAIN x.documents \ {key} /\ \A k \in DOMAIN documents : documents[k] = x.documents[k]
  BY RestrictFacts
<1>5. Tell(lists, x.ids, CountOf(documents))
  <2>1. CountOf(documents) = Recounted(CountOf(x.documents), key, [t \in Terms |-> 0])
    BY <1>1, <1>2, CountRestricted
  <2>2. /\ CountOf(x.documents) \in [Terms -> Counts]
        /\ \A t \in Terms : t \notin ToSet(x.documents[key]) => CountOf(x.documents)[t][key] = 0
    BY <1>1, <1>2, CountOfFacts
  <2> QED
    BY <1>1, <1>2, <2>1, <2>2, DropTokensTell
<1> HIDE DEF documents, lists
<1>6. lengths = LengthsOf(documents)
  <2>1. DOMAIN x.lengths = DOMAIN x.documents
    BY <1>1 DEF LengthsOf
  <2> QED
    BY <1>1, <1>4, <2>1 DEF LengthsOf, Restrict
<1>7. totalLen = SumFunction(LengthsOf(documents))
  <2>1. x.lengths[key] = Len(x.documents[key])
    BY <1>1 DEF LengthsOf
  <2>2. IsFiniteSet(DOMAIN documents) /\ \A k \in DOMAIN documents : documents[k] \in Texts
    BY <1>1, <1>4, FS_RemoveElement
  <2>3. /\ SumFunction(LengthsOf(x.documents)) = SumFunction(LengthsOf(documents)) + Len(x.documents[key])
        /\ SumFunction(LengthsOf(documents)) \in Int /\ Len(x.documents[key]) \in Int
    <3>1. key \notin DOMAIN documents /\ DOMAIN x.documents = DOMAIN documents \cup {key}
          /\ \A k \in DOMAIN documents : x.documents[k] = documents[k]
      BY <1>4
    <3> QED
      BY <1>2, <2>2, <3>1, LengthsEntered
  <2> QED
    BY <1>1, <2>1, <2>3
<1> HIDE DEF lengths, totalLen, new
<1>8. IsFiniteSet(DOMAIN documents) /\ DOMAIN documents \subseteq DOMAIN x.ids
      /\ (\A k \in DOMAIN documents : documents[k] \in Texts) /\ dead \in Nat
  BY <1>1, <1>4, FS_RemoveElement
<1> HIDE DEF dead
<1>9. Whole(new)
  BY <1>1, <1>3, <1>5, <1>6, <1>7, <1>8, WholeOf
<1>10. DOMAIN new.documents = DOMAIN x.documents \ {key}
       /\ \A k \in DOMAIN x.documents : k # key => new.documents[k] = x.documents[k]
  BY <1>3, <1>4
<1> QED
  BY <1>3, <1>9, <1>10 DEF documents, lists, dead, lengths, totalLen, new

\* The document under key entered, as index does once the previous one is gone.
Put(r, key, tokens) ==
    LET numbered == key \in DOMAIN r.ids
        doc == IF numbered THEN r.ids[key] ELSE Len(r.keys) + 1
    IN [documents |-> Entered(r.documents, key, tokens),
        lists |-> AddTokens(r.lists, key, doc, tokens),
        dead |-> r.dead,
        ids |-> Entered(r.ids, key, doc),
        keys |-> IF numbered THEN r.keys ELSE Append(r.keys, key),
        lengths |-> Entered(r.lengths, key, Len(tokens)),
        totalLen |-> r.totalLen + Len(tokens)]

LEMMA PutWhole ==
  ASSUME NEW x, Whole(x), NEW key \in DocKeys, key \notin DOMAIN x.documents, NEW tokens \in Texts
  PROVE  Whole(Put(x, key, tokens))
<1> DEFINE numbered == key \in DOMAIN x.ids
           doc == IF numbered THEN x.ids[key] ELSE Len(x.keys) + 1
           documents == Entered(x.documents, key, tokens)
           lists == AddTokens(x.lists, key, doc, tokens)
           ids == Entered(x.ids, key, doc)
           keys == IF numbered THEN x.keys ELSE Append(x.keys, key)
           lengths == Entered(x.lengths, key, Len(tokens))
           totalLen == x.totalLen + Len(tokens)
           new == Put(x, key, tokens)
<1>1. /\ IsFiniteSet(DOMAIN x.documents) /\ DOMAIN x.documents \subseteq DOMAIN x.ids
      /\ \A k \in DOMAIN x.documents : x.documents[k] \in Texts
      /\ Numbered(x.keys, x.ids)
      /\ Tell(x.lists, x.ids, CountOf(x.documents))
      /\ x.lengths = LengthsOf(x.documents) /\ x.totalLen = SumFunction(LengthsOf(x.documents))
      /\ x.dead \in Nat
  BY WholeHas
<1>2. new = [documents |-> documents, lists |-> lists, dead |-> x.dead, ids |-> ids,
             keys |-> keys, lengths |-> lengths, totalLen |-> totalLen]
  BY DEF Put
<1>3. /\ Numbered(keys, ids) /\ doc \in Int /\ key \in DOMAIN ids /\ ids[key] = doc
      /\ DOMAIN ids = DOMAIN x.ids \cup {key} /\ \A k \in DOMAIN x.ids : ids[k] = x.ids[k]
  <2>1. doc = IF key \in DOMAIN x.ids THEN x.ids[key] ELSE Len(x.keys) + 1
    OBVIOUS
  <2> HIDE DEF doc
  <2>2. NumberedBy(x.keys, x.ids, key, doc)
    BY <1>1, <2>1, NumberedNext
  <2> QED
    BY <2>2 DEF NumberedBy
<1>4. /\ DOMAIN documents = DOMAIN x.documents \cup {key} /\ documents[key] = tokens
      /\ \A k \in DOMAIN x.documents : documents[k] = x.documents[k]
  BY DEF Entered
<1> HIDE DEF ids, keys, doc
<1>5. Tell(lists, ids, CountOf(documents))
  <2>1. CountOf(documents) = Recounted(CountOf(x.documents), key, [t \in Terms |-> Occurrences(tokens, t)])
    BY <1>1, CountEntered
  <2>2. /\ CountOf(x.documents) \in [Terms -> Counts]
        /\ \A t \in Terms : CountOf(x.documents)[t][key] = 0
    BY <1>1, CountOfFacts
  <2>3. Tell(x.lists, ids, CountOf(x.documents))
    BY <1>1, <1>3, TellOn
  <2>4. lists = AddTokens(x.lists, key, ids[key], tokens) /\ ids[key] \in Int
    BY <1>3
  <2> HIDE DEF lists, documents
  <2> QED
    BY <1>3, <2>1, <2>2, <2>3, <2>4, AddTokensTell
<1> HIDE DEF documents, lists
<1>6. lengths = LengthsOf(documents)
  <2>1. lengths = [k \in DOMAIN x.lengths \cup {key} |-> IF k = key THEN Len(tokens) ELSE x.lengths[k]]
    BY DEF Entered
  <2>2. DOMAIN x.lengths = DOMAIN x.documents /\ \A k \in DOMAIN x.documents : x.lengths[k] = Len(x.documents[k])
    BY <1>1 DEF LengthsOf
  <2> HIDE DEF lengths
  <2> QED
    BY <1>4, <2>1, <2>2 DEF LengthsOf
<1>7. totalLen = SumFunction(LengthsOf(documents))
  BY <1>1, <1>4, LengthsEntered
<1> HIDE DEF lengths, totalLen, new
<1>8. /\ IsFiniteSet(DOMAIN documents) /\ DOMAIN documents \subseteq DOMAIN ids
      /\ \A k \in DOMAIN documents : documents[k] \in Texts
  BY <1>1, <1>3, <1>4, FS_AddElement
<1>9. Whole(new)
  BY <1>1, <1>2, <1>3, <1>5, <1>6, <1>7, <1>8, WholeOf
<1> QED
  BY <1>9 DEF new

LEMMA IndexedIs ==
  ASSUME NEW x, Whole(x), NEW key, NEW tokens
  PROVE  Indexed(x, key, tokens)
           = TextMaybeFlush(Put(IF Retrieved(x, key) THEN Gone(x, key) ELSE x, key, tokens))
<1> DEFINE r == IF Retrieved(x, key) THEN RemovePostings(x, key) ELSE x
           s == IF Retrieved(x, key) THEN Gone(x, key) ELSE x
           numbered == key \in DOMAIN r.ids
           doc == IF numbered THEN r.ids[key] ELSE Len(r.keys) + 1
           after == [r EXCEPT
             !.ids = Entered(@, key, doc),
             !.keys = IF numbered THEN @ ELSE Append(@, key),
             !.lists = AddTokens(@, key, doc, tokens),
             !.documents = Entered(@, key, tokens),
             !.lengths = Entered(@, key, Len(tokens)),
             !.totalLen = @ + Len(tokens)]
<1>1. Indexed(x, key, tokens) = TextMaybeFlush(after)
  BY DEF Indexed
<1>2. x = [documents |-> x.documents, lists |-> x.lists, dead |-> x.dead, ids |-> x.ids,
           keys |-> x.keys, lengths |-> x.lengths, totalLen |-> x.totalLen]
  BY WholeHas
<1>3. /\ r = [documents |-> r.documents, lists |-> r.lists, dead |-> r.dead, ids |-> r.ids,
              keys |-> r.keys, lengths |-> r.lengths, totalLen |-> r.totalLen]
      /\ r.documents = x.documents
  <2>1. CASE Retrieved(x, key)
    <3> DEFINE a == DropTokens(x.lists, key, x.documents[key])
               b == x.dead + 1
               c == x.totalLen - x.lengths[key]
               d == Restrict(x.lengths, DOMAIN x.lengths \ {key})
    <3>1. r = [x EXCEPT !.lists = a, !.dead = b, !.totalLen = c, !.lengths = d]
      BY <2>1 DEF RemovePostings
    <3> HIDE DEF a, b, c, d, r
    <3> QED
      BY <1>2, <3>1
  <2>2. CASE ~Retrieved(x, key)
    BY <1>2, <2>2
  <2> QED
    BY <2>1, <2>2
<1>4. Entered(s.documents, key, tokens) = Entered(r.documents, key, tokens)
      /\ s.lists = r.lists /\ s.dead = r.dead /\ s.ids = r.ids /\ s.keys = r.keys
      /\ s.lengths = r.lengths /\ s.totalLen = r.totalLen
  <2>1. CASE Retrieved(x, key)
    <3>1. s = [r EXCEPT !.documents = Restrict(r.documents, DOMAIN r.documents \ {key})]
      BY <2>1 DEF Gone
    <3> HIDE DEF r, s
    <3>2. /\ s.documents = Restrict(r.documents, DOMAIN r.documents \ {key})
          /\ s.lists = r.lists /\ s.dead = r.dead /\ s.ids = r.ids /\ s.keys = r.keys
          /\ s.lengths = r.lengths /\ s.totalLen = r.totalLen
      BY <1>3, <3>1
    <3>3. /\ DOMAIN s.documents = DOMAIN r.documents \ {key}
          /\ \A k \in DOMAIN s.documents : s.documents[k] = r.documents[k]
      BY <3>2, RestrictFacts
    <3>4. DOMAIN s.documents \cup {key} = DOMAIN r.documents \cup {key}
      BY <3>3
    <3>5. \A k \in DOMAIN r.documents \cup {key} :
            (IF k = key THEN tokens ELSE s.documents[k]) = (IF k = key THEN tokens ELSE r.documents[k])
      BY <3>3
    <3>6. Entered(s.documents, key, tokens) = Entered(r.documents, key, tokens)
      BY <3>4, <3>5 DEF Entered
    <3> QED
      BY <3>2, <3>6
  <2>2. CASE ~Retrieved(x, key)
    BY <2>2
  <2> QED
    BY <2>1, <2>2
<1> HIDE DEF r, s
<1>5. after = Put(s, key, tokens)
  <2> DEFINE i == Entered(r.ids, key, doc)
             k == IF numbered THEN r.keys ELSE Append(r.keys, key)
             l == AddTokens(r.lists, key, doc, tokens)
             d == Entered(r.documents, key, tokens)
             n == Entered(r.lengths, key, Len(tokens))
             t == r.totalLen + Len(tokens)
  <2>1. after = [r EXCEPT !.ids = i, !.keys = k, !.lists = l, !.documents = d, !.lengths = n, !.totalLen = t]
    BY <1>3
  <2>2. Put(s, key, tokens) = [documents |-> d, lists |-> l, dead |-> r.dead, ids |-> i,
                               keys |-> k, lengths |-> n, totalLen |-> t]
    BY <1>4 DEF Put
  <2> HIDE DEF i, k, l, d, n, t, after
  <2>3. after = [documents |-> d, lists |-> l, dead |-> r.dead, ids |-> i,
                 keys |-> k, lengths |-> n, totalLen |-> t]
    BY <1>3, <2>1
  <2> QED
    BY <2>2, <2>3
<1> QED
  BY <1>1, <1>5 DEF s

Few(x) == Cardinality(DOMAIN x.documents) + x.dead <= 2 * Cardinality(DOMAIN x.documents)

LEMMA MaybeFlushWhole ==
  ASSUME NEW x, Whole(x)
  PROVE  Whole(TextMaybeFlush(x)) /\ Few(TextMaybeFlush(x))
<1>1. x.dead \in Nat /\ IsFiniteSet(DOMAIN x.documents)
  BY DEF Whole
<1>2. Cardinality(DOMAIN x.documents) \in Nat
  BY <1>1, FS_CardinalityType
<1>3. Whole(TextFlush(x)) /\ TextFlush(x).documents = x.documents /\ TextFlush(x).dead = 0
  BY FlushWhole
<1>4. CASE x.dead <= Cardinality(DOMAIN x.documents)
  <2>1. TextMaybeFlush(x) = x
    BY <1>4 DEF TextMaybeFlush
  <2> QED
    BY <1>1, <1>2, <1>4, <2>1 DEF Few
<1>5. CASE ~(x.dead <= Cardinality(DOMAIN x.documents))
  <2>1. TextMaybeFlush(x) = TextFlush(x)
    BY <1>5 DEF TextMaybeFlush
  <2> QED
    BY <1>2, <1>3, <2>1 DEF Few
<1> QED
  BY <1>4, <1>5

LEMMA EmptyWhole == Whole(NewBTreeIndex) /\ Few(NewBTreeIndex)
<1> DEFINE empty == [k \in {} |-> 0]
<1>1. <<>> = empty /\ DOMAIN <<>> = {}
  OBVIOUS
<1>2. IsFiniteSet({}) /\ Cardinality({}) = 0
  BY FS_EmptySet
<1>3. LengthsOf(<<>>) = <<>>
  BY <1>1 DEF LengthsOf
<1>4. SumFunction(<<>>) = 0
  BY <1>1, SumOfFunction, SumEmpty
<1>5. Numbered(<<>>, <<>>)
  <2>1. <<>> \in Seq(DocKeys) /\ ToSet(<<>>) = {}
    BY DEF ToSet
  <2> QED
    BY <1>1, <2>1 DEF Numbered
<1>6. Tell(<<>>, <<>>, CountOf(<<>>))
  <2> SUFFICES ASSUME NEW t \in Terms PROVE TellsOf(ListOf(<<>>, t), <<>>, CountOf(<<>>)[t])
    BY <1>1 DEF Tell
  <2>1. ListOf(<<>>, t) = NewList
    BY <1>1 DEF ListOf
  <2>2. \A k \in DOMAIN <<>> : <<>>[k] \in Texts
    BY <1>1
  <2>3. /\ CountOf(<<>>) \in [Terms -> Counts]
        /\ \A k \in DocKeys : CountOf(<<>>)[t][k] # 0 <=> k \in DOMAIN <<>> /\ t \in ToSet(<<>>[k])
    BY <2>2, CountOfFacts
  <2>4. CountOf(<<>>)[t] \in Counts /\ \A k \in DocKeys : CountOf(<<>>)[t][k] = 0
    BY <1>1, <2>3
  <2> QED
    BY <2>1, <2>4, NewListTells
<1>7. Whole(NewBTreeIndex)
  <2>1. /\ IsFiniteSet(DOMAIN <<>>) /\ DOMAIN <<>> \subseteq DOMAIN <<>>
        /\ (\A k \in DOMAIN <<>> : <<>>[k] \in Texts) /\ 0 \in Nat
    BY <1>1, <1>2
  <2>2. <<>> = LengthsOf(<<>>) /\ 0 = SumFunction(LengthsOf(<<>>))
    BY <1>3, <1>4
  <2> HIDE DEF empty
  <2>3. NewBTreeIndex = [documents |-> <<>>, lists |-> <<>>, dead |-> 0, ids |-> <<>>, keys |-> <<>>,
                         lengths |-> <<>>, totalLen |-> 0]
    BY DEF NewBTreeIndex
  <2> QED
    BY <1>5, <1>6, <2>1, <2>2, <2>3, WholeOf
<1>8. Few(NewBTreeIndex)
  BY <1>1, <1>2 DEF Few, NewBTreeIndex
<1> QED
  BY <1>7, <1>8

-----------------------------------------------------------------------------
(* The invariant.                                                          *)

LEMMA TextInvInit == TextInit => TextInv
BY EmptyWhole DEF TextInit, TextInv, TextGarbageBounded, Few

LEMMA TextInvNext == TextInv /\ [TextNext]_idx => TextInv'
<1> SUFFICES ASSUME TextInv, [TextNext]_idx PROVE TextInv'
  OBVIOUS
<1>1. Whole(idx) /\ Few(idx)
  BY DEF TextInv, TextGarbageBounded, Few
<1>2. CASE Whole(idx') /\ Few(idx')
  BY <1>2 DEF TextInv, TextGarbageBounded, Few
<1>3. ASSUME NEW key \in DocKeys, NEW tokens \in Texts, IndexText(key, tokens)
      PROVE  Whole(idx') /\ Few(idx')
  <2> DEFINE before == IF Retrieved(idx, key) THEN Gone(idx, key) ELSE idx
  <2>1. Whole(before) /\ key \notin DOMAIN before.documents
    <3>1. CASE Retrieved(idx, key)
      <4>1. key \in DOMAIN idx.documents
        BY <3>1 DEF Retrieved
      <4>2. Whole(Gone(idx, key)) /\ DOMAIN Gone(idx, key).documents = DOMAIN idx.documents \ {key}
        BY <1>1, <4>1, GoneWhole
      <4> QED
        BY <3>1, <4>2
    <3>2. CASE ~Retrieved(idx, key)
      BY <1>1, <3>2 DEF Retrieved
    <3> QED
      BY <3>1, <3>2
  <2>2. idx' = TextMaybeFlush(Put(before, key, tokens))
    BY <1>1, <1>3, IndexedIs DEF IndexText
  <2> HIDE DEF before
  <2>3. Whole(Put(before, key, tokens))
    BY <2>1, PutWhole
  <2> QED
    BY <2>2, <2>3, MaybeFlushWhole
<1>4. ASSUME NEW key \in DocKeys, DeleteText(key)
      PROVE  Whole(idx') /\ Few(idx')
  <2>1. key \in DOMAIN idx.documents
    BY <1>4 DEF DeleteText, Retrieved
  <2>2. idx' = TextMaybeFlush(Gone(idx, key))
    BY <1>4 DEF DeleteText, Gone
  <2>3. Whole(Gone(idx, key))
    BY <1>1, <2>1, GoneWhole
  <2> QED
    BY <2>2, <2>3, MaybeFlushWhole
<1>5. ASSUME Compact PROVE Whole(idx') /\ Few(idx')
  <2>1. idx' = TextFlush(idx)
    BY <1>5 DEF Compact
  <2>2. Whole(TextFlush(idx)) /\ TextFlush(idx).dead = 0
    BY <1>1, FlushWhole
  <2>3. IsFiniteSet(DOMAIN TextFlush(idx).documents)
    BY <2>2 DEF Whole
  <2>4. Cardinality(DOMAIN TextFlush(idx).documents) \in Nat
    BY <2>3, FS_CardinalityType
  <2>5. Few(TextFlush(idx))
    BY <2>2, <2>4 DEF Few
  <2> QED
    BY <2>1, <2>2, <2>5
<1>6. ASSUME UNCHANGED idx PROVE Whole(idx') /\ Few(idx')
  BY <1>1, <1>6
<1> QED
  BY <1>2, <1>3, <1>4, <1>5, <1>6 DEF TextNext

LEMMA TextInvHolds == TextSpec => []TextInv
BY TextInvInit, TextInvNext, PTL DEF TextSpec

LEMMA WholeMatches == TextInv => PostingsMatchDocuments
<1> SUFFICES ASSUME TextInv PROVE PostingsMatchDocuments
  OBVIOUS
<1> DEFINE D == DOMAIN idx.documents
           count == CountOf(idx.documents)
<1>1. /\ D \subseteq DocKeys
      /\ \A k \in D : idx.documents[k] \in Texts
      /\ DOMAIN idx.lists \subseteq Terms
      /\ \A t \in Terms : TellsOf(ListOf(idx.lists, t), idx.ids, count[t])
      /\ idx.lengths = [k \in D |-> Len(idx.documents[k])]
      /\ idx.totalLen = SumFunction(idx.lengths)
  <2>1. Whole(idx)
    BY DEF TextInv
  <2>2. D \subseteq DocKeys
    BY <2>1, WholeHas
  <2> QED
    BY <2>1, <2>2 DEF Whole, Tell
<1>2. \A t \in Terms : \A k \in DocKeys :
        /\ count[t][k] = IF k \in D THEN Occurrences(idx.documents[k], t) ELSE 0
        /\ count[t][k] # 0 <=> k \in D /\ t \in ToSet(idx.documents[k])
  BY <1>1, CountOfFacts
<1> HIDE DEF count
<1>3. \A t \in Terms : Counted(count[t]) = Holding(t)
  BY <1>1, <1>2 DEF Counted, Holding
<1>4. ASSUME NEW k \in D, NEW t \in ToSet(idx.documents[k]) PROVE t \in DOMAIN idx.lists
  <2>1. t \in Terms
    BY <1>1 DEF Terms
  <2>2. k \in Counted(count[t])
    BY <1>1, <1>2, <2>1 DEF Counted
  <2>3. PostingsIn(ListOf(idx.lists, t).chunks) # {}
    BY <1>1, <2>1, <2>2 DEF TellsOf
  <2>4. PostingsIn(NewList.chunks) = {}
    BY DEF NewList, PostingsIn
  <2> QED
    BY <2>3, <2>4 DEF ListOf
<1>5. ASSUME NEW t \in DOMAIN idx.lists
      PROVE  /\ \A c \in DOMAIN idx.lists[t].chunks :
                  Len(idx.lists[t].chunks[c]) \in 1 .. PostingChunk
             /\ Ascending(idx.lists[t].chunks)
             /\ idx.lists[t].live = Cardinality(Holding(t))
             /\ {<<p.key, p.tf>> : p \in {p \in Postings(t) : p.tf # 0}}
                  = {<<k, Occurrences(idx.documents[k], t)>> : k \in Holding(t)}
  <2> DEFINE chunks == idx.lists[t].chunks
             n == count[t]
  <2>1. t \in Terms /\ ListOf(idx.lists, t) = idx.lists[t] /\ TellsOf(idx.lists[t], idx.ids, n)
    BY <1>1 DEF ListOf
  <2>2. /\ idx.lists[t] = [chunks |-> idx.lists[t].chunks, live |-> Cardinality(Counted(n))]
        /\ Chunked(chunks)
        /\ \A p \in PostingsIn(chunks) : p.tf = n[p.key]
        /\ Counted(n) \subseteq {p.key : p \in PostingsIn(chunks)}
    BY <2>1 DEF TellsOf
  <2>3. idx.lists[t].live = Cardinality(Holding(t))
    BY <1>3, <2>1, <2>2
  <2>4. \A p \in PostingsIn(chunks) : p.key \in DocKeys
    <3>1. \A p \in PostingsIn(chunks) : p \in Posting
      BY <2>2, Places DEF Chunked
    <3> QED
      BY <3>1 DEF Posting
  <2>5. \A k \in Holding(t) : n[k] = Occurrences(idx.documents[k], t) /\ n[k] # 0 /\ k \in DocKeys
    BY <1>1, <1>2, <2>1 DEF Holding
  <2>6. Postings(t) = PostingsIn(chunks)
    BY DEF Postings
  <2>7. Counted(n) = Holding(t)
    BY <1>3, <2>1
  <2> HIDE DEF chunks, n
  <2>8. ASSUME NEW p \in PostingsIn(chunks), p.tf # 0
        PROVE  p.key \in Holding(t) /\ p.tf = Occurrences(idx.documents[p.key], t)
    <3>1. p.key \in Counted(n)
      BY <2>2, <2>4, <2>8 DEF Counted
    <3> QED
      BY <2>2, <2>5, <2>7, <3>1
  <2>9. ASSUME NEW k \in Holding(t)
        PROVE  \E p \in PostingsIn(chunks) : p.tf # 0 /\ p.key = k /\ p.tf = Occurrences(idx.documents[k], t)
    BY <2>2, <2>5, <2>7
  <2>10. {<<p.key, p.tf>> : p \in {p \in Postings(t) : p.tf # 0}}
           = {<<k, Occurrences(idx.documents[k], t)>> : k \in Holding(t)}
    <3>1. ASSUME NEW u \in {<<p.key, p.tf>> : p \in {p \in Postings(t) : p.tf # 0}}
          PROVE  u \in {<<k, Occurrences(idx.documents[k], t)>> : k \in Holding(t)}
      BY <2>6, <2>8
    <3>2. ASSUME NEW u \in {<<k, Occurrences(idx.documents[k], t)>> : k \in Holding(t)}
          PROVE  u \in {<<p.key, p.tf>> : p \in {p \in Postings(t) : p.tf # 0}}
      <4>1. PICK k \in Holding(t) : u = <<k, Occurrences(idx.documents[k], t)>>
        OBVIOUS
      <4>2. PICK p \in PostingsIn(chunks) : p.tf # 0 /\ p.key = k /\ p.tf = Occurrences(idx.documents[k], t)
        BY <2>9
      <4> QED
        BY <2>6, <4>1, <4>2
    <3> QED
      BY <3>1, <3>2
  <2> QED
    BY <2>2, <2>3, <2>10 DEF Chunked, chunks
<1> QED
  BY <1>1, <1>4, <1>5 DEF PostingsMatchDocuments

LEMMA WholeNumbers == TextInv => NumbersAreOwn
<1> SUFFICES ASSUME TextInv PROVE NumbersAreOwn
  OBVIOUS
<1>1. Whole(idx)
  BY DEF TextInv
<1>2. ASSUME NEW t \in DOMAIN idx.lists, NEW p \in Postings(t) PROVE p.doc = idx.ids[p.key]
  <2>1. t \in Terms /\ ListOf(idx.lists, t) = idx.lists[t]
    BY <1>1 DEF Whole, Tell, ListOf
  <2>2. TellsOf(idx.lists[t], idx.ids, CountOf(idx.documents)[t])
    BY <1>1, <2>1 DEF Whole, Tell
  <2> QED
    BY <2>2 DEF TellsOf, Postings
<1> QED
  BY <1>1, <1>2 DEF NumbersAreOwn, Whole, Numbered

(* Whatever documents are indexed, replaced and deleted, in whatever order,  *)
(* and wherever a chunk splits or a compaction falls, the posting lists of   *)
(* BTreeIndex say what the documents say, and its relevance model has their  *)
(* lengths.                                                                  *)
THEOREM ListsMatchDocuments == TextSpec => []PostingsMatchDocuments
BY TextInvHolds, WholeMatches, PTL

(* Every document has a number of its own and its postings carry it, the     *)
(* numbers are those of the keys slice, and flush keeps them dense.          *)
THEOREM DocumentsAreNumbered == TextSpec => []NumbersAreOwn
BY TextInvHolds, WholeNumbers, PTL

(* maybeFlush keeps dead documents at most as many as live ones.             *)
THEOREM TombstonesStayFew == TextSpec => []TextGarbageBounded
<1>1. TextInv => TextGarbageBounded
  BY DEF TextInv
<1> QED
  BY TextInvHolds, <1>1, PTL

-----------------------------------------------------------------------------
(* The forest.                                                             *)

LEMMA VectorStart == VectorInit => VectorInv
<1> SUFFICES ASSUME VectorInit PROVE VectorInv
  OBVIOUS
<1>1. DOMAIN vectors = {} /\ DOMAIN forest = {} /\ entries = 0 /\ dim = 0
  BY DEF VectorInit, EmptyBag, SetToBag
<1>2. IsFiniteSet(DOMAIN vectors) /\ Cardinality(DOMAIN vectors) = 0
  BY <1>1, FS_EmptySet
<1>3. FlushFactor \in Nat
  BY FlushFactorAssumption
<1> QED
  BY <1>1, <1>2, <1>3 DEF VectorInv, ForestHoldsLive, Range, BagToSet

\* Finitely many arguments give finitely many values.
LEMMA ImageIsFinite ==
  ASSUME NEW S, IsFiniteSet(S), NEW f, DOMAIN f = S
  PROVE  IsFiniteSet({f[x] : x \in S})
<1> DEFINE T == {f[x] : x \in S}
<1>1. [x \in S |-> f[x]] \in Surjection(S, T)
  BY DEF Surjection
<1> HIDE DEF T
<1>2. IsFiniteSet(T)
  BY <1>1, FS_Surjection
<1> QED
  BY <1>2 DEF T

\* A rebuilt forest has the live vectors and nothing else.
LEMMA RebuildHolds ==
  ASSUME VectorInv, Rebuild(vectors'), dim' # 0,
         IsFiniteSet(DOMAIN vectors'), DOMAIN vectors' \subseteq Keys,
         \A key \in DOMAIN vectors' : vectors'[key] \in Vectors /\ vectors'[key].dim = dim'
  PROVE  VectorInv'
<1>1. /\ DOMAIN forest' = {Copy(key, vectors'[key]) : key \in DOMAIN vectors'}
      /\ entries' = Cardinality(DOMAIN vectors')
  BY DEF Rebuild, SetToBag
<1>2. entries' \in Nat
  BY <1>1, FS_CardinalityType
<1>3. entries' <= FlushFactor * Cardinality(DOMAIN vectors')
  <2>1. \A n \in Nat, f \in Nat \ {0} : n <= f * n
    OBVIOUS
  <2> QED
    BY <1>1, <1>2, <2>1, FlushFactorAssumption
<1>4. \A v \in Range(vectors') \cup {c.vector : c \in DOMAIN forest'} : v.dim = dim'
  BY <1>1 DEF Range, Copy
<1>5. IsFiniteSet(DOMAIN forest')
  <2> DEFINE f == [key \in DOMAIN vectors' |-> Copy(key, vectors'[key])]
  <2>1. DOMAIN forest' = {f[key] : key \in DOMAIN vectors'} /\ DOMAIN f = DOMAIN vectors'
    BY <1>1
  <2> HIDE DEF f
  <2> QED
    BY <2>1, ImageIsFinite
<1>6. \A c \in DOMAIN forest' : c.vector \in Vectors
  BY <1>1 DEF Copy
<1> QED
  BY <1>1, <1>2, <1>3, <1>4, <1>5, <1>6 DEF VectorInv, ForestHoldsLive, BagIn, BagToSet

\* So does one that was left alone, if its copies were enough.
LEMMA FlushHolds ==
  ASSUME VectorInv, NEW copies, NEW count \in Nat, MaybeFlush(vectors', copies, count),
         dim' # 0, IsFiniteSet(DOMAIN vectors'), DOMAIN vectors' \subseteq Keys,
         \A key \in DOMAIN vectors' : vectors'[key] \in Vectors /\ vectors'[key].dim = dim',
         \A key \in DOMAIN vectors' : Copy(key, vectors'[key]) \in DOMAIN copies,
         IsFiniteSet(DOMAIN copies),
         \A c \in DOMAIN copies : c.vector \in Vectors /\ c.vector.dim = dim'
  PROVE  VectorInv'
<1>1. CASE Overgrown(vectors', count) /\ Rebuild(vectors')
  BY <1>1, RebuildHolds
<1>2. CASE ~Overgrown(vectors', count) /\ forest' = copies /\ entries' = count
  <2>1. entries' <= FlushFactor * Cardinality(DOMAIN vectors')
    <3>1. Cardinality(DOMAIN vectors') \in Nat
      BY FS_CardinalityType
    <3>2. FlushFactor * Cardinality(DOMAIN vectors') \in Nat
      BY <3>1, FlushFactorAssumption
    <3> QED
      BY <1>2, <3>2 DEF Overgrown
  <2>2. \A v \in Range(vectors') \cup {c.vector : c \in DOMAIN forest'} : v.dim = dim'
    BY <1>2 DEF Range
  <2> QED
    BY <1>2, <2>1, <2>2 DEF VectorInv, ForestHoldsLive, BagIn, BagToSet
<1> QED
  BY <1>1, <1>2 DEF MaybeFlush

\* What the invariant says of the index before a step.
LEMMA VectorsBefore ==
  ASSUME VectorInv
  PROVE  /\ IsFiniteSet(DOMAIN vectors) /\ DOMAIN vectors \subseteq Keys /\ entries \in Nat
         /\ IsFiniteSet(DOMAIN forest)
         /\ \A key \in DOMAIN vectors :
              /\ vectors[key] \in Vectors /\ vectors[key].dim = dim
              /\ Copy(key, vectors[key]) \in DOMAIN forest
         /\ \A c \in DOMAIN forest : c.vector \in Vectors /\ c.vector.dim = dim
         /\ dim = 0 => DOMAIN vectors = {} /\ DOMAIN forest = {}
BY DEF VectorInv, ForestHoldsLive, BagIn, BagToSet, Range

LEMMA InsertHolds ==
  ASSUME VectorInv, NEW key \in Keys, NEW v \in Vectors, InsertVector(key, v)
  PROVE  VectorInv'
<1>1. v.dim # 0 /\ dim' = v.dim /\ dim \in {0, v.dim}
  BY DEF InsertVector
<1>2. CASE UNCHANGED <<vectors, forest, entries>> /\ key \in DOMAIN vectors
  <2>1. dim' = dim
    BY <1>1, <1>2, VectorsBefore
  <2> QED
    BY <1>2, <2>1 DEF VectorInv, ForestHoldsLive
<1>3. CASE /\ vectors' = With(key, v)
           /\ MaybeFlush(vectors', forest (+) SetToBag({Copy(key, v)}), entries + 1)
  <2> DEFINE copies == forest (+) SetToBag({Copy(key, v)})
  <2>1. /\ DOMAIN vectors' = DOMAIN vectors \cup {key}
        /\ vectors'[key] = v
        /\ \A k \in DOMAIN vectors \ {key} : vectors'[k] = vectors[k]
    BY <1>3 DEF With
  <2>2. DOMAIN copies = DOMAIN forest \cup {Copy(key, v)}
    BY DEF (+), SetToBag
  <2>3. IsFiniteSet(DOMAIN vectors') /\ DOMAIN vectors' \subseteq Keys
    BY <2>1, VectorsBefore, FS_AddElement
  <2>4. \A k \in DOMAIN vectors' : vectors'[k] \in Vectors /\ vectors'[k].dim = dim'
    BY <1>1, <2>1, VectorsBefore
  <2>5. \A k \in DOMAIN vectors' : Copy(k, vectors'[k]) \in DOMAIN copies
    BY <2>1, <2>2, VectorsBefore
  <2>6. \A c \in DOMAIN copies : c.vector \in Vectors /\ c.vector.dim = dim'
    BY <1>1, <2>2, VectorsBefore DEF Copy
  <2>7. entries + 1 \in Nat /\ MaybeFlush(vectors', copies, entries + 1)
    BY <1>3, VectorsBefore
  <2>8. IsFiniteSet(DOMAIN copies)
    BY <2>2, VectorsBefore, FS_AddElement
  <2> HIDE DEF copies
  <2> QED
    BY <1>1, <2>3, <2>4, <2>5, <2>6, <2>7, <2>8, FlushHolds
<1> QED
  BY <1>2, <1>3 DEF InsertVector

LEMMA DeleteHolds ==
  ASSUME VectorInv, NEW key \in Keys, DeleteVector(key)
  PROVE  VectorInv'
<1>1. /\ DOMAIN vectors' = DOMAIN vectors \ {key} /\ dim' = dim /\ key \in DOMAIN vectors
      /\ \A k \in DOMAIN vectors' : vectors'[k] = vectors[k]
      /\ MaybeFlush(vectors', forest, entries)
  BY DEF DeleteVector, Restrict
<1>2. dim' # 0
  BY <1>1, VectorsBefore
<1>3. IsFiniteSet(DOMAIN vectors') /\ DOMAIN vectors' \subseteq Keys
  BY <1>1, VectorsBefore, FS_RemoveElement
<1>4. \A k \in DOMAIN vectors' :
        /\ vectors'[k] \in Vectors /\ vectors'[k].dim = dim'
        /\ Copy(k, vectors'[k]) \in DOMAIN forest
  BY <1>1, VectorsBefore
<1>5. /\ entries \in Nat /\ IsFiniteSet(DOMAIN forest)
      /\ \A c \in DOMAIN forest : c.vector \in Vectors /\ c.vector.dim = dim'
  BY <1>1, VectorsBefore
<1> QED
  BY <1>1, <1>2, <1>3, <1>4, <1>5, FlushHolds

LEMMA VectorStep == VectorInv /\ [VectorNext]_vectorVars => VectorInv'
<1> SUFFICES ASSUME VectorInv, [VectorNext]_vectorVars PROVE VectorInv'
  OBVIOUS
<1>1. ASSUME NEW key \in Keys, NEW v \in Vectors, InsertVector(key, v) PROVE VectorInv'
  BY <1>1, InsertHolds
<1>2. ASSUME NEW key \in Keys, NEW v \in Vectors, UpdateVector(key, v) PROVE VectorInv'
  BY <1>2, InsertHolds DEF UpdateVector
<1>3. ASSUME NEW key \in Keys, NEW v \in Vectors, InsertRefused(key, v) PROVE VectorInv'
  BY <1>3 DEF InsertRefused, vectorVars, VectorInv, ForestHoldsLive
<1>4. ASSUME NEW key \in Keys, DeleteVector(key) PROVE VectorInv'
  BY <1>4, DeleteHolds
<1>5. CASE FlushForest
  <2>1. Rebuild(vectors') /\ UNCHANGED <<vectors, dim>>
    BY <1>5 DEF FlushForest
  <2>2. CASE dim = 0
    <3>1. /\ DOMAIN forest' = {} /\ entries' = Cardinality({}) /\ DOMAIN vectors' = {}
      BY <2>1, <2>2, VectorsBefore DEF Rebuild, SetToBag
    <3>2. entries' = 0 /\ entries' <= FlushFactor * Cardinality(DOMAIN vectors')
      BY <3>1, FS_EmptySet, FlushFactorAssumption
    <3> QED
      BY <2>1, <3>1, <3>2, VectorsBefore DEF VectorInv, ForestHoldsLive, BagToSet, Range
  <2>3. CASE dim # 0
    BY <2>1, <2>3, VectorsBefore, RebuildHolds
  <2> QED
    BY <2>2, <2>3
<1>6. CASE UNCHANGED vectorVars
  BY <1>6 DEF vectorVars, VectorInv, ForestHoldsLive
<1> QED
  BY <1>1, <1>2, <1>3, <1>4, <1>5, <1>6 DEF VectorNext

\* However vectors are inserted, moved, deleted and rebuilt (rptree.go, Insert,
\* Delete, maybeFlush, Flush), the trees never lose a live vector, never hold
\* more than FlushFactor entries per live one, and hold one dimension only.
THEOREM ForestIsSound == VectorSpec => []ForestHoldsLive
<1>1. VectorInv => ForestHoldsLive
  BY DEF VectorInv
<1> QED
  BY <1>1, VectorStart, VectorStep, PTL DEF VectorSpec

-----------------------------------------------------------------------------
(* Readings.                                                               *)

\* Nearer orders the live keys strictly and totally.
LEMMA NearerOrders ==
  ASSUME VectorInv, NEW q \in Queries,
         NEW a \in DOMAIN vectors, NEW b \in DOMAIN vectors, NEW c \in DOMAIN vectors
  PROVE  /\ ~Nearer(q, a, a)
         /\ Nearer(q, a, b) /\ Nearer(q, b, c) => Nearer(q, a, c)
         /\ a # b => Nearer(q, a, b) \/ Nearer(q, b, a)
<1>1. a \in Int /\ b \in Int /\ c \in Int
  BY VectorsBefore, PointsAssumption
<1>2. \A v \in Vectors : Distance(q, v) \in Int
  BY PointsAssumption DEF Distance
<1>3. /\ Distance(q, vectors[a]) \in Int /\ Distance(q, vectors[b]) \in Int
      /\ Distance(q, vectors[c]) \in Int
  BY <1>2, VectorsBefore
<1> QED
  BY <1>1, <1>3 DEF Nearer

\* ByDistance lays the keys out by distance, and leaves none out.
LEMMA ByDistanceLaysOut ==
  ASSUME VectorInv, NEW q \in Queries, NEW S \in SUBSET DOMAIN vectors
  PROVE  /\ ByDistance(q, S) \in Seq(S) /\ ToSet(ByDistance(q, S)) = S
         /\ \A i, j \in 1 .. Len(ByDistance(q, S)) :
              i < j => Nearer(q, ByDistance(q, S)[i], ByDistance(q, S)[j])
<1> DEFINE R == {p \in S \X S : Nearer(q, p[1], p[2])}
           n == Cardinality(S)
<1>1. IsFiniteSet(S)
  BY VectorsBefore, FS_Subset
<1>2. \A a, b \in S : <<a, b>> \in R <=> Nearer(q, a, b)
  OBVIOUS
<1>3. Orders(R, S)
  <2> HIDE DEF R
  <2> QED
    BY <1>2, NearerOrders DEF Orders
<1> HIDE DEF R
<1>4. \A s \in [1 .. n -> S] :
         LaidOut(s, R, S) <=> \A i, j \in DOMAIN s : i < j => Nearer(q, s[i], s[j])
  <2> SUFFICES ASSUME NEW s \in [1 .. n -> S]
      PROVE  LaidOut(s, R, S) <=> \A i, j \in DOMAIN s : i < j => Nearer(q, s[i], s[j])
    OBVIOUS
  <2>1. DOMAIN s = 1 .. n /\ \A i \in 1 .. n : s[i] \in S
    OBVIOUS
  <2> QED
    BY <1>2, <2>1 DEF LaidOut
<1>5. \E s \in [1 .. n -> S] : \A i, j \in DOMAIN s : i < j => Nearer(q, s[i], s[j])
  <2>1. PICK s : LaidOut(s, R, S)
    BY <1>1, <1>3, Sortable
  <2>2. s \in [1 .. n -> S]
    BY <2>1 DEF LaidOut
  <2> QED
    BY <1>4, <2>1, <2>2
<1>6. LaidOut(ByDistance(q, S), R, S)
  BY <1>4, <1>5 DEF ByDistance
<1>7. /\ ByDistance(q, S) \in Seq(S) /\ Len(ByDistance(q, S)) = n /\ ToSet(ByDistance(q, S)) = S
  BY <1>1, <1>3, <1>6, LayoutIsWhole
<1> QED
  BY <1>2, <1>6, <1>7 DEF LaidOut

\* What a search that keep narrows may meet, and how far it is.
LEMMA CopiesMet ==
  ASSUME VectorInv, NEW q \in Queries, NEW keep
  PROVE  /\ IsFiniteSet(Accepted(keep))
         /\ \A c \in Accepted(keep) : Distance(q, c.vector) \in Int
         /\ \A key \in Live(keep) : /\ Copy(key, vectors[key]) \in Accepted(keep)
                                    /\ Distance(q, vectors[key]) \in Int
<1>1. \A v \in Vectors : Distance(q, v) \in Int
  BY PointsAssumption DEF Distance
<1>2. Accepted(keep) \subseteq DOMAIN forest
  BY DEF Accepted, BagToSet
<1>3. IsFiniteSet(Accepted(keep))
  BY <1>2, VectorsBefore, FS_Subset
<1>4. \A c \in Accepted(keep) : Distance(q, c.vector) \in Int
  BY <1>1, <1>2, VectorsBefore
<1>5. ASSUME NEW key \in Live(keep)
      PROVE  Copy(key, vectors[key]) \in Accepted(keep) /\ Distance(q, vectors[key]) \in Int
  <2>1. key \in DOMAIN vectors /\ key \in keep
    BY DEF Live
  <2>2. Copy(key, vectors[key]) \in DOMAIN forest /\ vectors[key] \in Vectors
    BY <2>1, VectorsBefore
  <2> QED
    BY <1>1, <2>1, <2>2 DEF Accepted, BagToSet, Copy
<1> QED
  BY <1>3, <1>4, <1>5

\* The keys that crowd one are finitely many.
LEMMA CrowdIsFinite ==
  ASSUME VectorInv, NEW q \in Queries, NEW keep, NEW key,
         NEW k \in Nat, NEW F \in SUBSET CrowdedBy(q, key, keep), Cardinality(F) = k
  PROVE  Cardinality(CrowdedBy(q, key, keep)) >= k
<1> DEFINE C == {c \in Accepted(keep) :
                   c.key # key /\ Distance(q, c.vector) <= Distance(q, vectors[key])}
           f == [c \in C |-> c.key]
<1>1. IsFiniteSet(C)
  BY CopiesMet, FS_Subset
<1>2. CrowdedBy(q, key, keep) = {f[c] : c \in C} /\ DOMAIN f = C
  BY DEF CrowdedBy
<1> HIDE DEF C, f
<1>3. IsFiniteSet(CrowdedBy(q, key, keep))
  BY <1>1, <1>2, ImageIsFinite
<1>4. /\ Cardinality(CrowdedBy(q, key, keep)) \in Nat
      /\ Cardinality(F) <= Cardinality(CrowdedBy(q, key, keep))
  BY <1>3, FS_Subset, FS_CardinalityType
<1> QED
  BY <1>4

\* The nearest copy of a key is one of them, and none is nearer.
LEMMA NearestCopy ==
  ASSUME VectorInv, NEW q \in Queries, NEW keep, NEW c \in Accepted(keep)
  PROVE  LET D == CopyDistances(q, Accepted(keep), c.key)
         IN  /\ Min(D) \in Int /\ Min(D) <= Distance(q, c.vector)
             /\ \E near \in Accepted(keep) : near.key = c.key /\ Min(D) = Distance(q, near.vector)
<1> DEFINE C == {d \in Accepted(keep) : d.key = c.key}
           f == [d \in C |-> Distance(q, d.vector)]
           D == CopyDistances(q, Accepted(keep), c.key)
<1>1. IsFiniteSet(C) /\ c \in C
  BY CopiesMet, FS_Subset
<1>2. D = {f[d] : d \in C} /\ DOMAIN f = C
  BY DEF CopyDistances
<1>3. \A d \in C : f[d] = Distance(q, d.vector) /\ f[d] \in Int
  BY CopiesMet
<1>4. \A d \in C : d \in Accepted(keep) /\ d.key = c.key
  OBVIOUS
<1> HIDE DEF C, f, D
<1>5. D \in SUBSET Int /\ IsFiniteSet(D) /\ Distance(q, c.vector) \in D /\ D # {}
  BY <1>1, <1>2, <1>3, ImageIsFinite
<1>6. Min(D) \in D /\ \A y \in D : Min(D) <= y
  BY <1>5, Extremes
<1>7. Min(D) \in Int /\ Min(D) <= Distance(q, c.vector)
  BY <1>5, <1>6
<1>8. \E near \in Accepted(keep) : near.key = c.key /\ Min(D) = Distance(q, near.vector)
  BY <1>2, <1>3, <1>4, <1>6
<1> QED
  BY <1>7, <1>8 DEF D

\* A pool over every copy turns a live key away for k others.
LEMMA PoolCrowds ==
  ASSUME VectorInv, NEW q \in Queries, NEW k \in Nat \ {0}, NEW keep, NEW key \in Live(keep),
         NEW P \in Pooled(q, k, Accepted(keep)), key \notin P
  PROVE  Cardinality(CrowdedBy(q, key, keep)) >= k
<1> DEFINE A == Accepted(keep)
           f == [c \in A |-> c.key]
           met == {c.key : c \in A}
           at(a) == Min(CopyDistances(q, A, a))
<1>1. /\ P \in SUBSET met /\ Cardinality(P) = Min({k, Cardinality(met)})
      /\ \A a \in P, b \in met \ P : at(a) <= at(b)
  BY DEF Pooled, kSubset
<1>2. PICK live \in A : live.key = key /\ live.vector = vectors[key]
  <2>1. Copy(key, vectors[key]) \in A
    BY CopiesMet
  <2> QED
    BY <2>1 DEF Copy
<1>3. IsFiniteSet(met)
  <2>1. met = {f[c] : c \in A} /\ DOMAIN f = A
    OBVIOUS
  <2>2. IsFiniteSet(A)
    BY CopiesMet
  <2> HIDE DEF f, A, met
  <2> QED
    BY <2>1, <2>2, ImageIsFinite
<1>4. key \in met \ P
  BY <1>2
<1>5. Cardinality(P) = k
  <2> HIDE DEF met, A
  <2>1. Cardinality(met) \in Nat /\ (Cardinality(P) = Cardinality(met) => P = met)
    BY <1>1, <1>3, FS_Subset, FS_CardinalityType
  <2>2. Min({k, Cardinality(met)}) \in {k, Cardinality(met)}
    <3> DEFINE both == {k} \cup {Cardinality(met)}
    <3>1. IsFiniteSet(both)
      BY FS_Singleton, FS_AddElement
    <3>2. both \in SUBSET Int /\ both # {} /\ both = {k, Cardinality(met)}
      BY <2>1
    <3> HIDE DEF both
    <3> QED
      BY <3>1, <3>2, Extremes
  <2> QED
    BY <1>1, <1>4, <2>1, <2>2
<1>6. ASSUME NEW a \in P PROVE a \in CrowdedBy(q, key, keep)
  <2>1. PICK c \in A : c.key = a
    BY <1>1
  <2>2. at(a) \in Int /\ \E near \in A : near.key = a /\ at(a) = Distance(q, near.vector)
    BY <2>1, NearestCopy
  <2>3. at(key) \in Int /\ at(key) <= Distance(q, vectors[key])
    BY <1>2, NearestCopy
  <2>4. at(a) <= at(key)
    BY <1>1, <1>4
  <2>5. Distance(q, vectors[key]) \in Int
    BY CopiesMet
  <2>6. at(a) <= Distance(q, vectors[key])
    <3> HIDE DEF at
    <3> QED
      BY <2>2, <2>3, <2>4, <2>5
  <2>7. a # key
    BY <1>4
  <2> QED
    BY <2>2, <2>6, <2>7 DEF CrowdedBy
<1> QED
  BY <1>5, <1>6, CrowdIsFinite

\* A ranking turns a live key away for k others that are alive.
LEMMA RankingCrowds ==
  ASSUME VectorInv, NEW q \in Queries, NEW k \in Nat \ {0}, NEW keep, NEW keys \in SUBSET keep,
         NEW key \in Live(keep), key \in keys, key \notin ToSet(Ranked(q, k, keys))
  PROVE  Cardinality(CrowdedBy(q, key, keep)) >= k
<1> DEFINE S == keys \cap DOMAIN vectors
           all == ByDistance(q, S)
<1>1. /\ all \in Seq(S) /\ ToSet(all) = S
      /\ \A i, j \in 1 .. Len(all) : i < j => Nearer(q, all[i], all[j])
  BY ByDistanceLaysOut
<1>2. Ranked(q, k, keys) = IF k <= 0 \/ Len(all) <= k THEN all ELSE SubSeq(all, 1, k)
  BY DEF Ranked
<1>3. key \in S /\ \A a \in S : a \in Live(keep) /\ a \in DOMAIN vectors
  BY DEF Live
<1> HIDE DEF S, all
<1>4. Len(all) \in Nat
  BY <1>1
<1>5. Ranked(q, k, keys) = SubSeq(all, 1, k) /\ k < Len(all)
  BY <1>1, <1>2, <1>3, <1>4
<1>6. \A i \in 1 .. k : i \in 1 .. Len(all) /\ all[i] \in S
  BY <1>1, <1>4, <1>5
<1>7. SubSeq(all, 1, k) \in Seq(S) /\ Len(SubSeq(all, 1, k)) = k
      /\ \A i \in 1 .. k : SubSeq(all, 1, k)[i] = all[i]
  BY <1>1, <1>4, <1>5, <1>6
<1>8. \A i \in 1 .. k : all[i] \in ToSet(SubSeq(all, 1, k))
  BY <1>7, ElementsOf
<1>9. PICK j \in 1 .. Len(all) : all[j] = key
  BY <1>1, <1>3, ElementsOf
<1>10. ~(j <= k)
  BY <1>5, <1>8, <1>9
<1> DEFINE F == {all[i] : i \in 1 .. k}
           f == [i \in 1 .. k |-> all[i]]
<1>11. \A a, b \in S : Nearer(q, a, b) => a # b /\ Distance(q, vectors[a]) <= Distance(q, vectors[b])
  <2> SUFFICES ASSUME NEW a \in S, NEW b \in S, Nearer(q, a, b)
               PROVE  a # b /\ Distance(q, vectors[a]) <= Distance(q, vectors[b])
    OBVIOUS
  <2>1. a # b
    BY <1>3, NearerOrders
  <2>2. Distance(q, vectors[a]) \in Int /\ Distance(q, vectors[b]) \in Int
    BY <1>3, CopiesMet
  <2> QED
    BY <2>1, <2>2 DEF Nearer
<1>12. Cardinality(F) = k
  <2>1. \A i, m \in 1 .. k : f[i] = f[m] => i = m
    <3> SUFFICES ASSUME NEW i \in 1 .. k, NEW m \in 1 .. k, i < m PROVE all[i] # all[m]
      OBVIOUS
    <3>1. Nearer(q, all[i], all[m])
      BY <1>1, <1>6
    <3> QED
      BY <1>6, <1>11, <3>1
  <2>2. f \in Bijection(1 .. k, F)
    BY <2>1 DEF Bijection, Injection, IsInjective, Surjection
  <2>3. ExistsBijection(1 .. k, F)
    BY <2>2 DEF ExistsBijection
  <2>4. IsFiniteSet(1 .. k) /\ Cardinality(1 .. k) = k
    BY FS_Interval
  <2> HIDE DEF F, f
  <2> QED
    BY <2>3, <2>4, FS_Bijection
<1>13. ASSUME NEW i \in 1 .. k PROVE all[i] \in CrowdedBy(q, key, keep)
  <2>1. Nearer(q, all[i], key)
    BY <1>1, <1>6, <1>9, <1>10
  <2>2. all[i] # key /\ Distance(q, vectors[all[i]]) <= Distance(q, vectors[key])
    BY <1>3, <1>6, <1>11, <2>1
  <2>3. Copy(all[i], vectors[all[i]]) \in Accepted(keep)
    BY <1>3, <1>6, CopiesMet
  <2> QED
    BY <2>2, <2>3 DEF CrowdedBy, Copy
<1>14. F \in SUBSET CrowdedBy(q, key, keep)
  BY <1>13
<1> HIDE DEF F
<1> QED
  BY <1>12, <1>14, CrowdIsFinite

LEMMA ReadingsFind ==
  ASSUME VectorInv, NEW q \in Queries, NEW k \in Nat \ {0}, NEW keep
  PROVE  FoundUnlessCrowded(q, k, keep)
<1> SUFFICES ASSUME ReadsEverything(k, keep), NEW out \in Read(q, k, keep), NEW key \in Live(keep),
                    key \notin ToSet(out)
             PROVE  Cardinality(CrowdedBy(q, key, keep)) >= k
  BY DEF FoundUnlessCrowded
<1>1. PICK f \in [Trees -> Nearest(q, k, keep)] : out = Ranked(q, k, UNION Range(f))
  BY DEF Read
<1>2. \A t \in Trees : f[t] \in Pooled(q, k, Accepted(keep))
  BY <1>1 DEF Nearest, ReadsEverything
<1>3. \A t \in Trees : f[t] \subseteq keep
  BY <1>2 DEF Pooled, kSubset, Accepted
<1> DEFINE keys == UNION Range(f)
<1>4. keys \in SUBSET keep
  BY <1>1, <1>3 DEF Range
<1>5. CASE key \in keys
  <2> HIDE DEF keys
  <2>1. key \notin ToSet(Ranked(q, k, keys))
    BY <1>1 DEF keys
  <2> QED
    BY <1>4, <1>5, <2>1, RankingCrowds
<1>6. CASE key \notin keys
  <2>1. PICK t \in Trees : TRUE
    BY TreesAssumption
  <2>2. key \notin f[t]
    BY <1>1, <1>6 DEF Range
  <2> QED
    BY <1>2, <2>2, PoolCrowds
<1> QED
  BY <1>5, <1>6

\* A search (rptree.go, read) whose walks read all of the trees misses a live
\* key only when k other keys have copies as near (trees/rptree.go, Nearest's
\* pool), whatever was inserted, moved, deleted and rebuilt before, and
\* whatever k and keep are: at its old places a key competes with itself only.
THEOREM NearestAreReturned ==
  VectorSpec =>
    /\ []FoundUnlessCrowdedOut
    /\ [](\A q \in Queries, k \in Nat \ {0}, keep \in SUBSET Keys : FoundUnlessCrowded(q, k, keep))
<1> DEFINE Every ==
      \A q \in Queries, k \in Nat \ {0}, keep \in SUBSET Keys : FoundUnlessCrowded(q, k, keep)
<1>1. VectorInv => FoundUnlessCrowdedOut /\ Every
  BY ReadingsFind DEF FoundUnlessCrowdedOut
<1> QED
  BY <1>1, VectorStart, VectorStep, PTL DEF VectorSpec

-----------------------------------------------------------------------------
(* The order of the heap, of the priorities by slot.                       *)

LEMMA ParentFacts ==
  /\ \A j \in Nat : j >= 2 => Parent(j) \in Nat /\ Parent(j) >= 1 /\ Parent(j) < j
  /\ \A i, j \in Nat : Parent(j) = i <=> j = 2 * i \/ j = 2 * i + 1
  /\ \A j, m \in Nat : j <= m => Parent(j) <= m \div 2
  /\ \A m \in Nat : m \div 2 \in Nat /\ m \div 2 <= m /\ (m \div 2 > 0 => m >= 2)
  BY DEF Parent

\* In order at and below the parents from lo; all but for v[i], which may exceed
\* its parent; all but for v[i], which its children may exceed.
InOrder(v, m, lo) == \A j \in 2 .. m : Parent(j) >= lo => v[Parent(j)] >= v[j]

ButAbove(v, m, i) ==
    /\ \A j \in 2 .. m : j # i => v[Parent(j)] >= v[j]
    /\ i >= 2 => \A j \in 2 .. m : Parent(j) = i => v[Parent(i)] >= v[j]

ButBelow(v, m, i, lo) ==
    /\ \A j \in 2 .. m : Parent(j) >= lo /\ Parent(j) # i => v[Parent(j)] >= v[j]
    /\ i >= 2 /\ Parent(i) >= lo => \A j \in 2 .. m : Parent(j) = i => v[Parent(i)] >= v[j]

Swapped(v, i, j) == [v EXCEPT ![i] = v[j], ![j] = v[i]]

LEMMA SwappedFacts ==
  ASSUME NEW m \in Nat, NEW v \in [1 .. m -> Nat], NEW i \in 1 .. m, NEW j \in 1 .. m, i # j
  PROVE  /\ Swapped(v, i, j) \in [1 .. m -> Nat]
         /\ Swapped(v, i, j)[i] = v[j] /\ Swapped(v, i, j)[j] = v[i]
         /\ \A k \in 1 .. m : k # i /\ k # j => Swapped(v, i, j)[k] = v[k]
  BY DEF Swapped

LEMMA RiseOrder ==
  ASSUME NEW m \in Nat, NEW v \in [1 .. m -> Nat], NEW i \in 2 .. m, ButAbove(v, m, i),
         v[Parent(i)] < v[i]
  PROVE  ButAbove(Swapped(v, i, Parent(i)), m, Parent(i))
<1> DEFINE p == Parent(i)
           w == Swapped(v, i, p)
<1>1. p \in 1 .. m /\ p < i /\ i \in 1 .. m /\ i # p
  BY ParentFacts
<1> HIDE DEF p
<1>2. /\ w[i] = v[p] /\ w[p] = v[i] /\ \A k \in 1 .. m : k # i /\ k # p => w[k] = v[k]
  BY ZenonT(40), <1>1, SwappedFacts
<1> HIDE DEF w
<1>3. ASSUME NEW j \in 2 .. m, j # p PROVE w[Parent(j)] >= w[j]
  <2>1. Parent(j) \in 1 .. m /\ Parent(j) # j
    BY ParentFacts
  <2>2. CASE j = i
    <3>1. w[Parent(j)] = v[i] /\ w[j] = v[p]
      BY <1>2, <2>2 DEF p
    <3> QED
      BY <1>1, <3>1 DEF p
  <2>3. CASE j # i
    <3>1. w[j] = v[j] /\ v[Parent(j)] >= v[j]
      BY <1>2, <1>3, <2>3 DEF ButAbove
    <3>2. CASE Parent(j) = i
      <4>1. w[Parent(j)] = v[p] /\ v[p] >= v[j]
        BY <1>2, <3>2 DEF ButAbove, p
      <4> QED
        BY <3>1, <4>1
    <3>3. CASE Parent(j) = p
      <4>1. w[Parent(j)] = v[i] /\ v[p] >= v[j] /\ v[i] > v[p]
        BY <1>2, <3>1, <3>3 DEF p
      <4>2. v[i] \in Nat /\ v[p] \in Nat /\ v[j] \in Nat
        BY <1>1
      <4> QED
        BY <3>1, <4>1, <4>2
    <3>4. CASE Parent(j) # i /\ Parent(j) # p
      <4>1. w[Parent(j)] = v[Parent(j)]
        BY <1>2, <2>1, <3>4
      <4> QED
        BY <3>1, <4>1
    <3> QED
      BY <3>2, <3>3, <3>4
  <2> QED
    BY <2>2, <2>3
<1>4. ASSUME p >= 2, NEW j \in 2 .. m, Parent(j) = p PROVE w[Parent(p)] >= w[j]
  <2>1. Parent(p) \in 1 .. m /\ Parent(p) < p /\ p \in 2 .. m
    BY <1>1, <1>4, ParentFacts
  <2>2. w[Parent(p)] = v[Parent(p)] /\ v[Parent(p)] >= v[p]
    BY <1>1, <1>2, <2>1 DEF ButAbove
  <2>3. CASE j = i
    BY <1>2, <2>2, <2>3
  <2>4. CASE j # i
    <3>1. j # p
      BY <1>1, <1>4, ParentFacts
    <3>2. w[j] = v[j] /\ v[p] >= v[j]
      BY <1>2, <1>4, <2>4, <3>1 DEF ButAbove
    <3>3. v[Parent(p)] \in Nat /\ v[p] \in Nat /\ v[j] \in Nat
      BY <1>1, <2>1
    <3> QED
      BY <2>2, <3>2, <3>3
  <2> QED
    BY <2>3, <2>4
<1> QED
  BY <1>3, <1>4 DEF ButAbove, w, p

\* The item sinks to a child c that no child of its slot exceeds.
LEMMA SinkOrder ==
  ASSUME NEW m \in Nat, NEW v \in [1 .. m -> Nat], NEW c \in 2 .. m, NEW lo \in Nat,
         Parent(c) >= lo, ButBelow(v, m, Parent(c), lo), v[c] > v[Parent(c)],
         \A j \in 2 .. m : Parent(j) = Parent(c) => v[c] >= v[j]
  PROVE  ButBelow(Swapped(v, Parent(c), c), m, c, lo)
<1> DEFINE i == Parent(c)
           w == Swapped(v, i, c)
<1>1. i \in 1 .. m /\ i < c /\ c \in 1 .. m /\ i # c
  BY ParentFacts
<1> HIDE DEF i
<1>2. w[i] = v[c] /\ w[c] = v[i] /\ \A k \in 1 .. m : k # i /\ k # c => w[k] = v[k]
  BY ZenonT(40), <1>1, SwappedFacts
<1> HIDE DEF w
<1>3. ASSUME NEW j \in 2 .. m, Parent(j) >= lo, Parent(j) # c PROVE w[Parent(j)] >= w[j]
  <2>1. Parent(j) \in 1 .. m /\ Parent(j) # j
    BY ParentFacts
  <2>2. v[c] \in Nat /\ v[i] \in Nat /\ v[j] \in Nat /\ v[Parent(j)] \in Nat
    BY <1>1, <2>1
  <2>3. CASE Parent(j) = i
    <3>1. w[Parent(j)] = v[c] /\ v[c] >= v[j] /\ v[c] > v[i]
      BY <1>2, <2>3 DEF i
    <3>2. w[j] = v[j] \/ w[j] = v[i]
      BY <1>2, <2>1, <2>3
    <3> QED
      BY <2>2, <3>1, <3>2
  <2>4. CASE Parent(j) # i
    <3>1. w[Parent(j)] = v[Parent(j)] /\ v[Parent(j)] >= v[j] /\ j # c
      BY <1>2, <1>3, <2>1, <2>4 DEF ButBelow, i
    <3>2. CASE j = i
      <4>1. v[Parent(i)] >= v[c]
        <5>1. i >= 2 /\ Parent(i) >= lo
          BY <1>1, <1>3, <3>2
        <5> QED
          BY <5>1 DEF ButBelow, i
      <4> QED
        BY <1>2, <3>1, <3>2, <4>1
    <3>3. CASE j # i
      BY <1>2, <3>1, <3>3
    <3> QED
      BY <3>2, <3>3
  <2> QED
    BY <2>3, <2>4
<1>4. ASSUME NEW j \in 2 .. m, Parent(j) = c PROVE w[Parent(c)] >= w[j]
  <2>1. j # c /\ j # i /\ c >= lo /\ Parent(j) # i
    <3>1. c < j
      BY <1>4, ParentFacts
    <3> QED
      BY <1>1, <1>4, <3>1 DEF i
  <2>2. w[Parent(c)] = v[c] /\ w[j] = v[j]
    BY <1>2, <2>1 DEF i
  <2>3. v[c] >= v[j]
    BY <1>4, <2>1 DEF ButBelow, i
  <2> QED
    BY <2>2, <2>3
<1> QED
  BY <1>3, <1>4 DEF ButBelow, w, i

-----------------------------------------------------------------------------
(* The slice and the map.                                                  *)

HeapItems == [key : ItemKeys, priority : Priorities]
Ranks(h) == [j \in 1 .. Len(h.items) |-> h.items[j].priority]

LEMMA MatchedFacts ==
  ASSUME NEW h, NEW q, Matched(h, q)
  PROVE  /\ Len(h.items) \in Nat /\ DOMAIN h.items = 1 .. Len(h.items)
         /\ h.items \in [1 .. Len(h.items) -> HeapItems]
         /\ Ranks(h) \in [1 .. Len(h.items) -> Nat]
         /\ \A j \in 1 .. Len(h.items) : Ranks(h)[j] = h.items[j].priority
         /\ h.lookup \in [DOMAIN q -> 1 .. Len(h.items)]
         /\ \A i \in 1 .. Len(h.items) : /\ h.items[i].key \in DOMAIN q
                                         /\ h.lookup[h.items[i].key] = i
                                         /\ h.items[i].priority = q[h.items[i].key]
         /\ \A k \in DOMAIN q : h.items[h.lookup[k]].key = k
<1>1. h.items \in Seq(HeapItems)
  BY DEF Matched, HeapItems
<1>2. Len(h.items) \in Nat /\ DOMAIN h.items = 1 .. Len(h.items)
      /\ h.items \in [1 .. Len(h.items) -> HeapItems]
  BY <1>1
<1>3. \A it \in HeapItems : it.priority \in Nat
  BY ItemsAssumption DEF HeapItems
<1>4. Ranks(h) \in [1 .. Len(h.items) -> Nat]
  <2> SUFFICES ASSUME NEW j \in 1 .. Len(h.items) PROVE h.items[j].priority \in Nat
    BY DEF Ranks
  <2>1. h.items[j] \in HeapItems
    BY <1>2
  <2> QED
    BY <1>3, <2>1
<1>5. \A j \in 1 .. Len(h.items) : Ranks(h)[j] = h.items[j].priority
  BY DEF Ranks
<1> QED
  BY <1>2, <1>4, <1>5 DEF Matched

LEMMA MatchedIs ==
  ASSUME NEW h, NEW q, NEW m \in Nat, NEW a \in [1 .. m -> HeapItems], NEW b \in [DOMAIN q -> 1 .. m],
         h = [items |-> a, lookup |-> b],
         \A i \in 1 .. m : a[i].key \in DOMAIN q /\ b[a[i].key] = i /\ a[i].priority = q[a[i].key],
         \A k \in DOMAIN q : a[b[k]].key = k
  PROVE  Matched(h, q) /\ Len(h.items) = m /\ h.items = a /\ h.lookup = b
<1>1. h.items = a /\ h.lookup = b /\ h = [items |-> h.items, lookup |-> h.lookup]
  OBVIOUS
<1>2. a \in Seq(HeapItems)
  BY SeqDef
<1>3. Len(a) = m
  BY <1>2
<1> QED
  BY <1>1, <1>2, <1>3 DEF Matched, HeapItems

LEMMA SwapMatched ==
  ASSUME NEW h, NEW q, Matched(h, q),
         NEW i \in 1 .. Len(h.items), NEW j \in 1 .. Len(h.items), i # j
  PROVE  /\ Matched(Swap(h, i, j), q) /\ Len(Swap(h, i, j).items) = Len(h.items)
         /\ Ranks(Swap(h, i, j)) = Swapped(Ranks(h), i, j)
<1> DEFINE m == Len(h.items)
           x == h.items[i]
           y == h.items[j]
           a == [h.items EXCEPT ![i] = y, ![j] = x]
           b == [h.lookup EXCEPT ![y.key] = i, ![x.key] = j]
<1>1. /\ m \in Nat /\ h.items \in [1 .. m -> HeapItems] /\ h.lookup \in [DOMAIN q -> 1 .. m]
      /\ \A n \in 1 .. m : h.items[n].key \in DOMAIN q /\ h.lookup[h.items[n].key] = n
                           /\ h.items[n].priority = q[h.items[n].key]
      /\ \A k \in DOMAIN q : h.items[h.lookup[k]].key = k
      /\ Ranks(h) \in [1 .. m -> Nat] /\ \A n \in 1 .. m : Ranks(h)[n] = h.items[n].priority
  <2>1. \A n \in 1 .. m : h.items[n].key \in DOMAIN q /\ h.lookup[h.items[n].key] = n
                          /\ h.items[n].priority = q[h.items[n].key]
    BY DEF Matched
  <2>2. \A n \in 1 .. m : Ranks(h)[n] = h.items[n].priority
    BY MatchedFacts
  <2>3. /\ m \in Nat /\ h.items \in [1 .. m -> HeapItems] /\ h.lookup \in [DOMAIN q -> 1 .. m]
        /\ \A k \in DOMAIN q : h.items[h.lookup[k]].key = k
        /\ Ranks(h) \in [1 .. m -> Nat]
    BY MatchedFacts
  <2> QED
    BY <2>1, <2>2, <2>3
<1>2. Swap(h, i, j) = [items |-> a, lookup |-> b]
  BY DEF Swap
<1>3. x \in HeapItems /\ y \in HeapItems /\ x.key \in DOMAIN q /\ y.key \in DOMAIN q /\ x.key # y.key
      /\ h.lookup[x.key] = i /\ h.lookup[y.key] = j
  <2>1. x \in HeapItems /\ y \in HeapItems
    BY <1>1
  <2>2. x.key \in DOMAIN q /\ y.key \in DOMAIN q /\ h.lookup[x.key] = i /\ h.lookup[y.key] = j
    BY <1>1
  <2> QED
    BY <2>1, <2>2
<1> HIDE DEF m
<1>4. /\ a \in [1 .. m -> HeapItems] /\ a[i] = y /\ a[j] = x
      /\ \A n \in 1 .. m : n # i /\ n # j => a[n] = h.items[n]
  BY ZenonT(40), <1>1, <1>3 DEF m
<1>5. /\ b \in [DOMAIN q -> 1 .. m] /\ b[x.key] = j /\ b[y.key] = i
      /\ \A k \in DOMAIN q : k # x.key /\ k # y.key => b[k] = h.lookup[k]
  BY <1>1, <1>3 DEF m
<1>6. x.priority = q[x.key] /\ y.priority = q[y.key]
  BY <1>1 DEF m
<1>7. x = h.items[i] /\ y = h.items[j]
  OBVIOUS
<1> HIDE DEF a, b, x, y
<1>8. ASSUME NEW n \in 1 .. m
      PROVE  a[n].key \in DOMAIN q /\ b[a[n].key] = n /\ a[n].priority = q[a[n].key]
  <2>1. CASE n # i /\ n # j
    <3>1. a[n] = h.items[n] /\ h.items[n].key \in DOMAIN q /\ h.lookup[h.items[n].key] = n
          /\ h.items[n].priority = q[h.items[n].key]
      BY <1>1, <1>4, <2>1
    <3>2. h.items[n].key # x.key /\ h.items[n].key # y.key
      BY <1>3, <2>1, <3>1
    <3> QED
      BY <1>5, <3>1, <3>2
  <2>2. CASE n = i
    BY <1>3, <1>4, <1>5, <1>6, <2>2
  <2>3. CASE n = j
    BY <1>3, <1>4, <1>5, <1>6, <2>3
  <2> QED
    BY <2>1, <2>2, <2>3
<1>9. ASSUME NEW k \in DOMAIN q PROVE a[b[k]].key = k
  <2>1. CASE k # x.key /\ k # y.key
    <3>1. b[k] = h.lookup[k] /\ h.lookup[k] \in 1 .. m /\ h.items[h.lookup[k]].key = k
      BY <1>1, <1>5, <2>1
    <3>2. h.lookup[k] # i /\ h.lookup[k] # j
      BY <1>7, <2>1, <3>1
    <3> QED
      BY <1>4, <3>1, <3>2
  <2>2. CASE k = x.key
    BY <1>4, <1>5, <2>2
  <2>3. CASE k = y.key
    BY <1>4, <1>5, <2>3
  <2> QED
    BY <2>1, <2>2, <2>3
<1>10. /\ Matched(Swap(h, i, j), q) /\ Len(Swap(h, i, j).items) = m /\ Swap(h, i, j).items = a
  <2>1. m \in Nat /\ a \in [1 .. m -> HeapItems] /\ b \in [DOMAIN q -> 1 .. m]
    BY <1>1, <1>4, <1>5
  <2>2. \A n \in 1 .. m : a[n].key \in DOMAIN q /\ b[a[n].key] = n /\ a[n].priority = q[a[n].key]
    BY <1>8
  <2>3. \A k \in DOMAIN q : a[b[k]].key = k
    BY <1>9
  <2> QED
    BY SMTT(30), <1>2, <2>1, <2>2, <2>3, MatchedIs
<1>11. Ranks(Swap(h, i, j)) = Swapped(Ranks(h), i, j)
  <2> DEFINE v == Ranks(h)
             w == Swapped(v, i, j)
  <2>1. i \in 1 .. m /\ j \in 1 .. m /\ v \in [1 .. m -> Nat]
    BY <1>1 DEF m
  <2>0. m \in Nat
    BY <1>1
  <2> HIDE DEF v
  <2>2. w \in [1 .. m -> Nat] /\ w[i] = v[j] /\ w[j] = v[i] /\ \A k \in 1 .. m : k # i /\ k # j => w[k] = v[k]
    BY SMTT(30), <2>0, <2>1, SwappedFacts
  <2>3. \A n \in 1 .. m : v[n] = h.items[n].priority
    BY <1>1 DEF v
  <2> HIDE DEF w
  <2>4. \A n \in 1 .. m : w[n] = a[n].priority
    BY <1>4, <1>7, <2>1, <2>2, <2>3
  <2>5. w = [n \in 1 .. m |-> a[n].priority]
    BY <2>2, <2>4
  <2> QED
    BY <1>10, <2>5 DEF Ranks, v, w
<1> QED
  BY <1>10, <1>11 DEF m

-----------------------------------------------------------------------------
(* The three loops, and that each runs.                                    *)

\* What a turn makes of d: c counts a heapify's parents down.
HeapTurn(op, d, c) ==
    CASE op = "rise" -> Rise(d)
      [] op = "sink" -> Sink(d)
      [] OTHER -> PercolateDown(d, c)

HeapLoop(g, m, n, op, base) ==
    /\ g = [k \in 0 .. m |-> g[k]] /\ g[0] = base
    /\ \A k \in 1 .. m : g[k] = HeapTurn(op, g[k - 1], n + 1 - k)

LEMMA HeapLoopExists ==
  ASSUME NEW n \in Nat, NEW op, NEW base
  PROVE  \E g : HeapLoop(g, n, n, op, base)
<1> DEFINE Over(g, m) == HeapLoop(g, m, n, op, base)
           T == {m \in 0 .. n : \E g : Over(g, m)}
<1>1. 0 \in T
  <2> DEFINE g == [k \in 0 .. 0 |-> base]
  <2>1. g = [k \in 0 .. 0 |-> g[k]] /\ g[0] = base /\ 1 .. 0 = {}
    OBVIOUS
  <2> HIDE DEF g
  <2>2. Over(g, 0)
    BY <2>1 DEF HeapLoop
  <2> HIDE DEF Over
  <2> QED
    BY <2>2
<1>2. ASSUME NEW m \in 0 .. n - 1, m \in T PROVE m + 1 \in T
  <2>1. PICK g : Over(g, m)
    BY <1>2
  <2> DEFINE next == HeapTurn(op, g[m], n + 1 - (m + 1))
             h == [k \in 0 .. m + 1 |-> IF k = m + 1 THEN next ELSE g[k]]
  <2>2. /\ m + 1 \in 0 .. n /\ (m + 1) - 1 = m /\ 0 # m + 1 /\ 0 \in 0 .. m + 1
        /\ m + 1 \in 0 .. m + 1 /\ m \in 0 .. m + 1 /\ m # m + 1
        /\ \A k \in 1 .. m + 1 : k = m + 1 \/ k \in 1 .. m
        /\ \A k \in 1 .. m : /\ k \in 0 .. m + 1 /\ k - 1 \in 0 .. m + 1
                             /\ k # m + 1 /\ k - 1 # m + 1
    OBVIOUS
  <2> HIDE DEF next
  <2>3. h[m + 1] = next /\ \A k \in 0 .. m + 1 : k # m + 1 => h[k] = g[k]
    BY <2>2
  <2>4. h = [k \in 0 .. m + 1 |-> h[k]]
    OBVIOUS
  <2> HIDE DEF h
  <2>5. h[0] = base
    BY <2>1, <2>2, <2>3 DEF HeapLoop
  <2>6. ASSUME NEW k \in 1 .. m + 1 PROVE h[k] = HeapTurn(op, h[k - 1], n + 1 - k)
    <3>1. CASE k = m + 1
      BY <2>2, <2>3, <3>1 DEF next
    <3>2. CASE k \in 1 .. m
      <4>1. g[k] = HeapTurn(op, g[k - 1], n + 1 - k)
        BY <2>1, <3>2 DEF HeapLoop
      <4> QED
        BY <2>2, <2>3, <3>2, <4>1
    <3> QED
      BY <2>2, <3>1, <3>2
  <2>7. Over(h, m + 1)
    BY <2>4, <2>5, <2>6 DEF HeapLoop
  <2> HIDE DEF Over
  <2> QED
    BY <2>2, <2>7
<1>3. \A k \in 0 .. n - 1 : k \in T => k + 1 \in T
  BY <1>2
<1>4. n \in 0 .. n
  OBVIOUS
<1>5. n \in T
  <2> HIDE DEF T
  <2> QED
    BY <1>1, <1>3, <1>4, Induction
<1> QED
  BY <1>5

\* A function that is one turn more at each place runs the loop.
LEMMA HeapLoopIs ==
  ASSUME NEW n \in Nat, NEW op, NEW base
  PROVE  LET Loop(f) == [k \in 0 .. n |-> IF k = 0 THEN base ELSE HeapTurn(op, f[k - 1], n + 1 - k)]
             run == CHOOSE f : f = Loop(f)
         IN HeapLoop(run, n, n, op, base)
<1> DEFINE Loop(f) == [k \in 0 .. n |-> IF k = 0 THEN base ELSE HeapTurn(op, f[k - 1], n + 1 - k)]
           run == CHOOSE f : f = Loop(f)
<1>3. \A k \in 0 .. n : k = 0 \/ k \in 1 .. n
  OBVIOUS
<1>4. \A k \in 1 .. n : k \in 0 .. n /\ k # 0
  OBVIOUS
<1>5. 0 \in 0 .. n
  OBVIOUS
<1>6. run = Loop(run)
  <2>1. PICK g : HeapLoop(g, n, n, op, base)
    BY HeapLoopExists
  <2>2. /\ g = [k \in 0 .. n |-> g[k]] /\ g[0] = base
        /\ \A k \in 1 .. n : g[k] = HeapTurn(op, g[k - 1], n + 1 - k)
    BY <2>1 DEF HeapLoop
  <2>3. g = Loop(g)
    BY <1>3, <1>4, <2>2
  <2> HIDE DEF Loop
  <2> QED
    BY <2>3
<1> HIDE DEF run
<1>7. \A k \in 0 .. n : run[k] = Loop(run)[k]
  BY <1>6
<1>8. run = [k \in 0 .. n |-> run[k]]
  BY <1>6
<1>9. run[0] = base /\ \A k \in 1 .. n : run[k] = HeapTurn(op, run[k - 1], n + 1 - k)
  BY <1>4, <1>5, <1>7
<1>10. HeapLoop(run, n, n, op, base)
  BY <1>8, <1>9 DEF HeapLoop
<1> QED
  BY <1>10 DEF run

LEMMA UpRuns ==
  ASSUME NEW h, NEW i \in Nat
  PROVE  \E g : HeapLoop(g, i, i, "rise", [heap |-> h, at |-> i]) /\ PercolateUp(h, i) = g[i].heap
<1> DEFINE base == [heap |-> h, at |-> i]
           Loop(f) == [k \in 0 .. i |-> IF k = 0 THEN base ELSE HeapTurn("rise", f[k - 1], i + 1 - k)]
           run == CHOOSE f : f = Loop(f)
<1>1. HeapLoop(run, i, i, "rise", base)
  BY HeapLoopIs
<1>2. PercolateUp(h, i) = run[i].heap
  BY DEF PercolateUp, HeapTurn
<1> HIDE DEF run, base
<1>3. \E g : HeapLoop(g, i, i, "rise", base) /\ PercolateUp(h, i) = g[i].heap
  BY <1>1, <1>2
<1> QED
  BY <1>3 DEF base

LEMMA DownRuns ==
  ASSUME NEW h, NEW i, Len(h.items) \in Nat
  PROVE  \E g : /\ HeapLoop(g, Len(h.items), Len(h.items), "sink", [heap |-> h, at |-> i])
                /\ PercolateDown(h, i) = g[Len(h.items)].heap
<1> DEFINE n == Len(h.items)
           base == [heap |-> h, at |-> i]
           Loop(f) == [k \in 0 .. n |-> IF k = 0 THEN base ELSE HeapTurn("sink", f[k - 1], n + 1 - k)]
           run == CHOOSE f : f = Loop(f)
<1>1. HeapLoop(run, n, n, "sink", base)
  BY HeapLoopIs
<1>2. PercolateDown(h, i) = run[n].heap
  BY DEF PercolateDown, HeapTurn
<1> HIDE DEF run, base, n
<1>3. \E g : HeapLoop(g, n, n, "sink", base) /\ PercolateDown(h, i) = g[n].heap
  BY <1>1, <1>2
<1> QED
  BY <1>3 DEF base, n

LEMMA HeapifyRuns ==
  ASSUME NEW items, Len(items) \div 2 \in Nat
  PROVE  LET n == Len(items) \div 2
         IN \E g : HeapLoop(g, n, n, "heapify", Unsorted(items)) /\ NewHeapCap(items) = g[n]
<1> DEFINE n == Len(items) \div 2
           base == Unsorted(items)
           Loop(f) == [k \in 0 .. n |-> IF k = 0 THEN base ELSE HeapTurn("heapify", f[k - 1], n + 1 - k)]
           run == CHOOSE f : f = Loop(f)
<1>1. HeapLoop(run, n, n, "heapify", base)
  BY HeapLoopIs
<1>2. NewHeapCap(items) = run[n]
  BY DEF NewHeapCap, HeapTurn
<1> HIDE DEF run, base, n
<1>3. \E g : HeapLoop(g, n, n, "heapify", base) /\ NewHeapCap(items) = g[n]
  BY <1>1, <1>2
<1> QED
  BY <1>3 DEF base, n

-----------------------------------------------------------------------------
(* What the percolations leave.                                            *)

\* s is a heap of m items, for the priorities q, and a slot of it.
Moving(s, q, m) ==
    Matched(s.heap, q) /\ Len(s.heap.items) = m /\ s.at \in 1 .. m

RiseDone(s) == s.at = 1 \/ Ranks(s.heap)[Parent(s.at)] >= Ranks(s.heap)[s.at]

LEMMA RiseTurn ==
  ASSUME NEW s, NEW q, NEW m \in Nat, Moving(s, q, m)
  PROVE  /\ Moving(Rise(s), q, m)
         /\ RiseDone(s) => Rise(s) = s
         /\ ~RiseDone(s) => Rise(s).at < s.at
         /\ ButAbove(Ranks(s.heap), m, s.at) => ButAbove(Ranks(Rise(s).heap), m, Rise(s).at)
<1> DEFINE h == s.heap
           i == s.at
           p == Parent(i)
           t == [heap |-> Swap(h, i, p), at |-> p]
<1>1. Matched(h, q) /\ Len(h.items) = m /\ i \in 1 .. m
  BY DEF Moving
<1>2. Ranks(h) \in [1 .. m -> Nat] /\ \A j \in 1 .. m : Ranks(h)[j] = h.items[j].priority
  <2>1. Ranks(h) \in [1 .. m -> Nat]
    BY <1>1, MatchedFacts
  <2> QED
    BY <1>1, <2>1 DEF Ranks
<1>3. CASE RiseDone(s)
  <2>1. Rise(s) = s
    <3>1. CASE i = 1
      BY <3>1 DEF Rise
    <3>2. CASE i # 1
      <4>1. p \in 1 .. m
        BY <1>1, <3>2, ParentFacts
      <4>2. h.items[p].priority >= h.items[i].priority
        BY <1>1, <1>2, <1>3, <3>2, <4>1 DEF RiseDone
      <4> QED
        BY <4>2 DEF Rise
    <3> QED
      BY <3>1, <3>2
  <2> QED
    BY <1>3, <2>1
<1>4. CASE ~RiseDone(s)
  <2>1. i \in 2 .. m /\ p \in 1 .. m /\ p < i /\ p # i
    BY <1>1, <1>4, ParentFacts DEF RiseDone
  <2>2. Ranks(h)[p] < Ranks(h)[i] /\ Ranks(h)[p] \in Nat /\ Ranks(h)[i] \in Nat
    <3>1. Ranks(h)[p] \in Nat /\ Ranks(h)[i] \in Nat
      BY <1>1, <1>2, <2>1
    <3> QED
      BY <1>4, <3>1 DEF RiseDone
  <2>3. ~(i = 1 \/ h.items[p].priority >= h.items[i].priority)
    BY <1>1, <1>2, <2>1, <2>2
  <2>4. Rise(s) = t
    BY <2>3 DEF Rise
  <2>5. t.heap = Swap(h, i, p) /\ t.at = p
    OBVIOUS
  <2>6. /\ Matched(Swap(h, i, p), q) /\ Len(Swap(h, i, p).items) = m
        /\ Ranks(Swap(h, i, p)) = Swapped(Ranks(h), i, p)
    <3>1. i \in 1 .. Len(h.items) /\ p \in 1 .. Len(h.items) /\ i # p
      BY <1>1, <2>1
    <3> QED
      BY <1>1, <3>1, SwapMatched
  <2>7. ButAbove(Ranks(h), m, i) => ButAbove(Swapped(Ranks(h), i, p), m, p)
    BY <1>2, <2>1, <2>2, RiseOrder
  <2> HIDE DEF t
  <2>8. Moving(t, q, m)
    BY <2>1, <2>5, <2>6 DEF Moving
  <2> QED
    BY <1>4, <2>1, <2>4, <2>5, <2>6, <2>7, <2>8
<1> QED
  BY <1>3, <1>4

\* Up: every item ends below one that it does not exceed.
LEMMA Risen ==
  ASSUME NEW h, NEW q, Matched(h, q), NEW i \in 1 .. Len(h.items),
         ButAbove(Ranks(h), Len(h.items), i)
  PROVE  /\ Matched(PercolateUp(h, i), q)
         /\ Len(PercolateUp(h, i).items) = Len(h.items)
         /\ InOrder(Ranks(PercolateUp(h, i)), Len(h.items), 1)
<1> DEFINE m == Len(h.items)
           base == [heap |-> h, at |-> i]
<1>1. m \in Nat /\ i \in Nat /\ i \in 1 .. m
  BY MatchedFacts
<1>2. PICK g : HeapLoop(g, i, i, "rise", base) /\ PercolateUp(h, i) = g[i].heap
  BY <1>1, UpRuns
<1>3. g[0] = base /\ \A k \in 1 .. i : g[k] = Rise(g[k - 1])
  BY <1>2 DEF HeapLoop, HeapTurn
<1>4. Moving(base, q, m) /\ base.at = i /\ ButAbove(Ranks(base.heap), m, base.at)
  BY <1>1 DEF Moving
<1> HIDE DEF base, m
<1> DEFINE T == {k \in 0 .. i : /\ Moving(g[k], q, m) /\ ButAbove(Ranks(g[k].heap), m, g[k].at)
                                /\ RiseDone(g[k]) \/ g[k].at <= i - k}
<1>5. 0 \in T
  BY <1>1, <1>3, <1>4
<1>6. ASSUME NEW k \in 0 .. i - 1, k \in T PROVE k + 1 \in T
  <2> DEFINE s == g[k]
  <2>1. k + 1 \in 1 .. i /\ (k + 1) - 1 = k /\ k + 1 \in 0 .. i
    BY <1>1
  <2>2. g[k + 1] = Rise(s)
    BY <1>3, <2>1
  <2>3. Moving(s, q, m) /\ ButAbove(Ranks(s.heap), m, s.at) /\ (RiseDone(s) \/ s.at <= i - k)
    BY <1>6
  <2> HIDE DEF s
  <2>4. Moving(Rise(s), q, m) /\ ButAbove(Ranks(Rise(s).heap), m, Rise(s).at)
    BY <1>1, <2>3, RiseTurn
  <2>5. CASE RiseDone(s)
    <3>1. Rise(s) = s
      BY <1>1, <2>3, <2>5, RiseTurn
    <3> QED
      BY <2>1, <2>2, <2>3, <2>5, <3>1
  <2>6. CASE ~RiseDone(s)
    <3>1. Rise(s).at < s.at /\ s.at <= i - k
      BY <1>1, <2>3, <2>6, RiseTurn
    <3>2. s.at \in Nat /\ Rise(s).at \in Nat
      BY <1>1, <2>3, <2>4 DEF Moving
    <3>3. Rise(s).at <= i - (k + 1)
      BY <1>1, <3>1, <3>2
    <3> QED
      BY <2>1, <2>2, <2>4, <3>3
  <2> QED
    BY <2>5, <2>6
<1>7. i \in T
  <2>1. i \in 0 .. i
    BY <1>1
  <2> HIDE DEF T
  <2>2. \A k \in 0 .. i - 1 : k \in T => k + 1 \in T
    BY <1>6
  <2> QED
    BY <1>1, <1>5, <2>1, <2>2, Induction
<1> DEFINE s == g[i]
           v == Ranks(s.heap)
<1>8. Moving(s, q, m) /\ ButAbove(v, m, s.at) /\ RiseDone(s)
  <2>1. Moving(s, q, m) /\ ButAbove(v, m, s.at) /\ (RiseDone(s) \/ s.at <= i - i)
    BY <1>7
  <2>2. s.at \in 1 .. m
    BY <2>1 DEF Moving
  <2>3. ~(s.at <= i - i)
    BY <1>1, <2>2
  <2> QED
    BY <2>1, <2>3
<1>9. InOrder(v, m, 1)
  <2> SUFFICES ASSUME NEW j \in 2 .. m PROVE v[Parent(j)] >= v[j]
    BY DEF InOrder
  <2>1. CASE j = s.at
    <3>1. s.at # 1
      BY <2>1
    <3> QED
      BY <1>8, <2>1, <3>1 DEF RiseDone
  <2>2. CASE j # s.at
    BY <1>8, <2>2 DEF ButAbove
  <2> QED
    BY <2>1, <2>2
<1> QED
  BY <1>2, <1>8, <1>9 DEF Moving, m

SinkDone(s, m) ==
    \A j \in 2 .. m : Parent(j) = s.at => Ranks(s.heap)[s.at] >= Ranks(s.heap)[j]

\* The child a turn of the sinking loop picks.
SinksTo(s, c, m) ==
    /\ c \in 2 .. m /\ Parent(c) = s.at /\ Ranks(s.heap)[c] > Ranks(s.heap)[s.at]
    /\ \A j \in 2 .. m : Parent(j) = s.at => Ranks(s.heap)[c] >= Ranks(s.heap)[j]

LEMMA SinkPicks ==
  ASSUME NEW s, NEW q, NEW m \in Nat, Moving(s, q, m)
  PROVE  /\ SinkDone(s, m) => Sink(s) = s
         /\ ~SinkDone(s, m) => \E c : /\ SinksTo(s, c, m)
                                      /\ Sink(s) = [heap |-> Swap(s.heap, s.at, c), at |-> c]
<1> DEFINE h == s.heap
           i == s.at
           v == Ranks(h)
           l == 2 * i
           r == l + 1
           b == IF l <= m /\ v[l] > v[i] THEN l ELSE i
           c == IF r <= m /\ v[r] > v[b] THEN r ELSE b
<1>1. Len(h.items) = m /\ i \in 1 .. m
  BY DEF Moving
<1>2. v \in [1 .. m -> Nat] /\ \A j \in 1 .. m : v[j] = h.items[j].priority
  <2>1. v \in [1 .. m -> Nat]
    BY <1>1, MatchedFacts DEF Moving
  <2> QED
    BY <1>1, <2>1 DEF Ranks
<1> HIDE DEF v
<1>3. l \in Nat /\ r \in Nat /\ l >= 2 /\ r >= 2 /\ l # i /\ r # i /\ l # r
  BY <1>1
<1>4. b \in 1 .. m /\ (b = l \/ b = i)
  BY <1>1, <1>3
<1>5. Sink(s) = IF c = i THEN s ELSE [heap |-> Swap(h, i, c), at |-> c]
  <2> DEFINE p(j) == h.items[j].priority
             b2 == IF l <= m /\ p(l) > p(i) THEN l ELSE i
             c2 == IF r <= m /\ p(r) > p(b2) THEN r ELSE b2
  <2>1. Sink(s) = IF c2 = i THEN s ELSE [heap |-> Swap(h, i, c2), at |-> c2]
    BY <1>1 DEF Sink
  <2>2. b2 = b
    <3>1. CASE l <= m
      <4>1. l \in 1 .. m /\ i \in 1 .. m
        BY <1>1, <1>3, <3>1
      <4>2. v[l] = p(l) /\ v[i] = p(i)
        <5> HIDE DEF l
        <5> QED
          BY <1>2, <4>1
      <4> QED
        BY <4>2
    <3>2. CASE ~(l <= m)
      BY <3>2
    <3> QED
      BY <3>1, <3>2
  <2>3. c2 = c
    <3>1. CASE r <= m
      <4>1. r \in 1 .. m /\ b \in 1 .. m
        BY <1>3, <1>4, <3>1
      <4>2. v[r] = p(r) /\ v[b] = p(b)
        <5> HIDE DEF b, r
        <5> QED
          BY <1>2, <4>1
      <4> QED
        BY <2>2, <4>2
    <3>2. CASE ~(r <= m)
      BY <2>2, <3>2
    <3> QED
      BY <3>1, <3>2
  <2> HIDE DEF c, c2
  <2> QED
    BY <2>1, <2>3
<1>6. \A j \in 2 .. m : Parent(j) = i <=> j = l \/ j = r
  <2>1. i \in Nat /\ \A j \in 2 .. m : j \in Nat
    BY <1>1
  <2>2. \A j \in Nat : Parent(j) = i <=> j = 2 * i \/ j = 2 * i + 1
    BY <2>1, ParentFacts
  <2> QED
    BY <2>1, <2>2
<1>7. v[i] \in Nat /\ (l <= m => v[l] \in Nat) /\ (r <= m => v[r] \in Nat)
  BY <1>1, <1>2, <1>3
<1> HIDE DEF l, r
<1>8. CASE SinkDone(s, m)
  <2>1. (l <= m => v[i] >= v[l]) /\ (r <= m => v[i] >= v[r])
    BY <1>3, <1>6, <1>8 DEF SinkDone, v
  <2>2. c = i
    BY <1>7, <2>1
  <2> QED
    BY <1>5, <1>8, <2>2
<1>9. CASE ~SinkDone(s, m)
  <2>1. PICK j \in 2 .. m : Parent(j) = i /\ ~(v[i] >= v[j])
    BY <1>9 DEF SinkDone, v
  <2>2. (j = l \/ j = r) /\ v[j] \in Nat
    BY <1>2, <1>6, <2>1
  <2>3. /\ c = l \/ c = r
        /\ c <= m /\ v[c] > v[i]
        /\ l <= m => v[c] >= v[l]
        /\ r <= m => v[c] >= v[r]
    <3>1. CASE l <= m /\ v[l] > v[i]
      BY <1>7, <3>1
    <3>2. CASE ~(l <= m /\ v[l] > v[i])
      <4>1. j = r /\ r <= m /\ v[r] > v[i]
        BY <1>7, <2>1, <2>2, <3>2
      <4> QED
        BY <1>7, <3>2, <4>1
    <3> QED
      BY <3>1, <3>2
  <2>4. c # i /\ c \in 2 .. m
    BY <1>3, <2>3
  <2> HIDE DEF c
  <2>5. SinksTo(s, c, m)
    <3>1. Parent(c) = i
      BY <1>6, <2>3, <2>4
    <3>2. \A k \in 2 .. m : Parent(k) = i => v[c] >= v[k]
      BY <1>6, <2>3
    <3> QED
      BY <2>3, <2>4, <3>1, <3>2 DEF SinksTo, v
  <2> QED
    BY <1>5, <1>9, <2>4, <2>5
<1> QED
  BY <1>8, <1>9

LEMMA SinkTurn ==
  ASSUME NEW s, NEW q, NEW m \in Nat, Moving(s, q, m), NEW lo \in Nat
  PROVE  /\ Moving(Sink(s), q, m)
         /\ SinkDone(s, m) => Sink(s) = s
         /\ ~SinkDone(s, m) => Sink(s).at > s.at
         /\ ButBelow(Ranks(s.heap), m, s.at, lo) /\ s.at >= lo =>
              ButBelow(Ranks(Sink(s).heap), m, Sink(s).at, lo) /\ Sink(s).at >= lo
<1>1. CASE SinkDone(s, m)
  <2>1. Sink(s) = s
    BY <1>1, SinkPicks
  <2> QED
    BY <1>1, <2>1
<1>2. CASE ~SinkDone(s, m)
  <2>1. PICK c : SinksTo(s, c, m) /\ Sink(s) = [heap |-> Swap(s.heap, s.at, c), at |-> c]
    BY <1>2, SinkPicks
  <2> DEFINE h == s.heap
             i == s.at
             t == [heap |-> Swap(s.heap, s.at, c), at |-> c]
  <2>2. t.heap = Swap(h, i, c) /\ t.at = c /\ Sink(s) = t
    BY <2>1
  <2> HIDE DEF t
  <2>3. Matched(h, q) /\ Len(h.items) = m /\ i \in 1 .. m
    BY DEF Moving
  <2>4. c \in 2 .. m /\ Parent(c) = i /\ Ranks(h)[c] > Ranks(h)[i]
        /\ \A j \in 2 .. m : Parent(j) = i => Ranks(h)[c] >= Ranks(h)[j]
    BY <2>1 DEF SinksTo
  <2>5. i < c /\ c \in 1 .. m /\ i # c
    BY <2>4, ParentFacts
  <2>6. /\ Matched(Swap(h, i, c), q) /\ Len(Swap(h, i, c).items) = m
        /\ Ranks(Swap(h, i, c)) = Swapped(Ranks(h), i, c)
    <3>1. i \in 1 .. Len(h.items) /\ c \in 1 .. Len(h.items)
      BY <2>3, <2>5
    <3> QED
      BY <2>3, <2>5, <3>1, SwapMatched
  <2>7. Ranks(h) \in [1 .. m -> Nat]
    BY <2>3, MatchedFacts
  <2>8. ASSUME ButBelow(Ranks(h), m, i, lo), i >= lo
        PROVE  ButBelow(Swapped(Ranks(h), i, c), m, c, lo) /\ c >= lo
    <3> DEFINE v == Ranks(h)
    <3>1. /\ v \in [1 .. m -> Nat] /\ Parent(c) >= lo /\ ButBelow(v, m, Parent(c), lo)
          /\ v[c] > v[Parent(c)] /\ \A j \in 2 .. m : Parent(j) = Parent(c) => v[c] >= v[j]
      BY <2>4, <2>7, <2>8
    <3> HIDE DEF v
    <3>2. ButBelow(Swapped(v, Parent(c), c), m, c, lo)
      BY <2>4, <3>1, SinkOrder
    <3>3. c >= lo
      BY <2>3, <2>5, <2>8
    <3> QED
      BY <2>4, <3>2, <3>3 DEF v
  <2>9. Moving(t, q, m)
    BY <2>2, <2>5, <2>6 DEF Moving
  <2> QED
    BY <1>2, <2>2, <2>5, <2>6, <2>8, <2>9
<1> QED
  BY <1>1, <1>2

\* Down: in order again from lo on, if only the children of i were too high.
LEMMA Sunk ==
  ASSUME NEW h, NEW q, Matched(h, q), NEW i \in 1 .. Len(h.items), NEW lo \in 1 .. i
  PROVE  /\ Matched(PercolateDown(h, i), q)
         /\ Len(PercolateDown(h, i).items) = Len(h.items)
         /\ ButBelow(Ranks(h), Len(h.items), i, lo) =>
              InOrder(Ranks(PercolateDown(h, i)), Len(h.items), lo)
<1> DEFINE m == Len(h.items)
           base == [heap |-> h, at |-> i]
           Low(s) == ButBelow(Ranks(h), m, i, lo) => ButBelow(Ranks(s.heap), m, s.at, lo) /\ s.at >= lo
<1>1. m \in Nat /\ i \in Nat /\ i \in 1 .. m /\ lo \in Nat /\ i >= lo
  BY MatchedFacts
<1>2. PICK g : HeapLoop(g, m, m, "sink", base) /\ PercolateDown(h, i) = g[m].heap
  BY <1>1, DownRuns
<1>3. g[0] = base /\ \A k \in 1 .. m : g[k] = Sink(g[k - 1])
  BY <1>2 DEF HeapLoop, HeapTurn
<1>4. Moving(base, q, m) /\ base.at = i /\ Low(base)
  BY <1>1 DEF Moving
<1> HIDE DEF base, m, Low
<1> DEFINE T == {k \in 0 .. m : /\ Moving(g[k], q, m) /\ Low(g[k])
                                /\ SinkDone(g[k], m) \/ g[k].at >= i + k}
<1>5. 0 \in T
  BY <1>1, <1>3, <1>4
<1>6. ASSUME NEW k \in 0 .. m - 1, k \in T PROVE k + 1 \in T
  <2> DEFINE s == g[k]
  <2>1. k + 1 \in 1 .. m /\ (k + 1) - 1 = k /\ k + 1 \in 0 .. m
    BY <1>1
  <2>2. g[k + 1] = Sink(s)
    BY <1>3, <2>1
  <2>3. Moving(s, q, m) /\ Low(s) /\ (SinkDone(s, m) \/ s.at >= i + k)
    BY <1>6
  <2> HIDE DEF s
  <2>4. Moving(Sink(s), q, m) /\ Low(Sink(s))
    BY <1>1, <2>3, SinkTurn DEF Low
  <2>5. CASE SinkDone(s, m)
    <3>1. Sink(s) = s
      BY <1>1, <2>3, <2>5, SinkTurn
    <3> QED
      BY <2>1, <2>2, <2>3, <2>5, <3>1
  <2>6. CASE ~SinkDone(s, m)
    <3>1. Sink(s).at > s.at /\ s.at >= i + k
      BY <1>1, <2>3, <2>6, SinkTurn
    <3>2. s.at \in Nat /\ Sink(s).at \in Nat
      BY <1>1, <2>3, <2>4 DEF Moving
    <3>3. Sink(s).at >= i + (k + 1)
      BY <1>1, <3>1, <3>2
    <3> QED
      BY <2>1, <2>2, <2>4, <3>3
  <2> QED
    BY <2>5, <2>6
<1>7. m \in T
  <2>1. m \in 0 .. m
    BY <1>1
  <2> HIDE DEF T
  <2>2. \A k \in 0 .. m - 1 : k \in T => k + 1 \in T
    BY <1>6
  <2> QED
    BY <1>1, <1>5, <2>1, <2>2, Induction
<1> DEFINE s == g[m]
           v == Ranks(s.heap)
<1>8. Moving(s, q, m) /\ Low(s) /\ SinkDone(s, m)
  <2>1. Moving(s, q, m) /\ Low(s) /\ (SinkDone(s, m) \/ s.at >= i + m)
    BY <1>7
  <2>2. s.at \in 1 .. m
    BY <2>1 DEF Moving
  <2>3. ~(s.at >= i + m)
    BY <1>1, <2>2
  <2> QED
    BY <2>1, <2>3
<1>9. ASSUME ButBelow(Ranks(h), m, i, lo) PROVE InOrder(v, m, lo)
  <2>1. ButBelow(v, m, s.at, lo)
    BY <1>8, <1>9 DEF Low
  <2> SUFFICES ASSUME NEW j \in 2 .. m, Parent(j) >= lo PROVE v[Parent(j)] >= v[j]
    BY DEF InOrder
  <2>2. CASE Parent(j) = s.at
    BY <1>8, <2>2 DEF SinkDone
  <2>3. CASE Parent(j) # s.at
    BY <2>1, <2>3 DEF ButBelow
  <2> QED
    BY <2>2, <2>3
<1> QED
  BY <1>2, <1>8, <1>9 DEF Moving, m

-----------------------------------------------------------------------------
(* One item less, and one more.                                            *)

Without(q, key) == Restrict(q, DOMAIN q \ {key})

LEMMA WithoutFacts ==
  ASSUME NEW q, NEW key
  PROVE  /\ DOMAIN Without(q, key) = DOMAIN q \ {key}
         /\ \A k \in DOMAIN q : k # key => Without(q, key)[k] = q[k]
  BY DEF Without, Restrict

LEMMA FrontFacts ==
  ASSUME NEW S, NEW m \in Nat \ {0}, NEW s \in [1 .. m -> S]
  PROVE  /\ Len(s) = m /\ Last(s) = s[m]
         /\ Front(s) \in [1 .. m - 1 -> S]
         /\ \A j \in 1 .. m - 1 : Front(s)[j] = s[j]
         /\ m = 1 => Front(s) = <<>>
<1>1. s \in Seq(S) /\ Len(s) = m
  BY SeqDef
<1>2. Front(s) = SubSeq(s, 1, m - 1)
  BY <1>1 DEF Front
<1>3. SubSeq(s, 1, m - 1) \in Seq(S) /\ Len(SubSeq(s, 1, m - 1)) = m - 1
      /\ \A j \in 1 .. m - 1 : SubSeq(s, 1, m - 1)[j] = s[j]
  BY <1>1
<1>4. Front(s) \in [1 .. m - 1 -> S]
  <2>1. \A u \in Seq(S) : u \in [1 .. Len(u) -> S]
    OBVIOUS
  <2> QED
    BY <1>2, <1>3, <2>1
<1>5. m = 1 => Front(s) = <<>>
  BY <1>2, <1>3
<1> QED
  BY <1>1, <1>2, <1>3, <1>4, <1>5 DEF Last

LEMMA ForgetIs ==
  ASSUME NEW h, NEW q, Matched(h, q), NEW key
  PROVE  /\ Forget(h, key) = [items |-> h.items, lookup |-> Forget(h, key).lookup]
         /\ Forget(h, key).items = h.items
         /\ Forget(h, key).lookup \in [DOMAIN q \ {key} -> 1 .. Len(h.items)]
         /\ \A k \in DOMAIN q \ {key} : Forget(h, key).lookup[k] = h.lookup[k]
<1>1. h = [items |-> h.items, lookup |-> h.lookup] /\ h.lookup \in [DOMAIN q -> 1 .. Len(h.items)]
  BY DEF Matched
<1> DEFINE b == Restrict(h.lookup, DOMAIN h.lookup \ {key})
<1>2. b \in [DOMAIN q \ {key} -> 1 .. Len(h.items)] /\ \A k \in DOMAIN q \ {key} : b[k] = h.lookup[k]
  BY <1>1 DEF Restrict
<1>3. Forget(h, key) = [items |-> h.items, lookup |-> b]
  BY <1>1 DEF Forget
<1> HIDE DEF b
<1> QED
  BY <1>2, <1>3

\* The slot of a key that goes takes the last item.
LEMMA FillSlotFacts ==
  ASSUME NEW h, NEW q, Matched(h, q), NEW key \in DOMAIN q,
         h.lookup[key] # Len(h.items)
  PROVE  LET m == Len(h.items)
             i == h.lookup[key]
             t == FillSlot(Forget(h, key), i)
         IN /\ Matched(t, Without(q, key)) /\ Len(t.items) = m - 1 /\ i \in 1 .. m - 1
            /\ Ranks(t)[i] = Ranks(h)[m]
            /\ \A j \in 1 .. m - 1 : j # i => Ranks(t)[j] = Ranks(h)[j]
<1> DEFINE m == Len(h.items)
           i == h.lookup[key]
           r == Forget(h, key)
           t == FillSlot(r, i)
           last == h.items[m]
           c == [h.items EXCEPT ![i] = last]
           a == Front(c)
           b == [r.lookup EXCEPT ![last.key] = i]
           q1 == Without(q, key)
<1>1. /\ m \in Nat /\ h.items \in [1 .. m -> HeapItems] /\ i \in 1 .. m
      /\ h.items[i].key = key
  BY MatchedFacts
<1>2. \A j \in 1 .. m : /\ h.items[j].key \in DOMAIN q /\ h.lookup[h.items[j].key] = j
                        /\ h.items[j].priority = q[h.items[j].key]
  BY MatchedFacts
<1>3. \A k \in DOMAIN q : h.lookup[k] \in 1 .. m /\ h.items[h.lookup[k]].key = k
  BY MatchedFacts
<1>4. /\ r.items = h.items /\ r.lookup \in [DOMAIN q \ {key} -> 1 .. m]
      /\ \A k \in DOMAIN q \ {key} : r.lookup[k] = h.lookup[k]
  <2>1. r.items = h.items /\ r.lookup \in [DOMAIN q \ {key} -> 1 .. m]
    BY ForgetIs
  <2>2. \A k \in DOMAIN q \ {key} : r.lookup[k] = h.lookup[k]
    BY DEF Matched, Forget, Restrict
  <2> QED
    BY <2>1, <2>2
<1>5. DOMAIN q1 = DOMAIN q \ {key} /\ \A k \in DOMAIN q : k # key => q1[k] = q[k]
  BY WithoutFacts
<1>6. m \in Nat \ {0} /\ m \in 1 .. m /\ i \in 1 .. m - 1 /\ m # i
  BY <1>1
<1>7. Last(h.items) = last
  BY DEF Last
<1>8. t = [items |-> a, lookup |-> b]
  BY <1>4, <1>7 DEF FillSlot
<1>9. last \in HeapItems /\ last.key \in DOMAIN q /\ last.key # key /\ h.lookup[last.key] = m
      /\ last.priority = q[last.key]
  <2>1. last \in HeapItems
    BY <1>1, <1>6
  <2>2. last.key \in DOMAIN q /\ h.lookup[last.key] = m /\ last.priority = q[last.key]
    BY <1>2, <1>6
  <2> QED
    BY <1>6, <2>1, <2>2
<1> HIDE DEF m, i, r, t, q1
<1>10. c \in [1 .. m -> HeapItems] /\ c[i] = last /\ \A j \in 1 .. m : j # i => c[j] = h.items[j]
  BY <1>1, <1>9
<1> HIDE DEF c
<1>11. a \in [1 .. m - 1 -> HeapItems] /\ \A j \in 1 .. m - 1 : a[j] = c[j]
  BY <1>6, <1>10, FrontFacts
<1> HIDE DEF a
<1>12. a[i] = last /\ \A j \in 1 .. m - 1 : j # i => a[j] = h.items[j] /\ j \in 1 .. m /\ j # m
  BY <1>6, <1>10, <1>11
<1>13. /\ b[last.key] = i /\ DOMAIN b = DOMAIN q \ {key}
       /\ \A k \in DOMAIN q \ {key} : k # last.key => b[k] = h.lookup[k]
  BY <1>4, <1>9
<1> HIDE DEF b, last
<1>14. \A k \in DOMAIN q \ {key} : k # last.key => h.lookup[k] \in 1 .. m - 1 /\ h.lookup[k] # i
  <2> SUFFICES ASSUME NEW k \in DOMAIN q \ {key}, k # last.key
               PROVE  h.lookup[k] \in 1 .. m - 1 /\ h.lookup[k] # i
    OBVIOUS
  <2>1. h.lookup[k] \in 1 .. m /\ h.items[h.lookup[k]].key = k
    BY <1>3
  <2>2. h.lookup[k] # m /\ h.lookup[k] # i
    BY <1>1, <2>1 DEF last
  <2> QED
    BY <1>1, <2>1, <2>2
<1>15. b \in [DOMAIN q1 -> 1 .. m - 1]
  <2>1. \A k \in DOMAIN q \ {key} : b[k] \in 1 .. m - 1
    BY <1>6, <1>13, <1>14
  <2>2. b = [k \in DOMAIN q \ {key} |-> b[k]]
    BY <1>4, <1>13 DEF b
  <2> QED
    BY <1>5, <2>1, <2>2
<1>16. ASSUME NEW j \in 1 .. m - 1
       PROVE  a[j].key \in DOMAIN q1 /\ b[a[j].key] = j /\ a[j].priority = q1[a[j].key]
  <2>1. CASE j = i
    BY <1>5, <1>9, <1>12, <1>13, <2>1
  <2>2. CASE j # i
    <3>1. a[j] = h.items[j] /\ h.items[j].key \in DOMAIN q /\ h.lookup[h.items[j].key] = j
          /\ h.items[j].priority = q[h.items[j].key] /\ j # m
      BY <1>2, <1>12, <2>2
    <3>2. h.items[j].key # key /\ h.items[j].key # last.key
      BY <1>9, <2>2, <3>1 DEF i
    <3> QED
      BY <1>5, <1>13, <3>1, <3>2
  <2> QED
    BY <2>1, <2>2
<1>17. ASSUME NEW k \in DOMAIN q1 PROVE a[b[k]].key = k
  <2>1. k \in DOMAIN q \ {key}
    BY <1>5
  <2>2. CASE k = last.key
    BY <1>12, <1>13, <2>2
  <2>3. CASE k # last.key
    BY <1>3, <1>12, <1>13, <1>14, <2>1, <2>3
  <2> QED
    BY <2>2, <2>3
<1>18. Matched(t, q1) /\ Len(t.items) = m - 1 /\ t.items = a
  <2>1. m - 1 \in Nat
    BY <1>6
  <2>2. \A j \in 1 .. m - 1 : a[j].key \in DOMAIN q1 /\ b[a[j].key] = j /\ a[j].priority = q1[a[j].key]
    BY <1>16
  <2>3. \A k \in DOMAIN q1 : a[b[k]].key = k
    BY <1>17
  <2>4. a \in [1 .. m - 1 -> HeapItems] /\ b \in [DOMAIN q1 -> 1 .. m - 1]
    BY <1>11, <1>15
  <2> DEFINE n == m - 1
  <2>5. /\ n \in Nat /\ t = [items |-> a, lookup |-> b]
        /\ a \in [1 .. n -> HeapItems] /\ b \in [DOMAIN q1 -> 1 .. n]
        /\ \A j \in 1 .. n : a[j].key \in DOMAIN q1 /\ b[a[j].key] = j /\ a[j].priority = q1[a[j].key]
    BY <1>8, <2>1, <2>2, <2>4
  <2> HIDE DEF n
  <2>6. Matched(t, q1) /\ Len(t.items) = n /\ t.items = a
    BY SMTT(30), <2>3, <2>5, MatchedIs
  <2> QED
    BY <2>6 DEF n
<1>19. Ranks(t)[i] = Ranks(h)[m]
  <2>1. Ranks(t)[i] = a[i].priority
    BY <1>6, <1>18 DEF Ranks
  <2>2. Ranks(h)[m] = last.priority
    BY <1>6 DEF Ranks, m, last
  <2> QED
    BY <1>12, <2>1, <2>2
<1>20. \A j \in 1 .. m - 1 : j # i => Ranks(t)[j] = Ranks(h)[j]
  <2> SUFFICES ASSUME NEW j \in 1 .. m - 1, j # i PROVE Ranks(t)[j] = Ranks(h)[j]
    OBVIOUS
  <2>1. a[j] = h.items[j] /\ j \in 1 .. m
    BY <1>12
  <2>2. Ranks(t)[j] = a[j].priority
    BY <1>18 DEF Ranks
  <2>3. Ranks(h)[j] = h.items[j].priority
    BY <2>1 DEF Ranks, m
  <2> QED
    BY <2>1, <2>2, <2>3
<1> QED
  BY <1>6, <1>18, <1>19, <1>20 DEF m, i, r, t, q1

\* The key of the last slot goes.
LEMMA DropFacts ==
  ASSUME NEW h, NEW q, Matched(h, q), NEW key \in DOMAIN q,
         h.lookup[key] = Len(h.items), NEW t,
         t = [items |-> Front(h.items), lookup |-> Forget(h, key).lookup]
  PROVE  LET m == Len(h.items)
         IN /\ Matched(t, Without(q, key)) /\ Len(t.items) = m - 1 /\ m \in Nat \ {0}
            /\ \A j \in 1 .. m - 1 : Ranks(t)[j] = Ranks(h)[j]
<1> DEFINE m == Len(h.items)
           a == Front(h.items)
           b == Forget(h, key).lookup
           q1 == Without(q, key)
<1>1. /\ m \in Nat /\ h.items \in [1 .. m -> HeapItems] /\ m \in 1 .. m
      /\ h.items[m].key = key
  <2>1. m \in Nat /\ h.items \in [1 .. m -> HeapItems] /\ h.lookup[key] \in 1 .. m
    BY MatchedFacts
  <2>2. h.items[h.lookup[key]].key = key
    BY MatchedFacts
  <2> QED
    BY <2>1, <2>2
<1>2. \A j \in 1 .. m : /\ h.items[j].key \in DOMAIN q /\ h.lookup[h.items[j].key] = j
                        /\ h.items[j].priority = q[h.items[j].key]
  BY DEF Matched
<1>3. \A k \in DOMAIN q : h.lookup[k] \in 1 .. m /\ h.items[h.lookup[k]].key = k
  BY MatchedFacts
<1>4. b \in [DOMAIN q \ {key} -> 1 .. m] /\ \A k \in DOMAIN q \ {key} : b[k] = h.lookup[k]
  <2>1. b \in [DOMAIN q \ {key} -> 1 .. m]
    BY ForgetIs
  <2>2. \A k \in DOMAIN q \ {key} : b[k] = h.lookup[k]
    BY DEF Matched, Forget, Restrict
  <2> QED
    BY <2>1, <2>2
<1>5. DOMAIN q1 = DOMAIN q \ {key} /\ \A k \in DOMAIN q : k # key => q1[k] = q[k]
  BY WithoutFacts
<1>6. m \in Nat \ {0} /\ m - 1 \in Nat /\ \A j \in 1 .. m - 1 : j \in 1 .. m /\ j # m
  BY <1>1
<1>7. h.lookup[key] = m
  OBVIOUS
<1> HIDE DEF m, b, q1
<1>8. a \in [1 .. m - 1 -> HeapItems] /\ \A j \in 1 .. m - 1 : a[j] = h.items[j]
  <2>1. m \in Nat \ {0} /\ h.items \in [1 .. m -> HeapItems]
    BY <1>1, <1>6
  <2>2. a \in [1 .. m - 1 -> HeapItems]
    BY <2>1, FrontFacts
  <2>3. ASSUME NEW j \in 1 .. m - 1 PROVE a[j] = h.items[j]
    <3>1. h.items \in Seq(HeapItems) /\ Len(h.items) = m
      BY DEF Matched, HeapItems, m
    <3> QED
      BY <2>1, <3>1 DEF Front
  <2> QED
    BY <2>2, <2>3
<1> HIDE DEF a
<1>9. b \in [DOMAIN q1 -> 1 .. m - 1]
  <2>1. ASSUME NEW k \in DOMAIN q \ {key} PROVE b[k] \in 1 .. m - 1
    <3>1. b[k] = h.lookup[k] /\ h.lookup[k] \in 1 .. m /\ h.items[h.lookup[k]].key = k /\ k # key
      BY <1>3, <1>4
    <3>2. h.lookup[k] # m
      BY <1>1, <3>1
    <3> QED
      BY <1>1, <3>1, <3>2
  <2> QED
    BY <1>4, <1>5, <2>1
<1>10. ASSUME NEW j \in 1 .. m - 1
       PROVE  a[j].key \in DOMAIN q1 /\ b[a[j].key] = j /\ a[j].priority = q1[a[j].key]
  <2>1. a[j] = h.items[j] /\ h.items[j].key \in DOMAIN q /\ h.lookup[h.items[j].key] = j
        /\ h.items[j].priority = q[h.items[j].key] /\ j # m
    BY <1>2, <1>6, <1>8
  <2>2. h.items[j].key # key
    BY <1>7, <2>1
  <2> QED
    BY <1>4, <1>5, <2>1, <2>2
<1>11. ASSUME NEW k \in DOMAIN q1 PROVE a[b[k]].key = k
  <2>1. k \in DOMAIN q \ {key} /\ b[k] = h.lookup[k] /\ b[k] \in 1 .. m - 1
    BY <1>4, <1>5, <1>9
  <2> QED
    BY <1>3, <1>8, <2>1
<1>12. Matched(t, q1) /\ Len(t.items) = m - 1 /\ t.items = a
  <2>1. t = [items |-> a, lookup |-> b]
    BY DEF a, b
  <2>2. \A j \in 1 .. m - 1 : a[j].key \in DOMAIN q1 /\ b[a[j].key] = j /\ a[j].priority = q1[a[j].key]
    BY <1>10
  <2>3. \A k \in DOMAIN q1 : a[b[k]].key = k
    BY <1>11
  <2> QED
    BY <1>6, <1>8, <1>9, <2>1, <2>2, <2>3, MatchedIs
<1>13. ASSUME NEW j \in 1 .. m - 1 PROVE Ranks(t)[j] = Ranks(h)[j]
  <2>1. Ranks(t)[j] = a[j].priority
    BY <1>12 DEF Ranks
  <2>2. Ranks(h)[j] = h.items[j].priority
    BY <1>6 DEF Ranks, m
  <2> QED
    BY <1>8, <2>1, <2>2
<1> QED
  BY <1>6, <1>12, <1>13 DEF m, q1

\* A new key comes last.
LEMMA AppendFacts ==
  ASSUME NEW h, NEW q, Matched(h, q), NEW key \in ItemKeys, key \notin DOMAIN q,
         NEW p \in Priorities
  PROVE  LET m == Len(h.items)
             t == [items |-> Append(h.items, Item(key, p)), lookup |-> Placed(h.lookup, key, m + 1)]
         IN /\ Matched(t, Placed(q, key, p)) /\ Len(t.items) = m + 1 /\ m \in Nat
            /\ \A j \in 1 .. m : Ranks(t)[j] = Ranks(h)[j]
<1> DEFINE m == Len(h.items)
           a == Append(h.items, Item(key, p))
           b == Placed(h.lookup, key, m + 1)
           t == [items |-> a, lookup |-> b]
           q1 == Placed(q, key, p)
<1>1. m \in Nat /\ h.items \in [1 .. m -> HeapItems] /\ h.lookup \in [DOMAIN q -> 1 .. m]
  BY MatchedFacts
<1>2. \A j \in 1 .. m : /\ h.items[j].key \in DOMAIN q /\ h.lookup[h.items[j].key] = j
                        /\ h.items[j].priority = q[h.items[j].key]
  BY MatchedFacts
<1>3. \A k \in DOMAIN q : h.lookup[k] \in 1 .. m /\ h.items[h.lookup[k]].key = k
  BY MatchedFacts
<1>4. Item(key, p) \in HeapItems /\ Item(key, p).key = key /\ Item(key, p).priority = p
  BY DEF Item, HeapItems
<1>5. DOMAIN q1 = DOMAIN q \cup {key} /\ q1[key] = p /\ \A k \in DOMAIN q : q1[k] = q[k]
  BY DEF Placed
<1>6. /\ m + 1 \in Nat /\ m + 1 \in 1 .. m + 1
      /\ \A j \in 1 .. m + 1 : j = m + 1 \/ j \in 1 .. m
      /\ \A j \in 1 .. m : j \in 1 .. m + 1
  BY <1>1
<1>7. h.items \in Seq(HeapItems) /\ Len(h.items) = m
  BY DEF Matched, HeapItems
<1> HIDE DEF m, q1
<1>8. /\ a \in [1 .. m + 1 -> HeapItems] /\ a[m + 1] = Item(key, p)
      /\ \A j \in 1 .. m : a[j] = h.items[j]
  <2>1. a \in Seq(HeapItems) /\ Len(a) = m + 1
    BY <1>4, <1>7
  <2>2. \A u \in Seq(HeapItems) : u \in [1 .. Len(u) -> HeapItems]
    OBVIOUS
  <2>3. a \in [1 .. m + 1 -> HeapItems]
    BY <2>1, <2>2
  <2>4. a[m + 1] = Item(key, p) /\ \A j \in 1 .. m : a[j] = h.items[j]
    BY <1>1, <1>4, <1>7
  <2> QED
    BY <2>3, <2>4
<1>9. b \in [DOMAIN q1 -> 1 .. m + 1] /\ b[key] = m + 1 /\ \A k \in DOMAIN q : b[k] = h.lookup[k]
  BY <1>1, <1>5, <1>6 DEF Placed
<1> HIDE DEF a, b
<1>10. ASSUME NEW j \in 1 .. m + 1
       PROVE  a[j].key \in DOMAIN q1 /\ b[a[j].key] = j /\ a[j].priority = q1[a[j].key]
  <2>1. CASE j = m + 1
    BY <1>4, <1>5, <1>8, <1>9, <2>1
  <2>2. CASE j \in 1 .. m
    <3>1. a[j] = h.items[j] /\ h.items[j].key \in DOMAIN q /\ h.lookup[h.items[j].key] = j
          /\ h.items[j].priority = q[h.items[j].key]
      BY <1>2, <1>8, <2>2
    <3> QED
      BY <1>5, <1>9, <3>1
  <2> QED
    BY <1>6, <2>1, <2>2
<1>11. ASSUME NEW k \in DOMAIN q1 PROVE a[b[k]].key = k
  <2>1. CASE k = key
    BY <1>4, <1>8, <1>9, <2>1
  <2>2. CASE k \in DOMAIN q
    BY <1>3, <1>8, <1>9, <2>2
  <2> QED
    BY <1>5, <2>1, <2>2
<1>12. Matched(t, q1) /\ Len(t.items) = m + 1 /\ t.items = a
  <2>1. t = [items |-> a, lookup |-> b]
    OBVIOUS
  <2> HIDE DEF t
  <2>2. \A j \in 1 .. m + 1 : a[j].key \in DOMAIN q1 /\ b[a[j].key] = j /\ a[j].priority = q1[a[j].key]
    BY <1>10
  <2>3. \A k \in DOMAIN q1 : a[b[k]].key = k
    BY <1>11
  <2> QED
    BY SMTT(30), <1>6, <1>8, <1>9, <2>1, <2>2, <2>3, MatchedIs
<1> HIDE DEF t
<1>13. ASSUME NEW j \in 1 .. m PROVE Ranks(t)[j] = Ranks(h)[j]
  <2>1. Ranks(t)[j] = a[j].priority
    BY <1>6, <1>12 DEF Ranks
  <2>2. Ranks(h)[j] = h.items[j].priority
    BY DEF Ranks, m
  <2> QED
    BY <1>8, <2>1, <2>2
<1> QED
  BY <1>1, <1>12, <1>13 DEF m, q1, t, a, b

-----------------------------------------------------------------------------
(* The operations keep the heap.                                           *)

HeapHolds(h, q) == Matched(h, q) /\ InOrder(Ranks(h), Len(h.items), 1)

\* v without its last, which is w's i-th.
LEMMA FilledOrder ==
  ASSUME NEW m \in Nat, NEW v \in [1 .. m -> Nat], InOrder(v, m, 1), NEW i \in 1 .. m - 1,
         NEW w \in [1 .. m - 1 -> Nat], \A j \in 1 .. m - 1 : j # i => w[j] = v[j]
  PROVE  /\ i >= 2 /\ w[i] > w[Parent(i)] => ButAbove(w, m - 1, i)
         /\ ~(i >= 2 /\ w[i] > w[Parent(i)]) => ButBelow(w, m - 1, i, 1)
<1>1. \A j \in 2 .. m : Parent(j) \in 1 .. m /\ Parent(j) >= 1 /\ Parent(j) < j /\ Parent(j) # j
  BY ParentFacts
<1>2. \A j \in 2 .. m : v[Parent(j)] >= v[j] /\ v[j] \in Nat /\ v[Parent(j)] \in Nat
  BY <1>1 DEF InOrder
<1>3. \A j \in 2 .. m - 1 : j \in 2 .. m /\ j \in 1 .. m - 1 /\ Parent(j) \in 1 .. m - 1
  BY <1>1
<1>4. ASSUME NEW j \in 2 .. m - 1, j # i, Parent(j) # i PROVE w[Parent(j)] >= w[j]
  <2>1. w[Parent(j)] = v[Parent(j)] /\ w[j] = v[j]
    BY <1>3, <1>4
  <2> QED
    BY <1>2, <1>3, <2>1
<1>5. ASSUME i >= 2, NEW j \in 2 .. m - 1, Parent(j) = i PROVE w[Parent(i)] >= w[j]
  <2>1. i \in 2 .. m - 1
    BY <1>5
  <2>2. Parent(i) # i /\ j # i /\ Parent(i) \in 1 .. m - 1 /\ j \in 1 .. m - 1
    BY <1>1, <1>3, <1>5, <2>1
  <2>3. w[Parent(i)] = v[Parent(i)] /\ w[j] = v[j]
    BY <2>2
  <2>4. v[Parent(i)] >= v[i] /\ v[Parent(j)] >= v[j] /\ v[Parent(i)] \in Nat /\ v[i] \in Nat /\ v[j] \in Nat
    BY <1>2, <1>3, <2>1
  <2> QED
    BY <1>5, <2>3, <2>4
<1>6. \A j \in 1 .. m - 1 : w[j] \in Nat
  OBVIOUS
<1>7. ASSUME i >= 2, w[i] > w[Parent(i)] PROVE ButAbove(w, m - 1, i)
  <2>1. ASSUME NEW j \in 2 .. m - 1, j # i PROVE w[Parent(j)] >= w[j]
    <3>1. CASE Parent(j) = i
      <4>1. w[Parent(i)] >= w[j]
        BY <1>5, <1>7, <3>1
      <4>2. w[i] \in Nat /\ w[Parent(i)] \in Nat /\ w[j] \in Nat
        BY <1>3, <1>6, <1>7
      <4> QED
        BY <1>7, <3>1, <4>1, <4>2
    <3>2. CASE Parent(j) # i
      BY <1>4, <2>1, <3>2
    <3> QED
      BY <3>1, <3>2
  <2> QED
    BY <1>5, <2>1 DEF ButAbove
<1>8. ASSUME ~(i >= 2 /\ w[i] > w[Parent(i)]) PROVE ButBelow(w, m - 1, i, 1)
  <2>1. ASSUME NEW j \in 2 .. m - 1, Parent(j) # i PROVE w[Parent(j)] >= w[j]
    <3>1. CASE j = i
      <4>1. w[i] \in Nat /\ w[Parent(i)] \in Nat /\ i >= 2
        BY <1>3, <1>6, <3>1
      <4> QED
        BY <1>8, <3>1, <4>1
    <3>2. CASE j # i
      BY <1>4, <2>1, <3>2
    <3> QED
      BY <3>1, <3>2
  <2> QED
    BY <1>5, <2>1 DEF ButBelow
<1> QED
  BY <1>7, <1>8

LEMMA FilledKeeps ==
  ASSUME NEW h, NEW q, HeapHolds(h, q), NEW key \in DOMAIN q, NEW i, i = h.lookup[key],
         i # Len(h.items), NEW t, t = FillSlot(Forget(h, key), i)
  PROVE  /\ i \in 1 .. Len(t.items) /\ Len(t.items) = Len(h.items) - 1
         /\ i >= 2 /\ t.items[i].priority > t.items[Parent(i)].priority =>
              HeapHolds(PercolateUp(t, i), Without(q, key))
         /\ ~(i >= 2 /\ t.items[i].priority > t.items[Parent(i)].priority) =>
              HeapHolds(PercolateDown(t, i), Without(q, key))
<1> DEFINE m == Len(h.items)
           n == m - 1
           v == Ranks(h)
           w == Ranks(t)
           q1 == Without(q, key)
<1>1. Matched(h, q) /\ InOrder(v, m, 1)
  BY DEF HeapHolds
<1>2. /\ Matched(t, q1) /\ Len(t.items) = n /\ i \in 1 .. n
      /\ \A j \in 1 .. n : j # i => w[j] = v[j]
  BY <1>1, FillSlotFacts
<1>3. m \in Nat /\ v \in [1 .. m -> Nat] /\ w \in [1 .. n -> Nat]
  BY <1>1, <1>2, MatchedFacts
<1>4. /\ i >= 2 /\ w[i] > w[Parent(i)] => ButAbove(w, n, i)
      /\ ~(i >= 2 /\ w[i] > w[Parent(i)]) => ButBelow(w, n, i, 1)
  <2> HIDE DEF v, w, m
  <2> QED
    BY <1>1, <1>2, <1>3, FilledOrder
<1>5. i >= 2 => w[i] = t.items[i].priority /\ w[Parent(i)] = t.items[Parent(i)].priority
  <2> SUFFICES ASSUME i >= 2 PROVE w[i] = t.items[i].priority /\ w[Parent(i)] = t.items[Parent(i)].priority
    OBVIOUS
  <2>0. n \in Nat \/ n = -1
    BY <1>3
  <2>1. Parent(i) \in 1 .. n
    BY <1>2, <2>0, ParentFacts
  <2> QED
    BY <1>2, <2>1 DEF Ranks
<1> HIDE DEF w, v, m, n, q1
<1>6. ASSUME i >= 2, t.items[i].priority > t.items[Parent(i)].priority
      PROVE  HeapHolds(PercolateUp(t, i), q1)
  <2>1. ButAbove(Ranks(t), Len(t.items), i) /\ i \in 1 .. Len(t.items)
    BY <1>2, <1>4, <1>5, <1>6 DEF w
  <2> QED
    BY <1>2, <2>1, Risen DEF HeapHolds
<1>7. ASSUME ~(i >= 2 /\ t.items[i].priority > t.items[Parent(i)].priority)
      PROVE  HeapHolds(PercolateDown(t, i), q1)
  <2>1. ButBelow(Ranks(t), Len(t.items), i, 1) /\ i \in 1 .. Len(t.items) /\ 1 \in 1 .. i
    BY <1>2, <1>4, <1>5, <1>7 DEF w
  <2> QED
    BY <1>2, <2>1, Sunk DEF HeapHolds
<1> QED
  BY <1>2, <1>6, <1>7 DEF n, m, q1

LEMMA DropKeeps ==
  ASSUME NEW h, NEW q, HeapHolds(h, q), NEW key \in DOMAIN q,
         h.lookup[key] = Len(h.items), NEW t,
         t = [items |-> Front(h.items), lookup |-> Forget(h, key).lookup]
  PROVE  HeapHolds(t, Without(q, key))
<1> DEFINE m == Len(h.items)
           v == Ranks(h)
           w == Ranks(t)
<1>1. Matched(h, q) /\ InOrder(v, m, 1)
  BY DEF HeapHolds
<1>2. /\ Matched(t, Without(q, key)) /\ Len(t.items) = m - 1 /\ m \in Nat \ {0}
      /\ \A j \in 1 .. m - 1 : w[j] = v[j]
  BY <1>1, DropFacts
<1> HIDE DEF v, w, m
<1>3. InOrder(w, m - 1, 1)
  <2> SUFFICES ASSUME NEW j \in 2 .. m - 1, Parent(j) >= 1 PROVE w[Parent(j)] >= w[j]
    BY DEF InOrder
  <2>1. Parent(j) \in 1 .. m - 1 /\ j \in 1 .. m - 1 /\ j \in 2 .. m
    BY <1>2, ParentFacts
  <2> QED
    BY <1>1, <1>2, <2>1 DEF InOrder
<1> QED
  BY <1>2, <1>3 DEF HeapHolds, w

LEMMA PoppedKeeps ==
  ASSUME NEW h, NEW q, HeapHolds(h, q), NEW key \in DOMAIN q, h.lookup[key] = 1
  PROVE  HeapHolds(Popped(h), Without(q, key))
<1> DEFINE r == Forget(h, key)
<1>1. Matched(h, q) /\ h.items[1].key = key
  <2>1. Matched(h, q)
    BY DEF HeapHolds
  <2>2. \A k \in DOMAIN q : h.items[h.lookup[k]].key = k
    BY <2>1, MatchedFacts
  <2> QED
    BY <2>1, <2>2
<1>2. /\ Len(h.items) \in Nat /\ h.items \in [1 .. Len(h.items) -> HeapItems]
      /\ 1 \in 1 .. Len(h.items)
  <2>1. h.lookup \in [DOMAIN q -> 1 .. Len(h.items)]
    BY <1>1, MatchedFacts
  <2>2. Len(h.items) \in Nat /\ h.items \in [1 .. Len(h.items) -> HeapItems]
    BY <1>1, MatchedFacts
  <2> QED
    BY <2>1, <2>2
<1>3. r = [items |-> h.items, lookup |-> r.lookup]
  BY <1>1, ForgetIs
<1> HIDE DEF r
<1>4. CASE Len(h.items) = 1
  <2>1. Front(h.items) = <<>>
    <3>1. h.items \in Seq(HeapItems)
      BY <1>1 DEF Matched, HeapItems
    <3> QED
      BY <1>4, <3>1 DEF Front
  <2>2. Popped(h) = [r EXCEPT !.items = <<>>]
    BY <1>1, <1>4 DEF Popped, r
  <2>3. Popped(h) = [items |-> Front(h.items), lookup |-> r.lookup]
    BY <1>3, <2>1, <2>2
  <2> QED
    BY <1>4, <2>3, DropKeeps DEF r
<1>5. CASE Len(h.items) # 1
  <2> DEFINE t == FillSlot(Forget(h, key), 1)
  <2>1. Popped(h) = PercolateDown(t, 1)
    BY <1>1, <1>5 DEF Popped
  <2>2. HeapHolds(PercolateDown(t, 1), Without(q, key))
    <3>1. ~(1 >= 2 /\ t.items[1].priority > t.items[Parent(1)].priority)
      OBVIOUS
    <3> HIDE DEF t
    <3>2. t = FillSlot(Forget(h, key), 1) /\ 1 = h.lookup[key] /\ 1 # Len(h.items)
      BY <1>5 DEF t
    <3> QED
      BY <3>1, <3>2, FilledKeeps
  <2> QED
    BY <2>1, <2>2
<1> QED
  BY <1>4, <1>5

LEMMA RemovedKeeps ==
  ASSUME NEW h, NEW q, HeapHolds(h, q), NEW key \in DOMAIN q
  PROVE  HeapHolds(Removed(h, key), Without(q, key))
<1> DEFINE i == h.lookup[key]
           r == Forget(h, key)
           t == FillSlot(r, i)
<1>1. Matched(h, q) /\ DOMAIN h.lookup = DOMAIN q /\ i \in 1 .. Len(h.items) /\ Len(h.items) \in Nat
  <2>1. Matched(h, q)
    BY DEF HeapHolds
  <2>2. h.lookup \in [DOMAIN q -> 1 .. Len(h.items)] /\ Len(h.items) \in Nat
    BY <2>1, MatchedFacts
  <2> QED
    BY <2>1, <2>2
<1>2. r = [items |-> h.items, lookup |-> r.lookup]
  BY <1>1, ForgetIs
<1> HIDE DEF r
<1>3. CASE i = 1
  <2>1. Removed(h, key) = Popped(h)
    BY <1>1, <1>3 DEF Removed
  <2> QED
    BY <1>3, <2>1, PoppedKeeps
<1>4. CASE i # 1 /\ i = Len(h.items)
  <2>1. Removed(h, key) = [r EXCEPT !.items = Front(@)]
    BY <1>1, <1>4 DEF Removed, r
  <2>2. Removed(h, key) = [items |-> Front(h.items), lookup |-> r.lookup]
    BY <1>2, <2>1
  <2> QED
    BY <1>4, <2>2, DropKeeps DEF r
<1>5. CASE i # 1 /\ i # Len(h.items)
  <2>1. Removed(h, key) = IF t.items[i].priority > t.items[Parent(i)].priority
                            THEN PercolateUp(t, i) ELSE PercolateDown(t, i)
    BY <1>1, <1>5 DEF Removed, r
  <2>2. i >= 2
    BY <1>1, <1>5
  <2> HIDE DEF t
  <2>3. t = FillSlot(Forget(h, key), i)
    BY DEF t, r
  <2>4. /\ t.items[i].priority > t.items[Parent(i)].priority =>
             HeapHolds(PercolateUp(t, i), Without(q, key))
        /\ ~(t.items[i].priority > t.items[Parent(i)].priority) =>
             HeapHolds(PercolateDown(t, i), Without(q, key))
    BY <1>5, <2>2, <2>3, FilledKeeps
  <2> QED
    BY <2>1, <2>4
<1> QED
  BY <1>3, <1>4, <1>5

LEMMA PushedKeeps ==
  ASSUME NEW h, NEW q, HeapHolds(h, q), NEW key \in ItemKeys, NEW p \in Priorities
  PROVE  HeapHolds(Pushed(h, Item(key, p)),
                   IF key \in DOMAIN q /\ q[key] > p THEN q ELSE Placed(q, key, p))
<1> DEFINE r == Removed(h, key)
           n == Len(r.items) + 1
           t == [items |-> Append(r.items, Item(key, p)), lookup |-> Placed(r.lookup, key, n)]
           higher == key \in DOMAIN h.lookup /\ h.items[h.lookup[key]].priority > p
<1>1. DOMAIN h.lookup = DOMAIN q
  <2>1. Matched(h, q)
    BY DEF HeapHolds
  <2> QED
    BY <2>1, MatchedFacts
<1>2. key \in DOMAIN q => h.items[h.lookup[key]].priority = q[key]
  <2> SUFFICES ASSUME key \in DOMAIN q PROVE h.items[h.lookup[key]].priority = q[key]
    OBVIOUS
  <2>1. Matched(h, q)
    BY DEF HeapHolds
  <2>2. h.lookup[key] \in 1 .. Len(h.items) /\ h.items[h.lookup[key]].key = key
    <3>1. h.lookup \in [DOMAIN q -> 1 .. Len(h.items)] /\ \A k \in DOMAIN q : h.items[h.lookup[k]].key = k
      BY <2>1 DEF Matched
    <3> QED
      BY <3>1
  <2>3. h.items[h.lookup[key]].priority = q[h.items[h.lookup[key]].key]
    BY <2>1, <2>2 DEF Matched
  <2> QED
    BY <2>2, <2>3
<1>3. Item(key, p).key = key /\ Item(key, p).priority = p
  BY DEF Item
<1>4. Pushed(h, Item(key, p)) = IF higher THEN h ELSE PercolateUp(t, n)
  BY <1>3 DEF Pushed
<1>5. higher <=> key \in DOMAIN q /\ q[key] > p
  BY <1>1, <1>2
<1> HIDE DEF t, n, r, higher
<1>6. CASE higher
  BY <1>4, <1>5, <1>6
<1>7. CASE ~higher
  <2>1. PICK q0 : HeapHolds(r, q0) /\ key \notin DOMAIN q0 /\ Placed(q0, key, p) = Placed(q, key, p)
    <3>1. CASE key \in DOMAIN q
      <4> DEFINE q1 == Without(q, key)
      <4>1. HeapHolds(r, q1)
        BY <3>1, RemovedKeeps DEF r
      <4>2. DOMAIN q1 = DOMAIN q \ {key} /\ \A k \in DOMAIN q : k # key => q1[k] = q[k]
        BY WithoutFacts
      <4> HIDE DEF q1
      <4>3. Placed(q1, key, p) = Placed(q, key, p)
        BY <3>1, <4>2 DEF Placed
      <4> QED
        BY <4>1, <4>2, <4>3
    <3>2. CASE key \notin DOMAIN q
      <4>1. r = h
        BY <1>1, <3>2 DEF r, Removed
      <4> QED
        BY <3>2, <4>1
    <3> QED
      BY <3>1, <3>2
  <2> DEFINE m == Len(r.items)
             q2 == Placed(q, key, p)
  <2>2. Matched(r, q0) /\ InOrder(Ranks(r), m, 1)
    BY <2>1 DEF HeapHolds
  <2>3. /\ Matched(t, q2) /\ Len(t.items) = n /\ n = m + 1 /\ m \in Nat
        /\ \A j \in 1 .. m : Ranks(t)[j] = Ranks(r)[j]
    <3> DEFINE t0 == [items |-> Append(r.items, Item(key, p)), lookup |-> Placed(r.lookup, key, m + 1)]
    <3>1. /\ Matched(t0, Placed(q0, key, p)) /\ Len(t0.items) = m + 1 /\ m \in Nat
          /\ \A j \in 1 .. m : Ranks(t0)[j] = Ranks(r)[j]
      BY <2>1, <2>2, AppendFacts
    <3>2. t = t0 /\ n = m + 1
      BY DEF t, n
    <3> HIDE DEF t0
    <3> QED
      BY <2>1, <3>1, <3>2
  <2> HIDE DEF m, q2
  <2>4. ButAbove(Ranks(t), n, n)
    <3>1. ASSUME NEW j \in 2 .. n, j # n PROVE Ranks(t)[Parent(j)] >= Ranks(t)[j]
      <4>1. j \in 2 .. m /\ j \in 1 .. m /\ Parent(j) \in 1 .. m /\ Parent(j) >= 1
        BY <2>3, <3>1, ParentFacts
      <4> QED
        BY <2>2, <2>3, <4>1 DEF InOrder
    <3>2. \A j \in 2 .. n : Parent(j) # n
      BY <2>3, ParentFacts
    <3> QED
      BY <3>1, <3>2 DEF ButAbove
  <2>5. HeapHolds(PercolateUp(t, n), q2)
    <3>1. n \in 1 .. Len(t.items) /\ ButAbove(Ranks(t), Len(t.items), n)
      BY <2>3, <2>4
    <3> QED
      BY <2>3, <3>1, Risen DEF HeapHolds
  <2> QED
    BY <1>4, <1>5, <1>7, <2>5 DEF q2
<1> QED
  BY <1>6, <1>7

\* A queue starts with the keys 1 to n, each at its priority.
LEMMA UnsortedFacts ==
  ASSUME NEW n \in Nat, 1 .. n \subseteq ItemKeys, NEW p \in [1 .. n -> Priorities]
  PROVE  LET items == [i \in 1 .. n |-> Item(i, p[i])]
         IN Matched(Unsorted(items), p) /\ Len(Unsorted(items).items) = n /\ Len(items) = n
<1> DEFINE items == [i \in 1 .. n |-> Item(i, p[i])]
           b == [k \in 1 .. n |-> k]
           keys == {items[i].key : i \in DOMAIN items}
           c == [k \in keys |-> CHOOSE i \in DOMAIN items : items[i].key = k]
<1>1. \A i \in 1 .. n : items[i].key = i /\ items[i].priority = p[i] /\ items[i] \in HeapItems
  BY DEF Item, HeapItems
<1>2. Unsorted(items) = [items |-> <<>> \o items, lookup |-> c]
  BY DEF Unsorted
<1> HIDE DEF c
<1>3. items \in [1 .. n -> HeapItems] /\ DOMAIN items = 1 .. n
  BY <1>1
<1> HIDE DEF items
<1>4. items \in Seq(HeapItems) /\ Len(items) = n
  BY <1>3, SeqDef
<1>5. <<>> \o items = items
  BY <1>4
<1>6. c = b
  <2>1. keys = 1 .. n
    BY <1>1, <1>3
  <2>2. \A k \in 1 .. n : (CHOOSE i \in 1 .. n : items[i].key = k) = k
    BY <1>1
  <2> QED
    BY <1>3, <2>1, <2>2 DEF c
<1>7. Unsorted(items) = [items |-> items, lookup |-> b]
  BY <1>2, <1>5, <1>6
<1>8. /\ b \in [1 .. n -> 1 .. n] /\ DOMAIN p = 1 .. n
      /\ \A i \in 1 .. n : items[i].key \in 1 .. n /\ b[items[i].key] = i /\ items[i].priority = p[items[i].key]
      /\ \A k \in 1 .. n : items[b[k]].key = k
  BY <1>1
<1> HIDE DEF b
<1>9. Matched(Unsorted(items), p) /\ Len(Unsorted(items).items) = n
  <2> DEFINE u == Unsorted(items)
             q == p
  <2>1. \A i \in 1 .. n : items[i].key \in DOMAIN q /\ b[items[i].key] = i /\ items[i].priority = q[items[i].key]
    BY <1>8
  <2>2. \A k \in DOMAIN q : items[b[k]].key = k
    BY <1>8
  <2>3. b \in [DOMAIN q -> 1 .. n] /\ items \in [1 .. n -> HeapItems] /\ u = [items |-> items, lookup |-> b]
    BY <1>3, <1>7, <1>8
  <2> HIDE DEF keys, u, q
  <2>4. Matched(u, q) /\ Len(u.items) = n
    <3>1. u.items = items /\ u.lookup = b /\ u = [items |-> u.items, lookup |-> u.lookup]
      BY <2>3
    <3>2. Len(u.items) = n /\ u.items \in Seq(HeapItems)
      BY <1>4, <3>1
    <3> QED
      BY <2>1, <2>2, <2>3, <3>1, <3>2 DEF Matched, HeapItems
  <2> QED
    BY <2>4 DEF u, q
<1> QED
  BY <1>4, <1>9 DEF items

LEMMA Heapified ==
  ASSUME NEW n \in Nat, 1 .. n \subseteq ItemKeys, NEW p \in [1 .. n -> Priorities]
  PROVE  HeapHolds(NewHeapCap([i \in 1 .. n |-> Item(i, p[i])]), p)
<1> DEFINE items == [i \in 1 .. n |-> Item(i, p[i])]
           half == n \div 2
<1>1. Matched(Unsorted(items), p) /\ Len(Unsorted(items).items) = n /\ Len(items) = n
  BY UnsortedFacts
<1>2. half \in Nat /\ half <= n
  BY ParentFacts
<1> HIDE DEF items
<1>3. PICK g : HeapLoop(g, half, half, "heapify", Unsorted(items)) /\ NewHeapCap(items) = g[half]
  BY <1>1, <1>2, HeapifyRuns
<1> HIDE DEF half
<1>4. g[0] = Unsorted(items) /\ \A k \in 1 .. half : g[k] = PercolateDown(g[k - 1], half + 1 - k)
  BY <1>3 DEF HeapLoop, HeapTurn
<1> DEFINE T == {k \in 0 .. half : /\ Matched(g[k], p) /\ Len(g[k].items) = n
                                   /\ InOrder(Ranks(g[k]), n, half + 1 - k)}
<1>5. 0 \in T
  <2>1. \A j \in 2 .. n : Parent(j) \in Nat /\ Parent(j) <= half
    BY ParentFacts DEF half
  <2>2. \A j \in 2 .. n : ~(Parent(j) >= half + 1 - 0)
    BY <1>2, <2>1
  <2>3. InOrder(Ranks(g[0]), n, half + 1 - 0)
    BY <2>2 DEF InOrder
  <2> QED
    BY <1>1, <1>2, <1>4, <2>3
<1>6. ASSUME NEW k \in 0 .. half - 1, k \in T PROVE k + 1 \in T
  <2> DEFINE h == g[k]
             i == half - k
  <2>1. k + 1 \in 1 .. half /\ (k + 1) - 1 = k /\ k + 1 \in 0 .. half /\ half + 1 - (k + 1) = i
        /\ half + 1 - k = i + 1 /\ i \in 1 .. n /\ i \in 1 .. i /\ i \in Nat
    BY <1>2
  <2>2. g[k + 1] = PercolateDown(h, i)
    BY <1>4, <2>1
  <2>3. Matched(h, p) /\ Len(h.items) = n /\ InOrder(Ranks(h), n, i + 1)
    BY <1>6, <2>1
  <2> HIDE DEF h, i
  <2>4. ButBelow(Ranks(h), n, i, i)
    <3>1. \A j \in 2 .. n : Parent(j) >= i /\ Parent(j) # i => Parent(j) >= i + 1
      BY <2>1, ParentFacts
    <3>2. i >= 2 => ~(Parent(i) >= i)
      BY <2>1, ParentFacts
    <3> QED
      BY <2>3, <3>1, <3>2 DEF ButBelow, InOrder
  <2>5. /\ Matched(PercolateDown(h, i), p) /\ Len(PercolateDown(h, i).items) = n
        /\ InOrder(Ranks(PercolateDown(h, i)), n, i)
    BY <2>1, <2>3, <2>4, Sunk
  <2> QED
    BY <2>1, <2>2, <2>5
<1>7. half \in T
  <2>1. half \in 0 .. half
    BY <1>2
  <2> HIDE DEF T
  <2>2. \A k \in 0 .. half - 1 : k \in T => k + 1 \in T
    BY <1>6
  <2> QED
    BY <1>2, <1>5, <2>1, <2>2, Induction
<1>8. half + 1 - half = 1
  BY <1>2
<1> QED
  BY <1>3, <1>7, <1>8 DEF HeapHolds, items

\* The order, as HeapInv has it.
LEMMA HoldsIs ==
  ASSUME NEW h, NEW q, Matched(h, q)
  PROVE  ParentsFirst(h) <=> InOrder(Ranks(h), Len(h.items), 1)
<1>1. Len(h.items) \in Nat
  BY MatchedFacts
<1>2. \A j \in 2 .. Len(h.items) : /\ Parent(j) >= 1 /\ Parent(j) \in 1 .. Len(h.items)
                                   /\ j \in 1 .. Len(h.items)
  BY <1>1, ParentFacts
<1>3. \A j \in 1 .. Len(h.items) : Ranks(h)[j] = h.items[j].priority
  BY DEF Ranks
<1> QED
  BY <1>2, <1>3 DEF ParentsFirst, InOrder

Queues == UNION {[S -> Priorities] : S \in SUBSET ItemKeys}

LEMMA QueuesAre ==
  /\ \A q \in Queues : DOMAIN q \subseteq ItemKeys /\ q \in [DOMAIN q -> Priorities]
  /\ \A S \in SUBSET ItemKeys : \A q \in [S -> Priorities] : q \in Queues
  BY DEF Queues

LEMMA QueueChanges ==
  ASSUME NEW q \in Queues, NEW key \in ItemKeys, NEW p \in Priorities
  PROVE  Without(q, key) \in Queues /\ Placed(q, key, p) \in Queues
<1>1. DOMAIN q \in SUBSET ItemKeys /\ q \in [DOMAIN q -> Priorities]
  BY QueuesAre
<1>2. Without(q, key) \in [DOMAIN q \ {key} -> Priorities]
  BY <1>1 DEF Without, Restrict
<1>3. Placed(q, key, p) \in [DOMAIN q \cup {key} -> Priorities]
  BY <1>1 DEF Placed
<1>4. DOMAIN q \ {key} \in SUBSET ItemKeys /\ DOMAIN q \cup {key} \in SUBSET ItemKeys
  BY <1>1
<1> QED
  BY <1>2, <1>3, <1>4, QueuesAre

LEMMA HeapInvIs == HeapInv <=> queued \in Queues /\ HeapHolds(heap, queued)
  BY HoldsIs DEF HeapInv, HeapHolds, Queues

LEMMA HeapInvInit == HeapInit => HeapInv
<1> SUFFICES ASSUME HeapInit PROVE HeapInv
  OBVIOUS
<1>1. PICK n \in 0 .. Cardinality(ItemKeys) : \E p \in [1 .. n -> Priorities] :
        heap = NewHeapCap([i \in 1 .. n |-> Item(i, p[i])]) /\ queued = p
  BY DEF HeapInit
<1>2. PICK p \in [1 .. n -> Priorities] :
        heap = NewHeapCap([i \in 1 .. n |-> Item(i, p[i])]) /\ queued = p
  BY <1>1
<1>3. n \in Nat /\ 1 .. n \subseteq ItemKeys
  <2>1. Cardinality(ItemKeys) \in Nat /\ ItemKeys = 1 .. Cardinality(ItemKeys)
    BY FS_CardinalityType, ItemsAssumption
  <2> QED
    BY <2>1
<1>4. HeapHolds(NewHeapCap([i \in 1 .. n |-> Item(i, p[i])]), p)
  BY <1>3, Heapified
<1> QED
  BY <1>2, <1>3, <1>4, HeapInvIs, QueuesAre

LEMMA HeapInvNext == HeapInv /\ [HeapNext]_heapVars => HeapInv'
<1> SUFFICES ASSUME HeapInv, [HeapNext]_heapVars PROVE HeapInv'
  OBVIOUS
<1> USE DEF HeapInv
<1>1. queued \in Queues /\ HeapHolds(heap, queued)
  BY HeapInvIs
<1>2. queued' \in Queues /\ HeapHolds(heap', queued') => HeapInv'
  <2>1. ASSUME HeapHolds(heap', queued') PROVE Matched(heap', queued') /\ ParentsFirst(heap')
    BY <2>1, HoldsIs DEF HeapHolds
  <2> QED
    BY <2>1 DEF Queues
<1> USE DEF HeapInv
<1>3. ASSUME NEW key \in ItemKeys, NEW p \in Priorities, Enqueue(key, p) PROVE HeapInv'
  <2>1. HeapHolds(Pushed(heap, Item(key, p)), queued')
    BY <1>1, <1>3, PushedKeeps DEF Enqueue
  <2>2. queued' \in Queues
    BY <1>1, <1>3, QueueChanges DEF Enqueue
  <2> QED
    BY <1>2, <1>3, <2>1, <2>2 DEF Enqueue
<1>4. CASE Dequeue
  <2> DEFINE key == heap.items[1].key
  <2>1. /\ Matched(heap, queued) /\ heap.items \in Seq(HeapItems) /\ heap.items # <<>>
    BY <1>1, <1>4 DEF HeapHolds, Matched, HeapItems, Dequeue
  <2>2. 1 \in 1 .. Len(heap.items)
    BY <2>1
  <2>3. key \in DOMAIN queued /\ heap.lookup[key] = 1
    BY <2>1, <2>2 DEF Matched
  <2> HIDE DEF key
  <2>4. HeapHolds(Popped(heap), Without(queued, key))
    BY <1>1, <2>3, PoppedKeeps
  <2>5. key \in ItemKeys
    BY <1>1, <2>3, QueuesAre
  <2>6. Without(queued, key) \in Queues
    <3>1. PICK p : p \in Priorities
      <4>1. queued[key] \in Priorities
        BY <1>1, <2>3, QueuesAre
      <4> QED
        BY <4>1
    <3> QED
      BY <1>1, <2>5, <3>1, QueueChanges
  <2> QED
    BY <1>2, <1>4, <2>4, <2>6 DEF Dequeue, Without, key
<1>5. ASSUME NEW key \in ItemKeys, RemoveKey(key) PROVE HeapInv'
  <2>1. CASE key \in DOMAIN queued
    <3>1. HeapHolds(Removed(heap, key), Without(queued, key))
      BY <1>1, <2>1, RemovedKeeps
    <3>2. Without(queued, key) \in Queues
      <4>1. queued[key] \in Priorities
        BY <1>1, <2>1, QueuesAre
      <4> QED
        BY <1>1, <4>1, QueueChanges
    <3> QED
      BY <1>2, <1>5, <3>1, <3>2 DEF RemoveKey, Without
  <2>2. CASE key \notin DOMAIN queued
    <3>1. Matched(heap, queued)
      BY <1>1 DEF HeapHolds
    <3>2. DOMAIN heap.lookup = DOMAIN queued
      BY <3>1, MatchedFacts
    <3>3. heap' = heap
      BY <1>5, <2>2, <3>2 DEF RemoveKey, Removed
    <3>4. queued' = queued
      <4>1. queued = [k \in DOMAIN queued |-> queued[k]] /\ DOMAIN queued \ {key} = DOMAIN queued
        BY <1>1, <2>2, QueuesAre
      <4> QED
        BY <1>5, <4>1 DEF RemoveKey, Restrict
    <3> QED
      BY <1>1, <1>2, <3>3, <3>4
  <2> QED
    BY <2>1, <2>2
<1>6. CASE ClearHeap
  <2> DEFINE p == [i \in 1 .. 0 |-> i]
  <2>1. p = <<>> /\ p \in [1 .. 0 -> Priorities] /\ [i \in 1 .. 0 |-> Item(i, p[i])] = <<>>
        /\ 1 .. 0 \in SUBSET ItemKeys /\ 0 \in Nat
    OBVIOUS
  <2> HIDE DEF p
  <2>2. HeapHolds(NewHeapCap([i \in 1 .. 0 |-> Item(i, p[i])]), p)
    BY <2>1, Heapified
  <2>3. HeapHolds(NewHeapCap(<<>>), <<>>)
    BY <2>1, <2>2
  <2>4. p \in Queues
    BY <2>1, QueuesAre
  <2> QED
    BY <1>2, <1>6, <2>1, <2>3, <2>4 DEF ClearHeap
<1>7. CASE UNCHANGED heapVars
  BY <1>1, <1>2, <1>7 DEF heapVars
<1> QED
  BY <1>3, <1>4, <1>5, <1>6, <1>7 DEF HeapNext

LEMMA HeapInvSound == HeapInv => HeapIsSound
<1> SUFFICES ASSUME HeapInv PROVE HeapIsSound
  OBVIOUS
<1> DEFINE a == heap.items
           m == Len(a)
           D == DOMAIN queued
<1>1. /\ queued \in Queues /\ Matched(heap, queued) /\ ParentsFirst(heap)
  BY DEF HeapInv, Queues
<1>2. /\ m \in Nat /\ DOMAIN a = 1 .. m /\ a \in [1 .. m -> HeapItems]
      /\ heap.lookup \in [D -> 1 .. m]
  BY <1>1, MatchedFacts
<1>3. \A i \in 1 .. m : a[i].key \in D /\ heap.lookup[a[i].key] = i /\ a[i].priority = queued[a[i].key]
  BY <1>1 DEF Matched
<1>4. \A k \in D : heap.lookup[k] \in 1 .. m /\ a[heap.lookup[k]].key = k
  BY <1>1 DEF Matched
<1>5. IsFiniteSet(D)
  BY <1>1, QueuesAre, ItemsAssumption, FS_Subset
<1> HIDE DEF m, D
<1>6. {<<it.key, it.priority>> : it \in ToSet(a)} = {<<k, queued[k]>> : k \in D}
  <2>1. ASSUME NEW i \in 1 .. m PROVE <<a[i].key, a[i].priority>> \in {<<k, queued[k]>> : k \in D}
    BY <1>3
  <2>2. ASSUME NEW k \in D PROVE \E i \in 1 .. m : <<k, queued[k]>> = <<a[i].key, a[i].priority>>
    BY <1>3, <1>4
  <2>3. ToSet(a) = {a[i] : i \in 1 .. m}
    BY <1>2 DEF ToSet
  <2> HIDE DEF a
  <2> QED
    BY <2>1, <2>2, <2>3
<1>7. heap.lookup = [k \in D |-> CHOOSE i \in DOMAIN a : a[i].key = k]
  <2>1. ASSUME NEW k \in D PROVE heap.lookup[k] = CHOOSE i \in DOMAIN a : a[i].key = k
    <3>1. \A i \in 1 .. m : a[i].key = k <=> i = heap.lookup[k]
      BY <1>3, <1>4
    <3> QED
      BY <1>2, <1>4, <3>1
  <2> QED
    BY ZenonT(40), <1>2, <2>1
<1>8. m = Cardinality(D)
  <2>1. ExistsBijection(D, 1 .. m)
    <3>1. heap.lookup \in Bijection(D, 1 .. m)
      <4>1. \A k, l \in D : heap.lookup[k] = heap.lookup[l] => k = l
        BY <1>4
      <4>2. \A i \in 1 .. m : \E k \in D : heap.lookup[k] = i
        BY <1>3
      <4> QED
        BY <1>2, <4>1, <4>2 DEF Bijection, Injection, Surjection, IsInjective
    <3> QED
      BY <3>1 DEF ExistsBijection
  <2>2. Cardinality(1 .. m) = m
    BY <1>2, FS_Interval
  <2> QED
    BY <1>5, <2>1, <2>2, FS_Bijection
<1> QED
  BY <1>1, <1>6, <1>7, <1>8 DEF HeapIsSound, ParentsFirst, m, D

LEMMA HeapInvHolds == HeapSpec => []HeapInv
<1> QED
  BY HeapInvInit, HeapInvNext, PTL DEF HeapSpec

\* The queue of priority_queue.go holds exactly the keys it should, each at its
\* priority; the map and the slice agree; and every item's parent is as high.
THEOREM QueueIsSound == HeapSpec => []HeapIsSound
  BY HeapInvHolds, HeapInvSound, PTL

\* What Peek and Dequeue of priority_queue.go take: the first item.
HeadIsHighest ==
    \A k \in DOMAIN queued :
        heap.items[1].key \in DOMAIN queued /\ queued[heap.items[1].key] >= queued[k]

LEMMA HeapInvHead == HeapInv => HeadIsHighest
<1> SUFFICES ASSUME HeapInv, NEW k \in DOMAIN queued
             PROVE  heap.items[1].key \in DOMAIN queued /\ queued[heap.items[1].key] >= queued[k]
  BY DEF HeadIsHighest
<1> DEFINE a == heap.items
           m == Len(a)
           T == {n \in 0 .. m : \A j \in 1 .. n : a[1].priority >= a[j].priority}
<1>1. Matched(heap, queued) /\ ParentsFirst(heap)
  BY DEF HeapInv
<1>2. m \in Nat /\ heap.lookup \in [DOMAIN queued -> 1 .. m]
  BY <1>1, MatchedFacts
<1>3. \A i \in 1 .. m : a[i].key \in DOMAIN queued /\ a[i].priority = queued[a[i].key]
  BY <1>1 DEF Matched
<1>4. heap.lookup[k] \in 1 .. m /\ a[heap.lookup[k]].key = k /\ 1 \in 1 .. m
  BY <1>1, <1>2 DEF Matched
<1>5. \A i \in 1 .. m : a[i].priority \in Nat
  <2>1. Ranks(heap) \in [1 .. m -> Nat]
    BY <1>1, MatchedFacts
  <2> QED
    BY <2>1 DEF Ranks
<1>6. \A j \in 2 .. m : a[Parent(j)].priority >= a[j].priority
  BY <1>1 DEF ParentsFirst
<1> HIDE DEF m, a
<1>7. 0 \in T
  BY <1>2
<1>8. ASSUME NEW n \in 0 .. m - 1, n \in T PROVE n + 1 \in T
  <2>1. ASSUME NEW j \in 1 .. n + 1 PROVE a[1].priority >= a[j].priority
    <3>1. CASE j \in 1 .. n
      BY <1>8, <3>1
    <3>2. CASE j = 1
      BY <1>4, <1>5, <3>2
    <3>3. CASE j \notin 1 .. n /\ j # 1
      <4>1. j \in 2 .. m /\ Parent(j) \in 1 .. n /\ Parent(j) \in 1 .. m /\ j \in 1 .. m
        BY <1>2, <3>3, ParentFacts
      <4>2. a[1].priority >= a[Parent(j)].priority /\ a[Parent(j)].priority >= a[j].priority
        BY <1>6, <1>8, <4>1
      <4> QED
        BY <1>4, <1>5, <4>1, <4>2
    <3> QED
      BY <3>1, <3>2, <3>3
  <2> QED
    BY <1>2, <2>1
<1>9. m \in T
  <2>1. m \in 0 .. m /\ \A n \in 0 .. m - 1 : n \in T => n + 1 \in T
    BY <1>2, <1>8
  <2> HIDE DEF T
  <2> QED
    BY <1>2, <1>7, <2>1, Induction
<1>10. a[1].priority >= a[heap.lookup[k]].priority
  BY <1>4, <1>9
<1> QED
  BY <1>3, <1>4, <1>10 DEF a

\* The key that Peek shows and Dequeue takes is queued, and none is queued higher.
THEOREM HighestComesFirst == HeapSpec => []HeadIsHighest
  BY HeapInvHolds, HeapInvHead, PTL
=============================================================================
