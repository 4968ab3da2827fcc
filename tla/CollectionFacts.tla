-------------------------- MODULE CollectionFacts --------------------------
(* Induction up to a number and over the subsets of a finite set, and what *)
(* the proofs need of the order of a set, of sequences and of sums.        *)
EXTENDS Integers, SequencesExt, FiniteSetTheorems, SequenceTheorems, TLAPS

\* Induction, said of a set so that it can be cited: were m the first number
\* missing from T, k |-> k + 1 would map what T has of 0 .. m into itself
\* without 0, one to one.
LEMMA Induction ==
  ASSUME NEW n \in Nat, NEW T, 0 \in T, \A k \in 0 .. n - 1 : k \in T => k + 1 \in T
  PROVE  \A m \in 0 .. n : m \in T
<1> SUFFICES ASSUME NEW m \in 0 .. n, m \notin T PROVE FALSE
  OBVIOUS
<1> DEFINE S == T \cap 0 .. m
           f == [k \in S |-> k + 1]
<1>1. IsFiniteSet(S)
  <2>1. IsFiniteSet(0 .. m)
    BY FS_Interval
  <2> QED
    BY <2>1, FS_Subset
<1>2. 0 \in S
  OBVIOUS
<1>3. IsFiniteSet(S \ {0}) /\ Cardinality(S \ {0}) < Cardinality(S)
  <2> HIDE DEF S
  <2>1. IsFiniteSet(S \ {0}) /\ Cardinality(S \ {0}) = Cardinality(S) - 1
    BY <1>1, <1>2, FS_RemoveElement
  <2>2. Cardinality(S) \in Nat
    BY <1>1, FS_CardinalityType
  <2> QED
    BY <2>1, <2>2
<1>4. f \in [S -> S \ {0}]
  <2> SUFFICES ASSUME NEW k \in S PROVE k + 1 \in S \ {0}
    OBVIOUS
  <2>1. k \in T /\ k \in 0 .. m /\ k # m
    OBVIOUS
  <2>2. k \in 0 .. n - 1 /\ k + 1 \in 0 .. m /\ k + 1 # 0
    BY <2>1
  <2> QED
    BY <2>1, <2>2
<1>5. PICK x \in S, y \in S : x # y /\ f[x] = f[y]
  <2> HIDE DEF S, f
  <2> QED
    BY <1>1, <1>3, <1>4, FS_PigeonHole
<1> QED
  BY <1>5

\* Induction over the subsets of a finite set, by one element.
Inductive(T, S) ==
    /\ {} \in T
    /\ \A U \in SUBSET S : U # {} /\ (\A x \in U : U \ {x} \in T) => U \in T

LEMMA FiniteInduction ==
  ASSUME NEW S, IsFiniteSet(S), NEW T, Inductive(T, S)
  PROVE  S \in T
<1> DEFINE N == {n \in Nat : \A U \in SUBSET S : Cardinality(U) = n => U \in T}
<1>1. \A U \in SUBSET S :
        /\ IsFiniteSet(U) /\ Cardinality(U) \in Nat /\ (Cardinality(U) = 0 => U = {})
        /\ \A u \in U : Cardinality(U \ {u}) = Cardinality(U) - 1
  BY FS_Subset, FS_CardinalityType, FS_EmptySet, FS_RemoveElement
<1>2. 0 \in N
  BY <1>1 DEF Inductive
<1>3. ASSUME NEW k \in Nat, k \in N PROVE k + 1 \in N
  <2> SUFFICES ASSUME NEW U \in SUBSET S, Cardinality(U) = k + 1 PROVE U \in T
    OBVIOUS
  <2>1. \A x \in U : U \ {x} \in SUBSET S /\ Cardinality(U \ {x}) = k
    BY <1>1
  <2>2. \A x \in U : U \ {x} \in T
    BY <1>3, <2>1
  <2> QED
    BY <2>2 DEF Inductive
<1>4. ASSUME NEW U \in SUBSET S PROVE Cardinality(U) \in N
  <2> HIDE DEF N
  <2>1. Cardinality(U) \in Nat
    BY <1>1
  <2>2. \A k \in 0 .. Cardinality(U) - 1 : k \in N => k + 1 \in N
    BY <1>3, <2>1
  <2> QED
    BY <1>2, <2>1, <2>2, Induction
<1> QED
  BY <1>4

\* A loop that starts with base and turns one d into the next has a run g: F[k]
\* says what round k makes of a d.
Turns(F, D, n) == \A d \in D, k \in 1 .. n : F[k][d] \in D
Runs(g, F, base, D, n) ==
    /\ g \in [0 .. n -> D] /\ g[0] = base
    /\ \A k \in 1 .. n : k - 1 \in 0 .. n /\ g[k - 1] \in D /\ g[k] = F[k][g[k - 1]]

LEMMA LoopRuns ==
  ASSUME NEW n \in Nat, NEW D, NEW base \in D, NEW F, Turns(F, D, n)
  PROVE  \E g : Runs(g, F, base, D, n)
<1> USE DEF Turns
<1> DEFINE Run(g, m) == g[0] = base /\ \A k \in 1 .. m : g[k] = F[k][g[k - 1]]
           T == {m \in 0 .. n : \E g \in [0 .. m -> D] : Run(g, m)}
<1>1. 0 \in T
  <2>1. [k \in 0 .. 0 |-> base] \in [0 .. 0 -> D] /\ Run([k \in 0 .. 0 |-> base], 0)
    OBVIOUS
  <2>2. 0 \in 0 .. n
    OBVIOUS
  <2> HIDE DEF Run
  <2> QED
    BY <2>1, <2>2
<1>2. ASSUME NEW m \in 0 .. n - 1, m \in T PROVE m + 1 \in T
  <2>1. PICK g \in [0 .. m -> D] : Run(g, m)
    BY <1>2
  <2> DEFINE h == [k \in 0 .. m + 1 |-> IF k = m + 1 THEN F[m + 1][g[m]] ELSE g[k]]
  <2>2. /\ \A k \in 0 .. m + 1 : k \in 0 .. m \/ k = m + 1
        /\ m + 1 \in 1 .. n /\ m + 1 \in 0 .. n /\ m \in 0 .. m
        /\ 0 \in 0 .. m /\ 0 # m + 1 /\ (m + 1) - 1 = m
        /\ \A k \in 0 .. m : k # m + 1 /\ k \in 0 .. m + 1
        /\ m + 1 \in 0 .. m + 1
        /\ \A k \in 1 .. m + 1 : k \in 1 .. m \/ k = m + 1
        /\ \A k \in 1 .. m : k \in 0 .. m /\ k - 1 \in 0 .. m
    OBVIOUS
  <2>3. F[m + 1][g[m]] \in D
    BY <2>1, <2>2
  <2>4. h \in [0 .. m + 1 -> D]
    BY <2>1, <2>2, <2>3
  <2>5. h[m + 1] = F[m + 1][g[m]] /\ \A k \in 0 .. m : h[k] = g[k]
    BY <2>2
  <2> HIDE DEF h
  <2>6. \A k \in 1 .. m : h[k] = F[k][h[k - 1]]
    BY <2>1, <2>2, <2>5
  <2>7. Run(h, m + 1)
    <3>1. h[0] = base
      BY <2>1, <2>2, <2>5
    <3>2. h[m + 1] = F[m + 1][h[(m + 1) - 1]]
      BY <2>2, <2>5
    <3> QED
      BY <2>2, <2>6, <3>1, <3>2
  <2> QED
    BY <2>2, <2>4, <2>7
<1>3. \A k \in 0 .. n - 1 : k \in T => k + 1 \in T
  BY <1>2
<1>4. n \in 0 .. n
  OBVIOUS
<1>5. n \in T
  <2> HIDE DEF T
  <2> QED
    BY <1>1, <1>3, <1>4, Induction
<1>6. PICK g \in [0 .. n -> D] : Run(g, n)
  BY <1>5
<1>7. \A k \in 1 .. n : k - 1 \in 0 .. n /\ g[k - 1] \in D
  BY <1>6
<1> QED
  BY <1>6, <1>7 DEF Runs

\* The elements of a sequence.
LEMMA ElementsOf ==
  ASSUME NEW S, NEW s \in Seq(S)
  PROVE  /\ ToSet(s) \subseteq S
         /\ \A i \in 1 .. Len(s) : s[i] \in ToSet(s)
         /\ \A x \in ToSet(s) : \E i \in 1 .. Len(s) : s[i] = x
  BY DEF ToSet

\* An order, as the set of its pairs, that lays the elements of S out in one way.
Orders(R, S) ==
    \A a, b, c \in S :
        /\ <<a, a>> \notin R
        /\ <<a, b>> \in R /\ <<b, c>> \in R => <<a, c>> \in R
        /\ a # b => <<a, b>> \in R \/ <<b, a>> \in R

LEMMA LastExists ==
  ASSUME NEW S, IsFiniteSet(S), S # {}, NEW R, Orders(R, S)
  PROVE  \E x \in S : \A y \in S \ {x} : <<y, x>> \in R
<1> DEFINE HasLast(U) == \E x \in U : \A y \in U \ {x} : <<y, x>> \in R
           T == {n \in Nat : \A U \in SUBSET S : Cardinality(U) = n /\ U # {} => HasLast(U)}
<1>1. \A U \in SUBSET S :
        /\ IsFiniteSet(U) /\ Cardinality(U) \in Nat /\ (Cardinality(U) = 0 => U = {})
        /\ \A u \in U : Cardinality(U \ {u}) = Cardinality(U) - 1
  BY FS_Subset, FS_CardinalityType, FS_EmptySet, FS_RemoveElement
<1>2. 0 \in T
  BY <1>1
<1>3. ASSUME NEW k \in Nat, k \in T, NEW U \in SUBSET S, Cardinality(U) = k + 1, U # {}
      PROVE  HasLast(U)
  <2>1. PICK u \in U : TRUE
    BY <1>3
  <2>2. U \ {u} \in SUBSET S /\ Cardinality(U \ {u}) = k
    BY <1>1, <1>3
  <2>3. CASE U \ {u} = {}
    BY <2>3
  <2>4. CASE U \ {u} # {}
    <3>1. HasLast(U \ {u})
      BY <1>3, <2>2, <2>4
    <3>2. PICK x \in U \ {u} : \A y \in (U \ {u}) \ {x} : <<y, x>> \in R
      BY <3>1
    <3>3. CASE <<u, x>> \in R
      BY <3>2, <3>3
    <3>4. CASE <<u, x>> \notin R
      <4>1. <<x, u>> \in R
        BY <3>2, <3>4 DEF Orders
      <4>2. \A y \in U \ {u} : <<y, u>> \in R
        BY <3>2, <4>1 DEF Orders
      <4> QED
        BY <4>2
    <3> QED
      BY <3>3, <3>4
  <2> QED
    BY <2>3, <2>4
<1>4. Cardinality(S) \in Nat
  BY <1>1
<1> HIDE DEF HasLast
<1>5. \A k \in 0 .. Cardinality(S) - 1 : k \in T => k + 1 \in T
  BY <1>3, <1>4
<1>6. Cardinality(S) \in T
  <2> HIDE DEF T
  <2> QED
    BY <1>2, <1>4, <1>5, Induction
<1> QED
  BY <1>6 DEF HasLast

\* A finite set of numbers has a largest and a smallest.
LEMMA Extremes ==
  ASSUME NEW S \in SUBSET Int, IsFiniteSet(S), S # {}
  PROVE  /\ Max(S) \in S /\ \A y \in S : Max(S) >= y
         /\ Min(S) \in S /\ \A y \in S : Min(S) <= y
<1> DEFINE Up == {p \in S \X S : p[1] < p[2]}
           Down == {p \in S \X S : p[1] > p[2]}
<1>1. \A a, b \in S : (<<a, b>> \in Up <=> a < b) /\ (<<a, b>> \in Down <=> a > b)
  OBVIOUS
<1> HIDE DEF Up, Down
<1>2. Orders(Up, S)
  <2>1. \A a, b, c \in S : ~(a < a) /\ (a < b /\ b < c => a < c) /\ (a # b => a < b \/ b < a)
    OBVIOUS
  <2>2. \A a, b, c \in S :
          /\ <<a, a>> \notin Up
          /\ <<a, b>> \in Up /\ <<b, c>> \in Up => <<a, c>> \in Up
          /\ a # b => <<a, b>> \in Up \/ <<b, a>> \in Up
    BY <1>1, <2>1
  <2> QED
    BY <2>2 DEF Orders
<1>3. Orders(Down, S)
  <2>1. \A a, b, c \in S : ~(a > a) /\ (a > b /\ b > c => a > c) /\ (a # b => a > b \/ b > a)
    OBVIOUS
  <2>2. \A a, b, c \in S :
          /\ <<a, a>> \notin Down
          /\ <<a, b>> \in Down /\ <<b, c>> \in Down => <<a, c>> \in Down
          /\ a # b => <<a, b>> \in Down \/ <<b, a>> \in Down
    BY <1>1, <2>1
  <2> QED
    BY <2>2 DEF Orders
<1>4. \E top \in S : \A y \in S \ {top} : <<y, top>> \in Up
  BY <1>2, LastExists
<1>5. \E low \in S : \A y \in S \ {low} : <<y, low>> \in Down
  BY <1>3, LastExists
<1>6. \E top \in S : \A y \in S : top >= y
  <2>1. PICK top \in S : \A y \in S \ {top} : y < top
    BY <1>1, <1>4
  <2> QED
    BY <2>1
<1>7. \E low \in S : \A y \in S : low <= y
  <2>1. PICK low \in S : \A y \in S \ {low} : y > low
    BY <1>1, <1>5
  <2> QED
    BY <2>1
<1>8. Max(S) \in S /\ \A y \in S : Max(S) >= y
  BY <1>6 DEF Max
<1>9. Min(S) \in S /\ \A y \in S : Min(S) <= y
  BY <1>7 DEF Min
<1> QED
  BY <1>8, <1>9

\* Some of the numbers up to n, for one.
LEMMA ExtremesOf ==
  ASSUME NEW n \in Nat, NEW S \in SUBSET (1 .. n), S # {}
  PROVE  /\ Max(S) \in S /\ \A y \in S : Max(S) >= y
         /\ Min(S) \in S /\ \A y \in S : Min(S) <= y
<1>1. S \in SUBSET Int
  OBVIOUS
<1>2. IsFiniteSet(1 .. n)
  BY FS_Interval
<1>3. IsFiniteSet(S)
  BY <1>2, FS_Subset
<1> QED
  BY <1>1, <1>3, Extremes

\* So a finite set can be laid out by an order, and a layout leaves nothing out,
\* since it repeats nothing.
LaidOut(s, R, S) ==
    /\ s \in [1 .. Cardinality(S) -> S]
    /\ \A i, j \in 1 .. Cardinality(S) : i < j => <<s[i], s[j]>> \in R

LEMMA Sortable ==
  ASSUME NEW S, IsFiniteSet(S), NEW R, Orders(R, S)
  PROVE  \E s : LaidOut(s, R, S)
<1> DEFINE Laid(U, n) == \E s \in [1 .. n -> U] :
                           \A i, j \in 1 .. n : i < j => <<s[i], s[j]>> \in R
           T == {n \in Nat : \A U \in SUBSET S : Cardinality(U) = n => Laid(U, n)}
<1>1. \A U \in SUBSET S :
        /\ IsFiniteSet(U) /\ Cardinality(U) \in Nat /\ (Cardinality(U) = 0 <=> U = {})
        /\ \A u \in U : Cardinality(U \ {u}) = Cardinality(U) - 1
  BY FS_Subset, FS_CardinalityType, FS_EmptySet, FS_RemoveElement
<1>2. 0 \in T
  <2> SUFFICES ASSUME NEW U \in SUBSET S, Cardinality(U) = 0 PROVE Laid(U, 0)
    OBVIOUS
  <2>1. 1 .. 0 = {}
    OBVIOUS
  <2>2. [i \in 1 .. 0 |-> 0] \in [1 .. 0 -> U]
    BY <2>1
  <2>3. \A i, j \in 1 .. 0 : FALSE
    BY <2>1
  <2> QED
    BY <2>2, <2>3
<1>3. ASSUME NEW k \in Nat, k \in T, NEW U \in SUBSET S, Cardinality(U) = k + 1
      PROVE  Laid(U, k + 1)
  <2>1. U # {} /\ IsFiniteSet(U) /\ Orders(R, U)
    BY <1>1, <1>3 DEF Orders
  <2>2. PICK x \in U : \A y \in U \ {x} : <<y, x>> \in R
    BY <2>1, LastExists
  <2>3. Laid(U \ {x}, k)
    <3>1. U \ {x} \in SUBSET S /\ Cardinality(U \ {x}) = k
      BY <1>1, <1>3
    <3> HIDE DEF Laid
    <3> QED
      BY <1>3, <3>1
  <2>4. PICK s \in [1 .. k -> U \ {x}] : \A i, j \in 1 .. k : i < j => <<s[i], s[j]>> \in R
    BY <2>3
  <2> DEFINE t == [i \in 1 .. k + 1 |-> IF i = k + 1 THEN x ELSE s[i]]
  <2>5. \A i \in 1 .. k + 1 : i = k + 1 \/ i \in 1 .. k
    OBVIOUS
  <2>6. \A i \in 1 .. k : i # k + 1 /\ i \in 1 .. k + 1
    OBVIOUS
  <2>7. \A i \in 1 .. k : s[i] \in U \ {x}
    BY <2>4
  <2>8. t \in [1 .. k + 1 -> U]
    BY <2>5, <2>7
  <2>9. ASSUME NEW i \in 1 .. k + 1, NEW j \in 1 .. k + 1, i < j PROVE <<t[i], t[j]>> \in R
    <3>1. i \in 1 .. k /\ t[i] = s[i]
      BY <2>9
    <3>2. CASE j = k + 1
      BY <2>2, <2>7, <3>1, <3>2
    <3>3. CASE j \in 1 .. k
      BY <2>4, <2>6, <2>9, <3>1, <3>3
    <3> QED
      BY <2>5, <3>2, <3>3
  <2> HIDE DEF t
  <2> QED
    BY <2>8, <2>9
<1>4. Cardinality(S) \in Nat
  BY <1>1
<1> HIDE DEF Laid
<1>5. \A k \in 0 .. Cardinality(S) - 1 : k \in T => k + 1 \in T
  BY <1>3, <1>4
<1>6. Cardinality(S) \in T
  <2> HIDE DEF T
  <2> QED
    BY <1>2, <1>4, <1>5, Induction
<1>7. PICK s \in [1 .. Cardinality(S) -> S] :
         \A i, j \in 1 .. Cardinality(S) : i < j => <<s[i], s[j]>> \in R
  BY <1>6 DEF Laid
<1> QED
  BY <1>7 DEF LaidOut

LEMMA LayoutIsWhole ==
  ASSUME NEW S, IsFiniteSet(S), NEW R, Orders(R, S), NEW s, LaidOut(s, R, S)
  PROVE  s \in Seq(S) /\ Len(s) = Cardinality(S) /\ Len(s) \in Nat /\ ToSet(s) = S
<1> DEFINE n == Cardinality(S)
<1>1. s \in [1 .. n -> S] /\ \A i, j \in 1 .. n : i < j => <<s[i], s[j]>> \in R
  BY DEF LaidOut
<1>2. n \in Nat
  BY FS_CardinalityType
<1> HIDE DEF n
<1>3. s \in Seq(S) /\ Len(s) = n
  BY <1>1, <1>2, SeqDef
<1>4. ASSUME NEW i \in 1 .. n, NEW j \in 1 .. n, s[i] = s[j] PROVE i = j
  <2>1. <<s[i], s[i]>> \notin R
    BY <1>1 DEF Orders
  <2>2. ~(i < j) /\ ~(j < i)
    BY <1>1, <1>4, <2>1
  <2>3. i \in Int /\ j \in Int
    BY <1>2
  <2> QED
    BY <2>2, <2>3
<1>5. s \in Injection(1 .. n, S)
  BY <1>1, <1>4 DEF Injection, IsInjective
<1>6. IsFiniteSet(1 .. n) /\ Cardinality(1 .. n) = Cardinality(S)
  BY <1>2, FS_Interval DEF n
<1>7. s \in Surjection(1 .. n, S)
  BY <1>2, <1>5, <1>6, FS_Injection
<1>8. \A x \in S : \E i \in 1 .. n : s[i] = x
  BY <1>7 DEF Surjection
<1>9. ToSet(s) = S
  <2>1. \A x \in ToSet(s) : x \in S
    BY <1>3, ElementsOf
  <2>2. \A x \in S : x \in ToSet(s)
    BY <1>3, <1>8, ElementsOf
  <2> QED
    BY <2>1, <2>2
<1> QED
  BY <1>2, <1>3, <1>9 DEF n

\* The sequence left when one element is taken out.
LEMMA RemoveAtSeq ==
  ASSUME NEW S, NEW s \in Seq(S), NEW p \in 1 .. Len(s)
  PROVE  /\ RemoveAt(s, p) \in Seq(S) /\ Len(RemoveAt(s, p)) = Len(s) - 1
         /\ \A i \in 1 .. Len(s) - 1 : RemoveAt(s, p)[i] = IF i < p THEN s[i] ELSE s[i + 1]
<1> DEFINE a == SubSeq(s, 1, p - 1)
           b == SubSeq(s, p + 1, Len(s))
<1>1. a \in Seq(S) /\ Len(a) = p - 1 /\ \A i \in 1 .. p - 1 : a[i] = s[i]
  <2>1. \A i \in 1 .. p - 1 : s[i] \in S
    OBVIOUS
  <2>2. /\ a \in Seq(S) /\ Len(a) = IF 1 <= p - 1 THEN (p - 1) - 1 + 1 ELSE 0
        /\ \A i \in 1 .. (p - 1) - 1 + 1 : a[i] = s[1 + i - 1]
    BY <2>1, SubSeqProperties
  <2> HIDE DEF a
  <2> QED
    BY <2>2
<1>2. b \in Seq(S) /\ Len(b) = Len(s) - p /\ \A i \in 1 .. Len(s) - p : b[i] = s[p + i]
  <2>1. \A i \in p + 1 .. Len(s) : s[i] \in S
    OBVIOUS
  <2>2. /\ b \in Seq(S)
        /\ Len(b) = IF p + 1 <= Len(s) THEN Len(s) - (p + 1) + 1 ELSE 0
        /\ \A i \in 1 .. Len(s) - (p + 1) + 1 : b[i] = s[(p + 1) + i - 1]
    BY <2>1, SubSeqProperties
  <2>3. Len(s) \in Nat
    OBVIOUS
  <2> HIDE DEF b
  <2>4. \A i \in 1 .. Len(s) - p : (p + 1) + i - 1 = p + i
    OBVIOUS
  <2> QED
    BY <2>2, <2>3, <2>4
<1>3. RemoveAt(s, p) = a \o b
  BY DEF RemoveAt
<1> HIDE DEF a, b
<1>4. /\ a \o b \in Seq(S) /\ Len(a \o b) = Len(s) - 1
      /\ \A i \in 1 .. Len(a) + Len(b) :
           (a \o b)[i] = IF i <= Len(a) THEN a[i] ELSE b[i - Len(a)]
  <2>1. /\ a \o b \in Seq(S) /\ Len(a \o b) = Len(a) + Len(b)
        /\ \A i \in 1 .. Len(a) + Len(b) :
             (a \o b)[i] = IF i <= Len(a) THEN a[i] ELSE b[i - Len(a)]
    BY <1>1, <1>2, ConcatProperties
  <2>2. Len(a) + Len(b) = Len(s) - 1
    BY <1>1, <1>2
  <2> QED
    BY <2>1, <2>2
<1>5. ASSUME NEW i \in 1 .. Len(s) - 1 PROVE (a \o b)[i] = IF i < p THEN s[i] ELSE s[i + 1]
  <2>1. (a \o b)[i] = IF i < p THEN a[i] ELSE b[i - (p - 1)]
    BY <1>1, <1>2, <1>4
  <2>2. CASE i < p
    BY <1>1, <2>1, <2>2
  <2>3. CASE ~(i < p)
    <3>1. i - (p - 1) \in 1 .. Len(s) - p /\ p + (i - (p - 1)) = i + 1
      BY <2>3
    <3> QED
      BY <1>2, <2>1, <2>3, <3>1
  <2> QED
    BY <2>2, <2>3
<1> QED
  BY <1>3, <1>4, <1>5

\* A sequence is one of its own elements.
LEMMA OwnElements ==
  ASSUME NEW S, NEW s \in Seq(S)
  PROVE  s \in Seq(ToSet(s))
<1>1. s \in [1 .. Len(s) -> ToSet(s)] /\ Len(s) \in Nat
  BY DEF ToSet
<1> QED
  BY <1>1, SeqDef

\* Where the elements of a concatenation come from.
LEMMA ConcatFacts ==
  ASSUME NEW S, NEW s \in Seq(S), NEW t \in Seq(S)
  PROVE  /\ s \o t \in Seq(S) /\ Len(s \o t) = Len(s) + Len(t)
         /\ Len(s) \in Nat /\ Len(t) \in Nat
         /\ \A i \in 1 .. Len(s) : (s \o t)[i] = s[i]
         /\ \A i \in 1 .. Len(t) : (s \o t)[Len(s) + i] = t[i]
<1> DEFINE c == s \o t
<1>1. Len(s) \in Nat /\ Len(t) \in Nat
  OBVIOUS
<1>2. /\ c \in Seq(S) /\ Len(c) = Len(s) + Len(t)
      /\ \A i \in 1 .. Len(s) + Len(t) : c[i] = IF i <= Len(s) THEN s[i] ELSE t[i - Len(s)]
  BY ConcatProperties
<1> HIDE DEF c
<1>3. \A i \in 1 .. Len(s) : c[i] = s[i]
  BY <1>1, <1>2
<1>4. ASSUME NEW i \in 1 .. Len(t) PROVE c[Len(s) + i] = t[i]
  <2>1. Len(s) + i \in 1 .. Len(s) + Len(t) /\ ~(Len(s) + i <= Len(s)) /\ (Len(s) + i) - Len(s) = i
    BY <1>1
  <2> QED
    BY <1>2, <2>1
<1> QED
  BY <1>1, <1>2, <1>3, <1>4 DEF c

LEMMA ConcatElements ==
  ASSUME NEW S, NEW s \in Seq(S), NEW t \in Seq(S)
  PROVE  ToSet(s \o t) = ToSet(s) \cup ToSet(t)
<1> DEFINE c == s \o t
<1>1. /\ c \in Seq(S) /\ Len(c) = Len(s) + Len(t) /\ Len(s) \in Nat /\ Len(t) \in Nat
      /\ \A i \in 1 .. Len(s) : c[i] = s[i]
      /\ \A i \in 1 .. Len(t) : c[Len(s) + i] = t[i]
  BY ConcatFacts
<1> HIDE DEF c
<1>2. ASSUME NEW x \in ToSet(c) PROVE x \in ToSet(s) \cup ToSet(t)
  <2>1. PICK i \in 1 .. Len(c) : c[i] = x
    BY <1>1, ElementsOf
  <2>2. CASE i \in 1 .. Len(s)
    BY <1>1, <2>1, <2>2, ElementsOf
  <2>3. CASE i \notin 1 .. Len(s)
    <3>1. i - Len(s) \in 1 .. Len(t) /\ Len(s) + (i - Len(s)) = i
      BY <1>1, <2>3
    <3>2. t[i - Len(s)] = x
      BY <1>1, <2>1, <3>1
    <3> QED
      BY <3>1, <3>2, ElementsOf
  <2> QED
    BY <2>2, <2>3
<1>3. ASSUME NEW x \in ToSet(s) PROVE x \in ToSet(c)
  <2>1. PICK i \in 1 .. Len(s) : s[i] = x
    BY ElementsOf
  <2>2. i \in 1 .. Len(c) /\ c[i] = x
    BY <1>1, <2>1
  <2> QED
    BY <1>1, <2>2, ElementsOf
<1>4. ASSUME NEW x \in ToSet(t) PROVE x \in ToSet(c)
  <2>1. PICK i \in 1 .. Len(t) : t[i] = x
    BY ElementsOf
  <2>2. Len(s) + i \in 1 .. Len(c) /\ c[Len(s) + i] = x
    BY <1>1, <2>1
  <2> QED
    BY <1>1, <2>2, ElementsOf
<1> QED
  BY <1>2, <1>3, <1>4 DEF c
-----------------------------------------------------------------------------
(* Sums of the values of a function over a finite set.                     *)

\* What SumFunctionOnSet folds: one element after the other.
Adds(g, f, S) ==
    g = [s \in SUBSET S |-> IF s = {} THEN 0
                            ELSE f[CHOOSE x \in s : TRUE] + g[s \ {CHOOSE x \in s : TRUE}]]

LEMMA SumIsFold ==
  ASSUME NEW f, NEW S
  PROVE  SumFunctionOnSet(f, S) = (CHOOSE g : Adds(g, f, S))[S]
  BY DEF SumFunctionOnSet, FoldFunctionOnSet, MapThenFoldSet, Adds

LEMMA FoldExists ==
  ASSUME NEW f, NEW S, IsFiniteSet(S)
  PROVE  \E g : Adds(g, f, S)
<1> DEFINE Step(g, s) == IF s = {} THEN 0
                         ELSE f[CHOOSE x \in s : TRUE] + g[s \ {CHOOSE x \in s : TRUE}]
           Small(n) == {s \in SUBSET S : Cardinality(s) <= n}
           T == {n \in Nat : \E g : \A s \in Small(n) : g[s] = Step(g, s)}
<1>1. \A U \in SUBSET S :
        /\ IsFiniteSet(U) /\ Cardinality(U) \in Nat /\ (Cardinality(U) = 0 => U = {})
        /\ \A u \in U : Cardinality(U \ {u}) = Cardinality(U) - 1
        /\ Cardinality(U) <= Cardinality(S)
  BY FS_Subset, FS_CardinalityType, FS_EmptySet, FS_RemoveElement
<1>2. 0 \in T
  <2>1. \A s \in Small(0) : s = {}
    BY <1>1
  <2>2. \A s \in Small(0) : [z \in {{}} |-> 0][s] = Step([z \in {{}} |-> 0], s)
    BY <2>1
  <2> HIDE DEF Small, Step
  <2> QED
    BY <2>2
<1>3. ASSUME NEW n \in Nat, n \in T PROVE n + 1 \in T
  <2>1. PICK g : \A s \in Small(n) : g[s] = Step(g, s)
    BY <1>3
  <2> DEFINE h == [s \in Small(n + 1) |-> Step(g, s)]
  <2>2. ASSUME NEW s \in Small(n + 1), s # {}
        PROVE  s \ {CHOOSE x \in s : TRUE} \in Small(n)
    <3>1. (CHOOSE x \in s : TRUE) \in s
      BY <2>2
    <3>2. Cardinality(s) \in Nat /\ Cardinality(s) <= n + 1
          /\ Cardinality(s \ {CHOOSE x \in s : TRUE}) = Cardinality(s) - 1
      BY <1>1, <2>2, <3>1
    <3> QED
      BY <3>2
  <2>3. \A s \in Small(n) : s \in Small(n + 1)
    BY <1>1
  <2> HIDE DEF Small
  <2>4. \A s \in Small(n) : h[s] = g[s]
    <3> HIDE DEF Step
    <3> QED
      BY <2>1, <2>3
  <2>5. \A s \in Small(n + 1) : h[s] = Step(h, s)
    <3> SUFFICES ASSUME NEW s \in Small(n + 1) PROVE Step(g, s) = Step(h, s)
      OBVIOUS
    <3> HIDE DEF h
    <3> QED
      BY <2>2, <2>4
  <2> HIDE DEF h, Step
  <2> QED
    BY <2>5
<1>4. Cardinality(S) \in T
  <2> HIDE DEF T
  <2>1. Cardinality(S) \in Nat
    BY <1>1
  <2>2. \A k \in 0 .. Cardinality(S) - 1 : k \in T => k + 1 \in T
    BY <1>3, <2>1
  <2> QED
    BY <1>2, <2>1, <2>2, Induction
<1>5. PICK g : \A s \in Small(Cardinality(S)) : g[s] = Step(g, s)
  BY <1>4
<1> DEFINE h == [s \in SUBSET S |-> g[s]]
<1>6. \A s \in SUBSET S : h[s] = Step(g, s)
  BY <1>1, <1>5
<1>7. \A s \in SUBSET S : h[s] = Step(h, s)
  <2> SUFFICES ASSUME NEW s \in SUBSET S PROVE Step(g, s) = Step(h, s)
    BY <1>6
  <2>1. s \ {CHOOSE x \in s : TRUE} \in SUBSET S
    OBVIOUS
  <2> QED
    BY <2>1
<1>8. Adds(h, f, S)
  <2>1. h = [s \in SUBSET S |-> h[s]]
    OBVIOUS
  <2> HIDE DEF h
  <2> QED
    BY <1>7, <2>1 DEF Adds
<1> QED
  BY <1>8

\* The sum over a set, element by element.
LEMMA SumUnfolds ==
  ASSUME NEW f, NEW S, IsFiniteSet(S)
  PROVE  /\ SumFunctionOnSet(f, {}) = 0
         /\ S # {} => LET x == CHOOSE x \in S : TRUE
                      IN  SumFunctionOnSet(f, S) = f[x] + SumFunctionOnSet(f, S \ {x})
<1> DEFINE G(U) == CHOOSE g : Adds(g, f, U)
           pick(s) == CHOOSE x \in s : TRUE
<1>1. \A U \in SUBSET S : Adds(G(U), f, U)
  BY FoldExists, FS_Subset
<1>2. \A U : SumFunctionOnSet(f, U) = G(U)[U]
  BY SumIsFold
<1> HIDE DEF G
<1>3. \A U \in SUBSET S : \A s \in SUBSET U :
        G(U)[s] = IF s = {} THEN 0 ELSE f[pick(s)] + G(U)[s \ {pick(s)}]
  BY <1>1 DEF Adds
<1>4. \A s : s # {} => pick(s) \in s
  OBVIOUS
<1> HIDE DEF pick
<1>5. ASSUME NEW U \in SUBSET S PROVE G(U)[U] = G(S)[U]
  <2> DEFINE T == {s \in SUBSET U : G(U)[s] = G(S)[s]}
  <2>1. {} \in T
    BY <1>3
  <2>2. ASSUME NEW s \in SUBSET U, s # {}, \A x \in s : s \ {x} \in T PROVE s \in T
    <3>1. s \ {pick(s)} \in T
      BY <1>4, <2>2
    <3>2. s \in SUBSET S
      OBVIOUS
    <3> QED
      BY <1>3, <2>2, <3>1, <3>2
  <2>3. IsFiniteSet(U)
    BY FS_Subset
  <2>4. U \in T
    <3> HIDE DEF T
    <3>1. Inductive(T, U)
      BY <2>1, <2>2 DEF Inductive
    <3> QED
      BY <2>3, <3>1, FiniteInduction
  <2> QED
    BY <2>4
<1>6. SumFunctionOnSet(f, {}) = 0
  BY <1>2, <1>3
<1>7. S # {} => SumFunctionOnSet(f, S) = f[pick(S)] + SumFunctionOnSet(f, S \ {pick(S)})
  <2>1. S \in SUBSET S /\ S \ {pick(S)} \in SUBSET S
    OBVIOUS
  <2> QED
    BY <1>2, <1>3, <1>5, <2>1
<1> QED
  BY <1>6, <1>7 DEF pick

LEMMA SumOfFunction ==
  ASSUME NEW f
  PROVE  SumFunction(f) = SumFunctionOnSet(f, DOMAIN f)
BY DEF SumFunction, SumFunctionOnSet, FoldFunction

LEMMA SumEmpty ==
  ASSUME NEW f
  PROVE  SumFunctionOnSet(f, {}) = 0
BY SumUnfolds, FS_EmptySet

IntValued(f, S) == \A x \in S : f[x] \in Int
NatValued(f, S) == \A x \in S : f[x] \in Nat

\* What a sum of integers and a sum of naturals are.
LEMMA SumInt ==
  ASSUME NEW f, NEW S, IsFiniteSet(S), IntValued(f, S)
  PROVE  SumFunctionOnSet(f, S) \in Int
<1> DEFINE T == {U \in SUBSET S : SumFunctionOnSet(f, U) \in Int}
<1>1. {} \in T
  BY SumEmpty
<1>2. ASSUME NEW U \in SUBSET S, U # {}, \A x \in U : U \ {x} \in T PROVE U \in T
  <2> DEFINE x == CHOOSE x \in U : TRUE
  <2>1. x \in U
    BY <1>2
  <2>2. SumFunctionOnSet(f, U) = f[x] + SumFunctionOnSet(f, U \ {x})
    BY <1>2, SumUnfolds, FS_Subset
  <2> HIDE DEF x
  <2> QED
    BY <1>2, <2>1, <2>2 DEF IntValued
<1>3. S \in T
  <2> HIDE DEF T
  <2>1. Inductive(T, S)
    BY <1>1, <1>2 DEF Inductive
  <2> QED
    BY <2>1, FiniteInduction
<1> QED
  BY <1>3

LEMMA SumNat ==
  ASSUME NEW f, NEW S, IsFiniteSet(S), NatValued(f, S)
  PROVE  SumFunctionOnSet(f, S) \in Nat
<1> DEFINE T == {U \in SUBSET S : SumFunctionOnSet(f, U) \in Nat}
<1>1. {} \in T
  BY SumEmpty
<1>2. ASSUME NEW U \in SUBSET S, U # {}, \A x \in U : U \ {x} \in T PROVE U \in T
  <2> DEFINE x == CHOOSE x \in U : TRUE
  <2>1. x \in U
    BY <1>2
  <2>2. SumFunctionOnSet(f, U) = f[x] + SumFunctionOnSet(f, U \ {x})
    BY <1>2, SumUnfolds, FS_Subset
  <2> HIDE DEF x
  <2> QED
    BY <1>2, <2>1, <2>2 DEF NatValued
<1>3. S \in T
  <2> HIDE DEF T
  <2>1. Inductive(T, S)
    BY <1>1, <1>2 DEF Inductive
  <2> QED
    BY <2>1, FiniteInduction
<1> QED
  BY <1>3

\* A sum reads the function on the set alone.
LEMMA SumSame ==
  ASSUME NEW f, NEW g, NEW S, IsFiniteSet(S), \A x \in S : f[x] = g[x]
  PROVE  SumFunctionOnSet(f, S) = SumFunctionOnSet(g, S)
<1> DEFINE T == {U \in SUBSET S : SumFunctionOnSet(f, U) = SumFunctionOnSet(g, U)}
<1>1. {} \in T
  BY SumEmpty
<1>2. ASSUME NEW U \in SUBSET S, U # {}, \A x \in U : U \ {x} \in T PROVE U \in T
  <2> DEFINE x == CHOOSE x \in U : TRUE
  <2>1. x \in U
    BY <1>2
  <2>2. /\ SumFunctionOnSet(f, U) = f[x] + SumFunctionOnSet(f, U \ {x})
        /\ SumFunctionOnSet(g, U) = g[x] + SumFunctionOnSet(g, U \ {x})
    BY <1>2, SumUnfolds, FS_Subset
  <2> HIDE DEF x
  <2> QED
    BY <1>2, <2>1, <2>2
<1>3. S \in T
  <2> HIDE DEF T
  <2>1. Inductive(T, S)
    BY <1>1, <1>2 DEF Inductive
  <2> QED
    BY <2>1, FiniteInduction
<1> QED
  BY <1>3

\* Any element can be the one that is added last.
LEMMA SumApart ==
  ASSUME NEW f, NEW S, IsFiniteSet(S), IntValued(f, S)
  PROVE  \A x \in S : SumFunctionOnSet(f, S) = f[x] + SumFunctionOnSet(f, S \ {x})
<1> DEFINE Sum(U) == SumFunctionOnSet(f, U)
           Apart(U) == \A x \in U : Sum(U) = f[x] + Sum(U \ {x})
           T == {U \in SUBSET S : Apart(U)}
<1>1. \A U \in SUBSET S : IsFiniteSet(U) /\ Sum(U) \in Int
  BY SumInt, FS_Subset DEF IntValued
<1>2. \A U \in SUBSET S : U # {} => \E x \in U : Sum(U) = f[x] + Sum(U \ {x})
  <2> SUFFICES ASSUME NEW U \in SUBSET S, U # {} PROVE \E x \in U : Sum(U) = f[x] + Sum(U \ {x})
    OBVIOUS
  <2>1. (CHOOSE x \in U : TRUE) \in U
    OBVIOUS
  <2> QED
    BY <1>1, <2>1, SumUnfolds
<1> HIDE DEF Sum
<1>3. {} \in T
  OBVIOUS
<1>4. ASSUME NEW U \in SUBSET S, U # {}, \A x \in U : U \ {x} \in T PROVE U \in T
  <2>1. PICK x \in U : Sum(U) = f[x] + Sum(U \ {x})
    BY <1>2, <1>4
  <2>2. ASSUME NEW y \in U, y # x PROVE Sum(U) = f[y] + Sum(U \ {y})
    <3>1. Sum(U \ {x}) = f[y] + Sum((U \ {x}) \ {y})
      BY <1>4, <2>1, <2>2
    <3>2. Sum(U \ {y}) = f[x] + Sum((U \ {y}) \ {x})
      BY <1>4, <2>1, <2>2
    <3>3. (U \ {y}) \ {x} = (U \ {x}) \ {y}
      OBVIOUS
    <3> DEFINE rest == Sum((U \ {x}) \ {y})
    <3>4. f[x] \in Int /\ f[y] \in Int /\ rest \in Int
      <4>1. (U \ {x}) \ {y} \in SUBSET S
        OBVIOUS
      <4> QED
        BY <1>1, <4>1 DEF IntValued
    <3>5. Sum(U) = f[x] + (f[y] + rest) /\ Sum(U \ {y}) = f[x] + rest
      BY <2>1, <3>1, <3>2, <3>3
    <3> HIDE DEF rest
    <3> QED
      BY <3>4, <3>5
  <2> QED
    BY <2>1, <2>2
<1>5. S \in T
  <2> HIDE DEF T
  <2>1. Inductive(T, S)
    BY <1>3, <1>4 DEF Inductive
  <2> QED
    BY <2>1, FiniteInduction
<1> QED
  BY <1>5 DEF Sum

\* A sum over one element.
LEMMA SumSmall ==
  ASSUME NEW f, NEW x, f[x] \in Int
  PROVE  SumFunctionOnSet(f, {x}) = f[x]
<1>1. SumFunctionOnSet(f, {x}) = f[x] + SumFunctionOnSet(f, {x} \ {x})
  <2>1. IsFiniteSet({x}) /\ x \in {x}
    BY FS_Singleton
  <2>2. IntValued(f, {x})
    BY DEF IntValued
  <2> QED
    BY <2>1, <2>2, SumApart
<1>2. {x} \ {x} = {}
  OBVIOUS
<1> QED
  BY <1>1, <1>2, SumEmpty

LEMMA SumPositive ==
  ASSUME NEW f, NEW S, IsFiniteSet(S), NatValued(f, S)
  PROVE  SumFunctionOnSet(f, S) > 0 <=> \E x \in S : f[x] > 0
<1> DEFINE Sum(U) == SumFunctionOnSet(f, U)
           Rest(U) == {x \in U : f[x] > 0}
           T == {U \in SUBSET S : Rest(U) = {} => Sum(U) = 0}
<1>1. \A U \in SUBSET S : Sum(U) \in Nat /\ \A x \in U : Sum(U) = f[x] + Sum(U \ {x})
  <2> SUFFICES ASSUME NEW U \in SUBSET S
               PROVE  Sum(U) \in Nat /\ \A x \in U : Sum(U) = f[x] + Sum(U \ {x})
    OBVIOUS
  <2>1. IsFiniteSet(U) /\ NatValued(f, U) /\ IntValued(f, U)
    BY FS_Subset DEF NatValued, IntValued
  <2> QED
    BY <2>1, SumNat, SumApart
<1>2. Sum({}) = 0
  BY SumEmpty
<1> HIDE DEF Sum
<1>3. {} \in T
  BY <1>2
<1>4. ASSUME NEW U \in SUBSET S, U # {}, \A x \in U : U \ {x} \in T PROVE U \in T
  <2> SUFFICES ASSUME Rest(U) = {} PROVE Sum(U) = 0
    OBVIOUS
  <2>1. PICK x \in U : TRUE
    BY <1>4
  <2>2. Rest(U \ {x}) = {}
    OBVIOUS
  <2>3. Sum(U \ {x}) = 0
    BY <1>4, <2>2
  <2>4. f[x] \in Nat /\ ~(f[x] > 0)
    BY DEF NatValued
  <2> QED
    BY <1>1, <2>3, <2>4
<1>5. S \in T
  <2> HIDE DEF T
  <2>1. Inductive(T, S)
    BY <1>3, <1>4 DEF Inductive
  <2> QED
    BY <2>1, FiniteInduction
<1>6. ASSUME NEW x \in S, f[x] > 0 PROVE Sum(S) > 0
  <2>1. Sum(S) = f[x] + Sum(S \ {x}) /\ Sum(S \ {x}) \in Nat /\ f[x] \in Nat
    BY <1>1 DEF NatValued
  <2> QED
    BY <1>6, <2>1
<1>7. ASSUME Sum(S) > 0 PROVE \E x \in S : f[x] > 0
  BY <1>5, <1>7
<1> QED
  BY <1>6, <1>7 DEF Sum

\* What holds of every pair of terms holds of the sums: were a times every f[x]
\* more than b times g[x], so it would be of their sums.
LEMMA SumCompare ==
  ASSUME NEW f, NEW g, NEW S, IsFiniteSet(S), S # {}, NEW a \in Int, NEW b \in Int,
         IntValued(f, S), IntValued(g, S), \A x \in S : f[x] * a > g[x] * b
  PROVE  SumFunctionOnSet(f, S) * a > SumFunctionOnSet(g, S) * b
<1> DEFINE F(U) == SumFunctionOnSet(f, U)
           G(U) == SumFunctionOnSet(g, U)
           T == {U \in SUBSET S : U # {} => F(U) * a > G(U) * b}
<1>1. \A U \in SUBSET S :
        /\ F(U) \in Int /\ G(U) \in Int
        /\ \A x \in U : F(U) = f[x] + F(U \ {x}) /\ G(U) = g[x] + G(U \ {x})
  <2> SUFFICES ASSUME NEW U \in SUBSET S
               PROVE  /\ F(U) \in Int /\ G(U) \in Int
                      /\ \A x \in U : F(U) = f[x] + F(U \ {x}) /\ G(U) = g[x] + G(U \ {x})
    OBVIOUS
  <2>1. IsFiniteSet(U) /\ IntValued(f, U) /\ IntValued(g, U)
    BY FS_Subset DEF IntValued
  <2> QED
    BY <2>1, SumInt, SumApart
<1>2. F({}) = 0 /\ G({}) = 0
  BY SumEmpty
<1> HIDE DEF F, G
<1>3. {} \in T
  OBVIOUS
<1>4. ASSUME NEW U \in SUBSET S, U # {}, \A x \in U : U \ {x} \in T PROVE U \in T
  <2>1. PICK x \in U : TRUE
    BY <1>4
  <2> DEFINE R == U \ {x}
  <2>2. F(U) = f[x] + F(R) /\ G(U) = g[x] + G(R)
    BY <1>1
  <2>3. F(R) \in Int /\ G(R) \in Int /\ (R # {} => F(R) * a > G(R) * b)
    BY <1>1, <1>4
  <2>4. f[x] \in Int /\ g[x] \in Int /\ f[x] * a > g[x] * b
    BY DEF IntValued
  <2> HIDE DEF R
  <2>5. CASE R = {}
    <3>1. F(U) = f[x] /\ G(U) = g[x]
      BY <1>2, <2>2, <2>4, <2>5
    <3> QED
      BY <2>4, <3>1
  <2>6. CASE R # {}
    <3>1. F(U) * a = f[x] * a + F(R) * a /\ G(U) * b = g[x] * b + G(R) * b
      BY <2>2, <2>3, <2>4
    <3>2. f[x] * a \in Int /\ g[x] * b \in Int /\ F(R) * a \in Int /\ G(R) * b \in Int
      BY <2>3, <2>4
    <3> QED
      BY <2>3, <2>4, <2>6, <3>1, <3>2
  <2> QED
    BY <2>5, <2>6
<1>5. S \in T
  <2> HIDE DEF T
  <2>1. Inductive(T, S)
    BY <1>3, <1>4 DEF Inductive
  <2> QED
    BY <2>1, FiniteInduction
<1> QED
  BY <1>5 DEF F, G

\* Sums over parts that share no element add up.
LEMMA SumUnion ==
  ASSUME NEW f, NEW S, IsFiniteSet(S), IntValued(f, S),
         NEW A \in SUBSET S, NEW B \in SUBSET S, A \cap B = {}
  PROVE  SumFunctionOnSet(f, A \cup B) = SumFunctionOnSet(f, A) + SumFunctionOnSet(f, B)
<1> DEFINE Sum(U) == SumFunctionOnSet(f, U)
           T == {U \in SUBSET B : Sum(A \cup U) = Sum(A) + Sum(U)}
<1>1. \A U \in SUBSET S : Sum(U) \in Int /\ \A x \in U : Sum(U) = f[x] + Sum(U \ {x})
  <2> SUFFICES ASSUME NEW U \in SUBSET S
               PROVE  Sum(U) \in Int /\ \A x \in U : Sum(U) = f[x] + Sum(U \ {x})
    OBVIOUS
  <2>1. IsFiniteSet(U) /\ IntValued(f, U)
    BY FS_Subset DEF IntValued
  <2> QED
    BY <2>1, SumInt, SumApart
<1>2. Sum({}) = 0
  BY SumEmpty
<1> HIDE DEF Sum
<1>3. {} \in T
  <2>1. A \cup {} = A /\ Sum(A) \in Int
    BY <1>1
  <2> QED
    BY <1>2, <2>1
<1>4. ASSUME NEW U \in SUBSET B, U # {}, \A x \in U : U \ {x} \in T PROVE U \in T
  <2>1. PICK x \in U : TRUE
    BY <1>4
  <2>2. A \cup U \in SUBSET S /\ x \in A \cup U /\ (A \cup U) \ {x} = A \cup (U \ {x})
    OBVIOUS
  <2>3. U \in SUBSET S /\ U \ {x} \in SUBSET S
    OBVIOUS
  <2>4. Sum(A \cup U) = f[x] + Sum(A \cup (U \ {x})) /\ Sum(U) = f[x] + Sum(U \ {x})
    BY <1>1, <2>2, <2>3
  <2>5. Sum(A \cup (U \ {x})) = Sum(A) + Sum(U \ {x})
    BY <1>4
  <2>6. f[x] \in Int /\ Sum(A) \in Int /\ Sum(U \ {x}) \in Int
    BY <1>1, <2>3 DEF IntValued
  <2>7. Sum(A \cup U) = Sum(A) + Sum(U)
    BY <2>4, <2>5, <2>6
  <2> QED
    BY <2>7
<1>5. B \in T
  <2> HIDE DEF T
  <2>1. IsFiniteSet(B)
    BY FS_Subset
  <2>2. Inductive(T, B)
    BY <1>3, <1>4 DEF Inductive
  <2> QED
    BY <2>1, <2>2, FiniteInduction
<1> QED
  BY <1>5 DEF Sum

\* A sum is the sum of the sums of its parts.
LEMMA SumParts ==
  ASSUME NEW f, NEW S, IsFiniteSet(S), IntValued(f, S),
         NEW D, IsFiniteSet(D), NEW part \in [D -> SUBSET S],
         \A a, b \in D : part[a] \cap part[b] # {} => a = b,
         NEW total, \A a \in D : total[a] = SumFunctionOnSet(f, part[a])
  PROVE  SumFunctionOnSet(total, D) = SumFunctionOnSet(f, UNION {part[a] : a \in D})
<1> DEFINE Sum(U) == SumFunctionOnSet(f, U)
           Whole(E) == UNION {part[a] : a \in E}
           Total(E) == SumFunctionOnSet(total, E)
           T == {E \in SUBSET D : Total(E) = Sum(Whole(E))}
<1>1. \A U \in SUBSET S : Sum(U) \in Int
  BY SumInt, FS_Subset DEF IntValued
<1>2. \A U, V \in SUBSET S : U \cap V = {} => Sum(U \cup V) = Sum(U) + Sum(V)
  BY SumUnion
<1>3. \A E \in SUBSET D : \A x \in E : Total(E) = total[x] + Total(E \ {x})
  <2> SUFFICES ASSUME NEW E \in SUBSET D, NEW x \in E
               PROVE  Total(E) = total[x] + Total(E \ {x})
    OBVIOUS
  <2>1. \A a \in E : total[a] \in Int
    BY <1>1
  <2>2. IsFiniteSet(E) /\ IntValued(total, E)
    BY <2>1, FS_Subset DEF IntValued
  <2> QED
    BY <2>2, SumApart
<1>4. Total({}) = 0 /\ Sum({}) = 0
  BY SumEmpty
<1>5. \A a \in D : total[a] = Sum(part[a])
  OBVIOUS
<1> HIDE DEF Sum, Total
<1>6. {} \in T
  <2>1. Whole({}) = {}
    OBVIOUS
  <2> QED
    BY <1>4, <2>1
<1>7. ASSUME NEW E \in SUBSET D, E # {}, \A x \in E : E \ {x} \in T PROVE E \in T
  <2>1. PICK x \in E : TRUE
    BY <1>7
  <2>2. Whole(E) = part[x] \cup Whole(E \ {x})
    OBVIOUS
  <2>3. part[x] \cap Whole(E \ {x}) = {}
    OBVIOUS
  <2>4. part[x] \in SUBSET S /\ Whole(E \ {x}) \in SUBSET S
    OBVIOUS
  <2>5. Total(E \ {x}) = Sum(Whole(E \ {x}))
    BY <1>7
  <2> HIDE DEF Whole
  <2>6. Sum(Whole(E)) = Sum(part[x]) + Sum(Whole(E \ {x}))
    BY <1>2, <2>2, <2>3, <2>4
  <2> QED
    BY <1>3, <1>5, <2>1, <2>5, <2>6
<1>8. D \in T
  <2> HIDE DEF T
  <2>1. Inductive(T, D)
    BY <1>6, <1>7 DEF Inductive
  <2> QED
    BY <2>1, FiniteInduction
<1> QED
  BY <1>8 DEF Sum, Total

\* Where every term is the same, a sum counts its terms.
LEMMA SumConstant ==
  ASSUME NEW f, NEW S, IsFiniteSet(S), NEW v \in Int, \A x \in S : f[x] = v
  PROVE  SumFunctionOnSet(f, S) = Cardinality(S) * v
<1> DEFINE Sum(U) == SumFunctionOnSet(f, U)
           T == {U \in SUBSET S : Sum(U) = Cardinality(U) * v}
<1>1. Sum({}) = 0 /\ Cardinality({}) = 0
  BY SumEmpty, FS_EmptySet
<1>2. \A U \in SUBSET S : \A x \in U : Sum(U) = v + Sum(U \ {x})
  <2> SUFFICES ASSUME NEW U \in SUBSET S, NEW x \in U PROVE Sum(U) = v + Sum(U \ {x})
    OBVIOUS
  <2>1. IsFiniteSet(U) /\ IntValued(f, U) /\ f[x] = v
    BY FS_Subset DEF IntValued
  <2> QED
    BY <2>1, SumApart
<1>3. \A U \in SUBSET S : \A x \in U :
        Cardinality(U) \in Nat /\ Cardinality(U \ {x}) = Cardinality(U) - 1
  BY FS_Subset, FS_RemoveElement, FS_CardinalityType
<1> HIDE DEF Sum
<1>4. {} \in T
  BY <1>1
<1>5. ASSUME NEW U \in SUBSET S, U # {}, \A x \in U : U \ {x} \in T PROVE U \in T
  <2>1. PICK x \in U : TRUE
    BY <1>5
  <2> DEFINE n == Cardinality(U)
             m == Cardinality(U \ {x})
  <2>2. n \in Nat /\ m = n - 1
    BY <1>3
  <2>3. Sum(U) = v + m * v
    BY <1>2, <1>5
  <2> HIDE DEF n, m
  <2>4. v + m * v = n * v
    BY <2>2
  <2> QED
    BY <2>3, <2>4 DEF n
<1>6. S \in T
  <2> HIDE DEF T
  <2>1. Inductive(T, S)
    BY <1>4, <1>5 DEF Inductive
  <2> QED
    BY <2>1, FiniteInduction
<1> QED
  BY <1>6 DEF Sum

=============================================================================
