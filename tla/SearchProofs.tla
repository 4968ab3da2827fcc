---------------------------- MODULE SearchProofs ----------------------------
(* The theorems about a search: what holds of Search for every graph,      *)
(* query and bound its assumptions admit.                                  *)
EXTENDS Search, CollectionFacts

-----------------------------------------------------------------------------
(* The operators of the search.                                            *)

\* Keys are numbers: a set of them has a first.
LEMMA FirstKey ==
  ASSUME NEW S \in SUBSET (Facts \cup Anchors), S # {}
  PROVE  Min(S) \in S
<1>1. IsFiniteSet(S)
  BY KeysAssumption, FS_Union, FS_Subset
<1>2. S \in SUBSET Int
  BY KeysAssumption
<1> QED
  BY <1>1, <1>2, Extremes

\* A traversal reports sources next to the vertex.
LEMMA ReachedWithin ==
  ASSUME NEW sources \in SUBSET (Facts \cup Anchors), NEW adjacent
  PROVE  ReachedFrom(sources, adjacent) \subseteq sources \cap adjacent
<1>1. sources \cap adjacent # {} => Min(sources \cap adjacent) \in sources \cap adjacent
  BY FirstKey
<1> QED
  BY <1>1 DEF ReachedFrom, BFS, Excess

\* A ranking lists what has a score, each once and all of it.
LEMMA RankedLists ==
  ASSUME NEW S \in SUBSET Facts, NEW score, DOMAIN score = S, IntValued(score, S)
  PROVE  /\ Ranked(score) \in Seq(S) /\ ToSet(Ranked(score)) = S
         /\ Len(Ranked(score)) = Cardinality(S) /\ Cardinality(S) \in Nat
         /\ \A i, j \in 1 .. Cardinality(S) :
              i < j => Ahead(score, Ranked(score)[i], Ranked(score)[j])
<1> DEFINE R == {p \in S \X S : Ahead(score, p[1], p[2])}
           n == Cardinality(S)
<1>1. IsFiniteSet(S) /\ n \in Nat /\ \A f \in S : f \in Nat /\ score[f] \in Int
  BY KeysAssumption, FS_Subset, FS_CardinalityType DEF IntValued
<1>2. \A f, g \in S : <<f, g>> \in R <=> Ahead(score, f, g)
  OBVIOUS
<1> HIDE DEF R
<1>3. Orders(R, S)
  <2>1. \A f, g \in S : <<f, g>> \in R <=> score[f] > score[g] \/ (score[f] = score[g] /\ f < g)
    BY <1>2 DEF Ahead
  <2> DEFINE before(f, g) == score[f] > score[g] \/ (score[f] = score[g] /\ f < g)
  <2>2. \A f \in S : ~before(f, f)
    BY <1>1
  <2>3. \A f, g, h \in S : before(f, g) /\ before(g, h) => before(f, h)
    BY <1>1
  <2>4. \A f, g \in S : f # g => before(f, g) \/ before(g, f)
    BY <1>1
  <2>5. \A f, g \in S : <<f, g>> \in R <=> before(f, g)
    BY <2>1
  <2> HIDE DEF before
  <2> QED
    BY <2>2, <2>3, <2>4, <2>5 DEF Orders
<1>4. \E s \in [1 .. n -> S] : \A i, j \in DOMAIN s : i < j => Ahead(score, s[i], s[j])
  <2>1. PICK s : LaidOut(s, R, S)
    BY <1>1, <1>3, Sortable
  <2>2. s \in [1 .. n -> S] /\ DOMAIN s = 1 .. n /\ \A i \in 1 .. n : s[i] \in S
    BY <2>1 DEF LaidOut
  <2>3. \A i, j \in 1 .. n : i < j => Ahead(score, s[i], s[j])
    BY <1>2, <2>1, <2>2 DEF LaidOut
  <2> QED
    BY <2>2, <2>3
<1> DEFINE s == Ranked(score)
<1>5. s \in [1 .. n -> S] /\ \A i, j \in DOMAIN s : i < j => Ahead(score, s[i], s[j])
  BY <1>4 DEF Ranked
<1> HIDE DEF s
<1>6. \A i, j \in 1 .. n : i < j => Ahead(score, s[i], s[j])
  BY <1>5
<1>7. LaidOut(s, R, S)
  BY <1>2, <1>5, <1>6 DEF LaidOut
<1>8. s \in Seq(S) /\ Len(s) = n /\ ToSet(s) = S
  BY <1>1, <1>3, <1>7, LayoutIsWhole
<1> QED
  BY <1>1, <1>6, <1>8 DEF s

LEMMA BestWithin ==
  ASSUME NEW S, NEW s \in Seq(S), NEW k \in Nat
  PROVE  /\ Best(k, s) \in Seq(S)
         /\ LET m == IF k < Len(s) THEN k ELSE Len(s)
            IN  Len(Best(k, s)) = m /\ \A i \in 1 .. m : Best(k, s)[i] = s[i]
         /\ ToSet(Best(k, s)) \subseteq ToSet(s)
<1> DEFINE m == IF k < Len(s) THEN k ELSE Len(s)
           b == SubSeq(s, 1, m)
<1>1. m \in Nat /\ m <= Len(s)
  OBVIOUS
<1>2. \A i \in 1 .. m : i \in 1 .. Len(s) /\ s[i] \in S
  BY <1>1
<1>3. b \in Seq(S) /\ Len(b) = m /\ \A i \in 1 .. m : b[i] = s[i]
  <2> HIDE DEF m
  <2>1. /\ b \in Seq(S) /\ Len(b) = IF 1 <= m THEN m - 1 + 1 ELSE 0
        /\ \A i \in 1 .. m - 1 + 1 : b[i] = s[1 + i - 1]
    BY <1>1, <1>2, SubSeqProperties
  <2>2. \A i \in 1 .. m : 1 + i - 1 = i
    BY <1>1
  <2> HIDE DEF b
  <2> QED
    BY <1>1, <2>1, <2>2
<1> HIDE DEF m
<1>4. Best(k, s) = b
  BY DEF Best, m
<1> HIDE DEF b
<1>5. ASSUME NEW x \in ToSet(b) PROVE x \in ToSet(s)
  <2>1. PICK i \in 1 .. m : b[i] = x
    BY <1>3, ElementsOf
  <2> QED
    BY <1>2, <1>3, <2>1, ElementsOf
<1> QED
  BY <1>3, <1>4, <1>5 DEF m

-----------------------------------------------------------------------------
(* The readings of the indexes, on one graph and one query.                *)

Fixed == world \in Worlds /\ query \in Queries

LEMMA TextMassFacts ==
  ASSUME Fixed, NEW f, NEW keep \in SUBSET Facts
  PROVE  /\ TextMass(f, keep) \in Nat
         /\ \A wider \in SUBSET Facts :
              keep \subseteq wider /\ TextMass(f, keep) > 0 => TextMass(f, wider) > 0
         /\ query.keywords = {} => TextMass(f, keep) = 0
<1> DEFINE held(t, k) == {n \in Lenders(f, k) : t \in world.words[n]}
           term(t, k) == (IF t \in world.words[f] THEN 2 ELSE 0) + Cardinality(held(t, k))
           sum(k) == [t \in query.keywords |-> term(t, k)]
           K == query.keywords
<1>1. IsFiniteSet(query.keywords)
  BY QueriesAssumption DEF Fixed
<1>2. \A k \in SUBSET Facts : \A t :
        IsFiniteSet(held(t, k)) /\ Cardinality(held(t, k)) \in Nat
  <2> SUFFICES ASSUME NEW k \in SUBSET Facts, NEW t PROVE IsFiniteSet(held(t, k))
    BY FS_CardinalityType
  <2>1. held(t, k) \subseteq Facts
    BY DEF Lenders
  <2> QED
    BY <2>1, KeysAssumption, FS_Subset
<1>3. \A k \in SUBSET Facts : \A t : term(t, k) \in Nat
  <2> HIDE DEF held
  <2> QED
    BY <1>2
<1>4. \A k \in SUBSET Facts : \A t :
        keep \subseteq k /\ term(t, keep) > 0 => term(t, k) > 0
  <2> SUFFICES ASSUME NEW k \in SUBSET Facts, NEW t, keep \subseteq k, term(t, keep) > 0
               PROVE  term(t, k) > 0
    OBVIOUS
  <2>1. held(t, keep) \subseteq held(t, k)
    BY DEF Lenders
  <2>2. Cardinality(held(t, keep)) <= Cardinality(held(t, k))
    BY <1>2, <2>1, FS_Subset
  <2>3. Cardinality(held(t, keep)) \in Nat /\ Cardinality(held(t, k)) \in Nat
    BY <1>2
  <2> HIDE DEF held
  <2> QED
    BY <2>2, <2>3
<1> HIDE DEF term
<1>5. \A k \in SUBSET Facts : TextMass(f, k) = SumFunctionOnSet(sum(k), K)
  BY SumOfFunction DEF TextMass, term, held
<1>6. \A k \in SUBSET Facts : NatValued(sum(k), K) /\ \A t \in K : sum(k)[t] = term(t, k)
  BY <1>3 DEF NatValued
<1> HIDE DEF sum, K
<1>7. TextMass(f, keep) \in Nat
  BY <1>1, <1>5, <1>6, SumNat DEF K
<1>8. ASSUME NEW wider \in SUBSET Facts, keep \subseteq wider, TextMass(f, keep) > 0
      PROVE  TextMass(f, wider) > 0
  <2>1. PICK t \in K : sum(keep)[t] > 0
    BY <1>1, <1>5, <1>6, <1>8, SumPositive DEF K
  <2>2. sum(wider)[t] > 0
    BY <1>4, <1>6, <1>8, <2>1
  <2> QED
    BY <1>1, <1>5, <1>6, <2>2, SumPositive DEF K
<1>9. ASSUME query.keywords = {} PROVE TextMass(f, keep) = 0
  BY <1>5, <1>9, SumEmpty DEF K
<1> QED
  BY <1>7, <1>8, <1>9

LEMMA VectorMassFacts ==
  ASSUME Fixed, NEW f \in Facts
  PROVE  /\ VectorMass(f) \in Nat
         /\ query.vector = "none" => VectorMass(f) = 0
BY WorldsAssumption DEF Fixed, VectorMass

LEMMA WindowWithin == Window \subseteq Facts
BY DEF Window

\* What the indexes say of a fact: counts of its masses, or nothing.
LEMMA SightingsFacts ==
  ASSUME Fixed, NEW f
  PROVE  /\ IsFiniteSet(Sightings(f))
         /\ \A c \in Sightings(f) : c.src \in {"text", "vector"} /\ c.score \in Nat
         /\ Sightings(f) # {} => f \in Window
         /\ f \in Window /\ (TextMass(f, Window) > 0 \/ VectorMass(f) > 0) => Sightings(f) # {}
         /\ ~Asks => Sightings(f) = {}
<1> DEFINE x == Seen("text", TextMass(f, Window))
           y == Seen("vector", VectorMass(f))
<1>1. x.src = "text" /\ x.score = TextMass(f, Window)
      /\ y.src = "vector" /\ y.score = VectorMass(f)
  BY DEF Seen
<1>2. Sightings(f) = {c \in {x, y} : f \in Window /\ c.score > 0}
  BY DEF Sightings
<1>3. TextMass(f, Window) \in Nat /\ (query.keywords = {} => TextMass(f, Window) = 0)
  BY WindowWithin, TextMassFacts
<1>4. f \in Window => VectorMass(f) \in Nat /\ (query.vector = "none" => VectorMass(f) = 0)
  BY WindowWithin, VectorMassFacts
<1> HIDE DEF x, y
<1>5. IsFiniteSet(Sightings(f))
  <2>1. IsFiniteSet({x, y})
    <3>1. {x, y} = {x} \cup {y} /\ IsFiniteSet({x}) /\ IsFiniteSet({y})
      BY FS_Singleton
    <3> QED
      BY <3>1, FS_Union
  <2>2. Sightings(f) \subseteq {x, y}
    BY <1>2
  <2> QED
    BY <2>1, <2>2, FS_Subset
<1>6. ~Asks => Sightings(f) = {}
  BY <1>1, <1>2, <1>3, <1>4 DEF Asks
<1> QED
  BY <1>1, <1>2, <1>3, <1>4, <1>5, <1>6

\* Every keep is a part of the window.
LEMMA KeepsWithin ==
  ASSUME NEW keep \in ToSet(Keeps)
  PROVE  keep \subseteq Window
<1>1. \A w, u : ToSet(<<w>>) = {w} /\ ToSet(<<w, u>>) = {w, u}
  BY DEF ToSet
<1> QED
  BY <1>1 DEF Keeps

\* A reading lists the facts it has a mass of.
LEMMA ReadingFacts ==
  ASSUME Fixed, NEW keep \in SUBSET Facts
  PROVE  /\ TextReading(keep) \in Seq(keep) /\ VectorReading(keep) \in Seq(keep)
         /\ ToSet(TextReading(keep)) = {f \in keep : TextMass(f, keep) > 0}
         /\ ToSet(VectorReading(keep)) = {f \in keep : VectorMass(f) > 0}
<1> DEFINE tx == {f \in keep : TextMass(f, keep) > 0}
           vc == {f \in keep : VectorMass(f) > 0}
           byText == [f \in tx |-> TextMass(f, keep)]
           byVector == [f \in vc |-> VectorMass(f)]
<1>1. /\ tx \in SUBSET Facts /\ DOMAIN byText = tx /\ IntValued(byText, tx)
      /\ vc \in SUBSET Facts /\ DOMAIN byVector = vc /\ IntValued(byVector, vc)
  <2>1. \A f \in keep : TextMass(f, keep) \in Nat /\ VectorMass(f) \in Nat
    BY TextMassFacts, VectorMassFacts
  <2> QED
    BY <2>1 DEF IntValued
<1>2. TextReading(keep) = Ranked(byText) /\ VectorReading(keep) = Ranked(byVector)
  BY DEF TextReading, VectorReading
<1> HIDE DEF byText, byVector
<1>3. /\ TextReading(keep) \in Seq(tx) /\ ToSet(TextReading(keep)) = tx
      /\ VectorReading(keep) \in Seq(vc) /\ ToSet(VectorReading(keep)) = vc
  BY <1>1, <1>2, RankedLists
<1>4. tx \subseteq keep /\ vc \subseteq keep
  OBVIOUS
<1> QED
  BY <1>3, <1>4

LEMMA SeedDepthNat == Fixed => SeedDepth \in Nat
BY QueriesAssumption, SizesAssumption DEF Fixed, SeedDepth

\* Every seed was seen by an index, in the window.
LEMMA SeedsAreSeen ==
  ASSUME Fixed
  PROVE  SeedsOfQuery \subseteq {f \in Facts : Sightings(f) # {}}
<1> SUFFICES ASSUME NEW f \in SeedsOfQuery PROVE f \in Facts /\ Sightings(f) # {}
  OBVIOUS
<1>1. PICK keep \in ToSet(Keeps) :
        f \in ToSet(Best(SeedDepth, TextReading(keep))) \cup ToSet(Best(SeedDepth, VectorReading(keep)))
  BY DEF SeedsOfQuery, Seeded
<1>2. keep \subseteq Window /\ Window \subseteq Facts
  BY KeepsWithin, WindowWithin
<1>3. f \in ToSet(TextReading(keep)) \cup ToSet(VectorReading(keep))
  BY <1>1, <1>2, ReadingFacts, BestWithin, SeedDepthNat
<1>4. f \in keep /\ (TextMass(f, keep) > 0 \/ VectorMass(f) > 0)
  BY <1>2, <1>3, ReadingFacts
<1>5. TextMass(f, Window) > 0 \/ VectorMass(f) > 0
  BY <1>2, <1>4, TextMassFacts
<1> QED
  BY <1>2, <1>4, <1>5, SightingsFacts

\* The weight of a vector count is a quotient of two counts of bits.
LEMMA WeightFacts ==
  ASSUME Fixed
  PROVE  TextWeakness[1] \in Nat /\ TextWeakness[2] \in Nat
<1>1. ASSUME NEW facts \in SUBSET Facts PROVE BitsHeld(facts) \in Nat
  <2> DEFINE held == {t \in query.keywords : \E f \in facts : t \in world.words[f]}
             count(t) == Cardinality({g \in Facts : t \in world.words[g]})
             bits == [t \in held |-> Surprisal[count(t)]]
  <2>1. IsFiniteSet(held)
    BY QueriesAssumption, FS_Subset DEF Fixed
  <2>2. \A t \in held : count(t) \in 1 .. Cardinality(Facts)
    <3> SUFFICES ASSUME NEW t \in held PROVE count(t) \in 1 .. Cardinality(Facts)
      OBVIOUS
    <3> DEFINE S == {g \in Facts : t \in world.words[g]}
    <3>1. S # {} /\ S \subseteq Facts
      OBVIOUS
    <3> HIDE DEF S
    <3>2. /\ IsFiniteSet(S) /\ Cardinality(S) \in Nat /\ Cardinality(Facts) \in Nat
          /\ Cardinality(S) <= Cardinality(Facts) /\ Cardinality(S) # 0
      BY <3>1, KeysAssumption, FS_Subset, FS_CardinalityType, FS_EmptySet
    <3> QED
      BY <3>2 DEF S
  <2> HIDE DEF count
  <2>3. NatValued(bits, held)
    BY <2>2, SizesAssumption DEF NatValued
  <2>4. BitsHeld(facts) = SumFunctionOnSet(bits, held)
    BY SumOfFunction DEF BitsHeld, count
  <2> HIDE DEF bits, held
  <2> QED
    BY <2>1, <2>3, <2>4, SumNat
<1>2. QueryBits \in Nat
  BY <1>1 DEF QueryBits
<1> DEFINE hit == TextReading(Window)
<1>3. ASSUME hit # <<>> PROVE Bits(hit[1]) \in Nat
  <2>1. hit \in Seq(Window) /\ Window \subseteq Facts
    BY ReadingFacts, WindowWithin
  <2> HIDE DEF hit
  <2>2. hit[1] \in Facts
    BY <1>3, <2>1
  <2> QED
    BY <1>1, <2>2 DEF Bits
<1> HIDE DEF hit
<1>4. \A a, b : <<a, b>>[1] = a /\ <<a, b>>[2] = b
  OBVIOUS
<1>5. TextWeakness = IF query.vector # "none" /\ hit # <<>> /\ Bits(hit[1]) > 0
                       THEN <<QueryBits, Bits(hit[1])>> ELSE <<1, 1>>
  BY DEF TextWeakness, hit
<1> QED
  BY <1>2, <1>3, <1>4, <1>5

-----------------------------------------------------------------------------
(* The pools the stages leave, and that each is the pool of a search that  *)
(* lists every fact.                                                       *)

Reach(f) == ReachedFrom(transmitting, FiledUnder(f))
Lone == {f \in Facts \ SeenFacts : Cardinality(Reach(f)) = 1}

\* The named anchors' members, when the query matches nothing.
NamedMembers ==
    /\ ~Asks /\ groups = <<>> /\ transmitting = {}
    /\ candidates = [f \in UNION {Members(a) : a \in Named} |->
                       {Via("anchor", 1, a) : a \in FiledUnder(f) \cap Named}]

\* The facts the indexes saw, when nothing transmits.
Sighted ==
    /\ Asks /\ groups = <<>> /\ transmitting = {}
    /\ candidates = [f \in SeenFacts |-> Sightings(f)]

\* Those and the members of the anchors that transmit.
Reached ==
    /\ Asks /\ transmitting \subseteq Anchors
    /\ groups = [a \in {a \in transmitting : \E f \in Lone : Reach(f) = {a}} |->
                   {f \in Lone : Reach(f) = {a}}]
    /\ candidates = [f \in SeenFacts \cup {f \in Facts \ Lone : Reach(f) # {}} |->
                       Sightings(f) \cup {Transmission(a) : a \in Reach(f)}]

LEMMA NoGroups ==
  groups = <<>> => Grouped = {} /\ UNION {groups[a] : a \in DOMAIN groups} = {}
<1>1. DOMAIN <<>> = {}
  OBVIOUS
<1> QED
  BY <1>1 DEF Grouped

LEMMA SilentReach ==
  Fixed /\ transmitting \subseteq Anchors =>
    \A f : /\ Reach(f) \subseteq transmitting \cap FiledUnder(f)
           /\ IsFiniteSet(Reach(f))
           /\ Cardinality(Reach(f)) = 1 <=> \E a \in transmitting : Reach(f) = {a}
<1> SUFFICES ASSUME Fixed, transmitting \subseteq Anchors, NEW f
             PROVE  /\ Reach(f) \subseteq transmitting \cap FiledUnder(f)
                    /\ IsFiniteSet(Reach(f))
                    /\ Cardinality(Reach(f)) = 1 <=> \E a \in transmitting : Reach(f) = {a}
  OBVIOUS
<1>1. Reach(f) \subseteq transmitting \cap FiledUnder(f)
  BY ReachedWithin DEF Reach
<1>2. IsFiniteSet(Reach(f))
  BY <1>1, KeysAssumption, FS_Subset
<1>3. ASSUME Cardinality(Reach(f)) = 1 PROVE \E a \in transmitting : Reach(f) = {a}
  <2>1. Reach(f) # {}
    BY <1>3, FS_EmptySet
  <2>2. PICK a \in Reach(f) : TRUE
    BY <2>1
  <2>3. Cardinality(Reach(f) \ {a}) = 0 /\ IsFiniteSet(Reach(f) \ {a})
    BY <1>2, <1>3, FS_RemoveElement
  <2>4. Reach(f) \ {a} = {}
    BY <2>3, FS_EmptySet
  <2>5. Reach(f) = {a}
    BY <2>4
  <2> QED
    BY <1>1, <2>5
<1>4. ASSUME NEW a \in transmitting, Reach(f) = {a} PROVE Cardinality(Reach(f)) = 1
  BY <1>4, FS_Singleton
<1> QED
  BY <1>1, <1>2, <1>3, <1>4

LEMMA NamedMembersAreWhole == Fixed /\ NamedMembers => Transparent
<1> SUFFICES ASSUME Fixed, NamedMembers PROVE Transparent
  OBVIOUS
<1> USE DEF NamedMembers
<1>1. \A f : Sightings(f) = {} /\ Reach(f) = {}
  BY SightingsFacts, SilentReach
<1>2. \A f : Observations(f) = {Via("anchor", 1, a) : a \in FiledUnder(f) \cap Named}
  BY <1>1 DEF Observations, Reach
<1>3. \A f \in Facts : Observations(f) # {} <=> f \in UNION {Members(a) : a \in Named}
  <2>1. \A f \in Facts : \A a : f \in Members(a) <=> a \in FiledUnder(f)
    BY WorldsAssumption DEF Fixed, Members, FiledUnder
  <2> QED
    BY <1>2, <2>1
<1>4. DOMAIN candidates = UNION {Members(a) : a \in Named} /\ DOMAIN candidates \subseteq Facts
  BY DEF Members
<1>5. Grouped = {} /\ UNION {groups[a] : a \in DOMAIN groups} = {}
  BY NoGroups
<1>6. Listed \cup Grouped = Pool
  BY <1>3, <1>4, <1>5, WindowWithin DEF Listed, Pool
<1>7. ASSUME NEW f \in Pool PROVE Contributions(f) = Observations(f)
  <2>1. f \in DOMAIN candidates
    BY <1>5, <1>6 DEF Listed
  <2>2. candidates[f] = {Via("anchor", 1, a) : a \in FiledUnder(f) \cap Named}
    BY <1>4, <2>1
  <2> QED
    BY <1>2, <2>1, <2>2 DEF Contributions
<1> QED
  BY <1>5, <1>6, <1>7 DEF Transparent

LEMMA SightedAreWhole == Fixed /\ Sighted => Transparent
<1> SUFFICES ASSUME Fixed, Sighted PROVE Transparent
  OBVIOUS
<1> USE DEF Sighted
<1>1. \A f : Reach(f) = {}
  BY SilentReach
<1>2. \A f : Observations(f) = Sightings(f)
  BY <1>1 DEF Observations, Reach
<1>3. DOMAIN candidates = SeenFacts /\ \A f \in SeenFacts : candidates[f] = Sightings(f)
  OBVIOUS
<1>4. Grouped = {} /\ UNION {groups[a] : a \in DOMAIN groups} = {}
  BY NoGroups
<1>5. Listed \cup Grouped = Pool
  BY <1>2, <1>3, <1>4, WindowWithin DEF Listed, Pool, SeenFacts
<1>6. ASSUME NEW f \in Pool PROVE Contributions(f) = Observations(f)
  <2>1. f \in SeenFacts
    BY <1>3, <1>4, <1>5 DEF Listed
  <2> QED
    BY <1>2, <1>3, <2>1 DEF Contributions
<1> QED
  BY <1>4, <1>5, <1>6 DEF Transparent

LEMMA ReachedAreWhole == Fixed /\ Reached => Transparent
<1> SUFFICES ASSUME Fixed, Reached PROVE Transparent
  OBVIOUS
<1> DEFINE Far == {f \in Facts \ Lone : Reach(f) # {}}
           Heard == {a \in transmitting : \E f \in Lone : Reach(f) = {a}}
<1>1. /\ Asks /\ transmitting \subseteq Anchors
      /\ DOMAIN groups = Heard
      /\ \A a \in Heard : groups[a] = {f \in Lone : Reach(f) = {a}}
      /\ DOMAIN candidates = SeenFacts \cup Far
      /\ \A f \in SeenFacts \cup Far :
           candidates[f] = Sightings(f) \cup {Transmission(a) : a \in Reach(f)}
  BY DEF Reached
<1>2. \A f : Observations(f) = Sightings(f) \cup {Transmission(a) : a \in Reach(f)}
  BY <1>1 DEF Observations, Reach
<1>3. \A f \in Lone : f \in Facts /\ Sightings(f) = {} /\ \E a \in Heard : Reach(f) = {a}
  BY <1>1, SilentReach DEF Lone, SeenFacts
<1>4. \A f \in Facts : Observations(f) # {} <=> f \in SeenFacts \cup Far \cup Lone
  <2>1. \A f : {Transmission(a) : a \in Reach(f)} # {} <=> Reach(f) # {}
    OBVIOUS
  <2>2. \A f : Observations(f) # {} <=> Sightings(f) # {} \/ Reach(f) # {}
    BY <1>2, <2>1
  <2>3. \A f \in Facts : f \in SeenFacts <=> Sightings(f) # {}
    BY DEF SeenFacts
  <2>4. \A f \in Lone : Reach(f) # {}
    BY <1>3
  <2> QED
    BY <2>2, <2>3, <2>4
<1>5. UNION {groups[a] : a \in DOMAIN groups} = Lone
  BY <1>1, <1>3
<1>6. Grouped = Lone \cap Window
  BY <1>5 DEF Grouped, GroupMembers
<1>7. Listed \cup Grouped = Pool
  BY <1>1, <1>4, <1>6, WindowWithin DEF Listed, Pool
<1>8. SeenFacts \cap Lone = {} /\ Far \cap Lone = {}
  BY DEF Lone
<1>9. ASSUME NEW f \in Pool PROVE Contributions(f) = Observations(f)
  <2>1. CASE f \in SeenFacts \cup Far
    BY <1>1, <1>2, <2>1 DEF Contributions
  <2>2. CASE f \notin SeenFacts \cup Far
    <3>1. f \in Lone
      BY <1>1, <1>6, <1>7, <2>2 DEF Listed
    <3>2. PICK a \in Heard : Reach(f) = {a}
      BY <1>3, <3>1
    <3>3. \A b \in Heard : f \in groups[b] <=> b = a
      BY <1>1, <3>1, <3>2
    <3>4. {b \in DOMAIN groups : f \in groups[b]} = Reach(f)
      BY <1>1, <3>2, <3>3
    <3>5. Contributions(f) = {Transmission(b) : b \in Reach(f)}
      BY <1>1, <2>2, <3>4 DEF Contributions
    <3> QED
      BY <1>2, <1>3, <3>1, <3>5
  <2> QED
    BY <2>1, <2>2
<1> QED
  BY <1>1, <1>5, <1>7, <1>8, <1>9 DEF Transparent

-----------------------------------------------------------------------------
(* The invariant.                                                          *)

\* The graph and the query are fixed, and so is all that only reads them.
LEMMA SameGraph ==
  ASSUME UNCHANGED <<world, query>>
  PROVE  /\ Asks' = Asks /\ Named' = Named /\ Window' = Window
         /\ \A f : Sightings(f)' = Sightings(f)
         /\ \A a : Members(a)' = Members(a)
         /\ \A f : FiledUnder(f)' = FiledUnder(f)
         /\ SeedsOfQuery' = SeedsOfQuery
         /\ TextWeakness' = TextWeakness
         /\ SeenFacts' = SeenFacts
         /\ Fixed' = Fixed
<1>1. Asks' = Asks /\ Named' = Named /\ Window' = Window /\ Fixed' = Fixed
  BY DEF Asks, Named, Window, Within, Fixed
<1>2. /\ \A a : Members(a)' = Members(a)
      /\ \A f : FiledUnder(f)' = FiledUnder(f)
  BY DEF Members, FiledUnder
<1>3. \A f, g : Earlier(f, g)' = Earlier(f, g)
  BY DEF Earlier
<1>4. \A f : Contiguous(f)' = Contiguous(f)
  BY <1>2, <1>3 DEF Contiguous
<1>5. \A f, k : TextMass(f, k)' = TextMass(f, k)
  BY <1>4 DEF TextMass, Lenders
<1>6. \A f : VectorMass(f)' = VectorMass(f)
  BY DEF VectorMass
<1>7. \A k : TextReading(k)' = TextReading(k) /\ VectorReading(k)' = VectorReading(k)
  BY <1>5, <1>6 DEF TextReading, VectorReading
<1>8. \A f : Sightings(f)' = Sightings(f)
  BY <1>1, <1>5, <1>6 DEF Sightings
<1>9. SeenFacts' = SeenFacts
  BY <1>8 DEF SeenFacts
<1>10. Keeps' = Keeps /\ SeedDepth' = SeedDepth
  BY <1>1, <1>2 DEF Keeps, FilesEvery, SeedDepth
<1>11. SeedsOfQuery' = SeedsOfQuery
  BY <1>7, <1>10 DEF SeedsOfQuery, Seeded
<1>12. \A f : Bits(f)' = Bits(f) /\ QueryBits' = QueryBits
  BY DEF Bits, QueryBits, BitsHeld
<1>13. TextWeakness' = TextWeakness
  BY <1>1, <1>7, <1>12 DEF TextWeakness
<1> QED
  BY <1>1, <1>2, <1>8, <1>9, <1>11, <1>13

LEMMA SameMasses ==
  ASSUME UNCHANGED <<world, query, weight>>
  PROVE  /\ \A cs : Mass(cs)' = Mass(cs)
         /\ \A A, B : ReachedFrom(A, B)' = ReachedFrom(A, B)
<1>1. \A cs, src : Channel(cs, src)' = Channel(cs, src)
  BY DEF Channel
<1> QED
  BY <1>1 DEF Mass, ReachedFrom, BFS, Excess

LEMMA SameAdmission ==
  ASSUME UNCHANGED <<world, query, touched>>
  PROVE  \A a : Transmits(a)' = Transmits(a) /\ Transmission(a)' = Transmission(a)
<1>1. Named' = Named /\ \A a : Degree(a)' = Degree(a)
  BY SameGraph DEF Degree
<1>2. TotalMass' = TotalMass /\ TotalDegree' = TotalDegree
  BY <1>1 DEF TotalMass, TotalDegree
<1> QED
  BY <1>1, <1>2 DEF Transmits, Transmission, Via

LEMMA SameAnchors ==
  ASSUME AnchorsInv, UNCHANGED <<world, query, seeds, weight, touched>>
  PROVE  AnchorsInv'
<1> DEFINE masses(a) == [s \in ReachedFrom(seeds, Members(a)) |-> Mass(Sightings(s))]
<1>1. \A a : masses(a) = [s \in ReachedFrom(seeds, Members(a))' |-> Mass(Sightings(s))']
  BY SameGraph, SameMasses
<1>2. \A a : SumFunction(masses(a))
             = SumFunction([s \in ReachedFrom(seeds, Members(a))' |-> Mass(Sightings(s))'])
  BY <1>1
<1> QED
  BY <1>2, SameGraph DEF AnchorsInv

\* The weight of a vector count, before the seeds are gathered and after.
LEMMA WeightStays ==
  ASSUME weight \in {<<1, 1>>, TextWeakness}, UNCHANGED <<world, query>>,
         UNCHANGED weight \/ weight' = TextWeakness
  PROVE  weight' \in {<<1, 1>>, TextWeakness'}
BY SameGraph

LEMMA SearchInvInit == Init => SearchInv
BY DEF Init, SearchInv, GroupsAreTransparent, HitsAreBest

LEMMA GatherMembersKeeps ==
  ASSUME SearchInv, GatherMembers
  PROVE  SearchInv'
<1> USE DEF GatherMembers
<1>1. Fixed /\ groups' = <<>> /\ transmitting' = {} /\ touched' = <<>>
  BY DEF SearchInv, Fixed
<1>2. NamedMembers'
  <2>1. candidates' = [f \in UNION {Members(a)' : a \in Named'} |->
                         {Via("anchor", 1, a)' : a \in FiledUnder(f)' \cap Named'}]
    BY SameGraph DEF Via
  <2>2. ~Asks'
    BY SameGraph
  <2> QED
    BY <1>1, <2>1, <2>2 DEF NamedMembers
<1>3. Fixed'
  BY <1>1, SameGraph
<1>4. (Fixed /\ NamedMembers => Transparent)'
  BY NamedMembersAreWhole, PTL
<1>5. GroupsAreTransparent'
  BY <1>2, <1>3, <1>4 DEF GroupsAreTransparent
<1>6. weight' \in {<<1, 1>>, TextWeakness'}
  BY WeightStays DEF SearchInv
<1>7. GroupsApart'
  BY <1>1 DEF GroupsApart
<1> QED
  BY <1>1, <1>3, <1>5, <1>6, <1>7 DEF SearchInv, Fixed, HitsAreBest

LEMMA GatherSeedsKeeps ==
  ASSUME SearchInv, GatherSeeds
  PROVE  SearchInv'
<1> USE DEF GatherSeeds
<1>1. Fixed' /\ groups' = <<>> /\ transmitting' = {} /\ touched' = <<>>
  BY DEF SearchInv, Fixed
<1>2. SeedsInv'
  <2>1. candidates' = [f \in SeenFacts' |-> Sightings(f)']
    BY SameGraph
  <2> QED
    BY <2>1, SameGraph DEF SeedsInv
<1>3. weight' \in {<<1, 1>>, TextWeakness'}
  BY WeightStays DEF SearchInv
<1> QED
  BY <1>1, <1>2, <1>3 DEF SearchInv, Fixed, GroupsAreTransparent, HitsAreBest

LEMMA StayKeeps ==
  ASSUME SearchInv, Stay
  PROVE  SearchInv'
<1> USE DEF Stay
<1>1. Fixed /\ groups' = <<>> /\ transmitting' = {} /\ touched' = <<>> /\ SeedsInv
  BY DEF SearchInv, Fixed
<1>2. Sighted'
  <2>1. candidates' = [f \in SeenFacts' |-> Sightings(f)']
    BY <1>1, SameGraph DEF SeedsInv
  <2> QED
    BY <1>1, <2>1, SameGraph DEF Sighted, SeedsInv
<1>3. Fixed'
  BY <1>1, SameGraph
<1>4. (Fixed /\ Sighted => Transparent)'
  BY SightedAreWhole, PTL
<1>5. GroupsAreTransparent'
  BY <1>2, <1>3, <1>4 DEF GroupsAreTransparent
<1>6. weight' \in {<<1, 1>>, TextWeakness'}
  BY WeightStays DEF SearchInv
<1>7. GroupsApart'
  BY <1>1 DEF GroupsApart
<1> QED
  BY <1>1, <1>3, <1>5, <1>6, <1>7 DEF SearchInv, Fixed, HitsAreBest

LEMMA ObserveKeeps ==
  ASSUME SearchInv, Observe
  PROVE  SearchInv'
<1> USE DEF Observe
<1>1. Fixed /\ groups' = <<>> /\ transmitting' = {} /\ SeedsInv
  BY DEF SearchInv, Fixed
<1>2. Fixed' /\ SeedsInv'
  <2>1. candidates' = [f \in SeenFacts' |-> Sightings(f)']
    BY <1>1, SameGraph DEF SeedsInv
  <2> QED
    BY <1>1, <2>1, SameGraph DEF SeedsInv
<1> DEFINE reached(a) == ReachedFrom(seeds, Members(a))
<1>3. \A a : \A s \in reached(a) : candidates[s] = Sightings(s)
  <2>1. seeds \subseteq SeenFacts /\ SeenFacts \subseteq Facts
    BY <1>1, SeedsAreSeen DEF SeedsInv, SeenFacts
  <2>2. \A a : reached(a) \subseteq SeenFacts
    BY <2>1, ReachedWithin
  <2>3. \A s \in SeenFacts : candidates[s] = Sightings(s)
    BY <1>1 DEF SeedsInv
  <2> QED
    BY <2>2, <2>3
<1>4. \A a : [s \in reached(a) |-> Mass(candidates[s])] = [s \in reached(a)' |-> Mass(Sightings(s))']
  BY <1>3, SameGraph, SameMasses
<1>5. AnchorsInv'
  <2>1. \A a : SumFunction([s \in reached(a) |-> Mass(candidates[s])])
               = SumFunction([s \in reached(a)' |-> Mass(Sightings(s))'])
    BY <1>4
  <2>2. touched' = [a \in {a \in Anchors : seeds' \cap Members(a)' # {}} |->
                     SumFunction([s \in reached(a)' |-> Mass(Sightings(s))'])]
    BY <2>1, SameGraph
  <2> QED
    BY <2>2 DEF AnchorsInv
<1>6. weight' \in {<<1, 1>>, TextWeakness'}
  BY WeightStays DEF SearchInv
<1> QED
  BY <1>1, <1>2, <1>5, <1>6 DEF SearchInv, Fixed, GroupsAreTransparent, HitsAreBest

LEMMA ExpandKeeps ==
  ASSUME SearchInv, Expand
  PROVE  SearchInv'
<1> DEFINE from == transmitting'
           reached(f) == ReachedFrom(from, FiledUnder(f))
           alone == {f \in Facts \ SeenFacts : Cardinality(reached(f)) = 1}
<1>1. /\ Fixed /\ SeedsInv /\ AnchorsInv /\ stage' = "pooled"
      /\ UNCHANGED <<world, query, seeds, weight, touched>>
      /\ from = {a \in DOMAIN touched : Transmits(a)}
  BY DEF Expand, SearchInv, Fixed
<1>2. DOMAIN candidates = SeenFacts /\ (\A f \in SeenFacts : candidates[f] = Sightings(f))
      /\ SeenFacts \subseteq Facts
  BY <1>1 DEF SeedsInv, SeenFacts
<1>3. \A f : Reach(f)' = reached(f)
  BY <1>1, SameGraph, SameMasses DEF Reach
<1>4. Lone' = alone
  BY <1>1, <1>3, SameGraph DEF Lone
<1>5. from \subseteq Anchors /\ DOMAIN touched \subseteq Anchors
  BY <1>1 DEF AnchorsInv
<1>6. groups' = [a \in {a \in from : \E f \in alone : reached(f) = {a}} |->
                   {f \in alone : reached(f) = {a}}]
  BY <1>2 DEF Expand, Expansion
<1>7. candidates' = [f \in SeenFacts \cup {f \in Facts \ alone : reached(f) # {}} |->
                       Sightings(f) \cup {Transmission(a) : a \in reached(f)}]
  <2> DEFINE holds(f) == IF f \in DOMAIN candidates THEN candidates[f] ELSE {}
             D == SeenFacts \cup {f \in Facts \ alone : reached(f) # {}}
  <2>1. candidates' = [f \in D |-> holds(f) \cup {Transmission(a) : a \in reached(f)}]
    BY <1>2 DEF Expand, Expansion
  <2>2. \A f \in D : holds(f) = Sightings(f)
    BY <1>2 DEF SeenFacts
  <2> HIDE DEF holds
  <2> QED
    BY <2>1, <2>2
<1>8. Reached'
  <2>1. \A a : Transmission(a)' = Transmission(a)
    BY <1>1, SameAdmission
  <2>2. groups' = [a \in {a \in from : \E f \in Lone' : Reach(f)' = {a}} |->
                     {f \in Lone' : Reach(f)' = {a}}]
    BY <1>3, <1>4, <1>6
  <2>3. candidates' = [f \in SeenFacts' \cup {f \in Facts \ Lone' : Reach(f)' # {}} |->
                         Sightings(f)' \cup {Transmission(a)' : a \in Reach(f)'}]
    <3> HIDE DEF alone, reached, from
    <3> QED
      BY <1>1, <1>3, <1>4, <1>7, <2>1, SameGraph
  <2>4. Asks'
    BY <1>1, SameGraph DEF SeedsInv
  <2> QED
    BY <1>5, <2>2, <2>3, <2>4 DEF Reached
<1>9. Fixed'
  BY <1>1, SameGraph
<1>10. (Fixed /\ Reached => Transparent)'
  BY ReachedAreWhole, PTL
<1>11. GroupsAreTransparent'
  BY <1>8, <1>9, <1>10 DEF GroupsAreTransparent
<1>12. ExpandedInv'
  <2>1. AnchorsInv'
    BY <1>1, SameAnchors
  <2>2. from = {a \in DOMAIN touched' : Transmits(a)'}
    BY <1>1, SameAdmission
  <2>3. Asks' /\ seeds' = SeedsOfQuery' /\ weight' = TextWeakness'
    BY <1>1, SameGraph DEF SeedsInv
  <2> QED
    BY <2>1, <2>2, <2>3 DEF ExpandedInv
<1>13. weight' \in {<<1, 1>>, TextWeakness'}
  BY <1>1, WeightStays DEF SearchInv
<1>14. GroupsApart'
  BY <1>6 DEF GroupsApart
<1> QED
  BY <1>1, <1>9, <1>11, <1>12, <1>13, <1>14 DEF SearchInv, Fixed, HitsAreBest

LEMMA RefuseKeeps ==
  ASSUME SearchInv, Refuse
  PROVE  SearchInv'
<1>1. weight' \in {<<1, 1>>, TextWeakness'}
  BY WeightStays DEF SearchInv, Refuse
<1> QED
  BY <1>1 DEF SearchInv, Refuse, GroupsAreTransparent, HitsAreBest

-----------------------------------------------------------------------------
(* What follows from the invariant.                                        *)

LEMMA AnchoredSeeds == SearchInv => AnchoredMatchesSeed
<1> DEFINE under == Window \cap UNION {Members(a) : a \in Named}
<1> SUFFICES ASSUME SearchInv, stage = "seeded"
             PROVE  /\ ToSet(Best(SeedDepth, TextReading(under))) \subseteq seeds
                    /\ ToSet(Best(SeedDepth, VectorReading(under))) \subseteq seeds
  BY DEF AnchoredMatchesSeed
<1>1. Fixed /\ seeds = SeedsOfQuery
  BY DEF SearchInv, SeedsInv, Fixed
<1>2. under \in SUBSET Facts
  BY WindowWithin
<1>3. under \in ToSet(Keeps) \/ under = {}
  <2>1. \A w, u : ToSet(<<w>>) = {w} /\ ToSet(<<w, u>>) = {w, u}
    BY DEF ToSet
  <2>2. CASE Named = {}
    BY <2>2
  <2>3. CASE FilesEvery(Named)
    <3>1. under = Window
      BY <2>3, WindowWithin DEF FilesEvery
    <3> HIDE DEF under
    <3> QED
      BY <2>1, <2>3, <3>1 DEF Keeps
  <2>4. CASE Named # {} /\ ~FilesEvery(Named)
    <3>1. ToSet(Keeps) = {Window, under}
      BY <2>1, <2>4 DEF Keeps
    <3> QED
      BY <3>1
  <2> QED
    BY <2>2, <2>3, <2>4
<1>4. CASE under \in ToSet(Keeps)
  BY <1>1, <1>4 DEF SeedsOfQuery, Seeded
<1>5. CASE under = {}
  <2>1. /\ TextReading(under) \in Seq(under) /\ VectorReading(under) \in Seq(under)
        /\ ToSet(TextReading(under)) = {} /\ ToSet(VectorReading(under)) = {}
    <3>1. {f \in under : TextMass(f, under) > 0} = {} /\ {f \in under : VectorMass(f) > 0} = {}
      BY <1>5
    <3> HIDE DEF under
    <3> QED
      BY <1>1, <1>2, <3>1, ReadingFacts
  <2> HIDE DEF under
  <2>2. /\ ToSet(Best(SeedDepth, TextReading(under))) \subseteq {}
        /\ ToSet(Best(SeedDepth, VectorReading(under))) \subseteq {}
    BY <1>1, <2>1, BestWithin, SeedDepthNat
  <2> QED
    BY <2>2
<1> QED
  BY <1>3, <1>4, <1>5

\* Masses and degrees count something.
LEMMA MassFacts ==
  ASSUME weight[1] \in Nat, weight[2] \in Nat, NEW cs, IsFiniteSet(cs),
         \A c \in cs : c.score \in Nat
  PROVE  Mass(cs) \in Nat /\ \A src : Channel(cs, src) \in Nat
<1>1. \A src : Channel(cs, src) \in Nat
  <2> SUFFICES ASSUME NEW src PROVE Channel(cs, src) \in Nat
    OBVIOUS
  <2> DEFINE S == {c \in cs : c.src = src}
             score == [c \in S |-> c.score]
  <2>1. IsFiniteSet(S) /\ NatValued(score, S)
    BY FS_Subset DEF NatValued
  <2>2. Channel(cs, src) = SumFunctionOnSet(score, S)
    BY SumOfFunction DEF Channel
  <2> HIDE DEF S, score
  <2> QED
    BY <2>1, <2>2, SumNat
<1>3. Channel(cs, "text") \in Nat /\ Channel(cs, "anchor") \in Nat /\ Channel(cs, "vector") \in Nat
  BY <1>1
<1>4. \A a, b, c, d, e \in Nat : a * (b + c) + d * e \in Nat
  OBVIOUS
<1> QED
  BY <1>1, <1>3, <1>4 DEF Mass

LEMMA SightedMass ==
  ASSUME Fixed, weight[1] \in Nat, weight[2] \in Nat, NEW f
  PROVE  Mass(Sightings(f)) \in Nat
BY SightingsFacts, MassFacts

LEMMA DegreeFacts ==
  ASSUME NEW a
  PROVE  /\ Degree(a) \in Nat
         /\ Members(a) # {} => Degree(a) > 0
<1>1. IsFiniteSet(Members(a))
  BY KeysAssumption, FS_Subset DEF Members
<1> QED
  BY <1>1, FS_CardinalityType, FS_EmptySet DEF Degree

\* So do the sums over the anchors that were reached.
LEMMA TotalFacts ==
  ASSUME SearchInv, stage = "pooled"
  PROVE  /\ weight[1] \in Nat /\ weight[2] \in Nat
         /\ DOMAIN touched \subseteq Anchors /\ IsFiniteSet(DOMAIN touched)
         /\ transmitting \subseteq DOMAIN touched
         /\ NatValued(touched, DOMAIN touched)
         /\ TotalMass = SumFunctionOnSet(touched, DOMAIN touched)
         /\ TotalMass \in Nat /\ TotalDegree \in Nat
<1> DEFINE D == DOMAIN touched
           reached(a) == ReachedFrom(seeds, Members(a))
           masses(a) == [s \in reached(a) |-> Mass(Sightings(s))]
<1>1. Fixed /\ weight[1] \in Nat /\ weight[2] \in Nat
  BY WeightFacts DEF SearchInv, Fixed
<1>2. \/ D = {} /\ transmitting = {}
      \/ /\ D \subseteq Anchors /\ transmitting \subseteq D /\ seeds = SeedsOfQuery
         /\ \A a \in D : touched[a] = SumFunction(masses(a))
  <2>1. CASE touched = <<>> /\ transmitting = {}
    BY <2>1
  <2>2. CASE ExpandedInv
    BY <2>2 DEF ExpandedInv, AnchorsInv
  <2> QED
    BY <2>1, <2>2 DEF SearchInv
<1>3. D \subseteq Anchors /\ transmitting \subseteq D
  BY <1>2
<1>4. IsFiniteSet(D)
  BY <1>3, KeysAssumption, FS_Subset
<1>5. ASSUME NEW a, seeds = SeedsOfQuery PROVE SumFunction(masses(a)) \in Nat
  <2>1. seeds \subseteq Facts
    BY <1>1, <1>5, SeedsAreSeen
  <2>2. IsFiniteSet(reached(a))
    BY <2>1, ReachedWithin, KeysAssumption, FS_Subset
  <2>3. NatValued(masses(a), reached(a))
    BY <1>1, SightedMass DEF NatValued
  <2>4. SumFunction(masses(a)) = SumFunctionOnSet(masses(a), reached(a))
    BY SumOfFunction
  <2> HIDE DEF masses, reached
  <2> QED
    BY <2>2, <2>3, <2>4, SumNat
<1> HIDE DEF masses
<1>6. NatValued(touched, D)
  BY <1>2, <1>5 DEF NatValued
<1>7. TotalMass = SumFunctionOnSet(touched, D)
  BY SumOfFunction DEF TotalMass
<1>8. TotalMass \in Nat
  BY <1>4, <1>6, <1>7, SumNat
<1>9. TotalDegree \in Nat
  <2> DEFINE degrees == [a \in D |-> Degree(a)]
  <2>1. NatValued(degrees, D)
    BY DegreeFacts DEF NatValued
  <2>2. TotalDegree = SumFunctionOnSet(degrees, D)
    BY SumOfFunction DEF TotalDegree
  <2> HIDE DEF degrees
  <2> QED
    BY <1>4, <2>1, <2>2, SumNat
<1> QED
  BY <1>1, <1>3, <1>4, <1>6, <1>7, <1>8, <1>9

LEMMA SharesCannotAllBeExceeded == SearchInv => SomeAnchorStaysSilent
<1> SUFFICES ASSUME SearchInv, stage = "pooled", touched # <<>>,
                    DOMAIN touched \cap Named = {}, transmitting = DOMAIN touched
             PROVE  FALSE
  BY DEF SomeAnchorStaysSilent
<1> DEFINE D == DOMAIN touched
           degrees == [a \in D |-> Degree(a)]
<1>1. Fixed /\ ExpandedInv
  BY DEF SearchInv, Fixed
<1>2. /\ IsFiniteSet(D) /\ NatValued(touched, D)
      /\ TotalMass = SumFunctionOnSet(touched, D)
      /\ TotalMass \in Nat /\ TotalDegree \in Nat
  BY TotalFacts
<1>3. D # {}
  BY <1>1 DEF ExpandedInv, AnchorsInv
<1>4. TotalDegree = SumFunctionOnSet(degrees, D)
  BY SumOfFunction DEF TotalDegree
<1>5. \A a \in D : touched[a] \in Int /\ degrees[a] \in Nat
  BY <1>2, DegreeFacts DEF NatValued
<1>6. ASSUME NEW a \in D PROVE touched[a] * TotalDegree > degrees[a] * TotalMass
  <2> DEFINE share == degrees[a] * TotalMass
  <2>1. share \in Nat
    BY <1>2, <1>5
  <2>2. \E n \in {1, 2} : touched[a] * TotalDegree > share * n
    BY <1>1 DEF ExpandedInv, Transmits
  <2> DEFINE mass == touched[a] * TotalDegree
  <2>3. mass \in Int
    BY <1>2, <1>5
  <2> HIDE DEF share, mass
  <2>4. mass > share * 1 \/ mass > share * 2
    BY <2>2 DEF share, mass
  <2>5. mass > share
    BY <2>1, <2>3, <2>4
  <2> QED
    BY <2>5 DEF share, mass
<1>7. IntValued(touched, D) /\ IntValued(degrees, D)
  BY <1>5 DEF IntValued
<1> HIDE DEF degrees, D
<1>8. TotalMass * TotalDegree > TotalDegree * TotalMass
  BY <1>2, <1>3, <1>4, <1>6, <1>7, SumCompare
<1> QED
  BY <1>2, <1>8

\* A fact the pool holds has the masses the indexes gave it.
LEMMA ObservedMass ==
  ASSUME Fixed, NEW f
  PROVE  /\ \A c \in Observations(f) :
              c.src = "graph" => \E a \in Reach(f) : c = Transmission(a)
         /\ Asks => Mass(Observations(f)) = Mass(Sightings(f))
<1> DEFINE T == {Transmission(a) : a \in Reach(f)}
           A == {Via("anchor", 1, a) : a \in FiledUnder(f) \cap Named}
<1>1. Observations(f) = Sightings(f) \cup (IF Asks THEN {} ELSE A) \cup T
  BY DEF Observations, Reach
<1>2. \A c \in Sightings(f) : c.src # "graph"
  BY SightingsFacts
<1>3. \A c \in T : c.src = "graph"
  BY DEF Transmission, Via
<1>6. \A c \in A : c.src # "graph"
  BY DEF Via
<1> HIDE DEF T, A
<1>4. ASSUME Asks, NEW src \in {"text", "anchor", "vector"}
      PROVE  Channel(Observations(f), src) = Channel(Sightings(f), src)
  <2>1. {c \in Observations(f) : c.src = src} = {c \in Sightings(f) : c.src = src}
    BY <1>1, <1>3, <1>4
  <2> QED
    BY <2>1 DEF Channel
<1>5. Asks => Mass(Observations(f)) = Mass(Sightings(f))
  BY <1>4 DEF Mass
<1> QED
  BY <1>1, <1>2, <1>5, <1>6 DEF T

\* The surplus an anchor funds is counted, and is nothing unless the anchor
\* observed more than the fact's own mass.
LEMMA SurplusFacts ==
  ASSUME NEW a, Members(a) # {}, touched[a] \in Nat, NEW own \in Nat,
         TotalMass \in Nat, TotalDegree \in Nat
  PROVE  /\ Surplus(Transmission(a), own) \in Nat
         /\ Surplus(Transmission(a), own) > 0 => touched[a] > own
<1> DEFINE c == Transmission(a)
           fair == IF c.named THEN 0 ELSE Degree(a) * TotalMass
           over == (touched[a] - own) * TotalDegree
           surplus == over - fair
           edges == CommonDegree \div Degree(a)
<1>1. c.score = touched[a] /\ c.via = a
  BY DEF Transmission, Via
<1>2. Surplus(c, own) = IF surplus > 0 THEN surplus * edges ELSE 0
  BY <1>1 DEF Surplus
<1>3. Degree(a) \in Nat /\ Degree(a) > 0
  BY DegreeFacts
<1>4. edges \in Nat
  BY <1>3, SizesAssumption
<1>5. fair \in Nat
  BY <1>3
<1>6. over \in Int /\ (~(touched[a] > own) => over <= 0)
  <2>1. over \in Int
    OBVIOUS
  <2>2. ASSUME ~(touched[a] > own) PROVE over <= 0
    <3>1. own - touched[a] \in Nat
      BY <2>2
    <3>2. \A m, n \in Nat : m * n \in Nat
      OBVIOUS
    <3>3. (own - touched[a]) * TotalDegree \in Nat
      BY <3>1, <3>2
    <3>4. (touched[a] - own) * TotalDegree = -((own - touched[a]) * TotalDegree)
      BY <2>1
    <3> QED
      BY <3>3, <3>4
  <2> QED
    BY <2>1, <2>2
<1> HIDE DEF over, fair, edges, c
<1>7. surplus \in Int /\ (surplus > 0 => over > 0)
  BY <1>5, <1>6
<1>8. Surplus(c, own) \in Nat
  <2>1. \A m, n \in Nat : m * n \in Nat
    OBVIOUS
  <2>2. surplus > 0 => surplus \in Nat
    BY <1>7
  <2> HIDE DEF surplus
  <2> QED
    BY <1>2, <1>4, <2>1, <2>2
<1>9. Surplus(c, own) > 0 => touched[a] > own
  <2>1. over > 0 => touched[a] > own
    BY <1>6
  <2> HIDE DEF surplus
  <2> QED
    BY <1>2, <1>7, <2>1
<1> QED
  BY <1>8, <1>9 DEF c

LEMMA LiftNeedsOthers == SearchInv => OthersFundTheLift
<1> SUFFICES ASSUME SearchInv, stage = "pooled", NEW f \in Pool, Lift(Contributions(f)) > 0
             PROVE  \E a \in transmitting \cap FiledUnder(f) : (seeds \cap Members(a)) \ {f} # {}
  BY DEF OthersFundTheLift
<1> DEFINE cs == Observations(f)
           G == {c \in cs : c.src = "graph"}
           own == Mass(cs)
           surplus == [c \in G |-> Surplus(c, own)]
<1>1. Fixed /\ Contributions(f) = cs /\ Lift(cs) = SumFunctionOnSet(surplus, G)
  BY SumOfFunction DEF SearchInv, GroupsAreTransparent, Transparent, Fixed, Lift
<1>2. G # {}
  <2>1. SumFunctionOnSet(surplus, {}) = 0
    BY SumEmpty
  <2> HIDE DEF surplus, G
  <2> QED
    BY <1>1, <2>1
<1>3. \A c \in G : \E a \in Reach(f) : c = Transmission(a)
  BY <1>1, ObservedMass
<1>4. Asks /\ ExpandedInv
  <2>1. transmitting # {}
    BY <1>1, <1>2, <1>3, SilentReach
  <2> QED
    BY <2>1 DEF SearchInv, ExpandedInv
<1>5. /\ weight[1] \in Nat /\ weight[2] \in Nat /\ AnchorsInv /\ seeds = SeedsOfQuery
      /\ DOMAIN touched \subseteq Anchors /\ transmitting \subseteq DOMAIN touched
      /\ NatValued(touched, DOMAIN touched) /\ TotalMass \in Nat /\ TotalDegree \in Nat
  BY <1>4, TotalFacts DEF ExpandedInv
<1>6. Reach(f) \subseteq transmitting \cap FiledUnder(f) /\ IsFiniteSet(Reach(f))
  BY <1>1, <1>5, SilentReach
<1>7. own = Mass(Sightings(f)) /\ own \in Nat
  BY <1>1, <1>4, <1>5, ObservedMass, SightedMass
<1>8. \A a \in Reach(f) :
        /\ Surplus(Transmission(a), own) \in Nat
        /\ Surplus(Transmission(a), own) > 0 => touched[a] > own
  <2> SUFFICES ASSUME NEW a \in Reach(f)
               PROVE  /\ Surplus(Transmission(a), own) \in Nat
                      /\ Surplus(Transmission(a), own) > 0 => touched[a] > own
    OBVIOUS
  <2>1. f \in Members(a)
    BY <1>6 DEF Pool, Window, FiledUnder, Members
  <2>2. touched[a] \in Nat
    BY <1>5, <1>6 DEF NatValued
  <2> HIDE DEF own
  <2> QED
    BY <1>5, <1>7, <2>1, <2>2, SurplusFacts
<1>9. \E a \in Reach(f) : touched[a] > own
  <2>1. IsFiniteSet(G)
    <3>1. IsFiniteSet({Transmission(a) : a \in Reach(f)})
      <4> DEFINE T == {Transmission(a) : a \in Reach(f)}
                 sent == [a \in Reach(f) |-> Transmission(a)]
      <4>1. sent \in Surjection(Reach(f), T)
        BY DEF Surjection
      <4> QED
        BY <1>6, <4>1, FS_Surjection
    <3>2. G \subseteq {Transmission(a) : a \in Reach(f)}
      BY <1>3
    <3> QED
      BY <3>1, <3>2, FS_Subset
  <2>2. NatValued(surplus, G)
    BY <1>3, <1>8 DEF NatValued
  <2>3. PICK c \in G : surplus[c] > 0
    <3> HIDE DEF surplus, G
    <3> QED
      BY <1>1, <2>1, <2>2, SumPositive
  <2> HIDE DEF own
  <2> QED
    BY <1>3, <1>8, <2>3
<1>10. PICK a \in Reach(f) : touched[a] > own
  BY <1>9
<1>11. (seeds \cap Members(a)) \ {f} # {}
  <2> SUFFICES ASSUME seeds \cap Members(a) \subseteq {f} PROVE FALSE
    OBVIOUS
  <2> DEFINE reached == ReachedFrom(seeds, Members(a))
             masses == [s \in reached |-> Mass(Sightings(s))]
  <2>1. touched[a] = SumFunctionOnSet(masses, reached)
    BY <1>5, <1>6, SumOfFunction DEF AnchorsInv
  <2>2. reached \subseteq {f}
    BY <1>1, <1>5, SeedsAreSeen, ReachedWithin
  <2>3. CASE reached = {}
    <3>1. touched[a] = 0
      BY <2>1, <2>3, SumEmpty
    <3> HIDE DEF own
    <3> QED
      BY <1>7, <1>10, <3>1
  <2>4. CASE reached = {f}
    <3>1. masses[f] = own /\ masses[f] \in Int
      BY <1>7, <2>4
    <3> HIDE DEF masses
    <3>2. touched[a] = own
      BY <2>1, <2>4, <3>1, SumSmall
    <3> HIDE DEF own
    <3> QED
      BY <1>7, <1>10, <3>2
  <2> QED
    BY <2>2, <2>3, <2>4
<1> QED
  BY <1>6, <1>11

-----------------------------------------------------------------------------
(* The ranking.                                                            *)

\* The fold of what was observed counts something.
LEMMA FoldFacts ==
  ASSUME SearchInv, stage = "pooled", NEW cs, IsFiniteSet(cs),
         \A c \in cs : c.score \in Nat,
         \A c \in cs : c.src = "graph" =>
             \E a \in transmitting : Members(a) # {} /\ c = Transmission(a)
  PROVE  /\ Mass(cs) \in Nat /\ Lift(cs) \in Nat /\ Relevance(cs) \in Nat
         /\ \A src : Channel(cs, src) \in Nat
<1> DEFINE own == Mass(cs)
           G == {c \in cs : c.src = "graph"}
           surplus == [c \in G |-> Surplus(c, own)]
<1>1. /\ weight[1] \in Nat /\ weight[2] \in Nat /\ transmitting \subseteq DOMAIN touched
      /\ NatValued(touched, DOMAIN touched) /\ TotalMass \in Nat /\ TotalDegree \in Nat
  BY TotalFacts
<1>2. own \in Nat /\ \A src : Channel(cs, src) \in Nat
  BY <1>1, MassFacts
<1> HIDE DEF own
<1>3. ASSUME NEW c \in G PROVE Surplus(c, own) \in Nat
  <2>1. PICK a \in transmitting : Members(a) # {} /\ c = Transmission(a)
    OBVIOUS
  <2>2. touched[a] \in Nat
    BY <1>1 DEF NatValued
  <2>3. Surplus(Transmission(a), own) \in Nat
    BY <1>1, <1>2, <2>1, <2>2, SurplusFacts
  <2> QED
    BY <2>1, <2>3
<1>4. IsFiniteSet(G) /\ NatValued(surplus, G)
  BY <1>3, FS_Subset DEF NatValued
<1>5. Lift(cs) = SumFunctionOnSet(surplus, G)
  BY SumOfFunction DEF Lift, own
<1>6. Lift(cs) \in Nat
  <2> HIDE DEF surplus, G
  <2> QED
    BY <1>4, <1>5, SumNat
<1>7. Scale \in Nat
  BY <1>1, SizesAssumption DEF Scale
<1>8. Relevance(cs) \in Nat
  <2>1. \A a, b, d \in Nat : a * b + d \in Nat
    OBVIOUS
  <2> QED
    BY <1>2, <1>6, <1>7, <2>1 DEF Relevance, own
<1> QED
  BY <1>2, <1>6, <1>8 DEF own

LEMMA ObservedFolds ==
  ASSUME SearchInv, stage = "pooled", NEW f \in Facts
  PROVE  /\ Worth(f) \in Nat /\ Lift(Observations(f)) \in Nat
         /\ \A src : Channel(Observations(f), src) \in Nat
<1> DEFINE T == {Transmission(a) : a \in Reach(f)}
           A == {Via("anchor", 1, a) : a \in FiledUnder(f) \cap Named}
<1>1. /\ Fixed /\ transmitting \subseteq DOMAIN touched /\ DOMAIN touched \subseteq Anchors
      /\ NatValued(touched, DOMAIN touched)
  BY TotalFacts DEF SearchInv, Fixed
<1>2. Observations(f) = Sightings(f) \cup (IF Asks THEN {} ELSE A) \cup T
  BY DEF Observations, Reach
<1>3. IsFiniteSet(Reach(f)) /\ Reach(f) \subseteq transmitting \cap FiledUnder(f)
  BY <1>1, SilentReach
<1>4. IsFiniteSet(T)
  <2> DEFINE sent == [a \in Reach(f) |-> Transmission(a)]
  <2>1. sent \in Surjection(Reach(f), T)
    BY DEF Surjection
  <2> QED
    BY <1>3, <2>1, FS_Surjection
<1>5. IsFiniteSet(A)
  <2> DEFINE N == FiledUnder(f) \cap Named
             seen == [a \in N |-> Via("anchor", 1, a)]
  <2>1. seen \in Surjection(N, A)
    BY DEF Surjection
  <2>2. IsFiniteSet(N)
    BY KeysAssumption, FS_Subset DEF FiledUnder
  <2> QED
    BY <2>1, <2>2, FS_Surjection
<1>6. \A c \in A : c.score = 1
  BY DEF Via
<1>7. \A c \in T : c.score \in Nat
  BY <1>1, <1>3 DEF Transmission, Via, NatValued
<1>8. /\ IsFiniteSet(Sightings(f)) /\ \A c \in Sightings(f) : c.score \in Nat
  BY <1>1, SightingsFacts
<1> HIDE DEF T, A
<1>9. IsFiniteSet(Observations(f))
  <2>1. IsFiniteSet(Sightings(f) \cup T) /\ IsFiniteSet((Sightings(f) \cup A) \cup T)
    BY <1>4, <1>5, <1>8, FS_Union
  <2> QED
    BY <1>2, <2>1
<1>10. \A c \in Observations(f) : c.score \in Nat
  BY <1>2, <1>6, <1>7, <1>8
<1>11. \A a \in Reach(f) : a \in transmitting /\ Members(a) # {}
  BY <1>3 DEF Members, FiledUnder
<1>12. \A c \in Observations(f) : c.src = "graph" =>
         \E a \in transmitting : Members(a) # {} /\ c = Transmission(a)
  BY <1>1, <1>11, ObservedMass
<1> QED
  BY <1>9, <1>10, <1>12, FoldFacts DEF Worth

\* Halving a relevance keeps its order: by age when scores decay, and by nothing
\* otherwise.
LEMMA DecayedOrder ==
  ASSUME SearchInv, stage = "pooled", NEW f \in Pool, NEW g \in Pool
  PROVE  /\ Decayed(f) \in Nat
         /\ Decayed(f) > Decayed(g) \/ (Decayed(f) = Decayed(g) /\ f < g) <=> Outranks(f, g)
<1> DEFINE P == 2 ^ Now
           age(h) == 2 ^ Min({world.ts[h], Now})
<1>1. Pool \subseteq Facts /\ \A h \in Pool : Contributions(h) = Observations(h)
  BY WindowWithin DEF Pool, SearchInv, GroupsAreTransparent, Transparent
<1>2. P \in Nat /\ P > 0
  BY PowersAssumption, SizesAssumption
<1>3. \A h \in Facts : age(h) \in Nat
  <2> SUFFICES ASSUME NEW h \in Facts PROVE age(h) \in Nat
    OBVIOUS
  <2> DEFINE m == Min({world.ts[h], Now})
  <2>1. world.ts[h] \in Nat /\ Now \in Nat
    BY WorldsAssumption, SizesAssumption DEF SearchInv
  <2>2. \E x \in {world.ts[h], Now} : \A y \in {world.ts[h], Now} : x <= y
    BY <2>1
  <2>3. m \in {world.ts[h], Now} /\ m <= Now
    BY <2>2 DEF Min
  <2>4. m \in 0 .. Now
    BY <2>1, <2>3
  <2> HIDE DEF m
  <2>5. 2 ^ m \in Nat
    BY <2>4, PowersAssumption
  <2> QED
    BY <2>5 DEF m
<1>4. \A h \in Pool : Worth(h) \in Nat
  BY <1>1, ObservedFolds
<1>5. \A h \in Pool : Decayed(h) = Worth(h) * (IF world.decays THEN age(h) ELSE P)
  BY <1>1 DEF Decayed, Worth
<1>6. \A h \in Pool : Aged(h) = Worth(h) * (IF world.decays THEN age(h) ELSE 1)
  BY DEF Aged
<1>7. \A h \in Pool : h \in Nat /\ age(h) \in Nat
  BY <1>1, <1>3, KeysAssumption
<1> HIDE DEF P, age
<1>8. CASE world.decays
  <2>1. Decayed(f) = Aged(f) /\ Decayed(g) = Aged(g)
    BY <1>5, <1>6, <1>8
  <2>2. Decayed(f) \in Nat
    <3>1. \A a, b \in Nat : a * b \in Nat
      OBVIOUS
    <3> QED
      BY <1>4, <1>5, <1>7, <1>8, <3>1
  <2> QED
    BY <2>1, <2>2 DEF Outranks
<1>9. CASE ~world.decays
  <2> DEFINE x == Worth(f)
             y == Worth(g)
  <2>1. Decayed(f) = x * P /\ Decayed(g) = y * P /\ Aged(f) = x * 1 /\ Aged(g) = y * 1
    BY <1>5, <1>6, <1>9
  <2>2. x \in Nat /\ y \in Nat
    BY <1>4
  <2> HIDE DEF x, y
  <2>3. x * P \in Nat /\ (x * P > y * P <=> x > y) /\ (x * P = y * P <=> x = y)
    BY <1>2, <2>2
  <2>4. x * 1 = x /\ y * 1 = y
    BY <2>2
  <2> QED
    BY <2>1, <2>3, <2>4 DEF Outranks
<1> QED
  BY <1>8, <1>9

-----------------------------------------------------------------------------
(* The theorems.                                                           *)

Answer == ScoreCutoff(IF query.top > 0 THEN Best(query.top, Ranking) ELSE Ranking)

LEMMA AnswerIsBest ==
  ASSUME SearchInv, stage = "pooled"
  PROVE  IsBest(Answer)
<1> DEFINE P == Pool
           score == [f \in P |-> Decayed(f)]
           r == Ranking
           b == IF query.top > 0 THEN Best(query.top, r) ELSE r
           T == ToSet(b)
           n == Cardinality(P)
           R1 == world.ratio[1]
           R2 == world.ratio[2]
           best == Max({Relevance(Contributions(f)) : f \in T})
           K == {f \in T : Relevance(Contributions(f)) * R2 >= best * R1}
           s == [f \in K |-> Decayed(f)]
<1>1. /\ P \subseteq Facts /\ P = Listed \cup Grouped /\ query.top \in Nat
      /\ R1 \in Nat /\ R2 \in Nat /\ R1 <= R2
      /\ \A f \in P : Relevance(Contributions(f)) = Worth(f)
  BY WindowWithin, WorldsAssumption, QueriesAssumption
     DEF Pool, SearchInv, GroupsAreTransparent, Transparent, Worth
<1>2. /\ \A f \in P : Worth(f) \in Nat /\ Decayed(f) \in Nat
      /\ \A f, g \in P :
           Decayed(f) > Decayed(g) \/ (Decayed(f) = Decayed(g) /\ f < g) <=> Outranks(f, g)
  BY <1>1, ObservedFolds, DecayedOrder
\* The whole ranking, and the part of it that is returned before the cutoff.
<1>3. /\ r \in Seq(P) /\ ToSet(r) = P /\ Len(r) = n /\ n \in Nat
      /\ \A i, j \in 1 .. n : i < j => Outranks(r[i], r[j])
  <2>1. r = Ranked(score) /\ DOMAIN score = P /\ IntValued(score, P)
    BY <1>1, <1>2 DEF Ranking, IntValued
  <2>2. \A f, g \in P : Ahead(score, f, g) <=> Outranks(f, g)
    BY <1>2 DEF Ahead
  <2> HIDE DEF score, P
  <2>3. /\ r \in Seq(P) /\ ToSet(r) = P /\ Len(r) = n /\ n \in Nat
        /\ \A i, j \in 1 .. n : i < j => Ahead(score, r[i], r[j])
    BY <1>1, <2>1, RankedLists
  <2>4. \A i \in 1 .. n : r[i] \in P
    BY <2>3
  <2> QED
    BY <2>2, <2>3, <2>4
<1>4. PICK m \in 0 .. n :
        /\ b \in Seq(P) /\ Len(b) = m /\ \A i \in 1 .. m : b[i] = r[i]
        /\ m = n \/ (query.top > 0 /\ m = query.top)
        /\ query.top > 0 => m <= query.top
  <2>1. CASE query.top > 0
    <3> DEFINE k == IF query.top < n THEN query.top ELSE n
    <3>1. /\ Best(query.top, r) \in Seq(P) /\ Len(Best(query.top, r)) = k
          /\ \A i \in 1 .. k : Best(query.top, r)[i] = r[i]
      <4>1. query.top \in Nat /\ r \in Seq(P) /\ Len(r) = n
        BY <1>1, <1>3
      <4> HIDE DEF r, P, n
      <4> QED
        BY <4>1, BestWithin
    <3>2. k \in 0 .. n /\ (k = n \/ k = query.top) /\ k <= query.top
      BY <1>1, <1>3
    <3> HIDE DEF k, r, P, n
    <3> QED
      BY <2>1, <3>1, <3>2
  <2>2. CASE ~(query.top > 0)
    <3>1. b = r /\ n \in 0 .. n
      BY <1>3, <2>2
    <3> HIDE DEF r, b, P, n
    <3> QED
      BY <1>3, <2>2, <3>1
  <2> QED
    BY <2>1, <2>2
<1> HIDE DEF P, score, r, b, n, R1, R2
<1>5. T \subseteq P /\ IsFiniteSet(T) /\ Cardinality(T) <= m /\ Cardinality(T) \in Nat
  <2>1. T \subseteq P
    BY <1>4, ElementsOf
  <2>2. b \in Surjection(1 .. m, T)
    <3>1. b \in [1 .. m -> T] /\ \A x \in T : \E i \in 1 .. m : b[i] = x
      BY <1>4, ElementsOf, OwnElements
    <3> QED
      BY <3>1 DEF Surjection
  <2>3. IsFiniteSet(1 .. m) /\ Cardinality(1 .. m) = m
    BY <1>4, FS_Interval
  <2> HIDE DEF T
  <2> QED
    BY <2>1, <2>2, <2>3, FS_Surjection, FS_CardinalityType
\* The best relevance in it, held by some fact that the cutoff keeps.
<1>6. T # {} => /\ \A f \in T : Worth(f) <= best
                /\ \E g \in T : Worth(g) = best
  <2> SUFFICES ASSUME T # {} PROVE (\A f \in T : Worth(f) <= best) /\ \E g \in T : Worth(g) = best
    OBVIOUS
  <2> DEFINE W == {Worth(f) : f \in T}
             worth == [f \in T |-> Worth(f)]
  <2>1. {Relevance(Contributions(f)) : f \in T} = W
    BY <1>1, <1>5
  <2>2. worth \in Surjection(T, W)
    BY DEF Surjection
  <2>3. IsFiniteSet(W)
    BY <1>5, <2>2, FS_Surjection
  <2>4. W \in SUBSET Int /\ W # {}
    BY <1>2, <1>5
  <2>5. best = Max(W)
    BY <2>1
  <2> HIDE DEF best
  <2>6. best \in W /\ \A w \in W : best >= w
    <3> HIDE DEF W
    <3> QED
      BY <2>3, <2>4, <2>5, Extremes
  <2>7. best \in Int /\ \A f \in T : best >= Worth(f)
    BY <2>4, <2>6
  <2> QED
    BY <1>2, <1>5, <2>6, <2>7
<1> HIDE DEF best
<1>7. K \subseteq T /\ \A f \in T : f \in K <=> Worth(f) * R2 >= best * R1
  BY <1>1, <1>5
<1> HIDE DEF K, T
<1>8. \A g \in T : Worth(g) = best => g \in K
  <2>1. \A x, y, z \in Nat : y <= z => x * z >= x * y
    OBVIOUS
  <2> QED
    BY <1>1, <1>2, <1>5, <1>7, <2>1
\* The answer lists what the cutoff keeps.
<1>9. /\ Answer \in Seq(K) /\ ToSet(Answer) = K /\ Len(Answer) = Cardinality(K)
      /\ \A i, j \in 1 .. Len(Answer) : i < j => Outranks(Answer[i], Answer[j])
  <2>1. Answer = Ranked(s)
    BY DEF Answer, ScoreCutoff, b, r, T, K, best, R1, R2
  <2>2. K \subseteq P /\ K \subseteq Facts
    BY <1>1, <1>5, <1>7
  <2>3. DOMAIN s = K /\ IntValued(s, K)
    BY <1>2, <2>2 DEF IntValued
  <2>4. \A f, g \in K : Ahead(s, f, g) <=> Outranks(f, g)
    BY <1>2, <2>2 DEF Ahead
  <2> HIDE DEF s
  <2>5. /\ Answer \in Seq(K) /\ ToSet(Answer) = K /\ Len(Answer) = Cardinality(K)
        /\ \A i, j \in 1 .. Cardinality(K) : i < j => Ahead(s, Answer[i], Answer[j])
    BY <2>1, <2>2, <2>3, RankedLists
  <2>6. \A i \in 1 .. Len(Answer) : Answer[i] \in K
    BY <2>5
  <2> QED
    BY <2>4, <2>5, <2>6
<1> DEFINE cut(f) == \E g \in ToSet(Answer) : Worth(f) * R2 < Worth(g) * R1
<1>10. \A f \in K : ~cut(f)
  <2> SUFFICES ASSUME NEW f \in K, NEW g \in K PROVE ~(Worth(f) * R2 < Worth(g) * R1)
    BY <1>9
  <2>1. /\ Worth(f) * R2 >= best * R1 /\ Worth(g) <= best /\ T # {}
        /\ Worth(f) \in Nat /\ Worth(g) \in Nat
    BY <1>2, <1>5, <1>6, <1>7
  <2>2. best \in Nat
    BY <1>2, <1>5, <1>6, <2>1
  <2>3. \A x, y, z \in Nat : x <= y => x * z <= y * z
    OBVIOUS
  <2>4. Worth(g) * R1 <= best * R1
    BY <1>1, <2>1, <2>2, <2>3
  <2> DEFINE p == Worth(f) * R2
             q == Worth(g) * R1
             t == best * R1
  <2>5. p \in Int /\ q \in Int /\ t \in Int /\ p >= t /\ q <= t
    BY <1>1, <2>1, <2>2, <2>4
  <2> HIDE DEF p, q, t
  <2>6. ~(p < q)
    BY <2>5
  <2> QED
    BY <2>6 DEF p, q
<1>11. query.top > 0 => Len(Answer) <= query.top
  <2>1. Cardinality(K) <= Cardinality(T) /\ Cardinality(K) \in Nat
    BY <1>5, <1>7, FS_Subset, FS_CardinalityType
  <2> QED
    BY <1>1, <1>4, <1>5, <1>9, <2>1
<1>12. P # {} => T # {}
  <2> SUFFICES ASSUME P # {} PROVE T # {}
    OBVIOUS
  <2>1. n # 0
    <3>1. IsFiniteSet(P)
      BY <1>1, KeysAssumption, FS_Subset
    <3> QED
      BY <3>1, FS_EmptySet DEF n
  <2>2. m # 0
    BY <1>1, <1>3, <1>4, <2>1
  <2>3. 1 \in 1 .. Len(b)
    BY <1>4, <2>2
  <2> QED
    BY <1>4, <2>3, ElementsOf DEF T
<1>13. P # {} => Answer # <<>>
  <2>1. T # {} => K # {}
    BY <1>6, <1>8
  <2>2. K # {} => Answer # <<>>
    <3>1. ToSet(<<>>) = {}
      BY DEF ToSet
    <3> QED
      BY <1>9, <3>1
  <2> QED
    BY <1>12, <2>1, <2>2
<1>14. ASSUME NEW f \in P \ K
       PROVE  cut(f) \/ (query.top > 0 /\ Cardinality({g \in Pool : Outranks(g, f)}) >= query.top)
  <2>1. CASE f \in T
    <3>1. PICK g \in T : Worth(g) = best
      BY <1>6, <2>1
    <3>2. g \in ToSet(Answer)
      BY <1>8, <1>9, <3>1
    <3>3. Worth(f) * R2 < best * R1
      <4> DEFINE p == Worth(f) * R2
                 t == best * R1
      <4>1. p \in Int /\ t \in Int
        BY <1>1, <1>2, <1>5, <2>1, <3>1
      <4>2. ~(p >= t)
        BY <1>7, <1>14, <2>1
      <4> HIDE DEF p, t
      <4>3. p < t
        BY <4>1, <4>2
      <4> QED
        BY <4>3 DEF p, t
    <3> QED
      BY <3>1, <3>2, <3>3
  <2>2. CASE f \notin T
    <3>1. PICK i \in 1 .. n : r[i] = f
      BY <1>3, <1>14, ElementsOf
    <3>2. i \notin 1 .. m
      <4> SUFFICES ASSUME i \in 1 .. m PROVE FALSE
        OBVIOUS
      <4>1. b[i] \in T
        BY <1>4, ElementsOf DEF T
      <4> QED
        BY <1>4, <2>2, <3>1, <4>1
    <3>3. m < i /\ query.top > 0 /\ m = query.top
      BY <1>3, <1>4, <3>2
    <3> DEFINE A == {g \in P : Outranks(g, f)}
    <3>4. \A j \in 1 .. m : j \in 1 .. n /\ j < i /\ r[j] \in P
      BY <1>3, <1>4, <3>3
    <3>5. \A j \in 1 .. m : b[j] \in A
      BY <1>3, <1>4, <3>1, <3>4
    <3>6. \A j, k \in 1 .. m : b[j] = b[k] => j = k
      <4> SUFFICES ASSUME NEW j \in 1 .. m, NEW k \in 1 .. m, b[j] = b[k] PROVE j = k
        OBVIOUS
      <4>1. ~Outranks(b[j], b[j])
        <5>1. b[j] \in P /\ b[j] \in Nat
          BY <1>1, <1>4, <3>4, KeysAssumption
        <5>2. Decayed(b[j]) \in Nat
          BY <1>2, <5>1
        <5> QED
          BY <1>2, <5>1, <5>2
      <4>2. ~(j < k) /\ ~(k < j)
        BY <1>3, <1>4, <3>4, <4>1
      <4> QED
        BY <4>2
    <3>7. b \in Injection(1 .. m, A)
      <4>1. b \in [1 .. m -> A]
        BY <1>4, <3>5
      <4> HIDE DEF A
      <4> QED
        BY <3>6, <4>1 DEF Injection, IsInjective
    <3>8. IsFiniteSet(A) /\ IsFiniteSet(1 .. m) /\ Cardinality(1 .. m) = m
      <4>1. A \subseteq Facts
        BY <1>1
      <4>2. IsFiniteSet(A)
        <5> HIDE DEF A
        <5> QED
          BY <4>1, KeysAssumption, FS_Subset
      <4>3. m \in Nat
        BY <1>1, <1>4
      <4> HIDE DEF A
      <4> QED
        BY <4>2, <4>3, FS_Interval
    <3>9. m <= Cardinality(A)
      <4> HIDE DEF A
      <4> QED
        BY <3>7, <3>8, FS_Injection
    <3>10. Cardinality(A) \in Nat
      BY <3>8, FS_CardinalityType
    <3> QED
      BY <1>1, <3>3, <3>9, <3>10 DEF P
  <2> QED
    BY <2>1, <2>2
<1>15. DOMAIN Answer = 1 .. Len(Answer)
  BY <1>9
<1> QED
  BY <1>9, <1>10, <1>11, <1>13, <1>14, <1>15 DEF IsBest, P, R1, R2

LEMMA SameRanking ==
  ASSUME UNCHANGED <<world, query, candidates, groups, weight, touched, transmitting>>
  PROVE  /\ Pool' = Pool
         /\ \A f : Worth(f)' = Worth(f) /\ Aged(f)' = Aged(f)
<1>1. \A f : Observations(f)' = Observations(f)
  BY SameGraph, SameAdmission, SameMasses DEF Observations, Via
<1>2. Pool' = Pool
  BY <1>1, SameGraph DEF Pool
<1>3. TotalMass' = TotalMass /\ \A a : Degree(a)' = Degree(a)
  BY SameGraph DEF TotalMass, Degree
<1>4. TotalDegree' = TotalDegree
  BY <1>3 DEF TotalDegree
<1>5. \A c, own : Surplus(c, own)' = Surplus(c, own)
  BY <1>3, <1>4 DEF Surplus
<1>6. \A cs : Lift(cs)' = Lift(cs) /\ Mass(cs)' = Mass(cs) /\ Scale' = Scale
  BY <1>4, <1>5, SameMasses DEF Lift, Scale
<1>7. \A cs : Relevance(cs)' = Relevance(cs)
  BY <1>6 DEF Relevance
<1>8. \A f : Worth(f)' = Worth(f)
  BY <1>1, <1>7 DEF Worth
<1> QED
  BY <1>2, <1>8 DEF Aged

LEMMA RankKeeps ==
  ASSUME SearchInv, Rank
  PROVE  SearchInv'
<1>1. /\ UNCHANGED <<world, query, candidates, groups, seeds, weight, touched, transmitting>>
      /\ stage = "pooled" /\ stage' = "answered" /\ hits' = Answer
  BY DEF Rank, Answer
<1>2. weight' \in {<<1, 1>>, TextWeakness'}
  BY <1>1, WeightStays DEF SearchInv
<1>3. IsBest(Answer)
  BY <1>1, AnswerIsBest
<1>4. HitsAreBest'
  <2>1. \A f, g : Outranks(f, g)' = Outranks(f, g)
    BY <1>1, SameRanking DEF Outranks
  <2> QED
    BY <1>1, <1>3, <2>1, SameRanking DEF HitsAreBest, IsBest
<1> QED
  BY <1>1, <1>2, <1>4 DEF SearchInv, GroupsAreTransparent

LEMMA StutterKeeps ==
  ASSUME SearchInv, UNCHANGED vars
  PROVE  SearchInv'
<1>1. UNCHANGED <<world, query, stage, candidates, groups, seeds, weight, touched,
                  transmitting, hits>>
  BY DEF vars
<1>2. SeedsInv' = SeedsInv
  BY <1>1, SameGraph DEF SeedsInv
<1>3. AnchorsInv => AnchorsInv'
  BY <1>1, SameAnchors
<1>4. ExpandedInv => ExpandedInv'
  BY <1>1, <1>3, SameGraph, SameAdmission DEF ExpandedInv
<1>5. GroupsAreTransparent' = GroupsAreTransparent
  <2>1. /\ \A f : Observations(f)' = Observations(f)
        /\ \A f : Contributions(f)' = Contributions(f)
    BY <1>1, SameGraph, SameAdmission, SameMasses DEF Observations, Contributions, Via
  <2>2. Listed' = Listed /\ Grouped' = Grouped /\ Pool' = Pool
    BY <1>1, <2>1, SameGraph DEF Listed, Grouped, GroupMembers, Pool
  <2> QED
    BY <1>1, <2>1, <2>2 DEF GroupsAreTransparent, Transparent
<1>6. weight' \in {<<1, 1>>, TextWeakness'}
  BY <1>1, WeightStays DEF SearchInv
<1>7. GroupsApart' = GroupsApart
  BY <1>1 DEF GroupsApart
<1>8. HitsAreBest => HitsAreBest'
  <2>1. \A f, g : Outranks(f, g)' = Outranks(f, g)
    BY <1>1, SameRanking DEF Outranks
  <2> QED
    BY <1>1, <2>1, SameRanking DEF HitsAreBest, IsBest
<1> QED
  BY <1>1, <1>2, <1>3, <1>4, <1>5, <1>6, <1>7, <1>8 DEF SearchInv

-----------------------------------------------------------------------------
(* The statistics of the pool.                                             *)

LEMMA SpreadFacts ==
  ASSUME NEW cs, Lift(cs) \in Nat, \A src : Channel(cs, src) \in Nat
  PROVE  \A c, p \in 1 .. 3 : Spread(Channels(cs)[c])[p] \in Nat
<1>1. \A c \in 1 .. 3 : Channels(cs)[c] \in Nat
  BY DEF Channels
<1>2. \A v \in Nat : \A p \in 1 .. 3 : Spread(v)[p] \in Nat
  <2> SUFFICES ASSUME NEW v \in Nat, NEW p \in 1 .. 3 PROVE Spread(v)[p] \in Nat
    OBVIOUS
  <2> DEFINE square == v * v
  <2>1. square \in Nat
    OBVIOUS
  <2>2. Spread(v) = <<1, v, square>>
    BY DEF Spread
  <2> HIDE DEF square
  <2> QED
    BY <2>1, <2>2
<1> QED
  BY <1>1, <1>2

\* A member of a group was observed by the group's anchor alone.
LEMMA GroupedOnce ==
  ASSUME SearchInv, stage = "pooled", NEW a \in DOMAIN groups, NEW f \in GroupMembers(a)
  PROVE  f \in Pool /\ Observations(f) = {Transmission(a)}
<1>1. /\ f \in groups[a] /\ f \in Grouped /\ f \notin DOMAIN candidates
      /\ \A b \in DOMAIN groups : f \in groups[b] => b = a
      /\ Listed \cup Grouped = Pool
      /\ \A g \in Pool : Contributions(g) = Observations(g)
  BY DEF SearchInv, GroupsApart, GroupsAreTransparent, Transparent, Grouped, GroupMembers
<1>2. {b \in DOMAIN groups : f \in groups[b]} = {a}
  BY <1>1
<1> QED
  BY <1>1, <1>2 DEF Contributions

LEMMA GroupsCount ==
  ASSUME SearchInv, stage = "pooled", NEW a \in DOMAIN groups
  PROVE  /\ \A c, p \in 1 .. 3 : Spread(Channels({Transmission(a)})[c])[p] \in Nat
         /\ a \in Anchors
<1> DEFINE cs == {Transmission(a)}
<1>1. /\ a \in transmitting /\ transmitting \subseteq DOMAIN touched
      /\ DOMAIN touched \subseteq Anchors /\ NatValued(touched, DOMAIN touched)
  BY TotalFacts DEF SearchInv, GroupsApart
<1>2. Members(a) # {}
  BY <1>1 DEF SearchInv, ExpandedInv, AnchorsInv
<1>3. touched[a] \in Nat
  BY <1>1 DEF NatValued
<1>4. /\ IsFiniteSet(cs) /\ \A c \in cs : c.score \in Nat
      /\ \A c \in cs : c.src = "graph" =>
           \E b \in transmitting : Members(b) # {} /\ c = Transmission(b)
  <2>1. Transmission(a).score = touched[a]
    BY DEF Transmission, Via
  <2> QED
    BY <1>1, <1>2, <1>3, <2>1, FS_Singleton
<1> HIDE DEF cs
<1>5. Lift(cs) \in Nat /\ \A src : Channel(cs, src) \in Nat
  BY <1>4, FoldFacts
<1> QED
  BY <1>1, <1>5, SpreadFacts DEF cs

LEMMA EveryFactCounts == SearchInv => PoolCountsEveryFact
<1> SUFFICES ASSUME SearchInv, stage = "pooled", NEW c \in 1 .. 3, NEW p \in 1 .. 3
             PROVE  PoolStatistics(c)[p]
                    = SumFunction([f \in Pool |-> Spread(Channels(Observations(f))[c])[p]])
  BY DEF PoolCountsEveryFact, PoolStatistics
<1> DEFINE h == [f \in Pool |-> Spread(Channels(Observations(f))[c])[p]]
           D == DOMAIN groups
           part == [a \in D |-> GroupMembers(a)]
           each(a) == Spread(Channels({Transmission(a)})[c])[p]
           total == [a \in D |-> Cardinality(GroupMembers(a)) * each(a)]
           l == [f \in Listed |-> Spread(Channels(candidates[f])[c])[p]]
           Sum(g, U) == SumFunctionOnSet(g, U)
<1>1. /\ Listed \cup Grouped = Pool /\ Listed \cap Grouped = {}
      /\ \A f \in Pool : Contributions(f) = Observations(f)
  BY DEF SearchInv, GroupsAreTransparent, Transparent, Listed, Grouped, GroupMembers
<1>2. IsFiniteSet(Pool) /\ Pool \subseteq Facts
  <2>1. Pool \subseteq Facts
    BY WindowWithin DEF Pool
  <2> QED
    BY <2>1, KeysAssumption, FS_Subset
<1>3. IntValued(h, Pool) /\ DOMAIN h = Pool
  BY <1>2, ObservedFolds, SpreadFacts DEF IntValued
<1>4. Sum(h, Pool) = Sum(h, Listed) + Sum(h, Grouped)
  <2> HIDE DEF h
  <2> QED
    BY <1>1, <1>2, <1>3, SumUnion
\* The facts listed one by one.
<1>5. SumFunction(l) = Sum(h, Listed)
  <2>1. \A f \in Listed : l[f] = h[f]
    BY <1>1 DEF Contributions, Listed
  <2>2. IsFiniteSet(Listed) /\ DOMAIN l = Listed
    BY <1>1, <1>2, FS_Subset
  <2> HIDE DEF l, h
  <2> QED
    BY <2>1, <2>2, SumOfFunction, SumSame
\* The groups, each member of which adds the same.
<1>6. IsFiniteSet(D) /\ \A a \in D : each(a) \in Int
  <2>1. ASSUME NEW a \in D PROVE a \in Anchors /\ each(a) \in Int
    <3>1. a \in Anchors /\ each(a) \in Nat
      BY GroupsCount
    <3> HIDE DEF each
    <3> QED
      BY <3>1
  <2> HIDE DEF each, D
  <2> QED
    BY <2>1, KeysAssumption, FS_Subset
<1>7. \A a \in D : total[a] = Sum(h, part[a])
  <2> SUFFICES ASSUME NEW a \in D PROVE Cardinality(GroupMembers(a)) * each(a) = Sum(h, GroupMembers(a))
    OBVIOUS
  <2>1. \A f \in GroupMembers(a) : f \in Pool /\ h[f] = each(a)
    BY GroupedOnce
  <2>2. IsFiniteSet(GroupMembers(a)) /\ each(a) \in Int
    BY <1>2, <1>6, <2>1, FS_Subset
  <2> HIDE DEF h, each
  <2> QED
    BY <2>1, <2>2, SumConstant
<1>8. /\ part \in [D -> SUBSET Pool]
      /\ \A a, b \in D : part[a] \cap part[b] # {} => a = b
      /\ UNION {part[a] : a \in D} = Grouped
  <2>1. \A a \in D : GroupMembers(a) \subseteq Pool
    BY <1>1 DEF Grouped
  <2>2. \A a, b \in D : GroupMembers(a) \cap GroupMembers(b) # {} => a = b
    BY DEF SearchInv, GroupsApart, GroupMembers
  <2> QED
    BY <2>1, <2>2 DEF Grouped
<1>9. SumFunction(total) = Sum(h, Grouped)
  <2>1. DOMAIN total = D
    OBVIOUS
  <2> HIDE DEF total, h, part, D
  <2>2. Sum(total, D) = Sum(h, Grouped)
    BY <1>2, <1>3, <1>6, <1>7, <1>8, SumParts
  <2> QED
    BY <2>1, <2>2, SumOfFunction
<1>10. PoolStatistics(c)[p] = SumFunction(l) + SumFunction(total)
  BY DEF PoolStatistics
<1> QED
  <2> HIDE DEF h, l, total
  <2>1. SumFunction(h) = Sum(h, Pool)
    BY <1>3, SumOfFunction
  <2>2. PoolStatistics(c)[p] = SumFunction(h)
    BY <1>4, <1>5, <1>9, <1>10, <2>1
  <2> QED
    BY <2>2 DEF h

\* The invariant of a search: the stages gather what they are said to, and the
\* pool they leave is that of a search that lists every fact.
THEOREM SearchInvHolds == Spec => []SearchInv
<1>1. SearchInv /\ [Next]_vars => SearchInv'
  BY GatherMembersKeeps, GatherSeedsKeeps, StayKeeps, ObserveKeeps, ExpandKeeps,
     RefuseKeeps, RankKeeps, StutterKeeps DEF Next
<1> QED
  BY <1>1, SearchInvInit, PTL DEF Spec

\* Counting an anchor's lone members as a group (findNeighbours) loses and adds
\* no fact and no observation of one, for every graph and query.
THEOREM GroupingIsTransparent == Spec => []GroupsAreTransparent
<1>1. SearchInv => GroupsAreTransparent
  BY DEF SearchInv
<1> QED
  BY <1>1, SearchInvHolds, PTL

\* The best matches under the named anchors are seeds, whatever else matches and
\* also when collect leaves the anchored reading out.
THEOREM AnchoredMatchesAreSeeds == Spec => []AnchoredMatchesSeed
BY SearchInvHolds, AnchoredSeeds, PTL

\* Chance transmits nothing: unless the query names one, some anchor the seeds
\* reached does not expand, since the shares of findNeighbours cannot all be
\* exceeded.
THEOREM ChanceStaysSilent == Spec => []SomeAnchorStaysSilent
BY SearchInvHolds, SharesCannotAllBeExceeded, PTL

\* The graph lifts a fact only on the strength of another: the fold of
\* scoring/excess.go subtracts the fact's own mass from each anchor's.
THEOREM NoFactFundsItself == Spec => []OthersFundTheLift
BY SearchInvHolds, LiftNeedsOthers, PTL

\* The answer is a top of the pool (ScoreCutoff, TopK): in order, no longer than
\* asked, never empty while a fact can be returned, and what is left out ranks
\* below it or falls short of the cutoff, for every graph and query.
THEOREM AnswersAreBest == Spec => []HitsAreBest
<1>1. SearchInv => HitsAreBest
  BY DEF SearchInv
<1> QED
  BY <1>1, SearchInvHolds, PTL

\* The counts, sums and squares that the information fold takes over the pool
\* are those of the facts the recall can return, a group weighing as many facts
\* as it has members, for every graph and query.
THEOREM PoolStatisticsCountFacts == Spec => []PoolCountsEveryFact
BY SearchInvHolds, EveryFactCounts, PTL

=============================================================================
