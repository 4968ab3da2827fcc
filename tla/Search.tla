------------------------------- MODULE Search -------------------------------
(***************************************************************************)
(* InMemoryGraph.Search of internal/graph/in_memory.go with the traversals *)
(* of excess.go and bfs.go and the excess fold of scoring/excess.go.       *)
(*                                                                         *)
(* A search runs under the graph's read lock, so the graph is a constant   *)
(* of the behaviour; its stages are the actions.  world is the graph, both *)
(* indexes and the configuration, query what a recall asks.                *)
(*                                                                         *)
(* Masses and scores are exact integers.  The floats of the code are the   *)
(* same numbers divided by a scale that is fixed for the query: weight[2]  *)
(* for a mass, Scale for a relevance.  A term frequency stands for its     *)
(* BM25 gain, which grows with it.  A contribution keeps what the folds    *)
(* read; lists of contributions are sets, since no two of a fact's are     *)
(* equal.                                                                  *)
(***************************************************************************)
EXTENDS Integers, SequencesExt, FiniteSetsExt

CONSTANTS
    Facts,            \* the facts' keys
    Anchors,          \* the topics' and entities' keys
    Worlds,           \* [filed, words, near, ts, traversal, ratio, decays]
    Queries,          \* [keywords, vector, named, depth, top, since, until]
    SeedSize,         \* db.seed-size
    Surprisal,        \* bits in a term, by how many documents hold it
    CommonDegree,     \* a multiple of every degree, to divide by degrees exactly
    Now               \* the instant a ranking is aged at, in half-lives

ASSUME KeysAssumption ==
    /\ Facts \cup Anchors \subseteq Nat /\ Facts \cap Anchors = {}
    /\ IsFiniteSet(Facts) /\ IsFiniteSet(Anchors)

ASSUME SizesAssumption ==
    /\ SeedSize \in Nat \ {0} /\ CommonDegree \in Nat \ {0} /\ Now \in Nat
    /\ \A n \in 1 .. Cardinality(Facts) : Surprisal[n] \in Nat

ASSUME WorldsAssumption == \A w \in Worlds :
    /\ w.filed \subseteq Facts \X Anchors
    /\ \A f \in Facts : w.near[f] \in Nat /\ w.ts[f] \in Nat
    /\ w.ratio[1] \in Nat /\ w.ratio[2] \in Nat /\ w.ratio[1] <= w.ratio[2]

\* Arithmetic: what a halving is measured in.
ASSUME PowersAssumption == \A n \in 0 .. Now : 2 ^ n \in Nat \ {0}

ASSUME QueriesAssumption == \A q \in Queries : IsFiniteSet(q.keywords) /\ q.top \in Nat

VARIABLES
    world, query,
    stage,            \* asked, seeded, observed, pooled, answered or refused
    candidates,       \* the facts listed one by one, each with its contributions
    groups,           \* per transmitting anchor, the facts only it observed
    seeds,            \* keys the traversal expands from
    weight,           \* <<I_q, I_hit>>: the vector counts I_q / I_hit
    touched,          \* anchors the seeds reach, each with its observed mass
    transmitting,     \* those of them that expand
    hits              \* the answer: facts best first, or that and nothing more

vars == <<world, query, stage, candidates, groups, seeds, weight, touched,
          transmitting, hits>>

-----------------------------------------------------------------------------
(* The graph.                                                              *)

Members(a) == {f \in Facts : <<f, a>> \in world.filed}
FiledUnder(f) == {a \in Anchors : <<f, a>> \in world.filed}
Degree(a) == Cardinality(Members(a))

Named == ToSet(query.named)

Within(f) ==
    /\ query.since = 0 \/ world.ts[f] >= query.since
    /\ query.until = 0 \/ world.ts[f] < query.until

Window == {f \in Facts : Within(f)}

HasVector == {f \in Facts : world.near[f] > 0}

\* Score descending, then key ascending, as TopK and every reading order keys.
Ahead(score, f, g) == score[f] > score[g] \/ (score[f] = score[g] /\ f < g)

Ranked(score) ==
    CHOOSE s \in [1 .. Cardinality(DOMAIN score) -> DOMAIN score] :
        \A i, j \in DOMAIN s : i < j => Ahead(score, s[i], s[j])

Best(k, seq) == SubSeq(seq, 1, IF k < Len(seq) THEN k ELSE Len(seq))

-----------------------------------------------------------------------------
(* Seeding.                                                                *)

\* Write time, then key.
Earlier(f, g) == world.ts[f] < world.ts[g] \/ (world.ts[f] = world.ts[g] /\ f < g)

\* The facts written just before and after f under one of its anchors.
Contiguous(f) ==
    LET follows(a, x, y) == /\ Earlier(x, y)
                            /\ \A z \in Members(a) : ~(Earlier(x, z) /\ Earlier(z, y))
    IN UNION {{x \in Members(a) : follows(a, x, f) \/ follows(a, f, x)} : a \in FiledUnder(f)}

\* The facts that lend to f in the reading of keep.
Lenders(f, keep) == Contiguous(f) \cap keep

\* A fact's term frequencies in the reading of keep: its own, and half of its
\* lenders'.  In halves.
TextMass(f, keep) ==
    SumFunction([t \in query.keywords |->
        (IF t \in world.words[f] THEN 2 ELSE 0)
        + Cardinality({n \in Lenders(f, keep) : t \in world.words[n]})])

TextReading(keep) ==
    Ranked([f \in {g \in keep : TextMass(g, keep) > 0} |-> TextMass(f, keep)])

VectorMass(f) == IF query.vector = "given" THEN world.near[f] ELSE 0

VectorReading(keep) == Ranked([f \in {g \in keep : VectorMass(g) > 0} |-> VectorMass(f)])

FilesEveryText(named) ==      \* faulty: forgets the anchor must file every fact
    \E a \in named : Members(a) # {}

\* One of the anchors files every fact either index holds.
FilesEvery(named) == \E a \in named : Facts \subseteq Members(a)

Keeps ==
    IF Named # {} /\ ~FilesEvery(Named)
      THEN <<Window, Window \cap UNION {Members(a) : a \in Named}>>
      ELSE <<Window>>

SeedDepth == IF query.top > SeedSize THEN query.top ELSE SeedSize

\* The first SeedDepth keys of each reading are seeds.
Seeded(readings) == UNION {ToSet(Best(SeedDepth, r)) : r \in readings}

SeedsOfQuery ==
    Seeded({TextReading(keep) : keep \in ToSet(Keeps)}
           \cup {VectorReading(keep) : keep \in ToSet(Keeps)})

\* The bits in the terms of the query that one of these facts holds.
BitsHeld(facts) ==
    SumFunction([t \in {t \in query.keywords : \E f \in facts : t \in world.words[f]} |->
        Surprisal[Cardinality({g \in Facts : t \in world.words[g]})]])

Bits(f) == BitsHeld({f})
QueryBits == BitsHeld(Facts)

\* The information in the query over the part its best text hit holds.
TextWeakness ==
    LET hit == TextReading(Window)
    IN IF query.vector # "none" /\ hit # <<>> /\ Bits(hit[1]) > 0
         THEN <<QueryBits, Bits(hit[1])>>
         ELSE <<1, 1>>

Seen(src, score) == [src |-> src, score |-> score, via |-> 0, named |-> FALSE]
Via(src, score, a) == [src |-> src, score |-> score, via |-> a, named |-> a \in Named]

\* A key's sightings by the sources.  The anchored reading lies within the
\* window's, so what is pooled is the window's reading.
Sightings(f) ==
    {c \in {Seen("text", TextMass(f, Window)), Seen("vector", VectorMass(f))} :
        f \in Window /\ c.score > 0}

SeenFacts == {f \in Facts : Sightings(f) # {}}

Asks == query.keywords # {} \/ query.vector # "none"

GatherMembers ==
    /\ stage = "asked"
    /\ ~Asks
    /\ candidates' = [f \in UNION {Members(a) : a \in Named} |->
                        {Via("anchor", 1, a) : a \in FiledUnder(f) \cap Named}]
    /\ stage' = "pooled"
    /\ UNCHANGED <<world, query, groups, seeds, weight, touched, transmitting, hits>>

\* The vector index refuses a vector of another dimension.
Refuse ==
    /\ stage = "asked"
    /\ query.vector = "foreign"
    /\ HasVector # {}
    /\ stage' = "refused"
    /\ UNCHANGED <<world, query, candidates, groups, seeds, weight, touched, transmitting, hits>>

GatherSeeds ==
    /\ stage = "asked"
    /\ Asks
    /\ query.vector = "foreign" => HasVector = {}
    /\ candidates' = [f \in SeenFacts |-> Sightings(f)]
    /\ seeds' = SeedsOfQuery
    /\ weight' = TextWeakness
    /\ stage' = "seeded"
    /\ UNCHANGED <<world, query, groups, touched, transmitting, hits>>

-----------------------------------------------------------------------------
(* The fold of a set of contributions.                                     *)

Channel(cs, src) == SumFunction([c \in {c \in cs : c.src = src} |-> c.score])

\* Text, weighted vector and anchor sightings, in units of 1 / weight[2].
Mass(cs) ==
    weight[2] * (Channel(cs, "text") + Channel(cs, "anchor"))
    + weight[1] * Channel(cs, "vector")

TotalMass == SumFunction(touched)
TotalDegree == SumFunction([a \in DOMAIN touched |-> Degree(a)])

Scale == CommonDegree * (IF TotalDegree = 0 THEN 1 ELSE TotalDegree)

\* The hinged surplus per edge of an anchor that reached a fact of mass own:
\* the anchor's mass, less the fact's own, less the fair share.
Surplus(c, own) ==
    LET fair == IF c.named THEN 0 ELSE Degree(c.via) * TotalMass
        surplus == (c.score - own) * TotalDegree - fair
    IN IF surplus > 0 THEN surplus * (CommonDegree \div Degree(c.via)) ELSE 0

LiftWithOwnMass(cs) ==        \* faulty: a fact funds its own boost
    SumFunction([c \in {c \in cs : c.src = "graph"} |-> Surplus(c, 0)])

Lift(cs) == SumFunction([c \in {c \in cs : c.src = "graph"} |-> Surplus(c, Mass(cs))])

Relevance(cs) == Mass(cs) * Scale + Lift(cs)

-----------------------------------------------------------------------------
(* The anchor round.                                                       *)

\* ExcessTraversal reports every source a vertex is adjacent to.
Excess(sources, adjacent) == sources \cap adjacent

\* A breadth-first forest grown from sources in key order gives a vertex at
\* depth 1 the first of them as its parent.
BFS(sources, adjacent) ==
    IF sources \cap adjacent = {} THEN {} ELSE {Min(sources \cap adjacent)}

ReachedFrom(sources, adjacent) ==
    IF world.traversal = "bfs" THEN BFS(sources, adjacent) ELSE Excess(sources, adjacent)

Walks ==
    /\ query.depth >= 1
    /\ world.traversal # "none"
    /\ seeds # {}
    /\ Named # {}

Stay ==
    /\ stage = "seeded"
    /\ ~Walks
    /\ stage' = "pooled"
    /\ UNCHANGED <<world, query, candidates, groups, seeds, weight, touched, transmitting, hits>>

\* Pass 1: the mass each anchor observes.
Observe ==
    /\ stage = "seeded"
    /\ Walks
    /\ touched' = [a \in {a \in Anchors : seeds \cap Members(a) # {}} |->
                     SumFunction([s \in ReachedFrom(seeds, Members(a)) |-> Mass(candidates[s])])]
    /\ stage' = "observed"
    /\ UNCHANGED <<world, query, candidates, groups, seeds, weight, transmitting, hits>>

TransmitsAtShare(a) ==        \* faulty: an anchor exactly at its share transmits
    a \in Named \/ touched[a] * TotalDegree >= Degree(a) * TotalMass

\* A named anchor, or one above its share, twice its share at depth 1.
Transmits(a) ==
    LET admission == IF query.depth = 1 THEN 2 ELSE 1
    IN a \in Named \/ touched[a] * TotalDegree > Degree(a) * TotalMass * admission

Transmission(a) == Via("graph", touched[a], a)

ExpandByFirst(from) ==        \* faulty: groups every fact the sources missed
    /\ groups' = [a \in from |-> {f \in Members(a) \ DOMAIN candidates : a = Min(FiledUnder(f) \cap from)}]
    /\ candidates' = [f \in DOMAIN candidates |->
                        candidates[f] \cup {Transmission(a) : a \in ReachedFrom(from, FiledUnder(f))}]

\* Members reached from one anchor alone that nothing else observed join its
\* group, every other member is listed.
Expansion(from) ==
    LET reachedBy(f) == ReachedFrom(from, FiledUnder(f))
        grouped == {f \in Facts \ DOMAIN candidates : Cardinality(reachedBy(f)) = 1}
        listed == {f \in Facts \ grouped : reachedBy(f) # {}}
        holds(f) == IF f \in DOMAIN candidates THEN candidates[f] ELSE {}
    IN /\ groups' = [a \in {a \in from : \E f \in grouped : reachedBy(f) = {a}} |->
                       {f \in grouped : reachedBy(f) = {a}}]
       /\ candidates' = [f \in DOMAIN candidates \cup listed |->
                           holds(f) \cup {Transmission(a) : a \in reachedBy(f)}]

\* Pass 2: the anchors that transmit reach their members.
Expand ==
    /\ stage = "observed"
    /\ transmitting' = {a \in DOMAIN touched : Transmits(a)}
    /\ Expansion(transmitting')
    /\ stage' = "pooled"
    /\ UNCHANGED <<world, query, seeds, weight, touched, hits>>

-----------------------------------------------------------------------------
(* Ranking.                                                                *)

\* The returnable part of a group.
GroupMembers(a) == groups[a] \cap Window
Listed == DOMAIN candidates \cap Window
Grouped == UNION {GroupMembers(a) : a \in DOMAIN groups}

Contributions(f) ==
    IF f \in DOMAIN candidates THEN candidates[f]
    ELSE {Transmission(a) : a \in {a \in DOMAIN groups : f \in groups[a]}}

UndecayedGroups(f) ==         \* faulty: a grouped fact keeps its group's score
    Relevance(Contributions(f))
    * (IF world.decays /\ f \in Listed THEN 2 ^ Min({world.ts[f], Now}) ELSE 2 ^ Now)

\* Relevance halved per half-life of age, in units of 2^-Now.
Decayed(f) ==
    Relevance(Contributions(f))
    * (IF world.decays THEN 2 ^ Min({world.ts[f], Now}) ELSE 2 ^ Now)

Ranking == Ranked([f \in Listed \cup Grouped |-> Decayed(f)])

\* Of a ranking, in its order, the facts whose relevance reaches the
\* configured share of the best relevance in it.
ScoreCutoff(ranking) ==
    LET relevance(f) == Relevance(Contributions(f))
        best == Max({relevance(f) : f \in ToSet(ranking)})
        kept == {f \in ToSet(ranking) : relevance(f) * world.ratio[2] >= best * world.ratio[1]}
    IN Ranked([f \in kept |-> Decayed(f)])

Rank ==
    /\ stage = "pooled"
    /\ hits' = ScoreCutoff(IF query.top > 0 THEN Best(query.top, Ranking) ELSE Ranking)
    /\ stage' = "answered"
    /\ UNCHANGED <<world, query, candidates, groups, seeds, weight, touched, transmitting>>

\* The statistics the information fold takes of each channel over the pool,
\* a group weighing as many facts as it has members: count, sum and sum of
\* squares.
Channels(cs) == <<Channel(cs, "text"), Channel(cs, "vector"), Lift(cs)>>

Spread(value) == <<1, value, value * value>>

UnweighedStatistics(c) ==     \* faulty: a group counts once
    [p \in 1 .. 3 |->
        SumFunction([f \in Listed |-> Spread(Channels(candidates[f])[c])[p]])
        + SumFunction([a \in DOMAIN groups |-> Spread(Channels({Transmission(a)})[c])[p]])]

PoolStatistics(c) ==
    [p \in 1 .. 3 |->
        SumFunction([f \in Listed |-> Spread(Channels(candidates[f])[c])[p]])
        + SumFunction([a \in DOMAIN groups |->
              Cardinality(GroupMembers(a)) * Spread(Channels({Transmission(a)})[c])[p]])]

-----------------------------------------------------------------------------
Init ==
    /\ world \in Worlds
    /\ query \in Queries
    /\ stage = "asked"
    /\ candidates = <<>>
    /\ groups = <<>>
    /\ seeds = {}
    /\ weight = <<1, 1>>
    /\ touched = <<>>
    /\ transmitting = {}
    /\ hits = <<>>

Next == GatherMembers \/ Refuse \/ GatherSeeds \/ Stay \/ Observe \/ Expand \/ Rank

Spec == Init /\ [][Next]_vars

-----------------------------------------------------------------------------
(* Properties.  The reference is the pool a search would gather if it read  *)
(* each index under every keep and listed every fact an anchor reaches.     *)

Observations(f) ==
    Sightings(f)
    \cup (IF Asks THEN {} ELSE {Via("anchor", 1, a) : a \in FiledUnder(f) \cap Named})
    \cup {Transmission(a) : a \in ReachedFrom(transmitting, FiledUnder(f))}

Pool == {f \in Window : Observations(f) # {}}

\* The best matches under the named anchors are seeds, however many facts
\* filed elsewhere match better, also when collect finds an anchor that files
\* everything and leaves the anchored reading out.
AnchoredMatchesSeed ==
    stage = "seeded" =>
        LET under == Window \cap UNION {Members(a) : a \in Named}
        IN ToSet(Best(SeedDepth, TextReading(under))) \cup ToSet(Best(SeedDepth, VectorReading(under)))
               \subseteq seeds

\* Counting an anchor's lone members as a group loses and adds nothing: a
\* fact is pooled, once, exactly when a source or a transmitting anchor
\* observed it in the window, with every observation made of it.
Transparent ==
    /\ Listed \cup Grouped = Pool
    /\ \A f \in Pool : Contributions(f) = Observations(f)
    /\ DOMAIN candidates \cap UNION {groups[a] : a \in DOMAIN groups} = {}

GroupsAreTransparent == stage = "pooled" => Transparent

\* The statistics a pool-wide fold is bound to are those of the facts the
\* recall can return, each counted once, however few groups hold them.
PoolCountsEveryFact ==
    stage = "pooled" => \A c \in 1 .. 3 :
        PoolStatistics(c) =
            [p \in 1 .. 3 |-> SumFunction([f \in Pool |-> Spread(Channels(Observations(f))[c])[p]])]

Worth(f) == Relevance(Observations(f))
Aged(f) == Worth(f) * (IF world.decays THEN 2 ^ Min({world.ts[f], Now}) ELSE 1)
Outranks(f, g) == Aged(f) > Aged(g) \/ (Aged(f) = Aged(g) /\ f < g)

\* The answer is a top of the pool: in order of decayed relevance, then key,
\* at most top long, and a returnable fact that is not in it ranks below the
\* whole answer or falls short of the cutoff against a better ranked fact.
IsBest(answer) ==
    LET cut(f) == \E g \in ToSet(answer) :
                     Worth(f) * world.ratio[2] < Worth(g) * world.ratio[1]
    IN /\ \A i, j \in DOMAIN answer : i < j => Outranks(answer[i], answer[j])
       /\ \A f \in ToSet(answer) : ~cut(f)
       /\ query.top > 0 => Len(answer) <= query.top
       /\ Pool # {} => answer # <<>>
       /\ \A f \in Pool \ ToSet(answer) :
             \/ cut(f)
             \/ query.top > 0 /\ Cardinality({g \in Pool : Outranks(g, f)}) >= query.top

HitsAreBest == stage = "answered" => IsBest(hits)

\* The graph lifts a fact only on the strength of another: one of its
\* anchors holds a seed that is not the fact itself.
OthersFundTheLift ==
    stage = "pooled" => \A f \in Pool :
        Lift(Contributions(f)) > 0 =>
            \E a \in transmitting \cap FiledUnder(f) : (seeds \cap Members(a)) \ {f} # {}

\* Chance transmits nothing.  Unless the query names one of them, some anchor
\* the seeds reached stays silent: the shares cannot all be exceeded, and the
\* only anchor a query reaches holds exactly its own.
SomeAnchorStaysSilent ==
    stage = "pooled" /\ touched # <<>> /\ DOMAIN touched \cap Named = {}
        => transmitting # DOMAIN touched

-----------------------------------------------------------------------------
(* What the stages have gathered; inductive, and it implies the above.     *)

SeedsInv ==
    /\ Asks
    /\ candidates = [f \in SeenFacts |-> Sightings(f)]
    /\ seeds = SeedsOfQuery
    /\ weight = TextWeakness

\* An anchor's mass is what the indexes say of the seeds it reaches.
AnchorsInv ==
    touched = [a \in {a \in Anchors : seeds \cap Members(a) # {}} |->
                 SumFunction([s \in ReachedFrom(seeds, Members(a)) |-> Mass(Sightings(s))])]

\* The anchors still speak of the seeds after the members have been listed.
ExpandedInv ==
    /\ Asks
    /\ seeds = SeedsOfQuery
    /\ weight = TextWeakness
    /\ AnchorsInv
    /\ transmitting = {a \in DOMAIN touched : Transmits(a)}

\* A fact is counted in one group, by the anchor alone that reached it.
GroupsApart ==
    /\ DOMAIN groups \subseteq transmitting
    /\ \A a, b \in DOMAIN groups : groups[a] \cap groups[b] # {} => a = b

SearchInv ==
    /\ world \in Worlds /\ query \in Queries
    /\ stage \in {"asked", "seeded", "observed", "pooled", "answered", "refused"}
    /\ stage \in {"asked", "seeded", "observed"} => groups = <<>> /\ transmitting = {}
    /\ stage \in {"asked", "seeded"} => touched = <<>>
    /\ stage \in {"seeded", "observed"} => SeedsInv
    /\ stage = "observed" => AnchorsInv
    /\ stage = "pooled" => (touched = <<>> /\ transmitting = {}) \/ ExpandedInv
    /\ stage = "pooled" => GroupsApart
    /\ weight \in {<<1, 1>>, TextWeakness}
    /\ GroupsAreTransparent
    /\ HitsAreBest

=============================================================================
