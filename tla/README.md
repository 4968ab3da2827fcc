# Fraise in TLA+

A TLA+ model of Fraise, the in-memory graph database for agent memory in this
repository: the settings it starts with, the query language, the query
scheduler, the HTTP server around it, the plan cache, the graph, its two indexes
with the containers below them, and the search over them. TLC checks the modules
on small instances (`PROJECT.json`, "runs"); TLAPS proves nearly all of their
safety properties, and that the server implements its abstract specification, for
every instance (the `...Proofs` modules).

```
tlc -workers 2 -config MCScheduler_lane.cfg MCScheduler     # a run
tlapm SchedulerProofs.tla                                   # the proofs
```

## The system

A client posts a query to `/api/v1/q`. The handler parses it, the engine plans
it through a cache of optimised queries, and the resulting *stream* is handed
to the scheduler. A **recall** goes to one bounded queue shared by a pool of
workers; a **remember** goes to the bounded lane of its graph, served by one
writer. The goroutine that takes a stream selects the graph, takes its
`RWMutex` (shared for a recall), runs `Commit` on the live graph, releases and
closes the stream's `done` channel, on which the handler waits.

| Component | State | Operations | Hard part |
|---|---|---|---|
| scheduler (`pkg/scheduler`) | queue, lanes, quit, two WaitGroups, `mu`, `stopping` | Start, Stop, Submit, worker, drain, execute | Submit against Stop; two Stops; the straggler enqueued after the last drain; full queues and timeouts |
| stream (`internal/query/stream.go`) | result, error, `done` | Acquire, Commit, Release, Finish | in-place mutation visible to nobody; order of the deferred calls |
| server (`pkg/server`) | listener, handlers in flight | Start, Stop, handleQuery, handleStats | an expired grace period, clients that go away, errors that invite a retry |
| database (`pkg/db`) | one graph or nil per slot | Start, Stop, Select, Stats | slots emptied while streams still run and `/stats` still ranges over them |
| engine (`pkg/engine`) | plan cache, pipeline | Start, Stop, Plan, Apply | lookup and store are two critical sections; hashes collide; cached time bounds move with the clock |
| LRU cache (`internal/cache`) | map, list, capacity | Get, Put, Delete, Clear, Resize | map against list, at the capacity and while shrinking |
| graph (`internal/graph`) | nodes, two adjacency views, sequences, contiguity | Set, Put, Delete, contiguous | caches invalidated by the right writes; two views kept mirrored |
| text index (`internal/index/btree.go`) | posting lists in chunks, tombstones, document numbers, lengths | Insert, Update, Delete, Flush | tombstones revived in place; compaction that renumbers |
| vector index (`internal/index/rptree.go`) | live vectors, forest with stale copies | Insert, Update, Delete, Flush, Search | stale copies; the bound on garbage |
| containers (`internal/containers`) | B-tree, heap and queue, random projection tree | Insert, Delete, Find; Push, Pop, Remove; Insert, Nearest, Range | rebalancing on the way down; an item removed from the middle; copies of one key in two leaves |
| lexer, parser, queries (`internal/query`) | a window of two tokens | Parse, String, Hash, Equal | a token taken in another role runs another query in silence |
| search (`internal/graph`, `scoring`) | the observations of one recall | Search, traverse, Score | short cuts (a reading left out, members pooled in groups, early cuts) that must not change the answer |
| configuration, command (`internal/config`, `cmd/server`) | one record of settings | New, Parse, adjust, validate; main, run | flags read twice around the file; zeroes that mean the default; which errors stop the start |
| hashing, tokenizer, logger, version, MCP bridge, Python SDK | none that changes after start | | |

How they meet: handlers call `Engine.Plan` and `Scheduler.Submit` concurrently;
workers and writers share the graphs through each graph's `RWMutex`; readers of
one graph share its window caches under `sequenceMu`; `Server.Start`'s goroutine
stops the engine and then empties the slots while late handlers still run.

What makes each part correct is in the comments of its properties. In short:
accepted work runs exactly once and in lane order, refused work never; nobody
sees half a write; an acknowledged write is visible to whoever asks afterwards;
shutdown loses nothing, never meets a nil graph and ends; a plan is always that
of the request, in the time window it asked for; a query and a setting mean what
was written or are refused; the graph, its caches and its indexes describe the same facts;
garbage stays bounded.

## Modules

**Scheduler** models `scheduler.go` and the life of a stream. A critical section
of `mu` is one action (nothing blocks inside one); the blocking `select` of
Submit is four alternatives (send, quit, context, timer) of a parked call;
`worker` and `drain` share `Receive`, and Stop becomes an executor itself for
the final drain, queue by queue (`sweep`). The WaitGroups are sets of members.
The `RWMutex` has its writer preference: a writer announces itself, which keeps
later readers out, and then waits for the earlier ones. `Commit` of a remember
is two steps, the fact and its anchors, so that a torn read is possible in
principle; `facts` and `links` are sequences of the writes applied. `accepted`
and `acked` are history variables and guard nothing. `Start` makes the queues under
`mu` and then its goroutines one by one (`StartWorker`); Submit may come in
between, since the code lets it. Nothing in the code stops a second Start of a
running scheduler, or a Start beside a Stop: the server's goroutine calls one
after the other, and so does the model (`mode = "down"`, `StopsUnderWay`,
`Launched`). Start without a database changes nothing. A remember that fails
does so on its vector, before it touches the graph; MemoryGraph has the detail.

**MemoryService** is the abstract specification: a graph is a sequence of
writes, a request takes effect at one instant between call and answer, or is
refused and never does. `Scheduler!ImplementsService` states the refinement.

**Server** extends Scheduler: each stream is a request with its own handler
(parse, apply, wait, answer), and `Start` is a sequence of phases: database,
engine, its goroutines, serving, draining, stopping, closed, or failed on the way
up. Requests arrive from serving on, also while the server drains and stops
(`Open`): a connection accepted before the listener closed may be handled at any
time after. A handler may
lose its client at any time, the grace period may end at any time, and the
process may exit with handlers still running. Whether a body parses is a
property of the request (`Malformed`); `Engine.Plan` cannot fail for a parsed
query, since both `Plan` methods return no error. `before` is history. A poller
is a handler of `/stats`: it fixes the slots it will visit, then per slot reads
the graph, takes its read lock and counts facts and links in two steps, while
writes, `Server.Stop` and `DB.Stop` go on. A slot met empty is skipped.

**LRUCache** has every operation of the cache, one action each (one critical
section each). `lastUse` is a history clock that gives recency an independent
meaning. **PlanCache** extends it with `Engine.Plan`: `Lookup` and `Fill` are
separate steps, hashing is a constant function that may collide, and the
optimisation pipeline is an operator on queries. A time bound is a span or an
instant, `now` is the wall clock, and `Window` is what `Commit` resolves when
the stream runs.

**MemoryGraph** stores facts, entities, topics and the two kinds of edge by
key, with both adjacency views, the two secondary indexes as sets of keys, and
the sequence and contiguity caches. Texts are short sequences, so that the
concatenation under an edge's hash can collide as in the code; otherwise the
hash is taken to be injective. A commit is a list of pending stores, each one a
step, under the graph's write lock, so that nothing else runs in between. `book`
is a history of what was acknowledged and deleted.

**TextIndex** has the posting lists chunk by chunk, with tombstones, live
counts, document numbers and the relevance model's lengths. Every call is one
action: the graph's lock is held throughout. The dictionary tree is a function
from terms to lists; the loops over a document's tokens are recursive functions
(`AddTokens`, `DropTokens`), and what a compaction filters out of a slice is
`Kept`.

**VectorIndex** has the live map and, for the forest, the copies every tree
holds, with their count `entries` as the code keeps it; a walk of a tree is any
set of copies that holds enough or is all of them, so a property of `Search` holds
for every projection. `Pooled` gives each key one place at its nearest copy, `Ranked`
looks the keys of all trees up among the live and cuts at k. Vectors are points on a
line with a dimension tag. The walks of an approximate index may stop short of
anything, so what a search finds is stated for those that cannot stop short
(`ReadsEverything`); `FoundUnlessCrowdedOut` says what may still be missed then.

**RPTree** extends VectorIndex with one tree made of nodes: leaves that split by
the projection on a row, any of `Rows` (that is all a random matrix contributes
on a line), the routing of a point, and `Nearest` as written: the best-first
probe of deferred subtrees up to the budget, one candidate per key at its
nearest copy, and the pool, which is a **Heap**. Heap has the array and the
lookup map with both percolations; PriorityQueue's Enqueue is its Push at a
capacity. A percolation is a loop over one slot, written as a recursive function
of the turns taken (`Rise`, `Sink`). **BTree** is the container's CLRS-style tree: `delete` rebalances on
the way down, and a step that would index out of range sets `panicked`. RPTree
and BTree use RECURSIVE operators and stay with TLC.

**Search** models one recall on a graph that does not change meanwhile (the
read lock is held): what `collect` keeps, the seeds of both indexes with the
lending between neighbours of a window, the two passes of `findNeighbours`
with either traversal, the grouping of a hub's unobserved members, and the
ranking with decay and cutoff. A world (what is filed under what, which words
and vectors the facts have, their ages, the configuration) and a query are
chosen at the start. Scores are exact integers instead of floats: shares are
cross-multiplied by `CommonDegree`, a text's gain is its term frequency, a term's
information comes from the table `Surprisal`, the window lends one half per
step, and a half-life is one unit of time. The properties compare the answer
with one that takes no short cut. The fields of a contribution that only
`explain` prints are left out, and so is the reciprocal rank fold; of the
information fold the model has the statistics of the pool it is bound to, not
the formula that uses them.

**QueryParser** is the parser's two-token window over a text that is not fixed
in advance: the lexer returns any token that can follow the last one, so a
behaviour is one query text and what becomes of it. Each production is an
action, `mode` is where control is, a clause holds the tokens of its values, and
`Bind` is `query.Parse` with its limits. Tokens are a type and a literal; what
`Atoi`, `ParseTimeValue` and the stop word list make of a literal are constants.
The many diagnoses are one mode, `rejected`. `input` is history. `Reparse`
prints an accepted command by the `String` methods of `ast.go`, token by token,
and the same productions read the printed text; `origin` keeps the command it
came from. `PrintedValue` decides, as `quote` does, what is printed in quotes;
`ClauseOrder` is the order in which `String` prints the clauses, which for a
remember is the source's and for a recall one keyword after the other.

**Config** has every setting with its default, its zero and its range, and the
steps of `ConfigSet.Parse`: flags, file, flags again, `adjust`, `validate`; then
`run`, which starts a server, a bridge or nothing. `FlagSet.Parse` and the TOML
decoder are external: an argument is a flag with a value, an undefined flag, a
request for help or a word; a file is missing, broken, or a set of keys.

## Runs

| Run | Instance | Shows |
|---|---|---|
| `scheduler_lane` | two remembers and a recall of one graph, one worker, buffer 1, two Stops, two Starts | accepted once, nothing lost by Stop, Stops that take turns, lane order, acknowledged writes visible |
| `scheduler_service` | two graphs, two workers, a write past the last graph | the lock, no torn read, refinement of MemoryService |
| `memory_graph` | three facts, four writes, a shared anchor, two dimensions, two instants | whole edges, fresh caches, agreeing indexes, nothing forgotten |
| `memory_graph_nul` | texts with the separator byte | **violation**, below |
| `indexes` | text: three keys, four texts, chunks of two. vector: three keys on a line, a second dimension. tree: two keys, leaves of one. heap: six keys. btree: degree two, eleven values | postings, numbers, lengths, bounded garbage; a live vector missed only for k other keys as near; a tree's own walk is one of the walks VectorIndex allows and ranks truly; heap and B-tree keep their order and lose nothing |
| `vector_stale` | the same, of which the tree | **violation**, below |
| `btree_delete` | the B-tree alone | **violation**, below |
| `search` | four facts under a hub and two smaller anchors, 480 worlds, 54 queries | the short cuts of a search change no answer; the graph lifts a fact on the strength of others only |
| `inputs` | every text of up to nine tokens over 22 spellings; 737 command lines of up to two arguments beside 42 disks, over 13 settings; six requests for plans, three queries with one hash, one of them apart by its time bound only, capacities 0 to 3 with resizes, two instants | a query that runs is the query that was written, can match, says when its depth is another and prints back; a process that starts has the settings that were written; no request gets another's plan or window, the cache's map and list agree, the least recently used goes |
| `query_print` | the same, with one request | **violation**, below |
| `server` | a write, a write to explain, a recall, one poller of `/stats` | no nil graph, true statuses, read your writes, whole snapshots |
| `server_live` | two writes that fill their lane, with fairness | every request answered, shutdown completes |

Why the bounds are enough. A buffer of 1 makes a queue full with one stream
inside and one parked; two writes on a lane are the fewest that can be out of
order; a second Start reaches the reuse of queues after a Stop; two Stops reach
the race for `close(quit)`. Chunks of two split on the third key. Three keys
with one copy each and FlushFactor 2 reach the compaction threshold from below
and above. Four facts let a hub hold members seen by another anchor, by an
index and by neither at once; of the words, vectors and filings only shapes are
enumerated, listed with the case each is for in `MCSearch.tla`. Nine tokens are
the fewest for a term, an anchor and a modifier in one recall
(`recall ''topic:''depth:''` with texts in the quotes), which is where the
rules about depth meet. `entity:` and `until:` go through the same code as
`topic:` and `since:` and are not in the alphabet. Nor is a selector of 256: what the
narrowing to a byte does to it, the check before it is seen to stop on `@'-1'`, and
`ReadsAsWritten` proves for any number. Overfetch 2 lets a search for two read trees of
four copies whole, enough for a stale copy of a key beside three live ones. Instants repeat in `memory_graph` (MaxTime 2 with more writes than
that), so ties in a sequence are reached. A heap of six is the smallest where
the item moved into a removed one's place has to rise, and eleven values give
the B-tree a third level at degree two. Each part of `indexes`, and of `inputs`, is explored with the others at
rest: they share no state. Two arguments and one file key are the fewest for a
repeated flag over a file's value. Deadlock is checked except in `search`,
`indexes`, `vector_stale`, `btree_delete`, `inputs` and `query_print`, whose behaviours end with an
answer, a rejection, a full container or a started process:
Scheduler and Server stutter only in their own final states (`AllQuiet`,
`Exited`).

Bounds by name: `MaxStarts` (lives of the scheduler), `MaxUses` (the history
clock of the cache), `MaxTime` (instants), `MaxTokens` (the length of a query
text), `MaxNow` (the wall clock of the plan cache). They bound history or repetition,
not an outcome.

Fairness. Weak fairness of each goroutine's next step: workers, writers,
handlers (of queries and of `/stats`), a Stop under way and Start's goroutine. Go runs every runnable
goroutine, its mutexes hand over to a waiter, and the timers of Submit
(`EnqueueTimeout`) and of the grace period fire. Nobody is required to submit,
disconnect, fail, signal or exit.

Each property has a mutant in `PROJECT.json`: a plausible fault of one mapped
definition under which TLC finds that property violated.

## Findings

* `memory_graph_nul`: the hash of an edge joins fact and anchor with a NUL,
  which a phrase may contain. Two edges can share a key; the second `Set` says
  it already exists, `storeAnchor` takes that for a re-assertion, and an
  acknowledged fact stays unlinked.
* `btree_delete`: `BTree.Delete` (`containers/trees/btree.go:186`) returns before
  it replaces an emptied root when the value was absent, but `delete` has merged
  the root's children on the way down. A second failed delete then meets a root
  without values over one child at its minimum, and `fill` indexes children[-1].
  The text index deletes only lists it has just read off the tree
  (`index/btree.go:594`), so no delete of its fails and no query reaches this.
* `vector_stale`: a stale copy of *another* key can take one of the k places of a
  tree's pool, and `read` drops it only afterwards (`rptree.go:287`). Insert a and b,
  delete a, and a search with k = 1 at a may answer nothing, although every leaf was
  read, there is a live vector, and `rptree_test.go:343` pins that "a key whose live
  vector is nearest is returned, whatever stale copies the forest holds". The graph
  searches with k = 0 (`in_memory.go:870`), which reads the live map, so no recall
  meets it. With stale copies of its *own* a key never loses its place
  (`FoundUnlessCrowdedOut`), which is what the test itself exercises.
* `query_print`: `depth:'-1'` is accepted, since quotes let a minus into a number
  and `query.Parse` checks only the ceiling; beside anchors it runs as depth 1
  without a warning, and it prints as `depth:-1`, which does not parse, although
  `ast.go:47` says a command's String parses back and
  `tests/e2e/api_test.py:494` says "a negative cannot be written".
  `SearchesAsWritten` and `PrintsBack` speak of numbers of 0 or more for that
  reason.

Observations that no run checks:

* `max-depth = 0` is documented as valid ("in `[0, 2]`",
  `docs/configuration/reference/database.mdx:14`) and `validate` accepts it, but
  `adjust` has already turned the zero into 2. `StartsAsWritten` states the rule
  the code follows, that a zero is the default.
* `validate` leaves `cache-capacity` alone, so a negative one passes it and only
  `Engine.Start` fails; `default-top` and `default-depth` are not compared with
  their ceilings.

## Proofs

Thirty-nine theorems in eight modules, each for every value of the constants. A
`...Proofs` module extends the module it is about; the invariants themselves are
defined beside the model, where TLC can check them too, and were checked on the
instances above before they were proved. Each has an Init lemma and a Step
lemma with one case per action. Every safety invariant and action property of the
passing runs is a theorem, except the two named under "Only model-checked".

### Scheduler (`SchedulerProofs`)

| Theorem | Inductive invariant | Why the strengthening |
|---|---|---|
| `TypeCorrect` | `TypeInv` = `TypeOK /\ ExecInv` | a step of execute is typed only if its executor holds a stream, on an existing graph once past Select |
| `MutualExclusion` | `+ LockInv` | the lock's words must say exactly who is between Acquire and Release |
| `ReadsAreNotTorn` | `+ TornInv` (`CommitInv`) | facts and links may differ only by the write of the lock's holder |
| `OrderlyStop` | `TypeInv /\ StopInv` | where each Stop is determines quit, both WaitGroups and which queues are empty, and only the Stop that holds `stopping` is past the wait |
| `AcceptedRunsOnce` | `+ OnceInv` | a queued stream sits in the queue it belongs to, so Receive takes it from one place |
| `NothingIsLost` | the same | after `submits.Wait` nobody can send, after `wg.Wait` nobody else runs, after the sweep nothing is queued |
| `AcknowledgedIsVisible` | `+ OutcomeInv /\ VisibleInv`, together `SchedulerInv` | a write is in its graph exactly when it ended without an error, and `done` closes only after the outcome is set |
| `Refinement` | `SchedulerInv` | the second store of a commit is the instant the write takes effect, the read under the lock that of the recall; every other step stutters |
| `WritesInOrder` | `+ LaneInv` | a queue is the tail of what it accepted, and what a lane has let go of is with its writer or with Stop, the last taken coming after every fact of the graph |

`QuietSteps` says once which actions leave execution alone.

### Server (`ServerProofs`)

`SchedulerInv` carries over, since every step of the server is a step of the
scheduler, a step of a poller's lock, or leaves it alone; with it goes `HandlersInv` =
`ServerTypeOK /\ LifeInv /\ HandlerInv /\ PollInv`. LifeInv ties the phase of
`Start` to the scheduler's (the slots are emptied only when every Stop is
through), HandlerInv each answer to the outcome of its stream, PollInv what a
poller has counted to the graph under the lock it holds. From these:
`GraphsAreThere`, `StatusesHold`, `WritesAreRead`, `PollsAreWhole` and
`ServerRefinement`, the whole server implementing MemoryService.

### Plan cache (`PlanCacheProofs`)

`CacheInv` = `CacheTypeOK /\ MapMatchesList /\ RecencyOrder`: the list is in
the order of last use, which is what makes its tail the oldest key.
`CacheIsSound` and `OldestGoFirst` hold for any set of values V; the second is
an action property. `PlanInv` adds `Entries` (a cached entry is the plan of the
query stored with it) and `PlansTaken` (so is the plan a request took), which
gives `PlansAreOwn`; `EnginesCacheIsSound` is the first two again for the cache
as concurrent requests fill it.

### Graph (`MemoryGraphProofs`)

`GraphInv` = `NodesOK /\ PendingOK /\ EdgesAreWhole /\ IndexesInv`. In the middle
of a commit the anchors of a fact are still pending, so what holds between two
stores is about nodes *and* pending stores. `NoEdgeDangles` and `IndexesFollow`
follow. `NothingForgotten` adds `BookInv` and the hypothesis `FactsAreWhole`, that no fact holds
the separator byte; `memory_graph_nul` shows that without it the statement is
false. The proof needs that two texts joined by a separator the first does not hold
can be told apart (`SplitAtSeparator`). `CachesAreFresh` rests on `CachesInv`: a
store or a delete either drops a cached order or leaves everything it was
computed from alone.

### Indexes (`IndexProofs`)

Text: `TextInv` = `Whole(idx) /\ TextGarbageBounded`. Whole says that the lists `Tell`
a table of counts (`CountOf(documents)`): every posting, tombstones
included, has the count of its key's document, every key that counts has one,
the postings ascend through non-empty chunks and `live` is the number of keys that count.
Stated of a table rather than of the documents, it holds between two tokens
of a document as well: one token moves one entry of the table
(`AddTokenTells`, `DropTokenTells`), the loops add up to the occurrences of
the text (`AddTokensTell`, `DropTokensTell`), and a compaction keeps the table
and changes the numbers (`SweepsTell`, `RenumberedFacts`). Hence
`ListsMatchDocuments`, `DocumentsAreNumbered` and `TombstonesStayFew`.

Vector: `VectorInv` adds to `ForestHoldsLive` that live vectors and copies are finitely many, the entry counter a
number, and an index without a dimension empty. `ForestIsSound` follows, and
`NearestAreReturned`, for any k, any filter and any number of trees. A live key goes
missing in one of two places. A pool that turns it away is full, with k keys whose
nearest copies are no farther than its own nearest, and that is no farther than its live
vector, which the forest never loses (`PoolCrowds`). A ranking cut before it has k live
keys in front, each with its live copy in the trees (`RankingCrowds`).

Heap: `HeapInv` says that map and slice are `Matched`, inverse to each other over the
keys queued, and that no item outranks its parent (`ParentsFirst`). The second does not hold while
an item is on its way, so the loops carry a weaker one: going up, only the moving item may
exceed its parent and its children do not exceed its grandparent (`ButAbove`);
going down, only its children may exceed it (`ButBelow`, from the slot `lo` on,
since heapify has ordered only what is below). A turn keeps it (`RiseOrder`,
`SinkOrder`), a swap keeps `Matched` (`SwapMatched`), and the slot moves on, so the loop
ends with the heap in order (`Risen`, `Sunk`, `Heapified`). The item that fills a removed one's
slot satisfies one of the two, by the comparison `Remove` makes
(`FilledOrder`); the mutant that only sifts down fails there. Hence
`QueueIsSound` (`HeapIsSound`), and by induction from parent to child `HighestComesFirst`.

### Inputs (`InputProofs`)

`RunsAsWritten`: `ConfigInv` = `ReadInv /\ AdjustedInv /\ EndInv` says what
`conf` holds before each step of Parse. `RecallsAsWritten`: `QueryInv` says
what a clause has been checked for when its production ends.

`ReadsAsWritten`: `ReadingInv` says where in the text the window is (`WindowAt`)
and that the node is what the text says up to the clause being read (`ReadTo`,
with `Done` the place where that clause begins). The property speaks of the whole
text: the clauses under a keyword are the places of the text that begin one, in
order. One token more adds at most one place, at the end, so each production
appends to the list what it appended to the node (`NthUnique` and the lemmas after
it). Two details are not obvious. A word before a ':' that begins no clause is read
as a value before the ':' is refused, so in between the node holds more than the
text says; and a keyword that a command does not take is refused at once, so the
lists it would have begun stay empty.

`PrintsAsRead`: `BackInv` says that the parser of a printed text never rejects it, and
that at each place the node holds again the first `t` terms, `i` clauses and `v`
vectors of the command (`Again`), t, i and v being told by the place (`PlaceAt`: two
tokens to a term, four to a clause). It needs that what is printed can be laid out
by place (`Layout`, from `FlatShape` about a flattened sequence of pieces of one length),
that each printed token is read in the role it was printed for, and that the node was
`Whole`: a remember with a quoted fact and no modifier, a recall with a seed that is
still one after folding. The hypothesis of the property, numbers of 0 or more, is
what `query_print` shows to be needed.

### Search (`SearchProofs`)

`SearchInv` says, per stage, what the seeds, the anchors and the candidates
are in terms of the graph and the query (`SeedsInv`, `AnchorsInv`, `ExpandedInv`,
`GroupsApart`). From it: `GroupingIsTransparent`, `AnchoredMatchesAreSeeds`,
`ChanceStaysSilent`, `NoFactFundsItself`, `AnswersAreBest` and
`PoolStatisticsCountFacts`. They are where the model's sums meet: that the
shares of all anchors add up, that a group counts for its members, that
someone is at or below the mean.

### What they share (`CollectionFacts`)

The library's induction theorems take an operator as a parameter, which no
installed prover can instantiate. `CollectionFacts` states induction of a set
instead (`Induction`: a set that has 0 and with k also k + 1 has every number up
to n; `FiniteInduction`, the same over the subsets of a finite set), proved by
pigeonhole: were m the first number missing, k + 1 would map a finite set one to
one into itself less an element. A step then names the set of numbers for which
its claim holds. From these two follow that a loop written as
a recursive function runs (`LoopRuns`), that a finite set can be laid out in any
total order (`Sortable`, `LayoutIsWhole`), and the laws of finite sums.

### Assumptions

Each is a named ASSUME, evaluated by TLC on every run of its module, or a
hypothesis of the theorem:

| Assumption | Says | Why the code gives it |
|---|---|---|
| `ConstantsAssumption`, `DistinctGoroutines` | sizes at least one, selectors natural, goroutines distinct | `adjust` and `validate` in `internal/config`, modelled by Config |
| `RequestsAssumption` (Server, PlanCache) | requests are streams; queries are records of the parser's shape | types |
| `CapacitiesAssumption`, `MaxNowAssumption`, `MaxTimeAssumption` | integers, bounds natural | types |
| `KeyRankAssumption` | keys of two facts differ | keys are 64-bit hashes, taken injective except under an edge |
| `WritesAssumption` | no empty fact, names are finite sequences | the parser |
| `FactsAreWhole` (hypothesis) | no fact holds the separator byte | nothing; see Findings |
| `DocumentsAssumption`, `PostingChunkAssumption` | keys ordered as integers, texts finite, chunks of one or more | `comparator`, the constant 128 |
| `PointsAssumption`, `FlushFactorAssumption`, `OverfetchAssumption`, `TreesAssumption` | vectors are points on a line, factors at least one, a tree at least | the module's abstraction; `NewRPTreeIndex` raises the factors, `adjust` the number of trees (a negative one panics in `newForest`) |
| `ItemsAssumption` | the keys of the queue are 1 to n, priorities natural | keys are only compared for equality; `uint64` |
| `ArgListsAssumption`, `LimitsAssumption` | arguments are finite, limits natural, `IntOf` integers | types, `validate` |
| `LexemesAssumption` | numbers and times are read from words and phrases; folding twice is folding once and makes no new stop word and no empty word; a word and its folded form are read back as one word, reserved only if it was a mis-cased keyword; a number's digits are the number again | `Lexer.Next`, `isWordCharacter`, `strings.ToLower`, `strconv.Atoi` against `%d` |
| `KeysAssumption`, `SizesAssumption`, `WorldsAssumption`, `QueriesAssumption` (Search) | finite graph and query, sizes natural, a ratio at most one | types, `validate` |
| `PowersAssumption` (Search) | 2^n is a positive number for n up to Now | arithmetic that no installed prover has for `^` |

### Only model-checked

* Liveness, `RequestsAnswered` and `ShutdownCompletes`: fairness and ENABLED are
  beyond the prover.
* `TreeIsSound` and `TreeWalksAreReadings` (and the violation `DeleteReports`):
  BTree and RPTree are recursive over trees and declare RECURSIVE operators,
  under which the prover loses its SMT backend.

## Not modelled, and why

Scores as floating point numbers, distances beyond an order, and hash functions
bit by bit: arithmetic out of TLC's reach. Characters: the lexer's scanning, the
UTF-8 check before it, folding to lower case, the digits of a duration and its
range check. Logging, formatting and response bodies; the health check, which
answers a constant. The Go runtime, gin, the flag package and the TOML decoder
beyond what the code relies on. The reciprocal rank fold. The MCP bridge and the
Python SDK: stateless translations between a tool call, a query text and an HTTP
request, with no retry.

## Plan

1. (done) Scheduler, MemoryService, their runs and proofs; caches; graph;
   indexes; server; search; query language.
2. (done) The statistics reader beside a shutdown; printing and parsing back;
   time bounds of cached plans; configuration and command; B-tree, heap,
   priority queue and projection tree.
3. (done) The safety properties of every module without RECURSIVE operators,
   as theorems: scheduler, server and their refinement, plan cache, graph, both
   indexes, configuration, query language, search.
4. (done) Queries read and printed back, for any text.
5. (done) The heap, with its percolations as loops and the queue's order proved.
6. Left: the two trees. Their operations recurse over nested nodes, so a proof
   needs trees by height and every walk as a recursive function of the height.
