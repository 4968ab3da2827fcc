------------------------------ MODULE PlanCache ------------------------------
(***************************************************************************)
(* Engine.Plan (pkg/engine/engine.go) over the LRU cache of plans.         *)
(*                                                                         *)
(* Plan runs in the goroutine of each HTTP handler.  It looks its query's  *)
(* hash up, and on a miss, or on an entry another query planned, optimises *)
(* the query and stores the plan.  The lookup and the store each take the  *)
(* cache's mutex, and between them anything may happen: another request    *)
(* with the same hash fills the entry, evictions, Engine.Stop's Clear.     *)
(* A plan outlives the request it was made for, and a time bound such as   *)
(* since:7d moves with the clock: it is resolved when the stream commits.  *)
(***************************************************************************)
EXTENDS LRUCache

CONSTANTS
    Requests,
    QueryOf,      \* the parsed query of each request
    HashOf,       \* its 64-bit hash; distinct queries may share one
    NoPlan,
    MaxNow        \* bound: instants of the clock

Lists == {"keywords", "entities", "topics"}

\* What the parser makes: every field there, and a bound that is none says so.
IsBound(b) ==
    /\ b \in [type : {"relative", "absolute", "nil"}, n : Int]
    /\ b.type = "nil" => b.n = 0

IsQuery(q) ==
    /\ q = [f \in {"graph", "write", "top", "depth", "since", "until", "lists"} |-> q[f]]
    /\ q.write \in BOOLEAN /\ IsBound(q.since) /\ IsBound(q.until)
    /\ q.lists = [l \in Lists |-> q.lists[l]]
    /\ \A l \in Lists : q.lists[l] \in Seq(ToSet(q.lists[l]))

ASSUME MaxNowAssumption == MaxNow \in Nat

ASSUME RequestsAssumption ==
    \A r \in Requests : IsQuery(QueryOf[r]) /\ HashOf[QueryOf[r]] \in Keys

VARIABLES
    stage,        \* how far each request's Plan has come
    plan,         \* the query its stream will run
    now           \* the wall clock

planVars == <<cacheVars, stage, plan, now>>

-----------------------------------------------------------------------------
(* Time bounds: [type, n], a span before now, an instant, or none.         *)

NoBound == [type |-> "nil", n |-> 0]

Resolve(b, at) ==
    CASE b.type = "relative" -> at - b.n
      [] b.type = "absolute" -> b.n
      [] b.type = "nil" -> "unbounded"

\* Recall.Since and Recall.Until, as Commit calls them.
Window(q, at) == [b \in {"since", "until"} |-> Resolve(q[b], at)]

\* TimeValue.Equal: never across types.
EqualBound(b, other) == other.type = b.type /\ other.n = b.n

-----------------------------------------------------------------------------
(* The optimisation pipeline: a single stage, Dedupe.                      *)

\* The loop of dedupeStrings: the terms kept of the first n.
dedupeStrings(in) ==
    LET kept[n \in 0 .. Len(in)] ==
            IF n = 0 THEN <<>>
            ELSE IF Contains(kept[n - 1], in[n]) THEN kept[n - 1]
            ELSE Append(kept[n - 1], in[n])
    IN kept[Len(in)]

\* Only a recall is rewritten, and on a copy.
Dedupe(q) ==
    IF q.write THEN q
    ELSE [q EXCEPT !.lists = [l \in Lists |-> dedupeStrings(q.lists[l])]]

Optimise(q) == Dedupe(q)

-----------------------------------------------------------------------------
(* Plan.                                                                   *)

\* QueryParameters.Equal; a remember has none, and they are all alike here.
EqualParameters(q, other) ==
    /\ other.top = q.top /\ other.depth = q.depth
    /\ EqualBound(q.since, other.since) /\ EqualBound(q.until, other.until)

\* Recall.Equal and Remember.Equal: of one kind, on one graph, with the same
\* lists in the same order and the same bounds.
Equal(q, other) ==
    /\ other.write = q.write
    /\ other.graph = q.graph
    /\ \A l \in Lists : other.lists[l] = q.lists[l]
    /\ EqualParameters(q, other)

Cached(q) == [parsed |-> q, optimised |-> Optimise(q)]

PlanInit ==
    /\ CacheInit
    /\ stage = [r \in Requests |-> "parsed"]
    /\ plan = [r \in Requests |-> NoPlan]
    /\ now = 0

Planned(r, q) ==
    /\ stage' = [stage EXCEPT ![r] = "planned"]
    /\ plan' = [plan EXCEPT ![r] = q]

LookupByHash(r) ==               \* faulty: trusts the key
    /\ stage[r] = "parsed"
    /\ Get(HashOf[QueryOf[r]])
    /\ IF Hit(HashOf[QueryOf[r]])
         THEN Planned(r, items[HashOf[QueryOf[r]]].optimised)
         ELSE stage' = [stage EXCEPT ![r] = "missed"] /\ UNCHANGED plan
    /\ UNCHANGED now

\* The lookup.  An entry stands in for the query only when it was planned for
\* an equal one.
Lookup(r) ==
    LET q == QueryOf[r]
        key == HashOf[q]
    IN /\ stage[r] = "parsed"
       /\ Get(key)
       /\ IF Hit(key) /\ Equal(q, items[key].parsed)
            THEN Planned(r, items[key].optimised)
            ELSE stage' = [stage EXCEPT ![r] = "missed"] /\ UNCHANGED plan
       /\ UNCHANGED now

\* The miss: optimise, cache under the parsed query's hash, run the result.
Fill(r) ==
    LET q == QueryOf[r]
    IN /\ stage[r] = "missed"
       /\ Put(HashOf[q], Cached(q))
       /\ Planned(r, Optimise(q))
       /\ UNCHANGED now

EngineStop == Clear /\ UNCHANGED <<stage, plan, now>>

Tick == now < MaxNow /\ now' = now + 1 /\ UNCHANGED <<cacheVars, stage, plan>>

PlanNext ==
    \/ \E r \in Requests : Lookup(r) \/ Fill(r)
    \/ EngineStop \/ Tick

PlanSpec == PlanInit /\ [][PlanNext]_planVars

\* The rest of the cache's interface, used by somebody beside the engine.
Beside ==
    /\ \/ \E k \in Keys : Get(k) \/ Delete(k)
       \/ \E c \in Capacities : Resize(c)
    /\ UNCHANGED <<stage, plan, now>>

SharedPlanSpec == PlanInit /\ [][PlanNext \/ Beside]_planVars

-----------------------------------------------------------------------------

(* out is the list in without its later repeats: the same terms, and each   *)
(* occurs in the list before the next one first does.                       *)
FirstOccurrences(out, in) ==
    /\ ToSet(out) = ToSet(in)
    /\ \A i, j \in DOMAIN out : i < j =>
         \E m \in DOMAIN in : in[m] = out[i] /\ \A n \in 1 .. m : in[n] # out[j]

(* The stream a request gets asks what that request asked, of the graph it  *)
(* named, each term once and in the order given, and, whenever it runs, in  *)
(* the time window the request's own bounds mean then: never another        *)
(* request's plan, whatever hashes collide and whoever filled the entry.    *)
PlanIsOwn ==
    \A r \in Requests : stage[r] = "planned" =>
        LET q == QueryOf[r]
        IN /\ plan[r].graph = q.graph /\ plan[r].write = q.write
           /\ \A l \in Lists : IF q.write THEN plan[r].lists[l] = q.lists[l]
                               ELSE FirstOccurrences(plan[r].lists[l], q.lists[l])
           /\ plan[r].top = q.top /\ plan[r].depth = q.depth
           /\ \A b \in {"since", "until"} :
                CASE q[b].type = "relative" -> Window(plan[r], now)[b] = now - q[b].n
                  [] q[b].type = "absolute" -> Window(plan[r], now)[b] = q[b].n
                  [] q[b].type = "nil" -> plan[r][b] = NoBound

-----------------------------------------------------------------------------
(* The inductive invariant: whatever entry is in the cache was made whole   *)
(* for some request, and whatever plan was taken was made for an equal one. *)

Entries == \A k \in DOMAIN items : \E p \in Requests : items[k] = Cached(QueryOf[p])

PlansTaken ==
    \A r \in Requests : stage[r] = "planned" =>
        \E p \in Requests : /\ Equal(QueryOf[r], QueryOf[p])
                            /\ plan[r] = Optimise(QueryOf[p])

PlanTypeOK ==
    /\ stage \in [Requests -> {"parsed", "missed", "planned"}]
    /\ plan = [r \in Requests |-> plan[r]]
    /\ now \in Nat

PlanInv == CacheInv /\ PlanTypeOK /\ Entries /\ PlansTaken
=============================================================================
