------------------------------- MODULE Server -------------------------------
(***************************************************************************)
(* The HTTP server (pkg/server) over the scheduler and the database slots  *)
(* (pkg/db).                                                               *)
(*                                                                         *)
(* Each request runs handleQuery in a goroutine of its own: parse and      *)
(* check, hand a stream to the scheduler, wait for it, answer.  Start's    *)
(* goroutine brings the parts up, waits for a signal, gives the handlers a *)
(* grace period and takes the parts down, engine first.  Handlers outlive  *)
(* a grace period that expires.                                            *)
(***************************************************************************)
EXTENDS Scheduler

CONSTANTS
    Malformed,    \* requests whose body or query does not parse
    Explains      \* requests sent to /api/v1/explain; Pollers are sent to /api/v1/stats

ASSUME RequestsAssumption == Malformed \subseteq Streams /\ Explains \subseteq Streams

VARIABLES
    phase,        \* how far Start has come
    slots,        \* the database slots that hold a graph; the others are nil
    status,       \* where each handler is, or the status it answered
    gone,         \* requests whose client has disconnected
    before,       \* history: the writes answered 200 when a request arrived
    poll          \* where each stats handler is and what it has gathered

serverVars == <<phase, slots, status, gone, before, poll>>
allVars == <<vars, serverVars>>

InFlight == {s \in Streams : status[s] \in {"apply", "wait"}}
Codes == {"200", "204", "400", "429", "500", "503"}

\* A stats handler: the slots its range runs over, the slot it has reached, and
\* how many facts and links each slot was counted to hold.
NoPoll == [at |-> "none", held |-> {}, slot |-> 0, before |-> {},
           facts |-> [g \in Graphs |-> 0], links |-> [g \in Graphs |-> 0]]

ServerInit ==
    /\ Init
    /\ phase = "new"
    /\ slots = {}
    /\ status = [s \in Streams |-> "none"]
    /\ gone = {}
    /\ before = [s \in Streams |-> {}]
    /\ poll = [p \in Pollers |-> NoPoll]

-----------------------------------------------------------------------------
(* handleQuery.                                                            *)

Reach(s, next) == status' = [status EXCEPT ![s] = next]

\* What is refused before it is planned: a body or a query that does not
\* parse, a write on the explain endpoint, a selector past the last graph.
\* Planning what is left does not fail (PlanCache).
Refuses(s) ==
    s \in Malformed \/ s \in Explains \cap Writes \/ GraphID[s] >= NumGraphs

\* A connection that was accepted is read and served until the process ends: the
\* listener's end, the grace period and Stop do not close it.
Open == phase \in {"serving", "draining", "stopping", "closed"}

\* A request comes in and its handler checks it: nothing it reads meanwhile is
\* shared but the number of slots, which never changes.
Arrive(s) ==
    /\ Open
    /\ status[s] = "none"
    /\ \/ Refuses(s) /\ Reach(s, "400")
       \/ ~Refuses(s) /\ Reach(s, "apply")
    /\ before' = [before EXCEPT ![s] = {w \in Writes : status[w] = "200"}]
    /\ UNCHANGED <<vars, phase, slots, gone, poll>>

\* Engine.Apply, in the handler's goroutine.  Its context ends when the client
\* goes away.
Apply(s) ==
    /\ status[s] = "apply"
    /\ \/ SubmitRefused(s) \/ SubmitCounted(s)
       \/ Enqueue(s) \/ SubmitQuit(s) \/ SubmitTimeout(s)
       \/ s \in gone /\ SubmitCancelled(s)
    /\ UNCHANGED serverVars

AppliedWaits(s) ==               \* faulty: waits for a stream that was shed
    /\ status[s] = "apply"
    /\ \/ call[s] \in {"accepted", "ErrQueueFull"} /\ Reach(s, "wait")
       \/ call[s] = "ErrShutdown" /\ Reach(s, "503")
       \/ call[s] = "ErrEnqueueStream" /\ Reach(s, "gone")
    /\ UNCHANGED <<vars, phase, slots, gone, before, poll>>

\* A stream that was not enqueued never runs: the handler does not wait.
Applied(s) ==
    /\ status[s] = "apply"
    /\ \/ call[s] = "accepted" /\ Reach(s, "wait")
       \/ call[s] = "ErrShutdown" /\ Reach(s, "503")
       \/ call[s] = "ErrQueueFull" /\ Reach(s, "429")
       \/ call[s] = "ErrEnqueueStream" /\ Reach(s, "gone")
    /\ UNCHANGED <<vars, phase, slots, gone, before, poll>>

\* A vector of the wrong dimension is the client's fault; any other error of a
\* stream is internal.
errorToResponse(e) == IF e = "ErrStreamCommit" THEN "400" ELSE "500"

AnswerWriteEarly(s) ==           \* faulty: answers a write once it is enqueued
    /\ status[s] = "wait"
    /\ s \in Writes \/ s \in done
    /\ Reach(s, IF s \notin Writes /\ result[s].facts = <<>> THEN "204" ELSE "200")
    /\ UNCHANGED <<vars, phase, slots, gone, before, poll>>

AnswerReadEarly(s) ==            \* faulty: answers a read before it has run
    /\ status[s] = "wait"
    /\ s \in Writes => s \in done /\ err[s] = "ok"
    /\ Reach(s, IF s \notin Writes /\ result[s].facts = <<>> THEN "204" ELSE "200")
    /\ UNCHANGED <<vars, phase, slots, gone, before, poll>>

\* The stream is done.  A read that found nothing in a graph that holds nothing
\* answers 204.
Answer(s) ==
    /\ status[s] = "wait" /\ s \in done
    /\ \/ err[s] # "ok" /\ Reach(s, errorToResponse(err[s]))
       \/ /\ err[s] = "ok"
          /\ Reach(s, IF s \notin Writes /\ result[s].facts = <<>> THEN "204" ELSE "200")
    /\ UNCHANGED <<vars, phase, slots, gone, before, poll>>

\* The client goes away; the handler may notice while it waits.
Disconnect(s) ==
    /\ s \in InFlight \ gone
    /\ gone' = gone \cup {s}
    /\ UNCHANGED <<vars, phase, slots, status, before, poll>>

Abandon(s) ==
    /\ status[s] = "wait" /\ s \in gone
    /\ Reach(s, "gone")
    /\ UNCHANGED <<vars, phase, slots, gone, before, poll>>

HandleQuery(s) == Apply(s) \/ Applied(s) \/ Answer(s) \/ Abandon(s)

-----------------------------------------------------------------------------
(* handleStats.                                                            *)

serverCore == <<phase, slots, status, gone, before>>

StatsArrive(p) ==
    /\ Open /\ poll[p].at = "none"
    /\ poll' = [poll EXCEPT ![p].at = "range",
                            ![p].before = {w \in Writes : status[w] = "200"}]
    /\ UNCHANGED <<vars, serverCore>>

\* DB.Stats reads the slice of slots without a lock while DB.Stop may replace it
\* by one of the same length: it ranges over the one or the other.
StatsRange(p) ==
    /\ poll[p].at = "range"
    /\ poll' = [poll EXCEPT ![p].at = "slot", ![p].held = slots]
    /\ UNCHANGED <<vars, serverCore>>

StatsEmptySlot(p) ==
    /\ poll[p].at = "slot" /\ poll[p].slot \in Graphs \ poll[p].held
    /\ poll' = [poll EXCEPT ![p].slot = @ + 1]
    /\ UNCHANGED <<vars, serverCore>>

StatsUnlocked(p) ==              \* faulty: no RLock
    /\ poll[p].at = "slot" /\ poll[p].slot \in poll[p].held
    /\ poll' = [poll EXCEPT ![p].at = "facts"]
    /\ UNCHANGED <<vars, serverCore>>

StatsLock(p) ==
    /\ poll[p].at = "slot" /\ poll[p].slot \in poll[p].held
    /\ wlock[poll[p].slot] = None
    /\ readers' = [readers EXCEPT ![poll[p].slot] = @ \cup {p}]
    /\ poll' = [poll EXCEPT ![p].at = "facts"]
    /\ UNCHANGED <<ctlVars, execVars, wlock, dataVars, done, serverCore>>

\* InMemoryGraph.Stats counts the nodes, the edges and the vectors in turn.
StatsFacts(p) ==
    LET g == poll[p].slot IN
    /\ poll[p].at = "facts"
    /\ poll' = [poll EXCEPT ![p].at = "links", ![p].facts[g] = Len(facts[g])]
    /\ UNCHANGED <<vars, serverCore>>

StatsLinks(p) ==
    LET g == poll[p].slot IN
    /\ poll[p].at = "links"
    /\ poll' = [poll EXCEPT ![p].at = "slot", ![p].slot = g + 1,
                            ![p].links[g] = Len(links[g])]
    /\ readers' = [readers EXCEPT ![g] = @ \ {p}]
    /\ UNCHANGED <<ctlVars, execVars, wlock, dataVars, done, serverCore>>

HandleStats(p) ==
    \/ StatsRange(p) \/ StatsEmptySlot(p) \/ StatsLock(p)
    \/ StatsFacts(p) \/ StatsLinks(p)

-----------------------------------------------------------------------------
(* Start and Stop.                                                         *)

DBStart ==
    /\ phase = "new"
    /\ slots' = Graphs
    /\ phase' = "db"
    /\ UNCHANGED <<vars, status, gone, before, poll>>

\* A relevance model that does not match the configuration: the slots before
\* it are filled.  Start returns with what it built.
DBStartFails ==
    /\ phase = "new"
    /\ \E i \in Graphs : slots' = {g \in Graphs : g < i}
    /\ phase' = "failed"
    /\ UNCHANGED <<vars, status, gone, before, poll>>

\* A cache capacity that is not positive, or a scheduler without a database:
\* either is seen before the scheduler has changed anything.
EngineStartFails ==
    /\ phase = "db"
    /\ phase' = "failed"
    /\ UNCHANGED <<vars, slots, status, gone, before, poll>>

EngineStart ==
    /\ phase = "db"
    /\ Start
    /\ phase' = "engine"
    /\ UNCHANGED <<slots, status, gone, before, poll>>

EngineLaunch ==
    /\ phase = "engine"
    /\ \E e \in Executors : StartWorker(e)
    /\ UNCHANGED serverVars

\* Engine.Start has returned; ListenAndServe runs in a goroutine of its own.
Serve ==
    /\ phase = "engine" /\ Launched
    /\ phase' = "serving"
    /\ UNCHANGED <<vars, slots, status, gone, before, poll>>

\* A signal ends the wait: the listener closes and Shutdown begins.
Signal ==
    /\ phase = "serving"
    /\ phase' = "draining"
    /\ UNCHANGED <<vars, slots, status, gone, before, poll>>

\* Shutdown returns when every handler has, or when the grace period is over.
ShutdownReturns ==
    /\ phase = "draining"
    /\ phase' = "stopping"
    /\ UNCHANGED <<vars, slots, status, gone, before, poll>>

\* ListenAndServe fails on its own: no grace period.
ServeFails ==
    /\ phase = "serving"
    /\ phase' = "stopping"
    /\ UNCHANGED <<vars, slots, status, gone, before, poll>>

EngineStop(p) ==
    /\ phase = "stopping"
    /\ StopCall(p) \/ Stop(p)
    /\ UNCHANGED serverVars

DBStopFirst(p) ==                \* faulty: drops the graphs without waiting
    /\ phase = "stopping"
    /\ slots' = {}
    /\ phase' = IF pc[p] = "returned" THEN "closed" ELSE phase
    /\ UNCHANGED <<vars, status, gone, before, poll>>

\* Once the engine has stopped, every slot is emptied.
DBStop(p) ==
    /\ phase = "stopping"
    /\ pc[p] = "returned"
    /\ slots' = {}
    /\ phase' = "closed"
    /\ UNCHANGED <<vars, status, gone, before, poll>>

\* Start has returned: the process ends, whoever is still running.
Exit ==
    /\ phase \in {"closed", "failed"}
    /\ phase' = "exited"
    /\ UNCHANGED <<vars, slots, status, gone, before, poll>>

Lifecycle ==
    \/ DBStart \/ EngineStart \/ EngineLaunch \/ Serve \/ ShutdownReturns
    \/ \E p \in Stoppers : EngineStop(p) \/ DBStop(p)

-----------------------------------------------------------------------------

ServerRun(e) == Run(e) /\ UNCHANGED serverVars

Exited == phase = "exited" /\ UNCHANGED allVars

ServerNext ==
    \/ /\ phase # "exited"
       /\ \/ \E s \in Streams : Arrive(s) \/ Disconnect(s) \/ HandleQuery(s)
          \/ \E p \in Pollers : StatsArrive(p) \/ HandleStats(p)
          \/ Lifecycle \/ DBStartFails \/ EngineStartFails \/ Signal \/ ServeFails \/ Exit
          \/ \E e \in Executors : ServerRun(e)
    \/ Exited

ServerSpec == ServerInit /\ [][ServerNext]_allVars

(* Fairness.  A goroutine that can run is run: each handler, each executor, *)
(* and Start's.  The grace period is a timer, so Shutdown always returns.   *)
(* A Submit that is parked can always move, because its timer expires.  No  *)
(* client has to send or go away, and nothing has to fail, signal or exit.  *)
ServerFairness ==
    /\ \A s \in Streams : WF_allVars(HandleQuery(s))
    /\ \A p \in Pollers : WF_allVars(HandleStats(p))
    /\ \A e \in Executors : WF_allVars(ServerRun(e))
    /\ WF_allVars(Lifecycle)

FairServerSpec == ServerSpec /\ ServerFairness

-----------------------------------------------------------------------------
(* Properties.                                                             *)

(* No executor ever works on a nil graph: the slots are emptied only after  *)
(* the engine has run what it accepted, although handlers that outlived the *)
(* grace period keep submitting.  A nil graph would panic in a worker and   *)
(* take the process down.                                                   *)
NoNilGraph ==
    \A e \in Executors :
        at[e] \in {"acquire", "announced", "commit", "link", "release"} => Graph(e) \in slots

Applies(w) == \E g \in Graphs : \E i \in 1 .. Len(facts[g]) : facts[g][i] = w

(* The status tells the truth about a write.  Answered 200, it has been     *)
(* applied, whole, by then; answered with an error, 429 and 503 included,   *)
(* it was not and never will be, so a client may retry it.  Explain never   *)
(* mutates.                                                                 *)
StatusesAreTrue ==
    \A w \in Writes :
        /\ status[w] = "200" =>
             \E i \in 1 .. Len(links[GraphID[w]]) : links[GraphID[w]][i] = w
        /\ status[w] \in Codes \ {"200"} => ~Applies(w)

(* A recall that is answered saw every write answered 200 before it was     *)
(* sent; a 204 says the graph was empty, so none was.                       *)
ReadYourWrites ==
    \A r \in Streams \ Writes : status[r] \in {"200", "204"} =>
        \A w \in before[r] : GraphID[w] = GraphID[r] =>
            \E i \in 1 .. Len(result[r].links) : result[r].links[i] = w

(* A snapshot of /stats never sees a write in progress, as DB.Stats says:   *)
(* of each graph it counts as many facts as were linked, and at least the   *)
(* writes answered 200 before the poll was sent, on a handler that outlived *)
(* the grace period too, whichever slice of slots it came to range over.    *)
SnapshotsAreWhole ==
    \A p \in Pollers : poll[p].slot = NumGraphs =>
        \A g \in Graphs :
            /\ poll[p].facts[g] = poll[p].links[g]
            /\ g \in poll[p].held =>
                 poll[p].facts[g] >= Cardinality({w \in poll[p].before : GraphID[w] = g})

(* Every request that arrived is answered or abandoned, through queueing,   *)
(* shutdown and an expired grace period, unless the process exits first.    *)
RequestsAnswered ==
    \A s \in Streams : s \in InFlight ~> (s \notin InFlight \/ phase = "exited")

(* A signal, or a failed listener, brings the server down.                  *)
ShutdownCompletes == phase \in {"draining", "stopping"} ~> phase \in {"closed", "exited"}

-----------------------------------------------------------------------------
(* The inductive invariant behind the safety properties, beside the          *)
(* scheduler's own: the scheduler goes through its steps here too, and the   *)
(* stats handlers only share its locks.                                      *)

ServerTypeOK ==
    /\ phase \in {"new", "db", "engine", "serving", "draining", "stopping", "closed", "failed",
                  "exited"}
    /\ slots \subseteq Graphs
    /\ status \in [Streams -> {"none", "apply", "wait", "gone"} \cup Codes]
    /\ gone \subseteq Streams
    /\ before \in [Streams -> SUBSET Writes]
    /\ poll \in [Pollers -> [at : {"none", "range", "slot", "facts", "links"},
                            held : SUBSET Graphs, slot : 0 .. NumGraphs,
                            before : SUBSET Writes,
                            facts : [Graphs -> Nat], links : [Graphs -> Nat]]]

\* The slots are full for as long as the scheduler may run anything.
LifeInv ==
    /\ phase \in {"new", "db", "engine"} => \A p \in Stoppers : pc[p] = "off"
    /\ phase \in {"new", "db", "closed", "failed", "exited"} => mode = "down"
    /\ phase \in {"db", "engine", "serving", "draining", "stopping"} => slots = Graphs
    /\ \A p \in Stoppers : pc[p] = "returned" => mode = "down"

\* What a handler's status says of its Submit and of its stream.
HandlerInv ==
    \A s \in Streams :
        /\ status[s] = "none" => call[s] = "idle"
        /\ status[s] = "wait" => call[s] = "accepted"
        /\ status[s] \in {"429", "503"} => call[s] \in Returned \ {"accepted"}
        /\ status[s] \in {"200", "204"} => s \in done /\ err[s] = "ok"
        /\ status[s] = "204" => s \notin Writes
        /\ status[s] \in {"400", "500"} => call[s] = "idle" \/ (s \in done /\ err[s] # "ok")
        /\ \A w \in before[s] : status[w] = "200"
        /\ call[s] \in {"parked", "accepted"} => before[s] \subseteq acked[s]

\* A stats handler counts a graph while it shares its lock.
PollInv ==
    \A p \in Pollers :
        /\ poll[p].at \in {"none", "range"} => poll[p].slot = 0
        /\ poll[p].at \in {"facts", "links"} =>
             poll[p].slot \in Graphs /\ p \in readers[poll[p].slot]
        /\ poll[p].at = "links" => poll[p].facts[poll[p].slot] = Len(facts[poll[p].slot])
        /\ \A w \in poll[p].before : status[w] = "200"
        /\ \A g \in Graphs :
             /\ ~(poll[p].at = "links" /\ poll[p].slot = g) =>
                  poll[p].facts[g] = poll[p].links[g]
             /\ g \in poll[p].held /\ g < poll[p].slot =>
                  poll[p].facts[g] >= Cardinality({w \in poll[p].before : GraphID[w] = g})
=============================================================================
