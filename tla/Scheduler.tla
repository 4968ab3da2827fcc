----------------------------- MODULE Scheduler -----------------------------
(***************************************************************************)
(* The query scheduler (pkg/scheduler/scheduler.go) and the stream a       *)
(* request rides on (internal/query/stream.go).                            *)
(*                                                                         *)
(* Reads share one bounded queue served by a pool of workers; the writes   *)
(* of a graph go through that graph's own bounded lane, served by a single *)
(* writer.  Submit runs in the goroutine of the caller, worker in its own, *)
(* and Stop in the goroutine of whoever shuts the server down; Stop turns  *)
(* into an executor itself when it drains what the workers left behind.    *)
(*                                                                         *)
(* A critical section of the scheduler's mu is one action: nothing blocks  *)
(* inside one.  Every other place where a goroutine can be descheduled     *)
(* between two accesses to shared state separates two actions.             *)
(***************************************************************************)
EXTENDS Integers, Sequences, FiniteSets

CONSTANTS
    Streams,      \* the streams clients submit, one per request
    Writes,       \* those that carry a remember; the others carry a recall
    GraphID,      \* the graph selector of each stream, in range or not
    NumGraphs,    \* graphs of the database, hence lanes
    Workers,      \* goroutines serving the read queue
    Stoppers,     \* goroutines that call Stop, once each
    Pollers,      \* goroutines that only share a graph's lock (Server's stats handlers)
    BufferSize,   \* capacity of the read queue and of each lane
    MaxStarts,    \* bound: how often the scheduler is started
    None          \* no stream, no goroutine

Graphs == 0 .. NumGraphs - 1
ReadQueue == -1
Queues == {ReadQueue} \cup Graphs
Executors == Workers \cup Graphs \cup Stoppers  \* g \in Graphs: the writer of lane g

ASSUME ConstantsAssumption ==
    /\ Writes \subseteq Streams
    /\ GraphID \in [Streams -> Nat]
    /\ NumGraphs \in Nat \ {0}
    /\ BufferSize \in Nat \ {0}
    /\ MaxStarts \in Nat \ {0}
    /\ None \notin Streams \cup Executors
    /\ Pollers \cap (Streams \cup Executors \cup {None}) = {}

ASSUME DistinctGoroutines ==
    /\ Workers \cap Graphs = {}
    /\ Workers \cap Stoppers = {}
    /\ Graphs \cap Stoppers = {}

VARIABLES
    mode,      \* "down": Queue, Lanes and quit are nil; "up"; "closing": quit is closed
    starts,    \* how often Start has run
    chan,      \* contents of the read queue and of the lanes
    submits,   \* the WaitGroup of counted Submits, as the set of its members
    wg,        \* the WaitGroup of live workers and writers, as a set
    stopping,  \* holder of the stopping mutex
    sweep,     \* queue that Stop's final drain has reached
    call,      \* where each Submit is, or what it returned
    pc,        \* where each worker, writer and Stop caller is
    cur,       \* stream an executor is executing
    at,        \* where in execute it is
    readers,   \* shared holders of each graph's RWMutex
    wlock,     \* executor that announced itself as writer of that mutex
    facts,     \* writes whose fact node each graph holds, in commit order
    links,     \* writes whose anchors each graph holds, in commit order
    result,    \* what a read found
    err,       \* the outcome Commit or Select left on the stream
    done,      \* streams whose done channel is closed
    accepted,  \* history: the order each queue accepted its streams in
    acked      \* history: the writes done when a stream was submitted

lifeVars  == <<mode, starts, wg>>
stopVars  == <<stopping, sweep>>
callVars  == <<submits, call, accepted, acked>>
execVars  == <<cur, at>>
lockVars  == <<readers, wlock>>
dataVars  == <<facts, links, result, err>>
ctlVars   == <<lifeVars, chan, callVars, stopVars, pc>>              \* not execute's
runVars   == <<lifeVars, stopVars, pc, execVars, lockVars, dataVars, done>>  \* not Submit's
workVars  == <<chan, callVars, execVars, lockVars, dataVars, done>>  \* not Stop's
vars == <<mode, starts, chan, submits, wg, stopping, sweep, call, pc,
          cur, at, readers, wlock, facts, links, result, err, done, accepted,
          acked>>

Returned == {"accepted", "ErrShutdown", "ErrEnqueueStream", "ErrQueueFull"}
Snapshots == [facts : Seq(Writes), links : Seq(Writes)]
NoSnapshot == [facts |-> <<>>, links |-> <<>>]

TypeOK ==
    /\ mode \in {"down", "up", "closing"}
    /\ starts \in 0 .. MaxStarts
    /\ chan \in [Queues -> Seq(Streams)]
    /\ submits \subseteq Streams
    /\ wg \subseteq Workers \cup Graphs
    /\ stopping \in Stoppers \cup {None}
    /\ sweep \in -1 .. NumGraphs
    /\ call \in [Streams -> {"idle", "parked"} \cup Returned]
    /\ pc \in [Executors -> {"off", "select", "wait", "close", "submits", "wg",
                             "drain", "returned"}]
    /\ cur \in [Executors -> Streams \cup {None}]
    /\ at \in [Executors -> {"idle", "select", "acquire", "announced", "commit",
                             "link", "release", "finish"}]
    /\ readers \in [Graphs -> SUBSET (Executors \cup Pollers)]
    /\ wlock \in [Graphs -> Executors \cup {None}]
    /\ facts \in [Graphs -> Seq(Writes)]
    /\ links \in [Graphs -> Seq(Writes)]
    /\ result \in [Streams -> Snapshots]
    /\ err \in [Streams -> {"none", "ok", "ErrIndexOutOfBounds", "ErrStreamCommit"}]
    /\ done \subseteq Streams
    /\ accepted \in [Queues -> Seq(Streams)]
    /\ acked \in [Streams -> SUBSET Writes]

Init ==
    /\ mode = "down" /\ starts = 0
    /\ chan = [q \in Queues |-> <<>>]
    /\ submits = {} /\ wg = {}
    /\ stopping = None /\ sweep = ReadQueue
    /\ call = [s \in Streams |-> "idle"]
    /\ pc = [e \in Executors |-> "off"]
    /\ cur = [e \in Executors |-> None]
    /\ at = [e \in Executors |-> "idle"]
    /\ readers = [g \in Graphs |-> {}]
    /\ wlock = [g \in Graphs |-> None]
    /\ facts = [g \in Graphs |-> <<>>]
    /\ links = [g \in Graphs |-> <<>>]
    /\ result = [s \in Streams |-> NoSnapshot]
    /\ err = [s \in Streams |-> "none"]
    /\ done = {}
    /\ accepted = [q \in Queues |-> <<>>]
    /\ acked = [s \in Streams |-> {}]

-----------------------------------------------------------------------------
(* Start: fresh queues under mu, then one worker per slot of the pool and   *)
(* one writer per lane.  Submits may come in while these are launched.      *)
(*                                                                         *)
(* Start has no guard of its own against a scheduler that runs, and none    *)
(* against a Stop that comes while it launches: its one caller starts once, *)
(* and stops once Start has returned.  The guards here are that order of    *)
(* calls.  Without a database Start returns ErrNoDatabase, a stutter.       *)

Launched == wg = Workers \cup Graphs
StopsUnderWay == {p \in Stoppers : pc[p] \notin {"off", "returned"}}

Start ==
    /\ mode = "down" /\ StopsUnderWay = {}
    /\ starts < MaxStarts
    /\ mode' = "up"
    /\ starts' = starts + 1
    /\ chan' = [q \in Queues |-> <<>>]
    /\ UNCHANGED <<wg, pc, stopVars, callVars, execVars, lockVars, dataVars, done>>

StartWorker(e) ==
    /\ e \in Workers \cup Graphs
    /\ mode = "up" /\ pc[e] = "off"
    /\ wg' = wg \cup {e}
    /\ pc' = [pc EXCEPT ![e] = "select"]
    /\ UNCHANGED <<mode, starts, workVars, stopVars>>

-----------------------------------------------------------------------------
(* Submit.                                                                 *)

\* The queue a stream goes to.  A write past the last graph has no lane.
QueueOf(s) ==
    IF s \in Writes /\ GraphID[s] < NumGraphs THEN GraphID[s] ELSE ReadQueue

\* Submit up to RUnlock when the scheduler takes no work.
SubmitRefused(s) ==
    /\ call[s] = "idle"
    /\ mode # "up"
    /\ call' = [call EXCEPT ![s] = "ErrShutdown"]
    /\ UNCHANGED <<runVars, chan, submits, accepted, acked>>

\* Submit up to RUnlock otherwise: it is counted while mu is held, and then
\* parks on its queue.
SubmitCounted(s) ==
    /\ call[s] = "idle"
    /\ mode = "up"
    /\ submits' = submits \cup {s}
    /\ call' = [call EXCEPT ![s] = "parked"]
    /\ acked' = [acked EXCEPT ![s] = Writes \cap done]
    /\ UNCHANGED <<runVars, chan, accepted>>

\* A parked Submit returns, which takes it out of the WaitGroup.
Return(s, outcome) ==
    /\ call[s] = "parked"
    /\ call' = [call EXCEPT ![s] = outcome]
    /\ submits' = submits \ {s}

\* The four cases of Submit's select.  Go picks any that is ready, so a stream
\* may still be enqueued after quit is closed, as long as there is room.
Enqueue(s) ==
    /\ Len(chan[QueueOf(s)]) < BufferSize
    /\ Return(s, "accepted")
    /\ chan' = [chan EXCEPT ![QueueOf(s)] = Append(@, s)]
    /\ accepted' = [accepted EXCEPT ![QueueOf(s)] = Append(@, s)]
    /\ UNCHANGED <<runVars, acked>>

SubmitQuit(s) ==
    /\ mode # "up"
    /\ Return(s, "ErrShutdown")
    /\ UNCHANGED <<runVars, chan, accepted, acked>>

\* The caller's context ends: whenever the client likes.
SubmitCancelled(s) ==
    /\ Return(s, "ErrEnqueueStream")
    /\ UNCHANGED <<runVars, chan, accepted, acked>>

SubmitTimeoutAfterSend(s) ==     \* faulty: the stream was sent all the same
    /\ Len(chan[QueueOf(s)]) < BufferSize
    /\ Return(s, "ErrQueueFull")
    /\ chan' = [chan EXCEPT ![QueueOf(s)] = Append(@, s)]
    /\ UNCHANGED <<runVars, accepted, acked>>

\* EnqueueTimeout lapses: some time after the Submit parked.
SubmitTimeout(s) ==
    /\ Return(s, "ErrQueueFull")
    /\ UNCHANGED <<runVars, chan, accepted, acked>>

SubmitSelect(s) ==
    Enqueue(s) \/ SubmitQuit(s) \/ SubmitCancelled(s) \/ SubmitTimeout(s)

Submit(s) == SubmitRefused(s) \/ SubmitCounted(s) \/ SubmitSelect(s)

-----------------------------------------------------------------------------
(* worker and drain.                                                       *)

\* The queue an executor receives from.
Source(e) ==
    CASE e \in Workers -> ReadQueue
      [] e \in Graphs -> e
      [] OTHER -> sweep

\* A receive, by worker's select or by drain's.
Receive(e) ==
    /\ \/ e \in Workers \cup Graphs /\ pc[e] \in {"select", "drain"}
       \/ e \in Stoppers /\ pc[e] = "drain" /\ sweep < NumGraphs
    /\ at[e] = "idle"
    /\ chan[Source(e)] # <<>>
    /\ cur' = [cur EXCEPT ![e] = Head(chan[Source(e)])]
    /\ at' = [at EXCEPT ![e] = "select"]
    /\ chan' = [chan EXCEPT ![Source(e)] = Tail(@)]
    /\ UNCHANGED <<lifeVars, callVars, stopVars, pc, lockVars, dataVars, done>>

\* worker's select sees quit closed.
WorkerQuit(e) ==
    /\ e \in Workers \cup Graphs
    /\ pc[e] = "select" /\ at[e] = "idle"
    /\ mode # "up"
    /\ pc' = [pc EXCEPT ![e] = "drain"]
    /\ UNCHANGED <<lifeVars, workVars, stopVars>>

WorkerExitUncounted(e) ==        \* faulty: no wg.Done
    /\ e \in Workers \cup Graphs
    /\ pc[e] = "drain" /\ at[e] = "idle"
    /\ chan[Source(e)] = <<>>
    /\ pc' = [pc EXCEPT ![e] = "off"]
    /\ UNCHANGED <<lifeVars, workVars, stopVars>>

\* worker's drain finds its queue empty: the goroutine ends.
WorkerExit(e) ==
    /\ e \in Workers \cup Graphs
    /\ pc[e] = "drain" /\ at[e] = "idle"
    /\ chan[Source(e)] = <<>>
    /\ pc' = [pc EXCEPT ![e] = "off"]
    /\ wg' = wg \ {e}
    /\ UNCHANGED <<mode, starts, workVars, stopVars>>

-----------------------------------------------------------------------------
(* Stop.                                                                   *)

\* Whoever calls Stop does so after Start has returned, or without a Start.
StopCall(p) ==
    /\ pc[p] = "off"
    /\ mode = "up" => Launched
    /\ pc' = [pc EXCEPT ![p] = "wait"]
    /\ UNCHANGED <<lifeVars, workVars, stopVars>>

StopReturnsAtOnce(p) ==          \* faulty: leaves the work to the Stop under way
    /\ pc[p] = "wait"
    /\ stopping' = IF stopping = None THEN p ELSE stopping
    /\ pc' = [pc EXCEPT ![p] = IF stopping = None THEN "close" ELSE "returned"]
    /\ UNCHANGED <<lifeVars, workVars, sweep>>

StopLock(p) ==
    /\ pc[p] = "wait"
    /\ stopping = None
    /\ stopping' = p
    /\ pc' = [pc EXCEPT ![p] = "close"]
    /\ UNCHANGED <<lifeVars, workVars, sweep>>

\* A scheduler that is down: nothing to stop.
StopIdle(p) ==
    /\ pc[p] = "close"
    /\ mode = "down"
    /\ stopping' = None
    /\ pc' = [pc EXCEPT ![p] = "returned"]
    /\ UNCHANGED <<lifeVars, workVars, sweep>>

StopClose(p) ==
    /\ pc[p] = "close"
    /\ mode # "down"
    /\ mode' = "closing"
    /\ pc' = [pc EXCEPT ![p] = "submits"]
    /\ UNCHANGED <<starts, wg, workVars, stopVars>>

StopSubmitsSkipped(p) ==         \* faulty: no submits.Wait
    /\ pc[p] = "submits"
    /\ pc' = [pc EXCEPT ![p] = "wg"]
    /\ UNCHANGED <<lifeVars, workVars, stopVars>>

StopSubmitsWait(p) ==
    /\ pc[p] = "submits"
    /\ submits = {}
    /\ pc' = [pc EXCEPT ![p] = "wg"]
    /\ UNCHANGED <<lifeVars, workVars, stopVars>>

StopWorkersSkipped(p) ==         \* faulty: no wg.Wait
    /\ pc[p] = "wg"
    /\ pc' = [pc EXCEPT ![p] = "drain"]
    /\ sweep' = ReadQueue
    /\ UNCHANGED <<lifeVars, workVars, stopping>>

StopWorkersWait(p) ==
    /\ pc[p] = "wg"
    /\ wg = {}
    /\ pc' = [pc EXCEPT ![p] = "drain"]
    /\ sweep' = ReadQueue
    /\ UNCHANGED <<lifeVars, workVars, stopping>>

\* The queue being swept is empty: on to the next one.
StopNextQueue(p) ==
    /\ pc[p] = "drain" /\ at[p] = "idle"
    /\ sweep < NumGraphs
    /\ chan[sweep] = <<>>
    /\ sweep' = sweep + 1
    /\ UNCHANGED <<lifeVars, workVars, stopping, pc>>

StopClear(p) ==
    /\ pc[p] = "drain"
    /\ sweep = NumGraphs
    /\ mode' = "down"
    /\ stopping' = None
    /\ pc' = [pc EXCEPT ![p] = "returned"]
    /\ UNCHANGED <<starts, wg, workVars, sweep>>

Stop(p) ==
    \/ StopLock(p) \/ StopIdle(p) \/ StopClose(p) \/ StopSubmitsWait(p)
    \/ StopWorkersWait(p) \/ StopNextQueue(p) \/ StopClear(p)

-----------------------------------------------------------------------------
(* execute: Select, Acquire, Commit, Release, Finish.                      *)

Goto(e, next) == at' = [at EXCEPT ![e] = next]

Graph(e) == GraphID[cur[e]]

SelectGraphFinishes(e) ==        \* faulty: Finish is not deferred
    /\ at[e] = "select"
    /\ Graph(e) \in Graphs
    /\ Goto(e, "acquire")
    /\ done' = done \cup {cur[e]}
    /\ UNCHANGED <<ctlVars, cur, lockVars, dataVars>>

SelectGraph(e) ==
    /\ at[e] = "select"
    /\ Graph(e) \in Graphs
    /\ Goto(e, "acquire")
    /\ UNCHANGED <<ctlVars, cur, lockVars, dataVars, done>>

\* Select fails the stream when its selector is out of range.
SelectOutOfBounds(e) ==
    /\ at[e] = "select"
    /\ Graph(e) \notin Graphs
    /\ err' = [err EXCEPT ![cur[e]] = "ErrIndexOutOfBounds"]
    /\ Goto(e, "finish")
    /\ UNCHANGED <<ctlVars, cur, lockVars, facts, links, result, done>>

AcquireReadUnlocked(e) ==        \* faulty: no RLock
    /\ at[e] = "acquire" /\ cur[e] \notin Writes
    /\ Goto(e, "commit")
    /\ UNCHANGED <<ctlVars, cur, lockVars, dataVars, done>>

\* RLock: held back by a writer that holds the mutex or waits for it.
AcquireRead(e) ==
    /\ at[e] = "acquire" /\ cur[e] \notin Writes
    /\ wlock[Graph(e)] = None
    /\ readers' = [readers EXCEPT ![Graph(e)] = @ \cup {e}]
    /\ Goto(e, "commit")
    /\ UNCHANGED <<ctlVars, cur, wlock, dataVars, done>>

\* Lock: first shut out new readers and other writers, then wait for the
\* readers already in.
AnnounceWrite(e) ==
    /\ at[e] = "acquire" /\ cur[e] \in Writes
    /\ wlock[Graph(e)] = None
    /\ wlock' = [wlock EXCEPT ![Graph(e)] = e]
    /\ Goto(e, "announced")
    /\ UNCHANGED <<ctlVars, cur, readers, dataVars, done>>

AcquireWriteEarly(e) ==          \* faulty: does not wait for the readers
    /\ at[e] = "announced"
    /\ Goto(e, "commit")
    /\ UNCHANGED <<ctlVars, cur, lockVars, dataVars, done>>

AcquireWrite(e) ==
    /\ at[e] = "announced"
    /\ readers[Graph(e)] = {}
    /\ Goto(e, "commit")
    /\ UNCHANGED <<ctlVars, cur, lockVars, dataVars, done>>

\* A read's Commit: Search, on the graph as it is.
CommitRead(e) ==
    /\ at[e] = "commit" /\ cur[e] \notin Writes
    /\ result' = [result EXCEPT ![cur[e]] = [facts |-> facts[Graph(e)],
                                             links |-> links[Graph(e)]]]
    /\ err' = [err EXCEPT ![cur[e]] = "ok"]
    /\ Goto(e, "release")
    /\ UNCHANGED <<ctlVars, cur, lockVars, facts, links, done>>

\* The vector has the wrong dimension: a read fails, and a write fails before
\* it has touched the graph.
CommitRejected(e) ==
    /\ at[e] = "commit"
    /\ err' = [err EXCEPT ![cur[e]] = "ErrStreamCommit"]
    /\ Goto(e, "release")
    /\ UNCHANGED <<ctlVars, cur, lockVars, facts, links, result, done>>

\* A write's Commit stores the fact, and then the anchors and their edges.
CommitFact(e) ==
    /\ at[e] = "commit" /\ cur[e] \in Writes
    /\ facts' = [facts EXCEPT ![Graph(e)] = Append(@, cur[e])]
    /\ Goto(e, "link")
    /\ UNCHANGED <<ctlVars, cur, lockVars, links, result, err, done>>

CommitAnchorsOnCopy(e) ==        \* faulty: commits on a copy of the empty graph
    /\ at[e] = "link"
    /\ links' = [links EXCEPT ![Graph(e)] = <<cur[e]>>]
    /\ err' = [err EXCEPT ![cur[e]] = "ok"]
    /\ Goto(e, "release")
    /\ UNCHANGED <<ctlVars, cur, lockVars, facts, result, done>>

CommitAnchors(e) ==
    /\ at[e] = "link"
    /\ links' = [links EXCEPT ![Graph(e)] = Append(@, cur[e])]
    /\ err' = [err EXCEPT ![cur[e]] = "ok"]
    /\ Goto(e, "release")
    /\ UNCHANGED <<ctlVars, cur, lockVars, facts, result, done>>

\* The deferred Release runs before the deferred Finish.
Release(e) ==
    /\ at[e] = "release"
    /\ IF cur[e] \in Writes
         THEN wlock' = [wlock EXCEPT ![Graph(e)] = None] /\ UNCHANGED readers
         ELSE readers' = [readers EXCEPT ![Graph(e)] = @ \ {e}] /\ UNCHANGED wlock
    /\ Goto(e, "finish")
    /\ UNCHANGED <<ctlVars, cur, dataVars, done>>

FinishAgain(e) ==                \* faulty: the executor does not move on
    /\ at[e] = "finish"
    /\ done' = done \cup {cur[e]}
    /\ cur' = [cur EXCEPT ![e] = None]
    /\ UNCHANGED <<ctlVars, at, lockVars, dataVars>>

Finish(e) ==
    /\ at[e] = "finish"
    /\ done' = done \cup {cur[e]}
    /\ cur' = [cur EXCEPT ![e] = None]
    /\ Goto(e, "idle")
    /\ UNCHANGED <<ctlVars, lockVars, dataVars>>

Execute(e) ==
    \/ SelectGraph(e) \/ SelectOutOfBounds(e)
    \/ AcquireRead(e) \/ AnnounceWrite(e) \/ AcquireWrite(e)
    \/ CommitRead(e) \/ CommitRejected(e) \/ CommitFact(e) \/ CommitAnchors(e)
    \/ Release(e) \/ Finish(e)

-----------------------------------------------------------------------------

\* One step of an executor's goroutine.
Run(e) == Receive(e) \/ WorkerQuit(e) \/ WorkerExit(e) \/ Execute(e)

\* Nothing is left to do: every client was answered and every Stop returned.
AllQuiet ==
    /\ \A s \in Streams : call[s] \in Returned
    /\ \A q \in Queues : chan[q] = <<>>
    /\ \A p \in Stoppers : pc[p] = "returned"
    /\ \A e \in Executors : at[e] = "idle" /\ pc[e] # "drain"
    /\ UNCHANGED vars

Next ==
    \/ Start
    \/ \E e \in Executors : StartWorker(e)
    \/ \E s \in Streams : Submit(s)
    \/ \E p \in Stoppers : StopCall(p) \/ Stop(p)
    \/ \E e \in Executors : Run(e)
    \/ AllQuiet

Spec == Init /\ [][Next]_vars

-----------------------------------------------------------------------------
(* Safety.                                                                 *)

Queued(s) == \E q \in Queues : \E i \in 1 .. Len(chan[q]) : chan[q][i] = s
Executing(s) == \E e \in Executors : cur[e] = s

(* Work that Submit accepted is run once, and work it refused is never run: *)
(* a stream is queued, executing or done exactly when Submit returned nil,  *)
(* never two of these, never twice.  It is what lets the handler wait on    *)
(* Done after a nil and makes a 429 or a 503 safe to retry.                 *)
AcceptedOnce ==
    /\ \A s \in Streams :
         /\ (call[s] = "accepted") <=> (Queued(s) \/ Executing(s) \/ s \in done)
         /\ ~(Queued(s) /\ Executing(s))
         /\ s \in done => ~Queued(s) /\ ~Executing(s)
    /\ \A q \in Queues : \A i, j \in 1 .. Len(chan[q]) :
         chan[q][i] = chan[q][j] => i = j
    /\ \A e, f \in Executors : cur[e] = cur[f] /\ cur[e] # None => e = f

(* Once Stop has cleared the scheduler, every stream ever accepted is done  *)
(* and no goroutine touches a graph, so the caller may drop the database:   *)
(* stragglers enqueued behind the last worker's back are not lost.          *)
StopLosesNothing ==
    mode = "down" =>
        /\ \A s \in Streams : call[s] = "accepted" => s \in done
        /\ \A e \in Executors : at[e] = "idle"

(* Stop's own drain is single-threaded: while Stop executes a straggler no  *)
(* worker, no writer and no other Stop executes anything.                   *)
DrainIsAlone ==
    \A p \in Stoppers : at[p] # "idle" =>
        \A e \in Executors \ {p} : at[e] = "idle"

(* Concurrent Stops never close the quit channel twice, which would panic,  *)
(* and none of them returns before the scheduler is down: the caller of the *)
(* second goes on to empty the database, so it must wait for the first to   *)
(* have drained.                                                            *)
StopsTakeTurns ==
    [][\A p \in Stoppers :
          /\ pc[p] = "close" /\ pc'[p] = "submits" => mode = "up"
          /\ pc[p] # "returned" /\ pc'[p] = "returned" => mode' = "down"]_vars

(* Writes to one graph are applied in the order its lane accepted them,     *)
(* whoever runs them: the lane's writer, the next start's, or Stop.         *)
AcceptedBefore(g, v, w) ==
    \E i, j \in 1 .. Len(accepted[g]) : i < j /\ accepted[g][i] = v /\ accepted[g][j] = w

LaneOrder ==
    \A g \in Graphs : \A i, j \in 1 .. Len(facts[g]) :
        i < j => AcceptedBefore(g, facts[g][i], facts[g][j])

(* The graph's lock: a writer that is past AcquireWrite is alone.           *)
Holds(e) == at[e] \in {"commit", "link", "release"}

WriterIsAlone ==
    \A e, f \in Executors :
        /\ e # f /\ Holds(e) /\ Holds(f)
        /\ Graph(e) = Graph(f)
        => cur[e] \notin Writes /\ cur[f] \notin Writes

(* A read never sees the middle of a write: what it found holds the anchors *)
(* of exactly the facts it holds.                                           *)
NoTornRead ==
    \A s \in Streams \ Writes : result[s].facts = result[s].links

(* An acknowledged write is visible to every request sent after the         *)
(* acknowledgement: a read finds every write that was done, without an      *)
(* error, when the read was submitted.                                      *)
AckedWritesVisible ==
    \A s \in Streams \ Writes : err[s] = "ok" =>
        \A w \in acked[s] :
            err[w] = "ok" /\ GraphID[w] = GraphID[s] =>
                \E i \in 1 .. Len(result[s].links) : result[s].links[i] = w

-----------------------------------------------------------------------------
(* The inductive invariant behind the safety properties.                   *)

\* What an executor holds at each point of execute.
ExecInv ==
    \A e \in Executors :
        /\ (at[e] = "idle") <=> (cur[e] = None)
        /\ at[e] \in {"acquire", "announced", "commit", "link", "release"} =>
             Graph(e) \in Graphs
        /\ at[e] \in {"announced", "link"} => cur[e] \in Writes

\* The lock's words say who holds it.
LockInv ==
    \A e \in Executors : \A g \in Graphs :
        /\ e \in readers[g] <=>
             Holds(e) /\ cur[e] \notin Writes /\ Graph(e) = g
        /\ wlock[g] = e <=>
             (Holds(e) \/ at[e] = "announced") /\ cur[e] \in Writes /\ Graph(e) = g
        /\ wlock[g] = e /\ Holds(e) => readers[g] = {}

\* How far Stop has come, and what it may rely on by then.
StopInv ==
    /\ \A s \in Streams : s \in submits <=> call[s] = "parked"
    /\ \A e \in Workers \cup Graphs :
         /\ e \in wg <=> pc[e] \in {"select", "drain"}
         /\ e \notin wg => at[e] = "idle"
    /\ \A p \in Stoppers :
         /\ stopping = p <=> pc[p] \in {"close", "submits", "wg", "drain"}
         /\ pc[p] \in {"submits", "wg", "drain"} => mode = "closing"
         /\ pc[p] = "close" => mode # "closing"
         /\ pc[p] \in {"wg", "drain"} => submits = {}
         /\ pc[p] = "drain" => wg = {}
         /\ pc[p] = "drain" => \A q \in Queues : q < sweep => chan[q] = <<>>
         /\ at[p] # "idle" => pc[p] = "drain" /\ sweep < NumGraphs
    /\ mode = "closing" =>
         \E p \in Stoppers : pc[p] \in {"submits", "wg", "drain"}
    /\ mode = "down" =>
         /\ submits = {} /\ wg = {}
         /\ \A q \in Queues : chan[q] = <<>>

\* AcceptedOnce, with every queued stream in the queue it belongs to.
OnceInv ==
    /\ AcceptedOnce
    /\ \A q \in Queues : \A i \in 1 .. Len(chan[q]) : QueueOf(chan[q][i]) = q

\* Facts and anchors differ by the write that is between the two, if any.
CommitInv ==
    /\ \A e \in Executors : at[e] = "link" =>
         facts[Graph(e)] = Append(links[Graph(e)], cur[e])
    /\ \A g \in Graphs :
         (\A e \in Executors : ~(at[e] = "link" /\ Graph(e) = g)) => facts[g] = links[g]

\* A queue holds the tail of what it accepted.  What a lane has let go of is in
\* the hands of its writer, or of Stop, and was committed in that order: the
\* one being executed is the last one taken, after every fact of the graph.
Taken(q) == Len(accepted[q]) - Len(chan[q])

FactsWithin(g, n) ==
    \A i \in 1 .. Len(facts[g]) : \E k \in 1 .. n : accepted[g][k] = facts[g][i]

LaneInv ==
    /\ \A q \in Queues :
         /\ Taken(q) >= 0
         /\ \A i \in 1 .. Len(chan[q]) : chan[q][i] = accepted[q][Taken(q) + i]
    /\ \A g \in Graphs : FactsWithin(g, Taken(g))
    /\ \A e \in Executors : \A g \in Graphs : cur[e] # None /\ QueueOf(cur[e]) = g =>
         /\ e \in Stoppers \cup {g}
         /\ at[e] \in {"select", "acquire", "announced", "commit"} =>
              /\ Taken(g) >= 1 /\ accepted[g][Taken(g)] = cur[e]
              /\ FactsWithin(g, Taken(g) - 1)
    /\ LaneOrder

\* A stream has an outcome from its Commit, or its failed Select, onwards.
OutcomeInv ==
    \A s \in Streams : err[s] # "none" <=>
        \/ s \in done
        \/ \E e \in Executors : cur[e] = s /\ at[e] \in {"release", "finish"}

\* A write is in its graph exactly when it ended without an error, and what was
\* acknowledged before a stream was submitted is final.
VisibleInv ==
    /\ \A s \in Streams : acked[s] \subseteq done
    /\ \A w \in Writes : err[w] = "ok" =>
         /\ GraphID[w] \in Graphs
         /\ \E i \in 1 .. Len(links[GraphID[w]]) : links[GraphID[w]][i] = w
    /\ \A g \in Graphs : \A i \in 1 .. Len(links[g]) : err[links[g][i]] = "ok"
    /\ AckedWritesVisible

-----------------------------------------------------------------------------
(* Refinement.  Seen from outside, a write takes effect when its anchors    *)
(* are linked and a read when it searches; both while the graph is locked.  *)

Phase(s) ==
    CASE call[s] = "idle" -> "new"
      [] call[s] \in Returned \ {"accepted"} -> "refused"
      [] OTHER ->
           CASE err[s] = "none" -> "called"
             [] err[s] = "ok" -> IF s \in done THEN "answered" ELSE "applied"
             [] OTHER -> IF s \in done THEN "error" ELSE "failed"

Service == INSTANCE MemoryService WITH
    Requests <- Streams,
    GraphOf <- GraphID,
    phase <- [s \in Streams |-> Phase(s)],
    store <- links,
    found <- [s \in Streams |-> result[s].facts]

(* The scheduler implements the atomic memory service: whatever the         *)
(* interleaving of submits, workers, writers and Stop, clients see requests *)
(* that take effect one at a time, between call and answer.                 *)
ImplementsService == Service!Spec
=============================================================================
