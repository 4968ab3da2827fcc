-------------------------- MODULE SchedulerProofs --------------------------
(* Proofs about Scheduler, for every set of streams, workers and graphs.   *)
EXTENDS Scheduler, TLAPS

TypeInv == TypeOK /\ ExecInv

USE ConstantsAssumption, DistinctGoroutines

\* Submit always picks a queue that exists: a lane, or the read queue for a
\* read and for a write past the last graph.
LEMMA QueueOfType == \A s \in Streams : QueueOf(s) \in Queues
  BY DEF QueueOf, Queues, Graphs

\* Queues are numbered from the read queue, -1, to the last lane.
LEMMA QueueRange == \A q \in Queues : q \in Int /\ q < NumGraphs
  BY DEF Queues, Graphs, ReadQueue

\* Each goroutine receives from a queue that exists.
LEMMA SourceType ==
  ASSUME TypeOK, NEW e \in Executors,
         e \in Stoppers => sweep < NumGraphs
  PROVE  Source(e) \in Queues
  BY DEF TypeOK, Source, Queues, Graphs, Executors, ReadQueue

\* A new scheduler is well typed.
LEMMA TypeInvInit == Init => TypeInv
<1> SUFFICES ASSUME Init PROVE TypeInv
  OBVIOUS
<1> USE DEF Init
<1>1. starts \in 0 .. MaxStarts
  OBVIOUS
<1>2. chan \in [Queues -> Seq(Streams)] /\ accepted \in [Queues -> Seq(Streams)]
  OBVIOUS
<1>3. sweep \in -1 .. NumGraphs /\ stopping \in Stoppers \cup {None}
  BY DEF ReadQueue
<1>4. /\ facts \in [Graphs -> Seq(Writes)] /\ links \in [Graphs -> Seq(Writes)]
      /\ readers \in [Graphs -> SUBSET (Executors \cup Pollers)]
      /\ wlock \in [Graphs -> Executors \cup {None}]
  OBVIOUS
<1>5. result \in [Streams -> Snapshots]
  BY DEF Snapshots, NoSnapshot
<1>6. ExecInv
  BY DEF ExecInv
<1> QED
  BY <1>1, <1>2, <1>3, <1>4, <1>5, <1>6 DEF TypeInv, TypeOK

\* Every operation keeps the types, and keeps a stream in the hands of an
\* executor for as long as execute needs it.
LEMMA TypeInvStep == TypeInv /\ [Next]_vars => TypeInv'
<1> SUFFICES ASSUME TypeInv, [Next]_vars PROVE TypeInv'
  OBVIOUS
<1> USE DEF TypeInv, TypeOK, ExecInv, Graph, lifeVars, stopVars, callVars, execVars,
            lockVars, dataVars, ctlVars, runVars, workVars
<1>1. CASE Start
  BY <1>1 DEF Start
<1>6. ASSUME NEW e \in Executors, StartWorker(e) PROVE TypeInv'
  BY <1>6 DEF StartWorker
<1>2. ASSUME NEW s \in Streams, Submit(s) PROVE TypeInv'
  <2> USE DEF Returned
  <2>1. CASE SubmitRefused(s)
    BY <2>1 DEF SubmitRefused
  <2>2. CASE SubmitCounted(s)
    BY <2>2 DEF SubmitCounted
  <2>3. CASE Enqueue(s)
    BY <2>3, QueueOfType DEF Enqueue, Return
  <2>4. CASE SubmitQuit(s)
    BY <2>4 DEF SubmitQuit, Return
  <2>5. CASE SubmitCancelled(s)
    BY <2>5 DEF SubmitCancelled, Return
  <2>6. CASE SubmitTimeout(s)
    BY <2>6 DEF SubmitTimeout, Return
  <2> QED
    BY <1>2, <2>1, <2>2, <2>3, <2>4, <2>5, <2>6 DEF Submit, SubmitSelect
<1>3. ASSUME NEW p \in Stoppers, StopCall(p) \/ Stop(p) PROVE TypeInv'
  <2> p \in Executors
    BY DEF Executors
  <2>1. CASE StopCall(p)
    BY <2>1 DEF StopCall
  <2>2. CASE StopLock(p)
    BY <2>2 DEF StopLock
  <2>3. CASE StopIdle(p)
    BY <2>3 DEF StopIdle
  <2>4. CASE StopClose(p)
    BY <2>4 DEF StopClose
  <2>5. CASE StopSubmitsWait(p)
    BY <2>5 DEF StopSubmitsWait
  <2>6. CASE StopWorkersWait(p)
    BY <2>6 DEF StopWorkersWait, ReadQueue
  <2>7. CASE StopNextQueue(p)
    BY <2>7 DEF StopNextQueue
  <2>8. CASE StopClear(p)
    BY <2>8 DEF StopClear
  <2> QED
    BY <1>3, <2>1, <2>2, <2>3, <2>4, <2>5, <2>6, <2>7, <2>8 DEF Stop
<1>4. ASSUME NEW e \in Executors, Run(e) PROVE TypeInv'
  <2>1. CASE Receive(e)
    <3>1. Source(e) \in Queues
      BY <2>1, SourceType DEF Receive, Executors
    <3>2. chan[Source(e)] \in Seq(Streams) /\ chan[Source(e)] # <<>>
      BY <2>1, <3>1 DEF Receive
    <3>3. /\ Head(chan[Source(e)]) \in Streams
          /\ Tail(chan[Source(e)]) \in Seq(Streams)
      BY <3>2
    <3> QED
      BY <2>1, <3>1, <3>3 DEF Receive
  <2>2. CASE WorkerQuit(e)
    BY <2>2 DEF WorkerQuit
  <2>3. CASE WorkerExit(e)
    BY <2>3 DEF WorkerExit
  <2>4. CASE SelectGraph(e)
    BY <2>4 DEF SelectGraph, Goto
  <2>14. CASE SelectOutOfBounds(e)
    BY <2>14 DEF SelectOutOfBounds, Goto
  <2>5. CASE AcquireRead(e)
    BY <2>5 DEF AcquireRead, Goto
  <2>6. CASE AnnounceWrite(e)
    BY <2>6 DEF AnnounceWrite, Goto
  <2>7. CASE AcquireWrite(e)
    BY <2>7 DEF AcquireWrite, Goto
  <2>8. CASE CommitRead(e)
    BY <2>8 DEF CommitRead, Goto, Snapshots
  <2>9. CASE CommitRejected(e)
    BY <2>9 DEF CommitRejected, Goto
  <2>10. CASE CommitFact(e)
    BY <2>10 DEF CommitFact, Goto
  <2>11. CASE CommitAnchors(e)
    BY <2>11 DEF CommitAnchors, Goto
  <2>12. CASE Release(e)
    <3>1. wlock' \in [Graphs -> Executors \cup {None}]
      <4>1. wlock' = wlock \/ wlock' = [wlock EXCEPT ![Graph(e)] = None]
        BY <2>12 DEF Release
      <4> QED
        BY <4>1
    <3>2. readers' \in [Graphs -> SUBSET (Executors \cup Pollers)]
      <4>1. CASE cur[e] \in Writes
        BY <2>12, <4>1 DEF Release
      <4>2. CASE cur[e] \notin Writes
        <5>1. readers' = [readers EXCEPT ![Graph(e)] = @ \ {e}]
          BY <2>12, <4>2 DEF Release
        <5>2. \A g \in Graphs : readers[g] \ {e} \in SUBSET (Executors \cup Pollers)
          OBVIOUS
        <5> QED
          BY <5>1, <5>2
      <4> QED
        BY <4>1, <4>2
    <3>3. at' = [at EXCEPT ![e] = "finish"] /\ UNCHANGED <<ctlVars, cur, dataVars, done>>
      BY <2>12 DEF Release, Goto
    <3> QED
      BY <2>12, <3>1, <3>2, <3>3 DEF Release
  <2>13. CASE Finish(e)
    BY <2>13 DEF Finish, Goto
  <2> QED
    BY <1>4, <2>1, <2>2, <2>3, <2>4, <2>5, <2>6, <2>7, <2>8, <2>9,
       <2>10, <2>11, <2>12, <2>13, <2>14 DEF Run, Execute
<1>5. CASE UNCHANGED vars
  BY <1>5 DEF vars
<1> QED
  BY <1>1, <1>2, <1>3, <1>4, <1>5, <1>6 DEF Next, AllQuiet

\* Only a receive and the steps of execute move an executor or its lock.
LEMMA QuietSteps ==
  ASSUME [Next]_vars
  PROVE  \/ UNCHANGED <<cur, at, readers, wlock, facts, links, result, err, done>>
         \/ \E e \in Executors : Receive(e) \/ Execute(e)
  BY DEF Next, Start, StartWorker, Submit, SubmitRefused, SubmitCounted, SubmitSelect, Enqueue,
         SubmitQuit, SubmitCancelled, SubmitTimeout, StopCall, Stop, StopLock, StopIdle,
         StopClose, StopSubmitsWait, StopWorkersWait, StopNextQueue, StopClear, Run,
         WorkerQuit, WorkerExit, AllQuiet, vars, lifeVars, execVars, lockVars, dataVars,
         runVars, workVars

-----------------------------------------------------------------------------
(* The graph's lock.                                                       *)

\* Nobody holds a graph's lock at first.
LEMMA LockInvInit == Init => LockInv
  BY DEF Init, LockInv, Holds

\* Acquire and Release keep the lock's books: who is past Acquire holds the
\* lock, and only they do.
LEMMA LockInvStep == TypeInv /\ LockInv /\ [Next]_vars => LockInv'
<1> SUFFICES ASSUME TypeInv, LockInv, [Next]_vars PROVE LockInv'
  OBVIOUS
<1> USE DEF LockInv, Holds, Graph
<1>1. CASE UNCHANGED <<cur, at, readers, wlock>>
  BY <1>1
<1>2. ASSUME NEW e \in Executors, Receive(e) \/ Execute(e) PROVE LockInv'
  <2> USE DEF TypeInv, TypeOK, ExecInv, lockVars, ctlVars
  <2>1. CASE Receive(e)
    BY <2>1 DEF Receive
  <2>2. CASE SelectGraph(e)
    BY <2>2 DEF SelectGraph, Goto
  <2>3. CASE SelectOutOfBounds(e)
    BY <2>3 DEF SelectOutOfBounds, Goto
  <2>4. CASE AcquireRead(e)
    BY <2>4 DEF AcquireRead, Goto
  <2>5. CASE AnnounceWrite(e)
    BY <2>5 DEF AnnounceWrite, Goto
  <2>6. CASE AcquireWrite(e)
    BY <2>6 DEF AcquireWrite, Goto
  <2>7. CASE CommitRead(e)
    BY <2>7 DEF CommitRead, Goto
  <2>8. CASE CommitRejected(e)
    BY <2>8 DEF CommitRejected, Goto
  <2>9. CASE CommitFact(e)
    BY <2>9 DEF CommitFact, Goto
  <2>10. CASE CommitAnchors(e)
    BY <2>10 DEF CommitAnchors, Goto
  <2>11. CASE Release(e)
    BY <2>11 DEF Release, Goto
  <2>12. CASE Finish(e)
    BY <2>12 DEF Finish, Goto
  <2> QED
    BY <1>2, <2>1, <2>2, <2>3, <2>4, <2>5, <2>6, <2>7, <2>8, <2>9, <2>10, <2>11, <2>12 DEF Execute
<1> QED
  <2>1. \/ UNCHANGED <<cur, at, readers, wlock>>
        \/ \E e \in Executors : Receive(e) \/ Execute(e)
    BY QuietSteps
  <2> QED
    BY <1>1, <1>2, <2>1

(* A writer past AcquireWrite holds its graph alone.                       *)
LEMMA WriterAlone == TypeInv /\ LockInv => WriterIsAlone
  BY DEF TypeInv, TypeOK, ExecInv, LockInv, WriterIsAlone, Holds, Graph

-----------------------------------------------------------------------------
(* Reads against half-applied writes.                                      *)

TornInv == CommitInv /\ NoTornRead

\* Facts and links agree at first, and no read has an answer.
LEMMA TornInvInit == Init => TornInv
  BY DEF Init, TornInv, CommitInv, NoTornRead, NoSnapshot

\* Facts and links differ only while the writer that holds the lock is between
\* the two halves of Commit, so no read can copy the difference.
LEMMA TornInvStep == TypeInv /\ LockInv /\ TornInv /\ [Next]_vars => TornInv'
<1> SUFFICES ASSUME TypeInv, LockInv, TornInv, [Next]_vars PROVE TornInv'
  OBVIOUS
<1> USE DEF TornInv, CommitInv, NoTornRead, Graph
<1>1. CASE UNCHANGED <<cur, at, readers, wlock, facts, links, result, err, done>>
  BY <1>1
<1>2. ASSUME NEW e \in Executors, Receive(e) \/ Execute(e) PROVE TornInv'
  <2> USE DEF TypeInv, TypeOK, ExecInv, ctlVars, lockVars, dataVars, Snapshots
  <2>0. ASSUME Holds(e), NEW f \in Executors, f # e, at[f] = "link"
        PROVE  Graph(f) # Graph(e)
    BY <2>0, WriterAlone DEF WriterIsAlone, Holds
  <2>1. CASE Receive(e)
    BY <2>1 DEF Receive
  <2>2. CASE SelectGraph(e)
    BY <2>2 DEF SelectGraph, Goto
  <2>3. CASE SelectOutOfBounds(e)
    BY <2>3 DEF SelectOutOfBounds, Goto
  <2>4. CASE AcquireRead(e)
    BY <2>4 DEF AcquireRead, Goto
  <2>5. CASE AnnounceWrite(e)
    BY <2>5 DEF AnnounceWrite, Goto
  <2>6. CASE AcquireWrite(e)
    BY <2>6 DEF AcquireWrite, Goto
  <2>7. CASE CommitRead(e)
    <3>1. Holds(e) /\ Graph(e) \in Graphs /\ cur[e] \in Streams
      BY <2>7 DEF CommitRead, Holds
    <3>2. \A f \in Executors : ~(at[f] = "link" /\ Graph(f) = Graph(e))
      BY <2>7, <2>0, <3>1 DEF CommitRead
    <3>3. facts[Graph(e)] = links[Graph(e)]
      BY <3>1, <3>2
    <3>4. NoTornRead'
      BY <2>7, <3>1, <3>3 DEF CommitRead
    <3>5. CommitInv'
      BY <2>7 DEF CommitRead, Goto
    <3> QED
      BY <3>4, <3>5
  <2>8. CASE CommitRejected(e)
    BY <2>8 DEF CommitRejected, Goto
  <2>9. CASE CommitFact(e)
    <3>1. Holds(e) /\ Graph(e) \in Graphs
      BY <2>9 DEF CommitFact, Holds
    <3>2. \A f \in Executors : ~(at[f] = "link" /\ Graph(f) = Graph(e))
      BY <2>9, <2>0, <3>1 DEF CommitFact
    <3>3. facts[Graph(e)] = links[Graph(e)]
      BY <3>1, <3>2
    <3>4. /\ facts' = [facts EXCEPT ![Graph(e)] = Append(facts[Graph(e)], cur[e])]
          /\ at' = [at EXCEPT ![e] = "link"]
          /\ UNCHANGED <<cur, links, result>>
      BY <2>9 DEF CommitFact, Goto
    <3>5. ASSUME NEW f \in Executors, at'[f] = "link"
          PROVE  facts'[Graph(f)] = Append(links[Graph(f)], cur[f])
      <4>1. CASE f = e
        BY <3>1, <3>3, <3>4, <4>1
      <4>2. CASE f # e
        <5>1. at[f] = "link" /\ Graph(f) # Graph(e)
          BY <3>2, <3>4, <3>5, <4>2
        <5> QED
          BY <3>1, <3>4, <5>1
      <4> QED
        BY <4>1, <4>2
    <3>6. ASSUME NEW g \in Graphs, \A f \in Executors : ~(at'[f] = "link" /\ Graph(f) = g)
          PROVE  facts'[g] = links[g]
      BY <3>1, <3>4, <3>6
    <3> QED
      BY <3>4, <3>5, <3>6
  <2>10. CASE CommitAnchors(e)
    <3>1. Holds(e) /\ Graph(e) \in Graphs
      BY <2>10 DEF CommitAnchors, Holds
    <3>2. facts[Graph(e)] = Append(links[Graph(e)], cur[e])
      BY <2>10 DEF CommitAnchors
    <3>3. /\ links' = [links EXCEPT ![Graph(e)] = Append(links[Graph(e)], cur[e])]
          /\ at' = [at EXCEPT ![e] = "release"]
          /\ UNCHANGED <<cur, facts, result>>
      BY <2>10 DEF CommitAnchors, Goto
    <3>4. ASSUME NEW f \in Executors, at'[f] = "link"
          PROVE  facts[Graph(f)] = Append(links'[Graph(f)], cur[f])
      BY <2>0, <3>1, <3>3, <3>4
    <3>5. ASSUME NEW g \in Graphs, \A f \in Executors : ~(at'[f] = "link" /\ Graph(f) = g)
          PROVE  facts[g] = links'[g]
      <4>1. CASE g = Graph(e)
        <5>1. links'[Graph(e)] = Append(links[Graph(e)], cur[e])
          BY <3>1, <3>3
        <5> QED
          BY <3>2, <4>1, <5>1
      <4>2. CASE g # Graph(e)
        <5>1. \A f \in Executors : ~(at[f] = "link" /\ Graph(f) = g)
          BY <3>3, <3>5, <4>2
        <5> QED
          BY <3>3, <4>2, <5>1
      <4> QED
        BY <4>1, <4>2
    <3> QED
      BY ZenonT(60), <3>3, <3>4, <3>5
  <2>11. CASE Release(e)
    BY <2>11 DEF Release, Goto
  <2>12. CASE Finish(e)
    BY <2>12 DEF Finish, Goto
  <2> QED
    BY <1>2, <2>1, <2>2, <2>3, <2>4, <2>5, <2>6, <2>7, <2>8, <2>9, <2>10, <2>11, <2>12 DEF Execute
<1> QED
  BY <1>1, <1>2, QuietSteps

-----------------------------------------------------------------------------
(* Shutdown.                                                               *)

\* No shutdown is under way at first.
LEMMA StopInvInit == Init => StopInv
  BY DEF Init, StopInv, Executors

\* The stopping mutex, quit and the two WaitGroups move in step through Stop.
LEMMA StopInvStep == TypeInv /\ StopInv /\ [Next]_vars => StopInv'
<1> SUFFICES ASSUME TypeInv, StopInv, [Next]_vars PROVE StopInv'
  OBVIOUS
<1> USE DEF StopInv, TypeInv, TypeOK, lifeVars, stopVars, callVars, execVars, ctlVars,
            runVars, workVars, Executors
<1>1. CASE Start
  BY <1>1 DEF Start
<1>6. ASSUME NEW e \in Executors, StartWorker(e) PROVE StopInv'
  BY <1>6, DistinctGoroutines DEF StartWorker
<1>2. ASSUME NEW s \in Streams, Submit(s) PROVE StopInv'
  <2>1. CASE SubmitRefused(s)
    BY <2>1 DEF SubmitRefused
  <2>2. CASE SubmitCounted(s)
    BY <2>2 DEF SubmitCounted
  <2>3. CASE Enqueue(s)
    BY <2>3 DEF Enqueue, Return
  <2>4. CASE SubmitQuit(s)
    BY <2>4 DEF SubmitQuit, Return
  <2>5. CASE SubmitCancelled(s)
    BY <2>5 DEF SubmitCancelled, Return
  <2>6. CASE SubmitTimeout(s)
    BY <2>6 DEF SubmitTimeout, Return
  <2> QED
    BY <1>2, <2>1, <2>2, <2>3, <2>4, <2>5, <2>6 DEF Submit, SubmitSelect
<1>3. ASSUME NEW p \in Stoppers, StopCall(p) \/ Stop(p) PROVE StopInv'
  <2>1. CASE StopCall(p)
    BY <2>1 DEF StopCall
  <2>2. CASE StopLock(p)
    BY <2>2 DEF StopLock
  <2>3. CASE StopIdle(p)
    BY <2>3 DEF StopIdle
  <2>4. CASE StopClose(p)
    BY <2>4 DEF StopClose
  <2>5. CASE StopSubmitsWait(p)
    BY <2>5 DEF StopSubmitsWait
  <2>6. CASE StopWorkersWait(p)
    BY <2>6 DEF StopWorkersWait, ReadQueue, Queues, Graphs
  <2>7. CASE StopNextQueue(p)
    <3>1. \A q \in Queues : q < sweep + 1 => chan[q] = <<>>
      <4>1. /\ sweep \in Int /\ chan[sweep] = <<>>
            /\ \A q \in Queues : q < sweep => chan[q] = <<>>
        BY <2>7 DEF StopNextQueue
      <4>2. \A q \in Queues : q < sweep + 1 => q < sweep \/ q = sweep
        BY <4>1, QueueRange
      <4> QED
        BY <4>1, <4>2
    <3>2. sweep' = sweep + 1 /\ at[p] = "idle" /\ pc[p] = "drain"
      BY <2>7 DEF StopNextQueue
    <3>3. UNCHANGED <<mode, starts, wg, chan, submits, call, stopping, pc, cur, at>>
      BY <2>7 DEF StopNextQueue
    <3>4. \A r \in Stoppers : at[r] # "idle" => FALSE
      BY <3>2
    <3> QED
      BY <3>1, <3>2, <3>3, <3>4
  <2>8. CASE StopClear(p)
    <3>1. \A q \in Queues : chan[q] = <<>>
      <4>1. sweep = NumGraphs /\ \A q \in Queues : q < sweep => chan[q] = <<>>
        BY <2>8 DEF StopClear
      <4> QED
        BY <4>1, QueueRange
    <3>2. /\ mode' = "down" /\ stopping' = None
          /\ pc' = [pc EXCEPT ![p] = "returned"]
          /\ UNCHANGED <<wg, chan, submits, call, sweep, at>>
      BY <2>8 DEF StopClear
    <3>3. at[p] = "idle" /\ submits = {} /\ wg = {}
      BY <2>8 DEF StopClear
    <3>4. \A r \in Stoppers \ {p} :
             pc[r] \notin {"close", "submits", "wg", "drain"}
      BY <2>8 DEF StopClear
    <3> QED
      BY <3>1, <3>2, <3>3, <3>4
  <2> QED
    BY <1>3, <2>1, <2>2, <2>3, <2>4, <2>5, <2>6, <2>7, <2>8 DEF Stop
<1>4. ASSUME NEW e \in Executors, Run(e) PROVE StopInv'
  <2>1. CASE Receive(e)
    BY <2>1 DEF Receive
  <2>2. CASE WorkerQuit(e)
    BY <2>2 DEF WorkerQuit
  <2>3. CASE WorkerExit(e)
    BY <2>3 DEF WorkerExit
  <2>4. CASE Execute(e)
    <3>1. /\ UNCHANGED ctlVars /\ at[e] # "idle"
          /\ \A f \in Executors \ {e} : at'[f] = at[f]
      BY <2>4 DEF Execute, SelectGraph, SelectOutOfBounds, AcquireRead, AnnounceWrite,
         AcquireWrite, CommitRead, CommitRejected, CommitFact, CommitAnchors, Release,
         Finish, Goto
    <3> QED
      BY <3>1
  <2> QED
    BY <1>4, <2>1, <2>2, <2>3, <2>4 DEF Run
<1>5. CASE UNCHANGED vars
  BY <1>5 DEF vars
<1> QED
  BY <1>1, <1>2, <1>3, <1>4, <1>5, <1>6 DEF Next, AllQuiet

-----------------------------------------------------------------------------
(* Accepted streams.                                                       *)

\* Nothing is accepted at first.
LEMMA OnceInvInit == Init => OnceInv
<1> SUFFICES ASSUME Init PROVE OnceInv
  OBVIOUS
<1>1. /\ \A q \in Queues : chan[q] = <<>> /\ Len(chan[q]) = 0
      /\ \A s \in Streams : call[s] = "idle" /\ s \notin done
      /\ \A e \in Executors : cur[e] = None
  BY DEF Init
<1>2. \A s \in Streams : ~Queued(s) /\ ~Executing(s)
  BY <1>1 DEF Queued, Executing
<1> QED
  BY <1>1, <1>2 DEF OnceInv, AcceptedOnce

\* A step that neither moves a stream nor accepts one.
LEMMA OnceInvKept ==
  ASSUME OnceInv, UNCHANGED <<chan, cur, done>>,
         \A s \in Streams : (call'[s] = "accepted") <=> (call[s] = "accepted")
  PROVE  OnceInv'
  BY DEF OnceInv, AcceptedOnce, Queued, Executing, QueueOf

\* Submit's send puts the stream in one place, its queue.
LEMMA OnceInvEnqueue ==
  ASSUME TypeInv, OnceInv, NEW s \in Streams, Enqueue(s)
  PROVE  OnceInv'
<1> DEFINE q == QueueOf(s)
           n == Len(chan[q])
<1>1. q \in Queues /\ chan[q] \in Seq(Streams) /\ n \in Nat
  BY QueueOfType DEF TypeInv, TypeOK
<1>2. /\ chan' = [chan EXCEPT ![q] = Append(chan[q], s)]
      /\ call' = [call EXCEPT ![s] = "accepted"]
      /\ call[s] = "parked"
      /\ UNCHANGED <<cur, done>>
  BY DEF Enqueue, Return, runVars, execVars
<1>3. ~Queued(s) /\ ~Executing(s) /\ s \notin done
  BY <1>2 DEF OnceInv, AcceptedOnce
<1>4. /\ Len(chan'[q]) = n + 1 /\ chan'[q][n + 1] = s
      /\ \A i \in 1 .. n : chan'[q][i] = chan[q][i]
      /\ \A r \in Queues \ {q} : chan'[r] = chan[r]
  BY <1>1, <1>2 DEF TypeInv, TypeOK
<1>5. \A r \in Queues : Len(chan[r]) \in Nat
  BY DEF TypeInv, TypeOK
<1>16. ASSUME NEW r \in Queues, NEW i \in 1 .. Len(chan'[r])
      PROVE  \/ i \in 1 .. Len(chan[r]) /\ chan'[r][i] = chan[r][i]
             \/ r = q /\ i = n + 1 /\ chan'[r][i] = s
  <2>1. CASE r = q
    BY <1>1, <1>4, <2>1
  <2>2. CASE r # q
    BY <1>4, <2>2
  <2> QED
    BY <2>1, <2>2
<1>17. ASSUME NEW r \in Queues, NEW i \in 1 .. Len(chan[r])
      PROVE  i \in 1 .. Len(chan'[r]) /\ chan'[r][i] = chan[r][i]
  <2>1. CASE r = q
    BY <1>1, <1>4, <2>1
  <2>2. CASE r # q
    BY <1>4, <2>2
  <2> QED
    BY <2>1, <2>2
<1> HIDE DEF q, n
<1>6. Queued(s)'
  BY <1>1, <1>4 DEF Queued
<1>7. \A r \in Queues : \A i \in 1 .. Len(chan[r]) : chan[r][i] # s
  BY <1>3 DEF Queued
<1>8. \A v \in Streams \ {s} : Queued(v)' <=> Queued(v)
  BY SMTT(30), <1>16, <1>17 DEF Queued
<1>9. \A v \in Streams : Executing(v)' <=> Executing(v)
  BY <1>2 DEF Executing
<1>10. \A r \in Queues : \A i \in 1 .. Len(chan'[r]) : QueueOf(chan'[r][i]) = r
  BY <1>16 DEF OnceInv, q
<1>11. \A r \in Queues : \A i, j \in 1 .. Len(chan'[r]) : chan'[r][i] = chan'[r][j] => i = j
  BY SMTT(30), <1>16, <1>7 DEF OnceInv, AcceptedOnce
<1>12. \A v \in Streams :
         /\ (call'[v] = "accepted") <=> (Queued(v)' \/ Executing(v)' \/ v \in done')
         /\ ~(Queued(v)' /\ Executing(v)')
         /\ v \in done' => ~Queued(v)' /\ ~Executing(v)'
  BY <1>2, <1>3, <1>6, <1>8, <1>9 DEF OnceInv, AcceptedOnce, TypeInv, TypeOK
<1>13. \A e, f \in Executors : cur'[e] = cur'[f] /\ cur'[e] # None => e = f
  BY <1>2 DEF OnceInv, AcceptedOnce
<1>14. AcceptedOnce'
  BY <1>11, <1>12, <1>13 DEF AcceptedOnce
<1>15. (\A r \in Queues : \A i \in 1 .. Len(chan[r]) : QueueOf(chan[r][i]) = r)'
  BY <1>10 DEF QueueOf
<1> QED
  BY <1>14, <1>15 DEF OnceInv

\* A receive moves the stream from its queue to one executor.
LEMMA OnceInvReceive ==
  ASSUME TypeInv, OnceInv, NEW e \in Executors, Receive(e)
  PROVE  OnceInv'
<1>0. PICK q \in Queues : q = Source(e)
  BY SourceType DEF Receive, TypeInv, TypeOK, Executors
<1>1. chan[q] \in Seq(Streams) /\ chan[q] # <<>>
  BY <1>0 DEF Receive, TypeInv, TypeOK
<1> PICK s \in Streams : s = Head(chan[q])
  BY <1>1
<1>2. /\ chan' = [chan EXCEPT ![q] = Tail(chan[q])]
      /\ cur' = [cur EXCEPT ![e] = s]
      /\ cur[e] = None
      /\ UNCHANGED <<call, done>>
  BY <1>0 DEF Receive, TypeInv, ExecInv, callVars
<1>3. /\ s = chan[q][1] /\ 1 \in 1 .. Len(chan[q])
      /\ Len(chan[q]) \in Nat /\ Len(chan'[q]) = Len(chan[q]) - 1
      /\ \A i \in 1 .. Len(chan'[q]) : chan'[q][i] = chan[q][i + 1]
      /\ \A r \in Queues \ {q} : chan'[r] = chan[r]
  BY <1>1, <1>2 DEF TypeInv, TypeOK
<1>4. /\ Queued(s) /\ ~Executing(s) /\ s \notin done /\ call[s] = "accepted"
      /\ QueueOf(s) = q
  BY <1>1, <1>3 DEF Queued, OnceInv, AcceptedOnce
<1>5. ASSUME NEW r \in Queues, NEW i \in 1 .. Len(chan'[r])
      PROVE  \/ r # q /\ i \in 1 .. Len(chan[r]) /\ chan'[r][i] = chan[r][i]
             \/ r = q /\ i + 1 \in 1 .. Len(chan[r]) /\ chan'[r][i] = chan[r][i + 1]
  <2>1. CASE r = q
    BY <1>3, <2>1
  <2>2. CASE r # q
    BY <1>3, <2>2
  <2> QED
    BY <2>1, <2>2
<1>6. ASSUME NEW r \in Queues, NEW i \in 1 .. Len(chan[r]), chan[r][i] # s
      PROVE  \E j \in 1 .. Len(chan'[r]) : chan'[r][j] = chan[r][i]
  <2>1. CASE r = q
    <3>1. i # 1 /\ i - 1 \in 1 .. Len(chan'[q])
      BY <1>3, <1>6, <2>1
    <3>2. chan'[q][i - 1] = chan[q][(i - 1) + 1]
      BY <1>3, <3>1
    <3> QED
      BY <2>1, <3>1, <3>2
  <2>2. CASE r # q
    BY <1>3, <2>2
  <2> QED
    BY <2>1, <2>2
<1>7. ASSUME Queued(s)' PROVE FALSE
  <2>0. PICK r \in Queues : \E i \in 1 .. Len(chan'[r]) : chan'[r][i] = s
    BY <1>7 DEF Queued
  <2>1. PICK i \in 1 .. Len(chan'[r]) : chan'[r][i] = s
    BY <2>0
  <2>2. CASE r = q
    <3>1. i + 1 \in 1 .. Len(chan[q]) /\ chan[q][i + 1] = chan[q][1]
      BY <1>3, <1>5, <2>1, <2>2
    <3>2. i + 1 = 1
      BY <1>1, <1>3, <3>1 DEF OnceInv, AcceptedOnce
    <3> QED
      BY <2>1, <3>2
  <2>3. CASE r # q
    <3>1. i \in 1 .. Len(chan[r]) /\ chan[r][i] = s
      BY <1>5, <2>1, <2>3
    <3> QED
      BY <1>4, <2>3, <3>1 DEF OnceInv
  <2> QED
    BY <2>2, <2>3
<1>8. \A v \in Streams \ {s} : Queued(v)' <=> Queued(v)
  <2>1. ASSUME NEW v \in Streams \ {s}, Queued(v)' PROVE Queued(v)
    BY SMTT(30), <1>5, <2>1 DEF Queued
  <2>2. ASSUME NEW v \in Streams \ {s}, Queued(v) PROVE Queued(v)'
    <3>1. PICK r \in Queues : \E i \in 1 .. Len(chan[r]) : chan[r][i] = v
      BY <2>2 DEF Queued
    <3>2. \E j \in 1 .. Len(chan'[r]) : chan'[r][j] = v
      BY <1>6, <3>1
    <3> QED
      BY <3>2 DEF Queued
  <2> QED
    BY <2>1, <2>2
<1>9. Executing(s)' /\ \A v \in Streams \ {s} : Executing(v)' <=> Executing(v)
  <2>1. Executing(s)'
    BY <1>2 DEF Executing, TypeInv, TypeOK
  <2>2. \A v \in Streams : v # None
    OBVIOUS
  <2> QED
    BY <1>2, <2>1, <2>2 DEF Executing, TypeInv, TypeOK
<1>10. \A v \in Streams :
         /\ (call'[v] = "accepted") <=> (Queued(v)' \/ Executing(v)' \/ v \in done')
         /\ ~(Queued(v)' /\ Executing(v)')
         /\ v \in done' => ~Queued(v)' /\ ~Executing(v)'
  BY <1>2, <1>4, <1>7, <1>8, <1>9 DEF OnceInv, AcceptedOnce
<1>11. \A r \in Queues : \A i, j \in 1 .. Len(chan'[r]) : chan'[r][i] = chan'[r][j] => i = j
  <2> SUFFICES ASSUME NEW r \in Queues, NEW i \in 1 .. Len(chan'[r]),
                      NEW j \in 1 .. Len(chan'[r]), chan'[r][i] = chan'[r][j]
               PROVE  i = j
    OBVIOUS
  <2>1. CASE r = q
    <3>1. /\ i + 1 \in 1 .. Len(chan[r]) /\ j + 1 \in 1 .. Len(chan[r])
          /\ chan[r][i + 1] = chan[r][j + 1]
      BY <1>5, <2>1
    <3>2. i + 1 = j + 1
      BY <3>1 DEF OnceInv, AcceptedOnce
    <3> QED
      BY <3>2
  <2>2. CASE r # q
    BY <1>5, <2>2 DEF OnceInv, AcceptedOnce
  <2> QED
    BY <2>1, <2>2
<1>12. \A d, f \in Executors : cur'[d] = cur'[f] /\ cur'[d] # None => d = f
  BY <1>2, <1>4 DEF OnceInv, AcceptedOnce, Executing, TypeInv, TypeOK
<1>13. \A r \in Queues : \A i \in 1 .. Len(chan'[r]) : QueueOf(chan'[r][i]) = r
  BY <1>5 DEF OnceInv
<1>14. AcceptedOnce'
  BY <1>10, <1>11, <1>12 DEF AcceptedOnce
<1>15. (\A r \in Queues : \A i \in 1 .. Len(chan[r]) : QueueOf(chan[r][i]) = r)'
  BY <1>13 DEF QueueOf
<1> QED
  BY <1>14, <1>15 DEF OnceInv

\* Finish moves the stream from its executor to the done ones.
LEMMA OnceInvFinish ==
  ASSUME TypeInv, OnceInv, NEW e \in Executors, Finish(e)
  PROVE  OnceInv'
<1>0. PICK s \in Streams : s = cur[e]
  BY DEF Finish, TypeInv, TypeOK, ExecInv
<1>1. Executing(s) /\ s \notin done /\ ~Queued(s) /\ call[s] = "accepted"
  BY <1>0 DEF OnceInv, AcceptedOnce, Executing
<1>2. /\ cur' = [cur EXCEPT ![e] = None] /\ done' = done \cup {s}
      /\ UNCHANGED <<chan, call>>
  BY <1>0 DEF Finish, ctlVars, callVars
<1>3. \A v \in Streams : Queued(v)' <=> Queued(v)
  BY <1>2 DEF Queued
<1>4. /\ ~Executing(s)'
      /\ \A v \in Streams \ {s} : Executing(v)' <=> Executing(v)
  BY <1>0, <1>2 DEF Executing, OnceInv, AcceptedOnce, TypeInv, TypeOK
<1>5. \A d, f \in Executors : cur'[d] = cur'[f] /\ cur'[d] # None => d = f
  BY <1>2 DEF OnceInv, AcceptedOnce, TypeInv, TypeOK
<1>6. AcceptedOnce'
  BY <1>1, <1>2, <1>3, <1>4, <1>5 DEF OnceInv, AcceptedOnce
<1>7. (\A r \in Queues : \A i \in 1 .. Len(chan[r]) : QueueOf(chan[r][i]) = r)'
  BY <1>2 DEF OnceInv, QueueOf
<1> QED
  BY <1>6, <1>7 DEF OnceInv

\* Every accepted stream is in exactly one place, whatever step is taken.
LEMMA OnceInvStep == TypeInv /\ StopInv /\ OnceInv /\ [Next]_vars => OnceInv'
<1> SUFFICES ASSUME TypeInv, StopInv, OnceInv, [Next]_vars PROVE OnceInv'
  OBVIOUS
<1> USE DEF lifeVars, stopVars, callVars, execVars, ctlVars, runVars, workVars
<1>1. CASE Start
  <2>1. chan' = chan
    BY <1>1 DEF Start, StopInv, TypeInv, TypeOK
  <2> QED
    BY <1>1, <2>1, OnceInvKept DEF Start
<1>6. ASSUME NEW e \in Executors, StartWorker(e) PROVE OnceInv'
  BY <1>6, OnceInvKept DEF StartWorker
<1>2. ASSUME NEW s \in Streams, Submit(s) PROVE OnceInv'
  <2>1. CASE Enqueue(s)
    BY <2>1, OnceInvEnqueue
  <2>2. CASE ~Enqueue(s)
    <3>1. /\ call[s] \in {"idle", "parked"} /\ UNCHANGED <<chan, cur, done>>
          /\ \E r \in {"parked", "ErrShutdown", "ErrEnqueueStream", "ErrQueueFull"} :
               call' = [call EXCEPT ![s] = r]
      BY <1>2, <2>2 DEF Submit, SubmitRefused, SubmitCounted, SubmitSelect, SubmitQuit,
         SubmitCancelled, SubmitTimeout, Return
    <3>2. \A r \in Streams : (call'[r] = "accepted") <=> (call[r] = "accepted")
      BY <3>1 DEF TypeInv, TypeOK
    <3> QED
      BY <3>1, <3>2, OnceInvKept
  <2> QED
    BY <2>1, <2>2
<1>3. ASSUME NEW p \in Stoppers, StopCall(p) \/ Stop(p) PROVE OnceInv'
  <2>1. UNCHANGED <<chan, cur, done, call>>
    BY <1>3 DEF StopCall, Stop, StopLock, StopIdle, StopClose, StopSubmitsWait,
       StopWorkersWait, StopNextQueue, StopClear
  <2> QED
    BY <2>1, OnceInvKept
<1>4. ASSUME NEW e \in Executors, Run(e) PROVE OnceInv'
  <2>1. CASE Receive(e)
    BY <2>1, OnceInvReceive
  <2>2. CASE Finish(e)
    BY <2>2, OnceInvFinish
  <2>3. CASE ~Receive(e) /\ ~Finish(e)
    <3>1. UNCHANGED <<chan, cur, done, call>>
      BY <1>4, <2>3 DEF Run, WorkerQuit, WorkerExit, Execute, SelectGraph,
         SelectOutOfBounds, AcquireRead, AnnounceWrite, AcquireWrite, CommitRead,
         CommitRejected, CommitFact, CommitAnchors, Release
    <3> QED
      BY <3>1, OnceInvKept
  <2> QED
    BY <2>1, <2>2, <2>3
<1>5. CASE UNCHANGED vars
  BY <1>5, OnceInvKept DEF vars
<1> QED
  BY <1>1, <1>2, <1>3, <1>4, <1>5, <1>6 DEF Next, AllQuiet

-----------------------------------------------------------------------------
(* The theorems.                                                           *)

\* Every variable keeps its type: in particular an executor that finishes,
\* commits or releases always has a stream, on a graph that exists.
THEOREM TypeCorrect == Spec => [](TypeOK /\ ExecInv)
<1>1. TypeInv <=> TypeOK /\ ExecInv
  BY DEF TypeInv
<1> QED
  BY <1>1, TypeInvInit, TypeInvStep, PTL DEF Spec

\* The graph lock that Stream.Acquire takes: a writer that got it is alone.
THEOREM MutualExclusion == Spec => []WriterIsAlone
<1>1. Init => TypeInv /\ LockInv
  BY TypeInvInit, LockInvInit
<1>2. TypeInv /\ LockInv /\ [Next]_vars => (TypeInv /\ LockInv)'
  BY TypeInvStep, LockInvStep
<1> QED
  BY <1>1, <1>2, WriterAlone, PTL DEF Spec

\* Stream.Commit on a recall never finds half of a remember.
THEOREM ReadsAreNotTorn == Spec => []NoTornRead
<1>1. Init => TypeInv /\ LockInv /\ TornInv
  BY TypeInvInit, LockInvInit, TornInvInit
<1>2. TypeInv /\ LockInv /\ TornInv /\ [Next]_vars => (TypeInv /\ LockInv /\ TornInv)'
  BY TypeInvStep, LockInvStep, TornInvStep
<1>3. TornInv => NoTornRead
  BY DEF TornInv
<1> QED
  BY <1>1, <1>2, <1>3, PTL DEF Spec

\* No step but StopClose leaves the place where quit is closed for the one
\* behind it, and only StopIdle and StopClear return.
LEMMA TurnsTaken ==
  ASSUME TypeInv, StopInv, [Next]_vars, NEW p \in Stoppers
  PROVE  /\ pc[p] = "close" /\ pc'[p] = "submits" => mode = "up"
         /\ pc[p] # "returned" /\ pc'[p] = "returned" => mode' = "down"
<1> USE DEF TypeInv, TypeOK, Executors
<1>1. CASE Stop(p)
  BY <1>1 DEF StopInv, Stop, StopLock, StopIdle, StopClose, StopSubmitsWait, StopWorkersWait,
     StopNextQueue, StopClear, lifeVars
<1>2. CASE ~Stop(p)
  <2>1. pc'[p] \in {pc[p], "wait"}
    <3>1. CASE \E q \in Stoppers : StopCall(q)
      BY <3>1 DEF StopCall
    <3>2. CASE \E q \in Stoppers : q # p /\ Stop(q)
      BY <3>2 DEF Stop, StopLock, StopIdle, StopClose, StopSubmitsWait, StopWorkersWait,
         StopNextQueue, StopClear
    <3>3. CASE \E e \in Executors : StartWorker(e) \/ Run(e)
      BY <3>3, DistinctGoroutines DEF StartWorker, Run, Receive, WorkerQuit, WorkerExit, Execute,
         SelectGraph, SelectOutOfBounds, AcquireRead, AnnounceWrite, AcquireWrite, CommitRead,
         CommitRejected, CommitFact, CommitAnchors, Release, Finish, ctlVars
    <3>4. CASE Start \/ (\E s \in Streams : Submit(s)) \/ UNCHANGED vars
      BY <3>4 DEF Start, Submit, SubmitRefused, SubmitCounted, SubmitSelect, Enqueue, SubmitQuit,
         SubmitCancelled, SubmitTimeout, runVars, vars
    <3> QED
      BY <1>2, <3>1, <3>2, <3>3, <3>4 DEF Next, AllQuiet
  <2> QED
    BY <2>1
<1> QED
  BY <1>1, <1>2

\* Shutdown, from StopInv alone: Stop never closes quit twice, none returns
\* before the scheduler is down, and what Stop drains itself it drains alone.
THEOREM OrderlyStop == Spec => StopsTakeTurns /\ []DrainIsAlone
<1>1. TypeInv /\ StopInv /\ [Next]_vars =>
        [\A p \in Stoppers :
           /\ pc[p] = "close" /\ pc'[p] = "submits" => mode = "up"
           /\ pc[p] # "returned" /\ pc'[p] = "returned" => mode' = "down"]_vars
  BY TurnsTaken
<1>2. TypeInv /\ StopInv => DrainIsAlone
  BY DEF TypeInv, TypeOK, StopInv, DrainIsAlone, Executors
<1>3. Init => TypeInv /\ StopInv
  BY TypeInvInit, StopInvInit
<1>4. TypeInv /\ StopInv /\ [Next]_vars => (TypeInv /\ StopInv)'
  BY TypeInvStep, StopInvStep
<1> QED
  BY <1>1, <1>2, <1>3, <1>4, PTL DEF Spec, StopsTakeTurns

\* Submit's promise: what it accepted runs exactly once, what it refused
\* never runs.
THEOREM AcceptedRunsOnce == Spec => []AcceptedOnce
<1>1. Init => TypeInv /\ StopInv /\ OnceInv
  BY TypeInvInit, StopInvInit, OnceInvInit
<1>2. TypeInv /\ StopInv /\ OnceInv /\ [Next]_vars => (TypeInv /\ StopInv /\ OnceInv)'
  BY TypeInvStep, StopInvStep, OnceInvStep
<1>3. OnceInv => AcceptedOnce
  BY DEF OnceInv
<1> QED
  BY <1>1, <1>2, <1>3, PTL DEF Spec

\* Stop's promise: once it has cleared the queues, every stream that was
\* ever accepted is done and nothing runs.
THEOREM NothingIsLost == Spec => []StopLosesNothing
<1>1. Init => TypeInv /\ StopInv /\ OnceInv
  BY TypeInvInit, StopInvInit, OnceInvInit
<1>2. TypeInv /\ StopInv /\ OnceInv /\ [Next]_vars => (TypeInv /\ StopInv /\ OnceInv)'
  BY TypeInvStep, StopInvStep, OnceInvStep
<1>3. TypeInv /\ StopInv /\ OnceInv => StopLosesNothing
  <2> SUFFICES ASSUME TypeInv, StopInv, OnceInv, mode = "down"
               PROVE  /\ \A s \in Streams : call[s] = "accepted" => s \in done
                      /\ \A e \in Executors : at[e] = "idle"
    BY DEF StopLosesNothing
  <2>1. \A e \in Executors : at[e] = "idle"
    BY DEF StopInv, Executors
  <2>2. \A s \in Streams : ~Executing(s)
    BY <2>1 DEF TypeInv, ExecInv, Executing
  <2>3. \A s \in Streams : ~Queued(s)
    <3>1. \A q \in Queues : Len(chan[q]) = 0
      BY DEF StopInv
    <3> QED
      BY <3>1 DEF Queued
  <2> QED
    BY <2>1, <2>2, <2>3 DEF OnceInv, AcceptedOnce
<1> QED
  BY <1>1, <1>2, <1>3, PTL DEF Spec

-----------------------------------------------------------------------------
(* What clients see: every stream has one outcome, what was acknowledged     *)
(* stays visible, and the whole of it implements MemoryService.              *)

SchedulerInv == TypeInv /\ LockInv /\ TornInv /\ StopInv /\ OnceInv /\ OutcomeInv /\ VisibleInv

-----------------------------------------------------------------------------
(* Outcomes.                                                               *)

\* No stream has an outcome at first.
LEMMA OutcomeInvInit == Init => OutcomeInv
  BY DEF Init, OutcomeInv

\* The stream an executor works on was accepted, is its own, and is not done.
LEMMA OwnStream ==
  ASSUME TypeInv, OnceInv, NEW e \in Executors, at[e] # "idle"
  PROVE  /\ cur[e] \in Streams /\ cur[e] \notin done
         /\ call[cur[e]] = "accepted"
         /\ \A f \in Executors : cur[f] = cur[e] => f = e
<1>1. cur[e] \in Streams
  BY DEF TypeInv, TypeOK, ExecInv
<1>2. Executing(cur[e])
  BY DEF Executing
<1> QED
  BY <1>1, <1>2 DEF OnceInv, AcceptedOnce

\* A step that moves no committed stream and writes no outcome.
LEMMA OutcomeInvKept ==
  ASSUME OutcomeInv, err' = err, done' = done,
         \A f \in Executors :
           at[f] \in {"release", "finish"} \/ at'[f] \in {"release", "finish"} =>
             cur'[f] = cur[f] /\ at[f] \in {"release", "finish"}
                             /\ at'[f] \in {"release", "finish"}
  PROVE  OutcomeInv'
<1> SUFFICES ASSUME NEW s \in Streams
             PROVE  (err[s] # "none")' <=>
                      \/ s \in done
                      \/ \E f \in Executors : cur'[f] = s /\ at'[f] \in {"release", "finish"}
  BY DEF OutcomeInv
<1>1. (\E f \in Executors : cur'[f] = s /\ at'[f] \in {"release", "finish"}) <=>
      (\E f \in Executors : cur[f] = s /\ at[f] \in {"release", "finish"})
  OBVIOUS
<1> QED
  BY <1>1 DEF OutcomeInv

\* An outcome is written once, by Select or Commit, before the stream is done.
LEMMA OutcomeInvStep ==
  TypeInv /\ OnceInv /\ OutcomeInv /\ [Next]_vars => OutcomeInv'
<1> SUFFICES ASSUME TypeInv, OnceInv, OutcomeInv, [Next]_vars PROVE OutcomeInv'
  OBVIOUS
<1> USE DEF OutcomeInv
<1>1. CASE UNCHANGED <<cur, at, readers, wlock, facts, links, result, err, done>>
  BY <1>1
<1>2. ASSUME NEW e \in Executors, Receive(e) \/ Execute(e) PROVE OutcomeInv'
  <2> USE DEF TypeInv, TypeOK, ctlVars, lockVars, dataVars
  <2>1. CASE Receive(e)
    <3>1. err' = err /\ done' = done
      BY <2>1 DEF Receive
    <3>2. /\ at[e] \notin {"release", "finish"} /\ at'[e] \notin {"release", "finish"}
          /\ \A f \in Executors \ {e} : cur'[f] = cur[f] /\ at'[f] = at[f]
      BY <2>1 DEF Receive
    <3>3. \A f \in Executors :
            at[f] \in {"release", "finish"} \/ at'[f] \in {"release", "finish"} =>
              cur'[f] = cur[f] /\ at'[f] = at[f]
      BY <3>2
    <3> QED
      BY <3>1, <3>3, OutcomeInvKept
  <2>2. ASSUME at[e] # "idle"
        PROVE  /\ cur[e] \in Streams /\ cur[e] \notin done
               /\ \A f \in Executors : cur[f] = cur[e] => f = e
    BY <2>2, OwnStream
  <2>3. CASE \/ SelectGraph(e) \/ AcquireRead(e) \/ AnnounceWrite(e) \/ AcquireWrite(e)
             \/ CommitFact(e)
    <3>1. /\ at[e] \notin {"release", "finish"}
          /\ \E next \in {"acquire", "commit", "announced", "link"} :
               at' = [at EXCEPT ![e] = next]
          /\ UNCHANGED <<cur, err, done>>
      BY <2>3 DEF SelectGraph, AcquireRead, AnnounceWrite, AcquireWrite, CommitFact, Goto
    <3> QED
      BY <3>1
  <2>4. CASE SelectOutOfBounds(e) \/ CommitRead(e) \/ CommitRejected(e) \/ CommitAnchors(e)
    <3>1. /\ at[e] \notin {"idle", "release", "finish"}
          /\ \E next \in {"release", "finish"} : at' = [at EXCEPT ![e] = next]
          /\ \E r \in {"ok", "ErrIndexOutOfBounds", "ErrStreamCommit"} :
               err' = [err EXCEPT ![cur[e]] = r]
          /\ UNCHANGED <<cur, done>>
      BY <2>4 DEF SelectOutOfBounds, CommitRead, CommitRejected, CommitAnchors, Goto
    <3> QED
      BY <2>2, <3>1
  <2>5. CASE Release(e)
    BY <2>5 DEF Release, Goto
  <2>6. CASE Finish(e)
    <3>1. /\ at[e] = "finish" /\ at' = [at EXCEPT ![e] = "idle"]
          /\ cur' = [cur EXCEPT ![e] = None] /\ done' = done \cup {cur[e]}
          /\ UNCHANGED err
      BY <2>6 DEF Finish, Goto
    <3> QED
      BY <2>2, <3>1
  <2> QED
    BY <1>2, <2>1, <2>3, <2>4, <2>5, <2>6 DEF Execute
<1> QED
  BY <1>1, <1>2, QuietSteps

\* What the phase of a request rests on: a stream has no outcome before its
\* Submit is accepted, nor while its executor has not committed it.
LEMMA NoOutcomeYet ==
  ASSUME TypeInv, OnceInv, OutcomeInv
  PROVE  /\ \A s \in Streams : call[s] # "accepted" => err[s] = "none" /\ s \notin done
         /\ \A e \in Executors :
              at[e] \in {"select", "acquire", "announced", "commit", "link"} =>
                err[cur[e]] = "none"
<1>1. ASSUME NEW s \in Streams, call[s] # "accepted" PROVE err[s] = "none" /\ s \notin done
  BY <1>1 DEF OutcomeInv, OnceInv, AcceptedOnce, Executing
<1>2. ASSUME NEW e \in Executors, 
             at[e] \in {"select", "acquire", "announced", "commit", "link"}
      PROVE  err[cur[e]] = "none"
  BY <1>2, OwnStream DEF OutcomeInv
<1> QED
  BY <1>1, <1>2

-----------------------------------------------------------------------------
(* Acknowledged writes.                                                    *)

\* What a client and an executor do are different steps.
LEMMA ClientSteps ==
  ASSUME [Next]_vars
  PROVE  \/ UNCHANGED <<call, acked, links, result, err, done>>
         \/ \E s \in Streams : Submit(s)
         \/ \E e \in Executors : Execute(e)
  BY DEF Next, Start, StartWorker, StopCall, Stop, StopLock, StopIdle, StopClose, StopSubmitsWait,
         StopWorkersWait, StopNextQueue, StopClear, Run, Receive, WorkerQuit, WorkerExit,
         AllQuiet, vars, dataVars, callVars, workVars

\* Nothing was acknowledged at first.
LEMMA VisibleInvInit == Init => VisibleInv
  BY DEF Init, VisibleInv, AckedWritesVisible

\* Only the executor of a read searches for it, and what it finds then holds
\* every acknowledged write of that graph: these are linked and final.
LEMMA VisibleInvStep ==
  TypeInv /\ OnceInv /\ OutcomeInv /\ VisibleInv /\ [Next]_vars => VisibleInv'
<1> SUFFICES ASSUME TypeInv, OnceInv, OutcomeInv, VisibleInv, [Next]_vars PROVE VisibleInv'
  OBVIOUS
<1>1. CASE UNCHANGED <<call, acked, links, result, err, done>>
  BY <1>1 DEF VisibleInv, AckedWritesVisible
<1>2. ASSUME NEW s \in Streams, Submit(s) PROVE VisibleInv'
  <2>1. UNCHANGED <<links, result, err, done>>
    BY <1>2 DEF Submit, SubmitRefused, SubmitCounted, SubmitSelect, Enqueue, SubmitQuit,
       SubmitCancelled, SubmitTimeout, runVars, dataVars
  <2>2. CASE SubmitCounted(s)
    <3>1. acked' = [acked EXCEPT ![s] = Writes \cap done] /\ call[s] = "idle"
      BY <2>2 DEF SubmitCounted
    <3>2. err[s] = "none"
      BY <3>1, NoOutcomeYet
    <3>3. \A r \in Streams : acked'[r] \subseteq done
      BY <3>1 DEF VisibleInv, TypeInv, TypeOK
    <3>4. \A r \in Streams : err[r] = "ok" => acked'[r] = acked[r]
      BY <3>1, <3>2 DEF TypeInv, TypeOK
    <3> QED
      BY <2>1, <3>3, <3>4 DEF VisibleInv, AckedWritesVisible
  <2>3. CASE ~SubmitCounted(s)
    <3>1. UNCHANGED acked
      BY <1>2, <2>3 DEF Submit, SubmitRefused, SubmitSelect, Enqueue, SubmitQuit,
         SubmitCancelled, SubmitTimeout
    <3> QED
      BY <2>1, <3>1 DEF VisibleInv, AckedWritesVisible
  <2> QED
    BY <2>2, <2>3
<1>3. ASSUME NEW e \in Executors, Execute(e) PROVE VisibleInv'
  <2>1. UNCHANGED acked /\ at[e] # "idle" /\ done \subseteq done'
    BY <1>3 DEF Execute, SelectGraph, SelectOutOfBounds, AcquireRead, AnnounceWrite,
       AcquireWrite, CommitRead, CommitRejected, CommitFact, CommitAnchors, Release,
       Finish, ctlVars, callVars
  <2>2. PICK s \in Streams : s = cur[e] /\ s \notin done
    BY <2>1, OwnStream
  <2>3. \A r \in Streams : acked[r] \subseteq Writes /\ acked[r] \subseteq done /\ s \notin acked[r]
    BY <2>2 DEF VisibleInv, TypeInv, TypeOK
  <2>4. (\A r \in Streams : acked[r] \subseteq done)'
    BY <2>1, <2>3
  <2>5. CASE CommitRead(e)
    <3>1. /\ s \notin Writes /\ Graph(e) = GraphID[s]
          /\ GraphID[s] \in Graphs
          /\ result' = [result EXCEPT ![s] = [facts |-> facts[GraphID[s]],
                                             links |-> links[GraphID[s]]]]
          /\ err' = [err EXCEPT ![s] = "ok"]
          /\ UNCHANGED <<links, facts>>
      BY <2>2, <2>5 DEF CommitRead, Graph, TypeInv, ExecInv
    <3>2. \A w \in Writes : err'[w] = err[w]
      BY <2>2, <3>1 DEF TypeInv, TypeOK
    <3>3. /\ result'[s].links = links[GraphID[s]]
          /\ \A r \in Streams \ {s} : result'[r] = result[r] /\ err'[r] = err[r]
      BY <3>1 DEF TypeInv, TypeOK
    <3>4. AckedWritesVisible'
      <4> SUFFICES ASSUME NEW r \in Streams \ Writes, err'[r] = "ok",
                          NEW w \in acked[r], err[w] = "ok", GraphID[w] = GraphID[r]
                   PROVE  \E i \in 1 .. Len(result'[r].links) : result'[r].links[i] = w
        BY <2>1, <2>3, <3>2 DEF AckedWritesVisible
      <4>1. CASE r = s
        <5>1. \E i \in 1 .. Len(links[GraphID[w]]) : links[GraphID[w]][i] = w
          BY <2>3 DEF VisibleInv
        <5> QED
          BY <3>3, <4>1, <5>1
      <4>2. CASE r # s
        BY SMTT(30), <3>3, <4>2 DEF VisibleInv, AckedWritesVisible
      <4> QED
        BY <4>1, <4>2
    <3> QED
      BY <2>4, <3>1, <3>2, <3>4 DEF VisibleInv
  <2>6. CASE SelectOutOfBounds(e) \/ CommitRejected(e)
    <3>1. /\ UNCHANGED <<links, result>>
          /\ \E r \in {"ErrIndexOutOfBounds", "ErrStreamCommit"} :
               err' = [err EXCEPT ![s] = r]
      BY <2>2, <2>6 DEF SelectOutOfBounds, CommitRejected
    <3>2. err[s] = "none"
      BY <2>2, <2>6, NoOutcomeYet DEF SelectOutOfBounds, CommitRejected
    <3>3. \A r \in Streams : err'[r] = "ok" <=> err[r] = "ok"
      BY <3>1, <3>2 DEF TypeInv, TypeOK
    <3>4. \A g \in Graphs : \A i \in 1 .. Len(links[g]) : links[g][i] \in Streams
      BY DEF TypeInv, TypeOK
    <3>5. AckedWritesVisible'
      BY <2>1, <2>3, <3>1, <3>3 DEF VisibleInv, AckedWritesVisible
    <3> QED
      BY <2>4, <3>1, <3>3, <3>5, <3>4 DEF VisibleInv
  <2>7. CASE CommitAnchors(e)
    <3>1. /\ s \in Writes /\ GraphID[s] \in Graphs
          /\ links' = [links EXCEPT ![GraphID[s]] = Append(links[GraphID[s]], s)]
          /\ err' = [err EXCEPT ![s] = "ok"]
          /\ UNCHANGED result
      BY <2>2, <2>7 DEF CommitAnchors, Graph, TypeInv, ExecInv
    <3>2. \A r \in Streams \ {s} : err'[r] = err[r]
      BY <3>1 DEF TypeInv, TypeOK
    <3>3. \A g \in Graphs : links[g] \in Seq(Writes) /\ Len(links[g]) \in Nat
      BY DEF TypeInv, TypeOK
    <3>4. /\ Len(links'[GraphID[s]]) = Len(links[GraphID[s]]) + 1
          /\ links'[GraphID[s]][Len(links[GraphID[s]]) + 1] = s
          /\ \A i \in 1 .. Len(links[GraphID[s]]) :
               links'[GraphID[s]][i] = links[GraphID[s]][i]
          /\ \A g \in Graphs \ {GraphID[s]} : links'[g] = links[g]
      BY <3>1, <3>3 DEF TypeInv, TypeOK
    <3>5. ASSUME NEW w \in Writes, err'[w] = "ok"
          PROVE  /\ GraphID[w] \in Graphs
                 /\ \E i \in 1 .. Len(links'[GraphID[w]]) : links'[GraphID[w]][i] = w
      <4>1. CASE w = s
        BY <3>1, <3>3, <3>4, <4>1
      <4>2. CASE w # s
        <5>1. /\ GraphID[w] \in Graphs
              /\ \E i \in 1 .. Len(links[GraphID[w]]) : links[GraphID[w]][i] = w
          BY <3>2, <3>5, <4>2 DEF VisibleInv
        <5>2. PICK i \in 1 .. Len(links[GraphID[w]]) : links[GraphID[w]][i] = w
          BY <5>1
        <5>3. i \in 1 .. Len(links'[GraphID[w]]) /\ links'[GraphID[w]][i] = w
          <6>1. CASE GraphID[w] = GraphID[s]
            <7>1. i \in 1 .. Len(links[GraphID[s]]) + 1 /\ links'[GraphID[s]][i] = w
              BY <3>3, <3>4, <5>1, <5>2, <6>1
            <7> QED
              BY <3>4, <6>1, <7>1
          <6>2. CASE GraphID[w] # GraphID[s]
            <7>1. links'[GraphID[w]] = links[GraphID[w]]
              BY <3>4, <5>1, <6>2
            <7> QED
              BY <5>2, <7>1
          <6> QED
            BY <6>1, <6>2
        <5> QED
          BY <5>1, <5>3
      <4> QED
        BY <4>1, <4>2
    <3>6. AckedWritesVisible'
      BY <2>1, <2>3, <3>1, <3>2 DEF VisibleInv, AckedWritesVisible
    <3>7. ASSUME NEW g \in Graphs, NEW i \in 1 .. Len(links'[g])
          PROVE  err'[links'[g][i]] = "ok"
      <4>1. \/ links'[g][i] = s
            \/ i \in 1 .. Len(links[g]) /\ links'[g][i] = links[g][i]
        BY <3>1, <3>3, <3>4
      <4>2. err'[s] = "ok"
        BY <3>1 DEF TypeInv, TypeOK
      <4>3. \A k \in 1 .. Len(links[g]) : links[g][k] \in Writes /\ err[links[g][k]] = "ok"
        BY <3>3 DEF VisibleInv
      <4> QED
        BY <3>2, <4>1, <4>2, <4>3
    <3> QED
      BY <2>4, <3>5, <3>6, <3>7 DEF VisibleInv
  <2>8. CASE UNCHANGED <<links, result, err>>
    BY <2>1, <2>4, <2>8 DEF VisibleInv, AckedWritesVisible
  <2> QED
    BY <1>3, <2>5, <2>6, <2>7, <2>8 DEF Execute, SelectGraph, AcquireRead, AnnounceWrite,
       AcquireWrite, CommitFact, Release, Finish, dataVars
<1> QED
  BY <1>1, <1>2, <1>3, ClientSteps

-----------------------------------------------------------------------------
(* The refinement.                                                         *)

\* A new scheduler is a new service.
LEMMA ServiceInit == Init => Service!Init
<1> SUFFICES ASSUME Init PROVE Service!Init
  OBVIOUS
<1>1. \A s \in Streams : call[s] = "idle" /\ result[s] = NoSnapshot
  BY DEF Init
<1>3. \A s \in Streams : Phase(s) = "new" /\ result[s].facts = <<>>
  BY <1>1 DEF Phase, Returned, NoSnapshot
<1>2. links = [g \in Graphs |-> <<>>]
  BY DEF Init
<1> QED
  BY <1>2, <1>3 DEF Service!Init

\* A step that concerns one stream changes only that stream's phase.
LEMMA PhaseOf ==
  ASSUME NEW s \in Streams,
         \A r \in Streams \ {s} :
           /\ call'[r] = call[r] /\ err'[r] = err[r]
           /\ r \in done' <=> r \in done
  PROVE  [r \in Streams |-> Phase(r)]' = [[r \in Streams |-> Phase(r)] EXCEPT ![s] = Phase(s)']
<1>1. \A r \in Streams \ {s} : Phase(r)' = Phase(r)
  BY DEF Phase
<1> QED
  BY <1>1

\* Each step is a step of the service or leaves the service alone: Submit calls
\* and refuses, Commit and Select apply and fail, Finish answers.
LEMMA ServiceStep ==
  TypeInv /\ LockInv /\ TornInv /\ OnceInv /\ OutcomeInv /\ [Next]_vars
    => [Service!Next]_(Service!serviceVars)
<1> SUFFICES ASSUME TypeInv, LockInv, TornInv, OnceInv, OutcomeInv, [Next]_vars
             PROVE  [Service!Next]_(Service!serviceVars)
  OBVIOUS
<1> DEFINE phase == [r \in Streams |-> Phase(r)]
           found == [r \in Streams |-> result[r].facts]
<1>1. CASE UNCHANGED <<call, acked, links, result, err, done>>
  BY <1>1 DEF Service!serviceVars, Phase
<1>2. ASSUME NEW s \in Streams, Submit(s) PROVE [Service!Next]_(Service!serviceVars)
  <2>1. UNCHANGED <<links, result, err, done>>
    BY <1>2 DEF Submit, SubmitRefused, SubmitCounted, SubmitSelect, Enqueue, SubmitQuit,
       SubmitCancelled, SubmitTimeout, runVars, dataVars
  <2>2. /\ \/ call[s] = "idle" /\ call' = [call EXCEPT ![s] = "ErrShutdown"]
           \/ call[s] = "idle" /\ call' = [call EXCEPT ![s] = "parked"]
           \/ call[s] = "parked" /\ call' = [call EXCEPT ![s] = "accepted"]
           \/ /\ call[s] = "parked"
              /\ \E r \in Returned \ {"accepted"} : call' = [call EXCEPT ![s] = r]
    BY <1>2 DEF Submit, SubmitRefused, SubmitCounted, SubmitSelect, Enqueue, SubmitQuit,
       SubmitCancelled, SubmitTimeout, Return, Returned
  <2>3. err[s] = "none" /\ s \notin done
    BY <2>2, NoOutcomeYet
  <2>4. phase' = [phase EXCEPT ![s] = Phase(s)']
    BY <2>1, <2>2, PhaseOf DEF TypeInv, TypeOK
  <2>5. \/ Phase(s) = "new" /\ Phase(s)' = "refused"
        \/ Phase(s) = "new" /\ Phase(s)' = "called"
        \/ Phase(s) = "called" /\ Phase(s)' = "called"
        \/ Phase(s) = "called" /\ Phase(s)' = "refused"
    BY <2>1, <2>2, <2>3 DEF Phase, Returned, TypeInv, TypeOK
  <2>6. links' = links /\ found' = found
    BY <2>1
  <2>7. CASE Phase(s)' = Phase(s)
    BY <2>4, <2>6, <2>7 DEF Service!serviceVars
  <2>8. CASE Phase(s)' # Phase(s)
    <3>1. Service!Call(s) \/ Service!Refuse(s)
      BY <2>4, <2>5, <2>6, <2>8 DEF Service!Call, Service!Refuse, Service!Move
    <3> QED
      BY <3>1 DEF Service!Next
  <2> QED
    BY <2>7, <2>8
<1>3. ASSUME NEW e \in Executors, Execute(e) PROVE [Service!Next]_(Service!serviceVars)
  <2>1. UNCHANGED call /\ at[e] # "idle"
    BY <1>3 DEF Execute, SelectGraph, SelectOutOfBounds, AcquireRead, AnnounceWrite,
       AcquireWrite, CommitRead, CommitRejected, CommitFact, CommitAnchors, Release,
       Finish, ctlVars, callVars
  <2>2. PICK s \in Streams : s = cur[e] /\ s \notin done /\ call[s] = "accepted"
    BY <2>1, OwnStream
  <2>3. CASE SelectOutOfBounds(e) \/ CommitRejected(e)
    <3>1. /\ UNCHANGED <<links, result, done>> /\ err[s] = "none"
          /\ \E r \in {"ErrIndexOutOfBounds", "ErrStreamCommit"} :
               err' = [err EXCEPT ![s] = r]
      BY <2>2, <2>3, NoOutcomeYet DEF SelectOutOfBounds, CommitRejected
    <3>2. Phase(s) = "called" /\ Phase(s)' = "failed"
      BY <2>1, <2>2, <3>1 DEF Phase, Returned, TypeInv, TypeOK
    <3>3. phase' = [phase EXCEPT ![s] = Phase(s)']
      BY <2>1, <3>1, PhaseOf DEF TypeInv, TypeOK
    <3>4. links' = links /\ found' = found
      BY <3>1
    <3>5. Service!Fail(s)
      BY <3>2, <3>3, <3>4 DEF Service!Fail, Service!Move
    <3> QED
      BY <3>5 DEF Service!Next
  <2>4. CASE CommitRead(e)
    <3>1. /\ s \notin Writes /\ Graph(e) = GraphID[s] /\ GraphID[s] \in Graphs
          /\ result' = [result EXCEPT ![s] = [facts |-> facts[GraphID[s]],
                                             links |-> links[GraphID[s]]]]
          /\ err' = [err EXCEPT ![s] = "ok"] /\ err[s] = "none"
          /\ UNCHANGED <<links, done>>
      BY <2>2, <2>4, NoOutcomeYet DEF CommitRead, Graph, TypeInv, ExecInv
    <3>2. facts[GraphID[s]] = links[GraphID[s]]
      <4>1. \A f \in Executors : ~(at[f] = "link" /\ Graph(f) = Graph(e))
        BY <2>4, WriterAlone DEF WriterIsAlone, Holds, CommitRead, TypeInv, ExecInv
      <4> QED
        BY <3>1, <4>1 DEF TornInv, CommitInv
    <3>3. Phase(s) = "called" /\ Phase(s)' = "applied"
      BY <2>1, <2>2, <3>1 DEF Phase, Returned, TypeInv, TypeOK
    <3>4. phase' = [phase EXCEPT ![s] = Phase(s)']
      BY <2>1, <3>1, PhaseOf DEF TypeInv, TypeOK
    <3>5. found' = [found EXCEPT ![s] = links[GraphID[s]]]
      BY <3>1, <3>2 DEF TypeInv, TypeOK
    <3>6. Service!Recall(s)
      BY <3>1, <3>3, <3>4, <3>5 DEF Service!Recall, Service!Move
    <3> QED
      BY <3>6 DEF Service!Next
  <2>5. CASE CommitAnchors(e)
    <3>1. /\ s \in Writes /\ GraphID[s] \in Graphs
          /\ links' = [links EXCEPT ![GraphID[s]] = Append(links[GraphID[s]], s)]
          /\ err' = [err EXCEPT ![s] = "ok"] /\ err[s] = "none"
          /\ UNCHANGED <<result, done>>
      BY <2>2, <2>5, NoOutcomeYet DEF CommitAnchors, Graph, TypeInv, ExecInv
    <3>2. Phase(s) = "called" /\ Phase(s)' = "applied"
      BY <2>1, <2>2, <3>1 DEF Phase, Returned, TypeInv, TypeOK
    <3>3. phase' = [phase EXCEPT ![s] = Phase(s)']
      BY <2>1, <3>1, PhaseOf DEF TypeInv, TypeOK
    <3>4. found' = found
      BY <3>1
    <3>5. Service!Remember(s)
      BY <3>1, <3>2, <3>3, <3>4 DEF Service!Remember, Service!Move
    <3> QED
      BY <3>5 DEF Service!Next
  <2>6. CASE Finish(e)
    <3>1. done' = done \cup {s} /\ UNCHANGED <<links, result, err>>
      BY <2>2, <2>6 DEF Finish, dataVars
    <3>2. err[s] # "none"
      BY <2>2, <2>6 DEF OutcomeInv, Finish
    <3>3. \/ Phase(s) = "applied" /\ Phase(s)' = "answered"
          \/ Phase(s) = "failed" /\ Phase(s)' = "error"
      BY <2>1, <2>2, <3>1, <3>2 DEF Phase, Returned, TypeInv, TypeOK
    <3>4. phase' = [phase EXCEPT ![s] = Phase(s)']
      BY <2>1, <3>1, PhaseOf
    <3>5. links' = links /\ found' = found
      BY <3>1
    <3>6. Service!Answer(s)
      BY <3>3, <3>4, <3>5 DEF Service!Answer, Service!Move
    <3> QED
      BY <3>6 DEF Service!Next
  <2>7. CASE UNCHANGED <<links, result, err, done>>
    BY <2>1, <2>7 DEF Service!serviceVars, Phase
  <2> QED
    BY <1>3, <2>3, <2>4, <2>5, <2>6, <2>7 DEF Execute, SelectGraph, AcquireRead,
       AnnounceWrite, AcquireWrite, CommitFact, Release, dataVars
<1> QED
  BY <1>1, <1>2, <1>3, ClientSteps

-----------------------------------------------------------------------------
(* The theorems.                                                           *)

\* The strengthening all of them rest on.
LEMMA SchedulerInvInit == Init => SchedulerInv
  BY TypeInvInit, LockInvInit, TornInvInit, StopInvInit, OnceInvInit, OutcomeInvInit,
     VisibleInvInit DEF SchedulerInv

LEMMA SchedulerInvStep == SchedulerInv /\ [Next]_vars => SchedulerInv'
  BY TypeInvStep, LockInvStep, TornInvStep, StopInvStep, OnceInvStep, OutcomeInvStep,
     VisibleInvStep DEF SchedulerInv

LEMMA Invariance == Spec => []SchedulerInv
  BY SchedulerInvInit, SchedulerInvStep, PTL DEF Spec

\* Read your writes: a recall submitted after a remember was answered without
\* an error finds it, whichever worker runs it and however Stop interferes.
THEOREM AcknowledgedIsVisible == Spec => []AckedWritesVisible
<1>1. SchedulerInv => AckedWritesVisible
  BY DEF SchedulerInv, VisibleInv
<1> QED
  BY <1>1, Invariance, PTL

\* The queues, workers, locks and the shutdown of the scheduler implement a
\* service in which each request takes effect at one instant.
THEOREM Refinement == Spec => ImplementsService
<1>1. SchedulerInv /\ [Next]_vars => [Service!Next]_(Service!serviceVars)
  BY ServiceStep DEF SchedulerInv
<1>2. Spec => Service!Spec
  BY <1>1, Invariance, ServiceInit, PTL DEF Spec, Service!Spec
<1> QED
  BY <1>2 DEF ImplementsService

-----------------------------------------------------------------------------
(* The writes of a graph are committed in the order its lane accepted them, *)
(* although writers, restarts and the drain of Stop take turns at the lane. *)

\* Nothing was accepted or committed at first.
LEMMA LaneInvInit == Init => LaneInv
<1> SUFFICES ASSUME Init PROVE LaneInv
  OBVIOUS
<1>1. \A q \in Queues : chan[q] = <<>> /\ accepted[q] = <<>>
  BY DEF Init
<1>2. /\ \A g \in Graphs : facts[g] = <<>>
      /\ \A e \in Executors : cur[e] = None
  BY DEF Init
<1>3. \A q \in Queues : Taken(q) = 0 /\ Len(chan[q]) = 0
  BY <1>1 DEF Taken
<1>4. \A g \in Graphs : Len(facts[g]) = 0
  BY <1>2
<1> QED
  BY <1>2, <1>3, <1>4 DEF LaneInv, LaneOrder, FactsWithin

\* A lane is a queue, and not the read queue.
LEMMA LanesAreQueues == \A g \in Graphs : g \in Queues /\ g # ReadQueue
  BY DEF Queues, Graphs, ReadQueue

\* A step that neither accepts, takes nor commits a stream.
LEMMA LaneInvKept ==
  ASSUME LaneInv, UNCHANGED <<chan, accepted, facts>>,
         \A e \in Executors : cur'[e] = None \/
           /\ cur'[e] = cur[e]
           /\ at'[e] \in {"select", "acquire", "announced", "commit"} =>
                at[e] \in {"select", "acquire", "announced", "commit"}
  PROVE  LaneInv'
<1>1. \A q \in Queues : Taken(q)' = Taken(q)
  BY DEF Taken
<1>2. LaneOrder'
  BY DEF LaneInv, LaneOrder, AcceptedBefore
<1>3. \A g \in Graphs : FactsWithin(g, Taken(g))'
  <2>1. ASSUME NEW g \in Graphs PROVE FactsWithin(g, Taken(g))'
    <3>1. FactsWithin(g, Taken(g)) /\ Taken(g)' = Taken(g)
      BY <1>1, LanesAreQueues DEF LaneInv
    <3> QED
      BY <3>1 DEF FactsWithin
  <2> QED
    BY <2>1
<1>4. ASSUME NEW e \in Executors, NEW g \in Graphs, cur'[e] # None, QueueOf(cur'[e]) = g
      PROVE  /\ e \in Stoppers \cup {g}
             /\ at'[e] \in {"select", "acquire", "announced", "commit"} =>
                  /\ Taken(g)' >= 1 /\ accepted'[g][Taken(g)'] = cur'[e]
                  /\ FactsWithin(g, Taken(g) - 1)'
  <2>1. cur'[e] = cur[e]
    BY <1>4
  <2>2. e \in Stoppers \cup {g}
    BY <1>4, <2>1 DEF LaneInv
  <2>3. ASSUME at'[e] \in {"select", "acquire", "announced", "commit"}
        PROVE  /\ Taken(g) >= 1 /\ accepted[g][Taken(g)] = cur[e]
               /\ FactsWithin(g, Taken(g) - 1)
    BY <1>4, <2>1, <2>3 DEF LaneInv
  <2>4. Taken(g)' = Taken(g)
    BY <1>1, LanesAreQueues
  <2> QED
    BY <2>1, <2>2, <2>3, <2>4 DEF FactsWithin
<1>5. \A q \in Queues :
         /\ Taken(q)' >= 0
         /\ \A i \in 1 .. Len(chan'[q]) : chan'[q][i] = accepted'[q][Taken(q)' + i]
  BY <1>1 DEF LaneInv
<1> QED
  BY <1>2, <1>3, <1>4, <1>5 DEF LaneInv, QueueOf

\* The numbers of streams a queue accepted, let go of and holds.
LEMMA QueueLengths ==
  ASSUME TypeInv, LaneInv, NEW q \in Queues
  PROVE  /\ Len(accepted[q]) \in Nat /\ Len(chan[q]) \in Nat /\ Taken(q) \in Nat
         /\ Len(accepted[q]) = Taken(q) + Len(chan[q])
<1>1. accepted[q] \in Seq(Streams) /\ chan[q] \in Seq(Streams)
  BY DEF TypeInv, TypeOK
<1>2. Len(accepted[q]) \in Nat /\ Len(chan[q]) \in Nat
  BY <1>1
<1>3. Taken(q) >= 0
  BY DEF LaneInv
<1> QED
  BY <1>2, <1>3 DEF Taken

\* Two executors never work on the same lane: the writer of a lane has gone
\* when Stop drains it, and one Stop drains at a time.
LEMMA OnePerLane ==
  ASSUME TypeInv, StopInv, LaneInv,
         NEW e \in Executors, NEW f \in Executors, NEW g \in Graphs,
         cur[e] # None, cur[f] # None, QueueOf(cur[e]) = g, QueueOf(cur[f]) = g
  PROVE  e = f
<1>1. at[e] # "idle" /\ at[f] # "idle"
  BY DEF TypeInv, ExecInv
<1>2. e \in Stoppers \cup {g} /\ f \in Stoppers \cup {g}
  BY DEF LaneInv
<1> QED
  BY <1>1, <1>2 DEF StopInv, TypeInv, TypeOK

\* Accepting a stream leaves what was taken, and its order, alone.
LEMMA LaneInvEnqueue ==
  ASSUME TypeInv, LaneInv, NEW s \in Streams, Enqueue(s)
  PROVE  LaneInv'
<1> DEFINE q == QueueOf(s)
           n == Len(accepted[q])
<1>1. q \in Queues
  BY QueueOfType
<1>2. /\ chan' = [chan EXCEPT ![q] = Append(chan[q], s)]
      /\ accepted' = [accepted EXCEPT ![q] = Append(accepted[q], s)]
      /\ UNCHANGED <<cur, at, facts>>
  BY DEF Enqueue, runVars, execVars, dataVars
<1> HIDE DEF q
<1>3. /\ \A r \in Queues : /\ Len(accepted[r]) \in Nat /\ Len(chan[r]) \in Nat
                           /\ Taken(r) \in Nat
                           /\ Len(accepted[r]) = Taken(r) + Len(chan[r])
      /\ \A r \in Queues : accepted[r] \in Seq(Streams) /\ chan[r] \in Seq(Streams)
  BY QueueLengths DEF TypeInv, TypeOK
<1>4. /\ Len(chan'[q]) = Len(chan[q]) + 1 /\ Len(accepted'[q]) = n + 1
      /\ chan'[q][Len(chan[q]) + 1] = s /\ accepted'[q][n + 1] = s
      /\ \A i \in 1 .. Len(chan[q]) : chan'[q][i] = chan[q][i]
      /\ \A i \in 1 .. n : accepted'[q][i] = accepted[q][i]
      /\ \A r \in Queues \ {q} : chan'[r] = chan[r] /\ accepted'[r] = accepted[r]
  BY <1>1, <1>2, <1>3 DEF TypeInv, TypeOK
<1>5. \A r \in Queues : Taken(r)' = Taken(r)
  <2>1. Taken(q)' = Taken(q)
    BY <1>1, <1>3, <1>4 DEF Taken
  <2>2. \A r \in Queues \ {q} : Taken(r)' = Taken(r)
    BY <1>4 DEF Taken
  <2> QED
    BY <2>1, <2>2
<1>6. ASSUME NEW r \in Queues, NEW i \in 1 .. Len(accepted[r])
      PROVE  i \in 1 .. Len(accepted'[r]) /\ accepted'[r][i] = accepted[r][i]
  <2>1. CASE r = q
    BY <1>1, <1>3, <1>4, <2>1
  <2>2. CASE r # q
    BY <1>4, <2>2
  <2> QED
    BY <2>1, <2>2
<1>7. ASSUME NEW r \in Queues, NEW i \in 1 .. Len(chan'[r])
      PROVE  chan'[r][i] = accepted'[r][Taken(r) + i]
  <2>1. CASE i \in 1 .. Len(chan[r])
    <3>1. chan'[r][i] = chan[r][i]
      BY <1>4, <2>1
    <3>2. chan[r][i] = accepted[r][Taken(r) + i]
      BY <2>1 DEF LaneInv
    <3>3. Taken(r) + i \in 1 .. Len(accepted[r])
      BY SMTT(30), <1>3, <2>1
    <3> QED
      BY <1>6, <3>1, <3>2, <3>3
  <2>2. CASE i \notin 1 .. Len(chan[r])
    <3>1. r = q /\ i = Len(chan[q]) + 1
      <4>1. r = q
        BY <1>4, <2>2
      <4>2. Len(chan[q]) \in Nat /\ i \in 1 .. Len(chan[q]) + 1
        BY <1>1, <1>3, <1>4, <4>1
      <4> QED
        BY <2>2, <4>1, <4>2
    <3>2. n = Taken(q) + Len(chan[q]) /\ Taken(q) \in Nat /\ Len(chan[q]) \in Nat
      BY <1>1, <1>3
    <3>3. Taken(q) + i = n + 1
      BY <3>1, <3>2
    <3> QED
      BY <1>4, <3>1, <3>3
  <2> QED
    BY <2>1, <2>2
<1>8. ASSUME NEW g \in Graphs, NEW m \in Int, m <= Taken(g), FactsWithin(g, m)
      PROVE  \A i \in 1 .. Len(facts[g]) : \E k \in 1 .. m : accepted'[g][k] = facts[g][i]
  <2>1. \A k \in 1 .. m : k \in 1 .. Len(accepted[g])
    BY <1>3, <1>8, LanesAreQueues
  <2>2. \A k \in 1 .. m : accepted'[g][k] = accepted[g][k]
    BY <1>6, <2>1, LanesAreQueues
  <2> QED
    BY <1>8, <2>2 DEF FactsWithin
<1>9. ASSUME NEW g \in Graphs PROVE FactsWithin(g, Taken(g))'
  <2>1. FactsWithin(g, Taken(g)) /\ Taken(g) \in Int
    BY <1>3, LanesAreQueues DEF LaneInv
  <2>2. \A i \in 1 .. Len(facts[g]) : \E k \in 1 .. Taken(g) : accepted'[g][k] = facts[g][i]
    BY <1>8, <2>1
  <2>3. Taken(g)' = Taken(g)
    BY <1>5, LanesAreQueues
  <2> QED
    BY <1>2, <2>2, <2>3 DEF FactsWithin
<1>10. ASSUME NEW e \in Executors, NEW g \in Graphs, cur[e] # None, QueueOf(cur[e]) = g,
              at[e] \in {"select", "acquire", "announced", "commit"}
       PROVE  /\ Taken(g)' >= 1 /\ accepted'[g][Taken(g)'] = cur[e]
              /\ FactsWithin(g, Taken(g) - 1)'
  <2>1. /\ Taken(g) >= 1 /\ accepted[g][Taken(g)] = cur[e]
        /\ FactsWithin(g, Taken(g) - 1)
    BY <1>10 DEF LaneInv
  <2>2. Taken(g) \in 1 .. Len(accepted[g]) /\ Taken(g) - 1 \in Int /\ Taken(g) - 1 <= Taken(g)
    BY <1>3, <2>1, LanesAreQueues
  <2>3. Taken(g)' = Taken(g)
    BY <1>5, LanesAreQueues
  <2>4. accepted'[g][Taken(g)] = cur[e]
    BY <1>6, <2>1, <2>2, LanesAreQueues
  <2>5. \A i \in 1 .. Len(facts[g]) :
          \E k \in 1 .. Taken(g) - 1 : accepted'[g][k] = facts[g][i]
    BY <1>8, <2>1, <2>2
  <2> QED
    BY ZenonT(60), <1>2, <2>1, <2>3, <2>4, <2>5 DEF FactsWithin
<1>11. LaneOrder'
  <2> SUFFICES ASSUME NEW g \in Graphs, NEW i \in 1 .. Len(facts'[g]),
                      NEW j \in 1 .. Len(facts'[g]), i < j
               PROVE  AcceptedBefore(g, facts[g][i], facts[g][j])'
    BY Zenon DEF LaneOrder
  <2>1. AcceptedBefore(g, facts[g][i], facts[g][j])
    BY <1>2 DEF LaneInv, LaneOrder
  <2>2. PICK k \in 1 .. Len(accepted[g]), l \in 1 .. Len(accepted[g]) :
          k < l /\ accepted[g][k] = facts[g][i] /\ accepted[g][l] = facts[g][j]
    BY <2>1 DEF AcceptedBefore
  <2>3. /\ k \in 1 .. Len(accepted'[g]) /\ accepted'[g][k] = facts'[g][i]
        /\ l \in 1 .. Len(accepted'[g]) /\ accepted'[g][l] = facts'[g][j]
    BY <1>2, <1>6, <2>2, LanesAreQueues
  <2> QED
    BY <2>2, <2>3 DEF AcceptedBefore
<1>12. \A r \in Queues : Taken(r)' >= 0
  BY <1>3, <1>5
<1>13. \A r \in Queues : \A i \in 1 .. Len(chan'[r]) : chan'[r][i] = accepted'[r][Taken(r)' + i]
  BY <1>5, <1>7
<1>14. ASSUME NEW e \in Executors, NEW g \in Graphs, cur[e] # None, QueueOf(cur[e]) = g
       PROVE  e \in Stoppers \cup {g}
  BY <1>14 DEF LaneInv
<1> QED
  BY <1>2, <1>9, <1>10, <1>11, <1>12, <1>13, <1>14 DEF LaneInv, QueueOf

\* Taking the head of a lane makes it the last one taken.  Whoever takes it is
\* the lane's writer or Stop, and nobody else has a stream of that lane.
LEMMA LaneInvReceive ==
  ASSUME TypeInv, StopInv, OnceInv, LaneInv, NEW e \in Executors, Receive(e)
  PROVE  LaneInv'
<1>1. PICK q \in Queues : q = Source(e)
  BY SourceType DEF Receive, TypeInv, Executors
<1>2. /\ chan' = [chan EXCEPT ![q] = Tail(chan[q])]
      /\ cur' = [cur EXCEPT ![e] = Head(chan[q])]
      /\ at' = [at EXCEPT ![e] = "select"]
      /\ at[e] = "idle" /\ cur[e] = None /\ chan[q] # <<>>
      /\ UNCHANGED <<accepted, facts>>
  BY <1>1 DEF Receive, TypeInv, ExecInv, callVars, dataVars
<1>3. \A r \in Queues : /\ Len(accepted[r]) \in Nat /\ Len(chan[r]) \in Nat
                        /\ Taken(r) \in Nat
                        /\ Len(accepted[r]) = Taken(r) + Len(chan[r])
  BY QueueLengths
<1>4. chan[q] \in Seq(Streams)
  BY DEF TypeInv, TypeOK
<1> PICK s \in Streams : s = Head(chan[q])
  BY <1>2, <1>4
<1>5. /\ s = chan[q][1] /\ Len(chan[q]) >= 1
      /\ Len(chan'[q]) = Len(chan[q]) - 1
      /\ \A i \in 1 .. Len(chan'[q]) : i + 1 \in 1 .. Len(chan[q]) /\ chan'[q][i] = chan[q][i + 1]
      /\ \A r \in Queues \ {q} : chan'[r] = chan[r]
  BY <1>2, <1>4 DEF TypeInv, TypeOK
<1>6. Taken(q)' = Taken(q) + 1 /\ \A r \in Queues \ {q} : Taken(r)' = Taken(r)
  <2>1. Taken(q)' = Len(accepted[q]) - Len(chan'[q])
    BY <1>2 DEF Taken
  <2>2. Len(accepted[q]) = Taken(q) + Len(chan[q]) /\ Taken(q) \in Nat /\ Len(chan[q]) \in Nat
    BY <1>3
  <2>3. Taken(q)' = Taken(q) + 1
    BY <1>5, <2>1, <2>2
  <2> QED
    BY <1>2, <1>5, <2>3 DEF Taken
<1>7. QueueOf(s) = q
  BY <1>3, <1>5 DEF OnceInv
<1>8. chan[q][1] = accepted[q][Taken(q) + 1]
  BY <1>3, <1>5 DEF LaneInv
<1>9. \A r \in Queues : Taken(r)' \in Nat /\ Taken(r)' >= Taken(r)
  BY <1>3, <1>6
<1>10. ASSUME NEW r \in Queues, NEW i \in 1 .. Len(chan'[r])
       PROVE  chan'[r][i] = accepted[r][Taken(r)' + i]
  <2>1. CASE r = q
    <3>1. i + 1 \in 1 .. Len(chan[q]) /\ chan'[q][i] = chan[q][i + 1]
      BY <1>5, <2>1
    <3>2. chan[q][i + 1] = accepted[q][Taken(q) + (i + 1)]
      BY <3>1 DEF LaneInv
    <3>3. Taken(q) + (i + 1) = Taken(q)' + i
      BY <1>3, <1>6, <3>1
    <3> QED
      BY <2>1, <3>1, <3>2, <3>3
  <2>2. CASE r # q
    <3>1. chan'[r] = chan[r] /\ Taken(r)' = Taken(r)
      BY <1>5, <1>6, <2>2
    <3>2. chan[r][i] = accepted[r][Taken(r) + i]
      BY <3>1 DEF LaneInv
    <3> QED
      BY <3>1, <3>2
  <2> QED
    BY <2>1, <2>2
<1>11. ASSUME NEW g \in Graphs PROVE FactsWithin(g, Taken(g))'
  <2>1. \A i \in 1 .. Len(facts[g]) : \E k \in 1 .. Taken(g) : accepted[g][k] = facts[g][i]
    BY DEF LaneInv, FactsWithin
  <2>2. 1 .. Taken(g) \subseteq 1 .. Taken(g)'
    BY <1>3, <1>9, LanesAreQueues
  <2> QED
    BY <1>2, <2>1, <2>2 DEF FactsWithin
<1>12. ASSUME q \in Graphs, NEW f \in Executors \ {e}, cur[f] # None
       PROVE  QueueOf(cur[f]) # q
  <2>1. SUFFICES ASSUME QueueOf(cur[f]) = q PROVE FALSE
    OBVIOUS
  <2>2. f \in Stoppers \cup {q} /\ at[f] # "idle"
    BY <1>12, <2>1 DEF LaneInv, TypeInv, ExecInv
  <2>3. e \in Stoppers \cup {q}
    BY <1>1, <1>12, LanesAreQueues DEF Source, Executors
  <2>4. pc[e] \in {"select", "drain"} /\ (e \in Stoppers => pc[e] = "drain")
    BY DEF Receive
  <2> QED
    BY <1>12, <2>2, <2>3, <2>4 DEF StopInv, TypeInv, TypeOK
<1>13. ASSUME NEW f \in Executors, NEW g \in Graphs, cur'[f] # None, QueueOf(cur'[f]) = g
       PROVE  /\ f \in Stoppers \cup {g}
              /\ at'[f] \in {"select", "acquire", "announced", "commit"} =>
                   /\ Taken(g)' >= 1 /\ accepted[g][Taken(g)'] = cur'[f]
                   /\ FactsWithin(g, Taken(g) - 1)'
  <2>1. CASE f = e
    <3>1. cur'[f] = s /\ g = q
      BY <1>2, <1>7, <1>13, <2>1 DEF TypeInv, TypeOK
    <3>2. f \in Stoppers \cup {g}
      BY <1>1, <2>1, <3>1, LanesAreQueues DEF Source, Executors
    <3>3. Taken(g)' >= 1 /\ accepted[g][Taken(g)'] = s
      BY <1>3, <1>5, <1>6, <1>8, <3>1
    <3>4. Taken(g)' - 1 = Taken(g)
      BY <1>3, <1>6, <3>1
    <3>5. \A i \in 1 .. Len(facts[g]) :
            \E k \in 1 .. Taken(g)' - 1 : accepted[g][k] = facts[g][i]
      BY <3>4 DEF LaneInv, FactsWithin
    <3> QED
      BY <1>2, <3>1, <3>2, <3>3, <3>5 DEF FactsWithin
  <2>2. CASE f # e
    <3>1. cur'[f] = cur[f] /\ at'[f] = at[f]
      BY <1>2, <2>2 DEF TypeInv, TypeOK
    <3>2. g # q
      BY <1>12, <1>13, <2>2, <3>1
    <3>3. Taken(g)' = Taken(g)
      BY <1>6, <3>2, LanesAreQueues
    <3>4. f \in Stoppers \cup {g}
      BY <1>13, <3>1 DEF LaneInv
    <3>5. ASSUME at[f] \in {"select", "acquire", "announced", "commit"}
          PROVE  /\ Taken(g) >= 1 /\ accepted[g][Taken(g)] = cur[f]
                 /\ FactsWithin(g, Taken(g) - 1)
      BY <1>13, <3>1, <3>5 DEF LaneInv
    <3> QED
      BY <1>2, <3>1, <3>3, <3>4, <3>5 DEF FactsWithin
  <2> QED
    BY <2>1, <2>2
<1>14. LaneOrder'
  BY <1>2 DEF LaneInv, LaneOrder, AcceptedBefore
<1> QED
  BY <1>2, <1>9, <1>10, <1>11, <1>13, <1>14 DEF LaneInv, QueueOf

\* A write commits its fact after those of everything its lane accepted before.
LEMMA LaneInvCommit ==
  ASSUME TypeInv, StopInv, LaneInv, NEW e \in Executors, CommitFact(e)
  PROVE  LaneInv'
<1> DEFINE g == Graph(e)
           n == Len(facts[g])
           t == Taken(g)
<1>1. /\ cur[e] \in Writes /\ g \in Graphs /\ at[e] = "commit"
      /\ facts' = [facts EXCEPT ![g] = Append(facts[g], cur[e])]
      /\ at' = [at EXCEPT ![e] = "link"]
      /\ UNCHANGED <<cur, chan, accepted>>
  BY DEF CommitFact, Goto, TypeInv, ExecInv, ctlVars, callVars
<1>2. cur[e] # None /\ QueueOf(cur[e]) = g
  BY <1>1 DEF QueueOf, Graph, Graphs
<1> HIDE DEF g
<1>3. /\ Len(facts'[g]) = n + 1 /\ facts'[g][n + 1] = cur[e] /\ n \in Nat
      /\ \A i \in 1 .. n : facts'[g][i] = facts[g][i]
      /\ \A h \in Graphs \ {g} : facts'[h] = facts[h]
  BY <1>1 DEF TypeInv, TypeOK
<1>4. \A q \in Queues : Taken(q)' = Taken(q)
  BY <1>1 DEF Taken
<1>5. /\ t >= 1 /\ accepted[g][t] = cur[e]
      /\ \A i \in 1 .. n : \E k \in 1 .. t - 1 : accepted[g][k] = facts[g][i]
  <2>1. t >= 1 /\ accepted[g][t] = cur[e] /\ FactsWithin(g, t - 1)
    BY <1>1, <1>2 DEF LaneInv
  <2> QED
    BY <2>1 DEF FactsWithin
<1>6. t \in Nat /\ t <= Len(accepted[g]) /\ Len(accepted[g]) \in Nat
  <2>1. Len(chan[g]) \in Nat
    BY <1>1, QueueLengths, LanesAreQueues
  <2> QED
    BY <1>1, <2>1, QueueLengths, LanesAreQueues
<1> HIDE DEF n, t
<1>7. ASSUME NEW i \in 1 .. Len(facts'[g])
      PROVE  \E k \in 1 .. t : accepted[g][k] = facts'[g][i]
  <2>1. CASE i \in 1 .. n
    BY <1>3, <1>5, <1>6, <2>1
  <2>2. CASE i = n + 1
    BY <1>3, <1>5, <1>6, <2>2
  <2> QED
    BY <1>3, <2>1, <2>2
<1>8. ASSUME NEW h \in Graphs PROVE FactsWithin(h, Taken(h))'
  <2>1. CASE h = g
    BY <1>1, <1>4, <1>7, <2>1, LanesAreQueues DEF FactsWithin, t
  <2>2. CASE h # g
    BY <1>1, <1>3, <1>4, <2>2, LanesAreQueues DEF LaneInv, FactsWithin
  <2> QED
    BY <2>1, <2>2
<1>9. ASSUME NEW f \in Executors, NEW h \in Graphs, cur[f] # None, QueueOf(cur[f]) = h
      PROVE  /\ f \in Stoppers \cup {h}
             /\ at'[f] \in {"select", "acquire", "announced", "commit"} =>
                  /\ Taken(h)' >= 1 /\ accepted[h][Taken(h)'] = cur[f]
                  /\ FactsWithin(h, Taken(h) - 1)'
  <2>1. f \in Stoppers \cup {h}
    BY <1>9 DEF LaneInv
  <2>2. ASSUME at'[f] \in {"select", "acquire", "announced", "commit"}
        PROVE  /\ Taken(h)' >= 1 /\ accepted[h][Taken(h)'] = cur[f]
               /\ FactsWithin(h, Taken(h) - 1)'
    <3>1. f # e /\ at'[f] = at[f]
      BY <1>1, <2>2 DEF TypeInv, TypeOK
    <3>2. h # g
      BY <1>2, <1>9, <3>1, OnePerLane
    <3>3. /\ Taken(h) >= 1 /\ accepted[h][Taken(h)] = cur[f]
          /\ FactsWithin(h, Taken(h) - 1)
      BY <1>9, <2>2, <3>1 DEF LaneInv
    <3>4. Taken(h)' = Taken(h) /\ facts'[h] = facts[h]
      BY <1>3, <1>4, <3>2, LanesAreQueues
    <3> QED
      BY <1>1, <3>3, <3>4 DEF FactsWithin
  <2> QED
    BY <2>1, <2>2
<1>10. LaneOrder'
  <2> SUFFICES ASSUME NEW h \in Graphs, NEW i \in 1 .. Len(facts'[h]),
                      NEW j \in 1 .. Len(facts'[h]), i < j
               PROVE  AcceptedBefore(h, facts[h][i], facts[h][j])'
    BY Zenon DEF LaneOrder
  <2>1. CASE h = g /\ j = n + 1
    <3>1. i \in 1 .. n /\ facts'[g][i] = facts[g][i] /\ facts'[g][j] = cur[e]
      BY <1>3, <2>1
    <3>2. PICK k \in 1 .. t - 1 : accepted[g][k] = facts[g][i]
      BY <1>5, <3>1
    <3>3. k < t /\ k \in 1 .. Len(accepted[g]) /\ t \in 1 .. Len(accepted[g])
      BY <1>5, <1>6, <3>2
    <3> QED
      BY SMTT(30), <1>1, <1>5, <2>1, <3>1, <3>2, <3>3 DEF AcceptedBefore
  <2>2. CASE ~(h = g /\ j = n + 1)
    <3>1. /\ i \in 1 .. Len(facts[h]) /\ j \in 1 .. Len(facts[h])
          /\ facts'[h][i] = facts[h][i] /\ facts'[h][j] = facts[h][j]
      BY <1>3, <2>2 DEF n
    <3>2. AcceptedBefore(h, facts[h][i], facts[h][j])
      BY <3>1 DEF LaneInv, LaneOrder
    <3> QED
      BY <1>1, <3>1, <3>2 DEF AcceptedBefore
  <2> QED
    BY <2>1, <2>2
<1>11. \A q \in Queues :
         /\ Taken(q)' >= 0
         /\ \A i \in 1 .. Len(chan'[q]) : chan'[q][i] = accepted'[q][Taken(q)' + i]
  BY <1>1, <1>4 DEF LaneInv
<1> QED
  BY <1>1, <1>8, <1>9, <1>10, <1>11 DEF LaneInv, QueueOf

\* Whoever serves a lane, what is committed follows what was accepted.
LEMMA LaneInvStep ==
  TypeInv /\ StopInv /\ OnceInv /\ LaneInv /\ [Next]_vars => LaneInv'
<1> SUFFICES ASSUME TypeInv, StopInv, OnceInv, LaneInv, [Next]_vars PROVE LaneInv'
  OBVIOUS
<1>1. CASE Start
  <2>1. chan' = chan
    BY <1>1 DEF Start, StopInv, TypeInv, TypeOK
  <2>2. UNCHANGED <<cur, at, accepted, facts>>
    BY <1>1 DEF Start, callVars, execVars, dataVars
  <2> QED
    BY <2>1, <2>2, LaneInvKept
<1>6. ASSUME NEW e \in Executors, StartWorker(e) PROVE LaneInv'
  <2>1. UNCHANGED <<chan, cur, at, accepted, facts>>
    BY <1>6 DEF StartWorker, workVars, callVars, execVars, dataVars
  <2> QED
    BY <2>1, LaneInvKept
<1>2. ASSUME NEW s \in Streams, Submit(s) PROVE LaneInv'
  <2>1. CASE Enqueue(s)
    BY <2>1, LaneInvEnqueue
  <2>2. CASE ~Enqueue(s)
    <3>1. UNCHANGED <<chan, cur, at, accepted, facts>>
      BY <1>2, <2>2 DEF Submit, SubmitRefused, SubmitCounted, SubmitSelect, SubmitQuit,
         SubmitCancelled, SubmitTimeout, runVars, execVars, dataVars
    <3> QED
      BY <3>1, LaneInvKept
  <2> QED
    BY <2>1, <2>2
<1>3. ASSUME NEW p \in Stoppers, StopCall(p) \/ Stop(p) PROVE LaneInv'
  <2>1. UNCHANGED <<chan, cur, at, accepted, facts>>
    BY <1>3 DEF StopCall, Stop, StopLock, StopIdle, StopClose, StopSubmitsWait,
       StopWorkersWait, StopNextQueue, StopClear, workVars, callVars, execVars, dataVars
  <2> QED
    BY <2>1, LaneInvKept
<1>4. ASSUME NEW e \in Executors, Run(e) PROVE LaneInv'
  <2>1. CASE Receive(e)
    BY <2>1, LaneInvReceive
  <2>2. CASE CommitFact(e)
    BY <2>2, LaneInvCommit
  <2>3. CASE WorkerQuit(e) \/ WorkerExit(e)
    <3>1. UNCHANGED <<chan, cur, at, accepted, facts>>
      BY <2>3 DEF WorkerQuit, WorkerExit, workVars, callVars, execVars, dataVars
    <3> QED
      BY <3>1, LaneInvKept
  <2>4. CASE Execute(e) /\ ~CommitFact(e) /\ ~Finish(e)
    <3>1. /\ UNCHANGED <<chan, cur, accepted, facts>>
          /\ \/ at[e] \in {"select", "acquire", "announced", "commit"}
             \/ at'[e] \in {"release", "finish"}
          /\ \A f \in Executors \ {e} : at'[f] = at[f]
      BY <2>4 DEF TypeInv, TypeOK, Execute, SelectGraph, SelectOutOfBounds, AcquireRead, AnnounceWrite,
         AcquireWrite, CommitRead, CommitRejected, CommitAnchors, Release, Goto, ctlVars,
         callVars, dataVars
    <3>2. \A f \in Executors :
            at'[f] \in {"select", "acquire", "announced", "commit"} =>
              at[f] \in {"select", "acquire", "announced", "commit"}
      BY <3>1
    <3> QED
      BY <3>1, <3>2, LaneInvKept
  <2>5. CASE Finish(e)
    <3>1. /\ UNCHANGED <<chan, accepted, facts>>
          /\ cur' = [cur EXCEPT ![e] = None] /\ at' = [at EXCEPT ![e] = "idle"]
      BY <2>5 DEF Finish, Goto, ctlVars, callVars, dataVars
    <3>2. cur'[e] = None /\ \A f \in Executors \ {e} : cur'[f] = cur[f] /\ at'[f] = at[f]
      BY <3>1 DEF TypeInv, TypeOK
    <3> QED
      BY <3>1, <3>2, LaneInvKept
  <2> QED
    BY <1>4, <2>1, <2>2, <2>3, <2>4, <2>5 DEF Run
<1>5. CASE UNCHANGED vars
  <2>1. UNCHANGED <<chan, cur, at, accepted, facts>>
    BY <1>5 DEF vars
  <2> QED
    BY <2>1, LaneInvKept
<1> QED
  BY <1>1, <1>2, <1>3, <1>4, <1>5, <1>6 DEF Next, AllQuiet

\* Two remembers of a graph are applied in the order Submit accepted them.
THEOREM WritesInOrder == Spec => []LaneOrder
<1>1. Init => TypeInv /\ StopInv /\ OnceInv /\ LaneInv
  BY TypeInvInit, StopInvInit, OnceInvInit, LaneInvInit
<1>2. TypeInv /\ StopInv /\ OnceInv /\ LaneInv /\ [Next]_vars
        => (TypeInv /\ StopInv /\ OnceInv /\ LaneInv)'
  BY TypeInvStep, StopInvStep, OnceInvStep, LaneInvStep
<1>3. LaneInv => LaneOrder
  BY DEF LaneInv
<1> QED
  BY <1>1, <1>2, <1>3, PTL DEF Spec
=============================================================================
