---------------------------- MODULE ServerProofs ----------------------------
(* Proofs about Server.  The scheduler's invariants hold of the whole server *)
(* too: its steps are the scheduler's, or take and release a shared lock, or *)
(* are none of its business.                                                 *)
EXTENDS Server, SchedulerProofs, FiniteSetTheorems

USE ConstantsAssumption, DistinctGoroutines, RequestsAssumption

HandlersInv == ServerTypeOK /\ LifeInv /\ HandlerInv /\ PollInv

-----------------------------------------------------------------------------
(* The scheduler inside the server.                                        *)

\* A stats handler takes or drops its share of a lock.
PollerLocks(p) == StatsLock(p) \/ StatsLinks(p)

\* What each step of the server is to the scheduler.
LEMMA SchedulerSteps ==
  ASSUME [ServerNext]_allVars
  PROVE  [Next]_vars \/ \E p \in Pollers : PollerLocks(p)
<1>1. CASE UNCHANGED allVars
  BY <1>1 DEF allVars
<1>2. ASSUME NEW s \in Streams, Arrive(s) \/ Disconnect(s) \/ HandleQuery(s)
      PROVE  [Next]_vars
  <2>1. CASE Apply(s)
    BY <2>1 DEF Apply, Next, Submit, SubmitSelect
  <2>2. CASE ~Apply(s)
    BY <1>2, <2>2 DEF Arrive, Disconnect, HandleQuery, Applied, Answer, Abandon
  <2> QED
    BY <2>1, <2>2
<1>3. ASSUME NEW p \in Pollers, StatsArrive(p) \/ HandleStats(p)
      PROVE  [Next]_vars \/ PollerLocks(p)
  BY <1>3 DEF StatsArrive, HandleStats, PollerLocks, StatsRange, StatsEmptySlot, StatsFacts
<1>4. CASE Lifecycle
  <2>1. ASSUME NEW p \in Stoppers, EngineStop(p) PROVE [Next]_vars
    BY <2>1 DEF EngineStop, Next
  <2>2. CASE EngineStart \/ EngineLaunch
    BY <2>2 DEF EngineStart, EngineLaunch, Next
  <2> QED
    BY <1>4, <2>1, <2>2 DEF Lifecycle, DBStart, Serve, ShutdownReturns, DBStop
<1>5. CASE DBStartFails \/ EngineStartFails \/ Signal \/ ServeFails \/ Exit
  BY <1>5 DEF DBStartFails, EngineStartFails, Signal, ServeFails, Exit
<1>6. ASSUME NEW e \in Executors, ServerRun(e) PROVE [Next]_vars
  BY <1>6 DEF ServerRun, Next
<1>7. CASE Exited
  BY <1>7 DEF Exited, allVars
<1> QED
  BY <1>1, <1>2, <1>3, <1>4, <1>5, <1>6, <1>7 DEF ServerNext

\* A stats handler is no executor: sharing a lock is all it does to them.
LEMMA PollerLocksKeep ==
  ASSUME SchedulerInv, NEW p \in Pollers, PollerLocks(p)
  PROVE  SchedulerInv'
<1>1. UNCHANGED <<mode, starts, wg, chan, submits, call, accepted, acked, stopping, sweep, pc,
                   cur, at, wlock, facts, links, result, err, done>>
  BY DEF PollerLocks, StatsLock, StatsLinks, ctlVars, execVars, dataVars, lifeVars, callVars,
         stopVars
<1>2. PICK g : \/ readers' = [readers EXCEPT ![g] = readers[g] \cup {p}] /\ wlock[g] = None
               \/ readers' = [readers EXCEPT ![g] = readers[g] \ {p}]
  BY DEF PollerLocks, StatsLock, StatsLinks
<1>3. /\ readers \in [Graphs -> SUBSET (Executors \cup Pollers)]
      /\ p \notin Executors /\ None \notin Executors
  BY DEF SchedulerInv, TypeInv, TypeOK
<1>4. readers' = [h \in Graphs |-> readers'[h]]
  BY <1>2, <1>3
<1>5. ASSUME NEW h \in Graphs
      PROVE  \/ readers'[h] = readers[h]
             \/ readers'[h] = readers[h] \cup {p} /\ wlock[h] = None
             \/ readers'[h] = readers[h] \ {p}
  BY <1>2, <1>3
<1>6. TypeInv'
  <2>1. \A h \in Graphs : readers'[h] \in SUBSET (Executors \cup Pollers)
    BY <1>3, <1>5
  <2>2. readers' \in [Graphs -> SUBSET (Executors \cup Pollers)]
    BY <1>4, <2>1
  <2> QED
    BY <1>1, <2>2 DEF SchedulerInv, TypeInv, TypeOK, ExecInv, Graph
<1>7. LockInv'
  <2>1. \A e \in Executors : \A h \in Graphs : e \in readers'[h] <=> e \in readers[h]
    BY <1>3, <1>5
  <2>2. \A h \in Graphs : readers[h] = {} /\ wlock[h] # None => readers'[h] = {}
    BY <1>5
  <2> QED
    BY <1>1, <1>3, <2>1, <2>2 DEF SchedulerInv, LockInv, Holds, Graph
<1>8. TornInv' /\ StopInv'
  BY <1>1 DEF SchedulerInv, TornInv, CommitInv, NoTornRead, StopInv, Graph
<1>9. OnceInv' /\ OutcomeInv'
  BY <1>1 DEF SchedulerInv, OnceInv, OutcomeInv, AcceptedOnce, Queued, Executing, QueueOf
<1>10. VisibleInv'
  BY <1>1 DEF SchedulerInv, VisibleInv, AckedWritesVisible
<1> QED
  BY <1>8, <1>9, <1>10, <1>6, <1>7 DEF SchedulerInv

\* What an executor does while handlers wait: answers are final.
LEMMA RunKeepsAnswers ==
  ASSUME SchedulerInv, NEW e \in Executors, Run(e)
  PROVE  /\ UNCHANGED <<call, acked, mode>> /\ done \subseteq done'
         /\ \A s \in done : err'[s] = err[s]
         /\ \A p \in Stoppers : pc'[p] = pc[p]
<1>1. UNCHANGED <<call, acked, mode>> /\ done \subseteq done'
  BY DEF Run, Receive, WorkerQuit, WorkerExit, Execute, SelectGraph, SelectOutOfBounds,
     AcquireRead, AnnounceWrite, AcquireWrite, CommitRead, CommitRejected, CommitFact,
     CommitAnchors, Release, Finish, ctlVars, lifeVars, callVars, workVars
<1>2. \A s \in done : err'[s] = err[s]
  <2>1. CASE SelectOutOfBounds(e) \/ CommitRead(e) \/ CommitRejected(e) \/ CommitAnchors(e)
    <3>1. at[e] # "idle" /\ \E r : err' = [err EXCEPT ![cur[e]] = r]
      BY <2>1 DEF SelectOutOfBounds, CommitRead, CommitRejected, CommitAnchors
    <3>2. cur[e] \notin done
      BY <3>1, OwnStream DEF SchedulerInv
    <3> QED
      BY <3>1, <3>2 DEF SchedulerInv, TypeInv, TypeOK
  <2>2. CASE err' = err
    BY <2>2
  <2> QED
    BY <2>1, <2>2 DEF Run, Receive, WorkerQuit, WorkerExit, Execute, SelectGraph,
       AcquireRead, AnnounceWrite, AcquireWrite, CommitFact, Release, Finish, dataVars, workVars
<1>3. \A p \in Stoppers : pc'[p] = pc[p]
  <2>1. CASE WorkerQuit(e) \/ WorkerExit(e)
    <3>1. e \notin Stoppers /\ \E next : pc' = [pc EXCEPT ![e] = next]
      BY <2>1 DEF WorkerQuit, WorkerExit
    <3> QED
      BY <3>1 DEF SchedulerInv, TypeInv, TypeOK, Executors
  <2>2. CASE pc' = pc
    BY <2>2
  <2> QED
    BY <2>1, <2>2 DEF Run, Receive, Execute, SelectGraph, SelectOutOfBounds,
       AcquireRead, AnnounceWrite, AcquireWrite, CommitRead, CommitRejected, CommitFact,
       CommitAnchors, Release, Finish, ctlVars
<1> QED
  BY <1>1, <1>2, <1>3

\* Starting and stopping the scheduler is none of the handlers' business.
LEMMA LifecycleKeepsAnswers ==
  ASSUME Lifecycle
  PROVE  UNCHANGED <<status, gone, before, poll, call, acked, done, err, readers, wlock, facts, links>>
  BY DEF Lifecycle, DBStart, EngineStart, EngineLaunch, Serve, ShutdownReturns, EngineStop, DBStop,
     Start, StartWorker, StopCall, Stop, StopLock, StopIdle, StopClose, StopSubmitsWait, StopWorkersWait,
     StopNextQueue, StopClear, serverVars, vars, callVars, dataVars, lockVars, workVars

-----------------------------------------------------------------------------
(* The life of the server.                                                 *)

\* The slots are filled before the scheduler starts.
LEMMA LifeInvInit == ServerInit => LifeInv
  BY DEF ServerInit, Init, LifeInv, Executors

\* The scheduler is started once, with the slots full, and is down again when
\* a Stop has returned, which is when the slots are emptied.
LEMMA LifeInvStep ==
  SchedulerInv /\ LifeInv /\ [ServerNext]_allVars => LifeInv'
<1> SUFFICES ASSUME SchedulerInv, LifeInv, [ServerNext]_allVars PROVE LifeInv'
  OBVIOUS
<1>1. CASE UNCHANGED <<phase, slots, mode, pc>>
  BY <1>1 DEF LifeInv
<1>2. ASSUME NEW s \in Streams, Arrive(s) \/ Disconnect(s) \/ HandleQuery(s)
      PROVE  LifeInv'
  <2>1. UNCHANGED <<phase, slots, mode, pc>>
    BY <1>2 DEF Arrive, Disconnect, HandleQuery, Apply, Applied, Answer, Abandon, SubmitRefused,
       SubmitCounted, Enqueue, SubmitQuit, SubmitTimeout, SubmitCancelled, vars, serverVars,
       runVars, lifeVars
  <2> QED
    BY <1>1, <2>1
<1>3. ASSUME NEW p \in Pollers, StatsArrive(p) \/ HandleStats(p)
      PROVE  LifeInv'
  <2>1. UNCHANGED <<phase, slots, mode, pc>>
    BY <1>3 DEF StatsArrive, HandleStats, StatsRange, StatsEmptySlot, StatsLock, StatsFacts,
       StatsLinks, vars, serverCore, ctlVars, lifeVars
  <2> QED
    BY <1>1, <2>1
<1>4. CASE DBStart \/ DBStartFails \/ EngineStartFails \/ Serve \/ Signal \/ ShutdownReturns
           \/ ServeFails \/ Exit
  BY <1>4 DEF LifeInv, DBStart, DBStartFails, EngineStartFails, Serve, Signal, ShutdownReturns,
     ServeFails, Exit, vars
<1>5. CASE EngineStart
  BY <1>5 DEF EngineStart, Start, LifeInv
<1>10. CASE EngineLaunch
  <2>1. PICK e \in Executors : StartWorker(e)
    BY <1>10 DEF EngineLaunch
  <2>2. mode' = mode /\ \A p \in Stoppers : pc'[p] = pc[p]
    BY <2>1 DEF StartWorker, SchedulerInv, TypeInv, TypeOK, Executors
  <2> QED
    BY <1>10, <2>2 DEF EngineLaunch, serverVars, LifeInv
<1>6. ASSUME NEW p \in Stoppers, EngineStop(p) PROVE LifeInv'
  <2>1. phase = "stopping" /\ UNCHANGED <<phase, slots>>
    BY <1>6 DEF EngineStop, serverVars
  <2>2. CASE StopCall(p) \/ StopLock(p) \/ StopSubmitsWait(p) \/ StopWorkersWait(p) \/ StopNextQueue(p)
    <3>1. UNCHANGED mode /\ (pc' = pc \/ \E next \in {"wait", "close", "wg", "drain"} :
                                          pc' = [pc EXCEPT ![p] = next])
      BY <2>2 DEF StopCall, StopLock, StopSubmitsWait, StopWorkersWait, StopNextQueue, lifeVars
    <3> QED
      BY <2>1, <3>1 DEF LifeInv, SchedulerInv, TypeInv, TypeOK, Executors
  <2>3. CASE StopIdle(p) \/ StopClear(p)
    <3>1. mode' = "down"
      BY <2>3 DEF StopIdle, StopClear, lifeVars
    <3> QED
      BY <2>1, <3>1 DEF LifeInv
  <2>4. CASE StopClose(p)
    <3>1. mode # "down" /\ pc' = [pc EXCEPT ![p] = "submits"]
      BY <2>4 DEF StopClose
    <3>2. \A q \in Stoppers : pc'[q] # "returned"
      BY <3>1 DEF LifeInv, SchedulerInv, TypeInv, TypeOK, Executors
    <3> QED
      BY <2>1, <3>2 DEF LifeInv
  <2> QED
    BY <1>6, <2>2, <2>3, <2>4 DEF EngineStop, Stop
<1>7. ASSUME NEW p \in Stoppers, DBStop(p) PROVE LifeInv'
  BY <1>7 DEF DBStop, LifeInv, vars
<1>8. ASSUME NEW e \in Executors, ServerRun(e) PROVE LifeInv'
  <2>1. UNCHANGED <<mode, phase, slots>> /\ \A p \in Stoppers : pc'[p] = pc[p]
    BY <1>8, RunKeepsAnswers DEF ServerRun, serverVars
  <2> QED
    BY <2>1 DEF LifeInv
<1>9. CASE UNCHANGED allVars
  BY <1>1, <1>9 DEF allVars, vars, serverVars
<1> QED
  BY <1>2, <1>3, <1>4, <1>5, <1>6, <1>7, <1>8, <1>9, <1>10 DEF ServerNext, Lifecycle, Exited

-----------------------------------------------------------------------------
(* Requests.                                                               *)

\* No handler has begun.
LEMMA HandlerInvInit == ServerInit => HandlerInv
  BY DEF ServerInit, Init, HandlerInv

\* A step that leaves the handlers alone, and what was answered final.
LEMMA HandlerInvKept ==
  ASSUME HandlerInv, UNCHANGED <<status, before, call, acked>>, done \subseteq done',
         \A s \in done : err'[s] = err[s]
  PROVE  HandlerInv'
  BY DEF HandlerInv

\* Each handler goes from checking to Submit, to waiting, to an answer, and
\* what it answers is what became of its stream.
LEMMA HandlerInvStep ==
  SchedulerInv /\ ServerTypeOK /\ HandlerInv /\ [ServerNext]_allVars => HandlerInv'
<1> SUFFICES ASSUME SchedulerInv, ServerTypeOK, HandlerInv, [ServerNext]_allVars
             PROVE  HandlerInv'
  OBVIOUS
<1>1. ASSUME NEW s \in Streams, Arrive(s) PROVE HandlerInv'
  <2>1. /\ status[s] = "none" /\ UNCHANGED <<call, done, err, acked>>
        /\ before' = [before EXCEPT ![s] = {w \in Writes : status[w] = "200"}]
        /\ \E next \in {"400", "apply"} : status' = [status EXCEPT ![s] = next]
    BY <1>1 DEF Arrive, Reach, vars
  <2>2. call[s] = "idle"
    BY <2>1 DEF HandlerInv
  <2>3. \A w \in Writes : status[w] = "200" => status'[w] = "200"
    BY <2>1 DEF ServerTypeOK
  <2>4. \A r \in Streams \ {s} : status'[r] = status[r] /\ before'[r] = before[r]
    BY <2>1 DEF ServerTypeOK
  <2>5. before'[s] = {w \in Writes : status[w] = "200"} /\ status'[s] \in {"400", "apply"}
    BY <2>1 DEF ServerTypeOK
  <2>6. \A r \in Streams : \A w \in before[r] : w \in Writes
    BY DEF ServerTypeOK
  <2> QED
    BY <2>1, <2>2, <2>3, <2>4, <2>5, <2>6 DEF HandlerInv
<1>2. ASSUME NEW s \in Streams, Apply(s) PROVE HandlerInv'
  <2>1. /\ status[s] = "apply" /\ UNCHANGED <<status, before, done, err>>
        /\ \E r \in {"parked"} \cup Returned : call' = [call EXCEPT ![s] = r]
    BY <1>2 DEF Apply, SubmitRefused, SubmitCounted, Enqueue, SubmitQuit, SubmitTimeout,
       SubmitCancelled, Return, Returned, serverVars, runVars, dataVars
  <2>2. \A r \in Streams \ {s} : call'[r] = call[r]
    BY <2>1 DEF SchedulerInv, TypeInv, TypeOK
  <2>3. CASE SubmitCounted(s)
    <3>1. acked' = [acked EXCEPT ![s] = Writes \cap done]
      BY <2>3 DEF SubmitCounted
    <3>2. before[s] \subseteq Writes \cap done
      BY DEF HandlerInv, ServerTypeOK
    <3>3. before[s] \subseteq acked'[s] /\ \A r \in Streams \ {s} : acked'[r] = acked[r]
      BY <3>1, <3>2 DEF SchedulerInv, TypeInv, TypeOK
    <3> QED
      BY <2>1, <2>2, <3>3 DEF HandlerInv
  <2>4. CASE ~SubmitCounted(s)
    <3>1. UNCHANGED acked /\ (call'[s] \in {"parked", "accepted"} => call[s] = "parked")
      BY <1>2, <2>4 DEF Apply, SubmitRefused, Enqueue, SubmitQuit, SubmitTimeout,
         SubmitCancelled, Return, SchedulerInv, TypeInv, TypeOK
    <3> QED
      BY <2>1, <2>2, <3>1 DEF HandlerInv
  <2> QED
    BY <2>3, <2>4
<1>3. ASSUME NEW s \in Streams, Applied(s) \/ Answer(s) \/ Abandon(s) PROVE HandlerInv'
  <2>1. status[s] \in {"apply", "wait"} /\ UNCHANGED <<call, done, err, acked, before>>
    BY <1>3 DEF Applied, Answer, Abandon, vars
  <2>2. PICK next : /\ status' = [status EXCEPT ![s] = next]
                    /\ \/ next = "wait" /\ call[s] = "accepted"
                       \/ next \in {"429", "503"} /\ call[s] \in Returned \ {"accepted"}
                       \/ next \in {"400", "500"} /\ s \in done /\ err[s] # "ok"
                       \/ next = "200" /\ s \in done /\ err[s] = "ok"
                       \/ next = "204" /\ s \in done /\ err[s] = "ok" /\ s \notin Writes
                       \/ next = "gone"
    <3>1. CASE Applied(s)
      BY <3>1 DEF Applied, Reach, Returned
    <3>2. CASE Answer(s)
      BY <3>2 DEF Answer, Reach, errorToResponse
    <3>3. CASE Abandon(s)
      BY <3>3 DEF Abandon, Reach
    <3> QED
      BY <1>3, <3>1, <3>2, <3>3
  <2>3. status'[s] = next /\ \A r \in Streams \ {s} : status'[r] = status[r]
    BY <2>2 DEF ServerTypeOK
  <2>4. \A r \in Streams : \A w \in before[r] : w \in Streams /\ status[w] = "200"
    BY DEF HandlerInv, ServerTypeOK
  <2>5. \A r \in Streams : \A w \in before[r] : status'[w] = "200"
    BY <2>1, <2>3, <2>4
  <2> QED
    BY <2>1, <2>2, <2>3, <2>5 DEF HandlerInv
<1>4. ASSUME NEW e \in Executors, ServerRun(e) PROVE HandlerInv'
  <2>1. UNCHANGED <<status, before>>
    BY <1>4 DEF ServerRun, serverVars
  <2> QED
    BY <1>4, <2>1, RunKeepsAnswers, HandlerInvKept DEF ServerRun
<1>5. CASE UNCHANGED <<status, before, call, acked, done, err>>
  BY <1>5, HandlerInvKept
<1>6. ASSUME NEW s \in Streams, Disconnect(s) PROVE HandlerInv'
  BY <1>5, <1>6 DEF Disconnect, vars
<1>7. ASSUME NEW p \in Pollers, StatsArrive(p) \/ HandleStats(p) PROVE HandlerInv'
  BY <1>5, <1>7 DEF StatsArrive, HandleStats, StatsRange, StatsEmptySlot, StatsLock, StatsFacts,
     StatsLinks, vars, serverCore, ctlVars, callVars, dataVars
<1>8. CASE DBStartFails \/ EngineStartFails \/ Signal \/ ServeFails \/ Exit \/ UNCHANGED allVars
  BY <1>5, <1>8 DEF DBStartFails, EngineStartFails, Signal, ServeFails, Exit, allVars, vars,
     serverVars
<1> QED
  BY <1>1, <1>2, <1>3, <1>4, <1>5, <1>6, <1>7, <1>8, LifecycleKeepsAnswers
     DEF ServerNext, HandleQuery, Exited

-----------------------------------------------------------------------------
(* Statistics.                                                             *)

\* A request answered stays answered.
LEMMA AnswersStay ==
  ASSUME ServerTypeOK, [ServerNext]_allVars, NEW w \in Streams, status[w] = "200"
  PROVE  status'[w] = "200"
<1>1. ASSUME NEW s \in Streams, Arrive(s) \/ Applied(s) \/ Answer(s) \/ Abandon(s)
      PROVE  status'[w] = "200"
  <2>1. status[s] # "200" /\ \E next : status' = [status EXCEPT ![s] = next]
    BY <1>1 DEF Arrive, Applied, Answer, Abandon, Reach
  <2> QED
    BY <2>1 DEF ServerTypeOK
<1>2. CASE status' = status
  BY <1>2
<1> QED
  BY <1>1, <1>2, LifecycleKeepsAnswers DEF ServerNext, HandleQuery, Apply, Disconnect, StatsArrive,
     HandleStats, StatsRange, StatsEmptySlot, StatsLock, StatsFacts, StatsLinks, DBStartFails,
     EngineStartFails, Signal, ServeFails, Exit, Exited, ServerRun, serverVars, serverCore, allVars

\* Nobody polls at first.
LEMMA PollInvInit == ServerInit => PollInv
  BY DEF ServerInit, PollInv, NoPoll

\* While a stats handler shares a graph's lock no executor changes the graph.
LEMMA RunKeepsShares ==
  ASSUME SchedulerInv, NEW e \in Executors, Run(e),
         NEW p \in Pollers, NEW g \in Graphs, p \in readers[g]
  PROVE  p \in readers'[g] /\ facts'[g] = facts[g]
<1>1. p # e
  OBVIOUS
<1>2. readers \in [Graphs -> SUBSET (Executors \cup Pollers)] /\ facts \in [Graphs -> Seq(Writes)]
  BY DEF SchedulerInv, TypeInv, TypeOK
<1>3. CASE CommitFact(e)
  <2>1. Holds(e) /\ cur[e] \in Writes /\ Graph(e) \in Graphs /\ readers' = readers
    BY <1>3 DEF CommitFact, Holds, SchedulerInv, TypeInv, ExecInv, lockVars
  <2>2. readers[Graph(e)] = {}
    BY <2>1 DEF SchedulerInv, LockInv
  <2>3. \E v : facts' = [facts EXCEPT ![Graph(e)] = v]
    BY <1>3 DEF CommitFact
  <2>4. Graph(e) # g
    BY <2>2
  <2>5. facts'[g] = facts[g]
    BY <1>2, <2>3, <2>4
  <2> QED
    BY <2>1, <2>5
<1>4. CASE AcquireRead(e)
  <2>1. facts' = facts /\ readers' = [readers EXCEPT ![Graph(e)] = readers[Graph(e)] \cup {e}]
    BY <1>4 DEF AcquireRead, dataVars
  <2> QED
    BY <1>2, <2>1
<1>5. CASE Release(e)
  <2>1. facts' = facts
    BY <1>5 DEF Release, dataVars
  <2>2. readers' = readers \/ readers' = [readers EXCEPT ![Graph(e)] = readers[Graph(e)] \ {e}]
    BY <1>5 DEF Release
  <2> QED
    BY <1>1, <1>2, <2>1, <2>2
<1>6. CASE UNCHANGED <<readers, facts>>
  BY <1>6
<1> QED
  BY <1>3, <1>4, <1>5, <1>6 DEF Run, Receive, WorkerQuit, WorkerExit, Execute, SelectGraph,
     SelectOutOfBounds, AnnounceWrite, AcquireWrite, CommitRead, CommitRejected, CommitAnchors,
     Finish, lockVars, dataVars, workVars

\* Where a stats handler shares the lock, the graph is whole.
LEMMA SharedIsWhole ==
  ASSUME SchedulerInv, NEW p \in Pollers, NEW g \in Graphs, p \in readers[g]
  PROVE  facts[g] = links[g]
<1>1. ASSUME NEW e \in Executors, at[e] = "link", Graph(e) = g PROVE FALSE
  <2>1. Holds(e) /\ cur[e] \in Writes
    BY <1>1 DEF Holds, SchedulerInv, TypeInv, ExecInv
  <2>2. readers[g] = {}
    BY <1>1, <2>1 DEF SchedulerInv, LockInv
  <2> QED
    BY <2>2
<1> QED
  BY <1>1 DEF SchedulerInv, TornInv, CommitInv

\* A sequence is at least as long as any set of its elements is large.
LEMMA SetOfElements ==
  ASSUME NEW S, NEW seq \in Seq(S), NEW T, \A w \in T : \E i \in 1 .. Len(seq) : seq[i] = w
  PROVE  Len(seq) >= Cardinality(T)
<1> DEFINE n == Len(seq)
           f == [w \in T |-> CHOOSE i \in 1 .. n : seq[i] = w]
<1>1. n \in Nat
  OBVIOUS
<1>2. \A w \in T : f[w] \in 1 .. n /\ seq[f[w]] = w
  OBVIOUS
<1>3. f \in Injection(T, 1 .. n)
  BY <1>2 DEF Injection, IsInjective
<1>4. IsFiniteSet(1 .. n) /\ Cardinality(1 .. n) = n
  BY SMTT(30), <1>1, FS_Interval
<1>5. IsFiniteSet(T) /\ Cardinality(T) <= Cardinality(1 .. n)
  BY <1>3, <1>4, FS_Injection
<1> QED
  BY <1>4, <1>5

\* Polls that do not move.
LEMMA PollInvKept ==
  ASSUME PollInv, UNCHANGED poll,
         \A p \in Pollers : \A w \in poll[p].before : status[w] = "200" => status'[w] = "200",
         \A p \in Pollers : \A g \in Graphs :
           p \in readers[g] => p \in readers'[g] /\ facts'[g] = facts[g]
  PROVE  PollInv'
  BY DEF PollInv

Counters == [at : {"none", "range", "slot", "facts", "links"}, held : SUBSET Graphs,
             slot : 0 .. NumGraphs, before : SUBSET Writes,
             facts : [Graphs -> Nat], links : [Graphs -> Nat]]

\* What PollInv says of one handler: q, where it is, and the shared state it
\* depends on.
PollSound(q, c, share, stored, answer) ==
    /\ c.at \in {"none", "range"} => c.slot = 0
    /\ c.at \in {"facts", "links"} => c.slot \in Graphs /\ q \in share[c.slot]
    /\ c.at = "links" => c.facts[c.slot] = Len(stored[c.slot])
    /\ \A w \in c.before : answer[w] = "200"
    /\ \A g \in Graphs :
         /\ ~(c.at = "links" /\ c.slot = g) => c.facts[g] = c.links[g]
         /\ g \in c.held /\ g < c.slot =>
              c.facts[g] >= Cardinality({w \in c.before : GraphID[w] = g})

\* A stats handler counts one graph at a time, under its lock, and there it
\* finds at least the writes that were answered before the poll.
LEMMA PollStep ==
  ASSUME SchedulerInv, ServerTypeOK, HandlerInv, PollInv,
         NEW p \in Pollers, StatsArrive(p) \/ HandleStats(p)
  PROVE  \E c \in Counters :
           poll' = [poll EXCEPT ![p] = c] /\ PollSound(p, c, readers', facts', status')
<1>1. PICK b \in Counters : b = poll[p] /\ PollSound(p, b, readers, facts, status)
  BY DEF ServerTypeOK, PollInv, PollSound, Counters
<1>2. UNCHANGED <<status, slots, facts, links>>
  BY DEF StatsArrive, HandleStats, StatsRange, StatsEmptySlot, StatsLock, StatsFacts, StatsLinks,
     vars, serverCore, dataVars
<1>3. NumGraphs \in Nat /\ Graphs = 0 .. NumGraphs - 1 /\ slots \subseteq Graphs
  BY DEF Graphs, ServerTypeOK
<1>4. \A g \in Graphs : Len(facts[g]) \in Nat /\ Len(links[g]) \in Nat
  BY DEF SchedulerInv, TypeInv, TypeOK
<1>5. CASE StatsArrive(p)
  <2> DEFINE answered == {w \in Writes : status[w] = "200"}
  <2>1. /\ poll' = [poll EXCEPT ![p] = [b EXCEPT !.at = "range", !.before = answered]]
        /\ b.at = "none" /\ readers' = readers
    BY <1>1, <1>5 DEF StatsArrive, vars
  <2> DEFINE c == [b EXCEPT !.at = "range", !.before = answered]
  <2>2. /\ c \in Counters
        /\ c.at = "range" /\ c.before = answered
        /\ c.held = b.held /\ c.slot = b.slot /\ c.facts = b.facts /\ c.links = b.links
    BY <1>1 DEF Counters
  <2> HIDE DEF c
  <2>3. /\ c.slot = 0
        /\ \A g \in Graphs : c.facts[g] = c.links[g]
    BY <1>1, <2>1, <2>2 DEF PollSound
  <2>4. \A w \in c.before : status'[w] = "200"
    BY <1>1, <1>2, <2>2 DEF PollSound
  <2>5. \A g \in Graphs : ~(g < 0)
    BY <1>3
  <2>6. PollSound(p, c, readers', facts', status')
    BY <2>2, <2>3, <2>4, <2>5 DEF PollSound
  <2> QED
    BY <2>1, <2>2, <2>6 DEF c
<1>6. CASE StatsRange(p)
  <2>1. /\ poll' = [poll EXCEPT ![p] = [b EXCEPT !.at = "slot", !.held = slots]]
        /\ b.at = "range" /\ readers' = readers
    BY <1>1, <1>6 DEF StatsRange, vars
  <2> DEFINE c == [b EXCEPT !.at = "slot", !.held = slots]
  <2>2. /\ c \in Counters
        /\ c.at = "slot" /\ c.held = slots
        /\ c.slot = b.slot /\ c.before = b.before /\ c.facts = b.facts /\ c.links = b.links
    BY <1>1, <1>3 DEF Counters
  <2> HIDE DEF c
  <2>3. /\ c.slot = 0
        /\ \A g \in Graphs : c.facts[g] = c.links[g]
    BY <1>1, <2>1, <2>2 DEF PollSound
  <2>4. \A w \in c.before : status'[w] = "200"
    BY <1>1, <1>2, <2>2 DEF PollSound
  <2>5. \A g \in Graphs : ~(g < 0)
    BY <1>3
  <2>6. PollSound(p, c, readers', facts', status')
    BY <2>2, <2>3, <2>4, <2>5 DEF PollSound
  <2> QED
    BY <2>1, <2>2, <2>6 DEF c
<1>7. CASE StatsEmptySlot(p)
  <2>1. /\ poll' = [poll EXCEPT ![p] = [b EXCEPT !.slot = b.slot + 1]]
        /\ b.at = "slot" /\ b.slot \in Graphs \ b.held /\ readers' = readers
    BY <1>1, <1>7 DEF StatsEmptySlot, vars
  <2> DEFINE c == [b EXCEPT !.slot = b.slot + 1]
  <2>2. b.slot + 1 \in 0 .. NumGraphs
    BY <1>3, <2>1
  <2>3. /\ c \in Counters
        /\ c.slot = b.slot + 1 /\ c.held = b.held
        /\ c.at = b.at /\ c.before = b.before /\ c.facts = b.facts /\ c.links = b.links
    BY <1>1, <2>2 DEF Counters
  <2> HIDE DEF c
  <2>4. ASSUME NEW g \in Graphs, g \in c.held, g < c.slot PROVE g < b.slot
    BY <1>3, <2>1, <2>3, <2>4
  <2>5. PollSound(p, c, readers', facts', status')
    BY <1>1, <1>2, <2>1, <2>3, <2>4 DEF PollSound
  <2> QED
    BY <2>1, <2>3, <2>5 DEF c
<1>8. CASE StatsLock(p)
  <2>1. /\ poll' = [poll EXCEPT ![p] = [b EXCEPT !.at = "facts"]]
        /\ b.at = "slot" /\ b.slot \in b.held
        /\ readers' = [readers EXCEPT ![b.slot] = readers[b.slot] \cup {p}]
    BY <1>1, <1>8 DEF StatsLock
  <2> DEFINE c == [b EXCEPT !.at = "facts"]
  <2>2. /\ c \in Counters
        /\ c.at = "facts" /\ c.held = b.held
        /\ c.slot = b.slot /\ c.before = b.before /\ c.facts = b.facts /\ c.links = b.links
    BY <1>1 DEF Counters
  <2> HIDE DEF c
  <2>3. b.slot \in Graphs
    BY <1>1, <2>1 DEF Counters
  <2>4. p \in readers'[b.slot]
    BY <2>1, <2>3 DEF SchedulerInv, TypeInv, TypeOK
  <2>5. PollSound(p, c, readers', facts', status')
    BY <1>1, <1>2, <2>1, <2>2, <2>3, <2>4 DEF PollSound
  <2> QED
    BY <2>1, <2>2, <2>5 DEF c
<1>9. CASE StatsFacts(p)
  <2> DEFINE h == b.slot
             counted == [b.facts EXCEPT ![h] = Len(facts[h])]
  <2>1. /\ poll' = [poll EXCEPT ![p] = [b EXCEPT !.at = "links", !.facts = counted]]
        /\ b.at = "facts" /\ readers' = readers
    <3>1. /\ b.at = "facts" /\ readers' = readers
          /\ poll' = [poll EXCEPT ![p].at = "links", ![p].facts[h] = Len(facts[h])]
      BY <1>1, <1>9 DEF StatsFacts, vars
    <3>2. DOMAIN poll = Pollers /\ b = poll[p] /\ b \in Counters
      BY <1>1 DEF ServerTypeOK
    <3> QED
      BY <3>1, <3>2 DEF Counters
  <2>2. h \in Graphs /\ p \in readers[h]
    BY <1>1, <2>1 DEF PollSound
  <2>3. /\ counted \in [Graphs -> Nat] /\ counted[h] = Len(facts[h])
        /\ \A g \in Graphs \ {h} : counted[g] = b.facts[g]
    BY <1>1, <1>4, <2>2 DEF Counters
  <2> HIDE DEF counted
  <2> DEFINE c == [b EXCEPT !.at = "links", !.facts = counted]
  <2>4. /\ c \in Counters
        /\ c.at = "links" /\ c.facts = counted
        /\ c.slot = b.slot /\ c.before = b.before /\ c.held = b.held /\ c.links = b.links
    BY <1>1, <2>3 DEF Counters
  <2> HIDE DEF c
  <2>5. \A g \in Graphs : g < c.slot => g # h
    BY <1>3, <2>2, <2>4
  <2>6. ASSUME NEW g \in Graphs
        PROVE  /\ g # h => c.facts[g] = c.links[g]
               /\ g \in c.held /\ g < c.slot =>
                    c.facts[g] >= Cardinality({w \in c.before : GraphID[w] = g})
    BY ZenonT(60), <1>1, <2>1, <2>3, <2>4, <2>5 DEF PollSound
  <2>7. PollSound(p, c, readers', facts', status')
    BY <1>1, <1>2, <2>1, <2>2, <2>3, <2>4, <2>6 DEF PollSound
  <2> QED
    BY <2>1, <2>4, <2>7 DEF c
<1>10. CASE StatsLinks(p)
  <2> DEFINE h == b.slot
             counted == [b.links EXCEPT ![h] = Len(links[h])]
  <2>1. /\ poll' = [poll EXCEPT ![p] = [b EXCEPT !.at = "slot", !.slot = h + 1, !.links = counted]]
        /\ b.at = "links"
    <3>1. /\ b.at = "links"
          /\ poll' = [poll EXCEPT ![p].at = "slot", ![p].slot = h + 1,
                                  ![p].links[h] = Len(links[h])]
      BY <1>1, <1>10 DEF StatsLinks
    <3>2. DOMAIN poll = Pollers /\ b = poll[p] /\ b \in Counters
      BY <1>1 DEF ServerTypeOK
    <3> QED
      BY <3>1, <3>2 DEF Counters
  <2>2. h \in Graphs /\ p \in readers[h] /\ b.facts[h] = Len(facts[h])
    BY <1>1, <2>1 DEF PollSound
  <2>3. facts[h] = links[h]
    BY <2>2, SharedIsWhole
  <2>4. Len(links[h]) >= Cardinality({w \in b.before : GraphID[w] = h})
    <3>1. ASSUME NEW w \in {v \in b.before : GraphID[v] = h}
          PROVE  \E i \in 1 .. Len(links[h]) : links[h][i] = w
      <4>1. w \in Writes /\ status[w] = "200" /\ GraphID[w] = h
        BY <1>1 DEF PollSound, Counters
      <4>2. err[w] = "ok"
        BY <4>1 DEF HandlerInv
      <4> QED
        BY <4>1, <4>2 DEF SchedulerInv, VisibleInv
    <3>2. links[h] \in Seq(Writes)
      BY <2>2 DEF SchedulerInv, TypeInv, TypeOK
    <3> QED
      BY <3>1, <3>2, SetOfElements
  <2>5. /\ counted \in [Graphs -> Nat] /\ counted[h] = b.facts[h]
        /\ \A g \in Graphs \ {h} : counted[g] = b.links[g]
    BY <1>1, <1>4, <2>2, <2>3 DEF Counters
  <2>6. h + 1 \in 0 .. NumGraphs
    BY <1>3, <2>2
  <2> HIDE DEF counted
  <2> DEFINE c == [b EXCEPT !.at = "slot", !.slot = h + 1, !.links = counted]
  <2>7. /\ c \in Counters
        /\ c.at = "slot" /\ c.slot = h + 1 /\ c.links = counted
        /\ c.before = b.before /\ c.held = b.held /\ c.facts = b.facts
    BY <1>1, <2>5, <2>6 DEF Counters
  <2> HIDE DEF c
  <2>8. ASSUME NEW g \in Graphs
        PROVE  /\ c.facts[g] = c.links[g]
               /\ g \in c.held /\ g < c.slot =>
                    c.facts[g] >= Cardinality({w \in c.before : GraphID[w] = g})
    <3>1. CASE g = h
      BY <2>2, <2>3, <2>4, <2>5, <2>7, <3>1
    <3>2. CASE g # h
      <4>1. c.facts[g] = b.facts[g] /\ c.links[g] = b.links[g] /\ b.facts[g] = b.links[g]
        BY <1>1, <2>5, <2>7, <3>2 DEF PollSound
      <4>2. g < h + 1 => g < h
        BY <1>3, <2>2, <3>2
      <4> QED
        BY <1>1, <2>7, <4>1, <4>2 DEF PollSound
    <3> QED
      BY <3>1, <3>2
  <2>9. PollSound(p, c, readers', facts', status')
    BY <1>1, <1>2, <2>7, <2>8 DEF PollSound
  <2> QED
    BY <2>1, <2>7, <2>9 DEF c
<1> QED
  BY <1>5, <1>6, <1>7, <1>8, <1>9, <1>10 DEF HandleStats

\* What a stats handler does is none of the other handlers' business.
LEMMA PollsApart ==
  ASSUME SchedulerInv, NEW p \in Pollers, StatsArrive(p) \/ HandleStats(p),
         NEW q \in Pollers, q # p, NEW g \in Graphs, q \in readers[g]
  PROVE  q \in readers'[g]
<1>1. readers \in [Graphs -> SUBSET (Executors \cup Pollers)]
  BY DEF SchedulerInv, TypeInv, TypeOK
<1>2. \/ readers' = readers
      \/ \E h : readers' = [readers EXCEPT ![h] = readers[h] \cup {p}]
      \/ \E h : readers' = [readers EXCEPT ![h] = readers[h] \ {p}]
  BY DEF StatsArrive, HandleStats, StatsRange, StatsEmptySlot, StatsLock, StatsFacts, StatsLinks,
     vars
<1> QED
  BY <1>1, <1>2

LEMMA PollInvStep ==
  SchedulerInv /\ ServerTypeOK /\ HandlerInv /\ PollInv /\ [ServerNext]_allVars => PollInv'
<1> SUFFICES ASSUME SchedulerInv, ServerTypeOK, HandlerInv, PollInv, [ServerNext]_allVars
             PROVE  PollInv'
  OBVIOUS
<1>1. \A q \in Pollers : \A w \in poll[q].before : status[w] = "200" => status'[w] = "200"
  BY AnswersStay DEF ServerTypeOK
<1>2. ASSUME NEW p \in Pollers, StatsArrive(p) \/ HandleStats(p) PROVE PollInv'
  <2>1. PICK c \in Counters :
          poll' = [poll EXCEPT ![p] = c] /\ PollSound(p, c, readers', facts', status')
    BY <1>2, PollStep
  <2>2. UNCHANGED <<facts, status>>
    BY <1>2 DEF StatsArrive, HandleStats, StatsRange, StatsEmptySlot, StatsLock, StatsFacts,
       StatsLinks, vars, serverCore, dataVars
  <2>3. ASSUME NEW q \in Pollers
        PROVE  PollSound(q, poll'[q], readers', facts', status')
    <3>1. CASE q = p
      BY <2>1, <3>1 DEF ServerTypeOK
    <3>2. CASE q # p
      <4>1. poll'[q] = poll[q]
        BY <2>1, <3>2 DEF ServerTypeOK
      <4>2. PollSound(q, poll[q], readers, facts, status)
        BY DEF PollInv, PollSound
      <4>3. \A g \in Graphs : q \in readers[g] => q \in readers'[g]
        BY <1>2, <3>2, PollsApart
      <4> QED
        BY <2>2, <4>1, <4>2, <4>3 DEF PollSound
    <3> QED
      BY <3>1, <3>2
  <2> QED
    BY <2>3 DEF PollInv, PollSound
<1>3. ASSUME NEW e \in Executors, ServerRun(e) PROVE PollInv'
  <2>1. Run(e) /\ UNCHANGED poll
    BY <1>3 DEF ServerRun, serverVars
  <2> QED
    BY <1>1, <2>1, RunKeepsShares, PollInvKept
<1>4. CASE UNCHANGED <<poll, readers, facts>>
  BY <1>1, <1>4, PollInvKept
<1>5. ASSUME NEW s \in Streams, Arrive(s) \/ Disconnect(s) \/ HandleQuery(s) PROVE PollInv'
  <2>1. UNCHANGED <<poll, readers, facts>>
    BY <1>5 DEF Arrive, Disconnect, HandleQuery, Apply, Applied, Answer, Abandon, SubmitRefused,
       SubmitCounted, Enqueue, SubmitQuit, SubmitTimeout, SubmitCancelled, vars, serverVars,
       runVars, lockVars, dataVars
  <2> QED
    BY <1>4, <2>1
<1>6. CASE DBStartFails \/ EngineStartFails \/ Signal \/ ServeFails \/ Exit \/ UNCHANGED allVars
  BY <1>4, <1>6 DEF DBStartFails, EngineStartFails, Signal, ServeFails, Exit, allVars, vars,
     serverVars
<1> QED
  BY <1>2, <1>3, <1>4, <1>5, <1>6, LifecycleKeepsAnswers DEF ServerNext, Exited

-----------------------------------------------------------------------------
(* The invariant.                                                          *)

LEMMA ServerTypeOKInit == ServerInit => ServerTypeOK
  BY DEF ServerInit, ServerTypeOK, NoPoll, Codes, Graphs

LEMMA ServerTypeOKStep ==
  SchedulerInv /\ HandlersInv /\ [ServerNext]_allVars => ServerTypeOK'
<1> SUFFICES ASSUME SchedulerInv, HandlersInv, [ServerNext]_allVars PROVE ServerTypeOK'
  OBVIOUS
<1>1. CASE UNCHANGED serverVars
  BY <1>1 DEF HandlersInv, ServerTypeOK, serverVars
<1>2. ASSUME NEW s \in Streams, Arrive(s) \/ Disconnect(s) \/ HandleQuery(s)
      PROVE  ServerTypeOK'
  <2>1. CASE Apply(s)
    BY <1>1, <2>1 DEF Apply
  <2>2. CASE Disconnect(s)
    BY <2>2 DEF Disconnect, HandlersInv, ServerTypeOK
  <2>3. CASE Arrive(s)
    <3>1. /\ UNCHANGED <<phase, slots, gone, poll>>
          /\ \E next \in {"400", "apply"} : status' = [status EXCEPT ![s] = next]
      BY <2>3 DEF Arrive, Reach
    <3>2. \E W \in SUBSET Writes : before' = [before EXCEPT ![s] = W]
      BY <2>3 DEF Arrive
    <3> QED
      BY <3>1, <3>2 DEF HandlersInv, ServerTypeOK, Codes
  <2>4. CASE Applied(s) \/ Answer(s) \/ Abandon(s)
    <3>1. /\ UNCHANGED <<phase, slots, gone, before, poll>>
          /\ \E next \in {"wait", "gone"} \cup Codes : status' = [status EXCEPT ![s] = next]
      BY <2>4 DEF Applied, Answer, Abandon, Reach, errorToResponse, Codes
    <3> QED
      BY <3>1 DEF HandlersInv, ServerTypeOK
  <2> QED
    BY <1>2, <2>1, <2>2, <2>3, <2>4 DEF HandleQuery
<1>3. ASSUME NEW p \in Pollers, StatsArrive(p) \/ HandleStats(p) PROVE ServerTypeOK'
  <2>1. \E c \in Counters : poll' = [poll EXCEPT ![p] = c]
    BY <1>3, PollStep DEF HandlersInv
  <2>2. UNCHANGED <<phase, slots, status, gone, before>>
    BY <1>3 DEF StatsArrive, HandleStats, StatsRange, StatsEmptySlot, StatsLock, StatsFacts,
       StatsLinks, serverCore
  <2>3. poll' \in [Pollers -> Counters]
    BY <2>1 DEF HandlersInv, ServerTypeOK, Counters
  <2> QED
    BY <2>2, <2>3 DEF HandlersInv, ServerTypeOK, Counters
<1>4. CASE Lifecycle \/ DBStartFails \/ EngineStartFails \/ Signal \/ ServeFails \/ Exit
  <2>1. UNCHANGED <<status, gone, before, poll>>
    BY <1>4, LifecycleKeepsAnswers DEF DBStartFails, EngineStartFails, Signal, ServeFails, Exit
  <2>2. slots' \subseteq Graphs
    BY <1>4 DEF Lifecycle, DBStart, EngineStart, EngineLaunch, Serve, ShutdownReturns, EngineStop, DBStop,
       DBStartFails, EngineStartFails, Signal, ServeFails, Exit, HandlersInv, ServerTypeOK,
       serverVars
  <2>3. phase' \in {"new", "db", "engine", "serving", "draining", "stopping", "closed", "failed",
                     "exited"}
    BY <1>4 DEF Lifecycle, DBStart, EngineStart, EngineLaunch, Serve, ShutdownReturns, EngineStop, DBStop,
       DBStartFails, EngineStartFails, Signal, ServeFails, Exit, HandlersInv, ServerTypeOK,
       serverVars
  <2> QED
    BY <2>1, <2>2, <2>3 DEF HandlersInv, ServerTypeOK
<1>5. ASSUME NEW e \in Executors, ServerRun(e) PROVE ServerTypeOK'
  BY <1>1, <1>5 DEF ServerRun
<1>6. CASE UNCHANGED allVars
  BY <1>1, <1>6 DEF allVars, serverVars
<1> QED
  BY <1>2, <1>3, <1>4, <1>5, <1>6 DEF ServerNext, Exited

\* Where the server starts the scheduler has not been started.
LEMMA ServerInvInit == ServerInit => SchedulerInv /\ HandlersInv
  BY ServerTypeOKInit, LifeInvInit, HandlerInvInit, PollInvInit, SchedulerInvInit
     DEF ServerInit, HandlersInv

LEMMA ServerInvStep ==
  SchedulerInv /\ HandlersInv /\ [ServerNext]_allVars => (SchedulerInv /\ HandlersInv)'
<1> SUFFICES ASSUME SchedulerInv, HandlersInv, [ServerNext]_allVars
             PROVE  SchedulerInv' /\ HandlersInv'
  OBVIOUS
<1>1. SchedulerInv'
  BY SchedulerSteps, PollerLocksKeep, SchedulerInvStep
<1>2. HandlersInv'
  BY ServerTypeOKStep, LifeInvStep, HandlerInvStep, PollInvStep DEF HandlersInv
<1> QED
  BY <1>1, <1>2

LEMMA ServerInvariance == ServerSpec => [](SchedulerInv /\ HandlersInv)
  BY ServerInvInit, ServerInvStep, PTL DEF ServerSpec

-----------------------------------------------------------------------------
(* What the server promises.                                               *)

\* No worker, writer or Stop panics on a nil graph: whatever outlives the grace
\* period, DB.Stop empties the slots when nothing is executing any more, and
\* Engine.Start comes after DB.Start has filled them.
THEOREM GraphsAreThere == ServerSpec => []NoNilGraph
<1>1. SchedulerInv /\ HandlersInv => NoNilGraph
  <2> SUFFICES ASSUME SchedulerInv, HandlersInv, NEW e \in Executors,
                      at[e] \in {"acquire", "announced", "commit", "link", "release"}
               PROVE  Graph(e) \in slots
    BY DEF NoNilGraph
  <2>1. Graph(e) \in Graphs
    BY DEF SchedulerInv, TypeInv, ExecInv
  <2>2. mode # "down"
    BY SMT DEF SchedulerInv, StopInv, Executors
  <2>3. slots = Graphs
    BY <2>2 DEF HandlersInv, LifeInv, ServerTypeOK
  <2> QED
    BY <2>1, <2>3
<1> QED
  BY <1>1, ServerInvariance, PTL

\* A 200 says the write is in its graph, whole; any other status says it is not
\* and will not be.
THEOREM StatusesHold == ServerSpec => []StatusesAreTrue
<1>1. SchedulerInv /\ HandlersInv => StatusesAreTrue
  <2> SUFFICES ASSUME SchedulerInv, HandlersInv, NEW w \in Writes
               PROVE  /\ status[w] = "200" =>
                           \E i \in 1 .. Len(links[GraphID[w]]) : links[GraphID[w]][i] = w
                      /\ status[w] \in Codes \ {"200"} => ~Applies(w)
    BY DEF StatusesAreTrue
  <2>1. ASSUME status[w] = "200"
        PROVE  \E i \in 1 .. Len(links[GraphID[w]]) : links[GraphID[w]][i] = w
    BY <2>1 DEF HandlersInv, HandlerInv, SchedulerInv, VisibleInv
  <2>2. ASSUME status[w] \in Codes \ {"200"}, NEW g \in Graphs,
               NEW i \in 1 .. Len(facts[g]), facts[g][i] = w
        PROVE  FALSE
    <3>1. err[w] # "ok" /\ \A e \in Executors : cur[e] # w
      <4>1. \/ call[w] # "accepted"
            \/ w \in done /\ err[w] # "ok"
        BY <2>2 DEF HandlersInv, HandlerInv, Codes
      <4>2. CASE call[w] # "accepted"
        <5>1. w \notin done /\ \A e \in Executors : cur[e] # w
          BY <4>2 DEF SchedulerInv, OnceInv, AcceptedOnce, Executing
        <5>2. err[w] = "none"
          BY <5>1 DEF SchedulerInv, OutcomeInv
        <5> QED
          BY <5>1, <5>2
      <4>3. CASE w \in done /\ err[w] # "ok"
        BY <4>3 DEF SchedulerInv, OnceInv, AcceptedOnce, Executing
      <4> QED
        BY <4>1, <4>2, <4>3
    <3>2. \A j \in 1 .. Len(links[g]) : links[g][j] # w
      BY <3>1 DEF SchedulerInv, VisibleInv
    <3>3. CASE \A e \in Executors : ~(at[e] = "link" /\ Graph(e) = g)
      <4>1. facts[g] = links[g]
        BY <3>3 DEF SchedulerInv, TornInv, CommitInv
      <4> QED
        BY <2>2, <3>2, <4>1
    <3>4. ASSUME NEW e \in Executors, at[e] = "link", Graph(e) = g PROVE FALSE
      <4>1. facts[g] = Append(links[g], cur[e]) /\ links[g] \in Seq(Writes)
        BY <3>4 DEF SchedulerInv, TornInv, CommitInv, TypeInv, TypeOK
      <4>2. i \in 1 .. Len(links[g]) + 1
        BY <4>1
      <4>3. CASE i = Len(links[g]) + 1
        <5>1. facts[g][i] = cur[e]
          BY <4>1, <4>3
        <5> QED
          BY <2>2, <3>1, <5>1
      <4>4. CASE i \in 1 .. Len(links[g])
        <5>1. facts[g][i] = links[g][i]
          BY <4>1, <4>4
        <5> QED
          BY <2>2, <3>2, <4>4, <5>1
      <4> QED
        BY <4>1, <4>2, <4>3, <4>4
    <3> QED
      BY <3>3, <3>4
  <2> QED
    BY <2>1, <2>2 DEF Applies
<1> QED
  BY <1>1, ServerInvariance, PTL

\* A recall that is answered saw every remember answered before it was sent.
THEOREM WritesAreRead == ServerSpec => []ReadYourWrites
<1>1. SchedulerInv /\ HandlersInv => ReadYourWrites
  <2> SUFFICES ASSUME SchedulerInv, HandlersInv, NEW r \in Streams \ Writes,
                      status[r] \in {"200", "204"}, NEW w \in before[r],
                      GraphID[w] = GraphID[r]
               PROVE  \E i \in 1 .. Len(result[r].links) : result[r].links[i] = w
    BY DEF ReadYourWrites
  <2>1. r \in done /\ err[r] = "ok"
    BY DEF HandlersInv, HandlerInv
  <2>2. call[r] = "accepted"
    BY <2>1 DEF SchedulerInv, OnceInv, AcceptedOnce
  <2>3. w \in acked[r] /\ w \in Streams /\ status[w] = "200"
    BY <2>2 DEF HandlersInv, HandlerInv, ServerTypeOK
  <2>4. err[w] = "ok"
    BY <2>3 DEF HandlersInv, HandlerInv
  <2> QED
    BY <2>1, <2>3, <2>4 DEF SchedulerInv, VisibleInv, AckedWritesVisible
<1> QED
  BY <1>1, ServerInvariance, PTL

\* A poll that has run over the slots counted each graph between two writes and
\* no earlier than the last write answered before it.
THEOREM PollsAreWhole == ServerSpec => []SnapshotsAreWhole
<1>1. SchedulerInv /\ HandlersInv => SnapshotsAreWhole
  <2> SUFFICES ASSUME SchedulerInv, HandlersInv, NEW p \in Pollers, poll[p].slot = NumGraphs,
                      NEW g \in Graphs
               PROVE  /\ poll[p].facts[g] = poll[p].links[g]
                      /\ g \in poll[p].held =>
                           poll[p].facts[g] >= Cardinality({w \in poll[p].before : GraphID[w] = g})
    BY DEF SnapshotsAreWhole
  <2>1. g < poll[p].slot /\ poll[p].slot # g
    BY DEF Graphs
  <2> QED
    BY <2>1 DEF HandlersInv, PollInv
<1> QED
  BY <1>1, ServerInvariance, PTL

\* With its handlers around it the scheduler still implements the atomic memory
\* service: a stats handler that shares a lock is not seen from outside.
THEOREM ServerRefinement == ServerSpec => ImplementsService
<1>1. ServerInit => Service!Init
  BY ServiceInit DEF ServerInit
<1>2. SchedulerInv /\ [ServerNext]_allVars => [Service!Next]_(Service!serviceVars)
  <2> SUFFICES ASSUME SchedulerInv, [ServerNext]_allVars
               PROVE  [Service!Next]_(Service!serviceVars)
    OBVIOUS
  <2>1. CASE [Next]_vars
    BY <2>1, ServiceStep DEF SchedulerInv
  <2>2. ASSUME NEW p \in Pollers, PollerLocks(p) PROVE UNCHANGED Service!serviceVars
    BY <2>2 DEF PollerLocks, StatsLock, StatsLinks, ctlVars, callVars, dataVars,
       Service!serviceVars, Phase
  <2> QED
    BY <2>1, <2>2, SchedulerSteps
<1>3. ServerSpec => Service!Spec
  BY <1>1, <1>2, ServerInvariance, PTL DEF ServerSpec, Service!Spec
<1> QED
  BY <1>3 DEF ImplementsService
=============================================================================
