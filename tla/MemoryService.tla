--------------------------- MODULE MemoryService ---------------------------
(***************************************************************************)
(* What the engine promises a client, without queues, goroutines or locks: *)
(* every graph is a sequence of remembered writes; a request that is not   *)
(* refused takes effect at one instant between its call and its answer;    *)
(* a refused one never does.  Scheduler.tla implements this.               *)
(***************************************************************************)
EXTENDS Naturals, Sequences

CONSTANTS Requests, Writes, GraphOf, Graphs

VARIABLES
    phase,  \* how far each request has come
    store,  \* the writes each graph has remembered, oldest first
    found   \* what a read was answered from

serviceVars == <<phase, store, found>>

Init ==
    /\ phase = [r \in Requests |-> "new"]
    /\ store = [g \in Graphs |-> <<>>]
    /\ found = [r \in Requests |-> <<>>]

Move(r, from, to) == phase[r] \in from /\ phase' = [phase EXCEPT ![r] = to]

Call(r) == Move(r, {"new"}, "called") /\ UNCHANGED <<store, found>>

Refuse(r) == Move(r, {"new", "called"}, "refused") /\ UNCHANGED <<store, found>>

Remember(r) ==
    /\ r \in Writes /\ GraphOf[r] \in Graphs
    /\ Move(r, {"called"}, "applied")
    /\ store' = [store EXCEPT ![GraphOf[r]] = Append(@, r)]
    /\ UNCHANGED found

Recall(r) ==
    /\ r \notin Writes /\ GraphOf[r] \in Graphs
    /\ Move(r, {"called"}, "applied")
    /\ found' = [found EXCEPT ![r] = store[GraphOf[r]]]
    /\ UNCHANGED store

Fail(r) == Move(r, {"called"}, "failed") /\ UNCHANGED <<store, found>>

Answer(r) ==
    /\ \/ Move(r, {"applied"}, "answered")
       \/ Move(r, {"failed"}, "error")
    /\ UNCHANGED <<store, found>>

Next == \E r \in Requests :
    Call(r) \/ Refuse(r) \/ Remember(r) \/ Recall(r) \/ Fail(r) \/ Answer(r)

Spec == Init /\ [][Next]_serviceVars
=============================================================================
