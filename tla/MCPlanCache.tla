---------------------------- MODULE MCPlanCache ----------------------------
(* Six requests: two for the same recall of the last instant, one for the    *)
(* same terms since a date, whose hash collides with it, a remember on       *)
(* another graph that collides too, and two recalls that only compete for    *)
(* room.  Beside them the rest of the cache's interface is used: keys are    *)
(* read and deleted, the capacity changes.                                   *)
EXTENDS PlanCache

CONSTANTS r1, r2, r3, r4, r5, r6, h1, h2, h3

Bound(ty, k) == [type |-> ty, n |-> k]

Query(g, w, kw, en, since) ==
    [graph |-> g, write |-> w, top |-> 1, depth |-> 0, since |-> since, until |-> NoBound,
     lists |-> [l \in Lists |-> CASE l = "keywords" -> kw
                                  [] l = "entities" -> en
                                  [] OTHER -> <<>>]]

recallRepeats == Query(0, FALSE, <<"a", "b", "a", "c", "b">>, <<"x", "x">>, Bound("relative", 1))
recallOther   == Query(0, FALSE, <<"a", "b", "a", "c", "b">>, <<"x", "x">>, Bound("absolute", 1))
remember      == Query(1, TRUE, <<"a">>, <<"x", "x">>, NoBound)
recallPlain   == Query(0, FALSE, <<"d">>, <<>>, NoBound)
recallThird   == Query(0, FALSE, <<"e">>, <<>>, NoBound)

MCQueryOf == r1 :> recallRepeats @@ r2 :> recallRepeats @@ r3 :> recallOther
             @@ r4 :> remember @@ r5 :> recallPlain @@ r6 :> recallThird
MCHashOf == recallRepeats :> h1 @@ recallOther :> h1 @@ remember :> h1
            @@ recallPlain :> h2 @@ recallThird :> h3
=============================================================================
