------------------------------ MODULE MCSearch ------------------------------
(* Four facts under a hub and two smaller anchors, and queries of two        *)
(* terms.  The shapes make every case happen: a hub that files everything,   *)
(* a fact two anchors reach and no index finds, a match filed nowhere, a     *)
(* best hit that holds half of the query's bits.                             *)
EXTENDS Search

MCFacts == 1 .. 4
MCAnchors == {11, 12, 13}

MCSurprisal == <<4, 2, 1, 0>>

F(hub, topic, entity) == (hub \X {11}) \cup (topic \X {12}) \cup (entity \X {13})

MCFiled == {F(1 .. 4, {1, 2}, {}), F({2, 3, 4}, {1, 2}, {3, 4}),
            F({3, 4}, {3, 4}, {1}), F({1, 2, 3}, {2, 3}, {3})}

MCWords == {<<{1}, {}, {}, {}>>, <<{}, {1, 2}, {1}, {}>>, <<{1}, {2}, {1}, {}>>,
            <<{}, {}, {}, {2}>>, <<{1, 2}, {1}, {}, {2}>>}

MCNear == {<<0, 0, 0, 0>>, <<0, 3, 1, 0>>, <<1, 0, 0, 3>>}

MCConfigs == {<<"excess", <<0, 1>>, TRUE>>, <<"excess", <<1, 2>>, FALSE>>,
              <<"bfs", <<1, 2>>, TRUE>>, <<"none", <<0, 1>>, FALSE>>}

MCWorlds ==
    {[filed |-> fl, words |-> wd, near |-> nr, ts |-> ts,
      traversal |-> cf[1], ratio |-> cf[2], decays |-> cf[3]] :
        fl \in MCFiled, wd \in MCWords, nr \in MCNear,
        ts \in {<<1, 2, 1, 0>>, <<2, 1, 0, 3>>}, cf \in MCConfigs}

Q(kw, v, nm, d, k, s, u) ==
    [keywords |-> kw, vector |-> v, named |-> nm, depth |-> d, top |-> k, since |-> s, until |-> u]

MCQueries ==
    {Q(kw, v, nm, d, k, 0, 0) : kw \in {{}, {1, 2}}, v \in {"none", "given"},
                                nm \in {<<>>, <<12>>, <<11, 13>>}, d \in {1, 2}, k \in {0, 2}}
    \cup {Q({1}, "foreign", <<12>>, 1, 2, 0, 0), Q({1, 2}, "given", <<13, 13>>, 0, 1, 0, 0),
          Q({1, 2}, "given", <<11>>, 2, 2, 1, 0), Q({1, 2}, "none", <<12>>, 2, 0, 1, 2),
          Q({}, "none", <<11, 12>>, 2, 0, 0, 2), Q({2}, "none", <<13>>, 2, 0, 1, 0)}
=============================================================================
