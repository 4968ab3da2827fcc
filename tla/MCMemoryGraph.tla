--------------------------- MODULE MCMemoryGraph ---------------------------
(* Three facts under two anchors, one of them shared by all; one fact is     *)
(* re-asserted with another anchor, one carries a vector of a second         *)
(* dimension.  MCSpliced holds facts and entities whose texts contain the    *)
(* separator byte.                                                           *)
EXTENDS MemoryGraph

W(f, es, ts, d) == [fact |-> f, entities |-> es, topics |-> ts, dim |-> d]

MCWrites == {W(<<1>>, <<<<7>>>>, <<>>, 0),
             W(<<2>>, <<<<7>>, <<7>>>>, <<<<7>>>>, 2),
             W(<<3>>, <<<<7>>>>, <<>>, 3),
             W(<<3>>, <<>>, <<<<7>>>>, 0)}

MCSpliced == {W(<<1>>, <<<<2, 0, 3>>>>, <<>>, 0), W(<<1, 0, 2>>, <<<<3>>>>, <<>>, 0)}

MCKeyRank == [k \in {<<"fact", w.fact>> : w \in Writes} |->
                CASE k[2] = <<1>> -> 2 [] k[2] = <<2>> -> 1 [] OTHER -> 3]
=============================================================================
