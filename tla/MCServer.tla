------------------------------ MODULE MCServer ------------------------------
(* Requests on one graph: a write, a recall, and a write sent to explain.    *)
EXTENDS Server

CONSTANTS w1, w2, r1

MCGraphID == [s \in Streams |-> 0]
=============================================================================
