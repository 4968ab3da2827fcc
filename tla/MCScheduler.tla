---------------------------- MODULE MCScheduler ----------------------------
(* Remembers (w) and recalls (r) of one graph, and a remember (x1) whose     *)
(* selector is past the last graph.                                          *)
EXTENDS Scheduler, TLC

CONSTANTS w1, w2, r1, x1

MCGraphID == [s \in Streams |-> IF s = x1 THEN NumGraphs ELSE 0]
=============================================================================
