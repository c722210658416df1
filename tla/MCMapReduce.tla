---------------------------- MODULE MCMapReduce ----------------------------
(* MapReduce with two workers, two input files and one reduce task.          *)
EXTENDS MapReduce

CONSTANTS w1, w2
=============================================================================
