---------------------------- MODULE MCRaftTester ----------------------------
(***************************************************************************)
(* Instance of RaftTester for TLC: commands are interchangeable.            *)
(***************************************************************************)
EXTENDS RaftTester, TLC

CONSTANTS a, b

Commands == Permutations(Cmd)
=============================================================================
