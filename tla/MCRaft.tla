------------------------------- MODULE MCRaft -------------------------------
(***************************************************************************)
(* Instances of Raft for TLC: three peers, at most two commands, and the    *)
(* symmetry sets of the peers that play the same role in a configuration.   *)
(***************************************************************************)
EXTENDS RaftAgreement, TLC

CONSTANTS s1, s2, s3, a, b

AllPeers == Permutations({s1, s2, s3})
Followers == Permutations({s2, s3})
TwoCandidates == Permutations({s1, s2}) \cup Permutations({a, b})
=============================================================================
