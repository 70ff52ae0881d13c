-------------------------- MODULE MCShardDirectory --------------------------
(* A small instance of ShardDirectory.                                     *)
EXTENDS ShardDirectory, TLC

CONSTANTS a, b, s1, s2

MCNodes == {a, b}
MCShards == {s1, s2}

NodeAndShardSymmetry == Permutations(MCNodes) \cup Permutations(MCShards)
=============================================================================
