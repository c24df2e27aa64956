---------------------------- MODULE MCCacheOpen ------------------------------
(* Two processes on one node, one on another. *)
EXTENDS CacheOpen

CONSTANTS a, b, c, n1, n2

MCNodeOf == [p \in Rank |-> IF p = c THEN n2 ELSE n1]
MCModes == {{"create", "excl", "delete"}, {"create"}, {}}
==============================================================================
