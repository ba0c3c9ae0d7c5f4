----------------------------- MODULE MCRequests -----------------------------
(* Small instances of Requests for TLC.                                      *)
EXTENDS Requests, TLC

Symmetry == Permutations(SessionIds) \cup Permutations(Coroutines) \cup Permutations(Agents)
                \cup Permutations(Bodies)
=============================================================================
