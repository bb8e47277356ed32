---------------------------- MODULE MCHTTPClient ----------------------------
(* Instances of HTTPClient for TLC: one client that makes every call.      *)
EXTENDS HTTPClient, TLC

CONSTANTS k1, c1, c2

OneOwner == [c \in Calls |-> k1]

(* Sound where one client makes every call and none can be cancelled.      *)
Symmetry == Permutations(Calls)
=============================================================================
