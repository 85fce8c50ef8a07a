------------------------ MODULE MCConnectionRuntime ------------------------
(* Model-checking instances of ConnectionRuntime.                           *)
EXTENDS ConnectionRuntime, TLC

CONSTANTS c1, c2, t1, t2, t3, u1

(* Tasks are interchangeable; so are profiles. Safety runs only.            *)
Symmetric == Permutations(Tasks) \cup Permutations(Connections)
=============================================================================
