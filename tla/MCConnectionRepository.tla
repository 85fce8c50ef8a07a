---------------------- MODULE MCConnectionRepository -----------------------
(* A small instance of ConnectionRepository for TLC.                       *)
EXTENDS ConnectionRepository, FiniteSets, TLC

CONSTANTS a1, a2, k1, k2, r1, r2, r3, e1, e2, c1, c2

(* Processes, references and server endpoints are interchangeable.         *)
Symmetric == Permutations(Apps) \cup Permutations(Clients) \cup Permutations(Connections) \cup Permutations(References)
                 \cup Permutations(Endpoints \ {FileEndpoint})

(* Search bound.  What concerns locks and endpoints needs one profile, what *)
(* concerns cleanups needs two at one endpoint and calls that expect the    *)
(* revision their profile has (others are refused): TLC explores the states *)
(* that lie in one of the two instances.                                    *)
Touched == {c \in Connections : profile[c] # Absent \/ guard[c] # None}
Used == ({profile[c].endpoint : c \in Connections} \cup {op[a].endpoint : a \in Apps}
           \cup {vault[r] : r \in References}) \ {None}
Expected ==
    \A a \in Apps : op[a].step \in {"list", "read"} => op[a].expected = profile[op[a].conn].revision
OneProfileOrOneEndpoint ==
    \/ Cardinality(Touched) <= 1
    \/ Cardinality(Used) <= 1 /\ (\A k \in Clients : client[k] = Unused) /\ Expected
=============================================================================
