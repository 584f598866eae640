----------------------------- MODULE MCRegistry -----------------------------
(***************************************************************************)
(* Instances of Registry for TLC in which the clients' mappings overlap.   *)
(***************************************************************************)
EXTENDS Registry, TLC

\* Every client may register every name, on the default port or on any port.
Shared == [c \in Conns |-> Names \X (Ports \cup {HttpPort})]

\* The names of Shared, on the default port only.
SharedRoutes == [c \in Conns |-> Names \X {HttpPort}]

\* Conns, Names, Ports and Boots are interchangeable under both.
Symmetry == Permutations(Conns) \cup Permutations(Names)
            \cup Permutations(Ports) \cup Permutations(Boots)
=============================================================================
