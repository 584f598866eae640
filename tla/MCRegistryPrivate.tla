-------------------------- MODULE MCRegistryPrivate --------------------------
(***************************************************************************)
(* Instances of Registry for TLC in which no two clients share a name or a *)
(* port: what an operator who keeps the mappings apart relies on.          *)
(***************************************************************************)
EXTENDS Registry, TLC

CONSTANTS c1, c2, c3, n1, n2, n3, p1, p2

\* The first client has a name on the default port and a name on a port, the
\* second a name on another port.  c3 is a later connection of the client of c1,
\* with the same mappings.
Private ==
    LET first == {<<n1, HttpPort>>, <<n2, p1>>}
    IN (c1 :> first) @@ (c2 :> {<<n3, p2>>}) @@ (c3 :> first)

\* A client reconnects when the server has done with its old connection.
InTurnSpec == Init /\ [][Next /\ NamesInTurn' /\ PortsInTurn']_vars

\* c1 keeps a single name on a single port; c2 does the same on the default
\* port.
OnePortEach == (c1 :> {<<n2, p1>>}) @@ (c2 :> {<<n3, HttpPort>>})

BootSymmetry == Permutations(Boots)
=============================================================================
