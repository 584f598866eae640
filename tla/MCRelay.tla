------------------------------- MODULE MCRelay -------------------------------
(* Instances of Relay: which kinds of external connection the runs use. *)
EXTENDS Relay

CONSTANTS x1, x2

\* "port" is in PortOrTcp: it is "http" with the fixed link that "tcp" has.
HttpWsOrTcp == [x \in Exts |-> {"http", "ws", "tcp"}]
PortOrTcp == x1 :> {"port", "tcp"} @@ x2 :> {"tcp"}
==============================================================================
