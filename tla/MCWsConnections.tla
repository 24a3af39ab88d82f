-------------------------- MODULE MCWsConnections ---------------------------
(***************************************************************************)
(* Instance for TLC: one connection, two wallets, a transaction of both.   *)
(***************************************************************************)
EXTENDS WsConnections

CONSTANTS c1, c2, w1, w2, m1, m2

MCAffected == [m \in Msg |-> IF m = m1 THEN Joinable ELSE {w1}]

\* README.md: "the connection store should hold an updated list of connected
\* clients" - after a timeout as well.
DeadAreAlwaysForgotten == \A c \in Conn : link[c] = "closed" ~> Forgotten(c)
=============================================================================
