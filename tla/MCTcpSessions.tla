--------------------------- MODULE MCTcpSessions ---------------------------
(***************************************************************************)
(* Small servers with a process per connection for TLC.                    *)
(***************************************************************************)
EXTENDS TcpSessions

CONSTANTS c1, c2, c3

TwoClients == {c1, c2}
ThreeClients == {c1, c2, c3}
=============================================================================
