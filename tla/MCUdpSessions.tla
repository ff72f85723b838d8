--------------------------- MODULE MCUdpSessions ---------------------------
(***************************************************************************)
(* A small server with a process per client for TLC.                       *)
(***************************************************************************)
EXTENDS UdpSessions

CONSTANTS c1, c2, c3

ThreeClients == {c1, c2, c3}
=============================================================================
