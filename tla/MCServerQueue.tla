--------------------------- MODULE MCServerQueue ---------------------------
(***************************************************************************)
(* Small servers for TLC: the values that are not numbers.                 *)
(***************************************************************************)
EXTENDS ServerQueue, TLC

CONSTANTS t1, t2, u1, w1, w2

OneTcp == {t1}
TwoTcp == {t1, t2}
OneUdp == {u1}
TwoWorkers == {w1, w2}

GoodOrBad == {"good", "bad"}
Good == {"good"}

\* The service threads, and the clients of one protocol, are interchangeable.
Alike ==
    Permutations(TcpClients) \cup Permutations(UdpClients) \cup Permutations(Workers)
=============================================================================
