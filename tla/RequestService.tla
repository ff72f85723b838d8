--------------------------- MODULE RequestService --------------------------
(***************************************************************************)
(* What the server under src/NETS/server_queue promises its clients: one   *)
(* receiver picks up requests one at a time, a queue hands them on in the  *)
(* order they were picked up, each to one of the service threads, and no   *)
(* request is answered twice or comes back once it is answered or lost.    *)
(***************************************************************************)
EXTENDS Naturals, Sequences, FiniteSets

CONSTANTS
    Clients,
    Threads     \* how many requests can be served at the same time

VARIABLES
    phase,      \* how far each client's request has come
    order       \* the clients whose requests are queued

serviceVars == <<phase, order>>

In(p) == {c \in Clients : phase[c] = p}

Become(c, p) == phase' = [phase EXCEPT ![c] = p]

ServiceInit ==
    /\ phase = [c \in Clients |-> "idle"]
    /\ order = <<>>

\* A request reaches the server, or is lost before it does.
Arrive(c) ==
    /\ phase[c] = "idle"
    /\ \E p \in {"waiting", "lost"} : Become(c, p)
    /\ UNCHANGED order

PickUp(c) ==
    /\ phase[c] = "waiting"
    /\ In("held") = {}
    /\ Become(c, "held")
    /\ UNCHANGED order

Enqueue(c) ==
    /\ phase[c] = "held"
    /\ Become(c, "queued")
    /\ order' = Append(order, c)

Serve ==
    /\ order # <<>>
    /\ Cardinality(In("serving")) < Threads
    /\ Become(Head(order), "serving")
    /\ order' = Tail(order)

Answer(c) ==
    /\ phase[c] = "serving"
    /\ Become(c, "answered")
    /\ UNCHANGED order

Drop(c) ==
    /\ phase[c] = "serving"
    /\ Become(c, "lost")
    /\ UNCHANGED order

\* The queue is deleted with what is in it.
Discard ==
    /\ phase' = [c \in Clients |-> IF phase[c] = "queued" THEN "lost" ELSE phase[c]]
    /\ order' = <<>>

\* The server is gone, and with it every request it has not answered.
Stop ==
    /\ phase' = [c \in Clients |-> IF phase[c] \in {"idle", "answered"}
                                   THEN phase[c] ELSE "lost"]
    /\ order' = <<>>

ServiceNext ==
    \/ \E c \in Clients :
        Arrive(c) \/ PickUp(c) \/ Enqueue(c) \/ Answer(c) \/ Drop(c)
    \/ Serve \/ Discard \/ Stop

ServiceSpec == ServiceInit /\ [][ServiceNext]_serviceVars
=============================================================================
