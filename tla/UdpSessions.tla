---------------------------- MODULE UdpSessions ----------------------------
(***************************************************************************)
(* src/NETS/multi-user UDP_ECHO: the server receives a request, forks, and *)
(* the child echoes that client's datagrams from a socket of its own.      *)
(*                                                                         *)
(* A child that leaves its echo loop falls back into the loop for          *)
(* requests, so that server and children are processes of one kind.  A     *)
(* child closes sfd and calls socket, which returns the lowest free        *)
(* number: cfd has the number of sfd, and the loop for requests then reads *)
(* the child's own socket.                                                 *)
(*                                                                         *)
(* A datagram is known by its sender.  It gets lost when the buffer of the *)
(* receiver is full or the receiver has gone; on the loopback interface    *)
(* nothing else loses, doubles or reorders datagrams.                      *)
(***************************************************************************)
EXTENDS Integers, FiniteSets, Sequences

CONSTANTS
    Clients,
    NoClient,   \* what struct client holds before the first request
    MaxKids,    \* processes the system lets the server fork
    Room,       \* datagrams that fit in the buffer of a socket
    MaxFaults   \* calls that fail

ASSUME BoundsAssumption ==
    /\ NoClient \notin Clients
    /\ MaxKids \in Nat
    /\ Room \in Nat \ {0}
    /\ MaxFaults \in Nat

Main  == 0
Kids  == 1 .. MaxKids
Procs == {Main} \cup Kids

VARIABLES
    pc,         \* where each process of the server is
    client,     \* its struct client: whom it answers
    open,       \* whether its sfd or cfd is an open socket
    inbox,      \* the datagrams that wait there: the clients that sent them
    cpc,        \* where each client is
    server,     \* its struct server: the process it sends to
    cinbox,     \* the datagrams that wait at its socket: the processes that
                \* sent them
    faults      \* how many calls have failed

procVars == <<pc, client, open, inbox>>
clientVars == <<cpc, server, cinbox>>
vars == <<procVars, clientVars, faults>>

Init ==
    /\ pc = [p \in Procs |-> IF p = Main THEN "start" ELSE "unborn"]
    /\ client = [p \in Procs |-> NoClient]
    /\ open = [p \in Procs |-> FALSE]
    /\ inbox = [p \in Procs |-> <<>>]
    /\ cpc = [c \in Clients |-> "ask"]
    /\ server = [c \in Clients |-> Main]
    /\ cinbox = [c \in Clients |-> <<>>]
    /\ faults = 0

Fault ==
    /\ faults < MaxFaults
    /\ faults' = faults + 1

NoFault == UNCHANGED faults

\* A datagram to a full buffer is dropped, and sendto does not tell.
Arrive(queue, sender) ==
    IF Len(queue) < Room THEN Append(queue, sender) ELSE queue

-----------------------------------------------------------------------------
(* The server and its children *)

Goto(p, from, to) ==
    /\ pc[p] = from
    /\ pc' = [pc EXCEPT ![p] = to]

\* The process ends; what waits at its socket is gone.
Exit(p, from) ==
    /\ Goto(p, from, "ended")
    /\ open' = [open EXCEPT ![p] = FALSE]
    /\ inbox' = [inbox EXCEPT ![p] = <<>>]
    /\ UNCHANGED client

\* socket and bind.
Start ==
    /\ Goto(Main, "start", "request")
    /\ open' = [open EXCEPT ![Main] = TRUE]
    /\ NoFault
    /\ UNCHANGED <<client, inbox, clientVars>>

StartFails ==
    /\ Exit(Main, "start")
    /\ Fault
    /\ UNCHANGED clientVars

\* A server that waits for its child before it receives again.
MutRecvRequest(p) ==
    /\ Goto(p, "request", "fork")
    /\ \A kid \in Kids : pc[kid] \in {"unborn", "ended"}
    /\ open[p]
    /\ inbox[p] # <<>>
    /\ client' = [client EXCEPT ![p] = Head(inbox[p])]
    /\ inbox' = [inbox EXCEPT ![p] = Tail(@)]
    /\ NoFault
    /\ UNCHANGED <<open, clientVars>>

\* recvfrom in the loop for requests: by the server, or by a child that fell
\* back into it.
RecvRequest(p) ==
    /\ Goto(p, "request", "fork")
    /\ open[p]
    /\ inbox[p] # <<>>
    /\ client' = [client EXCEPT ![p] = Head(inbox[p])]
    /\ inbox' = [inbox EXCEPT ![p] = Tail(@)]
    /\ NoFault
    /\ UNCHANGED <<open, clientVars>>

RecvRequestFails(p) ==
    /\ Exit(p, "request")
    /\ IF open[p] THEN Fault ELSE NoFault
    /\ UNCHANGED clientVars

NextKid(kid) ==
    /\ pc[kid] = "unborn"
    /\ \A older \in Kids : older < kid => pc[older] # "unborn"

\* The branches of parent and child exchanged.
MutForkSwap(p) ==
    /\ pc[p] = "fork"
    /\ \E kid \in Kids :
        /\ NextKid(kid)
        /\ pc' = [pc EXCEPT ![p] = "child", ![kid] = "request"]
        /\ client' = [client EXCEPT ![kid] = client[p]]
    /\ NoFault
    /\ UNCHANGED <<open, inbox, clientVars>>

\* The child gets a copy of struct client.
Fork(p) ==
    /\ pc[p] = "fork"
    /\ \E kid \in Kids :
        /\ NextKid(kid)
        /\ pc' = [pc EXCEPT ![p] = "request", ![kid] = "child"]
        /\ client' = [client EXCEPT ![kid] = client[p]]
    /\ NoFault
    /\ UNCHANGED <<open, inbox, clientVars>>

\* The request is dropped.
ForkFails(p) ==
    /\ Goto(p, "fork", "request")
    /\ IF \E kid \in Kids : NextKid(kid) THEN Fault ELSE NoFault
    /\ UNCHANGED <<client, open, inbox, clientVars>>

\* close(sfd) and socket in the child.
ChildSocket(p) ==
    /\ Goto(p, "child", "send")
    /\ open' = [open EXCEPT ![p] = TRUE]
    /\ NoFault
    /\ UNCHANGED <<client, inbox, clientVars>>

\* The child falls into the loop for requests without a socket.
ChildSocketFails(p) ==
    /\ Goto(p, "child", "request")
    /\ Fault
    /\ UNCHANGED <<client, open, inbox, clientVars>>

\* Struct client shared with the server, which goes on to use it.
MutChildSend(p) ==
    /\ Goto(p, "send", "recv")
    /\ cinbox' = [cinbox EXCEPT ![client[Main]] =
                    IF cpc[client[Main]] = "left" THEN @ ELSE Arrive(@, p)]
    /\ NoFault
    /\ UNCHANGED <<client, open, inbox, cpc, server>>

\* A sendto that is tried again although it has succeeded.
MutChildResend(p) ==
    /\ pc[p] = "send"
    /\ \E to \in {"send", "recv"} : pc' = [pc EXCEPT ![p] = to]
    /\ cinbox' = [cinbox EXCEPT ![client[p]] =
                    IF cpc[client[p]] = "left" THEN @ ELSE Arrive(@, p)]
    /\ NoFault
    /\ UNCHANGED <<client, open, inbox, cpc, server>>

\* To a client that has left, the datagram goes nowhere.  A sendto that fails
\* is tried again.
ChildSend(p) ==
    /\ Goto(p, "send", "recv")
    /\ cinbox' = [cinbox EXCEPT ![client[p]] =
                    IF cpc[client[p]] = "left" THEN @ ELSE Arrive(@, p)]
    /\ NoFault
    /\ UNCHANGED <<client, open, inbox, cpc, server>>

\* A receive that comes back without a datagram.
MutChildRecv(p) ==
    /\ Goto(p, "recv", "send")
    /\ inbox' = [inbox EXCEPT ![p] = IF @ = <<>> THEN @ ELSE Tail(@)]
    /\ NoFault
    /\ UNCHANGED <<client, open, clientVars>>

\* The child waits for a datagram from anybody.
ChildRecv(p) ==
    /\ Goto(p, "recv", "send")
    /\ inbox[p] # <<>>
    /\ inbox' = [inbox EXCEPT ![p] = Tail(@)]
    /\ NoFault
    /\ UNCHANGED <<client, open, clientVars>>

\* break
ChildRecvFails(p) ==
    /\ Goto(p, "recv", "request")
    /\ Fault
    /\ UNCHANGED <<client, open, inbox, clientVars>>

ProcStep(p) ==
    \/ p = Main /\ (Start \/ StartFails)
    \/ RecvRequest(p) \/ RecvRequestFails(p)
    \/ Fork(p) \/ ForkFails(p)
    \/ ChildSocket(p) \/ ChildSocketFails(p)
    \/ ChildSend(p)
    \/ ChildRecv(p) \/ ChildRecvFails(p)

-----------------------------------------------------------------------------
(* The clients *)

ClientGoto(c, from, to) ==
    /\ cpc[c] = from
    /\ cpc' = [cpc EXCEPT ![c] = to]

Send(c) ==
    inbox' = [inbox EXCEPT ![server[c]] =
                IF open[server[c]] THEN Arrive(@, c) ELSE @]

\* recvfrom with a null pointer for the address.
MutReceive(c) ==
    /\ cinbox[c] # <<>>
    /\ cinbox' = [cinbox EXCEPT ![c] = Tail(@)]
    /\ UNCHANGED server

\* recvfrom overwrites struct server: from now on the client sends to whoever
\* has answered.
Receive(c) ==
    /\ cinbox[c] # <<>>
    /\ server' = [server EXCEPT ![c] = Head(cinbox[c])]
    /\ cinbox' = [cinbox EXCEPT ![c] = Tail(@)]

ClientAsk(c) ==
    /\ ClientGoto(c, "ask", "await")
    /\ Send(c)
    /\ NoFault
    /\ UNCHANGED <<pc, client, open, server, cinbox>>

ClientGreeted(c) ==
    /\ ClientGoto(c, "await", "say")
    /\ Receive(c)
    /\ NoFault
    /\ UNCHANGED procVars

ClientSay(c) ==
    /\ ClientGoto(c, "say", "hear")
    /\ Send(c)
    /\ NoFault
    /\ UNCHANGED <<pc, client, open, server, cinbox>>

ClientHear(c) ==
    /\ ClientGoto(c, "hear", "say")
    /\ Receive(c)
    /\ NoFault
    /\ UNCHANGED procVars

\* The result of this recvfrom is not tested.
ClientHearFails(c) ==
    /\ ClientGoto(c, "hear", "say")
    /\ Fault
    /\ UNCHANGED <<procVars, server, cinbox>>

\* The socket of a client that ends is closed.
Leave(c, places) ==
    /\ cpc[c] \in places
    /\ cpc' = [cpc EXCEPT ![c] = "left"]
    /\ cinbox' = [cinbox EXCEPT ![c] = <<>>]
    /\ UNCHANGED <<procVars, server>>

\* socket, the first sendto or the first recvfrom.
ClientFails(c) == Leave(c, {"ask", "await"}) /\ Fault

\* The user stops the client.
ClientKilled(c) == Leave(c, {"await", "say", "hear"}) /\ NoFault

ClientStep(c) ==
    \/ ClientAsk(c) \/ ClientGreeted(c)
    \/ ClientSay(c) \/ ClientHear(c) \/ ClientHearFails(c)
    \/ ClientFails(c)

-----------------------------------------------------------------------------

Next ==
    \/ \E p \in Procs : ProcStep(p)
    \/ \E c \in Clients : ClientStep(c) \/ ClientKilled(c)

\* Every process that can run is scheduled; no call has to fail, and no client
\* has to be stopped.
Fairness ==
    /\ \A p \in Procs : WF_vars(ProcStep(p) /\ NoFault)
    /\ \A c \in Clients : WF_vars(ClientStep(c) /\ NoFault)

Spec == Init /\ [][Next]_vars
FairSpec == Spec /\ Fairness

-----------------------------------------------------------------------------
(* Types *)

\* Every variable has its type.
TypeOK ==
    /\ pc \in [Procs -> {"start", "unborn", "request", "fork", "child", "send",
                         "recv", "ended"}]
    /\ client \in [Procs -> Clients \cup {NoClient}]
    /\ open \in [Procs -> BOOLEAN]
    /\ inbox \in [Procs -> Seq(Clients)]
    /\ cpc \in [Clients -> {"ask", "await", "say", "hear", "left"}]
    /\ server \in [Clients -> Procs]
    /\ cinbox \in [Clients -> Seq(Kids)]
    /\ faults \in 0 .. MaxFaults

-----------------------------------------------------------------------------
(* Safety *)

Holds(queue, x) == \E j \in DOMAIN queue : queue[j] = x

\* Sessions do not mix (server.c:42-72, client.c:52-60): whatever the other
\* processes receive meanwhile, a child's datagrams come from its client and
\* go to it, and a client sends to the server or to a child of its own.
SessionsApart ==
    /\ \A p \in Kids, c \in Clients : Holds(inbox[p], c) => client[p] = c
    /\ \A p \in Kids, c \in Clients : Holds(cinbox[c], p) => client[p] = c
    /\ \A c \in Clients : server[c] # Main => client[server[c]] = c

Own == -1   \* a client's own place

\* Position 0 of a place is for whoever is about to send, the others are those
\* of its buffer.
HasTurn(c, place, j) ==
    \/ place # Own /\ j = 0 /\ client[place] = c
        /\ pc[place] \in {"fork", "child", "send"}
    \/ place # Own /\ j \in DOMAIN inbox[place] /\ inbox[place][j] = c
    \/ place = Own /\ j = 0 /\ cpc[c] \in {"ask", "say"}
    \/ place = Own /\ j \in DOMAIN cinbox[c]

\* What is on its way for c: its own next datagram, those in buffers, and the
\* processes that are about to answer it.
Turns(c) ==
    {t \in (Procs \cup {Own}) \X (0 .. Room) : HasTurn(c, t[1], t[2])}

\* Client and server speak in turns: of one client there is at most one
\* datagram or process on its way, over the request, the fork, the echoes and
\* the loops of a child that starts again; each recvfrom of a client that fails
\* may add one (client.c:52-60).  So no buffer of a session ever overflows.
InTurns == \A c \in Clients : Cardinality(Turns(c)) <= 1 + faults

\* As long as no call fails, a client has one child at most, which stays in its
\* loop for good: it does not come back to the loop for requests, nor to the
\* end of the program, and nobody gets a second child (server.c:59-77,
\* client.c:43-60).
OneChildEach ==
    faults = 0 =>
        \A p, q \in Kids :
            /\ pc[p] \in {"unborn", "child", "send", "recv"}
            /\ client[p] = client[q] /\ client[p] # NoClient => p = q

\* The server and its children serve every client as EchoService says: a turn at
\* the place of a process is something owed to the client (server.c:39-72,
\* client.c:34-60).
Owed(c) ==
    IF cpc[c] = "left" THEN 0
    ELSE Cardinality({t \in Procs \X (0 .. Room) : HasTurn(c, t[1], t[2])})

Echo ==
    INSTANCE EchoService
        WITH speaks <- [c \in Clients |-> cpc[c] \in {"ask", "say"}],
             owed <- [c \in Clients |-> Owed(c)],
             answers <- [c \in Clients |-> Len(cinbox[c])],
             failures <- faults

ServesEcho == Echo!EchoSpec

-----------------------------------------------------------------------------
(* Liveness *)

\* What a client says in a session is never lost, nor is a request that reached
\* the server: as long as no call fails and processes are left, the client speaks
\* next, or has gone.  So only its first request can get lost, and a client waits
\* for ever only for the answer to that one (server.c:39-74, client.c:35-62).
Answered ==
    \A c \in Clients :
        (cpc[c] = "hear" \/ \E p \in Procs : Holds(inbox[p], c))
            ~> cpc[c] \in {"say", "left"} \/ faults > 0
=============================================================================
