---------------------------- MODULE TcpSessions ----------------------------
(***************************************************************************)
(* src/NETS/multi-user TCP_ECHO: the server accepts a connection, forks,   *)
(* and the child greets the client and echoes what it says.                *)
(*                                                                         *)
(* The server never closes cfd, and a child inherits every connection the  *)
(* server has accepted so far; the server's end of a connection is closed  *)
(* when nobody holds it any more.  Neither accept nor recv is tested, and  *)
(* nobody waits for the children.                                          *)
(*                                                                         *)
(* A send is one message: on the loopback interface it arrives in one      *)
(* piece, and neither side sends a second one before it has an answer.     *)
(***************************************************************************)
EXTENDS Integers, Sequences, FiniteSets

CONSTANTS
    Clients,
    NoClient,   \* cfd == -1
    ListenBacklog, \* of listen(fd, 5)
    FdLimit,    \* connections the server can have open
    MaxKids     \* processes the system lets the server fork

ASSUME BoundsAssumption ==
    /\ NoClient \notin Clients
    /\ ListenBacklog \in Nat
    /\ FdLimit \in Nat
    /\ MaxKids \in Nat

Kids == 1 .. MaxKids

VARIABLES
    main,       \* where the server is
    cfd,        \* its cfd
    backlog,    \* the connections that wait for accept
    fds,        \* the connections the server has open
    kpc,        \* where each child is
    kcfd,       \* its cfd
    kfds,       \* the connections it has open
    cpc,        \* where each client is
    up,         \* messages on their way from each client
    down,       \* messages on their way to each client
    reset       \* whether a connection has been reset, and the end that is left
                \* has been told so

serverVars == <<main, cfd, backlog, fds>>
kidVars == <<kpc, kcfd, kfds>>
wireVars == <<up, down, reset>>
vars == <<serverVars, kidVars, cpc, wireVars>>

Init ==
    /\ main = "start"
    /\ cfd = NoClient
    /\ backlog = <<>>
    /\ fds = {}
    /\ kpc = [k \in Kids |-> "unborn"]
    /\ kcfd = [k \in Kids |-> NoClient]
    /\ kfds = [k \in Kids |-> {}]
    /\ cpc = [c \in Clients |-> "connect"]
    /\ up = [c \in Clients |-> 0]
    /\ down = [c \in Clients |-> 0]
    /\ reset = [c \in Clients |-> "no"]

Connected == {c \in Clients : cpc[c] \in {"greeting", "say", "hear"}}
Left(c) == cpc[c] = "left"

Waiting == {backlog[j] : j \in DOMAIN backlog}

\* Children that have not closed the listening socket yet.
Newborn == {k \in Kids : kpc[k] = "born"}
Listening == main \in {"accept", "fork"} \/ Newborn # {}

\* Somebody on the server's side has the connection open.
Served(c) == c \in fds \/ c \in Waiting \/ \E k \in Kids : c \in kfds[k]

-----------------------------------------------------------------------------
(* The server *)

MainGoto(from, to) ==
    /\ main = from
    /\ main' = to

\* With the last descriptor of the listening socket the kernel resets the
\* connections that nobody has accepted.
CloseListening(last) ==
    IF last
    THEN /\ backlog' = <<>>
         /\ reset' = [c \in Clients |-> IF c \in Waiting THEN "yes" ELSE reset[c]]
    ELSE UNCHANGED <<backlog, reset>>

MainExit(from) ==
    /\ MainGoto(from, "failed")
    /\ fds' = {}
    /\ CloseListening(Newborn = {})
    /\ UNCHANGED <<cfd, kidVars, cpc, up, down>>

\* socket, bind and listen.
MainListen ==
    /\ MainGoto("start", "accept")
    /\ UNCHANGED <<cfd, backlog, fds, kidVars, cpc, wireVars>>

MainListenFails == MainExit("start")

\* A server that waits for its child before it accepts again.
MutMainAccept ==
    /\ MainGoto("accept", "fork")
    /\ \A k \in Kids : kpc[k] \in {"unborn", "ended"}
    /\ Cardinality(fds) < FdLimit
    /\ backlog # <<>>
    /\ cfd' = Head(backlog)
    /\ fds' = fds \cup {Head(backlog)}
    /\ backlog' = Tail(backlog)
    /\ UNCHANGED <<kidVars, cpc, wireVars>>

\* A connection is accepted also after its client has left.
MainAccept ==
    /\ MainGoto("accept", "fork")
    /\ Cardinality(fds) < FdLimit
    /\ backlog # <<>>
    /\ cfd' = Head(backlog)
    /\ fds' = fds \cup {Head(backlog)}
    /\ backlog' = Tail(backlog)
    /\ UNCHANGED <<kidVars, cpc, wireVars>>

\* Without a free descriptor accept fails before it looks for a client.
MainAcceptFails ==
    /\ MainGoto("accept", "fork")
    /\ Cardinality(fds) = FdLimit
    /\ cfd' = NoClient
    /\ UNCHANGED <<backlog, fds, kidVars, cpc, wireVars>>

NextKid(kid) ==
    /\ kpc[kid] = "unborn"
    /\ \A older \in Kids : older < kid => kpc[older] # "unborn"

MainFork ==
    /\ MainGoto("fork", "accept")
    /\ \E kid \in Kids :
        /\ NextKid(kid)
        /\ kpc' = [kpc EXCEPT ![kid] = "born"]
        /\ kcfd' = [kcfd EXCEPT ![kid] = cfd]
        /\ kfds' = [kfds EXCEPT ![kid] = fds]
    /\ UNCHANGED <<cfd, backlog, fds, cpc, wireVars>>

\* A server that reports the failure and goes on.
MutMainForkFails ==
    /\ MainGoto("fork", "accept")
    /\ UNCHANGED <<cfd, backlog, fds, kidVars, cpc, wireVars>>

\* Children that have ended are never waited for and go on counting; fork may
\* also fail for other reasons.
MainForkFails == MainExit("fork")

MainStep ==
    \/ MainListen \/ MainListenFails
    \/ MainAccept \/ MainAcceptFails
    \/ MainFork \/ MainForkFails

-----------------------------------------------------------------------------
(* A child *)

KidGoto(k, from, to) ==
    /\ kpc[k] = from
    /\ kpc' = [kpc EXCEPT ![k] = to]

\* close(fd)
KidClose(k) ==
    /\ KidGoto(k, "born", "greet")
    /\ CloseListening(main = "failed" /\ Newborn = {k})
    /\ UNCHANGED <<main, cfd, fds, kcfd, kfds, cpc, up, down>>

Deliver(c) ==
    /\ ~Left(c)
    /\ down' = [down EXCEPT ![c] = @ + 1]
    /\ UNCHANGED <<up, reset>>

\* The other end answers a message that nobody will read by a reset; the next
\* call is told so, and a send after that gets SIGPIPE.
Reset(c) == reset' = [reset EXCEPT ![c] = "yes"]
Told(c) ==
    reset' = [reset EXCEPT ![c] = IF @ = "yes" THEN "told" ELSE @]

SendToNobody(c) ==
    /\ reset[c] # "told"
    /\ IF reset[c] = "no" THEN Reset(c) ELSE Told(c)
    /\ UNCHANGED <<up, down>>

\* An echo right after the welcome, before anything is received.
MutKidSend(k) ==
    /\ kpc[k] \in {"greet", "send"}
    /\ kpc' = [kpc EXCEPT ![k] = IF @ = "greet" THEN "send" ELSE "recv"]
    /\ \/ kcfd[k] = NoClient /\ UNCHANGED wireVars
       \/ kcfd[k] # NoClient /\ Deliver(kcfd[k])
       \/ kcfd[k] # NoClient /\ Left(kcfd[k]) /\ SendToNobody(kcfd[k])
    /\ UNCHANGED <<serverVars, kcfd, kfds, cpc>>

\* The welcome or an echo; without a connection send and recv fail and nobody
\* notices.
KidSend(k) ==
    /\ kpc[k] \in {"greet", "send"}
    /\ kpc' = [kpc EXCEPT ![k] = "recv"]
    /\ \/ kcfd[k] = NoClient /\ UNCHANGED wireVars
       \/ kcfd[k] # NoClient /\ Deliver(kcfd[k])
       \/ kcfd[k] # NoClient /\ Left(kcfd[k]) /\ SendToNobody(kcfd[k])
    /\ UNCHANGED <<serverVars, kcfd, kfds, cpc>>

\* send with MSG_NOSIGNAL.
MutKidKilled(k) ==
    /\ kpc[k] \in {"greet", "send"}
    /\ kcfd[k] # NoClient
    /\ reset[kcfd[k]] = "told"
    /\ kpc' = [kpc EXCEPT ![k] = "recv"]
    /\ UNCHANGED <<serverVars, kcfd, kfds, cpc, wireVars>>

\* SIGPIPE
KidKilled(k) ==
    /\ kpc[k] \in {"greet", "send"}
    /\ kcfd[k] # NoClient
    /\ reset[kcfd[k]] = "told"
    /\ kpc' = [kpc EXCEPT ![k] = "ended"]
    /\ kfds' = [kfds EXCEPT ![k] = {}]
    /\ UNCHANGED <<serverVars, kcfd, cpc, wireVars>>

KidRecv(k) ==
    /\ KidGoto(k, "recv", "send")
    /\ kcfd[k] # NoClient
    /\ up[kcfd[k]] > 0
    /\ up' = [up EXCEPT ![kcfd[k]] = @ - 1]
    /\ UNCHANGED <<serverVars, kcfd, kfds, cpc, down, reset>>

\* A recv that does not wait.
MutKidRecvNothing(k) ==
    /\ KidGoto(k, "recv", "send")
    /\ UNCHANGED <<serverVars, kcfd, kfds, cpc, wireVars>>

\* recv returns 0 or -1, and the old buffer is echoed once more.
KidRecvNothing(k) ==
    /\ KidGoto(k, "recv", "send")
    /\ \/ kcfd[k] = NoClient /\ UNCHANGED reset
       \/ /\ kcfd[k] # NoClient
          /\ Left(kcfd[k])
          /\ up[kcfd[k]] = 0
          /\ Told(kcfd[k])
    /\ UNCHANGED <<serverVars, kcfd, kfds, cpc, up, down>>

KidStep(k) ==
    \/ KidClose(k)
    \/ KidSend(k) \/ KidKilled(k)
    \/ KidRecv(k) \/ KidRecvNothing(k)

-----------------------------------------------------------------------------
(* A client *)

ClientGoto(c, from, to) ==
    /\ cpc[c] = from
    /\ cpc' = [cpc EXCEPT ![c] = to]

\* The kernel completes the connection before the server accepts it, if no more
\* than the backlog wait; otherwise connect goes on trying.
ClientConnect(c) ==
    /\ ClientGoto(c, "connect", "greeting")
    /\ Listening
    /\ Len(backlog) <= ListenBacklog
    /\ backlog' = Append(backlog, c)
    /\ UNCHANGED <<main, cfd, fds, kidVars, wireVars>>

\* connect is refused when nobody listens and gives up when the backlog stays
\* full; socket may fail at any time.
ClientConnectFails(c) ==
    /\ ClientGoto(c, "connect", "left")
    /\ UNCHANGED <<serverVars, kidVars, wireVars>>

\* A client that does not wait for the answer.
MutClientRecv(c) ==
    /\ cpc[c] \in {"greeting", "hear"}
    /\ cpc' = [cpc EXCEPT ![c] = "say"]
    /\ down' = [down EXCEPT ![c] = @ - 1]
    /\ UNCHANGED <<serverVars, kidVars, up, reset>>

\* The welcome or an echo.
ClientRecv(c) ==
    /\ cpc[c] \in {"greeting", "hear"}
    /\ cpc' = [cpc EXCEPT ![c] = "say"]
    /\ down[c] > 0
    /\ down' = [down EXCEPT ![c] = @ - 1]
    /\ UNCHANGED <<serverVars, kidVars, up, reset>>

\* recv returns 0 or -1, and the client goes on.
ClientRecvNothing(c) ==
    /\ cpc[c] \in {"greeting", "hear"}
    /\ cpc' = [cpc EXCEPT ![c] = "say"]
    /\ down[c] = 0
    /\ ~Served(c)
    /\ Told(c)
    /\ UNCHANGED <<serverVars, kidVars, up, down>>

ClientSend(c) ==
    /\ ClientGoto(c, "say", "hear")
    /\ Served(c)
    /\ up' = [up EXCEPT ![c] = @ + 1]
    /\ UNCHANGED <<serverVars, kidVars, down, reset>>

ClientSendToNobody(c) ==
    /\ ClientGoto(c, "say", "hear")
    /\ ~Served(c)
    /\ SendToNobody(c)
    /\ UNCHANGED <<serverVars, kidVars>>

\* The user stops the client, or it gets SIGPIPE.  If it leaves something
\* unread, its kernel resets the connection at once.
Disconnect(c) ==
    /\ cpc' = [cpc EXCEPT ![c] = "left"]
    /\ down' = [down EXCEPT ![c] = 0]
    /\ IF down[c] > 0 THEN Reset(c) ELSE UNCHANGED reset
    /\ UNCHANGED <<serverVars, kidVars, up>>

ClientKilled(c) ==
    /\ cpc[c] = "say"
    /\ ~Served(c)
    /\ reset[c] = "told"
    /\ Disconnect(c)

ClientStopped(c) == c \in Connected /\ Disconnect(c)

ClientStep(c) ==
    \/ ClientConnect(c) \/ ClientConnectFails(c)
    \/ ClientRecv(c) \/ ClientRecvNothing(c)
    \/ ClientSend(c) \/ ClientSendToNobody(c) \/ ClientKilled(c)

-----------------------------------------------------------------------------

Next ==
    \/ MainStep
    \/ \E k \in Kids : KidStep(k)
    \/ \E c \in Clients : ClientStep(c) \/ ClientStopped(c)

\* Every process that can run is scheduled.
Fairness ==
    /\ WF_vars(MainStep)
    /\ \A k \in Kids : WF_vars(KidStep(k))
    /\ \A c \in Clients : WF_vars(ClientStep(c))

Spec == Init /\ [][Next]_vars
FairSpec == Spec /\ Fairness
-----------------------------------------------------------------------------
(* Types *)

\* Every variable has its type.
TypeOK ==
    /\ main \in {"start", "accept", "fork", "failed"}
    /\ cfd \in Clients \cup {NoClient}
    /\ backlog \in Seq(Clients)
    /\ fds \subseteq Clients
    /\ kpc \in [Kids -> {"unborn", "born", "greet", "recv", "send", "ended"}]
    /\ kcfd \in [Kids -> Clients \cup {NoClient}]
    /\ kfds \in [Kids -> SUBSET Clients]
    /\ cpc \in [Clients -> {"connect", "greeting", "say", "hear", "left"}]
    /\ up \in [Clients -> Nat]
    /\ down \in [Clients -> Nat]
    /\ reset \in [Clients -> {"no", "yes", "told"}]

-----------------------------------------------------------------------------
(* Safety *)

Alive(k) == kpc[k] \notin {"unborn", "ended"}

KidsOf(c) == {k \in Kids : kcfd[k] = c /\ Alive(k)}

\* Of a connection that the server has accepted.
InServersHands(c) ==
    \/ c \in Waiting
    \/ main = "fork" /\ cfd = c

\* A client that is connected has a child of its own, or is about to get one,
\* or has nobody on the other side; it never has two, and its child does not
\* end before it leaves (server.c:44-59).
OneChildEach ==
    \A c \in Connected :
        /\ Cardinality(KidsOf(c)) <= 1
        /\ Served(c) /\ ~InServersHands(c) => KidsOf(c) # {}

\* Client and child speak in turns: of a session exactly one message is on its
\* way, or one of the two is about to send it.  What each side receives is the
\* answer to what it sent (server.c:55-58, client.c:40-48).
Turns(c) ==
    up[c] + down[c]
    + (IF cpc[c] = "say" THEN 1 ELSE 0)
    + Cardinality({k \in KidsOf(c) : kpc[k] \in {"born", "greet", "send"}})

InTurns ==
    \A c \in Connected : KidsOf(c) # {} => Turns(c) = 1

\* The server and its children serve every client as EchoService says: to a
\* client that somebody serves they owe the welcome and an answer to every
\* message (server.c:44-59, client.c:36-52).
Owed(c) ==
    IF c \in Connected /\ Served(c)
    THEN up[c] + (IF InServersHands(c) THEN 1 ELSE 0)
         + Cardinality({k \in KidsOf(c) : kpc[k] \in {"born", "greet", "send"}})
    ELSE 0

Echo ==
    INSTANCE EchoService
        WITH speaks <- [c \in Clients |-> cpc[c] \in {"connect", "say"}],
             owed <- [c \in Clients |-> Owed(c)],
             answers <- down,
             failures <- 0

ServesEcho == Echo!EchoSpec

-----------------------------------------------------------------------------
(* Liveness *)

\* No client waits for ever: it is greeted and answered, whatever the other
\* clients do, or it learns that nobody is there (server.c:44-59,
\* client.c:40-52).
NobodyWaits ==
    \A c \in Clients : cpc[c] \in {"greeting", "hear"} ~> cpc[c] \in {"say", "left"}

\* A child ends when its client has left, although it tests no result: the
\* second send into a closed connection kills it (server.c:56-59).
ChildrenEnd ==
    \A k \in Kids, c \in Clients :
        kcfd[k] = c /\ Alive(k) /\ Left(c) ~> kpc[k] = "ended"

-----------------------------------------------------------------------------
(* What the code says *)

\* "Client has been connected" (server.c:47): the process forked next is for a
\* client.
ChildrenHaveClients == \A k \in Kids : Alive(k) => kcfd[k] # NoClient
=============================================================================
