---------------------------- MODULE SelectServer ----------------------------
(***************************************************************************)
(* NETS/select/tcp_udp_server.c: one process serves a TCP and a UDP port.  *)
(* It waits in select for either, accepts one connection, greets it and    *)
(* closes it, receives one datagram and answers it, and starts again.      *)
(* accept and recvfrom block; select has to say that they will not.        *)
(* The clients are not in the repository: each asks once on either port.   *)
(***************************************************************************)
EXTENDS Naturals, FiniteSets

CONSTANT Clients

Nobody == "nobody"          \* no connection, or a structure nobody has filled
Backlog == 6                \* listen(tcp_sock, 5): the kernel keeps one more

VARIABLES
  pc,            \* the call the server makes next
  rfds,          \* the sockets FD_ISSET reports
  cfd,           \* the client of the connection that is open
  client_addr,   \* the address in the structure both branches share
  backlog,       \* connections that wait for accept
  dgrams,        \* datagrams that wait for recvfrom, by their sender
  left,          \* clients that have closed their connection
  called,        \* clients that have connected
  asked,         \* clients whose datagram has reached the socket
  greeted,       \* clients whose connection the server has sent to, or tried to
  answered,      \* clients whose datagram has been answered
  strays,        \* where the other answers went
  selectFailed,  \* some select has failed
  recvFailed     \* some recvfrom has failed

server == <<pc, rfds, cfd, client_addr, greeted, answered, strays>>
faults == <<selectFailed, recvFailed>>
vars == <<server, backlog, dgrams, left, called, asked, faults>>

Calls == {"tcp setup", "udp setup", "select", "accept", "send", "close",
          "recvfrom", "sendto", "exit"}

Init ==
  /\ pc = "tcp setup"
  /\ rfds = {}
  /\ cfd = Nobody
  /\ client_addr = Nobody
  /\ backlog = {} /\ dgrams = {} /\ left = {} /\ called = {} /\ asked = {}
  /\ greeted = {} /\ answered = {} /\ strays = {}
  /\ selectFailed = FALSE
  /\ recvFailed = FALSE

-----------------------------------------------------------------------------
(* The clients and the kernel *)

Listening == pc \notin {"tcp setup", "exit"}
Bound == pc \notin {"tcp setup", "udp setup", "exit"}

\* The handshake needs no accept: it is enough that the socket listens.
Connect(c) ==
  /\ Listening /\ c \notin called
  /\ Cardinality(backlog) < Backlog
  /\ backlog' = backlog \union {c}
  /\ called' = called \union {c}
  /\ UNCHANGED <<server, dgrams, left, asked, faults>>

\* A client that does not wait for its greeting.
Leave(c) ==
  /\ c \in called \ left
  /\ left' = left \union {c}
  /\ UNCHANGED <<server, backlog, dgrams, called, asked, faults>>

\* A datagram before the bind, or one that finds the buffer full, is dropped
\* and changes nothing.
Ask(c) ==
  /\ Bound /\ c \notin asked
  /\ dgrams' = dgrams \union {c}
  /\ asked' = asked \union {c}
  /\ UNCHANGED <<server, backlog, left, called, faults>>

-----------------------------------------------------------------------------
(* The server *)

OpenTcp ==
  /\ pc = "tcp setup" /\ pc' = "udp setup"
  /\ UNCHANGED <<rfds, cfd, client_addr, greeted, answered, strays,
                 backlog, dgrams, left, called, asked, faults>>

OpenUdp ==
  /\ pc = "udp setup" /\ pc' = "select"
  /\ UNCHANGED <<rfds, cfd, client_addr, greeted, answered, strays,
                 backlog, dgrams, left, called, asked, faults>>

\* socket, bind, listen and accept end the program when they fail, and with
\* it the connections in the backlog.
Fails ==
  /\ pc \in {"tcp setup", "udp setup", "accept"} /\ pc' = "exit"
  /\ backlog' = {} /\ dgrams' = {}
  /\ UNCHANGED <<rfds, cfd, client_addr, greeted, answered, strays,
                 left, called, asked, faults>>

\* The two tests of FD_ISSET, in their order.
SecondBranch(set) == IF "udp" \in set THEN "recvfrom" ELSE "select"

FirstBranch(set) == IF "tcp" \in set THEN "accept" ELSE SecondBranch(set)

Ready == {s \in {"tcp", "udp"} : \/ s = "tcp" /\ backlog # {}
                                 \/ s = "udp" /\ dgrams # {}}

Select ==
  /\ pc = "select" /\ Ready # {}
  /\ rfds' = Ready
  /\ pc' = FirstBranch(Ready)
  /\ UNCHANGED <<cfd, client_addr, greeted, answered, strays,
                 backlog, dgrams, left, called, asked, faults>>

\* A failure is reported and nothing else: the set is what the call was given,
\* both sockets, and the program goes on as if both were ready.
SelectFails ==
  /\ pc = "select"
  /\ rfds' = {"tcp", "udp"}
  /\ pc' = FirstBranch({"tcp", "udp"})
  /\ selectFailed' = TRUE
  /\ UNCHANGED <<cfd, client_addr, greeted, answered, strays,
                 backlog, dgrams, left, called, asked, recvFailed>>

\* The order in which the kernel hands out connections matters to nobody here.
Accept ==
  /\ pc = "accept" /\ pc' = "send"
  /\ \E c \in backlog : /\ cfd' = c
                        /\ client_addr' = c
                        /\ backlog' = backlog \ {c}
  /\ UNCHANGED <<rfds, greeted, answered, strays,
                 dgrams, left, called, asked, faults>>

\* send's result is ignored: a client that has left gets nothing, and as it is
\* the only send there is no signal.
Send ==
  /\ pc = "send" /\ pc' = "close"
  /\ greeted' = greeted \union {cfd}
  /\ UNCHANGED <<rfds, cfd, client_addr, answered, strays,
                 backlog, dgrams, left, called, asked, faults>>

Close ==
  /\ pc = "close" /\ pc' = SecondBranch(rfds)
  /\ cfd' = Nobody
  /\ UNCHANGED <<rfds, client_addr, greeted, answered, strays,
                 backlog, dgrams, left, called, asked, faults>>

Recvfrom ==
  /\ pc = "recvfrom" /\ pc' = "sendto"
  /\ \E c \in dgrams : client_addr' = c /\ dgrams' = dgrams \ {c}
  /\ UNCHANGED <<rfds, cfd, greeted, answered, strays,
                 backlog, left, called, asked, faults>>

\* The result is ignored, and client_addr is that of an earlier call, perhaps
\* of an accept.
RecvfromFails ==
  /\ pc = "recvfrom" /\ pc' = "sendto"
  /\ recvFailed' = TRUE
  /\ UNCHANGED <<rfds, cfd, client_addr, greeted, answered, strays,
                 backlog, dgrams, left, called, asked, selectFailed>>

\* A datagram goes to client_addr, whoever that is.
Unanswered == asked \ (dgrams \union answered)

Sendto ==
  /\ pc = "sendto" /\ pc' = "select"
  /\ IF client_addr \in Unanswered
     THEN answered' = answered \union {client_addr} /\ UNCHANGED strays
     ELSE strays' = strays \union {client_addr} /\ UNCHANGED answered
  /\ UNCHANGED <<rfds, cfd, client_addr, greeted,
                 backlog, dgrams, left, called, asked, faults>>

Next ==
  \/ \E c \in Clients : Connect(c) \/ Leave(c) \/ Ask(c)
  \/ OpenTcp \/ OpenUdp \/ Fails \/ Select \/ SelectFails
  \/ Accept \/ Send \/ Close \/ Recvfrom \/ RecvfromFails \/ Sendto

Spec == Init /\ [][Next]_vars

-----------------------------------------------------------------------------
TypeOK ==
  /\ pc \in Calls
  /\ rfds \subseteq {"tcp", "udp"}
  /\ cfd \in Clients \union {Nobody}
  /\ client_addr \in Clients \union {Nobody}
  /\ backlog \subseteq called /\ dgrams \subseteq asked
  /\ left \subseteq called /\ called \subseteq Clients
  /\ asked \subseteq Clients
  /\ greeted \subseteq called /\ answered \subseteq asked
  /\ strays \subseteq Clients \union {Nobody}
  /\ selectFailed \in BOOLEAN /\ recvFailed \in BOOLEAN

\* As long as select has not failed the server waits in select only: what was
\* ready when it looked is still there when it comes to the blocking call, also
\* after the whole TCP branch (lines 84-100).
BlocksOnlyInSelect ==
  \/ selectFailed
  \/ /\ pc = "accept" => backlog # {}
     /\ pc = "recvfrom" => dgrams # {}

\* A connection waits, is open, or has been greeted, and is one of these only,
\* until the server ends; none is forgotten when both sockets are ready
\* (lines 84-93).
GreetedOnce ==
  /\ pc # "exit" => called = backlog \union greeted \union ({cfd} \ {Nobody})
  /\ backlog \intersect greeted = {}
  /\ pc = "send" => cfd \in Clients \ (backlog \union greeted)
  /\ pc \notin {"send", "close"} => cfd = Nobody

\* As long as recvfrom has not failed every answer goes to a client whose
\* datagram has been read and not been answered yet, although the structure
\* with the address is also that of accept (lines 94-100).
AnswersGoToAskers ==
  \/ recvFailed
  \/ /\ strays = {}
     /\ pc = "sendto" => client_addr \in Unanswered
     /\ pc \notin {"sendto", "exit"} => asked = dgrams \union answered
     /\ dgrams \intersect answered = {}
=============================================================================
