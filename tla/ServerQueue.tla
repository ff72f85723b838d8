---------------------------- MODULE ServerQueue ----------------------------
(***************************************************************************)
(* src/NETS/server_queue: main accepts TCP connections and UDP datagrams   *)
(* behind one epoll and puts a request for each on a System V message      *)
(* queue; service threads take requests off the queue and answer them.     *)
(* The queue belongs to the kernel and outlives the process.               *)
(*                                                                         *)
(* Every client has one request, which arrives in one piece.  The text of  *)
(* main's buffer matters only by whose messages it has parts of; file      *)
(* descriptors are those main and the service threads open after startup,  *)
(* numbered from 1.                                                        *)
(***************************************************************************)
EXTENDS Naturals, Sequences, FiniteSets

CONSTANTS
    TcpClients, UdpClients,
    Workers,            \* the service threads, 2 in the code
    None,               \* no client
    Short,              \* clients whose message is shorter than MSG_SIZE, or empty
    QueueCap,           \* how many requests the kernel's queue holds
    ListenBacklog,      \* 5 in the code
    FdLimit,            \* how many descriptors there are
    LateRead,           \* what a thread may find in &msqfd after the pool's frame is gone
    SendtoMayFail,      \* whether sendto may fail
    AfterOverrun,       \* what msgrcv's write past request may leave in msqfd
    MaxSignals,         \* bound: signals sent to the server
    MaxStarts           \* bound: how often the server is started

Clients == TcpClients \cup UdpClients
Fds == 1 .. FdLimit

ASSUME ClientsAssumption ==
    /\ TcpClients \cap UdpClients = {}
    /\ None \notin Clients
    /\ Short \subseteq Clients

ASSUME WorkersAssumption == IsFiniteSet(Workers)

ASSUME LimitsAssumption ==
    /\ QueueCap \in Nat \ {0} /\ ListenBacklog \in Nat /\ FdLimit \in Nat
    /\ MaxSignals \in Nat /\ MaxStarts \in Nat

ASSUME FrameAssumption ==
    /\ LateRead \subseteq {"good", "bad"} /\ AfterOverrun \subseteq {"good", "bad"}
    /\ SendtoMayFail \in BOOLEAN

VARIABLES
    main,           \* where main is
    triggered,      \* triggered.data.fd: a listening socket, or what main's
                    \* frame held before, which is neither in any build we ran
    terminating,
    request,        \* main's request buffer
    exists, msgs,   \* the message queue
    wpc,            \* where each service thread is
    wreq,           \* its request buffer
    wqid,           \* its msqfd: the queue's id or not
    fdOf,           \* what each descriptor is: free, a client's connection or a
                    \* socket for the answer to a UDP client
    backlog,        \* connections that wait for accept
    dgrams,         \* datagrams that wait for recvfrom
    client,         \* what each client has done
    answers,        \* how many answers each client got
    signals, starts \* how many there have been

mainVars == <<main, triggered, terminating, request>>
queueVars == <<exists, msgs>>
workerVars == <<wpc, wreq, wqid>>
arrivals == <<backlog, dgrams>>
clientVars == <<client, answers>>
bounds == <<signals, starts>>
vars == <<mainVars, queueVars, workerVars, fdOf, arrivals, clientVars, bounds>>

NoRequest == [mtype |-> "none", client |-> None, fd |-> 0, text |-> {}]

Stopped == main \in {"off", "exited", "failed"}

Init ==
    /\ main = "off"
    /\ triggered = "none"
    /\ terminating = FALSE
    /\ request = NoRequest
    /\ exists = FALSE /\ msgs = <<>>
    /\ wpc = [w \in Workers |-> "none"]
    /\ wreq = [w \in Workers |-> NoRequest]
    /\ wqid = [w \in Workers |-> "good"]
    /\ fdOf = [f \in Fds |-> None]
    /\ backlog = <<>> /\ dgrams = <<>>
    /\ client = [c \in Clients |-> "idle"]
    /\ answers = [c \in Clients |-> 0]
    /\ signals = 0 /\ starts = 0

-----------------------------------------------------------------------------
(* Descriptors *)

FreeFds == {f \in Fds : fdOf[f] = None}

\* A new descriptor is the lowest one that is free.
Open(f, c) ==
    /\ f \in FreeFds
    /\ \A g \in FreeFds : f <= g
    /\ fdOf' = [fdOf EXCEPT ![f] = c]

Close(f) == fdOf' = [fdOf EXCEPT ![f] = None]

-----------------------------------------------------------------------------
(* main *)

Goto(from, to) ==
    /\ main = from
    /\ main' = to

OthersRest == UNCHANGED <<workerVars, clientVars, bounds>>

OnlyMainMoves ==
    /\ UNCHANGED <<triggered, terminating, request, queueVars, fdOf, arrivals>>
    /\ OthersRest

\* The process ends: its threads, descriptors and connections end with it, the
\* kernel's queue stays as it is.
Exit(how) ==
    /\ main' = how
    /\ wpc' = [w \in Workers |-> "none"]
    /\ fdOf' = [f \in Fds |-> None]
    /\ backlog' = <<>> /\ dgrams' = <<>>
    /\ client' = [c \in Clients |->
                    CASE c \in TcpClients /\ client[c] = "open" -> "gone"
                      [] c \in TcpClients /\ client[c] = "sent" -> "left"
                      [] OTHER -> client[c]]
    /\ UNCHANGED <<triggered, request, queueVars, wreq, wqid, answers>>

\* A new process, its memory and threads as at the beginning.
Start ==
    /\ Stopped /\ starts < MaxStarts
    /\ main' = "msgget"
    /\ starts' = starts + 1
    /\ triggered' = "none"
    /\ terminating' = FALSE
    /\ request' = NoRequest
    /\ wreq' = [w \in Workers |-> NoRequest]
    /\ wqid' = [w \in Workers |-> "good"]
    /\ UNCHANGED <<queueVars, wpc, fdOf, arrivals, clientVars, signals>>

\* msgget with IPC_CREAT | IPC_EXCL.
MainCreateQueue ==
    /\ ~exists
    /\ Goto("msgget", "pool")
    /\ exists' = TRUE /\ msgs' = <<>>
    /\ UNCHANGED <<triggered, terminating, request, fdOf, arrivals>>
    /\ OthersRest

MainQueueExists ==
    /\ main = "msgget" /\ exists
    /\ Exit("failed") /\ UNCHANGED <<terminating, bounds>>

\* GenerationServiceThreads; a pthread_create that fails is tried again.
MainCreateThread ==
    /\ main = "pool"
    /\ \E w \in Workers :
        /\ wpc[w] = "none"
        /\ wpc' = [wpc EXCEPT ![w] = "start"]
    /\ UNCHANGED <<mainVars, queueVars, wreq, wqid, fdOf, arrivals, clientVars, bounds>>

MainPoolReturns ==
    /\ Goto("pool", "setup")
    /\ \A w \in Workers : wpc[w] # "none"
    /\ OnlyMainMoves

\* The sockets and the epoll; any of the calls may fail.
MainSetup ==
    /\ Goto("setup", "epoll")
    /\ OnlyMainMoves

MainSetupFails ==
    /\ main = "setup"
    /\ Exit("failed") /\ UNCHANGED <<terminating, bounds>>

Ready == {q \in {"tcp", "udp"} : IF q = "tcp" THEN backlog # <<>> ELSE dgrams # <<>>}

\* Any event taken for an event of either socket.
MutMainEpollWait ==
    /\ Goto("epoll", "check")
    /\ Ready # {}
    /\ triggered' \in {"tcp", "udp"}
    /\ UNCHANGED <<terminating, request, queueVars, fdOf, arrivals>>
    /\ OthersRest

MainEpollWait ==
    /\ Goto("epoll", "check")
    /\ triggered' \in Ready
    /\ UNCHANGED <<terminating, request, queueVars, fdOf, arrivals>>
    /\ OthersRest

\* A dispatch that knows only TCP.
MutMainDispatch ==
    /\ Goto("check", CASE terminating -> "rmid"
                       [] ~terminating /\ triggered = "tcp" -> "accept"
                       [] OTHER -> "epoll")
    /\ OnlyMainMoves

\* Only here does main look at terminating.
MainDispatch ==
    /\ Goto("check", CASE terminating -> "rmid"
                       [] ~terminating /\ triggered = "tcp" -> "accept"
                       [] ~terminating /\ triggered = "udp" -> "recvfrom"
                       [] OTHER -> "epoll")
    /\ OnlyMainMoves

MainAccept ==
    /\ Goto("accept", "recv")
    /\ backlog # <<>>
    /\ \E f \in Fds :
        /\ Open(f, Head(backlog))
        /\ request' = [request EXCEPT !.mtype = "tcp", !.client = Head(backlog),
                                      !.fd = f]
    /\ backlog' = Tail(backlog)
    /\ UNCHANGED <<triggered, terminating, queueVars, dgrams>>
    /\ OthersRest

\* accept takes a descriptor before it looks for a connection.
MainAcceptFails ==
    /\ main = "accept" /\ FreeFds = {}
    /\ Exit("failed") /\ UNCHANGED <<terminating, bounds>>

\* What a message makes of the text in the buffer, which nobody clears: a short
\* one leaves the end of what was there, an empty one all of it.
Overwritten(text, c) ==
    IF c \notin Short THEN {{c}}
    ELSE {text, text \cup {c}} \cup (IF text \subseteq Short THEN {{c}} ELSE {})

\* A recv that does not wait.
MutMainRecv ==
    /\ Goto("recv", "msgsnd")
    /\ UNCHANGED request
    /\ UNCHANGED <<triggered, terminating, queueVars, fdOf, arrivals>>
    /\ OthersRest

\* recv waits for the client; its result is not looked at, so a connection that
\* ended leaves the text of an earlier request in the buffer.
MainRecv ==
    /\ Goto("recv", "msgsnd")
    /\ \/ /\ client[request.client] \in {"sent", "left"}
          /\ \E t \in Overwritten(request.text, request.client) :
                request' = [request EXCEPT !.text = t]
       \/ /\ client[request.client] \in {"gone", "left"}
          /\ UNCHANGED request
    /\ UNCHANGED <<triggered, terminating, queueVars, fdOf, arrivals>>
    /\ OthersRest

\* A request whose type is still that of the request before.
MutMainRecvfrom ==
    /\ Goto("recvfrom", "msgsnd")
    /\ dgrams # <<>>
    /\ \E t \in Overwritten(request.text, Head(dgrams)) :
        request' = [request EXCEPT !.client = Head(dgrams), !.text = t]
    /\ dgrams' = Tail(dgrams)
    /\ UNCHANGED <<triggered, terminating, queueVars, fdOf, backlog>>
    /\ OthersRest

MainRecvfrom ==
    /\ Goto("recvfrom", "msgsnd")
    /\ dgrams # <<>>
    /\ \E t \in Overwritten(request.text, Head(dgrams)) :
        request' = [mtype |-> "udp", client |-> Head(dgrams), fd |-> 0, text |-> t]
    /\ dgrams' = Tail(dgrams)
    /\ UNCHANGED <<triggered, terminating, queueVars, fdOf, backlog>>
    /\ OthersRest

\* A main that closes the connection once the request is queued, as a server
\* does whose children answer.
MutMainMsgsndCloses ==
    /\ Goto("msgsnd", "epoll")
    /\ Len(msgs) < QueueCap
    /\ msgs' = Append(msgs, request)
    /\ fdOf' = [f \in Fds |-> IF f = request.fd THEN None ELSE fdOf[f]]
    /\ UNCHANGED <<triggered, terminating, request, exists, arrivals>>
    /\ OthersRest

\* A queue that hands out the newest request first.
MutMainMsgsndFirst ==
    /\ Goto("msgsnd", "epoll")
    /\ Len(msgs) < QueueCap
    /\ msgs' = <<request>> \o msgs
    /\ UNCHANGED <<triggered, terminating, request, exists, fdOf, arrivals>>
    /\ OthersRest

\* msgsnd waits while the queue is full.
MainMsgsnd ==
    /\ Goto("msgsnd", "epoll")
    /\ Len(msgs) < QueueCap
    /\ msgs' = Append(msgs, request)
    /\ UNCHANGED <<triggered, terminating, request, exists, fdOf, arrivals>>
    /\ OthersRest

MainRemoveQueue ==
    /\ Goto("rmid", "close")
    /\ exists' = FALSE /\ msgs' = <<>>
    /\ UNCHANGED <<triggered, terminating, request, fdOf, arrivals>>
    /\ OthersRest

MainExit ==
    /\ main = "close"
    /\ Exit("exited") /\ UNCHANGED <<terminating, bounds>>

MainStep ==
    \/ MainCreateQueue \/ MainQueueExists \/ MainCreateThread \/ MainPoolReturns
    \/ MainSetup \/ MainSetupFails \/ MainEpollWait \/ MainDispatch
    \/ MainAccept \/ MainAcceptFails \/ MainRecv \/ MainRecvfrom \/ MainMsgsnd
    \/ MainRemoveQueue \/ MainExit

-----------------------------------------------------------------------------
(* A service thread *)

WorkerGoto(w, from, to) ==
    /\ wpc[w] = from
    /\ wpc' = [wpc EXCEPT ![w] = to]

\* The thread reads the queue's id through a pointer to a parameter of
\* GenerationServiceThreads, which may have returned.
WorkerStart(w) ==
    /\ WorkerGoto(w, "start", "sleep")
    /\ \E q \in IF main = "pool" THEN {"good"} ELSE LateRead :
        wqid' = [wqid EXCEPT ![w] = q]
    /\ UNCHANGED <<queueVars, wreq, fdOf, answers>>

\* A msgrcv that leaves the request in the queue.
MutWorkerReceive(w) ==
    /\ wqid[w] = "good" /\ exists /\ msgs # <<>>
    /\ WorkerGoto(w, "sleep", IF Head(msgs).mtype = "tcp" THEN "send" ELSE "socket")
    /\ wreq' = [wreq EXCEPT ![w] = Head(msgs)]
    /\ \E q \in AfterOverrun : wqid' = [wqid EXCEPT ![w] = q]
    /\ UNCHANGED <<queueVars, fdOf, answers>>

\* msgrcv takes the oldest request and CHOOSE dispatches on its type.  The size
\* given to msgrcv counts mtype, so that it also writes past request.
WorkerReceive(w) ==
    /\ wqid[w] = "good" /\ exists /\ msgs # <<>>
    /\ WorkerGoto(w, "sleep", IF Head(msgs).mtype = "tcp" THEN "send" ELSE "socket")
    /\ wreq' = [wreq EXCEPT ![w] = Head(msgs)]
    /\ msgs' = Tail(msgs)
    /\ \E q \in AfterOverrun : wqid' = [wqid EXCEPT ![w] = q]
    /\ UNCHANGED <<exists, fdOf, answers>>

\* msgrcv fails and the thread ends: there is no such queue.
WorkerFails(w) ==
    /\ wqid[w] = "bad" \/ ~exists
    /\ WorkerGoto(w, "sleep", "dead")
    /\ UNCHANGED <<queueVars, wreq, wqid, fdOf, answers>>

Answer(c) == answers' = [answers EXCEPT ![c] = @ + 1]

\* An answer without the close.
MutWorkerSend(w) ==
    /\ WorkerGoto(w, "send", "sleep")
    /\ fdOf[wreq[w].fd] # None
    /\ Answer(fdOf[wreq[w].fd])
    /\ UNCHANGED <<queueVars, wreq, wqid, fdOf>>

\* ServicingRequestTCP.  The answer goes to whoever the descriptor is by now.
WorkerSend(w) ==
    /\ WorkerGoto(w, "send", "close")
    /\ fdOf[wreq[w].fd] # None
    /\ Answer(fdOf[wreq[w].fd])
    /\ UNCHANGED <<queueVars, wreq, wqid, fdOf>>

\* send fails: ServicingRequestTCP returns before the close.
WorkerSendFails(w) ==
    /\ WorkerGoto(w, "send", "sleep")
    /\ fdOf[wreq[w].fd] # None => client[fdOf[wreq[w].fd]] \in {"gone", "left"}
    /\ UNCHANGED <<queueVars, wreq, wqid, fdOf, answers>>

\* The send after a reset: SIGPIPE ends the process with all its threads.
WorkerKilled(w) ==
    /\ wpc[w] = "send"
    /\ fdOf[wreq[w].fd] # None
    /\ client[fdOf[wreq[w].fd]] \in {"gone", "left"}
    /\ Exit("failed") /\ UNCHANGED <<terminating, bounds>>

\* ServicingRequestUDP, with a descriptor of its own.
WorkerSocket(w) ==
    /\ WorkerGoto(w, "socket", "sendto")
    /\ \E f \in Fds :
        /\ Open(f, wreq[w].client)
        /\ wreq' = [wreq EXCEPT ![w].fd = f]
    /\ UNCHANGED <<queueVars, wqid, answers>>

WorkerSocketFails(w) ==
    /\ WorkerGoto(w, "socket", "sleep")
    /\ FreeFds = {}
    /\ UNCHANGED <<queueVars, wreq, wqid, fdOf, answers>>

WorkerSendto(w) ==
    /\ WorkerGoto(w, "sendto", "close")
    /\ Answer(wreq[w].client)
    /\ UNCHANGED <<queueVars, wreq, wqid, fdOf>>

\* sendto fails: ServicingRequestUDP returns before the close.
WorkerSendtoFails(w) ==
    /\ SendtoMayFail
    /\ WorkerGoto(w, "sendto", "sleep")
    /\ UNCHANGED <<queueVars, wreq, wqid, fdOf, answers>>

WorkerClose(w) ==
    /\ WorkerGoto(w, "close", "sleep")
    /\ Close(wreq[w].fd)
    /\ UNCHANGED <<queueVars, wreq, wqid, answers>>

WorkerStep(w) ==
    /\ \/ WorkerStart(w) \/ WorkerReceive(w) \/ WorkerFails(w)
       \/ WorkerSend(w) \/ WorkerSendFails(w)
       \/ WorkerSocket(w) \/ WorkerSocketFails(w)
       \/ WorkerSendto(w) \/ WorkerSendtoFails(w) \/ WorkerClose(w)
    /\ UNCHANGED <<mainVars, arrivals, client, bounds>>

-----------------------------------------------------------------------------
(* The clients and the signals *)

\* main's sockets are bound and listen.
Listening == main \in {"epoll", "check", "accept", "recv", "recvfrom", "msgsnd", "rmid"}

ServerRests ==
    UNCHANGED <<mainVars, queueVars, workerVars, fdOf, answers, bounds>>

ClientConnect(c) ==
    /\ c \in TcpClients /\ client[c] = "idle"
    /\ Listening /\ Len(backlog) <= ListenBacklog
    /\ client' = [client EXCEPT ![c] = "open"]
    /\ backlog' = Append(backlog, c)
    /\ UNCHANGED dgrams /\ ServerRests

ClientSend(c) ==
    /\ client[c] = "open"
    /\ client' = [client EXCEPT ![c] = "sent"]
    /\ UNCHANGED arrivals /\ ServerRests

\* The client gives up, before or after it has sent its request.
ClientLeave(c) ==
    /\ c \in TcpClients
    /\ \/ client[c] = "open" /\ client' = [client EXCEPT ![c] = "gone"]
       \/ client[c] = "sent" /\ client' = [client EXCEPT ![c] = "left"]
    /\ UNCHANGED arrivals /\ ServerRests

\* A datagram may be lost on its way.
ClientDatagram(c) ==
    /\ c \in UdpClients /\ client[c] = "idle"
    /\ client' = [client EXCEPT ![c] = "sent"]
    /\ \/ UNCHANGED dgrams
       \/ Listening /\ dgrams' = Append(dgrams, c)
    /\ UNCHANGED backlog /\ ServerRests

ClientStep(c) ==
    ClientConnect(c) \/ ClientSend(c) \/ ClientLeave(c) \/ ClientDatagram(c)

\* main is inside a call that a signal ends with EINTR.
Blocked ==
    \/ main = "epoll" /\ Ready = {}
    \/ main = "accept" /\ backlog = <<>> /\ FreeFds # {}
    \/ main = "recv" /\ client[request.client] = "open"
    \/ main = "recvfrom" /\ dgrams = <<>>
    \/ main = "msgsnd" /\ Len(msgs) >= QueueCap

\* The call fails with EINTR.  The failures of epoll_wait and recv are not
\* looked at, the others end the server.
Interrupted ==
    \/ /\ Goto("epoll", "check") \/ Goto("recv", "msgsnd")
       /\ UNCHANGED <<triggered, request, queueVars, workerVars, fdOf, arrivals,
                      clientVars>>
    \/ main \in {"accept", "recvfrom", "msgsnd"} /\ Exit("failed")

Signal == signals < MaxSignals /\ signals' = signals + 1 /\ UNCHANGED starts

\* SIGINT: the handler runs, in a blocked call or between two calls.
Sigint ==
    /\ Signal
    /\ ~Stopped
    /\ terminating' = TRUE
    /\ \/ Blocked /\ Interrupted
       \/ UNCHANGED <<main, triggered, request, queueVars, workerVars, fdOf, arrivals,
                      clientVars>>

\* SIGSTOP and SIGCONT: on Linux epoll_wait, alone of main's calls, fails with
\* EINTR although no handler ran.
StopAndContinue ==
    /\ Signal
    /\ main = "epoll" /\ Blocked /\ Interrupted
    /\ UNCHANGED terminating

-----------------------------------------------------------------------------

Next ==
    \/ Start
    \/ MainStep
    \/ \E w \in Workers : WorkerStep(w) \/ WorkerKilled(w)
    \/ \E c \in Clients : ClientStep(c)
    \/ Sigint \/ StopAndContinue

Spec == Init /\ [][Next]_vars

\* The process is started once and its threads keep being scheduled; a client
\* that connects sends its request or leaves.
Fairness ==
    /\ WF_vars(Start)
    /\ WF_vars(MainStep)
    /\ \A w \in Workers : WF_vars(WorkerStep(w))
    /\ \A c \in TcpClients : WF_vars(ClientSend(c))

FairSpec == Spec /\ Fairness

-----------------------------------------------------------------------------
(* Types *)

Requests ==
    [mtype : {"none"}, client : {None}, fd : {0}, text : {{}}]
    \cup [mtype : {"tcp"}, client : TcpClients, fd : Fds, text : SUBSET Clients]
    \cup [mtype : {"udp"}, client : UdpClients, fd : Fds \cup {0}, text : SUBSET Clients]

\* Every variable has its type.
TypeOK ==
    /\ main \in {"off", "msgget", "pool", "setup", "epoll", "check", "accept", "recv",
                 "recvfrom", "msgsnd", "rmid", "close", "exited", "failed"}
    /\ triggered \in {"none", "tcp", "udp"}
    /\ terminating \in BOOLEAN
    /\ request \in Requests
    /\ exists \in BOOLEAN
    /\ msgs \in Seq(Requests)
    /\ wpc \in [Workers -> {"none", "start", "sleep", "send", "socket", "sendto",
                            "close", "dead"}]
    /\ wreq \in [Workers -> Requests]
    /\ wqid \in [Workers -> {"good", "bad"}]
    /\ fdOf \in [Fds -> Clients \cup {None}]
    /\ backlog \in Seq(TcpClients) /\ dgrams \in Seq(UdpClients)
    /\ client \in [Clients -> {"idle", "open", "sent", "gone", "left"}]
    /\ answers \in [Clients -> Nat]
    /\ signals \in 0 .. MaxSignals /\ starts \in 0 .. MaxStarts

-----------------------------------------------------------------------------
(* Safety *)

\* Where a request is: at main after its accept or recvfrom, in the queue, or at
\* a service thread that has not answered it.
AtMain == main \in {"recv", "msgsnd"}
At(w) == wpc[w] \in {"send", "socket", "sendto"}

Places(c) ==
    {<<"backlog", j>> : j \in {j \in DOMAIN backlog : backlog[j] = c}}
    \cup {<<"dgrams", j>> : j \in {j \in DOMAIN dgrams : dgrams[j] = c}}
    \cup {<<"msgs", j>> : j \in {j \in DOMAIN msgs : msgs[j].client = c}}
    \cup {<<"thread", w>> : w \in {w \in Workers : At(w) /\ wreq[w].client = c}}
    \cup (IF AtMain /\ request.client = c THEN {<<"main", 0>>} ELSE {})

\* A request is never at two places, nor anywhere once it is answered: nobody
\* is answered twice, through every copy of the buffer (server.c:177-200,
\* service_pool.c:64-93).
AnsweredOnce == \A c \in Clients : Cardinality(Places(c)) + answers[c] <= 1

\* The descriptors that requests carry.
Carried(r, f) == r.mtype # "none" /\ r.fd = f
HeldByMain(f) == AtMain /\ request.mtype = "tcp" /\ Carried(request, f)
HeldByThread(w, f) ==
    wpc[w] \in {"send", "sendto", "close"} /\ Carried(wreq[w], f)
InQueue(f) == \E j \in DOMAIN msgs : msgs[j].mtype = "tcp" /\ Carried(msgs[j], f)

\* A descriptor still is the connection of the client whose request carries it,
\* when it waits in the queue and when it is used after that: no close in
\* between gave its number to somebody else (server.c:177, service_pool.c:41-51).
DescriptorsKeepTheirClient ==
    Listening =>
        /\ HeldByMain(request.fd) => fdOf[request.fd] = request.client
        /\ \A j \in DOMAIN msgs :
            msgs[j].mtype = "tcp" => fdOf[msgs[j].fd] = msgs[j].client
        /\ \A w \in Workers :
            HeldByThread(w, wreq[w].fd) => fdOf[wreq[w].fd] = wreq[w].client

\* A descriptor that nobody will close any more belongs to a client whose answer
\* could not be sent (service_pool.c:28-32, 44-46), or its request went with the
\* queue (server.c:209).
LeaksOnlyAfterFailure ==
    \A f \in Fds :
        \/ fdOf[f] = None \/ ~exists
        \/ HeldByMain(f) \/ InQueue(f) \/ \E w \in Workers : HeldByThread(w, f)
        \/ fdOf[f] \in TcpClients /\ client[fdOf[f]] \in {"gone", "left"}
        \/ fdOf[f] \in UdpClients /\ SendtoMayFail

\* When main acts on an event there is one, so that neither accept nor recvfrom
\* blocks; only a signal that ends epoll_wait makes main act on the event before
\* it (server.c:151-167, 187-192).
EventsAreReal ==
    \/ signals > 0
    \/ /\ main = "accept" => backlog # <<>>
       /\ main = "recvfrom" => dgrams # <<>>

\* A queued request carries the text of its own client and no other, unless that
\* client sent a short message, was gone, or a signal came when recv asked for it.
\* Then text of earlier ones goes with it, but never that of a client whose
\* message has not been received, whatever restarts lie between
\* (server.c:177-180, 189-195).
Taken(c) ==
    /\ client[c] \in {"sent", "left"}
    /\ \A j \in DOMAIN backlog : backlog[j] # c
    /\ \A j \in DOMAIN dgrams : dgrams[j] # c
    /\ ~(main = "recv" /\ request.client = c)

TextIsOwn ==
    \A j \in DOMAIN msgs :
        /\ \/ msgs[j].text = {msgs[j].client}
           \/ msgs[j].client \in Short
           \/ client[msgs[j].client] \in {"gone", "left"}
           \/ signals > 0
        /\ \A c \in msgs[j].text : Taken(c)

-----------------------------------------------------------------------------
(* The request service it implements *)

Phase(c) ==
    CASE client[c] = "idle" -> "idle"
      [] answers[c] > 0 -> "answered"
      [] \E j \in DOMAIN backlog : backlog[j] = c -> "waiting"
      [] \E j \in DOMAIN dgrams : dgrams[j] = c -> "waiting"
      [] AtMain /\ request.client = c -> "held"
      [] Listening /\ \E j \in DOMAIN msgs : msgs[j].client = c -> "queued"
      [] \E w \in Workers : At(w) /\ wreq[w].client = c -> "serving"
      [] OTHER -> "lost"

Abstract ==
    INSTANCE RequestService
        WITH Threads <- Cardinality(Workers),
             phase <- [c \in Clients |-> Phase(c)],
             order <- IF Listening THEN [j \in DOMAIN msgs |-> msgs[j].client]
                                   ELSE <<>>

\* Requests are picked up one at a time and served in the order in which they
\* were queued, each at most once.
ServiceSpec == Abstract!ServiceSpec

-----------------------------------------------------------------------------
(* Liveness *)

\* A request that reached the server is answered in the end, unless its client
\* left or the server stopped.
RequestsAreServed ==
    \A c \in Clients :
        Phase(c) \in {"waiting", "held", "queued", "serving"}
            ~> \/ Phase(c) = "answered"
               \/ client[c] \in {"gone", "left"} \/ Stopped

-----------------------------------------------------------------------------
(* What the comments in the code say *)

\* server.c:76, "create thread service poll": while there is a queue, its
\* service threads live.
ThreadsServe == exists => \A w \in Workers : wpc[w] # "dead"

\* server.c:25, "Start close server": SIGINT closes the server.
SigintCloses == terminating ~> Stopped

\* server.c:208, "deleted queue": no server that ends leaves its queue behind.
QueueDeleted == main \in {"exited", "failed"} => ~exists
=============================================================================
