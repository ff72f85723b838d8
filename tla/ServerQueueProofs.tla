------------------------- MODULE ServerQueueProofs -------------------------
(***************************************************************************)
(* The requests of ServerQueue for every number of clients, threads,       *)
(* descriptors, starts and signals: its invariants, and that it implements *)
(* RequestService.                                                         *)
(***************************************************************************)
EXTENDS ServerQueue, FiniteSetTheorems, TLAPS

Elements(s) == {s[j] : j \in DOMAIN s}

\* Nobody waits twice, and no two queued requests are of one client.
Distinct(s) == \A i, j \in DOMAIN s : s[i] = s[j] => i = j
ClientsApart(s) == \A i, j \in DOMAIN s : s[i].client = s[j].client => i = j

Down == main \in {"off", "msgget", "exited", "failed"}

\* Without a server there are no threads, descriptors or connections, and until
\* it listens, and after it has removed the queue, there are no queued requests.
DownOK ==
    /\ Down => /\ \A w \in Workers : wpc[w] = "none"
               /\ \A f \in Fds : fdOf[f] = None
               /\ backlog = <<>> /\ dgrams = <<>>
    /\ main \in {"pool", "setup", "close"} => msgs = <<>>

\* A thread that has a request, answered or not.
Busy(w) == wpc[w] \in {"send", "socket", "sendto", "close"}

\* Whose request it is and what kind, where somebody relies on it.
KindsOK ==
    /\ AtMain => request.mtype # "none"
    /\ main = "recv" => request.mtype = "tcp"
    /\ \A r \in Elements(msgs) : r.mtype # "none"
    /\ \A w \in Workers :
        /\ Busy(w) => wreq[w].mtype # "none"
        /\ wpc[w] = "send" => wreq[w].mtype = "tcp"
        /\ wpc[w] = "socket" => wreq[w].mtype = "udp"
        /\ wpc[w] \in {"sendto", "close"} => wreq[w].fd \in Fds
        /\ wpc[w] = "sendto" => wreq[w].mtype = "udp"

Waits(c) == c \in Elements(backlog) \cup Elements(dgrams)
MainHas(c) == AtMain /\ request.client = c
Queued(c) == \E r \in Elements(msgs) : r.client = c
Serves(w, c) == Busy(w) /\ wreq[w].client = c

\* A request is at one place; it is answered only once it is nowhere but with
\* the thread that still has to close its descriptor.
Alone(c) ==
    /\ Waits(c) => ~MainHas(c) /\ ~Queued(c)
    /\ MainHas(c) => ~Queued(c)
    /\ Waits(c) \/ MainHas(c) \/ Queued(c) =>
        /\ answers[c] = 0 /\ client[c] # "idle"
        /\ \A w \in Workers : ~Serves(w, c)
    /\ \A v, w \in Workers : Serves(v, c) /\ Serves(w, c) => v = w
    /\ \A w \in Workers : Serves(w, c) =>
        client[c] # "idle" /\ (wpc[w] # "close" => answers[c] = 0)
    /\ answers[c] <= 1
    /\ client[c] = "idle" => answers[c] = 0

PlacesOK ==
    /\ Distinct(backlog) /\ Distinct(dgrams) /\ ClientsApart(msgs)
    /\ \A c \in Clients : Alone(c)

\* While the server runs, a request's descriptor is its client's.
FdsOK ==
    ~Down =>
        /\ AtMain /\ request.mtype = "tcp" => fdOf[request.fd] = request.client
        /\ \A r \in Elements(msgs) : r.mtype = "tcp" => fdOf[r.fd] = r.client
        /\ \A w \in Workers :
            wpc[w] \in {"send", "sendto", "close"} => fdOf[wreq[w].fd] = wreq[w].client

Away(c) == client[c] \in {"gone", "left"}

\* What is open has somebody who will close it, or could not be answered.
Owned(f) ==
    \/ AtMain /\ request.mtype = "tcp" /\ request.fd = f
    \/ \E r \in Elements(msgs) : r.mtype = "tcp" /\ r.fd = f
    \/ \E w \in Workers : HeldByThread(w, f)
    \/ fdOf[f] \in TcpClients /\ Away(fdOf[f])
    \/ fdOf[f] \in UdpClients /\ SendtoMayFail

OwnedOK == exists => \A f \in Fds : fdOf[f] # None => Owned(f)

\* The event main acts on has not gone away since epoll_wait.
EventsOK ==
    signals = 0 =>
        /\ main \in {"check", "accept"} /\ triggered = "tcp" => backlog # <<>>
        /\ main \in {"check", "recvfrom"} /\ triggered = "udp" => dgrams # <<>>
        /\ main = "accept" => triggered = "tcp"
        /\ main = "recvfrom" => triggered = "udp"

Own(r) == r.text = {r.client} \/ r.client \in Short \/ Away(r.client) \/ signals > 0

TextsOK ==
    /\ main = "msgsnd" => Own(request)
    /\ \A r \in Elements(msgs) : Own(r)

\* The inductive invariant.
IInv ==
    /\ TypeOK
    /\ DownOK
    /\ KindsOK
    /\ PlacesOK
    /\ FdsOK
    /\ OwnedOK
    /\ EventsOK
    /\ TextsOK

-----------------------------------------------------------------------------
(* Sequences and requests *)

LEMMA AppendElements ==
    ASSUME NEW S, NEW s \in Seq(S), NEW x \in S
    PROVE  /\ Append(s, x) \in Seq(S) /\ Append(s, x) # <<>>
           /\ Elements(Append(s, x)) = Elements(s) \cup {x}
           /\ Distinct(s) /\ x \notin Elements(s) => Distinct(Append(s, x))
           /\ ClientsApart(s) /\ (\A y \in Elements(s) : y.client # x.client)
                => ClientsApart(Append(s, x))
<1>1. /\ Len(s) \in Nat /\ DOMAIN s = 1 .. Len(s)
      /\ DOMAIN Append(s, x) = 1 .. Len(s) + 1
      /\ \A j \in 1 .. Len(s) : Append(s, x)[j] = s[j]
      /\ Append(s, x)[Len(s) + 1] = x
      /\ Append(s, x) \in Seq(S) /\ Append(s, x) # <<>>
  OBVIOUS
<1>2. DOMAIN Append(s, x) = DOMAIN s \cup {Len(s) + 1} /\ Len(s) + 1 \notin DOMAIN s
  BY <1>1
<1>3. Elements(Append(s, x)) = Elements(s) \cup {x}
  BY <1>1, <1>2 DEF Elements
<1>4. ASSUME Distinct(s), x \notin Elements(s)
      PROVE  Distinct(Append(s, x))
  BY <1>1, <1>2, <1>4 DEF Elements, Distinct
<1>5. ASSUME ClientsApart(s), \A y \in Elements(s) : y.client # x.client
      PROVE  ClientsApart(Append(s, x))
  <2>1. \A j \in DOMAIN s : s[j].client # x.client
    BY <1>5 DEF Elements
  <2> QED BY <1>1, <1>2, <1>5, <2>1 DEF ClientsApart
<1> QED BY <1>1, <1>3, <1>4, <1>5

LEMMA TailElements ==
    ASSUME NEW S, NEW s \in Seq(S), s # <<>>
    PROVE  /\ Head(s) \in S /\ Tail(s) \in Seq(S) /\ Head(s) \in Elements(s)
           /\ Elements(s) = Elements(Tail(s)) \cup {Head(s)}
           /\ Distinct(s) => Distinct(Tail(s)) /\ Head(s) \notin Elements(Tail(s))
           /\ ClientsApart(s) =>
                /\ ClientsApart(Tail(s))
                /\ \A y \in Elements(Tail(s)) : y.client # Head(s).client
<1>1. /\ Len(s) \in Nat \ {0} /\ DOMAIN s = 1 .. Len(s)
      /\ DOMAIN Tail(s) = 1 .. Len(s) - 1
      /\ \A j \in 1 .. Len(s) - 1 : Tail(s)[j] = s[j + 1]
      /\ Head(s) = s[1] /\ Head(s) \in S /\ Tail(s) \in Seq(S)
  OBVIOUS
<1>2. Elements(s) \subseteq Elements(Tail(s)) \cup {Head(s)}
  <2> SUFFICES ASSUME NEW j \in DOMAIN s
               PROVE  s[j] \in Elements(Tail(s)) \cup {Head(s)}
    BY DEF Elements
  <2>1. CASE j = 1
    BY <1>1, <2>1
  <2>2. CASE j # 1
    <3>1. j - 1 \in DOMAIN Tail(s) /\ Tail(s)[j - 1] = s[j]
      BY <1>1, <2>2
    <3> QED BY <3>1 DEF Elements
  <2> QED BY <2>1, <2>2
<1>3. Elements(Tail(s)) \cup {Head(s)} \subseteq Elements(s) /\ Head(s) \in Elements(s)
  <2>1. \A j \in DOMAIN Tail(s) : j + 1 \in DOMAIN s /\ Tail(s)[j] = s[j + 1]
    BY <1>1
  <2>2. 1 \in DOMAIN s
    BY <1>1
  <2> QED BY <1>1, <2>1, <2>2 DEF Elements
<1>4. ASSUME Distinct(s)
      PROVE  Distinct(Tail(s)) /\ Head(s) \notin Elements(Tail(s))
  BY <1>1, <1>4 DEF Distinct, Elements
<1>5. ASSUME ClientsApart(s)
      PROVE  /\ ClientsApart(Tail(s))
             /\ \A y \in Elements(Tail(s)) : y.client # Head(s).client
  <2>1. \A j \in DOMAIN Tail(s) : j + 1 \in DOMAIN s /\ Tail(s)[j] = s[j + 1]
    BY <1>1
  <2>2. ClientsApart(Tail(s))
    BY <1>1, <1>5, <2>1 DEF ClientsApart
  <2>3. \A j \in DOMAIN Tail(s) : Tail(s)[j].client # Head(s).client
    BY <1>1, <1>5, <2>1 DEF ClientsApart
  <2> QED BY <2>2, <2>3 DEF Elements
<1> QED BY <1>1, <1>2, <1>3, <1>4, <1>5

LEMMA NoElements == Elements(<<>>) = {} /\ Distinct(<<>>) /\ ClientsApart(<<>>)
BY DEF Elements, Distinct, ClientsApart

LEMMA RequestFields ==
    ASSUME NEW r \in Requests
    PROVE  /\ r.mtype \in {"none", "tcp", "udp"}
           /\ r.client \in Clients \cup {None}
           /\ r.text \in SUBSET Clients
           /\ r.mtype = "none" => r = NoRequest
           /\ r.mtype # "none" => r.client \in Clients
           /\ r.mtype = "tcp" => r.client \in TcpClients /\ r.fd \in Fds
           /\ r.mtype = "udp" => r.client \in UdpClients
BY DEF Requests, Clients, NoRequest

LEMMA RequestChanges ==
    ASSUME NEW r \in Requests, NEW f \in Fds
    PROVE  /\ \A c \in TcpClients :
                [r EXCEPT !.mtype = "tcp", !.client = c, !.fd = f]
                    = [mtype |-> "tcp", client |-> c, fd |-> f, text |-> r.text]
           /\ r.mtype = "udp" =>
                [r EXCEPT !.fd = f]
                    = [mtype |-> "udp", client |-> r.client, fd |-> f, text |-> r.text]
           /\ r.mtype = "tcp" => \A t \in SUBSET Clients :
                [r EXCEPT !.text = t]
                    = [mtype |-> "tcp", client |-> r.client, fd |-> r.fd, text |-> t]
<1>1. \A c \in TcpClients :
        [r EXCEPT !.mtype = "tcp", !.client = c, !.fd = f]
            = [mtype |-> "tcp", client |-> c, fd |-> f, text |-> r.text]
  <2> TAKE c \in TcpClients
  <2>1. r = [mtype |-> r.mtype, client |-> r.client, fd |-> r.fd, text |-> r.text]
    BY DEF Requests
  <2> DEFINE q == [r EXCEPT !.mtype = "tcp"]
             p == [q EXCEPT !.client = c]
  <2>2. [r EXCEPT !.mtype = "tcp", !.client = c, !.fd = f] = [p EXCEPT !.fd = f]
    OBVIOUS
  <2>3. q = [mtype |-> "tcp", client |-> r.client, fd |-> r.fd, text |-> r.text]
    BY <2>1
  <2> HIDE DEF q
  <2>4. p = [mtype |-> "tcp", client |-> c, fd |-> r.fd, text |-> r.text]
    BY <2>3
  <2> HIDE DEF p
  <2>5. [p EXCEPT !.fd = f] = [mtype |-> "tcp", client |-> c, fd |-> f, text |-> r.text]
    BY <2>4
  <2> QED BY <2>2, <2>5
<1>2. r.mtype = "udp" =>
        [r EXCEPT !.fd = f]
            = [mtype |-> "udp", client |-> r.client, fd |-> f, text |-> r.text]
  BY DEF Requests
<1>3. r.mtype = "tcp" => \A t \in SUBSET Clients :
        [r EXCEPT !.text = t]
            = [mtype |-> "tcp", client |-> r.client, fd |-> r.fd, text |-> t]
  BY DEF Requests
<1> QED BY <1>1, <1>2, <1>3

\* A message adds no text but its client's, and a whole one leaves no other.
LEMMA OverwrittenText ==
    ASSUME NEW text \in SUBSET Clients, NEW c \in Clients, NEW t \in Overwritten(text, c)
    PROVE  /\ t \in SUBSET Clients /\ t \subseteq text \cup {c}
           /\ c \notin Short => t = {c}
BY DEF Overwritten

-----------------------------------------------------------------------------
(* main's steps *)

LEMMA Inits == Init => IInv
<1> SUFFICES ASSUME Init PROVE IInv
  OBVIOUS
<1> USE NoElements DEF Init
<1>1. TypeOK
  <2>1. NoRequest \in Requests
    BY DEF NoRequest, Requests
  <2>2. wreq \in [Workers -> Requests] /\ request \in Requests /\ msgs \in Seq(Requests)
    BY <2>1
  <2>3. signals \in 0 .. MaxSignals /\ starts \in 0 .. MaxStarts
    BY LimitsAssumption
  <2>4. backlog \in Seq(TcpClients) /\ dgrams \in Seq(UdpClients)
    OBVIOUS
  <2>5. fdOf \in [Fds -> Clients \cup {None}] /\ answers \in [Clients -> Nat]
    OBVIOUS
  <2> HIDE DEF NoRequest
  <2> QED BY <2>2, <2>3, <2>4, <2>5 DEF TypeOK
<1>2. DownOK /\ KindsOK /\ FdsOK /\ OwnedOK /\ EventsOK /\ TextsOK
  BY DEF DownOK, Down, KindsOK, AtMain, Busy, FdsOK, OwnedOK, EventsOK, TextsOK
<1>3. PlacesOK
  BY DEF PlacesOK, Alone, Waits, MainHas, Queued, Serves, Busy, AtMain
<1> QED BY <1>1, <1>2, <1>3 DEF IInv

LEMMA StartStep ==
    ASSUME IInv, Start
    PROVE  IInv'
<1> USE DEF IInv, Start, Stopped, queueVars, arrivals, clientVars
<1>1. TypeOK'
  <2>1. NoRequest \in Requests
    BY DEF NoRequest, Requests
  <2>2. wreq' \in [Workers -> Requests] /\ request' \in Requests
    BY <2>1
  <2>3. starts' \in 0 .. MaxStarts
    BY LimitsAssumption DEF TypeOK
  <2> QED BY <2>2, <2>3 DEF TypeOK
<1>2. DownOK' /\ FdsOK'
  BY DEF DownOK, Down, FdsOK
<1>3. KindsOK' /\ EventsOK' /\ TextsOK'
  BY DEF KindsOK, DownOK, Down, AtMain, Busy, EventsOK, TextsOK, Own, Away
<1>4. PlacesOK'
  BY DEF PlacesOK, Alone, Waits, MainHas, Queued, Serves, Busy, AtMain, DownOK, Down
<1>5. OwnedOK'
  BY DEF OwnedOK, DownOK, Down
<1> QED BY <1>1, <1>2, <1>3, <1>4, <1>5

\* The process is gone: of its requests only those in the queue remain.
LEMMA ExitStep ==
    ASSUME IInv, NEW how \in {"exited", "failed"}, Exit(how),
           terminating' \in BOOLEAN, signals' \in signals .. MaxSignals, starts' = starts
    PROVE  IInv'
<1> USE NoElements DEF IInv, Exit, queueVars
<1>1. TypeOK'
  <2>1. signals' \in 0 .. MaxSignals
    BY LimitsAssumption DEF TypeOK
  <2>2. client' \in [Clients -> {"idle", "open", "sent", "gone", "left"}]
    BY DEF TypeOK
  <2> QED BY <2>1, <2>2 DEF TypeOK
<1>2. DownOK' /\ FdsOK' /\ OwnedOK'
  BY DEF DownOK, Down, FdsOK, OwnedOK
<1>3. KindsOK' /\ EventsOK'
  BY DEF KindsOK, AtMain, Busy, EventsOK
<1>4. \A c \in Clients : /\ client'[c] = "idle" => client[c] = "idle"
                         /\ client[c] = "idle" => client'[c] = "idle"
                         /\ client[c] \in {"gone", "left"} => client'[c] \in {"gone", "left"}
  BY DEF TypeOK
<1>5. PlacesOK'
  BY <1>4 DEF PlacesOK, Alone, Waits, MainHas, Queued, Serves, Busy, AtMain
<1>6. TextsOK'
  <2> SUFFICES ASSUME NEW r \in Elements(msgs) PROVE Own(r)'
    BY DEF TextsOK
  <2>1. Own(r) /\ r.client \in Clients
    BY RequestFields DEF TextsOK, Elements, KindsOK, TypeOK
  <2>2. signals > 0 => signals' > 0
    BY LimitsAssumption DEF TypeOK
  <2> QED BY <1>4, <2>1, <2>2 DEF Own, Away
<1> QED BY <1>1, <1>2, <1>3, <1>5, <1>6

LEMMA CreateQueueStep ==
    ASSUME IInv, MainCreateQueue
    PROVE  IInv'
<1> USE NoElements DEF IInv, MainCreateQueue, Goto, OthersRest, workerVars, clientVars,
                       bounds, arrivals
<1>1. TypeOK'
  BY DEF TypeOK
<1>2. DownOK' /\ KindsOK' /\ FdsOK' /\ OwnedOK' /\ EventsOK' /\ TextsOK'
  BY DEF DownOK, Down, KindsOK, AtMain, Busy, FdsOK, OwnedOK, EventsOK, TextsOK
<1>3. PlacesOK'
  BY DEF PlacesOK, Alone, Waits, MainHas, Queued, Serves, Busy, AtMain
<1> QED BY <1>1, <1>2, <1>3

\* A step of main that only changes where it is and its event.
LEMMA QuietMainStep ==
    ASSUME IInv, OthersRest, UNCHANGED <<terminating, request, queueVars, fdOf, arrivals>>,
           main \notin {"off", "msgget", "exited", "failed", "recv", "msgsnd"},
           main' \in {"setup", "epoll", "check", "accept", "recvfrom", "rmid"},
           main' = "setup" => main = "pool",
           triggered' \in {"none", "tcp", "udp"},
           EventsOK'
    PROVE  IInv'
<1> USE DEF IInv, OthersRest, workerVars, clientVars, bounds, queueVars, arrivals
<1>1. TypeOK'
  BY DEF TypeOK
<1>2. DownOK' /\ KindsOK' /\ FdsOK' /\ TextsOK'
  BY DEF DownOK, Down, KindsOK, AtMain, Busy, FdsOK, TextsOK, Own, Away
<1>3. OwnedOK'
  BY DEF OwnedOK, Owned, AtMain, HeldByThread, Carried, Away
<1>4. PlacesOK'
  BY DEF PlacesOK, Alone, Waits, MainHas, Queued, Serves, Busy, AtMain
<1> QED BY <1>1, <1>2, <1>3, <1>4

LEMMA MainMovesStep ==
    ASSUME IInv,
           MainPoolReturns \/ MainSetup \/ MainEpollWait \/ MainDispatch
    PROVE  IInv'
<1> USE DEF Goto, OnlyMainMoves, OthersRest, bounds, arrivals
<1>1. CASE MainPoolReturns
  BY <1>1, QuietMainStep DEF MainPoolReturns, EventsOK, IInv, TypeOK
<1>2. CASE MainSetup
  BY <1>2, QuietMainStep DEF MainSetup, EventsOK, IInv, TypeOK
<1>3. CASE MainEpollWait
  <2>1. EventsOK' /\ triggered' \in {"tcp", "udp"}
    BY <1>3 DEF MainEpollWait, EventsOK, Ready
  <2> QED BY <1>3, <2>1, QuietMainStep DEF MainEpollWait
<1>4. CASE MainDispatch
  <2>1. EventsOK'
    BY <1>4 DEF MainDispatch, EventsOK, IInv
  <2>2. triggered' = triggered /\ main' \in {"rmid", "accept", "recvfrom", "epoll"}
    BY <1>4 DEF MainDispatch
  <2> QED BY <1>4, <2>1, <2>2, QuietMainStep DEF MainDispatch, IInv, TypeOK
<1> QED BY <1>1, <1>2, <1>3, <1>4

LEMMA CreateThreadStep ==
    ASSUME IInv, MainCreateThread
    PROVE  IInv'
<1> USE DEF IInv, MainCreateThread, mainVars, queueVars, arrivals, clientVars, bounds
<1> PICK w \in Workers : /\ wpc[w] = "none"
                         /\ wpc' = [wpc EXCEPT ![w] = "start"]
  OBVIOUS
<1>1. TypeOK'
  BY DEF TypeOK
<1>2. \A v \in Workers :
        wpc'[v] \in {"send", "socket", "sendto", "close"} => wpc[v] = wpc'[v]
  BY DEF TypeOK
<1>3. DownOK' /\ EventsOK' /\ TextsOK'
  BY DEF DownOK, Down, EventsOK, TextsOK, Own, Away
<1>4. KindsOK' /\ FdsOK'
  BY <1>2 DEF KindsOK, AtMain, Busy, FdsOK, Down
<1>5. OwnedOK'
  BY DEF OwnedOK, Owned, AtMain, HeldByThread, Carried, Away, TypeOK
<1>6. PlacesOK'
  BY <1>2 DEF PlacesOK, Alone, Waits, MainHas, Queued, Serves, Busy, AtMain
<1> QED BY <1>1, <1>3, <1>4, <1>5, <1>6

LEMMA AcceptStep ==
    ASSUME IInv, MainAccept
    PROVE  IInv'
<1> USE DEF IInv, MainAccept, Goto, OthersRest, workerVars, clientVars, bounds, queueVars
<1> DEFINE c == Head(backlog)
<1>1. PICK f \in Fds :
        /\ Open(f, c)
        /\ request' = [request EXCEPT !.mtype = "tcp", !.client = c, !.fd = f]
  OBVIOUS
<1>2. /\ c \in TcpClients /\ c \in Elements(backlog)
      /\ Tail(backlog) \in Seq(TcpClients)
      /\ Elements(backlog) = Elements(Tail(backlog)) \cup {c}
      /\ Distinct(Tail(backlog)) /\ c \notin Elements(Tail(backlog))
  BY TailElements DEF TypeOK, PlacesOK
<1>3. request' = [mtype |-> "tcp", client |-> c, fd |-> f, text |-> request.text]
  <2>1. request \in Requests
    BY DEF TypeOK
  <2> HIDE DEF c
  <2> QED BY <1>1, <1>2, <2>1, RequestChanges
<1>4. /\ request'.mtype = "tcp" /\ request'.client = c /\ request'.fd = f
      /\ request' \in Requests
  BY <1>2, <1>3, RequestFields DEF Requests, TypeOK
<1>5. /\ fdOf[f] = None /\ fdOf' = [fdOf EXCEPT ![f] = c]
      /\ c \in Clients /\ c # None
  BY <1>1, <1>2, ClientsAssumption DEF Open, FreeFds, Clients
<1>6. \A g \in Fds : g # f => fdOf'[g] = fdOf[g]
  BY <1>5 DEF TypeOK
<1>7. fdOf'[f] = c
  BY <1>5 DEF TypeOK
<1> HIDE DEF c
<1>10. TypeOK'
  BY <1>2, <1>4, <1>5 DEF TypeOK, c
<1>11. DownOK' /\ KindsOK' /\ EventsOK' /\ TextsOK'
  <2>1. DownOK' /\ EventsOK'
    BY DEF DownOK, Down, EventsOK
  <2>2. KindsOK'
    BY <1>4 DEF KindsOK, AtMain, Busy
  <2>3. TextsOK'
    BY DEF TextsOK, Own, Away
  <2> QED BY <2>1, <2>2, <2>3
<1>12. FdsOK'
  <2>1. ASSUME NEW r \in Elements(msgs), r.mtype = "tcp"
        PROVE  r.fd # f
    <3>1. r \in Requests
      BY DEF Elements, TypeOK
    <3>2. r.client # None
      BY <2>1, <3>1, RequestFields, ClientsAssumption
    <3>3. fdOf[r.fd] = r.client
      BY <2>1 DEF FdsOK, Down
    <3> QED BY <1>5, <3>2, <3>3
  <2>2. \A w \in Workers : wpc[w] \in {"send", "sendto", "close"} =>
            wreq[w].fd \in Fds /\ wreq[w].fd # f
    BY <1>5, RequestFields, ClientsAssumption
       DEF FdsOK, Down, TypeOK, KindsOK, Busy
  <2>3. \A r \in Elements(msgs) : r.mtype = "tcp" => r.fd \in Fds
    BY RequestFields DEF Elements, TypeOK
  <2> QED BY <1>4, <1>6, <1>7, <2>1, <2>2, <2>3 DEF FdsOK, Down
<1>13. OwnedOK'
  <2> SUFFICES ASSUME exists, NEW g \in Fds, fdOf'[g] # None PROVE Owned(g)'
    BY DEF OwnedOK
  <2>1. CASE g = f
    BY <1>4, <2>1 DEF Owned, AtMain
  <2>2. CASE g # f
    <3>1. Owned(g) /\ fdOf'[g] = fdOf[g]
      BY <1>6, <2>2 DEF OwnedOK
    <3> QED BY <3>1 DEF Owned, AtMain, HeldByThread, Carried, Away
  <2> QED BY <2>1, <2>2
<1>14. PlacesOK'
  <2>1. /\ backlog' = Tail(backlog) /\ UNCHANGED <<dgrams, msgs, wpc, wreq, answers, client>>
        /\ ~AtMain /\ AtMain'
    BY DEF AtMain, c
  <2>2. c \notin Elements(dgrams)
    BY <1>2, ClientsAssumption DEF Elements, TypeOK
  <2> QED BY <1>2, <1>4, <2>1, <2>2
          DEF PlacesOK, Alone, Waits, MainHas, Queued, Serves, Busy
<1> QED BY <1>10, <1>11, <1>12, <1>13, <1>14

LEMMA RecvStep ==
    ASSUME IInv, MainRecv
    PROVE  IInv'
<1> USE DEF IInv, MainRecv, Goto, OthersRest, workerVars, clientVars, bounds, queueVars,
            arrivals
<1>1. request.mtype = "tcp" /\ request \in Requests
  BY DEF KindsOK, TypeOK
<1>2. request.client \in TcpClients /\ request.fd \in Fds
  BY <1>1, RequestFields
<1>3. /\ request'.mtype = "tcp" /\ request'.client = request.client
      /\ request'.fd = request.fd /\ request' \in Requests /\ Own(request')
  <2>1. ASSUME NEW t \in Overwritten(request.text, request.client),
               request' = [request EXCEPT !.text = t]
        PROVE  /\ request'.mtype = "tcp" /\ request'.client = request.client
               /\ request'.fd = request.fd /\ request' \in Requests /\ Own(request')
    <3>1. t \in SUBSET Clients /\ (request.client \notin Short => t = {request.client})
      BY <1>1, <1>2, OverwrittenText, RequestFields DEF Clients
    <3>2. request' = [mtype |-> "tcp", client |-> request.client, fd |-> request.fd,
                      text |-> t]
      BY <1>1, <1>2, <2>1, <3>1, RequestChanges
    <3>3. request' \in Requests
      BY <1>2, <3>1, <3>2 DEF Requests
    <3> QED BY <3>1, <3>2, <3>3 DEF Own
  <2>2. CASE client[request.client] \in {"gone", "left"} /\ UNCHANGED request
    BY <1>1, <2>2 DEF Own, Away
  <2> QED BY <2>1, <2>2
<1>10. TypeOK'
  BY <1>3 DEF TypeOK
<1>11. DownOK' /\ KindsOK' /\ EventsOK'
  BY <1>3 DEF DownOK, Down, KindsOK, AtMain, Busy, EventsOK
<1>12. FdsOK'
  BY <1>1, <1>3 DEF FdsOK, Down, AtMain
<1>13. OwnedOK'
  BY <1>1, <1>3 DEF OwnedOK, Owned, AtMain, HeldByThread, Carried, Away
<1>14. PlacesOK'
  BY <1>3 DEF PlacesOK, Alone, Waits, MainHas, Queued, Serves, Busy, AtMain
<1>15. TextsOK'
  BY <1>3 DEF TextsOK, Own, Away
<1> QED BY <1>10, <1>11, <1>12, <1>13, <1>14, <1>15

LEMMA RecvfromStep ==
    ASSUME IInv, MainRecvfrom
    PROVE  IInv'
<1> USE DEF IInv, MainRecvfrom, Goto, OthersRest, workerVars, clientVars, bounds, queueVars
<1> DEFINE c == Head(dgrams)
<1>2. /\ c \in UdpClients /\ c \in Elements(dgrams)
      /\ Tail(dgrams) \in Seq(UdpClients)
      /\ Elements(dgrams) = Elements(Tail(dgrams)) \cup {c}
      /\ Distinct(Tail(dgrams)) /\ c \notin Elements(Tail(dgrams))
  BY TailElements DEF TypeOK, PlacesOK
<1>1. request.text \in SUBSET Clients /\ c \in Clients
  BY <1>2, RequestFields DEF TypeOK, Clients
<1>3. /\ request'.mtype = "udp" /\ request'.client = c
      /\ c \notin Short => request'.text = {c}
      /\ request' \in Requests
  <2>1. PICK t \in Overwritten(request.text, c) :
            request' = [mtype |-> "udp", client |-> c, fd |-> 0, text |-> t]
    OBVIOUS
  <2>2. t \in SUBSET Clients /\ (c \notin Short => t = {c})
    BY <1>1, OverwrittenText
  <2> HIDE DEF c
  <2> QED BY <1>2, <2>1, <2>2 DEF Requests
<1>4. c \in Clients /\ dgrams' = Tail(dgrams)
  BY <1>2 DEF Clients
<1> HIDE DEF c
<1>10. TypeOK'
  BY <1>2, <1>3, <1>4 DEF TypeOK
<1>11. DownOK' /\ KindsOK' /\ EventsOK' /\ TextsOK'
  BY <1>3 DEF DownOK, Down, KindsOK, AtMain, Busy, EventsOK, TextsOK, Own, Away
<1>12. FdsOK'
  BY <1>3 DEF FdsOK, Down, AtMain
<1>13. OwnedOK'
  BY DEF OwnedOK, Owned, AtMain, HeldByThread, Carried, Away
<1>14. PlacesOK'
  <2>1. /\ UNCHANGED <<backlog, msgs, wpc, wreq, answers, client>>
        /\ ~AtMain /\ AtMain'
    BY DEF AtMain
  <2>2. c \notin Elements(backlog)
    BY <1>2, ClientsAssumption DEF Elements, TypeOK
  <2> QED BY <1>2, <1>3, <1>4, <2>1, <2>2
          DEF PlacesOK, Alone, Waits, MainHas, Queued, Serves, Busy
<1> QED BY <1>10, <1>11, <1>12, <1>13, <1>14

LEMMA MsgsndStep ==
    ASSUME IInv, MainMsgsnd
    PROVE  IInv'
<1> USE DEF IInv, MainMsgsnd, Goto, OthersRest, workerVars, clientVars, bounds, arrivals
<1>1. /\ request \in Requests /\ request.mtype # "none" /\ request.client \in Clients
      /\ AtMain /\ ~AtMain'
  BY RequestFields DEF KindsOK, TypeOK, AtMain
<1>2. \A r \in Elements(msgs) : r.client # request.client
  BY <1>1 DEF PlacesOK, Alone, MainHas, Queued
<1>3. /\ msgs' \in Seq(Requests) /\ ClientsApart(msgs')
      /\ Elements(msgs') = Elements(msgs) \cup {request}
  BY <1>1, <1>2, AppendElements DEF TypeOK, PlacesOK
<1>10. TypeOK'
  BY <1>3 DEF TypeOK
<1>11. DownOK' /\ KindsOK' /\ EventsOK' /\ TextsOK'
  BY <1>1, <1>3 DEF DownOK, Down, KindsOK, Busy, EventsOK, TextsOK, Own, Away
<1>12. FdsOK'
  BY <1>1, <1>3 DEF FdsOK, Down
<1>13. OwnedOK'
  BY <1>1, <1>3 DEF OwnedOK, Owned, HeldByThread, Carried, Away
<1>14. PlacesOK'
  BY <1>1, <1>3 DEF PlacesOK, Alone, Waits, MainHas, Queued, Serves, Busy
<1> QED BY <1>10, <1>11, <1>12, <1>13, <1>14

LEMMA RemoveQueueStep ==
    ASSUME IInv, MainRemoveQueue
    PROVE  IInv'
<1> USE NoElements DEF IInv, MainRemoveQueue, Goto, OthersRest, workerVars, clientVars,
                       bounds, arrivals
<1>1. TypeOK'
  <2>1. msgs' \in Seq(Requests)
    OBVIOUS
  <2>2. exists' \in BOOLEAN
    OBVIOUS
  <2> QED BY <2>1, <2>2 DEF TypeOK
<1>2. DownOK' /\ KindsOK' /\ FdsOK' /\ OwnedOK' /\ EventsOK' /\ TextsOK'
  BY DEF DownOK, Down, KindsOK, AtMain, Busy, FdsOK, OwnedOK, EventsOK, TextsOK
<1>3. PlacesOK'
  BY DEF PlacesOK, Alone, Waits, MainHas, Queued, Serves, Busy, AtMain
<1> QED BY <1>1, <1>2, <1>3

LEMMA MainSteps ==
    ASSUME IInv, MainStep
    PROVE  IInv'
<1>1. CASE MainQueueExists \/ MainSetupFails \/ MainAcceptFails \/ MainExit
  <2>1. /\ Exit("exited") \/ Exit("failed")
        /\ terminating' \in BOOLEAN /\ starts' = starts
        /\ signals' \in signals .. MaxSignals
    BY <1>1 DEF MainQueueExists, MainSetupFails, MainAcceptFails, MainExit, bounds,
                IInv, TypeOK
  <2> QED BY <2>1, ExitStep
<1> QED BY <1>1, CreateQueueStep, CreateThreadStep, MainMovesStep, AcceptStep, RecvStep,
           RecvfromStep, MsgsndStep, RemoveQueueStep
        DEF MainStep

-----------------------------------------------------------------------------
(* A service thread's steps *)

WorkerRests == UNCHANGED <<mainVars, arrivals, client, bounds>>

\* A step in which a thread drops what it has, if anything, or becomes one that
\* waits for requests.
LEMMA IdleStep ==
    ASSUME IInv, WorkerRests, UNCHANGED <<queueVars, wreq, fdOf, answers>>,
           NEW w \in Workers, wpc[w] # "none",
           NEW to \in {"sleep", "dead"}, wpc' = [wpc EXCEPT ![w] = to],
           wqid' \in [Workers -> {"good", "bad"}],
           OwnedOK'
    PROVE  IInv'
<1> USE DEF IInv, WorkerRests, mainVars, arrivals, bounds, queueVars
<1>1. TypeOK'
  BY DEF TypeOK
<1>2. \A v \in Workers :
        wpc'[v] \in {"send", "socket", "sendto", "close"} => wpc[v] = wpc'[v]
  BY DEF TypeOK
<1>3. DownOK' /\ EventsOK' /\ TextsOK'
  BY DEF DownOK, Down, EventsOK, TextsOK, Own, Away
<1>4. KindsOK' /\ FdsOK'
  BY <1>2 DEF KindsOK, AtMain, Busy, FdsOK, Down
<1>5. PlacesOK'
  BY <1>2 DEF PlacesOK, Alone, Waits, MainHas, Queued, Serves, Busy, AtMain
<1> QED BY <1>1, <1>3, <1>4, <1>5

LEMMA IdleSteps ==
    ASSUME IInv, WorkerRests, NEW w \in Workers,
           \/ WorkerStart(w) \/ WorkerFails(w) \/ WorkerSendFails(w)
           \/ WorkerSocketFails(w) \/ WorkerSendtoFails(w)
    PROVE  IInv'
<1> USE DEF WorkerGoto, queueVars
<1>1. ASSUME wpc[w] \in {"start", "sleep", "socket"},
             NEW to \in {"sleep", "dead"}, wpc' = [wpc EXCEPT ![w] = to],
             UNCHANGED <<queueVars, wreq, fdOf, answers>>
      PROVE  OwnedOK'
  <2>1. \A f \in Fds : Owned(f) => Owned(f)'
    BY <1>1 DEF Owned, AtMain, HeldByThread, Carried, Away, IInv, TypeOK, WorkerRests,
                mainVars
  <2> QED BY <1>1, <2>1 DEF OwnedOK, IInv
<1>2. CASE WorkerStart(w)
  <2>1. wqid' \in [Workers -> {"good", "bad"}]
    BY <1>2, FrameAssumption DEF WorkerStart, IInv, TypeOK
  <2>2. OwnedOK'
    BY <1>1, <1>2 DEF WorkerStart
  <2> QED BY <1>2, <2>1, <2>2, IdleStep DEF WorkerStart
<1>3. CASE WorkerFails(w)
  <2>1. OwnedOK'
    BY <1>1, <1>3 DEF WorkerFails
  <2> QED BY <1>3, <2>1, IdleStep DEF WorkerFails, IInv, TypeOK
<1>4. CASE WorkerSocketFails(w)
  <2>1. OwnedOK'
    BY <1>1, <1>4 DEF WorkerSocketFails
  <2> QED BY <1>4, <2>1, IdleStep DEF WorkerSocketFails, IInv, TypeOK
<1>5. ASSUME wpc' = [wpc EXCEPT ![w] = "sleep"],
             UNCHANGED <<queueVars, wreq, fdOf, answers>>,
             \/ fdOf[wreq[w].fd] = None
             \/ fdOf[wreq[w].fd] \in TcpClients /\ Away(fdOf[wreq[w].fd])
             \/ fdOf[wreq[w].fd] \in UdpClients /\ SendtoMayFail
      PROVE  OwnedOK'
  <2> SUFFICES ASSUME NEW f \in Fds, exists, fdOf[f] # None PROVE Owned(f)'
    BY <1>5 DEF OwnedOK
  <2>1. Owned(f)
    BY DEF OwnedOK, IInv
  <2>2. CASE f = wreq[w].fd
    BY <1>5, <2>2 DEF Owned, Away, WorkerRests
  <2>3. CASE f # wreq[w].fd
    BY <1>5, <2>1, <2>3
       DEF Owned, AtMain, HeldByThread, Carried, Away, IInv, TypeOK, WorkerRests, mainVars
  <2> QED BY <2>2, <2>3
<1>6. wpc[w] # "none" => ~Down
  BY DEF IInv, DownOK
<1>7. CASE WorkerSendFails(w)
  <2>1. /\ wpc[w] = "send" /\ wreq[w].mtype = "tcp" /\ wreq[w] \in Requests
        /\ fdOf[wreq[w].fd] = wreq[w].client
    BY <1>6, <1>7 DEF WorkerSendFails, IInv, KindsOK, FdsOK, TypeOK
  <2>2. wreq[w].client \in TcpClients /\ wreq[w].client # None
    BY <2>1, RequestFields, ClientsAssumption DEF Clients
  <2>3. OwnedOK'
    BY <1>5, <1>7, <2>1, <2>2 DEF WorkerSendFails, Away
  <2> QED BY <1>7, <2>3, IdleStep DEF WorkerSendFails, IInv, TypeOK
<1>8. CASE WorkerSendtoFails(w)
  <2>1. /\ wpc[w] = "sendto" /\ wreq[w].mtype = "udp" /\ wreq[w] \in Requests
        /\ fdOf[wreq[w].fd] = wreq[w].client
    BY <1>6, <1>8 DEF WorkerSendtoFails, IInv, KindsOK, FdsOK, TypeOK
  <2>2. wreq[w].client \in UdpClients
    BY <2>1, RequestFields
  <2>3. OwnedOK'
    BY <1>5, <1>8, <2>1, <2>2 DEF WorkerSendtoFails
  <2> QED BY <1>8, <2>3, IdleStep DEF WorkerSendtoFails, IInv, TypeOK
<1> QED BY <1>2, <1>3, <1>4, <1>7, <1>8

LEMMA ReceiveStep ==
    ASSUME IInv, WorkerRests, NEW w \in Workers, WorkerReceive(w)
    PROVE  IInv'
<1> USE DEF IInv, WorkerRests, mainVars, arrivals, bounds, WorkerReceive, WorkerGoto
<1> DEFINE r == Head(msgs)
<1>1. /\ r \in Requests /\ Tail(msgs) \in Seq(Requests) /\ r \in Elements(msgs)
      /\ Elements(msgs) = Elements(Tail(msgs)) \cup {r}
      /\ ClientsApart(Tail(msgs))
      /\ \A y \in Elements(Tail(msgs)) : y.client # r.client
  BY TailElements DEF TypeOK, PlacesOK
<1>2. /\ r.mtype \in {"tcp", "udp"} /\ r.client \in Clients
      /\ r.mtype = "tcp" => r.fd \in Fds
  BY <1>1, RequestFields DEF KindsOK
<1>3. /\ wreq' = [wreq EXCEPT ![w] = r] /\ msgs' = Tail(msgs)
      /\ wpc[w] = "sleep"
      /\ wpc' = [wpc EXCEPT ![w] = IF r.mtype = "tcp" THEN "send" ELSE "socket"]
  OBVIOUS
<1> HIDE DEF r
<1>4. /\ wreq'[w] = r
      /\ wpc'[w] = IF r.mtype = "tcp" THEN "send" ELSE "socket"
      /\ \A v \in Workers : v # w => wpc'[v] = wpc[v] /\ wreq'[v] = wreq[v]
  BY <1>3 DEF TypeOK
<1>10. TypeOK'
  <2>1. wqid' \in [Workers -> {"good", "bad"}]
    BY FrameAssumption DEF TypeOK
  <2> QED BY <1>1, <1>3, <2>1 DEF TypeOK
<1>11. DownOK' /\ EventsOK'
  BY <1>4 DEF DownOK, Down, EventsOK
<1>12. KindsOK'
  BY <1>1, <1>2, <1>3, <1>4 DEF KindsOK, AtMain, Busy
<1>13. FdsOK'
  BY <1>1, <1>2, <1>3, <1>4 DEF FdsOK, Down, AtMain
<1>14. OwnedOK'
  <2> SUFFICES ASSUME NEW f \in Fds, Owned(f) PROVE Owned(f)'
    BY DEF OwnedOK
  <2>1. CASE r.mtype = "tcp" /\ r.fd = f
    <3>1. HeldByThread(w, f)'
      BY <1>4, <2>1 DEF HeldByThread, Carried
    <3> QED BY <3>1 DEF Owned
  <2>2. CASE ~(r.mtype = "tcp" /\ r.fd = f)
    <3>1. \A v \in Workers : HeldByThread(v, f) => HeldByThread(v, f)'
      BY <1>3, <1>4 DEF HeldByThread, Carried
    <3>2. (\E x \in Elements(msgs) : x.mtype = "tcp" /\ x.fd = f)
            => \E x \in Elements(msgs') : x.mtype = "tcp" /\ x.fd = f
      BY <1>1, <1>3, <2>2
    <3> QED BY <3>1, <3>2 DEF Owned, AtMain, Away
  <2> QED BY <2>1, <2>2
<1>15. TextsOK'
  BY <1>1, <1>3 DEF TextsOK, Own, Away
<1>16. PlacesOK'
  <2>1. Queued(r.client) /\ ~Busy(w)
    BY <1>1, <1>3 DEF Queued, Busy
  <2> QED BY <1>1, <1>2, <1>3, <1>4, <2>1
          DEF PlacesOK, Alone, Waits, MainHas, Queued, Serves, Busy, AtMain
<1> QED BY <1>10, <1>11, <1>12, <1>13, <1>14, <1>15, <1>16

\* The answer: the thread has the client's request and nobody has answered it.
LEMMA AnswerStep ==
    ASSUME IInv, WorkerRests, NEW w \in Workers, wpc[w] \in {"send", "sendto"},
           wpc' = [wpc EXCEPT ![w] = "close"],
           answers' = [answers EXCEPT ![wreq[w].client] = @ + 1],
           UNCHANGED <<queueVars, wreq, wqid, fdOf>>
    PROVE  IInv'
<1> USE DEF IInv, WorkerRests, mainVars, arrivals, bounds, queueVars
<1> DEFINE c == wreq[w].client
<1>1. /\ wreq[w] \in Requests /\ wreq[w].mtype # "none" /\ c \in Clients
      /\ wreq[w].fd \in Fds
  BY RequestFields DEF KindsOK, Busy, TypeOK
<1>2. Serves(w, c) /\ answers[c] = 0
  BY <1>1 DEF Serves, Busy, PlacesOK, Alone, TypeOK
<1>3. answers' = [answers EXCEPT ![c] = 1]
  BY <1>1, <1>2 DEF TypeOK
<1> HIDE DEF c
<1>4. /\ wpc'[w] = "close"
      /\ \A v \in Workers : v # w => wpc'[v] = wpc[v]
      /\ \A v \in Workers : Busy(v)' = Busy(v)
  BY DEF TypeOK, Busy
<1>5. /\ answers'[c] = 1
      /\ \A d \in Clients : d # c => answers'[d] = answers[d]
  BY <1>1, <1>3 DEF TypeOK
<1>10. TypeOK'
  <2>0. [answers EXCEPT ![c] = 1] \in [Clients -> Nat]
    BY DEF TypeOK
  <2>1. answers' \in [Clients -> Nat]
    BY <1>3, <2>0
  <2>2. wpc' \in [Workers -> {"none", "start", "sleep", "send", "socket", "sendto",
                            "close", "dead"}]
    BY DEF TypeOK
  <2> QED BY <2>1, <2>2 DEF TypeOK
<1>11. DownOK' /\ EventsOK' /\ TextsOK'
  BY <1>4 DEF DownOK, Down, EventsOK, TextsOK, Own, Away
<1>12. KindsOK'
  BY <1>1, <1>4 DEF KindsOK, AtMain, Busy
<1>13. FdsOK'
  BY <1>4 DEF FdsOK, Down, AtMain
<1>14. OwnedOK'
  BY <1>4 DEF OwnedOK, Owned, AtMain, HeldByThread, Carried, Away
<1>15. PlacesOK'
  <2>1. \A v \in Workers : \A d : Serves(v, d)' <=> Serves(v, d)
    BY <1>4 DEF Serves
  <2>2. ~Waits(c) /\ ~MainHas(c) /\ ~Queued(c) /\ client[c] # "idle"
    BY <1>1, <1>2 DEF PlacesOK, Alone
  <2>3. \A v \in Workers : Serves(v, c) => v = w
    BY <1>1, <1>2 DEF PlacesOK, Alone
  <2>4. ASSUME NEW d \in Clients PROVE Alone(d)'
    <3>1. CASE d = c
      BY <1>1, <1>4, <1>5, <2>1, <2>2, <2>3, <3>1
         DEF Alone, Waits, MainHas, AtMain, Queued
    <3>2. CASE d # c
      <4>1. \A v \in Workers : Serves(v, d) => wpc'[v] = wpc[v]
        BY <1>2, <1>4, <3>2 DEF Serves
      <4> QED BY <1>5, <2>1, <3>2, <4>1
              DEF PlacesOK, Alone, Waits, MainHas, AtMain, Queued
    <3> QED BY <3>1, <3>2
  <2> QED BY <2>4 DEF PlacesOK
<1> QED BY <1>10, <1>11, <1>12, <1>13, <1>14, <1>15

LEMMA SocketStep ==
    ASSUME IInv, WorkerRests, NEW w \in Workers, WorkerSocket(w)
    PROVE  IInv'
<1> USE DEF IInv, WorkerRests, mainVars, arrivals, bounds, queueVars, WorkerSocket,
            WorkerGoto
<1> DEFINE r == wreq[w]
<1>1. PICK f \in Fds : Open(f, r.client) /\ wreq' = [wreq EXCEPT ![w].fd = f]
  OBVIOUS
<1>2. /\ r \in Requests /\ r.mtype = "udp" /\ r.client \in UdpClients
      /\ r.text \in SUBSET Clients
  BY RequestFields DEF KindsOK, TypeOK
<1>3. /\ wreq' = [wreq EXCEPT ![w] = [r EXCEPT !.fd = f]]
      /\ [r EXCEPT !.fd = f]
            = [mtype |-> "udp", client |-> r.client, fd |-> f, text |-> r.text]
  BY <1>1, <1>2, RequestChanges DEF TypeOK
<1>4. /\ fdOf[f] = None /\ fdOf' = [fdOf EXCEPT ![f] = r.client]
      /\ r.client \in Clients /\ r.client # None
  BY <1>1, <1>2, ClientsAssumption DEF Open, FreeFds, Clients
<1> HIDE DEF r
<1>5. /\ wreq'[w] = [mtype |-> "udp", client |-> r.client, fd |-> f, text |-> r.text]
      /\ wpc[w] = "socket" /\ wpc'[w] = "sendto"
      /\ \A v \in Workers : v # w => wpc'[v] = wpc[v] /\ wreq'[v] = wreq[v]
  BY <1>3 DEF TypeOK
<1>6. /\ wreq'[w].mtype = "udp" /\ wreq'[w].client = r.client /\ wreq'[w].fd = f
      /\ wreq'[w] \in Requests
  BY <1>2, <1>5 DEF Requests
<1>7. fdOf'[f] = r.client /\ \A g \in Fds : g # f => fdOf'[g] = fdOf[g]
  BY <1>4 DEF TypeOK
<1>8. ~Down
  BY <1>5 DEF DownOK
<1>10. TypeOK'
  <2>1. wreq' \in [Workers -> Requests]
    BY <1>3, <1>5, <1>6 DEF TypeOK
  <2> QED BY <1>4, <2>1 DEF TypeOK
<1>11. DownOK' /\ EventsOK' /\ TextsOK'
  BY <1>8 DEF DownOK, Down, EventsOK, TextsOK, Own, Away
<1>12. KindsOK'
  BY <1>5, <1>6 DEF KindsOK, AtMain, Busy
<1>13. FdsOK'
  <2>1. ASSUME NEW x \in Requests, x.mtype # "none", fdOf[x.fd] = x.client
        PROVE  x.fd # f
    BY <1>4, <2>1, RequestFields, ClientsAssumption
  <2>2. AtMain /\ request.mtype = "tcp" => request.fd \in Fds /\ request.fd # f
    BY <1>8, <2>1, RequestFields DEF FdsOK, TypeOK
  <2>3. \A x \in Elements(msgs) : x.mtype = "tcp" => x.fd \in Fds /\ x.fd # f
    BY <1>8, <2>1, RequestFields DEF FdsOK, TypeOK, Elements
  <2>4. \A v \in Workers : wpc[v] \in {"send", "sendto", "close"} =>
            wreq[v].fd \in Fds /\ wreq[v].fd # f
    BY <1>8, <2>1, RequestFields DEF FdsOK, TypeOK, KindsOK, Busy
  <2> QED BY <1>5, <1>6, <1>7, <2>2, <2>3, <2>4 DEF FdsOK, Down, AtMain
<1>14. OwnedOK'
  <2> SUFFICES ASSUME exists, NEW g \in Fds, fdOf'[g] # None PROVE Owned(g)'
    BY DEF OwnedOK
  <2>1. CASE g = f
    <3>1. HeldByThread(w, g)'
      BY <1>5, <1>6, <2>1 DEF HeldByThread, Carried
    <3> QED BY <3>1 DEF Owned
  <2>2. CASE g # f
    <3>1. Owned(g) /\ fdOf'[g] = fdOf[g]
      BY <1>7, <2>2 DEF OwnedOK
    <3>2. \A v \in Workers : HeldByThread(v, g) => HeldByThread(v, g)'
      BY <1>5 DEF HeldByThread, Carried
    <3> QED BY <3>1, <3>2 DEF Owned, AtMain, Away
  <2> QED BY <2>1, <2>2
<1>15. PlacesOK'
  <2>1. \A v \in Workers : \A d : Serves(v, d)' <=> Serves(v, d)
    BY <1>5, <1>6 DEF Serves, Busy, r
  <2>2. \A v \in Workers : wpc'[v] = "close" => wpc[v] = "close"
    BY <1>5
  <2>3. \A v \in Workers : wpc[v] = "close" => wpc'[v] = "close"
    BY <1>5
  <2> QED BY <2>1, <2>2, <2>3
          DEF PlacesOK, Alone, Waits, MainHas, AtMain, Queued
<1> QED BY <1>10, <1>11, <1>12, <1>13, <1>14, <1>15

LEMMA CloseStep ==
    ASSUME IInv, WorkerRests, NEW w \in Workers, WorkerClose(w)
    PROVE  IInv'
<1> USE DEF IInv, WorkerRests, mainVars, arrivals, bounds, queueVars, WorkerClose,
            WorkerGoto
<1> DEFINE f == wreq[w].fd
           c == wreq[w].client
<1>1. /\ wreq[w] \in Requests /\ wreq[w].mtype # "none" /\ c \in Clients /\ f \in Fds
      /\ wpc[w] = "close" /\ Serves(w, c)
  BY RequestFields DEF KindsOK, Busy, TypeOK, Serves
<1>2. ~Down /\ fdOf[f] = c
  BY <1>1 DEF DownOK, FdsOK
<1>3. fdOf' = [fdOf EXCEPT ![f] = None]
  BY DEF Close
<1> HIDE DEF f, c
<1>4. /\ wpc'[w] = "sleep"
      /\ \A v \in Workers : v # w => wpc'[v] = wpc[v]
  BY DEF TypeOK
<1>5. fdOf'[f] = None /\ \A g \in Fds : g # f => fdOf'[g] = fdOf[g]
  BY <1>1, <1>3 DEF TypeOK
<1>10. TypeOK'
  BY <1>3 DEF TypeOK
<1>11. DownOK' /\ EventsOK' /\ TextsOK'
  BY <1>2 DEF DownOK, Down, EventsOK, TextsOK, Own, Away
<1>12. KindsOK'
  BY <1>4 DEF KindsOK, AtMain, Busy
<1>13. FdsOK'
  <2>0. ~MainHas(c) /\ ~Queued(c) /\ \A v \in Workers : Serves(v, c) => v = w
    BY <1>1 DEF PlacesOK, Alone
  <2>1. AtMain /\ request.mtype = "tcp" => request.fd \in Fds /\ request.fd # f
    BY <1>2, <2>0, RequestFields DEF FdsOK, TypeOK, MainHas
  <2>2. ASSUME NEW x \in Elements(msgs), x.mtype = "tcp"
        PROVE  x.fd \in Fds /\ x.fd # f
    <3>1. x \in Requests /\ x.client # c
      BY <2>0 DEF TypeOK, Elements, Queued
    <3>2. x.fd \in Fds /\ fdOf[x.fd] = x.client
      BY <1>2, <2>2, <3>1, RequestFields DEF FdsOK
    <3> QED BY <1>2, <3>1, <3>2
  <2>3. \A v \in Workers : v # w /\ wpc[v] \in {"send", "sendto", "close"} =>
            wreq[v].fd \in Fds /\ wreq[v].fd # f
    BY <1>2, <2>0, RequestFields DEF FdsOK, TypeOK, KindsOK, Busy, Serves
  <2> QED BY <1>4, <1>5, <2>1, <2>2, <2>3 DEF FdsOK, Down, AtMain
<1>14. OwnedOK'
  <2> SUFFICES ASSUME exists, NEW g \in Fds, fdOf'[g] # None PROVE Owned(g)'
    BY DEF OwnedOK
  <2>1. g # f /\ Owned(g) /\ fdOf'[g] = fdOf[g]
    BY <1>5 DEF OwnedOK
  <2>2. \A v \in Workers : HeldByThread(v, g) => HeldByThread(v, g)'
    BY <1>4, <2>1 DEF HeldByThread, Carried, f
  <2> QED BY <2>1, <2>2 DEF Owned, AtMain, Away
<1>15. PlacesOK'
  <2>1. \A v \in Workers : Busy(v)' => Busy(v) /\ wpc'[v] = wpc[v]
    BY <1>4 DEF Busy
  <2> QED BY <2>1 DEF PlacesOK, Alone, Waits, MainHas, AtMain, Queued, Serves
<1> QED BY <1>10, <1>11, <1>12, <1>13, <1>14, <1>15

LEMMA WorkerSteps ==
    ASSUME IInv, NEW w \in Workers, WorkerStep(w)
    PROVE  IInv'
<1>1. WorkerRests
  BY DEF WorkerStep, WorkerRests
<1>2. CASE WorkerSend(w)
  <2>1. /\ wpc[w] = "send" /\ wreq[w] \in Requests /\ wreq[w].mtype = "tcp" /\ ~Down
    BY <1>2 DEF WorkerSend, WorkerGoto, IInv, KindsOK, TypeOK, DownOK
  <2>2. fdOf[wreq[w].fd] = wreq[w].client
    BY <2>1 DEF IInv, FdsOK
  <2> QED BY <1>1, <1>2, <2>1, <2>2, AnswerStep DEF WorkerSend, WorkerGoto, Answer
<1>3. CASE WorkerSendto(w)
  BY <1>1, <1>3, AnswerStep DEF WorkerSendto, WorkerGoto, Answer
<1> QED BY <1>1, <1>2, <1>3, IdleSteps, ReceiveStep, SocketStep, CloseStep DEF WorkerStep

-----------------------------------------------------------------------------
(* The clients and the signals *)

LEMMA ConnectStep ==
    ASSUME IInv, NEW c \in Clients, ClientConnect(c)
    PROVE  IInv'
<1> USE DEF IInv, ClientConnect, ServerRests, mainVars, queueVars, workerVars, bounds
<1>1. /\ client' = [client EXCEPT ![c] = "open"] /\ client[c] = "idle"
      /\ c \in TcpClients /\ c \notin UdpClients
  BY ClientsAssumption
<1>2. ~Waits(c) /\ ~MainHas(c) /\ ~Queued(c) /\ \A w \in Workers : ~Serves(w, c)
  BY <1>1 DEF PlacesOK, Alone
<1>3. /\ backlog' \in Seq(TcpClients) /\ backlog' # <<>> /\ Distinct(backlog')
      /\ Elements(backlog') = Elements(backlog) \cup {c}
  <2>1. /\ backlog \in Seq(TcpClients) /\ Distinct(backlog) /\ c \notin Elements(backlog)
        /\ backlog' = Append(backlog, c)
    BY <1>2 DEF TypeOK, PlacesOK, Waits
  <2> QED BY <1>1, <2>1, AppendElements
<1>4. /\ client'[c] = "open" /\ \A d \in Clients : d # c => client'[d] = client[d]
      /\ \A d \in Clients : Away(d)' <=> Away(d)
  BY <1>1 DEF TypeOK, Away
<1>10. TypeOK'
  BY <1>1, <1>3 DEF TypeOK
<1>11. DownOK' /\ KindsOK' /\ FdsOK' /\ EventsOK'
  BY <1>3 DEF DownOK, Down, Listening, KindsOK, AtMain, Busy, FdsOK, EventsOK
<1>12. OwnedOK'
  BY <1>4 DEF OwnedOK, Owned, AtMain, HeldByThread, Carried, Clients
<1>13. PlacesOK'
  BY <1>2, <1>3, <1>4
     DEF PlacesOK, Alone, Waits, MainHas, AtMain, Queued, Serves, Busy
<1>14. TextsOK'
  <2>1. /\ main = "msgsnd" => request.client \in Clients
        /\ \A r \in Elements(msgs) : r.client \in Clients
    BY RequestFields DEF KindsOK, AtMain, Elements, TypeOK
  <2> QED BY <1>4, <2>1 DEF TextsOK, Own
<1> QED BY <1>10, <1>11, <1>12, <1>13, <1>14

LEMMA DatagramStep ==
    ASSUME IInv, NEW c \in Clients, ClientDatagram(c)
    PROVE  IInv'
<1> USE DEF IInv, ClientDatagram, ServerRests, mainVars, queueVars, workerVars, bounds
<1>1. /\ client' = [client EXCEPT ![c] = "sent"] /\ client[c] = "idle"
      /\ c \in UdpClients /\ c \notin TcpClients
  BY ClientsAssumption
<1>2. ~Waits(c) /\ ~MainHas(c) /\ ~Queued(c) /\ \A w \in Workers : ~Serves(w, c)
  BY <1>1 DEF PlacesOK, Alone
<1>3. /\ dgrams' \in Seq(UdpClients) /\ Distinct(dgrams')
      /\ dgrams # <<>> => dgrams' # <<>>
      /\ Elements(dgrams') \subseteq Elements(dgrams) \cup {c}
  <2>1. /\ dgrams \in Seq(UdpClients) /\ Distinct(dgrams) /\ c \notin Elements(dgrams)
        /\ dgrams' = dgrams \/ dgrams' = Append(dgrams, c)
    BY <1>2 DEF TypeOK, PlacesOK, Waits
  <2>2. CASE dgrams' = dgrams
    BY <2>1, <2>2
  <2>3. CASE dgrams' = Append(dgrams, c)
    BY <1>1, <2>1, <2>3, AppendElements
  <2> QED BY <2>1, <2>2, <2>3
<1>4. /\ client'[c] = "sent" /\ \A d \in Clients : d # c => client'[d] = client[d]
      /\ \A d \in Clients : Away(d)' <=> Away(d)
  BY <1>1 DEF TypeOK, Away
<1>5. Listening \/ UNCHANGED dgrams
  OBVIOUS
<1>10. TypeOK'
  BY <1>1, <1>3 DEF TypeOK
<1>11. DownOK' /\ KindsOK' /\ FdsOK' /\ EventsOK'
  BY <1>3, <1>5 DEF DownOK, Down, Listening, KindsOK, AtMain, Busy, FdsOK, EventsOK
<1>12. OwnedOK'
  BY <1>4 DEF OwnedOK, Owned, AtMain, HeldByThread, Carried, Clients
<1>13. PlacesOK'
  BY <1>2, <1>3, <1>4
     DEF PlacesOK, Alone, Waits, MainHas, AtMain, Queued, Serves, Busy
<1>14. TextsOK'
  <2>1. /\ main = "msgsnd" => request.client \in Clients
        /\ \A r \in Elements(msgs) : r.client \in Clients
    BY RequestFields DEF KindsOK, AtMain, Elements, TypeOK
  <2> QED BY <1>4, <2>1 DEF TextsOK, Own
<1> QED BY <1>10, <1>11, <1>12, <1>13, <1>14

LEMMA ClientMovesStep ==
    ASSUME IInv, NEW c \in Clients, ClientSend(c) \/ ClientLeave(c)
    PROVE  IInv'
<1> USE DEF IInv, ServerRests, mainVars, queueVars, workerVars, bounds, arrivals
<1>1. /\ client' \in [Clients -> {"idle", "open", "sent", "gone", "left"}]
      /\ \A d \in Clients : (client'[d] = "idle" <=> client[d] = "idle")
      /\ \A d \in Clients : Away(d) => Away(d)'
      /\ ServerRests /\ UNCHANGED arrivals
  BY DEF TypeOK, Away, ClientSend, ClientLeave
<1>2. TypeOK'
  BY <1>1 DEF TypeOK
<1>3. DownOK' /\ KindsOK' /\ FdsOK' /\ EventsOK'
  BY <1>1 DEF DownOK, Down, KindsOK, AtMain, Busy, FdsOK, EventsOK
<1>4. OwnedOK'
  BY <1>1 DEF OwnedOK, Owned, AtMain, HeldByThread, Carried, Clients
<1>5. PlacesOK'
  BY <1>1 DEF PlacesOK, Alone, Waits, MainHas, AtMain, Queued, Serves, Busy
<1>6. TextsOK'
  <2>1. /\ main = "msgsnd" => request.client \in Clients
        /\ \A r \in Elements(msgs) : r.client \in Clients
    BY RequestFields DEF KindsOK, AtMain, Elements, TypeOK
  <2> QED BY <1>1, <2>1 DEF TextsOK, Own
<1> QED BY <1>2, <1>3, <1>4, <1>5, <1>6

\* A signal that main survives: it may be past the call it waited in.
LEMMA SignalStep ==
    ASSUME IInv, Signal, ~Stopped, terminating' \in BOOLEAN,
           UNCHANGED <<triggered, request, queueVars, workerVars, fdOf, arrivals,
                       clientVars>>,
           \/ UNCHANGED main \/ Goto("epoll", "check") \/ Goto("recv", "msgsnd")
    PROVE  IInv'
<1> USE DEF IInv, queueVars, workerVars, arrivals, clientVars, Goto
<1>1. signals' \in Nat \ {0} /\ signals' \in 0 .. MaxSignals /\ starts' = starts
  BY LimitsAssumption DEF Signal, TypeOK
<1>2. TypeOK'
  BY <1>1 DEF TypeOK
<1>3. DownOK' /\ KindsOK' /\ FdsOK'
  BY DEF DownOK, Down, KindsOK, AtMain, Busy, FdsOK
<1>4. EventsOK' /\ TextsOK'
  <2>1. signals' > 0 /\ signals' # 0
    BY <1>1
  <2> QED BY <2>1 DEF EventsOK, TextsOK, Own
<1>5. OwnedOK'
  BY DEF OwnedOK, Owned, AtMain, HeldByThread, Carried, Away
<1>6. PlacesOK'
  BY DEF PlacesOK, Alone, Waits, MainHas, AtMain, Queued, Serves, Busy
<1> QED BY <1>2, <1>3, <1>4, <1>5, <1>6

LEMMA SignalSteps ==
    ASSUME IInv, Sigint \/ StopAndContinue
    PROVE  IInv'
<1>1. CASE Exit("failed")
  <2>1. /\ terminating' \in BOOLEAN /\ starts' = starts
        /\ signals' = signals + 1 /\ signals < MaxSignals
    BY DEF Sigint, StopAndContinue, Signal, IInv, TypeOK
  <2>2. signals' \in signals .. MaxSignals
    BY <2>1, LimitsAssumption DEF IInv, TypeOK
  <2> QED BY <1>1, <2>1, <2>2, ExitStep
<1>2. CASE ~Exit("failed")
  BY <1>2, SignalStep DEF Sigint, StopAndContinue, Interrupted, Goto, Stopped, IInv, TypeOK
<1> QED BY <1>1, <1>2

LEMMA NextStep ==
    ASSUME IInv, [Next]_vars
    PROVE  IInv'
<1>1. CASE UNCHANGED vars
  <2> USE <1>1 DEF IInv, vars, mainVars, queueVars, workerVars, arrivals, clientVars, bounds
  <2>1. TypeOK'
    BY DEF TypeOK
  <2>2. DownOK' /\ KindsOK' /\ FdsOK' /\ EventsOK' /\ TextsOK'
    BY DEF DownOK, Down, KindsOK, AtMain, Busy, FdsOK, EventsOK, TextsOK, Own, Away
  <2>3. OwnedOK'
    BY DEF OwnedOK, Owned, AtMain, HeldByThread, Carried, Away
  <2>4. PlacesOK'
    BY DEF PlacesOK, Alone, Waits, MainHas, AtMain, Queued, Serves, Busy
  <2> QED BY <2>1, <2>2, <2>3, <2>4
<1>2. ASSUME NEW w \in Workers, WorkerKilled(w)
      PROVE  IInv'
  <2>1. signals' \in signals .. MaxSignals
    BY <1>2, LimitsAssumption DEF WorkerKilled, bounds, IInv, TypeOK
  <2> QED BY <1>2, <2>1, ExitStep DEF WorkerKilled, bounds, IInv, TypeOK
<1>3. CASE Next
  BY <1>2, <1>3, StartStep, MainSteps, WorkerSteps, ConnectStep, DatagramStep,
     ClientMovesStep, SignalSteps
     DEF Next, ClientStep
<1> QED BY <1>1, <1>3

-----------------------------------------------------------------------------
(* What follows *)

LEMMA AtMostOne ==
    ASSUME NEW S, \A x, z \in S : x = z
    PROVE  Cardinality(S) = IF S = {} THEN 0 ELSE 1
<1>1. CASE S = {}
  BY <1>1, FS_EmptySet
<1>2. CASE S # {}
  <2>1. PICK x : x \in S
    BY <1>2
  <2>2. S = {x}
    BY <2>1
  <2> QED BY <2>2, FS_Singleton
<1> QED BY <1>1, <1>2

LEMMA InvAnsweredOnce == IInv => AnsweredOnce
<1> SUFFICES ASSUME IInv, NEW c \in Clients
             PROVE  Cardinality(Places(c)) + answers[c] <= 1
  BY DEF AnsweredOnce
<1> DEFINE Backlogs == {<<"backlog", j>> : j \in {j \in DOMAIN backlog : backlog[j] = c}}
           Dgrams == {<<"dgrams", j>> : j \in {j \in DOMAIN dgrams : dgrams[j] = c}}
           Msgs == {<<"msgs", j>> : j \in {j \in DOMAIN msgs : msgs[j].client = c}}
           Threads == {<<"thread", w>> : w \in {w \in Workers : At(w) /\ wreq[w].client = c}}
           Main == IF AtMain /\ request.client = c THEN {<<"main", 0>>} ELSE {}
<1>1. Places(c) = Backlogs \cup Dgrams \cup Msgs \cup Threads \cup Main
  BY DEF Places
<1>2. Alone(c) /\ Distinct(backlog) /\ Distinct(dgrams) /\ ClientsApart(msgs)
  BY DEF IInv, PlacesOK
<1>3. /\ \A x, z \in Backlogs : x = z
      /\ \A x, z \in Dgrams : x = z
      /\ \A x, z \in Msgs : x = z
      /\ \A x, z \in Main : x = z
  BY <1>2 DEF Distinct, ClientsApart
<1>4. \A x, z \in Threads : x = z
  BY <1>2 DEF Alone, Serves, At, Busy
<1>5. /\ Backlogs # {} => Waits(c) /\ c \in Elements(backlog)
      /\ Dgrams # {} => Waits(c) /\ c \in Elements(dgrams)
      /\ Msgs # {} => Queued(c)
      /\ Main # {} => MainHas(c)
      /\ Threads # {} => answers[c] = 0 /\ \E w \in Workers : Serves(w, c)
  <2>1. Threads # {} => answers[c] = 0 /\ \E w \in Workers : Serves(w, c)
    BY <1>2 DEF Alone, Serves, At, Busy
  <2>2. /\ Backlogs # {} => Waits(c) /\ c \in Elements(backlog)
        /\ Dgrams # {} => Waits(c) /\ c \in Elements(dgrams)
    BY DEF Waits, Elements
  <2>3. Msgs # {} => Queued(c)
    BY DEF Queued, Elements
  <2> QED BY <2>1, <2>2, <2>3 DEF MainHas
<1>6. ~(c \in Elements(backlog) /\ c \in Elements(dgrams))
  BY ClientsAssumption DEF IInv, TypeOK, Elements
<1> HIDE DEF Backlogs, Dgrams, Msgs, Threads, Main
<1>7. /\ \A x, z \in Places(c) : x = z
      /\ Places(c) # {} => answers[c] = 0
  BY <1>1, <1>2, <1>3, <1>4, <1>5, <1>6 DEF Alone
<1>8. Cardinality(Places(c)) = IF Places(c) = {} THEN 0 ELSE 1
  BY <1>7, AtMostOne
<1>9. answers[c] \in Nat /\ answers[c] <= 1
  BY <1>2 DEF Alone, IInv, TypeOK
<1> QED BY <1>7, <1>8, <1>9

LEMMA InvDescriptors == IInv => DescriptorsKeepTheirClient
<1> SUFFICES ASSUME IInv, Listening PROVE DescriptorsKeepTheirClient
  BY DEF DescriptorsKeepTheirClient
<1>1. ~Down
  BY DEF Listening, Down
<1>2. \A j \in DOMAIN msgs : msgs[j] \in Elements(msgs)
  BY DEF Elements
<1> QED BY <1>1, <1>2 DEF DescriptorsKeepTheirClient, IInv, FdsOK, HeldByMain, HeldByThread

LEMMA InvLeaks == IInv => LeaksOnlyAfterFailure
<1> SUFFICES ASSUME IInv, NEW f \in Fds, fdOf[f] # None, exists
             PROVE  \/ HeldByMain(f) \/ InQueue(f) \/ \E w \in Workers : HeldByThread(w, f)
                    \/ fdOf[f] \in TcpClients /\ client[fdOf[f]] \in {"gone", "left"}
                    \/ fdOf[f] \in UdpClients /\ SendtoMayFail
  BY DEF LeaksOnlyAfterFailure
<1>1. Owned(f)
  BY DEF IInv, OwnedOK
<1>2. ASSUME NEW r \in Elements(msgs), r.mtype = "tcp", r.fd = f
      PROVE  InQueue(f)
  BY <1>2 DEF InQueue, Carried, Elements
<1> QED BY <1>1, <1>2 DEF Owned, HeldByMain, Carried, Away

LEMMA InvEvents == IInv => EventsAreReal
<1>1. IInv => signals = 0 \/ signals > 0
  BY DEF IInv, TypeOK
<1> QED BY <1>1 DEF IInv, EventsOK, EventsAreReal

\* The inductive invariant holds in every state (every function of server.c and
\* service_pool.c).
THEOREM Invariant == Spec => []IInv
<1> QED BY Inits, NextStep, PTL DEF Spec

\* Every variable keeps its type, whatever the number of clients, threads,
\* descriptors, starts and signals (server.c:71-215, service_pool.c:10-120).
THEOREM TypeCorrect == Spec => []TypeOK
<1>1. IInv => TypeOK
  BY DEF IInv
<1> QED BY <1>1, Invariant, PTL

\* A request is in one place at most, nowhere once it is answered, and answered
\* once at most (server.c:177-200, service_pool.c:64-93).
THEOREM AnsweredCorrect == Spec => []AnsweredOnce
<1> QED BY InvAnsweredOnce, Invariant, PTL

\* The number of a connection's descriptor is given to nobody else while a
\* request carries it (server.c:177, service_pool.c:41-51).
THEOREM DescriptorsCorrect == Spec => []DescriptorsKeepTheirClient
<1> QED BY InvDescriptors, Invariant, PTL

\* A descriptor that nobody will close belongs to a client that could not be
\* answered, or the queue is gone (service_pool.c:28-32, 44-46, server.c:209).
THEOREM LeaksCorrect == Spec => []LeaksOnlyAfterFailure
<1> QED BY InvLeaks, Invariant, PTL

\* Without signals main acts only on events that are there (server.c:151-167,
\* 187-192).
THEOREM EventsCorrect == Spec => []EventsAreReal
<1> QED BY InvEvents, Invariant, PTL

-----------------------------------------------------------------------------
(* The texts of the requests *)

\* The server has received the message of c.
Received(c) ==
    /\ client[c] \in {"sent", "left"}
    /\ ~Waits(c)
    /\ ~(main = "recv" /\ request.client = c)

TakenOK ==
    /\ \A c \in UdpClients : client[c] \in {"idle", "sent"}
    /\ \A c \in request.text : Received(c)
    /\ \A r \in Elements(msgs) : \A c \in r.text : Received(c)

\* A step after which every message that was received still is.
KeepsReceived ==
    /\ \A c \in Clients : Received(c) => Received(c)'
    /\ \A c \in UdpClients : client'[c] \in {"idle", "sent"}
    /\ \A r \in Elements(msgs)' : r \in Elements(msgs) \/ r = request

LEMMA TakenRests ==
    ASSUME IInv, TakenOK, KeepsReceived, request'.text = request.text
    PROVE  TakenOK'
<1>1. /\ request.text \subseteq Clients
      /\ \A r \in Elements(msgs) : r.text \subseteq Clients
  BY RequestFields DEF IInv, TypeOK, Elements
<1> QED BY <1>1 DEF TakenOK, KeepsReceived

\* Most steps leave the clients and what they have sent alone.
LEMMA TakenQuiet ==
    ASSUME IInv, TakenOK, UNCHANGED <<client, backlog, dgrams, request>>,
           UNCHANGED main \/ main' # "recv",
           \A r \in Elements(msgs)' : r \in Elements(msgs) \/ r = request
    PROVE  TakenOK'
<1>1. KeepsReceived
  BY DEF KeepsReceived, Received, Waits, TakenOK, Elements
<1> QED BY <1>1, TakenRests

LEMMA TakenExit ==
    ASSUME IInv, TakenOK, NEW how \in {"exited", "failed"}, Exit(how)
    PROVE  TakenOK'
<1>1. KeepsReceived
  BY NoElements, ClientsAssumption
     DEF KeepsReceived, Received, Waits, TakenOK, Exit, queueVars, Clients, Elements
<1> QED BY <1>1, TakenRests DEF Exit

LEMMA TakenAccept ==
    ASSUME IInv, TakenOK, MainAccept
    PROVE  TakenOK'
<1> USE DEF MainAccept, Goto, OthersRest, queueVars, clientVars
<1> DEFINE c == Head(backlog)
<1>1. /\ c \in TcpClients /\ c \in Elements(backlog)
      /\ Elements(backlog) = Elements(Tail(backlog)) \cup {c}
      /\ backlog' = Tail(backlog) /\ UNCHANGED <<client, dgrams, msgs>>
  BY TailElements DEF IInv, TypeOK
<1>2. PICK f \in Fds :
        request' = [request EXCEPT !.mtype = "tcp", !.client = c, !.fd = f]
  OBVIOUS
<1> HIDE DEF c
<1>3. request' = [mtype |-> "tcp", client |-> c, fd |-> f, text |-> request.text]
  <2>1. request \in Requests
    BY DEF IInv, TypeOK
  <2> QED BY <1>1, <1>2, <2>1, RequestChanges
<1>4. request'.client = c /\ request'.text = request.text
  BY <1>3
<1>5. KeepsReceived
  BY <1>1, <1>4 DEF KeepsReceived, Received, Waits, TakenOK, Elements
<1> QED BY <1>4, <1>5, TakenRests

\* The text of a request after the message of its client has been received.
LEMMA TakenMessage ==
    ASSUME IInv, TakenOK, KeepsReceived, NEW c \in Clients, Received(c)',
           request'.text \subseteq request.text \cup {c}, UNCHANGED msgs
    PROVE  TakenOK'
<1>1. /\ request.text \subseteq Clients
      /\ \A r \in Elements(msgs) : r.text \subseteq Clients
      /\ Elements(msgs)' = Elements(msgs)
  BY RequestFields DEF IInv, TypeOK, Elements
<1> QED BY <1>1 DEF TakenOK, KeepsReceived

LEMMA TakenRecv ==
    ASSUME IInv, TakenOK, MainRecv
    PROVE  TakenOK'
<1> USE DEF MainRecv, Goto, OthersRest, queueVars, clientVars, arrivals
<1>1. request.mtype = "tcp" /\ request \in Requests
  BY DEF IInv, KindsOK, TypeOK
<1>2. request.client \in Clients /\ request.fd \in Fds /\ request.text \in SUBSET Clients
  BY <1>1, RequestFields
<1>3. CASE UNCHANGED request
  BY <1>3, TakenQuiet DEF Elements
<1>4. ASSUME client[request.client] \in {"sent", "left"},
             NEW t \in Overwritten(request.text, request.client),
             request' = [request EXCEPT !.text = t]
      PROVE  TakenOK'
  <2>1. t \in SUBSET Clients /\ t \subseteq request.text \cup {request.client}
    BY <1>2, <1>4, OverwrittenText
  <2>2. request' = [mtype |-> "tcp", client |-> request.client, fd |-> request.fd,
                    text |-> t]
    BY <1>1, <1>2, <1>4, <2>1, RequestChanges
  <2>3. request'.text = t
    BY <2>2
  <2>4. ~Waits(request.client)
    BY <1>2 DEF IInv, PlacesOK, Alone, MainHas, AtMain
  <2>5. PICK c \in Clients : c = request.client
    BY <1>2
  <2>6. Received(c)'
    BY <1>4, <2>4, <2>5 DEF Received, Waits, Elements
  <2>7. KeepsReceived
    BY DEF KeepsReceived, Received, Waits, TakenOK, Elements
  <2> QED BY <2>1, <2>3, <2>5, <2>6, <2>7, TakenMessage
<1> QED BY <1>3, <1>4

LEMMA TakenRecvfrom ==
    ASSUME IInv, TakenOK, MainRecvfrom
    PROVE  TakenOK'
<1> USE DEF MainRecvfrom, Goto, OthersRest, queueVars, clientVars
<1>1. PICK c \in UdpClients : c = Head(dgrams)
  BY DEF IInv, TypeOK
<1>2. /\ c \in Elements(dgrams)
      /\ Elements(dgrams) = Elements(Tail(dgrams)) \cup {c}
      /\ c \notin Elements(Tail(dgrams))
  BY <1>1, TailElements DEF IInv, TypeOK, PlacesOK
<1>3. /\ Elements(dgrams') = Elements(Tail(dgrams))
      /\ UNCHANGED <<client, backlog, msgs>>
      /\ main' = "msgsnd"
  BY DEF Elements
<1>4. request.text \in SUBSET Clients /\ c \in Clients /\ c \notin Elements(backlog)
  BY <1>1, RequestFields, ClientsAssumption DEF IInv, TypeOK, Clients, Elements
<1>5. PICK t \in Overwritten(request.text, c) :
        request' = [mtype |-> "udp", client |-> c, fd |-> 0, text |-> t]
  BY <1>1
<1>6. request'.text = t /\ t \subseteq request.text \cup {c}
  BY <1>4, <1>5, OverwrittenText
<1>7. client[c] = "sent"
  <2>1. client[c] # "idle"
    BY <1>2, <1>4 DEF IInv, PlacesOK, Alone, Waits
  <2> QED BY <1>1, <2>1 DEF TakenOK
<1>8. Received(c)'
  BY <1>2, <1>3, <1>4, <1>7 DEF Received, Waits, Elements
<1>9. KeepsReceived
  <2>1. /\ Elements(dgrams)' \subseteq Elements(dgrams)
        /\ Elements(backlog)' = Elements(backlog)
        /\ Elements(msgs)' = Elements(msgs)
    BY <1>2, <1>3 DEF Elements
  <2> QED BY <1>3, <2>1 DEF KeepsReceived, Received, Waits, TakenOK
<1> QED BY <1>3, <1>4, <1>6, <1>8, <1>9, TakenMessage

\* A client that connects, sends or leaves has not been received before, or has
\* left since.
LEMMA TakenClient ==
    ASSUME IInv, TakenOK, NEW c \in Clients, ClientStep(c)
    PROVE  TakenOK'
<1> USE DEF ServerRests, mainVars, queueVars, arrivals
<1>1. UNCHANGED <<main, request, msgs>>
  BY DEF ClientStep, ClientConnect, ClientSend, ClientLeave, ClientDatagram
<1>2. CASE ClientConnect(c)
  <2>1. Elements(backlog') = Elements(backlog) \cup {c}
    BY <1>2, AppendElements DEF ClientConnect, IInv, TypeOK
  <2>2. KeepsReceived
    BY <1>1, <1>2, <2>1, ClientsAssumption
       DEF ClientConnect, KeepsReceived, Received, Waits, TakenOK, IInv, TypeOK, Elements
  <2> QED BY <1>1, <2>2, TakenRests
<1>3. CASE ClientSend(c) \/ ClientLeave(c)
  <2>1. /\ UNCHANGED <<backlog, dgrams>>
        /\ c \in TcpClients
        /\ client[c] \in {"open", "sent"}
        /\ client[c] = "sent" => client'[c] = "left"
        /\ \A d \in Clients : d # c => client'[d] = client[d]
    BY <1>3 DEF ClientSend, ClientLeave, IInv, TypeOK, TakenOK, Clients
  <2>2. /\ Elements(dgrams)' = Elements(dgrams) /\ Elements(msgs)' = Elements(msgs)
        /\ Elements(backlog)' = Elements(backlog)
    BY <1>1, <2>1 DEF Elements
  <2>3. \A d \in UdpClients : d \in Clients /\ d # c
    BY <2>1, ClientsAssumption DEF Clients
  <2>4. KeepsReceived
    BY <1>1, <2>1, <2>2, <2>3 DEF KeepsReceived, Received, Waits, TakenOK
  <2> QED BY <1>1, <2>4, TakenRests
<1>4. CASE ClientDatagram(c)
  <2>1. /\ UNCHANGED backlog
        /\ client[c] = "idle" /\ client'[c] = "sent"
        /\ \A d \in Clients : d # c => client'[d] = client[d]
        /\ c \in UdpClients
    BY <1>4 DEF ClientDatagram, IInv, TypeOK
  <2>2. Elements(dgrams') \subseteq Elements(dgrams) \cup {c}
    <3>1. CASE UNCHANGED dgrams
      BY <3>1
    <3>2. CASE dgrams' = Append(dgrams, c)
      BY <2>1, <3>2, AppendElements DEF IInv, TypeOK
    <3> QED BY <1>4, <3>1, <3>2 DEF ClientDatagram
  <2>3. /\ Elements(dgrams)' \subseteq Elements(dgrams) \cup {c}
        /\ Elements(msgs)' = Elements(msgs) /\ Elements(backlog)' = Elements(backlog)
    BY <1>1, <2>1, <2>2 DEF Elements
  <2>4. \A d \in UdpClients : d \in Clients
    BY DEF Clients
  <2>5. KeepsReceived
    BY <1>1, <2>1, <2>3, <2>4 DEF KeepsReceived, Received, Waits, TakenOK
  <2> QED BY <1>1, <2>5, TakenRests
<1> QED BY <1>2, <1>3, <1>4 DEF ClientStep

LEMMA TakenStep ==
    ASSUME IInv, TakenOK, [Next]_vars
    PROVE  TakenOK'
<1> USE DEF mainVars, arrivals, queueVars, clientVars
<1>1. ASSUME UNCHANGED <<client, backlog, dgrams, request, msgs>>,
             UNCHANGED main \/ main' # "recv"
      PROVE  TakenOK'
  BY <1>1, TakenQuiet DEF Elements
<1>2. CASE Start
  <2>1. KeepsReceived
    BY <1>2 DEF Start, KeepsReceived, Received, Waits, TakenOK, Elements
  <2>2. request'.text = {}
    BY <1>2 DEF Start, NoRequest
  <2>3. Elements(msgs)' = Elements(msgs)
    BY <1>2 DEF Start, Elements
  <2>4. \A r \in Elements(msgs) : r.text \subseteq Clients
    BY RequestFields DEF IInv, TypeOK, Elements
  <2> QED BY <2>1, <2>2, <2>3, <2>4 DEF TakenOK, KeepsReceived
<1>3. CASE MainStep
  <2> USE DEF Goto, OthersRest, OnlyMainMoves
  <2>1. CASE MainCreateQueue \/ MainRemoveQueue
    <3>1. Elements(msgs)' = {} /\ main' # "recv"
      BY <2>1, NoElements DEF MainCreateQueue, MainRemoveQueue, Elements
    <3> QED BY <2>1, <3>1, TakenQuiet DEF MainCreateQueue, MainRemoveQueue
  <2>2. CASE MainQueueExists \/ MainSetupFails \/ MainAcceptFails \/ MainExit
    BY <2>2, TakenExit DEF MainQueueExists, MainSetupFails, MainAcceptFails, MainExit
  <2>3. CASE MainCreateThread \/ MainPoolReturns \/ MainSetup \/ MainEpollWait
             \/ MainDispatch
    BY <1>1, <2>3
       DEF MainCreateThread, MainPoolReturns, MainSetup, MainEpollWait, MainDispatch
  <2>4. CASE MainMsgsnd
    <3>1. Elements(msgs') = Elements(msgs) \cup {request}
      BY <2>4, AppendElements DEF MainMsgsnd, IInv, TypeOK
    <3>2. Elements(msgs)' = Elements(msgs')
      BY DEF Elements
    <3> QED BY <2>4, <3>1, <3>2, TakenQuiet DEF MainMsgsnd
  <2> QED BY <1>3, <2>1, <2>2, <2>3, <2>4, TakenAccept, TakenRecv, TakenRecvfrom DEF MainStep
<1>4. ASSUME NEW w \in Workers, WorkerStep(w)
      PROVE  TakenOK'
  <2>1. UNCHANGED <<client, backlog, dgrams, request, main>>
    BY <1>4 DEF WorkerStep
  <2>2. CASE WorkerReceive(w)
    <3>1. Elements(msgs) = Elements(Tail(msgs)) \cup {Head(msgs)}
      BY <2>2, TailElements DEF WorkerReceive, IInv, TypeOK
    <3>2. Elements(msgs)' = Elements(Tail(msgs))
      BY <2>2 DEF WorkerReceive, Elements
    <3> QED BY <2>1, <3>1, <3>2, TakenQuiet
  <2>3. CASE ~WorkerReceive(w)
    <3>1. UNCHANGED msgs
      BY <1>4, <2>3
         DEF WorkerStep, WorkerStart, WorkerFails, WorkerSend, WorkerSendFails, WorkerSocket,
             WorkerSocketFails, WorkerSendto, WorkerSendtoFails, WorkerClose
    <3> QED BY <1>1, <2>1, <3>1
  <2> QED BY <2>2, <2>3
<1>5. CASE \E w \in Workers : WorkerKilled(w)
  BY <1>5, TakenExit DEF WorkerKilled
<1>6. CASE Sigint \/ StopAndContinue
  <2>1. CASE Exit("failed")
    BY <2>1, TakenExit
  <2>2. CASE ~Exit("failed")
    BY <1>1, <1>6, <2>2 DEF Sigint, StopAndContinue, Interrupted, Goto
  <2> QED BY <2>1, <2>2
<1>7. CASE UNCHANGED vars
  BY <1>1, <1>7 DEF vars
<1>8. CASE \E c \in Clients : ClientStep(c)
  BY <1>8, TakenClient
<1> QED BY <1>2, <1>3, <1>4, <1>5, <1>6, <1>7, <1>8 DEF Next

\* A request carries the text of another client only if its own client sent a short
\* message, left, or a signal came, and never a text that has not been received
\* (server.c:177-180, 189-195).
THEOREM TextsCorrect == Spec => []TextIsOwn
<1>1. Init => TakenOK
  BY NoElements DEF Init, TakenOK, NoRequest, Clients
<1>2. IInv /\ TakenOK => TextIsOwn
  <2> SUFFICES ASSUME IInv, TakenOK, NEW j \in DOMAIN msgs
               PROVE  /\ \/ msgs[j].text = {msgs[j].client}
                         \/ msgs[j].client \in Short
                         \/ client[msgs[j].client] \in {"gone", "left"}
                         \/ signals > 0
                      /\ \A c \in msgs[j].text : Taken(c)
    BY DEF TextIsOwn
  <2>1. msgs[j] \in Elements(msgs)
    BY DEF Elements
  <2>2. Own(msgs[j]) /\ \A c \in msgs[j].text : Received(c)
    BY <2>1 DEF IInv, TextsOK, TakenOK
  <2>3. \A c : Received(c) => Taken(c)
    BY DEF Received, Waits, Elements, Taken
  <2> QED BY <2>2, <2>3 DEF Own, Away
<1> QED BY <1>1, <1>2, TakenStep, Invariant, PTL DEF Spec

-----------------------------------------------------------------------------
(* ServerQueue implements RequestService: every step of main, of a service      *)
(* thread or of a client is a step of the service or none.                      *)

ClientsOf(s) == [j \in DOMAIN s |-> s[j].client]

Phases == [c \in Clients |-> Phase(c)]
Order == IF Listening THEN ClientsOf(msgs) ELSE <<>>

Serving(c) == \E w \in Workers : At(w) /\ wreq[w].client = c

\* Nothing happens to a client that its phase depends on.
Same(c) ==
    /\ client'[c] = "idle" <=> client[c] = "idle"
    /\ answers'[c] > 0 <=> answers[c] > 0
    /\ Waits(c)' <=> Waits(c)
    /\ MainHas(c)' <=> MainHas(c)
    /\ (Listening /\ Queued(c))' <=> (Listening /\ Queued(c))
    /\ Serving(c)' <=> Serving(c)

ServiceStep == [Abstract!ServiceNext]_<<Phases, Order>>

-----------------------------------------------------------------------------
(* Phases and the order of the queue *)

LEMMA PhaseCases ==
    ASSUME NEW c
    PROVE  Phase(c) = CASE client[c] = "idle" -> "idle"
                        [] answers[c] > 0 -> "answered"
                        [] Waits(c) -> "waiting"
                        [] MainHas(c) -> "held"
                        [] Listening /\ Queued(c) -> "queued"
                        [] Serving(c) -> "serving"
                        [] OTHER -> "lost"
BY DEF Phase, Waits, MainHas, Queued, Serving, Elements

LEMMA SamePhase ==
    ASSUME NEW c, Same(c)
    PROVE  Phase(c)' = Phase(c)
<1>1. Phase(c) = CASE client[c] = "idle" -> "idle"
                   [] answers[c] > 0 -> "answered"
                   [] Waits(c) -> "waiting"
                   [] MainHas(c) -> "held"
                   [] Listening /\ Queued(c) -> "queued"
                   [] Serving(c) -> "serving"
                   [] OTHER -> "lost"
  BY PhaseCases
<1>2. Phase(c)' = CASE client'[c] = "idle" -> "idle"
                    [] answers'[c] > 0 -> "answered"
                    [] Waits(c)' -> "waiting"
                    [] MainHas(c)' -> "held"
                    [] (Listening /\ Queued(c))' -> "queued"
                    [] Serving(c)' -> "serving"
                    [] OTHER -> "lost"
  BY DEF Phase, Waits, MainHas, Queued, Serving, Elements
<1> QED BY <1>1, <1>2 DEF Same

LEMMA StutterStep ==
    ASSUME \A c \in Clients : Same(c), Order' = Order
    PROVE  ServiceStep
BY SamePhase DEF ServiceStep, Phases

LEMMA OnePhase ==
    ASSUME NEW c \in Clients, \A d \in Clients : d # c => Same(d)
    PROVE  Phases' = [Phases EXCEPT ![c] = Phase(c)']
BY SamePhase DEF Phases

\* Where a client's phase comes from.
PhaseFacts(c) ==
    /\ client[c] = "idle" => Phase(c) = "idle"
    /\ answers[c] > 0 => Phase(c) = "answered"
    /\ Waits(c) => Phase(c) = "waiting"
    /\ MainHas(c) => Phase(c) = "held"
    /\ Listening /\ Queued(c) => Phase(c) = "queued"
    /\ Serving(c) => Phase(c) = "serving"
    /\ \/ client[c] = "idle" \/ answers[c] > 0 \/ Waits(c) \/ MainHas(c)
       \/ Listening /\ Queued(c)
       \/ Serving(c)
       \/ Phase(c) = "lost"
    /\ Phase(c) = "held" => MainHas(c)
    /\ Phase(c) = "serving" => Serving(c)

LEMMA PhaseOfEach == IInv => \A c \in Clients : PhaseFacts(c)
<1> SUFFICES ASSUME IInv, NEW c \in Clients PROVE PhaseFacts(c)
  OBVIOUS
<1>1. Alone(c) /\ answers[c] \in Nat
  BY DEF IInv, PlacesOK, TypeOK
<1>2. Serving(c) =>
        answers[c] = 0 /\ client[c] # "idle" /\ ~Waits(c) /\ ~MainHas(c) /\ ~Queued(c)
  BY <1>1 DEF Alone, Serving, Serves, Busy, At
<1>3. /\ client[c] = "idle" => ~(answers[c] > 0)
      /\ Waits(c) \/ MainHas(c) \/ Queued(c) => ~(answers[c] > 0) /\ client[c] # "idle"
  BY <1>1 DEF Alone
<1>4. /\ Waits(c) => ~MainHas(c) /\ ~Queued(c)
      /\ MainHas(c) => ~Queued(c)
  BY <1>1 DEF Alone
<1>5. answers[c] > 0 => client[c] # "idle"
  BY <1>3
<1> DEFINE idle == client[c] = "idle"
           done == answers[c] > 0
           queued == Listening /\ Queued(c)
           held == MainHas(c)
           waiting == Waits(c)
           serving == Serving(c)
<1>6. Phase(c) = CASE idle -> "idle"
                   [] done -> "answered"
                   [] waiting -> "waiting"
                   [] held -> "held"
                   [] queued -> "queued"
                   [] serving -> "serving"
                   [] OTHER -> "lost"
  BY PhaseCases
<1>7. /\ idle => ~done /\ ~waiting /\ ~held /\ ~queued /\ ~serving
      /\ done => ~waiting /\ ~held /\ ~queued /\ ~serving
      /\ waiting => ~held /\ ~queued /\ ~serving
      /\ held => ~queued /\ ~serving
      /\ queued => ~serving
  <2>1. serving => ~done
    BY <1>2
  <2> QED BY <1>2, <1>3, <1>4, <1>5, <2>1
<1> HIDE DEF idle, done, waiting, held, queued, serving
<1>8. /\ idle => Phase(c) = "idle"
      /\ done => Phase(c) = "answered"
      /\ waiting => Phase(c) = "waiting"
      /\ held => Phase(c) = "held"
      /\ queued => Phase(c) = "queued"
      /\ serving => Phase(c) = "serving"
      /\ ~(idle \/ done \/ waiting \/ held \/ queued \/ serving) => Phase(c) = "lost"
  BY <1>6, <1>7
<1>9. /\ Phase(c) = "held" => held
      /\ Phase(c) = "serving" => serving
  BY <1>8
<1> QED BY <1>8, <1>9 DEF idle, done, waiting, held, queued, serving, PhaseFacts

LEMMA PhaseOfNext == IInv' => \A c \in Clients : PhaseFacts(c)'
<1>1. IInv' => (\A c \in Clients : PhaseFacts(c))'
  BY PhaseOfEach, PTL
<1> QED BY <1>1

LEMMA QueueOrder ==
    ASSUME NEW s \in Seq(Requests)
    PROVE  /\ ClientsOf(<<>>) = <<>>
           /\ \A r \in Requests : ClientsOf(Append(s, r)) = Append(ClientsOf(s), r.client)
           /\ s # <<>> => /\ ClientsOf(s) # <<>>
                          /\ Head(ClientsOf(s)) = Head(s).client
                          /\ ClientsOf(Tail(s)) = Tail(ClientsOf(s))
<1>1. ClientsOf(<<>>) = <<>>
  BY DEF ClientsOf
<1>2. /\ Len(s) \in Nat /\ DOMAIN s = 1 .. Len(s)
      /\ \A j \in DOMAIN s : s[j] \in Requests
  OBVIOUS
<1>3. \A j \in DOMAIN s : s[j].client \in Clients \cup {None}
  BY <1>2, RequestFields
<1>4. ClientsOf(s) \in Seq(Clients \cup {None}) /\ Len(ClientsOf(s)) = Len(s)
  BY <1>2, <1>3 DEF ClientsOf
<1>5. ASSUME NEW r \in Requests
      PROVE  ClientsOf(Append(s, r)) = Append(ClientsOf(s), r.client)
  <2>1. r.client \in Clients \cup {None}
    BY RequestFields
  <2>2. /\ DOMAIN Append(s, r) = 1 .. Len(s) + 1
        /\ \A j \in 1 .. Len(s) : Append(s, r)[j] = s[j]
        /\ Append(s, r)[Len(s) + 1] = r
    BY <1>2
  <2>3. /\ DOMAIN Append(ClientsOf(s), r.client) = 1 .. Len(s) + 1
        /\ \A j \in 1 .. Len(s) : Append(ClientsOf(s), r.client)[j] = ClientsOf(s)[j]
        /\ Append(ClientsOf(s), r.client)[Len(s) + 1] = r.client
        /\ Append(ClientsOf(s), r.client) \in Seq(Clients \cup {None})
    BY <1>4, <2>1
  <2>4. \A j \in 1 .. Len(s) + 1 :
            ClientsOf(Append(s, r))[j] = Append(ClientsOf(s), r.client)[j]
    BY <1>2, <2>2, <2>3 DEF ClientsOf
  <2> QED BY <2>2, <2>3, <2>4 DEF ClientsOf
<1>6. ASSUME s # <<>>
      PROVE  /\ ClientsOf(s) # <<>>
             /\ Head(ClientsOf(s)) = Head(s).client
             /\ ClientsOf(Tail(s)) = Tail(ClientsOf(s))
  <2>1. /\ Len(s) >= 1 /\ DOMAIN Tail(s) = 1 .. Len(s) - 1 /\ Head(s) = s[1]
        /\ \A j \in 1 .. Len(s) - 1 : Tail(s)[j] = s[j + 1]
    BY <1>2, <1>6
  <2>2. /\ DOMAIN Tail(ClientsOf(s)) = 1 .. Len(s) - 1
        /\ \A j \in 1 .. Len(s) - 1 : Tail(ClientsOf(s))[j] = ClientsOf(s)[j + 1]
        /\ Tail(ClientsOf(s)) \in Seq(Clients \cup {None})
        /\ Head(ClientsOf(s)) = ClientsOf(s)[1] /\ ClientsOf(s) # <<>>
    BY <1>4, <2>1
  <2>3. ClientsOf(s)[1] = s[1].client
    BY <1>2, <2>1 DEF ClientsOf
  <2>4. \A j \in 1 .. Len(s) - 1 : ClientsOf(Tail(s))[j] = Tail(ClientsOf(s))[j]
    BY <1>2, <2>1, <2>2 DEF ClientsOf
  <2> QED BY <2>1, <2>2, <2>3, <2>4 DEF ClientsOf
<1> QED BY <1>1, <1>5, <1>6

\* As long as a thread has nothing to serve there is room for one more.
LEMMA RoomToServe ==
    ASSUME IInv, NEW w \in Workers, ~At(w)
    PROVE  Cardinality({c \in Clients : Phase(c) = "serving"}) < Cardinality(Workers)
<1> DEFINE S == {c \in Clients : Phase(c) = "serving"}
           T == Workers \ {w}
           f == [c \in S |-> CHOOSE v \in T : At(v) /\ wreq[v].client = c]
<1>1. IsFiniteSet(T) /\ Cardinality(T) = Cardinality(Workers) - 1
  BY FS_RemoveElement, WorkersAssumption
<1>2. Cardinality(T) \in Nat
  BY <1>1, FS_CardinalityType
<1>3. ASSUME NEW c \in S
      PROVE  f[c] \in T /\ wreq[f[c]].client = c
  <2>1. Serving(c)
    BY PhaseOfEach DEF PhaseFacts
  <2>2. \E v \in T : At(v) /\ wreq[v].client = c
    BY <2>1 DEF Serving
  <2> QED BY <2>2
<1>4. f \in [S -> T]
  BY <1>3
<1>5. \A a, b \in S : f[a] = f[b] => a = b
  BY <1>3
<1> HIDE DEF f
<1>6. DOMAIN f = S
  BY <1>4
<1> HIDE DEF S, T
<1>7. f \in Injection(S, T)
  BY <1>4, <1>5, <1>6 DEF Injection, IsInjective
<1>8. IsFiniteSet(S) /\ Cardinality(S) <= Cardinality(T)
  BY <1>1, <1>7, FS_Injection
<1>9. Cardinality(S) \in Nat
  BY <1>8, FS_CardinalityType
<1>10. Cardinality(Workers) = Cardinality(T) + 1
  <2>1. Cardinality(Workers) \in Nat
    BY WorkersAssumption, FS_CardinalityType
  <2> QED BY <1>1, <2>1
<1>11. Cardinality(S) < Cardinality(Workers)
  BY <1>2, <1>8, <1>9, <1>10
<1> QED BY <1>11 DEF S

-----------------------------------------------------------------------------
(* Steps *)

\* The process ends, and with it every request.
LEMMA ExitServes ==
    ASSUME IInv, IInv', NEW how \in {"exited", "failed"}, Exit(how)
    PROVE  ServiceStep
<1> USE DEF Exit
<1>1. Order' = <<>>
  BY DEF Order, Listening
<1>2. ASSUME NEW c \in Clients
      PROVE  Phase(c)' = IF Phase(c) \in {"idle", "answered"} THEN Phase(c) ELSE "lost"
  <2>1. /\ client'[c] = "idle" <=> client[c] = "idle"
        /\ answers'[c] = answers[c]
    BY DEF IInv, TypeOK
  <2>2. /\ ~Waits(c)' /\ ~MainHas(c)' /\ ~(Listening /\ Queued(c))' /\ ~Serving(c)'
    BY DEF Waits, MainHas, AtMain, Listening, Serving, At, Elements
  <2>3. /\ client'[c] = "idle" => Phase(c)' = "idle"
        /\ answers'[c] > 0 => Phase(c)' = "answered"
        /\ ~(client'[c] = "idle" \/ answers'[c] > 0) => Phase(c)' = "lost"
    BY <2>2, PhaseOfNext DEF PhaseFacts
  <2> QED BY <2>1, <2>2, <2>3, PhaseOfEach DEF PhaseFacts
<1>3. Abstract!Stop
  BY <1>1, <1>2 DEF Abstract!Stop, Phases, Order, ClientsOf
<1> QED BY <1>3 DEF ServiceStep, Abstract!ServiceNext

LEMMA OneClient ==
    ASSUME NEW c \in Clients, NEW p, Phase(c)' = p, \A d \in Clients : d # c => Same(d)
    PROVE  Abstract!Become(c, p)
<1>1. Phases' = [Phases EXCEPT ![c] = p]
  BY OnePhase
<1> QED BY <1>1 DEF Abstract!Become, Phases

\* The steps of main, of the clients and of signals that the service does not see.
LEMMA QuietServes ==
    ASSUME UNCHANGED <<backlog, dgrams, msgs, workerVars, answers>>,
           \A c \in Clients : client'[c] = "idle" <=> client[c] = "idle",
           AtMain' <=> AtMain, AtMain => request'.client = request.client,
           Listening' <=> Listening
    PROVE  ServiceStep
<1>1. \A c \in Clients : Same(c)
  BY DEF Same, Waits, MainHas, Queued, Serving, At, workerVars
<1>2. Order' = Order
  BY DEF Order, ClientsOf
<1> QED BY <1>1, <1>2, StutterStep

LEMMA ArrivalsApart ==
    ASSUME IInv
    PROVE  Elements(backlog) \subseteq TcpClients /\ Elements(dgrams) \subseteq UdpClients
BY DEF Elements, IInv, TypeOK

LEMMA AcceptServes ==
    ASSUME IInv, IInv', MainAccept \/ MainRecvfrom
    PROVE  ServiceStep
<1> USE DEF MainAccept, MainRecvfrom, Goto, OthersRest, workerVars, clientVars, bounds,
            queueVars
<1>1. /\ ~AtMain /\ AtMain' /\ Listening /\ Listening'
      /\ UNCHANGED <<msgs, wpc, wreq, client, answers>>
  BY DEF AtMain, Listening
<1>2. PICK c \in Clients :
        /\ request'.client = c
        /\ \A d : Waits(d) <=> Waits(d)' \/ d = c
        /\ Waits(c) /\ ~Waits(c)'
  <2>1. CASE MainAccept
    <3> DEFINE c == Head(backlog)
    <3>1. /\ c \in TcpClients /\ Elements(backlog) = Elements(Tail(backlog)) \cup {c}
          /\ c \notin Elements(Tail(backlog))
      BY <2>1, TailElements DEF IInv, TypeOK, PlacesOK
    <3>2. c \notin Elements(dgrams) /\ c \in Clients
      BY <3>1, ArrivalsApart, ClientsAssumption DEF Clients
    <3>3. PICK f \in Fds :
            request' = [request EXCEPT !.mtype = "tcp", !.client = c, !.fd = f]
      BY <2>1
    <3>4. request'.client = c
      <4>1. request \in Requests
        BY DEF IInv, TypeOK
      <4>2. request' = [mtype |-> "tcp", client |-> c, fd |-> f, text |-> request.text]
        BY <3>1, <3>3, <4>1, RequestChanges
      <4> QED BY <4>2
    <3>5. backlog' = Tail(backlog) /\ dgrams' = dgrams
      BY <2>1
    <3> HIDE DEF c
    <3> QED BY <3>1, <3>2, <3>4, <3>5 DEF Waits
  <2>2. CASE MainRecvfrom
    <3> DEFINE c == Head(dgrams)
    <3>1. /\ c \in UdpClients /\ Elements(dgrams) = Elements(Tail(dgrams)) \cup {c}
          /\ c \notin Elements(Tail(dgrams))
      BY <2>2, TailElements DEF IInv, TypeOK, PlacesOK
    <3>2. c \notin Elements(backlog) /\ c \in Clients
      BY <3>1, ArrivalsApart, ClientsAssumption DEF Clients
    <3>3. request'.client = c /\ dgrams' = Tail(dgrams) /\ backlog' = backlog
      BY <2>2
    <3> HIDE DEF c
    <3> QED BY <3>1, <3>2, <3>3 DEF Waits
  <2> QED BY <2>1, <2>2
<1>3. \A d \in Clients : d # c => Same(d)
  BY <1>1, <1>2 DEF Same, MainHas, Queued, Serving, At
<1>4. Phase(c) = "waiting" /\ Phase(c)' = "held"
  BY <1>1, <1>2, PhaseOfEach, PhaseOfNext DEF PhaseFacts, MainHas
<1>5. \A d \in Clients : Phase(d) # "held"
  BY <1>1, PhaseOfEach DEF PhaseFacts, MainHas
<1>6. Order' = Order
  BY <1>1 DEF Order, ClientsOf
<1>7. Abstract!PickUp(c)
  BY <1>3, <1>4, <1>5, <1>6, OneClient DEF Abstract!PickUp, Abstract!In, Order, ClientsOf
<1> QED BY <1>7 DEF ServiceStep, Abstract!ServiceNext

LEMMA MsgsndServes ==
    ASSUME IInv, IInv', MainMsgsnd
    PROVE  ServiceStep
<1> USE DEF MainMsgsnd, Goto, OthersRest, workerVars, clientVars, bounds, arrivals
<1>1. /\ AtMain /\ ~AtMain' /\ Listening /\ Listening'
      /\ UNCHANGED <<backlog, dgrams, wpc, wreq, client, answers>>
  BY DEF AtMain, Listening
<1>2. request \in Requests /\ request.client \in Clients
  BY <1>1, RequestFields DEF IInv, KindsOK, TypeOK
<1> PICK c \in Clients : c = request.client
  BY <1>2
<1>3. /\ msgs' = Append(msgs, request)
      /\ Elements(msgs') = Elements(msgs) \cup {request}
  BY <1>2, AppendElements DEF IInv, TypeOK
<1>4. \A d \in Clients : d # c => Same(d)
  BY <1>1, <1>3 DEF Same, Waits, MainHas, Queued, Serving, At
<1>5. Phase(c) = "held" /\ Phase(c)' = "queued"
  BY <1>1, <1>2, <1>3, PhaseOfEach, PhaseOfNext DEF PhaseFacts, MainHas, Queued
<1>6. Order' = Append(Order, c)
  BY <1>1, <1>2, <1>3, QueueOrder DEF Order, IInv, TypeOK
<1>7. Abstract!Become(c, "queued")
  BY <1>2, <1>4, <1>5, OneClient
<1>8. Abstract!Enqueue(c)
  BY <1>2, <1>5, <1>6, <1>7 DEF Abstract!Enqueue, Order, ClientsOf
<1> QED BY <1>8 DEF ServiceStep, Abstract!ServiceNext

LEMMA ReceiveServes ==
    ASSUME IInv, IInv', WorkerRests, NEW w \in Workers, WorkerReceive(w)
    PROVE  ServiceStep
<1> USE DEF WorkerReceive, WorkerGoto, WorkerRests, mainVars, arrivals, bounds
<1> DEFINE r == Head(msgs)
<1>1. /\ r \in Requests /\ r \in Elements(msgs)
      /\ Elements(msgs) = Elements(Tail(msgs)) \cup {r}
      /\ \A y \in Elements(Tail(msgs)) : y.client # r.client
  BY TailElements DEF IInv, TypeOK, PlacesOK
<1>2. r.client \in Clients
  BY <1>1, RequestFields DEF IInv, KindsOK
<1> PICK c \in Clients : c = r.client
  BY <1>2
<1>3. Listening /\ Listening' /\ (AtMain' <=> AtMain)
  BY DEF IInv, DownOK, Down, TypeOK, Listening, AtMain
<1>4. /\ msgs # <<>> /\ msgs' = Tail(msgs)
      /\ UNCHANGED <<backlog, dgrams, request, client, answers>>
      /\ wreq' = [wreq EXCEPT ![w] = r]
      /\ ~At(w) /\ wpc' = [wpc EXCEPT ![w] = IF r.mtype = "tcp" THEN "send" ELSE "socket"]
  BY DEF At
<1> HIDE DEF r
<1>5. /\ At(w)' /\ wreq'[w] = r
      /\ \A v \in Workers : v # w => (At(v)' <=> At(v)) /\ wreq'[v] = wreq[v]
  BY <1>4 DEF At, IInv, TypeOK
<1>6. \A d \in Clients : d # c => Same(d)
  <2> SUFFICES ASSUME NEW d \in Clients, d # c PROVE Same(d)
    OBVIOUS
  <2>1. Serving(d)' <=> Serving(d)
    BY <1>4, <1>5 DEF Serving
  <2>2. Queued(d)' <=> Queued(d)
    BY <1>1, <1>4 DEF Queued
  <2> QED BY <1>3, <1>4, <2>1, <2>2 DEF Same, Waits, MainHas
<1>7. Phase(c)' = "serving"
  <2>1. Serving(c)'
    BY <1>5 DEF Serving
  <2> QED BY <1>2, <2>1, PhaseOfNext DEF PhaseFacts
<1>8. /\ Order # <<>> /\ Head(Order) = c /\ Order' = Tail(Order)
  BY <1>3, <1>4, QueueOrder DEF Order, IInv, TypeOK, r
<1>9. Cardinality({d \in Clients : Phase(d) = "serving"}) < Cardinality(Workers)
  BY <1>4, RoomToServe
<1>10. {d \in Clients : Phase(d) = "serving"} = Abstract!In("serving")
  BY DEF Abstract!In
<1>11. Abstract!Become(c, "serving")
  BY <1>2, <1>6, <1>7, OneClient
<1>12. Cardinality(Abstract!In("serving")) < Cardinality(Workers)
  BY <1>9, <1>10
<1>13. Abstract!Become(Head(Order), "serving")
  BY <1>8, <1>11
<1>14. \A S : Abstract!Cardinality(S) = Cardinality(S)
  BY DEF Abstract!Cardinality, Cardinality
<1>15. Abstract!Serve
  BY <1>8, <1>12, <1>13, <1>14 DEF Abstract!Serve, Order, ClientsOf
<1> QED BY <1>15 DEF ServiceStep, Abstract!ServiceNext

\* A thread's steps that neither take nor finish a request.
LEMMA QuietThreadServes ==
    ASSUME WorkerRests, NEW w \in Workers, UNCHANGED <<queueVars, answers>>,
           \A v \in Workers : /\ At(v)' <=> At(v)
                              /\ At(v) => wreq'[v].client = wreq[v].client
    PROVE  ServiceStep
<1> USE DEF WorkerRests, mainVars, arrivals, queueVars
<1>1. \A c \in Clients : Same(c)
  BY DEF Same, Waits, MainHas, AtMain, Queued, Listening, Serving
<1>2. Order' = Order
  BY DEF Order, ClientsOf, Listening
<1> QED BY <1>1, <1>2, StutterStep

\* A thread is done with its request: it has answered it or given it up.
LEMMA DoneServes ==
    ASSUME IInv, IInv', WorkerRests, NEW w \in Workers, NEW c \in Clients,
           At(w), ~At(w)', c = wreq[w].client, UNCHANGED <<queueVars, wreq>>,
           \A v \in Workers : v # w => wpc'[v] = wpc[v],
           answers' = answers \/ answers' = [answers EXCEPT ![c] = @ + 1]
    PROVE  ServiceStep
<1> USE DEF WorkerRests, mainVars, arrivals, queueVars
<1>1. Serving(c) /\ Serves(w, c) /\ wpc[w] # "close"
  BY DEF Serving, Serves, At, Busy
<1>2. /\ answers[c] = 0 /\ client[c] # "idle" /\ ~Waits(c) /\ ~MainHas(c) /\ ~Queued(c)
      /\ \A v \in Workers : Serves(v, c) => v = w
  BY <1>1 DEF IInv, PlacesOK, Alone
<1>3. ~Serving(c)'
  BY <1>2 DEF Serving, Serves, At, Busy
<1>4. \A d \in Clients : d # c => Same(d)
  <2> SUFFICES ASSUME NEW d \in Clients, d # c PROVE Same(d)
    OBVIOUS
  <2>1. Serving(d)' <=> Serving(d)
    BY DEF Serving, At
  <2>2. answers'[d] = answers[d]
    BY DEF IInv, TypeOK
  <2> QED BY <2>1, <2>2 DEF Same, Waits, MainHas, AtMain, Queued, Listening
<1>5. Phase(c) = "serving"
  BY <1>1, PhaseOfEach DEF PhaseFacts
<1>6. Phase(c)' \in {"answered", "lost"}
  <2>1. client'[c] # "idle" /\ ~Waits(c)' /\ ~MainHas(c)' /\ ~Queued(c)'
    BY <1>2 DEF Waits, MainHas, AtMain, Queued
  <2> QED BY <1>3, <2>1, PhaseOfNext DEF PhaseFacts
<1>7. Order' = Order
  BY DEF Order, ClientsOf, Listening
<1>8. Abstract!Become(c, Phase(c)')
  BY <1>4, OneClient
<1>9. Abstract!Answer(c) \/ Abstract!Drop(c)
  BY <1>5, <1>6, <1>7, <1>8 DEF Abstract!Answer, Abstract!Drop, Order, ClientsOf
<1> QED BY <1>9 DEF ServiceStep, Abstract!ServiceNext

LEMMA ThreadServes ==
    ASSUME IInv, IInv', NEW w \in Workers, WorkerStep(w)
    PROVE  ServiceStep
<1> USE DEF WorkerGoto, queueVars
<1>1. WorkerRests
  BY DEF WorkerStep, WorkerRests
<1>2. CASE WorkerStart(w) \/ WorkerFails(w) \/ WorkerSocket(w) \/ WorkerClose(w)
  <2>1. UNCHANGED <<queueVars, answers>>
    BY <1>2 DEF WorkerStart, WorkerFails, WorkerSocket, WorkerClose
  <2>2. \A v \in Workers : At(v)' <=> At(v)
    BY <1>2 DEF WorkerStart, WorkerFails, WorkerSocket, WorkerClose, At, IInv, TypeOK
  <2>3. CASE WorkerStart(w) \/ WorkerFails(w) \/ WorkerClose(w)
    BY <1>1, <2>1, <2>2, <2>3, QuietThreadServes DEF WorkerStart, WorkerFails, WorkerClose
  <2>4. CASE WorkerSocket(w)
    <3>1. PICK f \in Fds : wreq' = [wreq EXCEPT ![w].fd = f]
      BY <2>4 DEF WorkerSocket
    <3>2. wreq[w] \in Requests /\ wreq[w].mtype = "udp"
      BY <2>4 DEF WorkerSocket, IInv, KindsOK, TypeOK
    <3>3. [wreq[w] EXCEPT !.fd = f].client = wreq[w].client
      <4>1. [wreq[w] EXCEPT !.fd = f]
                = [mtype |-> "udp", client |-> wreq[w].client, fd |-> f,
                   text |-> wreq[w].text]
        BY <3>2, RequestChanges
      <4> QED BY <4>1
    <3>4. \A v \in Workers : wreq'[v].client = wreq[v].client
      BY <3>1, <3>3 DEF IInv, TypeOK
    <3> QED BY <1>1, <2>1, <2>2, <3>4, QuietThreadServes
  <2> QED BY <1>2, <2>3, <2>4
<1>3. CASE \/ WorkerSend(w) \/ WorkerSendFails(w) \/ WorkerSocketFails(w)
           \/ WorkerSendto(w) \/ WorkerSendtoFails(w)
  <2> USE <1>3 DEF WorkerSend, WorkerSendFails, WorkerSocketFails, WorkerSendto,
                   WorkerSendtoFails
  <2>1. At(w) /\ ~At(w)' /\ UNCHANGED <<queueVars, wreq>>
    BY DEF At, IInv, TypeOK
  <2>2. \A v \in Workers : v # w => wpc'[v] = wpc[v]
    BY DEF IInv, TypeOK
  <2>3. wreq[w] \in Requests /\ wreq[w].mtype # "none" /\ ~Down
    BY <2>1 DEF IInv, KindsOK, Busy, At, TypeOK, DownOK
  <2>4. PICK c \in Clients : c = wreq[w].client
    BY <2>3, RequestFields
  <2>5. wpc[w] = "send" => fdOf[wreq[w].fd] = c
    BY <2>3, <2>4 DEF IInv, FdsOK
  <2>6. answers' = answers \/ answers' = [answers EXCEPT ![c] = @ + 1]
    BY <2>4, <2>5 DEF Answer
  <2> QED BY <1>1, <2>1, <2>2, <2>4, <2>6, DoneServes
<1> QED BY <1>1, <1>2, <1>3, ReceiveServes DEF WorkerStep

LEMMA ArriveServes ==
    ASSUME IInv, IInv', NEW c \in Clients, ClientConnect(c) \/ ClientDatagram(c)
    PROVE  ServiceStep
<1> USE DEF ServerRests, mainVars, queueVars, workerVars, bounds
<1>1. /\ client[c] = "idle" /\ client'[c] # "idle"
      /\ \A d \in Clients : d # c => client'[d] = client[d]
      /\ ServerRests
  BY DEF ClientConnect, ClientDatagram, IInv, TypeOK
<1>2. /\ Phase(c) = "idle" /\ answers[c] = 0
      /\ ~MainHas(c) /\ ~Queued(c) /\ ~Serving(c)
  BY <1>1, PhaseOfEach DEF PhaseFacts, IInv, PlacesOK, Alone, Serving, Serves, At, Busy
<1>3. \A d \in Clients : d # c => (Waits(d)' <=> Waits(d))
  <2>1. backlog \in Seq(TcpClients) /\ dgrams \in Seq(UdpClients)
    BY DEF IInv, TypeOK
  <2>2. CASE ClientConnect(c)
    <3>1. Elements(backlog') = Elements(backlog) \cup {c} /\ dgrams' = dgrams
      BY <2>1, <2>2, AppendElements DEF ClientConnect
    <3> QED BY <3>1 DEF Waits
  <2>3. CASE ClientDatagram(c)
    <3>1. CASE dgrams' = dgrams
      BY <2>3, <3>1 DEF ClientDatagram, Waits
    <3>2. CASE dgrams' = Append(dgrams, c)
      <4>1. Elements(dgrams') = Elements(dgrams) \cup {c} /\ backlog' = backlog
        BY <2>1, <2>3, <3>2, AppendElements DEF ClientDatagram
      <4> QED BY <4>1 DEF Waits
    <3> QED BY <2>3, <3>1, <3>2 DEF ClientDatagram
  <2> QED BY <2>2, <2>3
<1>4. \A d \in Clients : d # c => Same(d)
  BY <1>1, <1>3 DEF Same, MainHas, AtMain, Queued, Listening, Serving, At
<1>5. Phase(c)' \in {"waiting", "lost"}
  <2>1. ~MainHas(c)' /\ ~Queued(c)' /\ ~Serving(c)' /\ answers'[c] = 0
    BY <1>1, <1>2 DEF MainHas, AtMain, Queued, Serving, At
  <2> QED BY <1>1, <2>1, PhaseOfNext DEF PhaseFacts
<1>6. Order' = Order
  BY <1>1 DEF Order, ClientsOf, Listening
<1>7. Abstract!Become(c, Phase(c)')
  BY <1>4, OneClient
<1>8. Abstract!Arrive(c)
  BY <1>2, <1>5, <1>6, <1>7 DEF Abstract!Arrive, Order, ClientsOf
<1> QED BY <1>8 DEF ServiceStep, Abstract!ServiceNext

\* The server comes up, and the queue is deleted when it goes down.
LEMMA StartupServes ==
    ASSUME IInv, IInv', Start \/ MainCreateQueue \/ MainCreateThread \/ MainSetup
    PROVE  ServiceStep
<1>1. /\ UNCHANGED <<backlog, dgrams, client, answers>>
      /\ ~AtMain /\ ~AtMain'
      /\ ~Listening
      /\ Listening' => msgs' = <<>>
      /\ \A v \in Workers : At(v)' <=> At(v)
      /\ \A v \in Workers : At(v) => wreq'[v] = wreq[v]
  <2>1. CASE Start
    BY <2>1 DEF Start, Stopped, arrivals, clientVars, AtMain, Listening, At, IInv, DownOK,
                Down
  <2>2. CASE MainCreateQueue
    BY <2>2 DEF MainCreateQueue, Goto, OthersRest, workerVars, arrivals, clientVars, AtMain,
                Listening, At
  <2>3. CASE MainCreateThread
    BY <2>3 DEF MainCreateThread, mainVars, arrivals, clientVars, AtMain, Listening, At,
                IInv, TypeOK
  <2>4. CASE MainSetup
    BY <2>4 DEF MainSetup, Goto, OnlyMainMoves, OthersRest, queueVars, workerVars, arrivals,
                clientVars, AtMain, Listening, At, IInv, DownOK
  <2> QED BY <2>1, <2>2, <2>3, <2>4
<1>2. \A c \in Clients : Same(c)
  BY <1>1, NoElements DEF Same, Waits, MainHas, Queued, Serving
<1>3. Order = <<>> /\ Order' = <<>>
  BY <1>1 DEF Order, ClientsOf
<1> QED BY <1>2, <1>3, StutterStep

LEMMA RemoveServes ==
    ASSUME IInv, IInv', MainRemoveQueue
    PROVE  ServiceStep
<1> USE DEF MainRemoveQueue, Goto, OthersRest, workerVars, clientVars, bounds, arrivals
<1>1. Listening /\ ~Listening' /\ ~AtMain /\ ~AtMain'
  BY DEF Listening, AtMain
<1>2. ASSUME NEW c \in Clients
      PROVE  Phase(c)' = IF Phase(c) = "queued" THEN "lost" ELSE Phase(c)
  <2>1. CASE Queued(c)
    <3>1. /\ answers[c] = 0 /\ client[c] # "idle" /\ ~Waits(c) /\ ~Serving(c)
      BY <2>1 DEF IInv, PlacesOK, Alone, Serving, Serves, At, Busy
    <3>2. /\ answers'[c] = 0 /\ client'[c] # "idle" /\ ~Waits(c)' /\ ~Serving(c)'
          /\ ~MainHas(c)'
      BY <1>1, <3>1 DEF Waits, Serving, At, MainHas
    <3> QED BY <1>1, <2>1, <3>2, PhaseOfEach, PhaseOfNext DEF PhaseFacts
  <2>2. CASE ~Queued(c)
    <3>1. Same(c)
      BY <1>1, <2>2 DEF Same, Waits, MainHas, Serving, At
    <3>2. Phase(c) # "queued"
      BY <1>1, <2>2, PhaseOfEach DEF PhaseFacts
    <3> QED BY <3>1, <3>2, SamePhase
  <2> QED BY <2>1, <2>2
<1>3. Order' = <<>>
  BY <1>1 DEF Order
<1>4. Abstract!Discard
  BY <1>2, <1>3 DEF Abstract!Discard, Phases, Order, ClientsOf
<1> QED BY <1>4 DEF ServiceStep, Abstract!ServiceNext

LEMMA MainServes ==
    ASSUME IInv, IInv', MainStep
    PROVE  ServiceStep
<1>1. CASE MainQueueExists \/ MainSetupFails \/ MainAcceptFails \/ MainExit
  <2>1. Exit("exited") \/ Exit("failed")
    BY <1>1 DEF MainQueueExists, MainSetupFails, MainAcceptFails, MainExit
  <2> QED BY <2>1, ExitServes
<1>2. CASE MainPoolReturns \/ MainEpollWait \/ MainDispatch \/ MainRecv
  <2> USE DEF Goto, OnlyMainMoves, OthersRest, queueVars, workerVars, arrivals, clientVars
  <2>1. /\ UNCHANGED <<backlog, dgrams, msgs, workerVars, answers, client>>
        /\ AtMain' <=> AtMain
        /\ Listening' <=> Listening
    BY <1>2 DEF MainPoolReturns, MainEpollWait, MainDispatch, MainRecv, AtMain, Listening
  <2>2. request'.client = request.client
    <3>1. CASE MainRecv
      <4>1. request \in Requests /\ request.mtype = "tcp" /\ request.client \in Clients
        BY <3>1, RequestFields DEF MainRecv, IInv, KindsOK, TypeOK
      <4>2. ASSUME NEW t \in Overwritten(request.text, request.client),
                   request' = [request EXCEPT !.text = t]
            PROVE  request'.client = request.client
        <5>1. t \in SUBSET Clients
          BY <4>1, OverwrittenText, RequestFields
        <5>2. request' = [mtype |-> "tcp", client |-> request.client,
                          fd |-> request.fd, text |-> t]
          BY <4>1, <4>2, <5>1, RequestChanges, RequestFields
        <5> QED BY <5>2
      <4> QED BY <3>1, <4>2 DEF MainRecv
    <3>2. CASE MainPoolReturns \/ MainEpollWait \/ MainDispatch
      BY <3>2 DEF MainPoolReturns, MainEpollWait, MainDispatch
    <3> QED BY <1>2, <3>1, <3>2
  <2> QED BY <2>1, <2>2, QuietServes
<1> QED BY <1>1, <1>2, AcceptServes, MsgsndServes, StartupServes, RemoveServes DEF MainStep

LEMMA NextServes ==
    ASSUME IInv, IInv', [Next]_vars
    PROVE  ServiceStep
<1>1. CASE \E c \in Clients : ClientSend(c) \/ ClientLeave(c)
  <2>1. /\ UNCHANGED <<backlog, dgrams, msgs, workerVars, answers, main, request>>
        /\ \A c \in Clients : client'[c] = "idle" <=> client[c] = "idle"
    BY <1>1 DEF ClientSend, ClientLeave, ServerRests, mainVars, queueVars, arrivals, IInv,
                TypeOK
  <2> QED BY <2>1, QuietServes DEF AtMain, Listening
<1>2. CASE Sigint \/ StopAndContinue
  <2>1. CASE Exit("failed")
    BY <2>1, ExitServes
  <2>2. CASE ~Exit("failed")
    <3>1. /\ UNCHANGED <<request, queueVars, workerVars, arrivals, clientVars>>
          /\ UNCHANGED main \/ Goto("epoll", "check") \/ Goto("recv", "msgsnd")
      BY <1>2, <2>2 DEF Sigint, StopAndContinue, Interrupted, Goto
    <3> QED BY <3>1, QuietServes DEF AtMain, Listening, Goto, queueVars, arrivals, clientVars
  <2> QED BY <2>1, <2>2
<1>3. CASE UNCHANGED vars
  BY <1>3, QuietServes
     DEF vars, mainVars, queueVars, workerVars, arrivals, clientVars, AtMain, Listening
<1>4. CASE \E w \in Workers : WorkerKilled(w)
  BY <1>4, ExitServes DEF WorkerKilled
<1> QED BY <1>1, <1>2, <1>3, <1>4, StartupServes, MainServes, ThreadServes, ArriveServes
        DEF Next, ClientStep

-----------------------------------------------------------------------------

\* The server does what RequestService promises, whatever the number of clients,
\* threads, descriptors and signals: it picks up requests one at a time, hands
\* them on in that order, and answers each at most once (server.c:133-200,
\* service_pool.c:21-93).
THEOREM Implements == Spec => ServiceSpec
<1>1. Init => Abstract!ServiceInit
  <2> SUFFICES ASSUME Init PROVE Abstract!ServiceInit
    OBVIOUS
  <2>1. \A c \in Clients : Phase(c) = "idle"
    BY Inits, PhaseOfEach DEF PhaseFacts, Init
  <2>2. ~Listening
    BY DEF Init, Listening
  <2> QED BY <2>1, <2>2 DEF Abstract!ServiceInit
<1>2. IInv /\ IInv' /\ [Next]_vars => [Abstract!ServiceNext]_(Abstract!serviceVars)
  BY NextServes DEF ServiceStep, Phases, Order, ClientsOf, Abstract!serviceVars
<1> QED BY <1>1, <1>2, Invariant, PTL DEF Spec, ServiceSpec, Abstract!ServiceSpec
=============================================================================
