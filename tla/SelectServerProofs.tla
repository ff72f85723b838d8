-------------------------- MODULE SelectServerProofs ------------------------
(* The safety of the select server for every set of clients. *)
EXTENDS SelectServer, TLAPS

\* What select saw lasts: only the server takes from the sockets, so the UDP
\* socket stays ready during the branch of the TCP socket.
ReadyOK ==
  \/ selectFailed
  \/ /\ pc = "accept" => backlog # {}
     /\ pc = "recvfrom" => dgrams # {}
     /\ pc \in {"accept", "send", "close"} /\ "udp" \in rfds => dgrams # {}

ConnectionOK == GreetedOnce /\ (pc = "close" => cfd \in greeted)

\* During sendto the one datagram that is neither waiting nor answered is that
\* of client_addr.
AddressOK ==
  \/ recvFailed
  \/ /\ AnswersGoToAskers
     /\ pc = "sendto" => asked = dgrams \union answered \union {client_addr}

IInv == TypeOK /\ ReadyOK /\ ConnectionOK /\ AddressOK

ServerStep ==
  \/ OpenTcp \/ OpenUdp \/ Fails \/ Select \/ SelectFails
  \/ Accept \/ Send \/ Close \/ Recvfrom \/ RecvfromFails \/ Sendto

USE DEF server, faults, vars, Nobody, Calls

-----------------------------------------------------------------------------
\* The program starts in the invariant.
LEMMA InitOK == Init => IInv
<1>1. Init => TypeOK
  BY DEF Init, TypeOK
<1>2. Init => ReadyOK
  BY DEF Init, ReadyOK
<1>3. Init => ConnectionOK
  BY DEF Init, ConnectionOK, GreetedOnce
<1>4. Init => AddressOK
  BY DEF Init, AddressOK, AnswersGoToAskers
<1> QED
  BY <1>1, <1>2, <1>3, <1>4 DEF IInv

\* Steps of a client keep it: they add to what waits and take nothing away.
LEMMA ClientOK ==
  ASSUME Nobody \notin Clients, IInv, NEW c \in Clients,
         Connect(c) \/ Leave(c) \/ Ask(c)
  PROVE  IInv'
<1>1. CASE Connect(c)
  <2>1. TypeOK'
    BY <1>1 DEF Connect, Listening, IInv, TypeOK
  <2>2. ReadyOK'
    BY <1>1 DEF Connect, IInv, ReadyOK
  <2>3. ConnectionOK'
    BY <1>1 DEF Connect, Listening, IInv, TypeOK, ConnectionOK, GreetedOnce
  <2>4. AddressOK'
    BY <1>1 DEF Connect, IInv, AddressOK, AnswersGoToAskers, Unanswered
  <2> QED
    BY <2>1, <2>2, <2>3, <2>4 DEF IInv
<1>2. CASE Leave(c)
  <2>1. TypeOK'
    BY <1>2 DEF Leave, IInv, TypeOK
  <2>2. ReadyOK'
    BY <1>2 DEF Leave, IInv, ReadyOK
  <2>3. ConnectionOK'
    BY <1>2 DEF Leave, IInv, ConnectionOK, GreetedOnce
  <2>4. AddressOK'
    BY <1>2 DEF Leave, IInv, AddressOK, AnswersGoToAskers, Unanswered
  <2> QED
    BY <2>1, <2>2, <2>3, <2>4 DEF IInv
<1>3. CASE Ask(c)
  <2>1. TypeOK'
    BY <1>3 DEF Ask, Bound, IInv, TypeOK
  <2>2. ReadyOK'
    BY <1>3 DEF Ask, IInv, ReadyOK
  <2>3. ConnectionOK'
    BY <1>3 DEF Ask, IInv, ConnectionOK, GreetedOnce
  <2>4. AddressOK'
    BY <1>3 DEF Ask, Bound, IInv, TypeOK, AddressOK, AnswersGoToAskers,
                Unanswered
  <2> QED
    BY <2>1, <2>2, <2>3, <2>4 DEF IInv
<1> QED
  BY <1>1, <1>2, <1>3

\* Types, over the steps of the server.
LEMMA TypeStep ==
  ASSUME Nobody \notin Clients, IInv, ServerStep
  PROVE  TypeOK'
<1> USE DEF IInv
<1>1. CASE OpenTcp \/ OpenUdp \/ Fails
  BY <1>1 DEF OpenTcp, OpenUdp, Fails, TypeOK
<1>2. CASE Select \/ SelectFails
  BY <1>2 DEF Select, SelectFails, Ready, FirstBranch, SecondBranch, TypeOK
<1>3. CASE Accept
  BY <1>3 DEF Accept, TypeOK
<1>4. CASE Send
  <2>1. cfd \in called
    BY <1>4 DEF Send, ConnectionOK, GreetedOnce, TypeOK
  <2> QED
    BY <1>4, <2>1 DEF Send, TypeOK
<1>5. CASE Close
  BY <1>5 DEF Close, SecondBranch, TypeOK
<1>6. CASE Recvfrom \/ RecvfromFails
  BY <1>6 DEF Recvfrom, RecvfromFails, TypeOK
<1>7. CASE Sendto
  BY <1>7 DEF Sendto, Unanswered, TypeOK
<1> QED
  BY <1>1, <1>2, <1>3, <1>4, <1>5, <1>6, <1>7 DEF ServerStep

\* The blocking calls, over the steps of the server.
LEMMA ReadyStep ==
  ASSUME IInv, ServerStep
  PROVE  ReadyOK'
<1> USE DEF IInv, ReadyOK
<1>1. CASE OpenTcp \/ OpenUdp \/ Fails
  BY <1>1 DEF OpenTcp, OpenUdp, Fails
<1>2. CASE Select
  <2>1. /\ "tcp" \in rfds' => backlog # {}
        /\ "udp" \in rfds' => dgrams # {}
    BY <1>2 DEF Select, Ready
  <2>2. /\ pc' = "accept" => "tcp" \in rfds'
        /\ pc' = "recvfrom" => "udp" \in rfds'
        /\ pc' \notin {"send", "close"}
    BY <1>2 DEF Select, FirstBranch, SecondBranch
  <2> QED
    BY <1>2, <2>1, <2>2 DEF Select
<1>3. CASE SelectFails
  BY <1>3 DEF SelectFails
<1>4. CASE Accept \/ Send
  BY <1>4 DEF Accept, Send
<1>5. CASE Close
  BY <1>5 DEF Close, SecondBranch
<1>6. CASE Recvfrom \/ RecvfromFails
  BY <1>6 DEF Recvfrom, RecvfromFails
<1>7. CASE Sendto
  BY <1>7 DEF Sendto
<1> QED
  BY <1>1, <1>2, <1>3, <1>4, <1>5, <1>6, <1>7 DEF ServerStep

\* The connections, over the steps of the server.
LEMMA ConnectionStep ==
  ASSUME Nobody \notin Clients, IInv, ServerStep
  PROVE  ConnectionOK'
<1> USE DEF IInv, ConnectionOK, GreetedOnce
<1>1. CASE OpenTcp \/ OpenUdp \/ Fails
  BY <1>1 DEF OpenTcp, OpenUdp, Fails
<1>2. CASE Select \/ SelectFails
  BY <1>2 DEF Select, SelectFails, FirstBranch, SecondBranch
<1>3. CASE Accept
  BY <1>3 DEF Accept, TypeOK
<1>4. CASE Send
  BY <1>4 DEF Send, TypeOK
<1>5. CASE Close
  BY <1>5 DEF Close, SecondBranch
<1>6. CASE Recvfrom \/ RecvfromFails
  BY <1>6 DEF Recvfrom, RecvfromFails
<1>7. CASE Sendto
  BY <1>7 DEF Sendto
<1> QED
  BY <1>1, <1>2, <1>3, <1>4, <1>5, <1>6, <1>7 DEF ServerStep

\* The address, over the steps of the server.
LEMMA AddressStep ==
  ASSUME IInv, ServerStep
  PROVE  AddressOK'
<1> USE DEF IInv, AddressOK, AnswersGoToAskers, Unanswered
<1>1. CASE OpenTcp \/ OpenUdp \/ Fails
  BY <1>1 DEF OpenTcp, OpenUdp, Fails
<1>2. CASE Select \/ SelectFails
  BY <1>2 DEF Select, SelectFails, FirstBranch, SecondBranch
<1>3. CASE Accept
  BY <1>3 DEF Accept
<1>4. CASE Send
  BY <1>4 DEF Send
<1>5. CASE Close
  BY <1>5 DEF Close, SecondBranch
<1>6. CASE Recvfrom
  <2>1. PICK c \in dgrams : client_addr' = c /\ dgrams' = dgrams \ {c}
    BY <1>6 DEF Recvfrom
  <2> QED
    BY <1>6, <2>1 DEF Recvfrom, TypeOK
<1>7. CASE RecvfromFails
  BY <1>7 DEF RecvfromFails
<1>8. CASE Sendto
  BY <1>8 DEF Sendto, TypeOK
<1> QED
  BY <1>1, <1>2, <1>3, <1>4, <1>5, <1>6, <1>7, <1>8 DEF ServerStep

-----------------------------------------------------------------------------
\* The invariant holds of every behaviour. Nobody is the mark of a structure
\* that no call has filled, and so is not a client.
THEOREM Invariant ==
  ASSUME Nobody \notin Clients
  PROVE  Spec => []IInv
<1>1. IInv /\ [Next]_vars => IInv'
  <2> SUFFICES ASSUME IInv, [Next]_vars
               PROVE  IInv'
    OBVIOUS
  <2>1. CASE \E c \in Clients : Connect(c) \/ Leave(c) \/ Ask(c)
    BY <2>1, ClientOK
  <2>2. CASE ServerStep
    BY <2>2, TypeStep, ReadyStep, ConnectionStep, AddressStep DEF IInv
  <2>3. CASE UNCHANGED vars
    BY <2>3 DEF IInv, TypeOK, ReadyOK, ConnectionOK, GreetedOnce, AddressOK,
                AnswersGoToAskers, Unanswered
  <2> QED
    BY <2>1, <2>2, <2>3 DEF Next, ServerStep
<1> QED
  BY InitOK, <1>1, PTL DEF Spec

\* Every variable keeps its type.
THEOREM TypeCorrect ==
  ASSUME Nobody \notin Clients
  PROVE  Spec => []TypeOK
<1>1. IInv => TypeOK
  BY DEF IInv
<1> QED
  BY Invariant, <1>1, PTL

\* The blocking calls after a select that did not fail find what they wait for
\* (lines 84-100).
THEOREM BlockingCorrect ==
  ASSUME Nobody \notin Clients
  PROVE  Spec => []BlocksOnlyInSelect
<1>1. IInv => BlocksOnlyInSelect
  BY DEF IInv, ReadyOK, BlocksOnlyInSelect
<1> QED
  BY Invariant, <1>1, PTL

\* Every connection is greeted once and closed before the next select
\* (lines 84-93).
THEOREM GreetingsCorrect ==
  ASSUME Nobody \notin Clients
  PROVE  Spec => []GreetedOnce
<1>1. IInv => GreetedOnce
  BY DEF IInv, ConnectionOK
<1> QED
  BY Invariant, <1>1, PTL

\* Answers go to the senders of the datagrams, one for each (lines 94-100).
THEOREM AnswersCorrect ==
  ASSUME Nobody \notin Clients
  PROVE  Spec => []AnswersGoToAskers
<1>1. IInv => AnswersGoToAskers
  BY DEF IInv, AddressOK, AnswersGoToAskers
<1> QED
  BY Invariant, <1>1, PTL
=============================================================================
