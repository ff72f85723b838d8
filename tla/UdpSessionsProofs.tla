------------------------- MODULE UdpSessionsProofs -------------------------
(***************************************************************************)
(* The sessions of UdpSessions for every number of clients and processes,  *)
(* every size of the buffers and every number of failing calls.            *)
(***************************************************************************)
EXTENDS UdpSessions, FiniteSetTheorems, TLAPS

\* Only children echo, and a process that does not exist yet answers nobody and
\* has received nothing.
RolesOK ==
    /\ pc[Main] \in {"start", "request", "fork", "ended"}
    /\ \A p \in Kids : pc[p] = "unborn" => client[p] = NoClient /\ inbox[p] = <<>>

\* The inductive invariant.
IInv == TypeOK /\ RolesOK /\ SessionsApart

-----------------------------------------------------------------------------
(* Queues *)

LEMMA AppendHolds ==
    ASSUME NEW S, NEW q \in Seq(S), NEW x \in S, NEW z
    PROVE  /\ Arrive(q, x) \in Seq(S)
           /\ Holds(Arrive(q, x), z) => Holds(q, z) \/ z = x
<1>1. CASE Len(q) < Room
  <2>1. /\ Arrive(q, x) = Append(q, x) /\ Append(q, x) \in Seq(S)
        /\ DOMAIN Append(q, x) = 1 .. Len(q) + 1
        /\ DOMAIN q = 1 .. Len(q) /\ Len(q) \in Nat
        /\ \A j \in 1 .. Len(q) : Append(q, x)[j] = q[j]
        /\ Append(q, x)[Len(q) + 1] = x
    BY <1>1 DEF Arrive
  <2>2. DOMAIN Append(q, x) = DOMAIN q \cup {Len(q) + 1}
    BY <2>1
  <2> QED BY <2>1, <2>2 DEF Holds
<1>2. CASE ~(Len(q) < Room)
  BY <1>2 DEF Arrive
<1> QED BY <1>1, <1>2

LEMMA TailHolds ==
    ASSUME NEW S, NEW q \in Seq(S), q # <<>>, NEW z
    PROVE  /\ Head(q) \in S /\ Tail(q) \in Seq(S)
           /\ Holds(q, Head(q))
           /\ Holds(Tail(q), z) => Holds(q, z)
<1>1. /\ Len(q) \in Nat \ {0} /\ DOMAIN q = 1 .. Len(q)
      /\ DOMAIN Tail(q) = 1 .. Len(q) - 1
      /\ \A j \in 1 .. Len(q) - 1 : Tail(q)[j] = q[j + 1]
      /\ Head(q) = q[1] /\ Head(q) \in S /\ Tail(q) \in Seq(S)
  OBVIOUS
<1>2. 1 \in DOMAIN q
  BY <1>1
<1>3. \A j \in DOMAIN Tail(q) : j + 1 \in DOMAIN q
  BY <1>1
<1> QED BY <1>1, <1>2, <1>3 DEF Holds

LEMMA EmptyHolds == \A x : ~Holds(<<>>, x)
BY DEF Holds

-----------------------------------------------------------------------------
(* The steps *)

LEMMA Inits == Init => IInv
<1> SUFFICES ASSUME Init PROVE IInv
  OBVIOUS
<1>1. Main \in Procs /\ Main \notin Kids /\ 0 \in 0 .. MaxFaults
  BY BoundsAssumption DEF Main, Procs, Kids
<1>2. TypeOK
  BY <1>1, BoundsAssumption DEF Init, TypeOK
<1>3. RolesOK
  BY <1>1 DEF Init, RolesOK, Procs
<1>4. SessionsApart
  BY <1>1, EmptyHolds DEF Init, SessionsApart, Procs
<1> QED BY <1>2, <1>3, <1>4 DEF IInv

\* A step that gives nobody a datagram or another client.
LEMMA QuietStep ==
    ASSUME IInv, TypeOK', RolesOK',
           \A p \in Kids : client'[p] = client[p],
           \A p \in Kids, c \in Clients : Holds(inbox'[p], c) => Holds(inbox[p], c),
           \A p \in Kids, c \in Clients : Holds(cinbox'[c], p) => Holds(cinbox[c], p),
           \A c \in Clients : server'[c] # server[c] => client[server'[c]] = c,
           \A c \in Clients : server[c] \in Procs /\ server'[c] \in Procs
    PROVE  IInv'
<1>1. \A p \in Procs : p # Main => p \in Kids
  BY DEF Procs
<1>2. SessionsApart'
  BY <1>1 DEF IInv, SessionsApart
<1> QED BY <1>2 DEF IInv

LEMMA FaultsCounted ==
    ASSUME TypeOK, Fault \/ NoFault
    PROVE  faults' \in 0 .. MaxFaults
BY BoundsAssumption DEF TypeOK, Fault, NoFault

LEMMA ProcsStep ==
    ASSUME IInv, NEW p \in Procs, ProcStep(p)
    PROVE  IInv'
<1> USE DEF IInv
<1>1. /\ Main \in Procs /\ Main \notin Kids
      /\ \A q \in Procs : q # Main <=> q \in Kids
      /\ Kids \subseteq Procs
  BY BoundsAssumption DEF Main, Procs, Kids
<1>2. faults' \in 0 .. MaxFaults
  <2>1. Fault \/ NoFault
    BY DEF ProcStep, Start, StartFails, RecvRequest, RecvRequestFails, Fork, ForkFails,
           ChildSocket, ChildSocketFails, ChildSend, ChildRecv, ChildRecvFails
  <2> QED BY <2>1, FaultsCounted
<1>3. \A c \in Clients : server[c] \in Procs
  BY DEF TypeOK
<1>4. CASE p = Main /\ Start
  <2> USE <1>4 DEF Start, Goto, clientVars
  <2>1. TypeOK'
    BY <1>2 DEF TypeOK
  <2>2. RolesOK'
    BY <1>1 DEF RolesOK, TypeOK
  <2> QED BY <1>3, <2>1, <2>2, QuietStep
<1>5. ASSUME NEW from, Exit(p, from), UNCHANGED clientVars
      PROVE  IInv'
  <2> USE <1>5 DEF Exit, Goto, clientVars
  <2>1. TypeOK'
    BY <1>2 DEF TypeOK
  <2>2. RolesOK'
    BY <1>1 DEF RolesOK, TypeOK
  <2>3. \A q \in Kids, c \in Clients : Holds(inbox'[q], c) => Holds(inbox[q], c)
    BY <1>1, EmptyHolds DEF TypeOK
  <2> QED BY <1>3, <2>1, <2>2, <2>3, QuietStep
<1>6. CASE RecvRequest(p)
  <2> USE <1>6 DEF RecvRequest, Goto, clientVars
  <2>1. inbox[p] \in Seq(Clients) /\ inbox[p] # <<>>
    BY DEF TypeOK
  <2>2. /\ Head(inbox[p]) \in Clients /\ Tail(inbox[p]) \in Seq(Clients)
        /\ Holds(inbox[p], Head(inbox[p]))
        /\ \A c : Holds(Tail(inbox[p]), c) => Holds(inbox[p], c)
    BY <2>1, TailHolds
  <2>3. TypeOK'
    BY <1>2, <2>2 DEF TypeOK
  <2>4. p \in Kids => client[p] = Head(inbox[p])
    BY <2>2 DEF SessionsApart
  <2>5. \A q \in Kids : client'[q] = client[q]
    BY <1>1, <2>4 DEF TypeOK
  <2>6. \A q \in Kids, c \in Clients : Holds(inbox'[q], c) => Holds(inbox[q], c)
    BY <1>1, <2>2 DEF TypeOK
  <2>7. \A q \in Kids : pc'[q] = "unborn" => q # p /\ pc[q] = "unborn" /\ inbox'[q] = inbox[q]
    BY <1>1 DEF TypeOK
  <2>8. RolesOK'
    BY <1>1, <2>5, <2>7 DEF RolesOK, TypeOK
  <2> QED BY <1>3, <2>3, <2>5, <2>6, <2>8, QuietStep
<1>7. CASE Fork(p)
  <2> USE <1>7 DEF Fork, clientVars
  <2>1. PICK kid \in Kids :
            /\ pc[kid] = "unborn"
            /\ pc' = [pc EXCEPT ![p] = "request", ![kid] = "child"]
            /\ client' = [client EXCEPT ![kid] = client[p]]
    BY DEF NextKid
  <2>2. client[p] \in Clients \cup {NoClient}
    BY DEF TypeOK
  <2>3. TypeOK'
    BY <1>1, <1>2, <2>1, <2>2 DEF TypeOK
  <2>4. pc[p] = "fork" /\ kid # p
    BY <2>1
  <2>5. /\ \A q \in Kids \ {kid} : client'[q] = client[q]
        /\ client[kid] = NoClient /\ inbox[kid] = <<>>
    BY <1>1, <2>1 DEF RolesOK, TypeOK
  <2>6. RolesOK'
    <3>1. pc'[Main] \in {"start", "request", "fork", "ended"}
      BY <1>1, <2>1 DEF RolesOK, TypeOK
    <3>2. \A q \in Kids : pc'[q] = "unborn" => q # kid /\ pc[q] = "unborn"
      BY <1>1, <2>1, <2>4 DEF TypeOK
    <3> QED BY <3>1, <3>2, <2>5 DEF RolesOK
  <2>7. \A c \in Clients : c # NoClient
    BY BoundsAssumption
  <2>8. /\ \A c \in Clients : ~Holds(inbox[kid], c)
        /\ \A c \in Clients : ~Holds(cinbox[c], kid)
        /\ \A c \in Clients : server[c] # kid
    BY <1>1, <2>1, <2>5, <2>7, EmptyHolds DEF SessionsApart
  <2>9. SessionsApart'
    BY <1>1, <1>3, <2>5, <2>8 DEF SessionsApart
  <2> QED BY <2>3, <2>6, <2>9
<1>8. ASSUME NEW from, NEW to \in {"request", "send"}, from # "unborn", Goto(p, from, to),
             to = "request" \/ from = "child",
             UNCHANGED <<client, inbox, clientVars>>,
             open' \in [Procs -> BOOLEAN]
      PROVE  IInv'
  <2> USE <1>8 DEF Goto, clientVars
  <2>1. TypeOK'
    BY <1>2 DEF TypeOK
  <2>2. RolesOK'
    BY <1>1 DEF RolesOK, TypeOK
  <2> QED BY <1>3, <2>1, <2>2, QuietStep
<1>9. CASE ChildSend(p)
  <2> USE <1>9 DEF ChildSend, Goto
  <2>1. p \in Kids /\ client[p] \in Clients \cup {NoClient}
    BY <1>1 DEF RolesOK, TypeOK
  <2>2. PICK c0 : c0 = client[p]
    OBVIOUS
  <2>3. /\ \A c \in Clients \ {c0} : cinbox'[c] = cinbox[c]
        /\ c0 \in Clients => cinbox'[c0] \in {cinbox[c0], Arrive(cinbox[c0], p)}
        /\ cinbox' = [cinbox EXCEPT ![c0] = cinbox'[c0]]
    BY <2>2 DEF TypeOK
  <2>4. c0 \in Clients =>
            /\ cinbox'[c0] \in Seq(Kids)
            /\ \A q : Holds(cinbox'[c0], q) => Holds(cinbox[c0], q) \/ q = p
    <3> SUFFICES ASSUME c0 \in Clients
                 PROVE  /\ cinbox'[c0] \in Seq(Kids)
                        /\ \A q : Holds(cinbox'[c0], q) => Holds(cinbox[c0], q) \/ q = p
      OBVIOUS
    <3>1. cinbox[c0] \in Seq(Kids)
      BY DEF TypeOK
    <3>2. /\ Arrive(cinbox[c0], p) \in Seq(Kids)
          /\ \A q : Holds(Arrive(cinbox[c0], p), q) => Holds(cinbox[c0], q) \/ q = p
      BY <2>1, <3>1, AppendHolds
    <3> QED BY <2>3, <3>1, <3>2
  <2>5. cinbox' \in [Clients -> Seq(Kids)]
    BY <2>3, <2>4 DEF TypeOK
  <2>6. TypeOK'
    BY <1>2, <2>5 DEF TypeOK
  <2>7. RolesOK'
    BY <1>1, <2>1 DEF RolesOK, TypeOK
  <2>8. SessionsApart'
    BY <2>2, <2>3, <2>4 DEF SessionsApart
  <2> QED BY <2>6, <2>7, <2>8
<1>10. CASE ChildRecv(p)
  <2> USE <1>10 DEF ChildRecv, Goto, clientVars
  <2>1. p \in Kids /\ inbox[p] \in Seq(Clients) /\ inbox[p] # <<>>
    BY <1>1 DEF RolesOK, TypeOK
  <2>2. /\ Tail(inbox[p]) \in Seq(Clients)
        /\ \A c : Holds(Tail(inbox[p]), c) => Holds(inbox[p], c)
    BY <2>1, TailHolds
  <2>3. TypeOK'
    BY <1>2, <2>2 DEF TypeOK
  <2>4. \A q \in Kids, c \in Clients : Holds(inbox'[q], c) => Holds(inbox[q], c)
    BY <1>1, <2>2 DEF TypeOK
  <2>5. \A q \in Kids : pc'[q] = "unborn" => q # p /\ pc[q] = "unborn" /\ inbox'[q] = inbox[q]
    BY <1>1 DEF TypeOK
  <2>6. pc'[Main] = pc[Main]
    BY <1>1, <2>1 DEF TypeOK
  <2>7. RolesOK'
    BY <2>5, <2>6 DEF RolesOK
  <2> QED BY <1>3, <2>3, <2>4, <2>7, QuietStep
<1>11. CASE ForkFails(p)
  BY <1>8, <1>11 DEF ForkFails, TypeOK
<1>12. CASE ChildSocket(p)
  BY <1>8, <1>12 DEF ChildSocket, TypeOK
<1>13. CASE ChildSocketFails(p)
  BY <1>8, <1>13 DEF ChildSocketFails, TypeOK
<1>14. CASE ChildRecvFails(p)
  BY <1>8, <1>14 DEF ChildRecvFails, TypeOK
<1>15. CASE (StartFails /\ p = Main) \/ RecvRequestFails(p)
  BY <1>5, <1>15 DEF StartFails, RecvRequestFails
<1> QED
  BY <1>4, <1>6, <1>7, <1>9, <1>10, <1>11, <1>12, <1>13, <1>14, <1>15 DEF ProcStep

LEMMA ClientsStep ==
    ASSUME IInv, NEW c \in Clients, ClientStep(c) \/ ClientKilled(c)
    PROVE  IInv'
<1> USE DEF IInv
<1>1. /\ Main \in Procs /\ Main \notin Kids /\ Kids \subseteq Procs
      /\ \A q \in Procs : q # Main <=> q \in Kids
  BY BoundsAssumption DEF Main, Procs, Kids
<1>2. faults' \in 0 .. MaxFaults
  <2>1. Fault \/ NoFault
    BY DEF ClientStep, ClientAsk, ClientGreeted, ClientSay, ClientHear, ClientHearFails,
           ClientFails, ClientKilled
  <2> QED BY <2>1, FaultsCounted
<1>3. \A d \in Clients : server[d] \in Procs
  BY DEF TypeOK
<1>4. ASSUME Send(c), UNCHANGED <<pc, client, open, server, cinbox>>,
             cpc' \in [Clients -> {"ask", "await", "say", "hear", "left"}]
      PROVE  IInv'
  <2> USE <1>4 DEF Send
  <2>1. PICK s \in Procs : s = server[c]
    BY <1>3
  <2>2. /\ inbox[s] \in Seq(Clients)
        /\ inbox'[s] \in {inbox[s], Arrive(inbox[s], c)}
        /\ inbox' = [inbox EXCEPT ![s] = inbox'[s]]
    BY <2>1 DEF TypeOK
  <2>3. /\ inbox'[s] \in Seq(Clients)
        /\ \A d : Holds(inbox'[s], d) => Holds(inbox[s], d) \/ d = c
    <3>1. /\ Arrive(inbox[s], c) \in Seq(Clients)
          /\ \A d : Holds(Arrive(inbox[s], c), d) => Holds(inbox[s], d) \/ d = c
      BY <2>2, AppendHolds
    <3> QED BY <2>2, <3>1
  <2>4. TypeOK'
    BY <1>2, <2>2, <2>3 DEF TypeOK
  <2>5. s # Main => client[s] = c
    BY <2>1 DEF SessionsApart
  <2>6. \A q \in Procs \ {s} : inbox'[q] = inbox[q]
    BY <2>2 DEF TypeOK
  <2>7. RolesOK'
    <3>1. \A q \in Kids : pc[q] = "unborn" => q # s
      BY <1>1, <2>5, BoundsAssumption DEF RolesOK
    <3> QED BY <1>1, <2>6, <3>1 DEF RolesOK
  <2>8. SessionsApart'
    BY <1>1, <2>3, <2>5, <2>6 DEF SessionsApart
  <2> QED BY <2>4, <2>7, <2>8
<1>5. ASSUME Receive(c), UNCHANGED procVars,
             cpc' \in [Clients -> {"ask", "await", "say", "hear", "left"}]
      PROVE  IInv'
  <2> USE <1>5 DEF Receive, procVars
  <2>1. cinbox[c] \in Seq(Kids) /\ cinbox[c] # <<>>
    BY DEF TypeOK
  <2>2. /\ Head(cinbox[c]) \in Kids /\ Tail(cinbox[c]) \in Seq(Kids)
        /\ Holds(cinbox[c], Head(cinbox[c]))
        /\ \A q : Holds(Tail(cinbox[c]), q) => Holds(cinbox[c], q)
    BY <2>1, TailHolds
  <2>3. TypeOK'
    BY <1>1, <1>2, <2>2 DEF TypeOK
  <2>4. RolesOK'
    BY DEF RolesOK
  <2>5. client[Head(cinbox[c])] = c
    BY <2>2 DEF SessionsApart
  <2>6. \A d \in Clients : server'[d] # server[d] => client[server'[d]] = d
    BY <2>5 DEF TypeOK
  <2>7. \A q \in Kids, d \in Clients : Holds(cinbox'[d], q) => Holds(cinbox[d], q)
    BY <2>2 DEF TypeOK
  <2>8. \A d \in Clients : server'[d] \in Procs
    BY <2>3 DEF TypeOK
  <2> QED BY <1>3, <2>3, <2>4, <2>6, <2>7, <2>8, QuietStep
<1>6. ASSUME NEW places, Leave(c, places)
      PROVE  IInv'
  <2> USE <1>6 DEF Leave, procVars
  <2>1. TypeOK'
    BY <1>2 DEF TypeOK
  <2>2. RolesOK'
    BY DEF RolesOK
  <2>3. \A q \in Kids, d \in Clients : Holds(cinbox'[d], q) => Holds(cinbox[d], q)
    BY EmptyHolds DEF TypeOK
  <2> QED BY <1>3, <2>1, <2>2, <2>3, QuietStep
<1>7. CASE ClientAsk(c) \/ ClientSay(c)
  BY <1>4, <1>7 DEF ClientAsk, ClientSay, ClientGoto, TypeOK
<1>8. CASE ClientGreeted(c) \/ ClientHear(c)
  BY <1>5, <1>8 DEF ClientGreeted, ClientHear, ClientGoto, TypeOK
<1>9. CASE ClientHearFails(c)
  <2> USE <1>9 DEF ClientHearFails, ClientGoto, procVars
  <2>1. TypeOK'
    BY <1>2 DEF TypeOK
  <2>2. RolesOK'
    BY DEF RolesOK
  <2> QED BY <1>3, <2>1, <2>2, QuietStep
<1>10. CASE ClientFails(c) \/ ClientKilled(c)
  BY <1>6, <1>10 DEF ClientFails, ClientKilled
<1> QED BY <1>7, <1>8, <1>9, <1>10 DEF ClientStep

-----------------------------------------------------------------------------
(* Counting *)

LEMMA Fewer ==
    ASSUME NEW T, IsFiniteSet(T), NEW S, S \subseteq T
    PROVE  /\ Cardinality(S) \in Nat /\ Cardinality(T) \in Nat
           /\ Cardinality(S) <= Cardinality(T)
BY FS_Subset, FS_CardinalityType

\* One more.
LEMMA Added ==
    ASSUME NEW T, IsFiniteSet(T), NEW b, NEW S, S \subseteq T \cup {b}
    PROVE  /\ Cardinality(S) \in Nat /\ Cardinality(T) \in Nat
           /\ Cardinality(S) <= Cardinality(T) + 1
<1>1. /\ IsFiniteSet(T \cup {b})
      /\ Cardinality(T \cup {b}) = Cardinality(T) \/ Cardinality(T \cup {b}) = Cardinality(T) + 1
  BY FS_AddElement
<1>2. Cardinality(S) \in Nat /\ Cardinality(S) <= Cardinality(T \cup {b})
  BY <1>1, Fewer
<1>3. Cardinality(T) \in Nat
  BY FS_CardinalityType
<1> QED BY <1>1, <1>2, <1>3

\* One is exchanged for another.
LEMMA Exchanged ==
    ASSUME NEW T, IsFiniteSet(T), NEW a \in T, NEW b, NEW S, S \subseteq (T \ {a}) \cup {b}
    PROVE  /\ Cardinality(S) \in Nat /\ Cardinality(T) \in Nat
           /\ Cardinality(S) <= Cardinality(T)
<1>1. IsFiniteSet(T \ {a}) /\ Cardinality(T \ {a}) = Cardinality(T) - 1
  BY FS_RemoveElement
<1>2. /\ Cardinality(S) \in Nat /\ Cardinality(T \ {a}) \in Nat
      /\ Cardinality(S) <= Cardinality(T \ {a}) + 1
  BY <1>1, Added
<1>3. Cardinality(T) \in Nat
  BY FS_CardinalityType
<1> QED BY <1>1, <1>2, <1>3

\* Those of one place move up by one position.
LEMMA Shifted ==
    ASSUME NEW T, IsFiniteSet(T), NEW P, NEW q \in P, NEW S, S \subseteq P \X Nat,
           \A s \in P, j \in Nat :
               <<s, j>> \in S => IF s = q THEN <<q, j + 1>> \in T ELSE <<s, j>> \in T
    PROVE  /\ Cardinality(S) \in Nat /\ Cardinality(T) \in Nat
           /\ Cardinality(S) <= Cardinality(T)
<1> DEFINE f == [t \in S |-> IF t[1] = q THEN <<q, t[2] + 1>> ELSE t]
<1>1. \A t \in S : /\ t = <<t[1], t[2]>> /\ t[1] \in P /\ t[2] \in Nat
  OBVIOUS
<1>2. \A t \in S : f[t] \in T
  BY <1>1
<1>3. \A t, u \in S : f[t] = f[u] => t = u
  <2> SUFFICES ASSUME NEW t \in S, NEW u \in S, f[t] = f[u] PROVE t = u
    OBVIOUS
  <2>1. t = <<t[1], t[2]>> /\ u = <<u[1], u[2]>> /\ t[2] \in Nat /\ u[2] \in Nat
    BY <1>1
  <2>2. f[t][1] = t[1] /\ f[u][1] = u[1]
    BY <2>1
  <2>3. t[1] = u[1]
    BY <2>2
  <2>4. t[2] = u[2]
    BY <2>1, <2>3
  <2> QED BY <2>1, <2>3, <2>4
<1>4. f \in [S -> T]
  BY <1>2
<1>5. f \in Injection(S, T)
  <2> HIDE DEF f
  <2> QED BY <1>3, <1>4 DEF Injection, IsInjective
<1> QED BY <1>5, FS_Injection, FS_CardinalityType

LEMMA AtMostOne ==
    ASSUME NEW T, IsFiniteSet(T), Cardinality(T) <= 1, NEW a \in T, NEW b \in T
    PROVE  a = b
<1>1. SUFFICES ASSUME a # b PROVE FALSE
  OBVIOUS
<1>2. /\ IsFiniteSet({a}) /\ Cardinality({a}) = 1 /\ b \notin {a}
      /\ Cardinality({a} \cup {b}) = Cardinality({a}) + 1
  BY <1>1, FS_Singleton, FS_AddElement
<1>3. {a} \cup {b} \subseteq T
  OBVIOUS
<1>4. 2 <= Cardinality(T) /\ Cardinality(T) \in Nat
  BY <1>2, <1>3, Fewer
<1> QED BY <1>4

-----------------------------------------------------------------------------
(* Turns *)

\* No buffer holds more than fits.
BuffersOK ==
    /\ \A p \in Procs : Len(inbox[p]) <= Room
    /\ \A c \in Clients : Len(cinbox[c]) <= Room

Counted(c) == Cardinality(Turns(c)) <= 1 + faults

\* The turns at the places of a process and of a client.
Answers(p, c) == client[p] = c /\ pc[p] \in {"fork", "child", "send"}
Waits(p, j, c) == j \in 1 .. Len(inbox[p]) /\ inbox[p][j] = c
Speaks(c) == cpc[c] \in {"ask", "say"}
Hears(c, j) == j \in 1 .. Len(cinbox[c])

TurnInv == IInv /\ BuffersOK /\ InTurns

LEMMA ArriveItems ==
    ASSUME NEW S, NEW q \in Seq(S), NEW x \in S, Len(q) <= Room
    PROVE  /\ Len(Arrive(q, x)) \in Nat /\ Len(Arrive(q, x)) <= Room
           /\ \A j \in 1 .. Len(Arrive(q, x)) :
                \/ j \in 1 .. Len(q) /\ Arrive(q, x)[j] = q[j]
                \/ j = Len(q) + 1 /\ Arrive(q, x)[j] = x
<1> USE BoundsAssumption
<1>1. CASE Len(q) < Room
  <2>1. /\ Arrive(q, x) = Append(q, x) /\ Append(q, x) \in Seq(S)
        /\ Len(Append(q, x)) = Len(q) + 1 /\ Len(q) \in Nat
        /\ \A j \in 1 .. Len(q) : Append(q, x)[j] = q[j]
        /\ Append(q, x)[Len(q) + 1] = x
    BY <1>1 DEF Arrive
  <2>2. \A j \in 1 .. Len(q) + 1 : j \in 1 .. Len(q) \/ j = Len(q) + 1
    BY <2>1
  <2> QED BY <1>1, <2>1, <2>2
<1>2. CASE ~(Len(q) < Room)
  BY <1>2 DEF Arrive
<1> QED BY <1>1, <1>2

LEMMA TailItems ==
    ASSUME NEW S, NEW q \in Seq(S), q # <<>>, Len(q) <= Room
    PROVE  /\ Len(q) \in Nat \ {0} /\ 1 \in 1 .. Len(q) /\ Head(q) = q[1]
           /\ Len(Tail(q)) = Len(q) - 1 /\ Len(Tail(q)) <= Room
           /\ \A j \in 1 .. Len(q) - 1 : j + 1 \in 1 .. Len(q) /\ Tail(q)[j] = q[j + 1]
<1>1. /\ Len(q) \in Nat \ {0} /\ Head(q) = q[1]
      /\ Len(Tail(q)) = Len(q) - 1
      /\ \A j \in 1 .. Len(q) - 1 : Tail(q)[j] = q[j + 1]
  OBVIOUS
<1> QED BY <1>1, BoundsAssumption

\* The elements of Turns, place by place.
PlacesOK ==
    \A c \in Clients :
        /\ IsFiniteSet(Turns(c))
        /\ Turns(c) \subseteq (Procs \cup {Own}) \X Nat
        /\ \A p \in Procs : <<p, 0>> \in Turns(c) <=> Answers(p, c)
        /\ \A p \in Procs, j \in Nat \ {0} : <<p, j>> \in Turns(c) <=> Waits(p, j, c)
        /\ <<Own, 0>> \in Turns(c) <=> Speaks(c)
        /\ \A j \in Nat \ {0} : <<Own, j>> \in Turns(c) <=> Hears(c, j)

LEMMA TurnPlaces == TypeOK /\ BuffersOK => PlacesOK
<1> SUFFICES ASSUME TypeOK, BuffersOK, NEW c \in Clients
             PROVE  /\ IsFiniteSet(Turns(c))
                    /\ Turns(c) \subseteq (Procs \cup {Own}) \X Nat
                    /\ \A p \in Procs : <<p, 0>> \in Turns(c) <=> Answers(p, c)
                    /\ \A p \in Procs, j \in Nat \ {0} :
                        <<p, j>> \in Turns(c) <=> Waits(p, j, c)
                    /\ <<Own, 0>> \in Turns(c) <=> Speaks(c)
                    /\ \A j \in Nat \ {0} : <<Own, j>> \in Turns(c) <=> Hears(c, j)
  BY DEF PlacesOK
<1> DEFINE P == Procs \cup {Own}
<1>1. /\ Procs \subseteq Int /\ Own \in Int /\ Own \notin Procs
      /\ Room \in Nat /\ 0 .. Room \subseteq Nat /\ 0 \in 0 .. Room
  BY BoundsAssumption DEF Procs, Main, Kids, Own
<1>2. IsFiniteSet(P)
  <2>0. \A a, b \in Int : IsFiniteSet(a .. b)
    BY FS_Interval
  <2>1. IsFiniteSet(Kids)
    BY <2>0, BoundsAssumption DEF Kids
  <2>2. IsFiniteSet({Main}) /\ IsFiniteSet({Own})
    BY FS_Singleton
  <2>3. IsFiniteSet({Main} \cup Kids)
    BY <2>1, <2>2, FS_Union
  <2> QED BY <2>2, <2>3, FS_Union DEF Procs
<1>3. IsFiniteSet(P \X (0 .. Room))
  <2>1. \A a, b \in Int : IsFiniteSet(a .. b)
    BY FS_Interval
  <2>2. IsFiniteSet(0 .. Room)
    BY <1>1, <2>1
  <2> HIDE DEF P
  <2> QED BY <1>2, <2>2, FS_Product
<1>4. Turns(c) \subseteq P \X (0 .. Room)
  BY DEF Turns
<1>5. \A s, j : <<s, j>> \in Turns(c) <=> s \in P /\ j \in 0 .. Room /\ HasTurn(c, s, j)
  BY DEF Turns
<1>6. IsFiniteSet(Turns(c)) /\ Turns(c) \subseteq P \X Nat
  BY <1>1, <1>3, <1>4, FS_Subset
<1>7. \A p \in Procs :
        /\ inbox[p] \in Seq(Clients) /\ DOMAIN inbox[p] = 1 .. Len(inbox[p])
        /\ Len(inbox[p]) \in Nat /\ Len(inbox[p]) <= Room
  BY DEF TypeOK, BuffersOK
<1>8. /\ cinbox[c] \in Seq(Kids) /\ DOMAIN cinbox[c] = 1 .. Len(cinbox[c])
      /\ Len(cinbox[c]) \in Nat /\ Len(cinbox[c]) <= Room
  BY DEF TypeOK, BuffersOK
<1>9. \A p \in Procs :
        <<p, 0>> \in Turns(c) <=> Answers(p, c)
  BY <1>1, <1>5, <1>7 DEF HasTurn, Answers
<1>10. \A p \in Procs, j \in Nat \ {0} :
        <<p, j>> \in Turns(c) <=> Waits(p, j, c)
  <2> SUFFICES ASSUME NEW p \in Procs, NEW j \in Nat \ {0}
               PROVE  <<p, j>> \in Turns(c) <=> Waits(p, j, c)
    OBVIOUS
  <2>1. p # Own /\ j # 0 /\ (j \in 1 .. Len(inbox[p]) => j \in 0 .. Room)
    BY <1>1, <1>7
  <2>2. HasTurn(c, p, j) <=> j \in DOMAIN inbox[p] /\ inbox[p][j] = c
    BY <2>1 DEF HasTurn
  <2>3. HasTurn(c, p, j) <=> Waits(p, j, c)
    BY <1>7, <2>2 DEF Waits
  <2>4. Waits(p, j, c) => j \in 1 .. Len(inbox[p])
    BY DEF Waits
  <2> QED BY <1>5, <2>1, <2>3, <2>4
<1>11. <<Own, 0>> \in Turns(c) <=> Speaks(c)
  <2>1. HasTurn(c, Own, 0) <=> Speaks(c)
    BY <1>1, <1>8 DEF HasTurn, Speaks
  <2> QED BY <1>1, <1>5, <2>1
<1>12. \A j \in Nat \ {0} : <<Own, j>> \in Turns(c) <=> Hears(c, j)
  <2> SUFFICES ASSUME NEW j \in Nat \ {0}
               PROVE  <<Own, j>> \in Turns(c) <=> Hears(c, j)
    OBVIOUS
  <2>1. j # 0 /\ (j \in 1 .. Len(cinbox[c]) => j \in 0 .. Room)
    BY <1>1, <1>8
  <2>2. HasTurn(c, Own, j) <=> j \in DOMAIN cinbox[c]
    BY <1>1, <2>1 DEF HasTurn
  <2>3. HasTurn(c, Own, j) <=> Hears(c, j)
    BY <1>8, <2>2 DEF Hears
  <2>4. Hears(c, j) => j \in 1 .. Len(cinbox[c])
    BY DEF Hears
  <2> QED BY <1>5, <2>1, <2>3, <2>4
<1> QED BY <1>6, <1>9, <1>10, <1>11, <1>12

LEMMA TurnPlacesNext == TypeOK' /\ BuffersOK' => PlacesOK'
BY TurnPlaces, PTL

\* A step that takes turns away or leaves them where they are.
LEMMA QuietTurns ==
    ASSUME TurnInv, IInv', BuffersOK', NEW c \in Clients, faults' \in {faults, faults + 1},
           \A p \in Procs : Answers(p, c)' => Answers(p, c),
           \A p \in Procs, j \in Nat \ {0} : Waits(p, j, c)' => Waits(p, j, c),
           Speaks(c)' => Speaks(c),
           \A j \in Nat \ {0} : Hears(c, j)' => Hears(c, j)
    PROVE  Counted(c)'
<1>1. \A s \in Procs \cup {Own}, j \in Nat : <<s, j>> \in Turns(c)' => <<s, j>> \in Turns(c)
  <2> SUFFICES ASSUME NEW s \in Procs \cup {Own}, NEW j \in Nat, <<s, j>> \in Turns(c)'
               PROVE  <<s, j>> \in Turns(c)
    OBVIOUS
  <2>1. CASE s = Own
    BY <2>1, TurnPlaces, TurnPlacesNext DEF TurnInv, IInv, PlacesOK
  <2>2. CASE s \in Procs
    BY <2>2, TurnPlaces, TurnPlacesNext DEF TurnInv, IInv, PlacesOK
  <2> QED BY <2>1, <2>2
<1>2. Turns(c)' \subseteq Turns(c) /\ IsFiniteSet(Turns(c))
  BY <1>1, TurnPlaces, TurnPlacesNext DEF TurnInv, IInv, PlacesOK
<1>3. /\ Cardinality(Turns(c)') \in Nat /\ Cardinality(Turns(c)) \in Nat
      /\ Cardinality(Turns(c)') <= Cardinality(Turns(c))
  BY <1>2, Fewer
<1>4. Cardinality(Turns(c)) <= 1 + faults /\ faults \in Nat
  BY BoundsAssumption DEF TurnInv, InTurns, IInv, TypeOK
<1> QED BY <1>3, <1>4 DEF Counted

\* A step that takes the first datagram of a buffer: the turns of that place
\* move up, and the first comes into the hands of its owner.
LEMMA TakenTurns ==
    ASSUME TurnInv, IInv', BuffersOK', NEW c \in Clients, faults' = faults,
           NEW q \in Procs \cup {Own},
           \A s \in Procs \cup {Own}, j \in Nat :
               <<s, j>> \in Turns(c)' =>
                   IF s = q THEN <<q, j + 1>> \in Turns(c) ELSE <<s, j>> \in Turns(c)
    PROVE  Counted(c)'
<1>1. /\ IsFiniteSet(Turns(c)) /\ Turns(c)' \subseteq (Procs \cup {Own}) \X Nat
  BY TurnPlaces, TurnPlacesNext DEF TurnInv, IInv, PlacesOK
<1>2. /\ Cardinality(Turns(c)') \in Nat /\ Cardinality(Turns(c)) \in Nat
      /\ Cardinality(Turns(c)') <= Cardinality(Turns(c))
  <2>1. PICK P, S, T : P = Procs \cup {Own} /\ S = Turns(c)' /\ T = Turns(c)
    OBVIOUS
  <2>2. /\ IsFiniteSet(T) /\ q \in P /\ S \subseteq P \X Nat
        /\ \A s \in P, j \in Nat :
            <<s, j>> \in S => IF s = q THEN <<q, j + 1>> \in T ELSE <<s, j>> \in T
    BY <1>1, <2>1
  <2>3. Cardinality(S) \in Nat /\ Cardinality(T) \in Nat /\ Cardinality(S) <= Cardinality(T)
    BY <2>2, Shifted
  <2> QED BY <2>1, <2>3
<1>3. Cardinality(Turns(c)) <= 1 + faults /\ faults \in Nat
  BY BoundsAssumption DEF TurnInv, InTurns, IInv, TypeOK
<1> QED BY <1>2, <1>3 DEF Counted

\* A step that hands one turn on.
LEMMA HandedTurn ==
    ASSUME TurnInv, IInv', BuffersOK', NEW c \in Clients, faults' = faults,
           NEW a \in Turns(c), NEW b,
           \A s \in Procs \cup {Own}, j \in Nat :
               <<s, j>> \in Turns(c)' =>
                   <<s, j>> = b \/ (<<s, j>> \in Turns(c) /\ <<s, j>> # a)
    PROVE  Counted(c)'
<1>1. /\ IsFiniteSet(Turns(c)) /\ Turns(c)' \subseteq (Procs \cup {Own}) \X Nat
  BY TurnPlaces, TurnPlacesNext DEF TurnInv, IInv, PlacesOK
<1>2. Turns(c)' \subseteq (Turns(c) \ {a}) \cup {b}
  BY <1>1
<1>3. /\ Cardinality(Turns(c)') \in Nat /\ Cardinality(Turns(c)) \in Nat
      /\ Cardinality(Turns(c)') <= Cardinality(Turns(c))
  BY <1>1, <1>2, Exchanged
<1>4. Cardinality(Turns(c)) <= 1 + faults /\ faults \in Nat
  BY BoundsAssumption DEF TurnInv, InTurns, IInv, TypeOK
<1> QED BY <1>3, <1>4 DEF Counted

LEMMA ProcFacts ==
    /\ Main \in Procs /\ Main \notin Kids /\ Kids \subseteq Procs
    /\ \A q \in Procs : q # Main <=> q \in Kids
    /\ Procs \subseteq Int /\ Own \in Int /\ Own \notin Procs
BY BoundsAssumption DEF Main, Procs, Kids, Own

\* What the places of one process and of one client come to, without turns.
LEMMA PlaceFacts ==
    ASSUME TypeOK, BuffersOK
    PROVE  /\ \A p \in Procs : inbox[p] \in Seq(Clients) /\ Len(inbox[p]) <= Room
           /\ \A c \in Clients : cinbox[c] \in Seq(Kids) /\ Len(cinbox[c]) <= Room
           /\ \A p \in Procs : Len(inbox[p]) \in Nat
           /\ \A c \in Clients : Len(cinbox[c]) \in Nat
           /\ Room \in Nat
BY BoundsAssumption DEF TypeOK, BuffersOK

LEMMA EmptyPlace == Len(<<>>) = 0 /\ (\A j : j \notin 1 .. Len(<<>>)) /\ Len(<<>>) <= Room
BY BoundsAssumption

\* A step of a process that neither takes nor sends a datagram.
LEMMA QuietProc ==
    ASSUME TurnInv, IInv', NEW p \in Procs, NEW to, to \notin {"fork", "child"},
           pc' = [pc EXCEPT ![p] = to], to = "send" => pc[p] = "child",
           UNCHANGED <<client, clientVars>>,
           inbox' \in {inbox, [inbox EXCEPT ![p] = <<>>]},
           Fault \/ NoFault
    PROVE  BuffersOK' /\ InTurns'
<1> USE DEF TurnInv, IInv
<1>1. faults' \in {faults, faults + 1}
  BY DEF Fault, NoFault
<1>2. \A q \in Procs : inbox'[q] \in {inbox[q], <<>>}
  BY DEF TypeOK
<1>3. BuffersOK'
  BY <1>2, EmptyPlace DEF BuffersOK, clientVars
<1>4. \A c \in Clients, q \in Procs : Answers(q, c)' => Answers(q, c)
  BY DEF Answers, TypeOK
<1>5. \A c \in Clients, q \in Procs, j \in Nat \ {0} : Waits(q, j, c)' => Waits(q, j, c)
  BY <1>2, EmptyPlace DEF Waits
<1>6. \A c \in Clients : (Speaks(c)' => Speaks(c)) /\ \A j : Hears(c, j)' => Hears(c, j)
  BY DEF Speaks, Hears, clientVars
<1>7. \A c \in Clients : Counted(c)'
  BY <1>1, <1>3, <1>4, <1>5, <1>6, QuietTurns
<1> QED BY <1>3, <1>7 DEF InTurns, Counted

\* A process receives: whoever it answers now has sent the first datagram.
LEMMA ProcTakes ==
    ASSUME TurnInv, IInv', NEW p \in Procs, inbox[p] # <<>>,
           inbox' = [inbox EXCEPT ![p] = Tail(@)],
           UNCHANGED clientVars, faults' = faults,
           \A q \in Procs \ {p}, c \in Clients : Answers(q, c)' => Answers(q, c),
           \A c \in Clients : Answers(p, c)' => c = Head(inbox[p])
    PROVE  BuffersOK' /\ InTurns'
<1> USE DEF TurnInv, IInv
<1>1. /\ Len(inbox[p]) \in Nat \ {0} /\ 1 \in 1 .. Len(inbox[p])
      /\ Head(inbox[p]) = inbox[p][1]
      /\ Len(Tail(inbox[p])) = Len(inbox[p]) - 1 /\ Len(Tail(inbox[p])) <= Room
      /\ \A j \in 1 .. Len(inbox[p]) - 1 :
            j + 1 \in 1 .. Len(inbox[p]) /\ Tail(inbox[p])[j] = inbox[p][j + 1]
  <2>1. inbox[p] \in Seq(Clients) /\ Len(inbox[p]) <= Room
    BY PlaceFacts
  <2> QED BY <2>1, TailItems
<1>2. inbox'[p] = Tail(inbox[p]) /\ \A q \in Procs \ {p} : inbox'[q] = inbox[q]
  BY DEF TypeOK
<1>3. BuffersOK'
  BY <1>1, <1>2 DEF BuffersOK, clientVars
<1>4. ASSUME NEW c \in Clients PROVE Counted(c)'
  <2>1. Answers(p, c)' => Waits(p, 1, c)
    BY <1>1 DEF Waits
  <2>2. \A j \in Nat \ {0} : Waits(p, j, c)' => Waits(p, j + 1, c)
    BY <1>1, <1>2 DEF Waits
  <2>3. \A q \in Procs \ {p}, j \in Nat \ {0} : Waits(q, j, c)' => Waits(q, j, c)
    BY <1>2 DEF Waits
  <2>4. (Speaks(c)' => Speaks(c)) /\ \A j : Hears(c, j)' => Hears(c, j)
    BY DEF Speaks, Hears, clientVars
  <2>5. PlacesOK /\ PlacesOK'
    BY <1>3, TurnPlaces, TurnPlacesNext
  <2>6. ASSUME NEW s \in Procs \cup {Own}, NEW j \in Nat, <<s, j>> \in Turns(c)'
        PROVE  IF s = p THEN <<p, j + 1>> \in Turns(c) ELSE <<s, j>> \in Turns(c)
    <3>1. p # Own
      BY ProcFacts
    <3>2. CASE s = Own
      BY <2>4, <2>5, <2>6, <3>1, <3>2 DEF PlacesOK
    <3>3. CASE s \in Procs \ {p}
      BY <2>3, <2>5, <2>6, <3>3 DEF PlacesOK
    <3>4. CASE s = p /\ j = 0
      <4>1. Answers(p, c)'
        BY <2>5, <2>6, <3>4 DEF PlacesOK
      <4>2. <<p, 1>> \in Turns(c)
        BY <2>1, <2>5, <4>1 DEF PlacesOK
      <4> QED BY <3>4, <4>2
    <3>5. CASE s = p /\ j # 0
      <4>1. Waits(p, j, c)' /\ j \in Nat \ {0} /\ j + 1 \in Nat \ {0}
        BY <2>5, <2>6, <3>5 DEF PlacesOK
      <4>2. <<p, j + 1>> \in Turns(c)
        BY <2>2, <2>5, <4>1 DEF PlacesOK
      <4> QED BY <3>5, <4>2
    <3> QED BY <3>2, <3>3, <3>4, <3>5
  <2>7. p \in Procs \cup {Own}
    OBVIOUS
  <2> QED BY <1>3, <2>6, <2>7, TakenTurns
<1> QED BY <1>3, <1>4 DEF InTurns, Counted

LEMMA TurnsRecvRequest ==
    ASSUME TurnInv, IInv', NEW p \in Procs, RecvRequest(p)
    PROVE  BuffersOK' /\ InTurns'
<1> USE DEF RecvRequest, Goto, NoFault, TurnInv, IInv
<1>1. \A q \in Procs \ {p}, c \in Clients : Answers(q, c)' => Answers(q, c)
  BY DEF Answers, TypeOK
<1>2. \A c \in Clients : Answers(p, c)' => c = Head(inbox[p])
  BY DEF Answers, TypeOK
<1> QED BY <1>1, <1>2, ProcTakes

\* The datagrams of a child come from the client it answers.
LEMMA TurnsChildRecv ==
    ASSUME TurnInv, IInv', NEW p \in Procs, ChildRecv(p)
    PROVE  BuffersOK' /\ InTurns'
<1> USE DEF ChildRecv, Goto, NoFault, TurnInv, IInv
<1>1. \A q \in Procs \ {p}, c \in Clients : Answers(q, c)' => Answers(q, c)
  BY DEF Answers, TypeOK
<1>2. p \in Kids
  BY ProcFacts DEF RolesOK
<1>3. Holds(inbox[p], Head(inbox[p])) /\ Head(inbox[p]) \in Clients
  <2>1. inbox[p] \in Seq(Clients) /\ inbox[p] # <<>>
    BY DEF TypeOK
  <2> QED BY <2>1, TailHolds
<1>4. client[p] = Head(inbox[p])
  BY <1>2, <1>3 DEF SessionsApart
<1>5. \A c \in Clients : Answers(p, c)' => c = Head(inbox[p])
  BY <1>4 DEF Answers
<1> QED BY <1>1, <1>5, ProcTakes DEF clientVars

\* The child takes over the turn of its parent.
LEMMA TurnsFork ==
    ASSUME TurnInv, IInv', NEW p \in Procs, Fork(p)
    PROVE  BuffersOK' /\ InTurns'
<1> USE DEF Fork, NoFault, clientVars, TurnInv, IInv
<1>1. PICK kid \in Kids :
        /\ pc[kid] = "unborn"
        /\ pc' = [pc EXCEPT ![p] = "request", ![kid] = "child"]
        /\ client' = [client EXCEPT ![kid] = client[p]]
  BY DEF NextKid
<1>2. BuffersOK'
  BY DEF BuffersOK
<1>3. /\ kid \in Procs /\ kid # p
      /\ \A q \in Procs \ {p, kid} : pc'[q] = pc[q] /\ client'[q] = client[q]
      /\ pc'[p] = "request" /\ client'[kid] = client[p]
  BY <1>1, ProcFacts DEF TypeOK
<1>4. ASSUME NEW c \in Clients PROVE Counted(c)'
  <2>1. \A q \in Procs \ {p, kid} : Answers(q, c)' => Answers(q, c)
    BY <1>3 DEF Answers
  <2>2. ~Answers(p, c)' /\ (Answers(kid, c)' => Answers(p, c))
    BY <1>3 DEF Answers
  <2>3. \A q \in Procs, j \in Nat \ {0} : Waits(q, j, c)' => Waits(q, j, c)
    BY DEF Waits
  <2>4. (Speaks(c)' => Speaks(c)) /\ \A j : Hears(c, j)' => Hears(c, j)
    BY DEF Speaks, Hears
  <2>5. PlacesOK /\ PlacesOK'
    BY <1>2, TurnPlaces, TurnPlacesNext
  <2>6. CASE Answers(p, c)
    <3>1. <<p, 0>> \in Turns(c)
      BY <2>5, <2>6 DEF PlacesOK
    <3>2. ASSUME NEW s \in Procs \cup {Own}, NEW j \in Nat, <<s, j>> \in Turns(c)'
          PROVE  <<s, j>> = <<kid, 0>> \/ (<<s, j>> \in Turns(c) /\ <<s, j>> # <<p, 0>>)
      <4>1. CASE s = Own
        BY <2>4, <2>5, <3>2, <4>1, ProcFacts DEF PlacesOK
      <4>2. CASE s \in Procs /\ j # 0
        BY <2>3, <2>5, <3>2, <4>2 DEF PlacesOK
      <4>3. CASE s \in Procs /\ j = 0
        <5>1. Answers(s, c)'
          BY <2>5, <3>2, <4>3 DEF PlacesOK
        <5>2. s # p
          BY <2>2, <5>1
        <5>3. s # kid => Answers(s, c)
          BY <2>1, <4>3, <5>1, <5>2
        <5>4. s # kid => <<s, 0>> \in Turns(c)
          BY <2>5, <4>3, <5>3 DEF PlacesOK
        <5> QED BY <4>3, <5>2, <5>4
      <4> QED BY <4>1, <4>2, <4>3
    <3> QED BY <1>2, <3>1, <3>2, HandedTurn
  <2>7. CASE ~Answers(p, c)
    <3>1. \A q \in Procs : Answers(q, c)' => Answers(q, c)
      BY <2>1, <2>2, <2>7
    <3> QED BY <1>2, <2>3, <2>4, <3>1, QuietTurns
  <2> QED BY <2>6, <2>7
<1> QED BY <1>2, <1>4 DEF InTurns, Counted

\* The turn goes from the child to its client, or gets lost.
LEMMA TurnsChildSend ==
    ASSUME TurnInv, IInv', NEW p \in Procs, ChildSend(p)
    PROVE  BuffersOK' /\ InTurns'
<1> USE DEF ChildSend, Goto, NoFault, TurnInv, IInv
<1>1. p \in Kids /\ p # Own
  BY ProcFacts DEF RolesOK, TypeOK
<1>2. PICK d : d = client[p]
  OBVIOUS
<1>3. /\ \A c \in Clients \ {d} : cinbox'[c] = cinbox[c]
      /\ d \in Clients => cinbox'[d] \in {cinbox[d], Arrive(cinbox[d], p)}
  BY <1>2 DEF TypeOK
<1>4. d \in Clients =>
        /\ Len(cinbox'[d]) <= Room
        /\ \A j \in 1 .. Len(cinbox'[d]) : j \in 1 .. Len(cinbox[d]) \/ j = Len(cinbox[d]) + 1
  <2> SUFFICES ASSUME d \in Clients
               PROVE  /\ Len(cinbox'[d]) <= Room
                      /\ \A j \in 1 .. Len(cinbox'[d]) :
                            j \in 1 .. Len(cinbox[d]) \/ j = Len(cinbox[d]) + 1
    OBVIOUS
  <2>1. cinbox[d] \in Seq(Kids) /\ Len(cinbox[d]) <= Room
    BY PlaceFacts
  <2>2. /\ Len(Arrive(cinbox[d], p)) <= Room
        /\ \A j \in 1 .. Len(Arrive(cinbox[d], p)) :
            j \in 1 .. Len(cinbox[d]) \/ j = Len(cinbox[d]) + 1
    BY <1>1, <2>1, ArriveItems
  <2> QED BY <1>3, <2>1, <2>2
<1>5. BuffersOK'
  BY <1>3, <1>4 DEF BuffersOK
<1>6. ASSUME NEW c \in Clients PROVE Counted(c)'
  <2>1. \A q \in Procs \ {p} : Answers(q, c)' => Answers(q, c)
    BY DEF Answers, TypeOK
  <2>2. ~Answers(p, c)'
    BY DEF Answers, TypeOK
  <2>3. \A q \in Procs, j \in Nat \ {0} : Waits(q, j, c)' => Waits(q, j, c)
    BY DEF Waits
  <2>4. Speaks(c)' => Speaks(c)
    BY DEF Speaks
  <2>5. PlacesOK /\ PlacesOK'
    BY <1>5, TurnPlaces, TurnPlacesNext
  <2>6. CASE c = d
    <3>1. Answers(p, c)
      BY <1>2, <2>6 DEF Answers
    <3>2. <<p, 0>> \in Turns(c)
      BY <2>5, <3>1 DEF PlacesOK
    <3>3. \A j : Hears(c, j)' => Hears(c, j) \/ j = Len(cinbox[c]) + 1
      BY <1>4, <2>6 DEF Hears
    <3>4. ASSUME NEW s \in Procs \cup {Own}, NEW j \in Nat, <<s, j>> \in Turns(c)'
          PROVE  \/ <<s, j>> = <<Own, Len(cinbox[c]) + 1>>
                 \/ <<s, j>> \in Turns(c) /\ <<s, j>> # <<p, 0>>
      <4>1. CASE s = Own /\ j = 0
        BY <1>1, <2>4, <2>5, <3>4, <4>1 DEF PlacesOK
      <4>2. CASE s = Own /\ j # 0
        BY <1>1, <2>5, <3>3, <3>4, <4>2 DEF PlacesOK
      <4>3. CASE s \in Procs /\ j # 0
        BY <2>3, <2>5, <3>4, <4>3 DEF PlacesOK
      <4>4. CASE s \in Procs /\ j = 0
        <5>1. Answers(s, c)' /\ s # p
          BY <2>2, <2>5, <3>4, <4>4 DEF PlacesOK
        <5>2. <<s, 0>> \in Turns(c)
          BY <2>1, <2>5, <4>4, <5>1 DEF PlacesOK
        <5> QED BY <4>4, <5>1, <5>2
      <4> QED BY <4>1, <4>2, <4>3, <4>4
    <3>5. PICK a, b : a = <<p, 0>> /\ b = <<Own, Len(cinbox[c]) + 1>>
      OBVIOUS
    <3>6. \A s \in Procs \cup {Own}, j \in Nat :
            <<s, j>> \in Turns(c)' => <<s, j>> = b \/ (<<s, j>> \in Turns(c) /\ <<s, j>> # a)
      BY <3>4, <3>5
    <3>7. a \in Turns(c)
      BY <3>2, <3>5
    <3> QED BY <1>5, <3>6, <3>7, HandedTurn
  <2>7. CASE c # d
    <3>1. \A j : Hears(c, j)' => Hears(c, j)
      BY <1>3, <2>7 DEF Hears
    <3>2. \A q \in Procs : Answers(q, c)' => Answers(q, c)
      BY <2>1, <2>2
    <3> QED BY <1>5, <2>3, <2>4, <3>1, <3>2, QuietTurns
  <2> QED BY <2>6, <2>7
<1> QED BY <1>5, <1>6 DEF InTurns, Counted

LEMMA TurnsProc ==
    ASSUME TurnInv, NEW p \in Procs, ProcStep(p)
    PROVE  TurnInv'
<1>1. IInv'
  BY ProcsStep DEF TurnInv
<1>2. BuffersOK' /\ InTurns'
  <2> USE DEF Goto, Exit, clientVars
  <2>1. CASE p = Main /\ Start
    BY <1>1, <2>1, QuietProc DEF Start
  <2>2. CASE p = Main /\ StartFails
    BY <1>1, <2>2, QuietProc DEF StartFails, TurnInv, IInv, TypeOK
  <2>3. CASE RecvRequestFails(p)
    BY <1>1, <2>3, QuietProc DEF RecvRequestFails, TurnInv, IInv, TypeOK
  <2>4. CASE ForkFails(p)
    BY <1>1, <2>4, QuietProc DEF ForkFails
  <2>5. CASE ChildSocket(p)
    BY <1>1, <2>5, QuietProc DEF ChildSocket
  <2>6. CASE ChildSocketFails(p)
    BY <1>1, <2>6, QuietProc DEF ChildSocketFails
  <2>7. CASE ChildRecvFails(p)
    BY <1>1, <2>7, QuietProc DEF ChildRecvFails
  <2> QED
    BY <1>1, <2>1, <2>2, <2>3, <2>4, <2>5, <2>6, <2>7,
       TurnsRecvRequest, TurnsFork, TurnsChildSend, TurnsChildRecv DEF ProcStep
<1> QED BY <1>1, <1>2 DEF TurnInv

\* The turn goes from the client to the process it sends to, or gets lost.
LEMMA TurnsSend ==
    ASSUME TurnInv, IInv', NEW c \in Clients, cpc[c] \in {"ask", "say"}, Send(c),
           NEW to \in {"await", "hear"}, cpc' = [cpc EXCEPT ![c] = to],
           UNCHANGED <<pc, client, cinbox>>, faults' = faults
    PROVE  BuffersOK' /\ InTurns'
<1> USE DEF Send, TurnInv, IInv
<1>1. PICK r \in Procs : r = server[c]
  BY DEF TypeOK
<1>2. /\ \A q \in Procs \ {r} : inbox'[q] = inbox[q]
      /\ inbox'[r] \in {inbox[r], Arrive(inbox[r], c)}
  BY <1>1 DEF TypeOK
<1>3. /\ Len(inbox'[r]) <= Room
      /\ \A j \in 1 .. Len(inbox'[r]) :
            \/ j \in 1 .. Len(inbox[r]) /\ inbox'[r][j] = inbox[r][j]
            \/ j = Len(inbox[r]) + 1 /\ inbox'[r][j] = c
  <2>1. inbox[r] \in Seq(Clients) /\ Len(inbox[r]) <= Room
    BY PlaceFacts
  <2>2. /\ Len(Arrive(inbox[r], c)) <= Room
        /\ \A j \in 1 .. Len(Arrive(inbox[r], c)) :
            \/ j \in 1 .. Len(inbox[r]) /\ Arrive(inbox[r], c)[j] = inbox[r][j]
            \/ j = Len(inbox[r]) + 1 /\ Arrive(inbox[r], c)[j] = c
    BY <2>1, ArriveItems
  <2> QED BY <1>2, <2>1, <2>2
<1>4. BuffersOK'
  BY <1>2, <1>3 DEF BuffersOK
<1>5. ASSUME NEW d \in Clients PROVE Counted(d)'
  <2>1. \A q \in Procs : Answers(q, d)' => Answers(q, d)
    BY DEF Answers
  <2>2. \A j : Hears(d, j)' => Hears(d, j)
    BY DEF Hears
  <2>3. \A q \in Procs \ {r}, j \in Nat \ {0} : Waits(q, j, d)' => Waits(q, j, d)
    BY <1>2 DEF Waits
  <2>4. PlacesOK /\ PlacesOK'
    BY <1>4, TurnPlaces, TurnPlacesNext
  <2>5. CASE d = c
    <3>1. Speaks(c) /\ ~Speaks(c)'
      BY DEF Speaks, TypeOK
    <3>2. \A j \in Nat \ {0} : Waits(r, j, c)' => Waits(r, j, c) \/ j = Len(inbox[r]) + 1
      BY <1>3 DEF Waits
    <3>3. PICK a, b : a = <<Own, 0>> /\ b = <<r, Len(inbox[r]) + 1>>
      OBVIOUS
    <3>4. a \in Turns(c)
      BY <2>4, <3>1, <3>3 DEF PlacesOK
    <3>5. ASSUME NEW s \in Procs \cup {Own}, NEW j \in Nat, <<s, j>> \in Turns(c)'
          PROVE  <<s, j>> = b \/ (<<s, j>> \in Turns(c) /\ <<s, j>> # a)
      <4>1. CASE s = Own /\ j = 0
        BY <2>4, <3>1, <3>5, <4>1 DEF PlacesOK
      <4>2. CASE s = Own /\ j # 0
        BY <2>2, <2>4, <2>5, <3>3, <3>5, <4>2 DEF PlacesOK
      <4>3. CASE s \in Procs /\ j = 0
        BY <2>1, <2>4, <2>5, <3>3, <3>5, <4>3, ProcFacts DEF PlacesOK
      <4>4. CASE s \in Procs \ {r} /\ j # 0
        BY <2>3, <2>4, <2>5, <3>3, <3>5, <4>4, ProcFacts DEF PlacesOK
      <4>5. CASE s = r /\ j # 0
        BY <2>4, <3>2, <3>3, <3>5, <4>5, ProcFacts DEF PlacesOK
      <4> QED BY <4>1, <4>2, <4>3, <4>4, <4>5
    <3> QED BY <1>4, <2>5, <3>4, <3>5, HandedTurn
  <2>6. CASE d # c
    <3>1. Speaks(d)' => Speaks(d)
      BY <2>6 DEF Speaks, TypeOK
    <3>2. \A q \in Procs, j \in Nat \ {0} : Waits(q, j, d)' => Waits(q, j, d)
      BY <1>3, <2>3, <2>6 DEF Waits
    <3> QED BY <1>4, <2>1, <2>2, <3>1, <3>2, QuietTurns
  <2> QED BY <2>5, <2>6
<1> QED BY <1>4, <1>5 DEF InTurns, Counted

\* The client receives, and has the turn.
LEMMA TurnsReceive ==
    ASSUME TurnInv, IInv', NEW c \in Clients, cpc[c] \notin {"ask", "say"}, Receive(c),
           cpc' = [cpc EXCEPT ![c] = "say"], UNCHANGED procVars, faults' = faults
    PROVE  BuffersOK' /\ InTurns'
<1> USE DEF Receive, procVars, TurnInv, IInv
<1>1. /\ Len(cinbox[c]) \in Nat \ {0} /\ 1 \in 1 .. Len(cinbox[c])
      /\ Len(Tail(cinbox[c])) = Len(cinbox[c]) - 1 /\ Len(Tail(cinbox[c])) <= Room
  <2>1. cinbox[c] \in Seq(Kids) /\ Len(cinbox[c]) <= Room
    BY PlaceFacts
  <2> QED BY <2>1, TailItems
<1>2. cinbox'[c] = Tail(cinbox[c]) /\ \A d \in Clients \ {c} : cinbox'[d] = cinbox[d]
  BY DEF TypeOK
<1>3. BuffersOK'
  BY <1>1, <1>2 DEF BuffersOK
<1>4. ASSUME NEW d \in Clients PROVE Counted(d)'
  <2>1. \A q \in Procs : Answers(q, d)' => Answers(q, d)
    BY DEF Answers
  <2>2. \A q \in Procs, j \in Nat \ {0} : Waits(q, j, d)' => Waits(q, j, d)
    BY DEF Waits
  <2>3. PlacesOK /\ PlacesOK'
    BY <1>3, TurnPlaces, TurnPlacesNext
  <2>4. CASE d = c
    <3>1. Hears(c, 1) /\ \A j \in Nat \ {0} : Hears(c, j)' => Hears(c, j + 1)
      <4>1. Len(cinbox'[c]) = Len(cinbox[c]) - 1
        BY <1>1, <1>2
      <4>2. ASSUME NEW j \in Nat \ {0}, Hears(c, j)' PROVE Hears(c, j + 1)
        BY <1>1, <4>1, <4>2 DEF Hears
      <4> QED BY <1>1, <4>2 DEF Hears
    <3>2. ASSUME NEW s \in Procs \cup {Own}, NEW j \in Nat, <<s, j>> \in Turns(c)'
          PROVE  IF s = Own THEN <<Own, j + 1>> \in Turns(c) ELSE <<s, j>> \in Turns(c)
      <4>1. CASE s = Own
        <5>1. Hears(c, j + 1) /\ j + 1 \in Nat \ {0}
          BY <2>3, <3>1, <3>2, <4>1 DEF PlacesOK
        <5> QED BY <2>3, <4>1, <5>1 DEF PlacesOK
      <4>2. CASE s \in Procs
        BY <2>1, <2>2, <2>3, <2>4, <3>2, <4>2, ProcFacts DEF PlacesOK
      <4> QED BY <4>1, <4>2
    <3>3. PICK q \in Procs \cup {Own} : q = Own
      OBVIOUS
    <3>4. \A s \in Procs \cup {Own}, j \in Nat :
            <<s, j>> \in Turns(c)' =>
                IF s = q THEN <<q, j + 1>> \in Turns(c) ELSE <<s, j>> \in Turns(c)
      BY <3>2, <3>3
    <3> QED BY <1>3, <2>4, <3>4, TakenTurns
  <2>5. CASE d # c
    <3>1. (Speaks(d)' => Speaks(d)) /\ \A j : Hears(d, j)' => Hears(d, j)
      BY <1>2, <2>5 DEF Speaks, Hears, TypeOK
    <3> QED BY <1>3, <2>1, <2>2, <3>1, QuietTurns
  <2> QED BY <2>4, <2>5
<1> QED BY <1>3, <1>4 DEF InTurns, Counted

\* A receive that fails gives the client a second turn.
LEMMA TurnsHearFails ==
    ASSUME TurnInv, IInv', NEW c \in Clients, ClientHearFails(c)
    PROVE  BuffersOK' /\ InTurns'
<1> USE DEF ClientHearFails, ClientGoto, Fault, procVars, TurnInv, IInv
<1>1. BuffersOK'
  BY DEF BuffersOK
<1>2. ASSUME NEW d \in Clients PROVE Counted(d)'
  <2>1. \A q \in Procs : Answers(q, d)' => Answers(q, d)
    BY DEF Answers
  <2>2. \A q \in Procs, j \in Nat \ {0} : Waits(q, j, d)' => Waits(q, j, d)
    BY DEF Waits
  <2>3. \A j : Hears(d, j)' => Hears(d, j)
    BY DEF Hears
  <2>4. PlacesOK /\ PlacesOK'
    BY <1>1, TurnPlaces, TurnPlacesNext
  <2>5. PICK b : b = <<Own, 0>>
    OBVIOUS
  <2>6. ASSUME NEW s \in Procs \cup {Own}, NEW j \in Nat, <<s, j>> \in Turns(d)'
        PROVE  <<s, j>> \in Turns(d) \cup {b}
    <3>1. CASE s = Own
      BY <2>3, <2>4, <2>5, <2>6, <3>1 DEF PlacesOK
    <3>2. CASE s \in Procs
      BY <2>1, <2>2, <2>4, <2>6, <3>2 DEF PlacesOK
    <3> QED BY <3>1, <3>2
  <2>7. IsFiniteSet(Turns(d)) /\ Turns(d)' \subseteq Turns(d) \cup {b}
    BY <2>4, <2>6 DEF PlacesOK
  <2>8. /\ Cardinality(Turns(d)') \in Nat /\ Cardinality(Turns(d)) \in Nat
        /\ Cardinality(Turns(d)') <= Cardinality(Turns(d)) + 1
    BY <2>7, Added
  <2>9. Cardinality(Turns(d)) <= 1 + faults /\ faults \in Nat
    BY BoundsAssumption DEF InTurns, TypeOK
  <2> QED BY <2>8, <2>9 DEF Counted
<1> QED BY <1>1, <1>2 DEF InTurns, Counted

LEMMA TurnsLeave ==
    ASSUME TurnInv, IInv', NEW c \in Clients, NEW places, Leave(c, places), Fault \/ NoFault
    PROVE  BuffersOK' /\ InTurns'
<1> USE DEF Leave, procVars, TurnInv, IInv
<1>1. /\ \A d \in Clients \ {c} : cinbox'[d] = cinbox[d] /\ cpc'[d] = cpc[d]
      /\ cinbox'[c] = <<>> /\ cpc'[c] = "left"
  BY DEF TypeOK
<1>2. BuffersOK'
  BY <1>1, EmptyPlace DEF BuffersOK
<1>3. faults' \in {faults, faults + 1}
  BY DEF Fault, NoFault
<1>4. ASSUME NEW d \in Clients PROVE Counted(d)'
  <2>1. \A q \in Procs : Answers(q, d)' => Answers(q, d)
    BY DEF Answers
  <2>2. \A q \in Procs, j \in Nat \ {0} : Waits(q, j, d)' => Waits(q, j, d)
    BY DEF Waits
  <2>3. (Speaks(d)' => Speaks(d)) /\ \A j : Hears(d, j)' => Hears(d, j)
    BY <1>1, EmptyPlace DEF Speaks, Hears
  <2> QED BY <1>2, <1>3, <2>1, <2>2, <2>3, QuietTurns
<1> QED BY <1>2, <1>4 DEF InTurns, Counted

LEMMA TurnsClient ==
    ASSUME TurnInv, NEW c \in Clients, ClientStep(c) \/ ClientKilled(c)
    PROVE  TurnInv'
<1>1. IInv'
  BY ClientsStep DEF TurnInv
<1>2. BuffersOK' /\ InTurns'
  <2> USE DEF ClientGoto, NoFault
  <2>1. CASE ClientAsk(c)
    BY <1>1, <2>1, TurnsSend DEF ClientAsk
  <2>2. CASE ClientSay(c)
    BY <1>1, <2>2, TurnsSend DEF ClientSay
  <2>3. CASE ClientGreeted(c)
    BY <1>1, <2>3, TurnsReceive DEF ClientGreeted
  <2>4. CASE ClientHear(c)
    BY <1>1, <2>4, TurnsReceive DEF ClientHear
  <2>5. CASE ClientFails(c) \/ ClientKilled(c)
    BY <1>1, <2>5, TurnsLeave DEF ClientFails, ClientKilled
  <2> QED BY <1>1, <2>1, <2>2, <2>3, <2>4, <2>5, TurnsHearFails DEF ClientStep
<1> QED BY <1>1, <1>2 DEF TurnInv

LEMMA TurnsInit == Init => TurnInv
<1> SUFFICES ASSUME Init PROVE TurnInv
  OBVIOUS
<1>1. IInv
  BY Inits
<1>2. BuffersOK
  BY EmptyPlace DEF Init, BuffersOK
<1>3. ASSUME NEW c \in Clients PROVE Counted(c)
  <2>1. PlacesOK
    BY <1>1, <1>2, TurnPlaces DEF IInv
  <2>2. \A q \in Procs : ~Answers(q, c) /\ \A j : ~Waits(q, j, c)
    BY EmptyPlace, BoundsAssumption DEF Init, Answers, Waits
  <2>3. \A j : ~Hears(c, j)
    BY EmptyPlace DEF Init, Hears
  <2>4. Turns(c) \subseteq {} \cup {<<Own, 0>>}
    BY <2>1, <2>2, <2>3 DEF PlacesOK
  <2>5. IsFiniteSet({}) /\ Cardinality({}) = 0
    BY FS_EmptySet
  <2>6. Cardinality(Turns(c)) <= 0 + 1
    BY <2>4, <2>5, Added
  <2> QED BY <2>6 DEF Counted, Init
<1> QED BY <1>1, <1>2, <1>3 DEF TurnInv, InTurns, Counted

-----------------------------------------------------------------------------
(* Children *)

\* Who has been greeted sends to a child.
Greeted == \A c \in Clients : cpc[c] \in {"say", "hear"} => server[c] \in Kids

\* Of a client that has a child nothing waits at the server.
ServerDone ==
    faults = 0 =>
        \A c \in Clients, p \in Kids :
            client[p] = c =>
                /\ cpc[c] # "ask" /\ ~Answers(Main, c)
                /\ \A j \in Nat \ {0} : ~Waits(Main, j, c)

ChildInv == TurnInv /\ Greeted /\ ServerDone /\ OneChildEach

\* Without a failed call the turn of a client that the server is about to
\* answer is the only one.
LEMMA OnlyTurn ==
    ASSUME TurnInv, faults = 0, NEW c \in Clients, Answers(Main, c)
    PROVE  cpc[c] # "ask" /\ \A j \in Nat \ {0} : ~Waits(Main, j, c)
<1>1. PlacesOK
  BY TurnPlaces DEF TurnInv, IInv
<1>2. IsFiniteSet(Turns(c)) /\ Cardinality(Turns(c)) <= 1 /\ <<Main, 0>> \in Turns(c)
  BY <1>1, ProcFacts DEF PlacesOK, TurnInv, InTurns
<1>3. \A a \in Turns(c) : a = <<Main, 0>>
  BY <1>2, AtMostOne
<1>4. <<Own, 0>> # <<Main, 0>> /\ \A j \in Nat \ {0} : <<Main, j>> # <<Main, 0>>
  BY ProcFacts
<1>5. ~Speaks(c) /\ \A j \in Nat \ {0} : ~Waits(Main, j, c)
  BY <1>1, <1>3, <1>4, ProcFacts DEF PlacesOK
<1> QED BY <1>5 DEF Speaks

\* A step that changes nobody's client, sends nothing to the server and leads no
\* child out of its loop.
LEMMA QuietChildren ==
    ASSUME ChildInv, TurnInv', Greeted', faults' \in {faults, faults + 1}, UNCHANGED client,
           \A c \in Clients : cpc'[c] = "ask" => cpc[c] = "ask",
           faults' = 0 =>
               \A c \in Clients : Answers(Main, c)' =>
                    Answers(Main, c) \/ \E j \in Nat \ {0} : Waits(Main, j, c),
           \A c \in Clients, j \in Nat \ {0} :
               Waits(Main, j, c)' => cpc[c] = "ask" \/ \E k \in Nat \ {0} : Waits(Main, k, c),
           faults' = 0 =>
               \A p \in Kids : pc'[p] # pc[p] => pc'[p] \in {"child", "send", "recv"}
    PROVE  ChildInv'
<1>1. faults' = 0 => faults = 0
  BY BoundsAssumption DEF ChildInv, TurnInv, IInv, TypeOK
<1>2. ServerDone'
  BY <1>1 DEF ChildInv, ServerDone
<1>3. OneChildEach'
  BY <1>1 DEF ChildInv, OneChildEach
<1> QED BY <1>2, <1>3 DEF ChildInv

LEMMA ChildrenFork ==
    ASSUME ChildInv, TurnInv', NEW p \in Procs, Fork(p)
    PROVE  ChildInv'
<1> USE DEF Fork, NoFault, clientVars
<1>1. PICK kid \in Kids :
        /\ pc[kid] = "unborn"
        /\ pc' = [pc EXCEPT ![p] = "request", ![kid] = "child"]
        /\ client' = [client EXCEPT ![kid] = client[p]]
  BY DEF NextKid
<1>2. TypeOK /\ RolesOK
  BY DEF ChildInv, TurnInv, IInv
<1>3. Greeted'
  BY DEF ChildInv, Greeted
<1>4. SUFFICES ASSUME faults = 0 PROVE ServerDone' /\ OneChildEach'
  BY <1>3 DEF ChildInv, ServerDone, OneChildEach
<1>5. p = Main
  BY <1>4, ProcFacts DEF ChildInv, OneChildEach
<1>6. /\ \A q \in Kids \ {kid} : pc'[q] = pc[q] /\ client'[q] = client[q]
      /\ pc'[kid] = "child" /\ client'[kid] = client[Main] /\ pc'[Main] = "request"
      /\ client[kid] = NoClient
  BY <1>1, <1>2, <1>5, ProcFacts DEF TypeOK, RolesOK
<1>7. \A c \in Clients, j \in Nat \ {0} : ~Answers(Main, c)' /\ (Waits(Main, j, c)' => Waits(Main, j, c))
  BY <1>6 DEF Answers, Waits
<1>8. \A c \in Clients : client[Main] = c =>
        cpc[c] # "ask" /\ \A j \in Nat \ {0} : ~Waits(Main, j, c)
  BY <1>4, <1>5, OnlyTurn DEF ChildInv, Answers
<1>9. ServerDone'
  <2> SUFFICES ASSUME NEW c \in Clients, NEW q \in Kids, client'[q] = c
               PROVE  /\ cpc[c] # "ask" /\ ~Answers(Main, c)'
                      /\ \A j \in Nat \ {0} : ~Waits(Main, j, c)'
    BY DEF ServerDone
  <2>1. CASE q = kid
    BY <1>6, <1>7, <1>8, <2>1
  <2>2. CASE q # kid
    BY <1>4, <1>6, <1>7, <2>2 DEF ChildInv, ServerDone
  <2> QED BY <2>1, <2>2
<1>10. \A q \in Kids : client[q] = client[Main] => client[q] = NoClient
  <2> SUFFICES ASSUME NEW q \in Kids, client[q] = client[Main], client[q] # NoClient PROVE FALSE
    OBVIOUS
  <2>1. client[q] \in Clients
    BY <1>2, ProcFacts DEF TypeOK
  <2>2. Answers(Main, client[q])
    BY <1>5 DEF Answers
  <2> QED BY <1>4, <2>1, <2>2 DEF ChildInv, ServerDone
<1>11. ASSUME NEW q \in Kids, NEW r \in Kids
       PROVE  /\ pc'[q] \in {"unborn", "child", "send", "recv"}
              /\ client'[q] = client'[r] /\ client'[q] # NoClient => q = r
  <2>1. /\ pc[q] \in {"unborn", "child", "send", "recv"}
        /\ client[q] = client[r] /\ client[q] # NoClient => q = r
    BY <1>4 DEF ChildInv, OneChildEach
  <2>2. pc'[q] \in {"unborn", "child", "send", "recv"}
    BY <1>6, <2>1
  <2>3. client'[q] = client'[r] /\ client'[q] # NoClient => q = r
    BY <1>6, <1>10, <2>1
  <2> QED BY <2>2, <2>3
<1>12. OneChildEach'
  BY <1>11 DEF OneChildEach
<1> QED BY <1>9, <1>12

LEMMA ChildrenProc ==
    ASSUME ChildInv, TurnInv', NEW p \in Procs, ProcStep(p)
    PROVE  ChildInv'
<1>1. TypeOK /\ RolesOK /\ faults \in Nat
  BY BoundsAssumption DEF ChildInv, TurnInv, IInv, TypeOK
<1>2. CASE Fork(p)
  BY <1>2, ChildrenFork
<1>3. CASE ~Fork(p)
  <2>1. UNCHANGED <<cpc, server>>
    BY <1>3 DEF ProcStep, Start, StartFails, RecvRequest, RecvRequestFails, ForkFails,
                ChildSocket, ChildSocketFails, ChildSend, ChildRecv, ChildRecvFails, clientVars
  <2>2. Greeted'
    BY <2>1 DEF ChildInv, Greeted
  <2>3. CASE RecvRequest(p)
    <3> USE <2>3 DEF RecvRequest, Goto, NoFault
    <3>1. CASE faults = 0
      <4>1. p = Main
        BY <3>1, ProcFacts DEF ChildInv, OneChildEach
      <4>2. inbox[Main] \in Seq(Clients) /\ Len(inbox[Main]) <= Room /\ inbox[Main] # <<>>
        BY <4>1, ProcFacts, PlaceFacts DEF ChildInv, TurnInv, IInv
      <4>3. /\ 1 \in 1 .. Len(inbox[Main]) /\ Head(inbox[Main]) = inbox[Main][1]
            /\ Len(Tail(inbox[Main])) = Len(inbox[Main]) - 1
            /\ \A j \in 1 .. Len(inbox[Main]) - 1 :
                  j + 1 \in 1 .. Len(inbox[Main]) /\ Tail(inbox[Main])[j] = inbox[Main][j + 1]
        BY <4>2, TailItems
      <4>4. inbox'[Main] = Tail(inbox[Main]) /\ client'[Main] = Head(inbox[Main])
        BY <1>1, <4>1, ProcFacts DEF TypeOK
      <4>5. \A c \in Clients : Answers(Main, c)' => Waits(Main, 1, c)
        BY <4>3, <4>4 DEF Answers, Waits
      <4>6. \A c \in Clients, j \in Nat \ {0} : Waits(Main, j, c)' => Waits(Main, j + 1, c)
        BY <4>3, <4>4 DEF Waits
      <4>7. \A q \in Kids : client'[q] = client[q] /\ pc'[q] = pc[q]
        BY <1>1, <4>1, ProcFacts DEF TypeOK
      <4>8. ServerDone'
        <5> SUFFICES ASSUME NEW c \in Clients, NEW q \in Kids, client'[q] = c
                     PROVE  /\ cpc'[c] # "ask" /\ ~Answers(Main, c)'
                            /\ \A j \in Nat \ {0} : ~Waits(Main, j, c)'
          BY DEF ServerDone
        <5>1. /\ cpc[c] # "ask" /\ ~Answers(Main, c)
              /\ \A j \in Nat \ {0} : ~Waits(Main, j, c)
          BY <3>1, <4>7 DEF ChildInv, ServerDone
        <5> QED BY <2>1, <4>5, <4>6, <5>1
      <4>9. OneChildEach'
        BY <3>1, <4>7 DEF ChildInv, OneChildEach
      <4> QED BY <2>2, <4>8, <4>9 DEF ChildInv
    <3>2. CASE faults # 0
      BY <2>2, <3>2 DEF ChildInv, ServerDone, OneChildEach
    <3> QED BY <3>1, <3>2
  <2>4. CASE ~RecvRequest(p)
    <3>1. UNCHANGED client /\ faults' \in {faults, faults + 1}
      BY <1>3, <2>4
      DEF ProcStep, Start, StartFails, RecvRequestFails, ForkFails, Exit, ChildSocket,
          ChildSocketFails, ChildSend, ChildRecv, ChildRecvFails, Fault, NoFault
    <3>2. PICK to : pc' = [pc EXCEPT ![p] = to] /\ to \notin {"fork", "child"}
      BY <1>3, <2>4
      DEF ProcStep, Start, StartFails, RecvRequestFails, ForkFails, Exit, ChildSocket,
          ChildSocketFails, ChildSend, ChildRecv, ChildRecvFails, Goto
    <3>3. faults' = 0 => faults = 0 /\ NoFault
      BY <1>1, <1>3, <2>4
      DEF ProcStep, Start, StartFails, RecvRequestFails, ForkFails, ChildSocket,
          ChildSocketFails, ChildSend, ChildRecv, ChildRecvFails, Fault, NoFault
    <3>4. ASSUME faults' = 0 PROVE \A q \in Kids : pc'[q] # pc[q] => pc'[q] \in {"child", "send", "recv"}
      <4>1. faults = 0 /\ ~Fault
        BY <1>1, <3>3, <3>4 DEF Fault
      <4>2. CASE p = Main
        BY <1>1, <3>2, <4>2, ProcFacts DEF TypeOK
      <4>3. CASE p \in Kids
        <5>1. pc[p] \in {"unborn", "child", "send", "recv"}
          BY <4>1, <4>3 DEF ChildInv, OneChildEach
        <5>2. ChildSocket(p) \/ ChildSend(p) \/ ChildRecv(p)
          BY <1>3, <2>4, <4>1, <4>3, <5>1, ProcFacts
          DEF ProcStep, RecvRequestFails, ForkFails, Exit, ChildSocketFails, ChildRecvFails, Goto
        <5> QED BY <1>1, <5>2, ProcFacts
              DEF TypeOK, ChildSocket, ChildSend, ChildRecv, Goto
      <4> QED BY <4>2, <4>3, ProcFacts
    <3>5. \A c \in Clients, j \in Nat \ {0} :
            Waits(Main, j, c)' => \E k \in Nat \ {0} : Waits(Main, k, c)
      <4>1. CASE ChildRecv(p)
        <5>1. p # Main
          BY <1>1, <4>1 DEF RolesOK, ChildRecv, Goto
        <5>2. inbox'[Main] = inbox[Main]
          BY <1>1, <4>1, <5>1, ProcFacts DEF TypeOK, ChildRecv
        <5> QED BY <5>2 DEF Waits
      <4>2. CASE ~ChildRecv(p)
        <5>1. inbox' = inbox \/ inbox' = [inbox EXCEPT ![p] = <<>>]
          BY <1>3, <2>4, <4>2
          DEF ProcStep, Start, StartFails, RecvRequestFails, ForkFails, Exit, ChildSocket,
              ChildSocketFails, ChildSend, ChildRecvFails
        <5>2. inbox'[Main] \in {inbox[Main], <<>>}
          BY <1>1, <5>1, ProcFacts DEF TypeOK
        <5> QED BY <5>2, EmptyPlace DEF Waits
      <4> QED BY <4>1, <4>2
    <3>6. \A c \in Clients : Answers(Main, c)' => Answers(Main, c)
      <4>1. pc'[Main] = pc[Main] \/ pc'[Main] \notin {"fork", "child", "send"}
        <5>1. CASE p = Main
          <6>1. pc'[Main] # "send"
            BY <1>1, <1>3, <2>4, <5>1, ProcFacts
            DEF TypeOK, RolesOK, ProcStep, Start, StartFails, RecvRequestFails, ForkFails, Exit,
                ChildSocket, ChildSocketFails, ChildSend, ChildRecv, ChildRecvFails, Goto
          <6> QED BY <1>1, <3>2, <5>1, <6>1, ProcFacts DEF TypeOK
        <5>2. CASE p # Main
          BY <1>1, <3>2, <5>2, ProcFacts DEF TypeOK
        <5> QED BY <5>1, <5>2
      <4> QED BY <3>1, <4>1 DEF Answers
    <3> QED BY <2>1, <2>2, <3>1, <3>4, <3>5, <3>6, QuietChildren
  <2> QED BY <2>3, <2>4
<1> QED BY <1>2, <1>3

LEMMA ChildrenClient ==
    ASSUME ChildInv, TurnInv', NEW c \in Clients, ClientStep(c) \/ ClientKilled(c)
    PROVE  ChildInv'
<1>1. TypeOK /\ SessionsApart /\ faults' \in {faults, faults + 1}
  BY DEF ChildInv, TurnInv, IInv, ClientStep, ClientAsk, ClientGreeted, ClientSay, ClientHear,
         ClientHearFails, ClientFails, ClientKilled, Fault, NoFault
<1>2. UNCHANGED <<pc, client>>
  BY DEF ClientStep, ClientAsk, ClientGreeted, ClientSay, ClientHear,
         ClientHearFails, ClientFails, ClientKilled, Leave, procVars
<1>3. \A d \in Clients : cpc'[d] = "ask" => cpc[d] = "ask"
  BY <1>1 DEF TypeOK, ClientStep, ClientAsk, ClientGreeted, ClientSay, ClientHear,
         ClientHearFails, ClientFails, ClientKilled, ClientGoto, Leave
<1>4. Greeted'
  <2>1. CASE ClientGreeted(c) \/ ClientHear(c)
    <3>1. cinbox[c] \in Seq(Kids) /\ cinbox[c] # <<>>
      BY <1>1, <2>1 DEF TypeOK, ClientGreeted, ClientHear, Receive
    <3>2. Head(cinbox[c]) \in Kids
      BY <3>1, TailHolds
    <3>3. \A d \in Clients \ {c} : cpc'[d] = cpc[d] /\ server'[d] = server[d]
      BY <1>1, <2>1 DEF TypeOK, ClientGreeted, ClientHear, Receive, ClientGoto
    <3>4. server'[c] \in Kids
      BY <1>1, <2>1, <3>2 DEF TypeOK, ClientGreeted, ClientHear, Receive
    <3> QED BY <3>3, <3>4 DEF ChildInv, Greeted
  <2>2. CASE ~(ClientGreeted(c) \/ ClientHear(c))
    <3>1. UNCHANGED server
      BY <2>2 DEF ClientStep, ClientAsk, ClientSay, ClientHearFails, ClientFails, ClientKilled, Leave
    <3>2. \A d \in Clients : cpc'[d] \in {"say", "hear"} => cpc[d] \in {"say", "hear"}
      BY <1>1, <2>2
      DEF TypeOK, ClientStep, ClientAsk, ClientSay, ClientHearFails, ClientFails, ClientKilled,
          ClientGoto, Leave
    <3> QED BY <3>1, <3>2 DEF ChildInv, Greeted
  <2> QED BY <2>1, <2>2
<1>5. \A d \in Clients, j \in Nat \ {0} :
        Waits(Main, j, d)' => cpc[d] = "ask" \/ \E k \in Nat \ {0} : Waits(Main, k, d)
  <2>1. CASE ClientAsk(c) \/ ClientSay(c)
    <3>1. PICK r \in Procs : r = server[c]
      BY <1>1 DEF TypeOK
    <3>2. CASE r = Main
      <4>1. cpc[c] = "ask"
        BY <2>1, <3>1, <3>2, ProcFacts DEF ChildInv, Greeted, ClientAsk, ClientSay, ClientGoto
      <4>2. inbox'[Main] \in {inbox[Main], Arrive(inbox[Main], c)}
        BY <1>1, <2>1, <3>1, <3>2 DEF TypeOK, ClientAsk, ClientSay, Send
      <4>3. inbox[Main] \in Seq(Clients) /\ Len(inbox[Main]) <= Room
        BY ProcFacts, PlaceFacts DEF ChildInv, TurnInv, IInv
      <4>4. \A j \in 1 .. Len(Arrive(inbox[Main], c)) :
              \/ j \in 1 .. Len(inbox[Main]) /\ Arrive(inbox[Main], c)[j] = inbox[Main][j]
              \/ j = Len(inbox[Main]) + 1 /\ Arrive(inbox[Main], c)[j] = c
        BY <4>3, ArriveItems
      <4> QED BY <4>1, <4>2, <4>4 DEF Waits
    <3>3. CASE r # Main
      <4>1. inbox'[Main] = inbox[Main]
        BY <1>1, <2>1, <3>1, <3>3, ProcFacts DEF TypeOK, ClientAsk, ClientSay, Send
      <4> QED BY <4>1 DEF Waits
    <3> QED BY <3>2, <3>3
  <2>2. CASE ~(ClientAsk(c) \/ ClientSay(c))
    <3>1. UNCHANGED inbox
      BY <2>2 DEF ClientStep, ClientGreeted, ClientHear, ClientHearFails, ClientFails,
                  ClientKilled, Leave, procVars
    <3> QED BY <3>1 DEF Waits
  <2> QED BY <2>1, <2>2
<1>6. \A d \in Clients : Answers(Main, d)' => Answers(Main, d)
  BY <1>2 DEF Answers
<1> QED BY <1>1, <1>2, <1>3, <1>4, <1>5, <1>6, QuietChildren

LEMMA ChildrenInit == Init => ChildInv
<1> SUFFICES ASSUME Init PROVE ChildInv
  OBVIOUS
<1>1. \A p \in Kids : client[p] = NoClient /\ pc[p] = "unborn"
  BY ProcFacts DEF Init
<1>2. \A c \in Clients : c # NoClient
  BY BoundsAssumption
<1>3. ServerDone /\ OneChildEach
  BY <1>1, <1>2 DEF ServerDone, OneChildEach
<1>4. Greeted
  BY DEF Init, Greeted
<1> QED BY <1>3, <1>4, TurnsInit DEF ChildInv

LEMMA ChildrenUnchanged ==
    ASSUME ChildInv, UNCHANGED vars
    PROVE  ChildInv'
<1> USE DEF vars, procVars, clientVars
<1>1. IInv'
  BY DEF ChildInv, TurnInv, IInv, TypeOK, RolesOK, SessionsApart
<1>2. BuffersOK'
  BY DEF ChildInv, TurnInv, BuffersOK
<1>3. InTurns'
  BY DEF ChildInv, TurnInv, InTurns, Turns, HasTurn
<1>4. Greeted' /\ ServerDone' /\ OneChildEach'
  BY DEF ChildInv, Greeted, ServerDone, OneChildEach, Answers, Waits
<1> QED BY <1>1, <1>2, <1>3, <1>4 DEF ChildInv, TurnInv

-----------------------------------------------------------------------------
(* What the server owes *)

\* The turns of c that are at the places of processes.
Held(c) == {t \in Procs \X (0 .. Room) : HasTurn(c, t[1], t[2])}

HeldOK ==
    \A c \in Clients :
        /\ Owed(c) = IF cpc[c] = "left" THEN 0 ELSE Cardinality(Held(c))
        /\ Owed(c) \in Nat
        /\ IsFiniteSet(Held(c)) /\ Held(c) \subseteq Procs \X Nat
        /\ \A p \in Procs : <<p, 0>> \in Held(c) <=> Answers(p, c)
        /\ \A p \in Procs, j \in Nat \ {0} : <<p, j>> \in Held(c) <=> Waits(p, j, c)

LEMMA HeldPlaces == TypeOK /\ BuffersOK => HeldOK
<1> SUFFICES ASSUME TypeOK, BuffersOK, NEW c \in Clients
             PROVE  /\ Owed(c) = IF cpc[c] = "left" THEN 0 ELSE Cardinality(Held(c))
                    /\ Owed(c) \in Nat
                    /\ IsFiniteSet(Held(c)) /\ Held(c) \subseteq Procs \X Nat
                    /\ \A p \in Procs : <<p, 0>> \in Held(c) <=> Answers(p, c)
                    /\ \A p \in Procs, j \in Nat \ {0} : <<p, j>> \in Held(c) <=> Waits(p, j, c)
  BY DEF HeldOK
<1>1. PlacesOK
  BY TurnPlaces
<1>2. \A p \in Procs : \A j : <<p, j>> \in Held(c) <=> <<p, j>> \in Turns(c)
  BY DEF Held, Turns
<1>3. Held(c) \subseteq Turns(c)
  BY DEF Held, Turns
<1>4. IsFiniteSet(Held(c)) /\ Cardinality(Held(c)) \in Nat
  BY <1>1, <1>3, FS_Subset, FS_CardinalityType DEF PlacesOK
<1>5. Held(c) \subseteq Procs \X Nat
  BY BoundsAssumption DEF Held
<1>6. Owed(c) = IF cpc[c] = "left" THEN 0 ELSE Cardinality(Held(c))
  BY DEF Owed, Held
<1> QED BY <1>1, <1>2, <1>4, <1>5, <1>6 DEF PlacesOK

LEMMA HeldPlacesNext == TypeOK' /\ BuffersOK' => HeldOK'
BY HeldPlaces, PTL

\* A step of the server that sends nothing only moves or loses what it owes.
LEMMA QuietOwed ==
    ASSUME HeldOK, HeldOK', NEW c \in Clients, cpc'[c] = cpc[c],
           \A p \in Procs : Answers(p, c)' => Answers(p, c),
           \A p \in Procs, j \in Nat \ {0} : Waits(p, j, c)' => Waits(p, j, c)
    PROVE  Owed(c)' <= Owed(c)
<1>1. \A s \in Procs, j \in Nat : <<s, j>> \in Held(c)' => <<s, j>> \in Held(c)
  BY DEF HeldOK
<1>2. Held(c)' \subseteq Held(c) /\ IsFiniteSet(Held(c))
  BY <1>1 DEF HeldOK
<1>3. /\ Cardinality(Held(c)') \in Nat /\ Cardinality(Held(c)) \in Nat
      /\ Cardinality(Held(c)') <= Cardinality(Held(c))
  BY <1>2, Fewer
<1> QED BY <1>3 DEF HeldOK

LEMMA SameOwed ==
    ASSUME HeldOK, HeldOK', NEW c \in Clients, cpc'[c] = "left" <=> cpc[c] = "left",
           \A p \in Procs : Answers(p, c)' <=> Answers(p, c),
           \A p \in Procs, j \in Nat \ {0} : Waits(p, j, c)' <=> Waits(p, j, c)
    PROVE  Owed(c)' = Owed(c)
<1>1. \A s \in Procs, j \in Nat : <<s, j>> \in Held(c)' <=> <<s, j>> \in Held(c)
  BY DEF HeldOK
<1>2. Held(c) \subseteq Procs \X Nat /\ Held(c)' \subseteq Procs \X Nat
  BY DEF HeldOK
<1>3. Held(c)' \subseteq Held(c) /\ Held(c) \subseteq Held(c)'
  BY <1>1, <1>2
<1>4. Held(c)' = Held(c)
  BY <1>3
<1> QED BY <1>4 DEF HeldOK

LEMMA TakenOwed ==
    ASSUME HeldOK, HeldOK', NEW c \in Clients, cpc'[c] = cpc[c], NEW q \in Procs,
           \A p \in Procs \ {q} : Answers(p, c)' => Answers(p, c),
           Answers(q, c)' => Waits(q, 1, c),
           \A p \in Procs \ {q}, j \in Nat \ {0} : Waits(p, j, c)' => Waits(p, j, c),
           \A j \in Nat \ {0} : Waits(q, j, c)' => Waits(q, j + 1, c)
    PROVE  Owed(c)' <= Owed(c)
<1>1. ASSUME NEW s \in Procs, NEW j \in Nat, <<s, j>> \in Held(c)'
      PROVE  IF s = q THEN <<q, j + 1>> \in Held(c) ELSE <<s, j>> \in Held(c)
  <2>1. CASE s # q
    BY <1>1, <2>1 DEF HeldOK
  <2>2. CASE s = q /\ j = 0
    BY <1>1, <2>2 DEF HeldOK
  <2>3. CASE s = q /\ j # 0
    <3>1. j + 1 \in Nat \ {0} /\ Waits(q, j + 1, c)
      BY <1>1, <2>3 DEF HeldOK
    <3> QED BY <2>3, <3>1 DEF HeldOK
  <2> QED BY <2>1, <2>2, <2>3
<1>2. PICK P, S, T : P = Procs /\ S = Held(c)' /\ T = Held(c)
  OBVIOUS
<1>3. /\ IsFiniteSet(T) /\ q \in P /\ S \subseteq P \X Nat
      /\ \A s \in P, j \in Nat :
           <<s, j>> \in S => IF s = q THEN <<q, j + 1>> \in T ELSE <<s, j>> \in T
  BY <1>1, <1>2 DEF HeldOK
<1>4. Cardinality(S) \in Nat /\ Cardinality(T) \in Nat /\ Cardinality(S) <= Cardinality(T)
  BY <1>3, Shifted
<1> QED BY <1>2, <1>4 DEF HeldOK

LEMMA HandedOwed ==
    ASSUME HeldOK, HeldOK', NEW c \in Clients, cpc'[c] = cpc[c],
           NEW p \in Procs, NEW kid \in Procs, Answers(p, c), ~Answers(p, c)',
           \A q \in Procs \ {kid} : Answers(q, c)' => Answers(q, c),
           \A q \in Procs, j \in Nat \ {0} : Waits(q, j, c)' => Waits(q, j, c)
    PROVE  Owed(c)' <= Owed(c)
<1>1. PICK a, b : a = <<p, 0>> /\ b = <<kid, 0>>
  OBVIOUS
<1>2. a \in Held(c) /\ IsFiniteSet(Held(c))
  BY <1>1 DEF HeldOK
<1>3. ASSUME NEW s \in Procs, NEW j \in Nat, <<s, j>> \in Held(c)'
      PROVE  <<s, j>> = b \/ (<<s, j>> \in Held(c) /\ <<s, j>> # a)
  <2>1. CASE j = 0
    <3>1. Answers(s, c)' /\ s # p
      BY <1>3, <2>1 DEF HeldOK
    <3> QED BY <1>1, <2>1, <3>1 DEF HeldOK
  <2>2. CASE j # 0
    <3>1. <<s, j>> \in Held(c)
      BY <1>3, <2>2 DEF HeldOK
    <3> QED BY <1>1, <2>2, <3>1
  <2> QED BY <2>1, <2>2
<1>4. Held(c)' \subseteq (Held(c) \ {a}) \cup {b}
  BY <1>3 DEF HeldOK
<1>5. /\ Cardinality(Held(c)') \in Nat /\ Cardinality(Held(c)) \in Nat
      /\ Cardinality(Held(c)') <= Cardinality(Held(c))
  BY <1>2, <1>4, Exchanged
<1> QED BY <1>5 DEF HeldOK

\* What process p owed to c it has sent.
LEMMA SentOwed ==
    ASSUME HeldOK, HeldOK', NEW c \in Clients, cpc'[c] = cpc[c], cpc[c] # "left",
           NEW p \in Procs, Answers(p, c), ~Answers(p, c)',
           \A q \in Procs \ {p} : Answers(q, c)' <=> Answers(q, c),
           \A q \in Procs, j \in Nat \ {0} : Waits(q, j, c)' <=> Waits(q, j, c)
    PROVE  Owed(c) > 0 /\ Owed(c)' = Owed(c) - 1
<1>1. PICK a : a = <<p, 0>>
  OBVIOUS
<1>2. a \in Held(c) /\ IsFiniteSet(Held(c))
  BY <1>1 DEF HeldOK
<1>3. ASSUME NEW s \in Procs, NEW j \in Nat
      PROVE  <<s, j>> \in Held(c)' <=> <<s, j>> \in Held(c) /\ <<s, j>> # a
  <2>1. CASE j = 0
    BY <1>1, <2>1 DEF HeldOK
  <2>2. CASE j # 0
    <3>1. <<s, j>> \in Held(c)' <=> <<s, j>> \in Held(c)
      BY <2>2 DEF HeldOK
    <3> QED BY <1>1, <2>2, <3>1
  <2> QED BY <2>1, <2>2
<1>4. Held(c)' = Held(c) \ {a}
  BY <1>3 DEF HeldOK
<1>5. Cardinality(Held(c)') = Cardinality(Held(c)) - 1
  BY <1>2, <1>4, FS_RemoveElement
<1> QED BY <1>5 DEF HeldOK

\* What c has said waits at process r.
LEMMA SaidOwed ==
    ASSUME HeldOK, HeldOK', NEW c \in Clients, cpc'[c] # "left", cpc[c] # "left",
           NEW r \in Procs, NEW n \in Nat \ {0}, ~Waits(r, n, c), Waits(r, n, c)',
           \A q \in Procs : Answers(q, c)' <=> Answers(q, c),
           \A q \in Procs, j \in Nat \ {0} :
               <<q, j>> # <<r, n>> => (Waits(q, j, c)' <=> Waits(q, j, c))
    PROVE  Owed(c)' = Owed(c) + 1
<1>1. PICK b : b = <<r, n>>
  OBVIOUS
<1>2. b \notin Held(c) /\ IsFiniteSet(Held(c))
  BY <1>1 DEF HeldOK
<1>3. ASSUME NEW s \in Procs, NEW j \in Nat
      PROVE  <<s, j>> \in Held(c)' <=> <<s, j>> \in Held(c) \/ <<s, j>> = b
  <2>1. CASE j = 0
    <3>1. <<s, j>> \in Held(c)' <=> <<s, j>> \in Held(c)
      BY <2>1 DEF HeldOK
    <3> QED BY <1>1, <2>1, <3>1
  <2>2. CASE j # 0
    BY <1>1, <2>2 DEF HeldOK
  <2> QED BY <2>1, <2>2
<1>4. b \in Procs \X Nat
  BY <1>1
<1>5. Held(c)' = Held(c) \cup {b}
  BY <1>3, <1>4 DEF HeldOK
<1>6. Cardinality(Held(c)') = Cardinality(Held(c)) + 1
  BY <1>2, <1>5, FS_AddElement
<1> QED BY <1>6 DEF HeldOK


Speaking == [c \in Clients |-> cpc[c] \in {"ask", "say"}]
Debts == [c \in Clients |-> Owed(c)]
Letters == [c \in Clients |-> Len(cinbox[c])]

LEMMA LoseStep ==
    ASSUME HeldOK, HeldOK', UNCHANGED clientVars, Fault \/ NoFault,
           \A c \in Clients : Owed(c)' <= Owed(c)
    PROVE  Echo!Lose
<1>1. \A c \in Clients : Owed(c)' \in 0 .. Owed(c)
  BY DEF HeldOK
<1>2. faults' \in {faults, faults + 1}
  BY DEF Fault, NoFault
<1> QED BY <1>1, <1>2 DEF Echo!Lose, Echo!MayFail, clientVars

\* What a step of client c alone does to the service.
LEMMA ClientsPart ==
    ASSUME TypeOK, TypeOK', NEW c \in Clients,
           \A d \in Clients \ {c} :
               cpc'[d] = cpc[d] /\ Owed(d)' = Owed(d) /\ cinbox'[d] = cinbox[d]
    PROVE  /\ cpc'[c] \in {"ask", "say"} => Speaking' = [Speaking EXCEPT ![c] = TRUE]
           /\ cpc'[c] \notin {"ask", "say"} => Speaking' = [Speaking EXCEPT ![c] = FALSE]
           /\ Debts' = [Debts EXCEPT ![c] = Owed(c)']
           /\ Letters' = [Letters EXCEPT ![c] = Len(cinbox'[c])]
           /\ Owed(c)' = Owed(c) => Debts' = Debts
           /\ cinbox'[c] = cinbox[c] => Letters' = Letters
<1>1. ASSUME cpc'[c] \in {"ask", "say"}
      PROVE  Speaking' = [Speaking EXCEPT ![c] = TRUE]
  BY <1>1, Zenon DEF Speaking
<1>2. ASSUME cpc'[c] \notin {"ask", "say"}
      PROVE  Speaking' = [Speaking EXCEPT ![c] = FALSE]
  <2>1. (cpc'[c] \in {"ask", "say"}) = FALSE
    BY <1>2
  <2>2. ASSUME NEW d \in Clients
        PROVE  Speaking'[d] = [Speaking EXCEPT ![c] = FALSE][d]
    BY <2>1, Zenon DEF Speaking
  <2> QED BY <2>2, Zenon DEF Speaking
<1>3. /\ Debts' = [Debts EXCEPT ![c] = Owed(c)']
      /\ Owed(c)' = Owed(c) => Debts' = Debts
  BY DEF Debts
<1>4. /\ Letters' = [Letters EXCEPT ![c] = Len(cinbox'[c])]
      /\ cinbox'[c] = cinbox[c] => Letters' = Letters
  BY DEF Letters
<1> QED BY <1>1, <1>2, <1>3, <1>4

LEMMA QuietServes ==
    ASSUME ChildInv, HeldOK, HeldOK', NEW p \in Procs, NEW to, to \notin {"fork", "child"},
           pc' = [pc EXCEPT ![p] = to], to = "send" => pc[p] = "child",
           UNCHANGED <<client, clientVars>>,
           inbox' \in {inbox, [inbox EXCEPT ![p] = <<>>]},
           Fault \/ NoFault
    PROVE  Echo!Lose
<1> USE DEF ChildInv, TurnInv, IInv
<1>1. \A q \in Procs : inbox'[q] \in {inbox[q], <<>>}
  BY DEF TypeOK
<1>2. \A c \in Clients, q \in Procs : Answers(q, c)' => Answers(q, c)
  BY DEF Answers, TypeOK
<1>3. \A c \in Clients, q \in Procs, j \in Nat \ {0} : Waits(q, j, c)' => Waits(q, j, c)
  BY <1>1, EmptyPlace DEF Waits
<1>4. \A c \in Clients : Owed(c)' <= Owed(c)
  BY <1>2, <1>3, QuietOwed DEF clientVars
<1> QED BY <1>4, LoseStep

LEMMA TakesServes ==
    ASSUME ChildInv, HeldOK, HeldOK', NEW p \in Procs, inbox[p] # <<>>,
           inbox' = [inbox EXCEPT ![p] = Tail(@)],
           UNCHANGED clientVars, NoFault,
           \A q \in Procs \ {p}, c \in Clients : Answers(q, c)' => Answers(q, c),
           \A c \in Clients : Answers(p, c)' => c = Head(inbox[p])
    PROVE  Echo!Lose
<1> USE DEF ChildInv, TurnInv, IInv
<1>1. /\ Len(inbox[p]) \in Nat \ {0} /\ 1 \in 1 .. Len(inbox[p])
      /\ Head(inbox[p]) = inbox[p][1]
      /\ Len(Tail(inbox[p])) = Len(inbox[p]) - 1
      /\ \A j \in 1 .. Len(inbox[p]) - 1 :
            j + 1 \in 1 .. Len(inbox[p]) /\ Tail(inbox[p])[j] = inbox[p][j + 1]
  <2>1. inbox[p] \in Seq(Clients) /\ Len(inbox[p]) <= Room
    BY PlaceFacts
  <2> QED BY <2>1, TailItems
<1>2. inbox'[p] = Tail(inbox[p]) /\ \A q \in Procs \ {p} : inbox'[q] = inbox[q]
  BY DEF TypeOK
<1>3. ASSUME NEW c \in Clients PROVE Owed(c)' <= Owed(c)
  <2>1. Answers(p, c)' => Waits(p, 1, c)
    BY <1>1 DEF Waits
  <2>2. \A j \in Nat \ {0} : Waits(p, j, c)' => Waits(p, j + 1, c)
    BY <1>1, <1>2 DEF Waits
  <2>3. \A q \in Procs \ {p}, j \in Nat \ {0} : Waits(q, j, c)' => Waits(q, j, c)
    BY <1>2 DEF Waits
  <2> QED BY <2>1, <2>2, <2>3, TakenOwed DEF clientVars
<1> QED BY <1>3, LoseStep

LEMMA ForkServes ==
    ASSUME ChildInv, HeldOK, HeldOK', NEW p \in Procs, Fork(p)
    PROVE  Echo!Lose
<1> USE DEF ChildInv, TurnInv, IInv, Fork
<1>1. PICK kid \in Kids :
        /\ pc[kid] = "unborn"
        /\ pc' = [pc EXCEPT ![p] = "request", ![kid] = "child"]
        /\ client' = [client EXCEPT ![kid] = client[p]]
  BY DEF NextKid
<1>2. /\ kid \in Procs /\ kid # p
      /\ \A q \in Procs \ {p, kid} : pc'[q] = pc[q] /\ client'[q] = client[q]
      /\ pc'[p] = "request" /\ client'[kid] = client[p]
  BY <1>1, ProcFacts DEF TypeOK
<1>3. ASSUME NEW c \in Clients PROVE Owed(c)' <= Owed(c)
  <2>1. \A q \in Procs \ {p, kid} : Answers(q, c)' => Answers(q, c)
    BY <1>2 DEF Answers
  <2>2. ~Answers(p, c)' /\ (Answers(kid, c)' => Answers(p, c))
    BY <1>2 DEF Answers
  <2>3. \A q \in Procs, j \in Nat \ {0} : Waits(q, j, c)' => Waits(q, j, c)
    BY DEF Waits
  <2>4. cpc'[c] = cpc[c]
    BY DEF clientVars
  <2>5. CASE Answers(p, c)
    <3>1. \A q \in Procs \ {kid} : Answers(q, c)' => Answers(q, c)
      BY <2>1, <2>5
    <3> QED BY <1>2, <2>2, <2>3, <2>4, <2>5, <3>1, HandedOwed
  <2>6. CASE ~Answers(p, c)
    <3>1. \A q \in Procs : Answers(q, c)' => Answers(q, c)
      BY <2>1, <2>2, <2>6
    <3> QED BY <2>3, <2>4, <3>1, QuietOwed
  <2> QED BY <2>5, <2>6
<1> QED BY <1>3, LoseStep

LEMMA ArriveLen ==
    ASSUME NEW S, NEW q \in Seq(S), NEW x
    PROVE  Arrive(q, x) = q \/ (Len(Arrive(q, x)) = Len(q) + 1 /\ Arrive(q, x) = Append(q, x))
BY DEF Arrive

LEMMA SendServes ==
    ASSUME ChildInv, HeldOK, HeldOK', TypeOK', NEW p \in Procs, ChildSend(p)
    PROVE  Echo!EchoNext
<1> USE DEF ChildInv, TurnInv, IInv, ChildSend, Goto
<1>1. p \in Kids /\ p # Own
  BY ProcFacts DEF RolesOK, TypeOK
<1>2. PICK c : c = client[p] /\ c \in Clients \cup {NoClient}
  BY DEF TypeOK
<1>3. /\ \A d \in Clients \ {c} : cinbox'[d] = cinbox[d]
      /\ c \in Clients =>
            cinbox'[c] = IF cpc[c] = "left" THEN cinbox[c] ELSE Arrive(cinbox[c], p)
  BY <1>2 DEF TypeOK
<1>4. /\ \A q \in Procs \ {p} : \A d : Answers(q, d)' <=> Answers(q, d)
      /\ \A d : ~Answers(p, d)' /\ (Answers(p, d) <=> d = c)
      /\ \A q \in Procs, j \in Nat \ {0} : \A d : Waits(q, j, d)' <=> Waits(q, j, d)
  BY <1>2 DEF Answers, Waits, TypeOK
<1>5. \A d \in Clients \ {c} : Owed(d)' = Owed(d)
  BY <1>4, SameOwed
<1>6. CASE c \notin Clients \/ cpc[c] = "left"
  <2>1. ASSUME NEW d \in Clients PROVE Owed(d)' <= Owed(d)
    BY <1>4, <2>1, QuietOwed
  <2>2. cinbox' = cinbox
    BY <1>3, <1>6 DEF TypeOK
  <2>3. Echo!Lose
    BY <2>1, <2>2, LoseStep DEF clientVars
  <2> QED BY <2>3 DEF Echo!EchoNext
<1>7. CASE c \in Clients /\ cpc[c] # "left"
  <2>1. Owed(c) > 0 /\ Owed(c)' = Owed(c) - 1
    BY <1>4, <1>7, SentOwed
  <2>2. \A d \in Clients \ {c} : cpc'[d] = cpc[d]
    OBVIOUS
  <2>3. /\ Debts' = [Debts EXCEPT ![c] = Owed(c)']
        /\ Letters' = [Letters EXCEPT ![c] = Len(cinbox'[c])]
        /\ cinbox'[c] = cinbox[c] => Letters' = Letters
    BY <1>3, <1>5, <1>7, <2>2, ClientsPart
  <2>4. cinbox[c] \in Seq(Kids)
    BY <1>7 DEF TypeOK
  <2>5. cinbox'[c] = cinbox[c] \/ Len(cinbox'[c]) = Len(cinbox[c]) + 1
    BY <1>3, <1>7, <2>4, ArriveLen
  <2>6. Letters' \in {Letters, [Letters EXCEPT ![c] = @ + 1]}
    <3>1. Letters[c] = Len(cinbox[c])
      BY <1>7 DEF Letters
    <3> QED BY <2>3, <2>5, <3>1
  <2>7. Debts[c] > 0 /\ Debts' = [Debts EXCEPT ![c] = @ - 1]
    BY <1>7, <2>1, <2>3 DEF Debts
  <2>8. Speaking' = Speaking /\ faults' = faults
    BY DEF Speaking, NoFault
  <2>9. Echo!Answer(c)
    BY <2>6, <2>7, <2>8 DEF Echo!Answer, Speaking, Debts, Letters
  <2> QED BY <1>7, <2>9 DEF Echo!EchoNext
<1> QED BY <1>6, <1>7


LEMMA ProcServes ==
    ASSUME ChildInv, ChildInv', NEW p \in Procs, ProcStep(p)
    PROVE  Echo!EchoNext
<1> USE DEF ChildInv, TurnInv, IInv, Goto, Exit
<1>1. HeldOK /\ HeldOK' /\ TypeOK'
  BY HeldPlaces, HeldPlacesNext
<1>2. CASE p = Main /\ Start
  <2>1. Echo!Lose
    BY <1>1, <1>2, QuietServes DEF Start
  <2> QED BY <2>1 DEF Echo!EchoNext
<1>3. CASE (p = Main /\ StartFails) \/ RecvRequestFails(p)
  <2>1. Echo!Lose
    BY <1>1, <1>3, QuietServes DEF StartFails, RecvRequestFails
  <2> QED BY <2>1 DEF Echo!EchoNext
<1>4. CASE ForkFails(p) \/ ChildSocketFails(p) \/ ChildRecvFails(p)
  <2>1. Echo!Lose
    BY <1>1, <1>4, QuietServes DEF ForkFails, ChildSocketFails, ChildRecvFails
  <2> QED BY <2>1 DEF Echo!EchoNext
<1>5. CASE ChildSocket(p)
  <2>1. Echo!Lose
    BY <1>1, <1>5, QuietServes DEF ChildSocket
  <2> QED BY <2>1 DEF Echo!EchoNext
<1>6. CASE RecvRequest(p)
  <2> USE <1>6 DEF RecvRequest
  <2>1. /\ \A q \in Procs \ {p}, c \in Clients : Answers(q, c)' => Answers(q, c)
        /\ \A c \in Clients : Answers(p, c)' => c = Head(inbox[p])
    BY DEF Answers, TypeOK
  <2>2. Echo!Lose
    BY <1>1, <2>1, TakesServes
  <2> QED BY <2>2 DEF Echo!EchoNext
<1>7. CASE ChildRecv(p)
  <2> USE <1>7 DEF ChildRecv
  <2>1. \A q \in Procs \ {p}, c \in Clients : Answers(q, c)' => Answers(q, c)
    BY DEF Answers, TypeOK
  <2>2. p \in Kids
    BY ProcFacts DEF RolesOK
  <2>3. Holds(inbox[p], Head(inbox[p])) /\ Head(inbox[p]) \in Clients
    <3>1. inbox[p] \in Seq(Clients) /\ inbox[p] # <<>>
      BY DEF TypeOK
    <3> QED BY <3>1, TailHolds
  <2>4. \A c \in Clients : Answers(p, c)' => c = Head(inbox[p])
    BY <2>2, <2>3 DEF SessionsApart, Answers
  <2>5. Echo!Lose
    BY <1>1, <2>1, <2>4, TakesServes
  <2> QED BY <2>5 DEF Echo!EchoNext
<1>8. CASE Fork(p)
  BY <1>1, <1>8, ForkServes DEF Echo!EchoNext
<1>9. CASE ChildSend(p)
  BY <1>1, <1>9, SendServes
<1> QED
  BY <1>2, <1>3, <1>4, <1>5, <1>6, <1>7, <1>8, <1>9 DEF ProcStep

\* What a client says waits at the process it sends to, or is lost.
LEMMA SayServes ==
    ASSUME ChildInv, ChildInv', HeldOK, HeldOK', NEW c \in Clients,
           cpc[c] \in {"ask", "say"}, Send(c),
           NEW to \in {"await", "hear"}, cpc' = [cpc EXCEPT ![c] = to],
           UNCHANGED <<pc, client, cinbox>>, NoFault
    PROVE  Echo!EchoNext
<1> USE DEF ChildInv, TurnInv, IInv, Send
<1>1. PICK r \in Procs : r = server[c]
  BY DEF TypeOK
<1>2. /\ \A q \in Procs \ {r} : inbox'[q] = inbox[q]
      /\ inbox'[r] \in {inbox[r], Arrive(inbox[r], c)}
      /\ inbox[r] \in Seq(Clients)
  BY <1>1 DEF TypeOK
<1>3. \A q \in Procs : \A d : Answers(q, d)' <=> Answers(q, d)
  BY DEF Answers
<1>4. CASE inbox'[r] = inbox[r]
  <2>1. \A q \in Procs, j \in Nat \ {0} : \A d : Waits(q, j, d)' <=> Waits(q, j, d)
    BY <1>2, <1>4 DEF Waits
  <2>2. \A d \in Clients : cpc'[d] = "left" <=> cpc[d] = "left"
    BY DEF TypeOK
  <2>3. \A d \in Clients : Owed(d)' = Owed(d)
    BY <1>3, <2>1, <2>2, SameOwed
  <2>4. \A d \in Clients \ {c} : cpc'[d] = cpc[d]
    BY DEF TypeOK
  <2>5. /\ Speaking[c] /\ Speaking' = [Speaking EXCEPT ![c] = FALSE]
        /\ Debts' = Debts /\ Letters' = Letters
    <3>1. cpc'[c] = to
      BY DEF TypeOK
    <3> QED BY <2>3, <2>4, <3>1, ClientsPart DEF Speaking
  <2>6. Echo!Say(c)
    BY <2>5 DEF Echo!Say, Speaking, Debts, Letters, NoFault
  <2> QED BY <2>6 DEF Echo!EchoNext
<1>5. CASE inbox'[r] # inbox[r]
  <2>1. PICK n \in Nat \ {0} :
          /\ n \notin 1 .. Len(inbox[r]) /\ n \in 1 .. Len(inbox'[r]) /\ inbox'[r][n] = c
          /\ \A j \in Nat \ {0} : j # n =>
               /\ j \in 1 .. Len(inbox'[r]) <=> j \in 1 .. Len(inbox[r])
               /\ j \in 1 .. Len(inbox[r]) => inbox'[r][j] = inbox[r][j]
    <3>1. inbox'[r] = Append(inbox[r], c)
      BY <1>2, <1>5, ArriveLen
    <3>2. PICK q \in Seq(Clients) : q = inbox[r]
      BY <1>2
    <3>3. /\ Len(q) \in Nat /\ Len(Append(q, c)) = Len(q) + 1
          /\ \A j \in 1 .. Len(q) : Append(q, c)[j] = q[j]
          /\ Append(q, c)[Len(q) + 1] = c
      OBVIOUS
    <3>4. PICK n : n = Len(q) + 1
      OBVIOUS
    <3>5. /\ n \in Nat \ {0} /\ n \notin 1 .. Len(q) /\ n \in 1 .. Len(Append(q, c))
          /\ \A j \in Nat \ {0} : j # n => (j \in 1 .. Len(Append(q, c)) <=> j \in 1 .. Len(q))
      BY <3>3, <3>4
    <3> QED BY <3>1, <3>2, <3>3, <3>4, <3>5
  <2>2. ~Waits(r, n, c) /\ Waits(r, n, c)'
    BY <2>1 DEF Waits
  <2>3. \A q \in Procs, j \in Nat \ {0} : \A d :
          <<q, j>> # <<r, n>> => (Waits(q, j, d)' <=> Waits(q, j, d))
    <3> SUFFICES ASSUME NEW q \in Procs, NEW j \in Nat \ {0}, NEW d, <<q, j>> # <<r, n>>
                 PROVE  Waits(q, j, d)' <=> Waits(q, j, d)
      OBVIOUS
    <3>1. CASE q # r
      BY <1>2, <3>1 DEF Waits
    <3>2. CASE q = r
      BY <2>1, <3>2 DEF Waits
    <3> QED BY <3>1, <3>2
  <2>4. cpc'[c] = to /\ \A d \in Clients \ {c} : cpc'[d] = cpc[d]
    BY DEF TypeOK
  <2>5. Owed(c)' = Owed(c) + 1
    BY <1>3, <2>1, <2>2, <2>3, <2>4, SaidOwed
  <2>6. ASSUME NEW d \in Clients, d # c PROVE Owed(d)' = Owed(d)
    <3>1. ~Waits(r, n, d) /\ ~Waits(r, n, d)'
      BY <2>1, <2>6 DEF Waits
    <3>2. \A q \in Procs, j \in Nat \ {0} : Waits(q, j, d)' <=> Waits(q, j, d)
      BY <2>3, <3>1
    <3>3. \A q \in Procs : Answers(q, d)' <=> Answers(q, d)
      BY <1>3
    <3>4. cpc'[d] = "left" <=> cpc[d] = "left"
      BY <2>4, <2>6
    <3> QED BY <3>2, <3>3, <3>4, SameOwed
  <2>7. /\ Speaking[c] /\ Speaking' = [Speaking EXCEPT ![c] = FALSE]
        /\ Debts' = [Debts EXCEPT ![c] = Owed(c)'] /\ Letters' = Letters
    BY <2>4, <2>6, ClientsPart DEF Speaking
  <2>8. Debts' = [Debts EXCEPT ![c] = @ + 1]
    BY <2>5, <2>7 DEF Debts
  <2>9. Echo!Say(c)
    BY <2>7, <2>8 DEF Echo!Say, Speaking, Debts, Letters, NoFault
  <2> QED BY <2>9 DEF Echo!EchoNext
<1> QED BY <1>4, <1>5

LEMMA ClientServes ==
    ASSUME ChildInv, ChildInv', NEW c \in Clients, ClientStep(c) \/ ClientKilled(c)
    PROVE  Echo!EchoNext
<1> USE DEF ChildInv, TurnInv, IInv
<1>1. HeldOK /\ HeldOK' /\ TypeOK /\ TypeOK'
  BY HeldPlaces, HeldPlacesNext
<1>2. CASE ClientAsk(c) \/ ClientSay(c)
  BY <1>1, <1>2, SayServes DEF ClientAsk, ClientSay, ClientGoto
<1>3. ASSUME UNCHANGED procVars,
             NEW d \in Clients, cpc'[d] = "left" <=> cpc[d] = "left"
      PROVE  Owed(d)' = Owed(d)
  <2>1. /\ \A q \in Procs : Answers(q, d)' <=> Answers(q, d)
        /\ \A q \in Procs, j \in Nat \ {0} : Waits(q, j, d)' <=> Waits(q, j, d)
    BY <1>3 DEF Answers, Waits, procVars
  <2> QED BY <1>1, <1>3, <2>1, SameOwed
<1>4. CASE ClientGreeted(c) \/ ClientHear(c)
  <2>1. /\ cpc[c] \in {"await", "hear"} /\ cpc' = [cpc EXCEPT ![c] = "say"]
        /\ Receive(c) /\ NoFault /\ UNCHANGED procVars
    BY <1>4 DEF ClientGreeted, ClientHear, ClientGoto
  <2>2. /\ cpc'[c] = "say" /\ \A d \in Clients \ {c} : cpc'[d] = cpc[d]
        /\ cinbox[c] \in Seq(Kids) /\ cinbox[c] # <<>> /\ cinbox'[c] = Tail(cinbox[c])
        /\ \A d \in Clients \ {c} : cinbox'[d] = cinbox[d]
    BY <1>1, <2>1 DEF TypeOK, Receive
  <2>3. \A d \in Clients : Owed(d)' = Owed(d)
    <3>1. \A d \in Clients : cpc'[d] = "left" <=> cpc[d] = "left"
      BY <2>1, <2>2
    <3> QED BY <1>3, <2>1, <3>1
  <2>4. /\ ~Speaking[c] /\ Speaking' = [Speaking EXCEPT ![c] = TRUE]
        /\ Debts' = Debts /\ Letters' = [Letters EXCEPT ![c] = Len(cinbox'[c])]
    BY <1>1, <2>1, <2>2, <2>3, ClientsPart DEF Speaking
  <2>5. Len(cinbox[c]) > 0 /\ Len(cinbox'[c]) = Len(cinbox[c]) - 1
    BY <2>2
  <2>6. Letters[c] > 0 /\ Letters' = [Letters EXCEPT ![c] = @ - 1]
    BY <2>4, <2>5 DEF Letters
  <2>7. Echo!Hear(c)
    BY <2>1, <2>4, <2>6 DEF Echo!Hear, Speaking, Debts, Letters, NoFault
  <2> QED BY <2>7 DEF Echo!EchoNext
<1>5. CASE ClientHearFails(c)
  <2> USE <1>5 DEF ClientHearFails, ClientGoto
  <2>1. /\ cpc[c] = "hear" /\ cpc'[c] = "say"
        /\ \A d \in Clients \ {c} : cpc'[d] = cpc[d]
        /\ UNCHANGED <<procVars, cinbox>> /\ Fault
    BY <1>1 DEF TypeOK
  <2>2. \A d \in Clients : Owed(d)' = Owed(d)
    BY <1>3, <2>1
  <2>3. /\ ~Speaking[c] /\ Speaking' = [Speaking EXCEPT ![c] = TRUE]
        /\ Debts' = Debts /\ Letters' = Letters
    BY <1>1, <2>1, <2>2, ClientsPart DEF Speaking
  <2>4. Echo!GiveUp(c)
    BY <2>1, <2>3 DEF Echo!GiveUp, Speaking, Debts, Letters, Fault
  <2> QED BY <2>4 DEF Echo!EchoNext
<1>6. CASE ClientFails(c) \/ ClientKilled(c)
  <2>1. /\ cpc'[c] = "left" /\ cinbox'[c] = <<>>
        /\ \A d \in Clients \ {c} : cpc'[d] = cpc[d] /\ cinbox'[d] = cinbox[d]
        /\ UNCHANGED procVars /\ faults' \in {faults, faults + 1}
    BY <1>1, <1>6 DEF TypeOK, ClientFails, ClientKilled, Leave, Fault, NoFault
  <2>2. Owed(c)' = 0
    BY <2>1 DEF Owed
  <2>3. \A d \in Clients \ {c} : Owed(d)' = Owed(d)
    BY <1>3, <2>1
  <2>4. /\ Speaking' = [Speaking EXCEPT ![c] = FALSE]
        /\ Debts' = [Debts EXCEPT ![c] = 0] /\ Letters' = [Letters EXCEPT ![c] = 0]
    BY <1>1, <2>1, <2>2, <2>3, EmptyPlace, ClientsPart
  <2>5. Echo!Leave(c)
    BY <2>1, <2>4 DEF Echo!Leave, Echo!MayFail, Speaking, Debts, Letters
  <2> QED BY <2>5 DEF Echo!EchoNext
<1> QED BY <1>2, <1>4, <1>5, <1>6 DEF ClientStep


-----------------------------------------------------------------------------
(* The theorems *)

LEMMA Invariance == Spec => []ChildInv
<1>1. Init => ChildInv
  BY ChildrenInit
<1>2. ChildInv /\ UNCHANGED vars => ChildInv'
  BY ChildrenUnchanged
<1>3. ChildInv /\ [Next]_vars => ChildInv'
  <2> SUFFICES ASSUME ChildInv, Next PROVE ChildInv'
    BY <1>2
  <2> QED BY TurnsProc, TurnsClient, ChildrenProc, ChildrenClient DEF Next, ChildInv
<1> QED BY <1>1, <1>3, PTL DEF Spec

\* Every variable keeps its type: only children's datagrams reach a client.
THEOREM TypeCorrect == Spec => []TypeOK
<1>1. ChildInv => TypeOK  BY DEF ChildInv, TurnInv, IInv
<1> QED BY <1>1, Invariance, PTL

\* No datagram ever crosses from one session into another, however many clients
\* there are and whichever calls fail (server.c:42-72, client.c:52-60).
THEOREM SessionsCorrect == Spec => []SessionsApart
<1>1. ChildInv => SessionsApart  BY DEF ChildInv, TurnInv, IInv
<1> QED BY <1>1, Invariance, PTL

\* Of one client one datagram or process is on its way, and one more for every
\* call that has failed, in every session and over every loop (server.c:39-72,
\* client.c:52-60).
THEOREM TurnsCorrect == Spec => []InTurns
<1>1. ChildInv => InTurns  BY DEF ChildInv, TurnInv
<1> QED BY <1>1, Invariance, PTL

\* Without a failed call a client has one child at most, and no child leaves its
\* loop, whether its client is there or not (server.c:59-77).
THEOREM OneChild == Spec => []OneChildEach
<1>1. ChildInv => OneChildEach  BY DEF ChildInv
<1> QED BY <1>1, Invariance, PTL

\* The server and its children serve every client as EchoService says: each has
\* one answer to what it has said and to nothing else, and what a failed call
\* costs is that one (server.c:39-72, client.c:34-60).
THEOREM Implements == Spec => ServesEcho
<1>1. Init => Echo!EchoInit
  <2> SUFFICES ASSUME Init PROVE Echo!EchoInit
    OBVIOUS
  <2>1. HeldOK /\ TypeOK
    BY TurnsInit, HeldPlaces DEF TurnInv, IInv
  <2>2. ASSUME NEW c \in Clients PROVE Owed(c) = 0
    <3>1. ASSUME NEW s \in Procs, NEW j \in Nat PROVE <<s, j>> \notin Held(c)
      <4>1. ~Answers(s, c)
        BY DEF Init, Answers
      <4>2. ~Waits(s, j, c)
        BY EmptyPlace DEF Init, Waits
      <4> QED BY <2>1, <4>1, <4>2 DEF HeldOK
    <3>2. Held(c) = {}
      BY <2>1, <3>1 DEF HeldOK
    <3> QED BY <2>1, <3>2, FS_EmptySet DEF HeldOK
  <2>3. \A c \in Clients : Len(cinbox[c]) = 0
    BY EmptyPlace DEF Init
  <2> QED BY <2>2, <2>3 DEF Init, Echo!EchoInit
<1>2. ASSUME ChildInv, ChildInv', Next
      PROVE  Echo!EchoNext
  BY <1>2, ProcServes, ClientServes DEF Next
<1>3. ASSUME UNCHANGED vars
      PROVE  UNCHANGED Echo!echoVars
  BY <1>3 DEF vars, procVars, clientVars, Echo!echoVars, Owed, HasTurn
<1>4. ChildInv /\ ChildInv' /\ [Next]_vars => [Echo!EchoNext]_(Echo!echoVars)
  BY <1>2, <1>3
<1> QED
  BY <1>1, <1>4, Invariance, PTL DEF Spec, ServesEcho, Echo!EchoSpec
=============================================================================
