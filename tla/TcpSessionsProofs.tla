------------------------- MODULE TcpSessionsProofs -------------------------
(***************************************************************************)
(* The sessions of TcpSessions for every number of clients, descriptors    *)
(* and processes.                                                          *)
(***************************************************************************)
EXTENDS TcpSessions, FiniteSetTheorems, TLAPS

\* Nobody on the server's side has accepted the connection yet.
Unheld(c) == c \notin fds /\ \A k \in Kids : kcfd[k] # c /\ c \notin kfds[k]

\* A client waits for accept at most once, and only before it is accepted.
Distinct(s) == \A i, j \in DOMAIN s : s[i] = s[j] => i = j

BacklogOK ==
    /\ Distinct(backlog)
    /\ \A c \in Waiting : Unheld(c)

\* Of a client that has not connected there is nothing at all.
ConnectOK ==
    \A c \in Clients : cpc[c] = "connect" =>
        /\ c \notin Waiting /\ Unheld(c)
        /\ up[c] = 0 /\ down[c] = 0 /\ reset[c] = "no"

\* Between accept and fork the new connection is the server's alone.
ForkOK ==
    main = "fork" /\ cfd # NoClient =>
        cfd \in fds /\ \A k \in Kids : kcfd[k] # cfd /\ cfd \notin kfds[k]

\* Every open connection has exactly one child that serves it, or did.
OwnersOK ==
    /\ \A j, k \in Kids : kcfd[j] = kcfd[k] /\ kcfd[j] # NoClient => j = k
    /\ \A c \in fds : (main = "fork" /\ cfd = c) \/ \E k \in Kids : kcfd[k] = c
    /\ \A j \in Kids : \A c \in kfds[j] : \E k \in Kids : kcfd[k] = c

KidsOK ==
    \A k \in Kids :
        /\ kpc[k] = "unborn" => kcfd[k] = NoClient /\ kfds[k] = {}
        /\ kpc[k] = "ended" => kfds[k] = {}
        /\ kcfd[k] # NoClient =>
            IF kpc[k] = "ended" THEN Left(kcfd[k]) ELSE kcfd[k] \in kfds[k]

KidsTurn == {"born", "greet", "send"}

\* A session starts with the welcome, and has one message or speaker ever after.
SessionsOK ==
    \A c \in Connected :
        /\ InServersHands(c) =>
            cpc[c] = "greeting" /\ up[c] = 0 /\ down[c] = 0 /\ reset[c] = "no"
        /\ \A k \in Kids : kcfd[k] = c =>
            /\ reset[c] = "no"
            /\ up[c] + down[c] + (IF cpc[c] = "say" THEN 1 ELSE 0)
                + (IF kpc[k] \in KidsTurn THEN 1 ELSE 0) = 1

\* The inductive invariant.
IInv ==
    /\ TypeOK
    /\ BacklogOK
    /\ ConnectOK
    /\ ForkOK
    /\ OwnersOK
    /\ KidsOK
    /\ SessionsOK

-----------------------------------------------------------------------------
(* Sequences and small sets *)

Elements(s) == {s[j] : j \in DOMAIN s}

LEMMA AppendElements ==
    ASSUME NEW S, NEW s \in Seq(S), NEW x \in S
    PROVE  /\ Elements(Append(s, x)) = Elements(s) \cup {x}
           /\ Distinct(s) /\ x \notin Elements(s) => Distinct(Append(s, x))
<1>1. /\ Len(s) \in Nat /\ DOMAIN s = 1 .. Len(s)
      /\ DOMAIN Append(s, x) = 1 .. Len(s) + 1
      /\ \A j \in 1 .. Len(s) : Append(s, x)[j] = s[j]
      /\ Append(s, x)[Len(s) + 1] = x
  OBVIOUS
<1>2. DOMAIN Append(s, x) = DOMAIN s \cup {Len(s) + 1} /\ Len(s) + 1 \notin DOMAIN s
  BY <1>1
<1>3. Elements(Append(s, x)) = Elements(s) \cup {x}
  BY <1>1, <1>2 DEF Elements
<1>4. ASSUME Distinct(s), x \notin Elements(s)
      PROVE  Distinct(Append(s, x))
  BY <1>1, <1>2, <1>4 DEF Elements, Distinct
<1> QED BY <1>3, <1>4

LEMMA TailElements ==
    ASSUME NEW S, NEW s \in Seq(S), s # <<>>
    PROVE  /\ Head(s) \in S /\ Tail(s) \in Seq(S)
           /\ Elements(s) = Elements(Tail(s)) \cup {Head(s)}
           /\ Distinct(s) => Distinct(Tail(s)) /\ Head(s) \notin Elements(Tail(s))
<1>1. /\ Len(s) \in Nat \ {0} /\ DOMAIN s = 1 .. Len(s)
      /\ DOMAIN Tail(s) = 1 .. Len(s) - 1
      /\ \A j \in 1 .. Len(s) - 1 : Tail(s)[j] = s[j + 1]
      /\ Head(s) = s[1] /\ Head(s) \in S /\ Tail(s) \in Seq(S)
  OBVIOUS
<1>2. Elements(s) \subseteq Elements(Tail(s)) \cup {Head(s)}
  <2> SUFFICES ASSUME NEW j \in DOMAIN s
               PROVE  s[j] \in Elements(Tail(s)) \cup {Head(s)}
    BY DEF Elements
  <2>1. CASE j = 1
    BY <1>1, <2>1
  <2>2. CASE j # 1
    <3>1. j - 1 \in DOMAIN Tail(s) /\ Tail(s)[j - 1] = s[j]
      BY <1>1, <2>2
    <3> QED BY <3>1 DEF Elements
  <2> QED BY <2>1, <2>2
<1>3. Elements(Tail(s)) \cup {Head(s)} \subseteq Elements(s)
  <2>1. \A j \in DOMAIN Tail(s) : j + 1 \in DOMAIN s /\ Tail(s)[j] = s[j + 1]
    BY <1>1
  <2>2. 1 \in DOMAIN s
    BY <1>1
  <2> QED BY <1>1, <2>1, <2>2 DEF Elements
<1>4. ASSUME Distinct(s)
      PROVE  Distinct(Tail(s)) /\ Head(s) \notin Elements(Tail(s))
  BY <1>1, <1>4 DEF Distinct, Elements
<1> QED BY <1>1, <1>2, <1>3, <1>4

LEMMA AtMostOne ==
    ASSUME NEW S, \A x, z \in S : x = z
    PROVE  Cardinality(S) = IF S = {} THEN 0 ELSE 1
<1>1. CASE S = {}
  BY <1>1, FS_EmptySet
<1>2. CASE S # {}
  <2>1. PICK x : x \in S
    BY <1>2
  <2>2. S = {x}
    BY <2>1
  <2> QED BY <2>2, FS_Singleton
<1> QED BY <1>1, <1>2

-----------------------------------------------------------------------------
(* The server's steps *)

LEMMA Inits == Init => IInv
<1> SUFFICES ASSUME Init PROVE IInv
  OBVIOUS
<1>1. TypeOK
  BY DEF Init, TypeOK
<1>2. BacklogOK /\ ConnectOK /\ ForkOK /\ OwnersOK /\ KidsOK
  BY BoundsAssumption
     DEF Init, BacklogOK, Distinct, Waiting, ConnectOK, Unheld, ForkOK, OwnersOK, KidsOK
<1>3. SessionsOK
  BY DEF Init, SessionsOK, Connected
<1> QED BY <1>1, <1>2, <1>3 DEF IInv

LEMMA ListenStep ==
    ASSUME IInv, MainListen
    PROVE  IInv'
<1> USE DEF IInv, MainListen, MainGoto, kidVars, wireVars
<1>1. TypeOK'
  BY DEF TypeOK
<1>2. BacklogOK' /\ ConnectOK' /\ ForkOK' /\ KidsOK'
  BY DEF BacklogOK, Waiting, ConnectOK, Unheld, ForkOK, KidsOK, Left
<1>3. OwnersOK'
  BY DEF OwnersOK
<1>4. SessionsOK'
  BY DEF SessionsOK, Connected, InServersHands, Waiting
<1> QED BY <1>1, <1>2, <1>3, <1>4

\* Only the connections that wait are reset, and then none waits any more.
LEMMA CloseFacts ==
    ASSUME TypeOK, NEW last \in BOOLEAN, CloseListening(last)
    PROVE  /\ backlog' \in Seq(Clients) /\ backlog' \in {<<>>, backlog}
           /\ Waiting' \subseteq Waiting
           /\ reset' \in [Clients -> {"no", "yes", "told"}]
           /\ \A c \in Clients : c \notin Waiting \/ c \in Waiting' => reset'[c] = reset[c]
<1>1. CASE last
  <2>1. /\ backlog' = <<>>
        /\ reset' = [c \in Clients |-> IF c \in Waiting THEN "yes" ELSE reset[c]]
    BY <1>1 DEF CloseListening
  <2>2. Waiting' = {} /\ <<>> \in Seq(Clients)
    BY <2>1 DEF Waiting
  <2> QED BY <2>1, <2>2 DEF TypeOK
<1>2. CASE ~last
  BY <1>2 DEF CloseListening, Waiting, TypeOK
<1> QED BY <1>1, <1>2

LEMMA ExitStep ==
    ASSUME IInv, NEW from, MainExit(from)
    PROVE  IInv'
<1> USE DEF IInv, MainExit, MainGoto, kidVars
<1>1. /\ backlog' \in Seq(Clients) /\ backlog' \in {<<>>, backlog}
      /\ Waiting' \subseteq Waiting
      /\ reset' \in [Clients -> {"no", "yes", "told"}]
      /\ \A c \in Clients : c \notin Waiting \/ c \in Waiting' => reset'[c] = reset[c]
  BY CloseFacts
<1>2. TypeOK'
  BY <1>1 DEF TypeOK
<1>3. BacklogOK' /\ ConnectOK' /\ ForkOK' /\ KidsOK'
  BY <1>1 DEF BacklogOK, Distinct, ConnectOK, Unheld, ForkOK, KidsOK, Left
<1>4. OwnersOK'
  BY DEF OwnersOK
<1>5. SessionsOK'
  BY <1>1 DEF SessionsOK, Connected, InServersHands, BacklogOK, Unheld
<1> QED BY <1>2, <1>3, <1>4, <1>5

LEMMA AcceptStep ==
    ASSUME IInv, MainAccept
    PROVE  IInv'
<1> USE DEF IInv, MainAccept, MainGoto, kidVars, wireVars
<1>1. PICK h \in Clients :
        /\ h = Head(backlog) /\ cfd' = h /\ fds' = fds \cup {h}
        /\ h \in Waiting /\ h \notin Waiting' /\ Waiting = Waiting' \cup {h}
        /\ backlog' \in Seq(Clients) /\ Distinct(backlog')
  <2>1. /\ backlog \in Seq(Clients) /\ backlog # <<>> /\ Distinct(backlog)
        /\ backlog' = Tail(backlog)
    BY DEF TypeOK, BacklogOK
  <2>2. Waiting = Elements(backlog) /\ Waiting' = Elements(Tail(backlog))
    BY <2>1 DEF Waiting, Elements
  <2> QED BY <2>1, <2>2, TailElements
<1>2. TypeOK'
  BY <1>1 DEF TypeOK
<1>3. BacklogOK' /\ ConnectOK' /\ ForkOK' /\ KidsOK'
  BY <1>1 DEF BacklogOK, ConnectOK, Unheld, ForkOK, KidsOK, Left
<1>4. OwnersOK'
  BY <1>1 DEF OwnersOK
<1>5. SessionsOK'
  BY <1>1 DEF SessionsOK, Connected, InServersHands
<1> QED BY <1>2, <1>3, <1>4, <1>5

LEMMA AcceptFailsStep ==
    ASSUME IInv, MainAcceptFails
    PROVE  IInv'
<1> USE DEF IInv, MainAcceptFails, MainGoto, kidVars, wireVars
<1>1. TypeOK'
  BY DEF TypeOK
<1>2. BacklogOK' /\ ConnectOK' /\ ForkOK' /\ KidsOK'
  BY DEF BacklogOK, Waiting, ConnectOK, Unheld, ForkOK, KidsOK, Left
<1>3. OwnersOK'
  BY DEF OwnersOK
<1>4. SessionsOK'
  BY BoundsAssumption DEF SessionsOK, Connected, InServersHands, Waiting
<1> QED BY <1>1, <1>2, <1>3, <1>4

LEMMA ForkStep ==
    ASSUME IInv, MainFork
    PROVE  IInv'
<1> USE DEF IInv, MainFork, MainGoto, wireVars
<1>1. PICK kid \in Kids :
        /\ kpc[kid] = "unborn"
        /\ kpc' = [kpc EXCEPT ![kid] = "born"]
        /\ kcfd' = [kcfd EXCEPT ![kid] = cfd]
        /\ kfds' = [kfds EXCEPT ![kid] = fds]
  BY DEF NextKid
<1>2. /\ kcfd[kid] = NoClient /\ kfds[kid] = {}
      /\ kpc'[kid] = "born" /\ kcfd'[kid] = cfd /\ kfds'[kid] = fds
      /\ \A k \in Kids \ {kid} : kpc'[k] = kpc[k] /\ kcfd'[k] = kcfd[k] /\ kfds'[k] = kfds[k]
  BY <1>1 DEF KidsOK, TypeOK
<1>3. TypeOK'
  BY <1>1 DEF TypeOK
<1>4. Waiting' = Waiting
  BY DEF Waiting
<1>5. BacklogOK'
  <2>1. \A c \in Waiting : Unheld(c)'
    <3> SUFFICES ASSUME NEW c \in Waiting PROVE Unheld(c)'
      OBVIOUS
    <3>1. Unheld(c) /\ c # NoClient
      BY BoundsAssumption DEF BacklogOK, Waiting, TypeOK
    <3>2. c # cfd
      BY <3>1 DEF ForkOK, Unheld
    <3> QED BY <1>2, <3>1, <3>2 DEF Unheld
  <2> QED BY <1>4, <2>1 DEF BacklogOK
<1>6. ConnectOK'
  BY <1>2, <1>4, BoundsAssumption DEF ConnectOK, Unheld, ForkOK
<1>7. ForkOK'
  BY DEF ForkOK
<1>8. OwnersOK'
  <2>1. \A j, k \in Kids : kcfd'[j] = kcfd'[k] /\ kcfd'[j] # NoClient => j = k
    BY <1>2 DEF OwnersOK, ForkOK
  <2>2. \A c \in fds : \E k \in Kids : kcfd'[k] = c
    BY <1>2, BoundsAssumption DEF OwnersOK, TypeOK
  <2>3. \A j \in Kids : \A c \in kfds'[j] : \E k \in Kids : kcfd'[k] = c
    <3> SUFFICES ASSUME NEW j \in Kids, NEW c \in kfds'[j]
                 PROVE  \E k \in Kids : kcfd'[k] = c
      OBVIOUS
    <3>1. CASE j = kid
      BY <1>2, <2>2, <3>1
    <3>2. CASE j # kid
      <4>1. c # NoClient /\ \E k \in Kids : kcfd[k] = c
        BY <1>2, <3>2, BoundsAssumption DEF OwnersOK, TypeOK
      <4> QED BY <1>2, <4>1
    <3> QED BY <3>1, <3>2
  <2> QED BY <2>1, <2>2, <2>3 DEF OwnersOK
<1>9. KidsOK'
  BY <1>2 DEF KidsOK, ForkOK, Left
<1>10. SessionsOK'
  <2> SUFFICES ASSUME NEW c \in Connected
      PROVE  /\ InServersHands(c)' =>
                 cpc[c] = "greeting" /\ up[c] = 0 /\ down[c] = 0 /\ reset[c] = "no"
             /\ \A k \in Kids : kcfd'[k] = c =>
                 /\ reset[c] = "no"
                 /\ up[c] + down[c] + (IF cpc[c] = "say" THEN 1 ELSE 0)
                     + (IF kpc'[k] \in KidsTurn THEN 1 ELSE 0) = 1
    BY DEF SessionsOK, Connected
  <2>1. InServersHands(c)' => InServersHands(c)
    BY <1>4 DEF InServersHands
  <2>2. ASSUME NEW k \in Kids, kcfd'[k] = c
        PROVE  /\ reset[c] = "no"
               /\ up[c] + down[c] + (IF cpc[c] = "say" THEN 1 ELSE 0)
                     + (IF kpc'[k] \in KidsTurn THEN 1 ELSE 0) = 1
    <3>1. CASE k = kid
      <4>1. InServersHands(c)
        BY <1>2, <2>2, <3>1 DEF InServersHands
      <4> QED BY <1>2, <3>1, <4>1 DEF SessionsOK, KidsTurn
    <3>2. CASE k # kid
      BY <1>2, <2>2, <3>2 DEF SessionsOK
    <3> QED BY <3>1, <3>2
  <2> QED BY <2>1, <2>2 DEF SessionsOK
<1> QED BY <1>3, <1>5, <1>6, <1>7, <1>8, <1>9, <1>10

-----------------------------------------------------------------------------
(* The children's steps *)

LEMMA KidCloseStep ==
    ASSUME IInv, NEW k \in Kids, KidClose(k)
    PROVE  IInv'
<1> USE DEF IInv, KidClose, KidGoto
<1>1. /\ backlog' \in Seq(Clients) /\ backlog' \in {<<>>, backlog}
      /\ Waiting' \subseteq Waiting
      /\ reset' \in [Clients -> {"no", "yes", "told"}]
      /\ \A c \in Clients : c \notin Waiting \/ c \in Waiting' => reset'[c] = reset[c]
  BY CloseFacts
<1>2. /\ kpc[k] = "born" /\ kpc'[k] = "greet"
      /\ \A j \in Kids \ {k} : kpc'[j] = kpc[j]
  BY DEF TypeOK
<1>3. TypeOK'
  BY <1>1 DEF TypeOK
<1>4. BacklogOK' /\ ConnectOK' /\ ForkOK'
  BY <1>1 DEF BacklogOK, Distinct, ConnectOK, Unheld, ForkOK
<1>5. KidsOK'
  BY <1>2 DEF KidsOK, Left
<1>6. OwnersOK'
  BY DEF OwnersOK
<1>7. SessionsOK'
  <2>1. \A j \in Kids : kpc'[j] \in KidsTurn <=> kpc[j] \in KidsTurn
    BY <1>2 DEF KidsTurn
  <2> SUFFICES ASSUME NEW c \in Connected
      PROVE  /\ InServersHands(c)' =>
                 cpc[c] = "greeting" /\ up[c] = 0 /\ down[c] = 0 /\ reset'[c] = "no"
             /\ \A j \in Kids : kcfd[j] = c =>
                 /\ reset'[c] = "no"
                 /\ up[c] + down[c] + (IF cpc[c] = "say" THEN 1 ELSE 0)
                     + (IF kpc'[j] \in KidsTurn THEN 1 ELSE 0) = 1
    BY DEF SessionsOK, Connected
  <2>2. c \in Clients
    BY DEF Connected
  <2>3. ASSUME InServersHands(c)' PROVE InServersHands(c) /\ reset'[c] = reset[c]
    BY <1>1, <2>2, <2>3, BoundsAssumption DEF InServersHands, BacklogOK, Unheld, ForkOK
  <2>4. ASSUME NEW j \in Kids, kcfd[j] = c PROVE reset'[c] = reset[c]
    BY <1>1, <2>2, <2>4 DEF BacklogOK, Unheld
  <2>5. ASSUME NEW j \in Kids
        PROVE  (kpc'[j] \in KidsTurn) = (kpc[j] \in KidsTurn)
    BY <2>1
  <2> QED BY <2>3, <2>4, <2>5 DEF SessionsOK
<1> QED BY <1>3, <1>4, <1>5, <1>6, <1>7

\* A step of child k that leaves who holds what alone, and of the sessions changes
\* only its own.
LEMMA KidTurn ==
    ASSUME IInv, NEW k \in Kids, UNCHANGED <<serverVars, kcfd, cpc>>, TypeOK',
           \A j \in Kids \ {k} : kpc'[j] = kpc[j] /\ kfds'[j] = kfds[j],
           kpc[k] \notin {"unborn", "ended"}, kpc'[k] # "unborn",
           kfds'[k] = IF kpc'[k] = "ended" THEN {} ELSE kfds[k],
           kpc'[k] = "ended" /\ kcfd[k] # NoClient => Left(kcfd[k]),
           \A c \in Clients \ {kcfd[k]} :
               up'[c] = up[c] /\ down'[c] = down[c] /\ reset'[c] = reset[c],
           kcfd[k] \in Connected =>
               /\ reset'[kcfd[k]] = reset[kcfd[k]]
               /\ up'[kcfd[k]] + down'[kcfd[k]] + (IF kpc'[k] \in KidsTurn THEN 1 ELSE 0)
                  = up[kcfd[k]] + down[kcfd[k]] + (IF kpc[k] \in KidsTurn THEN 1 ELSE 0)
    PROVE  IInv'
<1> USE DEF IInv, serverVars
<1>1. Waiting' = Waiting
  BY DEF Waiting
<1>2. \A c : Unheld(c) => Unheld(c)' /\ c # kcfd[k]
  BY DEF Unheld
<1>3. BacklogOK'
  BY <1>1, <1>2 DEF BacklogOK
<1>4. ConnectOK'
  BY <1>1, <1>2 DEF ConnectOK
<1>5. ForkOK'
  BY DEF ForkOK
<1>6. OwnersOK'
  BY DEF OwnersOK
<1>7. KidsOK'
  BY DEF KidsOK, Left
<1>8. SessionsOK'
  <2> SUFFICES ASSUME NEW c \in Connected
      PROVE  /\ InServersHands(c)' =>
                 cpc[c] = "greeting" /\ up'[c] = 0 /\ down'[c] = 0 /\ reset'[c] = "no"
             /\ \A j \in Kids : kcfd[j] = c =>
                 /\ reset'[c] = "no"
                 /\ up'[c] + down'[c] + (IF cpc[c] = "say" THEN 1 ELSE 0)
                     + (IF kpc'[j] \in KidsTurn THEN 1 ELSE 0) = 1
    BY DEF SessionsOK, Connected
  <2>1. c \in Clients
    BY DEF Connected
  <2>2. InServersHands(c)' => InServersHands(c)
    BY <1>1 DEF InServersHands
  <2>3. InServersHands(c) => c # kcfd[k]
    BY <1>2, BoundsAssumption, <2>1 DEF InServersHands, BacklogOK, ForkOK
  <2>4. CASE c # kcfd[k]
    BY <2>1, <2>2, <2>4 DEF SessionsOK
  <2>5. CASE c = kcfd[k]
    <3>1. \A j \in Kids : kcfd[j] = c => j = k
      BY <2>1, <2>5, BoundsAssumption DEF OwnersOK
    <3>2. /\ up[c] \in Nat /\ down[c] \in Nat /\ up'[c] \in Nat /\ down'[c] \in Nat
      BY <2>1 DEF TypeOK
    <3>3. /\ reset'[c] = "no"
          /\ up[c] + down[c] + (IF cpc[c] = "say" THEN 1 ELSE 0)
                     + (IF kpc[k] \in KidsTurn THEN 1 ELSE 0) = 1
          /\ up'[c] + down'[c] + (IF kpc'[k] \in KidsTurn THEN 1 ELSE 0)
             = up[c] + down[c] + (IF kpc[k] \in KidsTurn THEN 1 ELSE 0)
      BY <2>5 DEF SessionsOK
    <3>4. up'[c] + down'[c] + (IF cpc[c] = "say" THEN 1 ELSE 0)
                     + (IF kpc'[k] \in KidsTurn THEN 1 ELSE 0) = 1
      BY <3>2, <3>3
    <3> QED BY <2>2, <2>3, <2>5, <3>1, <3>3, <3>4
  <2> QED BY <2>4, <2>5
<1> QED BY <1>3, <1>4, <1>5, <1>6, <1>7, <1>8

LEMMA KidSendStep ==
    ASSUME IInv, NEW k \in Kids, KidSend(k)
    PROVE  IInv'
<1> USE DEF IInv, KidSend
<1>1. /\ kpc[k] \in {"greet", "send"} /\ kpc'[k] = "recv"
      /\ \A j \in Kids \ {k} : kpc'[j] = kpc[j]
      /\ kcfd[k] \in Clients \cup {NoClient}
  BY DEF TypeOK
<1>2. CASE UNCHANGED wireVars /\ kcfd[k] = NoClient
  <2>1. TypeOK'
    BY <1>2 DEF TypeOK, serverVars, wireVars
  <2>2. kcfd[k] \notin Connected
    BY <1>2, BoundsAssumption DEF Connected
  <2> QED BY <1>1, <1>2, <2>1, <2>2, KidTurn DEF wireVars
<1>3. CASE kcfd[k] # NoClient /\ Deliver(kcfd[k])
  <2>1. TypeOK'
    BY <1>1, <1>3 DEF TypeOK, serverVars, Deliver
  <2>2. /\ down'[kcfd[k]] = down[kcfd[k]] + 1
        /\ \A c \in Clients \ {kcfd[k]} : down'[c] = down[c]
        /\ UNCHANGED <<up, reset>>
        /\ up[kcfd[k]] \in Nat /\ down[kcfd[k]] \in Nat
    BY <1>1, <1>3 DEF Deliver, TypeOK
  <2>3. up[kcfd[k]] + down'[kcfd[k]] + (IF kpc'[k] \in KidsTurn THEN 1 ELSE 0)
        = up[kcfd[k]] + down[kcfd[k]] + (IF kpc[k] \in KidsTurn THEN 1 ELSE 0)
    BY <1>1, <2>2 DEF KidsTurn
  <2> QED BY <1>1, <2>1, <2>2, <2>3, KidTurn
<1>4. CASE kcfd[k] # NoClient /\ Left(kcfd[k]) /\ SendToNobody(kcfd[k])
  <2>1. TypeOK'
    BY <1>1, <1>4 DEF TypeOK, serverVars, SendToNobody, Reset, Told
  <2>2. /\ \A c \in Clients \ {kcfd[k]} : reset'[c] = reset[c]
        /\ UNCHANGED <<up, down>>
    BY <1>4 DEF SendToNobody, Reset, Told, TypeOK
  <2>3. kcfd[k] \notin Connected
    BY <1>4 DEF Connected, Left
  <2> QED BY <1>1, <2>1, <2>2, <2>3, KidTurn
<1> QED BY <1>2, <1>3, <1>4

LEMMA KidKilledStep ==
    ASSUME IInv, NEW k \in Kids, KidKilled(k)
    PROVE  IInv'
<1> USE DEF IInv, KidKilled
<1>1. /\ kpc[k] \in {"greet", "send"} /\ kpc'[k] = "ended" /\ kfds'[k] = {}
      /\ \A j \in Kids \ {k} : kpc'[j] = kpc[j] /\ kfds'[j] = kfds[j]
      /\ kcfd[k] \in Clients
  BY DEF TypeOK
<1>2. TypeOK'
  BY DEF TypeOK, serverVars, wireVars
<1>3. kcfd[k] \notin Connected
  BY DEF SessionsOK
<1>4. cpc[kcfd[k]] # "connect"
  BY <1>1 DEF ConnectOK, Unheld
<1>5. Left(kcfd[k])
  BY <1>1, <1>3, <1>4 DEF Left, Connected, TypeOK
<1> QED BY <1>1, <1>2, <1>3, <1>5, KidTurn DEF wireVars

LEMMA KidRecvStep ==
    ASSUME IInv, NEW k \in Kids, KidRecv(k)
    PROVE  IInv'
<1> USE DEF IInv, KidRecv, KidGoto
<1>1. /\ kpc[k] = "recv" /\ kpc'[k] = "send"
      /\ \A j \in Kids \ {k} : kpc'[j] = kpc[j]
      /\ kcfd[k] \in Clients
  BY DEF TypeOK
<1>2. /\ up'[kcfd[k]] = up[kcfd[k]] - 1 /\ up[kcfd[k]] > 0
      /\ \A c \in Clients \ {kcfd[k]} : up'[c] = up[c]
      /\ up[kcfd[k]] \in Nat /\ down[kcfd[k]] \in Nat
  BY <1>1 DEF TypeOK
<1>3. TypeOK'
  BY <1>1, <1>2 DEF TypeOK, serverVars
<1>4. up'[kcfd[k]] + down[kcfd[k]] + (IF kpc'[k] \in KidsTurn THEN 1 ELSE 0)
      = up[kcfd[k]] + down[kcfd[k]] + (IF kpc[k] \in KidsTurn THEN 1 ELSE 0)
  BY <1>1, <1>2 DEF KidsTurn
<1> QED BY <1>1, <1>2, <1>3, <1>4, KidTurn

LEMMA KidRecvNothingStep ==
    ASSUME IInv, NEW k \in Kids, KidRecvNothing(k)
    PROVE  IInv'
<1> USE DEF IInv, KidRecvNothing, KidGoto
<1>1. /\ kpc[k] = "recv" /\ kpc'[k] = "send"
      /\ \A j \in Kids \ {k} : kpc'[j] = kpc[j]
      /\ UNCHANGED <<up, down>>
  BY DEF TypeOK
<1>2. \A c \in Clients \ {kcfd[k]} : reset'[c] = reset[c]
  BY DEF Told, TypeOK
<1>3. TypeOK'
  BY DEF TypeOK, serverVars, Told
<1>4. kcfd[k] \notin Connected
  BY BoundsAssumption DEF Connected, Left
<1> QED BY <1>1, <1>2, <1>3, <1>4, KidTurn

-----------------------------------------------------------------------------
(* The clients' steps *)

\* A client that is in the hands of a child, or of nobody yet, can be reached.
LEMMA HeldIsServed ==
    ASSUME IInv, NEW c \in Connected
    PROVE  /\ InServersHands(c) => Served(c)
           /\ \A k \in Kids : kcfd[k] = c => Served(c)
BY BoundsAssumption
   DEF IInv, InServersHands, Served, ForkOK, KidsOK, Connected, Left

\* A step of client c that touches nothing of the server, and of the sessions
\* changes only its own.
LEMMA ClientTurn ==
    ASSUME IInv, NEW c \in Clients, TypeOK', UNCHANGED <<serverVars, kidVars>>,
           \A d \in Clients \ {c} :
               /\ cpc'[d] = cpc[d]
               /\ up'[d] = up[d] /\ down'[d] = down[d] /\ reset'[d] = reset[d],
           cpc'[c] # "connect",
           Left(c) => cpc'[c] = "left",
           cpc'[c] # "left" =>
               /\ c \in Connected
               /\ ~InServersHands(c)
               /\ (\E k \in Kids : kcfd[k] = c) =>
                   /\ reset'[c] = reset[c]
                   /\ up'[c] + down'[c] + (IF cpc'[c] = "say" THEN 1 ELSE 0)
                      = up[c] + down[c] + (IF cpc[c] = "say" THEN 1 ELSE 0)
    PROVE  IInv'
<1> USE DEF IInv, serverVars, kidVars
<1>1. Waiting' = Waiting
  BY DEF Waiting
<1>2. \A d : Unheld(d)' = Unheld(d)
  BY DEF Unheld
<1>3. BacklogOK' /\ ForkOK' /\ OwnersOK'
  BY <1>1, <1>2 DEF BacklogOK, ForkOK, OwnersOK
<1>4. ConnectOK'
  BY <1>1, <1>2 DEF ConnectOK
<1>5. KidsOK'
  BY DEF KidsOK, Left, TypeOK
<1>6. SessionsOK'
  <2> SUFFICES ASSUME NEW d \in Clients, cpc'[d] \in {"greeting", "say", "hear"}
      PROVE  /\ InServersHands(d)' =>
                 cpc'[d] = "greeting" /\ up'[d] = 0 /\ down'[d] = 0 /\ reset'[d] = "no"
             /\ \A k \in Kids : kcfd[k] = d =>
                 /\ reset'[d] = "no"
                 /\ up'[d] + down'[d] + (IF cpc'[d] = "say" THEN 1 ELSE 0)
                     + (IF kpc[k] \in KidsTurn THEN 1 ELSE 0) = 1
    BY DEF SessionsOK, Connected
  <2>1. InServersHands(d)' = InServersHands(d)
    BY <1>1 DEF InServersHands
  <2>2. CASE d # c
    BY <2>1, <2>2 DEF SessionsOK, Connected
  <2>3. CASE d = c
    <3>1. c \in Connected /\ ~InServersHands(c)
      BY <2>3
    <3>2. ASSUME NEW k \in Kids, kcfd[k] = c
          PROVE  /\ reset'[c] = "no"
                 /\ up'[c] + down'[c] + (IF cpc'[c] = "say" THEN 1 ELSE 0)
                     + (IF kpc[k] \in KidsTurn THEN 1 ELSE 0) = 1
      <4>1. /\ reset[c] = "no"
            /\ up[c] + down[c] + (IF cpc[c] = "say" THEN 1 ELSE 0)
                     + (IF kpc[k] \in KidsTurn THEN 1 ELSE 0) = 1
        BY <3>1, <3>2 DEF SessionsOK
      <4>2. /\ reset'[c] = reset[c]
            /\ up'[c] + down'[c] + (IF cpc'[c] = "say" THEN 1 ELSE 0)
               = up[c] + down[c] + (IF cpc[c] = "say" THEN 1 ELSE 0)
        BY <2>3, <3>2
      <4> QED BY <4>1, <4>2
    <3> QED BY <2>1, <2>3, <3>1, <3>2
  <2> QED BY <2>2, <2>3
<1> QED BY <1>3, <1>4, <1>5, <1>6

LEMMA ConnectStep ==
    ASSUME IInv, NEW c \in Clients, ClientConnect(c)
    PROVE  IInv'
<1> USE DEF IInv, ClientConnect, ClientGoto, kidVars, wireVars
<1>1. /\ cpc[c] = "connect" /\ cpc'[c] = "greeting"
      /\ \A d \in Clients \ {c} : cpc'[d] = cpc[d]
      /\ c \notin Waiting /\ Unheld(c)
      /\ up[c] = 0 /\ down[c] = 0 /\ reset[c] = "no"
  BY DEF TypeOK, ConnectOK
<1>2. Waiting' = Waiting \cup {c} /\ Distinct(backlog')
  <2>1. Waiting = Elements(backlog) /\ Waiting' = Elements(Append(backlog, c))
    BY DEF Waiting, Elements
  <2>2. backlog \in Seq(Clients) /\ Distinct(backlog)
    BY DEF TypeOK, BacklogOK
  <2> QED BY <1>1, <2>1, <2>2, AppendElements
<1>3. TypeOK'
  BY DEF TypeOK
<1>4. \A d : Unheld(d)' = Unheld(d)
  BY DEF Unheld
<1>5. BacklogOK' /\ ForkOK' /\ OwnersOK'
  BY <1>1, <1>2, <1>4 DEF BacklogOK, ForkOK, OwnersOK
<1>6. ConnectOK'
  BY <1>1, <1>2, <1>4 DEF ConnectOK
<1>7. KidsOK'
  BY <1>1 DEF KidsOK, Left, TypeOK
<1>8. SessionsOK'
  <2> SUFFICES ASSUME NEW d \in Clients, cpc'[d] \in {"greeting", "say", "hear"}
      PROVE  /\ InServersHands(d)' =>
                 cpc'[d] = "greeting" /\ up[d] = 0 /\ down[d] = 0 /\ reset[d] = "no"
             /\ \A k \in Kids : kcfd[k] = d =>
                 /\ reset[d] = "no"
                 /\ up[d] + down[d] + (IF cpc'[d] = "say" THEN 1 ELSE 0)
                     + (IF kpc[k] \in KidsTurn THEN 1 ELSE 0) = 1
    BY DEF SessionsOK, Connected
  <2>1. CASE d # c
    <3>1. InServersHands(d)' = InServersHands(d)
      BY <1>2, <2>1 DEF InServersHands
    <3> QED BY <1>1, <2>1, <3>1 DEF SessionsOK, Connected
  <2>2. CASE d = c
    BY <1>1, <2>2 DEF Unheld
  <2> QED BY <2>1, <2>2
<1> QED BY <1>3, <1>5, <1>6, <1>7, <1>8

LEMMA ClientsStep ==
    ASSUME IInv, NEW c \in Clients, ClientStep(c) \/ ClientStopped(c)
    PROVE  IInv'
<1> USE DEF IInv
<1>1. /\ up[c] \in Nat /\ down[c] \in Nat /\ reset[c] \in {"no", "yes", "told"}
      /\ cpc[c] \in {"connect", "greeting", "say", "hear", "left"}
  BY DEF TypeOK
<1>2. c \in Connected =>
        /\ InServersHands(c) => Served(c) /\ cpc[c] = "greeting" /\ down[c] = 0
        /\ \A k \in Kids : kcfd[k] = c => Served(c)
  BY HeldIsServed DEF SessionsOK
<1>3. CASE ClientConnect(c)
  BY <1>3, ConnectStep
<1>4. CASE ClientConnectFails(c)
  <2> USE <1>4 DEF ClientConnectFails, ClientGoto
  <2>1. TypeOK'
    BY DEF TypeOK, serverVars, kidVars, wireVars
  <2>2. cpc'[c] = "left" /\ \A d \in Clients \ {c} : cpc'[d] = cpc[d]
    BY DEF TypeOK
  <2> QED BY <2>1, <2>2, ClientTurn DEF wireVars
<1>5. CASE ClientRecv(c)
  <2> USE <1>5 DEF ClientRecv
  <2>1. /\ cpc[c] \in {"greeting", "hear"} /\ cpc'[c] = "say"
        /\ \A d \in Clients \ {c} : cpc'[d] = cpc[d] /\ down'[d] = down[d]
        /\ down[c] > 0 /\ down'[c] = down[c] - 1
        /\ UNCHANGED <<up, reset, serverVars, kidVars>>
    BY DEF TypeOK
  <2>2. TypeOK'
    BY <1>1, <2>1 DEF TypeOK, serverVars, kidVars
  <2>3. up'[c] + down'[c] + (IF cpc'[c] = "say" THEN 1 ELSE 0)
        = up[c] + down[c] + (IF cpc[c] = "say" THEN 1 ELSE 0)
    BY <1>1, <2>1
  <2>4. c \in Connected /\ ~InServersHands(c) /\ ~Left(c)
    BY <1>1, <1>2, <2>1 DEF Connected, Left
  <2> QED BY <2>1, <2>2, <2>3, <2>4, ClientTurn
<1>6. CASE ClientRecvNothing(c)
  <2> USE <1>6 DEF ClientRecvNothing
  <2>1. /\ cpc[c] \in {"greeting", "hear"} /\ cpc'[c] = "say"
        /\ \A d \in Clients \ {c} : cpc'[d] = cpc[d] /\ reset'[d] = reset[d]
        /\ UNCHANGED <<up, down, serverVars, kidVars>>
    BY DEF TypeOK, Told
  <2>2. TypeOK'
    BY <2>1 DEF TypeOK, serverVars, kidVars, Told
  <2>3. c \in Connected /\ ~Served(c) /\ ~Left(c)
    BY <2>1 DEF Connected, Left
  <2> QED BY <1>2, <2>1, <2>2, <2>3, ClientTurn
<1>7. CASE ClientSend(c)
  <2> USE <1>7 DEF ClientSend, ClientGoto
  <2>1. /\ cpc[c] = "say" /\ cpc'[c] = "hear"
        /\ \A d \in Clients \ {c} : cpc'[d] = cpc[d] /\ up'[d] = up[d]
        /\ up'[c] = up[c] + 1
        /\ UNCHANGED <<down, reset, serverVars, kidVars>>
    BY DEF TypeOK
  <2>2. TypeOK'
    BY <1>1, <2>1 DEF TypeOK, serverVars, kidVars
  <2>3. up'[c] + down'[c] + (IF cpc'[c] = "say" THEN 1 ELSE 0)
        = up[c] + down[c] + (IF cpc[c] = "say" THEN 1 ELSE 0)
    BY <1>1, <2>1
  <2>4. c \in Connected /\ ~InServersHands(c) /\ ~Left(c)
    BY <1>2, <2>1 DEF Connected, Left
  <2> QED BY <2>1, <2>2, <2>3, <2>4, ClientTurn
<1>8. CASE ClientSendToNobody(c)
  <2> USE <1>8 DEF ClientSendToNobody, ClientGoto
  <2>1. /\ cpc[c] = "say" /\ cpc'[c] = "hear"
        /\ \A d \in Clients \ {c} : cpc'[d] = cpc[d] /\ reset'[d] = reset[d]
        /\ UNCHANGED <<up, down, serverVars, kidVars>>
    BY DEF TypeOK, SendToNobody, Reset, Told
  <2>2. TypeOK'
    BY <2>1 DEF TypeOK, serverVars, kidVars, SendToNobody, Reset, Told
  <2>3. c \in Connected /\ ~Served(c) /\ ~Left(c)
    BY <2>1 DEF Connected, Left
  <2> QED BY <1>2, <2>1, <2>2, <2>3, ClientTurn
<1>9. CASE Disconnect(c)
  <2> USE <1>9 DEF Disconnect
  <2>1. /\ cpc'[c] = "left"
        /\ \A d \in Clients \ {c} :
            cpc'[d] = cpc[d] /\ down'[d] = down[d] /\ reset'[d] = reset[d]
        /\ UNCHANGED <<up, serverVars, kidVars>>
    BY DEF TypeOK, Reset
  <2>2. TypeOK'
    BY <2>1 DEF TypeOK, serverVars, kidVars, Reset
  <2> QED BY <2>1, <2>2, ClientTurn
<1> QED
  BY <1>3, <1>4, <1>5, <1>6, <1>7, <1>8, <1>9
     DEF ClientStep, ClientStopped, ClientKilled

-----------------------------------------------------------------------------
(* What the server owes *)

Speaker(c) == \E k \in Kids : kcfd[k] = c /\ kpc[k] \in KidsTurn

Debt(c) ==
    up[c] + (IF InServersHands(c) THEN 1 ELSE 0) + (IF Speaker(c) THEN 1 ELSE 0)

OwedIs ==
    \A c \in Clients :
        /\ Owed(c) = IF c \in Connected /\ Served(c) THEN Debt(c) ELSE 0
        /\ Owed(c) \in Nat

\* The child that has c's connection is the only one.
LEMMA OnlyKid ==
    ASSUME IInv, NEW c \in Clients
    PROVE  \A j, k \in KidsOf(c) : j = k
BY BoundsAssumption DEF IInv, OwnersOK, KidsOf

LEMMA OwedCounted == IInv => OwedIs
<1> SUFFICES ASSUME IInv, NEW c \in Clients
             PROVE  /\ Owed(c) = IF c \in Connected /\ Served(c) THEN Debt(c) ELSE 0
                    /\ Owed(c) \in Nat
  BY DEF OwedIs
<1> DEFINE S == {k \in KidsOf(c) : kpc[k] \in {"born", "greet", "send"}}
<1>1. Cardinality(S) = IF S = {} THEN 0 ELSE 1
  <2>1. \A j, k \in S : j = k
    BY OnlyKid
  <2> QED BY <2>1, AtMostOne
<1>2. Speaker(c) <=> S # {}
  BY DEF Speaker, KidsTurn, KidsOf, Alive
<1>3. up[c] \in Nat
  BY DEF IInv, TypeOK
<1> HIDE DEF S
<1>4. (IF Speaker(c) THEN 1 ELSE 0) = Cardinality(S)
  BY <1>1, <1>2
<1> QED BY <1>1, <1>3, <1>4 DEF Owed, Debt, S

\* What a step does to c's part of the service.
Quiet(c) ==
    /\ (cpc[c] \in {"connect", "say"})' = (cpc[c] \in {"connect", "say"})
    /\ Owed(c)' = Owed(c)
    /\ down'[c] = down[c]

LEMMA QuietStep ==
    ASSUME TypeOK, TypeOK', \A c \in Clients : Quiet(c)
    PROVE  UNCHANGED Echo!echoVars
<1>1. down' = down
  BY DEF TypeOK, Quiet
<1> QED BY <1>1 DEF Quiet, Echo!echoVars

LEMMA LoseStep ==
    ASSUME IInv, IInv', UNCHANGED <<cpc, down>>,
           \A c \in Clients : Owed(c)' <= Owed(c)
    PROVE  Echo!Lose
<1>1. \A c \in Clients : Owed(c) \in Nat /\ Owed(c)' \in Nat
  <2>1. OwedIs /\ OwedIs'
    BY OwedCounted, PTL
  <2> QED BY <2>1 DEF OwedIs
<1>2. \A c \in Clients : Owed(c)' \in 0 .. Owed(c)
  BY <1>1
<1> QED BY <1>2 DEF Echo!Lose, Echo!MayFail

\* As long as a step changes nothing that c can tell, c is owed the same.
LEMMA OwedSame ==
    ASSUME IInv, IInv', NEW c \in Clients,
           cpc'[c] = cpc[c], up'[c] = up[c],
           Served(c)' = Served(c), InServersHands(c)' = InServersHands(c),
           Speaker(c)' = Speaker(c)
    PROVE  Owed(c)' = Owed(c)
<1>1. OwedIs /\ OwedIs'
  BY OwedCounted, PTL
<1>2. (c \in Connected)' = (c \in Connected)
  BY DEF Connected
<1> QED BY <1>1, <1>2 DEF OwedIs, Debt

LEMMA OwedLess ==
    ASSUME IInv, IInv', NEW c \in Clients,
           cpc'[c] = cpc[c], up'[c] = up[c],
           Served(c)' => Served(c), InServersHands(c)' => InServersHands(c),
           Speaker(c)' => Speaker(c)
    PROVE  Owed(c)' <= Owed(c)
<1>1. OwedIs /\ OwedIs'
  BY OwedCounted, PTL
<1>2. (c \in Connected)' = (c \in Connected)
  BY DEF Connected
<1>3. up[c] \in Nat
  BY DEF IInv, TypeOK
<1> QED BY <1>1, <1>2, <1>3 DEF OwedIs, Debt


LEMMA MainServes ==
    ASSUME IInv, IInv', MainStep
    PROVE  Echo!Lose \/ UNCHANGED Echo!echoVars
<1> USE DEF MainGoto, kidVars, wireVars
<1>1. /\ TypeOK /\ TypeOK'
      /\ UNCHANGED <<cpc, up, down>>
  BY DEF IInv, MainStep, MainListen, MainListenFails, MainAccept, MainAcceptFails,
         MainFork, MainForkFails, MainExit
<1>2. ASSUME \A c \in Clients :
               /\ Served(c)' = Served(c) /\ InServersHands(c)' = InServersHands(c)
               /\ Speaker(c)' = Speaker(c)
      PROVE  UNCHANGED Echo!echoVars
  <2>1. ASSUME NEW c \in Clients PROVE Owed(c)' = Owed(c)
    BY <1>1, <1>2, OwedSame
  <2> QED BY <1>1, <2>1, QuietStep DEF Quiet
<1>3. CASE MainListen
  <2>1. Waiting' = Waiting
    BY <1>3 DEF MainListen, Waiting
  <2> QED BY <1>2, <1>3, <2>1 DEF MainListen, Served, InServersHands, Speaker
<1>4. ASSUME NEW from, MainExit(from) PROVE Echo!Lose
  <2>1. Waiting' \subseteq Waiting
    BY <1>1, <1>4, CloseFacts DEF MainExit
  <2>2. ASSUME NEW c \in Clients PROVE Owed(c)' <= Owed(c)
    <3>1. /\ Served(c)' => Served(c)
          /\ InServersHands(c)' => InServersHands(c)
          /\ Speaker(c)' => Speaker(c)
      BY <1>4, <2>1 DEF MainExit, Served, InServersHands, Speaker
    <3> QED BY <1>1, <3>1, OwedLess
  <2> QED BY <1>1, <2>2, LoseStep
<1>5. CASE MainAccept
  <2>1. PICK h \in Clients :
          cfd' = h /\ fds' = fds \cup {h} /\ Waiting = Waiting' \cup {h} /\ h \notin Waiting'
    <3>1. /\ backlog \in Seq(Clients) /\ backlog # <<>> /\ Distinct(backlog)
          /\ backlog' = Tail(backlog)
      BY <1>1, <1>5 DEF TypeOK, IInv, BacklogOK, MainAccept
    <3>2. Waiting = Elements(backlog) /\ Waiting' = Elements(Tail(backlog))
      BY <3>1 DEF Waiting, Elements
    <3> QED BY <1>5, <3>1, <3>2, TailElements DEF MainAccept
  <2> QED BY <1>2, <1>5, <2>1 DEF MainAccept, Served, InServersHands, Speaker
<1>6. CASE MainAcceptFails
  <2>1. Waiting' = Waiting
    BY <1>6 DEF MainAcceptFails, Waiting
  <2> QED BY <1>2, <1>6, <2>1, BoundsAssumption
          DEF MainAcceptFails, Served, InServersHands, Speaker
<1>7. CASE MainFork
  <2>1. PICK kid \in Kids :
          /\ kpc[kid] = "unborn" /\ kpc'[kid] = "born"
          /\ kcfd'[kid] = cfd /\ kfds'[kid] = fds
          /\ \A k \in Kids \ {kid} :
               kpc'[k] = kpc[k] /\ kcfd'[k] = kcfd[k] /\ kfds'[k] = kfds[k]
    BY <1>1, <1>7 DEF MainFork, NextKid, TypeOK
  <2>2. kcfd[kid] = NoClient /\ kfds[kid] = {}
    BY <2>1 DEF IInv, KidsOK
  <2>3. Waiting' = Waiting /\ main = "fork" /\ main' = "accept" /\ fds' = fds /\ cfd' = cfd
    BY <1>7 DEF MainFork, Waiting
  <2>4. ASSUME NEW c \in Clients
        PROVE  Owed(c)' = Owed(c)
    <3>1. Served(c)' = Served(c)
      BY <2>1, <2>2, <2>3 DEF Served
    <3>2. CASE c # cfd
      <4>1. Speaker(c)' = Speaker(c)
        BY <2>1, <2>2, <3>2, BoundsAssumption DEF Speaker, KidsTurn
      <4>2. InServersHands(c)' = InServersHands(c)
        BY <2>3, <3>2 DEF InServersHands
      <4> QED BY <1>1, <3>1, <4>1, <4>2, OwedSame
    <3>3. CASE c = cfd
      <4>1. c \in fds /\ \A k \in Kids : kcfd[k] # c
        BY <2>3, <3>3, BoundsAssumption DEF IInv, ForkOK
      <4>2. c \notin Waiting
        BY <4>1 DEF IInv, BacklogOK, Unheld
      <4>3. ~Speaker(c) /\ Speaker(c)' /\ InServersHands(c) /\ ~InServersHands(c)'
        BY <2>1, <2>3, <3>3, <4>1, <4>2 DEF Speaker, KidsTurn, InServersHands
      <4>4. Debt(c)' = Debt(c)
        BY <1>1, <4>3 DEF Debt, TypeOK
      <4>5. OwedIs /\ OwedIs'
        BY OwedCounted, PTL
      <4>6. (c \in Connected)' = (c \in Connected)
        BY <1>1 DEF Connected
      <4> QED BY <3>1, <4>4, <4>5, <4>6 DEF OwedIs
    <3> QED BY <3>2, <3>3
  <2> QED BY <1>1, <2>4, QuietStep DEF Quiet
<1> QED
  BY <1>3, <1>4, <1>5, <1>6, <1>7
     DEF MainStep, MainListenFails, MainForkFails

\* A step of child k that changes the sessions of its own client only.
LEMMA KidSame ==
    ASSUME IInv, IInv', NEW k \in Kids, UNCHANGED <<serverVars, kcfd, kfds, cpc>>,
           \A j \in Kids \ {k} : kpc'[j] = kpc[j],
           NEW c \in Clients, up'[c] = up[c],
           kcfd[k] = c => (kpc'[k] \in KidsTurn) = (kpc[k] \in KidsTurn)
    PROVE  Owed(c)' = Owed(c)
<1>1. Waiting' = Waiting
  BY DEF Waiting, serverVars
<1>2. Served(c)' = Served(c) /\ InServersHands(c)' = InServersHands(c)
  BY <1>1 DEF Served, InServersHands, serverVars
<1>3. Speaker(c)' = Speaker(c)
  BY DEF Speaker
<1> QED BY <1>2, <1>3, OwedSame

\* Of a client that has left nothing is owed.
LEMMA LeftOwed ==
    ASSUME IInv, IInv', NEW c \in Clients, Left(c), cpc'[c] = cpc[c]
    PROVE  Owed(c)' = Owed(c)
<1>1. c \notin Connected /\ (c \notin Connected)'
  BY DEF Connected, Left
<1> QED BY <1>1 DEF Owed

\* The client of a child that is connected can be reached, and no other child
\* serves it.
LEMMA KidsClient ==
    ASSUME IInv, NEW k \in Kids, kcfd[k] # NoClient, ~Left(kcfd[k])
    PROVE  /\ kcfd[k] \in Connected /\ Served(kcfd[k])
           /\ \A j \in Kids : kcfd[j] = kcfd[k] => j = k
<1>1. kcfd[k] \in Clients
  BY DEF IInv, TypeOK
<1>2. cpc[kcfd[k]] # "connect"
  BY <1>1 DEF IInv, ConnectOK, Unheld
<1>3. kcfd[k] \in Connected
  BY <1>1, <1>2 DEF Connected, Left, IInv, TypeOK
<1> QED BY <1>3, HeldIsServed DEF IInv, OwnersOK


LEMMA KidServes ==
    ASSUME IInv, IInv', NEW k \in Kids, KidStep(k)
    PROVE  Echo!EchoNext \/ UNCHANGED Echo!echoVars
<1>1. /\ TypeOK /\ TypeOK'
      /\ cpc' = cpc /\ kcfd' = kcfd
      /\ \A j \in Kids \ {k} : kpc'[j] = kpc[j]
  BY DEF IInv, TypeOK, KidStep, KidClose, KidSend, KidKilled, KidRecv,
         KidRecvNothing, KidGoto, serverVars
<1>2. CASE KidClose(k)
  <2> USE <1>2 DEF KidClose
  <2>1. kpc[k] = "born" /\ kpc'[k] = "greet"
    BY <1>1 DEF KidGoto, TypeOK
  <2>2. Waiting' \subseteq Waiting
    BY <1>1, CloseFacts
  <2>3. ASSUME NEW c \in Clients PROVE Owed(c)' <= Owed(c)
    <3>1. /\ Served(c)' => Served(c)
          /\ InServersHands(c)' => InServersHands(c)
      BY <2>2 DEF Served, InServersHands
    <3>2. Speaker(c)' => Speaker(c)
      BY <1>1, <2>1 DEF Speaker, KidsTurn
    <3> QED BY <1>1, <3>1, <3>2, OwedLess
  <2>4. Echo!Lose
    BY <1>1, <2>3, LoseStep
  <2> QED BY <2>4 DEF Echo!EchoNext
<1>3. CASE KidSend(k)
  <2> USE <1>3 DEF KidSend
  <2>1. /\ kpc[k] \in KidsTurn /\ kpc'[k] \notin KidsTurn
        /\ UNCHANGED <<serverVars, kcfd, kfds, cpc>>
    BY <1>1 DEF KidsTurn, TypeOK
  <2>2. ASSUME NEW c \in Clients, kcfd[k] # c, up'[c] = up[c]
        PROVE  Owed(c)' = Owed(c)
    BY <1>1, <2>1, <2>2, KidSame
  <2>3. CASE kcfd[k] = NoClient /\ UNCHANGED wireVars
    <3>1. ASSUME NEW c \in Clients PROVE Quiet(c)
      BY <1>1, <2>2, <2>3, BoundsAssumption DEF wireVars, Quiet
    <3> QED BY <1>1, <3>1, QuietStep
  <2>4. CASE kcfd[k] # NoClient /\ Deliver(kcfd[k])
    <3>1. PICK c \in Clients : c = kcfd[k]
      BY <1>1, <2>4 DEF TypeOK
    <3>2. /\ ~Left(c) /\ up' = up
          /\ down' = [down EXCEPT ![c] = @ + 1]
      BY <2>4, <3>1 DEF Deliver
    <3>3. /\ c \in Connected /\ Served(c)
          /\ \A j \in Kids : kcfd[j] = c => j = k
      BY <2>4, <3>1, <3>2, KidsClient
    <3>4. Speaker(c) /\ ~Speaker(c)'
      BY <1>1, <2>1, <3>1, <3>3 DEF Speaker
    <3>5. Waiting' = Waiting
      BY <2>1 DEF Waiting, serverVars
    <3>6. Served(c)' /\ InServersHands(c)' = InServersHands(c) /\ (c \in Connected)'
      BY <1>1, <2>1, <3>3, <3>5 DEF Served, InServersHands, serverVars, Connected
    <3>7. up[c] \in Nat
      BY <1>1 DEF TypeOK
    <3>8. Owed(c) > 0 /\ Owed(c)' = Owed(c) - 1
      <4>1. OwedIs /\ OwedIs'
        BY OwedCounted, PTL
      <4>2. Owed(c) = Debt(c) /\ Owed(c)' = Debt(c)'
        BY <3>3, <3>6, <4>1 DEF OwedIs
      <4>3. Debt(c) > 0 /\ Debt(c)' = Debt(c) - 1
        BY <3>2, <3>4, <3>6, <3>7 DEF Debt
      <4> QED BY <4>2, <4>3
    <3>9. \A d \in Clients \ {c} : Owed(d)' = Owed(d)
      BY <2>2, <3>1, <3>2
    <3>10. Echo!Answer(c)
      BY <1>1, <3>2, <3>8, <3>9 DEF Echo!Answer
    <3> QED BY <3>10 DEF Echo!EchoNext
  <2>5. CASE kcfd[k] # NoClient /\ Left(kcfd[k]) /\ SendToNobody(kcfd[k])
    <3>1. UNCHANGED <<up, down>>
      BY <2>5 DEF SendToNobody
    <3>2. ASSUME NEW c \in Clients PROVE Quiet(c)
      BY <1>1, <2>2, <2>5, <3>1, LeftOwed DEF Quiet
    <3> QED BY <1>1, <3>2, QuietStep
  <2> QED BY <2>3, <2>4, <2>5
<1>4. CASE KidKilled(k)
  <2> USE <1>4 DEF KidKilled
  <2>1. /\ kpc[k] \in KidsTurn /\ kpc'[k] \notin KidsTurn
        /\ \A j \in Kids : kfds'[j] \subseteq kfds[j]
        /\ UNCHANGED <<serverVars, kcfd, cpc, wireVars>>
    BY <1>1 DEF KidsTurn, TypeOK
  <2>2. Waiting' = Waiting
    BY DEF Waiting, serverVars
  <2>3. ASSUME NEW c \in Clients PROVE Owed(c)' <= Owed(c)
    <3>1. /\ Served(c)' => Served(c)
          /\ InServersHands(c)' => InServersHands(c)
      BY <2>1, <2>2 DEF Served, InServersHands, serverVars
    <3>2. Speaker(c)' => Speaker(c)
      BY <1>1, <2>1 DEF Speaker
    <3> QED BY <1>1, <2>1, <3>1, <3>2, OwedLess DEF wireVars
  <2>4. Echo!Lose
    BY <1>1, <2>3, LoseStep DEF wireVars
  <2> QED BY <2>4 DEF Echo!EchoNext
<1>5. CASE KidRecv(k)
  <2> USE <1>5 DEF KidRecv
  <2>1. PICK c \in Clients : c = kcfd[k]
    BY <1>1 DEF TypeOK
  <2>2. /\ kpc[k] \notin KidsTurn /\ kpc'[k] \in KidsTurn
        /\ up'[c] = up[c] - 1
        /\ \A d \in Clients \ {c} : up'[d] = up[d]
        /\ UNCHANGED <<serverVars, kcfd, kfds, cpc, down>>
    BY <1>1, <2>1 DEF KidGoto, KidsTurn, TypeOK
  <2>3. Owed(c)' = Owed(c)
    <3>1. CASE Left(c)
      BY <1>1, <3>1, LeftOwed
    <3>2. CASE ~Left(c)
      <4>1. /\ c \in Connected /\ Served(c)
            /\ \A j \in Kids : kcfd[j] = c => j = k
        BY <2>1, <3>2, KidsClient
      <4>2. ~Speaker(c) /\ Speaker(c)'
        BY <1>1, <2>1, <2>2, <4>1 DEF Speaker
      <4>3. Waiting' = Waiting
        BY <2>2 DEF Waiting, serverVars
      <4>4. Served(c)' /\ InServersHands(c)' = InServersHands(c) /\ (c \in Connected)'
        BY <1>1, <2>2, <4>1, <4>3 DEF Served, InServersHands, serverVars, Connected
      <4>5. OwedIs /\ OwedIs'
        BY OwedCounted, PTL
      <4>6. Debt(c)' = Debt(c)
        <5>1. up[c] \in Nat
          BY <1>1 DEF TypeOK
        <5> QED BY <2>2, <4>2, <4>4, <5>1 DEF Debt
      <4> QED BY <4>1, <4>4, <4>5, <4>6 DEF OwedIs
    <3> QED BY <3>1, <3>2
  <2>4. ASSUME NEW d \in Clients PROVE Quiet(d)
    <3>1. CASE d = c
      BY <2>2, <2>3, <3>1 DEF Quiet
    <3>2. CASE d # c
      <4>1. Owed(d)' = Owed(d)
        BY <1>1, <2>1, <2>2, <3>2, KidSame
      <4> QED BY <2>2, <4>1 DEF Quiet
    <3> QED BY <3>1, <3>2
  <2> QED BY <1>1, <2>4, QuietStep
<1>6. CASE KidRecvNothing(k)
  <2> USE <1>6 DEF KidRecvNothing
  <2>1. UNCHANGED <<serverVars, kcfd, kfds, cpc, up, down>>
    OBVIOUS
  <2>2. ASSUME NEW c \in Clients PROVE Owed(c)' = Owed(c)
    <3>1. CASE kcfd[k] = c
      BY <1>1, <3>1, LeftOwed, BoundsAssumption
    <3>2. CASE kcfd[k] # c
      BY <1>1, <2>1, <3>2, KidSame
    <3> QED BY <3>1, <3>2
  <2> QED BY <1>1, <2>1, <2>2, QuietStep DEF Quiet
<1> QED BY <1>2, <1>3, <1>4, <1>5, <1>6 DEF KidStep


\* A step of client c that touches nothing of the server.
LEMMA OthersSame ==
    ASSUME IInv, IInv', NEW c \in Clients, UNCHANGED <<serverVars, kidVars>>,
           NEW d \in Clients, cpc'[d] = cpc[d], up'[d] = up[d]
    PROVE  Owed(d)' = Owed(d)
<1>1. Waiting' = Waiting
  BY DEF Waiting, serverVars
<1>2. /\ Served(d)' = Served(d) /\ InServersHands(d)' = InServersHands(d)
      /\ Speaker(d)' = Speaker(d)
  BY <1>1 DEF Served, InServersHands, Speaker, serverVars, kidVars
<1> QED BY <1>2, OwedSame

Speaks == [c \in Clients |-> cpc[c] \in {"connect", "say"}]
Debts == [c \in Clients |-> Owed(c)]

\* What a step of client c alone does to the service.
LEMMA ClientsPart ==
    ASSUME NEW c \in Clients,
           \A d \in Clients \ {c} : cpc'[d] = cpc[d] /\ Owed(d)' = Owed(d)
    PROVE  /\ cpc'[c] \in {"connect", "say"} => Speaks' = [Speaks EXCEPT ![c] = TRUE]
           /\ cpc'[c] \notin {"connect", "say"} => Speaks' = [Speaks EXCEPT ![c] = FALSE]
           /\ Debts' = [Debts EXCEPT ![c] = Owed(c)']
           /\ Owed(c)' = Owed(c) => Debts' = Debts
<1>1. ASSUME cpc'[c] \in {"connect", "say"}
      PROVE  Speaks' = [Speaks EXCEPT ![c] = TRUE]
  BY <1>1, Zenon DEF Speaks
<1>2. ASSUME cpc'[c] \notin {"connect", "say"}
      PROVE  Speaks' = [Speaks EXCEPT ![c] = FALSE]
  <2>1. (cpc'[c] \in {"connect", "say"}) = FALSE
    BY <1>2
  <2>2. ASSUME NEW d \in Clients
        PROVE  Speaks'[d] = [Speaks EXCEPT ![c] = FALSE][d]
    BY <2>1, Zenon DEF Speaks
  <2> QED BY <2>2, Zenon DEF Speaks
<1>3. Debts' = [Debts EXCEPT ![c] = Owed(c)']
  BY DEF Debts
<1>4. Owed(c)' = Owed(c) => Debts' = Debts
  BY DEF Debts
<1> QED BY <1>1, <1>2, <1>3, <1>4

LEMMA ClientServes ==
    ASSUME IInv, IInv', NEW c \in Clients, ClientStep(c) \/ ClientStopped(c)
    PROVE  Echo!EchoNext
<1>1. /\ TypeOK /\ TypeOK' /\ OwedIs /\ OwedIs'
  <2>1. OwedIs /\ OwedIs'
    BY OwedCounted, PTL
  <2> QED BY <2>1 DEF IInv
<1>2. /\ up[c] \in Nat /\ down[c] \in Nat /\ Owed(c) \in Nat
      /\ cpc[c] \in {"connect", "greeting", "say", "hear", "left"}
  BY <1>1 DEF TypeOK, OwedIs
<1>3. CASE ClientConnect(c)
  <2> USE <1>3 DEF ClientConnect, ClientGoto
  <2>1. /\ cpc[c] = "connect" /\ cpc'[c] = "greeting"
        /\ \A d \in Clients \ {c} : cpc'[d] = cpc[d]
        /\ up[c] = 0 /\ c \notin Waiting /\ Unheld(c)
        /\ UNCHANGED <<main, cfd, fds, kidVars, wireVars>>
    BY <1>1 DEF TypeOK, IInv, ConnectOK
  <2>2. Waiting' = Waiting \cup {c}
    <3>1. Waiting = Elements(backlog) /\ Waiting' = Elements(Append(backlog, c))
      BY DEF Waiting, Elements
    <3>2. backlog \in Seq(Clients)
      BY <1>1 DEF TypeOK
    <3> QED BY <3>1, <3>2, AppendElements
  <2>3. Owed(c) = 0 /\ Owed(c)' = 1
    <3>1. c \notin Connected /\ (c \in Connected)'
      BY <1>1, <2>1 DEF Connected
    <3>2. Served(c)' /\ InServersHands(c)' /\ ~Speaker(c)'
      BY <2>1, <2>2 DEF Served, InServersHands, Speaker, Unheld, kidVars
    <3>3. Debt(c)' = 1
      BY <2>1, <3>2 DEF Debt, wireVars
    <3> QED BY <1>1, <3>1, <3>2, <3>3 DEF OwedIs
  <2>4. ASSUME NEW d \in Clients, d # c PROVE Owed(d)' = Owed(d)
    <3>1. /\ Served(d)' = Served(d) /\ InServersHands(d)' = InServersHands(d)
          /\ Speaker(d)' = Speaker(d)
      BY <2>1, <2>2, <2>4 DEF Served, InServersHands, Speaker, kidVars
    <3> QED BY <2>1, <2>4, <3>1, OwedSame DEF wireVars
  <2>5. /\ Speaks[c] /\ Speaks' = [Speaks EXCEPT ![c] = FALSE]
        /\ Debts' = [Debts EXCEPT ![c] = Owed(c)']
    BY <2>1, <2>4, ClientsPart DEF Speaks
  <2>6. Debts' = [Debts EXCEPT ![c] = @ + 1] /\ down' = down
    BY <2>1, <2>3, <2>5 DEF Debts, wireVars
  <2> QED BY <2>5, <2>6 DEF Echo!EchoNext, Echo!Say, Speaks, Debts
<1>4. CASE ClientConnectFails(c)
  <2> USE <1>4 DEF ClientConnectFails, ClientGoto
  <2>1. /\ cpc[c] = "connect" /\ cpc'[c] = "left" /\ down[c] = 0
        /\ \A d \in Clients \ {c} : cpc'[d] = cpc[d]
        /\ UNCHANGED <<serverVars, kidVars, up, down>>
    BY <1>1 DEF TypeOK, IInv, ConnectOK, wireVars
  <2>2. Owed(c) = 0 /\ Owed(c)' = 0
    BY <2>1 DEF Owed, Connected
  <2>3. ASSUME NEW d \in Clients, d # c PROVE Owed(d)' = Owed(d)
    BY <2>1, <2>3, OthersSame
  <2>4. down' = [down EXCEPT ![c] = 0]
    BY <1>1, <2>1 DEF TypeOK
  <2>5. /\ Speaks' = [Speaks EXCEPT ![c] = FALSE]
        /\ Debts' = [Debts EXCEPT ![c] = 0]
    BY <2>1, <2>2, <2>3, ClientsPart
  <2> QED BY <2>4, <2>5 DEF Echo!EchoNext, Echo!Leave, Echo!MayFail, Speaks, Debts
<1>5. CASE ClientRecv(c)
  <2> USE <1>5 DEF ClientRecv
  <2>1. /\ cpc[c] \in {"greeting", "hear"} /\ cpc'[c] = "say" /\ down[c] > 0
        /\ \A d \in Clients \ {c} : cpc'[d] = cpc[d]
        /\ UNCHANGED <<serverVars, kidVars, up>>
    BY <1>1 DEF TypeOK
  <2>2. Owed(c)' = Owed(c)
    <3>1. Waiting' = Waiting
      BY <2>1 DEF Waiting, serverVars
    <3>2. /\ Served(c)' = Served(c) /\ InServersHands(c)' = InServersHands(c)
          /\ Speaker(c)' = Speaker(c)
      BY <2>1, <3>1 DEF Served, InServersHands, Speaker, serverVars, kidVars
    <3>3. c \in Connected /\ (c \in Connected)'
      BY <2>1 DEF Connected
    <3>4. Debt(c)' = Debt(c)
      BY <2>1, <3>2 DEF Debt
    <3> QED BY <1>1, <3>2, <3>3, <3>4 DEF OwedIs
  <2>3. ASSUME NEW d \in Clients, d # c PROVE Owed(d)' = Owed(d)
    BY <2>1, <2>3, OthersSame
  <2>4. /\ ~Speaks[c] /\ Speaks' = [Speaks EXCEPT ![c] = TRUE]
        /\ Debts' = Debts
    BY <2>1, <2>2, <2>3, ClientsPart DEF Speaks
  <2> QED BY <2>1, <2>4 DEF Echo!EchoNext, Echo!Hear, Speaks, Debts
<1>6. CASE ClientRecvNothing(c)
  <2> USE <1>6 DEF ClientRecvNothing
  <2>1. /\ cpc[c] \in {"greeting", "hear"} /\ cpc'[c] = "say"
        /\ \A d \in Clients \ {c} : cpc'[d] = cpc[d]
        /\ down[c] = 0 /\ ~Served(c)
        /\ UNCHANGED <<serverVars, kidVars, up, down>>
    BY <1>1 DEF TypeOK
  <2>2. ~Served(c)'
    BY <2>1 DEF Served, Waiting, serverVars, kidVars
  <2>3. Owed(c) = 0 /\ Owed(c)' = 0
    BY <1>1, <2>1, <2>2 DEF OwedIs
  <2>4. ASSUME NEW d \in Clients, d # c PROVE Owed(d)' = Owed(d)
    BY <2>1, <2>4, OthersSame
  <2>5. /\ ~Speaks[c] /\ Speaks' = [Speaks EXCEPT ![c] = TRUE]
        /\ Debts' = Debts /\ Debts[c] = 0
    BY <2>1, <2>3, <2>4, ClientsPart DEF Speaks, Debts
  <2> QED BY <2>1, <2>5 DEF Echo!EchoNext, Echo!GiveUp, Speaks, Debts
<1>7. CASE ClientSend(c)
  <2> USE <1>7 DEF ClientSend, ClientGoto
  <2>1. /\ cpc[c] = "say" /\ cpc'[c] = "hear" /\ Served(c)
        /\ \A d \in Clients \ {c} : cpc'[d] = cpc[d] /\ up'[d] = up[d]
        /\ up'[c] = up[c] + 1
        /\ UNCHANGED <<serverVars, kidVars, down>>
    BY <1>1 DEF TypeOK
  <2>2. Owed(c)' = Owed(c) + 1
    <3>1. Waiting' = Waiting
      BY <2>1 DEF Waiting, serverVars
    <3>2. /\ Served(c)' = Served(c) /\ InServersHands(c)' = InServersHands(c)
          /\ Speaker(c)' = Speaker(c)
      BY <2>1, <3>1 DEF Served, InServersHands, Speaker, serverVars, kidVars
    <3>3. c \in Connected /\ (c \in Connected)'
      BY <2>1 DEF Connected
    <3>4. Debt(c)' = Debt(c) + 1
      BY <1>2, <2>1, <3>2 DEF Debt
    <3> QED BY <1>1, <2>1, <3>2, <3>3, <3>4 DEF OwedIs
  <2>3. ASSUME NEW d \in Clients, d # c PROVE Owed(d)' = Owed(d)
    BY <2>1, <2>3, OthersSame
  <2>4. /\ Speaks[c] /\ Speaks' = [Speaks EXCEPT ![c] = FALSE]
        /\ Debts' = [Debts EXCEPT ![c] = Owed(c)']
    BY <2>1, <2>3, ClientsPart DEF Speaks
  <2>5. Debts' = [Debts EXCEPT ![c] = @ + 1]
    BY <2>2, <2>4 DEF Debts
  <2> QED BY <2>1, <2>4, <2>5 DEF Echo!EchoNext, Echo!Say, Speaks, Debts
<1>8. CASE ClientSendToNobody(c)
  <2> USE <1>8 DEF ClientSendToNobody, ClientGoto
  <2>1. /\ cpc[c] = "say" /\ cpc'[c] = "hear" /\ ~Served(c)
        /\ \A d \in Clients \ {c} : cpc'[d] = cpc[d]
        /\ UNCHANGED <<serverVars, kidVars, up, down>>
    BY <1>1 DEF TypeOK, SendToNobody
  <2>2. ~Served(c)'
    BY <2>1 DEF Served, Waiting, serverVars, kidVars
  <2>3. Owed(c) = 0 /\ Owed(c)' = 0
    BY <1>1, <2>1, <2>2 DEF OwedIs
  <2>4. ASSUME NEW d \in Clients, d # c PROVE Owed(d)' = Owed(d)
    BY <2>1, <2>4, OthersSame
  <2>5. /\ Speaks[c] /\ Speaks' = [Speaks EXCEPT ![c] = FALSE]
        /\ Debts' = Debts
    BY <2>1, <2>3, <2>4, ClientsPart DEF Speaks
  <2> QED BY <2>1, <2>5 DEF Echo!EchoNext, Echo!Say, Speaks, Debts
<1>9. CASE Disconnect(c)
  <2> USE <1>9 DEF Disconnect
  <2>1. /\ cpc'[c] = "left" /\ \A d \in Clients \ {c} : cpc'[d] = cpc[d]
        /\ UNCHANGED <<serverVars, kidVars, up>>
    BY <1>1 DEF TypeOK
  <2>2. Owed(c)' = 0
    BY <2>1 DEF Owed, Connected
  <2>3. ASSUME NEW d \in Clients, d # c PROVE Owed(d)' = Owed(d)
    BY <2>1, <2>3, OthersSame
  <2>4. /\ Speaks' = [Speaks EXCEPT ![c] = FALSE]
        /\ Debts' = [Debts EXCEPT ![c] = 0]
    BY <2>1, <2>2, <2>3, ClientsPart
  <2> QED BY <2>4 DEF Echo!EchoNext, Echo!Leave, Echo!MayFail, Speaks, Debts
<1> QED
  BY <1>3, <1>4, <1>5, <1>6, <1>7, <1>8, <1>9
     DEF ClientStep, ClientStopped, ClientKilled


-----------------------------------------------------------------------------
(* The theorems *)

LEMMA Invariance == Spec => []IInv
<1>1. IInv /\ UNCHANGED vars => IInv'
  BY DEF vars, serverVars, kidVars, wireVars, IInv, TypeOK, BacklogOK, Waiting,
         ConnectOK, Unheld, ForkOK, OwnersOK, KidsOK, Left, SessionsOK, Connected,
         InServersHands
<1>2. ASSUME IInv, MainStep PROVE IInv'
  BY <1>2, ListenStep, ExitStep, AcceptStep, AcceptFailsStep, ForkStep
     DEF MainStep, MainListenFails, MainForkFails
<1>3. ASSUME IInv, NEW k \in Kids, KidStep(k) PROVE IInv'
  BY <1>3, KidCloseStep, KidSendStep, KidKilledStep, KidRecvStep, KidRecvNothingStep
     DEF KidStep
<1>4. IInv /\ [Next]_vars => IInv'
  BY <1>1, <1>2, <1>3, ClientsStep DEF Next
<1> QED BY Inits, <1>4, PTL DEF Spec

\* Every variable keeps its type: no message is received twice.
THEOREM TypeCorrect == Spec => []TypeOK
<1>1. IInv => TypeOK  BY DEF IInv
<1> QED BY <1>1, Invariance, PTL

\* A connected client has one child of its own and never two, whatever the server
\* has closed or its children have inherited (server.c:44-59).
THEOREM OneChild == Spec => []OneChildEach
<1>1. ASSUME IInv, NEW c \in Connected
      PROVE  /\ Cardinality(KidsOf(c)) <= 1
             /\ Served(c) /\ ~InServersHands(c) => KidsOf(c) # {}
  <2>1. c \in Clients /\ ~Left(c)
    BY DEF Connected, Left
  <2>2. Cardinality(KidsOf(c)) <= 1
    BY <1>1, <2>1, OnlyKid, AtMostOne
  <2>3. ASSUME Served(c), ~InServersHands(c)
        PROVE  \E k \in Kids : kcfd[k] = c
    BY <1>1, <2>3 DEF Served, InServersHands, IInv, OwnersOK
  <2>4. ASSUME NEW k \in Kids, kcfd[k] = c
        PROVE  k \in KidsOf(c)
    BY <1>1, <2>1, <2>4, BoundsAssumption DEF IInv, KidsOK, KidsOf, Alive
  <2> QED BY <2>2, <2>3, <2>4
<1>2. IInv => OneChildEach
  BY <1>1 DEF OneChildEach
<1> QED BY <1>2, Invariance, PTL

\* Client and child speak in turns, for every number of clients and children
\* (server.c:55-58, client.c:40-48).
THEOREM TurnsCorrect == Spec => []InTurns
<1>1. ASSUME IInv, NEW c \in Connected, KidsOf(c) # {}
      PROVE  Turns(c) = 1
  <2>1. c \in Clients
    BY DEF Connected
  <2>2. PICK k \in KidsOf(c) : TRUE
    BY <1>1
  <2>3. k \in Kids /\ kcfd[k] = c /\ KidsOf(c) = {k}
    BY <1>1, <2>1, <2>2, OnlyKid DEF KidsOf
  <2>4. {j \in KidsOf(c) : kpc[j] \in {"born", "greet", "send"}}
        = IF kpc[k] \in KidsTurn THEN {k} ELSE {}
    BY <2>3 DEF KidsTurn
  <2>5. Cardinality({j \in KidsOf(c) : kpc[j] \in {"born", "greet", "send"}})
        = IF kpc[k] \in KidsTurn THEN 1 ELSE 0
    BY <2>4, FS_EmptySet, FS_Singleton
  <2>6. up[c] + down[c] + (IF cpc[c] = "say" THEN 1 ELSE 0)
            + (IF kpc[k] \in KidsTurn THEN 1 ELSE 0) = 1
    BY <1>1, <2>3 DEF IInv, SessionsOK
  <2> QED BY <2>5, <2>6 DEF Turns
<1>2. IInv => InTurns
  BY <1>1 DEF InTurns
<1> QED BY <1>2, Invariance, PTL

\* The server and its children serve every client as EchoService says: each is
\* welcomed once and has one answer to every message, whatever the others do
\* (server.c:44-59, client.c:36-52).
THEOREM Implements == Spec => ServesEcho
<1>1. Init => Echo!EchoInit
  <2> SUFFICES ASSUME Init PROVE Echo!EchoInit
    OBVIOUS
  <2>1. \A c \in Clients : Owed(c) = 0
    BY DEF Init, Owed, Connected
  <2> QED BY <2>1 DEF Init, Echo!EchoInit
<1>2. ASSUME IInv, IInv', Next
      PROVE  Echo!EchoNext \/ UNCHANGED Echo!echoVars
  <2>1. CASE MainStep
    BY <1>2, <2>1, MainServes DEF Echo!EchoNext
  <2>2. ASSUME NEW k \in Kids, KidStep(k)
        PROVE  Echo!EchoNext \/ UNCHANGED Echo!echoVars
    BY <1>2, <2>2, KidServes
  <2>3. ASSUME NEW c \in Clients, ClientStep(c) \/ ClientStopped(c)
        PROVE  Echo!EchoNext
    BY <1>2, <2>3, ClientServes
  <2> QED BY <1>2, <2>1, <2>2, <2>3 DEF Next
<1>3. ASSUME UNCHANGED vars
      PROVE  UNCHANGED Echo!echoVars
  BY <1>3 DEF vars, serverVars, kidVars, wireVars, Echo!echoVars, Owed, Connected,
              Served, Waiting, InServersHands, KidsOf, Alive
<1>4. IInv /\ IInv' /\ [Next]_vars => [Echo!EchoNext]_(Echo!echoVars)
  BY <1>2, <1>3
<1> QED
  BY <1>1, <1>4, Invariance, PTL DEF Spec, ServesEcho, Echo!EchoSpec
=============================================================================
