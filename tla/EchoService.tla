---------------------------- MODULE EchoService ----------------------------
(***************************************************************************)
(* What the two multi-user echo servers under src/NETS promise a client,   *)
(* whatever the others do: it is answered for what it has said and for     *)
(* nothing else, once, and it has the turn again when it has its answer.   *)
(* There are no processes and no sockets here.  What the server owes may   *)
(* get lost; a client that stops waiting while something is owed to it     *)
(* does so because a call has failed.                                      *)
(***************************************************************************)
EXTENDS Integers

CONSTANT Clients

VARIABLES
    speaks,     \* whether each client has the turn
    owed,       \* what the server has yet to answer of it
    answers,    \* the answers on their way to it
    failures    \* calls that have failed

echoVars == <<speaks, owed, answers, failures>>

EchoInit ==
    /\ speaks = [c \in Clients |-> TRUE]
    /\ owed = [c \in Clients |-> 0]
    /\ answers = [c \in Clients |-> 0]
    /\ failures = 0

\* What the client says reaches the server or gets lost.
Say(c) ==
    /\ speaks[c]
    /\ speaks' = [speaks EXCEPT ![c] = FALSE]
    /\ owed' \in {owed, [owed EXCEPT ![c] = @ + 1]}
    /\ UNCHANGED <<answers, failures>>

\* The answer is sent, and perhaps lost.
Answer(c) ==
    /\ owed[c] > 0
    /\ owed' = [owed EXCEPT ![c] = @ - 1]
    /\ answers' \in {answers, [answers EXCEPT ![c] = @ + 1]}
    /\ UNCHANGED <<speaks, failures>>

Hear(c) ==
    /\ ~speaks[c]
    /\ answers[c] > 0
    /\ answers' = [answers EXCEPT ![c] = @ - 1]
    /\ speaks' = [speaks EXCEPT ![c] = TRUE]
    /\ UNCHANGED <<owed, failures>>

\* The client stops waiting: nothing will come, or its receive has failed.
GiveUp(c) ==
    /\ ~speaks[c]
    /\ speaks' = [speaks EXCEPT ![c] = TRUE]
    /\ \/ owed[c] = 0 /\ answers[c] = 0 /\ UNCHANGED failures
       \/ failures' = failures + 1
    /\ UNCHANGED <<owed, answers>>

\* A call may fail along with the step.
MayFail == failures' \in {failures, failures + 1}

Leave(c) ==
    /\ speaks' = [speaks EXCEPT ![c] = FALSE]
    /\ owed' = [owed EXCEPT ![c] = 0]
    /\ answers' = [answers EXCEPT ![c] = 0]
    /\ MayFail

\* The server forgets some of what it owes.
Lose ==
    /\ \A c \in Clients : owed'[c] \in 0 .. owed[c]
    /\ MayFail
    /\ UNCHANGED <<speaks, answers>>

EchoNext ==
    \/ Lose
    \/ \E c \in Clients : Say(c) \/ Answer(c) \/ Hear(c) \/ GiveUp(c) \/ Leave(c)

EchoSpec == EchoInit /\ [][EchoNext]_echoVars
=============================================================================
