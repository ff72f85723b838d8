------------------------------ MODULE ForkTree ------------------------------
(***************************************************************************)
(* fork/fork_tree/six_forks.c: a process makes two children, which make one *)
(* and two of their own; every parent waits for its children in the order  *)
(* in which it made them.  A fork may fail, and a process whose fork fails *)
(* ends at once, without waiting.                                          *)
(***************************************************************************)
EXTENDS Naturals, Sequences

\* The tree, with the names the processes print.
Processes == {"PARENT", "child_1", "child_2",
              "child_1_2", "child_2_1", "child_2_2"}

Kids == [p \in Processes |->
           CASE p = "PARENT" -> <<"child_1", "child_2">>
             [] p = "child_1" -> <<"child_1_2">>
             [] p = "child_2" -> <<"child_2_1", "child_2_2">>
             [] OTHER -> <<>>]

KidsOf(p) == {Kids[p][n] : n \in DOMAIN Kids[p]}

VARIABLES
  at,        \* "unborn", "fork", "sleep", "wait", or "success", "failure": how
             \* a process that has ended did
  forked,    \* how many children a process has made
  waited,    \* how many of them it has waited for
  reaped     \* processes whose end their parent has been told

vars == <<at, forked, waited, reaped>>

Ended(p) == at[p] \in {"success", "failure"}

TypeOK ==
  /\ at \in [Processes -> {"unborn", "fork", "sleep", "wait",
                           "success", "failure"}]
  /\ forked \in [Processes -> 0 .. 2]
  /\ waited \in [Processes -> 0 .. 2]
  /\ reaped \in SUBSET Processes

Init ==
  /\ at = [p \in Processes |-> IF p = "PARENT" THEN "fork" ELSE "unborn"]
  /\ forked = [p \in Processes |-> 0]
  /\ waited = [p \in Processes |-> 0]
  /\ reaped = {}

-----------------------------------------------------------------------------
\* Where a process starts: a leaf of the tree sleeps and ends.
Start(p) == IF Kids[p] = <<>> THEN "sleep" ELSE "fork"

\* fork: the child runs, and the parent goes on to its next fork or its wait.
Fork(p) ==
  LET n == forked[p] + 1
      kid == Kids[p][n]
  IN
  /\ at[p] = "fork"
  /\ forked' = [forked EXCEPT ![p] = n]
  /\ at' = [at EXCEPT ![kid] = Start(kid),
                      ![p] = IF n = Len(Kids[p]) THEN "wait" ELSE "fork"]
  /\ UNCHANGED <<waited, reaped>>

\* fork returns -1: exit(EXIT_FAILURE).
ForkFails(p) ==
  /\ at[p] = "fork"
  /\ at' = [at EXCEPT ![p] = "failure"]
  /\ UNCHANGED <<forked, waited, reaped>>

\* wait or waitpid of the next child; what it ended with is not looked at.
Wait(p) ==
  LET n == waited[p] + 1
      kid == Kids[p][n]
  IN
  /\ at[p] = "wait" /\ Ended(kid)
  /\ waited' = [waited EXCEPT ![p] = n]
  /\ reaped' = reaped \union {kid}
  /\ at' = [at EXCEPT ![p] = IF n = Len(Kids[p]) THEN "success" ELSE "wait"]
  /\ UNCHANGED forked

\* sleep(1) and exit(EXIT_SUCCESS).
Sleep(p) ==
  /\ at[p] = "sleep"
  /\ at' = [at EXCEPT ![p] = "success"]
  /\ UNCHANGED <<forked, waited, reaped>>

Next == \E p \in Processes : Fork(p) \/ ForkFails(p) \/ Wait(p) \/ Sleep(p)

Spec == Init /\ [][Next]_vars

-----------------------------------------------------------------------------
\* A process that ends with success leaves nothing of its own behind: every
\* child has been made, has ended and has been reaped (lines 53-56, 98-103,
\* 107-118).
SuccessReaps ==
  \A p \in Processes : at[p] = "success" => KidsOf(p) \subseteq reaped

\* Nobody runs when PARENT has ended with success, unless a fork has failed:
\* then the children that were made before it go on without a parent (lines 30,
\* 40, 60, 71, 85), and PARENT, which does not look at the status, still
\* succeeds.
OrphansNeedAFailure ==
  at["PARENT"] = "success" =>
    \A p \in Processes :
      \/ p = "PARENT" \/ p \in reaped
      \/ \E q \in Processes : p \in KidsOf(q) /\ at[q] = "failure"
=============================================================================
