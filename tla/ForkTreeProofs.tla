--------------------------- MODULE ForkTreeProofs ---------------------------
(* What the six processes leave behind, whichever forks fail. *)
EXTENDS ForkTree, TLAPS

\* The forks and waits of a process.
CountsOK ==
  \A p \in Processes :
    /\ at[p] = "unborn" => forked[p] = 0 /\ waited[p] = 0
    /\ at[p] = "fork" => waited[p] = 0 /\ forked[p] < Len(Kids[p])
    /\ at[p] = "sleep" => waited[p] = 0 /\ Kids[p] = <<>>
    /\ at[p] = "wait" => waited[p] < Len(Kids[p])
    /\ at[p] = "success" => waited[p] = Len(Kids[p])

\* A child that has not been made has done nothing.
UnbornOK ==
  \A p \in Processes : \A n \in DOMAIN Kids[p] :
    n > forked[p] => at[Kids[p][n]] = "unborn"

\* What has been waited for has ended.
ReapedOK ==
  /\ \A p \in Processes : \A n \in DOMAIN Kids[p] :
       n <= waited[p] => Kids[p][n] \in reaped
  /\ \A p \in reaped : Ended(p)

IInv == TypeOK /\ CountsOK /\ UnbornOK /\ ReapedOK

-----------------------------------------------------------------------------
\* The six processes are a tree: nobody is the child of two, or twice.
LEMMA Tree ==
  /\ \A p \in Processes : Kids[p] \in Seq(Processes) /\ Len(Kids[p]) \in 0 .. 2
  /\ \A p \in Processes : \A n \in DOMAIN Kids[p] :
       /\ n \in 1 .. 2 /\ Kids[p][n] \in Processes \ {p, "PARENT"}
       /\ \A q \in Processes : \A m \in DOMAIN Kids[q] :
            Kids[p][n] = Kids[q][m] => p = q /\ n = m
<1>1. /\ Kids["PARENT"] = <<"child_1", "child_2">>
      /\ Kids["child_1"] = <<"child_1_2">>
      /\ Kids["child_2"] = <<"child_2_1", "child_2_2">>
      /\ \A p \in {"child_1_2", "child_2_1", "child_2_2"} : Kids[p] = <<>>
  BY DEF Kids, Processes
<1>2. \A p \in Processes : \/ p \in {"PARENT", "child_1", "child_2"}
                           \/ p \in {"child_1_2", "child_2_1", "child_2_2"}
  BY DEF Processes
<1>3. \A p \in Processes : Kids[p] \in Seq(Processes) /\ Len(Kids[p]) \in 0 .. 2
  <2>1. /\ Kids["PARENT"] \in Seq(Processes) /\ Len(Kids["PARENT"]) = 2
        /\ Kids["child_1"] \in Seq(Processes) /\ Len(Kids["child_1"]) = 1
        /\ Kids["child_2"] \in Seq(Processes) /\ Len(Kids["child_2"]) = 2
    BY <1>1 DEF Processes
  <2>2. ASSUME NEW p \in {"child_1_2", "child_2_1", "child_2_2"}
        PROVE  Kids[p] \in Seq(Processes) /\ Len(Kids[p]) \in 0 .. 2
    <3>1. Kids[p] = <<>>
      BY <1>1
    <3>2. <<>> \in Seq(Processes) /\ Len(<<>>) = 0
      OBVIOUS
    <3> QED
      BY <3>1, <3>2
  <2>3. ASSUME NEW p \in {"PARENT", "child_1", "child_2"}
        PROVE  Kids[p] \in Seq(Processes) /\ Len(Kids[p]) \in 0 .. 2
    BY <2>1
  <2> QED
    BY <1>2, <2>2, <2>3
<1>4. \A p \in Processes : \A n \in DOMAIN Kids[p] :
        \/ p = "PARENT" /\ n = 1 /\ Kids[p][n] = "child_1"
        \/ p = "PARENT" /\ n = 2 /\ Kids[p][n] = "child_2"
        \/ p = "child_1" /\ n = 1 /\ Kids[p][n] = "child_1_2"
        \/ p = "child_2" /\ n = 1 /\ Kids[p][n] = "child_2_1"
        \/ p = "child_2" /\ n = 2 /\ Kids[p][n] = "child_2_2"
  BY <1>1, <1>2
<1>5. \A p \in Processes : \A n \in DOMAIN Kids[p] :
        n \in 1 .. 2 /\ Kids[p][n] \in Processes \ {p, "PARENT"}
  BY <1>4 DEF Processes
<1>6. ASSUME NEW p \in Processes, NEW n \in DOMAIN Kids[p],
             NEW q \in Processes, NEW m \in DOMAIN Kids[q],
             Kids[p][n] = Kids[q][m]
      PROVE  p = q /\ n = m
  BY <1>4, <1>6
<1> QED
  BY <1>3, <1>5, <1>6

\* The invariant holds from the start.
LEMMA InitOK == Init => IInv
<1> SUFFICES ASSUME Init
             PROVE  IInv
  OBVIOUS
<1>1. TypeOK
  BY DEF Init, TypeOK
<1>2. CountsOK
  <2>1. Len(Kids["PARENT"]) = 2
    BY DEF Kids, Processes
  <2>2. /\ at["PARENT"] = "fork" 
        /\ \A p \in Processes : forked[p] = 0 /\ waited[p] = 0
        /\ \A p \in Processes \ {"PARENT"} : at[p] = "unborn"
    BY DEF Init, Processes
  <2> SUFFICES ASSUME NEW p \in Processes
               PROVE  /\ at[p] = "unborn" => forked[p] = 0 /\ waited[p] = 0
                      /\ at[p] = "fork" => waited[p] = 0
                                           /\ forked[p] < Len(Kids[p])
                      /\ at[p] \in {"unborn", "fork"}
    BY DEF CountsOK
  <2>3. CASE p = "PARENT"
    BY <2>1, <2>2, <2>3
  <2>4. CASE p # "PARENT"
    BY <2>2, <2>4
  <2> QED
    BY <2>3, <2>4
<1>3. UnbornOK
  BY Tree DEF Init, UnbornOK
<1>4. ReapedOK
  BY Tree DEF Init, ReapedOK
<1> QED
  BY <1>1, <1>2, <1>3, <1>4 DEF IInv

\* A fork gives life to a child nobody has waited for.
LEMMA ForkOK ==
  ASSUME IInv, NEW p \in Processes, Fork(p)
  PROVE  IInv'
<1> USE DEF IInv
<1> DEFINE n == forked[p] + 1
           kid == Kids[p][n]
           goes == IF n = Len(Kids[p]) THEN "wait" ELSE "fork"
<1>1. /\ forked[p] \in 0 .. 2 /\ waited[p] \in 0 .. 2 /\ at[p] = "fork"
      /\ Kids[p] \in Seq(Processes) /\ Len(Kids[p]) \in 0 .. 2
      /\ forked[p] < Len(Kids[p])
  BY Tree DEF TypeOK, CountsOK, Fork
<1>2. n \in DOMAIN Kids[p] /\ n \in 1 .. 2 /\ kid \in Processes /\ kid # p
  BY <1>1, Tree
<1>3. at[kid] = "unborn" /\ forked[kid] = 0 /\ waited[kid] = 0 /\ waited[p] = 0
  BY <1>2, <1>1 DEF UnbornOK, CountsOK
<1>4. /\ forked' = [forked EXCEPT ![p] = n]
      /\ at' = [at EXCEPT ![kid] = Start(kid), ![p] = goes]
      /\ waited' = waited /\ reaped' = reaped
  BY DEF Fork
<1>5. /\ Start(kid) \in {"sleep", "fork"} /\ goes \in {"wait", "fork"}
      /\ Start(kid) = "sleep" => Kids[kid] = <<>>
      /\ Start(kid) = "fork" => Len(Kids[kid]) > 0
  BY <1>2, Tree DEF Start
<1>6. /\ goes = "fork" => n < Len(Kids[p])
      /\ goes = "wait" => n = Len(Kids[p])
  BY <1>1
<1> HIDE DEF n, kid, goes
<1>7. /\ at'[p] = goes /\ at'[kid] = Start(kid) /\ forked'[p] = n
      /\ \A q \in Processes \ {p, kid} : at'[q] = at[q]
      /\ \A q \in Processes \ {p} : forked'[q] = forked[q]
  BY <1>2, <1>4 DEF TypeOK
<1>8. TypeOK'
  BY <1>2, <1>4, <1>5 DEF TypeOK
<1>9. CountsOK'
  <2> SUFFICES ASSUME NEW q \in Processes
               PROVE  /\ at'[q] = "unborn" => forked'[q] = 0 /\ waited'[q] = 0
                      /\ at'[q] = "fork" => waited'[q] = 0 /\ forked'[q] < Len(Kids[q])
                      /\ at'[q] = "sleep" => waited'[q] = 0 /\ Kids[q] = <<>>
                      /\ at'[q] = "wait" => waited'[q] < Len(Kids[q])
                      /\ at'[q] = "success" => waited'[q] = Len(Kids[q])
    BY DEF CountsOK
  <2>1. CASE q = p
    <3>1. /\ at'[p] = goes /\ forked'[p] = n /\ waited'[p] = 0
          /\ goes \in {"wait", "fork"}
      BY <1>3, <1>4, <1>5, <1>7
    <3>2. Len(Kids[p]) > 0 /\ (goes = "fork" => n < Len(Kids[p]))
      BY <1>1, <1>6
    <3> QED
      BY <2>1, <3>1, <3>2
  <2>2. CASE q = kid
    BY <1>2, <1>3, <1>4, <1>5, <1>7, <2>2
  <2>3. CASE q \notin {p, kid}
    BY <1>4, <1>7, <2>3 DEF CountsOK
  <2> QED
    BY <2>1, <2>2, <2>3
<1>10. UnbornOK'
  <2> SUFFICES ASSUME NEW q \in Processes, NEW m \in DOMAIN Kids[q],
                      m > forked'[q]
               PROVE  at'[Kids[q][m]] = "unborn"
    BY DEF UnbornOK
  <2>1. Kids[q][m] # kid
    BY <1>2, <1>7, Tree DEF n, kid
  <2>2. Kids[q][m] # p
    <3>1. CASE q = p
      BY <3>1, Tree
    <3>2. CASE q # p
      BY <1>1, <1>7, <3>2 DEF UnbornOK
    <3> QED
      BY <3>1, <3>2
  <2>3. m > forked[q]
    <3>1. CASE q = p
      BY <1>1, <1>7, <3>1, Tree DEF n
    <3>2. CASE q # p
      BY <1>7, <3>2
    <3> QED
      BY <3>1, <3>2
  <2>4. at[Kids[q][m]] = "unborn"
    BY <2>3 DEF UnbornOK
  <2> QED
    BY <1>7, <2>1, <2>2, <2>4, Tree
<1>11. ReapedOK'
  BY <1>1, <1>3, <1>4, <1>7 DEF ReapedOK, Ended, TypeOK
<1> QED
  BY <1>8, <1>9, <1>10, <1>11

\* A wait takes a child that has ended.
LEMMA WaitOK ==
  ASSUME IInv, NEW p \in Processes, Wait(p)
  PROVE  IInv'
<1> USE DEF IInv
<1> DEFINE n == waited[p] + 1
           kid == Kids[p][n]
           goes == IF n = Len(Kids[p]) THEN "success" ELSE "wait"
<1>1. /\ waited[p] \in 0 .. 2 /\ at[p] = "wait" /\ Ended(kid)
      /\ Kids[p] \in Seq(Processes) /\ Len(Kids[p]) \in 0 .. 2
      /\ waited[p] < Len(Kids[p])
  BY Tree DEF TypeOK, CountsOK, Wait
<1>2. n \in DOMAIN Kids[p] /\ n \in 1 .. 2 /\ kid \in Processes
  BY <1>1, Tree
<1>3. /\ waited' = [waited EXCEPT ![p] = n]
      /\ at' = [at EXCEPT ![p] = goes]
      /\ reaped' = reaped \union {kid} /\ forked' = forked
  BY DEF Wait
<1>4. /\ goes \in {"wait", "success"}
      /\ goes = "wait" => n < Len(Kids[p])
      /\ goes = "success" => n = Len(Kids[p])
  BY <1>1
<1>5. \A m \in DOMAIN Kids[p] : m <= n => m <= waited[p] \/ m = n
  BY <1>1, Tree
<1>6. kid # p
  BY <1>1 DEF Ended
<1>7. kid = Kids[p][n]
  OBVIOUS
<1> HIDE DEF n, kid, goes
<1>8. /\ at'[p] = goes /\ waited'[p] = n
      /\ \A q \in Processes \ {p} : at'[q] = at[q] /\ waited'[q] = waited[q]
  BY <1>3 DEF TypeOK
<1>9. TypeOK'
  BY <1>2, <1>3, <1>4 DEF TypeOK
<1>10. CountsOK'
  <2> SUFFICES ASSUME NEW q \in Processes
               PROVE  /\ at'[q] = "unborn" => forked'[q] = 0 /\ waited'[q] = 0
                      /\ at'[q] = "fork" => waited'[q] = 0 /\ forked'[q] < Len(Kids[q])
                      /\ at'[q] = "sleep" => waited'[q] = 0 /\ Kids[q] = <<>>
                      /\ at'[q] = "wait" => waited'[q] < Len(Kids[q])
                      /\ at'[q] = "success" => waited'[q] = Len(Kids[q])
    BY DEF CountsOK
  <2>1. CASE q = p
    BY <1>4, <1>8, <2>1
  <2>2. CASE q # p
    BY <1>3, <1>8, <2>2 DEF CountsOK
  <2> QED
    BY <2>1, <2>2
<1>11. UnbornOK'
  BY <1>1, <1>3, <1>8, Tree DEF UnbornOK
<1>12. ReapedOK'
  <2>1. \A q \in Processes : \A m \in DOMAIN Kids[q] :
          m <= waited'[q] => Kids[q][m] \in reaped'
    <3> SUFFICES ASSUME NEW q \in Processes, NEW m \in DOMAIN Kids[q],
                        m <= waited'[q]
                 PROVE  Kids[q][m] \in reaped'
      OBVIOUS
    <3>1. CASE q = p
      BY <1>3, <1>5, <1>7, <1>8, <3>1 DEF ReapedOK
    <3>2. CASE q # p
      BY <1>3, <1>8, <3>2 DEF ReapedOK
    <3> QED
      BY <3>1, <3>2
  <2>2. \A q \in reaped' : Ended(q)'
    <3> SUFFICES ASSUME NEW q \in reaped'
                 PROVE  at'[q] \in {"success", "failure"}
      BY DEF Ended
    <3>1. Ended(q) /\ q \in Processes
      BY <1>1, <1>2, <1>3 DEF ReapedOK, TypeOK
    <3>2. q # p
      BY <1>1, <3>1 DEF Ended
    <3> QED
      BY <1>8, <3>1, <3>2 DEF Ended
  <2> QED
    BY <2>1, <2>2 DEF ReapedOK
<1> QED
  BY <1>9, <1>10, <1>11, <1>12

\* The other steps end a process.
LEMMA EndOK ==
  ASSUME IInv, NEW p \in Processes, ForkFails(p) \/ Sleep(p)
  PROVE  IInv'
<1> USE DEF IInv
<1>1. /\ at[p] \in {"fork", "sleep"}
      /\ at'[p] \in {"failure", "success"}
      /\ at'[p] = "success" => at[p] = "sleep"
      /\ \A q \in Processes \ {p} : at'[q] = at[q]
      /\ forked' = forked /\ waited' = waited /\ reaped' = reaped
  BY DEF TypeOK, ForkFails, Sleep
<1>2. TypeOK'
  BY DEF TypeOK, ForkFails, Sleep
<1>3. CountsOK'
  <2>1. Kids[p] = <<>> => Len(Kids[p]) = 0
    OBVIOUS
  <2>2. at'[p] = "success" => waited[p] = 0 /\ Len(Kids[p]) = 0
    BY <1>1, <2>1 DEF CountsOK
  <2> QED
    BY <1>1, <2>2 DEF CountsOK
<1>4. UnbornOK'
  BY <1>1, Tree DEF UnbornOK
<1>5. ReapedOK'
  BY <1>1 DEF ReapedOK, Ended, TypeOK
<1> QED
  BY <1>2, <1>3, <1>4, <1>5

-----------------------------------------------------------------------------
\* The invariant holds whichever forks fail and however the processes run.
THEOREM Invariant == Spec => []IInv
<1>1. IInv /\ [Next]_vars => IInv'
  <2>1. CASE UNCHANGED vars
    BY <2>1 DEF vars, IInv, TypeOK, CountsOK, UnbornOK, ReapedOK, Ended
  <2> QED
    BY <2>1, ForkOK, WaitOK, EndOK DEF Next
<1> QED
  BY InitOK, <1>1, PTL DEF Spec

\* Every variable keeps its type.
THEOREM TypeCorrect == Spec => []TypeOK
<1>1. IInv => TypeOK
  BY DEF IInv
<1> QED
  BY Invariant, <1>1, PTL

\* A process that has waited as often as it has children has reaped them all.
LEMMA Reaps == IInv => SuccessReaps
<1> SUFFICES ASSUME IInv, NEW p \in Processes, at[p] = "success",
                    NEW n \in DOMAIN Kids[p]
             PROVE  Kids[p][n] \in reaped
  BY DEF SuccessReaps, KidsOf
<1>1. waited[p] = Len(Kids[p])
  BY DEF IInv, CountsOK
<1>2. n <= waited[p]
  BY <1>1, Tree
<1> QED
  BY <1>2 DEF IInv, ReapedOK

\* Success means that no child is left, running or as a zombie (lines 53-56,
\* 98-103, 107-118).
THEOREM ReapingCorrect == Spec => []SuccessReaps
  BY Invariant, Reaps, PTL

\* Only a failed fork leaves a process without its parent (lines 30, 40, 60, 71,
\* 85).
THEOREM OrphansCorrect == Spec => []OrphansNeedAFailure
<1>1. /\ KidsOf("PARENT") = {"child_1", "child_2"}
      /\ KidsOf("child_1") = {"child_1_2"}
      /\ KidsOf("child_2") = {"child_2_1", "child_2_2"}
  <2>1. /\ Kids["PARENT"] = <<"child_1", "child_2">>
        /\ Kids["child_1"] = <<"child_1_2">>
        /\ Kids["child_2"] = <<"child_2_1", "child_2_2">>
    BY DEF Kids, Processes
  <2> QED
    BY <2>1 DEF KidsOf
<1>2. ASSUME IInv, at["PARENT"] = "success", NEW p \in Processes,
             p # "PARENT", p \notin reaped
      PROVE  \E q \in Processes : p \in KidsOf(q) /\ at[q] = "failure"
  <2>1. p \notin {"child_1", "child_2"} /\ {"child_1", "child_2"} \subseteq reaped
    BY <1>1, <1>2, Reaps DEF SuccessReaps, Processes
  <2>2. PICK q \in {"child_1", "child_2"} : p \in KidsOf(q)
    BY <1>1, <1>2, <2>1 DEF Processes
  <2>3. q \in Processes /\ Ended(q) /\ at[q] # "success"
    BY <1>2, <2>1, <2>2, Reaps DEF IInv, ReapedOK, SuccessReaps, Processes
  <2> QED
    BY <2>2, <2>3 DEF Ended
<1>3. IInv => OrphansNeedAFailure
  BY <1>2 DEF OrphansNeedAFailure
<1> QED
  BY Invariant, <1>3, PTL
=============================================================================
