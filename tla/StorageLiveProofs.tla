------------------------- MODULE StorageLiveProofs -------------------------
(***************************************************************************)
(* The safety of StorageLive for every number of rooms and buyers, every   *)
(* demand and every stock.                                                 *)
(***************************************************************************)
EXTENDS StorageLive, TLAPS

\* The loop index of storage_control is at rest outside it and counts the
\* mutexes in its two loops over them.
ControlIndexOK ==
    /\ lpc \notin {"lock all", "print", "unlock all"} => k = 0
    /\ lpc \in {"lock all", "unlock all"} => k \in LockedRooms

\* Buyers whose turn in main's loops has not come are unborn; those it has
\* joined are done.
StartupOK ==
    /\ main = "create loader" => lpc = "unborn" /\ m = 0
    /\ main \in {"create loader", "create buyers"} =>
        \A b \in Buyers : m <= b => bpc[b] = "unborn"

Joined == {"cancel", "join loader", "return", "exited", "aborted"}

JoinOK ==
    /\ main = "join" => \A b \in Buyers : b < m => bpc[b] = "done"
    /\ main \in Joined => \A b \in Buyers : bpc[b] = "done"
    /\ lpc = "done" => main \in Joined

\* A buyer on its way to a room still wants something, a buyer that left does
\* not.
DemandOK ==
    \A b \in Buyers :
        /\ bpc[b] \in {"trylock", "take"} => demand[b] > 0
        /\ bpc[b] = "done" => demand[b] <= 0

Owners == {Free, Loader} \cup Buyers

\* The inductive invariant: who holds which lock, and where main's two loops
\* leave the threads that might otherwise be started twice or too late.
IInv ==
    /\ TypeOK
    /\ LocksMatchVisits
    /\ LoaderFillsEmptyRoom
    /\ ControlIndexOK
    /\ StartupOK
    /\ JoinOK
    /\ DemandOK

-----------------------------------------------------------------------------
\* The names of the rooms, buyers and lock owners are apart from each other.
LEMMA Names ==
    /\ Buyers \subseteq Nat
    /\ Loader \in Nat
    /\ Loader \notin Buyers
    /\ Free \notin Buyers
    /\ Free # Loader
    /\ NoRoom \notin Rooms
    /\ LockedRooms \subseteq Rooms
    /\ Rooms \subseteq Nat
    /\ 0 \in Rooms
    /\ 0 \in LockedRooms
    /\ 0 \in Buyers
BY CountsAssumption DEF Buyers, Loader, Free, NoRoom, LockedRooms, Rooms

\* Stepping an index modulo its bound stays inside, and goes up by one below
\* the last value.
LEMMA Wrap ==
    ASSUME NEW N \in Nat \ {0}, NEW x \in 0 .. N - 1
    PROVE  /\ (x + 1) % N \in 0 .. N - 1
           /\ x < N - 1 => (x + 1) % N = x + 1
           /\ ~(x < N - 1) => (x + 1) % N = 0
<1>1. CASE x < N - 1
  <2>1. x + 1 \in 0 .. N - 1
    BY <1>1
  <2>2. (x + 1) % N = x + 1
    BY <2>1
  <2> QED
    BY <2>1, <2>2
<1>2. CASE x = N - 1
  <2>1. (x + 1) % N = 0
    BY <1>2
  <2> QED
    BY <1>2, <2>1
<1> QED
  BY <1>1, <1>2

\* The loops of storage_control stay among the rooms.
LEMMA LoopEnds == LastMutex \in Rooms /\ LastPrinted \in Rooms
BY CountsAssumption DEF LastMutex, LastPrinted, Rooms

LEMMA LoopIndex ==
    ASSUME NEW last \in Rooms, NEW x \in Rooms, x < last
    PROVE  x + 1 \in Rooms
BY CountsAssumption DEF Rooms

LEMMA InitIInv == Init => IInv
<1> SUFFICES ASSUME Init PROVE IInv
  OBVIOUS
<1>1. TypeOK
  <2>1. rooms \in [Rooms -> Nat]
    BY StockAssumption DEF Init
  <2>2. /\ mutex \in [Rooms -> {Free, Loader} \cup Buyers]
        /\ bpc \in [Buyers -> BuyerPlaces]
        /\ n \in [Buyers -> {NoRoom} \cup Rooms]
    BY DEF Init, BuyerPlaces
  <2>3. demand \in [Buyers -> Int]
    <3>1. Demand \in Int
      BY StockAssumption
    <3> QED
      BY <3>1 DEF Init
  <2>4. lpc \in LoaderPlaces /\ main \in MainPlaces
    BY DEF Init, LoaderPlaces, MainPlaces
  <2>5. i \in Rooms /\ k \in Rooms /\ m \in Buyers
    BY Names DEF Init
  <2>6. \A b \in Buyers :
          bpc[b] \in {"trylock", "take", "clear", "unlock"} <=> n[b] # NoRoom
    BY DEF Init
  <2> QED
    BY <2>1, <2>2, <2>3, <2>4, <2>5, <2>6 DEF TypeOK
<1>2. LocksMatchVisits
  BY Names DEF Init, LocksMatchVisits, InRoom, LoaderHolds
<1>3. LoaderFillsEmptyRoom /\ ControlIndexOK /\ StartupOK /\ JoinOK /\ DemandOK
  BY DEF Init, LoaderFillsEmptyRoom, ControlIndexOK, StartupOK, JoinOK, Joined,
         DemandOK
<1> QED
  BY <1>1, <1>2, <1>3 DEF IInv

\* The arithmetic of main's loops over the buyers.
LEMMA BuyerOrder ==
    ASSUME NEW a \in Buyers, NEW b \in Buyers
    PROVE  /\ a + 1 <= b => a <= b /\ b # a
           /\ b < a + 1 => b < a \/ b = a
           /\ ~(a < LastBuyer) => b < a \/ b = a
           /\ ~(b < 0)
           /\ b <= b
BY CountsAssumption DEF Buyers, LastBuyer

\* The buyer main is about to create does not run yet.
LEMMA NextUnborn ==
    ASSUME TypeOK, StartupOK, main \in {"create loader", "create buyers"}
    PROVE  bpc[m] = "unborn"
<1>1. m \in Buyers
  BY DEF TypeOK
<1>2. m <= m
  BY <1>1, BuyerOrder
<1> QED
  BY <1>1, <1>2 DEF StartupOK

-----------------------------------------------------------------------------
\* The type invariant: arithmetic only in the subtraction from a demand and in
\* the loop indices.
LEMMA TypeStep == IInv /\ [Next]_vars => TypeOK'
<1> SUFFICES ASSUME IInv, [Next]_vars PROVE TypeOK'
  OBVIOUS
<1> USE DEF IInv
<1>1. CASE UNCHANGED vars
  BY <1>1 DEF TypeOK, vars, buyerVars, loaderVars, mainVars
<1>2. CASE MainStep
  <2> USE <1>2 DEF MainStep, TypeOK, MainGoto, MainPlaces
  <2>1. (m + 1) % NUM_OF_BUYERS \in Buyers
    BY CountsAssumption, Wrap DEF Buyers
  <2>2. CASE MainFail
    BY <2>2 DEF MainFail
  <2>3. CASE MainCreateLoader
    BY <2>3 DEF MainCreateLoader, LoaderPlaces
  <2>4. CASE MainCreateBuyer
    <3>1. m' \in Buyers /\ main' \in MainPlaces
      BY <2>1, <2>4 DEF MainCreateBuyer
    <3>2. bpc' \in [Buyers -> BuyerPlaces]
      BY <2>4 DEF MainCreateBuyer, BuyerPlaces
    <3>3. bpc[m] = "unborn"
      BY <2>4, NextUnborn DEF MainCreateBuyer
    <3>4. \A b \in Buyers :
            bpc'[b] \in {"trylock", "take", "clear", "unlock"}
              <=> n'[b] # NoRoom
      BY <2>4, <3>3 DEF MainCreateBuyer
    <3> QED
      BY <2>4, <3>1, <3>2, <3>4 DEF MainCreateBuyer
  <2>5. CASE MainJoinBuyer
    BY <2>1, <2>5 DEF MainJoinBuyer
  <2>6. CASE MainCancelLoader \/ MainJoinLoader \/ MainReturn
    BY <2>6 DEF MainCancelLoader, MainJoinLoader, MainReturn
  <2> QED
    BY <2>2, <2>3, <2>4, <2>5, <2>6
<1>3. CASE LoaderStep
  <2> USE <1>3 DEF LoaderStep, TypeOK, LoaderGoto, LoaderPlaces, buyerVars, mainVars
  <2>1. CASE LoaderScan \/ LoaderCancel
    BY <2>1, Names DEF LoaderScan, LoaderCancel
  <2>2. CASE LoaderLock \/ LoaderBusy \/ LoaderUnlock
    BY <2>2 DEF LoaderLock, LoaderBusy, LoaderUnlock, Lock, Busy, Unlock
  <2>3. CASE LoaderFill
    BY <2>3, StockAssumption DEF LoaderFill
  <2>4. CASE LoaderWake
    <3>1. i' \in Rooms
      BY <2>4, CountsAssumption, Wrap DEF LoaderWake, NextRoom, Rooms
    <3> QED
      BY <2>4, <3>1 DEF LoaderWake
  <2>5. ASSUME NEW last \in Rooms, k < last, k' = k + 1 PROVE k' \in Rooms
    BY <2>5, LoopIndex
  <2>6. LastMutex \in Rooms /\ LastPrinted \in Rooms
    BY LoopEnds
  <2>7. CASE ControlLock
    <3>1. k' \in Rooms /\ lpc' \in LoaderPlaces
      BY <2>5, <2>6, <2>7, Names DEF ControlLock, LoopTo
    <3> QED
      BY <2>7, <3>1 DEF ControlLock, Lock
  <2>8. CASE ControlPrint
    BY <2>5, <2>6, <2>8, Names DEF ControlPrint, LoopTo
  <2>9. CASE ControlUnlock
    <3>1. k' \in Rooms /\ lpc' \in LoaderPlaces
      BY <2>5, <2>6, <2>9, Names DEF ControlUnlock, LoopTo
    <3> QED
      BY <2>9, <3>1 DEF ControlUnlock, Unlock
  <2> QED
    BY <2>1, <2>2, <2>3, <2>4, <2>7, <2>8, <2>9
<1>4. ASSUME NEW b \in Buyers, BuyerStep(b) PROVE TypeOK'
  <2> USE <1>4 DEF BuyerStep, TypeOK, BuyerGoto, BuyerPlaces, loaderVars, mainVars
  <2>1. CASE BuyerChoose(b)
    BY <2>1, Names DEF BuyerChoose
  <2>2. CASE BuyerLeave(b)
    BY <2>2 DEF BuyerLeave
  <2>3. CASE BuyerLock(b)
    BY <2>3 DEF BuyerLock, Lock
  <2>4. CASE BuyerBusy(b)
    BY <2>4 DEF BuyerBusy, Busy
  <2>5. CASE BuyerTake(b)
    <3>1. n[b] \in Rooms
      BY <2>5 DEF BuyerTake
    <3>2. demand' \in [Buyers -> Int]
      BY <2>5, <3>1 DEF BuyerTake
    <3> QED
      BY <2>5, <3>2 DEF BuyerTake
  <2>6. CASE BuyerClear(b)
    <3>1. rooms' \in [Rooms -> Nat]
      BY <2>6 DEF BuyerClear
    <3> QED
      BY <2>6, <3>1 DEF BuyerClear
  <2>7. CASE BuyerUnlock(b)
    BY <2>7 DEF BuyerUnlock, Unlock
  <2> QED
    BY <2>1, <2>2, <2>3, <2>4, <2>5, <2>6, <2>7
<1> QED
  BY <1>1, <1>2, <1>3, <1>4 DEF Next, Terminating

-----------------------------------------------------------------------------
\* The arithmetic of the loops over the mutexes.
LEMMA RoomOrder ==
    ASSUME NEW x \in Rooms, NEW y \in Rooms
    PROVE  /\ x < y + 1 <=> x < y \/ x = y
           /\ y + 1 <= x <=> y < x
           /\ y <= x <=> y < x \/ x = y
           /\ y < x => x # y
           /\ x \in LockedRooms => ~(LastMutex < x)
           /\ x \in LockedRooms <=> x <= LastMutex
           /\ x \in LockedRooms /\ ~(x < LastMutex) => x = LastMutex
           /\ x < LastMutex => x \in LockedRooms /\ x + 1 \in LockedRooms
           /\ 0 <= x
           /\ ~(x < 0)
BY CountsAssumption DEF Rooms, LockedRooms, LastMutex

\* The three loops of storage_control against the locks they hold.
LEMMA ControlLockStep ==
    ASSUME IInv, TypeOK', ControlLock, UNCHANGED <<bpc, n>>
    PROVE  LocksMatchVisits'
<1>1. /\ k \in Rooms /\ k \in LockedRooms /\ mutex \in [Rooms -> Owners]
      /\ lpc = "lock all" /\ mutex[k] = Free
      /\ mutex' = [mutex EXCEPT ![k] = Loader]
      /\ i' = i
  BY DEF IInv, TypeOK, ControlIndexOK, ControlLock, Lock, LoopTo, LoaderGoto, Owners
<1>2. \/ k < LastMutex /\ k' = k + 1 /\ lpc' = "lock all"
      \/ ~(k < LastMutex) /\ k' = 0 /\ lpc' = "print"
  BY DEF ControlLock, LoopTo, LoaderGoto
<1>3. \A r \in Rooms, b \in Buyers : mutex'[r] = b <=> mutex[r] = b
  BY <1>1, Names
<1>4. \A r \in Rooms : mutex'[r] = Loader <=> mutex[r] = Loader \/ r = k
  BY <1>1
<1>5. \A r \in Rooms : mutex[r] = Loader <=> r < k
  BY <1>1 DEF IInv, LocksMatchVisits, LoaderHolds
<1>6. \A r \in Rooms : LoaderHolds(r)' <=> r < k \/ r = k
  <2> SUFFICES ASSUME NEW r \in Rooms PROVE LoaderHolds(r)' <=> r < k \/ r = k
    OBVIOUS
  <2>1. CASE k < LastMutex
    <3>1. LoaderHolds(r)' <=> r < k + 1
      BY <1>2, <2>1 DEF LoaderHolds
    <3> QED
      BY <1>1, <3>1, RoomOrder
  <2>2. CASE ~(k < LastMutex)
    <3>1. k = LastMutex
      BY <1>1, <2>2, RoomOrder
    <3>2. LoaderHolds(r)' <=> r \in LockedRooms
      BY <1>2, <2>2 DEF LoaderHolds
    <3>3. r \in LockedRooms <=> r < k \/ r = k
      BY <1>1, <3>1, RoomOrder DEF LockedRooms
    <3> QED
      BY <3>2, <3>3
  <2> QED
    BY <2>1, <2>2
<1>7. lpc' # "done"
  BY <1>2
<1>8. \A r \in Rooms, b \in Buyers :
        mutex[r] = b <=> InRoom(b)' /\ n'[b] = r
  BY DEF IInv, LocksMatchVisits, InRoom
<1> QED
  BY <1>3, <1>4, <1>5, <1>6, <1>7, <1>8 DEF LocksMatchVisits

LEMMA ControlPrintStep ==
    ASSUME IInv, ControlPrint, UNCHANGED <<bpc, n>>
    PROVE  LocksMatchVisits'
<1>1. lpc = "print" /\ UNCHANGED <<mutex, i>>
  BY DEF ControlPrint, LoopTo, LoaderGoto
<1>2. \/ lpc' = "print"
      \/ lpc' = "unlock all" /\ k' = 0
  BY DEF ControlPrint, LoopTo, LoaderGoto
<1>3. \A r \in Rooms : LoaderHolds(r)' <=> LoaderHolds(r)
  BY <1>1, <1>2, RoomOrder DEF LoaderHolds
<1> QED
  BY <1>1, <1>2, <1>3 DEF IInv, LocksMatchVisits, InRoom

LEMMA ControlUnlockStep ==
    ASSUME IInv, TypeOK', ControlUnlock, UNCHANGED <<bpc, n>>
    PROVE  LocksMatchVisits'
<1>1. /\ k \in Rooms /\ k \in LockedRooms /\ mutex \in [Rooms -> Owners]
      /\ lpc = "unlock all"
      /\ mutex' = [mutex EXCEPT ![k] = Free]
      /\ i' = i
  BY DEF IInv, TypeOK, ControlIndexOK, ControlUnlock, Unlock, LoopTo, LoaderGoto,
         Owners
<1>2. \/ k < LastMutex /\ k' = k + 1 /\ lpc' = "unlock all"
      \/ ~(k < LastMutex) /\ k' = 0 /\ lpc' = "sleep"
  BY DEF ControlUnlock, LoopTo, LoaderGoto
<1>3. \A r \in Rooms :
        LoaderHolds(r) <=> r \in LockedRooms /\ (k < r \/ r = k)
  <2> SUFFICES ASSUME NEW r \in Rooms
               PROVE  LoaderHolds(r) <=> r \in LockedRooms /\ (k < r \/ r = k)
    OBVIOUS
  <2>1. LoaderHolds(r) <=> r \in LockedRooms /\ k <= r
    BY <1>1 DEF LoaderHolds
  <2> QED
    BY <1>1, <2>1, RoomOrder
<1>4. \A r \in Rooms : mutex[r] = Loader <=> LoaderHolds(r)
  BY <1>1 DEF IInv, LocksMatchVisits
<1>5. mutex[k] = Loader
  BY <1>1, <1>3, <1>4
<1>6. \A r \in Rooms, b \in Buyers : mutex'[r] = b <=> mutex[r] = b
  BY <1>1, <1>5, Names
<1>7. \A r \in Rooms : mutex'[r] = Loader <=> mutex[r] = Loader /\ r # k
  BY <1>1, Names
<1>8. \A r \in Rooms : LoaderHolds(r)' <=> LoaderHolds(r) /\ r # k
  <2> SUFFICES ASSUME NEW r \in Rooms
               PROVE  LoaderHolds(r)' <=> LoaderHolds(r) /\ r # k
    OBVIOUS
  <2>1. CASE k < LastMutex
    <3>1. LoaderHolds(r)' <=> r \in LockedRooms /\ k + 1 <= r
      BY <1>2, <2>1 DEF LoaderHolds
    <3>2. k + 1 <= r <=> k < r
      BY <1>1, RoomOrder
    <3>3. k < r => r # k
      BY <1>1, RoomOrder
    <3> QED
      BY <1>3, <3>1, <3>2, <3>3
  <2>2. CASE ~(k < LastMutex)
    <3>1. k = LastMutex
      BY <1>1, <2>2, RoomOrder
    <3>2. ~LoaderHolds(r)'
      BY <1>2, <2>2 DEF LoaderHolds
    <3>3. r \in LockedRooms => ~(k < r)
      BY <3>1, RoomOrder
    <3> QED
      BY <1>3, <3>2, <3>3
  <2> QED
    BY <2>1, <2>2
<1>9. \A r \in Rooms, b \in Buyers :
        mutex[r] = b <=> InRoom(b)' /\ n'[b] = r
  BY DEF IInv, LocksMatchVisits, InRoom
<1> QED
  BY <1>4, <1>6, <1>7, <1>8, <1>9 DEF LocksMatchVisits

-----------------------------------------------------------------------------
\* Locks: trylock and storage_control take only free mutexes, so nobody else is
\* in the room; every unlock is done by the one who is in it.
LEMMA LocksStep == IInv /\ [Next]_vars => LocksMatchVisits'
<1> SUFFICES ASSUME IInv, [Next]_vars PROVE LocksMatchVisits'
  OBVIOUS
<1> USE DEF IInv
<1>t. TypeOK'
  BY TypeStep
<1>1. CASE UNCHANGED vars
  BY <1>1 DEF LocksMatchVisits, InRoom, LoaderHolds, vars, buyerVars, loaderVars,
              mainVars
<1>2. CASE MainStep
  <2>1. UNCHANGED <<mutex, n, i, k>>
    BY <1>2 DEF MainStep
  <2>2. \A r \in Rooms : LoaderHolds(r) <=> LoaderHolds(r)'
    BY <1>2, <2>1
       DEF MainStep, LoaderHolds, MainFail, MainCreateLoader, MainGoto, StartupOK,
           MainCreateBuyer, MainJoinBuyer, MainCancelLoader, MainJoinLoader,
           MainReturn
  <2>3. lpc = "done" => lpc' = "done"
    BY <1>2
       DEF MainStep, MainFail, MainCreateLoader, MainGoto, StartupOK,
           MainCreateBuyer, MainJoinBuyer, MainCancelLoader, MainJoinLoader,
           MainReturn
  <2>4. \A b \in Buyers : InRoom(b) <=> InRoom(b)'
    <3>1. CASE MainCreateBuyer
      BY <3>1, NextUnborn DEF MainCreateBuyer, MainGoto, InRoom, TypeOK
    <3>2. CASE ~MainCreateBuyer
      BY <1>2, <3>2
         DEF MainStep, MainFail, MainCreateLoader, MainJoinBuyer,
             MainCancelLoader, MainJoinLoader, MainReturn, InRoom
    <3> QED
      BY <3>1, <3>2
  <2> QED
    BY <2>1, <2>2, <2>3, <2>4 DEF LocksMatchVisits
<1>3. CASE LoaderStep
  <2>1. UNCHANGED <<bpc, n>>
    BY <1>3 DEF LoaderStep, buyerVars
  <2>2. CASE ControlLock
    BY <1>t, <2>1, <2>2, ControlLockStep
  <2>3. CASE ControlPrint
    BY <2>1, <2>3, ControlPrintStep
  <2>4. CASE ControlUnlock
    BY <1>t, <2>1, <2>4, ControlUnlockStep
  <2>5. CASE LoaderCancel
    <3>1. UNCHANGED <<mutex, i>> /\ lpc' = "done"
      BY <2>5 DEF LoaderCancel
    <3> QED
      BY <2>1, <3>1 DEF LocksMatchVisits, InRoom, LoaderHolds
  <2>6. CASE LoaderScan \/ LoaderBusy \/ LoaderWake
    <3>1. /\ UNCHANGED <<mutex, k>>
          /\ lpc \in {"scan", "trylock", "sleep"}
          /\ lpc' \in {"scan", "trylock", "sleep"}
      BY <2>6 DEF LoaderScan, LoaderBusy, LoaderWake, LoaderGoto, Busy
    <3> QED
      BY <2>1, <3>1 DEF LocksMatchVisits, InRoom, LoaderHolds
  <2>7. CASE LoaderFill
    <3>1. UNCHANGED <<mutex, i>> /\ lpc = "fill" /\ lpc' = "unlock"
      BY <2>7 DEF LoaderFill, LoaderGoto
    <3> QED
      BY <2>1, <3>1 DEF LocksMatchVisits, InRoom, LoaderHolds
  <2>8. CASE LoaderLock
    <3>1. /\ UNCHANGED i /\ lpc = "trylock" /\ lpc' = "fill"
          /\ mutex[i] = Free /\ mutex' = [mutex EXCEPT ![i] = Loader]
      BY <2>8 DEF LoaderLock, Lock, LoaderGoto
    <3>2. \A r \in Rooms : mutex'[r] = Loader <=> r = i
      BY <3>1 DEF LocksMatchVisits, LoaderHolds, TypeOK
    <3>3. \A r \in Rooms, b \in Buyers : mutex'[r] = b <=> mutex[r] = b
      BY <3>1, Names DEF TypeOK
    <3> QED
      BY <2>1, <3>1, <3>2, <3>3 DEF LocksMatchVisits, InRoom, LoaderHolds
  <2>9. CASE LoaderUnlock
    <3>1. /\ UNCHANGED <<i, k>> /\ lpc = "unlock" /\ lpc' = "lock all" /\ k = 0
          /\ mutex' = [mutex EXCEPT ![i] = Free]
      BY <2>9 DEF LoaderUnlock, Unlock, LoaderGoto, ControlIndexOK
    <3>2. \A r \in Rooms : mutex[r] = Loader <=> r = i
      BY <3>1 DEF LocksMatchVisits, LoaderHolds, TypeOK
    <3>3. \A r \in Rooms : mutex'[r] # Loader
      BY <3>1, <3>2, Names DEF TypeOK
    <3>4. \A r \in Rooms, b \in Buyers : mutex'[r] = b <=> mutex[r] = b
      BY <3>1, <3>2, Names DEF TypeOK
    <3>5. \A r \in Rooms : ~LoaderHolds(r)'
      BY <3>1, RoomOrder DEF LoaderHolds
    <3> QED
      BY <2>1, <3>3, <3>4, <3>5 DEF LocksMatchVisits, InRoom
  <2> QED
    BY <1>3, <2>2, <2>3, <2>4, <2>5, <2>6, <2>7, <2>8, <2>9 DEF LoaderStep
<1>4. ASSUME NEW b \in Buyers, BuyerStep(b) PROVE LocksMatchVisits'
  <2>1. UNCHANGED <<lpc, i, k>>
    BY <1>4 DEF BuyerStep, loaderVars
  <2>2. \A r \in Rooms : LoaderHolds(r) <=> LoaderHolds(r)'
    BY <2>1 DEF LoaderHolds
  <2> USE <2>1, <2>2, Names DEF BuyerGoto, LocksMatchVisits, InRoom, TypeOK
  <2>3. CASE BuyerChoose(b) \/ BuyerLeave(b)
    BY <2>3 DEF BuyerChoose, BuyerLeave
  <2>4. CASE BuyerLock(b)
    BY <2>4 DEF BuyerLock, Lock
  <2>5. CASE BuyerBusy(b)
    BY <2>5 DEF BuyerBusy, Busy
  <2>6. CASE BuyerTake(b) \/ BuyerClear(b)
    BY <2>6 DEF BuyerTake, BuyerClear
  <2>7. CASE BuyerUnlock(b)
    BY <2>7 DEF BuyerUnlock, Unlock
  <2> QED
    BY <1>4, <2>3, <2>4, <2>5, <2>6, <2>7 DEF BuyerStep
<1> QED
  BY <1>1, <1>2, <1>3, <1>4 DEF Next, Terminating

-----------------------------------------------------------------------------
\* A room seen empty stays empty for the loader: buyers only empty rooms.
LEMMA FillStep == IInv /\ [Next]_vars => LoaderFillsEmptyRoom'
<1> SUFFICES ASSUME IInv, [Next]_vars PROVE LoaderFillsEmptyRoom'
  OBVIOUS
<1> USE DEF IInv, LoaderFillsEmptyRoom
<1>1. CASE UNCHANGED vars
  BY <1>1 DEF vars, loaderVars
<1>2. CASE MainStep
  BY <1>2 DEF MainStep, MainFail, MainCreateLoader, MainCreateBuyer, MainJoinBuyer,
              MainCancelLoader, MainJoinLoader, MainReturn
<1>3. CASE LoaderStep
  BY <1>3 DEF LoaderStep, LoaderScan, LoaderLock, LoaderBusy, LoaderFill,
              LoaderUnlock, ControlLock, ControlPrint, ControlUnlock, LoaderWake,
              LoaderCancel, LoopTo, LoaderGoto
<1>4. ASSUME NEW b \in Buyers, BuyerStep(b) PROVE LoaderFillsEmptyRoom'
  <2>1. UNCHANGED <<lpc, i>>
    BY <1>4 DEF BuyerStep, loaderVars
  <2>2. \A r \in Rooms : rooms'[r] = rooms[r] \/ rooms'[r] = 0
    BY <1>4 DEF BuyerStep, BuyerChoose, BuyerLeave, BuyerLock, BuyerBusy, BuyerTake,
                BuyerClear, BuyerUnlock, TypeOK
  <2> QED
    BY <2>1, <2>2 DEF TypeOK
<1> QED
  BY <1>1, <1>2, <1>3, <1>4 DEF Next, Terminating

LEMMA ControlIndexStep == IInv /\ [Next]_vars => ControlIndexOK'
<1> SUFFICES ASSUME IInv, [Next]_vars PROVE ControlIndexOK'
  OBVIOUS
<1> USE DEF IInv, ControlIndexOK
<1>1. CASE UNCHANGED vars
  BY <1>1 DEF vars, loaderVars
<1>2. CASE MainStep
  BY <1>2 DEF MainStep, MainFail, MainCreateLoader, MainCreateBuyer, MainJoinBuyer,
              MainCancelLoader, MainJoinLoader, MainReturn, StartupOK, MainGoto
<1>3. CASE LoaderStep
  <2>1. 0 \in LockedRooms
    BY Names
  <2>2. k < LastMutex => k + 1 \in LockedRooms
    <3>1. k \in Rooms
      BY DEF TypeOK
    <3> QED
      BY <3>1, RoomOrder
  <2>3. CASE ControlLock
    BY <2>1, <2>2, <2>3 DEF ControlLock, LoopTo, LoaderGoto
  <2>4. CASE ControlPrint
    BY <2>1, <2>4 DEF ControlPrint, LoopTo, LoaderGoto
  <2>5. CASE ControlUnlock
    BY <2>1, <2>2, <2>5 DEF ControlUnlock, LoopTo, LoaderGoto
  <2>6. CASE LoaderScan \/ LoaderLock \/ LoaderBusy \/ LoaderFill \/ LoaderUnlock
             \/ LoaderWake \/ LoaderCancel
    BY <2>1, <2>6 DEF LoaderScan, LoaderLock, LoaderBusy, LoaderFill, LoaderUnlock,
                      LoaderWake, LoaderCancel, LoaderGoto
  <2> QED
    BY <1>3, <2>3, <2>4, <2>5, <2>6 DEF LoaderStep
<1>4. ASSUME NEW b \in Buyers, BuyerStep(b) PROVE ControlIndexOK'
  BY <1>4 DEF BuyerStep, loaderVars
<1> QED
  BY <1>1, <1>2, <1>3, <1>4 DEF Next, Terminating

-----------------------------------------------------------------------------
\* main's two loops.
LEMMA StartupStep == IInv /\ [Next]_vars => StartupOK'
<1> SUFFICES ASSUME IInv, [Next]_vars PROVE StartupOK'
  OBVIOUS
<1> USE DEF IInv, StartupOK
<1>1. CASE UNCHANGED vars
  BY <1>1 DEF vars, buyerVars, loaderVars, mainVars
<1>2. CASE MainStep
  <2>1. CASE MainCreateLoader
    BY <2>1 DEF MainCreateLoader, MainGoto
  <2>2. CASE MainCreateBuyer
    <3>1. CASE m < LastBuyer
      <4>1. m' = m + 1
        BY <2>2, <3>1, CountsAssumption, Wrap
           DEF MainCreateBuyer, TypeOK, LastBuyer, Buyers
      <4>2. \A b \in Buyers : m + 1 <= b => m <= b /\ b # m
        <5>1. m \in Buyers
          BY DEF TypeOK
        <5> QED
          BY <5>1, BuyerOrder
      <4> QED
        BY <2>2, <3>1, <4>1, <4>2 DEF MainCreateBuyer, MainGoto, TypeOK
    <3>2. CASE ~(m < LastBuyer)
      BY <2>2, <3>2 DEF MainCreateBuyer, MainGoto
    <3> QED
      BY <3>1, <3>2
  <2>3. CASE MainFail
    BY <2>3 DEF MainFail
  <2>4. CASE MainJoinBuyer \/ MainCancelLoader \/ MainJoinLoader \/ MainReturn
    BY <2>4 DEF MainJoinBuyer, MainCancelLoader, MainJoinLoader, MainReturn, MainGoto
  <2> QED
    BY <1>2, <2>1, <2>2, <2>3, <2>4 DEF MainStep
<1>3. CASE LoaderStep
  BY <1>3 DEF LoaderStep, buyerVars, mainVars, LoaderScan, LoaderLock, LoaderBusy,
              LoaderFill, LoaderUnlock, ControlLock, ControlPrint, ControlUnlock,
              LoaderWake, LoaderCancel, LoopTo, LoaderGoto, CancelRequested
<1>4. ASSUME NEW b \in Buyers, BuyerStep(b) PROVE StartupOK'
  <2>1. UNCHANGED <<lpc, main, m>>
    BY <1>4 DEF BuyerStep, loaderVars, mainVars
  <2>2. bpc[b] # "unborn"
    BY <1>4 DEF BuyerStep, BuyerGoto, BuyerChoose, BuyerLeave, BuyerLock, BuyerBusy,
                BuyerTake, BuyerClear, BuyerUnlock
  <2>3. \A c \in Buyers : bpc[c] = "unborn" => bpc'[c] = "unborn"
    BY <1>4, <2>2 DEF BuyerStep, BuyerGoto, BuyerChoose, BuyerLeave, BuyerLock,
                      BuyerBusy, BuyerTake, BuyerClear, BuyerUnlock, TypeOK
  <2> QED
    BY <2>1, <2>3
<1> QED
  BY <1>1, <1>2, <1>3, <1>4 DEF Next, Terminating

LEMMA JoinStep == IInv /\ [Next]_vars => JoinOK'
<1> SUFFICES ASSUME IInv, [Next]_vars PROVE JoinOK'
  OBVIOUS
<1> USE DEF IInv, JoinOK, Joined
<1>1. CASE UNCHANGED vars
  BY <1>1 DEF vars, buyerVars, loaderVars, mainVars
<1>2. CASE MainStep
  <2>0. m \in Buyers
    BY DEF TypeOK
  <2>1. CASE MainCreateBuyer
    <3>1. CASE m < LastBuyer
      BY <2>1, <3>1 DEF MainCreateBuyer, MainGoto
    <3>2. CASE ~(m < LastBuyer)
      <4>1. m' = 0
        BY <2>1, <3>2, CountsAssumption, Wrap
           DEF MainCreateBuyer, TypeOK, LastBuyer, Buyers
      <4> QED
        BY <2>1, <3>2, <4>1, BuyerOrder DEF MainCreateBuyer, MainGoto
    <3> QED
      BY <3>1, <3>2
  <2>2. CASE MainJoinBuyer
    <3>1. CASE m < LastBuyer
      <4>1. m' = m + 1
        BY <2>2, <3>1, CountsAssumption, Wrap
           DEF MainJoinBuyer, TypeOK, LastBuyer, Buyers
      <4> QED
        BY <2>0, <2>2, <3>1, <4>1, BuyerOrder DEF MainJoinBuyer, MainGoto
    <3>2. CASE ~(m < LastBuyer)
      BY <2>0, <2>2, <3>2, BuyerOrder DEF MainJoinBuyer, MainGoto
    <3> QED
      BY <3>1, <3>2
  <2>3. CASE MainFail \/ MainCreateLoader
    BY <2>3 DEF MainFail, MainCreateLoader, MainGoto
  <2>4. CASE MainCancelLoader \/ MainJoinLoader \/ MainReturn
    BY <2>4 DEF MainCancelLoader, MainJoinLoader, MainReturn, MainGoto
  <2> QED
    BY <1>2, <2>1, <2>2, <2>3, <2>4 DEF MainStep
<1>3. CASE LoaderStep
  BY <1>3 DEF LoaderStep, buyerVars, mainVars, LoaderScan, LoaderLock, LoaderBusy,
              LoaderFill, LoaderUnlock, ControlLock, ControlPrint, ControlUnlock,
              LoaderWake, LoaderCancel, LoopTo, LoaderGoto, CancelRequested
<1>4. ASSUME NEW b \in Buyers, BuyerStep(b) PROVE JoinOK'
  <2>1. UNCHANGED <<lpc, main, m>>
    BY <1>4 DEF BuyerStep, loaderVars, mainVars
  <2>2. bpc[b] # "done"
    BY <1>4 DEF BuyerStep, BuyerGoto, BuyerChoose, BuyerLeave, BuyerLock, BuyerBusy,
                BuyerTake, BuyerClear, BuyerUnlock
  <2>3. \A c \in Buyers : bpc[c] = "done" => bpc'[c] = "done"
    BY <1>4, <2>2 DEF BuyerStep, BuyerGoto, BuyerChoose, BuyerLeave, BuyerLock,
                      BuyerBusy, BuyerTake, BuyerClear, BuyerUnlock, TypeOK
  <2> QED
    BY <2>1, <2>3
<1> QED
  BY <1>1, <1>2, <1>3, <1>4 DEF Next, Terminating

LEMMA DemandStep == IInv /\ [Next]_vars => DemandOK'
<1> SUFFICES ASSUME IInv, [Next]_vars PROVE DemandOK'
  OBVIOUS
<1> USE DEF IInv, DemandOK
<1>1. CASE UNCHANGED vars
  BY <1>1 DEF vars, buyerVars
<1>2. CASE MainStep
  <2>1. CASE MainCreateBuyer
    BY <1>2, <2>1 DEF MainStep, MainCreateBuyer, TypeOK
  <2>2. CASE ~MainCreateBuyer
    BY <1>2, <2>2 DEF MainStep, MainFail, MainCreateLoader, MainJoinBuyer,
                      MainCancelLoader, MainJoinLoader, MainReturn
  <2> QED
    BY <2>1, <2>2
<1>3. CASE LoaderStep
  BY <1>3 DEF LoaderStep, buyerVars
<1>4. ASSUME NEW b \in Buyers, BuyerStep(b) PROVE DemandOK'
  <2> USE DEF BuyerGoto, TypeOK
  <2>1. CASE BuyerChoose(b) \/ BuyerLeave(b)
    BY <2>1 DEF BuyerChoose, BuyerLeave
  <2>2. CASE BuyerLock(b) \/ BuyerBusy(b)
    BY <2>2 DEF BuyerLock, BuyerBusy
  <2>3. CASE BuyerTake(b)
    BY <2>3 DEF BuyerTake
  <2>4. CASE BuyerClear(b) \/ BuyerUnlock(b)
    BY <2>4 DEF BuyerClear, BuyerUnlock
  <2> QED
    BY <1>4, <2>1, <2>2, <2>3, <2>4 DEF BuyerStep
<1> QED
  BY <1>1, <1>2, <1>3, <1>4 DEF Next, Terminating

LEMMA Invariance == Spec => []IInv
<1>1. IInv /\ [Next]_vars => IInv'
  BY TypeStep, LocksStep, FillStep, ControlIndexStep, StartupStep, JoinStep, DemandStep
     DEF IInv
<1> QED
  BY <1>1, InitIInv, PTL DEF Spec

-----------------------------------------------------------------------------
(* What follows from the inductive invariant *)

\* Every variable of the program keeps its type in every execution.
THEOREM TypeCorrect == Spec => []TypeOK
BY Invariance, PTL DEF IInv

\* Every mutex is held by exactly the thread that is in the room, whatever the
\* interleaving of trylock (buyer.c:34, loader.c:17) and storage_control
\* (main.c:10-22).
THEOREM LocksCorrect == Spec => []LocksMatchVisits
BY Invariance, PTL DEF IInv

\* The loader never overwrites product: its unlocked look at the room
\* (loader.c:15) is still true when it fills the room (loader.c:20).
THEOREM FillsOnlyEmptyRooms == Spec => []LoaderFillsEmptyRoom
BY Invariance, PTL DEF IInv

\* storage_control reads no locked room between a sale and the clearing of the
\* room (main.c:16, buyer.c:37-38).
THEOREM ReportsCorrect == Spec => []ReportsNoSoldProduct
<1>1. IInv => ReportsNoSoldProduct
  <2> SUFFICES ASSUME IInv, NEW b \in Buyers, bpc[b] = "clear", lpc = "print",
                      k = n[b], k \in LockedRooms
               PROVE  FALSE
    BY DEF ReportsNoSoldProduct
  <2>1. mutex[k] = Loader
    BY Names DEF IInv, LocksMatchVisits, LoaderHolds
  <2>2. mutex[k] = b
    BY Names DEF IInv, LocksMatchVisits, InRoom
  <2> QED
    BY <2>1, <2>2, Names
<1> QED
  BY <1>1, Invariance, PTL

\* main cancels the loader only when every buyer is gone (main.c:79-83).
THEOREM LoaderOutlives == Spec => []LoaderOutlivesBuyers
<1>1. IInv => LoaderOutlivesBuyers
  BY DEF IInv, JoinOK, Joined, LoaderOutlivesBuyers, CancelRequested
<1> QED
  BY <1>1, Invariance, PTL

\* A program that ends without a failed pthread_create has met every demand
\* (buyer.c:28, main.c:79-88).
THEOREM Served == Spec => []EndsServed
<1>1. IInv => EndsServed
  BY DEF IInv, JoinOK, Joined, DemandOK, EndsServed
<1> QED
  BY <1>1, Invariance, PTL

\* The guards of the three kinds of threads: whether each has a step to take.
BuyerReady(b) ==
    \/ bpc[b] = "check" /\ (demand[b] <= 0 \/ \E r \in Rooms : rooms[r] # 0)
    \/ bpc[b] \in {"trylock", "take", "clear", "unlock"}

LoaderReady ==
    /\ lpc \notin {"unborn", "done"}
    /\ lpc = "lock all" => mutex[k] = Free \/ (CancelRequested /\ k = 0)

MainReady ==
    /\ main = "join" => bpc[m] = "done"
    /\ main = "join loader" => lpc = "done"

NobodyStuck == Ended \/ MainReady \/ LoaderReady \/ \E b \in Buyers : BuyerReady(b)

\* The loader runs from the first pthread_create on.
LoaderBorn == lpc = "unborn" => main \in {"create loader", "failed"}

LEMMA BornInvariance == Spec => []LoaderBorn
<1>1. Init => LoaderBorn
  BY DEF Init, LoaderBorn
<1>2. LoaderBorn /\ [Next]_vars => LoaderBorn'
  <2> SUFFICES ASSUME LoaderBorn, [Next]_vars PROVE LoaderBorn'
    OBVIOUS
  <2> USE DEF LoaderBorn
  <2>1. CASE UNCHANGED vars
    BY <2>1 DEF vars, loaderVars, mainVars
  <2>2. CASE MainStep
    BY <2>2 DEF MainStep, MainFail, MainCreateLoader, MainCreateBuyer, MainJoinBuyer,
                MainCancelLoader, MainJoinLoader, MainReturn, MainGoto
  <2>3. CASE LoaderStep
    BY <2>3 DEF LoaderStep, mainVars, LoaderScan, LoaderLock, LoaderBusy, LoaderFill,
                LoaderUnlock, ControlLock, ControlPrint, ControlUnlock, LoaderWake,
                LoaderCancel, LoopTo, LoaderGoto
  <2>4. ASSUME NEW b \in Buyers, BuyerStep(b) PROVE LoaderBorn'
    BY <2>4 DEF BuyerStep, loaderVars, mainVars
  <2> QED
    BY <2>1, <2>2, <2>3, <2>4 DEF Next, Terminating
<1> QED
  BY <1>1, <1>2, PTL DEF Spec

\* The threads never all wait for each other: when main waits for a thread and
\* storage_control for a lock while it holds others, a buyer has that lock and
\* waits for nobody (main.c:10-14, main.c:79-83, buyer.c:34-41).
THEOREM NoDeadlock == Spec => []NobodyStuck
<1>1. ASSUME IInv, LoaderBorn, ~Ended, ~MainReady, ~LoaderReady
      PROVE  \E b \in Buyers : BuyerReady(b)
  <2>1. main \in {"join", "join loader"}
    BY <1>1 DEF MainReady
  <2>2. lpc # "unborn"
    BY <1>1, <2>1 DEF LoaderBorn
  <2>3. lpc # "done"
    BY <1>1, <2>1 DEF IInv, JoinOK, Joined, MainReady
  <2>4. lpc = "lock all" /\ mutex[k] # Free /\ k \in Rooms
    BY <1>1, <2>2, <2>3 DEF LoaderReady, IInv, TypeOK
  <2>5. mutex[k] # Loader
    <3>1. k \in Rooms
      BY <1>1 DEF IInv, TypeOK
    <3>2. ~(k < k)
      BY <3>1, Names
    <3>3. ~LoaderHolds(k)
      BY <2>4, <3>2 DEF LoaderHolds
    <3> QED BY <1>1, <2>3, <2>4, <3>3 DEF IInv, LocksMatchVisits
  <2>6. PICK b \in Buyers : mutex[k] = b
    BY <1>1, <2>4, <2>5 DEF IInv, TypeOK
  <2>7. InRoom(b)
    BY <1>1, <2>4, <2>6 DEF IInv, LocksMatchVisits
  <2> QED BY <2>7 DEF InRoom, BuyerReady
<1>2. IInv /\ LoaderBorn => NobodyStuck
  BY <1>1 DEF NobodyStuck
<1> QED
  BY <1>2, Invariance, BornInvariance, PTL

\* While storage_control prints, no locked room changes (main.c:10-22).
THEOREM SnapshotCorrect == Spec => ReportIsSnapshot
<1>1. IInv /\ [Next]_vars
        => [lpc = "print" => \A r \in LockedRooms : rooms'[r] = rooms[r]]_vars
  <2> SUFFICES ASSUME IInv, Next, lpc = "print", NEW r \in LockedRooms
               PROVE  rooms'[r] = rooms[r]
    BY DEF vars
  <2>1. CASE MainStep \/ Terminating
    BY <2>1 DEF MainStep, Terminating, vars
  <2>2. CASE LoaderStep
    BY <2>2 DEF LoaderStep, LoaderScan, LoaderLock, LoaderBusy, LoaderFill,
                LoaderUnlock, ControlLock, ControlPrint, ControlUnlock, LoaderWake,
                LoaderCancel, LoaderGoto
  <2>3. ASSUME NEW b \in Buyers, BuyerStep(b) PROVE rooms'[r] = rooms[r]
    <3>1. CASE BuyerClear(b)
      <4>1. mutex[r] = Loader
        BY Names DEF IInv, LocksMatchVisits, LoaderHolds
      <4>2. n[b] # r
        BY <3>1, <4>1, Names
           DEF BuyerClear, BuyerGoto, IInv, TypeOK, LocksMatchVisits, InRoom
      <4> QED
        BY <3>1, <4>2, Names DEF BuyerClear, IInv, TypeOK
    <3>2. CASE ~BuyerClear(b)
      BY <2>3, <3>2 DEF BuyerStep, BuyerChoose, BuyerLeave, BuyerLock, BuyerBusy,
                        BuyerTake, BuyerUnlock
    <3> QED
      BY <3>1, <3>2
  <2> QED
    BY <2>1, <2>2, <2>3 DEF Next
<1> QED
  BY <1>1, Invariance, PTL DEF Spec, ReportIsSnapshot

-----------------------------------------------------------------------------
(* The program implements the warehouse *)

Stock(r) == IF InFlight(r) THEN 0 ELSE rooms[r]

\* A step that sells nothing and brings nothing does not move the stock.
LEMMA SameStock ==
    ASSUME UNCHANGED rooms,
           \A r \in Rooms : InFlight(r)' <=> InFlight(r)
    PROVE  UNCHANGED [r \in Rooms |-> Stock(r)]
BY DEF Stock

LEMMA TakeIsSell ==
    ASSUME IInv, NEW b \in Buyers, BuyerTake(b), NEW r \in Rooms, r = n[b]
    PROVE  Abstract!Sell(b, r)
<1>1. /\ UNCHANGED <<rooms, n>>
      /\ bpc[b] = "take" /\ bpc' = [bpc EXCEPT ![b] = "clear"]
      /\ demand' = [demand EXCEPT ![b] = @ - rooms[r]]
      /\ bpc \in [Buyers -> BuyerPlaces]
  BY DEF BuyerTake, BuyerGoto, IInv, TypeOK
<1>2. demand[b] > 0
  BY <1>1 DEF IInv, DemandOK
<1>3. ~InFlight(r)
  BY <1>1 DEF IInv, LocksMatchVisits, InRoom, InFlight
<1>4. InFlight(r)'
  BY <1>1 DEF InFlight
<1>5. \A q \in Rooms : q # r => (InFlight(q)' <=> InFlight(q))
  BY <1>1 DEF InFlight
<1>6. [q \in Rooms |-> Stock(q)]' = [[q \in Rooms |-> Stock(q)] EXCEPT ![r] = 0]
  BY <1>1, <1>4, <1>5 DEF Stock
<1>7. demand' = [demand EXCEPT ![b] = @ - [q \in Rooms |-> Stock(q)][r]]
  BY <1>1, <1>3 DEF Stock
<1> QED
  BY <1>2, <1>6, <1>7 DEF Abstract!Sell, Stock

LEMMA ClearIsStutter ==
    ASSUME IInv, NEW b \in Buyers, BuyerClear(b)
    PROVE  UNCHANGED <<[r \in Rooms |-> Stock(r)], demand>>
<1>1. /\ n[b] \in Rooms /\ rooms \in [Rooms -> Nat]
      /\ rooms' = [rooms EXCEPT ![n[b]] = 0] /\ UNCHANGED <<n, demand>>
      /\ bpc[b] = "clear" /\ bpc' = [bpc EXCEPT ![b] = "unlock"]
      /\ bpc \in [Buyers -> BuyerPlaces]
  BY DEF BuyerClear, BuyerGoto, IInv, TypeOK
<1>2. Stock(n[b]) = 0
  BY <1>1 DEF Stock, InFlight
<1>3. Stock(n[b])' = 0
  BY <1>1 DEF Stock
<1>4. \A r \in Rooms : r # n[b] => Stock(r)' = Stock(r)
  <2> SUFFICES ASSUME NEW r \in Rooms, r # n[b] PROVE Stock(r)' = Stock(r)
    OBVIOUS
  <2>1. InFlight(r)' <=> InFlight(r)
    BY <1>1 DEF InFlight
  <2> QED
    BY <1>1, <2>1 DEF Stock
<1> QED
  BY <1>1, <1>2, <1>3, <1>4

LEMMA FillIsRestock ==
    ASSUME IInv, LoaderFill, UNCHANGED buyerVars, NEW room \in Rooms, room = i
    PROVE  Abstract!Restock(room)
<1>1. /\ lpc = "fill" /\ UNCHANGED <<bpc, n, demand>>
      /\ rooms \in [Rooms -> Nat] /\ rooms[room] = 0
  BY DEF LoaderFill, LoaderGoto, buyerVars, IInv, TypeOK, LoaderFillsEmptyRoom
<1>2. PICK f \in FillStock : rooms' = [rooms EXCEPT ![room] = f]
  BY DEF LoaderFill
<1>3. mutex[room] = Loader
  BY <1>1 DEF IInv, LocksMatchVisits, LoaderHolds
<1>4. ~InFlight(room) /\ \A r \in Rooms : InFlight(r)' <=> InFlight(r)
  BY <1>1, <1>3, Names DEF InFlight, IInv, LocksMatchVisits, InRoom
<1>5. [r \in Rooms |-> Stock(r)]' = [[r \in Rooms |-> Stock(r)] EXCEPT ![room] = f]
  BY <1>1, <1>2, <1>4 DEF Stock
<1>6. [r \in Rooms |-> Stock(r)][room] = 0
  BY <1>1, <1>4 DEF Stock
<1> QED
  BY <1>1, <1>5, <1>6 DEF Abstract!Restock, Stock

\* Every other step leaves the warehouse as it is.
LEMMA StepRefines ==
    ASSUME IInv, [Next]_vars
    PROVE  Abstract!WarehouseNext
             \/ UNCHANGED <<[r \in Rooms |-> Stock(r)], demand>>
<1>1. CASE UNCHANGED vars
  BY <1>1 DEF vars, buyerVars, Stock, InFlight
<1>2. CASE MainStep
  <2>1. UNCHANGED <<rooms, n, demand>>
    BY <1>2 DEF MainStep
  <2>2. \A b \in Buyers : bpc'[b] = "clear" <=> bpc[b] = "clear"
    <3>1. CASE MainCreateBuyer
      BY <3>1, NextUnborn DEF MainCreateBuyer, MainGoto, IInv, TypeOK
    <3>2. CASE ~MainCreateBuyer
      BY <1>2, <3>2 DEF MainStep, MainFail, MainCreateLoader, MainJoinBuyer,
                        MainCancelLoader, MainJoinLoader, MainReturn
    <3> QED
      BY <3>1, <3>2
  <2> QED
    BY <2>1, <2>2, SameStock DEF InFlight
<1>3. CASE LoaderStep
  <2>1. UNCHANGED buyerVars
    BY <1>3 DEF LoaderStep
  <2>2. CASE LoaderFill
    <3>1. PICK r \in Rooms : r = i
      BY DEF IInv, TypeOK
    <3>2. Abstract!Restock(r)
      BY <2>1, <2>2, <3>1, FillIsRestock
    <3> QED
      BY <3>2 DEF Abstract!WarehouseNext
  <2>3. CASE ~LoaderFill
    <3>1. UNCHANGED rooms
      BY <1>3, <2>3 DEF LoaderStep, LoaderScan, LoaderLock, LoaderBusy,
                        LoaderUnlock, ControlLock, ControlPrint, ControlUnlock,
                        LoaderWake, LoaderCancel
    <3> QED
      BY <2>1, <3>1, SameStock DEF InFlight, buyerVars
  <2> QED
    BY <2>2, <2>3
<1>4. ASSUME NEW b \in Buyers, BuyerStep(b)
      PROVE  Abstract!WarehouseNext
               \/ UNCHANGED <<[r \in Rooms |-> Stock(r)], demand>>
  <2>1. CASE BuyerTake(b)
    <3>1. PICK r \in Rooms : r = n[b]
      BY <2>1 DEF BuyerTake, BuyerGoto, IInv, TypeOK
    <3>2. Abstract!Sell(b, r)
      BY <2>1, <3>1, TakeIsSell
    <3> QED
      BY <3>2 DEF Abstract!WarehouseNext
  <2>2. CASE BuyerClear(b)
    BY <2>2, ClearIsStutter
  <2>3. CASE ~BuyerTake(b) /\ ~BuyerClear(b)
    <3>1. UNCHANGED <<rooms, demand>>
      BY <1>4, <2>3 DEF BuyerStep, BuyerChoose, BuyerLeave, BuyerLock, BuyerBusy,
                        BuyerUnlock
    <3>2. /\ bpc \in [Buyers -> BuyerPlaces]
          /\ bpc[b] # "clear" /\ bpc'[b] # "clear"
          /\ \A c \in Buyers : c # b => bpc'[c] = bpc[c] /\ n'[c] = n[c]
      BY <1>4, <2>3 DEF BuyerStep, BuyerChoose, BuyerLeave, BuyerLock, BuyerBusy,
                        BuyerUnlock, BuyerGoto, IInv, TypeOK
    <3>3. \A r \in Rooms : InFlight(r)' <=> InFlight(r)
      BY <3>2 DEF InFlight
    <3> QED
      BY <3>1, <3>3, SameStock
  <2> QED
    BY <2>1, <2>2, <2>3
<1> QED
  BY <1>1, <1>2, <1>3, <1>4 DEF Next, Terminating

\* The threads and their locks implement the warehouse in which a sale and a
\* delivery are atomic: a visit (buyer.c:34-41) takes effect at one moment.
THEOREM Implements == Spec => AbstractSpec
<1>1. Init => Abstract!WarehouseInit
  <2> SUFFICES ASSUME Init PROVE Abstract!WarehouseInit
    OBVIOUS
  <2>1. \A r \in Rooms : ~InFlight(r)
    BY DEF Init, InFlight
  <2>2. [r \in Rooms |-> IF InFlight(r) THEN 0 ELSE rooms[r]] \in [Rooms -> InitStock]
    BY <2>1 DEF Init
  <2> QED
    BY <2>2 DEF Init, Abstract!WarehouseInit
<1>2. IInv /\ [Next]_vars => [Abstract!WarehouseNext]_(Abstract!warehouseVars)
  BY StepRefines DEF Abstract!warehouseVars, Stock
<1> QED
  BY <1>1, <1>2, Invariance, PTL DEF Spec, AbstractSpec, Abstract!WarehouseSpec
=============================================================================
