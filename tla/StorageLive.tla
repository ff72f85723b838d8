---------------------------- MODULE StorageLive ----------------------------
(***************************************************************************)
(* src/thread/storage_live: main starts one loader and NUM_OF_BUYERS buyer *)
(* threads over a shared array of rooms with one mutex per room.  A step   *)
(* is one access to shared memory or one pthread call.                     *)
(*                                                                         *)
(* struct storage declares NUM_OF_BUYERS + 1 mutexes, the code indexes     *)
(* them by room.  Past the end of the array the element overlays other     *)
(* memory of main's frame; it works as a lock in every build we observed,  *)
(* and main's return then fails or not with the stack protector.           *)
(***************************************************************************)
EXTENDS Integers, FiniteSets

CONSTANTS
    NUM_OF_ROOMS,
    NUM_OF_BUYERS,
    Demand,         \* a buyer's demand, 10000 in the code
    InitStock,      \* what a room holds at the start, 1000 .. 1200 in the code
    FillStock       \* what the loader brings, 400 .. 600 in the code

ASSUME CountsAssumption ==
    /\ NUM_OF_BUYERS \in Nat \ {0}
    /\ NUM_OF_ROOMS \in Nat
    /\ NUM_OF_ROOMS > NUM_OF_BUYERS

ASSUME StockAssumption ==
    /\ Demand \in Nat \ {0}
    /\ InitStock \subseteq Nat \ {0}
    /\ FillStock \subseteq Nat \ {0}

Rooms  == 0 .. NUM_OF_ROOMS - 1
Buyers == 0 .. NUM_OF_BUYERS - 1

Free   == -1                \* owner of an unlocked mutex
Loader == NUM_OF_BUYERS     \* the loader as the owner of a mutex
NoRoom == -1                \* a buyer between two rooms

VARIABLES
    rooms,      \* store->rooms
    mutex,      \* the owner of store->mutex[i]
    bpc,        \* where each buyer thread is
    n,          \* the room each buyer picked
    demand,     \* each buyer's demand
    lpc,        \* where the loader thread is
    i,          \* the loader's room
    k,          \* the loop index in storage_control
    main,       \* where main is
    m           \* the loop index in main: the next buyer to create or to join

buyerVars == <<bpc, n, demand>>
loaderVars == <<lpc, i, k>>
mainVars == <<main, m>>
vars == <<rooms, mutex, buyerVars, loaderVars, mainVars>>

Ended == main \in {"exited", "failed", "aborted"}

Init ==
    /\ rooms \in [Rooms -> InitStock]
    /\ mutex = [r \in Rooms |-> Free]
    /\ bpc = [b \in Buyers |-> "unborn"]
    /\ n = [b \in Buyers |-> NoRoom]
    /\ demand = [b \in Buyers |-> Demand]
    /\ lpc = "unborn"
    /\ i = 0
    /\ k = 0
    /\ main = "create loader"
    /\ m = 0

-----------------------------------------------------------------------------
(* Mutexes *)

\* A lock that does not look whether it is free.
MutLock(t, r) == mutex' = [mutex EXCEPT ![r] = t]

Lock(t, r) ==
    /\ mutex[r] = Free
    /\ mutex' = [mutex EXCEPT ![r] = t]

Busy(r) ==
    /\ mutex[r] # Free
    /\ UNCHANGED mutex

Unlock(r) == mutex' = [mutex EXCEPT ![r] = Free]

-----------------------------------------------------------------------------
(* The buyer thread *)

BuyerGoto(b, from, to) ==
    /\ bpc[b] = from
    /\ bpc' = [bpc EXCEPT ![b] = to]

\* The buyer looks at a random room without its lock; a room seen empty sends
\* it back to the head of the loop, which changes nothing.
BuyerChoose(b) ==
    /\ BuyerGoto(b, "check", "trylock")
    /\ demand[b] > 0
    /\ \E r \in Rooms :
        /\ rooms[r] # 0
        /\ n' = [n EXCEPT ![b] = r]
    /\ UNCHANGED <<rooms, mutex, demand>>

\* while (demand > 1)
MutBuyerLeaveEarly(b) ==
    /\ BuyerGoto(b, "check", "done")
    /\ demand[b] <= 1
    /\ UNCHANGED <<rooms, mutex, n, demand>>

\* while (demand != 0)
MutBuyerLeaveExact(b) ==
    /\ BuyerGoto(b, "check", "done")
    /\ demand[b] = 0
    /\ UNCHANGED <<rooms, mutex, n, demand>>

BuyerLeave(b) ==
    /\ BuyerGoto(b, "check", "done")
    /\ demand[b] <= 0
    /\ UNCHANGED <<rooms, mutex, n, demand>>

BuyerLock(b) ==
    /\ BuyerGoto(b, "trylock", "take")
    /\ Lock(b, n[b])
    /\ UNCHANGED <<rooms, n, demand>>

\* A buyer that goes in whatever trylock says.
MutBuyerBusy(b) ==
    /\ BuyerGoto(b, "trylock", "take")
    /\ Busy(n[b])
    /\ UNCHANGED <<rooms, n, demand>>

BuyerBusy(b) ==
    /\ BuyerGoto(b, "trylock", "check")
    /\ Busy(n[b])
    /\ n' = [n EXCEPT ![b] = NoRoom]
    /\ UNCHANGED <<rooms, demand>>

BuyerTake(b) ==
    /\ BuyerGoto(b, "take", "clear")
    /\ demand' = [demand EXCEPT ![b] = @ - rooms[n[b]]]
    /\ UNCHANGED <<rooms, mutex, n>>

BuyerClear(b) ==
    /\ BuyerGoto(b, "clear", "unlock")
    /\ rooms' = [rooms EXCEPT ![n[b]] = 0]
    /\ UNCHANGED <<mutex, n, demand>>

BuyerUnlock(b) ==
    /\ BuyerGoto(b, "unlock", "check")
    /\ Unlock(n[b])
    /\ n' = [n EXCEPT ![b] = NoRoom]
    /\ UNCHANGED <<rooms, demand>>

BuyerStep(b) ==
    /\ ~Ended
    /\ \/ BuyerChoose(b) \/ BuyerLeave(b)
       \/ BuyerLock(b) \/ BuyerBusy(b)
       \/ BuyerTake(b) \/ BuyerClear(b) \/ BuyerUnlock(b)
    /\ UNCHANGED <<loaderVars, mainVars>>

-----------------------------------------------------------------------------
(* The loader thread *)

LoaderGoto(from, to) ==
    /\ lpc = from
    /\ lpc' = to

\* pthread_cancel has been called and not yet acted upon.
CancelRequested == main = "join loader"

\* A scan that runs past the last room.
MutNextRoom(r) == IF r = NUM_OF_ROOMS THEN 0 ELSE r + 1

NextRoom(r) == (r + 1) % NUM_OF_ROOMS

\* One turn of a loop of storage_control over 0 .. last: stay
\* in the loop, or leave it for the next one.
LoopTo(last, here, next) ==
    IF k < last
    THEN k' = k + 1 /\ LoaderGoto(here, here)
    ELSE k' = 0 /\ LoaderGoto(here, next)

\* A loader that does not look into the room.
MutLoaderScan ==
    /\ LoaderGoto("scan", "trylock")
    /\ UNCHANGED <<rooms, mutex, i, k>>

\* The room is looked at without its lock.
LoaderScan ==
    /\ LoaderGoto("scan", IF rooms[i] = 0 THEN "trylock" ELSE "sleep")
    /\ UNCHANGED <<rooms, mutex, i, k>>

LoaderLock ==
    /\ LoaderGoto("trylock", "fill")
    /\ Lock(Loader, i)
    /\ UNCHANGED <<rooms, i, k>>

LoaderBusy ==
    /\ LoaderGoto("trylock", "sleep")
    /\ Busy(i)
    /\ UNCHANGED <<rooms, i, k>>

LoaderFill ==
    /\ LoaderGoto("fill", "unlock")
    /\ \E f \in FillStock : rooms' = [rooms EXCEPT ![i] = f]
    /\ UNCHANGED <<mutex, i, k>>

LoaderUnlock ==
    /\ LoaderGoto("unlock", "lock all")
    /\ Unlock(i)
    /\ UNCHANGED <<rooms, i, k>>

\* storage_control takes the locks one by one, in index order, and waits for
\* each; it takes as many as there are threads, not as many as there are rooms.
\* One lock per buyer, none for the loader.
MutLastMutex == NUM_OF_BUYERS - 1

LastMutex == NUM_OF_BUYERS

ControlLock ==
    /\ LoopTo(LastMutex, "lock all", "print")
    /\ Lock(Loader, k)
    /\ UNCHANGED <<rooms, i>>

LastPrinted == NUM_OF_ROOMS - 1

\* A loop that does not advance.
MutControlPrint ==
    /\ LoaderGoto("print", "print")
    /\ UNCHANGED <<rooms, mutex, i, k>>

\* Room k is read and printed.
ControlPrint ==
    /\ LoopTo(LastPrinted, "print", "unlock all")
    /\ UNCHANGED <<rooms, mutex, i>>

ControlUnlock ==
    /\ LoopTo(LastMutex, "unlock all", "sleep")
    /\ Unlock(k)
    /\ UNCHANGED <<rooms, i>>

LoaderWake ==
    /\ LoaderGoto("sleep", "scan")
    /\ ~CancelRequested
    /\ i' = NextRoom(i)
    /\ UNCHANGED <<rooms, mutex, k>>

\* Cancellation is deferred: it happens in usleep, or in a printf or fprintf
\* on the way.  Locks held there stay locked.
AtCancellationPoint ==
    \/ lpc \in {"trylock", "fill", "unlock", "print", "sleep"}
    \/ lpc \in {"lock all", "unlock all"} /\ k = 0

LoaderCancel ==
    /\ CancelRequested
    /\ AtCancellationPoint
    /\ lpc' = "done"
    /\ k' = 0
    /\ UNCHANGED <<rooms, mutex, i>>

LoaderStep ==
    /\ ~Ended
    /\ \/ LoaderScan
       \/ LoaderLock \/ LoaderBusy
       \/ LoaderFill \/ LoaderUnlock
       \/ ControlLock \/ ControlPrint \/ ControlUnlock
       \/ LoaderWake \/ LoaderCancel
    /\ UNCHANGED <<buyerVars, mainVars>>

-----------------------------------------------------------------------------
(* main *)

MainGoto(from, to) ==
    /\ main = from
    /\ main' = to

\* pthread_attr_init or a pthread_create fails: main returns EXIT_FAILURE and
\* takes the threads that do run with it.
MainFail ==
    /\ main \in {"create loader", "create buyers"}
    /\ main' = "failed"
    /\ UNCHANGED <<m, bpc, lpc>>

MainCreateLoader ==
    /\ MainGoto("create loader", "create buyers")
    /\ lpc' = "scan"
    /\ UNCHANGED <<m, bpc>>

LastBuyer == NUM_OF_BUYERS - 1

MainCreateBuyer ==
    /\ MainGoto("create buyers", IF m < LastBuyer THEN "create buyers" ELSE "join")
    /\ m' = (m + 1) % NUM_OF_BUYERS
    /\ bpc' = [bpc EXCEPT ![m] = "check"]
    /\ UNCHANGED lpc

\* A join that fails or does not wait.
MutMainJoinBuyer ==
    /\ MainGoto("join", IF m < LastBuyer THEN "join" ELSE "cancel")
    /\ m' = (m + 1) % NUM_OF_BUYERS
    /\ UNCHANGED <<bpc, lpc>>

MainJoinBuyer ==
    /\ MainGoto("join", IF m < LastBuyer THEN "join" ELSE "cancel")
    /\ bpc[m] = "done"
    /\ m' = (m + 1) % NUM_OF_BUYERS
    /\ UNCHANGED <<bpc, lpc>>

MainCancelLoader ==
    /\ MainGoto("cancel", "join loader")
    /\ UNCHANGED <<m, bpc, lpc>>

MainJoinLoader ==
    /\ MainGoto("join loader", "return")
    /\ lpc = "done"
    /\ UNCHANGED <<m, bpc, lpc>>

\* main initialised one mutex per room in an array that has fewer.
MutexOverrun == NUM_OF_ROOMS > NUM_OF_BUYERS + 1

MainReturn ==
    /\ \/ MainGoto("return", "exited")
       \/ MutexOverrun /\ MainGoto("return", "aborted")
    /\ UNCHANGED <<m, bpc, lpc>>

MainStep ==
    /\ \/ MainFail \/ MainCreateLoader \/ MainCreateBuyer
       \/ MainJoinBuyer \/ MainCancelLoader \/ MainJoinLoader \/ MainReturn
    /\ UNCHANGED <<rooms, mutex, n, demand, i, k>>

-----------------------------------------------------------------------------

Terminating == Ended /\ UNCHANGED vars

Next ==
    \/ MainStep
    \/ LoaderStep
    \/ \E b \in Buyers : BuyerStep(b)
    \/ Terminating

\* Every thread keeps being scheduled, and rand() does not pick an empty room
\* for ever while there is a room that is not empty.
Fairness ==
    /\ WF_vars(MainStep)
    /\ WF_vars(LoaderStep)
    /\ \A b \in Buyers : WF_vars(BuyerStep(b))

Spec == Init /\ [][Next]_vars
FairSpec == Spec /\ Fairness

-----------------------------------------------------------------------------
(* Types *)

BuyerPlaces ==
    {"unborn", "check", "trylock", "take", "clear", "unlock", "done"}
LoaderPlaces ==
    {"unborn", "scan", "trylock", "fill", "unlock", "lock all", "print",
     "unlock all", "sleep", "done"}
MainPlaces ==
    {"create loader", "create buyers", "join", "cancel", "join loader",
     "return", "exited", "failed", "aborted"}

\* Every variable has its type, and a buyer that is on its way to a room or in
\* it has picked one.
TypeOK ==
    /\ rooms \in [Rooms -> Nat]
    /\ mutex \in [Rooms -> {Free, Loader} \cup Buyers]
    /\ bpc \in [Buyers -> BuyerPlaces]
    /\ n \in [Buyers -> {NoRoom} \cup Rooms]
    /\ demand \in [Buyers -> Int]
    /\ lpc \in LoaderPlaces
    /\ i \in Rooms
    /\ k \in Rooms
    /\ main \in MainPlaces
    /\ m \in Buyers
    /\ \A b \in Buyers :
        bpc[b] \in {"trylock", "take", "clear", "unlock"} <=> n[b] # NoRoom

-----------------------------------------------------------------------------
(* Safety *)

InRoom(b) == bpc[b] \in {"take", "clear", "unlock"}

\* The rooms that have a mutex of their own in struct storage.
LockedRooms == 0 .. NUM_OF_BUYERS

\* The locks the loader holds at the place where it is.
LoaderHolds(r) ==
    \/ lpc \in {"fill", "unlock"} /\ r = i
    \/ lpc = "lock all" /\ r < k
    \/ lpc = "print" /\ r \in LockedRooms
    \/ lpc = "unlock all" /\ r \in LockedRooms /\ k <= r

\* A lock belongs to whoever the code says is in the room, through every
\* trylock, every pass of storage_control and every early way back; only a
\* cancelled loader leaves a lock without anybody in the room (buyer.c:34-41,
\* loader.c:17-22, main.c:10-22).
LocksMatchVisits ==
    \A r \in Rooms :
        /\ \A b \in Buyers : mutex[r] = b <=> InRoom(b) /\ n[b] = r
        /\ LoaderHolds(r) => mutex[r] = Loader
        /\ mutex[r] = Loader => LoaderHolds(r) \/ lpc = "done"

\* loader.c:15 sees the room empty without its lock and loader.c:20 overwrites
\* it later: by then it is still empty, whatever the buyers did in between.
LoaderFillsEmptyRoom == lpc \in {"trylock", "fill"} => rooms[i] = 0

\* A room that storage_control has locked is not read between a buyer's taking
\* the product and clearing the room (main.c:10-16, buyer.c:37-38): product
\* that is already sold is not reported as stock.
ReportsNoSoldProduct ==
    \A b \in Buyers :
        bpc[b] = "clear" => ~(lpc = "print" /\ k = n[b] /\ k \in LockedRooms)

\* While storage_control prints, the rooms it has locked do not change: what
\* it prints of them is the storage at one moment (main.c:10-22).
ReportIsSnapshot ==
    [][ lpc = "print" => \A r \in LockedRooms : rooms'[r] = rooms[r] ]_vars

\* The loader is cancelled, perhaps with locks held, only when no buyer will
\* ever want a lock again (main.c:79-82).
LoaderOutlivesBuyers ==
    CancelRequested \/ lpc = "done" => \A b \in Buyers : bpc[b] = "done"

\* Of a visit of a buyer the warehouse sees one atomic sale: the moment of the
\* sale is the subtraction from the demand (buyer.c:37), the clearing of the
\* room (buyer.c:38) comes later.  Of the loader it sees the delivery.
InFlight(r) == \E b \in Buyers : bpc[b] = "clear" /\ n[b] = r

Abstract ==
    INSTANCE Warehouse
        WITH stock <- [r \in Rooms |-> IF InFlight(r) THEN 0 ELSE rooms[r]]

AbstractSpec == Abstract!WarehouseSpec

-----------------------------------------------------------------------------
(* Liveness *)

\* storage_control, which waits for its locks one after the other while it
\* holds those it has, comes to its end (main.c:10-22).
ControlCompletes == lpc = "lock all" ~> lpc \in {"sleep", "done"} \/ Ended

\* The program ends, and it ends with every demand met unless a thread could
\* not be created (main.c:79-88).
ProgramEnds == <>Ended
EndsServed ==
    main \in {"exited", "aborted"} => \A b \in Buyers : demand[b] <= 0

-----------------------------------------------------------------------------
(* What the code says *)

\* main ends with "good job!" and returns 0 (main.c:84-88).
MainEndsNormally == main # "aborted"
=============================================================================
