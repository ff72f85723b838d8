----------------------------- MODULE Warehouse -----------------------------
(***************************************************************************)
(* What the program under src/thread/storage_live promises: a warehouse of *)
(* rooms, buyers who walk away with everything a room holds until their    *)
(* demand is met, and a loader who brings new product into empty rooms.    *)
(* There are no threads, no locks and no half-finished visits here: a sale *)
(* and a delivery are atomic.                                              *)
(***************************************************************************)
EXTENDS Integers

CONSTANTS
    Rooms,      \* the rooms of the warehouse
    Buyers,     \* the buyers
    Demand,     \* how much every buyer wants
    InitStock,  \* what a room may hold at the start
    FillStock   \* what the loader may bring

VARIABLES
    stock,      \* product in each room
    demand      \* what each buyer still wants

warehouseVars == <<stock, demand>>

WarehouseInit ==
    /\ stock \in [Rooms -> InitStock]
    /\ demand = [b \in Buyers |-> Demand]

\* A buyer with an open demand takes all the product of one room.
Sell(b, r) ==
    /\ demand[b] > 0
    /\ demand' = [demand EXCEPT ![b] = @ - stock[r]]
    /\ stock' = [stock EXCEPT ![r] = 0]

\* Only an empty room gets new product: nothing is ever overwritten.
Restock(r) ==
    /\ stock[r] = 0
    /\ \E f \in FillStock : stock' = [stock EXCEPT ![r] = f]
    /\ UNCHANGED demand

WarehouseNext ==
    \E r \in Rooms : Restock(r) \/ \E b \in Buyers : Sell(b, r)

WarehouseSpec == WarehouseInit /\ [][WarehouseNext]_warehouseVars
=============================================================================
