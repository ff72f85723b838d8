--------------------------- MODULE MCStorageLive ---------------------------
(***************************************************************************)
(* Small warehouses for TLC.                                               *)
(***************************************************************************)
EXTENDS StorageLive

\* Product in every room at the start, and product of one delivery: a delivery
\* can be more than a buyer still wants.
One == {1}
Two == {2}
=============================================================================
