----------------------------- MODULE TwoPanels -----------------------------
(***************************************************************************)
(* What the file manager promises of its two panels, key by key: each has  *)
(* a list of n entries and a selected one.  The arrow keys move the        *)
(* selection of the active panel around its list in a circle; Enter on an  *)
(* entry that can be opened gives that panel another list, from its first  *)
(* entry on; no other key and no failure moves anything, and nothing moves *)
(* the other panel.  Entry 0 lies behind the border of the window and is   *)
(* never selected there.                                                   *)
(***************************************************************************)
EXTENDS Integers

CONSTANT Panels

VARIABLES
    key,    \* the key that was pressed last
    active, \* the panel that the keys are for
    n,      \* how many entries each panel lists
    cur,    \* the selected one
    roomy,  \* whether its window has room for a cursor
    opens   \* whether the active panel's entry can be opened as a list

panelVars == <<key, active, n, cur, roomy, opens>>

Init ==
    /\ active \in Panels
    /\ \A p \in Panels : n[p] > 1
    /\ cur = [p \in Panels |-> 1]

\* The arrow keys.  Without room for a cursor any entry may be the next one.
Select(entry) ==
    /\ \E e \in 0 .. n[active] - 1 :
        /\ roomy[active] => e = entry
        /\ cur' = [cur EXCEPT ![active] = e]
    /\ UNCHANGED <<active, n, roomy>>

Down ==
    /\ key' = "down"
    /\ Select(IF cur[active] = n[active] - 1 THEN 1 ELSE cur[active] + 1)

Up ==
    /\ key' = "up"
    /\ Select(IF cur[active] = 1 THEN n[active] - 1 ELSE cur[active] - 1)

Turn ==
    /\ key' = "tab"
    /\ active' \in Panels \ {active}
    /\ UNCHANGED <<n, cur, roomy>>

Show ==
    /\ key' = "enter"
    /\ opens
    /\ n'[active] > 1
    /\ n' = [n EXCEPT ![active] = n'[active]]
    /\ cur' = [cur EXCEPT ![active] = 1]
    /\ roomy' = [roomy EXCEPT ![active] = roomy'[active]]
    /\ UNCHANGED active

\* An Enter that fails or starts a program, and the keys that are for neither panel.
Rest ==
    /\ key' \in {"enter", "quit", "other"}
    /\ key' = "enter" => ~opens
    /\ UNCHANGED <<active, n, cur, roomy>>

PanelsNext == Down \/ Up \/ Turn \/ Show \/ Rest

PanelsSpec == Init /\ [][PanelsNext]_panelVars
=============================================================================
