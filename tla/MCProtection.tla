------------------------------ MODULE MCProtection ------------------------------
(***************************************************************************)
(* Instance of Protection for TLC.  A behaviour that starts with every     *)
(* entry open is of the exits; one that starts with fewer is of entries    *)
(* that are sent, fill and get their brackets while the cycle rearms, and  *)
(* asks for no exit.  The proofs have no such bound.                       *)
(***************************************************************************)
EXTENDS Protection

CONSTANTS x1

VARIABLE scene

OneEach == [t \in Tranches |-> 1]
TwoAndOne == [t \in Tranches |-> IF t = 1 THEN 2 ELSE 1]

SceneInit ==
    /\ ProtectionInit
    /\ scene = IF entered = Tranches THEN "exits" ELSE "entries"

SceneSpec == SceneInit /\ [][ProtectionNext /\ UNCHANGED scene]_<<protectionVars, scene>>

\* No exit beside the entries, and no fault while one of them is on its way.
Scenes ==
    scene = "entries" =>
        /\ \A x \in Exits : want[x].qty = 0
        /\ entered # bracketed => mishaps = 0
================================================================================
