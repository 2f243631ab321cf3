------------------------------ MODULE SubmitOnce ------------------------------
(***************************************************************************)
(* What the execution path promises for one order-carrying intent, whatever*)
(* tasks, crashes and answers come in between: the request leaves the      *)
(* gateway at most once, and the gateway settles on a belief about it only *)
(* when the belief is true, and then never changes it.                     *)
(***************************************************************************)
CONSTANT Orders

VARIABLES
    fate,    \* fate[i]: what really happened to the request
    belief   \* belief[i]: what the gateway has durably concluded

vars == <<fate, belief>>

Init ==
    /\ fate = [i \in Orders |-> "held"]
    /\ belief = [i \in Orders |-> "open"]

(* The request leaves the gateway, which has not given it up.               *)
Submit(i) ==
    /\ fate[i] = "held" /\ belief[i] = "open"
    /\ fate' = [fate EXCEPT ![i] = "gone"]
    /\ UNCHANGED belief

(* The venue takes it, or it comes to nothing.                              *)
Land(i) ==
    /\ fate[i] = "gone"
    /\ \E f \in {"live", "void"} : fate' = [fate EXCEPT ![i] = f]
    /\ UNCHANGED belief

ConcludeLive(i) ==
    /\ belief[i] = "open" /\ fate[i] = "live"
    /\ belief' = [belief EXCEPT ![i] = "live"]
    /\ UNCHANGED fate

ConcludeVoid(i) ==
    /\ belief[i] = "open" /\ fate[i] \in {"held", "void"}
    /\ belief' = [belief EXCEPT ![i] = "void"]
    /\ UNCHANGED fate

Next == \E i \in Orders : Submit(i) \/ Land(i) \/ ConcludeLive(i) \/ ConcludeVoid(i)

Spec == Init /\ [][Next]_vars
================================================================================
