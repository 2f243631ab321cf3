------------------------------ MODULE MCOperator ------------------------------
(***************************************************************************)
(* What an operator leans on: the control plane and the protection of open *)
(* positions.  The control plane asks the coordinator for one exit and the *)
(* coordinator runs it as Protection's own flatten; the models share no    *)
(* state beyond that request, so a behaviour is of one of them (`part`) and *)
(* the other stays at its start: the states are the sum of the two parts'  *)
(* states, not their product.                                              *)
(***************************************************************************)
EXTENDS MCControl, Protection

CONSTANTS x1

TwoOnly == [t \in Tranches |-> 2]

VARIABLE part   \* the component this behaviour is of

OperatorInit ==
    /\ part \in {"control", "protection"}
    /\ Init /\ ProtectionInit
    \* where a start is not unique, only the part that moves chooses it, and the
    \* position is open when the gateway starts: the run has no new entry
    /\ entered = Tranches
    /\ part = "protection" => /\ config = CHOOSE s \in Starts : TRUE
                              /\ account = CHOOSE a \in Accounts : TRUE

OperatorNext ==
    /\ UNCHANGED part
    /\ IF part = "control" THEN Next ELSE UNCHANGED vars
    /\ IF part = "protection" THEN ProtectionNext ELSE UNCHANGED protectionVars

OperatorSpec == OperatorInit /\ [][OperatorNext]_<<vars, protectionVars, part>>

\* The scheduling each part assumes (Fairness and ProtectionFairness), of the
\* behaviours that are its own.
ControlMoves(A) == part = "control" /\ A
ProtectionMoves(A) == part = "protection" /\ A
FairOperatorSpec ==
    /\ OperatorSpec
    /\ WF_vars(ControlMoves(Worker))
    /\ WF_vars(ControlMoves(\E t \in Tasks : Consume(t)))
    /\ \A t \in Tasks : WF_vars(ControlMoves(SendExit(t))) /\ WF_vars(ControlMoves(ExitAnswered(t)))
    /\ WF_vars(ControlMoves(StartTimer \/ TimerEnds \/ \E c \in Controls : TimerVisits(c)))
    /\ WF_vars(ControlMoves(Restore \/ BootEnds \/ \E c \in Controls : BootVisits(c)))
    /\ WF_protectionVars(ProtectionMoves(ExitJob))
    /\ WF_protectionVars(ProtectionMoves(Cycle))
    /\ WF_protectionVars(ProtectionMoves(OrderFills))
    /\ WF_protectionVars(ProtectionMoves(WindowCloses))
    /\ WF_protectionVars(ProtectionMoves(FillRecorded))
================================================================================
