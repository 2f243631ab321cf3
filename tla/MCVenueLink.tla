------------------------------ MODULE MCVenueLink ------------------------------
(***************************************************************************)
(* The link to the venue: the two streams and their recovery, the REST     *)
(* client under them, and the queue that makes stream events durable       *)
(* before they are applied.  Each takes from the others only an answer, a  *)
(* failure or an event, which its own model chooses freely, so a behaviour *)
(* is of one of them (`part`) and the others stay at their start: the      *)
(* states are the sum of the parts' states, not their product.             *)
(***************************************************************************)
EXTENDS HubRecovery, Rest, Evidence

VARIABLE part   \* the component this behaviour is of

LinkVars == <<hubVars, restVars, evidenceVars, part>>

LinkInit ==
    /\ part \in {"hubs", "rest", "evidence"}
    /\ HubInit /\ RestInit /\ EvidenceInit

LinkNext ==
    /\ UNCHANGED part
    /\ IF part = "hubs"     THEN HubNext      ELSE UNCHANGED hubVars
    /\ IF part = "rest"     THEN RestNext     ELSE UNCHANGED restVars
    /\ IF part = "evidence" THEN EvidenceNext ELSE UNCHANGED evidenceVars

\* The scheduling each part assumes (FairHubSpec, RestFairness and
\* FairEvidenceSpec), of the behaviours that are its own.
Hub(A)      == part = "hubs" /\ A
Http(A)     == part = "rest" /\ A
Durable(A)  == part = "evidence" /\ A

HubsAreFair ==
    /\ \A k \in Hubs : /\ WF_hubVars(Hub(RestartBegin(k))) /\ WF_hubVars(Hub(Reconnected(k)))
                       /\ WF_hubVars(Hub(StuckTick(k))) /\ WF_hubVars(Hub(Event(k)))
    /\ WF_hubVars(Hub(\E j \in jobs : JobDone(j) \/ JobFailed(j)))
    /\ WF_hubVars(Hub(\E j \in jobs : (j.src = "reconnect" /\ Subscribed(j)) \/ Restarted(j)))
    /\ WF_hubVars(Hub(Pipeline)) /\ WF_hubVars(Hub(Dispatch)) /\ WF_hubVars(Hub(Read))
    /\ WF_hubVars(Hub(Apply)) /\ WF_hubVars(Hub(ReconcileTimer))
    /\ WF_hubVars(Hub(MarketOpens))

\* An endpoint nobody calls has no step.
Called == Calls \cup {"loginKey", "validate"}

HttpIsFair ==
    /\ WF_restVars(Http(Tick)) /\ WF_restVars(Http(Refreshes))
    /\ \A p \in Called :
          /\ WF_restVars(Http(Answered(p) \/ Unauthorized(p)))
          /\ WF_restVars(Http(Begin(p) \/ Skip(p)))
          /\ WF_restVars(Http(\/ Acquire(p) \/ Send(p) \/ RefusedHere(p) \/ DelayEnds(p)
                              \/ Reauthenticates(p) \/ Returns(p)))

DurableIsFair ==
    /\ WF_evidenceVars(Durable(Writer)) /\ WF_evidenceVars(Durable(Stage))
    /\ WF_evidenceVars(Durable(Start)) /\ WF_evidenceVars(Durable(Replay))
    /\ WF_evidenceVars(Durable(Stopped)) /\ WF_evidenceVars(Durable(DrainFails))

LinkSpec == LinkInit /\ [][LinkNext]_LinkVars /\ HubsAreFair /\ HttpIsFair /\ DurableIsFair

Quotes == {"quote"}
================================================================================
