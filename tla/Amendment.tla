------------------------------ MODULE Amendment ------------------------------
(***************************************************************************)
(* Amendments of a protective stop: those Hermes asks for (MOVE_STOP) and  *)
(* those of the daily capture lock, which pulls the stop to breakeven.     *)
(* Both are jobs of the coordinator's queue, one at a time, and both judge *)
(* the stop, the position and the quote by the gateway's own snapshot,     *)
(* which the venue's stream brings up to date some time later.             *)
(*                                                                         *)
(* Prices are counted in ticks.  The position is open throughout.          *)
(***************************************************************************)
EXTENDS Integers

CONSTANTS Levels,       \* prices of the quote and of stops
          Side,         \* "long" or "short"
          StopLoss,     \* stopLoss of the entry's intent
          Averages,     \* average prices the position may have
          FirstStops,   \* where its bracket may have put the stop
          AskGap,       \* ask - bid
          Reserve       \* fees_slippage_reserve_ticks

ASSUME AmendmentAssumption ==
    /\ UNION {Levels, Averages, FirstStops} \subseteq Nat /\ StopLoss \in Nat /\ {AskGap, Reserve} \subseteq Nat
    /\ Side \in {"long", "short"} /\ FirstStops # {} /\ Averages # {}

VARIABLES bid,              \* of the quote
          average,          \* averagePrice of the position
          stop,             \* the working stop at the venue
          seen,             \* the stop as the snapshot shows it
          qualityComplete,  \* new exposure is not blocked by the data's quality
          job,              \* the price the amendment under way sends, or 0
          first             \* history: the stop of the bracket

amendmentVars == <<bid, average, stop, seen, qualityComplete, job, first>>

AmendmentInit ==
    /\ bid \in Levels /\ average \in Averages /\ stop \in FirstStops
    /\ seen = stop /\ first = stop /\ qualityComplete = TRUE /\ job = 0

Ask == bid + AskGap
\* p loses more than q does, as the price of a stop.
Worse(p, q) == IF Side = "long" THEN p < q ELSE p > q
LossAt(p) == IF Side = "long" THEN average - p ELSE p - average
AtMarket(p) == IF Side = "long" THEN p >= Ask ELSE p <= bid

----------------------------------------------------------------------------
(* validateProtectiveAmendment, of a stop.                                 *)

\* buildOriginalRiskEnvelope, from the position and the intent as they are now.
MaxProtectedLoss == IF LossAt(StopLoss) > 0 THEN LossAt(StopLoss) ELSE 0

\* Faulty: a widening stays within the loss allowed, wherever the boundary is.
WithinLoss(p) == LossAt(p) <= MaxProtectedLoss + Reserve
WithinEnvelope(p) == LossAt(p) <= MaxProtectedLoss + Reserve /\ ~Worse(p, StopLoss)

AmendmentOk(p, source) ==
    /\ Worse(p, seen) => source = "HERMES_INTENT" /\ WithinEnvelope(p)
    /\ ~AtMarket(p)

----------------------------------------------------------------------------
\* handleMoveStop: a widening also needs complete data.
MoveStop(p) ==
    /\ job = 0 /\ AmendmentOk(p, "HERMES_INTENT")
    /\ Worse(p, seen) => qualityComplete
    /\ job' = p
    /\ UNCHANGED <<bid, average, stop, seen, qualityComplete, first>>

\* clampCaptureLockBreakevenStop.
Breakeven ==
    IF ~AtMarket(average) THEN average
    ELSE IF Side = "long" THEN Ask - 1 ELSE bid + 1

\* tightenOwnedStopsAfterCaptureLock.
CaptureTightens ==
    /\ job = 0 /\ seen # Breakeven /\ AmendmentOk(Breakeven, "AUTO_BREAKEVEN")
    /\ job' = Breakeven
    /\ UNCHANGED <<bid, average, stop, seen, qualityComplete, first>>

\* The venue changes the order, or the call is lost and it does not.
Amended ==
    /\ job # 0 /\ job' = 0 /\ stop' \in {stop, job}
    /\ UNCHANGED <<bid, average, seen, qualityComplete, first>>

\* An order event, or a snapshot of the orders, reaches the state.
StopSeen ==
    /\ seen # stop /\ seen' = stop
    /\ UNCHANGED <<bid, average, stop, qualityComplete, job, first>>

QuoteMoves ==
    /\ bid' \in Levels \cap {bid - 1, bid + 1}
    /\ UNCHANGED <<average, stop, seen, qualityComplete, job, first>>

\* The average moves with a further entry or the exit of another tranche.
AverageMoves ==
    /\ average' \in Averages
    /\ UNCHANGED <<bid, stop, seen, qualityComplete, job, first>>

DataQualityChanges ==
    /\ qualityComplete' = ~qualityComplete
    /\ UNCHANGED <<bid, average, stop, seen, job, first>>

AmendmentNext ==
    \/ CaptureTightens \/ Amended \/ StopSeen \/ QuoteMoves \/ AverageMoves \/ DataQualityChanges
    \/ \E p \in Levels : MoveStop(p)

AmendmentSpec == AmendmentInit /\ [][AmendmentNext]_amendmentVars

-----------------------------------------------------------------------------
AmendmentTypeOK ==
    /\ {bid, stop, seen} \subseteq Levels \cup FirstStops \cup {b + 1 : b \in Levels} \cup {b + AskGap - 1 : b \in Levels} \cup Averages
    /\ average \in Averages /\ qualityComplete \in BOOLEAN

(* Whatever is amended, by whom and on however old a snapshot, the stop is   *)
(* never worse than both the stop-loss of the intent and the stop of the    *)
(* bracket (validateProtectiveAmendment).                                  *)
StopWithinEnvelope == ~(Worse(stop, StopLoss) /\ Worse(stop, first))

AmendmentInv == AmendmentTypeOK /\ StopWithinEnvelope

(* The capture lock never loosens a stop.  A stop Hermes has moved beyond    *)
(* breakeven is pulled back while the snapshot shows the older one.         *)
CaptureNeverLoosens == [][CaptureTightens => ~Worse(job', stop)]_amendmentVars
================================================================================
