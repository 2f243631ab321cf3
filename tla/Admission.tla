------------------------------ MODULE Admission ------------------------------
(***************************************************************************)
(* Whether an entry may be sent: the gates a decision packet is published  *)
(* with, and the checks the risk engine and the coordinator make when the  *)
(* decision comes back, against an account and a market that moved on in   *)
(* between; and what a position admitted this way can lose at its stops.   *)
(*                                                                         *)
(* Prices and money are integers, one unit of price being worth one unit   *)
(* of money per lot; TickSize units make a tick.  A position is the net of *)
(* its lots, its average price kept exactly, as a cost for so many lots.   *)
(***************************************************************************)
EXTENDS Integers, FiniteSets, FiniteSetsExt

CONSTANTS Prices,            \* marks the market visits
          TickSize,
          Spread,            \* ask - bid
          MaxContracts,      \* policy.maxContracts
          Fees,              \* estimatedRoundTurnFeesUsd
          SlippageTicks,     \* slippageReserveTicks
          StartEquity,
          InitialLoss,       \* policy.initialMaximumLoss
          HighestBalance,    \* policy.highestEndOfDayBalance
          LossModel,         \* "trading_combine_eod" or "funded"
          MaxTurns           \* bound on changes of the account and the packet

ASSUME AdmissionAssumption ==
    /\ Prices \subseteq Nat /\ TickSize \in Nat \ {0} /\ Spread \in Nat /\ MaxContracts \in Nat \ {0}
    /\ {Fees, SlippageTicks, InitialLoss, MaxTurns} \subseteq Nat
    /\ StartEquity \in Nat /\ HighestBalance \in Nat

VARIABLES mark,       \* best bid
          position,   \* [side, size, cost, lots]: its average price is cost / lots
          cash,       \* balance, the open lots counted at what they cost
          stops,      \* working protective stops: [price, size, id]
          loose,      \* a working order of the contract without a protective tag
          foreign,    \* exposure on another contract
          complete,   \* the snapshot's data quality is complete
          canTrade, authDegraded, captured,
          mode,       \* configured trading mode
          packet,     \* the packet Hermes decides on
          entered,    \* entries sent
          turns

accountVars   == <<position, cash, stops>>
conditions    == <<loose, foreign, complete, canTrade, authDegraded, captured, mode>>
admissionVars == <<mark, accountVars, conditions, packet, entered, turns>>

NoPacket == [issued |-> FALSE, live |-> FALSE, proven |-> FALSE, captured |-> FALSE, supported |-> FALSE]
FlatNow  == [side |-> "flat", size |-> 0, cost |-> 0, lots |-> 1]

AdmissionInit ==
    /\ mark \in Prices /\ position = FlatNow /\ cash = StartEquity /\ stops = {}
    /\ loose = FALSE /\ foreign = FALSE /\ complete = TRUE /\ canTrade = TRUE
    /\ authDegraded = FALSE /\ captured = FALSE /\ mode = "armed"
    /\ packet = NoPacket /\ entered = 0 /\ turns = 0

Turn == turns < MaxTurns /\ turns' = turns + 1

----------------------------------------------------------------------------
(* Arithmetic: the loss floor, the brackets and their risk.                *)

Sign(side) == IF side = "long" THEN 1 ELSE IF side = "short" THEN -1 ELSE 0
Positive(n) == IF n > 0 THEN n ELSE 0
Smaller(a, b) == IF a < b THEN a ELSE b
CeilDiv(n, d)  == (n + d - 1) \div d

\* trailingFloorRelativeToStart and calculateLiquidationFloor: the floor
\* follows the highest end-of-day balance and stops at the start.
LiquidationFloor ==
    IF LossModel = "trading_combine_eod"
    THEN StartEquity + Smaller(0, Positive(HighestBalance - StartEquity) - InitialLoss)
    ELSE StartEquity + Smaller(0, Positive(HighestBalance) - InitialLoss)

\* conservativeEquity: balance plus what the open lots are worth now, a short
\* one at the ask.
Value(side, size) == Sign(side) * size * (IF side = "short" THEN mark + Spread ELSE mark)
ConservativeEquity == cash + Value(position.side, position.size)
CurrentBuffer == Positive(ConservativeEquity - LiquidationFloor)

IsTickAligned(p) == p % TickSize = 0
Reference(side) == IF side = "long" THEN mark + Spread ELSE mark

\* calculateBracketTicks: the stop is rounded away from the reference price,
\* the target towards it; either may come out as no tick at all.
StopTicks(side, stop) == CeilDiv(Sign(side) * (Reference(side) - stop), TickSize)
TargetTicks(side, target) == (Sign(side) * (target - Reference(side))) \div TickSize
GeometryOk(side, stop, target) ==
    /\ Sign(side) * (Reference(side) - stop) > 0 /\ Sign(side) * (target - Reference(side)) > 0
    /\ StopTicks(side, stop) >= 1 /\ TargetTicks(side, target) >= 1

\* protectedExposureUsd, also what validateEntryRisk computes as riskUsd.
ProtectedExposure(quantity, ticks) == quantity * (ticks * TickSize + SlippageTicks * TickSize + Fees)

\* Faulty: the risk of the stop that was asked for, not of the bracket sent.
RequestedRisk(side, quantity, stop) ==
    quantity * (Sign(side) * (Reference(side) - stop) + SlippageTicks * TickSize + Fees)
RiskUsd(side, quantity, stop) == ProtectedExposure(quantity, StopTicks(side, stop))

\* observedStopDistanceTicks: the farthest stop from the average price; zero
\* stands for none observed.
AbsDiff(a, b) == IF a > b THEN a - b ELSE b - a
ObservedStopTicks ==
    IF stops = {} \/ position.size = 0 THEN 0
    ELSE CeilDiv(Max({AbsDiff(position.cost, position.lots * s.price) : s \in stops}), position.lots * TickSize)

----------------------------------------------------------------------------
(* The gates of the packet.                                                *)

\* validateScaleIn: the same side, and no order of another purpose working.
ScaleInAllowed(side) == position.size > 0 /\ position.side = side /\ ~loose

\* resolveGatewayMode: armed only while the data is complete.
LiveOrders == mode = "armed" /\ complete

\* newExposureGate without auth.degraded.
EntrySupported ==
    /\ mode # "disabled" /\ complete /\ canTrade
    /\ IF position.size > 0 THEN ScaleInAllowed("long") \/ ScaleInAllowed("short") ELSE ~loose /\ ~foreign
    /\ position.size < MaxContracts

\* derivePacketProtection, by what is worth proving here: every lot has a stop.
ProtectionProven == position.size > 0 /\ MapThenSumSet(LAMBDA s : s.size, stops) = position.size

PacketIssued ==
    /\ Turn
    /\ packet' = [issued |-> TRUE, live |-> LiveOrders, proven |-> ProtectionProven, captured |-> captured,
                  supported |-> EntrySupported /\ ~authDegraded /\ ~captured]
    /\ UNCHANGED <<mark, accountVars, conditions, entered>>

\* invalidateAll, or the lease is over.
PacketExpires ==
    /\ packet.issued /\ packet' = NoPacket
    /\ UNCHANGED <<mark, accountVars, conditions, entered, turns>>

----------------------------------------------------------------------------
(* The account and the market move.                                        *)

Hit(s) == Sign(position.side) * (mark - s.price) <= 0

\* A tick of the market; a stop that was hit fills first.
MarkMoves ==
    /\ \A s \in stops : ~Hit(s)
    /\ mark' \in Prices \cap {mark - 1, mark + 1}
    /\ UNCHANGED <<accountVars, conditions, packet, entered, turns>>

StopFills(s) ==
    LET left == position.size - s.size IN
    /\ s \in stops /\ Hit(s)
    /\ stops' = stops \ {s}
    /\ position' = IF left = 0 THEN FlatNow ELSE [position EXCEPT !.size = left]
    /\ cash' = cash + Value(position.side, s.size) - s.size * Fees
    /\ UNCHANGED <<mark, conditions, packet, entered, turns>>

\* A stop is cancelled from outside.
StopLost(s) ==
    /\ Turn /\ s \in stops /\ stops' = stops \ {s}
    /\ UNCHANGED <<mark, position, cash, conditions, packet, entered>>

ConditionsChange ==
    /\ Turn
    /\ \/ /\ loose' = ~loose /\ UNCHANGED <<foreign, complete, canTrade, authDegraded, captured, mode>>
       \/ /\ foreign' = ~foreign /\ UNCHANGED <<loose, complete, canTrade, authDegraded, captured, mode>>
       \/ /\ complete' = ~complete /\ UNCHANGED <<loose, foreign, canTrade, authDegraded, captured, mode>>
       \/ /\ canTrade' = ~canTrade /\ UNCHANGED <<loose, foreign, complete, authDegraded, captured, mode>>
       \/ /\ authDegraded' = ~authDegraded /\ UNCHANGED <<loose, foreign, complete, canTrade, captured, mode>>
       \/ /\ captured' = TRUE /\ UNCHANGED <<loose, foreign, complete, canTrade, authDegraded, mode>>
       \/ /\ mode' = IF mode = "armed" THEN "shadow" ELSE "armed"
          /\ UNCHANGED <<loose, foreign, complete, canTrade, authDegraded, captured>>
    /\ UNCHANGED <<mark, accountVars, packet, entered>>

----------------------------------------------------------------------------
(* The decision comes back.                                                *)

\* Whether what is already held may be joined: a second entry needs its own
\* side and no loose order, a first one an account without working orders.
JoinsExposure(side) ==
    IF position.size > 0 THEN ScaleInAllowed(side) ELSE ~loose /\ ~foreign

\* validateEntryRisk.
RiskAccepts(side, quantity, stop, target) ==
    /\ complete /\ canTrade /\ ~captured
    /\ JoinsExposure(side)
    /\ quantity <= MaxContracts - position.size
    /\ IsTickAligned(stop) /\ IsTickAligned(target)
    /\ GeometryOk(side, stop, target)
    /\ CurrentBuffer > 0 /\ RiskUsd(side, quantity, stop) < CurrentBuffer

\* existingProtectedExposure: the lots of the contract count with the wider of
\* the candidate's stop and the observed one.
ExistingExposure(ticks) ==
    IF position.size = 0 THEN 0
    ELSE ProtectedExposure(position.size, IF ObservedStopTicks > ticks THEN ObservedStopTicks ELSE ticks)

\* evaluatePortfolioAdmission, without simultaneous exposure: nothing in
\* another contract, what is held proven protected, and a buffer left.
PortfolioAdmits(existing, candidate) ==
    /\ ~foreign
    /\ position.size > 0 => packet.proven
    /\ CurrentBuffer - existing - candidate > 0

PortfolioAccepts(side, quantity, stop) ==
    PortfolioAdmits(ExistingExposure(StopTicks(side, stop)), RiskUsd(side, quantity, stop))

\* The order is placed and fills at the reference price, its bracket with it;
\* the packets are invalidated.
EntrySent(side, quantity, stop, target) ==
    LET ref  == Reference(side)
        size == position.size + quantity
    IN
    /\ packet.issued /\ packet.live /\ ~packet.captured /\ mode = "armed"
    /\ RiskAccepts(side, quantity, stop, target) /\ PortfolioAccepts(side, quantity, stop)
    /\ entered' = entered + 1
    /\ position' = [side |-> side, size |-> size,
                    cost |-> position.cost * position.size + position.lots * ref * quantity,
                    lots |-> position.lots * size]
    /\ cash' = cash - Sign(side) * quantity * ref
    /\ stops' = stops \cup {[price |-> ref - Sign(side) * TickSize * StopTicks(side, stop),
                             size |-> quantity, id |-> entered + 1]}
    /\ packet' = NoPacket
    /\ UNCHANGED <<mark, conditions, turns>>

EntryDecided ==
    \E side \in {"long", "short"}, quantity \in 1 .. MaxContracts,
       stop \in Prices, target \in Prices : EntrySent(side, quantity, stop, target)

AdmissionNext ==
    \/ PacketIssued \/ PacketExpires \/ MarkMoves \/ ConditionsChange \/ EntryDecided
    \/ \E s \in stops : StopFills(s) \/ StopLost(s)

AdmissionSpec == AdmissionInit /\ [][AdmissionNext]_admissionVars

-----------------------------------------------------------------------------
AdmissionTypeOK ==
    /\ mark \in Prices /\ position.size \in 0 .. MaxContracts
    /\ {loose, foreign, complete, canTrade, authDegraded, captured} \subseteq BOOLEAN
    /\ entered \in Nat /\ turns \in 0 .. MaxTurns

\* What the account is worth if every working stop fills at its price now.
WorthAtStops ==
    LET exitNow == IF position.side = "short" THEN mark + Spread ELSE mark IN
    ConservativeEquity
      + MapThenSumSet(LAMBDA s : s.size * (Sign(position.side) * (s.price - exitNow) - Fees), stops)

(* An entry from flat leaves an account that stays above its liquidation     *)
(* floor if the stop fills at its price, spread and fees included, whatever  *)
(* the market did since the packet (evaluatePortfolioAdmission).             *)
FirstEntryKeepsFloor ==
    [][entered' > entered /\ position.size = 0 => WorthAtStops' > LiquidationFloor]_admissionVars

(* The type invariant and the floor together, for one run of many parts.     *)
AdmissionSafe == []AdmissionTypeOK /\ FirstEntryKeepsFloor
=============================================================================
