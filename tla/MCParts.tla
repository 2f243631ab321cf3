-------------------------------- MODULE MCParts --------------------------------
(***************************************************************************)
(* The smaller components side by side.  They share no state in the models *)
(* (what one takes from another is an input of its own there), so one part *)
(* moves in a behaviour and the others stay at their start: the states are *)
(* the sum of the parts' states, not their product.                        *)
(***************************************************************************)
EXTENDS ProviderLog, OutcomeStore, Ownership, Process, Universe, Admission,
        Market, Watch, DailyCapture, Amendment

VARIABLE part   \* the component this behaviour is of

Parts == {"log", "store", "ownership", "process", "universe", "admission",
          "market", "watch", "capture", "amendment"}

PartsInit ==
    /\ part \in Parts
    /\ LogInit /\ StoreInit /\ OwnershipInit /\ ProcessInit /\ UniverseInit
    /\ AdmissionInit /\ MarketInit /\ WatchInit /\ CaptureInit /\ AmendmentInit
    \* where a start is not unique, only the part that moves chooses it
    /\ part # "store" => export = <<>>
    /\ part # "admission" => mark = CHOOSE p \in Prices : TRUE
    /\ part # "amendment" => /\ bid = CHOOSE p \in Levels : TRUE
                             /\ average = CHOOSE p \in Averages : TRUE
                             /\ stop = CHOOSE p \in FirstStops : TRUE

PartsNext ==
    /\ UNCHANGED part
    /\ IF part = "log"       THEN LogNext       ELSE UNCHANGED logVars
    /\ IF part = "store"     THEN StoreNext     ELSE UNCHANGED storeVars
    /\ IF part = "ownership" THEN OwnershipNext ELSE UNCHANGED ownershipVars
    /\ IF part = "process"   THEN ProcessNext   ELSE UNCHANGED processVars
    /\ IF part = "universe"  THEN UniverseNext  ELSE UNCHANGED universeVars
    /\ IF part = "admission" THEN AdmissionNext ELSE UNCHANGED admissionVars
    /\ IF part = "market"    THEN MarketNext    ELSE UNCHANGED marketVars
    /\ IF part = "watch"     THEN WatchNext     ELSE UNCHANGED watchVars
    /\ IF part = "capture"   THEN CaptureNext   ELSE UNCHANGED captureVars
    /\ IF part = "amendment" THEN AmendmentNext ELSE UNCHANGED amendmentVars

PartsSpec == PartsInit /\ [][PartsNext]_<<logVars, storeVars, ownershipVars, processVars,
    universeVars, admissionVars, marketVars, watchVars, captureVars, amendmentVars, part>>

-----------------------------------------------------------------------------
(* Values of the constants.                                                *)

\* The first entry has two contracts, the second one.
TwoAndOne == [e \in Entries |-> IF e = "e1" THEN 2 ELSE 1]

\* Every process is started on the same machine.
OneMachine == [p \in Processes |-> "machine"]

\* Beside the empty feed lies no export, one, or one with a torn last line.
AnyExport == {<<>>, <<[id |-> "i1", version |-> 1]>>, <<[id |-> "i1", version |-> 1], Torn>>}

\* One trade wins what the objective asks for, another loses it again.
WinAndLoss == [t \in Trades |-> IF t = "win" THEN 1 ELSE -1]

\* At most two of: a packet's request, a second one, a timer, a failed download.
TwoDisturbances ==
    Cardinality({p \in Packets : packets[p].at # "idle"}) + timers + barFaults <= 2
\* The alerts move, or the watchdog and its process: they share no state.
AlertsOrWatchdog ==
    \/ tracked = [alert \in Alerts |-> NeverFired]
    \/ gateway = NoProcess /\ memory.age < 0 /\ judged.boots = 0
\* A long log early, or a short one late; of the records, an order or a trade.
LogBound ==
    /\ logClock + nextSeq <= MaxTime + MaxSeq - 1
    /\ Cardinality({r \in Records : atVenue[r].version > 0}) <= 1
================================================================================
