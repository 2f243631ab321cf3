------------------------------ MODULE Protection ------------------------------
(***************************************************************************)
(* Stops and targets of an open position: the partial EXIT and its durable *)
(* saga, the rearm of legs the venue dropped, the sweep of legs left when  *)
(* flat, and the fail-closed flatten of exposure without a stop.           *)
(*                                                                         *)
(* The four jobs share the coordinator's execution queue, so one runs at a *)
(* time, but each is a chain of awaited store and venue calls, and the     *)
(* reconciliation cycle, recovery, the venue and a crash come in between.  *)
(* The gateway acts on what it has seen: its account state, refreshed by   *)
(* the cycle's REST reads and by stream events that may come late, and the *)
(* evidence journal, written behind, which the ownership projection reads. *)
(*                                                                         *)
(* A tranche is an entry, a number in order of creation: it is sent, fills,*)
(* and some time later its bracket works.  Prices and custom tags are      *)
(* abstracted to which legs work; all lots are long; two stops of a tranche*)
(* are cancelled together.                                                 *)
(***************************************************************************)
EXTENDS Integers, FiniteSets, Sequences, FiniteSetsExt

CONSTANTS
    Tranches,            \* entries, numbered in order of creation
    Qty,                 \* lots each of them fills
    Exits,               \* EXIT intents
    Nothing,             \* no tranche, no exit
    MaxProtectionFaults  \* bound on crashes plus failed venue calls plus legs cancelled
                         \* by somebody else

ASSUME TranchesAssumption == Tranches \subseteq Nat /\ IsFiniteSet(Tranches)
ASSUME QtyAssumption == Qty \in [Tranches -> Nat \ {0}]
ASSUME NothingAssumption == Nothing \notin Tranches \cup Exits /\ Tranches \cap Exits = {}
ASSUME BoundAssumption == MaxProtectionFaults \in Nat

(* What a set of tranches filled, lot by lot.                                *)
LotsOf(S) == Cardinality(UNION {{t} \X (1 .. Qty[t]) : t \in S})

SagaStates == {"reduction_prepared", "reduction_submitting",
    "reduction_ambiguous", "reduced_protected", "degraded_stop_only",
    "flat", "failed"}

(* Faulty: every advance is allowed.                                         *)
MayAlwaysAdvance(from, to) == TRUE

(* PROTECTED_REDUCTION_TRANSITIONS, for the states this store ever writes.   *)
MayAdvance(from, to) ==
    CASE from = "reduction_prepared"   -> to \in {"reduction_submitting", "failed", "flat"}
      [] from = "reduction_submitting" ->
            to \in {"reduction_ambiguous", "reduced_protected", "failed", "flat"}
      [] from = "reduction_ambiguous"  ->
            to \in {"reduced_protected", "degraded_stop_only", "failed", "flat"}
      [] from = "reduced_protected"    ->
            to \in {"degraded_stop_only", "reduction_prepared", "flat"}
      [] from = "degraded_stop_only"   -> to \in {"reduced_protected", "failed", "flat"}
      [] from = "failed"               -> to = "flat"
      [] OTHER                         -> FALSE

VARIABLES
    \* The venue.
    lots,          \* contracts open
    entered, filled, bracketed,  \* entries sent, filled, and given their bracket
    stops, tgts,   \* size of each tranche's working stops; targets that work
    order,         \* what became of an EXIT's order
    \* The execution store.
    want,          \* protected_reductions: target, quantity, size before
    saga, recent,  \* their state, and the rows in order of their last update
    survivor,      \* survivor_stop_order_id is known
    outbox, receipt,
    block,         \* runtime_meta unprotected_flatten_block
    closes,        \* outbox of the flatten, by the entries its identity names
    \* What the gateway has seen.
    view,          \* account state: lots, legs, working market orders
    journal,       \* tranches filled, and with a working leg, by the evidence store
    young,         \* the 30 s bracket window since the last fill is open
    \* The job on the execution queue, and the cycle.
    job, jx, sweepLeft, cut,
    cycle, snap,
    rearmed,       \* rearmStates
    asked,         \* closePosition calls of the flatten (history)
    mishaps

entries == <<entered, filled, bracketed>>
venue  == <<lots, entries, stops, tgts, order>>
sagas  == <<want, saga, recent, survivor>>
boxes  == <<outbox, receipt>>
seen   == <<view, journal>>
work   == <<job, jx, sweepLeft, cut>>
protectionVars   == <<venue, sagas, boxes, block, closes, seen, young, work, cycle, snap,
            rearmed, asked, mishaps>>

-----------------------------------------------------------------------------
(* What the venue shows, and what is made of it.                            *)

Venue == [lots |-> lots, stops |-> {t \in Tranches : stops[t] > 0}, tgts |-> tgts,
          working |-> {x \in Exits : order[x] = "working"} \cup (entered \ filled),
          bracketed |-> bracketed]   \* history: which brackets this sight is older than

Legs(v) == v.stops \cup v.tgts

(* A read of the account state: what was seen last, or the stream caught up. *)
Look(v) == v \in {view, Venue} /\ view' = v

Recorded(v) == [filled |-> filled, legs |-> Legs(v)]

(* The journal holds what was recorded before, or has caught up with v.      *)
Recall(v, j) == j \in {journal, Recorded(v)} /\ journal' = j

(* queryExitTargetedIntentIds: targets of submitted exits not refused.       *)
ExitTargets == {want[x].target : x \in
    {y \in Exits : outbox[y] = "submitted" /\ receipt[y] \notin {"refused", "ambiguous"}}}

(* buildTranches, the order of claims on the open lots: live legs first,     *)
(* oldest first; then the newest no exit named; then the newest one named.   *)
Before(s, t, live) ==
    IF s \in live \/ t \in live
    THEN s \in live /\ (t \in live => s < t)
    ELSE IF s \in ExitTargets <=> t \in ExitTargets THEN s > t
         ELSE t \in ExitTargets

Least(a, b) == IF a < b THEN a ELSE b

(* Faulty: not held at zero.                                                 *)
Unbounded(n) == n

AtLeastZero(n) == IF n < 0 THEN 0 ELSE n

(* buildTranches: what the tranche still holds of n open lots.               *)
Remaining(t, n, j) ==
    LET ahead == LotsOf({s \in j.filled \ {t} : Before(s, t, j.legs)})
    IN  Least(Qty[t], AtLeastZero(n - ahead))

Attributable(n, j) == {t \in j.filled : Remaining(t, n, j) > 0}

(* bindProtection: both legs observed.                                       *)
Proven(t, v) == t \in v.stops /\ t \in v.tgts

(* activeProtectedReduction: the row updated last of those still going.      *)
Active ==
    LET going == SelectSeq(recent, LAMBDA x :
                     saga[x] \notin {"flat", "failed", "reduced_protected"})
    IN  IF going = <<>> THEN Nothing ELSE going[Len(going)]

(* advanceProtectedReduction, where the table allows it.                     *)
Advance(x, to) ==
    /\ saga' = [saga EXCEPT ![x] = to]
    /\ recent' = Append(SelectSeq(recent, LAMBDA y : y # x), x)
    /\ UNCHANGED <<want, survivor>>

(* The catch blocks: an advance whose refusal is swallowed.                  *)
TryAdvance(x, to) ==
    IF x # Nothing /\ MayAdvance(saga[x], to) THEN Advance(x, to) ELSE UNCHANGED sagas

(* hasExitMutationBlockingRearm.                                             *)
ExitBlocksRearm == \E x \in Exits :
    \/ outbox[x] \in {"prepared", "submitting"}
    \/ outbox[x] = "submitted" /\ receipt[x] \in {"none", "pending", "recovered"}

(* Faulty: a target counts as cover, too.                                    *)
AnyLegCovers(t, v) == t \in Legs(v)

(* evaluateProtectionHealth: the mask of a degraded saga covers them all.    *)
StopCovered(t, v) ==
    \/ t \in v.stops
    \/ /\ Active # Nothing
       /\ saga[Active] = "degraded_stop_only"
       /\ survivor[Active]

Held(v, j) == MapThenSumSet(LAMBDA t : Remaining(t, v.lots, j), j.filled)

-----------------------------------------------------------------------------
(* A job's own copy of the account state, when there is no cycle.            *)
NoView == [lots |-> 0, stops |-> {}, tgts |-> {}, working |-> {}, bracketed |-> {}]

NoWork == job' = "idle" /\ jx' = Nothing /\ sweepLeft' = {} /\ cut' = {}

(* What entries before this process left open, with their brackets.         *)
OpenWith(S) ==
    /\ lots = LotsOf(S) /\ entered = S /\ filled = S /\ bracketed = S
    /\ stops = [t \in Tranches |-> IF t \in S THEN Qty[t] ELSE 0] /\ tgts = S

ProtectionInit ==
    /\ \E S \in SUBSET Tranches :
          OpenWith(S) /\ \A t \in S, s \in Tranches : s < t => s \in S
    /\ order = [x \in Exits |-> "none"]
    /\ want = [x \in Exits |-> [target |-> Nothing, qty |-> 0, before |-> 0]]
    /\ saga = [x \in Exits |-> "none"] /\ recent = <<>>
    /\ survivor = [x \in Exits |-> FALSE]
    /\ outbox = [x \in Exits |-> "absent"] /\ receipt = [x \in Exits |-> "none"]
    /\ block = FALSE /\ closes = [K \in SUBSET Tranches |-> "absent"]
    /\ view = Venue /\ journal = Recorded(Venue) /\ young = TRUE
    /\ job = "idle" /\ jx = Nothing /\ sweepLeft = {} /\ cut = {}
    /\ cycle = "idle" /\ snap = NoView
    /\ rearmed = [t \in Tranches |-> "none"]
    /\ asked = [K \in SUBSET Tranches |-> 0]
    /\ mishaps = 0

-----------------------------------------------------------------------------
(* ENTER: the coordinator sends a market order with a bracket.  (Execution   *)
(* has the job's own steps; here it matters that it stands in the queue.)    *)
Enter(t) ==
    /\ job = "idle" /\ ~block
    /\ t \notin entered /\ \A s \in Tranches : s < t => s \in entered
    /\ entered' = entered \cup {t}
    /\ UNCHANGED <<lots, filled, bracketed, stops, tgts, order, sagas, boxes, block, closes,
                   seen, young, work, cycle, snap, rearmed, asked, mishaps>>

-----------------------------------------------------------------------------
(* EXIT.                                                                    *)

(* The checks of handleExit on target, quantity and attribution.             *)
Admissible(t, q, v, j) ==
    /\ q \in 1 .. v.lots
    /\ t # Nothing => t \in Attributable(v.lots, j) /\ q <= Remaining(t, v.lots, j)
    /\ t = Nothing /\ q < v.lots => Cardinality(Attributable(v.lots, j)) <= 1

(* cancelTrancheProtectionOrders: the legs of the tranche the exit names.    *)
LegsToCancel(t, v) ==
    {leg \in {"stop", "target"} : t \in (IF leg = "stop" THEN v.stops ELSE v.tgts)}

(* The part before anything is sent; a partial exit opens its saga.          *)
ExitBegin(x) == \E v \in {view, Venue}, t \in Tranches \cup {Nothing}, q \in 1 .. lots :
    /\ job = "idle" /\ want[x].qty = 0 /\ v.lots > 0
    /\ Look(v) /\ \E j \in {journal, Recorded(v)} :
         /\ Recall(v, j)
         /\ Admissible(t, q, v, j)
         /\ want' = [want EXCEPT ![x] = [target |-> t, qty |-> q, before |-> v.lots]]
         /\ LET others == Attributable(v.lots, j) \ {t}
            IN  survivor' = [survivor EXCEPT ![x] =
                    /\ q < v.lots /\ Cardinality(others) = 1 /\ others \subseteq v.stops]
    /\ jx' = x
    /\ IF q < v.lots
       THEN /\ saga' = [saga EXCEPT ![x] = "reduction_prepared"]
            /\ recent' = Append(recent, x)
            /\ job' = "exit_begun"
            /\ cut' = IF t = Nothing THEN {} ELSE LegsToCancel(t, v)
       ELSE job' = "exit_prepare" /\ cut' = {} /\ UNCHANGED <<saga, recent>>
    /\ UNCHANGED <<venue, boxes, block, closes, young, sweepLeft, cycle, snap, rearmed,
                   asked, mishaps>>

ExitAdvance ==
    /\ job = "exit_begun"
    /\ Advance(jx, "reduction_submitting")
    /\ job' = IF cut = {} THEN "exit_prepare" ELSE "exit_cancel"
    /\ UNCHANGED <<venue, boxes, block, closes, seen, young, jx, sweepLeft, cut, cycle,
                   snap, rearmed, asked, mishaps>>

(* The stop is cancelled first.  An order that is gone cannot be cancelled.  *)
ExitCancel ==
    /\ job = "exit_cancel"
    /\ LET t == want[jx].target
           leg == IF "stop" \in cut THEN "stop" ELSE "target"
       IN  /\ IF leg = "stop" THEN stops[t] > 0 ELSE t \in tgts
           /\ IF leg = "stop"
              THEN stops' = [stops EXCEPT ![t] = 0] /\ UNCHANGED tgts
              ELSE tgts' = tgts \ {t} /\ UNCHANGED stops
           /\ cut' = cut \ {leg}
    /\ job' = IF cut' = {} THEN "exit_prepare" ELSE job
    /\ UNCHANGED <<lots, entries, order, sagas, boxes, block, closes, seen, young, jx,
                   sweepLeft, cycle, snap, rearmed, asked, mishaps>>

ExitCancelFails ==
    /\ job = "exit_cancel"
    /\ LET t == want[jx].target
           there == IF "stop" \in cut THEN stops[t] > 0 ELSE t \in tgts
       IN  IF there THEN mishaps < MaxProtectionFaults /\ mishaps' = mishaps + 1
           ELSE UNCHANGED mishaps
    /\ TryAdvance(jx, "failed")
    /\ receipt' = [receipt EXCEPT ![jx] = "refused"]
    /\ NoWork
    /\ UNCHANGED <<venue, outbox, block, closes, seen, young, cycle, snap, rearmed,
                   asked>>

(* prepareMutation and markMutationSubmitting, each refused when recovery    *)
(* was there before; both stand outside the try that would end the saga.     *)
ExitPrepare ==
    /\ job = "exit_prepare"
    /\ IF receipt[jx] = "none"
       THEN /\ outbox' = [outbox EXCEPT ![jx] = "prepared"]
            /\ job' = "exit_prepared" /\ UNCHANGED <<jx, sweepLeft, cut>>
       ELSE NoWork /\ UNCHANGED outbox
    /\ UNCHANGED <<venue, sagas, receipt, block, closes, seen, young, cycle, snap,
                   rearmed, asked, mishaps>>

ExitSubmitting ==
    /\ job = "exit_prepared"
    /\ IF outbox[jx] = "prepared"
       THEN /\ outbox' = [outbox EXCEPT ![jx] = "submitting"]
            /\ job' = "exit_send" /\ UNCHANGED <<jx, sweepLeft, cut>>
       ELSE NoWork /\ UNCHANGED outbox
    /\ UNCHANGED <<venue, sagas, receipt, block, closes, seen, young, cycle, snap,
                   rearmed, asked, mishaps>>

Partial(x) == want[x].qty < want[x].before

(* placeOrder or closePosition: accepted, refused, or no answer.             *)
ExitSend == \E answer \in {"exit_answered", "exit_refused", "exit_unknown"}, accepted \in BOOLEAN :
    /\ job = "exit_send"
    /\ answer = "exit_answered" => accepted
    /\ answer = "exit_refused" => ~accepted
    /\ answer # "exit_answered" => mishaps < MaxProtectionFaults
    /\ mishaps' = mishaps + (IF answer = "exit_answered" THEN 0 ELSE 1)
    /\ order' = IF accepted THEN [order EXCEPT ![jx] = "working"] ELSE order
    /\ job' = answer
    /\ UNCHANGED <<lots, entries, stops, tgts, sagas, boxes, block, closes, seen, young,
                   jx, sweepLeft, cut, cycle, snap, rearmed, asked>>

(* markMutationSubmitted; a partial exit then moves its saga and is pending. *)
ExitSubmitted ==
    /\ job = "exit_answered"
    /\ IF outbox[jx] \in {"submitting", "ambiguous", "submitted"}
       THEN /\ outbox' = [outbox EXCEPT ![jx] = "submitted"]
            /\ job' = IF Partial(jx) THEN "exit_ambiguous" ELSE "exit_record"
       ELSE job' = "exit_unknown" /\ UNCHANGED outbox
    /\ UNCHANGED <<venue, sagas, receipt, block, closes, seen, young, jx, sweepLeft, cut,
                   cycle, snap, rearmed, asked, mishaps>>

ExitAmbiguous ==
    /\ job = "exit_ambiguous"
    /\ IF MayAdvance(saga[jx], "reduction_ambiguous")
       THEN Advance(jx, "reduction_ambiguous") /\ job' = "exit_record"
       ELSE job' = "exit_unknown" /\ UNCHANGED sagas
    /\ UNCHANGED <<venue, boxes, block, closes, seen, young, jx, sweepLeft, cut, cycle,
                   snap, rearmed, asked, mishaps>>

ExitRecord ==
    /\ job = "exit_record"
    /\ receipt' = [receipt EXCEPT ![jx] = IF Partial(jx) THEN "pending" ELSE "closed"]
    /\ NoWork
    /\ UNCHANGED <<venue, sagas, outbox, block, closes, seen, young, cycle, snap,
                   rearmed, asked, mishaps>>

(* The catch block, first the saga, then recordMutationFailure.              *)
ExitCatch ==
    /\ job \in {"exit_refused", "exit_unknown"}
    /\ IF Partial(jx) THEN TryAdvance(jx, "failed") ELSE UNCHANGED sagas
    /\ job' = IF job = "exit_refused" THEN "exit_reject" ELSE "exit_doubt"
    /\ UNCHANGED <<venue, boxes, block, closes, seen, young, jx, sweepLeft, cut, cycle,
                   snap, rearmed, asked, mishaps>>

ExitFailed ==
    /\ job \in {"exit_reject", "exit_doubt"}
    /\ IF job = "exit_reject" /\ outbox[jx] = "ambiguous" THEN UNCHANGED boxes
       ELSE /\ outbox' = [outbox EXCEPT ![jx] =
                  IF @ = "submitted" THEN @
                  ELSE IF job = "exit_reject" THEN "rejected" ELSE "ambiguous"]
            /\ receipt' = [receipt EXCEPT ![jx] =
                  IF outbox[jx] = "submitted"
                  THEN IF Partial(jx) THEN "pending" ELSE "closed"
                  ELSE IF job = "exit_reject" THEN "refused" ELSE "ambiguous"]
    /\ NoWork
    /\ UNCHANGED <<venue, sagas, block, closes, seen, young, cycle, snap, rearmed,
                   asked, mishaps>>

-----------------------------------------------------------------------------
(* The reconciliation cycle: read the venue, settle, recover, then protect.  *)

CycleFetch ==
    /\ cycle = "idle" /\ view' = Venue /\ cycle' = "settle"
    /\ UNCHANGED <<venue, sagas, boxes, block, closes, journal, young, work, snap,
                   rearmed, asked, mishaps>>

(* reconcilePartialExitReceipt: the size is what it should be after the exit *)
(* and the exit's order works no more.                                       *)
Settleable(x) ==
    /\ receipt[x] = "pending" /\ outbox[x] = "submitted" /\ Partial(x)
    /\ view.lots > 0 /\ view.lots = want[x].before - want[x].qty
    /\ x \notin view.working

CycleSettle ==
    /\ cycle = "settle" /\ cycle' = "recover"
    /\ receipt' = [x \in Exits |-> IF Settleable(x) THEN "reconciled" ELSE receipt[x]]
    /\ UNCHANGED <<venue, sagas, outbox, block, closes, seen, young, work, snap,
                   rearmed, asked, mishaps>>

(* recoverExecutionMutations for the rows of EXITs; a row in submitting is   *)
(* left alone until it is 15 s old.                                          *)
Recovered(x, aged) ==
    CASE outbox[x] = "prepared" -> "confirmed_not_submitted"
      [] outbox[x] = "ambiguous" \/ (outbox[x] = "submitting" /\ aged) ->
            IF IF Partial(x) THEN order[x] # "none" ELSE view.lots = 0
            THEN "submitted" ELSE "ambiguous"
      [] OTHER -> outbox[x]

RecoveredReceipt(x, to) ==
    IF want[x].qty = 0 \/ (to = outbox[x] /\ receipt[x] # "none")
       \/ to \in {"submitting", "prepared"} THEN receipt[x]
    ELSE CASE to \in {"absent", "confirmed_not_submitted", "rejected"} -> "refused"
           [] to = "submitted" -> IF Partial(x) THEN "recovered" ELSE "closed"
           [] OTHER -> "ambiguous"

RecoveredClose(state, aged) ==
    CASE state = "prepared" -> "confirmed_not_submitted"
      [] state = "ambiguous" \/ (state = "submitting" /\ aged) ->
            IF view.lots = 0 THEN "submitted" ELSE "ambiguous"
      [] OTHER -> state

CycleRecover == \E aged \in BOOLEAN :
    /\ cycle = "recover" /\ cycle' = "protect"
    /\ outbox' = [x \in Exits |-> Recovered(x, aged)]
    /\ receipt' = [x \in Exits |-> RecoveredReceipt(x, Recovered(x, aged))]
    /\ closes' = [K \in DOMAIN closes |-> RecoveredClose(closes[K], aged)]
    /\ UNCHANGED <<venue, sagas, block, seen, young, work, snap, rearmed, asked,
                   mishaps>>

(* The snapshot is taken when the job is queued, not when it runs.           *)
CycleProtect == \E v \in {view, Venue} :
    /\ cycle = "protect"
    /\ Look(v) /\ snap' = v
    /\ cycle' = IF v.lots = 0 THEN "sweep" ELSE "rearm"
    /\ UNCHANGED <<venue, sagas, boxes, block, closes, journal, young, work, rearmed,
                   asked, mishaps>>

CycleFlatten == \E v \in {view, Venue} :
    /\ cycle = "flatten_next"
    /\ Look(v) /\ snap' = v /\ cycle' = "flatten"
    /\ UNCHANGED <<venue, sagas, boxes, block, closes, journal, young, work, rearmed,
                   asked, mishaps>>

-----------------------------------------------------------------------------
(* sweepOrphanProtectiveOrders: every saga ends, every leg is cancelled.     *)

(* Faulty: the stops only.                                                   *)
StopsToSweep(v) == v.stops \X {"stop"}

LegsToSweep(v) == (v.stops \X {"stop"}) \cup (v.tgts \X {"target"})

SweepStart ==
    /\ job = "idle" /\ cycle = "sweep"
    /\ saga' = [x \in Exits |->
          IF saga[x] \in {"none", "flat", "failed"} THEN saga[x] ELSE "flat"]
    /\ sweepLeft' = LegsToSweep(snap)
    /\ job' = "sweep"
    /\ UNCHANGED <<venue, want, recent, survivor, boxes, block, closes, seen, young,
                   jx, cut, cycle, snap, rearmed, asked, mishaps>>

SweepCancel == \E p \in sweepLeft, ok \in BOOLEAN :
    /\ job = "sweep"
    /\ ok \/ mishaps < MaxProtectionFaults
    /\ mishaps' = IF ok THEN mishaps ELSE mishaps + 1
    /\ sweepLeft' = sweepLeft \ {p}
    /\ stops' = IF ok /\ p[2] = "stop" THEN [stops EXCEPT ![p[1]] = 0] ELSE stops
    /\ tgts' = IF ok /\ p[2] = "target" THEN tgts \ {p[1]} ELSE tgts
    /\ UNCHANGED <<lots, entries, order, sagas, boxes, block, closes, seen, young, job,
                   jx, cut, cycle, snap, rearmed, asked>>

SweepEnd ==
    /\ job = "sweep" /\ sweepLeft = {}
    /\ NoWork /\ cycle' = "flatten_next"
    /\ UNCHANGED <<venue, sagas, boxes, block, closes, seen, young, snap, rearmed,
                   asked, mishaps>>

-----------------------------------------------------------------------------
(* rearmTrancheProtection.                                                  *)

RearmEnd == NoWork /\ cycle' = "flatten_next"

(* The tranches are those of the account state at the time of the job, their *)
(* legs those of the snapshot it was queued with.                            *)
Candidates(v, j) ==
    {t \in Attributable(v.lots, j) :
        rearmed[t] # "confirmed" /\ t \notin ExitTargets /\ ~Proven(t, snap)}

(* Once the orders of the last day are found (searchOrders) it goes through  *)
(* the candidates; without an answer the whole cycle ends.                   *)
RearmBegin(v, j) ==
    /\ sweepLeft' = {<<t, Remaining(t, v.lots, j)>> : t \in Candidates(v, j)}
    /\ job' = "rearm" /\ UNCHANGED <<jx, cut, cycle, snap, mishaps>>

RearmThrows ==
    /\ mishaps < MaxProtectionFaults /\ mishaps' = mishaps + 1
    /\ NoWork /\ cycle' = "idle" /\ snap' = NoView

(* The operator may have the gateway in another mode than armed.             *)
RearmStart == \E armed \in BOOLEAN, v \in {view, Venue} : \E j \in {journal, Recorded(v)} :
    /\ job = "idle" /\ cycle = "rearm"
    /\ Look(v) /\ Recall(v, j)
    /\ LET able == armed /\ snap.working = {} /\ ~ExitBlocksRearm
       IN  /\ IF ~able \/ Candidates(v, j) = {}
              THEN RearmEnd /\ UNCHANGED <<snap, mishaps>>
              ELSE RearmBegin(v, j) \/ RearmThrows
           /\ rearmed' = [t \in Tranches |->
                 IF /\ able /\ t \in Attributable(v.lots, j) /\ t \notin ExitTargets
                    /\ Proven(t, snap) /\ rearmed[t] = "stop_placed"
                 THEN "none" ELSE rearmed[t]]
    /\ UNCHANGED <<venue, sagas, boxes, block, closes, young, asked>>

(* Oldest first.                                                             *)
Oldest == CHOOSE p \in sweepLeft : \A q \in sweepLeft : p[1] <= q[1]

(* Faulty: by what this process did, without a look at the venue.            *)
NotPlacedHere(t) == rearmed[t] # "stop_placed"

StopNeeded(t) == t \notin snap.stops /\ rearmed[t] # "stop_placed"

(* Without a quote or a price for its stop a tranche is left as it is.       *)
RearmSkip ==
    /\ job = "rearm" /\ sweepLeft # {}
    /\ sweepLeft' = sweepLeft \ {Oldest}
    /\ UNCHANGED <<venue, sagas, boxes, block, closes, seen, young, job, jx, cut, cycle,
                   snap, rearmed, asked, mishaps>>

(* The venue takes the stop, refuses it, or takes it without our knowing.    *)
RearmStop == \E answered, accepted \in BOOLEAN :
    /\ job = "rearm" /\ sweepLeft # {}
    /\ LET t == Oldest[1]
       IN  IF StopNeeded(t)
           THEN /\ answered => accepted
                /\ answered \/ mishaps < MaxProtectionFaults
                /\ mishaps' = IF answered THEN mishaps ELSE mishaps + 1
                /\ stops' = IF accepted THEN [stops EXCEPT ![t] = @ + Oldest[2]] ELSE stops
                /\ job' = IF answered THEN "rearm_stopped" ELSE "rearm_failed"
           ELSE /\ answered /\ accepted
                /\ job' = "rearm_target" /\ UNCHANGED <<stops, mishaps>>
    /\ UNCHANGED <<lots, entries, tgts, order, sagas, boxes, block, closes, seen, young,
                   jx, sweepLeft, cut, cycle, snap, rearmed, asked>>

(* The saga updated last is told, whichever exit it belongs to.              *)
RearmDegrade ==
    /\ job = "rearm_stopped"
    /\ LET a == Active
       IN  IF a # Nothing /\ saga[a] \in {"reduction_ambiguous", "reduction_submitting"}
           THEN IF MayAdvance(saga[a], "degraded_stop_only")
                THEN Advance(a, "degraded_stop_only") /\ job' = "rearm_target"
                ELSE job' = "rearm_failed" /\ UNCHANGED sagas
           ELSE job' = "rearm_target" /\ UNCHANGED sagas
    /\ rearmed' = IF job' = "rearm_target"
                  THEN [rearmed EXCEPT ![Oldest[1]] = "stop_placed"] ELSE rearmed
    /\ UNCHANGED <<venue, boxes, block, closes, seen, young, jx, sweepLeft, cut, cycle,
                   snap, asked, mishaps>>

RearmDone(t) ==
    /\ rearmed' = [rearmed EXCEPT ![t] = "confirmed"]
    /\ sweepLeft' = sweepLeft \ {Oldest} /\ job' = "rearm" /\ UNCHANGED <<jx, cut>>

RearmTarget == \E ok \in BOOLEAN :
    /\ job = "rearm_target"
    /\ LET t == Oldest[1]
           a == Active
       IN  IF t \in snap.tgts
           THEN ok /\ RearmDone(t) /\ UNCHANGED <<tgts, mishaps, sagas>>
           ELSE IF ok
           THEN /\ tgts' = tgts \cup {t} /\ UNCHANGED mishaps
                /\ IF a # Nothing /\ saga[a] \in {"degraded_stop_only", "reduction_ambiguous"}
                   THEN Advance(a, "reduced_protected") ELSE UNCHANGED sagas
                /\ RearmDone(t)
           ELSE /\ mishaps < MaxProtectionFaults /\ mishaps' = mishaps + 1
                /\ IF a # Nothing /\ saga[a] = "reduction_ambiguous"
                   THEN Advance(a, "degraded_stop_only") ELSE UNCHANGED sagas
                /\ sweepLeft' = sweepLeft \ {Oldest} /\ job' = "rearm"
                /\ UNCHANGED <<tgts, rearmed, jx, cut>>
    /\ UNCHANGED <<lots, entries, stops, order, boxes, block, closes, seen, young, cycle,
                   snap, asked>>

RearmFailed ==
    /\ job = "rearm_failed"
    /\ TryAdvance(Active, "failed")
    /\ sweepLeft' = sweepLeft \ {Oldest} /\ job' = "rearm"
    /\ UNCHANGED <<venue, boxes, block, closes, seen, young, jx, cut, cycle, snap,
                   rearmed, asked, mishaps>>

RearmFinish ==
    /\ job = "rearm" /\ sweepLeft = {}
    /\ RearmEnd
    /\ UNCHANGED <<venue, sagas, boxes, block, closes, seen, young, snap, rearmed,
                   asked, mishaps>>

-----------------------------------------------------------------------------
(* flattenUnprotectedOwnedExposure.                                         *)

FlattenEnd == NoWork /\ cycle' = "idle" /\ snap' = NoView

(* Faulty: the tranches must hold more than is open.                         *)
OwnedWithRoom(v, j) == Held(v, j) > snap.lots

(* proveOwnedUnprotectedFlatten: the tranches account for the whole position.*)
Owned(v, j) == snap.lots > 0 /\ Held(v, j) = snap.lots

(* anyProtectionVerificationFailed; the time a lot has been unprotected is   *)
(* never longer than the time since its fill, so one window stands for both. *)
VerificationFailed(v, j) ==
    ~young /\ \E t \in Attributable(v.lots, j) : ~Proven(t, snap)

(* Faulty: prepared again unless it is known to be done.                     *)
FreshUnlessDone(live) == closes[live] # "submitted"

(* prepareMutation is idempotent: an existing row is left as it is.          *)
Fresh(live) == closes[live] = "absent"

(* The block is set before anything is decided, cleared only when covered.   *)
FlattenStart == \E v \in {view, Venue} : \E j \in {journal, Recorded(v)} :
    /\ job = "idle" /\ cycle = "flatten"
    /\ Look(v) /\ Recall(v, j)
    /\ LET live == Attributable(v.lots, j)
           naked == {t \in live : ~StopCovered(t, snap)}
       IN  /\ block' = (naked # {})
           /\ IF naked # {} /\ Owned(v, j) /\ VerificationFailed(v, j)
                 /\ Fresh(live)
              THEN /\ closes' = [closes EXCEPT ![live] = "prepared"]
                   /\ job' = "flatten" /\ sweepLeft' = live
                   /\ UNCHANGED <<jx, cut, cycle, snap>>
              ELSE FlattenEnd /\ UNCHANGED closes
    /\ UNCHANGED <<venue, sagas, boxes, young, rearmed, asked, mishaps>>

FlattenMark ==
    /\ job = "flatten"
    /\ IF closes[sweepLeft] = "prepared"
       THEN /\ closes' = [closes EXCEPT ![sweepLeft] = "submitting"]
            /\ job' = "flatten_send" /\ UNCHANGED <<jx, sweepLeft, cut, cycle, snap>>
       ELSE FlattenEnd /\ UNCHANGED closes
    /\ UNCHANGED <<venue, sagas, boxes, block, seen, young, rearmed, asked, mishaps>>

FlattenSend == \E answered, done \in BOOLEAN :
    /\ job = "flatten_send"
    /\ answered => done
    /\ answered \/ mishaps < MaxProtectionFaults
    /\ mishaps' = IF answered THEN mishaps ELSE mishaps + 1
    /\ asked' = [asked EXCEPT ![sweepLeft] = @ + 1]
    /\ lots' = IF done THEN 0 ELSE lots
    /\ job' = IF answered THEN "flatten_done" ELSE "flatten_doubt"
    /\ UNCHANGED <<entries, stops, tgts, order, sagas, boxes, block, closes, seen, young,
                   jx, sweepLeft, cut, cycle, snap, rearmed>>

FlattenRecord ==
    /\ job \in {"flatten_done", "flatten_doubt"}
    /\ closes' = [closes EXCEPT ![sweepLeft] =
          IF @ \in {"submitted", "confirmed_not_submitted"} THEN @
          ELSE IF job = "flatten_done" THEN "submitted" ELSE "ambiguous"]
    /\ FlattenEnd
    /\ UNCHANGED <<venue, sagas, boxes, block, seen, young, rearmed, asked, mishaps>>

-----------------------------------------------------------------------------
(* The venue, time and crashes.                                             *)

(* An entry fills, and the bracket it was sent with works some time later.   *)
EntryFills == \E t \in entered \ filled :
    /\ lots' = lots + Qty[t] /\ filled' = filled \cup {t} /\ young' = TRUE
    /\ UNCHANGED <<entered, bracketed, stops, tgts, order, sagas, boxes, block, closes,
                   seen, work, cycle, snap, rearmed, asked, mishaps>>

BracketWorks == \E t \in filled \ bracketed :
    /\ bracketed' = bracketed \cup {t}
    /\ stops' = [stops EXCEPT ![t] = @ + Qty[t]] /\ tgts' = tgts \cup {t}
    /\ UNCHANGED <<lots, entered, filled, order, sagas, boxes, block, closes, seen, young,
                   work, cycle, snap, rearmed, asked, mishaps>>

(* The evidence of a fill is written at last.                                *)
FillRecorded ==
    /\ journal.filled # filled
    /\ journal' = [journal EXCEPT !.filled = filled]
    /\ UNCHANGED <<venue, sagas, boxes, block, closes, view, young, work, cycle, snap,
                   rearmed, asked, mishaps>>

(* An EXIT's order fills; Auto OCO may cancel every bracket with it.         *)
OrderFills == \E x \in Exits, oco \in BOOLEAN :
    /\ order[x] = "working"
    /\ order' = [order EXCEPT ![x] = "filled"]
    /\ lots' = IF Partial(x) THEN AtLeastZero(lots - want[x].qty) ELSE 0
    /\ IF oco THEN stops' = [t \in Tranches |-> 0] /\ tgts' = {}
       ELSE UNCHANGED <<stops, tgts>>
    /\ UNCHANGED <<entries, sagas, boxes, block, closes, seen, young, work, cycle, snap,
                   rearmed, asked, mishaps>>

(* A stop is hit: its lots close and its sibling goes with it.  (A second    *)
(* stop then works on; that it turns the position around is not followed.)   *)
StopHit == \E t \in Tranches :
    LET hit == Least(stops[t], Qty[t])
    IN  /\ hit > 0 /\ lots >= hit
        /\ lots' = lots - hit
        /\ stops' = [stops EXCEPT ![t] = @ - hit] /\ tgts' = tgts \ {t}
        /\ UNCHANGED <<entries, order, sagas, boxes, block, closes, seen, young, work,
                       cycle, snap, rearmed, asked, mishaps>>

(* A leg is cancelled at the venue by somebody else, or rejected after all.  *)
LegLost == \E t \in Tranches, leg \in {"stop", "target"} :
    /\ mishaps < MaxProtectionFaults /\ mishaps' = mishaps + 1
    /\ IF leg = "stop"
       THEN /\ stops[t] > 0
            /\ stops' = [stops EXCEPT ![t] = 0] /\ UNCHANGED tgts
       ELSE /\ t \in tgts /\ tgts' = tgts \ {t} /\ UNCHANGED stops
    /\ UNCHANGED <<lots, entries, order, sagas, boxes, block, closes, seen, young, work,
                   cycle, snap, rearmed, asked>>

WindowCloses ==
    /\ young /\ young' = FALSE
    /\ UNCHANGED <<venue, sagas, boxes, block, closes, seen, work, cycle, snap,
                   rearmed, asked, mishaps>>

(* The process dies and starts again with a fresh read of the venue.         *)
CoordinatorCrash ==
    /\ mishaps < MaxProtectionFaults /\ mishaps' = mishaps + 1
    /\ NoWork /\ cycle' = "idle" /\ view' = Venue /\ snap' = NoView
    /\ rearmed' = [t \in Tranches |-> "none"]
    /\ UNCHANGED <<venue, sagas, boxes, block, closes, journal, young, asked>>

-----------------------------------------------------------------------------
ExitJob ==
    \/ ExitAdvance \/ ExitCancel \/ ExitCancelFails \/ ExitPrepare \/ ExitSubmitting
    \/ ExitSend \/ ExitSubmitted \/ ExitAmbiguous \/ ExitRecord \/ ExitCatch
    \/ ExitFailed

Cycle ==
    \/ CycleFetch \/ CycleSettle \/ CycleRecover \/ CycleProtect \/ CycleFlatten
    \/ SweepStart \/ SweepCancel \/ SweepEnd
    \/ RearmStart \/ RearmSkip \/ RearmStop \/ RearmDegrade \/ RearmTarget \/ RearmFailed
    \/ RearmFinish
    \/ FlattenStart \/ FlattenMark \/ FlattenSend \/ FlattenRecord

ProtectionNext ==
    \/ \E t \in Tranches : Enter(t)
    \/ \E x \in Exits : ExitBegin(x)
    \/ ExitJob \/ Cycle
    \/ EntryFills \/ BracketWorks \/ FillRecorded \/ OrderFills \/ StopHit \/ LegLost
    \/ WindowCloses \/ CoordinatorCrash

ProtectionSpec == ProtectionInit /\ [][ProtectionNext]_protectionVars

(* Every job on the queue runs to its end, the timer drives the cycle, the   *)
(* evidence queue drains, the orders of exits fill and time passes; no leg   *)
(* has to be hit or lost, and no entry made.                                 *)
ProtectionFairness ==
    /\ WF_protectionVars(ExitJob) /\ WF_protectionVars(Cycle)
    /\ WF_protectionVars(OrderFills) /\ WF_protectionVars(WindowCloses)
    /\ WF_protectionVars(FillRecorded)

FairProtectionSpec == ProtectionSpec /\ ProtectionFairness

-----------------------------------------------------------------------------
ProtectionTypeOK ==
    /\ lots \in Nat /\ stops \in [Tranches -> Nat] /\ tgts \subseteq Tranches
    /\ bracketed \subseteq filled /\ filled \subseteq entered /\ entered \subseteq Tranches
    /\ order \in [Exits -> {"none", "working", "filled"}]
    /\ saga \in [Exits -> SagaStates \cup {"none"}]
    /\ outbox \in [Exits -> {"absent", "prepared", "submitting", "submitted",
                             "rejected", "ambiguous", "confirmed_not_submitted"}]
    /\ receipt \in [Exits -> {"none", "pending", "reconciled", "recovered", "closed",
                              "refused", "ambiguous"}]
    /\ rearmed \in [Tranches -> {"none", "stop_placed", "confirmed"}]
    /\ block \in BOOLEAN /\ young \in BOOLEAN

(* The flatten of one set of entries is put on the wire at most once, over   *)
(* crashes and lost answers: its row is claimed before the call              *)
(* (unprotected-flatten.ts, the idempotent existing mutation).               *)
FlattenAskedOnce == \A K \in SUBSET Tranches : asked[K] <= 1

(* A saga only tells of a reduction whose order the venue has taken, also    *)
(* when the rearm, which tells the saga updated last, moved it.              *)
SagaTellsOfAnOrder == \A x \in Exits :
    saga[x] \in {"reduction_ambiguous", "degraded_stop_only", "reduced_protected"}
        => order[x] # "none"

ProtectionInv == ProtectionTypeOK /\ FlattenAskedOnce /\ SagaTellsOfAnOrder

(* The rearm never sends a stop for a tranche whose stop works: two of them  *)
(* would sell twice what the tranche holds.  Except for a tranche whose      *)
(* bracket came after the snapshot the rearm was queued with: it sees the    *)
(* fill, but not the legs (rearmTrancheProtectionSerial).                    *)
RearmOnlyNaked ==
    [][job = "rearm" /\ job' \in {"rearm_stopped", "rearm_failed"}
          => \/ stops[Oldest[1]] = 0
             \/ Oldest[1] \in bracketed \ snap.bracketed]_protectionVars

(* An EXIT that names a tranche leaves a stop for every lot it does not sell *)
(* before the venue has its order (docs/OPERATIONS.md, the saga's invariant).*)
SurvivorsKeepTheirStop ==
    [][job = "exit_cancel" /\ stops' # stops
          /\ MapThenSumSet(LAMBDA t : stops[t], Tranches) >= lots
          => MapThenSumSet(LAMBDA t : stops'[t], Tranches) >= lots - want[jx].qty]_protectionVars

Flat == lots = 0
Naked == lots > MapThenSumSet(LAMBDA t : stops[t], Tranches)
Masked == Active # Nothing /\ saga[Active] = "degraded_stop_only" /\ survivor[Active]

(* Lots without a stop block new entries, whatever else goes wrong, except   *)
(* while a degraded saga vouches for every tranche.                          *)
NakedBlocksEntries == Naked ~> (block \/ ~Naked \/ Masked)

(* And the fail-closed flatten of their owners is decided, if nothing has    *)
(* covered them before.                                                      *)
NakedIsFlattened ==
    Naked ~> (\/ ~Naked \/ Masked
              \/ closes[Attributable(lots, Recorded(Venue))] # "absent")

(* Once flat, no leg keeps working and no saga stays open.                   *)
FlatIsSwept ==
    Flat ~> /\ \A t \in Tranches : stops[t] = 0
            /\ tgts = {}
            /\ \A x \in Exits : saga[x] \in {"none", "flat", "failed"}
================================================================================
