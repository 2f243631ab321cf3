---------------------------- MODULE Protection_proofs ----------------------------
(***************************************************************************)
(* Proofs about Protection for any set of tranches and exits, any sizes    *)
(* and any number of crashes, failed calls and lost legs.                  *)
(*                                                                         *)
(* The inductive invariant says, of the job on the queue and of the cycle, *)
(* what each step carries; that a saga past its order has one; that a row  *)
(* which can still be claimed has not been on the wire; and that from the  *)
(* fetch to the rearm every stop that works has been seen, was placed by   *)
(* the rearm itself, or came with a bracket after the sight.               *)
(***************************************************************************)
EXTENDS Protection, FiniteSetTheorems, WellFoundedInduction, TLAPS

ExitJobs == {"exit_begun", "exit_cancel", "exit_prepare", "exit_prepared", "exit_send",
             "exit_answered", "exit_refused", "exit_unknown", "exit_ambiguous", "exit_record",
             "exit_reject", "exit_doubt"}
Rearming == {"rearm_stopped", "rearm_target", "rearm_failed"}
RearmJobs == {"rearm"} \cup Rearming
FlattenJobs == {"flatten", "flatten_send", "flatten_done", "flatten_doubt"}

Sights == [lots : Nat, stops : SUBSET Tranches, tgts : SUBSET Tranches,
           working : SUBSET (Exits \cup Tranches), bracketed : SUBSET Tranches]
Journals == [filled : SUBSET Tranches, legs : SUBSET Tranches]
Wants  == [target : Tranches \cup {Nothing}, qty : Nat, before : Nat]

(* What the job and the cycle carry.                                        *)
JobInv ==
    /\ job \in {"idle", "sweep"} \cup ExitJobs \cup RearmJobs \cup FlattenJobs
    /\ cycle \in {"idle", "settle", "recover", "protect", "sweep", "rearm", "flatten_next", "flatten"}
    /\ job \in ExitJobs => jx \in Exits
    /\ job = "sweep" => cycle = "sweep"
    /\ job \in RearmJobs => cycle = "rearm" /\ sweepLeft \subseteq Tranches \X Nat
                            /\ \A p, q \in sweepLeft : p[1] = q[1] => p = q
    /\ job \in Rearming => sweepLeft # {}
    /\ job \in FlattenJobs => sweepLeft \subseteq Tranches /\ cycle = "flatten"

DataInv ==
    /\ view \in Sights /\ snap \in Sights /\ journal \in Journals
    /\ view.bracketed \subseteq bracketed /\ snap.bracketed \subseteq bracketed
    /\ want \in [Exits -> Wants]
    /\ asked \in [SUBSET Tranches -> Nat] /\ DOMAIN closes = SUBSET Tranches

SagaInv ==
    /\ SagaTellsOfAnOrder
    /\ job \in {"exit_answered", "exit_ambiguous", "exit_record"} => order[jx] # "none"

AskedInv ==
    /\ FlattenAskedOnce
    /\ \A K \in SUBSET Tranches : closes[K] \in {"absent", "prepared"} => asked[K] = 0
    /\ job = "flatten_send" =>
          asked[sweepLeft] = 0 /\ closes[sweepLeft] \notin {"absent", "prepared"}

Late(t, v) == t \in bracketed \ v.bracketed
Known(t) ==
    stops[t] = 0 \/ t \in snap.stops \/ rearmed[t] = "stop_placed" \/ Late(t, snap)
(* Every stop that works is in a sight, or came with a bracket after it.     *)
Seen(v) == \A t \in Tranches : stops[t] > 0 => t \in v.stops \/ Late(t, v)

RearmInv ==
    /\ cycle \in {"settle", "recover", "protect"} => Seen(view)
    /\ cycle = "rearm" /\ job \notin RearmJobs => Seen(snap)
    /\ job = "rearm" => \A p \in sweepLeft : Known(p[1])
    /\ job \in Rearming => \A p \in sweepLeft \ {Oldest} : Known(p[1])

StepInv == ProtectionTypeOK /\ JobInv /\ DataInv /\ SagaInv /\ AskedInv /\ RearmInv

-----------------------------------------------------------------------------
LEMMA Smallest ==
    ASSUME NEW S \in SUBSET Nat, S # {}
    PROVE  \E m \in S : \A n \in S : m <= n
<1> DEFINE R == OpToRel(<, Nat)
<1>1. IsWellFoundedOn(R, Nat)
  BY NatLessThanWellFounded, Zenon
<1>2. \A n, m \in Nat : n < m => <<n, m>> \in R
  BY Zenon DEF OpToRel
<1> HIDE DEF R
<1>3. PICK m \in S : \A n \in S : ~ (<<n, m>> \in R)
  BY <1>1, WFMin
<1>4. \A n \in S : m <= n
  <2> TAKE n \in S
  <2>1. n \in Nat /\ m \in Nat
    OBVIOUS
  <2>2. ~ (n < m)
    BY <1>2, <1>3, <2>1, Zenon
  <2>3. QED BY <2>1, <2>2
<1>5. QED BY <1>4

\* The oldest of the tranches the rearm has left.
LEMMA OldestIsLeft ==
    ASSUME sweepLeft # {}, sweepLeft \subseteq Tranches \X Nat
    PROVE  Oldest \in sweepLeft /\ Oldest[1] \in Tranches /\ Oldest[2] \in Nat
<1> DEFINE S == {p[1] : p \in sweepLeft}
<1>1. S \in SUBSET Nat /\ S # {}
  BY TranchesAssumption
<1>2. PICK m \in S : \A n \in S : m <= n
  BY <1>1, Smallest
<1>3. PICK p \in sweepLeft : p[1] = m
  OBVIOUS
<1>4. \A q \in sweepLeft : p[1] <= q[1]
  BY <1>2, <1>3
<1>5. Oldest \in sweepLeft
  BY <1>4 DEF Oldest
<1>6. QED BY <1>5

LEMMA LotsAreCounted == ASSUME NEW S \in SUBSET Tranches PROVE LotsOf(S) \in Nat
<1> DEFINE Of(t) == {t} \X (1 .. Qty[t])
           T == {Of(t) : t \in S}
<1>1. IsFiniteSet(S)
  BY TranchesAssumption, FS_Subset
<1>2. IsFiniteSet(T)
  <2>1. [t \in S |-> Of(t)] \in Surjection(S, T)
    BY DEF Surjection
  <2>2. QED BY <1>1, <2>1, FS_Surjection
<1>3. \A t \in S : IsFiniteSet(Of(t))
  <2> TAKE t \in S
  <2>1. IsFiniteSet({t})
    BY FS_Singleton, Zenon
  <2>2. Qty[t] \in Int
    BY QtyAssumption
  <2>3. IsFiniteSet(1 .. Qty[t])
    BY <2>2, FS_Interval
  <2>4. QED BY <2>1, <2>3, FS_Product
<1>4. IsFiniteSet(UNION T)
  BY <1>2, <1>3, FS_UNION
<1>5. LotsOf(S) = Cardinality(UNION T)
  BY DEF LotsOf
<1> HIDE DEF T
<1>6. Cardinality(UNION T) \in Nat
  BY <1>4, FS_CardinalityType, Zenon
<1>7. QED BY <1>5, <1>6

LEMMA RemainingIsNat ==
    ASSUME NEW t \in Tranches, NEW n \in Nat, NEW j \in Journals
    PROVE  Remaining(t, n, j) \in Nat
<1> DEFINE ahead == LotsOf({s \in j.filled \ {t} : Before(s, t, j.legs)})
<1>1. ahead \in Nat
  BY LotsAreCounted DEF Journals
<1>2. Remaining(t, n, j) = Least(Qty[t], AtLeastZero(n - ahead))
  BY DEF Remaining
<1> HIDE DEF ahead
<1>3. QED BY <1>1, <1>2, QtyAssumption DEF Least, AtLeastZero

LEMMA VenueIsSeen == ProtectionTypeOK => Venue \in Sights /\ Venue.bracketed \subseteq bracketed
BY DEF ProtectionTypeOK, Venue, Sights

LEMMA LegsAreTranches == \A v \in Sights : Legs(v) \subseteq Tranches
BY DEF Sights, Legs

LEMMA FillsAreRecorded ==
    ASSUME ProtectionTypeOK, NEW v \in Sights PROVE Recorded(v) \in Journals
BY LegsAreTranches DEF ProtectionTypeOK, Recorded, Journals

(* The entries: what is sent, fills and is recorded moves no leg.            *)
Entering == (\E t \in Tranches : Enter(t)) \/ EntryFills \/ FillRecorded

LEMMA EntryFrame ==
    ASSUME Entering \/ BracketWorks
    PROVE  /\ UNCHANGED <<order, want, saga, recent, survivor, outbox, receipt, block, closes>>
           /\ UNCHANGED <<view, job, jx, sweepLeft, cut, cycle, snap, rearmed, asked>>
<1>1. CASE \E t \in Tranches : Enter(t)
  BY <1>1 DEF Enter, sagas, boxes, seen, work
<1>2. CASE EntryFills
  BY <1>2 DEF EntryFills, sagas, boxes, seen, work
<1>3. CASE FillRecorded
  BY <1>3 DEF FillRecorded, venue, sagas, boxes, work
<1>4. CASE BracketWorks
  BY <1>4 DEF BracketWorks, sagas, boxes, seen, work
<1>5. QED BY <1>1, <1>2, <1>3, <1>4 DEF Entering

LEMMA EnteringNoLegs == ASSUME Entering PROVE UNCHANGED <<stops, tgts, bracketed>>
BY DEF Entering, Enter, EntryFills, FillRecorded, venue, entries

(* The bracket of an entry that had none.                                    *)
LEMMA BracketComes ==
    ASSUME ProtectionTypeOK, BracketWorks
    PROVE  \E t \in filled \ bracketed :
              /\ bracketed' = bracketed \cup {t} /\ lots' = lots
              /\ stops' = [stops EXCEPT ![t] = stops[t] + Qty[t]] /\ tgts' = tgts \cup {t}
              /\ entered' = entered /\ filled' = filled
BY DEF BracketWorks

-----------------------------------------------------------------------------
LEMMA StepInit == ProtectionInit => StepInv
<1> SUFFICES ASSUME ProtectionInit PROVE StepInv
  OBVIOUS
<1> USE DEF ProtectionInit
<1>1. ProtectionTypeOK
  <2>1. PICK S \in SUBSET Tranches : OpenWith(S)
    OBVIOUS
  <2>2. lots \in Nat /\ stops \in [Tranches -> Nat] /\ tgts \subseteq Tranches
    BY <2>1, LotsAreCounted, QtyAssumption DEF OpenWith
  <2>3. bracketed \subseteq filled /\ filled \subseteq entered /\ entered \subseteq Tranches
    BY <2>1 DEF OpenWith
  <2>4. QED BY <2>2, <2>3 DEF ProtectionTypeOK
<1>2. JobInv
  BY DEF JobInv, ExitJobs, RearmJobs, Rearming, FlattenJobs
<1>3. DataInv
  <2>1. NoView \in Sights /\ NoView.bracketed = {}
    BY DEF NoView, Sights
  <2>2. view \in Sights /\ view.bracketed \subseteq bracketed /\ journal \in Journals
    BY <1>1, VenueIsSeen, FillsAreRecorded
  <2>3. want \in [Exits -> Wants]
    BY DEF Wants
  <2>4. QED BY <2>1, <2>2, <2>3 DEF DataInv
<1>4. SagaInv
  BY DEF SagaInv, SagaTellsOfAnOrder
<1>5. AskedInv
  BY DEF AskedInv, FlattenAskedOnce
<1>6. RearmInv
  BY DEF RearmInv, RearmJobs, Rearming
<1>7. QED BY <1>1, <1>2, <1>3, <1>4, <1>5, <1>6 DEF StepInv

-----------------------------------------------------------------------------
(* What any step does to the sagas.                                         *)
Past == {"reduction_ambiguous", "degraded_stop_only", "reduced_protected"}

LEMMA Advanced ==
    ASSUME ProtectionTypeOK, NEW a, NEW to \in SagaStates, Advance(a, to)
    PROVE  /\ saga' \in [Exits -> SagaStates \cup {"none"}]
           /\ \A x \in Exits : saga'[x] = IF x = a THEN to ELSE saga[x]
BY DEF Advance, ProtectionTypeOK

LEMMA SagaSteps ==
    ASSUME StepInv, ProtectionNext
    PROVE  /\ saga' \in [Exits -> SagaStates \cup {"none"}]
           /\ \A x \in Exits : saga'[x] \in Past =>
                 saga[x] \in Past \/ (job = "exit_ambiguous" /\ x = jx)
<1> DEFINE Goal == /\ saga' \in [Exits -> SagaStates \cup {"none"}]
                   /\ \A x \in Exits : saga'[x] \in Past =>
                         saga[x] \in Past \/ (job = "exit_ambiguous" /\ x = jx)
<1>0. ProtectionTypeOK
  BY DEF StepInv
<1>1. CASE UNCHANGED sagas
  BY <1>0, <1>1 DEF sagas, ProtectionTypeOK
<1>2. CASE \E x \in Exits : ExitBegin(x)
  <2>1. PICK x \in Exits : ExitBegin(x)
    BY <1>2
  <2>2. saga' = [saga EXCEPT ![x] = "reduction_prepared"] \/ saga' = saga
    BY <2>1 DEF ExitBegin
  <2>3. CASE saga' = saga
    BY <1>0, <2>3 DEF ProtectionTypeOK
  <2>4. CASE saga' = [saga EXCEPT ![x] = "reduction_prepared"]
    BY <1>0, <2>4 DEF ProtectionTypeOK, SagaStates, Past
  <2>5. QED BY <2>2, <2>3, <2>4
<1>3. CASE ExitAdvance
  <2>1. Advance(jx, "reduction_submitting") /\ "reduction_submitting" \in SagaStates \ Past
    BY <1>3 DEF ExitAdvance, SagaStates, Past
  <2>2. QED BY <1>0, <2>1, Advanced
<1>4. CASE ExitCancelFails \/ ExitCatch \/ RearmFailed
  <2>1. PICK a : Advance(a, "failed") \/ UNCHANGED sagas
    BY <1>4 DEF ExitCancelFails, ExitCatch, RearmFailed, TryAdvance
  <2>2. CASE Advance(a, "failed")
    <3>1. "failed" \in SagaStates \ Past
      BY DEF SagaStates, Past
    <3>2. QED BY <1>0, <2>2, <3>1, Advanced
  <2>3. QED BY <1>1, <2>1, <2>2
<1>5. CASE ExitAmbiguous
  <2>1. job = "exit_ambiguous" /\ (Advance(jx, "reduction_ambiguous") \/ UNCHANGED sagas)
    BY <1>5 DEF ExitAmbiguous
  <2>2. CASE Advance(jx, "reduction_ambiguous")
    <3>1. "reduction_ambiguous" \in SagaStates
      BY DEF SagaStates
    <3>2. QED BY <1>0, <2>1, <2>2, <3>1, Advanced
  <2>3. QED BY <1>1, <2>1, <2>2
<1>6. CASE SweepStart
  <2>1. saga' = [x \in Exits |-> IF saga[x] \in {"none", "flat", "failed"} THEN saga[x] ELSE "flat"]
    BY <1>6 DEF SweepStart
  <2>2. QED BY <1>0, <2>1 DEF ProtectionTypeOK, SagaStates, Past
<1>7. CASE RearmDegrade \/ RearmTarget
  <2> DEFINE a == Active
  <2>1. \/ UNCHANGED sagas
        \/ saga[a] \in Past /\ \E to \in Past : Advance(a, to)
    <3>1. CASE RearmDegrade
      <4>1. ASSUME saga[a] \in {"reduction_ambiguous", "reduction_submitting"},
                   MayAdvance(saga[a], "degraded_stop_only")
            PROVE  saga[a] \in Past
        BY <4>1 DEF MayAdvance, Past
      <4>2. "degraded_stop_only" \in Past
        BY DEF Past
      <4> HIDE DEF a
      <4>3. QED BY <3>1, <4>1, <4>2 DEF RearmDegrade, a
    <3>2. CASE RearmTarget
      <4>1. {"degraded_stop_only", "reduction_ambiguous", "reduced_protected"} \subseteq Past
        BY DEF Past
      <4>2. QED BY <3>2, <4>1 DEF RearmTarget
    <3>3. QED BY <1>7, <3>1, <3>2
  <2> HIDE DEF a
  <2>2. ASSUME saga[a] \in Past, NEW to \in Past, Advance(a, to) PROVE Goal
    <3>1. to \in SagaStates
      BY DEF Past, SagaStates
    <3>2. saga' \in [Exits -> SagaStates \cup {"none"}]
          /\ \A x \in Exits : saga'[x] = IF x = a THEN to ELSE saga[x]
      BY <1>0, <2>2, <3>1, Advanced
    <3>3. QED BY <2>2, <3>2
  <2>3. QED BY <1>1, <2>1, <2>2
<1>8. CASE ExitCancel \/ ExitPrepare \/ ExitSubmitting \/ ExitSend \/ ExitSubmitted \/ ExitRecord
           \/ ExitFailed
  BY <1>1, <1>8 DEF ExitCancel, ExitPrepare, ExitSubmitting, ExitSend, ExitSubmitted, ExitRecord, ExitFailed
<1>9. CASE \/ CycleFetch \/ CycleSettle \/ CycleRecover \/ CycleProtect \/ CycleFlatten
           \/ SweepCancel \/ SweepEnd \/ RearmStart \/ RearmSkip \/ RearmStop \/ RearmFinish
           \/ FlattenStart \/ FlattenMark \/ FlattenSend \/ FlattenRecord
  BY <1>1, <1>9 DEF CycleFetch, CycleSettle, CycleRecover, CycleProtect, CycleFlatten, SweepCancel,
        SweepEnd, RearmStart, RearmSkip, RearmStop, RearmFinish, FlattenStart, FlattenMark, FlattenSend, FlattenRecord
<1>10. CASE OrderFills \/ StopHit \/ LegLost \/ WindowCloses \/ CoordinatorCrash
  BY <1>1, <1>10 DEF OrderFills, StopHit, LegLost, WindowCloses, CoordinatorCrash
<1>11. CASE Entering \/ BracketWorks
  BY <1>1, <1>11, EntryFrame DEF sagas
<1>12. QED
  BY <1>2, <1>3, <1>4, <1>5, <1>6, <1>7, <1>8, <1>9, <1>10, <1>11
     DEF ProtectionNext, ExitJob, Cycle, Entering

(* An order the venue has taken is never forgotten.                         *)
LEMMA OrdersStay ==
    ASSUME StepInv, ProtectionNext
    PROVE  /\ order' \in [Exits -> {"none", "working", "filled"}]
           /\ \A x \in Exits : order[x] # "none" => order'[x] # "none"
<1>0. ProtectionTypeOK
  BY DEF StepInv
<1>1. CASE UNCHANGED order
  BY <1>0, <1>1 DEF ProtectionTypeOK
<1>2. CASE ExitSend \/ OrderFills
  <2>1. order' = order \/ \E x, s : s \in {"working", "filled"} /\ order' = [order EXCEPT ![x] = s]
    BY <1>2 DEF ExitSend, OrderFills
  <2>2. QED BY <1>0, <2>1 DEF ProtectionTypeOK
<1>3. CASE (\E x \in Exits : ExitBegin(x)) \/ ExitAmbiguous \/ ExitCatch \/ ExitCancelFails
  <2>1. CASE \E x \in Exits : ExitBegin(x)
    BY <1>1, <2>1 DEF ExitBegin, venue
  <2>2. CASE ExitAmbiguous \/ ExitCatch \/ ExitCancelFails
    BY <1>1, <2>2 DEF ExitAmbiguous, ExitCatch, ExitCancelFails, venue
  <2>3. QED BY <1>3, <2>1, <2>2
<1>4. CASE ExitAdvance \/ ExitCancel \/ ExitPrepare \/ ExitSubmitting \/ ExitSubmitted
           \/ ExitRecord \/ ExitFailed
  BY <1>1, <1>4 DEF ExitAdvance, ExitCancel, ExitPrepare, ExitSubmitting, ExitSubmitted, ExitRecord,
        ExitFailed, venue
<1>5. CASE Cycle
  BY <1>1, <1>5 DEF Cycle, CycleFetch, CycleSettle, CycleRecover, CycleProtect, CycleFlatten,
        SweepStart, SweepCancel, SweepEnd, RearmStart, RearmSkip, RearmStop, RearmDegrade,
        RearmTarget, RearmFailed, RearmFinish, FlattenStart, FlattenMark, FlattenSend, FlattenRecord, venue
<1>6. CASE StopHit \/ LegLost \/ WindowCloses \/ CoordinatorCrash
  BY <1>1, <1>6 DEF StopHit, LegLost, WindowCloses, CoordinatorCrash, venue
<1>7. CASE Entering \/ BracketWorks
  BY <1>1, <1>7, EntryFrame
<1>8. QED BY <1>2, <1>3, <1>4, <1>5, <1>6, <1>7 DEF ProtectionNext, ExitJob, Entering

(* The rows of the outbox, the receipts and the claims of the flatten.      *)
LEMMA RowsTyped ==
    ASSUME StepInv, ProtectionNext
    PROVE  /\ outbox' \in [Exits -> {"absent", "prepared", "submitting", "submitted",
                                     "rejected", "ambiguous", "confirmed_not_submitted"}]
           /\ receipt' \in [Exits -> {"none", "pending", "reconciled", "recovered", "closed",
                                      "refused", "ambiguous"}]
<1> USE DEF ProtectionTypeOK
<1>0. ProtectionTypeOK
  BY DEF StepInv
<1>1. CASE UNCHANGED boxes
  BY <1>0, <1>1 DEF boxes
<1>2. CASE ExitCancelFails \/ ExitPrepare \/ ExitSubmitting \/ ExitSubmitted \/ ExitRecord \/ ExitFailed
  BY <1>0, <1>2 DEF ExitCancelFails, ExitPrepare, ExitSubmitting, ExitSubmitted, ExitRecord, ExitFailed,
        boxes
<1>3. CASE CycleSettle
  BY <1>0, <1>3 DEF CycleSettle
<1>4. CASE CycleRecover
  <2>1. PICK aged \in BOOLEAN :
           /\ outbox' = [x \in Exits |-> Recovered(x, aged)]
           /\ receipt' = [x \in Exits |-> RecoveredReceipt(x, Recovered(x, aged))]
    BY <1>4 DEF CycleRecover
  <2>2. \A x \in Exits : Recovered(x, aged) \in {"absent", "prepared", "submitting", "submitted",
                             "rejected", "ambiguous", "confirmed_not_submitted"}
    BY <1>0 DEF Recovered
  <2>3. \A to : \A x \in Exits : RecoveredReceipt(x, to) \in {"none", "pending", "reconciled", "recovered",
                                  "closed", "refused", "ambiguous"}
    BY <1>0 DEF RecoveredReceipt
  <2>4. QED BY <2>1, <2>2, <2>3
<1>5. CASE (\E x \in Exits : ExitBegin(x)) \/ ExitAdvance \/ ExitCancel \/ ExitSend \/ ExitAmbiguous
           \/ ExitCatch
  <2>1. CASE \E x \in Exits : ExitBegin(x)
    BY <1>1, <2>1 DEF ExitBegin
  <2>2. CASE ExitAdvance \/ ExitCancel \/ ExitSend \/ ExitAmbiguous \/ ExitCatch
    BY <1>1, <2>2 DEF ExitAdvance, ExitCancel, ExitSend, ExitAmbiguous, ExitCatch
  <2>3. QED BY <1>5, <2>1, <2>2
<1>6. CASE \/ CycleFetch \/ CycleProtect \/ CycleFlatten \/ SweepStart \/ SweepCancel \/ SweepEnd
           \/ RearmStart \/ RearmSkip \/ RearmStop \/ RearmDegrade \/ RearmTarget \/ RearmFailed
           \/ RearmFinish \/ FlattenStart \/ FlattenMark \/ FlattenSend \/ FlattenRecord
  <2>1. UNCHANGED boxes
    BY <1>6 DEF CycleFetch, CycleProtect, CycleFlatten, SweepStart, SweepCancel, SweepEnd, RearmStart,
        RearmSkip, RearmStop, RearmDegrade, RearmTarget, RearmFailed, RearmFinish, FlattenStart, FlattenMark,
        FlattenSend, FlattenRecord
  <2>2. QED BY <1>1, <2>1
<1>7. CASE OrderFills \/ StopHit \/ LegLost \/ WindowCloses \/ CoordinatorCrash
  BY <1>1, <1>7 DEF OrderFills, StopHit, LegLost, WindowCloses, CoordinatorCrash
<1>8. CASE Entering \/ BracketWorks
  BY <1>1, <1>8, EntryFrame DEF boxes
<1>9. QED
  BY <1>2, <1>3, <1>4, <1>5, <1>6, <1>7, <1>8 DEF ProtectionNext, ExitJob, Cycle, Entering

(* What is open and which legs work.                                        *)
LEMMA LegsTyped ==
    ASSUME StepInv, ProtectionNext
    PROVE  lots' \in Nat /\ stops' \in [Tranches -> Nat] /\ tgts' \subseteq Tranches
<1> USE DEF ProtectionTypeOK
<1>0. ProtectionTypeOK
  BY DEF StepInv
<1>1. CASE UNCHANGED <<lots, stops, tgts>>
  BY <1>0, <1>1
<1>2. CASE ExitCancel
  BY <1>0, <1>2 DEF ExitCancel
<1>3. CASE SweepCancel
  <2>1. PICK p : /\ stops' = [stops EXCEPT ![p[1]] = 0] \/ stops' = stops
                 /\ tgts' = tgts \ {p[1]} \/ tgts' = tgts
    BY <1>3 DEF SweepCancel
  <2>2. lots' = lots
    BY <1>3 DEF SweepCancel
  <2>3. QED BY <1>0, <2>1, <2>2
<1>4. CASE RearmStop
  <2>1. Oldest[1] \in Tranches /\ Oldest[2] \in Nat
    BY <1>4, OldestIsLeft DEF RearmStop, StepInv, JobInv, RearmJobs
  <2>2. stops' = [stops EXCEPT ![Oldest[1]] = stops[Oldest[1]] + Oldest[2]] \/ stops' = stops
    BY <1>4 DEF RearmStop
  <2>3. UNCHANGED <<lots, tgts>>
    BY <1>4 DEF RearmStop
  <2> HIDE DEF ProtectionTypeOK
  <2>4. QED BY <1>0, <2>1, <2>2, <2>3 DEF ProtectionTypeOK
<1>5. CASE RearmTarget
  <2>1. Oldest[1] \in Tranches
    BY <1>5, OldestIsLeft DEF RearmTarget, StepInv, JobInv, RearmJobs, Rearming
  <2>2. tgts' = tgts \cup {Oldest[1]} \/ tgts' = tgts
    BY <1>5 DEF RearmTarget
  <2>3. UNCHANGED <<lots, stops>>
    BY <1>5 DEF RearmTarget
  <2>4. QED BY <1>0, <2>1, <2>2, <2>3
<1>6. CASE FlattenSend
  BY <1>0, <1>6 DEF FlattenSend
<1>7. CASE OrderFills
  <2>1. PICK x \in Exits : lots' = IF Partial(x) THEN AtLeastZero(lots - want[x].qty) ELSE 0
    BY <1>7 DEF OrderFills
  <2>2. want[x].qty \in Nat
    BY DEF StepInv, DataInv, Wants
  <2>3. lots' \in Nat
    BY <1>0, <2>1, <2>2 DEF AtLeastZero
  <2>4. stops' = [t \in Tranches |-> 0] \/ stops' = stops
    BY <1>7 DEF OrderFills
  <2>5. tgts' = {} \/ tgts' = tgts
    BY <1>7 DEF OrderFills
  <2>6. QED BY <1>0, <2>3, <2>4, <2>5
<1>8. CASE StopHit \/ LegLost
  <2>1. CASE StopHit
    <3>1. PICK t \in Tranches : LET hit == Least(stops[t], Qty[t])
                               IN  /\ lots >= hit /\ lots' = lots - hit
                                   /\ stops' = [stops EXCEPT ![t] = stops[t] - hit]
                                   /\ tgts' = tgts \ {t}
      BY <2>1 DEF StopHit
    <3>2. stops[t] \in Nat /\ Qty[t] \in Nat
      BY <1>0, QtyAssumption
    <3>3. Least(stops[t], Qty[t]) \in Nat /\ stops[t] - Least(stops[t], Qty[t]) \in Nat
      BY <3>2 DEF Least
    <3>4. lots' \in Nat
      BY <1>0, <3>1, <3>3
    <3>5. QED BY <1>0, <3>1, <3>3, <3>4
  <2>2. CASE LegLost
    BY <1>0, <2>2 DEF LegLost
  <2>3. QED BY <1>8, <2>1, <2>2
<1>9. CASE \/ \E x \in Exits : ExitBegin(x)
           \/ ExitAdvance \/ ExitCancelFails \/ ExitPrepare \/ ExitSubmitting \/ ExitSend
           \/ ExitSubmitted \/ ExitAmbiguous \/ ExitRecord \/ ExitCatch \/ ExitFailed
  <2>1. CASE \E x \in Exits : ExitBegin(x)
    BY <1>1, <2>1 DEF ExitBegin, venue
  <2>2. CASE ExitAmbiguous \/ ExitCatch \/ ExitCancelFails
    BY <1>1, <2>2 DEF ExitAmbiguous, ExitCatch, ExitCancelFails, venue
  <2>3. CASE ExitAdvance \/ ExitPrepare \/ ExitSubmitting \/ ExitSend \/ ExitSubmitted
             \/ ExitRecord \/ ExitFailed
    BY <1>1, <2>3 DEF ExitAdvance, ExitPrepare, ExitSubmitting, ExitSend, ExitSubmitted, ExitRecord,
        ExitFailed, venue
  <2>4. QED BY <1>9, <2>1, <2>2, <2>3
<1>10. CASE \/ CycleFetch \/ CycleSettle \/ CycleRecover \/ CycleProtect \/ CycleFlatten
            \/ SweepStart \/ SweepEnd \/ RearmStart \/ RearmSkip \/ RearmDegrade \/ RearmFailed
            \/ RearmFinish \/ FlattenStart \/ FlattenMark \/ FlattenRecord \/ WindowCloses
            \/ CoordinatorCrash
  BY <1>1, <1>10 DEF CycleFetch, CycleSettle, CycleRecover, CycleProtect, CycleFlatten, SweepStart,
        SweepEnd, RearmStart, RearmSkip, RearmDegrade, RearmFailed, RearmFinish, FlattenStart, FlattenMark,
        FlattenRecord, WindowCloses, CoordinatorCrash, venue
<1>11. CASE Entering
  <2>1. UNCHANGED <<stops, tgts>>
    BY <1>11, EnteringNoLegs
  <2>2. lots' = lots \/ \E t \in Tranches : lots' = lots + Qty[t]
    BY <1>0, <1>11 DEF Entering, Enter, EntryFills, FillRecorded, venue
  <2>3. QED BY <1>0, <2>1, <2>2, QtyAssumption
<1>12. CASE BracketWorks
  <2>1. PICK t \in filled \ bracketed :
           /\ stops' = [stops EXCEPT ![t] = stops[t] + Qty[t]] /\ tgts' = tgts \cup {t}
           /\ lots' = lots
    BY <1>0, <1>12, BracketComes
  <2>2. t \in Tranches /\ Qty[t] \in Nat
    BY <1>0, QtyAssumption
  <2>3. QED BY <1>0, <2>1, <2>2
<1>13. QED
  BY <1>2, <1>3, <1>4, <1>5, <1>6, <1>7, <1>8, <1>9, <1>10, <1>11, <1>12
     DEF ProtectionNext, ExitJob, Cycle, Entering

(* The entries only come: sent, filled, with their bracket.                  *)
LEMMA EntriesTyped ==
    ASSUME StepInv, ProtectionNext
    PROVE  /\ bracketed' \subseteq filled' /\ filled' \subseteq entered' /\ entered' \subseteq Tranches
           /\ bracketed \subseteq bracketed' /\ (~BracketWorks => bracketed' = bracketed)
<1>0. ProtectionTypeOK
  BY DEF StepInv
<1>1. CASE UNCHANGED entries
  BY <1>0, <1>1 DEF ProtectionTypeOK, entries
<1>2. CASE \E t \in Tranches : Enter(t)
  BY <1>0, <1>2 DEF Enter, ProtectionTypeOK
<1>3. CASE EntryFills
  BY <1>0, <1>3 DEF EntryFills, ProtectionTypeOK
<1>4. CASE FillRecorded
  BY <1>1, <1>4 DEF FillRecorded, venue
<1>5. CASE BracketWorks
  BY <1>0, <1>5, BracketComes DEF ProtectionTypeOK
<1>6. CASE \/ \E x \in Exits : ExitBegin(x)
           \/ ExitAdvance \/ ExitCancel \/ ExitCancelFails \/ ExitPrepare \/ ExitSubmitting
           \/ ExitSend \/ ExitSubmitted \/ ExitAmbiguous \/ ExitRecord \/ ExitCatch \/ ExitFailed
  <2>1. CASE \E x \in Exits : ExitBegin(x)
    BY <1>1, <2>1 DEF ExitBegin, venue
  <2>2. CASE ExitAmbiguous \/ ExitCatch \/ ExitCancelFails \/ ExitCancel
    BY <1>1, <2>2 DEF ExitAmbiguous, ExitCatch, ExitCancelFails, ExitCancel, venue
  <2>3. CASE ExitAdvance \/ ExitPrepare \/ ExitSubmitting \/ ExitSend \/ ExitSubmitted
             \/ ExitRecord \/ ExitFailed
    BY <1>1, <2>3 DEF ExitAdvance, ExitPrepare, ExitSubmitting, ExitSend, ExitSubmitted, ExitRecord,
        ExitFailed, venue
  <2>4. QED BY <1>6, <2>1, <2>2, <2>3
<1>7. CASE \/ CycleFetch \/ CycleSettle \/ CycleRecover \/ CycleProtect \/ CycleFlatten
           \/ SweepStart \/ SweepCancel \/ SweepEnd \/ FlattenStart \/ FlattenMark \/ FlattenSend
           \/ FlattenRecord
  BY <1>1, <1>7 DEF CycleFetch, CycleSettle, CycleRecover, CycleProtect, CycleFlatten, SweepStart,
        SweepCancel, SweepEnd, FlattenStart, FlattenMark, FlattenSend, FlattenRecord, venue
<1>8. CASE \/ RearmStart \/ RearmSkip \/ RearmStop \/ RearmDegrade \/ RearmTarget \/ RearmFailed
           \/ RearmFinish
  BY <1>1, <1>8 DEF RearmStart, RearmSkip, RearmStop, RearmDegrade, RearmTarget, RearmFailed,
        RearmFinish, venue
<1>9. CASE OrderFills \/ StopHit \/ LegLost \/ WindowCloses \/ CoordinatorCrash
  BY <1>1, <1>9 DEF OrderFills, StopHit, LegLost, WindowCloses, CoordinatorCrash, venue
<1>10. QED
  BY <1>2, <1>3, <1>4, <1>5, <1>6, <1>7, <1>8, <1>9 DEF ProtectionNext, ExitJob, Cycle

LEMMA FlagsTyped ==
    ASSUME StepInv, ProtectionNext
    PROVE  /\ rearmed' \in [Tranches -> {"none", "stop_placed", "confirmed"}]
           /\ block' \in BOOLEAN /\ young' \in BOOLEAN
<1> USE DEF ProtectionTypeOK
<1>0. ProtectionTypeOK
  BY DEF StepInv
<1>1. CASE UNCHANGED <<rearmed, block, young>>
  BY <1>0, <1>1
<1>2. CASE RearmStart
  <2>1. rearmed' \in [Tranches -> {"none", "stop_placed", "confirmed"}]
    BY <1>0, <1>2 DEF RearmStart
  <2>2. UNCHANGED <<block, young>>
    BY <1>2 DEF RearmStart
  <2>3. QED BY <1>0, <2>1, <2>2
<1>3. CASE RearmDegrade
  BY <1>0, <1>3 DEF RearmDegrade
<1>4. CASE RearmTarget
  <2>1. rearmed' = [rearmed EXCEPT ![Oldest[1]] = "confirmed"] \/ rearmed' = rearmed
    BY <1>4 DEF RearmTarget, RearmDone
  <2>2. UNCHANGED <<block, young>>
    BY <1>4 DEF RearmTarget
  <2>3. QED BY <1>0, <2>1, <2>2
<1>5. CASE FlattenStart
  <2>1. UNCHANGED <<rearmed, young>>
    BY <1>5 DEF FlattenStart
  <2>2. \E S : block' = (S # {})
    BY <1>5 DEF FlattenStart
  <2>3. block' \in BOOLEAN
    BY <2>2
  <2>4. QED BY <1>0, <2>1, <2>3
<1>6. CASE WindowCloses \/ CoordinatorCrash
  BY <1>0, <1>6 DEF WindowCloses, CoordinatorCrash
<1>7. CASE \/ \E x \in Exits : ExitBegin(x)
           \/ ExitAdvance \/ ExitCancel \/ ExitCancelFails \/ ExitPrepare \/ ExitSubmitting \/ ExitSend
           \/ ExitSubmitted \/ ExitAmbiguous \/ ExitRecord \/ ExitCatch \/ ExitFailed
  <2>1. CASE \E x \in Exits : ExitBegin(x)
    BY <1>1, <2>1 DEF ExitBegin
  <2>2. CASE ExitAmbiguous \/ ExitCatch \/ ExitCancelFails \/ ExitSend
    BY <1>1, <2>2 DEF ExitAmbiguous, ExitCatch, ExitCancelFails, ExitSend
  <2>3. CASE ExitAdvance \/ ExitCancel \/ ExitPrepare \/ ExitSubmitting \/ ExitSubmitted
             \/ ExitRecord \/ ExitFailed
    BY <1>1, <2>3 DEF ExitAdvance, ExitCancel, ExitPrepare, ExitSubmitting, ExitSubmitted, ExitRecord,
        ExitFailed
  <2>4. QED BY <1>7, <2>1, <2>2, <2>3
<1>8. CASE \/ CycleFetch \/ CycleSettle \/ CycleRecover \/ CycleProtect \/ CycleFlatten
           \/ SweepStart \/ SweepCancel \/ SweepEnd \/ RearmSkip \/ RearmStop \/ RearmFailed
           \/ RearmFinish \/ FlattenMark \/ FlattenSend \/ FlattenRecord \/ OrderFills \/ StopHit \/ LegLost
  BY <1>1, <1>8 DEF CycleFetch, CycleSettle, CycleRecover, CycleProtect, CycleFlatten, SweepStart,
        SweepCancel, SweepEnd, RearmSkip, RearmStop, RearmFailed, RearmFinish, FlattenMark,
        FlattenSend, FlattenRecord, OrderFills, StopHit, LegLost
<1>9. CASE Entering \/ BracketWorks
  <2>1. UNCHANGED <<rearmed, block>>
    BY <1>9, EntryFrame
  <2>2. young' = young \/ young' = TRUE
    BY <1>9 DEF Entering, Enter, EntryFills, FillRecorded, BracketWorks
  <2>3. QED BY <1>0, <2>1, <2>2
<1>10. QED
  BY <1>2, <1>3, <1>4, <1>5, <1>6, <1>7, <1>8, <1>9 DEF ProtectionNext, ExitJob, Cycle, Entering

LEMMA TypesKept == StepInv /\ ProtectionNext => ProtectionTypeOK'
BY SagaSteps, OrdersStay, RowsTyped, LegsTyped, EntriesTyped, FlagsTyped DEF ProtectionTypeOK

(* What the gateway has seen and what it asked for.                         *)
LEMMA DataKept == ASSUME StepInv, ProtectionNext PROVE DataInv'
<1> USE DEF DataInv
<1>0. /\ DataInv /\ Venue \in Sights /\ NoView \in Sights
      /\ \A v \in Sights : Recorded(v) \in Journals
      /\ bracketed \subseteq bracketed' /\ Venue.bracketed \subseteq bracketed
      /\ NoView.bracketed = {}
  BY VenueIsSeen, FillsAreRecorded, EntriesTyped DEF StepInv, NoView, Sights
<1>1. CASE UNCHANGED <<view, snap, journal, want, asked, closes>>
  BY <1>0, <1>1
<1>2. CASE \E x \in Exits : ExitBegin(x)
  <2>1. PICK x \in Exits : ExitBegin(x)
    BY <1>2
  <2>2. \E v \in {view, Venue} : view' = v /\ \E j \in {journal, Recorded(v)} : journal' = j
    <3>1. \E v \in {view, Venue} : Look(v) /\ \E j \in {journal, Recorded(v)} : Recall(v, j)
      BY <2>1 DEF ExitBegin
    <3>2. QED BY <3>1, Zenon DEF Look, Recall
  <2>3. \E v \in {view, Venue}, t \in Tranches \cup {Nothing}, q \in 1 .. lots :
           want' = [want EXCEPT ![x] = [target |-> t, qty |-> q, before |-> v.lots]]
    <3>1. \E v \in {view, Venue}, t \in Tranches \cup {Nothing}, q \in 1 .. lots :
             \E j \in {journal, Recorded(v)} :
                want' = [want EXCEPT ![x] = [target |-> t, qty |-> q, before |-> v.lots]]
      BY <2>1, ZenonT(60) DEF ExitBegin
    <3>2. QED BY <3>1, Zenon
  <2>4. UNCHANGED <<snap, asked, closes>>
    BY <2>1 DEF ExitBegin
  <2>5. want' \in [Exits -> Wants]
    <3>1. PICK v \in {view, Venue}, t \in Tranches \cup {Nothing}, q \in 1 .. lots :
             want' = [want EXCEPT ![x] = [target |-> t, qty |-> q, before |-> v.lots]]
      BY <2>3
    <3>2. v \in Sights /\ q \in Nat
      BY <1>0 DEF StepInv, ProtectionTypeOK
    <3>3. [target |-> t, qty |-> q, before |-> v.lots] \in Wants
      BY <3>2 DEF Wants, Sights
    <3>4. QED BY <1>0, <3>1, <3>3
  <2>6. QED BY <1>0, <2>2, <2>4, <2>5
<1>3. CASE CycleFetch \/ CoordinatorCrash
  BY <1>0, <1>3 DEF CycleFetch, CoordinatorCrash, sagas
<1>4. CASE CycleRecover
  BY <1>0, <1>4 DEF CycleRecover, seen, sagas
<1>5. CASE CycleProtect \/ CycleFlatten
  BY <1>0, <1>5 DEF CycleProtect, CycleFlatten, Look, sagas
<1>6. CASE RearmStart
  <2>1. PICK v \in {view, Venue} : view' = v /\ journal' \in {journal, Recorded(v)}
    BY <1>6 DEF RearmStart, Look, Recall
  <2>2. (snap' = snap \/ snap' = NoView) /\ UNCHANGED <<want, asked, closes>>
    BY <1>6 DEF RearmStart, RearmBegin, RearmThrows, sagas
  <2>3. QED BY <1>0, <2>1, <2>2
<1>7. CASE FlattenStart
  <2>1. PICK v \in {view, Venue} : view' = v /\ journal' \in {journal, Recorded(v)}
    BY <1>7 DEF FlattenStart, Look, Recall
  <2>2. (snap' = snap \/ snap' = NoView) /\ UNCHANGED <<want, asked>>
    BY <1>7 DEF FlattenStart, FlattenEnd, sagas
  <2>3. closes' = closes \/ \E K : closes' = [closes EXCEPT ![K] = "prepared"]
    BY <1>7 DEF FlattenStart
  <2>4. QED BY <1>0, <2>1, <2>2, <2>3
<1>8. CASE FlattenMark \/ FlattenRecord
  BY <1>0, <1>8 DEF FlattenMark, FlattenRecord, FlattenEnd, seen, sagas
<1>9. CASE FlattenSend
  <2>1. sweepLeft \in SUBSET Tranches
    BY <1>9 DEF FlattenSend, StepInv, JobInv, FlattenJobs
  <2>2. asked' = [asked EXCEPT ![sweepLeft] = asked[sweepLeft] + 1]
        /\ UNCHANGED <<view, snap, journal, want, closes>>
    BY <1>9 DEF FlattenSend, seen, sagas
  <2>3. QED BY <1>0, <2>1, <2>2
<1>10. CASE \/ ExitAdvance \/ ExitCancel \/ ExitCancelFails \/ ExitPrepare \/ ExitSubmitting \/ ExitSend
            \/ ExitSubmitted \/ ExitAmbiguous \/ ExitRecord \/ ExitCatch \/ ExitFailed
  <2>1. CASE ExitAmbiguous \/ ExitCatch \/ ExitCancelFails \/ ExitAdvance
    BY <1>1, <2>1 DEF ExitAmbiguous, ExitCatch, ExitCancelFails, ExitAdvance, TryAdvance, Advance,
        seen, sagas
  <2>2. CASE ExitCancel \/ ExitPrepare \/ ExitSubmitting \/ ExitSend \/ ExitSubmitted
             \/ ExitRecord \/ ExitFailed
    BY <1>1, <2>2 DEF ExitCancel, ExitPrepare, ExitSubmitting, ExitSend, ExitSubmitted, ExitRecord,
        ExitFailed, seen, sagas
  <2>3. QED BY <1>10, <2>1, <2>2
<1>11. CASE RearmDegrade \/ RearmTarget \/ RearmFailed
  <2>1. CASE RearmDegrade
    BY <1>1, <2>1 DEF RearmDegrade, Advance, seen, sagas
  <2>2. CASE RearmTarget
    BY <1>1, <2>2 DEF RearmTarget, Advance, seen, sagas
  <2>3. CASE RearmFailed
    BY <1>1, <2>3 DEF RearmFailed, TryAdvance, Advance, seen, sagas
  <2>4. QED BY <1>11, <2>1, <2>2, <2>3
<1>12. CASE \/ CycleSettle \/ SweepStart \/ SweepCancel \/ SweepEnd \/ RearmSkip \/ RearmStop
            \/ RearmFinish \/ OrderFills \/ StopHit \/ LegLost \/ WindowCloses
  BY <1>1, <1>12 DEF CycleSettle, SweepStart, SweepCancel, SweepEnd, RearmSkip, RearmStop, RearmFinish,
        RearmEnd, OrderFills, StopHit, LegLost, WindowCloses, seen, sagas
<1>13. CASE Entering \/ BracketWorks
  <2>1. UNCHANGED <<view, snap, want, asked, closes>>
    BY <1>13, EntryFrame
  <2>2. journal' = journal \/ journal' = [journal EXCEPT !.filled = filled]
    BY <1>13 DEF Entering, Enter, EntryFills, FillRecorded, BracketWorks, seen
  <2>3. journal' \in Journals
    BY <1>0, <2>2 DEF Journals, StepInv, ProtectionTypeOK
  <2>4. QED BY <1>0, <2>1, <2>3
<1>14. QED
  BY <1>2, <1>3, <1>4, <1>5, <1>6, <1>7, <1>8, <1>9, <1>10, <1>11, <1>12, <1>13
     DEF ProtectionNext, ExitJob, Cycle, Entering

(* What the job and the cycle carry from step to step.                      *)
LEMMA RearmLists ==
    ASSUME StepInv, RearmStart
    PROVE  \/ NoWork /\ cycle' \in {"flatten_next", "idle"}
           \/ /\ job' = "rearm" /\ cycle' = "rearm" /\ snap' = snap
              /\ sweepLeft' \subseteq Tranches \X Nat
              /\ \A p, q \in sweepLeft' : p[1] = q[1] => p = q
<1>1. PICK v \in {view, Venue} : \E j \in {journal, Recorded(v)} :
        (RearmEnd \/ RearmThrows) \/ RearmBegin(v, j)
  BY DEF RearmStart
<1>2. PICK j \in {journal, Recorded(v)} :
        \/ RearmEnd \/ RearmThrows
        \/ /\ snap' = snap
           /\ sweepLeft' = {<<t, Remaining(t, v.lots, j)>> : t \in Candidates(v, j)}
           /\ job' = "rearm" /\ cycle' = cycle
  BY <1>1 DEF RearmBegin
<1>3. CASE RearmEnd \/ RearmThrows
  BY <1>3 DEF RearmEnd, RearmThrows
<1>4. CASE snap' = snap /\ sweepLeft' = {<<t, Remaining(t, v.lots, j)>> : t \in Candidates(v, j)}
           /\ job' = "rearm" /\ cycle' = cycle
  <2>1. v.lots \in Nat /\ j \in Journals
    BY VenueIsSeen, FillsAreRecorded DEF StepInv, DataInv, Sights
  <2>2. \A t \in Candidates(v, j) : t \in Tranches
    BY <2>1 DEF Candidates, Attributable, Journals
  <2>3. \A t \in Candidates(v, j) : Remaining(t, v.lots, j) \in Nat
    BY <2>1, <2>2, RemainingIsNat
  <2>4. sweepLeft' \subseteq Tranches \X Nat
    BY <1>4, <2>2, <2>3
  <2>5. \A p, q \in sweepLeft' : p[1] = q[1] => p = q
    BY <1>4
  <2>6. cycle = "rearm"
    BY DEF RearmStart
  <2>7. QED BY <1>4, <2>4, <2>5, <2>6
<1>5. QED BY <1>2, <1>3, <1>4

LEMMA JobsKept == ASSUME StepInv, ProtectionNext PROVE JobInv'
<1> USE DEF JobInv, ExitJobs, RearmJobs, Rearming, FlattenJobs
<1>0. JobInv
  BY DEF StepInv
<1>1. CASE UNCHANGED <<job, jx, sweepLeft, cycle>>
  BY <1>0, <1>1
<1>2. CASE NoWork /\ cycle' \in {cycle, "idle", "flatten_next"}
  BY <1>0, <1>2 DEF NoWork
<1>3. CASE \E x \in Exits : ExitBegin(x)
  <2>1. job = "idle" /\ job' \in {"exit_begun", "exit_prepare"} /\ jx' \in Exits
        /\ UNCHANGED <<sweepLeft, cycle>>
    BY <1>3 DEF ExitBegin
  <2>2. QED BY <1>0, <2>1
<1>4. CASE \/ ExitAdvance \/ ExitCancel \/ ExitPrepare \/ ExitSubmitting \/ ExitSend
           \/ ExitSubmitted \/ ExitAmbiguous \/ ExitCatch
  <2>1. (job \in ExitJobs /\ job' \in ExitJobs /\ UNCHANGED <<jx, sweepLeft, cycle>>)
        \/ (NoWork /\ cycle' = cycle)
    BY <1>4 DEF ExitAdvance, ExitCancel, ExitPrepare, ExitSubmitting, ExitSend, ExitSubmitted,
        ExitAmbiguous, ExitCatch
  <2>2. QED BY <1>0, <1>2, <2>1
<1>5. CASE ExitCancelFails \/ ExitRecord \/ ExitFailed
  BY <1>2, <1>5 DEF ExitCancelFails, ExitRecord, ExitFailed
<1>6. CASE CycleFetch \/ CycleSettle \/ CycleRecover \/ CycleProtect \/ CycleFlatten
  <2>1. UNCHANGED <<job, jx, sweepLeft>> /\ cycle \in {"idle", "settle", "recover", "protect", "flatten_next"}
        /\ cycle' \in {"settle", "recover", "protect", "sweep", "rearm", "flatten"}
    BY <1>6 DEF CycleFetch, CycleSettle, CycleRecover, CycleProtect, CycleFlatten, work
  <2>2. QED BY <1>0, <2>1
<1>7. CASE SweepStart \/ SweepCancel \/ SweepEnd
  BY <1>0, <1>2, <1>7 DEF SweepStart, SweepCancel, SweepEnd
<1>8. CASE RearmStart
  <2>1. \/ NoWork /\ cycle' \in {"flatten_next", "idle"}
        \/ /\ job' = "rearm" /\ cycle' = "rearm"
           /\ sweepLeft' \subseteq Tranches \X Nat
           /\ \A p, q \in sweepLeft' : p[1] = q[1] => p = q
    BY <1>8, RearmLists
  <2>2. QED BY <1>2, <2>1
<1>9. CASE RearmStop \/ RearmDegrade
  <2>1. job \in {"rearm", "rearm_stopped"} /\ sweepLeft # {} /\ job' \in Rearming
        /\ UNCHANGED <<jx, sweepLeft, cycle>>
    BY <1>0, <1>9 DEF RearmStop, RearmDegrade
  <2>2. QED BY <1>0, <2>1
<1>10. CASE RearmTarget \/ RearmFailed
  <2>1. job \in Rearming /\ job' = "rearm" /\ sweepLeft' = sweepLeft \ {Oldest} /\ cycle' = cycle
    BY <1>10 DEF RearmTarget, RearmFailed, RearmDone
  <2>2. QED BY <1>0, <2>1
<1>11. CASE RearmFinish \/ RearmSkip
  <2>1. CASE RearmFinish
    BY <1>2, <2>1 DEF RearmFinish, RearmEnd
  <2>2. CASE RearmSkip
    <3>1. job = "rearm" /\ job' = "rearm" /\ cycle' = cycle /\ sweepLeft' = sweepLeft \ {Oldest}
      BY <2>2 DEF RearmSkip
    <3>2. QED BY <1>0, <3>1
  <2>3. QED BY <1>11, <2>1, <2>2
<1>12. CASE FlattenStart
  <2>1. \/ NoWork /\ cycle' = "idle"
        \/ /\ job' = "flatten" /\ cycle' = cycle /\ cycle = "flatten"
           /\ \E n : \E j \in Journals : sweepLeft' = Attributable(n, j)
    <3>1. PICK v \in {view, Venue} : \E j \in {journal, Recorded(v)} :
            \/ NoWork /\ cycle' = "idle"
            \/ /\ job' = "flatten" /\ cycle' = cycle /\ cycle = "flatten"
               /\ sweepLeft' = Attributable(v.lots, j)
      BY <1>12 DEF FlattenStart, FlattenEnd
    <3>2. journal \in Journals /\ Recorded(v) \in Journals
      BY VenueIsSeen, FillsAreRecorded DEF StepInv, DataInv
    <3>3. QED BY <3>1, <3>2
  <2>2. \A n : \A j \in Journals : Attributable(n, j) \subseteq Tranches
    BY DEF Attributable, Journals
  <2>3. QED BY <1>2, <2>1, <2>2
<1>13. CASE FlattenMark \/ FlattenSend \/ FlattenRecord
  <2>1. \/ NoWork /\ cycle' = "idle"
        \/ job \in FlattenJobs /\ job' \in FlattenJobs /\ UNCHANGED <<sweepLeft, cycle>>
    BY <1>13 DEF FlattenMark, FlattenSend, FlattenRecord, FlattenEnd
  <2>2. QED BY <1>0, <1>2, <2>1
<1>14. CASE OrderFills \/ StopHit \/ LegLost \/ WindowCloses
  BY <1>1, <1>14 DEF OrderFills, StopHit, LegLost, WindowCloses, work
<1>15. CASE CoordinatorCrash
  BY <1>2, <1>15 DEF CoordinatorCrash
<1>16. CASE Entering \/ BracketWorks
  BY <1>1, <1>16, EntryFrame
<1>17. QED
  BY <1>3, <1>4, <1>5, <1>6, <1>7, <1>8, <1>9, <1>10, <1>11, <1>12, <1>13, <1>14, <1>15, <1>16
     DEF ProtectionNext, ExitJob, Cycle, Entering

(* A saga past its order has one, and so has the exit whose answer is there.*)
LEMMA SagasKept == ASSUME StepInv, ProtectionNext PROVE SagaInv'
<1>1. \A x \in Exits : saga[x] \in Past => order[x] # "none"
  BY DEF StepInv, SagaInv, SagaTellsOfAnOrder, Past
<1>2. \A x \in Exits : saga'[x] \in Past => order'[x] # "none"
  BY <1>1, SagaSteps, OrdersStay DEF StepInv, SagaInv
<1>3. ASSUME job' \in {"exit_answered", "exit_ambiguous", "exit_record"} PROVE order'[jx'] # "none"
  <2>1. jx' \in Exits
    BY <1>3, JobsKept DEF JobInv, ExitJobs
  <2>2. CASE job' = job /\ jx' = jx
    BY <1>3, <2>1, <2>2, OrdersStay DEF StepInv, SagaInv
  <2>3. CASE ExitSend
    BY <1>3, <2>1, <2>3 DEF ExitSend, StepInv, ProtectionTypeOK
  <2>4. CASE ExitSubmitted \/ ExitAmbiguous
    <3>1. job \in {"exit_answered", "exit_ambiguous"} /\ (jx' = jx)
      BY <2>4 DEF ExitSubmitted, ExitAmbiguous
    <3>2. QED BY <2>1, <3>1, OrdersStay DEF StepInv, SagaInv
  <2>5. CASE \/ \E x \in Exits : ExitBegin(x)
             \/ ExitAdvance \/ ExitCancel \/ ExitCancelFails \/ ExitPrepare \/ ExitSubmitting
             \/ ExitRecord \/ ExitCatch \/ ExitFailed
    <3>1. CASE \E x \in Exits : ExitBegin(x)
      BY <1>3, <3>1 DEF ExitBegin
    <3>2. CASE \/ ExitAdvance \/ ExitCancel \/ ExitCancelFails \/ ExitPrepare \/ ExitSubmitting
               \/ ExitRecord \/ ExitCatch \/ ExitFailed
      BY <1>3, <3>2 DEF ExitAdvance, ExitCancel, ExitCancelFails, ExitPrepare, ExitSubmitting,
          ExitRecord, ExitCatch, ExitFailed, NoWork
    <3>3. QED BY <2>5, <3>1, <3>2
  <2>6. CASE CycleFetch \/ CycleSettle \/ CycleRecover \/ CycleProtect \/ CycleFlatten
             \/ OrderFills \/ StopHit \/ LegLost \/ WindowCloses
    BY <2>2, <2>6 DEF CycleFetch, CycleSettle, CycleRecover, CycleProtect, CycleFlatten,
        OrderFills, StopHit, LegLost, WindowCloses, work
  <2>7. CASE \/ SweepStart \/ SweepCancel \/ SweepEnd \/ RearmStart \/ RearmSkip \/ RearmStop
             \/ RearmDegrade \/ RearmTarget \/ RearmFailed \/ RearmFinish \/ CoordinatorCrash
             \/ FlattenStart \/ FlattenMark \/ FlattenSend \/ FlattenRecord
    <3>0. ~RearmStart
      BY <1>3, RearmLists DEF NoWork
    <3>1. CASE SweepStart \/ SweepCancel \/ SweepEnd \/ RearmSkip \/ RearmStop \/ RearmDegrade
               \/ RearmFailed \/ RearmFinish \/ CoordinatorCrash
      BY <1>3, <3>1 DEF SweepStart, SweepCancel, SweepEnd, RearmSkip, RearmStop, RearmDegrade,
          RearmFailed, RearmFinish, RearmEnd, CoordinatorCrash, NoWork
    <3>2. CASE RearmTarget \/ FlattenStart \/ FlattenMark \/ FlattenSend \/ FlattenRecord
      BY <1>3, <3>2 DEF RearmTarget, RearmDone, FlattenStart, FlattenMark, FlattenSend,
          FlattenRecord, FlattenEnd, NoWork
    <3>3. QED BY <2>7, <3>0, <3>1, <3>2
  <2>8. CASE Entering \/ BracketWorks
    BY <2>2, <2>8, EntryFrame
  <2>9. QED
    BY <2>3, <2>4, <2>5, <2>6, <2>7, <2>8 DEF ProtectionNext, ExitJob, Cycle, Entering
<1>4. QED BY <1>2, <1>3 DEF SagaInv, SagaTellsOfAnOrder, Past

(* A row that can still be claimed has not been on the wire.                *)
LEMMA AskedKept == ASSUME StepInv, ProtectionNext PROVE AskedInv'
<1> USE DEF AskedInv, FlattenAskedOnce
<1>0. AskedInv /\ DOMAIN closes = SUBSET Tranches /\ asked \in [SUBSET Tranches -> Nat]
  BY DEF StepInv, DataInv
<1>a. job \in FlattenJobs => sweepLeft \in SUBSET Tranches
  BY DEF StepInv, JobInv
<1>1. CASE UNCHANGED <<closes, asked>> /\ (job' = "flatten_send" => job = "flatten_send" /\ sweepLeft' = sweepLeft)
  BY <1>0, <1>1
<1>2. CASE CycleRecover
  <2>1. \A K \in SUBSET Tranches : closes'[K] \in {"absent", "prepared"} => closes[K] = "absent"
    <3>1. PICK aged \in BOOLEAN : closes' = [K \in DOMAIN closes |-> RecoveredClose(closes[K], aged)]
      BY <1>2 DEF CycleRecover
    <3>2. \A c : RecoveredClose(c, aged) \in {"absent", "prepared"} => c = "absent"
      BY DEF RecoveredClose
    <3>3. QED BY <1>0, <3>1, <3>2
  <2>2. UNCHANGED <<job, sweepLeft, asked>>
    BY <1>2 DEF CycleRecover, work
  <2>3. ASSUME job' = "flatten_send"
        PROVE  closes'[sweepLeft'] \notin {"absent", "prepared"}
    BY <1>0, <1>a, <2>1, <2>2, <2>3 DEF FlattenJobs
  <2>4. QED BY <1>0, <2>1, <2>2, <2>3
<1>3. CASE FlattenStart
  <2>1. \/ UNCHANGED closes /\ job' = "idle"
        \/ \E v, j : /\ closes[Attributable(v.lots, j)] = "absent"
                     /\ closes' = [closes EXCEPT ![Attributable(v.lots, j)] = "prepared"]
                     /\ job' = "flatten"
    BY <1>3 DEF FlattenStart, FlattenEnd, NoWork, Fresh
  <2>2. asked' = asked
    BY <1>3 DEF FlattenStart
  <2>3. CASE UNCHANGED closes /\ job' = "idle"
    BY <1>0, <2>2, <2>3
  <2>4. ASSUME NEW live, closes[live] = "absent", closes' = [closes EXCEPT ![live] = "prepared"],
               job' = "flatten"
        PROVE  AskedInv'
    BY <1>0, <2>2, <2>4
  <2>5. QED BY <2>1, <2>3, <2>4
<1>4. CASE FlattenMark
  <2>1. job = "flatten" /\ asked' = asked
    BY <1>4 DEF FlattenMark
  <2>2. sweepLeft \in SUBSET Tranches
    BY <1>a, <2>1 DEF FlattenJobs
  <2>3. CASE closes[sweepLeft] = "prepared"
    <3>1. closes' = [closes EXCEPT ![sweepLeft] = "submitting"] /\ sweepLeft' = sweepLeft
      BY <1>4, <2>3 DEF FlattenMark
    <3>2. asked[sweepLeft] = 0
      BY <1>0, <2>2, <2>3
    <3>3. QED BY <1>0, <2>1, <2>2, <3>1, <3>2
  <2>4. CASE closes[sweepLeft] # "prepared"
    BY <1>1, <1>4, <2>1, <2>4 DEF FlattenMark, FlattenEnd, NoWork
  <2>5. QED BY <2>3, <2>4
<1>5. CASE FlattenSend
  <2>1. job = "flatten_send" /\ job' \in {"flatten_done", "flatten_doubt"} /\ closes' = closes
        /\ asked' = [asked EXCEPT ![sweepLeft] = asked[sweepLeft] + 1]
    BY <1>5 DEF FlattenSend
  <2>2. sweepLeft \in SUBSET Tranches
    BY <1>a, <2>1 DEF FlattenJobs
  <2>3. QED BY <1>0, <2>1, <2>2
<1>6. CASE FlattenRecord
  <2>1. job \in {"flatten_done", "flatten_doubt"} /\ job' = "idle" /\ asked' = asked
    BY <1>6 DEF FlattenRecord, FlattenEnd, NoWork
  <2>2. \E s \in {closes[sweepLeft], "submitted", "ambiguous"} : closes' = [closes EXCEPT ![sweepLeft] = s]
    BY <1>6 DEF FlattenRecord
  <2>3. QED BY <1>0, <2>1, <2>2
<1>7. CASE \/ \E x \in Exits : ExitBegin(x)
           \/ ExitAdvance \/ ExitCancel \/ ExitCancelFails \/ ExitPrepare \/ ExitSubmitting \/ ExitSend
           \/ ExitSubmitted \/ ExitAmbiguous \/ ExitRecord \/ ExitCatch \/ ExitFailed
  <2>1. CASE \E x \in Exits : ExitBegin(x)
    BY <1>1, <2>1 DEF ExitBegin
  <2>2. CASE ExitAmbiguous \/ ExitCatch \/ ExitCancelFails \/ ExitSend
    BY <1>1, <2>2 DEF ExitAmbiguous, ExitCatch, ExitCancelFails, ExitSend, NoWork
  <2>3. CASE ExitAdvance \/ ExitCancel \/ ExitPrepare \/ ExitSubmitting \/ ExitSubmitted
             \/ ExitRecord \/ ExitFailed
    BY <1>1, <2>3 DEF ExitAdvance, ExitCancel, ExitPrepare, ExitSubmitting, ExitSubmitted, ExitRecord,
        ExitFailed, NoWork
  <2>4. QED BY <1>7, <2>1, <2>2, <2>3
<1>8. CASE \/ CycleFetch \/ CycleSettle \/ CycleProtect \/ CycleFlatten
           \/ SweepStart \/ SweepCancel \/ SweepEnd
  BY <1>1, <1>8 DEF CycleFetch, CycleSettle, CycleProtect, CycleFlatten, SweepStart,
        SweepCancel, SweepEnd, NoWork, work
<1>9. CASE \/ RearmStart \/ RearmSkip \/ RearmStop \/ RearmDegrade \/ RearmTarget \/ RearmFailed
           \/ RearmFinish
  <2>1. CASE RearmStart
    <3>1. job' \in {"idle", "rearm"} /\ UNCHANGED <<closes, asked>>
      BY <2>1, RearmLists DEF RearmStart, NoWork
    <3>2. QED BY <1>1, <3>1
  <2>2. CASE RearmSkip \/ RearmStop \/ RearmDegrade
    BY <1>1, <2>2 DEF RearmSkip, RearmStop, RearmDegrade
  <2>3. CASE RearmTarget
    <3>1. job' = "rearm" /\ UNCHANGED <<closes, asked>>
      BY <2>3 DEF RearmTarget, RearmDone
    <3>2. QED BY <1>1, <3>1
  <2>4. CASE RearmFailed \/ RearmFinish
    BY <1>1, <2>4 DEF RearmFailed, RearmFinish, RearmEnd, NoWork
  <2>5. QED BY <1>9, <2>1, <2>2, <2>3, <2>4
<1>10. CASE OrderFills \/ StopHit \/ LegLost \/ WindowCloses \/ CoordinatorCrash
  BY <1>1, <1>10 DEF OrderFills, StopHit, LegLost, WindowCloses, CoordinatorCrash, NoWork, work
<1>11. CASE Entering \/ BracketWorks
  BY <1>1, <1>11, EntryFrame
<1>12. QED
  BY <1>2, <1>3, <1>4, <1>5, <1>6, <1>7, <1>8, <1>9, <1>10, <1>11
     DEF ProtectionNext, ExitJob, Cycle, Entering

(* Only the rearm places a stop, and the bracket of an entry.                *)
LEMMA StopsShrink ==
    ASSUME StepInv, ProtectionNext, ~RearmStop
    PROVE  \A t \in Tranches :
              stops'[t] > 0 => stops[t] > 0 \/ t \in bracketed' \ bracketed
<1> USE DEF ProtectionTypeOK
<1>0. ProtectionTypeOK
  BY DEF StepInv
<1>1. CASE UNCHANGED stops
  BY <1>0, <1>1
<1>2. CASE ExitCancel \/ SweepCancel \/ OrderFills \/ StopHit \/ LegLost
  <2>1. CASE ExitCancel \/ SweepCancel \/ OrderFills \/ LegLost
    <3>1. \/ stops' = stops
          \/ \E t : stops' = [stops EXCEPT ![t] = 0]
          \/ stops' = [t \in Tranches |-> 0]
      BY <2>1 DEF ExitCancel, SweepCancel, OrderFills, LegLost
    <3>2. QED BY <1>0, <3>1
  <2>2. CASE StopHit
    <3>1. PICK t \in Tranches :
             Least(stops[t], Qty[t]) > 0
             /\ stops' = [stops EXCEPT ![t] = stops[t] - Least(stops[t], Qty[t])]
      BY <2>2 DEF StopHit
    <3>2. stops[t] > 0
      BY <1>0, <3>1, QtyAssumption DEF Least
    <3>3. QED BY <1>0, <3>1, <3>2
  <2>3. QED BY <1>2, <2>1, <2>2
<1>3. CASE \/ \E x \in Exits : ExitBegin(x)
           \/ ExitAdvance \/ ExitCancelFails \/ ExitPrepare \/ ExitSubmitting \/ ExitSend
           \/ ExitSubmitted \/ ExitAmbiguous \/ ExitRecord \/ ExitCatch \/ ExitFailed
  <2>1. CASE \E x \in Exits : ExitBegin(x)
    BY <1>1, <2>1 DEF ExitBegin, venue
  <2>2. CASE ExitAmbiguous \/ ExitCatch \/ ExitCancelFails \/ ExitSend
    BY <1>1, <2>2 DEF ExitAmbiguous, ExitCatch, ExitCancelFails, ExitSend, venue
  <2>3. CASE ExitAdvance \/ ExitPrepare \/ ExitSubmitting \/ ExitSubmitted \/ ExitRecord \/ ExitFailed
    BY <1>1, <2>3 DEF ExitAdvance, ExitPrepare, ExitSubmitting, ExitSubmitted, ExitRecord,
        ExitFailed, venue
  <2>4. QED BY <1>3, <2>1, <2>2, <2>3
<1>4. CASE \/ CycleFetch \/ CycleSettle \/ CycleRecover \/ CycleProtect \/ CycleFlatten
           \/ SweepStart \/ SweepEnd \/ RearmStart \/ RearmSkip \/ RearmDegrade \/ RearmTarget
           \/ RearmFailed \/ RearmFinish \/ FlattenStart \/ FlattenMark \/ FlattenSend \/ FlattenRecord
           \/ WindowCloses \/ CoordinatorCrash
  BY <1>1, <1>4 DEF CycleFetch, CycleSettle, CycleRecover, CycleProtect, CycleFlatten, SweepStart,
        SweepEnd, RearmStart, RearmSkip, RearmDegrade, RearmTarget, RearmFailed, RearmFinish,
        FlattenStart, FlattenMark, FlattenSend, FlattenRecord, WindowCloses, CoordinatorCrash, venue
<1>5. CASE Entering \/ BracketWorks
  <2>1. CASE Entering
    BY <1>1, <2>1, EnteringNoLegs
  <2>2. CASE BracketWorks
    <3>1. PICK t \in filled \ bracketed :
             bracketed' = bracketed \cup {t} /\ stops' = [stops EXCEPT ![t] = stops[t] + Qty[t]]
      BY <1>0, <2>2, BracketComes
    <3>2. QED BY <1>0, <3>1
  <2>3. QED BY <1>5, <2>1, <2>2
<1>6. QED
  BY <1>2, <1>3, <1>4, <1>5 DEF ProtectionNext, ExitJob, Cycle, Entering

(* From the fetch to the rearm every stop that works has been seen.         *)
LEMMA SeesVenue == Seen(Venue)
BY DEF Seen, Venue

(* A sight stays one as long as the rearm places no stop.                    *)
LEMMA StillSeen ==
    ASSUME StepInv, ProtectionNext, ~RearmStop, NEW v \in Sights, Seen(v),
           v.bracketed \subseteq bracketed
    PROVE  \A t \in Tranches : stops'[t] > 0 => t \in v.stops \/ t \in bracketed' \ v.bracketed
BY StopsShrink, EntriesTyped DEF Seen, Late

LEMMA FetchKept ==
    ASSUME StepInv, ProtectionNext, cycle' \in {"settle", "recover", "protect"}
    PROVE  Seen(view)'
<1>0. /\ cycle \in {"settle", "recover", "protect"} => Seen(view)
      /\ view \in Sights /\ view.bracketed \subseteq bracketed
      /\ Venue \in Sights /\ Venue.bracketed \subseteq bracketed
  BY VenueIsSeen DEF StepInv, RearmInv, DataInv
<1>1. CASE cycle \in {"settle", "recover", "protect"} /\ view' \in {view, Venue} /\ ~RearmStop
  <2>1. PICK v \in {view, Venue} : view' = v
    BY <1>1
  <2>2. v \in Sights /\ v.bracketed \subseteq bracketed /\ Seen(v)
    BY <1>0, <1>1, SeesVenue
  <2>3. \A t \in Tranches : stops'[t] > 0 => t \in v.stops \/ t \in bracketed' \ v.bracketed
    BY <1>1, <2>2, StillSeen
  <2>4. QED BY <2>1, <2>3 DEF Seen, Late
<1>2. CASE CycleFetch
  BY <1>2, SeesVenue DEF CycleFetch, Seen, Late, Venue, venue, entries
<1>3. CASE CycleSettle \/ CycleRecover
  <2>1. cycle \in {"settle", "recover"} /\ view' = view /\ stops' = stops /\ bracketed' = bracketed
    BY <1>3 DEF CycleSettle, CycleRecover, seen, venue, entries
  <2>2. QED BY <1>0, <2>1 DEF Seen, Late
<1>4. CASE CycleProtect \/ CycleFlatten \/ SweepEnd \/ RearmFinish \/ FlattenStart \/ FlattenMark
           \/ FlattenRecord \/ CoordinatorCrash
  <2>1. CASE CycleProtect \/ CycleFlatten \/ SweepEnd \/ RearmFinish \/ CoordinatorCrash
    BY <2>1 DEF CycleProtect, CycleFlatten, SweepEnd, RearmFinish, RearmEnd, CoordinatorCrash
  <2>2. CASE FlattenStart
    BY <2>2 DEF FlattenStart, FlattenEnd
  <2>3. CASE FlattenMark \/ FlattenRecord
    BY <2>3 DEF FlattenMark, FlattenRecord, FlattenEnd, StepInv, JobInv, FlattenJobs
  <2>4. QED BY <1>4, <2>1, <2>2, <2>3
<1>5. CASE RearmStart \/ RearmSkip \/ RearmStop \/ RearmDegrade \/ RearmTarget \/ RearmFailed
  <2>1. cycle' \in {"rearm", "flatten_next", "idle"}
    <3>1. CASE RearmStart
      BY <3>1, RearmLists
    <3>2. CASE RearmSkip \/ RearmStop \/ RearmDegrade \/ RearmFailed
      BY <3>2 DEF RearmSkip, RearmStop, RearmDegrade, RearmFailed, StepInv, JobInv, RearmJobs, Rearming
    <3>3. CASE RearmTarget
      BY <3>3 DEF RearmTarget, StepInv, JobInv, RearmJobs, Rearming
    <3>4. QED BY <1>5, <3>1, <3>2, <3>3
  <2>2. QED BY <2>1
<1>6. CASE SweepStart \/ SweepCancel \/ FlattenSend
  BY <1>6 DEF SweepStart, SweepCancel, FlattenSend, StepInv, JobInv, FlattenJobs
<1>7. CASE \E x \in Exits : ExitBegin(x)
  <2>1. cycle' = cycle /\ view' \in {view, Venue} /\ job = "idle"
    BY <1>7 DEF ExitBegin, Look
  <2>2. QED BY <1>1, <2>1 DEF RearmStop
<1>8. CASE \/ ExitAdvance \/ ExitCancel \/ ExitCancelFails \/ ExitPrepare \/ ExitSubmitting \/ ExitSend
           \/ ExitSubmitted \/ ExitAmbiguous \/ ExitRecord \/ ExitCatch \/ ExitFailed
  <2>1. cycle' = cycle /\ view' = view
    <3>1. CASE ExitAmbiguous \/ ExitCatch \/ ExitCancelFails \/ ExitSend
      BY <3>1 DEF ExitAmbiguous, ExitCatch, ExitCancelFails, ExitSend, seen
    <3>2. CASE ExitAdvance \/ ExitCancel \/ ExitPrepare \/ ExitSubmitting \/ ExitSubmitted
               \/ ExitRecord \/ ExitFailed
      BY <3>2 DEF ExitAdvance, ExitCancel, ExitPrepare, ExitSubmitting, ExitSubmitted, ExitRecord,
          ExitFailed, seen
    <3>3. QED BY <1>8, <3>1, <3>2
  <2>2. ASSUME RearmStop PROVE FALSE
    BY <1>8, <2>2 DEF RearmStop, ExitAdvance, ExitCancel, ExitCancelFails, ExitPrepare, ExitSubmitting,
        ExitSend, ExitSubmitted, ExitAmbiguous, ExitRecord, ExitCatch, ExitFailed
  <2>3. QED BY <1>1, <2>1, <2>2
<1>9. CASE OrderFills \/ StopHit \/ LegLost \/ WindowCloses
  <2>1. cycle' = cycle /\ view' = view
    BY <1>9 DEF OrderFills, StopHit, LegLost, WindowCloses, seen
  <2>2. CASE RearmStop
    BY <2>1, <2>2 DEF RearmStop, StepInv, JobInv, RearmJobs
  <2>3. QED BY <1>1, <2>1, <2>2
<1>10. CASE Entering \/ BracketWorks
  <2>1. cycle' = cycle /\ view' = view /\ job' = job
    BY <1>10, EntryFrame
  <2>2. ~RearmStop
    BY <2>1 DEF RearmStop
  <2>3. QED BY <1>1, <2>1, <2>2
<1>11. QED
  BY <1>2, <1>3, <1>4, <1>5, <1>6, <1>7, <1>8, <1>9, <1>10 DEF ProtectionNext, ExitJob, Cycle, Entering

LEMMA SnapKept ==
    ASSUME StepInv, ProtectionNext, cycle' = "rearm", job' \notin RearmJobs
    PROVE  Seen(snap)'
<1>0. /\ cycle \in {"settle", "recover", "protect"} => Seen(view)
      /\ cycle = "rearm" /\ job \notin RearmJobs => Seen(snap)
      /\ snap \in Sights /\ snap.bracketed \subseteq bracketed
  BY DEF StepInv, RearmInv, DataInv
<1>1. CASE cycle = "rearm" /\ job \notin RearmJobs /\ snap' = snap /\ ~RearmStop
  <2>1. \A t \in Tranches : stops'[t] > 0 => t \in snap.stops \/ t \in bracketed' \ snap.bracketed
    BY <1>0, <1>1, StillSeen
  <2>2. QED BY <1>1, <2>1 DEF Seen, Late
<1>2. CASE CycleProtect
  <2>1. /\ cycle = "protect" /\ snap' \in {view, Venue}
        /\ stops' = stops /\ bracketed' = bracketed
    BY <1>2 DEF CycleProtect, venue, entries
  <2>2. QED BY <1>0, <2>1, SeesVenue DEF Seen, Late
<1>3. CASE \/ CycleFetch \/ CycleSettle \/ CycleRecover \/ CycleFlatten
           \/ SweepStart \/ SweepCancel \/ SweepEnd \/ RearmFinish
           \/ FlattenStart \/ FlattenMark \/ FlattenSend \/ FlattenRecord \/ CoordinatorCrash
  <2>1. CASE CycleFetch \/ CycleSettle \/ CycleRecover \/ CycleFlatten
    BY <2>1 DEF CycleFetch, CycleSettle, CycleRecover, CycleFlatten
  <2>2. CASE SweepStart \/ SweepCancel \/ SweepEnd \/ RearmFinish \/ CoordinatorCrash
    BY <2>2 DEF SweepStart, SweepCancel, SweepEnd, RearmFinish, RearmEnd, CoordinatorCrash, StepInv, JobInv
  <2>3. CASE FlattenStart \/ FlattenMark \/ FlattenSend \/ FlattenRecord
    BY <2>3 DEF FlattenStart, FlattenMark, FlattenSend, FlattenRecord, FlattenEnd, StepInv, JobInv,
        FlattenJobs
  <2>4. QED BY <1>3, <2>1, <2>2, <2>3
<1>4. CASE RearmStart \/ RearmSkip \/ RearmStop \/ RearmDegrade \/ RearmTarget \/ RearmFailed
  <2>1. CASE RearmStart
    BY <2>1, RearmLists DEF RearmJobs
  <2>2. CASE RearmSkip \/ RearmStop \/ RearmDegrade \/ RearmFailed
    BY <2>2 DEF RearmSkip, RearmStop, RearmDegrade, RearmFailed, RearmJobs, Rearming
  <2>3. CASE RearmTarget
    BY <2>3 DEF RearmTarget, RearmDone, RearmJobs
  <2>4. QED BY <1>4, <2>1, <2>2, <2>3
<1>5. CASE \E x \in Exits : ExitBegin(x)
  <2>1. cycle' = cycle /\ job = "idle" /\ snap' = snap
    BY <1>5 DEF ExitBegin
  <2>2. QED BY <1>1, <2>1 DEF RearmStop, RearmJobs, Rearming
<1>6. CASE \/ ExitAdvance \/ ExitCancel \/ ExitCancelFails \/ ExitPrepare \/ ExitSubmitting \/ ExitSend
           \/ ExitSubmitted \/ ExitAmbiguous \/ ExitRecord \/ ExitCatch \/ ExitFailed
  <2>1. cycle' = cycle /\ snap' = snap /\ job \in ExitJobs
    <3>1. CASE ExitAmbiguous \/ ExitCatch \/ ExitCancelFails \/ ExitSend
      BY <3>1 DEF ExitAmbiguous, ExitCatch, ExitCancelFails, ExitSend, ExitJobs
    <3>2. CASE ExitAdvance \/ ExitCancel \/ ExitPrepare \/ ExitSubmitting \/ ExitSubmitted
               \/ ExitRecord \/ ExitFailed
      BY <3>2 DEF ExitAdvance, ExitCancel, ExitPrepare, ExitSubmitting, ExitSubmitted, ExitRecord,
          ExitFailed, ExitJobs
    <3>3. QED BY <1>6, <3>1, <3>2
  <2>2. job \notin RearmJobs /\ ~RearmStop
    BY <2>1 DEF RearmJobs, Rearming, ExitJobs, RearmStop
  <2>3. QED BY <1>1, <2>1, <2>2
<1>7. CASE OrderFills \/ StopHit \/ LegLost \/ WindowCloses
  <2>1. cycle' = cycle /\ job' = job /\ snap' = snap
    BY <1>7 DEF OrderFills, StopHit, LegLost, WindowCloses, work
  <2>2. ~RearmStop
    BY <2>1 DEF RearmStop, RearmJobs
  <2>3. QED BY <1>1, <2>1, <2>2
<1>8. CASE Entering \/ BracketWorks
  <2>1. cycle' = cycle /\ job' = job /\ snap' = snap
    BY <1>8, EntryFrame
  <2>2. ~RearmStop
    BY <2>1 DEF RearmStop, RearmJobs
  <2>3. QED BY <1>1, <2>1, <2>2
<1>9. QED
  BY <1>2, <1>3, <1>4, <1>5, <1>6, <1>7, <1>8 DEF ProtectionNext, ExitJob, Cycle, Entering

(* While the rearm runs, the stops of what it has left are known to it.     *)
LEMMA LeftKept ==
    ASSUME StepInv, ProtectionNext, job' \in RearmJobs
    PROVE  /\ job' = "rearm" => \A p \in sweepLeft' : Known(p[1])'
           /\ job' \in Rearming => \A p \in sweepLeft' \ {Oldest'} : Known(p[1])'
<1>0. ProtectionTypeOK /\ RearmInv /\ JobInv
  BY DEF StepInv
<1>b. bracketed \subseteq bracketed'
  BY EntriesTyped
<1>a. job \in RearmJobs => sweepLeft \subseteq Tranches \X Nat
                           /\ \A p, q \in sweepLeft : p[1] = q[1] => p = q
  BY <1>0 DEF JobInv
<1>1. CASE UNCHANGED <<job, sweepLeft, snap, rearmed>> /\ ~RearmStop
  <2>1. \A t \in Tranches : stops'[t] > 0 => stops[t] > 0 \/ t \in bracketed' \ bracketed
    BY <1>1, StopsShrink
  <2>2. \A t \in Tranches : stops[t] \in Nat /\ stops'[t] \in Nat
    BY <1>0, TypesKept DEF StepInv, ProtectionTypeOK
  <2>3. \A p \in sweepLeft : p[1] \in Tranches /\ (Known(p[1]) => Known(p[1])')
    <3> TAKE p \in sweepLeft
    <3>1. p[1] \in Tranches
      BY <1>1, <1>a
    <3>2. snap.bracketed \subseteq bracketed
      BY DEF StepInv, DataInv
    <3>3. QED BY <1>1, <1>b, <2>1, <2>2, <3>1, <3>2 DEF Known, Late
  <2>4. Oldest' = Oldest
    BY <1>1 DEF Oldest
  <2>5. QED BY <1>0, <1>1, <2>3, <2>4 DEF RearmInv
<1>2. CASE RearmStart
  <2>1. job' = "rearm" /\ sweepLeft' \subseteq Tranches \X Nat /\ snap' = snap
    BY <1>2, RearmLists DEF RearmJobs, Rearming, NoWork
  <2>2. Seen(snap) /\ stops' = stops /\ bracketed' = bracketed
    BY <1>0, <1>2 DEF RearmStart, RearmInv, RearmJobs, Rearming, venue, entries
  <2>3. \A t \in Tranches : stops[t] \in Nat
    BY <1>0 DEF ProtectionTypeOK
  <2>4. \A p \in sweepLeft' : Known(p[1])'
    BY <2>1, <2>2, <2>3 DEF Known, Seen, Late
  <2>5. QED BY <2>1, <2>4 DEF Rearming
<1>3. CASE RearmStop
  <2>1. job = "rearm" /\ job' \in Rearming /\ UNCHANGED <<sweepLeft, snap, rearmed>>
    BY <1>3 DEF RearmStop, Rearming
  <2>2. \A t \in Tranches \ {Oldest[1]} : stops'[t] = stops[t]
    <3>1. \/ stops' = [stops EXCEPT ![Oldest[1]] = stops[Oldest[1]] + Oldest[2]]
          \/ stops' = stops
      BY <1>3 DEF RearmStop
    <3>2. QED BY <1>0, <3>1 DEF ProtectionTypeOK
  <2>3. Oldest' = Oldest /\ Oldest \in sweepLeft
    BY <1>3, <1>a, <2>1, OldestIsLeft DEF Oldest, RearmStop, RearmJobs
  <2>4. \A p \in sweepLeft \ {Oldest} : p[1] \in Tranches \ {Oldest[1]} /\ Known(p[1])
    BY <1>0, <1>a, <2>1, <2>3 DEF RearmInv, RearmJobs
  <2>5. \A p \in sweepLeft' \ {Oldest'} : Known(p[1])'
    BY <1>b, <2>1, <2>2, <2>3, <2>4 DEF Known, Late
  <2>6. QED BY <2>1, <2>5 DEF Rearming
<1>4. CASE RearmDegrade
  <2>1. job \in Rearming /\ job' \in Rearming /\ UNCHANGED <<sweepLeft, snap, stops>>
    BY <1>4 DEF RearmDegrade, Rearming, venue
  <2>2. \A t \in Tranches : rearmed[t] = "stop_placed" => rearmed'[t] = "stop_placed"
    BY <1>0, <1>4 DEF RearmDegrade, ProtectionTypeOK
  <2>3. Oldest' = Oldest
    BY <2>1 DEF Oldest
  <2>4. \A p \in sweepLeft \ {Oldest} : p[1] \in Tranches /\ Known(p[1])
    BY <1>0, <1>a, <2>1 DEF RearmInv, RearmJobs
  <2>5. \A p \in sweepLeft' \ {Oldest'} : Known(p[1])'
    BY <1>b, <2>1, <2>2, <2>3, <2>4 DEF Known, Late
  <2>6. QED BY <2>1, <2>5 DEF Rearming
<1>5. CASE RearmTarget \/ RearmFailed
  <2>1. job \in Rearming /\ job' = "rearm" /\ sweepLeft' = sweepLeft \ {Oldest} /\ UNCHANGED <<snap, stops>>
    <3>1. CASE RearmTarget
      BY <3>1 DEF RearmTarget, RearmDone, Rearming
    <3>2. CASE RearmFailed
      BY <3>2 DEF RearmFailed, Rearming, venue
    <3>3. QED BY <1>5, <3>1, <3>2
  <2>2. \A t \in Tranches \ {Oldest[1]} : rearmed'[t] = rearmed[t]
    <3>1. rearmed' = [rearmed EXCEPT ![Oldest[1]] = "confirmed"] \/ rearmed' = rearmed
      BY <1>5 DEF RearmTarget, RearmDone, RearmFailed
    <3>2. QED BY <1>0, <3>1 DEF ProtectionTypeOK
  <2>3. Oldest \in sweepLeft
    BY <1>0, <1>a, <2>1, OldestIsLeft DEF JobInv, RearmJobs
  <2>4. \A p \in sweepLeft \ {Oldest} : p[1] \in Tranches \ {Oldest[1]} /\ Known(p[1])
    BY <1>0, <1>a, <2>1, <2>3 DEF RearmInv, RearmJobs
  <2>5. \A p \in sweepLeft' : Known(p[1])'
    BY <1>b, <2>1, <2>2, <2>4 DEF Known, Late
  <2>6. QED BY <2>1, <2>5 DEF Rearming
<1>6. CASE \/ CycleFetch \/ CycleSettle \/ CycleRecover \/ CycleProtect \/ CycleFlatten
           \/ SweepStart \/ SweepCancel \/ SweepEnd \/ RearmFinish
           \/ FlattenStart \/ FlattenMark \/ FlattenSend \/ FlattenRecord \/ CoordinatorCrash
  <2>1. CASE CycleFetch \/ CycleSettle \/ CycleRecover \/ CycleProtect \/ CycleFlatten
    <3>1. job' = job /\ cycle # "rearm"
      BY <2>1 DEF CycleFetch, CycleSettle, CycleRecover, CycleProtect, CycleFlatten, work
    <3>2. QED BY <1>0, <3>1 DEF JobInv
  <2>2. CASE SweepStart \/ SweepCancel \/ SweepEnd \/ RearmFinish \/ CoordinatorCrash
    BY <2>2 DEF SweepStart, SweepCancel, SweepEnd, RearmFinish, RearmEnd, CoordinatorCrash, NoWork,
        RearmJobs, Rearming
  <2>3. CASE FlattenStart \/ FlattenMark \/ FlattenSend \/ FlattenRecord
    BY <2>3 DEF FlattenStart, FlattenMark, FlattenSend, FlattenRecord, FlattenEnd, NoWork,
        RearmJobs, Rearming
  <2>4. QED BY <1>6, <2>1, <2>2, <2>3
<1>7. CASE \/ \E x \in Exits : ExitBegin(x)
           \/ ExitAdvance \/ ExitCancel \/ ExitCancelFails \/ ExitPrepare \/ ExitSubmitting \/ ExitSend
           \/ ExitSubmitted \/ ExitAmbiguous \/ ExitRecord \/ ExitCatch \/ ExitFailed
  <2>1. job' \notin RearmJobs
    <3>1. CASE \E x \in Exits : ExitBegin(x)
      BY <3>1 DEF ExitBegin, RearmJobs, Rearming
    <3>2. CASE ExitAmbiguous \/ ExitCatch \/ ExitCancelFails \/ ExitSend
      BY <3>2 DEF ExitAmbiguous, ExitCatch, ExitCancelFails, ExitSend, RearmJobs, Rearming, NoWork
    <3>3. CASE ExitAdvance \/ ExitCancel \/ ExitPrepare \/ ExitSubmitting \/ ExitSubmitted
               \/ ExitRecord \/ ExitFailed
      BY <3>3 DEF ExitAdvance, ExitCancel, ExitPrepare, ExitSubmitting, ExitSubmitted, ExitRecord,
          ExitFailed, RearmJobs, Rearming, NoWork
    <3>4. QED BY <1>7, <3>1, <3>2, <3>3
  <2>2. QED BY <2>1
<1>8. CASE OrderFills \/ StopHit \/ LegLost \/ WindowCloses
  <2>1. UNCHANGED <<job, sweepLeft, snap, rearmed>>
    BY <1>8 DEF OrderFills, StopHit, LegLost, WindowCloses, work
  <2>2. ~RearmStop
    BY <2>1 DEF RearmStop
  <2>3. QED BY <1>1, <2>1, <2>2
<1>9. CASE Entering \/ BracketWorks
  <2>1. UNCHANGED <<job, sweepLeft, snap, rearmed>>
    BY <1>9, EntryFrame
  <2>2. ~RearmStop
    BY <2>1 DEF RearmStop
  <2>3. QED BY <1>1, <2>1, <2>2
<1>10. CASE RearmSkip
  <2>1. /\ job = "rearm" /\ job' = "rearm" /\ sweepLeft' = sweepLeft \ {Oldest}
        /\ UNCHANGED <<snap, stops, rearmed>>
    BY <1>10 DEF RearmSkip, venue
  <2>2. \A p \in sweepLeft : Known(p[1])
    BY <1>0, <2>1 DEF RearmInv
  <2>3. \A p \in sweepLeft' : Known(p[1])'
    BY <1>b, <2>1, <2>2 DEF Known, Late
  <2>4. QED BY <2>1, <2>3 DEF Rearming
<1>11. QED
  BY <1>2, <1>3, <1>4, <1>5, <1>6, <1>7, <1>8, <1>9, <1>10
     DEF ProtectionNext, ExitJob, Cycle, Entering

LEMMA RearmKept == ASSUME StepInv, ProtectionNext PROVE RearmInv'
BY FetchKept, SnapKept, LeftKept DEF RearmInv, RearmJobs, Rearming

-----------------------------------------------------------------------------
LEMMA StepKept == StepInv /\ [ProtectionNext]_protectionVars => StepInv'
<1> SUFFICES ASSUME StepInv, [ProtectionNext]_protectionVars PROVE StepInv'
  OBVIOUS
<1>1. CASE ProtectionNext
  BY <1>1, TypesKept, JobsKept, DataKept, SagasKept, AskedKept, RearmKept DEF StepInv
<1>2. CASE UNCHANGED protectionVars
  BY <1>2 DEF protectionVars, venue, entries, sagas, boxes, seen, work, StepInv, ProtectionTypeOK,
      JobInv, DataInv, SagaInv, SagaTellsOfAnOrder, AskedInv, FlattenAskedOnce, RearmInv, Known,
      Seen, Late, Oldest
<1>3. QED BY <1>1, <1>2

(* The flatten of one set of entries is asked for at most once, and a saga  *)
(* tells only of a reduction whose order the venue has, over every crash,   *)
(* lost answer and recovery in between (unprotected-flatten.ts and the      *)
(* saga's transitions in the execution store).                              *)
THEOREM ReductionsAreSafe == ProtectionSpec => []ProtectionInv
<1>1. ProtectionInit => StepInv
  BY StepInit
<1>2. StepInv /\ [ProtectionNext]_protectionVars => StepInv'
  BY StepKept
<1>3. StepInv => ProtectionInv
  BY DEF StepInv, ProtectionInv, AskedInv, SagaInv
<1>4. QED BY <1>1, <1>2, <1>3, PTL DEF ProtectionSpec

-----------------------------------------------------------------------------
(* Only RearmStop leaves the list of the rearm for an answer or a failure.   *)
LEMMA OnlyRearmStop ==
    ASSUME ProtectionNext, job = "rearm", job' \in {"rearm_stopped", "rearm_failed"}
    PROVE  RearmStop
<1>1. ASSUME \E x \in Exits : ExitBegin(x) PROVE FALSE
  BY <1>1 DEF ExitBegin
<1>2. ASSUME ExitJob PROVE FALSE
  <2>1. job # "rearm"
    BY <1>2 DEF ExitJob, ExitAdvance, ExitCancel, ExitCancelFails, ExitPrepare, ExitSubmitting,
        ExitSend, ExitSubmitted, ExitAmbiguous, ExitRecord, ExitCatch, ExitFailed
  <2>2. QED BY <2>1
<1>3. ASSUME CycleFetch \/ CycleSettle \/ CycleRecover \/ CycleProtect \/ CycleFlatten PROVE FALSE
  BY <1>3 DEF CycleFetch, CycleSettle, CycleRecover, CycleProtect, CycleFlatten, work
<1>4. ASSUME \/ SweepStart \/ SweepCancel \/ SweepEnd \/ RearmStart \/ RearmSkip
             \/ RearmDegrade \/ RearmTarget \/ RearmFailed \/ RearmFinish \/ CoordinatorCrash
             \/ FlattenStart \/ FlattenMark \/ FlattenSend \/ FlattenRecord
      PROVE  FALSE
  BY <1>4 DEF SweepStart, SweepCancel, SweepEnd, RearmStart, RearmSkip, RearmDegrade, RearmTarget,
      RearmFailed, RearmFinish, RearmEnd, CoordinatorCrash, FlattenStart, FlattenMark, FlattenSend, FlattenRecord,
      NoWork
<1>5. ASSUME OrderFills \/ StopHit \/ LegLost \/ WindowCloses PROVE FALSE
  BY <1>5 DEF OrderFills, StopHit, LegLost, WindowCloses, work
<1>6. ASSUME Entering \/ BracketWorks PROVE FALSE
  BY <1>6, EntryFrame
<1>7. QED
  BY <1>1, <1>2, <1>3, <1>4, <1>5, <1>6 DEF ProtectionNext, Cycle, Entering

(* The rearm sends a stop only for a tranche that has none, or whose bracket *)
(* came after the snapshot it was queued with: from that read until it sends *)
(* only entries place stops besides itself, and it remembers its own         *)
(* (rearmTrancheProtection, rearmStates).                                    *)
THEOREM RearmPlacesOneStop == ProtectionSpec => RearmOnlyNaked
<1>1. ProtectionInit => StepInv
  BY StepInit
<1>2. StepInv /\ [ProtectionNext]_protectionVars => StepInv'
  BY StepKept
<1>3. StepInv /\ [ProtectionNext]_protectionVars =>
        [job = "rearm" /\ job' \in {"rearm_stopped", "rearm_failed"}
           => \/ stops[Oldest[1]] = 0
              \/ Oldest[1] \in bracketed \ snap.bracketed]_protectionVars
  <2> SUFFICES ASSUME StepInv, ProtectionNext, job = "rearm", job' \in {"rearm_stopped", "rearm_failed"}
               PROVE  stops[Oldest[1]] = 0 \/ Oldest[1] \in bracketed \ snap.bracketed
    OBVIOUS
  <2>1. RearmStop
    BY OnlyRearmStop
  <2>2. sweepLeft # {} /\ StopNeeded(Oldest[1])
    BY <2>1 DEF RearmStop
  <2>3. Oldest \in sweepLeft
    BY <2>2, OldestIsLeft DEF StepInv, JobInv, RearmJobs
  <2>4. Known(Oldest[1])
    BY <2>3 DEF StepInv, RearmInv
  <2>5. QED BY <2>2, <2>4 DEF Known, Late, StopNeeded
<1>4. QED BY <1>1, <1>2, <1>3, PTL DEF ProtectionSpec, RearmOnlyNaked
================================================================================
