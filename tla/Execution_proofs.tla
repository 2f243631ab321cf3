---------------------------- MODULE Execution_proofs ----------------------------
(***************************************************************************)
(* Proofs about Execution for every set of intents, every mix of kinds and *)
(* any number of faults: type correctness, the safety invariants its runs  *)
(* check, and that every step keeps the promise of SubmitOnce.             *)
(*                                                                         *)
(* The inductive invariant says what each task knows of the store and the  *)
(* venue at each of its steps; the properties follow from it.              *)
(***************************************************************************)
EXTENDS Execution, TLAPS

(* Codes that tell Hermes the intent will have no effect.                   *)
RefusalCodes == {"refused", "mutation_rejected", "rejection_recovered"}

(* The outbox states in which nothing can have been sent.                   *)
Unsent == {"absent", "prepared", "confirmed_not_submitted"}

(* What the outbox and the venue have to do with each other.                *)
RequestInv ==
    \A i \in Intents :
      /\ outbox[i] \in Unsent => sent[i] = 0
      /\ sent[i] = 0 <=> wire[i] = "quiet"
      /\ sent[i] <= 1
      /\ order[i] # "none" <=> wire[i] = "accepted"
      /\ registered[i] = None => outbox[i] = "absent" /\ receipt[i] \notin RefusalCodes

(* What the outbox concludes, and what receipts conclude from it.           *)
ConclusionInv ==
    \A i \in Intents :
      /\ outbox[i] = "rejected" => wire[i] \in {"quiet", "rejected"}
      /\ outbox[i] = "submitted" /\ ~IsClose(i) => order[i] # "none"
      /\ receipt[i] = "refused" =>
           /\ outbox[i] \in {"absent", "confirmed_not_submitted"}
           /\ Kind[i] # "flatten"
           /\ cur = i => cpc = "record"
      /\ receipt[i] \in {"mutation_rejected", "rejection_recovered"} => outbox[i] = "rejected"

(* What the coordinator knows of the intent in its hands.                   *)
HandlerInv ==
    cpc # "idle" =>
      /\ cur \in Intents /\ Kind[cur] # "flatten" /\ registered[cur] # None
      /\ cpc \in {"claimed", "admitted"} => outbox[cur] = "absent"
      /\ cpc = "prepared" => outbox[cur] \in {"prepared", "confirmed_not_submitted"}
      /\ cpc = "sending" =>
           /\ sent[cur] = 0
           /\ outbox[cur] \in Uncertain \/ (IsClose(cur) /\ outbox[cur] = "submitted")
      /\ cpc \in {"awaiting", "accepted", "failed", "failing"} =>
           outbox[cur] \in Uncertain \cup {"submitted"}
      /\ cpc = "accepted" => wire[cur] = "accepted"
      /\ cpc \in {"failed", "failing"} /\ out = "rejected" => wire[cur] \in {"quiet", "rejected"}
      /\ cpc = "record" /\ out = "refused" =>
           outbox[cur] \in {"absent", "confirmed_not_submitted"}
      /\ cpc = "record" /\ out = "mutation_rejected" => outbox[cur] = "rejected"

FlattenSteps == {"flatten_registered", "flatten_prepared", "flatten_sending",
                 "flatten_awaiting", "flatten_accepted", "flatten_unlatch"}

(* What recovery knows of the work it has listed.                           *)
ListsInv ==
    /\ \A i \in hist \cup ordSeen : order[i] # "none"
    /\ \A i \in Intents :
         /\ unres[i] # "none" => outbox[i] # "absent"
         /\ unres[i] \in Uncertain => outbox[i] \notin Unsent
         /\ rpc \in {"uncertain", "amended"} => unres[i] # "prepared"
         /\ i \in ended => outbox[i] \in Terminal
         /\ res[i] \notin RefusalCodes

(* What it knows of the entry it flattens, and of the flatten's own mutation. *)
FlattenInv ==
    rpc \in FlattenSteps =>
      /\ target \in Intents /\ IsPlace(target) /\ order[target] # "none"
      /\ outbox[target] \in {"ambiguous", "submitted"}
      /\ FlattenId[target] \in Intents /\ Kind[FlattenId[target]] = "flatten"
      /\ registered[FlattenId[target]] # None
      /\ rpc = "flatten_registered" => outbox[FlattenId[target]] = "absent"
      /\ rpc = "flatten_prepared" => outbox[FlattenId[target]] = "prepared"
      /\ rpc \in {"flatten_sending", "flatten_awaiting"} =>
           outbox[FlattenId[target]] = "submitting"
      /\ rpc = "flatten_sending" => sent[FlattenId[target]] = 0

(* An entry past its checks has no uncertain entry beside it.               *)
EntryInv ==
    /\ cpc \in {"admitted", "prepared"} /\ IsEntry(cur) =>
         \A j \in Intents : IsEntry(j) => outbox[j] \notin Uncertain
    /\ cpc \in {"sending", "awaiting"} /\ IsEntry(cur) =>
         \A j \in Intents : IsEntry(j) /\ outbox[j] \in Uncertain => j = cur
    /\ OneUncertainEntry

(* The inductive invariant.                                                  *)
Safety == RequestInv /\ ConclusionInv /\ HandlerInv
          /\ ListsInv /\ FlattenInv /\ EntryInv
IInv == TypeOK /\ Safety

-----------------------------------------------------------------------------
(* Type correctness.                                                        *)

States == {"prepared", "submitting", "ambiguous", "submitted",
           "confirmed_not_submitted", "rejected"}

LEMMA StateSets ==
    /\ MutationStates = States
    /\ Unresolved \subseteq States /\ Uncertain \subseteq States /\ Terminal \subseteq States
BY DEF MutationStates, Unresolved, Uncertain, Terminal, States

LEMMA TypeInit == Init => TypeOK
<1> SUFFICES ASSUME Init PROVE TypeOK
    OBVIOUS
<1>1. posSeen \in BOOLEAN
  BY DEF Init
<1>2. faults \in 0 .. MaxFaults
  BY FaultsAssumption DEF Init
<1>3. unres \in [Intents -> Unresolved \cup {"none"}] /\ res \in [Intents -> RecoveredCodes \cup {"none"}]
  BY DEF Init, NoWork
<1>4. QED
  BY <1>1, <1>2, <1>3 DEF Init, TypeOK, NoWork, Work

LEMMA TypeCoordinator == TypeOK /\ Coordinator => TypeOK'
<1> SUFFICES ASSUME TypeOK, Coordinator PROVE TypeOK'
    OBVIOUS
<1> USE IntentsAssumption, KindAssumption
    DEF TypeOK, Work, store, venue, clock, coord, snap, work, recov
<1>1. ASSUME NEW i \in Intents, NEW b \in Bodies, RegisterIntent(i, b) PROVE TypeOK'
  BY <1>1 DEF RegisterIntent, LiveCodes
<1>2. CASE Refuse
  BY <1>2 DEF Refuse, Conclude, LiveCodes
<1>3. CASE Admit
  BY <1>3 DEF Admit
<1>4. CASE PrepareMutation
  BY <1>4, StateSets DEF PrepareMutation, Conclude, Throw, LiveCodes, States
<1>5. CASE MarkSubmitting
  BY <1>5, StateSets DEF MarkSubmitting, Conclude, Throw, LiveCodes, States
<1>6. CASE CallVenue
  BY <1>6 DEF CallVenue, PutOnWire
<1>7. CASE CallFailsLocally
  BY <1>7 DEF CallFailsLocally
<1>8. CASE Answered
  BY <1>8 DEF Answered
<1>9. CASE MarkSubmitted
  BY <1>9, StateSets DEF MarkSubmitted, Conclude, PendingCode, LiveCodes, States
<1>10. CASE InspectFailure
  BY <1>10 DEF InspectFailure, Conclude, LiveCodes
<1>11. CASE ResolveFailure
  BY <1>11, StateSets DEF ResolveFailure, ClearLatchOf, Conclude, Throw, LiveCodes, States
<1>12. CASE RecordReceipt
  BY <1>12 DEF RecordReceipt, Throw, LiveCodes, Codes
<1>13. QED
  BY <1>1, <1>2, <1>3, <1>4, <1>5, <1>6, <1>7, <1>8, <1>9, <1>10, <1>11, <1>12 DEF Coordinator

RecoverySteps ==
    {"idle", "fetch", "orders", "positions", "latch", "receipts", "orphans",
     "unresolved", "ended", "prepared", "uncertain", "amended", "flatten",
     "flatten_registered", "flatten_prepared", "flatten_sending",
     "flatten_awaiting", "flatten_accepted", "flatten_unlatch", "publish"}

(* The cycle's own variables are reset to values of their types.            *)
LEMMA TypeReset ==
    /\ NoSnapNext => posSeen' \in BOOLEAN /\ ordSeen' \subseteq Intents
    /\ NoWorkNext =>
         /\ orphans' \subseteq Intents /\ ended' \subseteq Intents /\ hist' \subseteq Intents
         /\ unres' \in [Intents -> Unresolved \cup {"none"}]
         /\ res' \in [Intents -> RecoveredCodes \cup {"none"}]
         /\ target' \in Work
<1>1. NoSnapNext => posSeen' \in BOOLEAN /\ ordSeen' \subseteq Intents
  BY DEF NoSnapNext
<1>2. NoWorkNext => /\ orphans' \subseteq Intents /\ ended' \subseteq Intents /\ hist' \subseteq Intents
                    /\ unres' \in [Intents -> Unresolved \cup {"none"}]
                    /\ res' \in [Intents -> RecoveredCodes \cup {"none"}]
                    /\ target' \in Work
  BY DEF NoWorkNext, Work
<1>3. QED
  BY <1>1, <1>2

LEMMA TypeAbandon ==
    ASSUME TypeOK, AbandonCycle, UNCHANGED <<store, venue, clock, coord>>,
           faults' \in 0 .. MaxFaults
    PROVE  TypeOK'
BY TypeReset DEF TypeOK, AbandonCycle, store, venue, clock, coord, Work

LEMMA TypeFetch ==
    ASSUME TypeOK, FetchPositions \/ FetchOrders \/ ReconcileLatch \/ ReconcileReceipts
    PROVE  TypeOK'
<1> USE DEF TypeOK, Work, store, venue, clock, coord, snap, work, recov
<1>1. CASE FetchPositions
  <2>1. posSeen' \in BOOLEAN
    BY <1>1 DEF FetchPositions, PositionOpen
  <2>2. stale' \subseteq Intents
    BY <1>1 DEF FetchPositions, MeasureStale
  <2>3. QED
    BY <1>1, <2>1, <2>2 DEF FetchPositions, AfterFetch
<1>2. CASE FetchOrders
  <2>1. ordSeen' \subseteq Intents
    BY <1>2 DEF FetchOrders, OpenOrders
  <2>2. stale' \subseteq Intents
    BY <1>2 DEF FetchOrders, MeasureStale
  <2>3. QED
    BY <1>2, <2>1, <2>2 DEF FetchOrders, AfterFetch
<1>3. CASE ReconcileLatch
  <2>1. posSeen' \in BOOLEAN /\ ordSeen' \subseteq Intents
    BY <1>3, TypeReset DEF ReconcileLatch
  <2>2. QED
    BY <1>3, <2>1 DEF ReconcileLatch
<1>4. CASE ReconcileReceipts
  BY <1>4 DEF ReconcileReceipts, Codes
<1>5. QED
  BY <1>1, <1>2, <1>3, <1>4

LEMMA TypeRecover ==
    ASSUME TypeOK,
           \/ StartCycle \/ ListOrphans \/ ListUnresolved \/ ListTerminal
           \/ \E i \in Intents : ResolvePrepared(i) \/ ResolveUncertain(i)
           \/ SearchOrders \/ SearchAmended \/ UncertainDone
    PROVE  TypeOK'
<1> USE DEF TypeOK, Work, store, venue, clock, coord, snap, work, recov
<1>1. CASE StartCycle
  BY <1>1 DEF StartCycle
<1>2. CASE ListOrphans
  BY <1>2 DEF ListOrphans, OrphanIntents, Submitting, Placed
<1>3. CASE ListUnresolved
  BY <1>3 DEF ListUnresolved
<1>4. CASE ListTerminal
  BY <1>4 DEF ListTerminal, TerminalWithoutReceipt
<1>5. ASSUME NEW i \in Intents, ResolvePrepared(i) PROVE TypeOK'
  <2>1. CASE outbox[i] \in {"prepared", "confirmed_not_submitted"}
    BY <1>5, <2>1, StateSets DEF ResolvePrepared, ClearLatchOf, RecoveredCodes, States
  <2>2. CASE outbox[i] \notin {"prepared", "confirmed_not_submitted"}
    BY <1>5, <2>2, TypeAbandon DEF ResolvePrepared
  <2>3. QED
    BY <2>1, <2>2
<1>6. ASSUME NEW i \in Intents, ResolveUncertain(i) PROVE TypeOK'
  <2>1. CASE AbandonCycle /\ UNCHANGED outbox
    BY <1>6, <2>1, TypeAbandon DEF ResolveUncertain
  <2>2. CASE LeftAlone(i)
    BY <1>6, <2>2 DEF ResolveUncertain, LeftAlone
  <2>3. CASE Recovered(i, "submitted", "recovered") \/ Recovered(i, "ambiguous", "ambiguous")
    BY <1>6, <2>3, StateSets DEF ResolveUncertain, Recovered, RecoveredCodes, States
  <2>4. QED
    BY <1>6, <2>1, <2>2, <2>3 DEF ResolveUncertain
<1>7. CASE SearchOrders
  BY <1>7 DEF SearchOrders, Amended
<1>8. CASE SearchAmended
  BY <1>8 DEF SearchAmended, Amended, Placed
<1>9. CASE UncertainDone
  BY <1>9 DEF UncertainDone
<1>10. QED
  BY <1>1, <1>2, <1>3, <1>4, <1>5, <1>6, <1>7, <1>8, <1>9

(* Updating a function at one point keeps its type.                         *)
LEMMA UpdateType ==
    ASSUME NEW S, NEW T, NEW f \in [S -> T], NEW x, NEW v, x \in S => v \in T
    PROVE  [f EXCEPT ![x] = v] \in [S -> T]
OBVIOUS

LEMMA TypeFlatten ==
    ASSUME TypeOK,
           \/ \E e \in Intents : FlattenRegister(e)
           \/ FlattenPrepare \/ FlattenSubmitting \/ FlattenCall \/ FlattenFails
           \/ FlattenAccepted \/ FlattenProvesEntry \/ FlattenUnlatch \/ FlattenDone
    PROVE  TypeOK'
<1> USE DEF TypeOK, Work, store, venue, clock, coord, snap, work, recov
<1>1. ASSUME NEW e \in Intents, FlattenRegister(e) PROVE TypeOK'
  <2>1. PICK b \in Bodies : registered' = [registered EXCEPT ![FlattenId[e]] = IF @ = None THEN b ELSE @]
    BY <1>1 DEF FlattenRegister
  <2>2. FlattenId[e] \in Intents =>
          (IF registered[FlattenId[e]] = None THEN b ELSE registered[FlattenId[e]]) \in Bodies \cup {None}
    OBVIOUS
  <2>3. registered' \in [Intents -> Bodies \cup {None}]
    BY <2>1, <2>2, UpdateType
  <2>4. QED
    BY <1>1, <2>3 DEF FlattenRegister
<1>2. CASE FlattenPrepare \/ FlattenSubmitting
  BY <1>2, StateSets DEF FlattenPrepare, FlattenSubmitting, FlattenMark, States
<1>3. CASE FlattenCall
  <2>1. FlattenId[target] \in Intents => sent[FlattenId[target]] + 1 \in Nat
    OBVIOUS
  <2>2. sent' \in [Intents -> Nat]
    BY <1>3, <2>1, UpdateType DEF FlattenCall, PutOnWire
  <2>3. QED
    BY <1>3, <2>2 DEF FlattenCall, PutOnWire
<1>4. CASE FlattenFails
  BY <1>4, TypeAbandon DEF FlattenFails
<1>5. CASE FlattenAccepted
  <2>1. "submitted" \in MutationStates
    BY StateSets DEF States
  <2>2. outbox' = [outbox EXCEPT ![FlattenId[target]] = "submitted"]
    BY <1>5 DEF FlattenAccepted
  <2>3. outbox' \in [Intents -> MutationStates \cup {"absent"}]
    BY <2>1, <2>2, UpdateType
  <2>4. rpc' = "flatten_accepted" /\ UNCHANGED <<phase, snap, work>>
        /\ UNCHANGED <<registered, receipt, latch, venue, clock, coord, faults>>
    BY <1>5 DEF FlattenAccepted
  <2>5. QED
    BY <2>3, <2>4
<1>6. CASE FlattenProvesEntry
  <2>1. "recovered" \in RecoveredCodes \cup {"none"}
    BY DEF RecoveredCodes
  <2>2. [res EXCEPT ![target] = "recovered"] \in [Intents -> RecoveredCodes \cup {"none"}]
    BY <2>1, UpdateType
  <2>3. [[res EXCEPT ![target] = "recovered"] EXCEPT ![FlattenId[target]] = "recovered"]
          \in [Intents -> RecoveredCodes \cup {"none"}]
    BY <2>1, <2>2, UpdateType
  <2>4. res' \in [Intents -> RecoveredCodes \cup {"none"}]
    BY <1>6, <2>3 DEF FlattenProvesEntry
  <2>5. outbox' \in [Intents -> MutationStates \cup {"absent"}]
    BY <1>6, StateSets DEF FlattenProvesEntry, States
  <2>6. QED
    BY <1>6, <2>4, <2>5 DEF FlattenProvesEntry
<1>7. CASE FlattenUnlatch
  BY <1>7 DEF FlattenUnlatch, ClearLatchOf
<1>8. CASE FlattenDone
  BY <1>8 DEF FlattenDone
<1>9. QED
  BY <1>1, <1>2, <1>3, <1>4, <1>5, <1>6, <1>7, <1>8

LEMMA TypePublish ==
    ASSUME TypeOK,
           \/ \E i \in Intents : PublishOrphan(i) \/ PublishEnded(i) \/ PublishResolved(i)
           \/ PublishDone
    PROVE  TypeOK'
<1> USE DEF TypeOK, Work, store, venue, clock, coord, snap, work, recov
<1>1. ASSUME NEW i \in Intents, PublishOrphan(i) PROVE TypeOK'
  BY <1>1 DEF PublishOrphan, Codes, RecoveredCodes
<1>2. ASSUME NEW i \in Intents, PublishEnded(i) PROVE TypeOK'
  BY <1>2 DEF PublishEnded, EndedCode, Codes, RecoveredCodes
<1>3. ASSUME NEW i \in Intents, PublishResolved(i) PROVE TypeOK'
  BY <1>3 DEF PublishResolved, Codes, RecoveredCodes
<1>4. CASE PublishDone
  BY <1>4, TypeReset DEF PublishDone
<1>5. QED
  BY <1>1, <1>2, <1>3, <1>4

LEMMA TypeReconciliation == TypeOK /\ Reconciliation => TypeOK'
BY TypeFetch, TypeRecover, TypeFlatten, TypePublish DEF Reconciliation

LEMMA TypeVenue == TypeOK /\ Venue => TypeOK'
<1> USE DEF TypeOK, Work, store, venue, clock, coord, snap, work, recov
<1> SUFFICES ASSUME TypeOK, NEW i \in Intents,
                    VenueAccepts(i) \/ VenueRefuses(i) \/ VenueFills(i) \/ VenueFinishes(i)
             PROVE  TypeOK'
    BY DEF Venue
<1>1. CASE VenueAccepts(i)
  BY <1>1 DEF VenueAccepts
<1>2. CASE VenueRefuses(i)
  BY <1>2 DEF VenueRefuses
<1>3. CASE VenueFills(i) \/ VenueFinishes(i)
  BY <1>3 DEF VenueFills, VenueFinishes
<1>4. QED
  BY <1>1, <1>2, <1>3

LEMMA TypeFaults == TypeOK /\ (Crash \/ ReadFails) => TypeOK'
<1> SUFFICES ASSUME TypeOK, Crash \/ ReadFails PROVE TypeOK'
    OBVIOUS
<1>1. faults' \in 0 .. MaxFaults
  BY FaultsAssumption DEF Crash, ReadFails, TypeOK
<1>2. CASE Crash
  BY <1>1, <1>2, TypeReset DEF Crash, TypeOK, Work, store, venue, clock
<1>3. CASE ReadFails
  BY <1>1, <1>3, TypeAbandon DEF ReadFails
<1>4. QED
  BY <1>2, <1>3

LEMMA TypeStutter == TypeOK /\ UNCHANGED vars => TypeOK'
BY DEF TypeOK, Work, vars, store, venue, clock, coord, snap, work, recov

LEMMA TypeStep == TypeOK /\ [Next]_vars => TypeOK'
BY TypeCoordinator, TypeReconciliation, TypeVenue, TypeFlatten, TypeFaults, TypeStutter
   DEF Next

(* Every row, task variable and venue fact keeps its type, for any intents,  *)
(* kinds and number of faults.                                               *)
THEOREM TypeCorrect == Spec => []TypeOK
BY TypeInit, TypeStep, PTL DEF Spec

-----------------------------------------------------------------------------
(* The inductive invariant.                                                 *)

LEMMA SafetyInit == Init => Safety
BY DEF Init, NoWork, Safety, RequestInv, ConclusionInv, HandlerInv, ListsInv, FlattenInv,
       EntryInv, OneUncertainEntry, Unsent, RefusalCodes, FlattenSteps, Uncertain, IsEntry, IsClose

(* The coordinator's steps.                                                  *)
LEMMA CoordinatorKeeps ==
    ASSUME IInv,
           Coordinator
    PROVE  Safety'
<1> USE DEF IInv, Safety, TypeOK,
        RequestInv, ConclusionInv, HandlerInv, ListsInv, FlattenInv, EntryInv,
        OneUncertainEntry, Unsent, RefusalCodes, FlattenSteps, Uncertain, Unresolved, Terminal,
        IsEntry, IsPlace, IsClose, store, venue, clock, coord, snap, work, recov
<1>1. ASSUME NEW i \in Intents, NEW b \in Bodies, RegisterIntent(i, b) PROVE Safety'
  BY <1>1, IntentsAssumption DEF RegisterIntent
<1>2. CASE Refuse
  BY <1>2 DEF Refuse, Conclude
<1>3. CASE Admit
  BY <1>3 DEF Admit, BlockingNewExposure
<1>4. CASE PrepareMutation
  BY <1>4, IntentsAssumption DEF PrepareMutation, Conclude, Throw
<1>5. CASE MarkSubmitting
  BY <1>5, IntentsAssumption DEF MarkSubmitting, Conclude, Throw
<1>6. CASE CallVenue
  BY <1>6 DEF CallVenue, PutOnWire
<1>7. CASE CallFailsLocally
  BY <1>7 DEF CallFailsLocally
<1>8. CASE Answered
  BY <1>8 DEF Answered
<1>9. CASE MarkSubmitted
  BY <1>9 DEF MarkSubmitted, Conclude, PendingCode
<1>10. CASE InspectFailure
  BY <1>10 DEF InspectFailure, Conclude
<1>11. CASE ResolveFailure
  BY <1>11, IntentsAssumption DEF ResolveFailure, Conclude, Throw, ClearLatchOf
<1>12. CASE RecordReceipt
  BY <1>12, IntentsAssumption DEF RecordReceipt, Throw, LiveCodes
<1>13. QED
  BY <1>1, <1>2, <1>3, <1>4, <1>5, <1>6, <1>7, <1>8, <1>9, <1>10, <1>11, <1>12 DEF
     Coordinator

(* The reads, the latch, the receipts, and the rows recovery has listed.     *)
LEMMA CycleKeeps ==
    ASSUME IInv,
           \/ StartCycle \/ FetchPositions \/ FetchOrders
           \/ ReconcileLatch \/ ReconcileReceipts \/ ListOrphans
           \/ ListUnresolved \/ ListTerminal \/ SearchOrders
           \/ SearchAmended \/ UncertainDone
           \/ \E i \in Intents : ResolvePrepared(i) \/ ResolveUncertain(i)
    PROVE  Safety'
<1> USE DEF IInv, Safety, TypeOK,
        RequestInv, ConclusionInv, HandlerInv, ListsInv, FlattenInv, EntryInv,
        OneUncertainEntry, Unsent, RefusalCodes, FlattenSteps, Uncertain, Unresolved, Terminal,
        IsEntry, IsPlace, IsClose, store, venue, clock, coord, snap, work, recov
<1>1. CASE StartCycle
  BY <1>1 DEF StartCycle
<1>2. CASE FetchPositions
  BY <1>2 DEF FetchPositions, AfterFetch, PositionOpen
<1>3. CASE FetchOrders
  BY <1>3 DEF FetchOrders, AfterFetch, OpenOrders
<1>4. CASE ReconcileLatch
  BY <1>4 DEF ReconcileLatch, NoSnapNext
<1>5. CASE ReconcileReceipts
  BY <1>5 DEF ReconcileReceipts
<1>6. CASE ListOrphans
  BY <1>6 DEF ListOrphans, OrphanIntents, Placed
<1>7. CASE ListUnresolved
  BY <1>7 DEF ListUnresolved
<1>8. CASE ListTerminal
  BY <1>8 DEF ListTerminal, TerminalWithoutReceipt
<1>9. CASE SearchOrders
  BY <1>9 DEF SearchOrders, Amended, SearchNeeded
<1>10. CASE SearchAmended
  BY <1>10 DEF SearchAmended, Amended, Placed, SearchNeeded, Places
<1>11. CASE UncertainDone
  BY <1>11 DEF UncertainDone
<1>12. ASSUME NEW i \in Intents, ResolvePrepared(i) PROVE Safety'
  BY <1>12 DEF ResolvePrepared, AbandonCycle, NoSnapNext, NoWorkNext
<1>13. ASSUME NEW i \in Intents, ResolveUncertain(i) PROVE Safety'
  <2>1. CASE AbandonCycle /\ UNCHANGED outbox
    BY <1>13, <2>1 DEF ResolveUncertain, AbandonCycle, NoSnapNext, NoWorkNext
  <2>2. CASE LeftAlone(i)
    BY <1>13, <2>2 DEF ResolveUncertain, LeftAlone
  <2>3. CASE Recovered(i, "submitted", "recovered") /\ Proven(i)
    <3>1. ~IsClose(i) => order[i] # "none"
      BY <2>3 DEF Proven
    <3>2. outbox[i] \in Uncertain \cup {"submitted"}
      <4>1. unres[i] \in Uncertain
        BY <1>13 DEF ResolveUncertain
      <4>2. outbox[i] \notin Unsent
        BY <4>1
      <4>3. outbox[i] # "rejected"
        BY <1>13, <2>3 DEF ResolveUncertain, Recovered, LeftAlone
      <4>4. QED
        BY <4>2, <4>3, StateSets DEF States
    <3>3. QED
      BY <1>13, <2>3, <3>1, <3>2 DEF ResolveUncertain, Recovered
  <2>4. CASE Recovered(i, "ambiguous", "ambiguous") /\ outbox[i] \notin Terminal
    <3>1. outbox[i] \in Uncertain
      BY <1>13, <2>4, StateSets DEF ResolveUncertain, States
    <3>2. QED
      BY <1>13, <2>4, <3>1 DEF ResolveUncertain, Recovered
  <2>5. QED
    BY <1>13, <2>1, <2>2, <2>3, <2>4 DEF ResolveUncertain
<1>14. QED
  BY <1>1, <1>2, <1>3, <1>4, <1>5, <1>6, <1>7, <1>8, <1>9, <1>10, <1>11, <1>12, <1>13

(* The bounded recovery flatten.                                             *)
LEMMA FlattenKeeps ==
    ASSUME IInv,
           \/ \E i \in Intents : FlattenRegister(i)
           \/ FlattenPrepare \/ FlattenSubmitting \/ FlattenCall
           \/ FlattenFails \/ FlattenAccepted \/ FlattenProvesEntry
           \/ FlattenUnlatch \/ FlattenDone
    PROVE  Safety'
<1> USE DEF IInv, Safety, TypeOK,
        RequestInv, ConclusionInv, HandlerInv, ListsInv, FlattenInv, EntryInv,
        OneUncertainEntry, Unsent, RefusalCodes, FlattenSteps, Uncertain, Unresolved, Terminal,
        IsEntry, IsPlace, IsClose, store, venue, clock, coord, snap, work, recov
<1>1. ASSUME NEW i \in Intents, FlattenRegister(i) PROVE Safety'
  <2>1. FlattenId[i] \in Intents /\ Kind[FlattenId[i]] = "flatten"
    <3>1. FlattenId[i] # None
      BY <1>1 DEF FlattenRegister, Flattenable
    <3>2. QED
      BY <3>1, FlattenAssumption
  <2>2. \A j \in Intents : registered'[j] = registered[j] \/ (j = FlattenId[i] /\ registered'[j] # None)
    BY <1>1, IntentsAssumption DEF FlattenRegister
  <2>3. registered'[FlattenId[i]] # None
    BY <1>1, <2>1, IntentsAssumption DEF FlattenRegister
  <2>4. QED
    BY <1>1, <2>1, <2>2, <2>3 DEF FlattenRegister, Flattenable
<1>2. CASE FlattenPrepare
  BY <1>2 DEF FlattenPrepare, FlattenMark
<1>3. CASE FlattenSubmitting
  BY <1>3 DEF FlattenSubmitting, FlattenMark
<1>4. CASE FlattenCall
  BY <1>4 DEF FlattenCall, PutOnWire
<1>5. CASE FlattenFails
  BY <1>5 DEF FlattenFails, AbandonCycle, NoSnapNext, NoWorkNext
<1>6. CASE FlattenAccepted
  BY <1>6 DEF FlattenAccepted
<1>7. CASE FlattenProvesEntry
  BY <1>7 DEF FlattenProvesEntry
<1>8. CASE FlattenUnlatch
  BY <1>8 DEF FlattenUnlatch
<1>9. CASE FlattenDone
  BY <1>9 DEF FlattenDone
<1>10. QED
  BY <1>1, <1>2, <1>3, <1>4, <1>5, <1>6, <1>7, <1>8, <1>9

(* The publication of what recovery concluded.                               *)
LEMMA PublishKeeps ==
    ASSUME IInv,
           \/ \E i \in Intents : PublishOrphan(i) \/ PublishEnded(i) \/ PublishResolved(i)
           \/ PublishDone
    PROVE  Safety'
<1> USE DEF IInv, Safety, TypeOK,
        RequestInv, ConclusionInv, HandlerInv, ListsInv, FlattenInv, EntryInv,
        OneUncertainEntry, Unsent, RefusalCodes, FlattenSteps, Uncertain, Unresolved, Terminal,
        IsEntry, IsPlace, IsClose, store, venue, clock, coord, snap, work, recov
<1>1. ASSUME NEW i \in Intents, PublishOrphan(i) PROVE Safety'
  BY <1>1 DEF PublishOrphan
<1>2. ASSUME NEW i \in Intents, PublishEnded(i) PROVE Safety'
  BY <1>2 DEF PublishEnded, EndedCode
<1>3. ASSUME NEW i \in Intents, PublishResolved(i) PROVE Safety'
  BY <1>3 DEF PublishResolved
<1>4. CASE PublishDone
  BY <1>4 DEF PublishDone, NoWorkNext, NoSnapNext
<1>5. QED
  BY <1>1, <1>2, <1>3, <1>4

(* The venue and the faults.                                                 *)
LEMMA WorldKeeps ==
    ASSUME IInv,
           \/ \E i \in Intents : VenueAccepts(i) \/ VenueRefuses(i) \/ VenueFills(i) \/ VenueFinishes(i)
           \/ Crash \/ ReadFails
    PROVE  Safety'
<1> USE DEF IInv, Safety, TypeOK,
        RequestInv, ConclusionInv, HandlerInv, ListsInv, FlattenInv, EntryInv,
        OneUncertainEntry, Unsent, RefusalCodes, FlattenSteps, Uncertain, Unresolved, Terminal,
        IsEntry, IsPlace, IsClose, store, venue, clock, coord, snap, work, recov
<1>1. ASSUME NEW i \in Intents, VenueAccepts(i) PROVE Safety'
  BY <1>1 DEF VenueAccepts
<1>2. ASSUME NEW i \in Intents, VenueRefuses(i) PROVE Safety'
  BY <1>2 DEF VenueRefuses
<1>3. ASSUME NEW i \in Intents, VenueFills(i) PROVE Safety'
  BY <1>3 DEF VenueFills
<1>4. ASSUME NEW i \in Intents, VenueFinishes(i) PROVE Safety'
  BY <1>4 DEF VenueFinishes
<1>5. CASE Crash
  BY <1>5, IntentsAssumption DEF Crash, NoSnapNext, NoWorkNext
<1>6. CASE ReadFails
  BY <1>6 DEF ReadFails, AbandonCycle, NoSnapNext, NoWorkNext
<1>7. QED
  BY <1>1, <1>2, <1>3, <1>4, <1>5, <1>6

LEMMA SafetyStutter == IInv /\ UNCHANGED vars => Safety'
BY DEF IInv, Safety, RequestInv, ConclusionInv, HandlerInv, ListsInv, FlattenInv, EntryInv,
       OneUncertainEntry, vars, store, venue, clock, coord, snap, work, recov

LEMMA SafetyStep == IInv /\ [Next]_vars => Safety'
BY CoordinatorKeeps, CycleKeeps, FlattenKeeps, PublishKeeps, WorldKeeps, SafetyStutter
   DEF Next, Reconciliation, Venue

(* The inductive invariant holds throughout.                                 *)
THEOREM Invariance == Spec => []IInv
<1>1. Init => IInv
  BY TypeInit, SafetyInit DEF IInv
<1>2. IInv /\ [Next]_vars => IInv'
  BY TypeStep, SafetyStep DEF IInv
<1>3. QED
  BY <1>1, <1>2, PTL DEF Spec

-----------------------------------------------------------------------------
(* The properties.                                                          *)

(* No intent is submitted twice, whatever crashes and interleavings occur.   *)
THEOREM AtMostOnce == Spec => []SubmittedAtMostOnce
<1>1. IInv => SubmittedAtMostOnce
  BY DEF IInv, Safety, RequestInv, SubmittedAtMostOnce
<1>2. QED
  BY <1>1, Invariance, PTL

(* The outbox never concludes what is not so at the venue.                   *)
THEOREM Truth == Spec => []OutboxTellsTheTruth
<1>1. IInv => OutboxTellsTheTruth
  BY DEF IInv, Safety, TypeOK, RequestInv, ConclusionInv, Unsent, OutboxTellsTheTruth
<1>2. QED
  BY <1>1, Invariance, PTL

(* An intent whose receipt refuses it has no order and never will.           *)
THEOREM Refusals == Spec => []RefusalIsFinal
<1>1. IInv => RefusalIsFinal
  BY DEF IInv, Safety, TypeOK, RequestInv, ConclusionInv, Unsent, RefusalIsFinal
<1>2. QED
  BY <1>1, Invariance, PTL

(* At most one entry has an unknown outcome at any time.                     *)
THEOREM OneUncertain == Spec => []OneUncertainEntry
<1>1. IInv => OneUncertainEntry
  BY DEF IInv, Safety, EntryInv
<1>2. QED
  BY <1>1, Invariance, PTL

(* An entry of unknown outcome keeps every other entry from the venue.       *)
THEOREM Blocking == Spec => []UncertainEntryBlocks
<1>1. IInv => UncertainEntryBlocks
  BY DEF IInv, Safety, EntryInv, UncertainEntryBlocks
<1>2. QED
  BY <1>1, Invariance, PTL

-----------------------------------------------------------------------------
(* Refinement: every step keeps the promise of SubmitOnce.                  *)

(* The abstract step is decided by what happens to the intents' fates and    *)
(* beliefs: nothing, or one thing to one intent.                             *)
SameFate(i) == Fate(i)' = Fate(i)
SameBelief(i) == Belief(i)' = Belief(i)

LEMMA AbstractStutter ==
    ASSUME \A i \in Orders : SameFate(i) /\ SameBelief(i), Orders' = Orders
    PROVE  [Promise!Next]_Promise!vars
BY DEF SameFate, SameBelief, Promise!vars

LEMMA AbstractConclusion ==
    ASSUME \A i \in Orders : SameFate(i), Orders' = Orders,
           NEW k \in Orders, \A i \in Orders : i # k => SameBelief(i),
           Belief(k) = "open",
           \/ Belief(k)' = "live" /\ Fate(k) = "live"
           \/ Belief(k)' = "void" /\ Fate(k) \in {"held", "void"}
    PROVE  [Promise!Next]_Promise!vars
<1>1. [i \in Orders |-> Fate(i)]' = [i \in Orders |-> Fate(i)]
  BY DEF SameFate
<1>2. [i \in Orders |-> Belief(i)]' = [[i \in Orders |-> Belief(i)] EXCEPT ![k] = Belief(k)']
  BY DEF SameBelief
<1>3. Promise!ConcludeLive(k) \/ Promise!ConcludeVoid(k)
  BY <1>1, <1>2 DEF Promise!ConcludeLive, Promise!ConcludeVoid
<1>4. QED
  BY <1>3 DEF Promise!Next

LEMMA AbstractFate ==
    ASSUME \A i \in Orders : SameBelief(i), Orders' = Orders,
           NEW k \in Orders, \A i \in Orders : i # k => SameFate(i),
           \/ Fate(k) = "held" /\ Fate(k)' = "gone" /\ Belief(k) = "open"
           \/ Fate(k) = "gone" /\ Fate(k)' \in {"live", "void"}
    PROVE  [Promise!Next]_Promise!vars
<1>1. [i \in Orders |-> Belief(i)]' = [i \in Orders |-> Belief(i)]
  BY DEF SameBelief
<1>2. [i \in Orders |-> Fate(i)]' = [[i \in Orders |-> Fate(i)] EXCEPT ![k] = Fate(k)']
  BY DEF SameFate
<1>3. Promise!Submit(k) \/ Promise!Land(k)
  BY <1>1, <1>2 DEF Promise!Submit, Promise!Land
<1>4. QED
  BY <1>3 DEF Promise!Next

(* What fate and belief depend on.                                          *)
LEMMA SameOutcome ==
    ASSUME UNCHANGED <<sent, wire, order, outbox>>
    PROVE  [Promise!Next]_Promise!vars
BY AbstractStutter DEF SameFate, SameBelief, Fate, Belief, Orders

(* A step that only rewrites one outbox row either leaves the belief open    *)
(* or draws a true conclusion.                                               *)
LEMMA OneRow ==
    ASSUME TypeOK, UNCHANGED <<sent, wire, order>>, NEW k \in Intents, NEW s \in States,
           outbox' = [outbox EXCEPT ![k] = s],
           \/ k \notin Orders
           \/ s \in Unresolved /\ outbox[k] \in Unresolved \cup {"absent"}
           \/ s = outbox[k]
           \/ s = "submitted" /\ outbox[k] \in Unresolved /\ sent[k] = 1 /\ order[k] # "none"
           \/ s = "confirmed_not_submitted" /\ outbox[k] \in Unresolved /\ sent[k] = 0
           \/ /\ s = "rejected" /\ outbox[k] \in Unresolved /\ order[k] = "none"
              /\ sent[k] = 0 \/ (sent[k] = 1 /\ wire[k] = "rejected")
    PROVE  [Promise!Next]_Promise!vars
<1>1. \A i \in Orders : SameFate(i)
  BY DEF SameFate, Fate
<1>2. \A i \in Orders : i # k => SameBelief(i)
  BY DEF SameBelief, Belief, TypeOK, Orders
<1>3. Orders' = Orders
  BY DEF Orders
<1>4. CASE k \notin Orders
  BY <1>1, <1>2, <1>3, <1>4, AbstractStutter
<1>5. CASE k \in Orders /\ SameBelief(k)
  BY <1>1, <1>2, <1>3, <1>5, AbstractStutter
<1>6. outbox'[k] = s
  BY DEF TypeOK
<1>7. CASE k \in Orders /\ ~SameBelief(k)
  <2>1. Belief(k) = "open"
    BY <1>6, <1>7 DEF SameBelief, Belief, Unresolved
  <2>2. \/ Belief(k)' = "live" /\ Fate(k) = "live"
        \/ Belief(k)' = "void" /\ Fate(k) \in {"held", "void"}
    <3>1. CASE s = "submitted" /\ sent[k] = 1 /\ order[k] # "none"
      <4>1. Belief(k)' = "live"
        BY <1>6, <3>1 DEF Belief
      <4>2. Fate(k) = "live"
        BY <3>1 DEF Fate
      <4>3. QED
        BY <4>1, <4>2
    <3>2. CASE s = "confirmed_not_submitted" /\ sent[k] = 0
      <4>1. Belief(k)' = "void"
        BY <1>6, <3>2 DEF Belief
      <4>2. Fate(k) = "held"
        BY <3>2 DEF Fate
      <4>3. QED
        BY <4>1, <4>2
    <3>3. CASE /\ s = "rejected" /\ order[k] = "none"
               /\ sent[k] = 0 \/ (sent[k] = 1 /\ wire[k] = "rejected")
      BY <1>6, <3>3 DEF Belief, Fate
    <3>4. CASE s \in Unresolved \/ s = outbox[k]
      <4>1. SameBelief(k)
        BY <1>6, <2>1, <3>4 DEF SameBelief, Belief, Unresolved
      <4>2. QED
        BY <1>7, <4>1
    <3>5. QED
      BY <1>7, <3>1, <3>2, <3>3, <3>4
  <2>3. QED
    BY <1>1, <1>2, <1>3, <1>7, <2>1, <2>2, AbstractConclusion
<1>8. QED
  BY <1>4, <1>5, <1>7

(* A request put on the wire is a submission of an intent not given up.      *)
LEMMA OneRequest ==
    ASSUME TypeOK, UNCHANGED outbox, NEW k \in Intents, PutOnWire(k), sent[k] = 0,
           order[k] = "none", k \in Orders => outbox[k] \in Uncertain
    PROVE  [Promise!Next]_Promise!vars
<1> USE DEF TypeOK, PutOnWire
<1>1. \A i \in Orders : SameBelief(i)
  BY DEF SameBelief, Belief
<1>2. \A i \in Orders : i # k => SameFate(i)
  BY DEF SameFate, Fate, Orders
<1>3. Orders' = Orders
  BY DEF Orders
<1>4. CASE k \notin Orders
  BY <1>1, <1>2, <1>3, <1>4, AbstractStutter
<1>5. CASE k \in Orders
  <2>1. Fate(k) = "held" /\ Belief(k) = "open"
    BY <1>5 DEF Fate, Belief, Uncertain
  <2>2. sent'[k] # 0 /\ ~(sent'[k] > 1) /\ wire'[k] = "sent" /\ order'[k] = "none"
    OBVIOUS
  <2>3. Fate(k)' = "gone"
    BY <2>2 DEF Fate
  <2>4. QED
    BY <1>1, <1>2, <1>3, <1>5, <2>1, <2>3, AbstractFate
<1>6. QED
  BY <1>4, <1>5

LEMMA VenueRefines ==
    ASSUME IInv, NEW k \in Intents,
           VenueAccepts(k) \/ VenueRefuses(k) \/ VenueFills(k) \/ VenueFinishes(k)
    PROVE  [Promise!Next]_Promise!vars
<1> USE DEF IInv, Safety, RequestInv, TypeOK, store
<1>1. \A i \in Orders : SameBelief(i)
  BY DEF SameBelief, Belief, VenueAccepts, VenueRefuses, VenueFills, VenueFinishes
<1>2. Orders' = Orders
  BY DEF Orders
<1>3. CASE VenueFills(k) \/ VenueFinishes(k)
  <2>1. \A i \in Orders : SameFate(i)
    BY <1>3 DEF SameFate, Fate, Orders, VenueFills, VenueFinishes
  <2>2. QED
    BY <1>1, <1>2, <2>1, AbstractStutter
<1>4. CASE VenueAccepts(k) \/ VenueRefuses(k)
  <2>1. \A i \in Orders : i # k => SameFate(i)
    BY <1>4 DEF SameFate, Fate, Orders, VenueAccepts, VenueRefuses
  <2>2. sent[k] = 1 /\ order[k] = "none" /\ wire[k] = "sent"
    BY <1>4 DEF VenueAccepts, VenueRefuses
  <2>3. Fate(k) = "gone" /\ Fate(k)' \in {"live", "void"}
    BY <1>4, <2>2 DEF Fate, VenueAccepts, VenueRefuses
  <2>4. CASE k \in Orders
    BY <1>1, <1>2, <2>1, <2>3, <2>4, AbstractFate
  <2>5. CASE k \notin Orders
    BY <1>1, <1>2, <2>1, <2>5, AbstractStutter
  <2>6. QED
    BY <2>4, <2>5
<1>5. QED
  BY <1>3, <1>4

LEMMA CoordinatorRefines == IInv /\ Coordinator => [Promise!Next]_Promise!vars
<1> SUFFICES ASSUME IInv, Coordinator PROVE [Promise!Next]_Promise!vars
    OBVIOUS
<1> USE DEF IInv, Safety, venue
<1>1. CASE UNCHANGED <<sent, wire, order, outbox>>
  BY <1>1, SameOutcome
<1>2. CASE PrepareMutation
  <2>1. CASE outbox' = [outbox EXCEPT ![cur] = "prepared"]
    <3>1. cur \in Intents /\ outbox[cur] = "absent"
      BY <1>2 DEF PrepareMutation, HandlerInv
    <3>2. QED
      BY <1>2, <2>1, <3>1, OneRow DEF PrepareMutation, States, Unresolved
  <2>2. QED
    BY <1>1, <1>2, <2>1 DEF PrepareMutation
<1>3. CASE MarkSubmitting
  <2>1. CASE outbox[cur] = "prepared"
    <3>1. cur \in Intents
      BY <1>3 DEF MarkSubmitting, HandlerInv
    <3>2. QED
      BY <1>3, <2>1, <3>1, OneRow DEF MarkSubmitting, States, Unresolved
  <2>2. QED
    BY <1>1, <1>3, <2>1 DEF MarkSubmitting
<1>4. CASE CallVenue
  <2>1. cur \in Intents /\ sent[cur] = 0
    BY <1>4 DEF CallVenue, HandlerInv
  <2>2. order[cur] = "none"
    BY <2>1 DEF RequestInv
  <2>3. cur \in Orders => outbox[cur] \in Uncertain
    BY <1>4 DEF CallVenue, HandlerInv, Orders
  <2>4. QED
    BY <1>4, <2>1, <2>2, <2>3, OneRequest DEF CallVenue, store
<1>5. CASE MarkSubmitted
  <2>1. CASE outbox' = [outbox EXCEPT ![cur] = "submitted"]
    <3>1. cur \in Intents /\ outbox[cur] \in Uncertain \cup {"submitted"} /\ wire[cur] = "accepted"
      BY <1>5 DEF MarkSubmitted, HandlerInv
    <3>2. order[cur] # "none" /\ sent[cur] = 1
      BY <3>1 DEF RequestInv, TypeOK
    <3>3. QED
      BY <1>5, <2>1, <3>1, <3>2, OneRow DEF MarkSubmitted, States, Uncertain, Unresolved
  <2>2. QED
    BY <1>1, <1>5, <2>1 DEF MarkSubmitted
<1>6. CASE ResolveFailure
  <2>1. cur \in Intents
    BY <1>6 DEF ResolveFailure, HandlerInv
  <2>2. CASE out = "rejected" /\ outbox[cur] = "submitting" /\ outbox' = [outbox EXCEPT ![cur] = "rejected"]
    <3>1. wire[cur] \in {"quiet", "rejected"}
      BY <1>6, <2>2 DEF ResolveFailure, HandlerInv
    <3>2. order[cur] = "none" /\ (sent[cur] = 0 \/ (sent[cur] = 1 /\ wire[cur] = "rejected"))
      BY <2>1, <3>1 DEF RequestInv, TypeOK
    <3>3. QED
      BY <1>6, <2>1, <2>2, <3>2, OneRow DEF ResolveFailure, States, Unresolved
  <2>3. CASE outbox[cur] \in Uncertain /\ outbox' = [outbox EXCEPT ![cur] = "ambiguous"]
    BY <1>6, <2>1, <2>3, OneRow DEF ResolveFailure, States, Uncertain, Unresolved
  <2>4. QED
    BY <1>1, <1>6, <2>2, <2>3 DEF ResolveFailure
<1>7. QED
  BY <1>1, <1>2, <1>3, <1>4, <1>5, <1>6
     DEF Coordinator, RegisterIntent, Refuse, Admit, CallFailsLocally, Answered,
         InspectFailure, RecordReceipt, store

LEMMA ReconciliationRefines ==
    IInv /\ (Reconciliation \/ FlattenFails) => [Promise!Next]_Promise!vars
<1> SUFFICES ASSUME IInv, Reconciliation \/ FlattenFails PROVE [Promise!Next]_Promise!vars
    OBVIOUS
<1> USE DEF IInv, Safety, venue
<1>1. CASE UNCHANGED <<sent, wire, order, outbox>>
  BY <1>1, SameOutcome
<1>2. ASSUME NEW i \in Intents, ResolvePrepared(i) PROVE [Promise!Next]_Promise!vars
  <2>1. CASE /\ outbox[i] \in {"prepared", "confirmed_not_submitted"}
             /\ outbox' = [outbox EXCEPT ![i] = "confirmed_not_submitted"]
    <3>1. sent[i] = 0
      BY <2>1 DEF RequestInv, Unsent
    <3>2. QED
      BY <1>2, <2>1, <3>1, OneRow DEF ResolvePrepared, States, Unresolved
  <2>2. QED
    BY <1>1, <1>2, <2>1 DEF ResolvePrepared
<1>3. ASSUME NEW i \in Intents, ResolveUncertain(i) PROVE [Promise!Next]_Promise!vars
  <2>1. CASE outbox' = outbox
    BY <1>1, <1>3, <2>1 DEF ResolveUncertain
  <2>2. outbox[i] \notin Unsent
    <3>1. unres[i] \in Uncertain
      BY <1>3 DEF ResolveUncertain, ListsInv, TypeOK, Unresolved, Uncertain
    <3>2. QED
      BY <3>1 DEF ListsInv
  <2>3. CASE Recovered(i, "submitted", "recovered") /\ Proven(i) /\ outbox[i] # "rejected"
    <3>1. outbox[i] \in Unresolved \cup {"submitted"}
      BY <2>2, <2>3, StateSets DEF TypeOK, States, Unsent, Unresolved
    <3>2. i \in Orders => order[i] # "none" /\ sent[i] = 1
      BY <2>3 DEF Proven, Orders, ListsInv, RequestInv, TypeOK
    <3>3. QED
      BY <1>3, <2>3, <3>1, <3>2, OneRow DEF ResolveUncertain, Recovered, States
  <2>4. CASE Recovered(i, "ambiguous", "ambiguous") /\ outbox[i] \notin Terminal
    <3>1. outbox[i] \in Unresolved
      BY <2>2, <2>4, StateSets DEF TypeOK, States, Unsent, Unresolved, Terminal
    <3>2. QED
      BY <1>3, <2>4, <3>1, OneRow DEF ResolveUncertain, Recovered, States, Unresolved
  <2>5. QED
    BY <1>3, <2>1, <2>3, <2>4 DEF ResolveUncertain, LeftAlone, Terminal
<1>4. CASE FlattenPrepare \/ FlattenSubmitting \/ FlattenAccepted
  <2>1. FlattenId[target] \in Intents /\ FlattenId[target] \notin Orders
    BY <1>4 DEF FlattenPrepare, FlattenSubmitting, FlattenMark, FlattenAccepted,
                FlattenInv, FlattenSteps, Orders, IsClose
  <2>2. QED
    BY <1>4, <2>1, OneRow DEF FlattenPrepare, FlattenSubmitting, FlattenMark, FlattenAccepted, States
<1>5. CASE FlattenCall
  <2>1. /\ FlattenId[target] \in Intents /\ FlattenId[target] \notin Orders
        /\ sent[FlattenId[target]] = 0
    BY <1>5 DEF FlattenCall, FlattenInv, FlattenSteps, Orders, IsClose
  <2>2. order[FlattenId[target]] = "none"
    BY <2>1 DEF RequestInv
  <2>3. QED
    BY <1>5, <2>1, <2>2, OneRequest DEF FlattenCall, store
<1>6. CASE FlattenProvesEntry
  <2>1. /\ target \in Intents /\ order[target] # "none"
        /\ outbox[target] \in {"ambiguous", "submitted"}
    BY <1>6 DEF FlattenProvesEntry, FlattenInv, FlattenSteps
  <2>2. sent[target] = 1
    BY <2>1 DEF RequestInv, TypeOK
  <2>3. QED
    BY <1>6, <2>1, <2>2, OneRow DEF FlattenProvesEntry, States, Unresolved
<1>7. QED
  BY <1>1, <1>2, <1>3, <1>4, <1>5, <1>6
     DEF Reconciliation, StartCycle, FetchPositions, FetchOrders, ReconcileLatch,
         ReconcileReceipts, ListOrphans, ListUnresolved, ListTerminal, SearchOrders,
         SearchAmended, UncertainDone, FlattenRegister, FlattenUnlatch, FlattenDone,
         FlattenFails, PublishOrphan, PublishEnded, PublishResolved, PublishDone, store

(* The execution path implements the abstract promise: each order is put on  *)
(* the wire at most once, and every durable conclusion about it is true when *)
(* it is drawn and stands for good.                                          *)
THEOREM Implementation == Spec => ImplementsSubmitOnce
<1>1. Init => Promise!Init
  BY DEF Init, Promise!Init, Fate, Belief, Orders
<1>2. IInv /\ [Next]_vars => [Promise!Next]_Promise!vars
  <2> SUFFICES ASSUME IInv, [Next]_vars PROVE [Promise!Next]_Promise!vars
      OBVIOUS
  <2>1. CASE Venue
    BY <2>1, VenueRefines DEF Venue
  <2>2. CASE Crash \/ ReadFails \/ UNCHANGED vars
    BY <2>2, SameOutcome DEF Crash, ReadFails, vars, store, venue
  <2>3. QED
    BY <2>1, <2>2, CoordinatorRefines, ReconciliationRefines DEF Next
<1>3. QED
  BY <1>1, <1>2, Invariance, PTL DEF Spec, ImplementsSubmitOnce, Promise!Spec
================================================================================
