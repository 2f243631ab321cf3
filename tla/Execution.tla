------------------------------- MODULE Execution -------------------------------
(***************************************************************************)
(* The path of an intent from Hermes to the venue and back.                *)
(*                                                                         *)
(* Two tasks of the gateway share the durable execution store and          *)
(* interleave at every await: the coordinator, which handles one intent    *)
(* at a time, and the reconciliation cycle, whose recovery repairs what an *)
(* earlier process, or a slow call of this one, left unresolved.  Each     *)
(* store call is one transaction and so one step here; everything a task   *)
(* keeps in local variables is lost in a crash.  The venue is external: a  *)
(* request once sent may be accepted, rejected or lost at any later time,  *)
(* also after the caller gave up or died.                                  *)
(*                                                                         *)
(* Requests, prices and texts are abstracted to the intent's Kind; a       *)
(* receipt to the code that matters.  The provider's order id is left out: *)
(* recovery looks the order up by that id or by the custom tag, and either *)
(* finds the order iff the venue has it.                                   *)
(***************************************************************************)
EXTENDS Naturals

CONSTANTS
    Intents,     \* the intent identities (UUIDs)
    Kind,        \* what each intent asks for, [Intents -> Kinds]
    FlattenId,   \* the deterministic identity of an entry's recovery flatten
    Bodies,      \* semantic bodies an intent can be posted with
    None,        \* no intent, no body
    MaxFaults    \* bound on crashes plus failed provider reads

(* enter: bracketed entry; reduce: partial EXIT (an order without brackets);*)
(* modify: MOVE_STOP, MOVE_TP; close: full EXIT; flatten: the close that    *)
(* recovery itself issues for an entry it owns.                             *)
Kinds == {"enter", "reduce", "modify", "close", "flatten"}

ASSUME IntentsAssumption == None \notin Intents /\ None \notin Bodies
ASSUME KindAssumption == Kind \in [Intents -> Kinds]
ASSUME FlattenAssumption ==
    /\ FlattenId \in [Intents -> Intents \cup {None}]
    /\ \A e \in Intents :
         FlattenId[e] # None => Kind[FlattenId[e]] = "flatten"
ASSUME FaultsAssumption == MaxFaults \in Nat

IsEntry(i) == Kind[i] = "enter"
IsPlace(i) == Kind[i] \in {"enter", "reduce"}
IsClose(i) == Kind[i] \in {"close", "flatten"}

Unresolved == {"prepared", "submitting", "ambiguous"}
Uncertain  == {"submitting", "ambiguous"}
Terminal   == {"submitted", "confirmed_not_submitted", "rejected"}
MutationStates == Unresolved \cup Terminal

(* Receipt codes, by the writer: the coordinator ...                        *)
LiveCodes == {"entry_pending", "reduce_pending", "amend_pending", "closed",
              "mutation_rejected", "ambiguous", "refused", "body_conflict"}
(* ... recovery, and the reconciliation of pending receipts.                *)
RecoveredCodes == {"not_submitted", "rejection_recovered", "recovered",
                   "ambiguous"}
Codes == LiveCodes \cup RecoveredCodes \cup {"reconciled"}

VARIABLES
    \* The execution store (SQLite, survives a crash).
    registered,  \* intents: the body an intent was claimed with
    outbox,      \* execution_outbox: the state of an intent's mutation
    receipt,     \* execution_receipts: one row per intent
    latch,       \* runtime_meta entry_submission_latch
    \* The venue and the network.
    sent,        \* requests put on the wire for an intent
    wire,        \* what became of the request
    order,       \* what the venue did with it
    \* Ages, as the reconciliation last measured them.
    aged,        \* submitting for at least 15 s
    stale,       \* the latch's entry: submitted for the stale-latch ceiling
    \* The coordinator's handler.
    cpc, cur, out,
    \* The reconciliation cycle and recovery.
    phase, rpc, posSeen, ordSeen,
    orphans, unres, ended, hist, res, target,
    faults       \* crashes and failed reads so far (a bound of the model)

store == <<registered, outbox, receipt, latch>>
venue == <<sent, wire, order>>
clock == <<aged, stale>>
coord == <<cpc, cur, out>>
snap  == <<posSeen, ordSeen>>
work  == <<orphans, unres, ended, hist, res, target>>
recov == <<phase, rpc, snap, work>>
vars  == <<store, venue, clock, coord, recov, faults>>

-----------------------------------------------------------------------------
(* What the store and the venue answer.                                     *)

(* Faulty: only the latch blocks, not the unresolved rows of the outbox.     *)
BlockedByLatchOnly == latch # None

(* recoveryStatus().blockingNewExposure; the unprotected-flatten block is    *)
(* another reason to refuse, and Refuse below is always possible.            *)
BlockingNewExposure ==
    latch # None \/ \E i \in Intents : outbox[i] \in Uncertain

(* The configured contract has an open position.                            *)
PositionOpen == \E i \in Intents : IsEntry(i) /\ order[i] = "filled"

(* What searchOpenOrders shows: working entries, and amended legs.          *)
OpenOrders == {i \in Intents :
                 \/ IsEntry(i) /\ order[i] = "working"
                 \/ Kind[i] = "modify" /\ order[i] # "none"}

(* What the historical search shows: the orders placed, the amendments made. *)
Placed  == {i \in Intents : IsPlace(i) /\ order[i] # "none"}
Amended == {i \in Intents : Kind[i] = "modify" /\ order[i] # "none"}

OrphanIntents == {i \in Intents :
    registered[i] # None /\ outbox[i] = "absent" /\ receipt[i] = "absent"}

(* Faulty: only submitted mutations are looked up for a missing receipt.     *)
SubmittedWithoutReceipt == {i \in Intents :
    outbox[i] = "submitted" /\ receipt[i] = "absent"}

TerminalWithoutReceipt == {i \in Intents :
    outbox[i] \in Terminal /\ receipt[i] = "absent"}

(* The clearing half of transitionMutation: the latch row is deleted only    *)
(* where it names this intent.                                               *)
ClearLatchOf(i) == latch' = IF latch = i THEN None ELSE latch

-----------------------------------------------------------------------------
NoWork ==
    /\ orphans = {} /\ ended = {} /\ hist = {} /\ target = None
    /\ unres = [i \in Intents |-> "none"]
    /\ res = [i \in Intents |-> "none"]

NoWorkNext ==
    /\ orphans' = {} /\ ended' = {} /\ hist' = {} /\ target' = None
    /\ unres' = [i \in Intents |-> "none"]
    /\ res' = [i \in Intents |-> "none"]

NoSnapNext ==
    /\ posSeen' = FALSE /\ ordSeen' = {}

Init ==
    /\ registered = [i \in Intents |-> None]
    /\ outbox = [i \in Intents |-> "absent"]
    /\ receipt = [i \in Intents |-> "absent"]
    /\ latch = None
    /\ sent = [i \in Intents |-> 0]
    /\ wire = [i \in Intents |-> "quiet"]
    /\ order = [i \in Intents |-> "none"]
    /\ aged = {} /\ stale = {}
    /\ cpc = "idle" /\ cur = None /\ out = "none"
    /\ phase = "starting" /\ rpc = "fetch"
    /\ posSeen = FALSE /\ ordSeen = {}
    /\ NoWork
    /\ faults = 0

-----------------------------------------------------------------------------
(* The coordinator.                                                         *)

(* The handler ends without a receipt: an exception reached the HTTP layer. *)
Throw == cpc' = "idle" /\ cur' = None /\ out' = "none"
(* Faulty: the receipt is concluded without the intent's identity.           *)
ConcludeNobody(code) == cpc' = "record" /\ out' = code /\ cur' = None
(* The handler is about to record a receipt.                                *)
Conclude(code) == cpc' = "record" /\ out' = code /\ UNCHANGED cur

(* Faulty: the same body again is claimed again.                            *)
RegisterIntentAgain(i, b) ==
    /\ phase = "ready" /\ cpc = "idle" /\ Kind[i] # "flatten"
    /\ registered[i] \in {None, b}
    /\ registered' = [registered EXCEPT ![i] = b]
    /\ cpc' = "claimed" /\ out' = "none" /\ cur' = i
    /\ UNCHANGED <<outbox, receipt, latch, venue, clock, recov, faults>>

(* registerIntent: a new identity is claimed; the same identity with another *)
(* body is a conflict, which the handler then records like any rejection.    *)
(* The same body again replays the stored receipt and changes nothing.       *)
RegisterIntent(i, b) ==
    /\ phase = "ready" /\ cpc = "idle" /\ Kind[i] # "flatten"
    /\ \/ /\ registered[i] = None
          /\ registered' = [registered EXCEPT ![i] = b]
          /\ cpc' = "claimed" /\ out' = "none"
       \/ /\ registered[i] \notin {None, b}
          /\ cpc' = "record" /\ out' = "body_conflict"
          /\ UNCHANGED registered
    /\ cur' = i
    /\ UNCHANGED <<outbox, receipt, latch, venue, clock, recov, faults>>

(* Every admission and risk check may refuse: unknown packet, disabled,      *)
(* paused, blocked by recovery, risk, portfolio, shadow mode, no position.   *)
Refuse ==
    /\ cpc \in {"claimed", "admitted"}
    /\ Conclude("refused")
    /\ UNCHANGED <<store, venue, clock, recov, faults>>

(* Faulty: admitted without the recovery check.                              *)
AdmitAnyway ==
    /\ cpc = "claimed"
    /\ cpc' = "admitted"
    /\ UNCHANGED <<cur, out, store, venue, clock, recov, faults>>

(* The last admission check of an entry reads the recovery status; exits and *)
(* amendments are handed over before it, and need a position in the packet   *)
(* they answer, which is older than the call.                                *)
Admit ==
    /\ cpc = "claimed"
    /\ IF IsEntry(cur) THEN ~BlockingNewExposure
                       ELSE \E j \in Intents : IsEntry(j) /\ order[j] \in {"filled", "done"}
    /\ cpc' = "admitted"
    /\ UNCHANGED <<cur, out, store, venue, clock, recov, faults>>

(* prepareMutation: an order is refused while the latch is set.  Only the    *)
(* entry path catches that; for a partial exit the handler throws.           *)
PrepareMutation ==
    /\ cpc = "admitted"
    /\ IF IsPlace(cur) /\ latch # None
         THEN /\ IF IsEntry(cur) THEN Conclude("refused") ELSE Throw
              /\ UNCHANGED <<outbox, latch>>
         ELSE /\ outbox' = [outbox EXCEPT ![cur] = "prepared"]
              /\ latch' = IF IsEntry(cur) THEN cur ELSE latch
              /\ cpc' = "prepared" /\ UNCHANGED <<cur, out>>
    /\ UNCHANGED <<registered, receipt, venue, clock, recov, faults>>

(* markMutationSubmitting: fails when recovery has resolved the prepared row.*)
MarkSubmitting ==
    /\ cpc = "prepared"
    /\ IF outbox[cur] = "prepared"
         THEN /\ outbox' = [outbox EXCEPT ![cur] = "submitting"]
              /\ cpc' = "sending" /\ UNCHANGED <<cur, out>>
         ELSE /\ IF IsEntry(cur) THEN Conclude("refused") ELSE Throw
              /\ UNCHANGED outbox
    /\ UNCHANGED <<registered, receipt, latch, venue, clock, recov, faults>>

(* The provider call: one request, never retried (a mutation path).          *)
PutOnWire(i) ==
    /\ sent' = [sent EXCEPT ![i] = @ + 1]
    /\ wire' = [wire EXCEPT ![i] = "sent"]
    /\ UNCHANGED order

CallVenue ==
    /\ cpc = "sending"
    /\ PutOnWire(cur)
    /\ cpc' = "awaiting"
    /\ UNCHANGED <<cur, out, store, clock, recov, faults>>

(* The call fails before a byte is sent: no session token (an authoritative  *)
(* refusal) or the operation deadline passed at the REST gate.               *)
CallFailsLocally ==
    /\ cpc = "sending"
    /\ \E why \in {"rejected", "unknown"} : out' = why
    /\ cpc' = "failed"
    /\ UNCHANGED <<cur, store, venue, clock, recov, faults>>

(* The answer arrives, or does not: a timeout, a 5xx or an unreadable body   *)
(* says nothing about the venue.                                             *)
Answered ==
    /\ cpc = "awaiting"
    /\ \/ wire[cur] = "accepted" /\ cpc' = "accepted" /\ UNCHANGED out
       \/ wire[cur] = "rejected" /\ cpc' = "failed" /\ out' = "rejected"
       \/ cpc' = "failed" /\ out' = "unknown"
    /\ UNCHANGED <<cur, store, venue, clock, recov, faults>>

PendingCode(i) ==
    CASE IsEntry(i)            -> "entry_pending"
      [] Kind[i] = "reduce"    -> "reduce_pending"
      [] Kind[i] = "modify"    -> "amend_pending"
      [] OTHER                 -> "closed"

(* markMutationSubmitted after the venue accepted; recovery may have got     *)
(* there first, which is a no-op.                                            *)
MarkSubmitted ==
    /\ cpc = "accepted"
    /\ IF outbox[cur] \in Uncertain \cup {"submitted"}
         THEN outbox' = [outbox EXCEPT ![cur] = "submitted"] /\ Conclude(PendingCode(cur))
         ELSE cpc' = "failed" /\ out' = "unknown" /\ UNCHANGED <<cur, outbox>>
    /\ UNCHANGED <<registered, receipt, latch, venue, clock, recov, faults>>

(* recordMutationFailure, first half: when recovery already proved the       *)
(* mutation submitted, the receipt says so.  An order gets the partial-exit  *)
(* code there, whichever order it is.                                        *)
InspectFailure ==
    /\ cpc = "failed"
    /\ IF outbox[cur] = "submitted"
         THEN Conclude(CASE IsPlace(cur)         -> "reduce_pending"
                         [] Kind[cur] = "modify" -> "amend_pending"
                         [] OTHER                -> "closed")
         ELSE cpc' = "failing" /\ UNCHANGED <<cur, out>>
    /\ UNCHANGED <<store, venue, clock, recov, faults>>

(* Faulty: a transport failure is recorded like a rejection.                 *)
ResolveAnyFailureAsRejection ==
    /\ cpc = "failing"
    /\ IF outbox[cur] = "submitting"
         THEN /\ outbox' = [outbox EXCEPT ![cur] = "rejected"]
              /\ ClearLatchOf(cur) /\ Conclude("mutation_rejected")
         ELSE Throw /\ UNCHANGED <<outbox, latch>>
    /\ UNCHANGED <<registered, receipt, venue, clock, recov, faults>>

(* Second half: an authoritative rejection is recorded only from submitting, *)
(* anything else leaves the mutation ambiguous; a store error throws.        *)
ResolveFailure ==
    /\ cpc = "failing"
    /\ \/ /\ out = "rejected" /\ outbox[cur] = "submitting"
          /\ outbox' = [outbox EXCEPT ![cur] = "rejected"]
          /\ ClearLatchOf(cur)
          /\ Conclude("mutation_rejected")
       \/ /\ out = "unknown" /\ outbox[cur] \in Uncertain
          /\ outbox' = [outbox EXCEPT ![cur] = "ambiguous"]
          /\ Conclude("ambiguous")
          /\ UNCHANGED latch
       \/ /\ outbox[cur] \notin (IF out = "rejected" THEN {"submitting"} ELSE Uncertain)
          /\ Throw
          /\ UNCHANGED <<outbox, latch>>
    /\ UNCHANGED <<registered, receipt, venue, clock, recov, faults>>

(* recordReceipt replaces whatever row the intent had.                       *)
RecordReceipt ==
    /\ cpc = "record"
    /\ receipt' = [receipt EXCEPT ![cur] = out]
    /\ Throw
    /\ UNCHANGED <<registered, outbox, latch, venue, clock, recov, faults>>

Coordinator ==
    \/ \E i \in Intents, b \in Bodies : RegisterIntent(i, b)
    \/ Refuse \/ Admit \/ PrepareMutation \/ MarkSubmitting \/ CallVenue
    \/ CallFailsLocally \/ Answered \/ MarkSubmitted \/ InspectFailure
    \/ ResolveFailure \/ RecordReceipt

-----------------------------------------------------------------------------
(* The reconciliation cycle.  At startup the same recovery runs once, before *)
(* the coordinator accepts anything: fetch, recovery, receipts, latch.       *)

StartCycle ==
    /\ phase = "ready" /\ rpc = "idle"
    /\ rpc' = "fetch"
    /\ UNCHANGED <<phase, snap, work, store, venue, clock, coord, faults>>

AfterFetch == IF phase = "starting" THEN "orphans" ELSE "latch"

(* By the time the first read returns, the entry that holds the latch may    *)
(* have been submitted for longer than the stale-latch ceiling.              *)
MeasureStale ==
    IF rpc = "fetch"
      THEN \E S \in SUBSET {i \in Intents : i = latch /\ outbox[i] = "submitted"} :
             stale \cap {latch} \subseteq S /\ stale' = S
      ELSE UNCHANGED stale

(* Positions and open orders are two concurrent requests.                    *)
FetchPositions ==
    /\ rpc \in {"fetch", "positions"}
    /\ posSeen' = PositionOpen
    /\ MeasureStale
    /\ rpc' = IF rpc = "fetch" THEN "orders" ELSE AfterFetch
    /\ UNCHANGED <<aged, phase, ordSeen, work, store, venue, coord, faults>>

FetchOrders ==
    /\ rpc \in {"fetch", "orders"}
    /\ ordSeen' = OpenOrders
    /\ MeasureStale
    /\ rpc' = IF rpc = "fetch" THEN "positions" ELSE AfterFetch
    /\ UNCHANGED <<aged, phase, posSeen, work, store, venue, coord, faults>>

(* reconcileEntrySubmissionLatch: the latch goes when any position is seen,  *)
(* when its own order is, or when its entry was submitted long ago and the   *)
(* venue shows neither.  At startup this comes last.                         *)
LatchSettledByVenueOnly(i) == posSeen \/ i \in ordSeen  \* faulty: no ceiling
LatchSettled(i) ==
    \/ posSeen
    \/ i \in ordSeen
    \/ outbox[i] = "submitted" /\ i \in stale

ReconcileLatch ==
    /\ rpc = "latch"
    /\ latch' = IF latch # None /\ LatchSettled(latch) THEN None ELSE latch
    /\ phase' = "ready"
    /\ rpc' = IF phase = "starting" THEN "idle" ELSE "receipts"
    /\ IF phase = "starting" THEN NoSnapNext ELSE UNCHANGED snap
    /\ UNCHANGED work
    /\ UNCHANGED <<registered, outbox, receipt, venue, clock, coord, faults>>

(* reconcilePendingReceipts: an entry's receipt settles once a position is   *)
(* open with proven protection (which the model leaves to chance), a partial *)
(* exit's when the remaining size fits, an amendment's when the venue shows  *)
(* the new price.                                                            *)
Settleable == {i \in Intents :
    \/ receipt[i] = "entry_pending" /\ posSeen
    \/ receipt[i] = "reduce_pending" /\ Kind[i] = "reduce" /\ posSeen
    \/ receipt[i] = "amend_pending" /\ i \in ordSeen}

ReconcileReceipts ==
    /\ rpc = "receipts"
    /\ \E S \in SUBSET Settleable :
         receipt' = [i \in Intents |-> IF i \in S THEN "reconciled" ELSE receipt[i]]
    /\ rpc' = "orphans"
    /\ UNCHANGED <<phase, snap, work>>
    /\ UNCHANGED <<registered, outbox, latch, venue, clock, coord, faults>>

(* recoverExecutionMutations takes the time it measures ages against and     *)
(* bounds its order search by (hist already holds what that search can show),*)
(* then reads its three work lists one after another; with nothing in them   *)
(* it is done.                                                               *)
Submitting == {i \in Intents : outbox[i] = "submitting"}

ListOrphans ==
    /\ rpc = "orphans"
    /\ orphans' = OrphanIntents
    /\ \E A \in SUBSET Submitting : aged \cap Submitting \subseteq A /\ aged' = A
    /\ hist' = Placed
    /\ rpc' = "unresolved"
    /\ UNCHANGED <<stale, phase, snap, unres, ended, res, target>>
    /\ UNCHANGED <<store, venue, coord, faults>>

ListUnresolved ==
    /\ rpc = "unresolved"
    /\ unres' = [i \in Intents |-> IF outbox[i] \in Unresolved THEN outbox[i] ELSE "none"]
    /\ rpc' = "ended"
    /\ UNCHANGED <<phase, snap, orphans, ended, hist, res, target>>
    /\ UNCHANGED <<store, venue, clock, coord, faults>>

ListTerminal ==
    /\ rpc = "ended"
    /\ ended' = TerminalWithoutReceipt
    /\ rpc' = IF \E i \in Intents : i \in orphans \cup ended' \/ unres[i] # "none"
                THEN "prepared" ELSE "publish"
    /\ UNCHANGED <<phase, snap, orphans, unres, hist, res, target>>
    /\ UNCHANGED <<store, venue, clock, coord, faults>>

(* A failed cycle forgets what it was about to publish and is run again by   *)
(* the timer; a failed startup ends the process, which is started again.     *)
AbandonCycle ==
    /\ rpc' = IF phase = "starting" THEN "fetch" ELSE "idle"
    /\ UNCHANGED phase /\ NoSnapNext /\ NoWorkNext

(* Faulty: the listed row is closed without looking at what it has become.   *)
ResolvePreparedUnchecked(i) ==
    /\ rpc = "prepared" /\ unres[i] = "prepared"
    /\ outbox' = [outbox EXCEPT ![i] = "confirmed_not_submitted"]
    /\ ClearLatchOf(i)
    /\ unres' = [unres EXCEPT ![i] = "none"]
    /\ res' = [res EXCEPT ![i] = "not_submitted"]
    /\ UNCHANGED <<phase, rpc, snap, orphans, ended, hist, target>>
    /\ UNCHANGED <<registered, receipt, venue, clock, coord, faults>>

(* markMutationConfirmedNotSubmitted: throws when the coordinator went on    *)
(* with the mutation after it was listed.                                    *)
ResolvePrepared(i) ==
    /\ rpc = "prepared" /\ unres[i] = "prepared"
    /\ IF outbox[i] \in {"prepared", "confirmed_not_submitted"}
         THEN /\ outbox' = [outbox EXCEPT ![i] = "confirmed_not_submitted"]
              /\ IF outbox[i] = "prepared" THEN ClearLatchOf(i) ELSE UNCHANGED latch
              /\ unres' = [unres EXCEPT ![i] = "none"]
              /\ res' = [res EXCEPT ![i] = "not_submitted"]
              /\ UNCHANGED <<phase, rpc, snap, orphans, ended, hist, target>>
         ELSE AbandonCycle /\ UNCHANGED <<outbox, latch>>
    /\ UNCHANGED <<registered, receipt, venue, clock, coord, faults>>

(* The venue is searched for uncertain orders, and again for uncertain       *)
(* amendments unless the first search found something.                       *)
SearchNeeded(I) == \E i \in I : unres[i] # "none"
Places   == {i \in Intents : IsPlace(i)}
Modifies == {i \in Intents : Kind[i] = "modify"}

SearchOrders ==
    /\ rpc = "prepared" /\ \A i \in Intents : unres[i] # "prepared"
    /\ hist' = IF SearchNeeded(Places) THEN hist \cup Amended ELSE {}
    /\ rpc' = "uncertain"
    /\ UNCHANGED <<phase, snap, orphans, unres, ended, res, target>>
    /\ UNCHANGED <<store, venue, clock, coord, faults>>

SearchAmended ==
    /\ rpc = "uncertain" /\ ~SearchNeeded(Places)
    /\ hist' = IF SearchNeeded(Modifies) /\ hist = {} THEN Placed \cup Amended ELSE hist
    /\ rpc' = "amended"
    /\ UNCHANGED <<phase, snap, orphans, unres, ended, res, target>>
    /\ UNCHANGED <<store, venue, clock, coord, faults>>

(* Faulty: any order found in the history is taken for this intent's.        *)
ProvenByAnyOrder(i) == IF IsClose(i) THEN ~posSeen ELSE hist # {}

(* What the evidence at hand says of an uncertain mutation: an order or an   *)
(* amendment is found or not, a close is judged by the fetched position.     *)
Proven(i) == IF IsClose(i) THEN ~posSeen ELSE i \in hist

(* Faulty: an order still submitting is always left to the coordinator.      *)
AlwaysYoung(i) == IsPlace(i) /\ outbox[i] = "submitting"

(* An order still submitting and younger than 15 s may be in the coordinator's*)
(* hands and is left alone; amendments and closes have no such guard.        *)
TooYoung(i) == IsPlace(i) /\ outbox[i] = "submitting" /\ i \notin aged

Recovered(i, state, code) ==
    /\ outbox' = [outbox EXCEPT ![i] = state]
    /\ unres' = [unres EXCEPT ![i] = "none"]
    /\ res' = [res EXCEPT ![i] = code]
    /\ UNCHANGED <<phase, rpc, snap, orphans, ended, hist, target>>

LeftAlone(i) ==
    /\ unres' = [unres EXCEPT ![i] = "none"]
    /\ UNCHANGED <<outbox, phase, rpc, snap, orphans, ended, hist, res, target>>

(* One uncertain mutation: orders first, then amendments, then closes.  The   *)
(* row is read again and then marked; when the coordinator concludes it       *)
(* between the two, marking it submitted changes nothing and marking it       *)
(* ambiguous throws.                                                          *)
ResolveUncertain(i) ==
    /\ unres[i] # "none"
    /\ rpc = IF IsPlace(i) THEN "uncertain" ELSE "amended"
    /\ IsClose(i) => ~SearchNeeded(Modifies)
    /\ IF outbox[i] \in Terminal
         THEN \/ LeftAlone(i)
              \/ Proven(i) /\ outbox[i] = "submitted" /\ Recovered(i, "submitted", "recovered")
              \/ ~Proven(i) /\ AbandonCycle /\ UNCHANGED outbox
         ELSE \/ TooYoung(i) /\ LeftAlone(i)
              \/ ~TooYoung(i) /\ Proven(i) /\ Recovered(i, "submitted", "recovered")
              \/ ~TooYoung(i) /\ ~Proven(i) /\ Recovered(i, "ambiguous", "ambiguous")
    /\ UNCHANGED <<registered, receipt, latch, venue, clock, coord, faults>>

UncertainDone ==
    /\ rpc = "amended" /\ ~SearchNeeded(Intents)
    /\ rpc' = "flatten"
    /\ UNCHANGED <<phase, snap, work, store, venue, clock, coord, faults>>

-----------------------------------------------------------------------------
(* attemptBoundedRecoveryFlattens: an ambiguous order that the evidence      *)
(* proves ours is flattened, once, under an identity derived from its own.   *)
Flattenable == {e \in Intents :
    /\ IsPlace(e) /\ FlattenId[e] # None
    /\ outbox[e] = "ambiguous" /\ e \in hist \cup ordSeen
    /\ outbox[FlattenId[e]] = "absent"}

FlattenRegister(e) ==
    /\ rpc = "flatten" /\ posSeen /\ e \in Flattenable
    /\ target' = e
    /\ \E b \in Bodies : registered' = [registered EXCEPT ![FlattenId[e]] = IF @ = None THEN b ELSE @]
    /\ rpc' = "flatten_registered"
    /\ UNCHANGED <<phase, snap, orphans, unres, ended, hist, res>>
    /\ UNCHANGED <<outbox, receipt, latch, venue, clock, coord, faults>>

FlattenMark(from, to, state) ==
    /\ rpc = from
    /\ outbox' = [outbox EXCEPT ![FlattenId[target]] = state]
    /\ rpc' = to
    /\ UNCHANGED <<phase, snap, work>>
    /\ UNCHANGED <<registered, receipt, latch, venue, clock, coord, faults>>

FlattenPrepare == FlattenMark("flatten_registered", "flatten_prepared", "prepared")
FlattenSubmitting == FlattenMark("flatten_prepared", "flatten_sending", "submitting")

FlattenCall ==
    /\ rpc = "flatten_sending"
    /\ PutOnWire(FlattenId[target])
    /\ rpc' = "flatten_awaiting"
    /\ UNCHANGED <<phase, snap, work, store, clock, coord, faults>>

(* Anything but an acceptance is an exception and ends the whole cycle, also *)
(* one raised before the request is sent.                                    *)
FlattenFails ==
    /\ rpc \in {"flatten_sending", "flatten_awaiting"}
    /\ AbandonCycle
    /\ UNCHANGED <<store, venue, clock, coord, faults>>

FlattenAccepted ==
    /\ rpc = "flatten_awaiting" /\ wire[FlattenId[target]] = "accepted"
    /\ outbox' = [outbox EXCEPT ![FlattenId[target]] = "submitted"]
    /\ rpc' = "flatten_accepted"
    /\ UNCHANGED <<phase, snap, work>>
    /\ UNCHANGED <<registered, receipt, latch, venue, clock, coord, faults>>

(* The entry is thereby proven too, and its latch goes (a call of its own).  *)
FlattenProvesEntry ==
    /\ rpc = "flatten_accepted"
    /\ outbox' = [outbox EXCEPT ![target] = "submitted"]
    /\ res' = [res EXCEPT ![target] = "recovered", ![FlattenId[target]] = "recovered"]
    /\ rpc' = "flatten_unlatch"
    /\ UNCHANGED <<phase, snap, orphans, unres, ended, hist, target>>
    /\ UNCHANGED <<registered, receipt, latch, venue, clock, coord, faults>>

FlattenUnlatch ==
    /\ rpc = "flatten_unlatch"
    /\ ClearLatchOf(target)
    /\ target' = None
    /\ rpc' = "flatten"
    /\ UNCHANGED <<phase, snap, orphans, unres, ended, hist, res>>
    /\ UNCHANGED <<registered, outbox, receipt, venue, clock, coord, faults>>

FlattenDone ==
    /\ rpc = "flatten" /\ (posSeen => Flattenable = {})
    /\ rpc' = "publish"
    /\ UNCHANGED <<phase, snap, work, store, venue, clock, coord, faults>>

-----------------------------------------------------------------------------
(* persistRecoveryResolutions: orphans, then finished mutations without a    *)
(* receipt, then what this cycle resolved; each row replaces what is there.  *)
EndedCode(i) ==
    CASE outbox[i] = "confirmed_not_submitted" -> "not_submitted"
      [] outbox[i] = "rejected"                -> "rejection_recovered"
      [] OTHER                                 -> "recovered"

PublishOrphan(i) ==
    /\ rpc = "publish" /\ i \in orphans
    /\ receipt' = [receipt EXCEPT ![i] = "not_submitted"]
    /\ orphans' = orphans \ {i}
    /\ UNCHANGED <<phase, rpc, snap, unres, ended, hist, res, target>>
    /\ UNCHANGED <<registered, outbox, latch, venue, clock, coord, faults>>

PublishEnded(i) ==
    /\ rpc = "publish" /\ orphans = {} /\ i \in ended
    /\ receipt' = [receipt EXCEPT ![i] = EndedCode(i)]
    /\ ended' = ended \ {i}
    /\ UNCHANGED <<phase, rpc, snap, orphans, unres, hist, res, target>>
    /\ UNCHANGED <<registered, outbox, latch, venue, clock, coord, faults>>

PublishResolved(i) ==
    /\ rpc = "publish" /\ orphans = {} /\ ended = {} /\ res[i] # "none"
    /\ receipt' = [receipt EXCEPT ![i] = res[i]]
    /\ res' = [res EXCEPT ![i] = "none"]
    /\ UNCHANGED <<phase, rpc, snap, orphans, unres, ended, hist, target>>
    /\ UNCHANGED <<registered, outbox, latch, venue, clock, coord, faults>>

PublishDone ==
    /\ rpc = "publish" /\ orphans = {} /\ ended = {}
    /\ \A i \in Intents : res[i] = "none"
    /\ NoWorkNext
    /\ UNCHANGED phase
    /\ IF phase = "starting"
         THEN rpc' = "latch" /\ UNCHANGED snap
         ELSE rpc' = "idle" /\ NoSnapNext
    /\ UNCHANGED <<store, venue, clock, coord, faults>>

Reconciliation ==
    \/ StartCycle \/ FetchPositions \/ FetchOrders \/ ReconcileLatch
    \/ ReconcileReceipts \/ ListOrphans \/ ListUnresolved \/ ListTerminal
    \/ \E i \in Intents : ResolvePrepared(i) \/ ResolveUncertain(i)
    \/ SearchOrders \/ SearchAmended \/ UncertainDone
    \/ \E e \in Intents : FlattenRegister(e)
    \/ FlattenPrepare \/ FlattenSubmitting \/ FlattenCall \/ FlattenAccepted
    \/ FlattenProvesEntry \/ FlattenUnlatch \/ FlattenDone
    \/ \E i \in Intents : PublishOrphan(i) \/ PublishEnded(i) \/ PublishResolved(i)
    \/ PublishDone

-----------------------------------------------------------------------------
(* The venue and the faults.                                                 *)

VenueAccepts(i) ==
    /\ wire[i] = "sent"
    /\ wire' = [wire EXCEPT ![i] = "accepted"]
    /\ order' = IF IsClose(i)
                  THEN [j \in Intents |-> IF j = i \/ order[j] = "filled"
                                            THEN "done" ELSE order[j]]
                  ELSE [order EXCEPT ![i] = IF IsEntry(i) THEN "working" ELSE "done"]
    /\ UNCHANGED <<sent, store, clock, coord, recov, faults>>

VenueRefuses(i) ==
    /\ wire[i] = "sent"
    /\ \E fate \in {"rejected", "lost"} : wire' = [wire EXCEPT ![i] = fate]
    /\ UNCHANGED <<sent, order, store, clock, coord, recov, faults>>

(* A working entry fills; an order is cancelled or a bracket closes the lot. *)
VenueFills(i) ==
    /\ order[i] = "working"
    /\ order' = [order EXCEPT ![i] = "filled"]
    /\ UNCHANGED <<sent, wire, store, clock, coord, recov, faults>>

VenueFinishes(i) ==
    /\ order[i] \in {"working", "filled"}
    /\ order' = [order EXCEPT ![i] = "done"]
    /\ UNCHANGED <<sent, wire, store, clock, coord, recov, faults>>

Venue == \E i \in Intents :
    VenueAccepts(i) \/ VenueRefuses(i) \/ VenueFills(i) \/ VenueFinishes(i)

(* The process dies and a new one starts: the store, the venue and requests  *)
(* on the wire remain, the tasks' local state does not.                      *)
Crash ==
    /\ faults < MaxFaults
    /\ faults' = faults + 1
    /\ cpc' = "idle" /\ cur' = None /\ out' = "none"
    /\ phase' = "starting" /\ rpc' = "fetch"
    /\ NoSnapNext /\ NoWorkNext
    /\ UNCHANGED <<store, venue, clock>>

(* A read of the venue fails: the fetches or one of the historical searches. *)
ReadFails ==
    /\ faults < MaxFaults
    /\ \/ rpc \in {"fetch", "orders", "positions"}
       \/ rpc = "prepared" /\ (\A i \in Intents : unres[i] # "prepared") /\ SearchNeeded(Places)
       \/ rpc = "uncertain" /\ ~SearchNeeded(Places) /\ SearchNeeded(Modifies) /\ hist = {}
    /\ faults' = faults + 1
    /\ AbandonCycle
    /\ UNCHANGED <<store, venue, clock, coord>>

Next ==
    \/ Coordinator \/ Reconciliation \/ Venue
    \/ FlattenFails \/ Crash \/ ReadFails

Spec == Init /\ [][Next]_vars

(* Promise continuations run, the reconciliation timer fires, calls time     *)
(* out, and time passes: what stays submitting, or latched, gets old.        *)
(* Nothing is assumed of Hermes, of the venue's decisions or of the faults.  *)
HandlerStep ==
    \/ Refuse \/ Admit \/ PrepareMutation \/ MarkSubmitting \/ CallVenue
    \/ CallFailsLocally \/ Answered \/ MarkSubmitted \/ InspectFailure
    \/ ResolveFailure \/ RecordReceipt

Fairness ==
    /\ WF_vars(HandlerStep)
    /\ WF_vars(Reconciliation \/ FlattenFails)
    /\ SF_vars(ListOrphans /\ aged' = Submitting)
    /\ SF_vars((FetchPositions \/ FetchOrders) /\ latch \in stale')

FairSpec == Spec /\ Fairness

-----------------------------------------------------------------------------
(* The type invariant: every row, task variable and venue fact stays in its  *)
(* range.                                                                    *)
Work == Intents \cup {None}

TypeOK ==
    /\ registered \in [Intents -> Bodies \cup {None}]
    /\ outbox \in [Intents -> MutationStates \cup {"absent"}]
    /\ receipt \in [Intents -> Codes \cup {"absent"}]
    /\ latch \in Work
    /\ sent \in [Intents -> Nat]
    /\ wire \in [Intents -> {"quiet", "sent", "accepted", "rejected", "lost"}]
    /\ order \in [Intents -> {"none", "working", "filled", "done"}]
    /\ aged \subseteq Intents /\ stale \subseteq Intents
    /\ cpc \in {"idle", "claimed", "admitted", "prepared", "sending", "awaiting",
                "accepted", "failed", "failing", "record"}
    /\ cur \in Work /\ (cpc # "idle" => cur \in Intents)
    /\ out \in LiveCodes \cup {"none", "rejected", "unknown"}
    /\ cpc = "record" => out \in LiveCodes
    /\ phase \in {"starting", "ready"}
    /\ rpc \in {"idle", "fetch", "orders", "positions", "latch", "receipts", "orphans",
                "unresolved", "ended", "prepared", "uncertain", "amended", "flatten",
                "flatten_registered", "flatten_prepared", "flatten_sending",
                "flatten_awaiting", "flatten_accepted", "flatten_unlatch", "publish"}
    /\ posSeen \in BOOLEAN /\ ordSeen \subseteq Intents
    /\ orphans \subseteq Intents /\ ended \subseteq Intents /\ hist \subseteq Intents
    /\ unres \in [Intents -> Unresolved \cup {"none"}]
    /\ res \in [Intents -> RecoveredCodes \cup {"none"}]
    /\ target \in Work
    /\ faults \in 0 .. MaxFaults

(* No intent's request is put on the wire twice: not by a replay, not by     *)
(* recovery, not after a crash between any two steps of the handler, and no  *)
(* entry is flattened twice by recovery.                                     *)
SubmittedAtMostOnce == \A i \in Intents : sent[i] <= 1

(* What the outbox concludes is true of the venue, for good: not submitted   *)
(* means nothing was or ever will be sent; rejected means the venue has no   *)
(* order and no request is under way; submitted means the venue has it.      *)
OutboxTellsTheTruth ==
    \A i \in Intents :
      /\ outbox[i] = "confirmed_not_submitted" => sent[i] = 0
      /\ outbox[i] = "rejected" => order[i] = "none" /\ wire[i] # "sent"
      /\ outbox[i] = "submitted" /\ ~IsClose(i) => order[i] # "none"

(* A receipt with which the gateway itself refused an intent, or passed on   *)
(* the venue's rejection, is never followed by an order of that intent.      *)
RefusalIsFinal ==
    \A i \in Intents :
      receipt[i] \in {"refused", "mutation_rejected", "rejection_recovered"} =>
        order[i] = "none" /\ wire[i] # "sent"

(* While the outcome of one entry is unknown, no other entry is on its way:  *)
(* the admission check is read long before the order is prepared, and only   *)
(* the serial queue and the monotone outbox make that check still hold.      *)
OneUncertainEntry ==
    \A i, j \in Intents :
      IsEntry(i) /\ IsEntry(j) /\ outbox[i] \in Uncertain /\ outbox[j] \in Uncertain
        => i = j

(* An entry the venue has taken but whose outcome the outbox does not know   *)
(* blocks every later one: no second entry is past its checks.               *)
UncertainEntryBlocks ==
    \A i \in Intents :
      IsEntry(i) /\ outbox[i] \in Uncertain /\ i # cur =>
        ~(cpc \in {"prepared", "sending", "awaiting"} /\ IsEntry(cur))

(* The abstract promise, for the intents whose effect is an order.           *)
Orders == {i \in Intents : ~IsClose(i)}

Fate(i) ==
    IF sent[i] = 0 THEN "held"
    ELSE IF sent[i] > 1 THEN "twice"
    ELSE IF order[i] # "none" THEN "live"
    ELSE IF wire[i] \in {"rejected", "lost"} THEN "void" ELSE "gone"

Belief(i) ==
    CASE outbox[i] = "submitted"                               -> "live"
      [] outbox[i] \in {"confirmed_not_submitted", "rejected"} -> "void"
      [] OTHER                                                 -> "open"

Promise == INSTANCE SubmitOnce WITH
    fate <- [i \in Orders |-> Fate(i)],
    belief <- [i \in Orders |-> Belief(i)]

(* The execution path implements SubmitOnce: at most one submission, and     *)
(* conclusions that are true when drawn and never withdrawn.                 *)
ImplementsSubmitOnce == Promise!Spec

(* Every intent the store has claimed is answered: its receipt appears,      *)
(* whatever crashes, failed reads and lost answers came first.               *)
EveryIntentAnswered ==
    \A i \in Intents : registered[i] # None ~> receipt[i] # "absent"

(* An order the venue has taken is eventually known to be submitted.         *)
AcceptedIsDiscovered ==
    \A i \in Orders : order[i] # "none" ~> outbox[i] = "submitted"

(* An entry the venue has taken does not hold the latch for ever.            *)
LatchIsReleased ==
    \A i \in Intents : order[i] # "none" /\ latch = i ~> latch # i
================================================================================
