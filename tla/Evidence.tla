-------------------------------- MODULE Evidence --------------------------------
(***************************************************************************)
(* Provider evidence: the outbox an account event is staged in, the bounded*)
(* queue in front of the store, the batches that are written by the        *)
(* persistence worker, the application to the venue state that waits for   *)
(* them, and the replay of the outbox when the process starts.             *)
(*                                                                         *)
(* The queue is a variable of the process: a crash loses it.  The outbox   *)
(* and the stored events are SQLite's.  A promise of the worker is two     *)
(* steps, the transaction and the callback of the main thread.             *)
(***************************************************************************)
EXTENDS Integers, Sequences, FiniteSets, FiniteSetsExt, SequencesExt

CONSTANTS
    Keys,               \* coalescing keys: a contract's quote, a price of its depth
    HighWater, CoalesceAt, LowWater, BatchSize, LoadLimit,
    DrainLimit,         \* DRAIN_WRITE_FAILURE_LIMIT: failures in a row a drain takes
    MaxEvents,          \* bound on the events of the hubs
    MaxEvidenceFaults,  \* bound on failed transactions
    MaxCrashes          \* bound on the ends of a process

ASSUME WatermarkAssumption ==
    /\ {HighWater, CoalesceAt, LowWater} \subseteq Nat
    /\ LowWater <= CoalesceAt /\ CoalesceAt <= HighWater
ASSUME SizesAssumption ==
    /\ BatchSize \in Nat \ {0} /\ LoadLimit \in Nat \ {0} /\ LoadLimit <= HighWater
    /\ DrainLimit \in Nat \ {0}
ASSUME BoundsAssumption == {MaxEvents, MaxEvidenceFaults, MaxCrashes} \subseteq Nat

NoKey == "none"
ASSUME KeysAssumption == NoKey \notin Keys

(* The kinds of events: account, order, position and lifecycle events are    *)
(* identity; quotes and depth have a key; a print of the tape has none.      *)
Events == [n : 1 .. MaxEvents, class : {"identity", "market"}, key : Keys \cup {NoKey}]
Arriving(n) ==
    {[n |-> n, class |-> "identity", key |-> NoKey]} \cup
    {[n |-> n, class |-> "market", key |-> k] : k \in Keys \cup {NoKey}}

VARIABLES
    mode,            \* down, starting, running, stopping
    next,            \* events that have arrived
    born,            \* and how many before this process started
    staging,         \* the events being staged, and whether their row is committed
    entries,         \* the live entries of the queue
    byKey,           \* pendingByKey: the event to supersede, or 0
    batch, writing,  \* the batch in flight: idle, asked for, or committed
    degraded, failures,
    outbox,          \* the pending rows
    stored,          \* provider_events, in the order of their sequence
    applied,         \* events whose onDurable has run
    dropped,         \* events that were refused: nobody keeps them
    seen,            \* the newest event of a key that was queued (history)
    again,           \* events taken back after their transaction (history)
    evidenceFaults, crashes

queue == <<staging, entries, byKey, batch, writing, degraded, failures>>
disk  == <<outbox, stored>>
bounds == <<evidenceFaults, crashes>>
fate  == <<applied, dropped, seen, again>>
evidenceVars  == <<mode, next, born, queue, disk, fate, bounds>>

EvidenceFault == evidenceFaults < MaxEvidenceFaults /\ evidenceFaults' = evidenceFaults + 1
Up == mode \in {"starting", "running", "stopping"}

Numbers(s) == {s[i].n : i \in DOMAIN s}
Identity(s) == {i \in DOMAIN s : s[i].class = "identity"}
IdentityPending == Cardinality(Identity(entries))

EmptyQueue ==
    /\ staging = <<>> /\ entries = <<>> /\ byKey = [k \in Keys |-> 0]
    /\ batch = <<>> /\ writing = "idle" /\ degraded = FALSE /\ failures = 0

EvidenceInit ==
    /\ mode = "running" /\ next = 0 /\ born = 0 /\ EmptyQueue
    /\ outbox = {} /\ stored = <<>> /\ applied = {} /\ dropped = {}
    /\ seen = [k \in Keys |-> 0] /\ again = {}
    /\ evidenceFaults = 0 /\ crashes = 0

-----------------------------------------------------------------------------
(* EvidenceWriteQueue.                                                      *)

(* Above the watermark the newest of a key takes the place of the pending one.*)
Superseded(e) ==
    IF e.key # NoKey /\ Len(entries) >= CoalesceAt THEN byKey[e.key] ELSE 0

(* A superseded entry is skipped from then on.                               *)
Unsuperseded(old) == RemoveFirstMatch(entries, LAMBDA x : x.n = old)

(* takeBatch: an entry handed to the writer is no longer one.                *)
FreedKeys(taken) == [k \in Keys |-> IF byKey[k] \in Numbers(taken) THEN 0 ELSE byKey[k]]

(* raiseDegraded.                                                           *)
Raised(overflow) == degraded \/ overflow

(* enqueue: an identity event spills to the outbox when the window is full,  *)
(* a market event is dropped above the high-water mark.                      *)
Enqueue(e) ==
    LET old  == Superseded(e)
        rest == Unsuperseded(old)
        full == Len(rest) >= HighWater
    IN IF e.class = "identity"
       THEN IF IdentityPending >= HighWater
            THEN degraded' = Raised(TRUE) /\ UNCHANGED <<entries, byKey, dropped, seen>>
            ELSE /\ entries' = Append(entries, e)
                 /\ degraded' = Raised(Len(entries) + 1 >= HighWater)
                 /\ UNCHANGED <<byKey, dropped, seen>>
       ELSE /\ entries' = IF full THEN rest ELSE Append(rest, e)
            /\ dropped' = IF full THEN dropped \cup {e} ELSE dropped
            /\ seen' = IF full \/ e.key = NoKey THEN seen ELSE [seen EXCEPT ![e.key] = e.n]
            /\ degraded' = Raised(Len(rest) + 1 >= HighWater)
            /\ byKey' = IF e.key = NoKey THEN byKey
                        ELSE [byKey EXCEPT ![e.key] =
                                 IF ~full THEN e.n ELSE IF old # 0 THEN 0 ELSE @]

(* submit of a hub's event: an identity event is staged first.               *)
Submit ==
    /\ mode \in {"running", "stopping"} /\ next < MaxEvents
    /\ next' = next + 1
    /\ \E e \in Arriving(next + 1) :
          IF e.class = "identity"
          THEN /\ staging' = Append(staging, [e |-> e, row |-> FALSE])
               /\ UNCHANGED <<entries, byKey, degraded, dropped, seen>>
          ELSE Enqueue(e) /\ UNCHANGED staging
    /\ UNCHANGED <<mode, born, batch, writing, failures, disk, applied, again, bounds>>

(* The worker's transaction of stageIdentityOutbox; it serves in order.      *)
StageCommits ==
    /\ Up /\ \E i \in DOMAIN staging :
          /\ ~staging[i].row /\ \A j \in 1 .. i - 1 : staging[j].row
          /\ staging' = [staging EXCEPT ![i].row = TRUE]
          /\ outbox' = outbox \cup {staging[i].e}
    /\ UNCHANGED <<mode, next, born, entries, byKey, batch, writing, degraded, failures,
                   stored, fate, bounds>>

(* stageTail: the oldest stage is committed.                                 *)
Staged == staging # <<>> /\ Head(staging).row

(* The callback behind stageTail.  It does not look whether it is closed.    *)
StageDone ==
    /\ Up /\ Staged
    /\ staging' = Tail(staging)
    /\ Enqueue(Head(staging).e)
    /\ UNCHANGED <<mode, next, born, batch, writing, failures, disk, applied, again, bounds>>

(* The transaction fails: stageTail goes on without the event.               *)
StageFails ==
    /\ Up /\ staging # <<>> /\ ~Head(staging).row /\ EvidenceFault
    /\ staging' = Tail(staging)
    /\ dropped' = dropped \cup {Head(staging).e}
    /\ UNCHANGED <<mode, next, born, entries, byKey, batch, writing, degraded, failures,
                   disk, applied, seen, again, crashes>>

(* A drain gives up: close reports an incomplete shutdown, or the start of the*)
(* service fails.                                                            *)
GivesUp == failures >= DrainLimit /\ writing = "idle" /\ mode \in {"starting", "stopping"}

(* Faulty: the timer is for full batches.                                    *)
FullBatch == Len(entries) >= BatchSize
(* schedule: after an interval, or at once if a batch is full.               *)
Due == entries # <<>>

(* runBatch: takeBatch, and appendBatch is asked for.                        *)
BatchBegin ==
    /\ Up /\ writing = "idle" /\ Due /\ ~GivesUp
    /\ LET size  == Min({BatchSize, Len(entries)})
           taken == SubSeq(entries, 1, size)
       IN /\ batch' = taken
          /\ entries' = SubSeq(entries, size + 1, Len(entries))
          /\ byKey' = FreedKeys(taken)
    /\ writing' = "asked"
    /\ UNCHANGED <<mode, next, born, staging, degraded, failures, disk, fate, bounds>>

(* markOutboxApplied, for the identity events of the batch.                  *)
MarkedApplied(events) == {e \in outbox : e.n \notin Numbers(events)}

(* appendBatch: events and rows in one transaction.                          *)
BatchCommits ==
    /\ Up /\ writing = "asked"
    /\ stored' = stored \o batch
    /\ outbox' = MarkedApplied(batch)
    /\ writing' = "committed"
    /\ UNCHANGED <<mode, next, born, staging, entries, byKey, batch, degraded, failures,
                   fate, bounds>>

(* Faulty: what is queued behind the batch is applied with it.               *)
AppliableEarly(events) == {e \in Range(events) \cup Range(entries) : e.n > born}
(* Replayed events have no onDurable: nobody waits for them any more.        *)
Appliable(events) == {e \in Range(events) : e.n > born}

(* maybeRecover.                                                            *)
IsLow == Len(entries) <= LowWater

(* The batch is acknowledged: onDurable of each, and maybeRecover.           *)
BatchDone ==
    /\ Up /\ writing = "committed"
    /\ writing' = "idle" /\ batch' = <<>>
    /\ failures' = 0
    /\ applied' = applied \cup Appliable(batch)
    /\ degraded' = (degraded /\ ~IsLow)
    /\ UNCHANGED <<mode, next, born, staging, entries, byKey, disk, dropped, seen, again, bounds>>

(* Faulty: what was not written is queued again.                             *)
Requeued == entries \o batch
(* restore: the head goes back to where the batch began.                     *)
Restored == batch \o entries

(* appendBatch is rejected: the batch is taken back.                         *)
TakeBack ==
    /\ writing' = "idle" /\ batch' = <<>>
    /\ entries' = Restored
    /\ failures' = failures + 1
    /\ degraded' = Raised(TRUE)
    /\ UNCHANGED <<mode, next, born, staging, byKey, disk, applied, dropped, seen, crashes>>

(* The transaction fails.                                                    *)
BatchFails ==
    /\ Up /\ writing = "asked" /\ EvidenceFault
    /\ TakeBack /\ UNCHANGED again

(* maybePruneMarketEvent fails, in the same call but behind the transaction: *)
(* the queue takes back what is stored and will write it again.              *)
PruneFails ==
    /\ Up /\ writing = "committed" /\ EvidenceFault
    /\ \E e \in Range(batch) : e.class = "market"
    /\ TakeBack /\ again' = again \cup Numbers(batch)

-----------------------------------------------------------------------------
(* The process.                                                             *)

Forget ==
    /\ staging' = <<>> /\ entries' = <<>> /\ byKey' = [k \in Keys |-> 0]
    /\ batch' = <<>> /\ writing' = "idle" /\ degraded' = FALSE /\ failures' = 0

Crash ==
    /\ Up /\ crashes < MaxCrashes
    /\ mode' = "down" /\ crashes' = crashes + 1 /\ Forget
    /\ UNCHANGED <<next, born, disk, fate, evidenceFaults>>

DrainFails ==
    /\ GivesUp
    /\ mode' = "down" /\ Forget
    /\ UNCHANGED <<next, born, disk, fate, bounds>>

StopAsked ==
    /\ mode = "running" /\ mode' = "stopping" /\ crashes < MaxCrashes
    /\ crashes' = crashes + 1
    /\ UNCHANGED <<next, born, queue, disk, fate, evidenceFaults>>

(* close: everything queued is written.  What is being staged is not awaited.*)
Stopped ==
    /\ mode = "stopping" /\ entries = <<>> /\ writing = "idle" /\ ~GivesUp
    /\ mode' = "down" /\ Forget
    /\ outbox' = outbox \cup {staging[i].e : i \in DOMAIN staging}
    /\ UNCHANGED <<next, born, stored, fate, bounds>>

Start ==
    /\ mode = "down"
    /\ mode' = "starting" /\ born' = next
    /\ UNCHANGED <<next, queue, disk, fate, bounds>>

(* Nothing is left to replay.                                                *)
NoneLeft == outbox = {}

(* A page of the outbox: its oldest rows, in order, as many as there are up  *)
(* to the limit (loadPendingOutboxEvents).                                   *)
Oldest(rows) ==
    /\ \A i, j \in DOMAIN rows : i < j => rows[i].n < rows[j].n
    /\ \A i \in DOMAIN rows, e \in outbox \ Range(rows) : rows[i].n < e.n
    /\ Len(rows) < LoadLimit => outbox \subseteq Range(rows)

(* drainStartupEvidenceOutbox: the next page, or done.                       *)
Replay ==
    /\ mode = "starting" /\ entries = <<>> /\ writing = "idle"
    /\ IF NoneLeft
       THEN mode' = "running" /\ UNCHANGED <<entries, degraded>>
       ELSE /\ \E size \in 1 .. LoadLimit : \E rows \in [1 .. size -> outbox] :
                  /\ Oldest(rows)
                  /\ entries' = rows /\ degraded' = Raised(size >= HighWater)
            /\ UNCHANGED mode
    /\ UNCHANGED <<next, born, staging, byKey, batch, writing, failures, disk, fate, bounds>>

Writer == BatchBegin \/ BatchCommits \/ BatchDone
Stage == StageCommits \/ StageDone

EvidenceNext ==
    \/ Submit \/ Stage \/ StageFails \/ Writer \/ BatchFails \/ PruneFails
    \/ Crash \/ DrainFails \/ StopAsked \/ Stopped \/ Start \/ Replay

EvidenceSpec == EvidenceInit /\ [][EvidenceNext]_evidenceVars

(* Timers fire, the worker answers and the launcher starts the process again.*)
FairEvidenceSpec ==
    /\ EvidenceSpec
    /\ WF_evidenceVars(Writer) /\ WF_evidenceVars(Stage)
    /\ WF_evidenceVars(Start) /\ WF_evidenceVars(Replay) /\ WF_evidenceVars(Stopped)
    /\ WF_evidenceVars(DrainFails)

-----------------------------------------------------------------------------
EvidenceTypeOK ==
    /\ mode \in {"down", "starting", "running", "stopping"}
    /\ {next, born} \subseteq 0 .. MaxEvents /\ born <= next
    /\ Range(staging) \subseteq [e : Events, row : BOOLEAN]
    /\ Range(entries) \cup Range(batch) \cup Range(stored) \cup outbox \subseteq Events
    /\ byKey \in [Keys -> 0 .. MaxEvents]
    /\ writing \in {"idle", "asked", "committed"} /\ degraded \in BOOLEAN
    /\ Len(batch) <= BatchSize /\ failures \in 0 .. MaxEvidenceFaults
    /\ applied \cup dropped \subseteq Events /\ seen \in [Keys -> 0 .. MaxEvents]
    /\ again \subseteq 1 .. MaxEvents

(* An account event is stored once, whatever was staged, written, spilled,   *)
(* interrupted and replayed (appendBatch marks the row it consumes), unless  *)
(* its batch was taken back after its transaction because the pruning behind *)
(* it failed (sqlite-provider-evidence-store.ts:156-158).                    *)
StoredOnce ==
    \A i, j \in Identity(stored) :
        stored[i].n = stored[j].n => i = j \/ stored[i].n \in again

(* The service does not run with rows a previous process left: their events  *)
(* would be stored behind those of this one (drainStartupEvidenceOutbox).    *)
RunsAfterReplay == mode = "running" => \A e \in outbox : e.n > born

(* An account event is never only in memory: from the moment it is queued to *)
(* its transaction the outbox has its row, and what is taken back after the  *)
(* transaction is stored (submit, appendBatch, restore).                     *)
QueuedIsStaged ==
    \A e \in Range(entries) \cup (IF writing = "committed" THEN {} ELSE Range(batch)) :
        e.class = "identity" => e \in outbox \cup Range(stored)

(* What the venue state shows was stored first, so that a replay of the store*)
(* shows at least as much (the comment on EvidenceWriteQueue).               *)
PersistBeforeApply == applied \subseteq Range(stored)

(* The newest quote of a contract survives coalescing, failed batches and    *)
(* spills, unless a newer one was shed and the state is degraded for it.     *)
NewestIsKept ==
    \A k \in Keys : seen[k] > born /\ mode # "down" =>
        \/ seen[k] \in Numbers(entries) \cup Numbers(batch) \cup Numbers(stored)
        \/ \E d \in dropped : d.key = k /\ d.n > seen[k]

EvidenceInv ==
    /\ EvidenceTypeOK /\ StoredOnce /\ RunsAfterReplay /\ QueuedIsStaged
    /\ PersistBeforeApply /\ NewestIsKept

(* The venue state goes forward: of a class no event is applied behind a     *)
(* later one, although batches fail and are taken back (restore).            *)
AppliedInOrder ==
    [][\A e \in applied' \ applied, f \in applied :
          e.class = f.class => f.n < e.n]_evidenceVars

(* A backlog does not stay: once the faults are over the state is not        *)
(* degraded for ever (maybeRecover, and the timer of schedule).              *)
Recovers == []<>~degraded

(* What was queued leaves the queue for the store, or with the process.      *)
Drains == []<>(entries = <<>>)

(* Both: the queue gets out of its backpressure and out of its backlog.      *)
QueueEnds == Recovers /\ Drains
================================================================================
