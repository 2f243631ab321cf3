----------------------------- MODULE ProviderLog -----------------------------
(***************************************************************************)
(* The evidence database as a log: market events come from the stream and  *)
(* are pruned, order and trade history is copied from the venue's search     *)
(* in windows behind a durable cursor, and the offline replay reads the    *)
(* log back in batches while all of that goes on.                          *)
(*                                                                         *)
(* Time is counted in minutes of the overlap.  The venue's search may show   *)
(* a record up to Delay after its time, and may answer from a replica that *)
(* still has the version before the current one.                           *)
(***************************************************************************)
EXTENDS Integers, FiniteSets, FiniteSetsExt

CONSTANTS Records,          \* orders and trades of the account
          TradeRecords,     \* those of them that are trades
          Overlap,          \* options.overlapMinutes
          Window,           \* options.windowMinutes
          Delay,            \* bound on the venue's indexing delay
          Retention,        \* marketEventRetention
          PruneInterval,    \* marketPruneInterval
          BatchSize,        \* rows the replay reads at a time
          MaxEvents,        \* rows the replay reads at most
          MaxTime, MaxSeq,  \* bounds: clock and log
          MaxLogFaults      \* bound on failed calls and restarts

ASSUME LogAssumption ==
    /\ "market" \notin Records /\ TradeRecords \subseteq Records
    /\ Overlap \in Nat /\ Window \in Nat \ {0} /\ Delay \in Nat /\ Delay <= Overlap
    /\ Retention \in Nat \ {0} /\ PruneInterval \in 1 .. Retention
    /\ BatchSize \in Nat \ {0} /\ MaxEvents \in Nat \ {0}
    /\ MaxTime \in Nat /\ MaxSeq \in Nat /\ MaxLogFaults \in Nat

VARIABLES logClock,    \* the clock
          atVenue,     \* record -> [t, version, shown]; version 0: not there yet
          rows,        \* provider_events
          nextSeq,     \* AUTOINCREMENT of provider_events
          heads,       \* provider_evidence_heads: record -> version stored last
          sincePrune,  \* market events since the last prune, in memory
          cursor,      \* cursor_utc of provider_history_sync, durable
          sync,        \* the run in flight
          replay,      \* the replay in progress
          logFaults

logVars == <<logClock, atVenue, rows, nextSeq, heads, sincePrune, cursor, sync, replay, logFaults>>

NoSync   == [at |-> "idle", from |-> 0, to |-> 0, target |-> 0, found |-> {}]
NoReplay == [at |-> "idle", after |-> 0, left |-> MaxEvents, seen |-> {}, gap |-> FALSE, target |-> 0]

LogInit ==
    /\ logClock = 1 /\ nextSeq = 1 /\ rows = {} /\ sincePrune = 0 /\ cursor = 0 /\ logFaults = 0
    /\ atVenue = [r \in Records |-> [t |-> 0, version |-> 0, shown |-> FALSE]]
    /\ heads = [r \in Records |-> 0]
    /\ sync = NoSync /\ replay = NoReplay

LogFault == logFaults < MaxLogFaults /\ logFaults' = logFaults + 1

----------------------------------------------------------------------------
(* The clock and the venue.                                                  *)

Minute ==
    /\ logClock < MaxTime
    /\ \A r \in Records : atVenue[r].version > 0 /\ ~atVenue[r].shown => logClock < atVenue[r].t + Delay
    /\ logClock' = logClock + 1
    /\ UNCHANGED <<atVenue, rows, nextSeq, heads, sincePrune, cursor, sync, replay, logFaults>>

VenueChanges(r) ==
    /\ \/ atVenue[r].version = 0
            /\ atVenue' = [atVenue EXCEPT ![r] = [t |-> logClock, version |-> 1, shown |-> FALSE]]
       \/ atVenue[r].version > 0 /\ ~atVenue[r].shown
            /\ atVenue' = [atVenue EXCEPT ![r].shown = TRUE]
       \/ atVenue[r].version = 1 /\ atVenue[r].shown
            /\ atVenue' = [atVenue EXCEPT ![r].version = 2]
    /\ UNCHANGED <<logClock, rows, nextSeq, heads, sincePrune, cursor, sync, replay, logFaults>>

\* What a search of the window may answer: every record it shows, each at its
\* version or the one before.
Answers(from, to) ==
    LET found == {r \in Records : atVenue[r].shown /\ atVenue[r].t >= from /\ atVenue[r].t <= to}
        versions == {v \in [found -> 1 .. 2] : \A r \in found :
                        v[r] \in {atVenue[r].version, atVenue[r].version - 1}}
    IN  {{[id |-> r, version |-> v[r]] : r \in found} : v \in versions}

----------------------------------------------------------------------------
(* The log.                                                                *)

Row(id, version) == [seq |-> nextSeq, id |-> id, version |-> version]

IsMarket(row) == row.id = "market"

InsertPrepared(row) == rows \cup {row}

MarketRows(log) == {row \in log : IsMarket(row)}

NewestRows(log, n) ==
    {row \in log : Cardinality({newer \in log : newer.seq > row.seq}) < n}

\* Only the newest Retention market events survive; the rest of the log stays.
Pruned(log) == (log \ MarketRows(log)) \cup NewestRows(MarketRows(log), Retention)

\* append of a market event, pruning at every PruneInterval-th.
AppendMarket ==
    /\ nextSeq <= MaxSeq
    /\ LET log == InsertPrepared(Row("market", 0)) IN
       IF sincePrune + 1 >= PruneInterval
       THEN rows' = Pruned(log) /\ sincePrune' = 0
       ELSE rows' = log /\ sincePrune' = sincePrune + 1
    /\ nextSeq' = nextSeq + 1
    /\ UNCHANGED <<logClock, atVenue, heads, cursor, sync, replay, logFaults>>

(* Faulty: without the comparison of timestamps.                            *)
ChangedAnyhow(found) == found.version # heads[found.id]

\* isStrictlyOlder, by the timestamp the sync hands over: an order's is that of
\* its update, a trade's that of its creation, the same for all its versions.
IsStrictlyOlder(found) ==
    found.id \notin TradeRecords /\ found.version < heads[found.id]

\* appendIfChanged drops the version it has and one that is older.
Changed(found) == found.version # heads[found.id] /\ ~IsStrictlyOlder(found)

(* Faulty: without the pruning.                                             *)
OpenedAsIs(log) == log

\* The market rows a starting process finds.
Opened(log) == IF Cardinality(MarketRows(log)) > Retention THEN Pruned(log) ELSE log

\* The process restarts: the run and the counter are gone, the log is opened.
LogRestarts ==
    /\ LogFault
    /\ rows' = Opened(rows) /\ sincePrune' = 0 /\ sync' = NoSync
    /\ UNCHANGED <<logClock, atVenue, nextSeq, heads, cursor, replay>>

----------------------------------------------------------------------------
(* The history sync.                                                       *)

Earliest(a, b) == IF a < b THEN a ELSE b

Before(t, minutes) == IF t > minutes THEN t - minutes ELSE 0

(* Faulty: without the overlap.                                             *)
InitialStartAtCursor == cursor

\* A run starts behind the cursor, one at a time.
InitialStart == Before(cursor, Overlap)

SyncStarts ==
    /\ sync.at = "idle"
    /\ sync' = [NoSync EXCEPT !.at = "window", !.from = Earliest(InitialStart, logClock), !.target = logClock]
    /\ UNCHANGED <<logClock, atVenue, rows, nextSeq, heads, sincePrune, cursor, replay, logFaults>>

SyncFetches ==
    /\ sync.at = "window" /\ sync.from < sync.target
    /\ LET to == Earliest(sync.from + Window, sync.target) IN
          \E found \in Answers(sync.from, to) :
             sync' = [sync EXCEPT !.at = "append", !.to = to, !.found = found]
    /\ UNCHANGED <<logClock, atVenue, rows, nextSeq, heads, sincePrune, cursor, replay, logFaults>>

\* Records are independent of each other, so any order stands for the sort by time.
SyncAppends == \E found \in sync.found :
    /\ sync.at = "append"
    /\ IF Changed(found)
       THEN /\ nextSeq <= MaxSeq
            /\ rows' = InsertPrepared(Row(found.id, found.version))
            /\ nextSeq' = nextSeq + 1
            /\ heads' = [heads EXCEPT ![found.id] = found.version]
       ELSE UNCHANGED <<rows, nextSeq, heads>>
    /\ sync' = [sync EXCEPT !.found = @ \ {found}]
    /\ UNCHANGED <<logClock, atVenue, sincePrune, cursor, replay, logFaults>>

\* The window is done: the cursor moves to its end.
CursorAfter == sync.to

SyncSucceeds ==
    /\ sync.at = "append" /\ sync.found = {}
    /\ cursor' = CursorAfter
    /\ sync' = [sync EXCEPT !.at = "window", !.from = sync.to]
    /\ UNCHANGED <<logClock, atVenue, rows, nextSeq, heads, sincePrune, replay, logFaults>>

\* A call fails: the cursor stays, and the run ends.
SyncFails ==
    /\ sync.at \in {"window", "append"} /\ LogFault
    /\ sync' = NoSync
    /\ UNCHANGED <<logClock, atVenue, rows, nextSeq, heads, sincePrune, cursor, replay>>

SyncEnds ==
    /\ sync.at = "window" /\ sync.from >= sync.target
    /\ sync' = NoSync
    /\ UNCHANGED <<logClock, atVenue, rows, nextSeq, heads, sincePrune, cursor, replay, logFaults>>

----------------------------------------------------------------------------
(* The replay.                                                             *)

ReplayStarts ==
    /\ replay.at = "idle"
    /\ replay' = [NoReplay EXCEPT !.at = "reading", !.target = nextSeq - 1]
    /\ UNCHANGED <<logClock, atVenue, rows, nextSeq, heads, sincePrune, cursor, sync, logFaults>>

(* Faulty: without the test of the first row.                               *)
GapAfterFirst(seen, seq) == seen # {} /\ seq - 1 \notin seen

\* observeSequence: a row that does not follow the one before it is a gap, and
\* so is a first row that is not the first of the log.
Gap(seen, seq) == IF seen = {} THEN seq > 1 ELSE seq - 1 \notin seen

FirstRows(log, n) ==
    {row \in log : Cardinality({older \in log : older.seq < row.seq}) < n}

\* The first rows after a sequence, as many as asked for.
ReadBatch(after, limit) == FirstRows({row \in rows : row.seq > after}, limit)

ReplayReads ==
    /\ replay.at = "reading" /\ replay.left > 0
    /\ LET limit == Earliest(BatchSize, replay.left)
           seqs  == {row.seq : row \in ReadBatch(replay.after, limit)}
           count == Cardinality(seqs)
       IN replay' = [replay EXCEPT
             !.at    = IF count < limit THEN "read" ELSE @,
             !.after = IF seqs = {} THEN @ ELSE Max(seqs),
             !.left  = @ - count,
             !.seen  = @ \cup seqs,
             !.gap   = @ \/ \E q \in seqs : Gap({p \in replay.seen \cup seqs : p < q}, q)]
    /\ UNCHANGED <<logClock, atVenue, rows, nextSeq, heads, sincePrune, cursor, sync, logFaults>>

HasEventAfter(after) == \E row \in rows : row.seq > after

\* The snapshot: evidence_complete.
ReplayEnds ==
    /\ replay.at = "read" \/ (replay.at = "reading" /\ replay.left = 0)
    /\ LET truncated == replay.left = 0 /\ HasEventAfter(replay.after) IN
       replay' = [replay EXCEPT !.at =
          IF replay.seen # {} /\ ~truncated /\ ~replay.gap THEN "complete" ELSE "incomplete"]
    /\ UNCHANGED <<logClock, atVenue, rows, nextSeq, heads, sincePrune, cursor, sync, logFaults>>

LogNext ==
    \/ Minute \/ (\E r \in Records : VenueChanges(r))
    \/ AppendMarket \/ LogRestarts
    \/ SyncStarts \/ SyncFetches \/ SyncAppends \/ SyncSucceeds \/ SyncFails \/ SyncEnds
    \/ ReplayStarts \/ ReplayReads \/ ReplayEnds

LogSpec == LogInit /\ [][LogNext]_logVars

-----------------------------------------------------------------------------
LogTypeOK ==
    /\ {logClock, nextSeq, cursor, sincePrune} \subseteq Nat
    /\ heads \in [Records -> Nat] /\ cursor <= logClock
    /\ logFaults \in 0 .. MaxLogFaults

(* What the cursor has passed, less the overlap, is in the log, although the *)
(* venue shows orders and trades late and a run may end between its writes   *)
(* and its cursor (provider-history-sync.ts, the order of the two).          *)
CursorMeansStored ==
    \A r \in Records :
        atVenue[r].version > 0 /\ atVenue[r].t < Before(cursor, Overlap) => heads[r] > 0

\* The row of a record that follows another of the same record.
Follows(b, a) ==
    /\ a.id = b.id /\ a.seq < b.seq
    /\ ~\E c \in rows : c.id = a.id /\ a.seq < c.seq /\ c.seq < b.seq

(* Runs overlap, are repeated after a fault and may meet a stale replica.    *)
(* The log takes no version of a record twice in a row, and of an order none *)
(* that is older than one it has (appendIfChanged).  Of a trade a stale      *)
(* answer is appended behind the newer one: nothing in it tells its age      *)
(* (history-sync.ts:181-190).                                                *)
EachChangeStoredOnce ==
    \A a, b \in rows :
        /\ Follows(b, a) /\ ~IsMarket(a) => a.version # b.version
        /\ a.seq < b.seq /\ a.id = b.id /\ a.id \in Records \ TradeRecords => a.version < b.version

(* Market rows stay bounded although pruning is counted in memory and starts *)
(* anew with the process (appendBatch, pruneMarket).                         *)
MarketRowsBounded == Cardinality(MarketRows(rows)) < Retention + PruneInterval

(* A replay that calls itself complete has seen every sequence up to the one *)
(* it aimed at, also when rows were pruned under it (the gap check).         *)
CompleteMeansWhole ==
    replay.at = "complete" => 1 .. replay.target \subseteq replay.seen

LogInv == LogTypeOK /\ CursorMeansStored /\ EachChangeStoredOnce
          /\ MarketRowsBounded /\ CompleteMeansWhole
=============================================================================
