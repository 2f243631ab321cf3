---------------------------- MODULE Records_proofs ----------------------------
(***************************************************************************)
(* Proofs about the records the gateway keeps: the evidence log, for any   *)
(* records, windows, retentions and delays within the overlap, the         *)
(* outcomes of trades, for any number of entries, failures and restarts,   *)
(* and the store of them, for any export found and any cap of its index.   *)
(*                                                                         *)
(* The inductive invariant of the log says that a run of the history sync  *)
(* has stored what lies behind it or holds it in its hands, that rows are  *)
(* numbered apart with the newest always there, and that a replay without  *)
(* a gap has no hole below what it has read.                               *)
(*                                                                         *)
(* That of the outcomes says that the closing fills an outcome has lie in  *)
(* the window its next search looks at, and that a publication has claimed *)
(* what belongs to anybody it does not rebuild and what it has built.      *)
(*                                                                         *)
(* That of the store says that the index is the feed, that only the head   *)
(* of the chain of writes is between its commit and its line, and that an  *)
(* append that waits is the only one of an outcome nobody knows.           *)
(***************************************************************************)
EXTENDS ProviderLog, Outcomes, OutcomeStore, FiniteSetTheorems, WellFoundedInduction, TLAPS

Found == [id : Records, version : 1 .. 2]

(* The range of every variable.                                            *)
LogTypes ==
    /\ logClock \in Nat /\ nextSeq \in Nat \ {0} /\ cursor \in Nat /\ sincePrune \in Nat
    /\ cursor <= logClock /\ logFaults \in 0 .. MaxLogFaults
    /\ heads \in [Records -> Nat]
    /\ atVenue \in [Records -> [t : Nat, version : 0 .. 2, shown : BOOLEAN]]
    /\ rows \subseteq [seq : Nat \ {0}, id : Records \cup {"market"}, version : Nat]
    /\ IsFiniteSet(rows)
    /\ sync \in [at : {"idle", "window", "append"}, from : Nat, to : Nat, target : Nat,
                 found : SUBSET Found]
    /\ replay \in [at : {"idle", "reading", "read", "complete", "incomplete"}, after : Nat,
                   left : Nat, seen : SUBSET Nat, gap : BOOLEAN, target : Nat]

(* The venue shows a record within Delay.                                  *)
VenueShows ==
    \A r \in Records : atVenue[r].version > 0 =>
        /\ atVenue[r].t <= logClock
        /\ ~atVenue[r].shown => logClock <= atVenue[r].t + Delay

(* What lies behind the run is stored, or in its hands.                    *)
Stored(r) == heads[r] > 0
InHand(r) == \E f \in sync.found : f.id = r
Old(r)    == atVenue[r].version > 0 /\ atVenue[r].t + Overlap < sync.target

SyncInv ==
    /\ CursorMeansStored
    /\ sync.at # "idle" =>
          /\ sync.target <= logClock /\ sync.from <= sync.target
          /\ \A r \in Records : Old(r) /\ atVenue[r].t < sync.from => Stored(r)
    /\ sync.at = "append" =>
          /\ sync.to <= sync.target
          /\ \A r \in Records : Old(r) /\ atVenue[r].t \in sync.from .. sync.to => Stored(r) \/ InHand(r)

(* Rows are numbered apart, the newest is there, and the last row of a     *)
(* record has the version of its head; an order's rows only go up.         *)
OfOrder(a) == a.id \in Records \ TradeRecords
LastRow(log, a) == ~IsMarket(a) /\ \A b \in log : b.id = a.id => b.seq <= a.seq
HeadsRight(log, h) ==
    \A a \in log : /\ OfOrder(a) => a.version <= h[a.id]
                   /\ LastRow(log, a) => a.version = h[a.id]

RowsInv ==
    /\ \A a, b \in rows : a.seq = b.seq => a = b
    /\ \A a \in rows : a.seq < nextSeq
    /\ nextSeq > 1 => \E a \in rows : a.seq = nextSeq - 1
    /\ HeadsRight(rows, heads)
    /\ EachChangeStoredOnce

PruneInv == sincePrune < PruneInterval /\ Cardinality(MarketRows(rows)) <= Retention + sincePrune

(* Without a gap the replay has read everything up to where it is.         *)
ReplayInv ==
    replay.at # "idle" =>
        /\ replay.target < nextSeq
        /\ \A q \in replay.seen : q \in 1 .. replay.after
        /\ replay.after = 0 \/ replay.after \in replay.seen
        /\ ~replay.gap => \A q \in replay.seen : q = 1 \/ q - 1 \in replay.seen
        /\ replay.at = "read" => replay.target <= replay.after
        /\ replay.at = "complete" => ~replay.gap /\ replay.target <= replay.after

LogIInv == LogTypes /\ VenueShows /\ SyncInv /\ RowsInv /\ PruneInv /\ ReplayInv
-----------------------------------------------------------------------------
LEMMA LeastOf ==
    ASSUME NEW S \in SUBSET Nat, S # {}
    PROVE  \E m \in S : \A n \in S : m <= n
<1> DEFINE R == OpToRel(<, Nat)
<1>1. IsWellFoundedOn(R, Nat)
  BY NatLessThanWellFounded, Zenon
<1>2. \A n, m \in Nat : n < m => <<n, m>> \in R
  BY Zenon DEF OpToRel
<1> HIDE DEF R
<1>3. PICK m \in S : \A n \in S : ~ (<<n, m>> \in R)
  BY <1>1, WFMin
<1>4. \A n \in S : m <= n
  <2> TAKE n \in S
  <2>1. n \in Nat /\ m \in Nat
    OBVIOUS
  <2>2. ~ (n < m)
    BY <1>2, <1>3, <2>1, Zenon
  <2>3. QED BY <2>1, <2>2
<1>5. QED BY <1>4

LEMMA GreatestOf ==
    ASSUME NEW S \in SUBSET Nat, S # {}, NEW n \in Nat, \A q \in S : q <= n
    PROVE  \E m \in S : \A q \in S : q <= m
<1> DEFINE T == {n - q : q \in S}
<1>1. \A q \in S : n - q \in Nat
  OBVIOUS
<1>a. T \in SUBSET Nat /\ T # {}
  BY <1>1
<1>2. PICK d \in T : \A e \in T : d <= e
  BY <1>a, LeastOf
<1>3. PICK m \in S : d = n - m
  OBVIOUS
<1>4. \A q \in S : n - m <= n - q
  BY <1>2, <1>3
<1>5. \A q \in S : q <= m
  BY <1>4
<1>6. QED BY <1>5

LEMMA GreatestIsMax ==
    ASSUME NEW S \in SUBSET Nat, S # {}, NEW n \in Nat, \A q \in S : q <= n
    PROVE  Max(S) \in S /\ \A q \in S : q <= Max(S)
<1>1. \E m \in S : \A q \in S : m >= q
  BY GreatestOf
<1>2. QED BY <1>1 DEF Max

(* The rows with fewer than k others beyond them are at most k.            *)
LEMMA FewAreFew ==
    ASSUME NEW S, IsFiniteSet(S), NEW B \in SUBSET S, NEW k \in Nat \ {0},
           NEW m \in B, NEW beyond \in SUBSET S, Cardinality(beyond) < k, B \ {m} \subseteq beyond
    PROVE  Cardinality(B) <= k
<1>1. IsFiniteSet(B) /\ IsFiniteSet(beyond)
  BY FS_Subset
<1>2. Cardinality(B \ {m}) <= Cardinality(beyond) /\ IsFiniteSet(B \ {m})
  BY <1>1, FS_Subset
<1>3. Cardinality(B \ {m}) = Cardinality(B) - 1
  BY <1>1, FS_RemoveElement
<1>4. Cardinality(B) \in Nat /\ Cardinality(beyond) \in Nat /\ Cardinality(B \ {m}) \in Nat
  <2>1. \A C : IsFiniteSet(C) => Cardinality(C) \in Nat
    BY FS_CardinalityType, Zenon
  <2>2. QED BY <1>1, <1>2, <2>1
<1>5. QED BY <1>2, <1>3, <1>4

Rows == [seq : Nat \ {0}, id : Records \cup {"market"}, version : Nat]
Apart(log) == \A a, b \in log : a.seq = b.seq => a = b

LEMMA NewestAreFew ==
    ASSUME NEW S \in SUBSET Rows, IsFiniteSet(S), Apart(S), NEW k \in Nat \ {0}
    PROVE  Cardinality(NewestRows(S, k)) <= k
<1> DEFINE B == NewestRows(S, k)
<1>0. B \in SUBSET S /\ \A a \in B : Cardinality({b \in S : b.seq > a.seq}) < k
  BY DEF NewestRows
<1> SUFFICES Cardinality(B) <= k
  OBVIOUS
<1> HIDE DEF B
<1>1. CASE B = {}
  <2>1. Cardinality(B) = 0
    BY <1>1, FS_EmptySet, Zenon
  <2>2. QED BY <2>1
<1>2. CASE B # {}
  <2> DEFINE Q == {a.seq : a \in B}
  <2>1. Q \in SUBSET Nat /\ Q # {}
    BY <1>0, <1>2 DEF Rows
  <2>2. PICK q \in Q : \A p \in Q : q <= p
    BY <2>1, LeastOf
  <2>3. PICK m \in B : m.seq = q
    OBVIOUS
  <2> DEFINE beyond == {b \in S : b.seq > m.seq}
  <2>4. Cardinality(beyond) < k
    BY <1>0
  <2>5. B \ {m} \subseteq beyond
    <3> SUFFICES ASSUME NEW a \in B, a # m PROVE a.seq > m.seq
      BY <1>0
    <3>1. a.seq \in Nat /\ m.seq \in Nat /\ m.seq <= a.seq /\ a.seq # m.seq
      BY <1>0, <2>2, <2>3 DEF Apart, Rows
    <3>2. QED BY <3>1
  <2>6. beyond \in SUBSET S /\ B \in SUBSET S
    BY <1>0
  <2> HIDE DEF beyond
  <2>7. QED BY <2>4, <2>5, <2>6, FewAreFew, Zenon
<1>3. QED BY <1>1, <1>2

LEMMA FirstAreFew ==
    ASSUME NEW S \in SUBSET Rows, IsFiniteSet(S), Apart(S), NEW k \in Nat \ {0},
           NEW n \in Nat, \A a \in S : a.seq <= n
    PROVE  Cardinality(FirstRows(S, k)) <= k /\ (Cardinality(FirstRows(S, k)) < k => FirstRows(S, k) = S)
<1> DEFINE B == FirstRows(S, k)
<1>0. B \in SUBSET S /\ \A a \in S : a \in B <=> Cardinality({b \in S : b.seq < a.seq}) < k
  BY DEF FirstRows
<1> SUFFICES Cardinality(B) <= k /\ (Cardinality(B) < k => B = S)
  OBVIOUS
<1> HIDE DEF B
<1>1. Cardinality(B) <= k
  <2>1. CASE B = {}
    <3>1. Cardinality(B) = 0
      BY <2>1, FS_EmptySet, Zenon
    <3>2. QED BY <3>1
  <2>2. CASE B # {}
    <3> DEFINE Q == {a.seq : a \in B}
    <3>1. Q \in SUBSET Nat /\ Q # {} /\ \A q \in Q : q <= n
      BY <1>0, <2>2 DEF Rows
    <3>2. PICK q \in Q : \A p \in Q : p <= q
      BY <3>1, GreatestOf
    <3>3. PICK m \in B : m.seq = q
      OBVIOUS
    <3> DEFINE beyond == {b \in S : b.seq < m.seq}
    <3>4. Cardinality(beyond) < k
      BY <1>0
    <3>5. B \ {m} \subseteq beyond
      <4> SUFFICES ASSUME NEW a \in B, a # m PROVE a.seq < m.seq
        BY <1>0
      <4>1. a.seq \in Nat /\ m.seq \in Nat /\ a.seq <= m.seq /\ a.seq # m.seq
        BY <1>0, <3>2, <3>3 DEF Apart, Rows
      <4>2. QED BY <4>1
    <3>6. beyond \in SUBSET S /\ B \in SUBSET S
      BY <1>0
    <3> HIDE DEF beyond
    <3>7. QED BY <3>4, <3>5, <3>6, FewAreFew, Zenon
  <2>3. QED BY <2>1, <2>2
<1>2. ASSUME B # S PROVE Cardinality(B) >= k
  <2> DEFINE Q == {a.seq : a \in S \ B}
  <2>1. Q \in SUBSET Nat /\ Q # {}
    BY <1>0, <1>2 DEF Rows
  <2>2. PICK q \in Q : \A p \in Q : q <= p
    BY <2>1, LeastOf
  <2>3. PICK m \in S \ B : m.seq = q
    OBVIOUS
  <2> DEFINE ahead == {b \in S : b.seq < m.seq}
  <2>4. ~ (Cardinality(ahead) < k)
    BY <1>0
  <2>5. ahead \subseteq B
    <3> SUFFICES ASSUME NEW b \in S \ B, b.seq < m.seq PROVE FALSE
      BY DEF ahead
    <3>1. b.seq \in Nat /\ m.seq \in Nat /\ m.seq <= b.seq
      BY <1>0, <2>2, <2>3 DEF Rows
    <3>2. QED BY <3>1
  <2>6. IsFiniteSet(B) /\ IsFiniteSet(ahead)
    BY <1>0, FS_Subset
  <2>7. Cardinality(ahead) <= Cardinality(B)
    BY <2>5, <2>6, FS_Subset
  <2>8. Cardinality(B) \in Nat /\ Cardinality(ahead) \in Nat
    BY <2>6, FS_CardinalityType, Zenon
  <2> HIDE DEF ahead
  <2>9. QED BY <2>4, <2>7, <2>8
<1>3. Cardinality(B) \in Nat
  <2>1. IsFiniteSet(B)
    BY <1>0, FS_Subset
  <2>2. QED BY <2>1, FS_CardinalityType, Zenon
<1>4. QED BY <1>1, <1>2, <1>3

-----------------------------------------------------------------------------
LEMMA LogStarts == LogInit => LogIInv
<1> SUFFICES ASSUME LogInit PROVE LogIInv
  OBVIOUS
<1> USE LogAssumption DEF LogInit
<1>1. LogTypes
  BY FS_EmptySet DEF LogTypes, NoSync, NoReplay
<1>2. VenueShows /\ SyncInv
  BY DEF VenueShows, SyncInv, CursorMeansStored, NoSync
<1>3. RowsInv
  BY DEF RowsInv, EachChangeStoredOnce, HeadsRight
<1>4. PruneInv
  <2>1. MarketRows(rows) = {}
    BY DEF MarketRows
  <2>2. Cardinality(MarketRows(rows)) = 0
    BY <2>1, FS_EmptySet, Zenon
  <2>3. QED BY <2>2 DEF PruneInv
<1>5. ReplayInv
  BY DEF ReplayInv, NoReplay
<1>6. QED BY <1>1, <1>2, <1>3, <1>4, <1>5 DEF LogIInv

-----------------------------------------------------------------------------
(* What a search may answer.                                               *)
LEMMA AnswersShow ==
    ASSUME LogTypes, NEW from \in Nat, NEW to \in Nat, NEW found \in Answers(from, to)
    PROVE  /\ found \in SUBSET Found
           /\ \A r \in Records : atVenue[r].shown /\ atVenue[r].t >= from /\ atVenue[r].t <= to
                 => \E f \in found : f.id = r
<1> DEFINE S == {r \in Records : atVenue[r].shown /\ atVenue[r].t >= from /\ atVenue[r].t <= to}
<1>1. PICK v \in [S -> 1 .. 2] : found = {[id |-> r, version |-> v[r]] : r \in S}
  BY DEF Answers
<1>2. found \in SUBSET Found
  BY <1>1 DEF Found
<1>3. \A r \in S : \E f \in found : f.id = r
  <2> TAKE r \in S
  <2>1. [id |-> r, version |-> v[r]] \in found
    BY <1>1
  <2>2. QED BY <2>1
<1>4. QED BY <1>2, <1>3

LEMMA PrunedStays ==
    ASSUME NEW log, IsFiniteSet(log)
    PROVE  /\ Pruned(log) \subseteq log /\ IsFiniteSet(Pruned(log))
           /\ Opened(log) \subseteq log /\ IsFiniteSet(Opened(log))
           /\ MarketRows(log) \subseteq log /\ IsFiniteSet(MarketRows(log))
<1>1. MarketRows(log) \subseteq log /\ \A S, n : NewestRows(S, n) \subseteq S
  BY DEF MarketRows, NewestRows
<1>2. Pruned(log) \subseteq log
  BY <1>1 DEF Pruned
<1>3. Opened(log) \subseteq log
  BY <1>2 DEF Opened
<1>4. QED BY <1>1, <1>2, <1>3, FS_Subset

(* Where a batch takes the replay.                                         *)
Limit == Earliest(BatchSize, replay.left)
Batch == ReadBatch(replay.after, Limit)
Seqs  == {row.seq : row \in Batch}

LEMMA BatchReads ==
    ASSUME LogTypes, RowsInv, replay.left > 0
    PROVE  /\ Limit \in Nat \ {0} /\ Limit <= replay.left
           /\ Seqs \in SUBSET Nat /\ IsFiniteSet(Seqs) /\ Cardinality(Seqs) \in 0 .. Limit
           /\ \A q \in Seqs : replay.after < q /\ q < nextSeq
           /\ Seqs # {} => Max(Seqs) \in Seqs /\ \A q \in Seqs : q <= Max(Seqs)
           /\ Cardinality(Seqs) < Limit => \A a \in rows : a.seq > replay.after => a.seq \in Seqs
<1> DEFINE later == {row \in rows : row.seq > replay.after}
<1>1. Limit \in Nat \ {0} /\ Limit <= replay.left
  BY LogAssumption DEF Limit, Earliest, LogTypes
<1>2. rows \in SUBSET Rows /\ nextSeq \in Nat /\ IsFiniteSet(rows) /\ \A a \in rows : a.seq \in Nat /\ a.seq < nextSeq
  BY DEF LogTypes, Rows, RowsInv
<1>3. later \in SUBSET Rows /\ IsFiniteSet(later) /\ Apart(later) /\ \A a \in later : a.seq <= nextSeq
  <2>1. later \in SUBSET rows
    OBVIOUS
  <2>2. IsFiniteSet(later)
    BY <1>2, <2>1, FS_Subset
  <2>3. QED BY <1>2, <2>1, <2>2 DEF Apart, RowsInv
<1>4. Batch = FirstRows(later, Limit)
  BY DEF Batch, ReadBatch
<1> HIDE DEF later
<1>5. Cardinality(Batch) <= Limit /\ (Cardinality(Batch) < Limit => Batch = later)
  BY <1>1, <1>2, <1>3, <1>4, FirstAreFew
<1>6. Batch \in SUBSET later /\ IsFiniteSet(Batch)
  <2>1. Batch \in SUBSET later
    BY <1>4 DEF FirstRows
  <2>2. QED BY <1>3, <2>1, FS_Subset
<1>7. IsFiniteSet(Seqs) /\ Cardinality(Seqs) = Cardinality(Batch)
  <2> DEFINE f == [row \in Batch |-> row.seq]
  <2>1. f \in Surjection(Batch, Seqs)
    BY DEF Surjection, Seqs
  <2>2. \A a, b \in Batch : a.seq = b.seq => a = b
    BY <1>3, <1>6 DEF Apart
  <2>3. f \in Injection(Batch, Seqs)
    BY <2>2 DEF Injection, Seqs, IsInjective
  <2>4. QED BY <1>6, <2>1, <2>3, FS_Surjection
<1>8. Cardinality(Seqs) \in Nat
  BY <1>7, FS_CardinalityType, Zenon
<1>9. Seqs \in SUBSET Nat /\ \A q \in Seqs : replay.after < q /\ q < nextSeq
  BY <1>2, <1>6 DEF Seqs, later, LogTypes
<1>10. Seqs # {} => Max(Seqs) \in Seqs /\ \A q \in Seqs : q <= Max(Seqs)
  <2>1. \A q \in Seqs : q <= nextSeq
    BY <1>2, <1>9
  <2>2. QED BY <1>2, <1>9, <2>1, GreatestIsMax
<1>11. Cardinality(Seqs) < Limit => \A a \in rows : a.seq > replay.after => a.seq \in Seqs
  BY <1>5, <1>7 DEF later, Seqs
<1>12. QED BY <1>1, <1>5, <1>7, <1>8, <1>9, <1>10, <1>11

-----------------------------------------------------------------------------
LEMMA VenueSteps ==
    ASSUME LogTypes, NEW r \in Records, VenueChanges(r)
    PROVE  \E new \in [t : Nat, version : 0 .. 2, shown : BOOLEAN] :
             /\ atVenue' = [atVenue EXCEPT ![r] = new]
             /\ \/ new.t = logClock
                \/ new.t = atVenue[r].t /\ new.shown /\ atVenue[r].version > 0
<1> DEFINE was == atVenue[r]
           VenueGoal(new) ==
             /\ atVenue' = [atVenue EXCEPT ![r] = new]
             /\ \/ new.t = logClock
                \/ new.t = atVenue[r].t /\ new.shown /\ atVenue[r].version > 0
           Values == [t : Nat, version : 0 .. 2, shown : BOOLEAN]
<1>0. was \in Values /\ logClock \in Nat
  BY DEF LogTypes
<1>1. CASE atVenue' = [atVenue EXCEPT ![r] = [t |-> logClock, version |-> 1, shown |-> FALSE]]
  <2> DEFINE new == [t |-> logClock, version |-> 1, shown |-> FALSE]
  <2>1. new \in Values /\ VenueGoal(new)
    BY <1>0, <1>1
  <2>2. QED BY <2>1
<1>2. CASE was.version > 0 /\ atVenue' = [atVenue EXCEPT ![r].shown = TRUE]
  <2>1. [was EXCEPT !.shown = TRUE] \in Values /\ VenueGoal([was EXCEPT !.shown = TRUE])
    BY <1>0, <1>2
  <2>2. QED BY <2>1
<1>3. CASE was.version = 1 /\ was.shown /\ atVenue' = [atVenue EXCEPT ![r].version = 2]
  <2>1. [was EXCEPT !.version = 2] \in Values /\ VenueGoal([was EXCEPT !.version = 2])
    BY <1>0, <1>3
  <2>2. QED BY <2>1
<1>4. QED BY <1>1, <1>2, <1>3 DEF VenueChanges

LEMMA LogTypesKept == ASSUME LogTypes, RowsInv, SyncInv, LogNext PROVE LogTypes'
<1> USE LogAssumption
<1>1. CASE Minute
  BY <1>1 DEF Minute, LogTypes
<1>2. CASE \E r \in Records : VenueChanges(r)
  <2>1. PICK r \in Records : VenueChanges(r)
    BY <1>2
  <2>2. atVenue' \in [Records -> [t : Nat, version : 0 .. 2, shown : BOOLEAN]]
    BY <2>1, VenueSteps DEF LogTypes
  <2>3. QED BY <2>1, <2>2 DEF VenueChanges, LogTypes
<1>3. CASE AppendMarket
  <2> DEFINE log == rows \cup {Row("market", 0)}
  <2>1. log \subseteq Rows /\ IsFiniteSet(log)
    <3>1. IsFiniteSet(log)
      BY FS_AddElement, Zenon DEF LogTypes
    <3>2. QED BY <3>1 DEF LogTypes, Row, Rows
  <2>2. Pruned(log) \subseteq log /\ IsFiniteSet(Pruned(log))
    BY <2>1, PrunedStays
  <2>3. rows' \in {log, Pruned(log)} /\ sincePrune' \in Nat
    BY <1>3 DEF AppendMarket, InsertPrepared, LogTypes
  <2>4. rows' \subseteq Rows /\ IsFiniteSet(rows')
    BY <2>1, <2>2, <2>3
  <2>5. QED BY <1>3, <2>3, <2>4 DEF AppendMarket, LogTypes, Rows
<1>4. CASE LogRestarts
  <2>1. rows' \subseteq rows /\ IsFiniteSet(rows')
    BY <1>4, PrunedStays DEF LogRestarts, LogTypes
  <2>2. QED BY <1>4, <2>1 DEF LogRestarts, LogFault, LogTypes, NoSync
<1>5. CASE SyncStarts
  <2>1. Earliest(InitialStart, logClock) \in Nat
    BY DEF Earliest, InitialStart, Before, LogTypes
  <2>2. QED BY <1>5, <2>1 DEF SyncStarts, LogTypes, NoSync
<1>6. CASE SyncFetches
  <2> DEFINE to == Earliest(sync.from + Window, sync.target)
  <2>1. to \in Nat
    BY DEF Earliest, LogTypes
  <2>2. PICK found \in Answers(sync.from, to) :
          sync' = [sync EXCEPT !.at = "append", !.to = to, !.found = found]
    BY <1>6 DEF SyncFetches
  <2>3. found \in SUBSET Found
    BY <2>1, AnswersShow DEF LogTypes
  <2> HIDE DEF to
  <2>4. QED BY <1>6, <2>1, <2>2, <2>3 DEF SyncFetches, LogTypes
<1>7. CASE SyncAppends
  <2>1. PICK found \in sync.found :
          /\ sync' = [sync EXCEPT !.found = sync.found \ {found}]
          /\ \/ UNCHANGED <<rows, nextSeq, heads>>
             \/ /\ rows' = rows \cup {Row(found.id, found.version)} /\ nextSeq' = nextSeq + 1
                /\ heads' = [heads EXCEPT ![found.id] = found.version]
          /\ UNCHANGED <<logClock, atVenue, sincePrune, cursor, replay, logFaults>>
    BY <1>7 DEF SyncAppends, InsertPrepared
  <2>2. found.id \in Records /\ found.version \in 1 .. 2
    BY DEF LogTypes, Found
  <2>3. Row(found.id, found.version) \in Rows
    BY <2>2 DEF Row, Rows, LogTypes
  <2>4. IsFiniteSet(rows \cup {Row(found.id, found.version)})
    BY FS_AddElement, Zenon DEF LogTypes
  <2>5. /\ rows' \subseteq Rows /\ IsFiniteSet(rows')
        /\ heads' \in [Records -> Nat] /\ nextSeq' \in Nat \ {0}
    <3>1. CASE UNCHANGED <<rows, nextSeq, heads>>
      BY <3>1 DEF LogTypes, Rows
    <3>2. CASE /\ rows' = rows \cup {Row(found.id, found.version)} /\ nextSeq' = nextSeq + 1
               /\ heads' = [heads EXCEPT ![found.id] = found.version]
      BY <2>2, <2>3, <2>4, <3>2 DEF LogTypes, Rows
    <3>3. QED BY <2>1, <3>1, <3>2
  <2>6. sync' \in [at : {"idle", "window", "append"}, from : Nat, to : Nat, target : Nat,
                   found : SUBSET Found]
    BY <2>1 DEF LogTypes
  <2>7. QED BY <2>1, <2>5, <2>6 DEF LogTypes, Rows
<1>8. CASE SyncSucceeds
  <2>1. sync.to <= logClock
    BY <1>8 DEF SyncSucceeds, SyncInv, LogTypes
  <2>2. QED BY <1>8, <2>1 DEF SyncSucceeds, CursorAfter, LogTypes
<1>9. CASE SyncFails \/ SyncEnds
  BY <1>9 DEF SyncFails, SyncEnds, LogFault, LogTypes, NoSync
<1>10. CASE ReplayStarts
  <2>1. replay' = [at |-> "reading", after |-> 0, left |-> MaxEvents, seen |-> {}, gap |-> FALSE,
                   target |-> nextSeq - 1]
    BY <1>10 DEF ReplayStarts, NoReplay
  <2>2. nextSeq - 1 \in Nat
    BY DEF LogTypes
  <2>3. replay' \in [at : {"idle", "reading", "read", "complete", "incomplete"}, after : Nat,
                   left : Nat, seen : SUBSET Nat, gap : BOOLEAN, target : Nat]
    BY <2>1, <2>2
  <2>4. QED BY <1>10, <2>3 DEF ReplayStarts, LogTypes
<1>11. CASE ReplayReads
  <2>1. PICK at \in {"reading", "read"}, gap \in BOOLEAN :
          replay' = [replay EXCEPT !.at = at, !.after = IF Seqs = {} THEN replay.after ELSE Max(Seqs),
                       !.left = replay.left - Cardinality(Seqs), !.seen = replay.seen \cup Seqs, !.gap = gap]
    <3> DEFINE gap == replay.gap \/ \E q \in Seqs : Gap({p \in replay.seen \cup Seqs : p < q}, q)
               at == IF Cardinality(Seqs) < Limit THEN "read" ELSE replay.at
    <3>1. replay' = [replay EXCEPT !.at = at, !.after = IF Seqs = {} THEN replay.after ELSE Max(Seqs),
                       !.left = replay.left - Cardinality(Seqs), !.seen = replay.seen \cup Seqs, !.gap = gap]
      BY <1>11 DEF ReplayReads, Seqs, Batch, Limit
    <3>2. gap \in BOOLEAN /\ at \in {"reading", "read"}
      BY <1>11 DEF ReplayReads, LogTypes
    <3> HIDE DEF gap, at
    <3>3. QED BY <3>1, <3>2
  <2>2. /\ Seqs \in SUBSET Nat /\ Cardinality(Seqs) \in 0 .. replay.left
        /\ (IF Seqs = {} THEN replay.after ELSE Max(Seqs)) \in Nat
    BY <1>11, BatchReads DEF ReplayReads, LogTypes
  <2>3. replay' \in [at : {"idle", "reading", "read", "complete", "incomplete"}, after : Nat,
                   left : Nat, seen : SUBSET Nat, gap : BOOLEAN, target : Nat]
    <3> DEFINE after == IF Seqs = {} THEN replay.after ELSE Max(Seqs)
               left  == replay.left - Cardinality(Seqs)
               read  == replay.seen \cup Seqs
    <3>a. replay.left \in Nat /\ replay.seen \in SUBSET Nat
      BY DEF LogTypes
    <3>b. \A c \in 0 .. replay.left : replay.left - c \in Nat
      BY <3>a
    <3>1. after \in Nat /\ left \in Nat /\ read \in SUBSET Nat
      BY <2>2, <3>a, <3>b
    <3> HIDE DEF after, left, read
    <3>2. QED BY <2>1, <3>1 DEF LogTypes, after, left, read
  <2>4. QED BY <1>11, <2>3 DEF ReplayReads, LogTypes
<1>12. CASE ReplayEnds
  <2>1. PICK at \in {"complete", "incomplete"} : replay' = [replay EXCEPT !.at = at]
    BY <1>12 DEF ReplayEnds
  <2>2. QED BY <1>12, <2>1 DEF ReplayEnds, LogTypes
<1>13. QED
  BY <1>1, <1>2, <1>3, <1>4, <1>5, <1>6, <1>7, <1>8, <1>9, <1>10, <1>11, <1>12 DEF LogNext

LEMMA VenueShowsKept == ASSUME LogTypes, VenueShows, LogNext PROVE VenueShows'
<1> USE LogAssumption
<1>1. CASE Minute
  BY <1>1 DEF Minute, LogTypes, VenueShows
<1>2. CASE \E r \in Records : VenueChanges(r)
  <2>1. PICK r \in Records : VenueChanges(r)
    BY <1>2
  <2>2. logClock' = logClock /\ \A p \in Records \ {r} : atVenue'[p] = atVenue[p]
    BY <2>1 DEF VenueChanges, LogTypes
  <2>3. \/ atVenue'[r].t = logClock
        \/ atVenue[r].version > 0 /\ atVenue'[r].t = atVenue[r].t /\ atVenue'[r].shown
    BY <2>1, VenueSteps DEF LogTypes
  <2>4. QED BY <2>2, <2>3 DEF VenueShows, LogTypes
<1>3. ASSUME UNCHANGED <<logClock, atVenue>> PROVE VenueShows'
  BY <1>3 DEF VenueShows
<1>4. QED
  BY <1>1, <1>2, <1>3 DEF LogNext, AppendMarket, LogRestarts, SyncStarts, SyncFetches, SyncAppends, SyncSucceeds,
     SyncFails, SyncEnds, ReplayStarts, ReplayReads, ReplayEnds

LEMMA BeforeMeans ==
    \A t, c, m \in Nat : t < Before(c, m) <=> t + m < c
BY DEF Before

LEMMA SyncKept == ASSUME LogTypes, RowsInv, VenueShows, SyncInv, LogNext PROVE SyncInv'
<1> USE LogAssumption
<1>0. \A r \in Records : /\ atVenue[r].version > 0 /\ atVenue[r].t + Overlap < cursor => Stored(r)
                         /\ atVenue[r].t \in Nat
  BY BeforeMeans DEF SyncInv, CursorMeansStored, Stored, LogTypes
<1>a. SUFFICES
        /\ \A r \in Records : atVenue'[r].version > 0 /\ atVenue'[r].t + Overlap < cursor' => Stored(r)'
        /\ sync'.at # "idle" =>
              /\ sync'.target <= logClock' /\ sync'.from <= sync'.target
              /\ \A r \in Records : Old(r)' /\ atVenue'[r].t < sync'.from => Stored(r)'
        /\ sync'.at = "append" =>
              /\ sync'.to <= sync'.target
              /\ \A r \in Records : Old(r)' /\ atVenue'[r].t \in sync'.from .. sync'.to => Stored(r)' \/ InHand(r)'
  <2>1. cursor' \in Nat /\ \A r \in Records : atVenue'[r].t \in Nat
    BY LogTypesKept DEF LogTypes
  <2>2. QED BY <2>1, BeforeMeans DEF SyncInv, CursorMeansStored, Stored
<1>1. CASE UNCHANGED <<sync, atVenue, heads, cursor>> /\ logClock' \in {logClock, logClock + 1}
  BY <1>0, <1>1 DEF SyncInv, Stored, InHand, Old, LogTypes
<1>2. CASE \E r \in Records : VenueChanges(r)
  <2>1. PICK r \in Records : VenueChanges(r)
    BY <1>2
  <2>2. UNCHANGED <<sync, heads, cursor, logClock>> /\ \A p \in Records \ {r} : atVenue'[p] = atVenue[p]
    BY <2>1 DEF VenueChanges, LogTypes
  <2>3. \/ atVenue'[r].t = logClock
        \/ atVenue[r].version > 0 /\ atVenue'[r].t = atVenue[r].t
    BY <2>1, VenueSteps DEF LogTypes
  <2>4. QED BY <1>0, <2>2, <2>3 DEF SyncInv, Stored, InHand, Old, LogTypes
<1>3. CASE LogRestarts \/ SyncFails \/ SyncEnds
  BY <1>0, <1>3 DEF LogRestarts, SyncFails, SyncEnds, NoSync, Stored
<1>4. CASE SyncStarts
  <2>1. /\ UNCHANGED <<atVenue, heads, cursor, logClock>> /\ sync'.at = "window" /\ sync'.target = logClock
        /\ sync'.from = Earliest(Before(cursor, Overlap), logClock)
    BY <1>4 DEF SyncStarts, NoSync, InitialStart
  <2>2. sync'.from <= logClock /\ sync'.from <= Before(cursor, Overlap) /\ sync'.from \in Nat
    BY <2>1 DEF Earliest, LogTypes, Before
  <2>3. \A r \in Records : atVenue[r].t < sync'.from => atVenue[r].t + Overlap < cursor
    BY <1>0, <2>2, BeforeMeans DEF LogTypes, Before
  <2>4. QED BY <1>0, <2>1, <2>2, <2>3 DEF Stored, Old, LogTypes
<1>5. CASE SyncFetches
  <2> DEFINE to == Earliest(sync.from + Window, sync.target)
  <2>1. to \in Nat /\ to <= sync.target
    BY DEF Earliest, LogTypes
  <2>2. PICK found \in Answers(sync.from, to) :
          sync' = [sync EXCEPT !.at = "append", !.to = to, !.found = found]
    BY <1>5 DEF SyncFetches
  <2>3. \A r \in Records : atVenue[r].shown /\ atVenue[r].t >= sync.from /\ atVenue[r].t <= to
                 => \E f \in found : f.id = r
    BY <2>1, AnswersShow DEF LogTypes
  <2> HIDE DEF to
  <2>4. sync.at = "window" /\ sync.from < sync.target /\ UNCHANGED <<atVenue, heads, cursor, logClock>>
    BY <1>5 DEF SyncFetches
  <2>5. /\ sync'.at = "append" /\ sync'.to = to /\ sync'.found = found
        /\ sync'.from = sync.from /\ sync'.target = sync.target
    BY <2>2 DEF LogTypes
  <2>6. \A r \in Records : Old(r) => atVenue[r].shown
    BY <1>0, <2>4 DEF Old, VenueShows, SyncInv, LogTypes
  <2>7. QED BY <1>0, <2>1, <2>3, <2>4, <2>5, <2>6 DEF SyncInv, Stored, InHand, Old, LogTypes
<1>6. CASE SyncAppends
  <2>1. PICK found \in sync.found :
          /\ sync.at = "append"
          /\ sync' = [sync EXCEPT !.found = sync.found \ {found}]
          /\ IF Changed(found)
             THEN heads' = [heads EXCEPT ![found.id] = found.version]
             ELSE UNCHANGED heads
          /\ UNCHANGED <<logClock, atVenue, cursor>>
    BY <1>6 DEF SyncAppends
  <2>2. found.id \in Records /\ found.version \in 1 .. 2
    BY DEF LogTypes, Found
  <2>3. heads'[found.id] > 0 /\ \A r \in Records : heads[r] > 0 => heads'[r] > 0
    BY <2>1, <2>2 DEF LogTypes, Changed, IsStrictlyOlder
  <2>4. /\ sync'.at = sync.at /\ sync'.from = sync.from /\ sync'.to = sync.to /\ sync'.target = sync.target
        /\ sync'.found = sync.found \ {found}
    BY <2>1 DEF LogTypes
  <2>5. \A r \in Records : InHand(r) => InHand(r)' \/ Stored(r)'
    BY <2>3, <2>4 DEF InHand, Stored
  <2>6. QED BY <1>0, <2>1, <2>3, <2>4, <2>5 DEF SyncInv, Stored, Old, LogTypes
<1>7. CASE SyncSucceeds
  <2>1. /\ sync.at = "append" /\ sync.found = {} /\ cursor' = sync.to
        /\ UNCHANGED <<logClock, atVenue, heads>>
        /\ sync'.at = "window" /\ sync'.from = sync.to /\ sync'.target = sync.target
    BY <1>7 DEF SyncSucceeds, CursorAfter, LogTypes
  <2>2. \A r \in Records : Old(r) /\ atVenue[r].t < sync.to => Stored(r)
    BY <1>0, <2>1 DEF SyncInv, InHand, LogTypes
  <2>3. QED BY <1>0, <2>1, <2>2 DEF SyncInv, Stored, Old, LogTypes
<1>8. QED
  BY <1>1, <1>2, <1>3, <1>4, <1>5, <1>6, <1>7 DEF LogNext, Minute, AppendMarket, ReplayStarts, ReplayReads,
     ReplayEnds

-----------------------------------------------------------------------------
(* The newest row of all is never pruned.                                   *)
LEMMA NewestStays ==
    ASSUME NEW log \in SUBSET Rows, NEW a \in log, \A b \in log : b.seq <= a.seq
    PROVE  a \in Pruned(log) /\ a \in Opened(log)
<1>1. a \in Pruned(log)
  <2>1. CASE IsMarket(a)
    <3>1. {b \in MarketRows(log) : b.seq > a.seq} = {}
      BY DEF MarketRows, Rows
    <3>2. Cardinality({b \in MarketRows(log) : b.seq > a.seq}) = 0
      BY <3>1, FS_EmptySet, Zenon
    <3>3. a \in MarketRows(log)
      BY <2>1 DEF MarketRows
    <3>4. QED BY <3>2, <3>3, LogAssumption DEF Pruned, NewestRows
  <2>2. CASE ~IsMarket(a)
    BY <2>2 DEF Pruned, MarketRows
  <2>3. QED BY <2>1, <2>2
<1>2. QED BY <1>1 DEF Opened

LEMMA PrunedIsBounded ==
    ASSUME NEW log \in SUBSET Rows, IsFiniteSet(log), Apart(log)
    PROVE  /\ Cardinality(MarketRows(Pruned(log))) <= Retention
           /\ Cardinality(MarketRows(Opened(log))) <= Retention
<1> DEFINE M == MarketRows(log)
<1>1. M \in SUBSET Rows /\ IsFiniteSet(M) /\ Apart(M)
  <2>1. M \in SUBSET log
    BY DEF MarketRows
  <2>2. QED BY <2>1, FS_Subset DEF Apart
<1>2. Cardinality(NewestRows(M, Retention)) <= Retention
  BY <1>1, NewestAreFew, LogAssumption
<1>3. MarketRows(Pruned(log)) = NewestRows(M, Retention)
  BY DEF MarketRows, Pruned, NewestRows
<1>4. Cardinality(M) \in Nat
  BY <1>1, FS_CardinalityType, Zenon
<1>5. QED BY <1>2, <1>3, <1>4, LogAssumption DEF Opened

(* Appending and pruning market rows leaves the rows of the records alone.  *)
LEMMA RecordRowsStay ==
    ASSUME RowsInv, heads' = heads, \A a : ~IsMarket(a) => (a \in rows' <=> a \in rows)
    PROVE  HeadsRight(rows', heads') /\ EachChangeStoredOnce'
<1>1. ASSUME NEW a \in rows' PROVE (OfOrder(a) => a.version <= heads[a.id])
                                   /\ (LastRow(rows', a) => a.version = heads[a.id])
  <2>1. OfOrder(a) => ~IsMarket(a)
    BY LogAssumption DEF OfOrder, IsMarket
  <2>2. ~IsMarket(a) => a \in rows /\ (LastRow(rows', a) => LastRow(rows, a))
    BY DEF LastRow, IsMarket
  <2>3. QED BY <2>1, <2>2 DEF RowsInv, HeadsRight, LastRow
<1>2. ASSUME NEW a \in rows', NEW b \in rows'
      PROVE  /\ Follows(b, a)' /\ ~IsMarket(a) => a.version # b.version
             /\ a.seq < b.seq /\ a.id = b.id /\ a.id \in Records \ TradeRecords => a.version < b.version
  <2>1. a.id = b.id => (IsMarket(a) <=> IsMarket(b))
    BY DEF IsMarket
  <2>2. a.id \in Records \ TradeRecords => ~IsMarket(a)
    BY LogAssumption DEF IsMarket
  <2>3. ~IsMarket(a) /\ Follows(b, a)' => Follows(b, a)
    BY DEF Follows, IsMarket
  <2>4. QED BY <2>1, <2>2, <2>3 DEF RowsInv, EachChangeStoredOnce, Follows
<1>3. HeadsRight(rows', heads')
  BY <1>1 DEF HeadsRight
<1>4. EachChangeStoredOnce'
  BY <1>2 DEF EachChangeStoredOnce
<1>5. QED BY <1>3, <1>4

LEMMA PrunedIsMarket ==
    ASSUME NEW log, NEW a, ~IsMarket(a)
    PROVE  (a \in Pruned(log) <=> a \in log) /\ (a \in Opened(log) <=> a \in log)
BY DEF Pruned, Opened, NewestRows, MarketRows

LEMMA RowsKept == ASSUME LogTypes, RowsInv, LogNext PROVE RowsInv'
<1> USE LogAssumption
<1>0. rows \in SUBSET Rows /\ nextSeq \in Nat \ {0} /\ \A a \in rows : a.seq \in Nat /\ a.seq <= nextSeq - 1
  BY DEF LogTypes, Rows, RowsInv
<1>1. CASE UNCHANGED <<rows, nextSeq, heads>>
  BY <1>1 DEF RowsInv, EachChangeStoredOnce, Follows
<1>2. CASE AppendMarket
  <2> DEFINE new == Row("market", 0)
             log == rows \cup {new}
  <2>1. nextSeq' = nextSeq + 1 /\ heads' = heads /\ rows' \in {log, Pruned(log)}
    BY <1>2 DEF AppendMarket, InsertPrepared
  <2>2. new \in Rows /\ new.seq = nextSeq /\ IsMarket(new)
    BY <1>0 DEF Row, Rows, IsMarket
  <2>3. \A b \in log : b.seq \in Nat /\ b.seq <= new.seq
    BY <1>0, <2>2
  <2>4. new \in Pruned(log) /\ Pruned(log) \subseteq log
    <3>1. new \in Pruned(log)
      BY <1>0, <2>2, <2>3, NewestStays
    <3>2. QED BY <3>1, PrunedStays, FS_AddElement DEF LogTypes
  <2>5. /\ \A a, b \in log : a.seq = b.seq => a = b
        /\ \A a \in log : a.seq < nextSeq + 1
        /\ \A a : ~IsMarket(a) => (a \in log <=> a \in rows)
    BY <1>0, <2>2 DEF RowsInv
  <2> HIDE DEF new, log
  <2>6. rows' \subseteq log /\ new \in rows'
    BY <2>1, <2>4 DEF log
  <2>7. \A a : ~IsMarket(a) => (a \in rows' <=> a \in rows)
    BY <2>1, <2>5, PrunedIsMarket
  <2>8. HeadsRight(rows', heads') /\ EachChangeStoredOnce'
    BY <2>1, <2>7, RecordRowsStay
  <2>9. QED BY <1>0, <2>1, <2>2, <2>5, <2>6, <2>8 DEF RowsInv
<1>3. CASE LogRestarts
  <2>1. rows' = Opened(rows) /\ nextSeq' = nextSeq /\ heads' = heads
    BY <1>3 DEF LogRestarts
  <2>2. rows' \subseteq rows
    BY <2>1, PrunedStays DEF LogTypes
  <2>3. ASSUME NEW a \in rows, a.seq = nextSeq - 1 PROVE a \in rows'
    BY <1>0, <2>1, <2>3, NewestStays
  <2>4. HeadsRight(rows', heads') /\ EachChangeStoredOnce'
    BY <2>1, PrunedIsMarket, RecordRowsStay
  <2>5. QED BY <2>1, <2>2, <2>3, <2>4 DEF RowsInv
<1>4. CASE SyncAppends
  <2>1. PICK found \in sync.found :
          \/ UNCHANGED <<rows, nextSeq, heads>>
          \/ /\ Changed(found)
             /\ rows' = rows \cup {Row(found.id, found.version)} /\ nextSeq' = nextSeq + 1
             /\ heads' = [heads EXCEPT ![found.id] = found.version]
    BY <1>4 DEF SyncAppends, InsertPrepared
  <2>2. found.id \in Records /\ found.version \in Nat /\ heads \in [Records -> Nat]
    BY DEF LogTypes, Found
  <2>3. CASE /\ Changed(found)
             /\ rows' = rows \cup {Row(found.id, found.version)} /\ nextSeq' = nextSeq + 1
             /\ heads' = [heads EXCEPT ![found.id] = found.version]
    <3> DEFINE new == Row(found.id, found.version)
    <3>1. new.seq = nextSeq /\ new.id = found.id /\ new.version = found.version /\ new.id \in Records
      BY <2>2 DEF Row
    <3>2. \A a \in rows : /\ a.version \in Nat /\ a.seq \in Nat
                          /\ ~IsMarket(a) => a.id \in Records
                          /\ OfOrder(a) => a.version <= heads[a.id]
      BY <1>0 DEF RowsInv, HeadsRight, Rows, IsMarket
    <3>3. /\ heads[found.id] # found.version
          /\ found.id \in Records \ TradeRecords => heads[found.id] < found.version
          /\ \A r \in Records : heads'[r] = IF r = found.id THEN found.version ELSE heads[r]
      BY <2>2, <2>3 DEF Changed, IsStrictlyOlder
    <3>4. \A a \in rows' : a = new \/ a \in rows
      BY <2>3
    <3> HIDE DEF new
    <3>5. \A a, b \in rows' : a.seq = b.seq => a = b
      BY <1>0, <3>1, <3>4 DEF RowsInv
    <3>6. \A a \in rows' : a.seq < nextSeq'
      BY <1>0, <2>3, <3>1, <3>4
    <3>0. new \in rows' /\ rows \subseteq rows' /\ \A a \in rows : a.seq < new.seq
      BY <1>0, <2>3, <3>1 DEF new, RowsInv
    <3>7. \E a \in rows' : a.seq = nextSeq' - 1
      BY <1>0, <2>3, <3>1 DEF new
    <3>8. ASSUME NEW a \in rows' PROVE (OfOrder(a) => a.version <= heads'[a.id])
                                       /\ (LastRow(rows', a) => a.version = heads'[a.id])
      <4>1. CASE a = new
        BY <2>2, <3>1, <3>3, <4>1
      <4>2. CASE a \in rows /\ a.id = found.id
        <5>1. ~LastRow(rows', a)
          BY <1>0, <3>0, <3>1, <4>2 DEF LastRow
        <5>2. OfOrder(a) => a.version < found.version
          BY <2>2, <3>2, <3>3, <4>2 DEF OfOrder
        <5>3. QED BY <2>2, <3>2, <3>3, <4>2, <5>1, <5>2
      <4>3. CASE a \in rows /\ a.id # found.id
        <5>1. LastRow(rows', a) => LastRow(rows, a)
          BY <3>0 DEF LastRow
        <5>2. OfOrder(a) \/ LastRow(rows, a) => heads'[a.id] = heads[a.id]
          BY <3>2, <3>3, <4>3 DEF OfOrder, LastRow
        <5>3. QED BY <4>3, <5>1, <5>2 DEF RowsInv, HeadsRight
      <4>4. QED BY <3>4, <4>1, <4>2, <4>3
    <3>9. ASSUME NEW a \in rows', NEW b \in rows'
          PROVE  /\ Follows(b, a)' /\ ~IsMarket(a) => a.version # b.version
                 /\ a.seq < b.seq /\ a.id = b.id /\ a.id \in Records \ TradeRecords
                      => a.version < b.version
      <4>1. CASE b \in rows /\ a \in rows
        <5>1. Follows(b, a)' => Follows(b, a)
          BY <3>0 DEF Follows
        <5>2. QED BY <4>1, <5>1 DEF RowsInv, EachChangeStoredOnce
      <4>2. CASE a = new
        <5>1. ~(a.seq < b.seq)
          BY <1>0, <3>0, <3>1, <3>2, <3>4, <4>2
        <5>2. QED BY <5>1 DEF Follows
      <4>3. CASE a \in rows /\ b = new /\ a.id = found.id
        <5>1. Follows(b, a)' /\ ~IsMarket(a) => LastRow(rows, a)
          <6> SUFFICES ASSUME Follows(b, a)', ~IsMarket(a), NEW c \in rows, c.id = a.id
                       PROVE  c.seq <= a.seq
            BY DEF LastRow
          <6>1. ~(a.seq < c.seq)
            BY <3>0, <4>3 DEF Follows
          <6>2. QED BY <3>2, <4>3, <6>1
        <5>2. LastRow(rows, a) => a.version = heads[a.id]
          BY <4>3 DEF RowsInv, HeadsRight
        <5>3. OfOrder(a) => a.version < b.version
          BY <2>2, <3>1, <3>2, <3>3, <4>3 DEF OfOrder
        <5>4. QED BY <3>1, <3>3, <4>3, <5>1, <5>2, <5>3 DEF OfOrder
      <4>4. CASE a \in rows /\ b = new /\ a.id # found.id
        BY <3>1, <4>4 DEF Follows
      <4>5. QED BY <3>4, <4>1, <4>2, <4>3, <4>4
    <3>10. HeadsRight(rows', heads') /\ EachChangeStoredOnce'
      BY <3>8, <3>9 DEF HeadsRight, EachChangeStoredOnce
    <3>11. QED BY <3>5, <3>6, <3>7, <3>10 DEF RowsInv
  <2>4. QED BY <1>1, <2>1, <2>3
<1>5. QED
  BY <1>1, <1>2, <1>3, <1>4 DEF LogNext, Minute, VenueChanges, SyncStarts, SyncFetches, SyncSucceeds, SyncFails,
     SyncEnds, ReplayStarts, ReplayReads, ReplayEnds

LEMMA PruneKept == ASSUME LogTypes, RowsInv, PruneInv, LogNext PROVE PruneInv'
<1> USE LogAssumption
<1>0. /\ rows \in SUBSET Rows /\ IsFiniteSet(rows) /\ Apart(rows) /\ nextSeq \in Nat \ {0}
      /\ \A a \in rows : a.seq \in Nat /\ a.seq < nextSeq
  BY DEF LogTypes, Rows, RowsInv, Apart
<1>a. sincePrune \in Nat /\ PruneInterval \in Nat \ {0} /\ Retention \in Nat
  BY DEF LogTypes
<1>1. CASE UNCHANGED <<rows, sincePrune>>
  BY <1>1 DEF PruneInv, MarketRows
<1>2. CASE AppendMarket
  <2> DEFINE new == Row("market", 0)
             log == rows \cup {new}
  <2>1. \/ /\ sincePrune + 1 >= PruneInterval /\ rows' = Pruned(log) /\ sincePrune' = 0
        \/ /\ sincePrune + 1 < PruneInterval /\ rows' = log /\ sincePrune' = sincePrune + 1
    BY <1>2, <1>a DEF AppendMarket, InsertPrepared
  <2>2. new \in Rows /\ new.seq = nextSeq /\ IsMarket(new)
    BY <1>0 DEF Row, Rows, IsMarket
  <2>3. log \in SUBSET Rows /\ Apart(log) /\ new \notin rows
    BY <1>0, <2>2 DEF Apart
  <2>4. IsFiniteSet(log)
    BY <1>0, FS_AddElement, Zenon
  <2>5. MarketRows(log) = MarketRows(rows) \cup {new} /\ new \notin MarketRows(rows)
    BY <2>2, <2>3 DEF MarketRows
  <2>6. IsFiniteSet(MarketRows(rows))
    BY <1>0, PrunedStays
  <2> HIDE DEF new
  <2>7. Cardinality(MarketRows(rows)) \in Nat
        /\ Cardinality(MarketRows(rows) \cup {new}) = Cardinality(MarketRows(rows)) + 1
    <3>1. Cardinality(MarketRows(rows)) \in Nat
      BY <2>6, FS_CardinalityType, Zenon
    <3>2. QED BY <2>5, <2>6, <3>1, FS_AddElement
  <2>8. Cardinality(MarketRows(Pruned(log))) <= Retention
    BY <2>3, <2>4, PrunedIsBounded
  <2> HIDE DEF log
  <2>9. QED BY <1>a, <2>1, <2>5, <2>7, <2>8 DEF PruneInv
<1>3. CASE LogRestarts
  BY <1>0, <1>3, PrunedIsBounded DEF LogRestarts, PruneInv
<1>4. CASE SyncAppends
  <2>1. PICK found \in sync.found :
          /\ sincePrune' = sincePrune
          /\ rows' = rows \/ rows' = rows \cup {Row(found.id, found.version)}
    BY <1>4 DEF SyncAppends, InsertPrepared
  <2>2. ~IsMarket(Row(found.id, found.version))
    BY DEF LogTypes, Found, IsMarket, Row
  <2>3. MarketRows(rows') = MarketRows(rows)
    BY <2>1, <2>2 DEF MarketRows
  <2>4. QED BY <2>1, <2>3 DEF PruneInv
<1>5. QED
  BY <1>1, <1>2, <1>3, <1>4 DEF LogNext, Minute, VenueChanges, SyncStarts, SyncFetches, SyncSucceeds, SyncFails,
     SyncEnds, ReplayStarts, ReplayReads, ReplayEnds

LEMMA ReplayKept == ASSUME LogTypes, RowsInv, ReplayInv, LogNext PROVE ReplayInv'
<1>0. /\ nextSeq \in Nat \ {0} /\ replay.target \in Nat /\ replay.after \in Nat /\ replay.left \in Nat
      /\ replay.seen \in SUBSET Nat /\ \A a \in rows : a.seq \in Nat
  BY DEF LogTypes
<1>1. CASE replay' = replay /\ nextSeq' \in {nextSeq, nextSeq + 1}
  BY <1>0, <1>1 DEF ReplayInv
<1>2. CASE ReplayStarts
  <2>1. /\ replay' = [at |-> "reading", after |-> 0, left |-> MaxEvents, seen |-> {}, gap |-> FALSE,
                      target |-> nextSeq - 1]
        /\ nextSeq' = nextSeq
    BY <1>2 DEF ReplayStarts, NoReplay
  <2>2. QED BY <1>0, <2>1 DEF ReplayInv
<1>3. CASE ReplayReads
  <2> DEFINE gap == replay.gap \/ \E q \in Seqs : Gap({p \in replay.seen \cup Seqs : p < q}, q)
  <2>1. /\ replay.at = "reading" /\ replay.left > 0 /\ nextSeq' = nextSeq
        /\ replay'.target = replay.target /\ replay'.seen = replay.seen \cup Seqs
        /\ replay'.after = (IF Seqs = {} THEN replay.after ELSE Max(Seqs))
        /\ replay'.gap = gap
        /\ replay'.at = (IF Cardinality(Seqs) < Limit THEN "read" ELSE "reading")
    BY <1>3 DEF ReplayReads, Seqs, Batch, Limit, LogTypes
  <2>2. /\ Seqs \in SUBSET Nat /\ Cardinality(Seqs) \in 0 .. Limit
        /\ \A q \in Seqs : replay.after < q /\ q < nextSeq
        /\ Seqs # {} => Max(Seqs) \in Seqs /\ \A q \in Seqs : q <= Max(Seqs)
        /\ Cardinality(Seqs) < Limit => \A a \in rows : a.seq > replay.after => a.seq \in Seqs
    BY <2>1, BatchReads
  <2>3. replay'.after \in Nat /\ replay.after <= replay'.after
        /\ \A q \in Seqs : q <= replay'.after
    BY <1>0, <2>1, <2>2
  <2>4. \A q \in replay'.seen : q \in 1 .. replay'.after
    <3>1. \A q \in replay.seen : q \in 1 .. replay.after
      BY <2>1 DEF ReplayInv
    <3>2. \A q \in Seqs : q \in 1 .. replay'.after
      <4>1. \A q \in Seqs : q \in Nat /\ replay.after < q /\ q <= replay'.after
        BY <2>2, <2>3
      <4>2. QED BY <1>0, <2>3, <4>1
    <3>3. \A q \in replay.seen : q \in 1 .. replay'.after
      BY <1>0, <2>3, <3>1
    <3>4. QED BY <2>1, <3>2, <3>3
  <2>5. replay'.after = 0 \/ replay'.after \in replay'.seen
    BY <2>1, <2>2 DEF ReplayInv
  <2>6. ASSUME ~gap, NEW q \in replay'.seen PROVE q = 1 \/ q - 1 \in replay'.seen
    <3>1. CASE q \in replay.seen
      BY <2>1, <2>6, <3>1 DEF ReplayInv
    <3>2. CASE q \in Seqs
      <4> DEFINE below == {p \in replay.seen \cup Seqs : p < q}
      <4>1. ~Gap(below, q)
        BY <2>6, <3>2
      <4>2. q \in Nat /\ q >= 1
        BY <2>1, <2>4, <2>6
      <4>3. (below = {} => q = 1) /\ (below # {} => q - 1 \in below)
        BY <4>1, <4>2 DEF Gap
      <4>4. QED BY <2>1, <4>3
    <3>3. QED BY <2>1, <2>6, <3>1, <3>2
  <2>7. ASSUME replay'.at = "read" PROVE replay'.target <= replay'.after
    <3>1. \A a \in rows : a.seq <= replay'.after
      BY <1>0, <2>1, <2>2, <2>3, <2>7
    <3>2. nextSeq > 1 => nextSeq - 1 <= replay'.after
      BY <1>0, <3>1 DEF RowsInv
    <3>3. replay.target < nextSeq
      BY <2>1 DEF ReplayInv
    <3>4. QED BY <1>0, <2>1, <2>3, <3>2, <3>3
  <2>8. replay'.target < nextSeq' /\ replay'.at \in {"reading", "read"}
    BY <2>1 DEF ReplayInv
  <2> HIDE DEF gap
  <2>9. QED BY <2>1, <2>4, <2>5, <2>6, <2>7, <2>8 DEF ReplayInv
<1>4. CASE ReplayEnds
  <2> DEFINE whole == /\ replay.seen # {} /\ ~replay.gap
                      /\ ~(replay.left = 0 /\ HasEventAfter(replay.after))
  <2>1. /\ replay.at = "read" \/ (replay.at = "reading" /\ replay.left = 0)
        /\ nextSeq' = nextSeq
        /\ replay' = [replay EXCEPT !.at = IF whole THEN "complete" ELSE "incomplete"]
    BY <1>4 DEF ReplayEnds
  <2>2. /\ replay'.target = replay.target /\ replay'.seen = replay.seen /\ replay'.after = replay.after
        /\ replay'.gap = replay.gap /\ replay'.at \in {"complete", "incomplete"}
        /\ replay'.at = "complete" => whole
    BY <2>1 DEF LogTypes
  <2>3. ASSUME whole, replay.at = "reading" PROVE replay.target <= replay.after
    <3>1. \A a \in rows : a.seq <= replay.after
      BY <1>0, <2>1, <2>3 DEF HasEventAfter
    <3>2. nextSeq > 1 => nextSeq - 1 <= replay.after
      BY <1>0, <3>1 DEF RowsInv
    <3>3. QED BY <1>0, <2>3, <3>2 DEF ReplayInv
  <2> HIDE DEF whole
  <2>4. whole => ~replay.gap /\ replay.target <= replay.after
    BY <2>1, <2>3 DEF ReplayInv, whole
  <2>5. QED BY <2>1, <2>2, <2>4 DEF ReplayInv
<1>5. QED
  BY <1>1, <1>2, <1>3, <1>4 DEF LogNext, Minute, VenueChanges, AppendMarket, LogRestarts, SyncStarts, SyncFetches,
     SyncAppends, SyncSucceeds, SyncFails, SyncEnds

-----------------------------------------------------------------------------
LEMMA LogKept == LogIInv /\ [LogNext]_logVars => LogIInv'
<1> SUFFICES ASSUME LogIInv, [LogNext]_logVars PROVE LogIInv'
  OBVIOUS
<1>1. CASE LogNext
  BY <1>1, LogTypesKept, VenueShowsKept, SyncKept, RowsKept, PruneKept, ReplayKept DEF LogIInv
<1>2. CASE UNCHANGED logVars
  BY <1>2 DEF logVars, LogIInv, LogTypes, VenueShows, SyncInv, CursorMeansStored, Stored, InHand, Old,
     RowsInv, EachChangeStoredOnce, Follows, PruneInv, MarketRows, ReplayInv
<1>3. QED BY <1>1, <1>2

(* Without a gap, whatever lies below the last sequence read was read.      *)
LEMMA NoHoles ==
    ASSUME NEW S \in SUBSET Nat, NEW top \in S, NEW k \in 1 .. top,
           \A q \in S : q = 1 \/ q - 1 \in S
    PROVE  k \in S
<1> SUFFICES ASSUME k \notin S PROVE FALSE
  OBVIOUS
<1> DEFINE T == {q \in S : q > k}
<1>0. top \in Nat /\ k \in Nat /\ k <= top /\ top # k
  OBVIOUS
<1>a. top > k
  BY <1>0
<1>1. T \in SUBSET Nat /\ top \in T
  BY <1>a
<1>2. PICK m \in T : \A q \in T : m <= q
  BY <1>1, LeastOf
<1>3. m - 1 \in S /\ m > k
  BY <1>2
<1>4. CASE m - 1 = k
  BY <1>3, <1>4
<1>5. CASE m - 1 # k
  BY <1>2, <1>3, <1>5
<1>6. QED BY <1>4, <1>5

LEMMA LogMeans == LogIInv => LogInv
<1> SUFFICES ASSUME LogIInv PROVE LogInv
  OBVIOUS
<1>1. LogTypeOK /\ CursorMeansStored /\ EachChangeStoredOnce
  BY DEF LogIInv, LogTypes, LogTypeOK, SyncInv, RowsInv
<1>2. MarketRowsBounded
  <2>1. Cardinality(MarketRows(rows)) \in Nat
    <3>1. IsFiniteSet(MarketRows(rows))
      BY PrunedStays DEF LogIInv, LogTypes
    <3>2. QED BY <3>1, FS_CardinalityType, Zenon
  <2>2. QED BY <2>1, LogAssumption DEF LogIInv, LogTypes, PruneInv, MarketRowsBounded
<1>3. CompleteMeansWhole
  <2> SUFFICES ASSUME replay.at = "complete", NEW k \in 1 .. replay.target PROVE k \in replay.seen
    BY DEF CompleteMeansWhole
  <2>1. /\ replay.after \in Nat /\ replay.target \in Nat /\ replay.seen \in SUBSET Nat
        /\ replay.target <= replay.after
        /\ replay.after = 0 \/ replay.after \in replay.seen
        /\ \A q \in replay.seen : q = 1 \/ q - 1 \in replay.seen
    BY DEF LogIInv, LogTypes, ReplayInv
  <2>2. replay.after \in replay.seen /\ k \in 1 .. replay.after
    BY <2>1
  <2>3. QED BY <2>1, <2>2, NoHoles
<1>4. QED BY <1>1, <1>2, <1>3 DEF LogInv

(* The cursor passes nothing that is not stored; no version of a record is  *)
(* stored twice in a row, and of an order no older one behind a newer one   *)
(* (of a trade a stale answer may be); market rows stay bounded; and a      *)
(* replay that calls itself complete has read everything: over late         *)
(* records, stale replicas, pruning, failed runs and restarts               *)
(* (history-sync.ts, the evidence store and the replay).                    *)
THEOREM LogIsKept == LogSpec => []LogInv
<1>1. LogInit => LogIInv
  BY LogStarts
<1>2. LogIInv /\ [LogNext]_logVars => LogIInv'
  BY LogKept
<1>3. LogIInv => LogInv
  BY LogMeans
<1>4. QED BY <1>1, <1>2, <1>3, PTL DEF LogSpec

-----------------------------------------------------------------------------
(* The outcomes: what a publication and a reconciliation are made of.       *)
Publication == [pc : {"idle", "facts", "search"}, batch : SUBSET Intents, todo : SUBSET Intents,
                views : SUBSET Intents, exit : Ticks, trigger : {"stream", "reconcile"},
                claimed : SUBSET Orders, stored : SUBSET Intents]
FlatCycle == [pc : {"idle", "fetching", "publishing", "after", "retrying"}, due : BOOLEAN,
              after : 0 .. MaxIntents, tranches : SUBSET Intents, views : SUBSET Intents]

TaskTypes == pub \in Publication /\ rec \in FlatCycle /\ rec.tranches \subseteq Filled

(* The clock is the number of registrations and fills.                      *)
Registered == {i \in Intents : created[i] # 0}
CountInv ==
    /\ held \subseteq Filled /\ Filled \subseteq Registered
    /\ \A t \in late : t.order[1] # "entry"
    /\ \A t \in trades \cup late : t.at <= now
    /\ now = Cardinality(Registered) + Cardinality(Filled) + Cardinality(Filled \ held)

(* What an outcome has is a fill its next search still finds.               *)
FillInv ==
    /\ \A i \in Intents : \A o \in Closing(outcome[i].orders) :
          \E t \in trades : t.order = o /\ t.at >= created[i] /\ t.at <= outcome[i].exit
    /\ \A i \in Intents : outcome[i].exit <= now /\ (outcome[i] # None => i \in Filled)
    /\ pub.exit <= now
    /\ \A i \in pub.todo : outcome[i].exit <= pub.exit

(* What belongs to nobody in the batch, and what the batch has built, is    *)
(* claimed.                                                                 *)
ClaimInv ==
    /\ pub.pc # "search" => pub.stored = {}
    /\ pub.stored \cap pub.todo = {}
    /\ \A i \in pub.stored : Closing(outcome[i].orders) \subseteq pub.claimed
    /\ pub.pc = "search" =>
          /\ \A j \in Intents \ pub.batch : outcome[j].orders \subseteq pub.claimed
          /\ pub.todo = pub.batch => pub.claimed = ClaimedByOthers(pub.batch)
    /\ OneClaimPerPublication

PublishInv == OutcomesTypeOK /\ TaskTypes /\ CountInv /\ FillInv /\ ClaimInv

-----------------------------------------------------------------------------
LEMMA IntentSets ==
    /\ MaxIntents \in Nat /\ IsFiniteSet(Intents) /\ Cardinality(Intents) = MaxIntents
    /\ Intents \in SUBSET Nat /\ Filled \subseteq Intents /\ receipt \subseteq Filled
<1>1. MaxIntents \in Nat
  BY OutcomeBounds
<1>2. IsFiniteSet(Intents) /\ Cardinality(Intents) = MaxIntents
  BY <1>1, FS_Interval DEF Intents
<1>3. QED BY <1>1, <1>2 DEF Intents, Filled, receipt

LEMMA CountOf ==
    ASSUME NEW S \in SUBSET Intents
    PROVE  IsFiniteSet(S) /\ Cardinality(S) \in 0 .. MaxIntents
<1>1. IsFiniteSet(S) /\ Cardinality(S) <= MaxIntents
  BY IntentSets, FS_Subset
<1>2. Cardinality(S) \in Nat
  BY <1>1, FS_CardinalityType, Zenon
<1>3. QED BY <1>1, <1>2, IntentSets

LEMMA ThreeCounts ==
    ASSUME NEW R \in SUBSET Intents, NEW F \in SUBSET Intents, NEW C \in SUBSET Intents
    PROVE  Cardinality(R) + Cardinality(F) + Cardinality(C) \in Ticks
<1> DEFINE r == Cardinality(R)
           f == Cardinality(F)
           c == Cardinality(C)
<1>1. r \in 0 .. MaxIntents /\ f \in 0 .. MaxIntents /\ c \in 0 .. MaxIntents
  BY CountOf
<1> HIDE DEF r, f, c
<1>2. r + f + c \in 0 .. 3 * MaxIntents
  BY <1>1, IntentSets
<1>3. QED BY <1>2 DEF Ticks, r, f, c

LEMMA OneMore ==
    ASSUME NEW S \in SUBSET Intents, NEW i \in Intents, i \notin S
    PROVE  Cardinality(S \cup {i}) = Cardinality(S) + 1 /\ Cardinality(S) \in Nat
BY CountOf, FS_AddElement

(* Tranches: whatever a flat, a cache or a retry takes has filled.          *)
LEMMA TrancheSets ==
    ASSUME OutcomesTypeOK, NEW open
    PROVE  /\ Remaining(open) \subseteq Filled /\ Resolved(open) \subseteq Filled
           /\ Views(open) \subseteq Intents /\ ToRetry \subseteq Filled
BY IntentSets DEF OutcomesTypeOK, Remaining, Resolved, Views, ClosedPosition, ToRetry

LEMMA FactTypes ==
    ASSUME OutcomesTypeOK, NEW S \in SUBSET Intents, NEW views, NEW flat,
           RecordFacts(S, views, flat)
    PROVE  fact' \in [Intents -> Phases] /\ live' \subseteq Intents
<1>1. \A i : Phase(i, views, flat) \in Phases
  BY DEF Phase, Phases
<1>2. QED BY <1>1 DEF RecordFacts, OutcomesTypeOK

LEMMA PublishTypes ==
    ASSUME OutcomesTypeOK, TaskTypes, NEW S \in SUBSET Filled, NEW views \in SUBSET Intents,
           NEW trigger \in {"stream", "reconcile"}, Publish(S, views, trigger)
    PROVE  /\ pub' \in Publication /\ inFlight' \in BOOLEAN
           /\ \/ pub' = pub /\ inFlight' = inFlight
              \/ /\ pub'.pc = "facts" /\ pub'.batch = S /\ pub'.todo = S /\ pub'.exit = now
                 /\ pub'.stored = {}
<1>0. S \subseteq Intents
  BY IntentSets
<1>1. CASE ~Starts(S)
  BY <1>1 DEF Publish, OutcomesTypeOK, TaskTypes
<1>2. CASE Starts(S)
  <2>1. pub' = [pc |-> "facts", batch |-> S, todo |-> S, views |-> views, exit |-> now,
                trigger |-> trigger, claimed |-> {}, stored |-> {}] /\ inFlight' = TRUE
    BY <1>2 DEF Publish, Idle
  <2>2. now \in Ticks
    BY DEF OutcomesTypeOK
  <2>3. QED BY <1>0, <2>1, <2>2 DEF Publication
<1>3. QED BY <1>1, <1>2

(* A publication that starts, or none does, keeps what is known of claims.  *)
LEMMA PublishKeeps ==
    ASSUME PublishInv, NEW S \in SUBSET Filled, NEW views \in SUBSET Intents,
           NEW trigger \in {"stream", "reconcile"}, Publish(S, views, trigger),
           UNCHANGED <<now, trades, created, outcome>>
    PROVE  /\ pub' \in Publication /\ inFlight' \in BOOLEAN
           /\ pub'.pc \in {"idle", "facts", "search"}
           /\ pub'.todo \subseteq pub'.batch /\ pub'.batch \subseteq Filled
           /\ FillInv' /\ ClaimInv'
<1> USE DEF PublishInv
<1>1. CASE pub' = pub
  <2>1. Filled' = Filled
    BY DEF Filled
  <2>2. FillInv'
    BY <1>1, <2>1 DEF FillInv
  <2>3. ClaimedByOthers(pub.batch)' = ClaimedByOthers(pub.batch)
    BY <1>1 DEF ClaimedByOthers
  <2>4. ClaimInv'
    BY <1>1, <2>3 DEF ClaimInv, OneClaimPerPublication
  <2>5. QED BY <1>1, <2>2, <2>4, PublishTypes DEF OutcomesTypeOK
<1>2. CASE /\ pub'.pc = "facts" /\ pub'.batch = S /\ pub'.todo = S /\ pub'.exit = now
           /\ pub'.stored = {}
  <2>1. ClaimInv'
    BY <1>2 DEF ClaimInv, OneClaimPerPublication
  <2>2. S \subseteq Intents
    BY IntentSets
  <2>3. now \in Ticks
    BY DEF OutcomesTypeOK
  <2>4. Ticks \subseteq Nat
    BY DEF Ticks
  <2>5. FillInv'
    BY <1>2, <2>2, <2>3, <2>4 DEF FillInv, Filled
  <2>6. QED BY <1>2, <2>1, <2>5, PublishTypes
<1>3. QED BY <1>1, <1>2, PublishTypes

(* The search finds nothing that is claimed, and builds what it found.      *)
LEMMA FillsOf ==
    ASSUME OutcomesTypeOK, CountInv, NEW t \in trades
    PROVE  t \in Fills /\ t.order \in Orders /\ t.at \in Ticks /\ t.at \in Nat /\ t.at <= now
<1>1. t \in Fills
  BY DEF OutcomesTypeOK
<1>2. t.order \in Orders /\ t.at \in Ticks
  BY <1>1 DEF Fills
<1>3. Ticks \subseteq Nat
  BY DEF Ticks
<1>4. QED BY <1>1, <1>2, <1>3 DEF CountInv

LEMMA ExitTicks ==
    ASSUME PublishInv, NEW fills \in SUBSET trades
    PROVE  /\ ExitTick(fills) \in Ticks /\ ExitTick(fills) <= now
           /\ \A t \in fills : t.order[1] # "entry" => t.at <= ExitTick(fills)
<1> USE DEF PublishInv
<1> DEFINE closing == {t \in fills : t.order[1] # "entry"}
           C == {t.at : t \in closing}
           A == {t.at : t \in fills}
<1>0. now \in Nat
  BY DEF OutcomesTypeOK, Ticks
<1>1. /\ C \in SUBSET Nat /\ \A q \in C : q <= now /\ q \in Ticks
      /\ A \in SUBSET Nat /\ \A q \in A : q <= now /\ q \in Ticks
  BY FillsOf
<1>2. ExitTick(fills) = IF closing # {} THEN Max(C) ELSE IF fills # {} THEN Max(A) ELSE pub.exit
  BY DEF ExitTick
<1>3. closing # {} => C # {}
  OBVIOUS
<1>4. fills # {} => A # {}
  OBVIOUS
<1>5. \A t \in closing : t.at \in C
  OBVIOUS
<1>6. \A t \in fills : t.order[1] # "entry" => t \in closing
  OBVIOUS
<1> HIDE DEF closing, C, A
<1>7. CASE closing # {}
  <2>1. Max(C) \in C /\ \A q \in C : q <= Max(C)
    BY <1>0, <1>1, <1>3, <1>7, GreatestIsMax
  <2>2. QED BY <1>1, <1>2, <1>5, <1>6, <1>7, <2>1
<1>8. CASE closing = {} /\ fills # {}
  <2>1. Max(A) \in A
    BY <1>0, <1>1, <1>4, <1>8, GreatestIsMax
  <2>2. QED BY <1>1, <1>2, <1>6, <1>8, <2>1
<1>9. CASE closing = {} /\ fills = {}
  BY <1>2, <1>9 DEF TaskTypes, Publication, FillInv
<1>10. QED BY <1>7, <1>8, <1>9

LEMMA AttributedFills ==
    ASSUME NEW i
    PROVE  Attributed(i) \subseteq Unclaimed(i)
BY DEF Attributed

LEMMA BuiltRight ==
    ASSUME PublishInv, NEW i \in Intents
    PROVE  /\ Built(i) \in Outcome /\ Built(i) # None /\ Built(i).exit <= now
           /\ Built(i).orders \cap pub.claimed = {}
           /\ \A o \in Closing(Built(i).orders) :
                 \E t \in trades : t.order = o /\ t.at >= created[i] /\ t.at <= Built(i).exit
<1> DEFINE fills == Attributed(i)
<1>1. fills \in SUBSET trades /\ \A t \in fills : t.at >= created[i] /\ t.order \notin pub.claimed
  BY AttributedFills DEF Unclaimed
<1> HIDE DEF fills
<1>2. OrdersOf(fills) \in SUBSET Orders
  BY <1>1, FillsOf DEF OrdersOf, PublishInv
<1>3. ExitReason(i, fills) \in Reasons
  BY DEF ExitReason, Reasons
<1>4. (i \in receipt \/ outcome[i].proven) \in BOOLEAN
  OBVIOUS
<1>5. Built(i) = [orders |-> OrdersOf(fills), exit |-> ExitTick(fills),
                  reason |-> ExitReason(i, fills), proven |-> i \in receipt \/ outcome[i].proven]
  BY DEF Built, fills
<1>6. Built(i) \in Outcome
  BY <1>1, <1>2, <1>3, <1>4, <1>5, ExitTicks DEF Outcome
<1>7. Built(i) # None
  BY <1>3, <1>5 DEF None, Reasons
<1>8. Built(i).orders \cap pub.claimed = {}
  BY <1>1, <1>5 DEF OrdersOf
<1>9. \A o \in Closing(Built(i).orders) : \E t \in fills : t.order = o /\ t.order[1] # "entry"
  BY <1>5 DEF Closing, OrdersOf
<1>10. QED BY <1>1, <1>5, <1>6, <1>7, <1>8, <1>9, ExitTicks

(* Of the fills of nobody one is the nearest to the flat.                   *)
LEMMA NearestExists ==
    ASSUME NEW S, NEW T \in SUBSET S, T # {}, \A t \in S : t.at \in Nat, NEW e \in Nat
    PROVE  \E t \in T : \A u \in T :
              \/ Distance(t, e) < Distance(u, e)
              \/ Distance(t, e) = Distance(u, e) /\ t.at <= u.at
<1>1. \A t \in T : t.at \in Nat /\ Distance(t, e) \in Nat
  BY DEF Distance
<1> DEFINE D == {Distance(t, e) : t \in T}
<1>2. PICK d \in D : \A c \in D : d <= c
  <2>1. D \in SUBSET Nat /\ D # {}
    BY <1>1
  <2> HIDE DEF D
  <2>2. QED BY <2>1, LeastOf
<1> DEFINE A == {t.at : t \in {v \in T : Distance(v, e) = d}}
<1>3. PICK a \in A : \A c \in A : a <= c
  <2>1. A \in SUBSET Nat /\ A # {}
    BY <1>1
  <2>2. QED BY <2>1, LeastOf
<1>4. PICK t \in T : Distance(t, e) = d /\ t.at = a
  OBVIOUS
<1>5. \A u \in T : Distance(t, e) <= Distance(u, e)
  BY <1>2, <1>4
<1>6. \A u \in T : Distance(t, e) = Distance(u, e) => t.at <= u.at
  BY <1>3, <1>4
<1>7. QED BY <1>1, <1>5, <1>6

(* What an outcome has and nobody claims is found again.                    *)
LEMMA FoundAgain ==
    ASSUME PublishInv, NEW i \in pub.todo, NEW o \in Closing(outcome[i].orders),
           o \notin pub.claimed
    PROVE  Closing(Built(i).orders) # {}
<1> USE DEF PublishInv
<1> DEFINE scoped  == Unclaimed(i)
           owned   == {t \in scoped : t.order \in Known(i)}
           orphans == {t \in scoped : t.order \notin Known(i) /\ t.order[1] # "entry"}
           e == FlatClock(i)
<1>0. i \in Intents /\ outcome[i].exit \in Nat /\ pub.exit \in Nat /\ SearchTail \in Nat
  BY OutcomeBounds, IntentSets DEF TaskTypes, Publication, OutcomesTypeOK, Outcome, None, Ticks
<1>1. PICK t \in trades : t.order = o /\ t.at >= created[i] /\ t.at <= outcome[i].exit
  BY <1>0 DEF FillInv
<1>2. t.at \in Nat /\ t.order[1] # "entry"
  BY <1>1, FillsOf DEF Closing
<1>3. e \in Nat /\ outcome[i].exit <= e
  BY <1>0 DEF FlatClock, FillInv, None, Closing
<1>4. t \in scoped
  <2>1. t.at <= e + SearchTail
    BY <1>0, <1>1, <1>2, <1>3
  <2>2. QED BY <1>1, <2>1 DEF Unclaimed
<1>5. \A f : f \in Attributed(i) /\ f.order[1] # "entry" => Closing(Built(i).orders) # {}
  BY DEF Closing, Built, OrdersOf
<1>6. CASE HasClosing(owned)
  <2>1. Attributed(i) = owned
    BY <1>6 DEF Attributed
  <2>2. \E f \in owned : f.order[1] # "entry"
    BY <1>6 DEF HasClosing, Closing, OrdersOf
  <2>3. QED BY <1>5, <2>1, <2>2
<1>7. CASE ~HasClosing(owned)
  <2>1. t \notin owned
    BY <1>2, <1>7 DEF HasClosing, Closing, OrdersOf
  <2>2. t \in orphans
    BY <1>2, <1>4, <2>1
  <2>3. orphans \in SUBSET trades /\ \A f \in trades : f.at \in Nat
    BY FillsOf DEF Unclaimed
  <2> HIDE DEF orphans, owned, scoped, e
  <2>4. PICK n \in orphans : \A u \in orphans :
              \/ Distance(n, e) < Distance(u, e)
              \/ Distance(n, e) = Distance(u, e) /\ n.at <= u.at
    BY <1>3, <2>2, <2>3, NearestExists
  <2>5. n \in Attributed(i)
    BY <1>7, <2>4 DEF Attributed, orphans, owned, scoped, e
  <2>6. n.order[1] # "entry"
    BY DEF orphans
  <2>7. QED BY <1>5, <2>5, <2>6
<1>8. QED BY <1>6, <1>7

-----------------------------------------------------------------------------
LEMMA OutcomesStart == OutcomesInit => PublishInv
<1> SUFFICES ASSUME OutcomesInit PROVE PublishInv
  OBVIOUS
<1> USE DEF OutcomesInit
<1>0. MaxIntents \in Nat /\ MaxOutcomeFaults \in Nat /\ MaxCrashes \in Nat /\ 0 \in Ticks
  BY OutcomeBounds DEF Ticks
<1>1. Filled = {} /\ Registered = {}
  BY DEF Filled, Registered
<1>2. OutcomesTypeOK
  <2>1. /\ now \in Ticks /\ created \in [Intents -> Ticks]
        /\ outcome \in [Intents -> Outcome \cup {None}] /\ fact \in [Intents -> Phases]
    BY <1>0 DEF Phases
  <2>2. seen \in 0 .. MaxIntents /\ last \in 0 .. MaxIntents /\ faults \in 0 .. MaxOutcomeFaults
        /\ crashes \in 0 .. MaxCrashes
    BY <1>0
  <2>3. /\ pub.pc = "idle" /\ pub.todo = {} /\ pub.batch = {} /\ rec.pc = "idle"
    BY DEF Idle, Rest
  <2>4. QED BY <1>1, <2>1, <2>2, <2>3 DEF OutcomesTypeOK
<1>3. TaskTypes
  BY <1>0, <1>1 DEF TaskTypes, Publication, FlatCycle, Idle, Rest
<1>4. CountInv
  <2>1. Cardinality({}) = 0 /\ {} \ {} = {}
    BY FS_EmptySet, Zenon
  <2>2. QED BY <1>1, <2>1 DEF CountInv
<1>5. FillInv
  BY <1>0, <1>1 DEF FillInv, None, Closing, Idle
<1>6. ClaimInv
  BY DEF ClaimInv, Idle, OneClaimPerPublication
<1>7. QED BY <1>2, <1>3, <1>4, <1>5, <1>6 DEF PublishInv

(* What the venue does changes the fills, the clock and who is registered.  *)
LEMMA VenueKeeps ==
    ASSUME PublishInv, CountInv', Filled \subseteq Filled', trades \subseteq trades',
           trades' \subseteq Fills, late' \subseteq Fills, held' \subseteq Intents,
           named' \subseteq Intents, created' \in [Intents -> Ticks], now <= now',
           \A i \in Filled : created'[i] = created[i],
           UNCHANGED <<stores, remembered, inFlight, pub, rec, faults, crashes>>
    PROVE  PublishInv'
<1> USE DEF PublishInv, stores, remembered
<1>1. now' \in Ticks
  <2>1. Registered' \in SUBSET Intents /\ Filled' \in SUBSET Intents
    BY DEF Registered, Filled
  <2>2. (Filled \ held)' \in SUBSET Intents
    BY <2>1
  <2>3. now' = Cardinality(Registered') + Cardinality(Filled') + Cardinality((Filled \ held)')
    BY DEF CountInv
  <2>4. QED BY <2>1, <2>2, <2>3, ThreeCounts
<1>2. OutcomesTypeOK'
  BY <1>1 DEF OutcomesTypeOK
<1>3. TaskTypes'
  BY DEF TaskTypes
<1>4. FillInv'
  <2>1. \A i \in Intents : \A o \in Closing(outcome[i].orders) :
           \E t \in trades' : t.order = o /\ t.at >= created'[i] /\ t.at <= outcome[i].exit
    <3> TAKE i \in Intents
    <3> TAKE o \in Closing(outcome[i].orders)
    <3>1. i \in Filled
      BY DEF FillInv, None, Closing
    <3>2. QED BY <3>1 DEF FillInv
  <2>2. \A i \in Intents : outcome[i].exit <= now'
    <3> TAKE i \in Intents
    <3>1. outcome[i].exit \in Nat /\ now \in Nat /\ now' \in Nat /\ outcome[i].exit <= now
      BY <1>1 DEF FillInv, OutcomesTypeOK, Outcome, None, Ticks
    <3>2. QED BY <3>1
  <2>3. pub.exit <= now'
    <3>1. pub.exit \in Nat /\ now \in Nat /\ now' \in Nat /\ pub.exit <= now
      BY <1>1 DEF FillInv, OutcomesTypeOK, TaskTypes, Publication, Ticks
    <3>2. QED BY <3>1
  <2>4. QED BY <2>1, <2>2, <2>3 DEF FillInv
<1>5. ClaimInv'
  BY DEF ClaimInv, OneClaimPerPublication, ClaimedByOthers
<1>6. QED BY <1>2, <1>3, <1>4, <1>5

(* Each of the venue's steps counts: one tick, one intent more.             *)
LEMMA VenueStep ==
    ASSUME PublishInv, NEW i \in Intents, Register(i) \/ Fill(i) \/ Close(i)
    PROVE  PublishInv'
<1> USE DEF PublishInv
<1>0. now \in Nat /\ Ticks \subseteq Nat /\ now + 1 > now
  BY DEF OutcomesTypeOK, Ticks
<1>a. Filled \in SUBSET Intents /\ held \in SUBSET Intents /\ Registered \in SUBSET Intents
  BY IntentSets DEF OutcomesTypeOK, Registered
<1>b. (Filled \ held) \in SUBSET Intents
  BY <1>a
<1>c. \A t \in trades \cup late : t.at \in Nat /\ t.at <= now /\ t.at <= now + 1
  <2>1. \A t \in trades \cup late : t \in Fills /\ t.at <= now
    BY DEF OutcomesTypeOK, CountInv
  <2>2. \A t \in Fills : t.at \in Ticks
    BY DEF Fills
  <2>3. ASSUME NEW t \in trades \cup late PROVE t.at \in Nat /\ t.at <= now /\ t.at <= now + 1
    <3>1. t \in Fills /\ t.at <= now
      BY <2>1
    <3>2. t.at \in Nat
      BY <1>0, <2>2, <3>1
    <3>3. QED BY <1>0, <3>1, <3>2
  <2>4. QED BY <2>3, Zenon
<1>d. /\ Cardinality(Registered) \in Nat /\ Cardinality(Filled) \in Nat
      /\ Cardinality(Filled \ held) \in Nat
  BY <1>a, <1>b, CountOf
<1>1. CASE Register(i)
  <2>1. /\ created[i] = 0 /\ now' = now + 1 /\ created' = [created EXCEPT ![i] = now + 1]
        /\ UNCHANGED <<held, trades, late, named, stores, remembered, inFlight, pub, rec,
                       faults, crashes>>
    BY <1>1 DEF Register
  <2>2. Filled' = Filled
    BY <2>1 DEF Filled
  <2>3. Registered' = Registered \cup {i} /\ i \notin Registered
    BY <1>0, <2>1 DEF Registered, OutcomesTypeOK
  <2>4. Cardinality(Registered') = Cardinality(Registered) + 1
    BY <1>a, <2>3, OneMore
  <2>5. CountInv'
    <3>1. now' = Cardinality(Registered') + Cardinality(Filled') + Cardinality(Filled' \ held')
      BY <1>d, <2>1, <2>2, <2>4 DEF CountInv
    <3>2. QED BY <1>c, <2>1, <2>2, <2>3, <3>1 DEF CountInv
  <2>6. now + 1 \in Ticks
    <3>1. now + 1 = Cardinality(Registered') + Cardinality(Filled) + Cardinality(Filled \ held)
      BY <1>d, <2>4 DEF CountInv
    <3>2. Registered' \in SUBSET Intents
      BY <1>a, <2>3
    <3>3. QED BY <1>a, <1>b, <3>1, <3>2, ThreeCounts
  <2>7. /\ created' \in [Intents -> Ticks] /\ \A j \in Filled : created'[j] = created[j]
    BY <2>1, <2>3, <2>6 DEF OutcomesTypeOK, CountInv
  <2>8. QED BY <1>0, <2>1, <2>2, <2>5, <2>7, VenueKeeps DEF OutcomesTypeOK
<1>2. CASE Fill(i)
  <2> DEFINE f == [order |-> Entry(i), at |-> now + 1]
  <2>1. /\ created[i] # 0 /\ i \notin Filled /\ now' = now + 1 /\ held' = held \cup {i}
        /\ trades' = trades \cup {f}
        /\ UNCHANGED <<created, late, named, stores, remembered, inFlight, pub, rec,
                       faults, crashes>>
    BY <1>2 DEF Fill
  <2>2. Filled' = Filled \cup {i}
    <3>1. \A j : Entry(j) = Entry(i) => j = i
      BY DEF Entry
    <3>2. f.order = Entry(i)
      OBVIOUS
    <3> HIDE DEF f
    <3>3. \A j \in Intents : j \in Filled' <=> j \in Filled \/ j = i
      BY <2>1, <3>1, <3>2 DEF Filled
    <3>4. Filled' \subseteq Intents /\ Filled \subseteq Intents
      BY DEF Filled
    <3>5. QED BY <3>3, <3>4
  <2>3. Registered' = Registered /\ i \in Registered
    BY <2>1 DEF Registered
  <2>4. Cardinality(Filled') = Cardinality(Filled) + 1
    BY <1>a, <2>1, <2>2, OneMore
  <2>5. (Filled' \ held') = Filled \ held
    BY <2>1, <2>2
  <2>6. now + 1 = Cardinality(Registered) + Cardinality(Filled') + Cardinality(Filled \ held)
    BY <1>d, <2>4 DEF CountInv
  <2>7. now + 1 \in Ticks
    <3>1. Filled' \in SUBSET Intents
      BY <1>a, <2>2
    <3>2. QED BY <1>a, <1>b, <2>6, <3>1, ThreeCounts
  <2>8. f \in Fills
    BY <2>7 DEF Fills, Orders, Kinds, Entry
  <2>9. CountInv'
    <3>1. now' = Cardinality(Registered') + Cardinality(Filled') + Cardinality(Filled' \ held')
      BY <2>1, <2>3, <2>5, <2>6
    <3>2. held' \subseteq Filled' /\ Filled' \subseteq Registered'
      BY <2>1, <2>2, <2>3 DEF CountInv
    <3>3. \A t \in trades' \cup late' : t.at <= now'
      BY <1>0, <1>c, <2>1
    <3>4. QED BY <2>1, <3>1, <3>2, <3>3 DEF CountInv
  <2>10. held' \subseteq Intents /\ trades' \subseteq Fills
    BY <1>a, <2>1, <2>8 DEF OutcomesTypeOK
  <2> HIDE DEF f
  <2>11. QED BY <1>0, <2>1, <2>2, <2>9, <2>10, VenueKeeps DEF OutcomesTypeOK
<1>3. CASE Close(i)
  <2>1. PICK o \in {Stop(i), Other(i)} :
           /\ i \in held /\ held' = held \ {i} /\ now' = now + 1
           /\ late' = late \cup {[order |-> o, at |-> now + 1]}
           /\ named' \in {named, named \cup {i}}
           /\ UNCHANGED <<created, trades, stores, remembered, inFlight, pub, rec, faults, crashes>>
    BY <1>3 DEF Close
  <2> DEFINE f == [order |-> o, at |-> now + 1]
  <2>2. Filled' = Filled /\ Registered' = Registered
    BY <2>1 DEF Filled, Registered
  <2>3. (Filled' \ held') = (Filled \ held) \cup {i} /\ i \notin Filled \ held
    BY <2>1, <2>2 DEF CountInv
  <2>4. Cardinality(Filled' \ held') = Cardinality(Filled \ held) + 1
    BY <1>b, <2>3, OneMore
  <2>5. now + 1 = Cardinality(Registered) + Cardinality(Filled) + Cardinality(Filled' \ held')
    BY <1>d, <2>4 DEF CountInv
  <2>6. now + 1 \in Ticks
    <3>1. (Filled' \ held') \in SUBSET Intents
      BY <1>b, <2>3
    <3>2. QED BY <1>a, <2>5, <3>1, ThreeCounts
  <2>7. f \in Fills /\ f.order[1] # "entry"
    BY <2>6 DEF Fills, Orders, Kinds, Stop, Other
  <2>8. CountInv'
    <3>1. now' = Cardinality(Registered') + Cardinality(Filled') + Cardinality(Filled' \ held')
      BY <2>1, <2>2, <2>5
    <3>2. held' \subseteq Filled' /\ Filled' \subseteq Registered'
      BY <2>1, <2>2 DEF CountInv
    <3>3. \A t \in trades' \cup late' : t.at <= now'
      BY <1>0, <1>c, <2>1
    <3>4. \A t \in late' : t.order[1] # "entry"
      BY <2>1, <2>7 DEF CountInv
    <3>5. QED BY <3>1, <3>2, <3>3, <3>4 DEF CountInv
  <2>9. held' \subseteq Intents /\ late' \subseteq Fills /\ named' \subseteq Intents
    BY <1>a, <2>1, <2>7 DEF OutcomesTypeOK
  <2> HIDE DEF f
  <2>10. QED BY <1>0, <2>1, <2>2, <2>8, <2>9, VenueKeeps DEF OutcomesTypeOK
<1>4. QED BY <1>1, <1>2, <1>3

LEMMA ShownStep == ASSUME PublishInv, Shown PROVE PublishInv'
<1> USE DEF PublishInv
<1>1. PICK f \in late : trades' = trades \cup {f} /\ late' = late \ {f}
  BY DEF Shown
<1>2. UNCHANGED <<now, created, held, named, stores, remembered, inFlight, pub, rec, faults, crashes>>
  BY DEF Shown
<1>3. Filled' = Filled
  BY <1>1 DEF Filled, CountInv, Entry
<1>4. Registered' = Registered
  BY <1>2 DEF Registered
<1>5. CountInv'
  BY <1>1, <1>2, <1>3, <1>4 DEF CountInv
<1>6. now <= now'
  BY <1>2 DEF OutcomesTypeOK, Ticks
<1>7. QED BY <1>1, <1>2, <1>3, <1>5, <1>6, VenueKeeps DEF OutcomesTypeOK

(* The service's steps that start a publication, or none.                   *)
LEMMA CyclesKeep ==
    ASSUME PublishInv, UNCHANGED <<venue, outcome, faults, crashes>>,
           fact' \in [Intents -> Phases], live' \subseteq Intents,
           seen' \in 0 .. MaxIntents, last' \in 0 .. MaxIntents, cached' \subseteq Filled,
           rec' \in FlatCycle, rec'.tranches \subseteq Filled,
           NEW S \in SUBSET Filled, NEW views \in SUBSET Intents,
           NEW trigger \in {"stream", "reconcile"},
           Publish(S, views, trigger) \/ UNCHANGED <<inFlight, pub>>
    PROVE  PublishInv'
<1> USE DEF PublishInv, venue
<1>1. Filled' = Filled
  BY DEF Filled
<1>2. /\ pub' \in Publication /\ inFlight' \in BOOLEAN
      /\ pub'.pc \in {"idle", "facts", "search"}
      /\ pub'.todo \subseteq pub'.batch /\ pub'.batch \subseteq Filled
      /\ FillInv' /\ ClaimInv'
  <2>1. CASE Publish(S, views, trigger)
    BY <2>1, PublishKeeps
  <2>2. CASE UNCHANGED <<inFlight, pub>>
    <3>1. ClaimedByOthers(pub.batch)' = ClaimedByOthers(pub.batch)
      BY <2>2 DEF ClaimedByOthers
    <3>2. ClaimInv'
      BY <2>2, <3>1 DEF ClaimInv, OneClaimPerPublication
    <3>3. FillInv'
      BY <1>1, <2>2 DEF FillInv
    <3>4. QED BY <2>2, <3>2, <3>3 DEF OutcomesTypeOK, TaskTypes
  <2>3. QED BY <2>1, <2>2
<1>3. TaskTypes'
  BY <1>1, <1>2 DEF TaskTypes
<1>4. OutcomesTypeOK'
  <2>1. rec'.pc \in {"idle", "fetching", "publishing", "after", "retrying"}
    BY DEF FlatCycle
  <2>2. QED BY <1>1, <1>2, <2>1 DEF OutcomesTypeOK
<1>5. CountInv'
  <2>1. Registered' = Registered
    BY DEF Registered
  <2>2. QED BY <1>1, <2>1 DEF CountInv
<1>6. QED BY <1>2, <1>3, <1>4, <1>5

LEMMA ServiceStep ==
    ASSUME PublishInv, StreamPosition \/ RecBegin \/ RecApply \/ RecAfter
    PROVE  PublishInv'
<1> USE DEF PublishInv
<1>0. Cardinality(held) \in 0 .. MaxIntents /\ 0 \in 0 .. MaxIntents /\ {} \in SUBSET Intents
  BY CountOf, IntentSets DEF OutcomesTypeOK
<1>a. \A open : /\ Remaining(open) \in SUBSET Filled /\ Resolved(open) \in SUBSET Filled
                /\ Views(open) \in SUBSET Intents
  BY TrancheSets
<1>b. \A open : Remaining(open) \in SUBSET Intents /\ Resolved(open) \in SUBSET Intents
  BY <1>a, IntentSets
<1>c. cached \subseteq Filled /\ rec \in FlatCycle /\ rec.tranches \subseteq Filled
  BY DEF OutcomesTypeOK, TaskTypes
<1>d. /\ rec.tranches \in SUBSET Intents /\ rec.views \in SUBSET Intents /\ rec.after \in 0 .. MaxIntents
      /\ rec.tranches \in SUBSET Filled
  BY <1>c DEF FlatCycle
<1>e. \A open : RefreshCached(open) =>
         fact' \in [Intents -> Phases] /\ live' \subseteq Intents /\ cached' \subseteq Filled
  <2> TAKE open
  <2> HAVE RefreshCached(open)
  <2>1. RecordFacts(Remaining(open), Remaining(open), FALSE) /\ cached' = cached \cup Remaining(open)
    BY DEF RefreshCached
  <2>2. Remaining(open) \in SUBSET Intents
    BY <1>b
  <2>3. fact' \in [Intents -> Phases] /\ live' \subseteq Intents
    BY <2>1, <2>2, FactTypes
  <2>4. QED BY <1>a, <1>c, <2>1, <2>3
<1>f. /\ fact \in [Intents -> Phases] /\ live \subseteq Intents /\ seen \in 0 .. MaxIntents
      /\ last \in 0 .. MaxIntents
  BY DEF OutcomesTypeOK
<1>1. CASE StreamPosition
  <2>1. /\ UNCHANGED <<venue, outcome, last, rec, faults, crashes>> /\ seen' = Cardinality(held)
        /\ RefreshCached(Cardinality(held)) \/ UNCHANGED <<cached, fact, live>>
        /\ Publish(Resolved(seen), Views(seen), "stream") \/ UNCHANGED <<inFlight, pub>>
    BY <1>1 DEF StreamPosition
  <2>2. fact' \in [Intents -> Phases] /\ live' \subseteq Intents /\ cached' \subseteq Filled
    BY <1>c, <1>e, <1>f, <2>1
  <2>3. seen' \in 0 .. MaxIntents /\ last' \in 0 .. MaxIntents /\ rec' \in FlatCycle
        /\ rec'.tranches \subseteq Filled
    BY <1>0, <1>c, <1>f, <2>1
  <2>4. QED BY <1>a, <2>1, <2>2, <2>3, CyclesKeep
<1>2. CASE RecBegin
  <2>1. UNCHANGED <<venue, stores, remembered, inFlight, pub, faults, crashes>>
    BY <1>2 DEF RecBegin
  <2>2. \/ rec' = [pc |-> "fetching", due |-> TRUE, after |-> 0, tranches |-> Resolved(seen),
                   views |-> Views(seen)]
        \/ rec' = [pc |-> "fetching", due |-> FALSE, after |-> 0, tranches |-> {}, views |-> {}]
    BY <1>2 DEF RecBegin, Rest
  <2>3. rec' \in FlatCycle /\ rec'.tranches \subseteq Filled
    <3>1. /\ Resolved(seen) \in SUBSET Intents /\ Resolved(seen) \subseteq Filled
          /\ Views(seen) \in SUBSET Intents
      BY <1>a, <1>b
    <3> DEFINE tranches == Resolved(seen)
               views == Views(seen)
    <3> HIDE DEF tranches, views
    <3>2. CASE rec' = [pc |-> "fetching", due |-> TRUE, after |-> 0, tranches |-> tranches,
                       views |-> views]
      BY <1>0, <3>1, <3>2 DEF FlatCycle, tranches, views
    <3>3. CASE rec' = [pc |-> "fetching", due |-> FALSE, after |-> 0, tranches |-> {}, views |-> {}]
      BY <1>0, <3>3 DEF FlatCycle
    <3>4. QED BY <2>2, <3>2, <3>3 DEF tranches, views
  <2>4. QED BY <1>0, <1>a, <1>c, <1>f, <2>1, <2>3, CyclesKeep DEF stores, remembered
<1>3. CASE RecApply
  <2>1. /\ UNCHANGED <<venue, stores, cached, last, faults, crashes>> /\ seen' = Cardinality(held)
        /\ Publish(rec.tranches, rec.views, "reconcile") \/ UNCHANGED <<inFlight, pub>>
    BY <1>3 DEF RecApply
  <2>2. \E pc \in {"publishing", "after"} :
           rec' = [pc |-> pc, due |-> FALSE, after |-> Cardinality(held), tranches |-> {}, views |-> {}]
    BY <1>3 DEF RecApply, Rest
  <2>3. rec' \in FlatCycle /\ rec'.tranches \subseteq Filled
    BY <1>0, <2>2 DEF FlatCycle
  <2>4. QED BY <1>0, <1>c, <1>d, <1>f, <2>1, <2>3, CyclesKeep DEF stores
<1>4. CASE RecAfter
  <2>1. /\ UNCHANGED <<venue, outcome, seen, faults, crashes>> /\ last' = rec.after
        /\ Publish(ToRetry, {}, "reconcile") \/ UNCHANGED <<inFlight, pub>>
        /\ RefreshCached(rec.after) \/ (cached' = {} /\ UNCHANGED <<fact, live>>)
    BY <1>4 DEF RecAfter
  <2>2. \E pc \in {"idle", "retrying"} :
           rec' = [pc |-> pc, due |-> FALSE, after |-> 0, tranches |-> {}, views |-> {}]
    BY <1>4 DEF RecAfter, Rest
  <2>3. rec' \in FlatCycle /\ rec'.tranches \subseteq Filled
    BY <1>0, <2>2 DEF FlatCycle
  <2>4. fact' \in [Intents -> Phases] /\ live' \subseteq Intents /\ cached' \subseteq Filled
    BY <1>e, <1>f, <2>1
  <2>5. ToRetry \in SUBSET Filled
    BY TrancheSets
  <2>6. QED BY <1>0, <1>d, <1>f, <2>1, <2>3, <2>4, <2>5, CyclesKeep
<1>5. QED BY <1>1, <1>2, <1>3, <1>4

(* The cycle a publication leaves behind.                                   *)
LEMMA CycleReturns ==
    ASSUME TaskTypes, rec' \in {Returned, Threw, Rest, rec}, UNCHANGED trades
    PROVE  /\ rec' \in FlatCycle /\ rec'.tranches \subseteq Filled
           /\ rec'.pc \in {"idle", "fetching", "publishing", "after", "retrying"}
           /\ Filled' = Filled
<1>1. Filled' = Filled
  BY DEF Filled
<1>2. 0 \in 0 .. MaxIntents
  BY IntentSets
<1>3. Rest \in FlatCycle /\ Rest.tranches = {}
  BY <1>2 DEF Rest, FlatCycle
<1>4. [rec EXCEPT !.pc = "after"] \in FlatCycle /\ [rec EXCEPT !.pc = "after"].tranches = rec.tranches
  BY DEF TaskTypes, FlatCycle
<1>5. rec' \in {rec, Rest, [rec EXCEPT !.pc = "after"]}
  BY DEF Returned, Threw
<1>6. rec' \in FlatCycle /\ rec'.tranches \subseteq Filled
  BY <1>3, <1>4, <1>5 DEF TaskTypes
<1>7. QED BY <1>1, <1>6 DEF FlatCycle

(* A publication that is over or dies leaves the idle one.                  *)
LEMMA PublicationOver ==
    ASSUME PublishInv, UNCHANGED <<venue, outcome, fact>>, pub' = Idle, live' \subseteq Intents,
           seen' \in 0 .. MaxIntents,
           rec' \in {Returned, Threw, Rest}, inFlight' \in BOOLEAN,
           cached' \subseteq cached, last' \in 0 .. MaxIntents,
           faults' \in 0 .. MaxOutcomeFaults, crashes' \in 0 .. MaxCrashes
    PROVE  PublishInv'
<1> USE DEF PublishInv, venue
<1>1. /\ rec' \in FlatCycle /\ rec'.tranches \subseteq Filled /\ Filled' = Filled
      /\ rec'.pc \in {"idle", "fetching", "publishing", "after", "retrying"}
  BY CycleReturns
<1>2. Idle \in Publication /\ Idle.pc = "idle" /\ Idle.todo = {} /\ Idle.batch = {}
      /\ Idle.stored = {} /\ Idle.exit = 0
  BY IntentSets DEF Idle, Publication, Ticks
<1>3. OutcomesTypeOK'
  BY <1>1, <1>2 DEF OutcomesTypeOK
<1>4. TaskTypes'
  BY <1>1, <1>2 DEF TaskTypes
<1>5. CountInv'
  <2>1. Registered' = Registered
    BY DEF Registered
  <2>2. QED BY <1>1, <2>1 DEF CountInv
<1>6. FillInv'
  BY <1>1, <1>2 DEF FillInv, OutcomesTypeOK, Ticks
<1>7. ClaimInv'
  BY <1>2 DEF ClaimInv, OneClaimPerPublication
<1>8. QED BY <1>3, <1>4, <1>5, <1>6, <1>7

LEMMA EndsStep ==
    ASSUME PublishInv, PubFactsFail \/ PubFail \/ PubEnd
    PROVE  PublishInv'
<1> USE DEF PublishInv, stores, remembered
<1>0. /\ live \subseteq Intents /\ inFlight \in BOOLEAN /\ last \in 0 .. MaxIntents
      /\ seen \in 0 .. MaxIntents /\ 0 \in 0 .. MaxIntents /\ MaxOutcomeFaults \in Nat
      /\ faults \in 0 .. MaxOutcomeFaults /\ crashes \in 0 .. MaxCrashes
  BY OutcomeBounds, IntentSets DEF OutcomesTypeOK
<1>1. CASE PubFactsFail
  <2>1. faults' \in 0 .. MaxOutcomeFaults
    BY <1>0, <1>1 DEF PubFactsFail, OutcomeFault
  <2>2. QED BY <1>0, <1>1, <2>1, PublicationOver DEF PubFactsFail
<1>2. CASE PubFail
  <2>1. faults' \in 0 .. MaxOutcomeFaults
    BY <1>0, <1>2 DEF PubFail, OutcomeFault
  <2>2. QED BY <1>0, <1>2, <2>1, PublicationOver DEF PubFail
<1>3. CASE PubEnd
  <2>1. /\ live' \subseteq Intents /\ cached' \subseteq cached /\ last' \in 0 .. MaxIntents
        /\ faults' \in 0 .. MaxOutcomeFaults /\ crashes' \in 0 .. MaxCrashes
    BY <1>0, <1>3 DEF PubEnd
  <2>2. QED BY <1>0, <1>3, <2>1, PublicationOver DEF PubEnd
<1>4. QED BY <1>1, <1>2, <1>3

LEMMA EmptyRestart == ASSUME PublishInv, RestartsEmpty PROVE PublishInv'
<1>1. /\ live \subseteq Intents /\ FALSE \in BOOLEAN /\ {} \subseteq cached
      /\ 0 \in 0 .. MaxIntents /\ faults \in 0 .. MaxOutcomeFaults
  BY IntentSets DEF PublishInv, OutcomesTypeOK
<1>2. crashes' \in 0 .. MaxCrashes
  BY OutcomeBounds DEF PublishInv, OutcomesTypeOK, RestartsEmpty
<1>3. QED BY <1>1, <1>2, PublicationOver DEF RestartsEmpty, stores

(* The claims a publication starts from.                                    *)
LEMMA FactsStep == ASSUME PublishInv, PubFacts PROVE PublishInv'
<1> USE DEF PublishInv, venue, remembered
<1> DEFINE claims == ClaimedByOthers(pub.todo)
<1>0. /\ pub.pc = "facts" /\ RecordFacts(pub.todo, pub.views, TRUE)
      /\ pub' = [pub EXCEPT !.pc = "search", !.views = {}, !.claimed = claims]
      /\ UNCHANGED <<venue, outcome, remembered, inFlight, rec, faults, crashes>>
  BY DEF PubFacts
<1>1. Filled' = Filled /\ Registered' = Registered
  BY <1>0 DEF Filled, Registered
<1>2. claims \in SUBSET Orders
  <2>1. \A j \in Intents : outcome[j].orders \subseteq Orders
    BY DEF OutcomesTypeOK, Outcome, None
  <2>2. QED BY <2>1 DEF ClaimedByOthers
<1>3. pub \in Publication /\ pub.stored = {} /\ pub.todo \subseteq pub.batch
  BY <1>0 DEF TaskTypes, ClaimInv, OutcomesTypeOK
<1>4. /\ pub' \in Publication /\ pub'.pc = "search" /\ pub'.todo = pub.todo /\ pub'.batch = pub.batch
      /\ pub'.stored = {} /\ pub'.exit = pub.exit /\ pub'.claimed = claims
  <2> HIDE DEF claims
  <2>1. QED BY <1>0, <1>2, <1>3 DEF Publication
<1>5. fact' \in [Intents -> Phases] /\ live' \subseteq Intents
  <2>1. pub.todo \in SUBSET Intents
    BY <1>3 DEF Publication
  <2>2. QED BY <1>0, <2>1, FactTypes
<1>6. OutcomesTypeOK'
  BY <1>0, <1>1, <1>4, <1>5 DEF OutcomesTypeOK
<1>7. TaskTypes' /\ CountInv'
  BY <1>0, <1>1, <1>4 DEF TaskTypes, CountInv
<1>8. FillInv'
  BY <1>0, <1>1, <1>4 DEF FillInv
<1>9. ClaimInv'
  <2>1. \A j \in Intents \ pub.batch : outcome[j].orders \subseteq claims
    BY <1>3 DEF ClaimedByOthers
  <2>2. pub.todo = pub.batch => claims = ClaimedByOthers(pub.batch)
    OBVIOUS
  <2>3. ClaimedByOthers(pub.batch)' = ClaimedByOthers(pub.batch)
    BY <1>0, <1>4 DEF ClaimedByOthers
  <2> HIDE DEF claims
  <2>4. QED BY <1>0, <1>4, <2>1, <2>2, <2>3 DEF ClaimInv, OneClaimPerPublication
<1>10. QED BY <1>6, <1>7, <1>8, <1>9

(* What is built next is the least of what is left to build.                *)
LEMMA BuildsTheLeast ==
    ASSUME PublishInv, ToBuild # {}
    PROVE  /\ Min(ToBuild) \in pub.todo /\ Min(ToBuild) \in pub.batch /\ Min(ToBuild) \in Intents
           /\ Min(ToBuild) \in Filled /\ Min(ToBuild) \in 1 .. Min(ToBuild)
<1>1. ToBuild \in SUBSET pub.todo /\ pub.todo \subseteq pub.batch /\ pub.batch \subseteq Filled
  BY DEF PublishInv, OutcomesTypeOK, ToBuild
<1>2. ToBuild \in SUBSET Nat
  BY <1>1, IntentSets
<1>3. PICK least \in ToBuild : \A n \in ToBuild : least <= n
  BY <1>2, LeastOf
<1>4. Min(ToBuild) \in ToBuild
  BY <1>3 DEF Min
<1>5. Min(ToBuild) \in Intents
  BY <1>1, <1>4, IntentSets
<1>6. QED BY <1>1, <1>4, <1>5 DEF Intents

(* The step that writes an outcome, or decides that the one there is better. *)
LEMMA StoreEffect ==
    ASSUME PublishInv, PubStore
    PROVE  \E i \in pub.todo, write \in BOOLEAN :
              /\ i \in Intents /\ i \in pub.batch /\ i \in Filled
              /\ outcome' = IF write THEN [outcome EXCEPT ![i] = Built(i)] ELSE outcome
              /\ pub' = [pub EXCEPT !.todo = pub.todo \ 1 .. i,
                                    !.claimed = pub.claimed \cup Built(i).orders,
                                    !.stored = IF write THEN pub.stored \cup {i} ELSE pub.stored]
              /\ i \in 1 .. i
<1> DEFINE i == Min(ToBuild)
           write == outcome[i] = None \/ Replaces(i, Built(i))
<1>1. i \in pub.todo /\ i \in pub.batch /\ i \in Intents /\ i \in Filled /\ i \in 1 .. i
  BY BuildsTheLeast DEF PubStore
<1>2. write \in BOOLEAN
  OBVIOUS
<1>3. /\ outcome' = IF write THEN [outcome EXCEPT ![i] = Built(i)] ELSE outcome
      /\ pub' = [pub EXCEPT !.todo = pub.todo \ 1 .. i,
                            !.claimed = pub.claimed \cup Built(i).orders,
                            !.stored = IF write THEN pub.stored \cup {i} ELSE pub.stored]
  BY DEF PubStore
<1> HIDE DEF i, write
<1>4. QED BY <1>1, <1>2, <1>3

LEMMA StoreStep == ASSUME PublishInv, PubStore PROVE PublishInv'
<1> USE DEF PublishInv, venue, remembered
<1>1. PICK i \in pub.todo, write \in BOOLEAN :
         /\ i \in Intents /\ i \in pub.batch /\ i \in Filled
         /\ outcome' = IF write THEN [outcome EXCEPT ![i] = Built(i)] ELSE outcome
         /\ pub' = [pub EXCEPT !.todo = pub.todo \ 1 .. i,
                               !.claimed = pub.claimed \cup Built(i).orders,
                               !.stored = IF write THEN pub.stored \cup {i} ELSE pub.stored]
         /\ i \in 1 .. i
  BY StoreEffect
<1>2. /\ pub.pc = "search"
      /\ UNCHANGED <<venue, fact, live, remembered, inFlight, rec, faults, crashes>>
  BY DEF PubStore
<1>3. Filled' = Filled /\ Registered' = Registered
  BY <1>2 DEF Filled, Registered
<1> DEFINE new == Built(i)
<1>4. /\ new \in Outcome /\ new # None /\ new.exit <= now /\ new.orders \cap pub.claimed = {}
      /\ \A o \in Closing(new.orders) :
            \E t \in trades : t.order = o /\ t.at >= created[i] /\ t.at <= new.exit
  BY <1>1, BuiltRight
<1> HIDE DEF new
<1>5. /\ outcome \in [Intents -> Outcome \cup {None}]
      /\ outcome' \in [Intents -> Outcome \cup {None}]
      /\ \A j \in Intents : j # i => outcome'[j] = outcome[j]
      /\ outcome'[i] = outcome[i] \/ (write /\ outcome'[i] = new)
  BY <1>1, <1>4 DEF OutcomesTypeOK, new
<1>6. pub \in Publication /\ new.orders \in SUBSET Orders
  BY <1>4 DEF TaskTypes, Outcome
<1>7. /\ pub' \in Publication /\ pub'.pc = "search" /\ pub'.batch = pub.batch
      /\ pub'.exit = pub.exit /\ pub'.todo \subseteq pub.todo /\ i \notin pub'.todo
      /\ pub'.claimed = pub.claimed \cup new.orders
      /\ pub'.stored = IF write THEN pub.stored \cup {i} ELSE pub.stored
  BY <1>1, <1>2, <1>6 DEF Publication, new
<1>8. OutcomesTypeOK'
  <2>1. pub'.todo \subseteq pub'.batch /\ pub'.batch \subseteq Filled'
    BY <1>3, <1>7 DEF OutcomesTypeOK
  <2>2. QED BY <1>2, <1>3, <1>5, <1>7, <2>1 DEF OutcomesTypeOK
<1>9. TaskTypes' /\ CountInv'
  BY <1>2, <1>3, <1>7 DEF TaskTypes, CountInv
<1>10. FillInv'
  <2>1. \A j \in Intents : /\ outcome'[j].exit <= now /\ (outcome'[j] # None => j \in Filled)
                           /\ \A o \in Closing(outcome'[j].orders) :
                                \E t \in trades : t.order = o /\ t.at >= created[j]
                                                            /\ t.at <= outcome'[j].exit
    <3> TAKE j \in Intents
    <3>1. CASE outcome'[j] = outcome[j]
      BY <3>1 DEF FillInv
    <3>2. CASE j = i /\ outcome'[j] = new
      BY <1>1, <1>4, <3>2
    <3>3. QED BY <1>5, <3>1, <3>2
  <2>2. \A j \in pub'.todo : outcome'[j].exit <= pub'.exit
    <3> TAKE j \in pub'.todo
    <3>1. j \in pub.todo /\ j # i /\ j \in Intents
      BY <1>6, <1>7 DEF Publication
    <3>2. QED BY <1>5, <1>7, <3>1 DEF FillInv
  <2>3. pub'.exit <= now
    BY <1>7 DEF FillInv
  <2>4. QED BY <1>2, <1>3, <2>1, <2>2, <2>3 DEF FillInv, Closing
<1>11. ClaimInv'
  <2>1. i \notin pub.stored /\ pub.stored \cap pub.todo = {} /\ i \in pub.batch
    BY <1>1 DEF ClaimInv
  <2>2. pub'.stored \cap pub'.todo = {}
    BY <1>7, <2>1
  <2>3. \A j \in pub.stored : j # i /\ outcome'[j] = outcome[j]
                             /\ Closing(outcome[j].orders) \subseteq pub.claimed
    BY <1>5, <1>6, <2>1 DEF ClaimInv, Publication
  <2>4. \A j \in pub'.stored : j \in pub.stored \/ (j = i /\ write /\ outcome'[i] = new)
    BY <1>1, <1>5, <1>7, <1>6, <2>1 DEF new, Publication
  <2>5. \A o : Closing(o) \subseteq o
    BY DEF Closing
  <2>6. \A j \in pub'.stored : Closing(outcome'[j].orders) \subseteq pub'.claimed
    BY <1>7, <2>3, <2>4, <2>5
  <2>7. \A j \in Intents \ pub'.batch : outcome'[j].orders \subseteq pub'.claimed
    BY <1>2, <1>5, <1>7, <2>1 DEF ClaimInv
  <2>8. pub'.todo # pub'.batch
    BY <1>7, <2>1
  <2>9. \A j \in pub.stored : Closing(outcome[j].orders) \cap Closing(new.orders) = {}
    BY <1>4, <2>3, <2>5
  <2>10. \A j, k \in pub'.stored :
            j # k => Closing(outcome'[j].orders) \cap Closing(outcome'[k].orders) = {}
    <3> TAKE j, k \in pub'.stored
    <3> HAVE j # k
    <3>1. CASE j \in pub.stored /\ k \in pub.stored
      BY <2>3, <3>1 DEF ClaimInv, OneClaimPerPublication
    <3>2. CASE j = i \/ k = i
      BY <2>3, <2>4, <2>9, <3>2
    <3>3. QED BY <2>4, <3>1, <3>2
  <2>11. OneClaimPerPublication'
    BY <2>10 DEF OneClaimPerPublication, Closing
  <2>12. QED BY <1>7, <2>2, <2>6, <2>7, <2>8, <2>11 DEF ClaimInv, Closing
<1>12. QED BY <1>8, <1>9, <1>10, <1>11

LEMMA PublishKept == PublishInv /\ [OutcomesNext]_outcomesVars => PublishInv'
<1> SUFFICES ASSUME PublishInv, [OutcomesNext]_outcomesVars PROVE PublishInv'
  OBVIOUS
<1>1. CASE \E i \in Intents : Register(i) \/ Fill(i) \/ Close(i)
  BY <1>1, VenueStep
<1>2. CASE Shown
  BY <1>2, ShownStep
<1>3. CASE StreamPosition \/ RecStep
  BY <1>3, ServiceStep DEF RecStep
<1>4. CASE PubStep \/ PubFactsFail \/ PubFail
  BY <1>4, FactsStep, StoreStep, EndsStep DEF PubStep
<1>5. CASE RestartsEmpty
  BY <1>5, EmptyRestart
<1>6. CASE UNCHANGED outcomesVars
  <2>1. Publish({}, {}, "stream") \/ UNCHANGED <<inFlight, pub>>
    BY <1>6 DEF outcomesVars
  <2>2. {} \in SUBSET Filled /\ {} \in SUBSET Intents
    OBVIOUS
  <2>3. /\ fact' \in [Intents -> Phases] /\ live' \subseteq Intents
        /\ seen' \in 0 .. MaxIntents /\ last' \in 0 .. MaxIntents /\ cached' \subseteq Filled
        /\ rec' \in FlatCycle /\ rec'.tranches \subseteq Filled
    BY <1>6 DEF outcomesVars, stores, remembered, PublishInv, OutcomesTypeOK, TaskTypes
  <2>4. UNCHANGED <<venue, outcome, faults, crashes>>
    BY <1>6 DEF outcomesVars, stores
  <2>5. QED BY <2>1, <2>2, <2>3, <2>4, CyclesKeep
<1>7. QED BY <1>1, <1>2, <1>3, <1>4, <1>5, <1>6 DEF OutcomesNext

(* OutcomesInv: two outcomes of one publication never claim one closing      *)
(* fill, whichever flats, retries, failed searches and restarts came before *)
(* (TradeOutcomePublisher.publishClosedTranches and its claims).             *)
THEOREM OneClaimEach == OutcomesSpec => []OutcomesInv
<1>1. PublishInv => OutcomesInv
  BY DEF PublishInv, OutcomesInv, ClaimInv
<1>2. QED BY <1>1, OutcomesStart, PublishKept, PTL DEF OutcomesSpec

LEMMA OnlyStoreWrites ==
    ASSUME [OutcomesNext]_outcomesVars
    PROVE  outcome' = outcome \/ PubStore
<1> USE DEF venue, stores, remembered
<1>1. CASE \E i \in Intents : Register(i) \/ Fill(i) \/ Close(i)
  BY <1>1 DEF Register, Fill, Close
<1>2. CASE Shown \/ StreamPosition \/ RestartsEmpty
  BY <1>2 DEF Shown, StreamPosition, RestartsEmpty
<1>3. CASE RecStep
  BY <1>3 DEF RecStep, RecBegin, RecApply, RecAfter
<1>4. CASE PubFactsFail \/ PubFail
  BY <1>4 DEF PubFactsFail, PubFail
<1>5. CASE PubStep
  BY <1>5 DEF PubStep, PubFacts, PubEnd
<1>6. CASE UNCHANGED outcomesVars
  BY <1>6 DEF outcomesVars
<1>7. QED BY <1>1, <1>2, <1>3, <1>4, <1>5, <1>6 DEF OutcomesNext

(* What a revision may take and lose, in the step that writes it.           *)
LEMMA RevisionRight ==
    ASSUME PublishInv, [OutcomesNext]_outcomesVars
    PROVE  /\ \A i \in Intents, j \in Intents \ pub.batch :
                 outcome'[i] # outcome[i] /\ j # i
                    => Closing(outcome'[i].orders) \cap Closing(outcome[j].orders) = {}
           /\ \A i \in Intents :
                 Closing(outcome[i].orders) # {} /\ ~Shares(i) /\ Closing(outcome'[i].orders) = {}
                    => /\ Closing(outcome[i].orders) \subseteq pub.claimed
                       /\ \E j \in pub.batch \ pub.todo : j # i
<1>1. CASE outcome' = outcome
  BY <1>1
<1>2. CASE PubStore
  <2>1. PICK b \in pub.todo, write \in BOOLEAN :
           /\ b \in Intents /\ b \in pub.batch
           /\ outcome' = IF write THEN [outcome EXCEPT ![b] = Built(b)] ELSE outcome
    BY <1>2, StoreEffect
  <2>2. \A i \in Intents : outcome'[i] = outcome[i] \/ (i = b /\ outcome'[i] = Built(b))
    BY <2>1 DEF PublishInv, OutcomesTypeOK
  <2>3. \A o : Closing(o) \subseteq o
    BY DEF Closing
  <2>4. /\ \A j \in Intents \ pub.batch : outcome[j].orders \subseteq pub.claimed
        /\ pub.todo = pub.batch => pub.claimed = ClaimedByOthers(pub.batch)
        /\ pub.todo \subseteq pub.batch
    BY <1>2 DEF PubStore, PublishInv, ClaimInv, OutcomesTypeOK
  <2>5. Built(b).orders \cap pub.claimed = {}
    BY <2>1, BuiltRight
  <2>6. \A j \in Intents \ pub.batch : Closing(Built(b).orders) \cap Closing(outcome[j].orders) = {}
    BY <2>3, <2>4, <2>5
  <2>7. ASSUME Closing(outcome[b].orders) # {}, ~Shares(b), Closing(Built(b).orders) = {}
        PROVE  /\ Closing(outcome[b].orders) \subseteq pub.claimed
               /\ \E j \in pub.batch \ pub.todo : j # b
    <3>1. Closing(outcome[b].orders) \subseteq pub.claimed
      BY <2>7, FoundAgain
    <3>2. pub.todo # pub.batch
      <4>1. SUFFICES ASSUME pub.todo = pub.batch PROVE FALSE
        OBVIOUS
      <4>2. PICK o \in Closing(outcome[b].orders) : o \in ClaimedByOthers(pub.batch)
        BY <2>4, <2>7, <3>1, <4>1
      <4>3. PICK j \in Intents \ pub.batch : o \in outcome[j].orders
        BY <4>2 DEF ClaimedByOthers
      <4>4. o \in Closing(outcome[j].orders) /\ j # b
        BY <2>1, <4>2, <4>3 DEF Closing
      <4>5. QED BY <2>7, <4>2, <4>4 DEF Shares, SharesWith
    <3>3. QED BY <2>1, <2>4, <3>1, <3>2
  <2>8. \A i \in Intents :
           Closing(outcome[i].orders) # {} /\ Closing(outcome'[i].orders) = {} => i = b /\ outcome'[i] = Built(b)
    BY <2>2
  <2>9. QED BY <2>2, <2>6, <2>7, <2>8
<1>3. QED BY <1>1, <1>2, OnlyStoreWrites

(* RevisionsKeepFills: a revision takes no closing fill of an outcome outside *)
(* its publication, and an outcome that alone has a closing fill loses it   *)
(* only to a tranche the same publication built before it                   *)
(* (searchAttributedTrades, buildOutcome, claimedOrderIdsFromStore).         *)
THEOREM RevisionsAreRight == OutcomesSpec => RevisionsKeepFills
<1>1. PublishInv /\ [OutcomesNext]_outcomesVars
         => [\A i \in Intents, j \in Intents \ pub.batch :
               outcome'[i] # outcome[i] /\ j # i
                  => Closing(outcome'[i].orders) \cap Closing(outcome[j].orders) = {}]_outcomesVars
  BY RevisionRight
<1>2. PublishInv /\ [OutcomesNext]_outcomesVars
         => [\A i \in Intents :
               Closing(outcome[i].orders) # {} /\ ~Shares(i) /\ Closing(outcome'[i].orders) = {}
                  => /\ Closing(outcome[i].orders) \subseteq pub.claimed
                     /\ \E j \in pub.batch \ pub.todo : j # i]_outcomesVars
  BY RevisionRight
<1>3. QED BY <1>1, <1>2, OutcomesStart, PublishKept, PTL
          DEF OutcomesSpec, RevisionsKeepFills, OthersKeepFills, LostOnlyInBatch

-----------------------------------------------------------------------------
(* The store of outcomes.                                                  *)
FeedRows == [id : Outcomes, version : Nat, status : {"enriched", "provisional", "corrected"},
             revision : Nat]
QueuedWrites == [kind : {"append", "replace"}, id : Outcomes, version : Nat,
                 at : {"commit", "export"}]

(* The range of every variable.                                            *)
StoreTypes ==
    /\ StoreTypeOK
    /\ revisions \in Seq(FeedRows) /\ known \in Seq(Lines) /\ writes \in Seq(QueuedWrites)
    /\ loading \in Seq(Lines \cup {Torn}) /\ export \in Seq(Lines \cup {Torn})

(* What the feed and the index say of each other, however the store fails.  *)
FeedInv == StoreTypes /\ KnownIsCommitted /\ RevisionsCount

(* An outcome has one row in outcomes_current: its last.                   *)
LEMMA OneRowEach ==
    ASSUME revisions \in Seq(FeedRows), NEW i \in CurrentRows, NEW j \in CurrentRows,
           revisions[i].id = revisions[j].id
    PROVE  i = j
<1>1. i \in Nat /\ j \in Nat
  BY DEF CurrentRows
<1>2. ~ (i < j) /\ ~ (j < i)
  BY <1>1 DEF CurrentRows, IsCurrent
<1>3. QED BY <1>1, <1>2

LEMMA RowOfEach ==
    ASSUME revisions \in Seq(FeedRows), NEW k \in DOMAIN revisions
    PROVE  \E i \in Existing(revisions[k].id) : k <= i
<1> DEFINE Same == {i \in DOMAIN revisions : revisions[i].id = revisions[k].id}
<1>1. DOMAIN revisions = 1 .. Len(revisions) /\ Len(revisions) \in Nat
  OBVIOUS
<1>2. Same \in SUBSET Nat /\ k \in Same /\ \A i \in Same : i <= Len(revisions)
  BY <1>1
<1>3. PICK m \in Same : \A i \in Same : i <= m
  BY <1>1, <1>2, GreatestOf
<1>4. \A j \in DOMAIN revisions : j > m => revisions[j].id # revisions[m].id
  BY <1>1, <1>2, <1>3
<1>5. m \in CurrentRows
  BY <1>3, <1>4 DEF CurrentRows, IsCurrent
<1>6. m \in Existing(revisions[k].id) /\ k <= m
  BY <1>2, <1>3, <1>5 DEF Existing
<1>7. QED BY <1>6

LEMMA LineOf ==
    ASSUME NEW e PROVE Line(e) = [id |-> e.id, version |-> e.version] /\ Line(e).id = e.id
BY DEF Line

(* publish, as outcomes_current sees it: the outcome has the new content,   *)
(* and the others what they had.                                           *)
LEMMA PublishedIsCurrent ==
    ASSUME revisions \in Seq(FeedRows), NEW id \in Outcomes, NEW version \in Nat,
           NEW status \in {"enriched", "provisional", "corrected"},
           revisions' = Published(id, version, status)
    PROVE  Current' = {l \in Current : l.id # id} \cup {[id |-> id, version |-> version]}
<1>1. CASE \E i \in Existing(id) : revisions[i].version = version /\ revisions[i].status = status
  <2>1. PICK i \in Existing(id) : revisions[i].version = version
    BY <1>1
  <2>2. i \in CurrentRows /\ revisions[i].id = id
    BY <2>1 DEF Existing
  <2>3. revisions' = revisions
    BY <1>1 DEF Published
  <2>4. Current' = Current
    BY <2>3 DEF Current, CurrentRows, IsCurrent
  <2>5. Line(revisions[i]) = [id |-> id, version |-> version]
    BY <2>1, <2>2 DEF Line
  <2>6. ASSUME NEW l \in Current, l.id = id PROVE l = [id |-> id, version |-> version]
    <3>1. PICK j \in CurrentRows : l = Line(revisions[j])
      BY DEF Current
    <3>2. revisions[j].id = id
      BY <2>6, <3>1, LineOf
    <3>3. j = i
      BY <2>2, <3>2, OneRowEach
    <3>4. QED BY <2>5, <3>1, <3>3
  <2>7. [id |-> id, version |-> version] \in Current
    BY <2>2, <2>5 DEF Current
  <2>8. QED BY <2>4, <2>6, <2>7
<1>2. CASE ~ \E i \in Existing(id) : revisions[i].version = version /\ revisions[i].status = status
  <2> DEFINE n == Len(revisions)
             row == [id |-> id, version |-> version, status |-> status,
                     revision |-> NextRevision(id)]
  <2>1. revisions' = Append(revisions, row)
    BY <1>2 DEF Published
  <2>2. /\ n \in Nat /\ DOMAIN revisions = 1 .. n /\ DOMAIN revisions' = 1 .. n + 1
        /\ revisions'[n + 1] = row /\ \A i \in 1 .. n : revisions'[i] = revisions[i]
    <3> HIDE DEF row
    <3> QED BY <2>1
  <2>3. row.id = id /\ Line(row) = [id |-> id, version |-> version]
    BY DEF Line
  <2> HIDE DEF n, row
  <2>4. CurrentRows' = {i \in DOMAIN revisions' : \A j \in DOMAIN revisions' :
                           j > i => revisions'[j].id # revisions'[i].id}
    BY DEF CurrentRows, IsCurrent
  <2>5. n + 1 \in CurrentRows'
    BY <2>2, <2>4
  <2>6. ASSUME NEW i \in 1 .. n PROVE i \in CurrentRows' <=> i \in CurrentRows /\ revisions[i].id # id
    <3>1. CASE i \in CurrentRows'
      <4>1. revisions'[n + 1].id # revisions'[i].id
        BY <2>2, <2>4, <3>1
      <4>2. \A j \in 1 .. n : j > i => revisions[j].id # revisions[i].id
        BY <2>2, <2>4, <3>1
      <4>3. QED BY <2>2, <2>3, <3>1, <4>1, <4>2 DEF CurrentRows, IsCurrent
    <3>2. CASE i \in CurrentRows /\ revisions[i].id # id
      <4>1. \A j \in 1 .. n : j > i => revisions[j].id # revisions[i].id
        BY <2>2, <3>2 DEF CurrentRows, IsCurrent
      <4>2. \A j \in 1 .. n + 1 : j \in 1 .. n \/ j = n + 1
        BY <2>2
      <4>3. \A j \in 1 .. n + 1 : j > i => revisions'[j].id # revisions'[i].id
        BY <2>2, <2>3, <3>2, <4>1, <4>2
      <4>4. i \in DOMAIN revisions'
        BY <2>2
      <4>5. QED BY <2>2, <2>4, <3>2, <4>3, <4>4
    <3>3. QED BY <3>1, <3>2
  <2>7. \A i \in CurrentRows' : i \in 1 .. n \/ i = n + 1
    BY <2>2, <2>4
  <2>8. Current' = {Line(revisions'[i]) : i \in CurrentRows'}
    BY DEF Current, Line
  <2>9. ASSUME NEW l \in Current' PROVE l = [id |-> id, version |-> version] \/ (l \in Current /\ l.id # id)
    <3>1. PICK i \in CurrentRows' : l = Line(revisions'[i])
      BY <2>8
    <3>2. CASE i = n + 1
      BY <2>2, <2>3, <3>1, <3>2
    <3>3. CASE i \in 1 .. n
      <4>1. i \in CurrentRows /\ revisions[i].id # id /\ l = Line(revisions[i])
        BY <2>2, <2>6, <3>1, <3>3
      <4>2. QED BY <4>1, LineOf DEF Current
    <3>4. QED BY <2>7, <3>2, <3>3
  <2>10. [id |-> id, version |-> version] \in Current'
    BY <2>2, <2>3, <2>5, <2>8
  <2>11. ASSUME NEW l \in Current, l.id # id PROVE l \in Current'
    <3>1. PICK i \in CurrentRows : l = Line(revisions[i])
      BY DEF Current
    <3>2. i \in 1 .. n /\ revisions[i].id # id
      BY <2>2, <2>11, <3>1, LineOf DEF CurrentRows
    <3>3. i \in CurrentRows' /\ l = Line(revisions'[i])
      BY <2>2, <2>6, <3>1, <3>2
    <3>4. QED BY <2>8, <3>3
  <2>12. QED BY <2>9, <2>10, <2>11
<1>3. QED BY <1>1, <1>2

(* The next number is one more than the revisions there are.               *)
LEMMA NextRevisionCounts ==
    ASSUME revisions \in Seq(FeedRows), RevisionsCount, NEW id \in Outcomes
    PROVE  NextRevision(id) = Cardinality({j \in 1 .. Len(revisions) : revisions[j].id = id}) + 1
<1> DEFINE n == Len(revisions)
           Of == {j \in 1 .. n : revisions[j].id = id}
<1>1. n \in Nat /\ DOMAIN revisions = 1 .. n
  OBVIOUS
<1>2. CASE Existing(id) = {}
  <2>1. \A k \in 1 .. n : revisions[k].id # id
    BY <1>1, <1>2, RowOfEach
  <2>2. Of = {}
    BY <2>1
  <2>3. Cardinality(Of) = 0
    BY <2>2, FS_EmptySet, Zenon
  <2>4. NextRevision(id) = 1
    BY <1>2 DEF NextRevision
  <2>5. QED BY <2>3, <2>4
<1>3. CASE Existing(id) # {}
  <2> DEFINE i == CHOOSE i \in Existing(id) : TRUE
             Earlier == {j \in 1 .. i - 1 : revisions[j].id = id}
  <2>1. i \in Existing(id)
    BY <1>3
  <2>2. i \in CurrentRows /\ i \in 1 .. n /\ revisions[i].id = id
    BY <1>1, <2>1 DEF Existing, CurrentRows
  <2>3. NextRevision(id) = revisions[i].revision + 1
    BY <1>3 DEF NextRevision
  <2> HIDE DEF i
  <2>4. revisions[i].revision = Cardinality(Earlier) + 1
    BY <1>1, <2>2 DEF RevisionsCount
  <2>5. \A j \in 1 .. n : revisions[j].id = id => j <= i
    BY <1>1, <2>2 DEF CurrentRows, IsCurrent
  <2>6. Of = Earlier \cup {i} /\ i \notin Earlier /\ Earlier \subseteq 1 .. n
    BY <1>1, <2>2, <2>5
  <2>7. IsFiniteSet(Earlier)
    <3>1. IsFiniteSet(1 .. n)
      BY <1>1, FS_Interval
    <3>2. Earlier \subseteq 1 .. n
      BY <2>6
    <3> HIDE DEF Earlier, n
    <3>3. QED BY <3>1, <3>2, FS_Subset
  <2>8. Cardinality(Of) = Cardinality(Earlier) + 1
    BY <2>6, <2>7, FS_AddElement
  <2>9. QED BY <2>3, <2>4, <2>8
<1>4. QED BY <1>2, <1>3

LEMMA PublishedKeepsCount ==
    ASSUME revisions \in Seq(FeedRows), RevisionsCount, NEW id \in Outcomes, NEW version \in Nat,
           NEW status \in {"enriched", "provisional", "corrected"},
           revisions' = Published(id, version, status)
    PROVE  revisions' \in Seq(FeedRows) /\ RevisionsCount'
<1> DEFINE n == Len(revisions)
           row == [id |-> id, version |-> version, status |-> status,
                   revision |-> NextRevision(id)]
           Of(k) == {j \in 1 .. k - 1 : revisions[j].id = revisions[k].id}
<1>1. CASE revisions' = revisions
  BY <1>1 DEF RevisionsCount
<1>2. CASE revisions' = Append(revisions, row)
  <2>1. n \in Nat /\ DOMAIN revisions = 1 .. n
    OBVIOUS
  <2>2. NextRevision(id) = Cardinality({j \in 1 .. n : revisions[j].id = id}) + 1
    BY NextRevisionCounts
  <2>3. IsFiniteSet({j \in 1 .. n : revisions[j].id = id})
    <3>1. IsFiniteSet(1 .. n)
      BY <2>1, FS_Interval
    <3>2. {j \in 1 .. n : revisions[j].id = id} \subseteq 1 .. n
      OBVIOUS
    <3>3. QED BY <3>1, <3>2, FS_Subset, Zenon
  <2>4. Cardinality({j \in 1 .. n : revisions[j].id = id}) \in Nat
    BY <2>3, FS_CardinalityType
  <2>5. NextRevision(id) \in Nat
    BY <2>2, <2>4
  <2>6. row \in FeedRows
    BY <2>5 DEF FeedRows
  <2>7. row.id = id /\ row.revision = NextRevision(id)
    OBVIOUS
  <2> HIDE DEF row
  <2>8. revisions' \in Seq(FeedRows)
    BY <1>2, <2>6
  <2>9. /\ DOMAIN revisions' = 1 .. n + 1
        /\ revisions'[n + 1] = row /\ \A i \in 1 .. n : revisions'[i] = revisions[i]
    BY <1>2, <2>1
  <2> HIDE DEF n
  <2>10. ASSUME NEW i \in 1 .. n + 1
         PROVE  revisions'[i].revision =
                  Cardinality({j \in 1 .. i - 1 : revisions'[j].id = revisions'[i].id}) + 1
    <3>1. \A j \in 1 .. i - 1 : revisions'[j] = revisions[j]
      BY <2>1, <2>9
    <3>2. CASE i = n + 1
      <4>1. {j \in 1 .. i - 1 : revisions'[j].id = revisions'[i].id} = {j \in 1 .. n : revisions[j].id = id}
        BY <2>1, <2>7, <2>9, <3>1, <3>2
      <4>2. QED BY <2>2, <2>7, <2>9, <3>2, <4>1
    <3>3. CASE i \in 1 .. n
      <4>1. {j \in 1 .. i - 1 : revisions'[j].id = revisions'[i].id} = Of(i)
        BY <2>9, <3>1, <3>3
      <4>2. revisions[i].revision = Cardinality(Of(i)) + 1
        BY <2>1, <3>3 DEF RevisionsCount
      <4>3. QED BY <2>9, <3>3, <4>1, <4>2
    <3>4. QED BY <2>1, <3>2, <3>3
  <2>11. RevisionsCount'
    BY <2>9, <2>10 DEF RevisionsCount
  <2>12. QED BY <2>8, <2>11
<1>3. QED BY <1>1, <1>2 DEF Published

-----------------------------------------------------------------------------
(* The index.                                                              *)
LEMMA IndexedLines ==
    ASSUME NEW index \in Seq(Lines), NEW id \in Outcomes, NEW version \in Nat
    PROVE  /\ Indexed(index, id, version) \in Seq(Lines)
           /\ ToSet(Indexed(index, id, version)) =
                {l \in ToSet(index) : l.id # id} \cup {[id |-> id, version |-> version]}
<1> DEFINE new == [id |-> id, version |-> version]
           after == Indexed(index, id, version)
           n == Len(index)
<1>1. n \in Nat /\ DOMAIN index = 1 .. n /\ \A i \in 1 .. n : index[i] \in Lines
  OBVIOUS
<1>2. new \in Lines /\ new.id = id
  BY DEF Lines
<1>3. \A i \in 1 .. n : index[i].id = id \/ index[i].id # id
  OBVIOUS
<1>4. CASE \E i \in DOMAIN index : index[i].id = id
  <2>1. after = [i \in 1 .. n |-> IF index[i].id = id THEN new ELSE index[i]]
    BY <1>1, <1>4 DEF Indexed
  <2> HIDE DEF new, after, n
  <2>2. after \in Seq(Lines) /\ DOMAIN after = 1 .. n
    <3>1. after \in [1 .. n -> Lines]
      BY <1>1, <1>2, <2>1
    <3>2. QED BY <1>1, <3>1
  <2>3. \A i \in 1 .. n : after[i] = IF index[i].id = id THEN new ELSE index[i]
    BY <2>1
  <2>4. ToSet(after) = {after[i] : i \in 1 .. n} /\ ToSet(index) = {index[i] : i \in 1 .. n}
    BY <1>1, <2>2 DEF ToSet
  <2>5. PICK k \in 1 .. n : index[k].id = id
    BY <1>1, <1>4
  <2>6. new \in ToSet(after)
    BY <2>3, <2>4, <2>5
  <2>7. \A l \in ToSet(after) : l = new \/ (l \in ToSet(index) /\ l.id # id)
    BY <2>3, <2>4
  <2>8. \A l \in ToSet(index) : l.id # id => l \in ToSet(after)
    BY <2>3, <2>4
  <2>9. ToSet(after) = {l \in ToSet(index) : l.id # id} \cup {new}
    BY <2>6, <2>7, <2>8
  <2>10. QED BY <2>2, <2>9 DEF new, after
<1>5. CASE ~ \E i \in DOMAIN index : index[i].id = id
  <2>1. after = Append(index, new)
    BY <1>5 DEF Indexed
  <2> HIDE DEF new, after
  <2>2. /\ after \in Seq(Lines) /\ DOMAIN after = 1 .. n + 1 /\ after[n + 1] = new
        /\ \A i \in 1 .. n : after[i] = index[i]
    BY <1>1, <1>2, <2>1
  <2> HIDE DEF n
  <2>3. ToSet(after) = {after[i] : i \in 1 .. n + 1} /\ ToSet(index) = {index[i] : i \in 1 .. n}
    BY <1>1, <2>2 DEF ToSet
  <2>4. \A i \in 1 .. n + 1 : i \in 1 .. n \/ i = n + 1
    BY <1>1
  <2>5. n + 1 \in 1 .. n + 1 /\ \A i \in 1 .. n : i \in 1 .. n + 1
    BY <1>1
  <2>6. \A l \in ToSet(index) : l.id # id
    BY <1>1, <1>5, <2>3
  <2>7. ToSet(after) = ToSet(index) \cup {new}
    <3>1. \A l \in ToSet(after) : l \in ToSet(index) \/ l = new
      BY <2>2, <2>3, <2>4
    <3>2. \A l \in ToSet(index) : l \in ToSet(after)
      BY <2>2, <2>3, <2>5
    <3>3. new \in ToSet(after)
      BY <2>2, <2>3, <2>5
    <3>4. QED BY <3>1, <3>2, <3>3
  <2>8. QED BY <2>2, <2>6, <2>7 DEF new, after
<1>6. QED BY <1>4, <1>5

LEMMA HotLines ==
    ASSUME OutcomeStoreAssumption, NEW index \in Seq(Lines)
    PROVE  Hot(index) \in Seq(Lines) /\ ToSet(Hot(index)) \subseteq ToSet(index)
<1>1. CASE Len(index) > MaxHot
  <2> DEFINE d == Len(index) - MaxHot
  <2>1. d \in Nat /\ Len(index) \in Nat /\ MaxHot \in Nat /\ d + MaxHot = Len(index)
    BY <1>1 DEF OutcomeStoreAssumption
  <2>2. Hot(index) = SubSeq(index, d + 1, Len(index))
    BY <1>1 DEF Hot
  <2> HIDE DEF d
  <2>3. /\ Hot(index) \in Seq(Lines) /\ DOMAIN Hot(index) = 1 .. MaxHot
        /\ \A i \in 1 .. MaxHot : Hot(index)[i] = index[d + i] /\ d + i \in DOMAIN index
    BY <2>1, <2>2
  <2>4. QED BY <2>3 DEF ToSet
<1>2. CASE ~ (Len(index) > MaxHot)
  BY <1>2 DEF Hot
<1>3. QED BY <1>1, <1>2

-----------------------------------------------------------------------------
(* The feed and the index, step by step.                                   *)
LEMMA FeedInitially == ASSUME OutcomeStoreAssumption, LegacyAssumption, StoreInit PROVE FeedInv
<1>1. StoreTypes
  <2>1. export \in Seq(Lines \cup {Torn})
    BY DEF StoreInit, LegacyAssumption
  <2>2. StoreTypeOK
    <3>1. loaded \in BOOLEAN
      BY Zenon DEF StoreInit
    <3>2. /\ asked \in 0 .. MaxAsked /\ storeFaults \in 0 .. MaxStoreFaults
          /\ storeCrashes \in 0 .. MaxStoreCrashes /\ backlog \in Nat /\ awaiting \subseteq Outcomes
      BY DEF StoreInit, OutcomeStoreAssumption
    <3>3. QED BY <3>1, <3>2 DEF StoreTypeOK
  <2>3. \A T : <<>> \in Seq(T)
    OBVIOUS
  <2>4. QED BY <2>1, <2>2, <2>3 DEF StoreInit, StoreTypes
<1>2. KnownIsCommitted
  BY DEF StoreInit, KnownIsCommitted, ToSet
<1>3. RevisionsCount
  BY DEF StoreInit, RevisionsCount
<1>4. QED BY <1>1, <1>2, <1>3 DEF FeedInv

(* What is queued, and what the feed has, are lines.                       *)
LEMMA HeadOfWrites ==
    ASSUME writes \in Seq(QueuedWrites), writes # <<>>
    PROVE  /\ Head(writes) = writes[1] /\ writes[1] \in QueuedWrites
           /\ writes[1].id \in Outcomes /\ writes[1].version \in Nat
           /\ Tail(writes) \in Seq(QueuedWrites)
<1>1. Head(writes) = writes[1] /\ writes[1] \in QueuedWrites /\ Tail(writes) \in Seq(QueuedWrites)
  OBVIOUS
<1>2. QED BY <1>1 DEF QueuedWrites

LEMMA CurrentAreLines ==
    ASSUME revisions \in Seq(FeedRows)
    PROVE  Current \subseteq Lines /\ IsFiniteSet(CurrentRows) /\ Cardinality(CurrentRows) \in Nat
<1>1. \A i \in CurrentRows : revisions[i] \in FeedRows
  BY DEF CurrentRows
<1>2. \A i \in CurrentRows : Line(revisions[i]) \in Lines
  BY <1>1 DEF Line, Lines, FeedRows
<1>3. Current \subseteq Lines
  BY <1>2 DEF Current
<1>4. Len(revisions) \in Nat /\ CurrentRows \subseteq 1 .. Len(revisions)
  BY DEF CurrentRows
<1>5. IsFiniteSet(1 .. Len(revisions))
  BY <1>4, FS_Interval
<1>6. IsFiniteSet(CurrentRows)
  BY <1>4, <1>5, FS_Subset
<1>7. QED BY <1>3, <1>6, FS_CardinalityType

LEMMA SameFeed ==
    ASSUME revisions' = revisions, RevisionsCount
    PROVE  Current' = Current /\ RevisionsCount'
BY DEF Current, CurrentRows, IsCurrent, Line, RevisionsCount

(* A publication followed by the same entry of the index.                  *)
LEMMA PublishedIsIndexed ==
    ASSUME revisions \in Seq(FeedRows), known \in Seq(Lines), KnownIsCommitted,
           NEW id \in Outcomes, NEW version \in Nat,
           NEW status \in {"enriched", "provisional", "corrected"},
           revisions' = Published(id, version, status)
    PROVE  ToSet(Indexed(known, id, version)) \subseteq Current'
<1>1. Current' = {l \in Current : l.id # id} \cup {[id |-> id, version |-> version]}
  BY PublishedIsCurrent
<1>2. ToSet(Indexed(known, id, version))
        = {l \in ToSet(known) : l.id # id} \cup {[id |-> id, version |-> version]}
  BY IndexedLines
<1>3. ToSet(known) \subseteq Current
  BY DEF KnownIsCommitted
<1>4. QED BY <1>1, <1>2, <1>3

LEMMA LoadsFeedKeepsFeed ==
    ASSUME FeedInv, LoadsFeed
    PROVE  StoreTypes' /\ KnownIsCommitted' /\ RevisionsCount'
<1>1. revisions \in Seq(FeedRows) /\ revisions' = revisions
  BY DEF FeedInv, StoreTypes, LoadsFeed
<1>2. PICK order \in [1 .. Cardinality(CurrentRows) -> CurrentRows] :
        known' = [i \in DOMAIN order |-> Line(revisions[order[i]])]
  BY DEF LoadsFeed
<1>3. Cardinality(CurrentRows) \in Nat /\ Current \subseteq Lines
  BY <1>1, CurrentAreLines
<1>4. DOMAIN order = 1 .. Cardinality(CurrentRows) /\ \A i \in DOMAIN order : order[i] \in CurrentRows
  BY <1>2
<1>5. \A i \in DOMAIN order : Line(revisions[order[i]]) \in Current
  BY <1>4 DEF Current
<1>6. known' \in [1 .. Cardinality(CurrentRows) -> Lines]
  BY <1>2, <1>3, <1>4, <1>5
<1>7. known' \in Seq(Lines)
  BY <1>3, <1>6
<1>8. ToSet(known') \subseteq Current
  BY <1>2, <1>5 DEF ToSet
<1>9. Current' = Current /\ RevisionsCount'
  BY <1>1, SameFeed DEF FeedInv
<1>10. StoreTypes'
  BY <1>7 DEF FeedInv, StoreTypes, StoreTypeOK, LoadsFeed
<1>11. QED BY <1>8, <1>9, <1>10 DEF KnownIsCommitted

LEMMA ImportsLineKeepsFeed ==
    ASSUME FeedInv, ImportsLine
    PROVE  StoreTypes' /\ KnownIsCommitted' /\ RevisionsCount'
<1> DEFINE line == Head(loading)
<1>1. loading \in Seq(Lines \cup {Torn}) /\ loading # <<>> /\ Head(loading) # Torn
  BY DEF FeedInv, StoreTypes, ImportsLine
<1>2. line \in Lines /\ Tail(loading) \in Seq(Lines \cup {Torn})
  <2>1. Head(loading) \in Lines \cup {Torn} /\ Tail(loading) \in Seq(Lines \cup {Torn})
    <3> HIDE DEF line
    <3> QED BY <1>1
  <2>2. QED BY <1>1, <2>1
<1>3. line.id \in Outcomes /\ line.version \in Nat
  BY <1>2 DEF Lines
<1>4. /\ revisions' = Published(line.id, line.version, "enriched")
      /\ known' = Indexed(known, line.id, line.version)
  BY DEF ImportsLine
<1>5. loading' = Tail(loading)
  BY DEF ImportsLine
<1> HIDE DEF line
<1>6. revisions \in Seq(FeedRows) /\ known \in Seq(Lines) /\ KnownIsCommitted /\ RevisionsCount
  BY DEF FeedInv, StoreTypes
<1>7. revisions' \in Seq(FeedRows) /\ RevisionsCount'
  BY <1>3, <1>4, <1>6, PublishedKeepsCount
<1>8. known' \in Seq(Lines)
  BY <1>3, <1>4, <1>6, IndexedLines
<1>9. ToSet(known') \subseteq Current'
  BY <1>3, <1>4, <1>6, PublishedIsIndexed
<1>10. StoreTypes'
  BY <1>2, <1>5, <1>7, <1>8 DEF FeedInv, StoreTypes, StoreTypeOK, ImportsLine
<1>11. QED BY <1>7, <1>9, <1>10 DEF KnownIsCommitted

LEMMA CommitsKeepsFeed ==
    ASSUME OutcomeStoreAssumption, FeedInv, Commits
    PROVE  StoreTypes' /\ KnownIsCommitted' /\ RevisionsCount'
<1> DEFINE write == Head(writes)
<1>1. writes \in Seq(QueuedWrites) /\ writes # <<>>
  BY DEF FeedInv, StoreTypes, Commits
<1>2. write \in QueuedWrites /\ write.id \in Outcomes /\ write.version \in Nat
  BY <1>1, HeadOfWrites
<1>3. /\ known' = Hot(Indexed(known, write.id, write.version))
      /\ awaiting' = Settles(write)
      /\ writes' = [writes EXCEPT ![1].at = "export"]
  BY DEF Commits
<1>4. PICK status \in {"enriched", "provisional", "corrected"} :
        revisions' = Published(write.id, write.version, status)
  BY DEF Commits
<1> HIDE DEF write
<1>5. revisions \in Seq(FeedRows) /\ known \in Seq(Lines) /\ KnownIsCommitted /\ RevisionsCount
  BY DEF FeedInv, StoreTypes
<1>6. revisions' \in Seq(FeedRows) /\ RevisionsCount'
  BY <1>2, <1>4, <1>5, PublishedKeepsCount
<1>7. /\ Indexed(known, write.id, write.version) \in Seq(Lines)
      /\ ToSet(Indexed(known, write.id, write.version)) \subseteq Current'
  BY <1>2, <1>4, <1>5, IndexedLines, PublishedIsIndexed
<1>8. known' \in Seq(Lines) /\ ToSet(known') \subseteq Current'
  BY <1>3, <1>7, HotLines
<1>9. writes' \in Seq(QueuedWrites)
  <2>1. \A w \in QueuedWrites : [w EXCEPT !.at = "export"] \in QueuedWrites
    BY DEF QueuedWrites
  <2>2. 1 \in DOMAIN writes /\ writes[1] \in QueuedWrites
    BY <1>1
  <2>3. QED BY <1>1, <1>3, <2>1, <2>2
<1>10. awaiting' \subseteq Outcomes
  BY <1>3 DEF FeedInv, StoreTypes, StoreTypeOK, Settles
<1>11. StoreTypes'
  BY <1>6, <1>8, <1>9, <1>10 DEF FeedInv, StoreTypes, StoreTypeOK, Commits
<1>12. QED BY <1>6, <1>8, <1>11 DEF KnownIsCommitted

LEMMA FeedNext ==
    ASSUME OutcomeStoreAssumption, FeedInv, [StoreNext]_storeVars PROVE FeedInv'
<1> USE DEF FeedInv
<1>1. StoreTypes /\ KnownIsCommitted /\ RevisionsCount /\ ToSet(known) \subseteq Current
  BY DEF KnownIsCommitted
<1>2. ASSUME UNCHANGED <<revisions, known>> PROVE KnownIsCommitted' /\ RevisionsCount'
  <2>1. Current' = Current /\ RevisionsCount'
    BY <1>1, <1>2, SameFeed
  <2>2. QED BY <1>1, <1>2, <2>1 DEF KnownIsCommitted
<1>3. \A w \in Seq(QueuedWrites) : w # <<>> => Tail(w) \in Seq(QueuedWrites)
  OBVIOUS
<1>4. \A lines \in Seq(Lines \cup {Torn}) : Append(lines, Torn) \in Seq(Lines \cup {Torn})
  OBVIOUS
<1>5. Appended(export, Torn) \in Seq(Lines \cup {Torn})
  BY <1>1, <1>4 DEF Appended, StoreTypes
<1>6. CASE LoadsFeed
  BY <1>6, LoadsFeedKeepsFeed
<1>7. CASE ImportsLine
  BY <1>7, ImportsLineKeepsFeed
<1>8. CASE ImportEnds
  <2>1. export' \in Seq(Lines \cup {Torn})
    <3> DEFINE T == Lines \cup {Torn}
    <3>1. export \in Seq(T) /\ loading \in Seq(T)
      BY DEF StoreTypes
    <3> HIDE DEF T
    <3>2. SubSeq(export, 1, Len(export) - Len(loading)) \in Seq(T)
      <4>1. Len(export) \in Nat /\ Len(loading) \in Nat
        BY <3>1
      <4>2. QED BY <3>1, <4>1
    <3>3. QED BY <1>8, <3>2 DEF ImportEnds, T
  <2>2. StoreTypes'
    BY <1>1, <1>8, <2>1 DEF StoreTypes, StoreTypeOK, ImportEnds
  <2>3. QED BY <1>2, <1>8, <2>2 DEF ImportEnds
<1>9. ASSUME NEW id \in Outcomes, AppendAsked(id) PROVE FeedInv'
  <2>1. Write("append", id, 1) \in QueuedWrites
    BY DEF Write, QueuedWrites
  <2>2. writes' \in Seq(QueuedWrites)
    <3> HIDE DEF FeedInv
    <3> QED BY <1>1, <1>9, <2>1 DEF AppendAsked, StoreTypes
  <2>3. StoreTypes'
    BY <1>1, <1>9, <2>2 DEF StoreTypes, StoreTypeOK, AppendAsked, OutcomeStoreAssumption
  <2>4. QED BY <1>2, <1>9, <2>3 DEF AppendAsked
<1>10. ASSUME NEW i \in 1 .. MaxHot + 1, ReplaceAsked(i) PROVE FeedInv'
  <2>0. known \in Seq(Lines) /\ i \in DOMAIN known
    BY <1>1, <1>10 DEF ReplaceAsked, StoreTypes
  <2>a. known[i] \in Lines
    BY <2>0
  <2>1. known[i].id \in Outcomes /\ known[i].version \in Nat
    BY <2>a DEF Lines
  <2>2. Write("replace", known[i].id, known[i].version + 1) \in QueuedWrites
    BY <2>1 DEF Write, QueuedWrites
  <2>3. writes' \in Seq(QueuedWrites)
    BY <1>1, <1>10, <2>2 DEF ReplaceAsked, StoreTypes
  <2>4. StoreTypes'
    BY <1>1, <1>10, <2>3 DEF StoreTypes, StoreTypeOK, ReplaceAsked, OutcomeStoreAssumption
  <2>5. QED BY <1>2, <1>10, <2>4 DEF ReplaceAsked
<1>11. CASE Commits
  BY <1>11, CommitsKeepsFeed
<1>12. CASE CommitFails
  <2>1. StoreTypes'
    BY <1>1, <1>3, <1>12 DEF StoreTypes, StoreTypeOK, CommitFails, StoreFault, Settles, OutcomeStoreAssumption
  <2>2. QED BY <1>2, <1>12, <2>1 DEF CommitFails
<1>13. CASE Exports
  <2>1. writes # <<>> /\ Head(writes).id \in Outcomes /\ Head(writes).version \in Nat
    BY <1>1, <1>13, HeadOfWrites DEF StoreTypes, Exports
  <2>2. Line(Head(writes)) \in Lines
    BY <2>1 DEF Line, Lines
  <2>3. Appended(export, Line(Head(writes))) \in Seq(Lines \cup {Torn})
    BY <1>1, <2>2 DEF StoreTypes, Appended
  <2>4. known \in Seq(Lines \cup {Torn})
    BY <1>1 DEF StoreTypes
  <2>5. export' \in Seq(Lines \cup {Torn})
    BY <1>13, <2>3, <2>4 DEF Exports, Rewritten
  <2>6. StoreTypes'
    BY <1>1, <1>3, <1>13, <2>5 DEF StoreTypes, StoreTypeOK, Exports
  <2>7. QED BY <1>2, <1>13, <2>6 DEF Exports
<1>14. CASE ExportFails
  <2>1. export' \in Seq(Lines \cup {Torn})
    BY <1>1, <1>5, <1>14 DEF StoreTypes, ExportFails
  <2>2. StoreTypes'
    BY <1>1, <1>3, <1>14, <2>1
       DEF StoreTypes, StoreTypeOK, ExportFails, StoreFault, BacklogAfterFailure, OutcomeStoreAssumption
  <2>3. QED BY <1>2, <1>14, <2>2 DEF ExportFails
<1>15. CASE StoreCrashes
  <2>1. export' \in Seq(Lines \cup {Torn})
    BY <1>1, <1>5, <1>15 DEF StoreTypes, StoreCrashes
  <2>a. StoreTypeOK'
    <3>1. loaded' \in BOOLEAN
      BY <1>15, Zenon DEF StoreCrashes
    <3>2. /\ asked' \in 0 .. MaxAsked /\ storeFaults' \in 0 .. MaxStoreFaults
          /\ storeCrashes' \in 0 .. MaxStoreCrashes /\ backlog' \in Nat /\ awaiting' \subseteq Outcomes
      BY <1>1, <1>15 DEF StoreTypes, StoreTypeOK, StoreCrashes, OutcomeStoreAssumption
    <3>3. QED BY <3>1, <3>2 DEF StoreTypeOK
  <2>b. known' = <<>> /\ writes' = <<>> /\ loading' = export' /\ revisions' = revisions
    BY <1>15 DEF StoreCrashes
  <2>c. \A T : <<>> \in Seq(T)
    OBVIOUS
  <2>2. StoreTypes'
    BY <1>1, <2>1, <2>a, <2>b, <2>c DEF StoreTypes
  <2>3. revisions' = revisions /\ known' = <<>>
    BY <1>15 DEF StoreCrashes
  <2>4. RevisionsCount'
    BY <1>1, <2>3, SameFeed
  <2>5. QED BY <2>2, <2>3, <2>4 DEF KnownIsCommitted, ToSet
<1>16. CASE UNCHANGED storeVars
  <2>1. StoreTypes'
    BY <1>1, <1>16 DEF storeVars, StoreTypes, StoreTypeOK
  <2>2. QED BY <1>2, <1>16, <2>1 DEF storeVars
<1>17. QED
  BY <1>6, <1>7, <1>8, <1>9, <1>10, <1>11, <1>12, <1>13, <1>14, <1>15, <1>16 DEF StoreNext

(* What the index has is committed, and the revisions of an outcome are     *)
(* numbered without a gap, for any outcomes, export found, cap of the       *)
(* index, failures and restarts.                                           *)
THEOREM IndexIsCommitted == StoreSpec => [](StoreTypeOK /\ KnownIsCommitted /\ RevisionsCount)
<1>1. StoreInit => FeedInv
  BY FeedInitially, OutcomeStoreAssumption, LegacyAssumption
<1>2. FeedInv /\ [StoreNext]_storeVars => FeedInv'
  BY FeedNext, OutcomeStoreAssumption
<1>3. FeedInv => StoreTypeOK /\ KnownIsCommitted /\ RevisionsCount
  BY DEF FeedInv, StoreTypes
<1>4. QED BY <1>1, <1>2, <1>3, PTL DEF StoreSpec

-----------------------------------------------------------------------------
(* The export.  An export found beside an empty feed has each outcome once  *)
(* (append refuses one that is known), and the cap of the index is not      *)
(* reached: a rewritten export would forget the outcomes that left it.     *)
FoundOnce == \A lines \in Legacy : \A i, j \in DOMAIN lines :
                lines[i] # Torn /\ lines[i].id = lines[j].id => i = j

KnownIds == {l.id : l \in ToSet(known)}
Distinct(lines) == \A i, j \in DOMAIN lines : lines[i].id = lines[j].id => i = j

(* The start has imported the first n lines.                               *)
ImportedTo(n) ==
    /\ loading = SubSeq(export, n + 1, Len(export))
    /\ \A i \in 1 .. n : export[i] # Torn
    /\ Current = {export[i] : i \in 1 .. n}

StartInv ==
    /\ writes = <<>> /\ backlog = 0 /\ awaiting = {} /\ export \in Legacy
    /\ \E n \in 0 .. Len(export) : ImportedTo(n)

(* Only the head of the chain has committed; an append that waits is the    *)
(* only one of its outcome, which nobody knows yet; a replacement's is.     *)
AppendWaits(i) == writes[i].at = "commit" /\ writes[i].kind = "append"
QueueInv ==
    /\ \A i \in DOMAIN writes : writes[i].at = "export" => i = 1
    /\ \A i \in DOMAIN writes : AppendWaits(i) => writes[i].id \in awaiting /\ writes[i].id \notin KnownIds
    /\ \A i, j \in DOMAIN writes :
          AppendWaits(i) /\ AppendWaits(j) /\ writes[i].id = writes[j].id => i = j
    /\ \A i \in DOMAIN writes : writes[i].kind = "replace" => writes[i].id \in KnownIds

(* Without a backlog the export has what the feed has, up to the line the   *)
(* head of the chain is about to write.                                    *)
Exporting == writes # <<>> /\ writes[1].at = "export"
ExportInv ==
    backlog = 0 =>
       /\ ~Exporting => ToSet(export) = Current
       /\ Exporting /\ writes[1].kind = "append" => ToSet(export) \cup {Line(writes[1])} = Current

MirrorInv ==
    storeCrashes = 0 =>
       /\ ToSet(known) = Current /\ Distinct(known)
       /\ ~loaded => StartInv
       /\ loaded => QueueInv /\ ExportInv

LEMMA IndexedDistinct ==
    ASSUME NEW index \in Seq(Lines), Distinct(index), NEW id \in Outcomes, NEW version \in Nat
    PROVE  Distinct(Indexed(index, id, version))
<1> DEFINE new == [id |-> id, version |-> version]
           after == Indexed(index, id, version)
           n == Len(index)
<1>1. n \in Nat /\ DOMAIN index = 1 .. n /\ new.id = id
  OBVIOUS
<1>2. CASE \E i \in DOMAIN index : index[i].id = id
  <2>1. after = [i \in 1 .. n |-> IF index[i].id = id THEN new ELSE index[i]]
    BY <1>1, <1>2 DEF Indexed
  <2> HIDE DEF new, after, n
  <2>2. DOMAIN after = 1 .. n /\ \A i \in 1 .. n : after[i].id = index[i].id
    BY <1>1, <2>1
  <2>3. Distinct(after)
    BY <1>1, <2>2 DEF Distinct
  <2>4. QED BY <2>3 DEF after
<1>3. CASE ~ \E i \in DOMAIN index : index[i].id = id
  <2>1. after = Append(index, new)
    BY <1>3 DEF Indexed
  <2> HIDE DEF new, after
  <2>2. DOMAIN after = 1 .. n + 1 /\ after[n + 1] = new /\ \A i \in 1 .. n : after[i] = index[i]
    BY <1>1, <2>1
  <2> HIDE DEF n
  <2>3. \A i \in 1 .. n + 1 : i \in 1 .. n \/ i = n + 1
    BY <1>1
  <2>4. \A i \in 1 .. n : after[i].id # after[n + 1].id
    BY <1>1, <1>3, <2>2
  <2>5. Distinct(after)
    BY <1>1, <2>2, <2>3, <2>4 DEF Distinct
  <2>6. QED BY <2>5 DEF after
<1>4. QED BY <1>2, <1>3

(* There are no more distinct outcomes than the cap.                       *)
LEMMA HotIsAll ==
    ASSUME OutcomeStoreAssumption, IsFiniteSet(Outcomes), Cardinality(Outcomes) <= MaxHot,
           NEW index \in Seq(Lines), Distinct(index)
    PROVE  Hot(index) = index
<1> DEFINE n == Len(index)
           f == [i \in 1 .. n |-> index[i].id]
<1>1. n \in Nat /\ DOMAIN index = 1 .. n /\ \A i \in 1 .. n : index[i] \in Lines
  OBVIOUS
<1>2. \A i \in 1 .. n : index[i].id \in Outcomes
  BY <1>1 DEF Lines
<1>3. f \in [1 .. n -> Outcomes] /\ \A i \in 1 .. n : f[i] = index[i].id
  BY <1>2
<1>4. IsFiniteSet(1 .. n) /\ Cardinality(1 .. n) = n
  <2> HIDE DEF n
  <2>1. 1 \in Int /\ n \in Int
    BY <1>1
  <2>2. IsFiniteSet(1 .. n) /\ Cardinality(1 .. n) = IF 1 > n THEN 0 ELSE n - 1 + 1
    BY <2>1, FS_Interval, Zenon
  <2>3. QED BY <1>1, <2>2
<1>5. Cardinality(Outcomes) \in Nat
  BY FS_CardinalityType
<1>6. MaxHot \in Nat
  BY DEF OutcomeStoreAssumption
<1> HIDE DEF n, f
<1>7. ~ (Cardinality(Outcomes) < Cardinality(1 .. n))
  <2>1. SUFFICES ASSUME Cardinality(Outcomes) < Cardinality(1 .. n) PROVE FALSE
    OBVIOUS
  <2>a. \A S, T : \A g \in [S -> T] :
           IsFiniteSet(S) /\ IsFiniteSet(T) /\ Cardinality(T) < Cardinality(S)
              => \E x, y \in S : x # y /\ g[x] = g[y]
    BY FS_PigeonHole
  <2>b. f \in [1 .. n -> Outcomes] /\ IsFiniteSet(1 .. n) /\ IsFiniteSet(Outcomes)
    BY <1>3, <1>4
  <2>2. PICK x, y \in 1 .. n : x # y /\ f[x] = f[y]
    BY <2>a, <2>b, <2>1, Zenon
  <2>3. QED BY <1>1, <1>3, <2>2 DEF Distinct
<1>8. n <= MaxHot
  BY <1>1, <1>4, <1>5, <1>6, <1>7
<1>9. QED BY <1>1, <1>6, <1>8 DEF Hot, n

(* The index follows the feed.                                             *)
LEMMA IndexFollows ==
    ASSUME revisions \in Seq(FeedRows), known \in Seq(Lines), ToSet(known) = Current, Distinct(known),
           NEW id \in Outcomes, NEW version \in Nat,
           NEW status \in {"enriched", "provisional", "corrected"},
           revisions' = Published(id, version, status), known' = Indexed(known, id, version)
    PROVE  /\ ToSet(known') = Current' /\ Distinct(known)'
           /\ KnownIds' = KnownIds \cup {id}
<1>1. Current' = {l \in Current : l.id # id} \cup {[id |-> id, version |-> version]}
  BY PublishedIsCurrent
<1>2. ToSet(known') = {l \in ToSet(known) : l.id # id} \cup {[id |-> id, version |-> version]}
  BY IndexedLines
<1>3. Distinct(Indexed(known, id, version))
  BY IndexedDistinct
<1>4. Distinct(known)'
  BY <1>3 DEF Distinct
<1>5. [id |-> id, version |-> version].id = id
  OBVIOUS
<1>6. ASSUME NEW x PROVE x \in KnownIds' <=> x \in KnownIds \cup {id}
  BY <1>2, <1>5 DEF KnownIds
<1>7. QED BY <1>1, <1>2, <1>4, <1>6

(* An import.                                                              *)
LEMMA ImportsLineMirrors ==
    ASSUME FeedInv, MirrorInv, FoundOnce, LegacyAssumption, ImportsLine PROVE MirrorInv'
<1>1. SUFFICES ASSUME storeCrashes' = 0 PROVE MirrorInv'
  BY DEF MirrorInv
<1>2. storeCrashes = 0 /\ ~loaded /\ ~loaded' /\ loading # <<>> /\ Head(loading) # Torn
  BY <1>1 DEF ImportsLine
<1>3. ToSet(known) = Current /\ Distinct(known) /\ StartInv
  BY <1>2 DEF MirrorInv
<1>4. PICK n \in 0 .. Len(export) : ImportedTo(n)
  BY <1>3 DEF StartInv
<1> DEFINE T == Lines \cup {Torn}
           line == export[n + 1]
<1>5. export \in Seq(T) /\ Len(export) \in Nat /\ DOMAIN export = 1 .. Len(export)
  BY DEF FeedInv, StoreTypes
<1>6. loading = SubSeq(export, n + 1, Len(export))
  BY <1>4 DEF ImportedTo
<1> HIDE DEF T, line
<1>7. n < Len(export) /\ Head(loading) = line /\ Tail(loading) = SubSeq(export, n + 2, Len(export))
  <2>1. n < Len(export)
    BY <1>2, <1>5, <1>6
  <2>2. Head(loading) = line
    BY <1>5, <1>6, <2>1 DEF line
  <2>3. Tail(loading) = SubSeq(export, n + 2, Len(export))
    BY <1>5, <1>6, <2>1
  <2>4. QED BY <2>1, <2>2, <2>3
<1>8. line \in Lines
  BY <1>2, <1>5, <1>7 DEF T, line
<1>9. line.id \in Outcomes /\ line.version \in Nat /\ line = [id |-> line.id, version |-> line.version]
  BY <1>8 DEF Lines
<1>10. /\ revisions' = Published(line.id, line.version, "enriched")
       /\ known' = Indexed(known, line.id, line.version)
       /\ loading' = Tail(loading) /\ UNCHANGED <<writes, backlog, awaiting, export>>
  BY <1>7 DEF ImportsLine
<1>11. revisions \in Seq(FeedRows) /\ known \in Seq(Lines)
  BY DEF FeedInv, StoreTypes
<1>12. ToSet(known') = Current' /\ Distinct(known)'
  BY <1>3, <1>9, <1>10, <1>11, IndexFollows
<1>13. Current' = {l \in Current : l.id # line.id} \cup {line}
  BY <1>9, <1>10, <1>11, PublishedIsCurrent
<1>14. n + 1 \in 1 .. Len(export) /\ \A i \in 1 .. n : i \in 1 .. Len(export) /\ i # n + 1
  BY <1>5, <1>7
<1>15. \A i \in 1 .. n : export[i].id # line.id
  BY <1>3, <1>4, <1>5, <1>14 DEF StartInv, FoundOnce, ImportedTo, line
<1>16. Current = {export[i] : i \in 1 .. n} /\ \A i \in 1 .. n : export[i] # Torn
  BY <1>4 DEF ImportedTo
<1>17. \A i \in 1 .. n + 1 : i \in 1 .. n \/ i = n + 1
  OBVIOUS
<1>18. n + 1 \in 1 .. n + 1 /\ \A i \in 1 .. n : i \in 1 .. n + 1
  OBVIOUS
<1>19. Current' = {export[i] : i \in 1 .. n + 1}
  <2>1. \A l \in Current' : \E i \in 1 .. n + 1 : l = export[i]
    BY <1>13, <1>16, <1>18 DEF line
  <2>2. \A i \in 1 .. n + 1 : export[i] \in Current'
    BY <1>13, <1>15, <1>16, <1>17 DEF line
  <2>3. QED BY <2>1, <2>2
<1>20. \A i \in 1 .. n + 1 : export[i] # Torn
  BY <1>2, <1>7, <1>16, <1>17 DEF line
<1>21. n + 1 \in 0 .. Len(export) /\ n + 1 + 1 = n + 2
  BY <1>14
<1>22. ImportedTo(n + 1)'
  BY <1>7, <1>10, <1>19, <1>20, <1>21 DEF ImportedTo
<1>23. StartInv'
  BY <1>3, <1>10, <1>21, <1>22 DEF StartInv
<1>24. QED BY <1>2, <1>12, <1>23 DEF MirrorInv

LEMMA ImportEndMirrors ==
    ASSUME FeedInv, MirrorInv, ImportEnds PROVE MirrorInv'
<1>1. SUFFICES ASSUME storeCrashes' = 0 PROVE MirrorInv'
  BY DEF MirrorInv
<1>2. storeCrashes = 0 /\ ~loaded /\ loaded' /\ UNCHANGED <<revisions, known, writes>>
  BY <1>1 DEF ImportEnds
<1>3. ToSet(known) = Current /\ Distinct(known) /\ StartInv
  BY <1>2 DEF MirrorInv
<1>4. PICK n \in 0 .. Len(export) : ImportedTo(n)
  BY <1>3 DEF StartInv
<1> DEFINE T == Lines \cup {Torn}
<1>5. export \in Seq(T) /\ Len(export) \in Nat
  BY DEF FeedInv, StoreTypes
<1>6. loading = SubSeq(export, n + 1, Len(export)) /\ Current = {export[i] : i \in 1 .. n}
  BY <1>4 DEF ImportedTo
<1> HIDE DEF T
<1>7. Len(loading) = Len(export) - n
  BY <1>5, <1>6
<1>8. export' = SubSeq(export, 1, n)
  <2>1. Len(export) - Len(loading) = n
    BY <1>5, <1>7
  <2>2. QED BY <2>1 DEF ImportEnds
<1>9. DOMAIN export' = 1 .. n /\ \A i \in 1 .. n : export'[i] = export[i]
  BY <1>5, <1>8
<1>10. ToSet(export') = Current
  BY <1>6, <1>9 DEF ToSet
<1>11. Current' = Current
  BY <1>2, SameFeed DEF FeedInv
<1>12. writes' = <<>>
  BY <1>2, <1>3 DEF StartInv
<1>13. QueueInv'
  BY <1>12 DEF QueueInv
<1>14. ExportInv'
  BY <1>10, <1>11, <1>12 DEF ExportInv, Exporting
<1>15. Distinct(known)'
  BY <1>2, <1>3 DEF Distinct
<1>16. QED BY <1>2, <1>3, <1>11, <1>13, <1>14, <1>15 DEF MirrorInv

(* A process that found no feed has nothing to load from one.              *)
LEMMA LoadsFeedMirrors ==
    ASSUME FeedInv, MirrorInv, LoadsFeed PROVE MirrorInv'
<1>1. SUFFICES ASSUME storeCrashes' = 0 PROVE FALSE
  BY DEF MirrorInv
<1>2. storeCrashes = 0 /\ known = <<>> /\ revisions # <<>>
  BY <1>1 DEF LoadsFeed
<1>3. revisions \in Seq(FeedRows)
  BY DEF FeedInv, StoreTypes
<1>4. 1 \in DOMAIN revisions
  BY <1>2, <1>3
<1>5. PICK i \in Existing(revisions[1].id) : TRUE
  BY <1>3, <1>4, RowOfEach
<1>6. Line(revisions[i]) \in Current
  BY <1>5 DEF Existing, Current
<1>7. ToSet(known) = {} /\ ToSet(known) = Current
  BY <1>2 DEF MirrorInv, ToSet
<1>8. QED BY <1>6, <1>7

(* The head leaves the chain, or a write joins it.                         *)
LEMMA HeadLeaves ==
    ASSUME writes \in Seq(QueuedWrites), writes # <<>>, QueueInv, writes' = Tail(writes),
           KnownIds' = KnownIds,
           \A i \in DOMAIN writes : i # 1 /\ AppendWaits(i) => writes[i].id \in awaiting'
    PROVE  QueueInv' /\ ~Exporting'
<1>1. /\ DOMAIN writes' = 1 .. Len(writes) - 1 /\ Len(writes) \in Nat
      /\ \A i \in DOMAIN writes' : writes'[i] = writes[i + 1] /\ i + 1 \in DOMAIN writes /\ i + 1 # 1
  OBVIOUS
<1>2. \A i \in DOMAIN writes' : writes'[i].at # "export"
  BY <1>1 DEF QueueInv
<1>3. \A i \in DOMAIN writes' : AppendWaits(i)' <=> AppendWaits(i + 1)
  BY <1>1 DEF AppendWaits
<1>4. \A i \in DOMAIN writes' : AppendWaits(i)' => writes'[i].id \in awaiting' /\ writes'[i].id \notin KnownIds'
  BY <1>1, <1>3 DEF QueueInv
<1>5. \A i, j \in DOMAIN writes' :
         AppendWaits(i)' /\ AppendWaits(j)' /\ writes'[i].id = writes'[j].id => i = j
  <2> TAKE i, j \in DOMAIN writes'
  <2>1. AppendWaits(i)' /\ AppendWaits(j)' /\ writes'[i].id = writes'[j].id => i + 1 = j + 1
    BY <1>1, <1>3 DEF QueueInv
  <2>2. i \in Nat /\ j \in Nat
    BY <1>1
  <2>3. QED BY <2>1, <2>2
<1>6. \A i \in DOMAIN writes' : writes'[i].kind = "replace" => writes'[i].id \in KnownIds'
  BY <1>1 DEF QueueInv
<1>7. ~Exporting'
  <2>1. writes' # <<>> => 1 \in DOMAIN writes'
    BY <1>1
  <2>2. QED BY <1>2, <2>1 DEF Exporting
<1>8. QED BY <1>2, <1>4, <1>5, <1>6, <1>7 DEF QueueInv

LEMMA WriteJoins ==
    ASSUME writes \in Seq(QueuedWrites), NEW new \in QueuedWrites, QueueInv, writes' = Append(writes, new),
           new.at = "commit", KnownIds' = KnownIds, awaiting \subseteq awaiting',
           new.kind = "append" => new.id \in awaiting' /\ new.id \notin awaiting /\ new.id \notin KnownIds,
           new.kind = "replace" => new.id \in KnownIds
    PROVE  /\ QueueInv' /\ (Exporting' <=> Exporting)
           /\ Exporting => writes'[1] = writes[1]
<1> DEFINE n == Len(writes)
<1>1. /\ n \in Nat /\ DOMAIN writes = 1 .. n /\ DOMAIN writes' = 1 .. n + 1 /\ writes'[n + 1] = new
      /\ \A i \in 1 .. n : writes'[i] = writes[i]
  OBVIOUS
<1>2. writes # <<>> <=> n > 0
  OBVIOUS
<1> HIDE DEF n
<1>3. \A i \in 1 .. n + 1 : i \in 1 .. n \/ i = n + 1
  BY <1>1
<1>4. \A i \in 1 .. n : AppendWaits(i)' <=> AppendWaits(i)
  BY <1>1 DEF AppendWaits
<1>5. \A i \in DOMAIN writes' : writes'[i].at = "export" => i = 1
  BY <1>1, <1>3 DEF QueueInv
<1>6. \A i \in DOMAIN writes' : AppendWaits(i)' => writes'[i].id \in awaiting' /\ writes'[i].id \notin KnownIds'
  BY <1>1, <1>3, <1>4 DEF QueueInv, AppendWaits
<1>7. \A i \in 1 .. n : AppendWaits(i) => writes[i].id \in awaiting
  BY <1>1 DEF QueueInv
<1>8. ASSUME NEW i \in 1 .. n + 1, NEW j \in 1 .. n + 1,
             AppendWaits(i)', AppendWaits(j)', writes'[i].id = writes'[j].id
      PROVE  i = j
  <2>1. CASE i \in 1 .. n /\ j \in 1 .. n
    BY <1>1, <1>4, <1>8, <2>1 DEF QueueInv
  <2>2. CASE i \in 1 .. n /\ j = n + 1
    BY <1>1, <1>4, <1>7, <1>8, <2>2 DEF AppendWaits
  <2>3. CASE i = n + 1 /\ j \in 1 .. n
    BY <1>1, <1>4, <1>7, <1>8, <2>3 DEF AppendWaits
  <2>4. CASE i = n + 1 /\ j = n + 1
    BY <2>4
  <2>5. QED BY <1>3, <2>1, <2>2, <2>3, <2>4
<1>9. \A i \in DOMAIN writes' : writes'[i].kind = "replace" => writes'[i].id \in KnownIds'
  BY <1>1, <1>3 DEF QueueInv
<1>10. QueueInv'
  BY <1>1, <1>5, <1>6, <1>8, <1>9 DEF QueueInv
<1>11. (Exporting' <=> Exporting) /\ (Exporting => writes'[1] = writes[1])
  <2>1. writes' # <<>>
    BY <1>1
  <2>2. CASE n = 0
    BY <1>1, <1>2, <2>1, <2>2 DEF Exporting
  <2>3. CASE n > 0
    <3>1. 1 \in 1 .. n /\ writes # <<>>
      BY <1>1, <1>2, <2>3
    <3>2. QED BY <1>1, <2>1, <3>1 DEF Exporting
  <2>4. QED BY <1>1, <2>2, <2>3
<1>12. QED BY <1>10, <1>11

LEMMA SameIndex ==
    ASSUME UNCHANGED <<revisions, known>>, RevisionsCount, ToSet(known) = Current, Distinct(known)
    PROVE  ToSet(known') = Current' /\ Distinct(known)' /\ KnownIds' = KnownIds /\ Current' = Current
<1>1. Current' = Current
  BY SameFeed
<1>2. QED BY <1>1 DEF Distinct, KnownIds

(* What the steps of a running store start from.                           *)
LEMMA RunningStore ==
    ASSUME FeedInv, MirrorInv, storeCrashes = 0, loaded
    PROVE  /\ revisions \in Seq(FeedRows) /\ known \in Seq(Lines) /\ writes \in Seq(QueuedWrites)
           /\ export \in Seq(Lines \cup {Torn}) /\ backlog \in Nat /\ RevisionsCount
           /\ ToSet(known) = Current /\ Distinct(known) /\ QueueInv /\ ExportInv
BY DEF FeedInv, StoreTypes, StoreTypeOK, MirrorInv

LEMMA AppendAskedMirrors ==
    ASSUME OutcomeStoreAssumption, FeedInv, MirrorInv, NEW id \in Outcomes, AppendAsked(id) PROVE MirrorInv'
<1>1. SUFFICES ASSUME storeCrashes' = 0 PROVE MirrorInv'
  BY DEF MirrorInv
<1>2. storeCrashes = 0 /\ loaded /\ loaded' /\ UNCHANGED <<revisions, known, export, backlog>>
  BY <1>1 DEF AppendAsked
<1> DEFINE new == Write("append", id, 1)
<1>3. new \in QueuedWrites /\ new.id = id /\ new.at = "commit" /\ new.kind = "append"
  BY DEF Write, QueuedWrites
<1>4. id \notin awaiting /\ awaiting' = awaiting \cup {id} /\ writes' = Append(writes, new)
  BY DEF AppendAsked
<1>5. id \notin KnownIds
  <2>1. \A i \in DOMAIN known : known[i].id # id
    BY DEF AppendAsked
  <2>2. QED BY <2>1 DEF KnownIds, ToSet
<1> HIDE DEF new
<1>6. /\ writes \in Seq(QueuedWrites) /\ QueueInv /\ ExportInv
      /\ RevisionsCount /\ ToSet(known) = Current /\ Distinct(known)
  BY <1>2, RunningStore
<1>7. ToSet(known') = Current' /\ Distinct(known)' /\ KnownIds' = KnownIds /\ Current' = Current
  BY <1>2, <1>6, SameIndex
<1>8. /\ QueueInv' /\ (Exporting' <=> Exporting)
      /\ Exporting => writes'[1] = writes[1]
  BY <1>3, <1>4, <1>5, <1>6, <1>7, WriteJoins
<1>9. ExportInv'
  BY <1>2, <1>6, <1>7, <1>8 DEF ExportInv, Line
<1>10. QED BY <1>2, <1>7, <1>8, <1>9 DEF MirrorInv

LEMMA ReplaceAskedMirrors ==
    ASSUME OutcomeStoreAssumption, FeedInv, MirrorInv, NEW i \in Nat, ReplaceAsked(i) PROVE MirrorInv'
<1>1. SUFFICES ASSUME storeCrashes' = 0 PROVE MirrorInv'
  BY DEF MirrorInv
<1>2. storeCrashes = 0 /\ loaded /\ loaded' /\ UNCHANGED <<revisions, known, export, backlog, awaiting>>
  BY <1>1 DEF ReplaceAsked
<1> DEFINE new == Write("replace", known[i].id, known[i].version + 1)
<1>3. /\ writes \in Seq(QueuedWrites) /\ QueueInv /\ ExportInv /\ known \in Seq(Lines)
      /\ RevisionsCount /\ ToSet(known) = Current /\ Distinct(known)
  BY <1>2, RunningStore
<1>4. i \in DOMAIN known /\ writes' = Append(writes, new)
  BY DEF ReplaceAsked
<1>5. known[i] \in Lines
  BY <1>3, <1>4
<1>6. known[i].id \in Outcomes /\ known[i].version \in Nat
  BY <1>5 DEF Lines
<1>7. new \in QueuedWrites /\ new.id = known[i].id /\ new.at = "commit" /\ new.kind = "replace"
  BY <1>6 DEF Write, QueuedWrites
<1>8. new.id \in KnownIds
  BY <1>4, <1>7 DEF KnownIds, ToSet
<1> HIDE DEF new
<1>9. ToSet(known') = Current' /\ Distinct(known)' /\ KnownIds' = KnownIds /\ Current' = Current
  BY <1>2, <1>3, SameIndex
<1>10. /\ QueueInv' /\ (Exporting' <=> Exporting)
       /\ Exporting => writes'[1] = writes[1]
  BY <1>2, <1>3, <1>4, <1>7, <1>8, <1>9, WriteJoins
<1>11. ExportInv'
  BY <1>2, <1>3, <1>9, <1>10 DEF ExportInv, Line
<1>12. QED BY <1>2, <1>9, <1>10, <1>11 DEF MirrorInv

LEMMA CommitsMirrors ==
    ASSUME OutcomeStoreAssumption, IsFiniteSet(Outcomes), Cardinality(Outcomes) <= MaxHot,
           FeedInv, MirrorInv, Commits
    PROVE  MirrorInv'
<1>1. SUFFICES ASSUME storeCrashes' = 0 PROVE MirrorInv'
  BY DEF MirrorInv
<1>2. storeCrashes = 0 /\ UNCHANGED <<export, backlog, loaded>> /\ writes # <<>> /\ Head(writes).at = "commit"
  BY <1>1 DEF Commits
<1>3. CASE ~loaded
  BY <1>2, <1>3 DEF MirrorInv, StartInv
<1>4. CASE loaded
  <2> DEFINE write == writes[1]
  <2>1. /\ revisions \in Seq(FeedRows) /\ known \in Seq(Lines) /\ writes \in Seq(QueuedWrites)
        /\ ToSet(known) = Current /\ Distinct(known) /\ QueueInv /\ ExportInv
    BY <1>2, <1>4, RunningStore
  <2>2. /\ Head(writes) = write /\ write \in QueuedWrites
        /\ write.id \in Outcomes /\ write.version \in Nat
    BY <1>2, <2>1, HeadOfWrites
  <2>3. /\ known' = Hot(Indexed(known, write.id, write.version))
        /\ awaiting' = Settles(write)
        /\ writes' = [writes EXCEPT ![1].at = "export"]
    BY <2>2 DEF Commits
  <2>4. PICK status \in {"enriched", "provisional", "corrected"} :
          revisions' = Published(write.id, write.version, status)
    BY <2>2 DEF Commits
  <2>5. write.at = "commit"
    BY <1>2, <2>2
  <2>6. 1 \in DOMAIN writes
    BY <1>2, <2>1
  <2>7. /\ DOMAIN writes' = DOMAIN writes /\ writes'[1] = [write EXCEPT !.at = "export"]
        /\ \A i \in DOMAIN writes : i # 1 => writes'[i] = writes[i]
    BY <2>1, <2>3, <2>6
  <2>8. /\ writes'[1].at = "export" /\ writes'[1].kind = write.kind
        /\ writes'[1].id = write.id /\ writes'[1].version = write.version
    BY <2>2, <2>7 DEF QueuedWrites
  <2>9. write.kind \in {"append", "replace"}
    BY <2>2 DEF QueuedWrites
  <2>10. AppendWaits(1) <=> write.kind = "append"
    BY <2>5 DEF AppendWaits
  <2> HIDE DEF write
  <2>11. Indexed(known, write.id, write.version) \in Seq(Lines)
         /\ Distinct(Indexed(known, write.id, write.version))
    BY <2>1, <2>2, IndexedLines, IndexedDistinct
  <2>12. known' = Indexed(known, write.id, write.version)
    BY <2>3, <2>11, HotIsAll
  <2>13. ToSet(known') = Current' /\ Distinct(known)' /\ KnownIds' = KnownIds \cup {write.id}
    BY <2>1, <2>2, <2>4, <2>12, IndexFollows
  <2>14. Current' = {l \in Current : l.id # write.id}
                       \cup {[id |-> write.id, version |-> write.version]}
    BY <2>1, <2>2, <2>4, PublishedIsCurrent
  <2>15. \A i \in DOMAIN writes' : AppendWaits(i)' => AppendWaits(i) /\ i # 1 /\ writes'[i] = writes[i]
    BY <2>7, <2>8 DEF AppendWaits
  <2>16. ASSUME NEW i \in DOMAIN writes', AppendWaits(i)'
         PROVE  writes'[i].id \in awaiting' /\ writes'[i].id \notin KnownIds'
    <3>1. /\ AppendWaits(i) /\ i # 1 /\ writes'[i] = writes[i] /\ i \in DOMAIN writes
          /\ writes[i].id \in awaiting /\ writes[i].id \notin KnownIds
      BY <2>1, <2>7, <2>15, <2>16 DEF QueueInv
    <3>2. CASE write.kind = "append"
      <4>1. writes[i].id # write.id
        BY <2>1, <2>6, <2>10, <3>1, <3>2 DEF QueueInv, write
      <4>2. QED BY <2>3, <2>13, <3>1, <3>2, <4>1 DEF Settles
    <3>3. CASE write.kind = "replace"
      <4>1. write.id \in KnownIds
        BY <2>1, <2>6, <3>3 DEF QueueInv, write
      <4>2. QED BY <2>3, <2>13, <3>1, <3>3, <4>1 DEF Settles
    <3>4. QED BY <2>9, <3>2, <3>3
  <2>17. \A i, j \in DOMAIN writes' :
            AppendWaits(i)' /\ AppendWaits(j)' /\ writes'[i].id = writes'[j].id => i = j
    BY <2>1, <2>7, <2>15 DEF QueueInv
  <2>18. \A i \in DOMAIN writes' : writes'[i].kind = "replace" => writes'[i].id \in KnownIds'
    <3>1. \A i \in DOMAIN writes : writes'[i].kind = writes[i].kind /\ writes'[i].id = writes[i].id
      BY <2>7, <2>8 DEF write
    <3>2. QED BY <2>1, <2>7, <2>13, <3>1 DEF QueueInv
  <2>19. \A i \in DOMAIN writes' : writes'[i].at = "export" => i = 1
    BY <2>1, <2>7 DEF QueueInv
  <2>20. QueueInv'
    BY <2>16, <2>17, <2>18, <2>19 DEF QueueInv
  <2>21. Exporting' /\ ~Exporting
    <3>1. writes' # <<>>
      BY <2>1, <2>6, <2>7
    <3>2. QED BY <2>5, <2>8, <3>1 DEF Exporting, write
  <2>22. ExportInv'
    <3>1. SUFFICES ASSUME backlog = 0, write.kind = "append"
                   PROVE  ToSet(export) \cup {Line(writes'[1])} = Current'
      BY <1>2, <2>8, <2>21 DEF ExportInv, Line
    <3>2. ToSet(export) = Current
      BY <2>1, <2>21, <3>1 DEF ExportInv
    <3>3. write.id \notin KnownIds
      BY <2>1, <2>6, <2>10, <3>1 DEF QueueInv, write
    <3>4. \A l \in Current : l.id # write.id
      BY <2>1, <3>3 DEF KnownIds
    <3>5. Line(writes'[1]) = [id |-> write.id, version |-> write.version]
      BY <2>8 DEF Line
    <3>6. QED BY <2>14, <3>2, <3>4, <3>5
  <2>23. QED BY <1>2, <1>4, <2>13, <2>20, <2>22 DEF MirrorInv
<1>5. QED BY <1>3, <1>4

LEMMA CommitFailsMirrors ==
    ASSUME FeedInv, MirrorInv, CommitFails PROVE MirrorInv'
<1>1. SUFFICES ASSUME storeCrashes' = 0 PROVE MirrorInv'
  BY DEF MirrorInv
<1>2. /\ storeCrashes = 0 /\ UNCHANGED <<revisions, known, export, backlog, loaded>>
      /\ writes # <<>> /\ Head(writes).at = "commit"
      /\ writes' = Tail(writes) /\ awaiting' = Settles(Head(writes))
  BY <1>1 DEF CommitFails
<1>3. CASE ~loaded
  BY <1>2, <1>3 DEF MirrorInv, StartInv
<1>4. CASE loaded
  <2>1. /\ writes \in Seq(QueuedWrites) /\ QueueInv /\ ExportInv
        /\ RevisionsCount /\ ToSet(known) = Current /\ Distinct(known)
    BY <1>2, <1>4, RunningStore
  <2>2. Head(writes) = writes[1] /\ 1 \in DOMAIN writes
    BY <1>2, <2>1
  <2>3. ToSet(known') = Current' /\ Distinct(known)' /\ KnownIds' = KnownIds /\ Current' = Current
    BY <1>2, <2>1, SameIndex
  <2>4. ASSUME NEW i \in DOMAIN writes, i # 1, AppendWaits(i) PROVE writes[i].id \in awaiting'
    <3>1. writes[i].id \in awaiting
      BY <2>1, <2>4 DEF QueueInv
    <3>2. CASE writes[1].kind = "append"
      <4>1. AppendWaits(1)
        BY <1>2, <2>2, <3>2 DEF AppendWaits
      <4>2. writes[i].id # writes[1].id
        BY <2>1, <2>2, <2>4, <4>1 DEF QueueInv
      <4>3. QED BY <1>2, <2>2, <3>1, <3>2, <4>2 DEF Settles
    <3>3. CASE writes[1].kind # "append"
      BY <1>2, <2>2, <3>1, <3>3 DEF Settles
    <3>4. QED BY <3>2, <3>3
  <2>5. QueueInv' /\ ~Exporting'
    BY <1>2, <2>1, <2>3, <2>4, HeadLeaves
  <2>6. ~Exporting
    BY <1>2, <2>2 DEF Exporting
  <2>7. ExportInv'
    BY <1>2, <2>1, <2>3, <2>5, <2>6 DEF ExportInv
  <2>8. QED BY <1>2, <1>4, <2>3, <2>5, <2>7 DEF MirrorInv
<1>5. QED BY <1>3, <1>4

(* syncExport, done or failed: the head leaves the chain.                  *)
LEMMA ExportedMirrors ==
    ASSUME FeedInv, MirrorInv, storeCrashes = 0, loaded, UNCHANGED <<revisions, known, awaiting, loaded>>,
           writes # <<>>, Head(writes).at = "export", writes' = Tail(writes),
           backlog' = 0 => ToSet(export') = Current
    PROVE  MirrorInv'
<1>1. /\ writes \in Seq(QueuedWrites) /\ QueueInv /\ ExportInv
      /\ RevisionsCount /\ ToSet(known) = Current /\ Distinct(known)
  BY RunningStore
<1>2. ToSet(known') = Current' /\ Distinct(known)' /\ KnownIds' = KnownIds /\ Current' = Current
  BY <1>1, SameIndex
<1>3. \A i \in DOMAIN writes : i # 1 /\ AppendWaits(i) => writes[i].id \in awaiting'
  BY <1>1 DEF QueueInv
<1>4. QueueInv' /\ ~Exporting'
  BY <1>1, <1>2, <1>3, HeadLeaves
<1>5. ExportInv'
  BY <1>2, <1>4 DEF ExportInv
<1>6. QED BY <1>2, <1>4, <1>5 DEF MirrorInv

LEMMA ExportsMirrors ==
    ASSUME LegacyAssumption, FeedInv, MirrorInv, Exports PROVE MirrorInv'
<1>1. SUFFICES ASSUME storeCrashes' = 0 PROVE MirrorInv'
  BY DEF MirrorInv
<1>2. storeCrashes = 0 /\ UNCHANGED <<revisions, known, awaiting, loaded>>
  BY <1>1 DEF Exports
<1>3. writes # <<>> /\ Head(writes).at = "export" /\ writes' = Tail(writes)
  BY DEF Exports
<1>4. CASE ~loaded
  BY <1>2, <1>3, <1>4 DEF MirrorInv, StartInv
<1>5. CASE loaded
  <2>1. /\ writes \in Seq(QueuedWrites) /\ ExportInv /\ known \in Seq(Lines)
        /\ revisions \in Seq(FeedRows) /\ export \in Seq(Lines \cup {Torn}) /\ ToSet(known) = Current
    BY <1>2, <1>5, RunningStore
  <2>2. Head(writes) = writes[1] /\ Exporting
    BY <1>3, <2>1 DEF Exporting
  <2>3. CASE OnlyAppends(Head(writes))
    <3> DEFINE line == Line(writes[1])
               T == Lines \cup {Torn}
    <3>1. export' = Appended(export, line)
      BY <2>2, <2>3 DEF Exports
    <3>2. ToSet(export) \cup {line} = Current
      BY <2>1, <2>2, <2>3 DEF ExportInv, OnlyAppends
    <3>3. Torn \notin Lines
      BY LegacyAssumption DEF LegacyAssumption, Lines
    <3>4. Torn \notin ToSet(export)
      BY <2>1, <3>2, <3>3, CurrentAreLines
    <3>5. export \in Seq(T) /\ line \in T
      BY <2>1, <3>2, CurrentAreLines
    <3> HIDE DEF T, line
    <3>6. export # <<>> => Last(export) \in ToSet(export)
      BY <3>5 DEF Last, ToSet
    <3>7. export' = Append(export, line)
      BY <3>1, <3>4, <3>6 DEF Appended
    <3>8. ToSet(export') = ToSet(export) \cup {line}
      <4>1. /\ DOMAIN export = 1 .. Len(export) /\ Len(export) \in Nat
            /\ DOMAIN export' = 1 .. Len(export) + 1 /\ export'[Len(export) + 1] = line
            /\ \A i \in 1 .. Len(export) : export'[i] = export[i]
        BY <3>5, <3>7
      <4>2. \A i \in 1 .. Len(export) + 1 : i \in 1 .. Len(export) \/ i = Len(export) + 1
        BY <4>1
      <4>3. Len(export) + 1 \in 1 .. Len(export) + 1 /\ \A i \in 1 .. Len(export) : i \in 1 .. Len(export) + 1
        BY <4>1
      <4>4. QED BY <4>1, <4>2, <4>3 DEF ToSet
    <3>9. ToSet(export') = Current
      BY <3>2, <3>8
    <3>10. QED BY <1>2, <1>3, <1>5, <3>9, ExportedMirrors
  <2>4. CASE ~OnlyAppends(Head(writes))
    <3>1. export' = known
      BY <2>4 DEF Exports, Rewritten
    <3>2. QED BY <1>2, <1>3, <1>5, <2>1, <3>1, ExportedMirrors
  <2>5. QED BY <2>3, <2>4
<1>6. QED BY <1>4, <1>5

LEMMA ExportFailsMirrors ==
    ASSUME FeedInv, MirrorInv, ExportFails PROVE MirrorInv'
<1>1. SUFFICES ASSUME storeCrashes' = 0 PROVE MirrorInv'
  BY DEF MirrorInv
<1>2. storeCrashes = 0 /\ UNCHANGED <<revisions, known, awaiting, loaded>> /\ backlog' = backlog + 1
  BY <1>1 DEF ExportFails, BacklogAfterFailure
<1>3. writes # <<>> /\ Head(writes).at = "export" /\ writes' = Tail(writes)
  BY DEF ExportFails
<1>4. CASE ~loaded
  BY <1>2, <1>3, <1>4 DEF MirrorInv, StartInv
<1>5. CASE loaded
  <2>1. backlog' # 0
    BY <1>2, <1>5, RunningStore
  <2>2. QED BY <1>2, <1>3, <1>5, <2>1, ExportedMirrors
<1>6. QED BY <1>4, <1>5

LEMMA MirrorInitially == ASSUME LegacyAssumption, StoreInit PROVE MirrorInv
<1>1. ToSet(known) = {} /\ Current = {} /\ Distinct(known) /\ ~loaded
  BY DEF StoreInit, ToSet, Current, CurrentRows, Distinct
<1>2. export \in Seq(Lines \cup {Torn}) /\ loading = export /\ export \in Legacy
  BY DEF StoreInit, LegacyAssumption
<1>3. SubSeq(export, 1, Len(export)) = export /\ Len(export) \in Nat
  <2> DEFINE T == Lines \cup {Torn}
  <2>1. export \in Seq(T)
    BY <1>2
  <2> HIDE DEF T
  <2>2. QED BY <2>1
<1>4. ImportedTo(0)
  BY <1>1, <1>2, <1>3 DEF ImportedTo
<1>5. StartInv
  BY <1>2, <1>3, <1>4 DEF StoreInit, StartInv
<1>6. QED BY <1>1, <1>5 DEF MirrorInv

LEMMA MirrorNext ==
    ASSUME OutcomeStoreAssumption, LegacyAssumption, IsFiniteSet(Outcomes),
           Cardinality(Outcomes) <= MaxHot, FoundOnce, FeedInv, MirrorInv, [StoreNext]_storeVars
    PROVE  MirrorInv'
<1>1. CASE LoadsFeed
  BY <1>1, LoadsFeedMirrors
<1>2. CASE ImportsLine
  BY <1>2, ImportsLineMirrors
<1>3. CASE ImportEnds
  BY <1>3, ImportEndMirrors
<1>4. ASSUME NEW id \in Outcomes, AppendAsked(id) PROVE MirrorInv'
  BY <1>4, AppendAskedMirrors
<1>5. ASSUME NEW i \in 1 .. MaxHot + 1, ReplaceAsked(i) PROVE MirrorInv'
  BY <1>5, ReplaceAskedMirrors
<1>6. CASE Commits
  BY <1>6, CommitsMirrors
<1>7. CASE CommitFails
  BY <1>7, CommitFailsMirrors
<1>8. CASE Exports
  BY <1>8, ExportsMirrors
<1>9. CASE ExportFails
  BY <1>9, ExportFailsMirrors
<1>10. CASE StoreCrashes
  <2>1. storeCrashes' # 0
    BY <1>10 DEF StoreCrashes, FeedInv, StoreTypes, StoreTypeOK
  <2>2. QED BY <2>1 DEF MirrorInv
<1>11. CASE UNCHANGED storeVars
  <2> USE <1>11 DEF storeVars
  <2>1. Current' = Current
    BY SameFeed DEF FeedInv
  <2>2. StartInv' <=> StartInv
    BY <2>1 DEF StartInv, ImportedTo
  <2>3. QueueInv' <=> QueueInv
    BY DEF QueueInv, AppendWaits, KnownIds
  <2>4. ExportInv' <=> ExportInv
    BY <2>1 DEF ExportInv, Exporting, Line
  <2>5. Distinct(known)' <=> Distinct(known)
    BY DEF Distinct
  <2>6. QED BY <2>1, <2>2, <2>3, <2>4, <2>5 DEF MirrorInv
<1>12. QED
  BY <1>1, <1>2, <1>3, <1>4, <1>5, <1>6, <1>7, <1>8, <1>9, <1>10, <1>11 DEF StoreNext

(* The export has what the feed has whenever nothing is left to write, and  *)
(* the index nothing that is not committed, for any export found, as long   *)
(* as the index can hold every outcome and the export found has each once. *)
THEOREM ExportFollowsFeed ==
    ASSUME IsFiniteSet(Outcomes), Cardinality(Outcomes) <= MaxHot, FoundOnce
    PROVE  StoreSpec => []StoreInv
<1>1. StoreInit => FeedInv /\ MirrorInv
  BY FeedInitially, MirrorInitially, OutcomeStoreAssumption, LegacyAssumption
<1>2. FeedInv /\ MirrorInv /\ [StoreNext]_storeVars => FeedInv' /\ MirrorInv'
  BY FeedNext, MirrorNext, OutcomeStoreAssumption, LegacyAssumption
<1>3. FeedInv /\ MirrorInv => StoreInv
  <2>1. SUFFICES ASSUME FeedInv, MirrorInv, storeCrashes = 0, StoreIdle PROVE ToSet(export) = Current
    BY DEF FeedInv, StoreTypes, StoreInv, ExportMirrorsFeed
  <2>2. ExportInv /\ backlog = 0 /\ ~Exporting
    BY <2>1 DEF MirrorInv, StoreIdle, Exporting
  <2>3. QED BY <2>2 DEF ExportInv
<1>4. QED BY <1>1, <1>2, <1>3, PTL DEF StoreSpec
=============================================================================
