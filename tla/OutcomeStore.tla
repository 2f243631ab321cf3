---------------------------- MODULE OutcomeStore ----------------------------
(***************************************************************************)
(* The store of trade outcomes: the SQLite feed of revisions is the        *)
(* authority, `known` is the hot index of it in memory, and the JSONL      *)
(* export mirrors it.  Writes are queued one behind the other, and each    *)
(* commits to the feed before it touches the export.                       *)
(*                                                                         *)
(* An outcome is its intent and a version of its content.                  *)
(***************************************************************************)
EXTENDS Naturals, Sequences, FiniteSets, SequencesExt

CONSTANTS Outcomes,          \* intents with an outcome
          MaxHot,            \* MAX_HOT_OUTCOMES
          Legacy,            \* exports found beside an empty feed
          MaxAsked,          \* bound: writes asked for
          MaxStoreFaults,    \* bound: failed commits and exports
          MaxStoreCrashes    \* bound: restarts

Lines == [id : Outcomes, version : Nat]
Torn == [id |-> "torn", version |-> 0]

ASSUME OutcomeStoreAssumption ==
    /\ MaxHot \in Nat \ {0} /\ MaxAsked \in Nat
    /\ MaxStoreFaults \in Nat /\ MaxStoreCrashes \in Nat
ASSUME LegacyAssumption == Legacy \subseteq Seq(Lines \cup {Torn}) /\ Torn.id \notin Outcomes

VARIABLES revisions,     \* outcome_revisions: [id, version, status, revision]
          known,         \* hot index in insertion order: [id, version]
          awaiting,      \* intents whose append is queued
          writes,        \* the write chain: [kind, id, version, at]
          export,        \* lines of the JSONL file
          backlog,       \* exportBacklog
          loading,       \* lines the starting process has to import
          loaded,        \* the start is over
          asked, storeFaults, storeCrashes

storeVars == <<revisions, known, awaiting, writes, export, backlog, loading,
               loaded, asked, storeFaults, storeCrashes>>

StoreInit ==
    /\ export \in Legacy
    /\ revisions = <<>> /\ known = <<>> /\ awaiting = {} /\ writes = <<>> /\ backlog = 0
    /\ loading = export /\ loaded = FALSE
    /\ asked = 0 /\ storeFaults = 0 /\ storeCrashes = 0

StoreFault == storeFaults < MaxStoreFaults /\ storeFaults' = storeFaults + 1

----------------------------------------------------------------------------
(* The feed and the hot index.                                             *)

Line(entry) == [id |-> entry.id, version |-> entry.version]

\* outcomes_current: the last revision of each outcome.
IsCurrent(i) == \A j \in DOMAIN revisions : j > i => revisions[j].id # revisions[i].id
CurrentRows == {i \in DOMAIN revisions : IsCurrent(i)}
Current == {Line(revisions[i]) : i \in CurrentRows}

\* The row of an outcome, if it has one.
Existing(id) == {i \in CurrentRows : revisions[i].id = id}

NextRevision(id) ==
    IF Existing(id) = {} THEN 1 ELSE revisions[CHOOSE i \in Existing(id) : TRUE].revision + 1

\* publish: the same content with the same status again is no new revision.
Published(id, version, status) ==
    IF \E i \in Existing(id) : revisions[i].version = version /\ revisions[i].status = status
    THEN revisions
    ELSE Append(revisions, [id |-> id, version |-> version, status |-> status,
                            revision |-> NextRevision(id)])

\* Map.set: a key that is there keeps its place.
Indexed(index, id, version) ==
    IF \E i \in DOMAIN index : index[i].id = id
    THEN [i \in DOMAIN index |-> IF index[i].id = id THEN [id |-> id, version |-> version] ELSE index[i]]
    ELSE Append(index, [id |-> id, version |-> version])

\* The oldest entries beyond the cap leave the index.
Hot(index) == IF Len(index) > MaxHot THEN SubSeq(index, Len(index) - MaxHot + 1, Len(index)) ELSE index

----------------------------------------------------------------------------
(* Start.                                                                  *)

\* A feed with outcomes is loaded as it is, in order of sequence, whatever the
\* export says.
LoadsFeed ==
    /\ ~loaded /\ known = <<>> /\ revisions # <<>>
    /\ \E order \in [1 .. Cardinality(CurrentRows) -> CurrentRows] :
          /\ \A i, j \in DOMAIN order : i < j => order[i] < order[j]
          /\ known' = [i \in DOMAIN order |-> Line(revisions[order[i]])]
    /\ loading' = <<>> /\ loaded' = TRUE
    /\ UNCHANGED <<revisions, awaiting, writes, export, backlog, asked, storeFaults, storeCrashes>>

\* An empty feed takes the export in, line by line.
ImportsLine ==
    /\ ~loaded /\ loading # <<>> /\ Head(loading) # Torn
    /\ revisions = <<>> \/ known # <<>>
    /\ LET line == Head(loading) IN
          /\ revisions' = Published(line.id, line.version, "enriched")
          /\ known' = Indexed(known, line.id, line.version)
    /\ loading' = Tail(loading)
    /\ UNCHANGED <<loaded, awaiting, writes, export, backlog, asked, storeFaults, storeCrashes>>

\* A torn tail is parked beside the file, which keeps its readable prefix.
ImportEnds ==
    /\ ~loaded /\ (loading # <<>> => Head(loading) = Torn)
    /\ revisions = <<>> \/ known # <<>>
    /\ export' = SubSeq(export, 1, Len(export) - Len(loading))
    /\ loading' = <<>> /\ loaded' = TRUE
    /\ UNCHANGED <<revisions, known, awaiting, writes, backlog, asked, storeFaults, storeCrashes>>

----------------------------------------------------------------------------
(* The writes.                                                             *)

Write(kind, id, version) == [kind |-> kind, id |-> id, version |-> version, at |-> "commit"]

\* append: an intent that is known or queued already is left alone.
AppendAsked(id) ==
    /\ loaded /\ asked < MaxAsked
    /\ id \notin awaiting /\ \A i \in DOMAIN known : known[i].id # id
    /\ awaiting' = awaiting \cup {id}
    /\ writes' = Append(writes, Write("append", id, 1))
    /\ asked' = asked + 1
    /\ UNCHANGED <<revisions, known, export, backlog, loading, loaded, storeFaults, storeCrashes>>

\* replace, by a retry that knows the outcome.
ReplaceAsked(i) ==
    /\ loaded /\ asked < MaxAsked
    /\ i \in DOMAIN known
    /\ writes' = Append(writes, Write("replace", known[i].id, known[i].version + 1))
    /\ asked' = asked + 1
    /\ UNCHANGED <<revisions, known, awaiting, export, backlog, loading, loaded, storeFaults, storeCrashes>>

Settles(write) == IF write.kind = "append" THEN awaiting \ {write.id} ELSE awaiting

\* The feed's transaction commits, then the index moves.
Commits ==
    /\ writes # <<>> /\ Head(writes).at = "commit"
    /\ LET write == Head(writes)
           \* learning_eligible says which of the two a first publication is.
           statuses == IF write.kind = "append" THEN {"enriched", "provisional"} ELSE {"corrected"}
       IN /\ \E status \in statuses : revisions' = Published(write.id, write.version, status)
          /\ known' = Hot(Indexed(known, write.id, write.version))
          /\ awaiting' = Settles(write)
    /\ writes' = [writes EXCEPT ![1].at = "export"]
    /\ UNCHANGED <<export, backlog, loading, loaded, asked, storeFaults, storeCrashes>>

\* It fails: the caller hears of it, and the next write goes on.
CommitFails ==
    /\ writes # <<>> /\ Head(writes).at = "commit" /\ StoreFault
    /\ awaiting' = Settles(Head(writes))
    /\ writes' = Tail(writes)
    /\ UNCHANGED <<revisions, known, export, backlog, loading, loaded, asked, storeCrashes>>

\* Behind a torn line a whole one cannot be read either.
Appended(lines, line) == IF lines # <<>> /\ Last(lines) = Torn THEN lines ELSE Append(lines, line)

Rewritten == known

(* Faulty: a failed write of the export is only logged.                      *)
BacklogAsBefore == backlog

\* A failed write of the export is a backlog.
BacklogAfterFailure == backlog + 1

OnlyAppends(write) == write.kind = "append" /\ backlog = 0

\* syncExport: a line behind the others, or all of it anew.
Exports ==
    /\ writes # <<>> /\ Head(writes).at = "export"
    /\ export' = IF OnlyAppends(Head(writes)) THEN Appended(export, Line(Head(writes))) ELSE Rewritten
    /\ backlog' = 0
    /\ writes' = Tail(writes)
    /\ UNCHANGED <<revisions, known, awaiting, loading, loaded, asked, storeFaults, storeCrashes>>

\* The write fails, with part of an appended line on disk perhaps.
ExportFails ==
    /\ writes # <<>> /\ Head(writes).at = "export" /\ StoreFault
    /\ export' \in {export} \cup (IF OnlyAppends(Head(writes)) THEN {Appended(export, Torn)} ELSE {})
    /\ backlog' = BacklogAfterFailure
    /\ writes' = Tail(writes)
    /\ UNCHANGED <<revisions, known, awaiting, loading, loaded, asked, storeCrashes>>

\* The process dies, in the middle of an append perhaps.
StoreCrashes ==
    /\ storeCrashes < MaxStoreCrashes /\ storeCrashes' = storeCrashes + 1
    /\ export' \in {export} \cup
          (IF writes # <<>> /\ Head(writes).at = "export" /\ OnlyAppends(Head(writes))
           THEN {Appended(export, Torn)} ELSE {})
    /\ known' = <<>> /\ awaiting' = {} /\ writes' = <<>> /\ backlog' = 0
    /\ loading' = export' /\ loaded' = FALSE
    /\ UNCHANGED <<revisions, asked, storeFaults>>

StoreNext ==
    \/ LoadsFeed \/ ImportsLine \/ ImportEnds
    \/ (\E id \in Outcomes : AppendAsked(id)) \/ (\E i \in 1 .. MaxHot + 1 : ReplaceAsked(i))
    \/ Commits \/ CommitFails \/ Exports \/ ExportFails \/ StoreCrashes

StoreSpec == StoreInit /\ [][StoreNext]_storeVars

-----------------------------------------------------------------------------
StoreTypeOK ==
    /\ asked \in 0 .. MaxAsked /\ storeFaults \in 0 .. MaxStoreFaults
    /\ storeCrashes \in 0 .. MaxStoreCrashes
    /\ loaded \in BOOLEAN /\ backlog \in Nat /\ awaiting \subseteq Outcomes

StoreIdle == loaded /\ writes = <<>> /\ backlog = 0

(* The legacy export has the outcomes of the feed whenever nothing is left   *)
(* to write, whatever commits and exports failed before (the backlog).       *)
ExportMirrorsFeed ==
    storeCrashes = 0 /\ StoreIdle => ToSet(export) = Current

(* The index the duplicate check reads holds nothing that is not committed.  *)
KnownIsCommitted == ToSet(known) \subseteq Current

(* Revisions of an outcome are numbered without a gap, in order of commit.   *)
RevisionsCount ==
    \A i \in DOMAIN revisions :
       revisions[i].revision =
          Cardinality({j \in 1 .. i - 1 : revisions[j].id = revisions[i].id}) + 1

StoreInv == StoreTypeOK /\ ExportMirrorsFeed /\ KnownIsCommitted /\ RevisionsCount
=============================================================================
