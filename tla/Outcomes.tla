-------------------------------- MODULE Outcomes --------------------------------
(***************************************************************************)
(* Trade outcomes: the flat that the position stream or a reconciliation   *)
(* sees, the publication that searches the trades of the venue for the     *)
(* fills of each closed tranche, the store of one outcome per intent and   *)
(* its revisions, the lifecycle facts that are published before, and the   *)
(* retry of incomplete outcomes on every flat reconciliation.              *)
(*                                                                         *)
(* An intent is an entry of one contract, numbered by its registration.    *)
(* Its fills are the entry's and, when it has closed, the fill of its stop *)
(* or of an order the tranche does not name (a flatten, an EXIT).  Clocks  *)
(* are ticks: a registration or a fill takes one, and the venue may show a *)
(* closing fill to the search later than the position goes flat.           *)
(***************************************************************************)
EXTENDS Integers, FiniteSets, FiniteSetsExt

CONSTANTS
    MaxIntents,        \* bound on the entries
    Proven,            \* the intents whose protection the receipt proves
    SearchTail,        \* searchTailMs: ticks a search goes past the flat
    MaxOutcomeFaults,  \* bound on failed searches, commits and fact writes
    MaxCrashes         \* bound on the ends of a process

ASSUME ProvenAssumption == Proven \subseteq 1 .. MaxIntents
ASSUME OutcomeBounds == {MaxIntents, SearchTail, MaxOutcomeFaults, MaxCrashes} \subseteq Nat

Intents == 1 .. MaxIntents
Kinds   == {"entry", "stop", "other"}
Orders  == Kinds \X Intents
Entry(i) == <<"entry", i>>
Stop(i)  == <<"stop", i>>
Other(i) == <<"other", i>>
Ticks   == 0 .. 3 * MaxIntents
Fills   == [order : Orders, at : Ticks]
Reasons == {"stop_loss", "manual_exit", "reconciliation", "unknown"}
None    == [orders |-> {}, exit |-> 0, reason |-> "none", proven |-> FALSE]
Outcome == [orders : SUBSET Orders, exit : Ticks, reason : Reasons, proven : BOOLEAN]
Phases  == {"none", "open", "open_at_flat", "flat"}

VARIABLES
    now, created, held, trades, late,  \* the venue, and when an intent was registered
    named,                             \* intents a submitted EXIT names
    outcome,                           \* the outcome store: SQLite, and the same in memory
    fact, live,                        \* the fill fact of an intent, and whether a row of it is not superseded
    seen,                              \* open contracts in the venue state
    cached,                            \* cachedOpenTranches
    last,                              \* lastReconciledOpenContracts
    inFlight,                          \* tradeOutcomePublishInFlight
    pub,                               \* the publication
    rec,                               \* the reconciliation
    faults, crashes

venue  == <<now, created, held, trades, late, named>>
stores == <<outcome, fact, live>>
remembered == <<seen, cached, last>>
outcomesVars   == <<venue, stores, remembered, inFlight, pub, rec, faults, crashes>>

Idle == [pc |-> "idle", batch |-> {}, todo |-> {}, views |-> {}, exit |-> 0,
         trigger |-> "stream", claimed |-> {}, stored |-> {}]
Rest == [pc |-> "idle", due |-> FALSE, after |-> 0, tranches |-> {}, views |-> {}]
OutcomeFault == faults < MaxOutcomeFaults /\ faults' = faults + 1

Filled == {i \in Intents : \E t \in trades : t.order = Entry(i)}
receipt == Proven \cap Filled
Closing(orders) == {o \in orders : o[1] # "entry"}

OutcomesInit ==
    /\ now = 0 /\ created = [i \in Intents |-> 0] /\ held = {} /\ trades = {} /\ late = {}
    /\ named = {}
    /\ outcome = [i \in Intents |-> None]
    /\ fact = [i \in Intents |-> "none"] /\ live = {}
    /\ seen = 0 /\ cached = {} /\ last = 0 /\ inFlight = FALSE
    /\ pub = Idle /\ rec = Rest /\ faults = 0 /\ crashes = 0

-----------------------------------------------------------------------------
(* The venue and the coordinator, as far as this module needs them.        *)

Register(i) ==
    /\ created[i] = 0 /\ \A j \in 1 .. i - 1 : created[j] # 0
    /\ now' = now + 1 /\ created' = [created EXCEPT ![i] = now + 1]
    /\ UNCHANGED <<held, trades, late, named, stores, remembered, inFlight, pub, rec,
                   faults, crashes>>

Fill(i) ==
    /\ created[i] # 0 /\ i \notin Filled
    /\ now' = now + 1 /\ held' = held \cup {i}
    /\ trades' = trades \cup {[order |-> Entry(i), at |-> now + 1]}
    /\ UNCHANGED <<created, late, named, stores, remembered, inFlight, pub, rec,
                   faults, crashes>>

(* A tranche closes by its stop, by an EXIT that names it, or by a flatten; *)
(* the venue shows the fill to a search at some later moment.              *)
Close(i) ==
    /\ i \in held /\ held' = held \ {i} /\ now' = now + 1
    /\ \E o \in {Stop(i), Other(i)} :
          /\ late' = late \cup {[order |-> o, at |-> now + 1]}
          /\ named' \in IF o = Other(i) THEN {named, named \cup {i}} ELSE {named}
    /\ UNCHANGED <<created, trades, stores, remembered, inFlight, pub, rec, faults, crashes>>

Shown ==
    /\ \E fill \in late : trades' = trades \cup {fill} /\ late' = late \ {fill}
    /\ UNCHANGED <<now, created, held, named, stores, remembered, inFlight, pub, rec,
                   faults, crashes>>

-----------------------------------------------------------------------------
(* buildTranches: the contracts the venue reports go to the entries with a  *)
(* working stop, then to the newest an EXIT has not named.                  *)
Rank(i) == i + (IF i \in named THEN 0 ELSE MaxIntents)
             + (IF i \in held \cap receipt THEN 3 * MaxIntents ELSE 0)
RemainingAny(open) ==
    {i \in Intents : Cardinality({j \in Intents : Rank(j) > Rank(i)}) < open}
Remaining(open) ==
    {i \in Filled : Cardinality({j \in Filled : Rank(j) > Rank(i)}) < open}

(* tranchesForClosedPosition: the active tranches, or every filled one.     *)
ClosedPosition(open) == IF Remaining(open) # {} THEN Remaining(open) ELSE Filled
Resolved(open) == ClosedPosition(open) \cup cached

(* Which of those views say that the tranche still holds its contract: the  *)
(* cached one is preferred when its protection is the richer.               *)
Views(open) ==
    Remaining(open) \cup {i \in cached : i \in receipt \/ i \notin ClosedPosition(open)}

(* recordLifecycleFillFacts and recordExecutionFact: content that did not   *)
(* change is not recorded again.                                            *)
Phase(i, views, flat) ==
    IF i \notin views THEN "flat" ELSE IF flat THEN "open_at_flat" ELSE "open"
RecordFacts(tranches, views, flat) ==
    LET changed == {i \in tranches : fact[i] # Phase(i, views, flat)}
    IN /\ fact' = [i \in Intents |-> IF i \in changed THEN Phase(i, views, flat) ELSE fact[i]]
       /\ live' = live \cup changed

(* refreshCachedOpenTranches.                                               *)
RefreshCached(open) ==
    /\ cached' = cached \cup Remaining(open)
    /\ RecordFacts(Remaining(open), Remaining(open), FALSE)

-----------------------------------------------------------------------------
(* TradeOutcomePublisher.                                                   *)

(* attributedOrderIds: what the receipt of a proven entry latches.          *)
Known(i) == {Entry(i)} \cup (IF i \in receipt THEN {Stop(i)} ELSE {})
OrdersOf(fills) == {t.order : t \in fills}
HasClosing(fills) == Closing(OrdersOf(fills)) # {}
Distance(t, exit) == IF t.at > exit THEN t.at - exit ELSE exit - t.at

(* outcomeSharesForeignClosingFill.                                         *)
SharesWith(o, i) ==
    \E j \in Intents \ {i} : Closing(o.orders) \cap Closing(outcome[j].orders) # {}
Shares(i) == SharesWith(outcome[i], i)

(* isIncompleteOutcome; one contract has no third closing order, so nothing *)
(* looks contaminated.                                                      *)
Eligible(o) == o.proven /\ Cardinality(o.orders) >= 2
Incomplete(o) ==
    \/ o.reason = "unknown"
    \/ Closing(o.orders) = {}
    \/ ~o.proven

(* isRicherOutcome.                                                         *)
Richer(new, old) ==
    \/ old.reason = "unknown" /\ new.reason # "unknown"
    \/ Eligible(new) /\ ~Eligible(old)
    \/ new.proven /\ ~old.proven
    \/ Cardinality(new.orders) >= 2 /\ Cardinality(old.orders) < 2

(* The clock of a retry: what the outcome says of its exit, when earlier.   *)
FlatClock(i) ==
    IF outcome[i] # None /\ outcome[i].exit < pub.exit THEN outcome[i].exit ELSE pub.exit

(* Faulty: a search that forgets what this publication has claimed.          *)
UnclaimedAny(i) ==
    {t \in trades : t.at >= created[i] /\ t.at <= FlatClock(i) + SearchTail}

(* The fills of the window nobody has claimed.                               *)
Unclaimed(i) ==
    {t \in trades : /\ t.at >= created[i] /\ t.at <= FlatClock(i) + SearchTail
                    /\ t.order \notin pub.claimed}

(* searchAttributedTrades: the tranche's own fills and, when none of them   *)
(* closes it, the closing fill of nobody nearest to the flat.               *)
Attributed(i) ==
    LET scoped  == Unclaimed(i)
        owned   == {t \in scoped : t.order \in Known(i)}
        orphans == {t \in scoped : t.order \notin Known(i) /\ t.order[1] # "entry"}
        Nearer(t, u) == LET d == Distance(t, FlatClock(i))
                            e == Distance(u, FlatClock(i))
                        IN d < e \/ (d = e /\ t.at <= u.at)
    IN IF HasClosing(owned) THEN owned
       ELSE owned \cup {t \in orphans : \A u \in orphans : Nearer(t, u)}

(* buildOutcome, from the fills of the last search.                         *)
ExitTick(fills) ==
    LET closing == {t \in fills : t.order[1] # "entry"}
    IN IF closing # {} THEN Max({t.at : t \in closing})
       ELSE IF fills # {} THEN Max({t.at : t \in fills}) ELSE pub.exit
ExitReason(i, fills) ==
    IF Stop(i) \in OrdersOf(fills) /\ i \in receipt THEN "stop_loss"
    ELSE IF i \in named THEN "manual_exit"
    ELSE IF pub.trigger = "reconcile" /\ ~HasClosing(fills) THEN "reconciliation"
    ELSE "unknown"
Built(i) ==
    LET fills == Attributed(i)
    IN [orders |-> OrdersOf(fills), exit |-> ExitTick(fills),
        reason |-> ExitReason(i, fills), proven |-> i \in receipt \/ outcome[i].proven]

(* The condition under which an outcome that exists is replaced.            *)
Replaces(i, new) ==
    \/ Richer(new, outcome[i])
    \/ Eligible(new) # Eligible(outcome[i])
    \/ Shares(i) /\ ~SharesWith(new, i)

(* Faulty: a publication starts without the claims of the store.            *)
NobodyClaims(rebuilding) == {}

(* Faulty: what is being rebuilt keeps its claims.                           *)
ClaimedByAll(rebuilding) == UNION {outcome[j].orders : j \in Intents}

(* claimedOrderIdsFromStore: what belongs to an outcome that is not being   *)
(* rebuilt.                                                                 *)
ClaimedByOthers(rebuilding) ==
    UNION {outcome[j].orders : j \in Intents \ rebuilding}

(* publishTradeOutcomesOnFlat: one at a time, and what comes meanwhile is   *)
(* dropped.                                                                 *)
Starts(tranches) == tranches # {} /\ ~inFlight
Publish(tranches, views, trigger) ==
    IF ~Starts(tranches) THEN UNCHANGED <<inFlight, pub>>
    ELSE /\ inFlight' = TRUE
         /\ pub' = [Idle EXCEPT !.pc = "facts", !.batch = tranches, !.todo = tranches,
                                !.views = views, !.exit = now, !.trigger = trigger]

(* A publication that a reconciliation waits for ends, well or not.         *)
Returned ==
    CASE rec.pc = "publishing" -> [rec EXCEPT !.pc = "after"]
      [] rec.pc = "retrying" -> Rest
      [] OTHER -> rec
Threw == IF pub.trigger = "reconcile" THEN Rest ELSE rec

(* recordLifecycleFillFacts, before the try block.                          *)
PubFacts ==
    /\ pub.pc = "facts"
    /\ RecordFacts(pub.todo, pub.views, TRUE)
    /\ pub' = [pub EXCEPT !.pc = "search", !.views = {}, !.claimed = ClaimedByOthers(pub.todo)]
    /\ UNCHANGED <<venue, outcome, remembered, inFlight, rec, faults, crashes>>

(* It fails: the flag stays up and the publication is never resolved.       *)
PubFactsFail ==
    /\ pub.pc = "facts" /\ OutcomeFault
    /\ pub' = Idle /\ rec' = Threw
    /\ UNCHANGED <<venue, stores, remembered, inFlight, crashes>>

(* publishClosedTranches passes over a complete outcome.                    *)
Passed(i) == outcome[i] # None /\ ~Incomplete(outcome[i]) /\ ~Shares(i)
ToBuild == {i \in pub.todo : ~Passed(i)}

(* The search that counts, the build, and the commit of a new or a better   *)
(* outcome.  The first search settles for a second one when it finds no     *)
(* closing fill: the step happens at the moment of the last of them.        *)
PubStore ==
    /\ pub.pc = "search" /\ ToBuild # {}
    /\ LET i == Min(ToBuild)
           new == Built(i)
           write == outcome[i] = None \/ Replaces(i, new)
       IN /\ outcome' = IF write THEN [outcome EXCEPT ![i] = new] ELSE outcome
          /\ pub' = [pub EXCEPT !.todo = @ \ 1 .. i,
                                !.claimed = @ \cup new.orders,
                                !.stored = IF write THEN @ \cup {i} ELSE @]
    /\ UNCHANGED <<venue, fact, live, remembered, inFlight, rec, faults, crashes>>

(* A search or a commit that fails ends the publication.                    *)
PubFail ==
    /\ pub.pc = "search" /\ ToBuild # {} /\ OutcomeFault
    /\ pub' = Idle /\ inFlight' = FALSE /\ rec' = Threw
    /\ UNCHANGED <<venue, stores, remembered, crashes>>

(* What was published supersedes the facts, and the memory of the trade is      *)
(* cleared.                                                                 *)
PubEnd ==
    /\ pub.pc = "search" /\ ToBuild = {}
    /\ pub' = Idle /\ inFlight' = FALSE /\ rec' = Returned
    /\ IF pub.stored # {}
       THEN live' = live \ pub.stored /\ cached' = {} /\ last' = 0
       ELSE UNCHANGED <<live, cached, last>>
    /\ UNCHANGED <<venue, outcome, fact, seen, faults, crashes>>

-----------------------------------------------------------------------------
(* The service.                                                             *)

(* handleStreamPositionBeforeApply and the application of the event.        *)
StreamPosition ==
    LET open == Cardinality(held)
    IN /\ seen # open /\ seen' = open
       /\ IF seen # 0 /\ open > 0
          THEN RefreshCached(open) ELSE UNCHANGED <<cached, fact, live>>
       /\ IF seen # 0 /\ open = 0
          THEN Publish(Resolved(seen), Views(seen), "stream") ELSE UNCHANGED <<inFlight, pub>>
       /\ UNCHANGED <<venue, outcome, last, rec, faults, crashes>>

(* runReconciliationCycle: whether a flat is due, that is, contracts were    *)
(* open before or at the last cycle, and the tranches it would close.        *)
RecBegin ==
    /\ rec.pc = "idle"
    /\ rec' = IF seen > 0 \/ last > 0
              THEN [Rest EXCEPT !.pc = "fetching", !.due = TRUE,
                                !.tranches = Resolved(seen), !.views = Views(seen)]
              ELSE [Rest EXCEPT !.pc = "fetching"]
    /\ UNCHANGED <<venue, stores, remembered, inFlight, pub, faults, crashes>>

(* The positions of the venue, and the flat they prove.                     *)
FlatSeen(open) == open = 0 /\ rec.due
RecApply ==
    LET open == Cardinality(held)
    IN /\ rec.pc = "fetching" /\ seen' = open
       /\ IF FlatSeen(open) /\ Starts(rec.tranches)
          THEN /\ Publish(rec.tranches, rec.views, "reconcile")
               /\ rec' = [Rest EXCEPT !.pc = "publishing", !.after = open]
          ELSE rec' = [Rest EXCEPT !.pc = "after", !.after = open] /\ UNCHANGED <<inFlight, pub>>
       /\ UNCHANGED <<venue, stores, cached, last, faults, crashes>>

(* retryIncompleteTradeOutcomes.                                            *)
ToRetry == {i \in Filled : outcome[i] # None /\ (Incomplete(outcome[i]) \/ Shares(i))}

RecAfter ==
    /\ rec.pc = "after" /\ last' = rec.after
    /\ IF rec.after > 0
       THEN RefreshCached(rec.after) /\ rec' = Rest /\ UNCHANGED <<inFlight, pub>>
       ELSE /\ cached' = {} /\ UNCHANGED <<fact, live>>
            /\ Publish(ToRetry, {}, "reconcile")
            /\ rec' = IF Starts(ToRetry) THEN [Rest EXCEPT !.pc = "retrying"] ELSE Rest
    /\ UNCHANGED <<venue, outcome, seen, faults, crashes>>

(* A process that ends and the next one: the stores and the venue remain.   *)
RestartsEmpty ==
    /\ crashes < MaxCrashes /\ crashes' = crashes + 1
    /\ seen' = 0 /\ cached' = {} /\ last' = 0 /\ inFlight' = FALSE
    /\ pub' = Idle /\ rec' = Rest
    /\ UNCHANGED <<venue, stores, faults>>

PubStep == PubFacts \/ PubStore \/ PubEnd
RecStep == RecBegin \/ RecApply \/ RecAfter
OutcomesNext ==
    \/ \E i \in Intents : Register(i) \/ Fill(i) \/ Close(i)
    \/ Shown \/ StreamPosition \/ PubStep \/ PubFactsFail \/ PubFail \/ RecStep \/ RestartsEmpty

OutcomesSpec == OutcomesInit /\ [][OutcomesNext]_outcomesVars

-----------------------------------------------------------------------------
OutcomesTypeOK ==
    /\ now \in Ticks /\ created \in [Intents -> Ticks]
    /\ held \subseteq Intents /\ trades \subseteq Fills /\ late \subseteq Fills
    /\ named \subseteq Intents
    /\ outcome \in [Intents -> Outcome \cup {None}]
    /\ fact \in [Intents -> Phases] /\ live \subseteq Intents
    /\ seen \in 0 .. MaxIntents /\ last \in 0 .. MaxIntents /\ cached \subseteq Filled
    /\ inFlight \in BOOLEAN
    /\ pub.pc \in {"idle", "facts", "search"}
    /\ pub.todo \subseteq pub.batch /\ pub.batch \subseteq Filled
    /\ rec.pc \in {"idle", "fetching", "publishing", "after", "retrying"}
    /\ faults \in 0 .. MaxOutcomeFaults /\ crashes \in 0 .. MaxCrashes

(* Two outcomes of one publication never claim one closing fill, whichever   *)
(* of them is an order nobody names.                                         *)
OneClaimPerPublication ==
    \A i, j \in pub.stored :
        i # j => Closing(outcome[i].orders) \cap Closing(outcome[j].orders) = {}

OutcomesInv == OutcomesTypeOK /\ OneClaimPerPublication

(* A revision takes no closing fill of an outcome outside its publication,   *)
(* whichever flats and retries came between (claimedOrderIds).               *)
OthersKeepFills ==
    [][\A i \in Intents, j \in Intents \ pub.batch :
          outcome'[i] # outcome[i] /\ j # i
             => Closing(outcome'[i].orders) \cap Closing(outcome[j].orders) = {}]_outcomesVars

(* And an outcome that alone has a closing fill loses it to nothing but a    *)
(* tranche the same publication built before it: never to the window of a    *)
(* later search, a retry of its own, or what the store says is claimed.      *)
LostOnlyInBatch ==
    [][\A i \in Intents :
          Closing(outcome[i].orders) # {} /\ ~Shares(i) /\ Closing(outcome'[i].orders) = {}
             => /\ Closing(outcome[i].orders) \subseteq pub.claimed
                /\ \E j \in pub.batch \ pub.todo : j # i]_outcomesVars

(* Both: what a revision may take, and what it may lose.                     *)
RevisionsKeepFills == OthersKeepFills /\ LostOnlyInBatch
================================================================================
