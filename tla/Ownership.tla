----------------------------- MODULE Ownership -----------------------------
(***************************************************************************)
(* The projection of order ownership: which entry still holds the          *)
(* contracts the venue reports, and whether it is protected, computed only *)
(* from the durable execution rows and the recorded provider evidence.     *)
(*                                                                         *)
(* The venue below is external: entries with their brackets, fills,        *)
(* bracket fills, exits of a whole entry or a part of it, named or not,    *)
(* with or without the cancellation of every bracket, and rearms.  Each of *)
(* its changes is an event on the user stream, which can be late or lost;  *)
(* an open-order snapshot is read at one moment and recorded at another.   *)
(***************************************************************************)
EXTENDS Integers, Sequences, FiniteSets, SequencesExt, FiniteSetsExt

CONSTANTS Entries,        \* entry intents of the instrument
          Quantity,       \* their contracts
          Tagged,         \* entries whose first bracket carries their tag
          OpenedBefore,   \* entries that are open and recorded at the start
          MaxGeneration,  \* bound: rearms of one entry
          MaxChanges,     \* bound: changes at the venue
          MaxReads,       \* bound: snapshots and backfills
          MaxWire,        \* bound: events under way
          MaxLost         \* bound: losses of the stream

ASSUME OwnershipAssumption ==
    /\ IsFiniteSet(Entries) /\ Quantity \in [Entries -> Nat \ {0}] /\ Tagged \subseteq Entries /\ OpenedBefore \subseteq Entries
    /\ MaxGeneration \in Nat /\ MaxChanges \in Nat /\ MaxReads \in Nat /\ MaxWire \in Nat /\ MaxLost \in Nat

Legs == {"stop", "target"}
OrderIds == Entries \X {"entry", "stop", "target"} \X (0 .. MaxGeneration)
EntryOrder(e) == <<e, "entry", 0>>
NoOrderRead == [kind |-> "none"]

VARIABLES orders,         \* venue: the issued orders by id: [state, at]
          heldContracts,  \* venue: contracts of each entry that are open
          bought,         \* venue: contracts of each entry that filled
          voided,         \* venue: entries whose fills it voided
          stopped,        \* venue: entries closed by what does not name them
          moment,         \* venue: time of the last change
          wire,           \* events of the stream, not recorded yet
          reading,        \* the snapshot read and not recorded, or NoOrderRead
          evidence,       \* provider_events, in order of sequence
          registered,     \* submitted entries, in order of registration
          exits,          \* entries a submitted EXIT named
          ownReads, lost

venueVars == <<orders, heldContracts, bought, voided, stopped, moment>>
ownershipVars == <<orders, heldContracts, bought, voided, stopped, moment, wire, reading,
                   evidence, registered, exits, ownReads, lost>>

Bracket(e, entry, leg) ==
    [id \in {EntryOrder(e), <<e, "stop", 0>>, <<e, "target", 0>>} |-> IF id[2] = "entry" THEN entry ELSE leg]

OwnershipInit ==
    /\ orders = [id \in UNION {DOMAIN Bracket(e, 0, 0) : e \in OpenedBefore} |->
                    [state |-> IF id[2] = "entry" THEN "gone" ELSE "working", at |-> 0]]
    /\ heldContracts = [e \in Entries |-> IF e \in OpenedBefore THEN Quantity[e] ELSE 0] /\ bought = heldContracts
    /\ voided = {} /\ stopped = {} /\ moment = 0
    /\ wire = <<>> /\ reading = NoOrderRead
    /\ evidence = <<[kind |-> "history",
                     orders |-> {[id |-> id, state |-> orders[id].state, at |-> 0] : id \in DOMAIN orders},
                     trades |-> {[entry |-> e, size |-> Quantity[e], voided |-> FALSE] : e \in OpenedBefore}]>>
    /\ registered = SetToSeq(OpenedBefore) /\ exits = {} /\ ownReads = 0 /\ lost = 0

----------------------------------------------------------------------------
(* The venue.                                                              *)

Order(id) == [id |-> id, state |-> orders[id].state, at |-> orders[id].at]
Trade(e) == [entry |-> e, size |-> bought[e], voided |-> e \in voided]

\* isWorkingOrder: every status that is not terminal, the suspended one too.
IsWorking(order) == order.state \in {"suspended", "working"}

VenueLegs(e) == {id \in DOMAIN orders : id[1] = e /\ id[2] \in Legs /\ IsWorking(Order(id))}

\* One change at the venue: orders take new states, and the stream tells.
Change(states) ==
    /\ moment < MaxChanges /\ Len(wire) < MaxWire /\ moment' = moment + 1
    /\ orders' = [id \in DOMAIN orders \cup DOMAIN states |->
                    IF id \in DOMAIN states THEN [state |-> states[id], at |-> moment + 1] ELSE orders[id]]
    /\ wire' = Append(wire, [kind |-> "stream",
                             orders |-> {[id |-> id, state |-> states[id], at |-> moment + 1] :
                                           id \in DOMAIN states},
                             trades |-> {[entry |-> e, size |-> bought'[e], voided |-> e \in voided'] :
                                           e \in {x \in Entries : bought'[x] # bought[x] \/ x \in voided' \ voided}}])
    /\ UNCHANGED <<reading, evidence, ownReads, lost>>

Gone(ids) == [id \in ids |-> "gone"]

\* Contracts, numbered entry by entry.
ContractsOf(counts) == UNION {{e} \X (1 .. counts[e]) : e \in DOMAIN counts}
OpenContracts == Cardinality(ContractsOf(heldContracts))

\* The entry is accepted: its brackets are allocated, without a price.
Accepts(e) ==
    /\ EntryOrder(e) \notin DOMAIN orders
    /\ UNCHANGED <<heldContracts, bought, voided, stopped, exits>>
    /\ registered' = Append(registered, e)
    /\ Change(Bracket(e, "working", "suspended"))

\* It fills, wholly or in part, and the brackets get their prices.
Buys(e) ==
    /\ EntryOrder(e) \in DOMAIN orders /\ orders[EntryOrder(e)].state = "working"
    /\ \E n \in 1 .. Quantity[e] - bought[e] :
          /\ bought' = [bought EXCEPT ![e] = @ + n] /\ heldContracts' = [heldContracts EXCEPT ![e] = @ + n]
          /\ UNCHANGED <<voided, stopped, registered, exits>>
          /\ Change([id \in {EntryOrder(e)} \cup VenueLegs(e) |->
                       IF id[2] # "entry" \/ bought[e] + n < Quantity[e] THEN "working" ELSE "gone"])

\* A leg fills: the entry's contracts are closed and its sibling is cancelled.
\* (Of a leg larger than what its entry still holds, only that much is followed.)
LegFills(e) ==
    /\ bought[e] = Quantity[e] /\ heldContracts[e] > 0 /\ VenueLegs(e) # {}
    /\ heldContracts' = [heldContracts EXCEPT ![e] = 0] /\ stopped' = stopped \cup {e}
    /\ UNCHANGED <<bought, voided, registered, exits>>
    /\ Change(Gone(VenueLegs(e)))

\* The brackets are cancelled, by the operator, the sweep or the venue.
Cancels(e) ==
    /\ bought[e] > 0 /\ VenueLegs(e) # {}
    /\ UNCHANGED <<heldContracts, bought, voided, stopped, registered, exits>>
    /\ Change(Gone(VenueLegs(e)))

\* The venue voids the fill.
Voids(e) ==
    /\ bought[e] = Quantity[e] /\ heldContracts[e] = bought[e]
    /\ voided' = voided \cup {e} /\ heldContracts' = [heldContracts EXCEPT ![e] = 0]
    /\ UNCHANGED <<bought, stopped, registered, exits>>
    /\ Change(Gone(VenueLegs(e)))

----------------------------------------------------------------------------
(* The rearm of the coordinator, as far as it makes orders.                *)

\* nextUnusedProtectionGeneration over the recent orders, cancelled ones
\* included; generation 0 belongs to the bracket of the entry.
NextGeneration(e) ==
    LET used == {id[3] : id \in {x \in DOMAIN orders : x[1] = e /\ x[2] \in Legs
                                                     /\ (x[3] > 0 \/ e \in Tagged)}}
    IN Max({1} \cup {g + 1 : g \in used})

Rearms(e) ==
    /\ heldContracts[e] > 0 /\ bought[e] = Quantity[e] /\ VenueLegs(e) = {}
    /\ NextGeneration(e) <= MaxGeneration
    /\ UNCHANGED <<heldContracts, bought, voided, stopped, registered, exits>>
    /\ Change([id \in {<<e, leg, NextGeneration(e)>> : leg \in Legs} |-> "working"])

----------------------------------------------------------------------------
(* The evidence.                                                           *)

RecordsEvent ==
    /\ wire # <<>>
    /\ evidence' = Append(evidence, Head(wire)) /\ wire' = Tail(wire)
    /\ UNCHANGED <<venueVars, reading, registered, exits, ownReads, lost>>

\* The stream is down: what was on its way is lost.
LosesStream ==
    /\ lost < MaxLost /\ wire # <<>>
    /\ wire' = <<>> /\ lost' = lost + 1
    /\ UNCHANGED <<venueVars, reading, evidence, registered, exits, ownReads>>

OpenOrdersAtVenue == {order \in {Order(id) : id \in DOMAIN orders} : IsWorking(order)}

ReadsSnapshot ==
    /\ reading = NoOrderRead /\ ownReads < MaxReads
    /\ reading' = [kind |-> "snapshot", orders |-> OpenOrdersAtVenue, trades |-> {}, taken |-> moment]
    /\ ownReads' = ownReads + 1
    /\ UNCHANGED <<venueVars, wire, evidence, registered, exits, lost>>

RecordsSnapshot ==
    /\ reading # NoOrderRead
    /\ evidence' = Append(evidence, reading) /\ reading' = NoOrderRead
    /\ UNCHANGED <<venueVars, wire, registered, exits, ownReads, lost>>

\* The provider log stores the historical orders and trades.
Backfills ==
    /\ ownReads < MaxReads /\ ownReads' = ownReads + 1
    /\ evidence' = Append(evidence, [kind |-> "history", orders |-> {Order(id) : id \in DOMAIN orders},
                                     trades |-> {Trade(e) : e \in {x \in Entries : bought[x] > 0}}])
    /\ UNCHANGED <<venueVars, wire, reading, registered, exits, lost>>

----------------------------------------------------------------------------
(* The projection.                                                         *)

Rows(kinds) == {i \in DOMAIN evidence : evidence[i].kind \in kinds}

\* latestOrderById: the record with the latest update of each order.
LatestById(seen) == {order \in seen : \A other \in seen : other.id = order.id => other.at <= order.at}

(* Faulty: every snapshot still counts.                                      *)
EverySnapshot == UNION {evidence[i].orders : i \in Rows({"snapshot"})}

\* Only the newest snapshot says which orders are open.
NewestSnapshot == IF Rows({"snapshot"}) = {} THEN {} ELSE evidence[Max(Rows({"snapshot"}))].orders

\* The stream's events count from the newest snapshot on.
EventsSince ==
    UNION {evidence[i].orders : i \in {j \in Rows({"stream"}) : \A s \in Rows({"snapshot"}) : s < j}}

OpenOrders == {order \in LatestById(NewestSnapshot \cup EventsSince) : IsWorking(order)}

\* The last record of an entry's trades counts, unless it is voided.
TradesSeen(e) == {i \in Rows({"stream", "history"}) : \E trade \in evidence[i].trades : trade.entry = e}
FilledQuantity(e) ==
    IF TradesSeen(e) = {} THEN 0
    ELSE LET last == CHOOSE trade \in evidence[Max(TradesSeen(e))].trades : trade.entry = e IN
         IF last.voided THEN 0 ELSE last.size

\* resolveIntentProtectiveLeg: the newest tagged generation, or else the one
\* untagged child of the entry order.
Leg(open, e, kind) ==
    LET own == {order \in open : order.id[1] = e /\ order.id[2] = kind}
        withTag == {order \in own : order.id[3] > 0 \/ e \in Tagged}
        newest == {order \in withTag : \A other \in withTag : other.id[3] <= order.id[3]}
    IN IF withTag # {} THEN newest ELSE IF Cardinality(own) = 1 THEN own ELSE {}

\* bindProtection: both legs are there, of their type and with a price.
ProtectionOf(open, e) ==
    IF OpenContracts = 0 THEN "unknown"
    ELSE IF \A kind \in Legs : \E order \in Leg(open, e, kind) : order.state = "working" THEN "proven"
    ELSE "pending"

\* Some record names the entry's order, a snapshot or the history too.
OrderObserved(e) == \E i \in DOMAIN evidence : \E order \in evidence[i].orders : order.id = EntryOrder(e)

HasLiveLeg(open, e) == \E kind \in Legs : Leg(open, e, kind) # {}

(* Faulty: the entries nobody protects are ranked by age alone.              *)
RankByAge(open, e) == IF HasLiveLeg(open, e) THEN 1 ELSE 2

\* queryExitTargetedIntentIds: a submitted EXIT that was not refused named it.
ExitTargeted(e) == e \in exits

\* Live legs first, then what no EXIT named, then what one did.
OrderRank(open, e) == IF HasLiveLeg(open, e) THEN 1 ELSE IF ~ExitTargeted(e) THEN 2 ELSE 3

\* Oldest first among the protected, newest first among the others.
ClaimsBefore(open, d, e) ==
    LET age(x) == CHOOSE i \in DOMAIN registered : registered[i] = x IN
    \/ OrderRank(open, d) < OrderRank(open, e)
    \/ OrderRank(open, d) = OrderRank(open, e) /\ IF OrderRank(open, e) = 1 THEN age(d) < age(e) ELSE age(d) > age(e)

FilledEntries == {e \in ToSet(registered) : FilledQuantity(e) > 0}

\* buildTranches: the open contracts of the venue, by order of the claims.
RemainingContracts(open, e) ==
    LET before == {d \in FilledEntries : ClaimsBefore(open, d, e)}
        taken  == Cardinality(ContractsOf([d \in before |-> FilledQuantity(d)]))
    IN Max({0, Min({FilledQuantity(e), OpenContracts - taken})})

\* aggregateProtectionStatus of the tranches that still hold contracts.
ProtectionStatus ==
    LET open == OpenOrders
        live == {e \in FilledEntries : RemainingContracts(open, e) > 0} IN
    IF OpenContracts = 0 THEN "unknown"
    ELSE IF live # {} /\ \A e \in live : ProtectionOf(open, e) = "proven" THEN "proven"
    ELSE "pending"

----------------------------------------------------------------------------
(* The EXITs of the coordinator, as far as they make orders and fill.      *)

LegsOfAll == UNION {VenueLegs(x) : x \in {y \in Entries : bought[y] > 0}}

\* An EXIT that names the entry sells all it holds or less: its brackets are
\* cancelled before, or (Auto OCO) all go; closePosition may leave them.
Exits(e) == \E n \in 1 .. heldContracts[e] :
    /\ bought[e] = Quantity[e]
    /\ heldContracts' = [heldContracts EXCEPT ![e] = @ - n] /\ exits' = exits \cup {e}
    /\ UNCHANGED <<bought, voided, stopped, registered>>
    /\ \E gone \in {VenueLegs(e), LegsOfAll} \cup (IF n = OpenContracts THEN {{}} ELSE {}) :
          Change(Gone(gone))

\* One that names nobody closes the position.
ClosesPosition ==
    /\ OpenContracts > 0 /\ \A e \in Entries : bought[e] \in {0, Quantity[e]}
    /\ heldContracts' = [e \in Entries |-> 0]
    /\ stopped' = stopped \cup {e \in Entries : heldContracts[e] > 0}
    /\ UNCHANGED <<bought, voided, registered, exits>>
    /\ \E gone \in {{}, LegsOfAll} : Change(Gone(gone))

\* Or a part of it, as long as the projection attributes it to one entry.
Reduces(e) == \E n \in 1 .. heldContracts[e] :
    /\ n < OpenContracts /\ bought[e] = Quantity[e]
    /\ Cardinality({x \in FilledEntries : RemainingContracts(OpenOrders, x) > 0}) <= 1
    /\ heldContracts' = [heldContracts EXCEPT ![e] = @ - n]
    /\ stopped' = IF n = heldContracts[e] THEN stopped \cup {e} ELSE stopped
    /\ UNCHANGED <<bought, voided, registered, exits>>
    /\ \E gone \in {{}, LegsOfAll} : Change(Gone(gone))

----------------------------------------------------------------------------
OwnershipNext ==
    \/ \E e \in Entries :
          \/ Accepts(e) \/ Buys(e) \/ LegFills(e) \/ Cancels(e) \/ Voids(e)
          \/ Rearms(e) \/ Exits(e) \/ Reduces(e)
    \/ ClosesPosition
    \/ RecordsEvent \/ LosesStream \/ ReadsSnapshot \/ RecordsSnapshot \/ Backfills

OwnershipSpec == OwnershipInit /\ [][OwnershipNext]_ownershipVars

-----------------------------------------------------------------------------
OwnershipTypeOK ==
    /\ heldContracts \in [Entries -> Nat] /\ bought \in [Entries -> Nat]
    /\ voided \subseteq Entries /\ stopped \subseteq Entries /\ exits \subseteq Entries
    /\ DOMAIN orders \subseteq OrderIds /\ Len(wire) <= MaxWire
    /\ ownReads \in 0 .. MaxReads /\ lost \in 0 .. MaxLost

\* The records behind the newest snapshot end with the venue's state of every
\* order they name, they name every order that changed since it was taken, and
\* the trades of every entry are recorded.
Covered ==
    LET n == Max(Rows({"snapshot"}))
        behind == LatestById(EventsSince)
    IN /\ wire = <<>> /\ Rows({"snapshot"}) # {}
       /\ \A order \in behind : order = Order(order.id)
       /\ \A id \in DOMAIN orders : orders[id].at > evidence[n].taken => Order(id) \in behind
       /\ \A e \in Entries : bought[e] > 0 =>
             TradesSeen(e) # {} /\ Trade(e) \in evidence[Max(TradesSeen(e))].trades

\* Fills are never reduced: with a leg at work an entry claims all it bought,
\* sold or not, before another that is held.
Overclaimed == \E e, d \in Entries :
    e # d /\ VenueLegs(e) # {} /\ heldContracts[e] < bought[e] /\ heldContracts[d] > 0

(* Protection is called proven only while both legs of every open entry work *)
(* at the venue: tags, trades and snapshots arrived in any order, and a rearm*)
(* replaced some of the legs (projectx-order-ownership.ts, tranches.ts).     *)
(* Except while an entry sold in part claims what is another's.              *)
ProvenIsProtected ==
    Covered /\ ~Overclaimed /\ ProtectionStatus = "proven" =>
       \A e \in Entries : heldContracts[e] > 0 =>
          \A leg \in Legs : \E id \in DOMAIN orders :
             id[1] = e /\ id[2] = leg /\ orders[id].state = "working"

Unbracketed == {e \in Entries : heldContracts[e] > 0 /\ VenueLegs(e) = {}}

\* An entry without legs claims what it holds if each that was closed is one
\* an EXIT named and, sold in part itself, if no other was ever bought.
Claimable(e) ==
    IF heldContracts[e] = bought[e] THEN stopped = {} ELSE \A d \in Entries \ {e} : bought[d] = 0

(* What the tranches say remains of each entry is what the venue holds of it,*)
(* unless an entry sold in part claims more, or an entry without legs stands *)
(* beside one that was closed without a name, or was sold in part itself.    *)
RemainingIsHeld ==
    LET open == OpenOrders IN
    Covered /\ ~Overclaimed /\ (\A e \in Unbracketed : Claimable(e)) =>
        \A e \in FilledEntries : RemainingContracts(open, e) = heldContracts[e]

OwnershipInv == OwnershipTypeOK /\ ProvenIsProtected /\ RemainingIsHeld
=============================================================================
