------------------------------- MODULE Market -------------------------------
(***************************************************************************)
(* What the gateway knows of the market and of the account, and how old it *)
(* is: the quote assembler that joins one-sided updates, the venue state   *)
(* fed by streams and by REST, and the data-quality verdict that decides   *)
(* whether new exposure is eligible.                                       *)
(*                                                                         *)
(* Time is kept as ages: Tick makes everything one unit older, an age that *)
(* no comparison tells from a greater one stays TooOld.  Operational       *)
(* generations are only ever compared, so a Boolean stands for each        *)
(* comparison: proven for the reconciliation's, joined for the assembler's.*)
(***************************************************************************)
EXTENDS Integers, FiniteSets

CONSTANTS Instruments,       \* contracts quoted
          Held,              \* those of them with a position
          Lists,             \* account, positions, orders
          Bids, Asks,        \* prices of either side
          SideTtl, MaxQuoteAge, MaxStateAge, ReconcileGrace, FutureTolerance,
          MaxAhead,          \* how far the provider's clock may be ahead of ours
          MaxDelay,          \* how old an update may be when it arrives
          MaxDisturbances    \* bound on faults of streams, queue and reconciliation

ASSUME MarketAssumption ==
    /\ Held \subseteq Instruments
    /\ Bids \subseteq Nat \ {0} /\ Asks \subseteq Nat \ {0}
    /\ {SideTtl, MaxQuoteAge, MaxStateAge, ReconcileGrace, FutureTolerance, MaxAhead, MaxDelay,
        MaxDisturbances} \subseteq Nat

VARIABLES sides,       \* per contract, the assembler's two sides
          joined,      \* the assembler's generation is the operational one
          arriving,    \* per contract, the assembled quote awaiting its record
          quotes,      \* per contract, the quote of the venue state
          streams,     \* state of the user and of the market stream
          proven,      \* a reconciliation succeeded in this generation
          cycle,       \* the reconciliation, and the time since it came to that
          stateAges,   \* age of the account, of the positions and of the orders
          backlogged,  \* the evidence queue sheds
          disturbances

feed       == <<sides, joined, arriving, quotes>>
account    == <<cycle, stateAges>>
marketVars == <<feed, account, streams, proven, backlogged, disturbances>>

NoSide  == [price |-> 0, ts |-> 0, at |-> 0]
NoSides == [bid |-> NoSide, ask |-> NoSide]
NoQuote == [bid |-> 0, ask |-> 0, ts |-> 0, bidAt |-> 0, askAt |-> 0]
Hubs  == {"user", "market"}

\* One unit older; an age beyond every limit it is held against stays there.
Older(age, limit) == IF age > limit THEN age ELSE age + 1
SideLimit == SideTtl + MaxQuoteAge + MaxAhead

Disturbed == disturbances < MaxDisturbances /\ disturbances' = disturbances + 1

MarketInit ==
    /\ sides = [c \in Instruments |-> NoSides] /\ joined = TRUE
    /\ arriving = [c \in Instruments |-> NoQuote] /\ quotes = [c \in Instruments |-> NoQuote]
    /\ streams = [h \in Hubs |-> "lost"] /\ proven = FALSE /\ disturbances = 0
    /\ cycle = [state |-> "idle", age |-> 0]
    /\ stateAges = [l \in Lists |-> 0] /\ backlogged = FALSE

----------------------------------------------------------------------------
(* The quote assembler.                                                    *)

\* Faulty: only the side the update carries is looked at.
ExpiredBidOnly(s) == [s EXCEPT !.bid = IF s.bid.at > SideTtl THEN NoSide ELSE s.bid]
\* expireStaleSides, by the time the side was received.
Expired(s) == [bid |-> IF s.bid.at > SideTtl THEN NoSide ELSE s.bid,
               ask |-> IF s.ask.at > SideTtl THEN NoSide ELSE s.ask]

\* An update dated before a retained side: the provider sends no sequence
\* number, this stands for a gap.
Regresses(s, ts) == \E side \in {s.bid, s.ask} : side # NoSide /\ ts > side.ts + 1

Updated(s, bid, ask, ts) ==
    [bid |-> IF bid = 0 THEN s.bid ELSE [price |-> bid, ts |-> ts, at |-> 0],
     ask |-> IF ask = 0 THEN s.ask ELSE [price |-> ask, ts |-> ts, at |-> 0]]

Assembled(s, ts) ==
    [bid |-> s.bid.price, ask |-> s.ask.price, ts |-> ts, bidAt |-> s.bid.at, askAt |-> s.ask.at]

\* ingest, under recordAndApply: a complete quote goes on to its record and
\* marks the stream; anything else leaves the stored quote alone.
QuoteArrives(c, bid, ask, ts) ==
    LET retained == IF joined THEN sides ELSE [d \in Instruments |-> NoSides]
        kept     == Expired(Updated(retained[c], bid, ask, ts))
    IN
    /\ streams["market"] # "lost" /\ joined' = TRUE
    /\ IF Regresses(retained[c], ts)
       THEN sides' = [retained EXCEPT ![c] = NoSides] /\ UNCHANGED <<arriving, streams>>
       ELSE /\ sides' = [retained EXCEPT ![c] = kept]
            /\ IF kept.bid = NoSide \/ kept.ask = NoSide
               THEN UNCHANGED <<arriving, streams>>
               ELSE /\ arriving' = [arriving EXCEPT ![c] = Assembled(kept, ts)]
                    /\ streams' = [streams EXCEPT !["market"] = "connected"]
    /\ UNCHANGED <<quotes, proven, account, backlogged, disturbances>>

\* The payload is not an object: the contract's sides are dropped.
QuoteGarbled(c) ==
    /\ streams["market"] # "lost" /\ joined' = TRUE
    /\ sides' = [d \in Instruments |-> IF d = c \/ ~joined THEN NoSides ELSE sides[d]]
    /\ UNCHANGED <<arriving, quotes, streams, proven, account, backlogged, disturbances>>

\* Its record is durable: applyQuote.
QuoteApplied(c) ==
    /\ arriving[c] # NoQuote
    /\ quotes' = [quotes EXCEPT ![c] = arriving[c]] /\ arriving' = [arriving EXCEPT ![c] = NoQuote]
    /\ UNCHANGED <<sides, joined, streams, proven, account, backlogged, disturbances>>

----------------------------------------------------------------------------
(* The streams and the account.                                            *)

\* Any other event that parses: a trade or depth, or a list of the account.
MarketEvent ==
    /\ streams["market"] # "lost" /\ streams' = [streams EXCEPT !["market"] = "connected"]
    /\ UNCHANGED <<feed, proven, account, backlogged, disturbances>>

AccountEvent(l) ==
    /\ streams["user"] # "lost" /\ streams' = [streams EXCEPT !["user"] = "connected"]
    /\ stateAges' = [stateAges EXCEPT ![l] = 0]
    /\ UNCHANGED <<feed, proven, cycle, backlogged, disturbances>>

\* markPayloadFault.
Faulted(h) ==
    /\ Disturbed /\ streams[h] # "lost" /\ streams' = [streams EXCEPT ![h] = "degraded"]
    /\ UNCHANGED <<feed, proven, account, backlogged>>

\* setStream: the generation moves only when the stream was connected.
StreamLost(h) ==
    /\ Disturbed /\ streams[h] # "lost" /\ streams' = [streams EXCEPT ![h] = "lost"]
    /\ IF streams[h] = "connected" THEN proven' = FALSE /\ joined' = FALSE ELSE UNCHANGED <<proven, joined>>
    /\ UNCHANGED <<sides, arriving, quotes, account, backlogged>>

StreamBack(h) ==
    /\ streams[h] = "lost" /\ streams' = [streams EXCEPT ![h] = "connected"]
    /\ UNCHANGED <<feed, proven, account, backlogged, disturbances>>

CycleStarts ==
    /\ cycle.state # "running" /\ cycle' = [state |-> "running", age |-> 0]
    /\ UNCHANGED <<feed, streams, proven, stateAges, backlogged, disturbances>>

\* replaceAccounts (or applyAccount), replacePositions, replaceOrders,
\* markReconciliationSucceeded.
CycleSucceeds ==
    /\ cycle.state = "running" /\ cycle' = [state |-> "succeeded", age |-> 0]
    /\ stateAges' = [l \in Lists |-> 0] /\ proven' = TRUE
    /\ UNCHANGED <<feed, streams, backlogged, disturbances>>

CycleFails ==
    /\ Disturbed /\ cycle.state = "running" /\ cycle' = [state |-> "failed", age |-> 0]
    /\ UNCHANGED <<feed, streams, proven, stateAges, backlogged>>

BacklogTurns ==
    /\ Disturbed /\ backlogged' = ~backlogged
    /\ UNCHANGED <<feed, streams, proven, account>>

OlderSide(s) ==
    IF s = NoSide THEN s ELSE [s EXCEPT !.ts = Older(@, MaxDelay), !.at = Older(@, SideTtl)]
OlderQuote(q) ==
    IF q = NoQuote THEN q
    ELSE [q EXCEPT !.ts = Older(@, MaxQuoteAge), !.bidAt = Older(@, SideLimit), !.askAt = Older(@, SideLimit)]

MarketTick ==
    /\ sides' = [c \in Instruments |-> [bid |-> OlderSide(sides[c].bid), ask |-> OlderSide(sides[c].ask)]]
    /\ arriving' = [c \in Instruments |-> OlderQuote(arriving[c])]
    /\ quotes' = [c \in Instruments |-> OlderQuote(quotes[c])]
    /\ stateAges' = [l \in Lists |-> Older(stateAges[l], MaxStateAge)]
    /\ cycle' = [cycle EXCEPT !.age = IF cycle.state \in {"running", "succeeded"} THEN Older(@, ReconcileGrace) ELSE 0]
    /\ UNCHANGED <<joined, streams, proven, backlogged, disturbances>>

MarketNext ==
    \/ \E c \in Instruments :
         \/ \E bid \in Bids \cup {0}, ask \in Asks \cup {0}, ts \in (0 - MaxAhead) .. MaxDelay : QuoteArrives(c, bid, ask, ts)
         \/ QuoteGarbled(c) \/ QuoteApplied(c)
    \/ \E h \in Hubs : Faulted(h) \/ StreamLost(h) \/ StreamBack(h)
    \/ \E l \in Lists : AccountEvent(l)
    \/ MarketEvent \/ CycleStarts \/ CycleSucceeds \/ CycleFails \/ BacklogTurns \/ MarketTick

MarketSpec == MarketInit /\ [][MarketNext]_marketVars

----------------------------------------------------------------------------
(* The verdict.                                                            *)

\* classifyQuoteState: locked and crossed quotes are not normal.
NormalQuote(q) == q.bid < q.ask

\* The age of the quote is the age of its last update, whatever that carried.
FreshQuote(q) == q # NoQuote /\ q.ts <= MaxQuoteAge /\ q.ts >= 0 - FutureTolerance

\* quoteUsableForPnl, for every open position.
MarksUsable == \A c \in Held : quotes[c] # NoQuote /\ quotes[c].ts <= MaxQuoteAge

\* stateIssues.
StateProven == (\A h \in Hubs : streams[h] = "connected") /\ ~backlogged /\ proven

\* reconciliationGrace: a cycle started, or one that succeeded, not long ago.
InGrace ==
    proven /\ cycle.state \in {"running", "succeeded"} /\ cycle.age <= ReconcileGrace

\* latestStateTimestamp: the oldest of the lists counts.
StateRecent == \A l \in Lists : stateAges[l] <= MaxStateAge

StateFresh == InGrace \/ StateRecent

\* evaluateSnapshotDataQuality: no issue left, so execution is eligible.
QuoteEligible(c) ==
    /\ StateProven /\ MarksUsable /\ StateFresh
    /\ FreshQuote(quotes[c]) /\ NormalQuote(quotes[c])

-----------------------------------------------------------------------------
MarketTypeOK ==
    /\ streams \in [Hubs -> {"lost", "connected", "degraded"}]
    /\ {proven, joined, backlogged} \subseteq BOOLEAN
    /\ disturbances \in 0 .. MaxDisturbances

(* Prices that pass for executable are recent on both sides: each side was   *)
(* joined while it lived, and the joined quote has not aged since by more   *)
(* than the life of a quote and what the provider's clock was ahead of ours *)
(* (quote-bbo-assembler.ts, data-quality.ts).                              *)
EligibleSidesAreRecent ==
    \A c \in Instruments : QuoteEligible(c) =>
       \A at \in {quotes[c].bidAt, quotes[c].askAt} : at <= SideTtl + MaxQuoteAge + MaxAhead

MarketInv == MarketTypeOK /\ EligibleSidesAreRecent
=============================================================================
