------------------------------ MODULE Venue_proofs ------------------------------
(***************************************************************************)
(* Proofs about what the gateway knows of the venue: quotes and account    *)
(* (Market), the bars and the history budget (Universe), and which entry   *)
(* owns the contracts and the orders the venue reports (Ownership).        *)
(***************************************************************************)
EXTENDS Market, Universe, Ownership, WellFoundedInduction, FiniteSetTheorems, TLAPS

(***************************************************************************)
(* Quotes, for any contracts, lives, limits and faults, and however far the *)
(* provider's clock is ahead.  No comparison of the code bounds the age of  *)
(* a quote's sides: what does is that they age together with the quote, so  *)
(* the invariant ties each side's age to the quote's on every quote that is *)
(* not yet too old, the stored ones and those awaiting their record.        *)
(***************************************************************************)
Side  == [price : Nat, ts : Int, at : Nat]
Sides == [bid : Side, ask : Side]
Quote == [bid : Nat, ask : Nat, ts : Int, bidAt : Nat, askAt : Nat]

AgesTogether(q) ==
    q.ts <= MaxQuoteAge => \A at \in {q.bidAt, q.askAt} : at <= SideTtl + q.ts + MaxAhead

QuoteInv ==
    /\ MarketTypeOK
    /\ sides \in [Instruments -> Sides]
    /\ \A stored \in {arriving, quotes} :
         /\ stored \in [Instruments -> Quote]
         /\ \A c \in Instruments : stored[c] # NoQuote => AgesTogether(stored[c])

-----------------------------------------------------------------------------
LEMMA LimitsAreNatural ==
    /\ SideTtl \in Nat /\ MaxQuoteAge \in Nat /\ MaxAhead \in Nat /\ MaxDelay \in Nat
    /\ MaxDisturbances \in Nat /\ SideLimit \in Nat
    /\ \A p \in Bids \cup Asks \cup {0} : p \in Nat
BY MarketAssumption DEF SideLimit

LEMMA NothingKnown == NoSide \in Side /\ NoSides \in Sides /\ NoQuote \in Quote
BY DEF NoSide, NoSides, NoQuote, Side, Sides, Quote

(* What the assembler keeps of an update it joins.                          *)
LEMMA KeptSidesLive ==
    ASSUME NEW s \in Sides, NEW bid \in Bids \cup {0}, NEW ask \in Asks \cup {0}, NEW ts \in Int
    PROVE  LET kept == Expired(Updated(s, bid, ask, ts)) IN
           kept \in Sides /\ kept.bid.at <= SideTtl /\ kept.ask.at <= SideTtl
<1> DEFINE u == Updated(s, bid, ask, ts)
<1>1. u \in Sides
  BY LimitsAreNatural DEF Updated, Sides, Side
<1> HIDE DEF u
<1>2. Expired(u) \in Sides /\ Expired(u).bid.at <= SideTtl /\ Expired(u).ask.at <= SideTtl
  BY <1>1, LimitsAreNatural, NothingKnown DEF Expired, Sides, Side, NoSide
<1>3. QED BY <1>2 DEF u

LEMMA JoinedQuote ==
    ASSUME NEW k \in Sides, k.bid.at <= SideTtl, k.ask.at <= SideTtl,
           NEW ts \in (0 - MaxAhead) .. MaxDelay
    PROVE  Assembled(k, ts) \in Quote /\ AgesTogether(Assembled(k, ts))
BY LimitsAreNatural DEF Assembled, AgesTogether, Sides, Side, Quote

LEMMA OlderQuoteTogether ==
    ASSUME NEW q \in Quote, q # NoQuote => AgesTogether(q)
    PROVE  OlderQuote(q) \in Quote /\ (OlderQuote(q) # NoQuote => AgesTogether(OlderQuote(q)))
<1>1. CASE q = NoQuote
  BY <1>1, NothingKnown DEF OlderQuote
<1>2. CASE q # NoQuote
  <2>1. OlderQuote(q) = [q EXCEPT !.ts = Older(q.ts, MaxQuoteAge),
                                  !.bidAt = Older(q.bidAt, SideLimit),
                                  !.askAt = Older(q.askAt, SideLimit)]
    BY <1>2 DEF OlderQuote
  <2>2. q.ts \in Int /\ q.bidAt \in Nat /\ q.askAt \in Nat
    BY DEF Quote
  <2>3. OlderQuote(q) \in Quote
    <3>1. /\ Older(q.ts, MaxQuoteAge) \in Int /\ Older(q.bidAt, SideLimit) \in Nat
          /\ Older(q.askAt, SideLimit) \in Nat
      BY <2>2, LimitsAreNatural DEF Older
    <3>2. QED BY <2>1, <3>1 DEF Quote
  <2>4. AgesTogether(OlderQuote(q))
    BY <1>2, <2>1, <2>2, LimitsAreNatural DEF AgesTogether, Older, Quote
  <2>5. QED BY <2>3, <2>4
<1>3. QED BY <1>1, <1>2

LEMMA OlderSideTyped == ASSUME NEW s \in Side PROVE OlderSide(s) \in Side
<1>1. /\ Older(s.ts, MaxDelay) \in Int /\ Older(s.at, SideTtl) \in Nat
  <2>1. s.ts \in Int /\ s.at \in Nat
    BY DEF Side
  <2>2. QED BY <2>1, LimitsAreNatural DEF Older
<1>2. [s EXCEPT !.ts = Older(s.ts, MaxDelay), !.at = Older(s.at, SideTtl)] \in Side
  BY <1>1 DEF Side
<1>3. QED BY <1>2 DEF OlderSide

-----------------------------------------------------------------------------
LEMMA QuoteInit == MarketInit => QuoteInv
<1> SUFFICES ASSUME MarketInit PROVE QuoteInv
  OBVIOUS
<1>1. MarketTypeOK
  <2>1. 0 \in 0 .. MaxDisturbances
    BY LimitsAreNatural
  <2>2. QED BY <2>1, Zenon DEF MarketInit, MarketTypeOK
<1>2. /\ sides \in [Instruments -> Sides]
      /\ \A stored \in {arriving, quotes} :
           /\ stored \in [Instruments -> Quote]
           /\ \A c \in Instruments : stored[c] = NoQuote
  BY NothingKnown DEF MarketInit
<1>3. QED BY <1>1, <1>2 DEF QuoteInv

(* An update, joined with what is retained or dropping it.                  *)
LEMMA ArrivalKeeps ==
    ASSUME QuoteInv, NEW c \in Instruments, NEW bid \in Bids \cup {0}, NEW ask \in Asks \cup {0},
           NEW ts \in (0 - MaxAhead) .. MaxDelay, QuoteArrives(c, bid, ask, ts)
    PROVE  QuoteInv'
<1> DEFINE retained == IF joined THEN sides ELSE [d \in Instruments |-> NoSides]
           kept     == Expired(Updated(retained[c], bid, ask, ts))
<1>1. retained \in [Instruments -> Sides]
  BY NothingKnown DEF QuoteInv
<1>2. ts \in Int
  BY LimitsAreNatural
<1>3. kept \in Sides /\ kept.bid.at <= SideTtl /\ kept.ask.at <= SideTtl
  BY <1>1, <1>2, KeptSidesLive
<1>4. Assembled(kept, ts) \in Quote /\ AgesTogether(Assembled(kept, ts))
  BY <1>3, JoinedQuote
<1>5. /\ sides' \in {[retained EXCEPT ![c] = NoSides], [retained EXCEPT ![c] = kept]}
      /\ arriving' \in {arriving, [arriving EXCEPT ![c] = Assembled(kept, ts)]}
      /\ streams' \in {streams, [streams EXCEPT !["market"] = "connected"]}
      /\ joined' = TRUE /\ UNCHANGED <<quotes, proven, backlogged, disturbances>>
  BY DEF QuoteArrives
<1> HIDE DEF retained, kept
<1>6. MarketTypeOK'
  BY <1>5 DEF QuoteInv, MarketTypeOK, Hubs
<1>7. sides' \in [Instruments -> Sides]
  BY <1>1, <1>3, <1>5, NothingKnown
<1>8. arriving' \in [Instruments -> Quote] /\ \A d \in Instruments : arriving'[d] # NoQuote => AgesTogether(arriving'[d])
  BY <1>4, <1>5 DEF QuoteInv
<1>9. QED BY <1>5, <1>6, <1>7, <1>8 DEF QuoteInv, AgesTogether

LEMMA AppliedKeeps == ASSUME QuoteInv, NEW c \in Instruments, QuoteApplied(c) PROVE QuoteInv'
<1>1. /\ quotes' = [quotes EXCEPT ![c] = arriving[c]] /\ arriving' = [arriving EXCEPT ![c] = NoQuote]
      /\ UNCHANGED <<sides, joined, streams, proven, backlogged, disturbances>>
  BY DEF QuoteApplied
<1>2. \A stored \in {arriving', quotes'} :
        /\ stored \in [Instruments -> Quote]
        /\ \A d \in Instruments : stored[d] # NoQuote => AgesTogether(stored[d])
  BY <1>1, NothingKnown DEF QuoteInv
<1>3. QED BY <1>1, <1>2 DEF QuoteInv, MarketTypeOK, AgesTogether

LEMMA GarbledKeeps == ASSUME QuoteInv, NEW c \in Instruments, QuoteGarbled(c) PROVE QuoteInv'
<1>1. sides' \in [Instruments -> Sides]
  BY NothingKnown DEF QuoteGarbled, QuoteInv
<1>2. QED BY <1>1 DEF QuoteGarbled, QuoteInv, MarketTypeOK, AgesTogether

(* The streams, the account's lists and the reconciliation leave quotes be.  *)
LEMMA OthersKeep ==
    ASSUME QuoteInv,
           \/ \E h \in Hubs : Faulted(h) \/ StreamLost(h) \/ StreamBack(h)
           \/ \E l \in Lists : AccountEvent(l)
           \/ MarketEvent \/ CycleStarts \/ CycleSucceeds \/ CycleFails \/ BacklogTurns
    PROVE  QuoteInv'
<1>1. UNCHANGED <<sides, arriving, quotes>>
  BY DEF Faulted, StreamLost, StreamBack, AccountEvent, MarketEvent, CycleStarts, CycleSucceeds,
         CycleFails, BacklogTurns, feed
<1>2. disturbances' \in 0 .. MaxDisturbances
  BY LimitsAreNatural DEF QuoteInv, MarketTypeOK, Disturbed, Faulted, StreamLost, StreamBack,
     AccountEvent, MarketEvent, CycleStarts, CycleSucceeds, CycleFails, BacklogTurns
<1>3. {proven', joined', backlogged'} \subseteq BOOLEAN
  BY DEF QuoteInv, MarketTypeOK, Faulted, StreamLost, StreamBack,
     AccountEvent, MarketEvent, CycleStarts, CycleSucceeds, CycleFails, BacklogTurns, feed
<1>4. streams' \in [Hubs -> {"lost", "connected", "degraded"}]
  BY DEF QuoteInv, MarketTypeOK, Faulted, StreamLost, StreamBack,
     AccountEvent, MarketEvent, CycleStarts, CycleSucceeds, CycleFails, BacklogTurns
<1>5. QED BY <1>1, <1>2, <1>3, <1>4 DEF QuoteInv, MarketTypeOK, AgesTogether

LEMMA TickKeeps == ASSUME QuoteInv, MarketTick PROVE QuoteInv'
<1>1. sides' \in [Instruments -> Sides]
  BY OlderSideTyped DEF MarketTick, QuoteInv, Sides
<1>2. /\ arriving' = [c \in Instruments |-> OlderQuote(arriving[c])]
      /\ quotes' = [c \in Instruments |-> OlderQuote(quotes[c])]
      /\ UNCHANGED <<joined, streams, proven, backlogged, disturbances>>
  BY DEF MarketTick
<1>3. \A stored \in {arriving', quotes'} :
        /\ stored \in [Instruments -> Quote]
        /\ \A d \in Instruments : stored[d] # NoQuote => AgesTogether(stored[d])
  BY <1>2, OlderQuoteTogether DEF QuoteInv
<1>4. QED BY <1>1, <1>2, <1>3 DEF QuoteInv, MarketTypeOK, AgesTogether

LEMMA QuoteNext == QuoteInv /\ [MarketNext]_marketVars => QuoteInv'
<1> SUFFICES ASSUME QuoteInv, [MarketNext]_marketVars PROVE QuoteInv'
  OBVIOUS
<1>1. CASE MarketNext
  BY <1>1, ArrivalKeeps, AppliedKeeps, GarbledKeeps, OthersKeep, TickKeeps DEF MarketNext
<1>2. CASE UNCHANGED marketVars
  BY <1>2 DEF marketVars, feed, QuoteInv, MarketTypeOK, AgesTogether
<1>3. QED BY <1>1, <1>2

(* Whatever updates, gaps, garbled payloads and reconnections come, and      *)
(* however long a joined quote waits for its record, a quote that makes new  *)
(* exposure eligible is recent on both sides (quote-bbo-assembler.ts,       *)
(* data-quality.ts).                                                        *)
THEOREM QuotesAreRecent == MarketSpec => []MarketInv
<1>1. MarketSpec => []QuoteInv
  BY QuoteInit, QuoteNext, PTL DEF MarketSpec
<1>2. QuoteInv => MarketInv
  <2> SUFFICES ASSUME QuoteInv PROVE EligibleSidesAreRecent
    BY DEF MarketInv, QuoteInv
  <2>1. ASSUME NEW c \in Instruments, QuoteEligible(c)
        PROVE  \A at \in {quotes[c].bidAt, quotes[c].askAt} : at <= SideTtl + MaxQuoteAge + MaxAhead
    <3>1. quotes[c] \in Quote /\ quotes[c].ts <= MaxQuoteAge /\ AgesTogether(quotes[c])
      BY <2>1 DEF QuoteInv, QuoteEligible, FreshQuote
    <3>2. QED BY <3>1, LimitsAreNatural DEF AgesTogether, Quote
  <2>2. QED BY <2>1 DEF EligibleSidesAreRecent
<1>3. QED BY <1>1, <1>2, PTL

-----------------------------------------------------------------------------
(***************************************************************************)
(* Bars, for any contracts, packets, budgets, waits and faults.  What keeps *)
(* an observation from going back is not the fence alone: a refresh numbers *)
(* itself when it is asked for, so the newest of a contract reads up to no  *)
(* earlier than what is already observed, and no two refreshes in flight    *)
(* have one number.  The budget holds in every window because a start is    *)
(* only taken when the trailing one has room, and starts only at the clock. *)
(***************************************************************************)
ReadSet == [seq : Nat, at : Nat, want : Nat, out : Nat, headroom : Headrooms, serial : BOOLEAN]

IsJob(j) ==
    j = [key |-> j.key, no |-> j.no, asOf |-> j.asOf, waiters |-> j.waiters, began |-> j.began,
         left |-> j.left, headroom |-> j.headroom, serial |-> j.serial]
IsPacket(r) ==
    r = [at |-> r.at, target |-> r.target, asked |-> r.asked, how |-> r.how, began |-> r.began,
         seen |-> r.seen]

(* Refreshes and observations: the newest refresh of a contract, if it is in *)
(* flight, reads up to no earlier than what is observed.                     *)
ReadInv ==
    /\ tick \in 1 .. MaxTicks
    /\ reads \in [Lanes -> [Contracts -> ReadSet]]
    /\ strays \in [Lanes -> [Headrooms -> Nat]]
    /\ sequence \in [Contracts -> Nat]
    /\ observed \in [Contracts -> [at : Nat, error : BOOLEAN]]
    /\ \A c \in Contracts : observed[c].at <= tick
    /\ \A l \in Lanes, c \in Contracts :
          /\ reads[l][c].seq <= sequence[c] /\ reads[l][c].at <= tick
          /\ reads[l][c].want + reads[l][c].out > 0 => reads[l][c].seq > 0
          /\ reads[l][c].seq > 0 /\ reads[l][c].seq = sequence[c] => observed[c].at <= reads[l][c].at
    /\ \A c \in Contracts, k, l \in Lanes :
          k # l /\ reads[k][c].seq = reads[l][c].seq => reads[k][c].seq = 0

(* No start is later than the clock.                                        *)
StartInv ==
    /\ tick \in 1 .. MaxTicks
    /\ IsFiniteSet(starts) /\ starts \subseteq [at : 1 .. tick, no : Nat] /\ BudgetHolds

Asked(w) == w.who \in Packets => packets[w.who].at # "idle"

PacketsRight ==
    /\ DOMAIN packets = Packets
    /\ \A p \in Packets :
          /\ IsPacket(packets[p]) /\ packets[p].asked \in Nat /\ packets[p].asked <= tick
          /\ packets[p].at = "idle" => packets[p].how = "none"
    /\ LaterRefresh

JobsRight(q) ==
    /\ IsFiniteSet(q) /\ Cardinality(q) <= MaxDepth
    /\ \A j \in q : IsJob(j) /\ \A w \in j.waiters : Asked(w)

RunRight(j) ==
    /\ IsJob(j) /\ j.headroom \in Headrooms /\ j.serial \in BOOLEAN
    /\ \A w \in j.waiters : Asked(w) /\ (w.who \in Packets => packets[w.who].asked <= j.began)

(* Queues and packets: whoever waits has asked, and before its job began.    *)
QueueInv ==
    /\ tick \in 1 .. MaxTicks
    /\ DOMAIN jobs = Lanes /\ DOMAIN running = Lanes
    /\ \A l \in Lanes : JobsRight(jobs[l]) /\ RunRight(running[l])
    /\ PacketsRight

-----------------------------------------------------------------------------
LEMMA UniverseLimits ==
    /\ 0 \in Headrooms /\ MinHeadroom \in Headrooms /\ \A h \in Headrooms : h \in Nat
    /\ HistoryBudget \in Nat /\ BudgetWindow \in Nat \ {0} /\ MaxDepth \in Nat /\ MaxTicks \in Nat \ {0}
    /\ "timer" \notin Packets /\ Timeframes \in Nat
BY UniverseAssumption DEF Headrooms

(* One more than a part of a set that has less than so many.                *)
LEMMA OneMore ==
    ASSUME NEW B, IsFiniteSet(B), NEW A \in SUBSET B, NEW x, NEW b \in Nat, Cardinality(B) < b
    PROVE  Cardinality(A \cup {x}) <= b
<1>1. IsFiniteSet(A) /\ Cardinality(A) <= Cardinality(B)
  BY FS_Subset
<1>2. Cardinality(A) \in Nat /\ Cardinality(B) \in Nat
  BY <1>1, FS_CardinalityType
<1>3. Cardinality(A \cup {x}) = IF x \in A THEN Cardinality(A) ELSE Cardinality(A) + 1
  BY <1>1, FS_AddElement
<1>4. QED BY <1>1, <1>2, <1>3

(* A start is only taken where the trailing window has room, and no window  *)
(* that holds it reaches further back.                                      *)
LEMMA BudgetKeeps ==
    ASSUME StartInv, NEW h \in Headrooms, MayStartRead(h), StartedCalls, tick' = tick
    PROVE  StartInv'
<1> DEFINE new == [at |-> tick, no |-> Cardinality({s \in starts : s.at = tick}) + 1]
           W(t) == {s \in starts : s.at >= t /\ s.at < t + BudgetWindow}
           recent == {s \in starts : s.at <= tick /\ s.at + BudgetWindow > tick}
<1>0. /\ tick \in Nat /\ tick >= 1 /\ tick <= MaxTicks
      /\ IsFiniteSet(starts) /\ starts \subseteq [at : 1 .. tick, no : Nat]
  BY UniverseLimits DEF StartInv
<1>1. starts' = starts \cup {new}
  BY DEF StartedCalls
<1>2. new \in [at : 1 .. tick, no : Nat] /\ new.at = tick
  <2>1. IsFiniteSet({s \in starts : s.at = tick})
    BY <1>0, FS_Subset
  <2>2. Cardinality({s \in starts : s.at = tick}) \in Nat
    BY <2>1, FS_CardinalityType, Zenon
  <2>3. QED BY <1>0, <2>2
<1>3. IsFiniteSet(recent) /\ Cardinality(recent) \in Nat /\ Cardinality(recent) < HistoryBudget
  <2>1. IsFiniteSet(recent)
    BY <1>0, FS_Subset
  <2>2. Cardinality(recent) \in Nat
    BY <2>1, FS_CardinalityType, Zenon
  <2>3. Cardinality(recent) < HistoryBudget - h
    BY DEF MayStartRead, WindowCount
  <2>4. QED BY <2>1, <2>2, <2>3, UniverseLimits
<1>4. ASSUME NEW t \in 1 .. MaxTicks
      PROVE  Cardinality({s \in starts' : s.at >= t /\ s.at < t + BudgetWindow}) <= HistoryBudget
  <2>1. IsFiniteSet(W(t)) /\ Cardinality(W(t)) <= HistoryBudget
    BY <1>0, FS_Subset DEF StartInv, BudgetHolds
  <2>2. CASE tick >= t /\ tick < t + BudgetWindow
    <3>1. W(t) \in SUBSET recent
      <4>1. \A s \in starts : s.at \in Nat /\ s.at <= tick
        BY <1>0
      <4>2. QED BY <1>0, <2>2, <4>1, UniverseLimits
    <3>2. {s \in starts' : s.at >= t /\ s.at < t + BudgetWindow} = W(t) \cup {new}
      BY <1>1, <1>2, <2>2
    <3> HIDE DEF W, recent, new
    <3>3. QED BY <1>3, <3>1, <3>2, OneMore, UniverseLimits
  <2>3. CASE ~(tick >= t /\ tick < t + BudgetWindow)
    <3>1. {s \in starts' : s.at >= t /\ s.at < t + BudgetWindow} = W(t)
      BY <1>1, <1>2, <2>3
    <3>2. QED BY <2>1, <3>1
  <2>4. QED BY <2>2, <2>3
<1>5. IsFiniteSet(starts')
  BY <1>0, <1>1, FS_AddElement
<1>6. starts' \subseteq [at : 1 .. tick, no : Nat]
  BY <1>0, <1>1, <1>2
<1>7. QED BY <1>0, <1>4, <1>5, <1>6 DEF StartInv, BudgetHolds

-----------------------------------------------------------------------------
(* A lane's refreshes take the newest numbers, or are joined as they are.   *)
LEMMA RefreshesKeep ==
    ASSUME ReadInv, NEW l \in Lanes, NEW S, NEW job, job.headroom \in Headrooms,
           job.serial \in BOOLEAN, Refreshes(l, job, S), UNCHANGED <<tick, strays, observed>>
    PROVE  ReadInv'
<1>0. /\ tick \in Nat /\ tick >= 1 /\ Timeframes \in Nat
      /\ reads \in [Lanes -> [Contracts -> ReadSet]] /\ sequence \in [Contracts -> Nat]
  BY UniverseLimits DEF ReadInv
<1>1. \A c \in Contracts : Read(c, l, job) \in ReadSet
  BY <1>0 DEF Read, ReadSet
<1>2. /\ reads' \in [Lanes -> [Contracts -> ReadSet]]
      /\ \A c \in Contracts :
            /\ reads'[l][c] = IF c \in S THEN Read(c, l, job) ELSE reads[l][c]
            /\ \A k \in Lanes : k # l => reads'[k][c] = reads[k][c]
  BY <1>0, <1>1 DEF Refreshes
<1>3. /\ sequence' \in [Contracts -> Nat]
      /\ \A c \in Contracts : sequence'[c] = IF c \in S THEN Joined(c, l) ELSE sequence[c]
  BY <1>0 DEF Refreshes, Joined
<1>4. ASSUME NEW c \in Contracts
      PROVE  \/ sequence'[c] = sequence[c] /\ \A k \in Lanes : reads'[k][c] = reads[k][c]
             \/ /\ sequence'[c] = sequence[c] + 1 /\ \A k \in Lanes : k # l => reads'[k][c] = reads[k][c]
                /\ reads'[l][c].seq = sequence[c] + 1 /\ reads'[l][c].at = tick
  <2>1. CASE c \in S /\ reads[l][c].seq = 0
    <3>1. Read(c, l, job).seq = sequence[c] + 1 /\ Read(c, l, job).at = tick
      BY <2>1 DEF Read
    <3>2. Joined(c, l) = sequence[c] + 1
      BY <2>1 DEF Joined
    <3>3. QED BY <1>2, <1>3, <2>1, <3>1, <3>2
  <2>2. CASE ~(c \in S /\ reads[l][c].seq = 0)
    BY <1>2, <1>3, <2>2 DEF Read, Joined
  <2>3. QED BY <2>1, <2>2
<1>5. ASSUME NEW c \in Contracts, NEW k \in Lanes
      PROVE  /\ reads'[k][c].seq <= sequence'[c] /\ reads'[k][c].at <= tick
             /\ reads'[k][c].want + reads'[k][c].out > 0 => reads'[k][c].seq > 0
             /\ reads'[k][c].seq > 0 /\ reads'[k][c].seq = sequence'[c] =>
                   observed[c].at <= reads'[k][c].at
  <2>1. reads[k][c] \in ReadSet /\ reads'[k][c] \in ReadSet /\ sequence[c] \in Nat
    BY <1>0, <1>2
  <2>2. /\ reads[k][c].seq \in Nat /\ reads[k][c].at \in Nat
        /\ reads[k][c].seq <= sequence[c] /\ reads[k][c].at <= tick
        /\ reads[k][c].want + reads[k][c].out > 0 => reads[k][c].seq > 0
        /\ reads[k][c].seq > 0 /\ reads[k][c].seq = sequence[c] => observed[c].at <= reads[k][c].at
        /\ observed[c].at <= tick
    BY <2>1 DEF ReadInv, ReadSet
  <2>3. CASE reads'[k][c] = reads[k][c]
    BY <1>4, <2>1, <2>2, <2>3
  <2>4. CASE reads'[k][c] # reads[k][c]
    BY <1>0, <1>4, <2>1, <2>2, <2>4
  <2>5. QED BY <2>3, <2>4
<1>6. ASSUME NEW c \in Contracts, NEW j \in Lanes, NEW k \in Lanes, j # k,
             reads'[j][c].seq = reads'[k][c].seq
      PROVE  reads'[j][c].seq = 0
  <2>1. /\ \A i \in Lanes : reads[i][c].seq \in Nat /\ reads[i][c].seq <= sequence[c]
        /\ reads[j][c].seq = reads[k][c].seq => reads[j][c].seq = 0
        /\ sequence[c] \in Nat
    BY <1>0, <1>6 DEF ReadInv, ReadSet
  <2>2. QED BY <1>4, <1>6, <2>1
<1>7. QED BY <1>2, <1>3, <1>5, <1>6 DEF ReadInv

(* A refresh in flight that goes on, ends or fails.                         *)
LEMMA ReadsKeep ==
    ASSUME ReadInv, NEW l \in Lanes, NEW c \in Contracts,
           AcquiresStart(l, c) \/ BarsArrive(l, c) \/ BarsFail(l, c)
    PROVE  /\ ReadInv'
           /\ \A d \in Contracts : observed'[d].at >= observed[d].at
<1> DEFINE r == reads[l][c]
<1>0. /\ reads \in [Lanes -> [Contracts -> ReadSet]] /\ strays \in [Lanes -> [Headrooms -> Nat]]
      /\ sequence \in [Contracts -> Nat] /\ observed \in [Contracts -> [at : Nat, error : BOOLEAN]]
      /\ tick \in Nat
  BY UniverseLimits DEF ReadInv
<1>1. /\ r \in ReadSet /\ r.seq \in Nat /\ r.at \in Nat /\ r.want \in Nat /\ r.out \in Nat
      /\ r.headroom \in Headrooms /\ r.at <= tick /\ r.seq <= sequence[c]
      /\ r.want + r.out > 0 => r.seq > 0
      /\ r.seq > 0 /\ r.seq = sequence[c] => observed[c].at <= r.at
  BY <1>0 DEF ReadInv, ReadSet
<1>2. NoRead \in ReadSet /\ NoRead.seq = 0 /\ NoRead.at = 0 /\ NoRead.want = 0 /\ NoRead.out = 0
  BY UniverseLimits DEF NoRead, ReadSet
<1> DEFINE n == reads'[l][c]
<1>3. /\ UNCHANGED <<tick, sequence>>
      /\ reads' \in [Lanes -> [Contracts -> ReadSet]]
      /\ \A k \in Lanes, d \in Contracts : k # l \/ d # c => reads'[k][d] = reads[k][d]
      /\ n.seq \in {r.seq, 0} /\ (n.seq = r.seq => n.at = r.at)
      /\ n.at <= tick
      /\ n.want + n.out > 0 => n.seq > 0
      /\ observed' # observed => n.seq = 0
  <2>1. CASE AcquiresStart(l, c)
    <3>1. r.want > 0 /\ UNCHANGED <<tick, sequence, observed>>
          /\ reads' = [reads EXCEPT ![l][c].want = r.want - 1, ![l][c].out = r.out + 1]
      BY <1>0, <2>1 DEF AcquiresStart
    <3>2. /\ n = [seq |-> r.seq, at |-> r.at, want |-> r.want - 1, out |-> r.out + 1,
                 headroom |-> r.headroom, serial |-> r.serial]
          /\ \A k \in Lanes, d \in Contracts : k # l \/ d # c => reads'[k][d] = reads[k][d]
          /\ reads' \in [Lanes -> [Contracts -> ReadSet]]
      BY <1>0, <1>1, <3>1 DEF ReadSet
    <3>3. QED BY <1>1, <3>1, <3>2
  <2>2. CASE BarsArrive(l, c)
    <3>1. r.out > 0 /\ UNCHANGED <<tick, sequence>>
      BY <2>2 DEF BarsArrive
    <3>2. CASE r.out + r.want > 1
      <4>1. observed' = observed /\ reads' = [reads EXCEPT ![l][c].out = r.out - 1]
        BY <1>0, <2>2, <3>2 DEF BarsArrive
      <4>2. /\ n = [seq |-> r.seq, at |-> r.at, want |-> r.want, out |-> r.out - 1,
                   headroom |-> r.headroom, serial |-> r.serial]
            /\ \A k \in Lanes, d \in Contracts : k # l \/ d # c => reads'[k][d] = reads[k][d]
            /\ reads' \in [Lanes -> [Contracts -> ReadSet]]
        BY <1>0, <1>1, <3>1, <4>1 DEF ReadSet
      <4>3. QED BY <1>1, <3>1, <4>1, <4>2
    <3>3. CASE ~(r.out + r.want > 1)
      <4>1. reads' = [reads EXCEPT ![l][c] = NoRead]
        BY <1>0, <2>2, <3>3 DEF BarsArrive
      <4>2. QED BY <1>0, <1>1, <1>2, <3>1, <4>1
    <3>4. QED BY <3>2, <3>3
  <2>3. CASE BarsFail(l, c)
    <3>1. UNCHANGED <<tick, sequence>> /\ reads' = [reads EXCEPT ![l][c] = NoRead]
      BY <1>0, <2>3 DEF BarsFail
    <3>2. /\ n = NoRead /\ reads' \in [Lanes -> [Contracts -> ReadSet]]
          /\ \A k \in Lanes, d \in Contracts : k # l \/ d # c => reads'[k][d] = reads[k][d]
      BY <1>0, <1>2, <3>1
    <3>3. r.out > 0
      BY <2>3 DEF BarsFail
    <3>4. QED BY <1>0, <1>1, <1>2, <3>1, <3>2, <3>3
  <2>4. QED BY <2>1, <2>2, <2>3
<1>4. strays' \in [Lanes -> [Headrooms -> Nat]]
  <2>1. \/ strays' = strays
        \/ strays' = [strays EXCEPT ![l] = [strays[l] EXCEPT ![r.headroom] = strays[l][r.headroom] + r.want]]
    BY <1>0 DEF AcquiresStart, BarsArrive, BarsFail
  <2>2. strays[l][r.headroom] + r.want \in Nat /\ strays[l] \in [Headrooms -> Nat]
    BY <1>0, <1>1
  <2>3. [strays[l] EXCEPT ![r.headroom] = strays[l][r.headroom] + r.want] \in [Headrooms -> Nat]
    BY <2>2
  <2>4. QED BY <1>0, <2>1, <2>3
<1>5. /\ observed' \in [Contracts -> [at : Nat, error : BOOLEAN]]
      /\ \A d \in Contracts : observed'[d].at \in {observed[d].at, r.at}
      /\ \A d \in Contracts : observed'[d].at # observed[d].at =>
            d = c /\ r.seq = sequence[c] /\ r.seq > 0
  <2>1. CASE observed' = observed
    BY <1>0, <2>1
  <2>2. CASE /\ observed' = [observed EXCEPT ![c] = [at |-> r.at, error |-> FALSE]]
             /\ r.seq = sequence[c] /\ r.out > 0
    BY <1>0, <1>1, <2>2
  <2>3. CASE observed' = [observed EXCEPT ![c].error = TRUE]
    BY <1>0, <2>3
  <2>4. QED BY <2>1, <2>2, <2>3 DEF AcquiresStart, BarsArrive, BarsFail, Fenced
<1>6. \A d \in Contracts : observed'[d].at >= observed[d].at /\ observed'[d].at <= tick
  <2>1. \A d \in Contracts : observed[d].at \in Nat /\ observed[d].at <= tick
    BY <1>0 DEF ReadInv
  <2>2. QED BY <1>0, <1>1, <1>5, <2>1
<1> HIDE DEF r, n
<1>7. n = reads'[l][c]
  BY DEF n
<1>9. ASSUME NEW k \in Lanes, NEW d \in Contracts
      PROVE  /\ reads'[k][d].seq <= sequence[d] /\ reads'[k][d].at <= tick
             /\ reads'[k][d].want + reads'[k][d].out > 0 => reads'[k][d].seq > 0
             /\ reads'[k][d].seq > 0 /\ reads'[k][d].seq = sequence[d] =>
                   observed'[d].at <= reads'[k][d].at
  <2>1. CASE k = l /\ d = c
    <3>1. n.seq \in Nat /\ n.seq <= sequence[c] /\ sequence[c] \in Nat
      BY <1>0, <1>1, <1>3
    <3>2. n.seq > 0 /\ n.seq = sequence[c] => observed'[c].at <= n.at
      BY <1>1, <1>3, <1>5
    <3>3. QED BY <1>3, <1>7, <2>1, <3>1, <3>2
  <2>2. CASE ~(k = l /\ d = c)
    <3>1. reads'[k][d] = reads[k][d]
      BY <1>3, <2>2
    <3>2. /\ reads[k][d].seq <= sequence[d] /\ reads[k][d].at <= tick
          /\ reads[k][d].want + reads[k][d].out > 0 => reads[k][d].seq > 0
          /\ reads[k][d].seq > 0 /\ reads[k][d].seq = sequence[d] => observed[d].at <= reads[k][d].at
      BY DEF ReadInv
    <3>3. observed'[d].at # observed[d].at => d = c /\ r.seq = sequence[c] /\ r.seq > 0 /\ k # l
      BY <1>5, <2>2
    <3>4. k # l /\ reads[k][c].seq = reads[l][c].seq => reads[k][c].seq = 0
      BY DEF ReadInv
    <3>5. reads[k][d].seq \in Nat
      BY <1>0 DEF ReadSet
    <3>6. QED BY <3>1, <3>2, <3>3, <3>4, <3>5 DEF r
  <2>3. QED BY <2>1, <2>2
<1>10. ASSUME NEW d \in Contracts, NEW j \in Lanes, NEW k \in Lanes, j # k,
              reads'[j][d].seq = reads'[k][d].seq
       PROVE  reads'[j][d].seq = 0
  <2>1. /\ reads[j][d].seq = reads[k][d].seq => reads[j][d].seq = 0
        /\ reads[j][d].seq = reads[k][d].seq => reads[k][d].seq = 0
    BY <1>10 DEF ReadInv
  <2>2. QED BY <1>3, <1>7, <1>10, <2>1 DEF r
<1>11. QED BY <1>0, <1>3, <1>4, <1>5, <1>6, <1>9, <1>10 DEF ReadInv

-----------------------------------------------------------------------------
(* The sweep leaves at most the jobs there were, with some of their waiters. *)
LEMMA SweptJobs ==
    ASSUME NEW q, IsFiniteSet(q), \A j \in q : IsJob(j)
    PROVE  /\ IsFiniteSet(Swept(q)) /\ Cardinality(Swept(q)) <= Cardinality(q)
           /\ \A j \in Swept(q) : IsJob(j) /\ \E k \in q : j.waiters \subseteq k.waiters
<1> DEFINE f == [k \in q |-> [k EXCEPT !.waiters = Kept(k.waiters)]]
           T == {f[k] : k \in q}
<1>1. f \in Surjection(q, T)
  BY DEF Surjection
<1>2. IsFiniteSet(T) /\ Cardinality(T) <= Cardinality(q)
  BY <1>1, FS_Surjection
<1>3. Swept(q) \in SUBSET T
  BY DEF Swept
<1>4. IsFiniteSet(Swept(q)) /\ Cardinality(Swept(q)) <= Cardinality(T)
  BY <1>2, <1>3, FS_Subset
<1>5. ASSUME NEW j \in Swept(q) PROVE IsJob(j) /\ \E k \in q : j.waiters \subseteq k.waiters
  <2>1. PICK k \in q : j = [k EXCEPT !.waiters = Kept(k.waiters)]
    BY <1>3
  <2>2. j = [key |-> k.key, no |-> k.no, asOf |-> k.asOf, waiters |-> Kept(k.waiters),
             began |-> k.began, left |-> k.left, headroom |-> k.headroom, serial |-> k.serial]
    BY <2>1 DEF IsJob
  <2>3. QED BY <2>2 DEF IsJob, Kept
<1>6. /\ Cardinality(Swept(q)) \in Nat /\ Cardinality(T) \in Nat /\ Cardinality(q) \in Nat
  BY <1>2, <1>4, FS_CardinalityType
<1>7. Cardinality(Swept(q)) <= Cardinality(q)
  <2> HIDE DEF T
  <2>1. QED BY <1>2, <1>4, <1>6
<1>8. QED BY <1>4, <1>5, <1>7

(* What asks is a new waiter, of a job that is queued or of a new one.      *)
LEMMA EnqueuedJobs ==
    ASSUME NEW l \in Lanes, NEW key, NEW who, JobsRight(jobs[l])
    PROVE  LET e == Enqueued(l, key, who) IN
           /\ IsFiniteSet(e) /\ Cardinality(e) <= MaxDepth
           /\ \A j \in e : /\ IsJob(j)
                           /\ \A w \in j.waiters : w = Waiter(who) \/ \E k \in jobs[l] : w \in k.waiters
<1> DEFINE q    == Swept(jobs[l])
           same == {j \in q : j.key = key}
           f    == [j \in q |-> IF j \in same THEN [j EXCEPT !.waiters = @ \cup {Waiter(who)}] ELSE j]
           T    == {f[j] : j \in q}
           new  == [NoJob EXCEPT !.key = key, !.no = NextNo(q), !.asOf = tick, !.waiters = {Waiter(who)}]
<1>1. /\ IsFiniteSet(q) /\ Cardinality(q) <= Cardinality(jobs[l])
      /\ \A j \in q : IsJob(j) /\ \E k \in jobs[l] : j.waiters \subseteq k.waiters
      /\ Cardinality(jobs[l]) <= MaxDepth /\ IsFiniteSet(jobs[l])
  BY SweptJobs DEF JobsRight
<1>2. Cardinality(q) \in Nat /\ Cardinality(jobs[l]) \in Nat
  BY <1>1, FS_CardinalityType, Zenon
<1>3. Cardinality(q) <= MaxDepth
  BY <1>1, <1>2, UniverseLimits
<1>4. CASE same # {}
  <2>1. Enqueued(l, key, who) = (q \ same) \cup {[j EXCEPT !.waiters = @ \cup {Waiter(who)}] : j \in same}
    BY <1>4 DEF Enqueued
  <2>2. Enqueued(l, key, who) \subseteq T
    BY <2>1
  <2>3. IsFiniteSet(T) /\ Cardinality(T) <= Cardinality(q)
    <3>1. f \in Surjection(q, T)
      BY DEF Surjection
    <3>2. QED BY <1>1, <3>1, FS_Surjection
  <2>4. \A j \in T : /\ IsJob(j)
                     /\ \A w \in j.waiters : w = Waiter(who) \/ \E k \in jobs[l] : w \in k.waiters
    <3>1. SUFFICES ASSUME NEW i \in q, NEW j, j = f[i]
                   PROVE  /\ IsJob(j)
                          /\ \A w \in j.waiters : w = Waiter(who) \/ \E k \in jobs[l] : w \in k.waiters
      OBVIOUS
    <3>2. \/ j = i
          \/ j = [key |-> i.key, no |-> i.no, asOf |-> i.asOf, waiters |-> i.waiters \cup {Waiter(who)},
                  began |-> i.began, left |-> i.left, headroom |-> i.headroom, serial |-> i.serial]
      BY <1>1, <3>1 DEF IsJob
    <3>3. j.waiters \subseteq i.waiters \cup {Waiter(who)} /\ IsJob(j)
      BY <1>1, <3>2 DEF IsJob
    <3>4. QED BY <1>1, <3>3
  <2> HIDE DEF T, q
  <2>5. IsFiniteSet(Enqueued(l, key, who)) /\ Cardinality(Enqueued(l, key, who)) <= Cardinality(T)
    BY <2>2, <2>3, FS_Subset
  <2>6. Cardinality(Enqueued(l, key, who)) \in Nat /\ Cardinality(T) \in Nat
    BY <2>3, <2>5, FS_CardinalityType
  <2>7. Cardinality(Enqueued(l, key, who)) <= MaxDepth
    BY <1>2, <1>3, <2>3, <2>5, <2>6, UniverseLimits
  <2>8. QED BY <2>2, <2>4, <2>5, <2>7
<1>5. CASE same = {} /\ Cardinality(q) >= MaxDepth
  <2>1. Enqueued(l, key, who) = q
    BY <1>5 DEF Enqueued
  <2>2. QED BY <1>1, <1>3, <2>1
<1>6. CASE same = {} /\ ~(Cardinality(q) >= MaxDepth)
  <2>1. Enqueued(l, key, who) = q \cup {new}
    BY <1>6 DEF Enqueued
  <2>2. IsJob(new) /\ new.waiters = {Waiter(who)}
    <3>1. SUFFICES ASSUME NEW j, j = new PROVE IsJob(j) /\ j.waiters = {Waiter(who)}
      OBVIOUS
    <3>2. j = [key |-> key, no |-> NextNo(q), asOf |-> tick, waiters |-> {Waiter(who)}, began |-> 0,
               left |-> <<>>, headroom |-> 0, serial |-> FALSE]
      BY <3>1 DEF NoJob
    <3>3. QED BY <3>2 DEF IsJob
  <2> HIDE DEF q, new
  <2>3. IsFiniteSet(q \cup {new}) /\ Cardinality(q \cup {new}) <= MaxDepth
    <3>1. IsFiniteSet(q \cup {new})
          /\ Cardinality(q \cup {new}) = IF new \in q THEN Cardinality(q) ELSE Cardinality(q) + 1
      BY <1>1, FS_AddElement
    <3>2. QED BY <1>2, <1>6, <3>1, UniverseLimits
  <2>4. QED BY <1>1, <2>1, <2>2, <2>3
<1>7. QED BY <1>4, <1>5, <1>6

-----------------------------------------------------------------------------
(* Packets that have asked stay so.                                         *)
PacketsMove ==
    /\ PacketsRight'
    /\ \A p \in Packets : packets[p].at # "idle" =>
          packets'[p].at # "idle" /\ packets'[p].asked = packets[p].asked

WaitsIn(l, w) == \E j \in jobs[l] : w \in j.waiters

(* What the queue hands on keeps its waiters.                               *)
LEMMA QueueKeeps ==
    ASSUME QueueInv, PacketsMove, tick' = tick, DOMAIN jobs' = Lanes, DOMAIN running' = Lanes,
           \A l \in Lanes :
              /\ IsFiniteSet(jobs'[l]) /\ Cardinality(jobs'[l]) <= MaxDepth
              /\ \A j \in jobs'[l] :
                    /\ IsJob(j)
                    /\ \A w \in j.waiters :
                          WaitsIn(l, w) \/ (w.who \in Packets => packets'[w.who].at # "idle"),
           \A l \in Lanes :
              \/ running'[l] = running[l]
              \/ /\ IsJob(running'[l]) /\ running'[l].headroom \in Headrooms
                 /\ running'[l].serial \in BOOLEAN
                 /\ \/ running'[l].waiters = running[l].waiters /\ running'[l].began = running[l].began
                    \/ running'[l].began = tick /\ \A w \in running'[l].waiters : WaitsIn(l, w)
    PROVE  QueueInv'
<1>1. \A l \in Lanes : \A w : WaitsIn(l, w) /\ w.who \in Packets =>
         packets'[w.who].at # "idle" /\ packets'[w.who].asked <= tick
  BY DEF QueueInv, JobsRight, PacketsMove, PacketsRight, Asked, WaitsIn
<1>2. ASSUME NEW l \in Lanes PROVE JobsRight(jobs[l])'
  <2>1. \A j \in jobs'[l] : \A w \in j.waiters : w.who \in Packets => packets'[w.who].at # "idle"
    BY <1>1
  <2>2. QED BY <2>1 DEF JobsRight, Asked, IsJob
<1>3. ASSUME NEW l \in Lanes PROVE RunRight(running[l])'
  <2>1. RunRight(running[l])
    BY DEF QueueInv
  <2>2. \A w \in running[l].waiters : w.who \in Packets =>
           packets'[w.who].at # "idle" /\ packets'[w.who].asked <= running[l].began
    BY <2>1 DEF RunRight, Asked, PacketsMove
  <2>3. CASE running'[l] = running[l]
    BY <2>1, <2>2, <2>3 DEF RunRight, Asked, IsJob
  <2>4. CASE /\ IsJob(running'[l]) /\ running'[l].headroom \in Headrooms
             /\ running'[l].serial \in BOOLEAN
             /\ \/ running'[l].waiters = running[l].waiters /\ running'[l].began = running[l].began
                \/ running'[l].began = tick /\ \A w \in running'[l].waiters : WaitsIn(l, w)
    BY <1>1, <2>2, <2>4 DEF RunRight, Asked, IsJob
  <2>5. QED BY <2>3, <2>4
<1>4. QED BY <1>2, <1>3 DEF QueueInv, PacketsMove

(* Requests that ask now, or go on.                                         *)
LEMMA PacketsGoOn ==
    ASSUME PacketsRight, tick \in Nat, tick' = tick, DOMAIN packets' = Packets,
           \A p \in Packets :
              \/ packets'[p] = packets[p]
              \/ /\ IsPacket(packets'[p]) /\ packets'[p].at # "idle"
                 /\ \/ packets[p].at = "idle" /\ packets'[p].asked = tick
                    \/ packets'[p].asked = packets[p].asked
                 /\ packets'[p].how = "answered" => packets'[p].began >= packets'[p].asked
    PROVE  PacketsMove
<1>1. ASSUME NEW p \in Packets
      PROVE  /\ IsPacket(packets'[p]) /\ packets'[p].asked \in Nat /\ packets'[p].asked <= tick
             /\ packets'[p].at = "idle" => packets'[p].how = "none"
             /\ packets'[p].how = "answered" => packets'[p].began >= packets'[p].asked
             /\ packets[p].at # "idle" => packets'[p].at # "idle" /\ packets'[p].asked = packets[p].asked
  <2>1. /\ IsPacket(packets[p]) /\ packets[p].asked \in Nat /\ packets[p].asked <= tick
        /\ packets[p].at = "idle" => packets[p].how = "none"
        /\ packets[p].how = "answered" => packets[p].began >= packets[p].asked
    BY DEF PacketsRight, LaterRefresh
  <2>2. CASE packets'[p] = packets[p]
    BY <2>1, <2>2
  <2>3. CASE packets'[p] # packets[p]
    BY <2>1, <2>3
  <2>4. QED BY <2>2, <2>3
<1>2. QED BY <1>1 DEF PacketsMove, PacketsRight, LaterRefresh, IsPacket

LEMMA ServedPacket ==
    ASSUME NEW p \in Packets, IsPacket(packets[p]), NEW how, NEW began, NEW s, s = Served(p, how, began)
    PROVE  IsPacket(s) /\ s.at = "served" /\ s.asked = packets[p].asked /\ s.how = how /\ s.began = began
<1>1. s = [at |-> "served", target |-> packets[p].target, asked |-> packets[p].asked, how |-> how,
           began |-> began, seen |-> observed'[packets[p].target].at]
  BY DEF Served, IsPacket
<1>2. QED BY <1>1 DEF IsPacket

(* A lane's queue with what asks in it.                                     *)
LEMMA EnqueuesKeeps ==
    ASSUME QueueInv, PacketsMove, tick' = tick, NEW l \in Lanes, NEW key, NEW who,
           Enqueues(l, key, who), who \in Packets => packets'[who].at # "idle"
    PROVE  QueueInv'
<1>1. /\ DOMAIN jobs = Lanes /\ DOMAIN running = Lanes
      /\ \A k \in Lanes : JobsRight(jobs[k]) /\ RunRight(running[k])
  BY DEF QueueInv
<1> DEFINE e == Enqueued(l, key, who)
<1>2. /\ IsFiniteSet(e) /\ Cardinality(e) <= MaxDepth
      /\ \A j \in e : /\ IsJob(j)
                      /\ \A w \in j.waiters : w = Waiter(who) \/ \E k \in jobs[l] : w \in k.waiters
  BY <1>1, EnqueuedJobs
<1>3. DOMAIN jobs' = Lanes /\ running' = running
      /\ \A k \in Lanes : jobs'[k] = IF k = l THEN e ELSE jobs[k]
  BY <1>1 DEF Enqueues
<1> HIDE DEF e
<1>4. ASSUME NEW k \in Lanes
      PROVE  /\ IsFiniteSet(jobs'[k]) /\ Cardinality(jobs'[k]) <= MaxDepth
             /\ \A j \in jobs'[k] :
                   /\ IsJob(j)
                   /\ \A w \in j.waiters :
                         WaitsIn(k, w) \/ (w.who \in Packets => packets'[w.who].at # "idle")
  <2>1. CASE k = l
    BY <1>2, <1>3, <2>1 DEF WaitsIn, Waiter
  <2>2. CASE k # l
    BY <1>1, <1>3, <2>2 DEF WaitsIn, JobsRight
  <2>3. QED BY <2>1, <2>2
<1>5. QED BY <1>1, <1>3, <1>4, QueueKeeps

(* The queue as it was.                                                     *)
LEMMA QueueStays ==
    ASSUME QueueInv, PacketsMove, UNCHANGED <<tick, jobs, running>>
    PROVE  QueueInv'
<1>1. \A l \in Lanes : JobsRight(jobs[l])
  BY DEF QueueInv
<1>2. \A l \in Lanes : \A j \in jobs'[l] : IsJob(j) /\ \A w \in j.waiters : WaitsIn(l, w)
  BY <1>1 DEF JobsRight, WaitsIn
<1>3. QED BY <1>1, <1>2, QueueKeeps DEF QueueInv, JobsRight

LEMMA TimerKeeps ==
    ASSUME QueueInv, TimerRefreshes
    PROVE  QueueInv'
<1>1. PacketsRight /\ tick \in Nat
  BY UniverseLimits DEF QueueInv
<1>2. UNCHANGED <<tick, packets>> /\ Enqueues("background", "all", "timer")
  BY DEF TimerRefreshes
<1>3. PacketsMove
  BY <1>1, <1>2, PacketsGoOn DEF PacketsRight
<1>4. "background" \in Lanes
  BY DEF Lanes
<1>5. QED BY <1>2, <1>3, <1>4, UniverseLimits, EnqueuesKeeps

LEMMA TimesOutKeeps ==
    ASSUME QueueInv, NEW p \in Packets, PacketTimesOut(p)
    PROVE  QueueInv'
<1>1. PacketsRight /\ tick \in Nat
  BY UniverseLimits DEF QueueInv
<1>2. UNCHANGED <<tick, jobs, running>> /\ packets[p].at = "waiting" /\ IsPacket(packets[p])
      /\ DOMAIN packets = Packets
  BY <1>1 DEF PacketTimesOut, Waiting, PacketsRight
<1>3. /\ DOMAIN packets' = Packets
      /\ \A q \in Packets : q # p => packets'[q] = packets[q]
      /\ packets'[p] = [at |-> "served", target |-> packets[p].target, asked |-> packets[p].asked,
                        how |-> "timed_out", began |-> packets[p].began,
                        seen |-> observed[packets[p].target].at]
  BY <1>2 DEF PacketTimesOut, IsPacket
<1>4. PacketsMove
  BY <1>1, <1>2, <1>3, PacketsGoOn DEF IsPacket
<1>5. QED BY <1>2, <1>4, QueueStays

LEMMA AsksKeeps ==
    ASSUME QueueInv, NEW p \in Packets, NEW c \in Contracts, PacketAsks(p, c)
    PROVE  QueueInv'
<1>1. PacketsRight /\ tick \in Nat /\ packets[p].at = "idle" /\ tick' = tick
  <2>1. packets[p].at = "idle" /\ tick' = tick
    BY DEF PacketAsks
  <2>2. QED BY <2>1, UniverseLimits DEF QueueInv
<1>2. DOMAIN packets' = Packets
  BY DEF PacketAsks
<1>3. \E at \in {"served", "waiting"}, how \in {"fresh", "rejected", "none"}, seen \in {observed[c].at, 0} :
         packets'[p] = [Unasked EXCEPT !.target = c, !.asked = tick, !.at = at, !.how = how, !.seen = seen]
  BY DEF PacketAsks
<1>4. IsPacket(packets'[p]) /\ packets'[p].at # "idle" /\ packets'[p].asked = tick
      /\ packets'[p].how # "answered"
  <2>1. PICK at \in {"served", "waiting"}, how \in {"fresh", "rejected", "none"}, seen \in {observed[c].at, 0} :
           packets'[p] = [Unasked EXCEPT !.target = c, !.asked = tick, !.at = at, !.how = how, !.seen = seen]
    BY <1>3
  <2>2. packets'[p] = [at |-> at, target |-> c, asked |-> tick, how |-> how, began |-> 0, seen |-> seen]
    BY <2>1 DEF Unasked
  <2>3. QED BY <2>2 DEF IsPacket
<1>5. ASSUME NEW q \in Packets, q # p
      PROVE  \/ packets'[q] = packets[q]
             \/ /\ IsPacket(packets'[q]) /\ packets'[q].at # "idle"
                /\ packets'[q].asked = packets[q].asked /\ packets'[q].how # "answered"
  <2>1. \/ packets'[q] = packets[q]
        \/ packets'[q] = [packets[q] EXCEPT !.at = "served", !.how = "rejected",
                                            !.seen = observed[packets[q].target].at]
    BY <1>5 DEF PacketAsks
  <2>2. IsPacket(packets[q])
    BY <1>1 DEF PacketsRight
  <2>3. QED BY <2>1, <2>2 DEF IsPacket
<1>6. PacketsMove
  BY <1>1, <1>2, <1>4, <1>5, PacketsGoOn
<1>7. CASE UNCHANGED <<jobs, running>>
  BY <1>1, <1>6, <1>7, QueueStays
<1>8. CASE Enqueues("packet", c, p)
  <2>1. "packet" \in Lanes
    BY DEF Lanes
  <2>2. QED BY <1>1, <1>4, <1>6, <1>8, <2>1, EnqueuesKeeps
<1>9. QED BY <1>7, <1>8 DEF PacketAsks

LEMMA JobEndsKeeps ==
    ASSUME QueueInv, NEW l \in Lanes, JobEnds(l)
    PROVE  QueueInv'
<1> DEFINE told == {w.who : w \in running[l].waiters}
<1>1. PacketsRight /\ tick \in Nat /\ DOMAIN running = Lanes /\ DOMAIN jobs = Lanes
      /\ \A k \in Lanes : JobsRight(jobs[k]) /\ RunRight(running[k])
  BY UniverseLimits DEF QueueInv
<1>2. /\ UNCHANGED <<tick, jobs>> /\ DOMAIN packets' = Packets
      /\ running' = [running EXCEPT ![l] = NoJob]
      /\ \A p \in Packets : packets'[p] = IF p \in told /\ Waiting(p)
                                          THEN Served(p, "answered", running[l].began) ELSE packets[p]
  BY DEF JobEnds
<1>3. ASSUME NEW p \in Packets
      PROVE  \/ packets'[p] = packets[p]
             \/ /\ IsPacket(packets'[p]) /\ packets'[p].at # "idle"
                /\ packets'[p].asked = packets[p].asked
                /\ packets'[p].how = "answered" => packets'[p].began >= packets'[p].asked
  <2>1. CASE p \in told /\ Waiting(p)
    <3>1. packets[p].asked <= running[l].began /\ packets[p].asked \in Nat /\ IsPacket(packets[p])
      BY <1>1, <2>1 DEF RunRight, PacketsRight
    <3>2. packets'[p] = Served(p, "answered", running[l].began)
      BY <1>2, <2>1
    <3>3. QED
      <4>1. /\ IsPacket(packets'[p]) /\ packets'[p].at = "served"
            /\ packets'[p].asked = packets[p].asked /\ packets'[p].began = running[l].began
        BY <3>1, <3>2, ServedPacket
      <4>2. packets'[p].began >= packets'[p].asked
        BY <3>1, <4>1
      <4>3. QED BY <4>1, <4>2
  <2>2. CASE ~(p \in told /\ Waiting(p))
    BY <1>2, <2>2
  <2>3. QED BY <2>1, <2>2
<1>4. PacketsMove
  BY <1>1, <1>2, <1>3, PacketsGoOn
<1>5. IsJob(NoJob) /\ NoJob.headroom \in Headrooms /\ NoJob.serial \in BOOLEAN /\ NoJob.waiters = {}
      /\ NoJob.began = 0
  BY UniverseLimits DEF NoJob, IsJob
<1>6. ASSUME NEW k \in Lanes
      PROVE  /\ IsFiniteSet(jobs'[k]) /\ Cardinality(jobs'[k]) <= MaxDepth
             /\ \A j \in jobs'[k] : IsJob(j) /\ \A w \in j.waiters : WaitsIn(k, w)
  BY <1>1, <1>2 DEF JobsRight, WaitsIn
<1>7. QueueInv' \/ running[l].waiters = {} \/ running[l].waiters # {}
  OBVIOUS
<1>8. ASSUME NEW k \in Lanes PROVE RunRight(running[k])'
  <2>1. CASE k = l
    BY <1>1, <1>2, <1>5, <2>1 DEF RunRight, IsJob
  <2>2. CASE k # l
    <3>1. running'[k] = running[k] /\ RunRight(running[k])
      BY <1>1, <1>2, <2>2
    <3>2. QED BY <1>4, <3>1 DEF RunRight, Asked, IsJob, PacketsMove
  <2>3. QED BY <2>1, <2>2
<1>9. ASSUME NEW k \in Lanes PROVE JobsRight(jobs[k])'
  <2>1. JobsRight(jobs[k]) /\ jobs'[k] = jobs[k]
    BY <1>1, <1>2
  <2>2. QED BY <1>4, <2>1 DEF JobsRight, Asked, IsJob, PacketsMove
<1>10. QED BY <1>1, <1>2, <1>4, <1>8, <1>9, UniverseLimits DEF QueueInv, PacketsMove

(* The first job leaves the queue, for the lane or because nobody waits.    *)
LEMMA JobStartsKeeps ==
    ASSUME QueueInv, NEW l \in Lanes, NEW storm \in BOOLEAN, JobStarts(l, storm)
    PROVE  /\ QueueInv'
           /\ \/ UNCHANGED <<reads, sequence>>
              \/ \E job, S : /\ job.headroom \in Headrooms /\ job.serial \in BOOLEAN
                             /\ Refreshes(l, job, S)
<1>1. PacketsRight /\ tick \in Nat /\ DOMAIN running = Lanes /\ DOMAIN jobs = Lanes
      /\ \A k \in Lanes : JobsRight(jobs[k]) /\ RunRight(running[k])
  BY UniverseLimits DEF QueueInv
<1>2. PICK first \in jobs[l] :
        LET job  == [first EXCEPT !.waiters = Kept(@), !.began = tick,
                       !.headroom = IF l = "background" THEN MinHeadroom ELSE PacketHeadroom(first),
                       !.serial = storm]
            S    == Refreshed(l, job)
            late == {w.who : w \in first.waiters \ job.waiters}
        IN
        /\ running[l] = NoJob /\ \A j \in jobs[l] : first.no <= j.no
        /\ jobs' = [jobs EXCEPT ![l] = @ \ {first}]
        /\ UNCHANGED <<tick, strays, observed, starts, timers, barFaults>>
        /\ packets' = [p \in Packets |-> IF p \in late /\ Waiting(p) THEN Served(p, "rejected", 0) ELSE packets[p]]
        /\ running' = IF job.waiters = {} THEN running
                      ELSE [running EXCEPT ![l] = [job EXCEPT !.left = IF storm THEN OperatedFirst(S) ELSE <<>>]]
        /\ IF job.waiters = {} \/ storm THEN UNCHANGED <<reads, sequence>> ELSE Refreshes(l, job, S)
  BY Zenon DEF JobStarts
<1> DEFINE job  == [first EXCEPT !.waiters = Kept(@), !.began = tick,
                      !.headroom = IF l = "background" THEN MinHeadroom ELSE PacketHeadroom(first),
                      !.serial = storm]
           S    == Refreshed(l, job)
           next == [job EXCEPT !.left = IF storm THEN OperatedFirst(S) ELSE <<>>]
<1>3. /\ jobs' = [jobs EXCEPT ![l] = jobs[l] \ {first}]
      /\ tick' = tick /\ DOMAIN packets' = Packets
      /\ \A p \in Packets : packets'[p] = packets[p] \/ packets'[p] = Served(p, "rejected", 0)
      /\ running' = running \/ running' = [running EXCEPT ![l] = next]
      /\ UNCHANGED <<reads, sequence>> \/ Refreshes(l, job, S)
  <2>1. jobs' = [jobs EXCEPT ![l] = jobs[l] \ {first}] /\ tick' = tick
    BY <1>2
  <2>2. /\ DOMAIN packets' = Packets
        /\ \A p \in Packets : packets'[p] = packets[p] \/ packets'[p] = Served(p, "rejected", 0)
    BY <1>2
  <2>3. running' = running \/ running' = [running EXCEPT ![l] = next]
    BY <1>2, Zenon
  <2>4. UNCHANGED <<reads, sequence>> \/ Refreshes(l, job, S)
    BY <1>2, Zenon
  <2>5. QED BY <2>1, <2>2, <2>3, <2>4
<1>4. /\ job.headroom \in Headrooms /\ job.serial \in BOOLEAN
      /\ IsJob(next) /\ next.headroom \in Headrooms /\ next.serial \in BOOLEAN
      /\ next.began = tick /\ next.waiters \subseteq first.waiters
  <2>1. SUFFICES ASSUME NEW j, j = job, NEW n, n = next
                 PROVE  /\ j.headroom \in Headrooms /\ j.serial \in BOOLEAN
                        /\ IsJob(n) /\ n.headroom \in Headrooms /\ n.serial \in BOOLEAN
                        /\ n.began = tick /\ n.waiters \subseteq first.waiters
    OBVIOUS
  <2> DEFINE h == IF l = "background" THEN MinHeadroom ELSE PacketHeadroom(first)
             left == IF storm THEN OperatedFirst(S) ELSE <<>>
  <2>2. h \in Headrooms
    BY UniverseLimits DEF PacketHeadroom
  <2>3. j = [key |-> first.key, no |-> first.no, asOf |-> first.asOf, waiters |-> Kept(first.waiters),
             began |-> tick, left |-> first.left, headroom |-> h, serial |-> storm]
    <3>1. IsJob(first)
      BY <1>1 DEF JobsRight
    <3>2. QED BY <2>1, <3>1 DEF IsJob
  <2> HIDE DEF S, h
  <2>4. n = [j EXCEPT !.left = left]
    BY <2>1
  <2> HIDE DEF left, job
  <2>5. n = [key |-> first.key, no |-> first.no, asOf |-> first.asOf, waiters |-> Kept(first.waiters),
             began |-> tick, left |-> left, headroom |-> h, serial |-> storm]
    BY <2>3, <2>4
  <2>6. QED BY <2>2, <2>3, <2>5 DEF IsJob, Kept
<1> HIDE DEF job, S, next
<1>5. PacketsMove
  <2>1. ASSUME NEW p \in Packets
        PROVE  \/ packets'[p] = packets[p]
               \/ /\ IsPacket(packets'[p]) /\ packets'[p].at # "idle"
                  /\ packets'[p].asked = packets[p].asked /\ packets'[p].how # "answered"
    <3>1. IsPacket(packets[p])
      BY <1>1 DEF PacketsRight
    <3>2. packets'[p] = Served(p, "rejected", 0) =>
             /\ IsPacket(packets'[p]) /\ packets'[p].at = "served"
             /\ packets'[p].asked = packets[p].asked /\ packets'[p].how = "rejected"
      BY <3>1, ServedPacket
    <3>3. QED BY <1>3, <3>2
  <2>2. QED BY <1>1, <1>3, <2>1, PacketsGoOn
<1>6. ASSUME NEW k \in Lanes
      PROVE  /\ IsFiniteSet(jobs'[k]) /\ Cardinality(jobs'[k]) <= MaxDepth
             /\ \A j \in jobs'[k] : IsJob(j) /\ \A w \in j.waiters : WaitsIn(k, w)
  <2>1. jobs'[k] \in SUBSET jobs[k]
    BY <1>1, <1>3
  <2>2. IsFiniteSet(jobs[k]) /\ Cardinality(jobs[k]) <= MaxDepth
        /\ \A j \in jobs[k] : IsJob(j) /\ \A w \in j.waiters : WaitsIn(k, w)
    BY <1>1 DEF JobsRight, WaitsIn
  <2>3. IsFiniteSet(jobs'[k]) /\ Cardinality(jobs'[k]) <= Cardinality(jobs[k])
    BY <2>1, <2>2, FS_Subset
  <2>4. Cardinality(jobs'[k]) \in Nat /\ Cardinality(jobs[k]) \in Nat
    BY <2>2, <2>3, FS_CardinalityType
  <2>5. QED BY <2>1, <2>2, <2>3, <2>4, UniverseLimits
<1>7. ASSUME NEW k \in Lanes
      PROVE  \/ running'[k] = running[k]
             \/ /\ IsJob(running'[k]) /\ running'[k].headroom \in Headrooms
                /\ running'[k].serial \in BOOLEAN
                /\ running'[k].began = tick /\ \A w \in running'[k].waiters : WaitsIn(k, w)
  <2>1. running'[k] = running[k] \/ (k = l /\ running'[k] = next)
    <3>1. DOMAIN running = Lanes /\ (running' = running \/ running' = [running EXCEPT ![l] = next])
      BY <1>1, <1>3
    <3>2. QED BY <3>1
  <2>2. \A w \in next.waiters : WaitsIn(l, w)
    BY <1>2, <1>4 DEF WaitsIn
  <2>3. QED BY <1>4, <2>1, <2>2
<1>8. DOMAIN jobs' = Lanes /\ DOMAIN running' = Lanes
  BY <1>1, <1>3
<1>9. QueueInv'
  BY <1>3, <1>5, <1>6, <1>7, <1>8, QueueKeeps
<1>10. QED BY <1>3, <1>4, <1>9

LEMMA StormKeeps ==
    ASSUME QueueInv, NEW l \in Lanes, StormGoesOn(l)
    PROVE  QueueInv' /\ running[l].headroom \in Headrooms /\ running[l].serial \in BOOLEAN
<1>1. PacketsRight /\ tick \in Nat /\ DOMAIN running = Lanes /\ DOMAIN jobs = Lanes
      /\ \A k \in Lanes : JobsRight(jobs[k]) /\ RunRight(running[k])
  BY UniverseLimits DEF QueueInv
<1>2. UNCHANGED <<tick, jobs, packets>>
      /\ running' = [running EXCEPT ![l] = [running[l] EXCEPT !.left = Tail(running[l].left)]]
  BY <1>1 DEF StormGoesOn
<1>3. PacketsMove
  BY <1>1, <1>2, PacketsGoOn DEF PacketsRight
<1>4. /\ running'[l] = [key |-> running[l].key, no |-> running[l].no, asOf |-> running[l].asOf,
                       waiters |-> running[l].waiters, began |-> running[l].began,
                       left |-> Tail(running[l].left), headroom |-> running[l].headroom,
                       serial |-> running[l].serial]
      /\ \A k \in Lanes : k # l => running'[k] = running[k]
      /\ DOMAIN running' = Lanes
  <2>1. running'[l] = [running[l] EXCEPT !.left = Tail(running[l].left)] /\ DOMAIN running' = Lanes
        /\ \A k \in Lanes : k # l => running'[k] = running[k]
    BY <1>1, <1>2
  <2>2. IsJob(running[l])
    BY <1>1 DEF RunRight
  <2>3. QED BY <2>1, <2>2 DEF IsJob
<1>5. IsJob(running'[l]) /\ running'[l].headroom \in Headrooms /\ running'[l].serial \in BOOLEAN
      /\ running'[l].waiters = running[l].waiters /\ running'[l].began = running[l].began
  BY <1>1, <1>4 DEF RunRight, IsJob
<1>6. \A k \in Lanes : \A j \in jobs'[k] : IsJob(j) /\ \A w \in j.waiters : WaitsIn(k, w)
  BY <1>1, <1>2 DEF JobsRight, WaitsIn
<1>7. QueueInv'
  BY <1>1, <1>2, <1>3, <1>4, <1>5, <1>6, QueueKeeps DEF JobsRight
<1>8. QED BY <1>1, <1>7 DEF RunRight

-----------------------------------------------------------------------------
CountsRight == timers \in 0 .. MaxTimers /\ barFaults \in 0 .. MaxBarFaults

MarketReadInv == ReadInv /\ StartInv /\ QueueInv /\ CountsRight

LEMMA UniverseStarts == UniverseInit => MarketReadInv
<1> SUFFICES ASSUME UniverseInit PROVE MarketReadInv
  OBVIOUS
<1> USE DEF UniverseInit
<1>1. tick = 1 /\ tick \in 1 .. MaxTicks /\ 0 \in Headrooms
  BY UniverseLimits
<1>2. ReadInv
  <2>1. NoRead \in ReadSet /\ NoRead.seq = 0 /\ NoRead.at = 0 /\ NoRead.want = 0 /\ NoRead.out = 0
    BY <1>1 DEF NoRead, ReadSet
  <2>2. /\ reads \in [Lanes -> [Contracts -> ReadSet]]
        /\ \A l \in Lanes, c \in Contracts : reads[l][c] = NoRead
    BY <2>1
  <2>3. strays \in [Lanes -> [Headrooms -> Nat]] /\ sequence \in [Contracts -> Nat]
        /\ observed \in [Contracts -> [at : Nat, error : BOOLEAN]]
        /\ \A c \in Contracts : observed[c].at = 0
    OBVIOUS
  <2>4. QED BY <1>1, <2>1, <2>2, <2>3 DEF ReadInv
<1>3. StartInv
  <2>1. \A t \in 1 .. MaxTicks : {s \in starts : s.at >= t /\ s.at < t + BudgetWindow} = {}
    OBVIOUS
  <2>2. IsFiniteSet(starts) /\ Cardinality({}) = 0
    BY FS_EmptySet
  <2>3. QED BY <1>1, <2>1, <2>2, UniverseLimits DEF StartInv, BudgetHolds
<1>4. QueueInv
  <2>1. IsJob(NoJob) /\ NoJob.headroom = 0 /\ NoJob.serial = FALSE /\ NoJob.waiters = {}
    BY DEF NoJob, IsJob
  <2>2. \A l \in Lanes : RunRight(running[l])
    BY <1>1, <2>1 DEF RunRight
  <2>3. \A l \in Lanes : JobsRight(jobs[l])
    <3>1. IsFiniteSet({}) /\ Cardinality({}) = 0
      BY FS_EmptySet
    <3>2. QED BY <3>1, UniverseLimits DEF JobsRight
  <2>4. IsPacket(Unasked) /\ Unasked.asked = 0 /\ Unasked.how = "none"
    BY DEF Unasked, IsPacket
  <2>5. PacketsRight
    BY <1>1, <2>4 DEF PacketsRight, LaterRefresh
  <2>6. QED BY <1>1, <2>2, <2>3, <2>5 DEF QueueInv
<1>5. CountsRight
  BY UniverseAssumption DEF CountsRight
<1>6. QED BY <1>2, <1>3, <1>4, <1>5 DEF MarketReadInv

LEMMA QueueStepsKeep ==
    ASSUME MarketReadInv,
           \/ TimerRefreshes
           \/ \E p \in Packets : PacketTimesOut(p) \/ \E c \in Contracts : PacketAsks(p, c)
           \/ \E l \in Lanes : JobEnds(l)
    PROVE  MarketReadInv' /\ observed' = observed
<1> USE DEF MarketReadInv
<1>1. QueueInv'
  BY TimerKeeps, TimesOutKeeps, AsksKeeps, JobEndsKeeps
<1>2. UNCHANGED <<service, tick, starts, barFaults>>
  BY DEF TimerRefreshes, PacketTimesOut, PacketAsks, JobEnds
<1>3. timers' = timers \/ (timers < MaxTimers /\ timers' = timers + 1)
  BY DEF TimerRefreshes, PacketTimesOut, PacketAsks, JobEnds
<1>4. CountsRight'
  BY <1>2, <1>3, UniverseAssumption DEF CountsRight
<1>5. ReadInv'
  BY <1>2 DEF service, ReadInv
<1>6. StartInv'
  BY <1>2 DEF StartInv, BudgetHolds
<1>7. QED BY <1>1, <1>2, <1>4, <1>5, <1>6 DEF service

LEMMA LaneStepsKeep ==
    ASSUME MarketReadInv,
           \/ \E l \in Lanes, storm \in BOOLEAN : JobStarts(l, storm)
           \/ \E l \in Lanes : StormGoesOn(l)
    PROVE  MarketReadInv' /\ observed' = observed
<1> USE DEF MarketReadInv
<1>1. UNCHANGED <<strays, observed, tick, starts, timers, barFaults>>
  <2>1. CASE \E l \in Lanes, storm \in BOOLEAN : JobStarts(l, storm)
    <3>1. PICK l \in Lanes, storm \in BOOLEAN : JobStarts(l, storm)
      BY <2>1
    <3>2. QED BY <3>1, Zenon DEF JobStarts
  <2>2. CASE \E l \in Lanes : StormGoesOn(l)
    BY <2>2 DEF StormGoesOn
  <2>3. QED BY <2>1, <2>2
<1>2. QueueInv'
  BY JobStartsKeeps, StormKeeps
<1>3. \/ UNCHANGED <<reads, sequence>>
      \/ \E l \in Lanes : \E job, S : /\ job.headroom \in Headrooms /\ job.serial \in BOOLEAN
                                  /\ Refreshes(l, job, S)
  <2>1. CASE \E l \in Lanes, storm \in BOOLEAN : JobStarts(l, storm)
    BY <2>1, JobStartsKeeps
  <2>2. CASE \E l \in Lanes : StormGoesOn(l)
    <3>1. PICK l \in Lanes : StormGoesOn(l)
      BY <2>2
    <3>2. Refreshes(l, running[l], {Head(running[l].left)})
      BY <3>1 DEF StormGoesOn
    <3>3. QED BY <3>1, <3>2, StormKeeps
  <2>3. QED BY <2>1, <2>2
<1>4. ReadInv'
  <2>1. CASE UNCHANGED <<reads, sequence>>
    BY <1>1, <2>1 DEF ReadInv
  <2>2. QED BY <1>1, <1>3, <2>1, RefreshesKeep
<1>5. StartInv' /\ CountsRight'
  BY <1>1 DEF StartInv, BudgetHolds, CountsRight
<1>6. QED BY <1>1, <1>2, <1>4, <1>5

(* What a step of the reads leaves to the queues, counts, and starts.         *)
ReadStepShape ==
    /\ UNCHANGED <<tick, jobs, running, packets, timers>>
    /\ barFaults' = barFaults \/ (barFaults < MaxBarFaults /\ barFaults' = barFaults + 1)
    /\ starts' = starts \/ \E h \in Headrooms : MayStartRead(h) /\ StartedCalls

LEMMA ReadStepsShape ==
    ASSUME ReadInv,
           \/ \E l \in Lanes : StrayStarts(l)
           \/ \E l \in Lanes, c \in Contracts : AcquiresStart(l, c) \/ BarsArrive(l, c) \/ BarsFail(l, c)
    PROVE  ReadStepShape
<1>1. CASE \E l \in Lanes : StrayStarts(l)
  BY <1>1, Zenon DEF StrayStarts, ReadStepShape
<1>2. CASE \E l \in Lanes, c \in Contracts : AcquiresStart(l, c)
  <2>1. PICK l \in Lanes, c \in Contracts : AcquiresStart(l, c)
    BY <1>2
  <2>2. reads[l][c].headroom \in Headrooms
    BY DEF ReadInv, ReadSet
  <2>3. QED BY <2>1, <2>2, Zenon DEF AcquiresStart, ReadStepShape
<1>3. CASE \E l \in Lanes, c \in Contracts : BarsArrive(l, c)
  BY <1>3, Zenon DEF BarsArrive, ReadStepShape
<1>4. CASE \E l \in Lanes, c \in Contracts : BarsFail(l, c)
  BY <1>4, Zenon DEF BarsFail, ReadStepShape
<1>5. QED BY <1>1, <1>2, <1>3, <1>4

LEMMA ReadStepsKeep ==
    ASSUME MarketReadInv,
           \/ \E l \in Lanes : StrayStarts(l)
           \/ \E l \in Lanes, c \in Contracts : AcquiresStart(l, c) \/ BarsArrive(l, c) \/ BarsFail(l, c)
    PROVE  MarketReadInv' /\ \A c \in Contracts : observed'[c].at >= observed[c].at
<1> USE DEF MarketReadInv
<1>1. ReadStepShape /\ UNCHANGED <<tick, jobs, running, packets, timers>>
  BY ReadStepsShape DEF ReadStepShape
<1>2. QueueInv'
  <2>1. PacketsMove
    BY <1>1, UniverseLimits, PacketsGoOn DEF QueueInv, PacketsRight
  <2>2. QED BY <1>1, <2>1, QueueStays
<1>3. CountsRight'
  BY <1>1, UniverseAssumption DEF ReadStepShape, CountsRight
<1>4. ReadInv' /\ \A c \in Contracts : observed'[c].at >= observed[c].at
  <2>1. CASE \E l \in Lanes : StrayStarts(l)
    <3>1. PICK l \in Lanes, h \in Headrooms :
             /\ strays[l][h] > 0 /\ strays' = [strays EXCEPT ![l][h] = @ - 1]
             /\ UNCHANGED <<tick, reads, sequence, observed>>
      BY <2>1 DEF StrayStarts
    <3>2. strays \in [Lanes -> [Headrooms -> Nat]] /\ strays[l] \in [Headrooms -> Nat]
          /\ strays[l][h] - 1 \in Nat
      BY <3>1 DEF ReadInv
    <3>3. strays' = [strays EXCEPT ![l] = [strays[l] EXCEPT ![h] = strays[l][h] - 1]]
      BY <3>1, <3>2
    <3>4. [strays[l] EXCEPT ![h] = strays[l][h] - 1] \in [Headrooms -> Nat]
      BY <3>2
    <3>5. strays' \in [Lanes -> [Headrooms -> Nat]]
      BY <3>2, <3>3, <3>4
    <3>6. \A c \in Contracts : observed[c].at \in Nat
      BY DEF ReadInv
    <3>7. QED BY <3>1, <3>5, <3>6 DEF ReadInv
  <2>2. QED BY <2>1, ReadsKeep
<1>5. StartInv'
  <2>1. CASE starts' = starts
    BY <1>1, <2>1 DEF StartInv, BudgetHolds
  <2>2. CASE \E h \in Headrooms : MayStartRead(h) /\ StartedCalls
    BY <1>1, <2>2, BudgetKeeps
  <2>3. QED BY <1>1, <2>1, <2>2 DEF ReadStepShape
<1>6. QED BY <1>2, <1>3, <1>4, <1>5

LEMMA ClockKeeps ==
    ASSUME MarketReadInv, TicksOn
    PROVE  MarketReadInv' /\ observed' = observed
<1> USE DEF MarketReadInv
<1>1. tick' = tick + 1 /\ tick \in Nat /\ tick >= 1 /\ tick < MaxTicks /\ MaxTicks \in Nat
      /\ UNCHANGED <<jobs, running, service, starts, packets, timers, barFaults>>
  BY UniverseLimits DEF TicksOn, ReadInv
<1>2. tick' \in 1 .. MaxTicks
  BY <1>1
<1>3. ReadInv'
  <2>1. \A l \in Lanes, c \in Contracts : reads[l][c].at \in Nat /\ observed[c].at \in Nat
    BY DEF ReadInv, ReadSet
  <2>2. \A l \in Lanes, c \in Contracts : reads[l][c].at <= tick' /\ observed[c].at <= tick'
    BY <1>1, <2>1 DEF ReadInv
  <2>3. "packet" \in Lanes
    BY DEF Lanes
  <2>4. QED BY <1>1, <1>2, <2>2, <2>3 DEF ReadInv, service
<1>4. StartInv'
  <2>1. [at : 1 .. tick, no : Nat] \subseteq [at : 1 .. tick + 1, no : Nat]
    BY <1>1
  <2>2. QED BY <1>1, <1>2, <2>1 DEF StartInv, BudgetHolds
<1>5. QueueInv'
  <2>1. PacketsRight'
    BY <1>1 DEF QueueInv, PacketsRight, LaterRefresh, IsPacket
  <2>2. QED BY <1>1, <1>2, <2>1 DEF QueueInv, JobsRight, RunRight, Asked, IsJob
<1>6. CountsRight'
  BY <1>1 DEF CountsRight
<1>7. QED BY <1>1, <1>3, <1>4, <1>5, <1>6 DEF service

LEMMA UniverseKeeps ==
    MarketReadInv /\ [UniverseNext]_universeVars =>
       MarketReadInv' /\ \A c \in Contracts : observed'[c].at >= observed[c].at
<1> SUFFICES ASSUME MarketReadInv, [UniverseNext]_universeVars
             PROVE  MarketReadInv' /\ \A c \in Contracts : observed'[c].at >= observed[c].at
  OBVIOUS
<1>0. \A c \in Contracts : observed[c].at \in Nat
  BY DEF MarketReadInv, ReadInv
<1>1. CASE UNCHANGED universeVars
  <2>1. ReadInv' /\ StartInv' /\ CountsRight'
    BY <1>1 DEF universeVars, MarketReadInv, ReadInv, StartInv, BudgetHolds, CountsRight
  <2>2. QueueInv'
    BY <1>1 DEF universeVars, MarketReadInv, QueueInv, JobsRight, RunRight, Asked, IsJob, PacketsRight,
                IsPacket, LaterRefresh
  <2>3. QED BY <1>0, <1>1, <2>1, <2>2 DEF universeVars, MarketReadInv
<1>2. CASE UniverseNext
  BY <1>0, <1>2, QueueStepsKeep, LaneStepsKeep, ReadStepsKeep, ClockKeeps DEF UniverseNext
<1>3. QED BY <1>1, <1>2

-----------------------------------------------------------------------------
(* For any contracts, packets, budgets, waits and faults: no window holds    *)
(* more starts of history downloads than the budget (starts, not what the    *)
(* client repeats of one), a packet that was answered waited for a refresh   *)
(* that began after it asked, and the observation of a contract never goes   *)
(* back, whatever order the refreshes of the two lanes end in                *)
(* (rate-aware-scheduler.ts, universe-refresh-queue.ts,                      *)
(* projectx-observation-service.ts).                                         *)
THEOREM BarsAreFresh == UniverseSpec => UniverseSafe
<1>1. UniverseSpec => []MarketReadInv
  <2>1. MarketReadInv /\ [UniverseNext]_universeVars => MarketReadInv'
    BY UniverseKeeps
  <2>2. QED BY <2>1, UniverseStarts, PTL DEF UniverseSpec
<1>2. MarketReadInv => UniverseInv
  <2>1. MarketReadInv => [at : 1 .. tick, no : Nat] \subseteq [at : 1 .. MaxTicks, no : Nat]
    BY UniverseLimits DEF MarketReadInv, ReadInv
  <2>2. QED BY <2>1 DEF MarketReadInv, ReadInv, StartInv, QueueInv, JobsRight, PacketsRight, CountsRight,
                        UniverseInv, UniverseTypeOK
<1>3. MarketReadInv /\ [UniverseNext]_universeVars =>
         [\A c \in Contracts : observed'[c].at >= observed[c].at]_universeVars
  BY UniverseKeeps
<1>4. UniverseSpec => NeverBack
  BY <1>1, <1>3, PTL DEF UniverseSpec, NeverBack
<1>5. QED BY <1>1, <1>2, <1>4, PTL DEF UniverseSafe
-----------------------------------------------------------------------------
LEMMA LeastOf ==
    ASSUME NEW S \in SUBSET Nat, S # {}
    PROVE  \E m \in S : \A n \in S : m <= n
<1> DEFINE R == OpToRel(<, Nat)
<1>1. IsWellFoundedOn(R, Nat)
  BY NatLessThanWellFounded, Zenon
<1>2. \A n, m \in Nat : n < m => <<n, m>> \in R
  BY Zenon DEF OpToRel
<1> HIDE DEF R
<1>3. PICK m \in S : \A n \in S : ~ (<<n, m>> \in R)
  BY <1>1, WFMin
<1>4. \A n \in S : m <= n
  <2> TAKE n \in S
  <2>1. n \in Nat /\ m \in Nat
    OBVIOUS
  <2>2. ~ (n < m)
    BY <1>2, <1>3, <2>1, Zenon
  <2>3. QED BY <2>1, <2>2
<1>5. QED BY <1>4

LEMMA GreatestOf ==
    ASSUME NEW S \in SUBSET Nat, S # {}, NEW n \in Nat, \A q \in S : q <= n
    PROVE  \E m \in S : \A q \in S : q <= m
<1> DEFINE T == {n - q : q \in S}
<1>1. \A q \in S : n - q \in Nat
  OBVIOUS
<1>a. T \in SUBSET Nat /\ T # {}
  BY <1>1
<1>2. PICK d \in T : \A e \in T : d <= e
  BY <1>a, LeastOf
<1>3. PICK m \in S : d = n - m
  OBVIOUS
<1>4. \A q \in S : n - m <= n - q
  BY <1>2, <1>3
<1>5. \A q \in S : q <= m
  BY <1>4
<1>6. QED BY <1>5

LEMMA GreatestIsMax ==
    ASSUME NEW S \in SUBSET Nat, S # {}, NEW n \in Nat, \A q \in S : q <= n
    PROVE  Max(S) \in S /\ \A q \in S : q <= Max(S)
<1>1. \E m \in S : \A q \in S : m >= q
  BY GreatestOf
<1>2. QED BY <1>1 DEF Max

(* Ownership.  What a record can hold of the orders and the trades.         *)
OrderStates == {"suspended", "working", "gone"}
SeenOrders == [id : OrderIds, state : OrderStates, at : Nat]
SeenTrades == [entry : Entries, size : Nat, voided : BOOLEAN]
Snapshots == [kind : {"snapshot"}, orders : SUBSET SeenOrders, trades : {{}}, taken : Nat]
Records == [kind : {"stream", "history"}, orders : SUBSET SeenOrders, trades : SUBSET SeenTrades] \cup Snapshots

OwnershipTypes ==
    /\ OwnershipTypeOK /\ moment \in Nat
    /\ orders \in [DOMAIN orders -> [state : OrderStates, at : Nat]]
    /\ \A id \in DOMAIN orders : orders[id].at <= moment
    /\ registered \in Seq(Entries)
    /\ wire \in Seq(Records) /\ evidence \in Seq(Records) /\ reading \in Snapshots \cup {NoOrderRead}

(* A record is never ahead of the venue's orders and fills, and has one     *)
(* trade of an entry.                                                       *)
Honest(r, issued, fills) ==
    /\ \A o \in r.orders : o.id \in DOMAIN issued /\ o.at <= issued[o.id].at
    /\ \A t \in r.trades : t.size <= fills[t.entry]
    /\ \A t, u \in r.trades : t.entry = u.entry => t = u

(* A snapshot still shows every order that has not changed since.           *)
OrderOf(issued, id) == [id |-> id, state |-> issued[id].state, at |-> issued[id].at]
Faithful(s, issued) ==
    /\ \A o \in s.orders : o.at <= s.taken /\ (issued[o.id].at <= s.taken => o = OrderOf(issued, o.id))
    /\ \A id \in DOMAIN issued :
         issued[id].at <= s.taken /\ IsWorking(OrderOf(issued, id)) => OrderOf(issued, id) \in s.orders

RecordsInv ==
    /\ \A i \in DOMAIN wire : wire[i].kind = "stream" /\ Honest(wire[i], orders, bought)
    /\ \A i \in DOMAIN evidence :
         /\ Honest(evidence[i], orders, bought)
         /\ evidence[i].kind = "snapshot" => evidence[i].taken <= moment /\ Faithful(evidence[i], orders)
    /\ reading # NoOrderRead =>
         Honest(reading, orders, bought) /\ reading.taken <= moment /\ Faithful(reading, orders)

(* The venue opens an entry once, sells of it only when it is filled, and   *)
(* what is wholly closed was exited, stopped or voided.                     *)
Closed == exits \cup stopped \cup voided
HoldsInv ==
    /\ \A e \in Entries : heldContracts[e] <= bought[e] /\ bought[e] <= Quantity[e]
    /\ \A e \in Entries : heldContracts[e] = bought[e] \/ bought[e] = Quantity[e]
    /\ \A e \in Entries : bought[e] > 0 => EntryOrder(e) \in DOMAIN orders
    /\ \A e \in Entries : EntryOrder(e) \in DOMAIN orders => e \in ToSet(registered)
    /\ \A e \in Entries : bought[e] > 0 /\ heldContracts[e] = 0 => e \in Closed
    /\ \A e \in exits : heldContracts[e] < bought[e] /\ bought[e] = Quantity[e]
    /\ \A e \in stopped \cup voided : heldContracts[e] = 0 /\ bought[e] = Quantity[e]

OwnershipIInv == OwnershipTypes /\ RecordsInv /\ HoldsInv
-----------------------------------------------------------------------------
LEMMA OwnershipNumbers ==
    /\ IsFiniteSet(Entries) /\ Quantity \in [Entries -> Nat] /\ \A e \in Entries : Quantity[e] > 0
    /\ Tagged \subseteq Entries /\ OpenedBefore \subseteq Entries
    /\ MaxGeneration \in Nat /\ MaxChanges \in Nat /\ MaxReads \in Nat /\ MaxWire \in Nat /\ MaxLost \in Nat
BY OwnershipAssumption

LEMMA EntryIds ==
    ASSUME NEW e \in Entries
    PROVE  EntryOrder(e) \in OrderIds /\ \A leg \in Legs : <<e, leg, 0>> \in OrderIds
BY OwnershipNumbers DEF EntryOrder, OrderIds, Legs

(* The entries of a finite set in some order.                               *)
LEMMA SequenceOfSet ==
    ASSUME NEW S, IsFiniteSet(S)
    PROVE  SetToSeq(S) \in Seq(S) /\ ToSet(SetToSeq(S)) = S
<1> DEFINE n == Cardinality(S)
           s == SetToSeq(S)
<1>1. n \in Nat /\ ExistsBijection(1 .. n, S)
  BY FS_CardinalityType
<1>2. PICK f \in Bijection(1 .. n, S) : TRUE
  BY <1>1 DEF ExistsBijection
<1>3. f \in [1 .. n -> S] /\ IsInjective(f)
  BY <1>2 DEF Bijection, Injection
<1>4. s \in [1 .. n -> S] /\ IsInjective(s)
  BY <1>3 DEF SetToSeq
<1>5. s \in Injection(1 .. n, S)
  BY <1>4 DEF Injection
<1>6. IsFiniteSet(1 .. n) /\ Cardinality(1 .. n) = n
  <2>1. IsFiniteSet(1 .. n) /\ Cardinality(1 .. n) = IF 1 > n THEN 0 ELSE n - 1 + 1
    BY <1>1, FS_Interval
  <2>2. QED BY <1>1, <2>1
<1>7. s \in Surjection(1 .. n, S)
  BY <1>5, <1>6, FS_Injection
<1>8. \A x \in S : \E i \in 1 .. n : s[i] = x
  BY <1>7 DEF Surjection
<1>9. s \in Seq(S) /\ DOMAIN s = 1 .. n
  BY <1>1, <1>4
<1>10. QED BY <1>4, <1>8, <1>9 DEF ToSet

LEMMA OwnershipInitially == ASSUME OwnershipInit PROVE OwnershipIInv
<1> USE DEF OwnershipInit
<1>1. DOMAIN orders = UNION {DOMAIN Bracket(e, 0, 0) : e \in OpenedBefore}
  OBVIOUS
<1>2. \A id \in DOMAIN orders : \E e \in OpenedBefore : id \in {EntryOrder(e), <<e, "stop", 0>>, <<e, "target", 0>>}
  BY <1>1 DEF Bracket
<1>3. DOMAIN orders \subseteq OrderIds
  <2>1. SUFFICES ASSUME NEW id \in DOMAIN orders PROVE id \in OrderIds
    OBVIOUS
  <2>2. PICK e \in OpenedBefore : id \in {EntryOrder(e), <<e, "stop", 0>>, <<e, "target", 0>>}
    BY <1>2
  <2>3. e \in Entries
    BY OwnershipNumbers
  <2>4. QED BY <2>2, <2>3, EntryIds DEF Legs
<1>4. \A id \in DOMAIN orders : orders[id].state \in {"gone", "working"} /\ orders[id].at = 0
                              /\ orders[id] = [state |-> orders[id].state, at |-> orders[id].at]
  OBVIOUS
<1>5. /\ heldContracts \in [Entries -> Nat] /\ bought \in [Entries -> Nat]
      /\ \A e \in Entries : heldContracts[e] = bought[e] /\ bought[e] = IF e \in OpenedBefore THEN Quantity[e] ELSE 0
  BY OwnershipNumbers
<1>6. IsFiniteSet(OpenedBefore)
  BY OwnershipNumbers, FS_Subset
<1>7. registered \in Seq(OpenedBefore) /\ ToSet(registered) = OpenedBefore
  BY <1>6, SequenceOfSet
<1>8. OwnershipTypeOK
  BY <1>3, <1>5, OwnershipNumbers DEF OwnershipTypeOK
<1>9. /\ evidence \in Seq(Records) /\ Len(evidence) = 1 /\ Honest(evidence[1], orders, bought) /\ evidence[1].kind = "history"
  <2>1. \A id \in DOMAIN orders : [id |-> id, state |-> orders[id].state, at |-> 0] \in SeenOrders
    BY <1>3, <1>4 DEF SeenOrders, OrderStates
  <2>2. \A e \in OpenedBefore : [entry |-> e, size |-> Quantity[e], voided |-> FALSE] \in SeenTrades
    BY OwnershipNumbers DEF SeenTrades
  <2>3. evidence[1].orders \subseteq SeenOrders /\ evidence[1].trades \subseteq SeenTrades
    BY <2>1, <2>2
  <2>4. evidence[1] \in Records
    BY <2>3 DEF Records
  <2>5. Honest(evidence[1], orders, bought)
    <3>1. \A o \in evidence[1].orders : o.id \in DOMAIN orders /\ o.at <= orders[o.id].at
      <4>1. evidence[1].orders = {[id |-> id, state |-> orders[id].state, at |-> 0] : id \in DOMAIN orders}
        OBVIOUS
      <4> SUFFICES ASSUME NEW o \in evidence[1].orders PROVE o.id \in DOMAIN orders /\ o.at <= orders[o.id].at
        OBVIOUS
      <4>2. PICK id \in DOMAIN orders : o = [id |-> id, state |-> orders[id].state, at |-> 0]
        BY <4>1, Zenon
      <4>3. o.id = id /\ o.at = 0
        BY <4>2
      <4>4. QED BY <4>3, <1>4
    <3>2. \A t \in evidence[1].trades : \E e \in OpenedBefore : t = [entry |-> e, size |-> Quantity[e], voided |-> FALSE]
      OBVIOUS
    <3>3. \A t \in evidence[1].trades : t.size <= bought[t.entry]
      BY <1>5, <3>2, OwnershipNumbers
    <3>4. \A t, u \in evidence[1].trades : t.entry = u.entry => t = u
      <4> SUFFICES ASSUME NEW t \in evidence[1].trades, NEW u \in evidence[1].trades, t.entry = u.entry PROVE t = u
        BY Zenon
      <4>1. PICK d \in OpenedBefore : t = [entry |-> d, size |-> Quantity[d], voided |-> FALSE]
        BY <3>2, Zenon
      <4>2. PICK e \in OpenedBefore : u = [entry |-> e, size |-> Quantity[e], voided |-> FALSE]
        BY <3>2, Zenon
      <4>3. t.entry = d /\ u.entry = e
        BY <4>1, <4>2
      <4>4. QED BY <4>1, <4>2, <4>3
    <3>5. QED BY <3>1, <3>3, <3>4 DEF Honest
  <2>6. QED BY <2>4, <2>5
<1>10. OwnershipTypes
  <2>1. orders \in [DOMAIN orders -> [state : OrderStates, at : Nat]]
    BY <1>4 DEF OrderStates
  <2>2. registered \in Seq(Entries)
    BY <1>7, OwnershipNumbers
  <2>3. QED BY <1>4, <1>8, <1>9, <2>1, <2>2, OwnershipNumbers DEF OwnershipTypes
<1>11. RecordsInv
  <2>1. DOMAIN evidence = {1} /\ DOMAIN wire = {}
    BY <1>9
  <2>2. reading = NoOrderRead
    OBVIOUS
  <2>3. QED BY <1>9, <2>1, <2>2 DEF RecordsInv
<1>12. HoldsInv
  <2>1. \A e \in Entries : bought[e] > 0 => EntryOrder(e) \in DOMAIN orders
    BY <1>1, <1>5 DEF Bracket
  <2>2. \A e \in Entries : EntryOrder(e) \in DOMAIN orders => e \in OpenedBefore
    BY <1>2 DEF EntryOrder
  <2>3. QED BY <1>5, <1>7, <2>1, <2>2, OwnershipNumbers DEF HoldsInv, Closed
<1>13. QED BY <1>10, <1>11, <1>12 DEF OwnershipIInv
-----------------------------------------------------------------------------
(* Records stay honest while orders get later states and fills grow, and a  *)
(* snapshot stays faithful while what changes is later than it.             *)
LEMMA StaysHonest ==
    ASSUME NEW r, NEW issued, NEW fills, NEW issued2, NEW fills2,
           r.trades \subseteq SeenTrades, r.orders \subseteq SeenOrders, Honest(r, issued, fills),
           \A id \in DOMAIN issued : issued[id].at \in Nat,
           \A id \in DOMAIN issued : id \in DOMAIN issued2 /\ issued2[id].at \in Nat /\ issued[id].at <= issued2[id].at,
           \A e \in Entries : fills[e] \in Nat /\ fills2[e] \in Nat /\ fills[e] <= fills2[e]
    PROVE  Honest(r, issued2, fills2)
<1>1. \A o \in r.orders : o.at \in Nat /\ o.id \in DOMAIN issued /\ o.at <= issued[o.id].at
  BY DEF Honest, SeenOrders
<1>2. \A o \in r.orders : o.id \in DOMAIN issued2 /\ o.at <= issued2[o.id].at
  BY <1>1
<1>3. \A t \in r.trades : t.size <= fills2[t.entry]
  BY DEF Honest, SeenTrades
<1>4. \A t, u \in r.trades : t.entry = u.entry => t = u
  BY DEF Honest
<1>5. QED BY <1>2, <1>3, <1>4 DEF Honest

LEMMA StaysFaithful ==
    ASSUME NEW s, NEW issued, NEW issued2, s.taken \in Nat,
           \A o \in s.orders : o.id \in DOMAIN issued, Faithful(s, issued),
           \A id \in DOMAIN issued : id \in DOMAIN issued2,
           \A id \in DOMAIN issued2 :
               \/ id \in DOMAIN issued /\ issued2[id] = issued[id]
               \/ issued2[id].at \in Nat /\ s.taken < issued2[id].at
    PROVE  Faithful(s, issued2)
<1>1. \A id \in DOMAIN issued2 : issued2[id].at <= s.taken =>
         id \in DOMAIN issued /\ issued2[id] = issued[id] /\ OrderOf(issued2, id) = OrderOf(issued, id)
  BY DEF OrderOf
<1>2. \A o \in s.orders : o.at <= s.taken /\ (issued2[o.id].at <= s.taken => o = OrderOf(issued2, o.id))
  BY <1>1 DEF Faithful
<1>3. \A id \in DOMAIN issued2 :
         issued2[id].at <= s.taken /\ IsWorking(OrderOf(issued2, id)) => OrderOf(issued2, id) \in s.orders
  BY <1>1 DEF Faithful
<1>4. QED BY <1>2, <1>3 DEF Faithful

LEMMA SnapshotsAreRecords ==
    /\ \A r \in Records : r.orders \subseteq SeenOrders /\ r.trades \subseteq SeenTrades
    /\ \A r \in Records : r.kind = "snapshot" => r \in Snapshots
    /\ \A r \in Snapshots : r \in Records /\ r.kind = "snapshot" /\ r.taken \in Nat
    /\ NoOrderRead \notin Snapshots
<1>1. \A r \in Records \ Snapshots : r.orders \subseteq SeenOrders /\ r.trades \subseteq SeenTrades /\ r.kind # "snapshot"
  BY DEF Records
<1>2. \A r \in Snapshots :
         r \in Records /\ r.orders \subseteq SeenOrders /\ r.trades = {} /\ r.kind = "snapshot" /\ r.taken \in Nat
  BY DEF Records, Snapshots
<1>3. NoOrderRead.kind = "none"
  BY DEF NoOrderRead
<1>4. QED BY <1>1, <1>2, <1>3

(* What one change at the venue does to the orders.                         *)
LEMMA OrdersAfter ==
    ASSUME OwnershipIInv, NEW ids \in SUBSET OrderIds, NEW states \in [ids -> OrderStates], Change(states)
    PROVE  /\ DOMAIN orders' = DOMAIN orders \cup ids /\ DOMAIN orders' \subseteq OrderIds
           /\ moment' \in Nat /\ moment' = moment + 1
           /\ orders' \in [DOMAIN orders' -> [state : OrderStates, at : Nat]]
           /\ \A id \in DOMAIN orders' : orders'[id].at <= moment'
           /\ \A id \in ids : orders'[id] = [state |-> states[id], at |-> moment + 1]
           /\ \A id \in DOMAIN orders \ ids : orders'[id] = orders[id]
<1>1. /\ DOMAIN orders \subseteq OrderIds /\ moment \in Nat /\ DOMAIN states = ids
      /\ orders \in [DOMAIN orders -> [state : OrderStates, at : Nat]]
      /\ \A id \in DOMAIN orders : orders[id].at <= moment
  BY DEF OwnershipIInv, OwnershipTypes, OwnershipTypeOK
<1>2. orders' = [id \in DOMAIN orders \cup ids |->
                    IF id \in ids THEN [state |-> states[id], at |-> moment + 1] ELSE orders[id]]
  BY <1>1 DEF Change
<1>3. moment' = moment + 1
  BY DEF Change
<1>4. /\ DOMAIN orders' = DOMAIN orders \cup ids
      /\ \A id \in ids : orders'[id] = [state |-> states[id], at |-> moment + 1]
      /\ \A id \in DOMAIN orders \ ids : orders'[id] = orders[id]
  BY <1>2, Zenon
<1>5. \A id \in DOMAIN orders' : orders'[id] \in [state : OrderStates, at : Nat] /\ orders'[id].at <= moment'
  <2> SUFFICES ASSUME NEW id \in DOMAIN orders'
               PROVE  orders'[id] \in [state : OrderStates, at : Nat] /\ orders'[id].at <= moment'
    OBVIOUS
  <2>1. CASE id \in ids
    <3>1. orders'[id] = [state |-> states[id], at |-> moment + 1] /\ states[id] \in OrderStates
      BY <1>4, <2>1, Zenon
    <3>2. QED BY <1>1, <1>3, <3>1
  <2>2. CASE id \notin ids
    <3>1. id \in DOMAIN orders /\ orders'[id] = orders[id]
      BY <1>4, <2>2, Zenon
    <3>2. orders[id] \in [state : OrderStates, at : Nat] /\ orders[id].at <= moment
      BY <1>1, <3>1
    <3>3. QED BY <1>1, <1>3, <3>1, <3>2
  <2>3. QED BY <2>1, <2>2
<1>6. orders' = [id \in DOMAIN orders' |-> orders'[id]]
  BY <1>2, <1>4, Zenon
<1>7. DOMAIN orders' \subseteq OrderIds
  BY <1>1, <1>4
<1>8. QED BY <1>1, <1>3, <1>4, <1>5, <1>6, <1>7

(* The event of a change tells the new states, and the fills as they are.   *)
EventOf(states, at, fills, gone, told) ==
    [kind |-> "stream",
     orders |-> {[id |-> id, state |-> states[id], at |-> at] : id \in DOMAIN states},
     trades |-> {[entry |-> e, size |-> fills[e], voided |-> e \in gone] : e \in told}]

LEMMA EventIsHonest ==
    ASSUME NEW ids \in SUBSET OrderIds, NEW states \in [ids -> OrderStates], NEW at \in Nat,
           NEW fills \in [Entries -> Nat], NEW gone, NEW told \in SUBSET Entries, NEW issued,
           \A id \in ids : id \in DOMAIN issued /\ issued[id].at = at
    PROVE  LET r == EventOf(states, at, fills, gone, told) IN
           r \in Records /\ r.kind = "stream" /\ Honest(r, issued, fills)
<1> DEFINE r == EventOf(states, at, fills, gone, told)
<1>1. \A o \in r.orders : o \in SeenOrders /\ o.id \in ids /\ o.at = at
  BY DEF EventOf, SeenOrders
<1>2. r.trades = {[entry |-> e, size |-> fills[e], voided |-> e \in gone] : e \in told}
  BY DEF EventOf
<1>3. \A t \in r.trades : t.entry \in told /\ t = [entry |-> t.entry, size |-> fills[t.entry], voided |-> t.entry \in gone]
  <2> SUFFICES ASSUME NEW t \in r.trades
               PROVE  t.entry \in told /\ t = [entry |-> t.entry, size |-> fills[t.entry], voided |-> t.entry \in gone]
    OBVIOUS
  <2>1. PICK e \in told : t = [entry |-> e, size |-> fills[e], voided |-> e \in gone]
    BY <1>2, Zenon
  <2>2. t.entry = e
    BY <2>1
  <2>3. QED BY <2>1, <2>2, Zenon
<1>4. \A t \in r.trades : t \in SeenTrades
  <2> TAKE t \in r.trades
  <2>1. t.entry \in Entries /\ fills[t.entry] \in Nat
    BY <1>3
  <2>2. \A b \in BOOLEAN : [entry |-> t.entry, size |-> fills[t.entry], voided |-> b] \in SeenTrades
    BY <2>1 DEF SeenTrades
  <2>3. (t.entry \in gone) = TRUE \/ (t.entry \in gone) = FALSE
    OBVIOUS
  <2>4. (t.entry \in gone) \in BOOLEAN
    BY <2>3
  <2>5. QED BY <1>3, <2>2, <2>4, Zenon
<1>5. \A t \in r.trades : t.size <= fills[t.entry]
  <2> TAKE t \in r.trades
  <2>1. t.size = fills[t.entry] /\ fills[t.entry] \in Nat
    BY <1>3
  <2>2. QED BY <2>1
<1>6. \A t, u \in r.trades : t.entry = u.entry => t = u
  BY <1>3, Zenon
<1>7. \A o \in r.orders : o.id \in DOMAIN issued /\ o.at <= issued[o.id].at
  BY <1>1
<1>8. Honest(r, issued, fills)
  BY <1>5, <1>6, <1>7 DEF Honest
<1>9. r.kind = "stream" /\ r = [kind |-> "stream", orders |-> r.orders, trades |-> r.trades]
  BY DEF EventOf
<1>10. r \in Records
  BY <1>1, <1>4, <1>9 DEF Records
<1>11. QED BY <1>8, <1>9, <1>10

LEMMA RecordsAfter ==
    ASSUME OwnershipIInv, NEW ids \in SUBSET OrderIds, NEW states \in [ids -> OrderStates], Change(states),
           bought' \in [Entries -> Nat], \A e \in Entries : bought[e] <= bought'[e]
    PROVE  /\ RecordsInv' /\ Len(wire') <= MaxWire
           /\ wire' \in Seq(Records) /\ evidence' \in Seq(Records) /\ reading' \in Snapshots \cup {NoOrderRead}
           /\ ownReads' \in 0 .. MaxReads /\ lost' \in 0 .. MaxLost
<1> DEFINE told == {x \in Entries : bought'[x] # bought[x] \/ x \in voided' \ voided}
           event == EventOf(states, moment + 1, bought', voided', told)
<1>1. /\ moment \in Nat /\ bought \in [Entries -> Nat] /\ reading \in Snapshots \cup {NoOrderRead}
      /\ wire \in Seq(Records) /\ evidence \in Seq(Records) /\ RecordsInv
      /\ orders \in [DOMAIN orders -> [state : OrderStates, at : Nat]]
      /\ \A id \in DOMAIN orders : orders[id].at <= moment
      /\ ownReads \in 0 .. MaxReads /\ lost \in 0 .. MaxLost
  BY DEF OwnershipIInv, OwnershipTypes, OwnershipTypeOK
<1>2. /\ wire' = Append(wire, event) /\ Len(wire) < MaxWire
      /\ evidence' = evidence /\ reading' = reading /\ ownReads' = ownReads /\ lost' = lost
  BY Zenon DEF Change, EventOf
<1>3. /\ DOMAIN orders' = DOMAIN orders \cup ids /\ moment' = moment + 1
      /\ \A id \in ids : orders'[id] = [state |-> states[id], at |-> moment + 1]
      /\ \A id \in DOMAIN orders \ ids : orders'[id] = orders[id]
  BY OrdersAfter
<1>4. /\ \A id \in DOMAIN orders : orders[id].at \in Nat /\ orders[id].at <= moment
      /\ \A id \in DOMAIN orders : orders'[id].at \in Nat /\ orders[id].at <= orders'[id].at /\ id \in DOMAIN orders'
      /\ \A id \in DOMAIN orders' : \/ id \in DOMAIN orders /\ orders'[id] = orders[id]
                                    \/ orders'[id].at = moment + 1
  <2>1. \A id \in DOMAIN orders : orders[id].at \in Nat /\ orders[id].at <= moment
    BY <1>1
  <2>2. \A id \in ids : orders'[id].at = moment + 1
    BY <1>3
  <2>3. \A id \in DOMAIN orders' : \/ id \in DOMAIN orders /\ orders'[id] = orders[id]
                                   \/ orders'[id].at = moment + 1
    BY <1>3, <2>2, Zenon
  <2>4. QED BY <1>1, <1>3, <2>1, <2>3
<1>5. \A r \in Records : Honest(r, orders, bought) => Honest(r, orders', bought')
  <2> SUFFICES ASSUME NEW r \in Records, Honest(r, orders, bought) PROVE Honest(r, orders', bought')
    BY Zenon
  <2>1. \A e \in Entries : bought[e] \in Nat /\ bought'[e] \in Nat /\ bought[e] <= bought'[e]
    BY <1>1
  <2>2. r.trades \subseteq SeenTrades /\ r.orders \subseteq SeenOrders
    BY SnapshotsAreRecords
  <2> HIDE DEF event, told
  <2>3. QED BY <1>4, <2>1, <2>2, StaysHonest
<1>6. \A s \in Snapshots :
         Honest(s, orders, bought) /\ s.taken <= moment /\ Faithful(s, orders) => s.taken <= moment' /\ Faithful(s, orders')
  <2> SUFFICES ASSUME NEW s \in Snapshots, Honest(s, orders, bought), s.taken <= moment, Faithful(s, orders)
               PROVE  s.taken <= moment' /\ Faithful(s, orders')
    BY Zenon
  <2>1. s.taken \in Nat
    BY SnapshotsAreRecords
  <2>2. \A o \in s.orders : o.id \in DOMAIN orders
    BY DEF Honest
  <2>3. \A id \in DOMAIN orders' : \/ id \in DOMAIN orders /\ orders'[id] = orders[id]
                                   \/ orders'[id].at \in Nat /\ s.taken < orders'[id].at
    BY <1>1, <1>4, <2>1
  <2>4. Faithful(s, orders')
    BY <1>4, <2>1, <2>2, <2>3, StaysFaithful
  <2>5. QED BY <1>1, <1>3, <2>1, <2>4
<1>7. event \in Records /\ event.kind = "stream" /\ Honest(event, orders', bought')
  <2>1. \A id \in ids : id \in DOMAIN orders' /\ orders'[id].at = moment + 1
    BY <1>3
  <2>2. moment + 1 \in Nat /\ told \in SUBSET Entries
    BY <1>1
  <2> HIDE DEF told
  <2>3. QED BY <2>1, <2>2, EventIsHonest
<1>8. wire' \in Seq(Records) /\ Len(wire') <= MaxWire /\ \A i \in DOMAIN wire' : wire'[i] = event \/ (i \in DOMAIN wire /\ wire'[i] = wire[i])
  <2> HIDE DEF event
  <2>1. wire' \in Seq(Records) /\ Len(wire') = Len(wire) + 1
    BY <1>1, <1>2, <1>7
  <2>2. \A i \in DOMAIN wire' : wire'[i] = event \/ (i \in DOMAIN wire /\ wire'[i] = wire[i])
    BY <1>1, <1>2, <1>7
  <2>3. QED BY <1>1, <1>2, <2>1, <2>2, OwnershipNumbers
<1>9. \A i \in DOMAIN wire' : wire'[i].kind = "stream" /\ Honest(wire'[i], orders', bought')
  <2>1. \A i \in DOMAIN wire : wire[i] \in Records /\ wire[i].kind = "stream" /\ Honest(wire[i], orders, bought)
    BY <1>1 DEF RecordsInv
  <2> HIDE DEF event
  <2>2. QED BY <1>5, <1>7, <1>8, <2>1
<1>10. \A i \in DOMAIN evidence' :
         /\ Honest(evidence'[i], orders', bought')
         /\ evidence'[i].kind = "snapshot" => evidence'[i].taken <= moment' /\ Faithful(evidence'[i], orders')
  <2> SUFFICES ASSUME NEW i \in DOMAIN evidence
               PROVE  /\ Honest(evidence[i], orders', bought')
                      /\ evidence[i].kind = "snapshot" => evidence[i].taken <= moment' /\ Faithful(evidence[i], orders')
    BY <1>2
  <2>1. /\ evidence[i] \in Records /\ Honest(evidence[i], orders, bought)
        /\ evidence[i].kind = "snapshot" => evidence[i].taken <= moment /\ Faithful(evidence[i], orders)
    BY <1>1 DEF RecordsInv
  <2>2. evidence[i].kind = "snapshot" => evidence[i] \in Snapshots
    BY <2>1, SnapshotsAreRecords
  <2>3. QED BY <1>5, <1>6, <2>1, <2>2
<1>11. reading' # NoOrderRead =>
         Honest(reading', orders', bought') /\ reading'.taken <= moment' /\ Faithful(reading', orders')
  <2> SUFFICES ASSUME reading # NoOrderRead
               PROVE  Honest(reading, orders', bought') /\ reading.taken <= moment' /\ Faithful(reading, orders')
    BY <1>2
  <2>1. reading \in Snapshots /\ reading \in Records
    BY <1>1, SnapshotsAreRecords
  <2>2. Honest(reading, orders, bought) /\ reading.taken <= moment /\ Faithful(reading, orders)
    BY <1>1 DEF RecordsInv
  <2>3. QED BY <1>5, <1>6, <2>1, <2>2
<1>12. RecordsInv'
  BY <1>9, <1>10, <1>11 DEF RecordsInv
<1>13. QED BY <1>1, <1>2, <1>8, <1>12
LEMMA TypesAfter ==
    ASSUME OwnershipIInv, NEW ids \in SUBSET OrderIds, NEW states \in [ids -> OrderStates], Change(states),
           heldContracts' \in [Entries -> Nat], bought' \in [Entries -> Nat],
           \A e \in Entries : bought[e] <= bought'[e],
           voided' \subseteq Entries, stopped' \subseteq Entries, exits' \subseteq Entries, registered' \in Seq(Entries)
    PROVE  OwnershipTypes' /\ RecordsInv'
<1>1. /\ RecordsInv' /\ Len(wire') <= MaxWire
      /\ wire' \in Seq(Records) /\ evidence' \in Seq(Records) /\ reading' \in Snapshots \cup {NoOrderRead}
      /\ ownReads' \in 0 .. MaxReads /\ lost' \in 0 .. MaxLost
  BY RecordsAfter
<1>2. /\ DOMAIN orders' \subseteq OrderIds /\ moment' \in Nat
      /\ orders' \in [DOMAIN orders' -> [state : OrderStates, at : Nat]]
      /\ \A id \in DOMAIN orders' : orders'[id].at <= moment'
  BY OrdersAfter
<1>3. OwnershipTypeOK'
  BY <1>1, <1>2 DEF OwnershipTypeOK
<1>4. QED BY <1>1, <1>2, <1>3 DEF OwnershipTypes

(* Which legs of an entry work after a change.                              *)
LEMMA LegsAfter ==
    ASSUME OwnershipIInv, NEW ids \in SUBSET OrderIds, NEW states \in [ids -> OrderStates], Change(states), NEW e
    PROVE  /\ (\A id \in ids : id[1] # e \/ id[2] \notin Legs) => VenueLegs(e)' = VenueLegs(e)
           /\ (\A id \in ids : states[id] = "gone") => VenueLegs(e)' = VenueLegs(e) \ ids
<1>1. /\ DOMAIN orders' = DOMAIN orders \cup ids
      /\ \A id \in ids : orders'[id] = [state |-> states[id], at |-> moment + 1]
      /\ \A id \in DOMAIN orders \ ids : orders'[id] = orders[id]
  BY OrdersAfter
<1>2. VenueLegs(e) = {id \in DOMAIN orders : id[1] = e /\ id[2] \in Legs /\ orders[id].state \in {"suspended", "working"}}
  BY DEF VenueLegs, IsWorking, Order
<1>3. VenueLegs(e)' = {id \in DOMAIN orders' : id[1] = e /\ id[2] \in Legs /\ orders'[id].state \in {"suspended", "working"}}
  BY DEF VenueLegs, IsWorking, Order
<1>4. \A id \in ids : orders'[id].state = states[id]
  BY <1>1
<1>5. ASSUME \A id \in ids : id[1] # e \/ id[2] \notin Legs PROVE VenueLegs(e)' = VenueLegs(e)
  BY <1>1, <1>2, <1>3, <1>5
<1>6. ASSUME \A id \in ids : states[id] = "gone" PROVE VenueLegs(e)' = VenueLegs(e) \ ids
  <2>1. \A id \in ids : orders'[id].state = "gone"
    BY <1>4, <1>6
  <2>2. QED BY <1>1, <1>2, <1>3, <2>1
<1>7. QED BY <1>5, <1>6

LEMMA HoldsNumbers ==
    ASSUME OwnershipIInv
    PROVE  /\ heldContracts \in [Entries -> Nat] /\ bought \in [Entries -> Nat] /\ Quantity \in [Entries -> Nat]
           /\ \A e \in Entries : Quantity[e] > 0 /\ bought[e] \in Nat /\ heldContracts[e] \in Nat
           /\ voided \subseteq Entries /\ stopped \subseteq Entries /\ exits \subseteq Entries
           /\ registered \in Seq(Entries)
BY OwnershipNumbers DEF OwnershipIInv, OwnershipTypes, OwnershipTypeOK

LEMMA LegIds ==
    ASSUME OwnershipIInv, NEW e
    PROVE  /\ VenueLegs(e) \subseteq OrderIds
           /\ \A id \in VenueLegs(e) : id \in DOMAIN orders /\ id[1] = e /\ id[2] \in Legs /\ id[2] # "entry"
BY DEF VenueLegs, OwnershipIInv, OwnershipTypes, OwnershipTypeOK, Legs

LEMMA AllLegIds == ASSUME OwnershipIInv PROVE LegsOfAll \subseteq DOMAIN orders
BY LegIds DEF LegsOfAll

LEMMA OneAppended ==
    ASSUME NEW S, NEW s \in Seq(S), NEW x \in S
    PROVE  Append(s, x) \in Seq(S) /\ ToSet(Append(s, x)) = ToSet(s) \cup {x}
<1>1. /\ Append(s, x) \in Seq(S) /\ DOMAIN s = 1 .. Len(s) /\ DOMAIN Append(s, x) = 1 .. Len(s) + 1 /\ Len(s) \in Nat
      /\ \A i \in 1 .. Len(s) : Append(s, x)[i] = s[i]
      /\ Append(s, x)[Len(s) + 1] = x
  OBVIOUS
<1>2. \A i \in DOMAIN Append(s, x) : i \in DOMAIN s \/ i = Len(s) + 1
  BY <1>1
<1>3. Len(s) + 1 \in DOMAIN Append(s, x) /\ \A i \in DOMAIN s : i \in DOMAIN Append(s, x)
  BY <1>1
<1>4. \A y : y \in ToSet(Append(s, x)) <=> y \in ToSet(s) \/ y = x
  BY <1>1, <1>2, <1>3, Zenon DEF ToSet
<1>5. QED BY <1>1, <1>4

LEMMA AcceptsKeeps == ASSUME OwnershipIInv, NEW e \in Entries, Accepts(e) PROVE OwnershipIInv'
<1> DEFINE states == Bracket(e, "working", "suspended")
           ids == {EntryOrder(e), <<e, "stop", 0>>, <<e, "target", 0>>}
<1>1. /\ Change(states) /\ registered' = Append(registered, e) /\ EntryOrder(e) \notin DOMAIN orders
      /\ heldContracts' = heldContracts /\ bought' = bought /\ voided' = voided /\ stopped' = stopped /\ exits' = exits
  BY DEF Accepts
<1>2. ids \in SUBSET OrderIds /\ states \in [ids -> OrderStates]
  BY EntryIds DEF Bracket, Legs, OrderStates
<1> HIDE DEF states
<1>3. registered' \in Seq(Entries) /\ ToSet(registered') = ToSet(registered) \cup {e}
  BY <1>1, HoldsNumbers, OneAppended
<1>4. OwnershipTypes' /\ RecordsInv'
  <2>1. \A x \in Entries : bought[x] <= bought'[x]
    BY <1>1, HoldsNumbers
  <2>2. /\ voided' \subseteq Entries /\ stopped' \subseteq Entries /\ exits' \subseteq Entries
        /\ heldContracts' \in [Entries -> Nat] /\ bought' \in [Entries -> Nat]
    BY <1>1, HoldsNumbers
  <2> HIDE DEF ids
  <2>3. QED BY <1>1, <1>2, <1>3, <2>1, <2>2, TypesAfter
<1>5. DOMAIN orders' = DOMAIN orders \cup ids
  BY <1>1, <1>2, OrdersAfter
<1>6. HoldsInv
  BY DEF OwnershipIInv
<1>7. \A x \in Entries : EntryOrder(x) \in ids => x = e
  BY DEF EntryOrder
<1>8. HoldsInv'
  <2>1. \A x \in Entries : bought[x] > 0 => EntryOrder(x) \in DOMAIN orders'
    BY <1>5, <1>6 DEF HoldsInv
  <2>2. \A x \in Entries : EntryOrder(x) \in DOMAIN orders' => x \in ToSet(registered')
    BY <1>3, <1>5, <1>6, <1>7 DEF HoldsInv
  <2>3. QED BY <1>1, <1>6, <2>1, <2>2 DEF HoldsInv, Closed
<1>9. QED BY <1>4, <1>8 DEF OwnershipIInv

LEMMA BuysKeeps == ASSUME OwnershipIInv, NEW e \in Entries, Buys(e) PROVE OwnershipIInv'
<1>1. PICK n \in 1 .. Quantity[e] - bought[e] :
          /\ bought' = [bought EXCEPT ![e] = @ + n] /\ heldContracts' = [heldContracts EXCEPT ![e] = @ + n]
          /\ UNCHANGED <<voided, stopped, registered, exits>>
          /\ Change([id \in {EntryOrder(e)} \cup VenueLegs(e) |->
                       IF id[2] # "entry" \/ bought[e] + n < Quantity[e] THEN "working" ELSE "gone"])
  BY DEF Buys
<1> DEFINE ids == {EntryOrder(e)} \cup VenueLegs(e)
           states == [id \in ids |-> IF id[2] # "entry" \/ bought[e] + n < Quantity[e] THEN "working" ELSE "gone"]
<1>2. ids \in SUBSET OrderIds /\ states \in [ids -> OrderStates] /\ Change(states)
  BY <1>1, EntryIds, LegIds DEF OrderStates
<1> HIDE DEF states
<1>3. EntryOrder(e) \in DOMAIN orders
  BY DEF Buys
<1>4. HoldsInv
  BY DEF OwnershipIInv
<1>5. n \in Nat /\ n > 0 /\ bought[e] + n <= Quantity[e] /\ bought[e] < Quantity[e]
  BY HoldsNumbers
<1>6. e \notin Closed /\ heldContracts[e] = bought[e]
  BY <1>4, <1>5, HoldsNumbers DEF HoldsInv, Closed
<1>7. /\ bought' \in [Entries -> Nat] /\ heldContracts' \in [Entries -> Nat]
      /\ bought'[e] = bought[e] + n /\ heldContracts'[e] = bought[e] + n
      /\ \A x \in Entries \ {e} : bought'[x] = bought[x] /\ heldContracts'[x] = heldContracts[x]
  BY <1>1, <1>5, <1>6, HoldsNumbers
<1>8. OwnershipTypes' /\ RecordsInv'
  <2>1. \A x \in Entries : bought[x] <= bought'[x]
    <3> TAKE x \in Entries
    <3>1. bought[x] \in Nat
      BY HoldsNumbers
    <3>2. CASE x = e
      BY <1>5, <1>7, <3>1, <3>2
    <3>3. CASE x # e
      BY <1>7, <3>1, <3>3
    <3>4. QED BY <3>2, <3>3
  <2>2. registered' \in Seq(Entries) /\ voided' \subseteq Entries /\ stopped' \subseteq Entries /\ exits' \subseteq Entries
    BY <1>1, HoldsNumbers
  <2> HIDE DEF ids
  <2>3. QED BY <1>2, <1>7, <2>1, <2>2, TypesAfter
<1>9. DOMAIN orders' = DOMAIN orders
  <2>1. ids \subseteq DOMAIN orders
    BY <1>3, LegIds
  <2> HIDE DEF ids
  <2>2. DOMAIN orders' = DOMAIN orders \cup ids
    BY <1>2, OrdersAfter
  <2>3. QED BY <2>1, <2>2
<1>10. HoldsInv'
  <2>1. \A x \in Entries : /\ heldContracts'[x] <= bought'[x] /\ bought'[x] <= Quantity[x]
                           /\ heldContracts'[x] = bought'[x] \/ bought'[x] = Quantity[x]
    <3> TAKE x \in Entries
    <3>1. CASE x = e
      BY <1>5, <1>7, <3>1, HoldsNumbers
    <3>2. CASE x # e
      BY <1>4, <1>7, <3>2 DEF HoldsInv
    <3>3. QED BY <3>1, <3>2
  <2>2. /\ \A x \in Entries : bought'[x] > 0 => EntryOrder(x) \in DOMAIN orders'
        /\ \A x \in Entries : EntryOrder(x) \in DOMAIN orders' => x \in ToSet(registered')
    BY <1>1, <1>3, <1>4, <1>7, <1>9 DEF HoldsInv
  <2>3. \A x \in Entries : bought'[x] > 0 /\ heldContracts'[x] = 0 => x \in Closed'
    BY <1>1, <1>4, <1>5, <1>7, HoldsNumbers DEF HoldsInv, Closed
  <2>4. \A x \in exits' : heldContracts'[x] < bought'[x] /\ bought'[x] = Quantity[x]
    BY <1>1, <1>4, <1>6, <1>7, HoldsNumbers DEF HoldsInv, Closed
  <2>5. \A x \in stopped' \cup voided' : heldContracts'[x] = 0 /\ bought'[x] = Quantity[x]
    BY <1>1, <1>4, <1>6, <1>7, HoldsNumbers DEF HoldsInv, Closed
  <2>6. /\ \A x \in Entries : heldContracts'[x] <= bought'[x] /\ bought'[x] <= Quantity[x]
        /\ \A x \in Entries : heldContracts'[x] = bought'[x] \/ bought'[x] = Quantity[x]
    BY <2>1
  <2>7. QED BY <2>2, <2>3, <2>4, <2>5, <2>6, Zenon DEF HoldsInv
<1>11. QED BY <1>8, <1>10 DEF OwnershipIInv

(* Contracts of filled entries are sold, with or without some of the legs.  *)
LEMMA SellingKeeps ==
    ASSUME OwnershipIInv, NEW ids \in SUBSET DOMAIN orders, Change(Gone(ids)),
           heldContracts' \in [Entries -> Nat], bought' = bought, registered' = registered,
           voided' \subseteq Entries, stopped' \subseteq Entries, exits' \subseteq Entries,
           \A x \in Entries : /\ heldContracts'[x] <= heldContracts[x]
                              /\ heldContracts'[x] = heldContracts[x] \/ bought[x] = Quantity[x]
                              /\ bought[x] > 0 /\ heldContracts'[x] = 0 => x \in Closed',
           \A x \in exits' : heldContracts'[x] < bought[x] /\ bought[x] = Quantity[x],
           \A x \in stopped' \cup voided' : heldContracts'[x] = 0 /\ bought[x] = Quantity[x]
    PROVE  OwnershipIInv'
<1> DEFINE states == Gone(ids)
<1>1. ids \in SUBSET OrderIds /\ states \in [ids -> OrderStates] /\ \A id \in ids : states[id] = "gone"
  BY DEF Gone, OrderStates, OwnershipIInv, OwnershipTypes, OwnershipTypeOK
<1> HIDE DEF states
<1>2. Change(states)
  BY Zenon DEF states
<1>3. OwnershipTypes' /\ RecordsInv'
  <2>1. \A x \in Entries : bought[x] <= bought'[x]
    BY HoldsNumbers
  <2>2. bought' \in [Entries -> Nat] /\ registered' \in Seq(Entries)
    BY HoldsNumbers
  <2>3. QED BY <1>1, <1>2, <2>1, <2>2, TypesAfter
<1>4. DOMAIN orders' = DOMAIN orders
  <2>1. DOMAIN orders' = DOMAIN orders \cup ids
    BY <1>1, <1>2, OrdersAfter
  <2>2. QED BY <2>1
<1>5. HoldsInv
  BY DEF OwnershipIInv
<1>6. \A x \in Entries : heldContracts'[x] \in Nat /\ heldContracts[x] \in Nat /\ bought[x] \in Nat /\ Quantity[x] \in Nat
  BY HoldsNumbers
<1>7. /\ \A x \in Entries : heldContracts'[x] <= bought'[x] /\ bought'[x] <= Quantity[x]
      /\ \A x \in Entries : heldContracts'[x] = bought'[x] \/ bought'[x] = Quantity[x]
  <2>1. \A x \in Entries : /\ heldContracts[x] <= bought[x] /\ bought[x] <= Quantity[x]
                           /\ heldContracts[x] = bought[x] \/ bought[x] = Quantity[x]
    BY <1>5 DEF HoldsInv
  <2> SUFFICES ASSUME NEW x \in Entries
               PROVE  /\ heldContracts'[x] <= bought[x] /\ bought[x] <= Quantity[x]
                      /\ heldContracts'[x] = bought[x] \/ bought[x] = Quantity[x]
    OBVIOUS
  <2>2. heldContracts'[x] <= heldContracts[x] /\ (heldContracts'[x] = heldContracts[x] \/ bought[x] = Quantity[x])
    OBVIOUS
  <2>3. QED BY <1>6, <2>1, <2>2
<1>8. /\ \A x \in Entries : bought'[x] > 0 => EntryOrder(x) \in DOMAIN orders'
      /\ \A x \in Entries : EntryOrder(x) \in DOMAIN orders' => x \in ToSet(registered')
  BY <1>4, <1>5 DEF HoldsInv
<1>9. HoldsInv'
  BY <1>7, <1>8 DEF HoldsInv
<1>10. QED BY <1>3, <1>9 DEF OwnershipIInv

(* Some or all contracts of one filled entry.                               *)
LEMMA EntrySold ==
    ASSUME OwnershipIInv, NEW e \in Entries, bought[e] = Quantity[e], NEW n \in Nat, n < heldContracts[e],
           NEW ids \in SUBSET DOMAIN orders, Change(Gone(ids)),
           heldContracts' = [heldContracts EXCEPT ![e] = n], bought' = bought, registered' = registered,
           exits' \in {exits, exits \cup {e}}, n > 0 => stopped' = stopped /\ voided' = voided,
           stopped' \in {stopped, stopped \cup {e}}, voided' \in {voided, voided \cup {e}},
           n = 0 => e \in Closed'
    PROVE  OwnershipIInv'
<1>1. HoldsInv
  BY DEF OwnershipIInv
<1>2. /\ heldContracts' \in [Entries -> Nat] /\ heldContracts'[e] = n /\ heldContracts[e] \in Nat /\ heldContracts[e] <= bought[e]
      /\ \A x \in Entries \ {e} : heldContracts'[x] = heldContracts[x]
      /\ \A x \in Entries : heldContracts[x] \in Nat /\ bought[x] \in Nat
  BY <1>1, HoldsNumbers DEF HoldsInv
<1>3. exits' \subseteq Entries /\ stopped' \subseteq Entries /\ voided' \subseteq Entries
  BY HoldsNumbers
<1>4. e \notin stopped \cup voided
  BY <1>1, <1>2 DEF HoldsInv
<1>5. \A x \in Entries : /\ heldContracts'[x] <= heldContracts[x]
                         /\ heldContracts'[x] = heldContracts[x] \/ bought[x] = Quantity[x]
  BY <1>2
<1>6. \A x \in Entries : bought[x] > 0 /\ heldContracts'[x] = 0 => x \in Closed'
  <2>1. Closed \subseteq Closed'
    BY DEF Closed
  <2>2. \A x \in Entries : bought[x] > 0 /\ heldContracts[x] = 0 => x \in Closed
    BY <1>1 DEF HoldsInv
  <2>3. QED BY <1>2, <2>1, <2>2
<1>7. \A x \in exits' : heldContracts'[x] < bought[x] /\ bought[x] = Quantity[x]
  <2>1. \A x \in exits : heldContracts[x] < bought[x] /\ bought[x] = Quantity[x]
    BY <1>1 DEF HoldsInv
  <2>2. n < bought[e]
    BY <1>2
  <2>3. QED BY <1>2, <1>3, <2>1, <2>2
<1>8. \A x \in stopped' \cup voided' : heldContracts'[x] = 0 /\ bought[x] = Quantity[x]
  <2>1. \A x \in stopped \cup voided : heldContracts[x] = 0 /\ bought[x] = Quantity[x]
    BY <1>1 DEF HoldsInv
  <2>2. CASE n = 0
    BY <1>2, <1>3, <2>1, <2>2
  <2>3. CASE n > 0
    BY <1>2, <1>3, <1>4, <2>1, <2>3
  <2>4. QED BY <2>2, <2>3
<1>9. QED BY <1>2, <1>3, <1>5, <1>6, <1>7, <1>8, SellingKeeps

LEMMA LegFillsKeeps == ASSUME OwnershipIInv, NEW e \in Entries, LegFills(e) PROVE OwnershipIInv'
<1>1. /\ bought[e] = Quantity[e] /\ heldContracts[e] > 0 /\ Change(Gone(VenueLegs(e)))
      /\ heldContracts' = [heldContracts EXCEPT ![e] = 0] /\ stopped' = stopped \cup {e}
      /\ bought' = bought /\ voided' = voided /\ registered' = registered /\ exits' = exits
  BY DEF LegFills
<1>2. VenueLegs(e) \in SUBSET DOMAIN orders
  BY LegIds
<1>3. e \in Closed'
  BY <1>1 DEF Closed
<1>4. PICK n \in Nat : n = 0
  OBVIOUS
<1>5. /\ n < heldContracts[e] /\ heldContracts' = [heldContracts EXCEPT ![e] = n]
      /\ n > 0 => stopped' = stopped /\ voided' = voided
      /\ exits' \in {exits, exits \cup {e}} /\ stopped' \in {stopped, stopped \cup {e}} /\ voided' \in {voided, voided \cup {e}}
  BY <1>1, <1>4
<1>6. QED BY <1>1, <1>2, <1>3, <1>5, EntrySold

LEMMA VoidsKeeps == ASSUME OwnershipIInv, NEW e \in Entries, Voids(e) PROVE OwnershipIInv'
<1>1. /\ bought[e] = Quantity[e] /\ heldContracts[e] = bought[e] /\ Change(Gone(VenueLegs(e)))
      /\ heldContracts' = [heldContracts EXCEPT ![e] = 0] /\ voided' = voided \cup {e}
      /\ bought' = bought /\ stopped' = stopped /\ registered' = registered /\ exits' = exits
  BY DEF Voids
<1>2. VenueLegs(e) \in SUBSET DOMAIN orders
  BY LegIds
<1>3. e \in Closed' /\ heldContracts[e] > 0
  BY <1>1, HoldsNumbers DEF Closed
<1>4. PICK n \in Nat : n = 0
  OBVIOUS
<1>5. /\ n < heldContracts[e] /\ heldContracts' = [heldContracts EXCEPT ![e] = n]
      /\ n > 0 => stopped' = stopped /\ voided' = voided
      /\ exits' \in {exits, exits \cup {e}} /\ stopped' \in {stopped, stopped \cup {e}} /\ voided' \in {voided, voided \cup {e}}
  BY <1>1, <1>3, <1>4
<1>6. QED BY <1>1, <1>2, <1>3, <1>5, EntrySold

LEMMA ExitsKeeps == ASSUME OwnershipIInv, NEW e \in Entries, Exits(e) PROVE OwnershipIInv'
<1>1. PICK n \in 1 .. heldContracts[e] :
        /\ bought[e] = Quantity[e]
        /\ heldContracts' = [heldContracts EXCEPT ![e] = @ - n] /\ exits' = exits \cup {e}
        /\ bought' = bought /\ stopped' = stopped /\ registered' = registered /\ voided' = voided
        /\ \E ids \in {{}, VenueLegs(e), LegsOfAll} : Change(Gone(ids))
  BY DEF Exits
<1>2. PICK ids \in {{}, VenueLegs(e), LegsOfAll} : Change(Gone(ids))
  BY <1>1
<1>3. ids \in SUBSET DOMAIN orders
  BY <1>2, LegIds, AllLegIds
<1> DEFINE m == heldContracts[e] - n
<1>4. m \in Nat /\ m < heldContracts[e] /\ heldContracts' = [heldContracts EXCEPT ![e] = m]
  BY <1>1, HoldsNumbers
<1>5. e \in Closed'
  BY <1>1 DEF Closed
<1> HIDE DEF m
<1>6. QED BY <1>1, <1>2, <1>3, <1>4, <1>5, EntrySold

LEMMA ReducesKeeps == ASSUME OwnershipIInv, NEW e \in Entries, Reduces(e) PROVE OwnershipIInv'
<1>1. PICK n \in 1 .. heldContracts[e] :
        /\ bought[e] = Quantity[e] /\ heldContracts' = [heldContracts EXCEPT ![e] = @ - n]
        /\ stopped' = IF n = heldContracts[e] THEN stopped \cup {e} ELSE stopped
        /\ bought' = bought /\ exits' = exits /\ registered' = registered /\ voided' = voided
        /\ \E ids \in {{}, LegsOfAll} : Change(Gone(ids))
  BY DEF Reduces
<1>2. PICK ids \in {{}, LegsOfAll} : Change(Gone(ids))
  BY <1>1
<1>3. ids \in SUBSET DOMAIN orders
  BY <1>2, AllLegIds
<1> DEFINE m == heldContracts[e] - n
<1>4. m \in Nat /\ m < heldContracts[e] /\ heldContracts' = [heldContracts EXCEPT ![e] = m] /\ (m = 0 <=> n = heldContracts[e])
  BY <1>1, HoldsNumbers
<1> HIDE DEF m
<1>5. m = 0 => e \in Closed'
  BY <1>1, <1>4 DEF Closed
<1>6. stopped' \in {stopped, stopped \cup {e}} /\ (m > 0 => stopped' = stopped)
  BY <1>1, <1>4
<1>7. QED BY <1>1, <1>2, <1>3, <1>4, <1>5, <1>6, EntrySold

LEMMA ClosesPositionKeeps == ASSUME OwnershipIInv, ClosesPosition PROVE OwnershipIInv'
<1>1. /\ \A e \in Entries : bought[e] \in {0, Quantity[e]}
      /\ heldContracts' = [e \in Entries |-> 0] /\ stopped' = stopped \cup {e \in Entries : heldContracts[e] > 0}
      /\ bought' = bought /\ exits' = exits /\ registered' = registered /\ voided' = voided
  BY DEF ClosesPosition
<1>2. PICK ids \in {{}, LegsOfAll} : Change(Gone(ids))
  BY DEF ClosesPosition
<1>3. ids \in SUBSET DOMAIN orders
  BY <1>2, AllLegIds
<1>4. HoldsInv
  BY DEF OwnershipIInv
<1>5. /\ heldContracts' \in [Entries -> Nat] /\ \A x \in Entries : heldContracts'[x] = 0
      /\ \A x \in Entries : heldContracts[x] \in Nat /\ bought[x] \in Nat /\ heldContracts[x] <= bought[x]
      /\ exits' \subseteq Entries /\ stopped' \subseteq Entries /\ voided' \subseteq Entries
  BY <1>1, <1>4, HoldsNumbers DEF HoldsInv
<1>6. \A x \in Entries : heldContracts'[x] <= heldContracts[x] /\ (heldContracts'[x] = heldContracts[x] \/ bought[x] = Quantity[x])
  BY <1>1, <1>5
<1>7. \A x \in Entries : bought[x] > 0 /\ heldContracts'[x] = 0 => x \in Closed'
  <2>1. \A x \in Entries : bought[x] > 0 => x \in Closed \/ heldContracts[x] > 0
    BY <1>4, <1>5 DEF HoldsInv
  <2>2. QED BY <1>1, <2>1 DEF Closed
<1>8. \A x \in exits' : heldContracts'[x] < bought[x] /\ bought[x] = Quantity[x]
  BY <1>1, <1>4, <1>5 DEF HoldsInv
<1>9. \A x \in stopped' \cup voided' : heldContracts'[x] = 0 /\ bought[x] = Quantity[x]
  BY <1>1, <1>4, <1>5 DEF HoldsInv
<1>10. QED BY <1>1, <1>2, <1>3, <1>5, <1>6, <1>7, <1>8, <1>9, SellingKeeps

(* Legs come and go; the contracts stay.                                    *)
LEMMA LegsChangeKeeps ==
    ASSUME OwnershipIInv, NEW e \in Entries,
           NEW ids \in SUBSET OrderIds, NEW states \in [ids -> OrderStates], Change(states),
           \A id \in ids : id[1] = e /\ id[2] \in Legs,
           UNCHANGED <<heldContracts, bought, voided, stopped, registered, exits>>
    PROVE  OwnershipIInv'
<1>1. OwnershipTypes' /\ RecordsInv'
  <2>1. \A x \in Entries : bought[x] <= bought'[x]
    BY HoldsNumbers
  <2>2. /\ heldContracts' \in [Entries -> Nat] /\ bought' \in [Entries -> Nat] /\ registered' \in Seq(Entries)
        /\ voided' \subseteq Entries /\ stopped' \subseteq Entries /\ exits' \subseteq Entries
    BY HoldsNumbers
  <2>3. QED BY <2>1, <2>2, TypesAfter
<1>2. DOMAIN orders' = DOMAIN orders \cup ids
  BY OrdersAfter
<1>3. \A x \in Entries : EntryOrder(x) \notin ids
  <2>1. \A x \in Entries : EntryOrder(x)[2] = "entry"
    BY DEF EntryOrder
  <2>2. QED BY <2>1 DEF Legs
<1>4. HoldsInv
  BY DEF OwnershipIInv
<1>5. HoldsInv'
  <2>1. /\ \A x \in Entries : bought[x] > 0 => EntryOrder(x) \in DOMAIN orders'
        /\ \A x \in Entries : EntryOrder(x) \in DOMAIN orders' => x \in ToSet(registered)
    BY <1>2, <1>3, <1>4 DEF HoldsInv
  <2>2. QED BY <1>4, <2>1 DEF HoldsInv, Closed
<1>6. QED BY <1>1, <1>5 DEF OwnershipIInv

LEMMA CancelsKeeps == ASSUME OwnershipIInv, NEW e \in Entries, Cancels(e) PROVE OwnershipIInv'
<1>1. /\ Change(Gone(VenueLegs(e)))
      /\ UNCHANGED <<heldContracts, bought, voided, stopped, registered, exits>>
  BY DEF Cancels
<1>2. VenueLegs(e) \in SUBSET OrderIds /\ Gone(VenueLegs(e)) \in [VenueLegs(e) -> OrderStates]
  BY LegIds DEF Gone, OrderStates
<1>3. \A id \in VenueLegs(e) : id[1] = e /\ id[2] \in Legs
  BY LegIds
<1>4. QED BY <1>1, <1>2, <1>3, LegsChangeKeeps

LEMMA RearmsKeeps == ASSUME OwnershipIInv, NEW e \in Entries, Rearms(e) PROVE OwnershipIInv'
<1> DEFINE g == NextGeneration(e)
           used == {id[3] : id \in {x \in DOMAIN orders : x[1] = e /\ x[2] \in Legs /\ (x[3] > 0 \/ e \in Tagged)}}
           next == {1} \cup {n + 1 : n \in used}
           ids == {<<e, leg, g>> : leg \in Legs}
           states == [id \in ids |-> "working"]
<1>1. /\ Change(states) /\ g <= MaxGeneration
      /\ UNCHANGED <<heldContracts, bought, voided, stopped, registered, exits>>
  BY DEF Rearms
<1>2. g \in Nat
  <2>1. \A n \in used : n \in 0 .. MaxGeneration
    <3>1. \A id \in DOMAIN orders : id[3] \in 0 .. MaxGeneration
      BY DEF OwnershipIInv, OwnershipTypes, OwnershipTypeOK, OrderIds
    <3>2. QED BY <3>1
  <2>2. g = Max(next)
    BY DEF NextGeneration
  <2> HIDE DEF used
  <2>3. next \in SUBSET Nat /\ next # {} /\ \A n \in next : n <= MaxGeneration + 1
    BY <2>1, OwnershipNumbers
  <2> HIDE DEF next, g
  <2>4. MaxGeneration + 1 \in Nat
    BY OwnershipNumbers
  <2>5. Max(next) \in next
    BY <2>3, <2>4, GreatestIsMax
  <2>6. QED BY <2>2, <2>3, <2>5
<1> HIDE DEF g
<1>3. ids \in SUBSET OrderIds
  BY <1>1, <1>2, OwnershipNumbers DEF OrderIds, Legs
<1>4. states \in [ids -> OrderStates] /\ \A id \in ids : id[1] = e /\ id[2] \in Legs
  BY DEF OrderStates
<1> HIDE DEF ids, states
<1>5. QED BY <1>1, <1>3, <1>4, LegsChangeKeeps

(* What leaves the venue alone.                                             *)
LEMMA VenueAsItWas ==
    ASSUME OwnershipIInv, UNCHANGED <<venueVars, registered, exits>>, RecordsInv',
           wire' \in Seq(Records), evidence' \in Seq(Records), reading' \in Snapshots \cup {NoOrderRead},
           Len(wire') <= MaxWire, ownReads' \in 0 .. MaxReads, lost' \in 0 .. MaxLost
    PROVE  OwnershipIInv'
<1>1. /\ orders' = orders /\ heldContracts' = heldContracts /\ bought' = bought /\ voided' = voided
      /\ stopped' = stopped /\ moment' = moment /\ registered' = registered /\ exits' = exits
  BY DEF venueVars
<1>2. HoldsInv'
  BY <1>1 DEF OwnershipIInv, HoldsInv, Closed
<1>3. OwnershipTypeOK'
  BY <1>1 DEF OwnershipIInv, OwnershipTypes, OwnershipTypeOK
<1>4. OwnershipTypes'
  BY <1>1, <1>3 DEF OwnershipIInv, OwnershipTypes
<1>5. QED BY <1>2, <1>4 DEF OwnershipIInv

LEMMA RecordNumbers ==
    ASSUME OwnershipIInv
    PROVE  /\ wire \in Seq(Records) /\ evidence \in Seq(Records) /\ reading \in Snapshots \cup {NoOrderRead}
           /\ Len(wire) <= MaxWire /\ ownReads \in 0 .. MaxReads /\ lost \in 0 .. MaxLost /\ moment \in Nat
           /\ \A i \in DOMAIN wire : wire[i].kind = "stream" /\ Honest(wire[i], orders, bought)
           /\ \A i \in DOMAIN evidence :
                /\ Honest(evidence[i], orders, bought)
                /\ evidence[i].kind = "snapshot" => evidence[i].taken <= moment /\ Faithful(evidence[i], orders)
           /\ reading # NoOrderRead =>
                Honest(reading, orders, bought) /\ reading.taken <= moment /\ Faithful(reading, orders)
           /\ orders \in [DOMAIN orders -> [state : OrderStates, at : Nat]] /\ DOMAIN orders \subseteq OrderIds
           /\ \A id \in DOMAIN orders : Order(id) \in SeenOrders /\ orders[id].at \in Nat /\ orders[id].at <= moment
<1>1. \A id \in DOMAIN orders : Order(id) \in SeenOrders /\ orders[id].at \in Nat /\ orders[id].at <= moment
  BY DEF OwnershipIInv, OwnershipTypes, OwnershipTypeOK, Order, SeenOrders
<1>2. QED BY <1>1 DEF OwnershipIInv, RecordsInv, OwnershipTypes, OwnershipTypeOK

(* One more record among the evidence.                                      *)
LEMMA EvidenceGrows ==
    ASSUME OwnershipIInv, UNCHANGED <<venueVars, registered, exits>>,
           NEW r \in Records, evidence' = Append(evidence, r), Honest(r, orders, bought),
           r.kind = "snapshot" => r.taken <= moment /\ Faithful(r, orders)
    PROVE  /\ evidence' \in Seq(Records)
           /\ \A i \in DOMAIN evidence' :
                /\ Honest(evidence'[i], orders', bought')
                /\ evidence'[i].kind = "snapshot" => evidence'[i].taken <= moment' /\ Faithful(evidence'[i], orders')
<1>1. orders' = orders /\ bought' = bought /\ moment' = moment
  BY DEF venueVars
<1>2. \A i \in DOMAIN evidence' : evidence'[i] = r \/ (i \in DOMAIN evidence /\ evidence'[i] = evidence[i])
  BY RecordNumbers
<1>3. evidence' \in Seq(Records)
  BY RecordNumbers
<1>4. QED BY <1>1, <1>2, <1>3, RecordNumbers

LEMMA RecordsEventKeeps == ASSUME OwnershipIInv, RecordsEvent PROVE OwnershipIInv'
<1>1. /\ wire # <<>> /\ evidence' = Append(evidence, Head(wire)) /\ wire' = Tail(wire)
      /\ UNCHANGED <<venueVars, registered, exits>> /\ reading' = reading /\ ownReads' = ownReads /\ lost' = lost
  BY DEF RecordsEvent
<1>2. /\ wire \in Seq(Records) /\ Head(wire) = wire[1] /\ 1 \in DOMAIN wire /\ Head(wire) \in Records
      /\ wire' \in Seq(Records) /\ Len(wire') = Len(wire) - 1
      /\ \A i \in DOMAIN wire' : i + 1 \in DOMAIN wire /\ wire'[i] = wire[i + 1]
  BY <1>1, RecordNumbers
<1>3. Head(wire).kind = "stream" /\ Honest(Head(wire), orders, bought)
  BY <1>2, RecordNumbers
<1>4. /\ evidence' \in Seq(Records)
      /\ \A i \in DOMAIN evidence' :
           /\ Honest(evidence'[i], orders', bought')
           /\ evidence'[i].kind = "snapshot" => evidence'[i].taken <= moment' /\ Faithful(evidence'[i], orders')
  BY <1>1, <1>2, <1>3, EvidenceGrows
<1>5. orders' = orders /\ bought' = bought /\ moment' = moment
  BY <1>1 DEF venueVars
<1>6. \A i \in DOMAIN wire' : wire'[i].kind = "stream" /\ Honest(wire'[i], orders', bought')
  BY <1>2, <1>5, RecordNumbers
<1>7. RecordsInv'
  BY <1>1, <1>4, <1>5, <1>6, RecordNumbers DEF RecordsInv
<1>8. Len(wire') <= MaxWire /\ ownReads' \in 0 .. MaxReads /\ lost' \in 0 .. MaxLost /\ reading' \in Snapshots \cup {NoOrderRead}
  <2>1. Len(wire) \in Nat /\ MaxWire \in Nat
    BY <1>2, OwnershipNumbers
  <2>2. QED BY <1>1, <1>2, <2>1, RecordNumbers
<1>9. QED BY <1>1, <1>2, <1>4, <1>7, <1>8, VenueAsItWas

LEMMA LosesStreamKeeps == ASSUME OwnershipIInv, LosesStream PROVE OwnershipIInv'
<1>1. /\ wire' = <<>> /\ evidence' = evidence /\ lost' = lost + 1 /\ lost < MaxLost
      /\ UNCHANGED <<venueVars, registered, exits>> /\ reading' = reading /\ ownReads' = ownReads
  BY DEF LosesStream
<1>2. orders' = orders /\ bought' = bought /\ moment' = moment
  BY <1>1 DEF venueVars
<1>3. RecordsInv'
  BY <1>1, <1>2, RecordNumbers DEF RecordsInv
<1>4. /\ wire' \in Seq(Records) /\ evidence' \in Seq(Records) /\ reading' \in Snapshots \cup {NoOrderRead}
      /\ Len(wire') <= MaxWire /\ ownReads' \in 0 .. MaxReads /\ lost' \in 0 .. MaxLost
  BY <1>1, RecordNumbers, OwnershipNumbers
<1>5. QED BY <1>1, <1>3, <1>4, VenueAsItWas

LEMMA ReadsSnapshotKeeps == ASSUME OwnershipIInv, ReadsSnapshot PROVE OwnershipIInv'
<1> DEFINE s == [kind |-> "snapshot", orders |-> OpenOrdersAtVenue, trades |-> {}, taken |-> moment]
<1>1. /\ reading' = s /\ wire' = wire /\ evidence' = evidence /\ ownReads < MaxReads /\ ownReads' = ownReads + 1
      /\ UNCHANGED <<venueVars, registered, exits>> /\ lost' = lost
  BY DEF ReadsSnapshot
<1>2. orders' = orders /\ bought' = bought /\ moment' = moment
  BY <1>1 DEF venueVars
<1>3. OpenOrdersAtVenue \subseteq SeenOrders
      /\ \A o \in OpenOrdersAtVenue : o.id \in DOMAIN orders /\ o = OrderOf(orders, o.id) /\ o.at = orders[o.id].at
  <2> SUFFICES ASSUME NEW o \in OpenOrdersAtVenue
               PROVE  o \in SeenOrders /\ o.id \in DOMAIN orders /\ o = OrderOf(orders, o.id) /\ o.at = orders[o.id].at
    OBVIOUS
  <2>1. PICK id \in DOMAIN orders : o = Order(id)
    BY DEF OpenOrdersAtVenue
  <2>2. o.id = id /\ o.at = orders[id].at /\ o \in SeenOrders
    BY <2>1, RecordNumbers DEF Order
  <2>3. QED BY <2>1, <2>2 DEF Order, OrderOf
<1>4. s \in Snapshots /\ s.taken = moment /\ s.orders = OpenOrdersAtVenue /\ s.trades = {}
  BY <1>3, RecordNumbers DEF Snapshots
<1> HIDE DEF s
<1>5. Honest(s, orders, bought)
  BY <1>3, <1>4, RecordNumbers DEF Honest
<1>6. Faithful(s, orders)
  <2>1. \A o \in s.orders : o.at <= s.taken /\ o = OrderOf(orders, o.id)
    BY <1>3, <1>4, RecordNumbers
  <2>2. \A id \in DOMAIN orders : OrderOf(orders, id) = Order(id)
    BY DEF Order, OrderOf
  <2>3. \A id \in DOMAIN orders : IsWorking(OrderOf(orders, id)) => OrderOf(orders, id) \in s.orders
    BY <1>4, <2>2 DEF OpenOrdersAtVenue
  <2>4. QED BY <2>1, <2>3 DEF Faithful
<1>7. RecordsInv'
  <2>1. s.taken <= moment
    BY <1>4, RecordNumbers
  <2>2. QED BY <1>1, <1>2, <1>5, <1>6, <2>1, RecordNumbers DEF RecordsInv
<1>8. /\ wire' \in Seq(Records) /\ evidence' \in Seq(Records) /\ reading' \in Snapshots \cup {NoOrderRead}
      /\ Len(wire') <= MaxWire /\ ownReads' \in 0 .. MaxReads /\ lost' \in 0 .. MaxLost
  BY <1>1, <1>4, RecordNumbers, OwnershipNumbers
<1>9. QED BY <1>1, <1>7, <1>8, VenueAsItWas

LEMMA RecordsSnapshotKeeps == ASSUME OwnershipIInv, RecordsSnapshot PROVE OwnershipIInv'
<1>1. /\ reading # NoOrderRead /\ evidence' = Append(evidence, reading) /\ reading' = NoOrderRead /\ wire' = wire
      /\ UNCHANGED <<venueVars, registered, exits>> /\ ownReads' = ownReads /\ lost' = lost
  BY DEF RecordsSnapshot
<1>2. reading \in Records
  BY <1>1, RecordNumbers, SnapshotsAreRecords
<1>3. Honest(reading, orders, bought) /\ reading.taken <= moment /\ Faithful(reading, orders)
  BY <1>1, RecordNumbers
<1>4. /\ evidence' \in Seq(Records)
      /\ \A i \in DOMAIN evidence' :
           /\ Honest(evidence'[i], orders', bought')
           /\ evidence'[i].kind = "snapshot" => evidence'[i].taken <= moment' /\ Faithful(evidence'[i], orders')
  BY <1>1, <1>2, <1>3, EvidenceGrows
<1>5. orders' = orders /\ bought' = bought /\ moment' = moment
  BY <1>1 DEF venueVars
<1>6. RecordsInv'
  BY <1>1, <1>4, <1>5, RecordNumbers DEF RecordsInv
<1>7. /\ wire' \in Seq(Records) /\ reading' \in Snapshots \cup {NoOrderRead}
      /\ Len(wire') <= MaxWire /\ ownReads' \in 0 .. MaxReads /\ lost' \in 0 .. MaxLost
  BY <1>1, RecordNumbers
<1>8. QED BY <1>1, <1>4, <1>6, <1>7, VenueAsItWas

LEMMA BackfillsKeeps == ASSUME OwnershipIInv, Backfills PROVE OwnershipIInv'
<1> DEFINE r == [kind |-> "history", orders |-> {Order(id) : id \in DOMAIN orders},
                 trades |-> {Trade(e) : e \in {x \in Entries : bought[x] > 0}}]
<1>1. /\ evidence' = Append(evidence, r) /\ reading' = reading /\ wire' = wire
      /\ UNCHANGED <<venueVars, registered, exits>> /\ ownReads < MaxReads /\ ownReads' = ownReads + 1 /\ lost' = lost
  BY DEF Backfills
<1>2. \A t \in r.trades : t \in SeenTrades /\ t.size = bought[t.entry] /\ t = Trade(t.entry)
  <2> SUFFICES ASSUME NEW t \in r.trades PROVE t \in SeenTrades /\ t.size = bought[t.entry] /\ t = Trade(t.entry)
    OBVIOUS
  <2>1. PICK e \in Entries : t = Trade(e)
    OBVIOUS
  <2>2. t.entry = e /\ t.size = bought[e] /\ bought[e] \in Nat
    BY <2>1, HoldsNumbers DEF Trade
  <2>3. (e \in voided) = TRUE \/ (e \in voided) = FALSE
    OBVIOUS
  <2>4. \A b \in BOOLEAN : [entry |-> e, size |-> bought[e], voided |-> b] \in SeenTrades
    BY <2>2 DEF SeenTrades
  <2>5. (e \in voided) \in BOOLEAN
    BY <2>3
  <2>6. t \in SeenTrades
    BY <2>1, <2>4, <2>5, Zenon DEF Trade
  <2>7. QED BY <2>1, <2>2, <2>6
<1>3. \A o \in r.orders : o \in SeenOrders /\ o.id \in DOMAIN orders /\ o.at <= orders[o.id].at
  <2> SUFFICES ASSUME NEW o \in r.orders PROVE o \in SeenOrders /\ o.id \in DOMAIN orders /\ o.at <= orders[o.id].at
    OBVIOUS
  <2>1. PICK id \in DOMAIN orders : o = Order(id)
    OBVIOUS
  <2>2. o.id = id /\ o.at = orders[id].at
    BY <2>1 DEF Order
  <2>3. QED BY <2>1, <2>2, RecordNumbers
<1>4. r \in Records /\ r.kind = "history"
  BY <1>2, <1>3 DEF Records
<1> HIDE DEF r
<1>5. Honest(r, orders, bought)
  <2>1. \A t \in r.trades : t.size <= bought[t.entry]
    <3> TAKE t \in r.trades
    <3>1. t.size = bought[t.entry] /\ t.size \in Nat
      BY <1>2 DEF SeenTrades
    <3>2. QED BY <3>1
  <2>2. \A t, u \in r.trades : t.entry = u.entry => t = u
    BY <1>2, Zenon
  <2>3. QED BY <1>3, <2>1, <2>2 DEF Honest
<1>6. /\ evidence' \in Seq(Records)
      /\ \A i \in DOMAIN evidence' :
           /\ Honest(evidence'[i], orders', bought')
           /\ evidence'[i].kind = "snapshot" => evidence'[i].taken <= moment' /\ Faithful(evidence'[i], orders')
  BY <1>1, <1>4, <1>5, EvidenceGrows
<1>7. orders' = orders /\ bought' = bought /\ moment' = moment
  BY <1>1 DEF venueVars
<1>8. RecordsInv'
  BY <1>1, <1>6, <1>7, RecordNumbers DEF RecordsInv
<1>9. /\ wire' \in Seq(Records) /\ reading' \in Snapshots \cup {NoOrderRead}
      /\ Len(wire') <= MaxWire /\ ownReads' \in 0 .. MaxReads /\ lost' \in 0 .. MaxLost
  BY <1>1, RecordNumbers, OwnershipNumbers
<1>10. QED BY <1>1, <1>6, <1>8, <1>9, VenueAsItWas

LEMMA OwnershipKept == ASSUME OwnershipIInv, [OwnershipNext]_ownershipVars PROVE OwnershipIInv'
<1>1. CASE \E e \in Entries : Accepts(e) \/ Buys(e) \/ LegFills(e) \/ Cancels(e) \/ Voids(e) \/ Rearms(e)
  BY <1>1, AcceptsKeeps, BuysKeeps, LegFillsKeeps, CancelsKeeps, VoidsKeeps, RearmsKeeps
<1>5. CASE (\E e \in Entries : Exits(e) \/ Reduces(e)) \/ ClosesPosition
  BY <1>5, ExitsKeeps, ReducesKeeps, ClosesPositionKeeps
<1>2. CASE RecordsEvent \/ LosesStream \/ ReadsSnapshot \/ RecordsSnapshot \/ Backfills
  BY <1>2, RecordsEventKeeps, LosesStreamKeeps, ReadsSnapshotKeeps, RecordsSnapshotKeeps, BackfillsKeeps
<1>3. CASE UNCHANGED ownershipVars
  <2>1. /\ UNCHANGED <<venueVars, registered, exits>> /\ wire' = wire /\ evidence' = evidence /\ reading' = reading
        /\ ownReads' = ownReads /\ lost' = lost
    BY <1>3 DEF ownershipVars, venueVars
  <2>2. RecordsInv'
    BY <2>1, RecordNumbers DEF RecordsInv, venueVars
  <2>3. QED BY <2>1, <2>2, RecordNumbers, VenueAsItWas
<1>4. QED BY <1>1, <1>2, <1>3, <1>5 DEF OwnershipNext
-----------------------------------------------------------------------------
(* What the covered evidence says: the open orders are the venue's.         *)
NewestRow == Max(Rows({"snapshot"}))

LEMMA NewestIsARow ==
    ASSUME OwnershipIInv, NEW kinds, Rows(kinds) # {}
    PROVE  Max(Rows(kinds)) \in Rows(kinds) /\ Rows(kinds) \subseteq DOMAIN evidence
<1>1. Len(evidence) \in Nat /\ DOMAIN evidence = 1 .. Len(evidence)
  BY RecordNumbers
<1>2. Rows(kinds) \in SUBSET Nat /\ (\A i \in Rows(kinds) : i <= Len(evidence)) /\ Rows(kinds) \subseteq DOMAIN evidence
  BY <1>1 DEF Rows
<1>3. QED BY <1>1, <1>2, GreatestIsMax

LEMMA OpenIsVenue == ASSUME OwnershipIInv, Covered PROVE OpenOrders = OpenOrdersAtVenue
<1> DEFINE s == evidence[NewestRow]
           S == NewestSnapshot
           B == EventsSince
<1>1. /\ Rows({"snapshot"}) # {}
      /\ \A order \in LatestById(B) : order = Order(order.id)
      /\ \A id \in DOMAIN orders : orders[id].at > s.taken => Order(id) \in LatestById(B)
  BY DEF Covered, NewestRow
<1>2. NewestRow \in DOMAIN evidence /\ s.kind = "snapshot" /\ S = s.orders
  <2>1. NewestRow \in Rows({"snapshot"}) /\ Rows({"snapshot"}) \subseteq DOMAIN evidence
    BY <1>1, NewestIsARow DEF NewestRow
  <2>2. S = s.orders
    BY <1>1 DEF NewestRow, NewestSnapshot
  <2>3. QED BY <2>1, <2>2 DEF Rows
<1>3. s \in Snapshots /\ s.taken \in Nat /\ Honest(s, orders, bought) /\ Faithful(s, orders)
  BY <1>2, RecordNumbers, SnapshotsAreRecords
<1> HIDE DEF s
<1>4. \A o \in B : o \in SeenOrders /\ o.id \in DOMAIN orders /\ o.at <= orders[o.id].at
  <2> SUFFICES ASSUME NEW o \in B PROVE o \in SeenOrders /\ o.id \in DOMAIN orders /\ o.at <= orders[o.id].at
    OBVIOUS
  <2>1. PICK i \in DOMAIN evidence : o \in evidence[i].orders
    BY DEF EventsSince, Rows
  <2>2. evidence[i] \in Records /\ Honest(evidence[i], orders, bought)
    BY RecordNumbers
  <2>3. QED BY <2>1, <2>2, SnapshotsAreRecords DEF Honest
<1>5. \A o \in S : o \in SeenOrders /\ o.id \in DOMAIN orders /\ o.at <= orders[o.id].at
  <2>1. s.orders \subseteq SeenOrders
    BY <1>3, SnapshotsAreRecords
  <2>2. QED BY <1>2, <1>3, <2>1 DEF Honest
<1>6. \A o \in S \cup B : o \in SeenOrders /\ o.at \in Nat /\ o.id \in DOMAIN orders /\ o.at <= orders[o.id].at
  BY <1>4, <1>5 DEF SeenOrders
<1>7. \A id \in DOMAIN orders : Order(id).id = id /\ Order(id).at = orders[id].at /\ orders[id].at \in Nat
                              /\ OrderOf(orders, id) = Order(id)
  BY RecordNumbers DEF Order, OrderOf
<1> HIDE DEF S, B
<1>8. ASSUME NEW o \in LatestById(S \cup B) PROVE o = Order(o.id) /\ o.id \in DOMAIN orders
  <2>1. o \in S \cup B /\ \A other \in S \cup B : other.id = o.id => other.at <= o.at
    BY <1>8 DEF LatestById
  <2>2. CASE o \in B
    <3>1. o \in LatestById(B)
      BY <2>1, <2>2 DEF LatestById
    <3>2. QED BY <1>1, <1>6, <2>1, <3>1
  <2>3. CASE o \in S
    <3>1. o.at <= s.taken /\ (orders[o.id].at <= s.taken => o = Order(o.id))
      BY <1>2, <1>3, <1>6, <1>7, <2>3 DEF Faithful
    <3>2. CASE orders[o.id].at <= s.taken
      BY <1>6, <2>1, <3>1, <3>2
    <3>3. CASE ~ (orders[o.id].at <= s.taken)
      <4>1. o.id \in DOMAIN orders /\ orders[o.id].at \in Nat /\ orders[o.id].at > s.taken
        BY <1>3, <1>6, <1>7, <2>1, <3>3
      <4>2. Order(o.id) \in B
        BY <1>1, <4>1 DEF LatestById
      <4>3. orders[o.id].at <= o.at
        BY <1>7, <2>1, <4>1, <4>2
      <4>4. QED BY <1>3, <1>6, <2>1, <3>1, <4>1, <4>3
    <3>4. QED BY <3>2, <3>3
  <2>4. QED BY <2>1, <2>2, <2>3
<1>9. ASSUME NEW id \in DOMAIN orders, IsWorking(Order(id)) PROVE Order(id) \in LatestById(S \cup B)
  <2>1. Order(id) \in S \cup B
    <3>1. CASE orders[id].at <= s.taken
      BY <1>2, <1>3, <1>7, <1>9, <3>1 DEF Faithful
    <3>2. CASE ~ (orders[id].at <= s.taken)
      <4>1. orders[id].at > s.taken
        BY <1>3, <1>7, <3>2
      <4>2. QED BY <1>1, <4>1 DEF LatestById
    <3>3. QED BY <3>1, <3>2
  <2>2. \A other \in S \cup B : other.id = Order(id).id => other.at <= Order(id).at
    BY <1>6, <1>7
  <2>3. QED BY <2>1, <2>2 DEF LatestById
<1>10. OpenOrders = {o \in LatestById(S \cup B) : IsWorking(o)}
  BY DEF OpenOrders, S, B
<1>11. \A o : o \in OpenOrders <=> o \in OpenOrdersAtVenue
  BY <1>8, <1>9, <1>10 DEF OpenOrdersAtVenue
<1>12. QED BY <1>11

(* The trades recorded last are the venue's.                                *)
LEMMA FilledIsBought ==
    ASSUME OwnershipIInv, Covered, NEW e \in Entries
    PROVE  FilledQuantity(e) = IF e \in voided THEN 0 ELSE bought[e]
<1> DEFINE rows == TradesSeen(e)
           m == Max(rows)
           last == CHOOSE trade \in evidence[m].trades : trade.entry = e
<1>1. HoldsInv
  BY DEF OwnershipIInv
<1>2. rows \subseteq DOMAIN evidence /\ \A i \in rows : \E trade \in evidence[i].trades : trade.entry = e
  BY DEF TradesSeen, Rows
<1>3. rows # {} => m \in rows
  <2>1. Len(evidence) \in Nat /\ DOMAIN evidence = 1 .. Len(evidence)
    BY RecordNumbers
  <2>2. rows \in SUBSET Nat /\ \A i \in rows : i <= Len(evidence)
    BY <1>2, <2>1
  <2> HIDE DEF rows
  <2>3. QED BY <2>1, <2>2, GreatestIsMax
<1>4. FilledQuantity(e) = IF rows = {} THEN 0 ELSE IF last.voided THEN 0 ELSE last.size
  BY DEF FilledQuantity
<1>5. bought[e] > 0 => rows # {} /\ Trade(e) \in evidence[m].trades
  BY DEF Covered
<1>6. bought[e] \in Nat /\ (e \in voided => bought[e] > 0)
  BY <1>1, HoldsNumbers DEF HoldsInv, Closed
<1> HIDE DEF rows, m
<1>7. CASE rows = {}
  BY <1>4, <1>5, <1>6, <1>7
<1>8. CASE rows # {}
  <2>1. m \in DOMAIN evidence /\ last \in evidence[m].trades /\ last.entry = e
    BY <1>2, <1>3, <1>8
  <2> HIDE DEF last
  <2>2. Honest(evidence[m], orders, bought) /\ evidence[m].trades \subseteq SeenTrades
    BY <2>1, RecordNumbers, SnapshotsAreRecords
  <2>3. last.size \in Nat /\ last.size <= bought[e]
    BY <2>1, <2>2 DEF Honest, SeenTrades
  <2>4. CASE bought[e] > 0
    <3>1. Trade(e) \in evidence[m].trades /\ Trade(e).entry = e
      BY <1>5, <2>4 DEF Trade
    <3>2. last = Trade(e)
      BY <2>1, <2>2, <3>1, Zenon DEF Honest
    <3>3. last.size = bought[e] /\ last.voided = (e \in voided)
      BY <3>2, Zenon DEF Trade
    <3>4. QED BY <1>4, <1>8, <3>3
  <2>5. CASE ~ (bought[e] > 0)
    BY <1>4, <1>6, <1>8, <2>3, <2>5
  <2>6. QED BY <2>4, <2>5
<1>9. QED BY <1>7, <1>8

(* An entry has a live leg in the projection when one works at the venue.   *)
LEMMA LegsAreVenues ==
    ASSUME OwnershipIInv, NEW e \in Entries, NEW kind \in Legs
    PROVE  /\ \A o \in Leg(OpenOrdersAtVenue, e, kind) :
                o.id \in DOMAIN orders /\ o.id[1] = e /\ o.id[2] = kind /\ o = Order(o.id) /\ o.id \in VenueLegs(e)
           /\ (\E id \in VenueLegs(e) : id[2] = kind) => Leg(OpenOrdersAtVenue, e, kind) # {}
<1> DEFINE open == OpenOrdersAtVenue
           own == {order \in open : order.id[1] = e /\ order.id[2] = kind}
           withTag == {order \in own : order.id[3] > 0 \/ e \in Tagged}
           newest == {order \in withTag : \A other \in withTag : other.id[3] <= order.id[3]}
<1>1. Leg(open, e, kind) = IF withTag # {} THEN newest ELSE IF Cardinality(own) = 1 THEN own ELSE {}
  BY DEF Leg
<1>2. \A o \in open : \E id \in DOMAIN orders : o = Order(id) /\ IsWorking(Order(id))
  BY DEF OpenOrdersAtVenue
<1>3. \A id \in DOMAIN orders : Order(id).id = id
  BY DEF Order
<1>4. \A o \in open : o.id \in DOMAIN orders /\ o = Order(o.id) /\ IsWorking(o)
  BY <1>2, <1>3
<1>5. \A o \in own : o.id \in DOMAIN orders /\ o.id[1] = e /\ o.id[2] = kind /\ o = Order(o.id) /\ o.id \in VenueLegs(e)
  BY <1>4 DEF VenueLegs
<1>6. Leg(open, e, kind) \subseteq own
  BY <1>1
<1>7. ASSUME NEW id \in VenueLegs(e), id[2] = kind PROVE Leg(open, e, kind) # {}
  <2>1. Order(id) \in own
    BY <1>3, <1>7 DEF VenueLegs, OpenOrdersAtVenue
  <2>2. \A o \in own : o.id[3] \in 0 .. MaxGeneration /\ o.id = <<o.id[1], o.id[2], o.id[3]>>
    BY <1>5, RecordNumbers DEF OrderIds
  <2>3. CASE withTag # {}
    <3> DEFINE numbers == {o.id[3] : o \in withTag}
    <3>1. numbers \in SUBSET Nat /\ numbers # {} /\ \A n \in numbers : n <= MaxGeneration
      BY <2>2, <2>3, OwnershipNumbers
    <3>2. PICK n \in numbers : \A q \in numbers : q <= n
      <4> HIDE DEF numbers
      <4>1. QED BY <3>1, OwnershipNumbers, GreatestOf
    <3>3. PICK o \in withTag : o.id[3] = n
      OBVIOUS
    <3>4. o \in newest
      BY <3>2, <3>3
    <3>5. QED BY <1>1, <2>3, <3>4
  <2>4. CASE withTag = {}
    <3>1. \A o \in own : o.id[3] = 0
      BY <2>2, <2>4, OwnershipNumbers
    <3>2. \A o \in own : o = Order(<<e, kind, 0>>)
      BY <1>5, <2>2, <3>1
    <3>3. own = {Order(<<e, kind, 0>>)}
      BY <2>1, <3>2
    <3> HIDE DEF own
    <3>4. Cardinality(own) = 1
      BY <3>3, FS_Singleton
    <3>5. QED BY <1>1, <2>1, <2>4, <3>4
  <2>5. QED BY <2>3, <2>4
<1>8. QED BY <1>5, <1>6, <1>7

LEMMA LiveLegIsVenues ==
    ASSUME OwnershipIInv, Covered, NEW e \in Entries
    PROVE  HasLiveLeg(OpenOrders, e) <=> VenueLegs(e) # {}
<1>1. OpenOrders = OpenOrdersAtVenue
  BY OpenIsVenue
<1>2. ASSUME HasLiveLeg(OpenOrdersAtVenue, e) PROVE VenueLegs(e) # {}
  BY <1>2, LegsAreVenues DEF HasLiveLeg
<1>3. ASSUME VenueLegs(e) # {} PROVE HasLiveLeg(OpenOrdersAtVenue, e)
  <2>1. PICK id \in VenueLegs(e) : id[2] \in Legs
    BY <1>3, LegIds
  <2>2. QED BY <2>1, LegsAreVenues DEF HasLiveLeg
<1>4. QED BY <1>1, <1>2, <1>3

(* What the venue holds, and how the claims on it rank.                     *)
HeldEntries == {e \in Entries : heldContracts[e] > 0}

LEMMA HeldAreFilled ==
    ASSUME OwnershipIInv, Covered
    PROVE  /\ HeldEntries \subseteq FilledEntries /\ FilledEntries \subseteq Entries
           /\ \A e \in FilledEntries : FilledQuantity(e) \in Nat /\ FilledQuantity(e) > 0 /\ FilledQuantity(e) = bought[e]
           /\ \A e \in HeldEntries : heldContracts[e] \in Nat /\ heldContracts[e] > 0 /\ heldContracts[e] <= FilledQuantity(e)
           /\ \A e \in HeldEntries : e \in exits => heldContracts[e] < bought[e]
           /\ \A e \in FilledEntries \ HeldEntries : heldContracts[e] = 0 /\ e \in exits \cup stopped
<1>1. HoldsInv
  BY DEF OwnershipIInv
<1>2. \A e \in Entries : FilledQuantity(e) = IF e \in voided THEN 0 ELSE bought[e]
  BY FilledIsBought
<1>3. ToSet(registered) \subseteq Entries
  BY HoldsNumbers DEF ToSet
<1>4. FilledEntries = {e \in ToSet(registered) : FilledQuantity(e) > 0}
  BY DEF FilledEntries
<1>5. \A e \in HeldEntries : /\ e \in Entries /\ e \notin voided /\ heldContracts[e] \in Nat /\ heldContracts[e] > 0
                             /\ heldContracts[e] <= bought[e] /\ bought[e] > 0 /\ (e \in exits => heldContracts[e] < bought[e])
  BY <1>1, HoldsNumbers DEF HoldsInv, HeldEntries
<1>6. \A e \in HeldEntries : e \in ToSet(registered) /\ heldContracts[e] <= FilledQuantity(e) /\ FilledQuantity(e) > 0
  BY <1>1, <1>2, <1>5 DEF HoldsInv
<1>7. \A e \in FilledEntries : e \in Entries /\ e \notin voided /\ FilledQuantity(e) = bought[e] /\ bought[e] > 0
  BY <1>2, <1>3, <1>4
<1>8. ASSUME NEW e \in FilledEntries \ HeldEntries
      PROVE heldContracts[e] = 0 /\ e \in exits \cup stopped
  <2>1. e \in Entries /\ heldContracts[e] = 0 /\ bought[e] > 0 /\ e \notin voided
    BY <1>7, <1>8, HoldsNumbers DEF HeldEntries
  <2>2. e \in Closed
    BY <1>1, <2>1 DEF HoldsInv
  <2>3. QED BY <2>1, <2>2 DEF Closed
<1>9. QED BY <1>4, <1>5, <1>6, <1>7, <1>8, HoldsNumbers

LEMMA Ranks ==
    ASSUME OwnershipIInv, Covered, NEW e \in FilledEntries
    PROVE  /\ OrderRank(OpenOrders, e) \in {1, 2, 3}
           /\ OrderRank(OpenOrders, e) = 1 <=> VenueLegs(e) # {}
           /\ VenueLegs(e) = {} => (OrderRank(OpenOrders, e) = 2 <=> e \notin exits)
<1>1. e \in Entries
  BY HeldAreFilled
<1>2. HasLiveLeg(OpenOrders, e) <=> VenueLegs(e) # {}
  BY <1>1, LiveLegIsVenues
<1>3. OrderRank(OpenOrders, e) = IF VenueLegs(e) # {} THEN 1 ELSE IF e \notin exits THEN 2 ELSE 3
  BY <1>2, Zenon DEF OrderRank, ExitTargeted
<1>4. QED BY <1>3

(* Counting contracts entry by entry.                                       *)
LEMMA ContractsAre ==
    ASSUME NEW D, NEW counts \in [D -> Nat]
    PROVE  ContractsOf(counts) = {c \in D \X Nat : c[2] \in 1 .. counts[c[1]]}
<1>1. ContractsOf(counts) = UNION {{d} \X (1 .. counts[d]) : d \in D}
  BY DEF ContractsOf
<1>2. ASSUME NEW c \in ContractsOf(counts) PROVE c \in D \X Nat /\ c[2] \in 1 .. counts[c[1]]
  <2>1. PICK d \in D : c \in {d} \X (1 .. counts[d])
    BY <1>1
  <2>2. counts[d] \in Nat
    OBVIOUS
  <2>3. QED BY <2>1, <2>2
<1>3. ASSUME NEW c \in D \X Nat, c[2] \in 1 .. counts[c[1]] PROVE c \in ContractsOf(counts)
  <2>1. c[1] \in D /\ c = <<c[1], c[2]>>
    OBVIOUS
  <2>2. c \in {c[1]} \X (1 .. counts[c[1]])
    BY <1>3, <2>1
  <2>3. QED BY <1>1, <2>1, <2>2
<1>4. QED BY <1>2, <1>3

LEMMA ContractsFinite ==
    ASSUME NEW D, IsFiniteSet(D), NEW counts \in [D -> Nat]
    PROVE  IsFiniteSet(ContractsOf(counts)) /\ Cardinality(ContractsOf(counts)) \in Nat
<1> DEFINE row == [d \in D |-> {d} \X (1 .. counts[d])]
           rows == {row[d] : d \in D}
<1>1. ContractsOf(counts) = UNION rows
  BY DEF ContractsOf
<1>2. row \in [D -> rows] /\ \A r \in rows : \E d \in D : row[d] = r
  OBVIOUS
<1>3. row \in Surjection(D, rows)
  BY <1>2, Zenon DEF Surjection
<1>4. IsFiniteSet(rows)
  <2> HIDE DEF row, rows
  <2>1. QED BY <1>3, FS_Surjection
<1>5. \A r \in rows : IsFiniteSet(r)
  <2> SUFFICES ASSUME NEW d \in D PROVE IsFiniteSet({d} \X (1 .. counts[d]))
    OBVIOUS
  <2>1. IsFiniteSet({d})
    BY FS_Singleton
  <2>2. counts[d] \in Int /\ 1 \in Int
    OBVIOUS
  <2>3. IsFiniteSet(1 .. counts[d])
    BY <2>2, FS_Interval
  <2>4. QED BY <2>1, <2>3, FS_Product
<1>6. IsFiniteSet(ContractsOf(counts))
  <2> HIDE DEF rows
  <2>1. QED BY <1>1, <1>4, <1>5, FS_UNION
<1>7. QED BY <1>6, FS_CardinalityType

LEMMA OneEntryContracts ==
    ASSUME NEW e, NEW n \in Nat
    PROVE  IsFiniteSet({e} \X (1 .. n)) /\ Cardinality({e} \X (1 .. n)) = n
<1>1. IsFiniteSet({e}) /\ Cardinality({e}) = 1
  BY FS_Singleton
<1>2. IsFiniteSet(1 .. n) /\ Cardinality(1 .. n) = IF 1 > n THEN 0 ELSE n - 1 + 1
  BY FS_Interval
<1>3. IsFiniteSet({e} \X (1 .. n)) /\ Cardinality({e} \X (1 .. n)) = 1 * Cardinality(1 .. n)
  BY <1>1, <1>2, FS_Product
<1>4. QED BY <1>2, <1>3

(* The claims of some wholly held entries leave room for each other held    *)
(* entry, and the claims of all held ones leave none.                       *)
TakenBy(before) == Cardinality(ContractsOf([d \in before |-> FilledQuantity(d)]))

LEMMA OthersLeaveRoom ==
    ASSUME OwnershipIInv, Covered, NEW before \in SUBSET HeldEntries, NEW e \in HeldEntries, e \notin before,
           \A d \in before : heldContracts[d] = bought[d]
    PROVE  /\ TakenBy(before) \in Nat /\ OpenContracts \in Nat /\ heldContracts[e] \in Nat
           /\ TakenBy(before) + heldContracts[e] <= OpenContracts
<1> DEFINE claims == [d \in before |-> FilledQuantity(d)]
           A == ContractsOf(claims)
           B == {e} \X (1 .. heldContracts[e])
           C == ContractsOf(heldContracts)
<1>1. HeldEntries \subseteq Entries /\ IsFiniteSet(Entries) /\ heldContracts \in [Entries -> Nat]
  BY HoldsNumbers, OwnershipNumbers DEF HeldEntries
<1>2. \A d \in before : FilledQuantity(d) = heldContracts[d] /\ heldContracts[d] \in Nat /\ d \in Entries
  BY <1>1, HeldAreFilled
<1>3. claims \in [before -> Nat] /\ \A d \in before : claims[d] = heldContracts[d]
  BY <1>2
<1>4. heldContracts[e] \in Nat /\ e \in Entries
  BY <1>1
<1> HIDE DEF claims
<1>5. IsFiniteSet(before)
  <2>1. before \in SUBSET Entries
    BY <1>1
  <2>2. QED BY <1>1, <2>1, FS_Subset
<1>6. IsFiniteSet(A) /\ Cardinality(A) \in Nat /\ IsFiniteSet(C) /\ Cardinality(C) \in Nat
  BY <1>1, <1>3, <1>5, ContractsFinite
<1>7. IsFiniteSet(B) /\ Cardinality(B) = heldContracts[e]
  BY <1>4, OneEntryContracts
<1>8. A = {c \in before \X Nat : c[2] \in 1 .. claims[c[1]]} /\ C = {c \in Entries \X Nat : c[2] \in 1 .. heldContracts[c[1]]}
  BY <1>1, <1>3, ContractsAre
<1>9. A \cap B = {}
  BY <1>8
<1>10. A \cup B \in SUBSET C
  <2>1. A \subseteq C
    BY <1>2, <1>3, <1>8
  <2>2. B \subseteq C
    BY <1>4, <1>8
  <2>3. QED BY <2>1, <2>2
<1> HIDE DEF A, B, C
<1>11. Cardinality(A \cup B) = Cardinality(A) + Cardinality(B) - Cardinality(A \cap B)
  BY <1>6, <1>7, FS_Union
<1>12. Cardinality(A \cap B) = 0
  BY <1>9, FS_EmptySet
<1>13. Cardinality(A \cup B) <= Cardinality(C)
  BY <1>6, <1>10, FS_Subset
<1>14. TakenBy(before) = Cardinality(A) /\ OpenContracts = Cardinality(C)
  BY Zenon DEF TakenBy, OpenContracts, A, C, claims
<1>15. QED BY <1>4, <1>6, <1>7, <1>11, <1>12, <1>13, <1>14

LEMMA AllLeaveNothing ==
    ASSUME OwnershipIInv, Covered, NEW before \in SUBSET FilledEntries, HeldEntries \subseteq before
    PROVE  TakenBy(before) \in Nat /\ OpenContracts \in Nat /\ OpenContracts <= TakenBy(before)
<1> DEFINE claims == [d \in before |-> FilledQuantity(d)]
           A == ContractsOf(claims)
           C == ContractsOf(heldContracts)
<1>1. IsFiniteSet(Entries) /\ heldContracts \in [Entries -> Nat] /\ before \subseteq Entries
  BY HoldsNumbers, OwnershipNumbers, HeldAreFilled
<1>2. \A d \in before : FilledQuantity(d) \in Nat
  BY HeldAreFilled
<1>3. claims \in [before -> Nat]
  BY <1>2
<1>4. \A d \in HeldEntries : claims[d] \in Nat /\ heldContracts[d] \in Nat /\ heldContracts[d] <= claims[d]
  BY HeldAreFilled
<1> HIDE DEF claims
<1>5. IsFiniteSet(before)
  BY <1>1, FS_Subset
<1>6. IsFiniteSet(A) /\ Cardinality(A) \in Nat /\ Cardinality(C) \in Nat
  BY <1>1, <1>3, <1>5, ContractsFinite
<1>7. A = {c \in before \X Nat : c[2] \in 1 .. claims[c[1]]} /\ C = {c \in Entries \X Nat : c[2] \in 1 .. heldContracts[c[1]]}
  BY <1>1, <1>3, ContractsAre
<1>8. \A d \in Entries : d \in HeldEntries \/ heldContracts[d] = 0
  BY <1>1 DEF HeldEntries
<1>9. C \in SUBSET A
  <2> SUFFICES ASSUME NEW c \in C PROVE c \in A
    OBVIOUS
  <2>1. c \in Entries \X Nat /\ c[1] \in Entries /\ c[2] \in 1 .. heldContracts[c[1]]
    BY <1>7
  <2>2. c[1] \in HeldEntries
    BY <1>8, <2>1
  <2>3. QED BY <1>4, <1>7, <2>1, <2>2
<1> HIDE DEF A, C
<1>10. Cardinality(C) <= Cardinality(A)
  BY <1>6, <1>9, FS_Subset
<1>11. TakenBy(before) = Cardinality(A) /\ OpenContracts = Cardinality(C)
  BY Zenon DEF TakenBy, OpenContracts, A, C, claims
<1>12. QED BY <1>6, <1>10, <1>11

LEMMA Remains ==
    ASSUME NEW a \in Nat, a > 0, NEW b \in Int
    PROVE  /\ b >= a => Max({0, Min({a, b})}) = a
           /\ b <= 0 => Max({0, Min({a, b})}) = 0
           /\ b > 0 => Max({0, Min({a, b})}) > 0
           /\ 0 <= b /\ b <= a => Max({0, Min({a, b})}) = b
<1> DEFINE m == IF a <= b THEN a ELSE b
           n == IF 0 <= m THEN m ELSE 0
<1>1. Min({a, b}) = m
  <2>1. m \in {a, b} /\ \A y \in {a, b} : m <= y
    OBVIOUS
  <2>2. \A x \in {a, b} : (\A y \in {a, b} : x <= y) => x = m
    OBVIOUS
  <2>3. QED BY <2>1, <2>2 DEF Min
<1>2. m \in Int
  OBVIOUS
<1>3. Max({0, m}) = n
  <2> HIDE DEF m
  <2>1. n \in {0, m} /\ \A y \in {0, m} : n >= y
    BY <1>2
  <2>2. \A x \in {0, m} : (\A y \in {0, m} : x >= y) => x = n
    BY <1>2
  <2>3. QED BY <2>1, <2>2 DEF Max
<1>4. QED BY <1>1, <1>3

(* Who claims before an entry, and what is then left of its own.            *)
Age(e) == CHOOSE i \in DOMAIN registered : registered[i] = e
ClaimantsBefore(e) == {d \in FilledEntries : ClaimsBefore(OpenOrders, d, e)}

LEMMA AgesAreNatural ==
    ASSUME OwnershipIInv
    PROVE  /\ DOMAIN registered \in SUBSET Nat /\ Len(registered) \in Nat
           /\ \A e \in FilledEntries : Age(e) \in DOMAIN registered /\ Age(e) \in Nat /\ Age(e) <= Len(registered)
<1>1. DOMAIN registered = 1 .. Len(registered) /\ Len(registered) \in Nat
  BY HoldsNumbers
<1>2. \A e \in FilledEntries : \E i \in DOMAIN registered : registered[i] = e
  BY DEF FilledEntries, ToSet
<1>3. \A e \in FilledEntries : Age(e) \in DOMAIN registered
  BY <1>2 DEF Age
<1>4. QED BY <1>1, <1>3

LEMMA ClaimsAre ==
    ASSUME NEW d, NEW e
    PROVE  ClaimsBefore(OpenOrders, d, e) <=>
              \/ OrderRank(OpenOrders, d) < OrderRank(OpenOrders, e)
              \/ /\ OrderRank(OpenOrders, d) = OrderRank(OpenOrders, e)
                 /\ IF OrderRank(OpenOrders, e) = 1 THEN Age(d) < Age(e) ELSE Age(d) > Age(e)
BY Zenon DEF ClaimsBefore, Age

LEMMA WhatRemains ==
    ASSUME OwnershipIInv, Covered, NEW e \in FilledEntries, TakenBy(ClaimantsBefore(e)) \in Nat, OpenContracts \in Nat
    PROVE  LET left == OpenContracts - TakenBy(ClaimantsBefore(e)) IN
           /\ left >= FilledQuantity(e) => RemainingContracts(OpenOrders, e) = FilledQuantity(e)
           /\ left <= 0 => RemainingContracts(OpenOrders, e) = 0
           /\ left > 0 => RemainingContracts(OpenOrders, e) > 0
           /\ 0 <= left /\ left <= FilledQuantity(e) => RemainingContracts(OpenOrders, e) = left
<1> DEFINE left == OpenContracts - TakenBy(ClaimantsBefore(e))
<1>1. RemainingContracts(OpenOrders, e) = Max({0, Min({FilledQuantity(e), left})})
  BY Zenon DEF RemainingContracts, TakenBy, ClaimantsBefore
<1>2. left \in Int
  OBVIOUS
<1>3. FilledQuantity(e) \in Nat /\ FilledQuantity(e) > 0
  BY HeldAreFilled
<1> HIDE DEF left
<1>4. /\ left >= FilledQuantity(e) => Max({0, Min({FilledQuantity(e), left})}) = FilledQuantity(e)
      /\ left <= 0 => Max({0, Min({FilledQuantity(e), left})}) = 0
      /\ left > 0 => Max({0, Min({FilledQuantity(e), left})}) > 0
      /\ 0 <= left /\ left <= FilledQuantity(e) => Max({0, Min({FilledQuantity(e), left})}) = left
  BY <1>2, <1>3, Remains
<1>5. QED BY <1>1, <1>4 DEF left

(* The held entries claim before the others, unless one without a leg       *)
(* stands beside one that was closed unnamed: then age alone decides.       *)
LEMMA HeldClaimFirst ==
    ASSUME OwnershipIInv, Covered, ~Overclaimed, \A u \in Unbracketed : Claimable(u),
           NEW h \in HeldEntries, NEW d \in FilledEntries \ HeldEntries
    PROVE  ClaimsBefore(OpenOrders, h, d) /\ ~ClaimsBefore(OpenOrders, d, h)
<1>1. h \in FilledEntries /\ d \in FilledEntries /\ h \in Entries /\ d \in Entries /\ h # d
  BY HeldAreFilled
<1>2. /\ heldContracts[d] = 0 /\ bought[d] \in Nat /\ bought[d] > 0 /\ d \in exits \cup stopped
      /\ heldContracts[h] \in Nat /\ heldContracts[h] > 0 /\ (h \in exits => heldContracts[h] < bought[h])
  BY <1>1, HeldAreFilled
<1>3. VenueLegs(d) = {}
  BY <1>1, <1>2 DEF Overclaimed
<1>4. /\ OrderRank(OpenOrders, h) \in {1, 2, 3} /\ OrderRank(OpenOrders, d) \in {2, 3}
      /\ OrderRank(OpenOrders, h) = 1 <=> VenueLegs(h) # {}
      /\ VenueLegs(h) = {} => (OrderRank(OpenOrders, h) = 2 <=> h \notin exits)
      /\ OrderRank(OpenOrders, d) = 2 <=> d \notin exits
  BY <1>1, <1>3, Ranks
<1>5. VenueLegs(h) = {} => stopped = {} /\ h \notin exits
  <2>1. ASSUME VenueLegs(h) = {} PROVE stopped = {} /\ heldContracts[h] = bought[h]
    <3>1. h \in Unbracketed
      BY <1>1, <1>2, <2>1 DEF Unbracketed
    <3>2. Claimable(h)
      BY <3>1
    <3>3. ~(\A x \in Entries \ {h} : bought[x] = 0)
      BY <1>1, <1>2
    <3>4. QED BY <3>2, <3>3, Zenon DEF Claimable
  <2>2. QED BY <1>2, <2>1
<1>6. OrderRank(OpenOrders, h) < OrderRank(OpenOrders, d)
  BY <1>2, <1>4, <1>5
<1>7. QED BY <1>4, <1>6, ClaimsAre

(* The open contracts of the only entry that is held.                       *)
LEMMA OnlyOneHeld ==
    ASSUME OwnershipIInv, NEW e \in Entries, HeldEntries = {e}
    PROVE  OpenContracts = heldContracts[e]
<1>1. heldContracts \in [Entries -> Nat] /\ heldContracts[e] \in Nat
  BY HoldsNumbers
<1>2. ContractsOf(heldContracts) = {c \in Entries \X Nat : c[2] \in 1 .. heldContracts[c[1]]}
  BY <1>1, ContractsAre
<1>3. \A d \in Entries \ {e} : heldContracts[d] = 0
  BY <1>1 DEF HeldEntries
<1>4. \A c \in Entries \X Nat : c[2] \in 1 .. heldContracts[c[1]] => c[1] = e
  <2> SUFFICES ASSUME NEW c \in Entries \X Nat, c[2] \in 1 .. heldContracts[c[1]], c[1] # e PROVE FALSE
    OBVIOUS
  <2>1. c[1] \in Entries /\ heldContracts[c[1]] = 0
    BY <1>3
  <2>2. QED BY <2>1
<1>5. ContractsOf(heldContracts) = {e} \X (1 .. heldContracts[e])
  BY <1>1, <1>2, <1>4
<1>6. QED BY <1>1, <1>5, OneEntryContracts DEF OpenContracts

LEMMA RemainingAsHeld == ASSUME OwnershipIInv PROVE RemainingIsHeld
<1> SUFFICES ASSUME Covered, ~Overclaimed, \A u \in Unbracketed : Claimable(u), NEW e \in FilledEntries
             PROVE  RemainingContracts(OpenOrders, e) = heldContracts[e]
  BY DEF RemainingIsHeld
<1>1. ClaimantsBefore(e) \in SUBSET FilledEntries
  BY DEF ClaimantsBefore
<1>2. CASE e \in HeldEntries
  <2>1. e \notin ClaimantsBefore(e)
    <3>1. Age(e) \in Nat /\ OrderRank(OpenOrders, e) \in {1, 2, 3}
      BY AgesAreNatural, Ranks
    <3>2. ~ClaimsBefore(OpenOrders, e, e)
      BY <3>1, ClaimsAre
    <3>3. QED BY <3>2 DEF ClaimantsBefore
  <2>2. ClaimantsBefore(e) \in SUBSET HeldEntries
    BY <1>1, <1>2, HeldClaimFirst DEF ClaimantsBefore
  <2>3. /\ e \in Entries /\ heldContracts[e] \in Nat /\ heldContracts[e] > 0
        /\ FilledQuantity(e) = bought[e] /\ bought[e] \in Nat /\ heldContracts[e] <= bought[e]
        /\ \A d \in HeldEntries : d \in Entries /\ heldContracts[d] > 0 /\ heldContracts[d] \in Nat /\ bought[d] \in Nat
                               /\ heldContracts[d] <= bought[d]
    BY <1>2, HeldAreFilled
  <2>4. \A d \in HeldEntries \ {e} : heldContracts[d] = bought[d]
    <3> SUFFICES ASSUME NEW d \in HeldEntries \ {e}, heldContracts[d] < bought[d] PROVE FALSE
      BY <2>3
    <3>1. VenueLegs(d) = {}
      BY <2>3 DEF Overclaimed
    <3>2. d \in Unbracketed
      BY <2>3, <3>1 DEF Unbracketed
    <3>3. bought[e] = 0
      BY <2>3, <3>2 DEF Claimable
    <3>4. QED BY <2>3, <3>3
  <2>5. /\ TakenBy(ClaimantsBefore(e)) \in Nat /\ OpenContracts \in Nat
        /\ TakenBy(ClaimantsBefore(e)) + heldContracts[e] <= OpenContracts
    BY <1>2, <2>1, <2>2, <2>4, OthersLeaveRoom
  <2>6. CASE heldContracts[e] = bought[e]
    <3>1. OpenContracts - TakenBy(ClaimantsBefore(e)) >= FilledQuantity(e)
      BY <2>3, <2>5, <2>6
    <3>2. QED BY <2>3, <2>5, <2>6, <3>1, WhatRemains
  <2>7. CASE heldContracts[e] < bought[e]
    <3>1. HeldEntries = {e}
      <4> SUFFICES ASSUME NEW d \in HeldEntries \ {e} PROVE FALSE
        BY <1>2
      <4>1. VenueLegs(e) = {}
        BY <2>3, <2>7 DEF Overclaimed
      <4>2. e \in Unbracketed
        BY <2>3, <4>1 DEF Unbracketed
      <4>3. bought[d] = 0
        BY <2>3, <2>7, <4>2 DEF Claimable
      <4>4. QED BY <2>3, <4>3
    <3>2. OpenContracts = heldContracts[e]
      BY <2>3, <3>1, OnlyOneHeld
    <3> DEFINE left == OpenContracts - TakenBy(ClaimantsBefore(e))
    <3>3. left = heldContracts[e]
      BY <2>3, <2>5, <3>2
    <3>4. 0 <= left /\ left <= FilledQuantity(e) => RemainingContracts(OpenOrders, e) = left
      BY <2>5, WhatRemains
    <3> HIDE DEF left
    <3>5. QED BY <2>3, <3>3, <3>4
  <2>8. QED BY <2>3, <2>6, <2>7
<1>3. CASE e \notin HeldEntries
  <2>1. heldContracts[e] = 0
    BY <1>3, HeldAreFilled
  <2>2. HeldEntries \subseteq ClaimantsBefore(e)
    BY <1>3, HeldAreFilled, HeldClaimFirst DEF ClaimantsBefore
  <2>3. /\ TakenBy(ClaimantsBefore(e)) \in Nat /\ OpenContracts \in Nat
        /\ OpenContracts <= TakenBy(ClaimantsBefore(e))
    BY <1>1, <2>2, AllLeaveNothing
  <2>4. OpenContracts - TakenBy(ClaimantsBefore(e)) <= 0
    BY <2>3
  <2>5. QED BY <2>1, <2>3, <2>4, WhatRemains
<1>4. QED BY <1>2, <1>3

(* The first of the entries without a leg claims right after the protected  *)
(* ones, and some of the contracts are left for it when a held entry has no *)
(* leg and no protected one claims too much: the status then stays pending. *)
LEMMA ProvenHasLegs ==
    ASSUME OwnershipIInv, Covered, ~Overclaimed, ProtectionStatus = "proven"
    PROVE  Unbracketed = {}
<1> DEFINE live == {e \in FilledEntries : RemainingContracts(OpenOrders, e) > 0}
           legless == {e \in FilledEntries : VenueLegs(e) = {}}
           r == IF \E e \in legless : OrderRank(OpenOrders, e) = 2 THEN 2 ELSE 3
           second == {e \in legless : OrderRank(OpenOrders, e) = r}
           ages == {Age(e) : e \in second}
<1>1. \A e \in live : ProtectionOf(OpenOrders, e) = "proven"
  BY DEF ProtectionStatus
<1> SUFFICES ASSUME NEW u \in Unbracketed PROVE FALSE
  OBVIOUS
<1>2. u \in HeldEntries /\ u \in FilledEntries /\ VenueLegs(u) = {} /\ heldContracts[u] > 0 /\ u \in Entries
  BY HeldAreFilled DEF Unbracketed, HeldEntries
<1>3. second # {} /\ (\A d \in legless : OrderRank(OpenOrders, d) \in {2, 3} /\ OrderRank(OpenOrders, d) >= r) /\ r \in {2, 3}
  <2>1. \A d \in legless : OrderRank(OpenOrders, d) \in {2, 3}
    BY Ranks
  <2>2. u \in legless
    BY <1>2
  <2> HIDE DEF legless
  <2>3. QED BY <2>1, <2>2
<1>4. PICK first \in second : \A d \in second : Age(d) <= Age(first)
  <2>1. \A d \in second : Age(d) \in Nat /\ Age(d) <= Len(registered)
    BY AgesAreNatural
  <2>2. ages \in SUBSET Nat /\ ages # {} /\ \A n \in ages : n <= Len(registered)
    BY <1>3, <2>1
  <2>3. PICK n \in ages : \A m \in ages : m <= n
    <3> HIDE DEF ages
    <3>1. QED BY <2>2, AgesAreNatural, GreatestOf
  <2>4. QED BY <2>3
<1>5. first \in FilledEntries /\ OrderRank(OpenOrders, first) = r /\ VenueLegs(first) = {} /\ Age(first) \in Nat
  BY AgesAreNatural
<1> HIDE DEF r
<1>6. \A d \in ClaimantsBefore(first) : d \in HeldEntries /\ VenueLegs(d) # {} /\ heldContracts[d] = bought[d]
  <2> SUFFICES ASSUME NEW d \in ClaimantsBefore(first)
               PROVE  d \in HeldEntries /\ VenueLegs(d) # {} /\ heldContracts[d] = bought[d]
    OBVIOUS
  <2>1. d \in FilledEntries /\ ClaimsBefore(OpenOrders, d, first)
    BY DEF ClaimantsBefore
  <2>2. OrderRank(OpenOrders, d) \in {1, 2, 3} /\ Age(d) \in Nat
    BY <2>1, Ranks, AgesAreNatural
  <2>3. ~ (Age(d) > Age(first)) \/ d \notin second
    BY <1>4, <1>5, <2>2
  <2>4. d \notin legless
    BY <1>3, <1>5, <2>1, <2>2, <2>3, ClaimsAre
  <2>5. VenueLegs(d) # {} /\ d # u
    BY <1>2, <2>1, <2>4
  <2>6. d \in Entries /\ heldContracts[d] \in Nat /\ bought[d] \in Nat /\ bought[d] > 0
    BY <2>1, HeldAreFilled, HoldsNumbers
  <2>7. ~(heldContracts[d] < bought[d])
    BY <1>2, <2>5, <2>6 DEF Overclaimed
  <2>8. d \in HeldEntries
    BY <2>6, <2>7 DEF HeldEntries
  <2>9. heldContracts[d] <= bought[d]
    BY <2>1, <2>8, HeldAreFilled
  <2>10. QED BY <2>5, <2>6, <2>7, <2>8, <2>9
<1>7. /\ TakenBy(ClaimantsBefore(first)) \in Nat /\ OpenContracts \in Nat /\ heldContracts[u] \in Nat
      /\ TakenBy(ClaimantsBefore(first)) + heldContracts[u] <= OpenContracts
  <2>1. ClaimantsBefore(first) \in SUBSET HeldEntries /\ u \notin ClaimantsBefore(first)
    BY <1>2, <1>6
  <2>2. QED BY <1>2, <1>6, <2>1, OthersLeaveRoom
<1>8. heldContracts[u] > 0
  BY <1>2
<1>9. OpenContracts - TakenBy(ClaimantsBefore(first)) > 0
  BY <1>7, <1>8
<1>10. RemainingContracts(OpenOrders, first) > 0
  BY <1>5, <1>7, <1>9, WhatRemains
<1>11. ProtectionOf(OpenOrders, first) = "proven"
  BY <1>1, <1>5, <1>10
<1>12. HasLiveLeg(OpenOrders, first)
  <2>1. \A kind \in Legs : \E order \in Leg(OpenOrders, first, kind) : order.state = "working"
    BY <1>11, Zenon DEF ProtectionOf
  <2>2. "stop" \in Legs
    BY DEF Legs
  <2>3. QED BY <2>1, <2>2 DEF HasLiveLeg
<1>13. first \in Entries
  BY <1>5, HeldAreFilled
<1>14. QED BY <1>5, <1>12, <1>13, LiveLegIsVenues

LEMMA ProvenAsProtected == ASSUME OwnershipIInv PROVE ProvenIsProtected
<1> SUFFICES ASSUME Covered, ~Overclaimed, ProtectionStatus = "proven", NEW e \in Entries, heldContracts[e] > 0, NEW leg \in Legs
             PROVE  \E id \in DOMAIN orders : id[1] = e /\ id[2] = leg /\ orders[id].state = "working"
  BY DEF ProvenIsProtected
<1>1. Unbracketed = {}
  BY ProvenHasLegs
<1>2. e \in HeldEntries /\ e \in FilledEntries
  BY HeldAreFilled DEF HeldEntries
<1>3. RemainingContracts(OpenOrders, e) > 0
  <2>1. RemainingContracts(OpenOrders, e) = heldContracts[e]
    BY <1>1, <1>2, RemainingAsHeld DEF RemainingIsHeld
  <2>2. QED BY <2>1
<1>4. ProtectionOf(OpenOrders, e) = "proven"
  BY <1>2, <1>3 DEF ProtectionStatus
<1>5. PICK order \in Leg(OpenOrders, e, leg) : order.state = "working"
  BY <1>4, Zenon DEF ProtectionOf
<1>6. order.id \in DOMAIN orders /\ order.id[1] = e /\ order.id[2] = leg /\ order = Order(order.id)
  <2>1. OpenOrders = OpenOrdersAtVenue
    BY OpenIsVenue
  <2>2. QED BY <1>5, <2>1, LegsAreVenues
<1>7. orders[order.id].state = order.state
  BY <1>6 DEF Order
<1>8. QED BY <1>5, <1>6, <1>7

(* OwnershipInv: whenever the evidence covers what happened at the venue,   *)
(* protection is called proven only while both legs of every open entry     *)
(* work there, and the tranches say of each entry what the venue holds of   *)
(* it, for any entries, quantities, tags, generations, exits of a whole     *)
(* entry or a part of it, lost events and orders of arrival.  Except where  *)
(* an entry sold in part still claims all it bought beside another that is  *)
(* held, and, for what remains, an entry without legs beside one that was   *)
(* closed without a name (projectx-order-ownership.ts, tranches.ts).        *)
THEOREM OwnershipFollowsVenue == OwnershipSpec => []OwnershipInv
<1>1. OwnershipInit => OwnershipIInv
  BY OwnershipInitially
<1>2. OwnershipIInv /\ [OwnershipNext]_ownershipVars => OwnershipIInv'
  BY OwnershipKept
<1>3. OwnershipIInv => OwnershipInv
  BY ProvenAsProtected, RemainingAsHeld DEF OwnershipInv, OwnershipIInv, OwnershipTypes
<1>4. QED BY <1>1, <1>2, <1>3, PTL DEF OwnershipSpec
=============================================================================
