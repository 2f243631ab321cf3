------------------------------ MODULE Universe ------------------------------
(***************************************************************************)
(* The scanner's bars: two serial refresh queues, background and critical, *)
(* in front of one observation service per contract, all of them sharing   *)
(* the budget of history downloads; and the packet request that waits for  *)
(* a refresh of its contract, but no longer than its own budget.           *)
(*                                                                         *)
(* The refresh queues coalesce with what is queued, never with what runs.  *)
(* A service runs one refresh per lane and fences its results by a         *)
(* sequence number: only the newest refresh may write the observation.     *)
(***************************************************************************)
EXTENDS Naturals, Sequences, FiniteSets, SequencesExt

CONSTANTS Contracts,         \* the resolved universe
          Operated,          \* selectedContractId
          Packets,           \* packet requests, served once each
          Timeframes,        \* downloads one observation takes
          HistoryBudget,     \* starts the scheduler allows in a window
          MinHeadroom,       \* PROJECTX_HISTORY_MIN_HEADROOM
          BudgetWindow,      \* length of that window, in ticks
          StaleAfter,        \* PACKET_OBSERVATION_STALE_MS, in ticks
          QueueWait,         \* queueWaitTimeoutMs, in ticks
          PacketWait,        \* packetMarketObservationRefreshBudgetMs, in ticks
          MaxDepth,          \* maxQueueDepth
          MaxTimers,         \* bound on timer refreshes
          MaxTicks,          \* bound on the clock
          MaxBarFaults       \* bound on downloads that fail

ASSUME UniverseAssumption ==
    /\ Operated \in Contracts /\ "all" \notin Contracts /\ "timer" \notin Packets
    /\ Timeframes \in Nat \ {0} /\ BudgetWindow \in Nat \ {0} /\ MaxDepth \in Nat \ {0}
    /\ HistoryBudget \in Nat \ {0} /\ MinHeadroom \in 0 .. HistoryBudget - 1
    /\ {StaleAfter, QueueWait, PacketWait, MaxTimers, MaxBarFaults} \subseteq Nat
    /\ MaxTicks \in Nat \ {0}

Lanes == {"background", "packet"}

VARIABLES tick,         \* the clock; 0 stands for never
          jobs,         \* lane -> queued jobs, numbered in their order
          running,      \* lane -> the job being run
          reads,        \* lane, contract -> the refresh in flight
          strays,       \* lane, headroom -> downloads of failed refreshes that wait for a start
          sequence,     \* contract -> refreshSequence
          observed,     \* contract -> [at, error], what current() returns
          starts,       \* downloads started: [at, no], numbered in each tick
          packets,      \* packet -> its request
          timers, barFaults

universeVars == <<tick, jobs, running, reads, strays, sequence, observed, starts,
                  packets, timers, barFaults>>
service == <<reads, strays, sequence, observed>>

NoJob  == [key |-> "none", no |-> 0, asOf |-> 0, waiters |-> {}, began |-> 0, left |-> <<>>,
           headroom |-> 0, serial |-> FALSE]
NoRead == [seq |-> 0, at |-> 0, want |-> 0, out |-> 0, headroom |-> 0, serial |-> FALSE]
Unasked == [at |-> "idle", target |-> "none", asked |-> 0, how |-> "none", began |-> 0, seen |-> 0]

\* The slots a read may leave to the protected lane.
Headrooms == {0, MinHeadroom}

UniverseInit ==
    /\ tick = 1
    /\ jobs = [l \in Lanes |-> {}] /\ running = [l \in Lanes |-> NoJob]
    /\ reads = [l \in Lanes |-> [c \in Contracts |-> NoRead]]
    /\ strays = [l \in Lanes |-> [h \in Headrooms |-> 0]]
    /\ sequence = [c \in Contracts |-> 0]
    /\ observed = [c \in Contracts |-> [at |-> 0, error |-> FALSE]]
    /\ starts = {}
    /\ packets = [p \in Packets |-> Unasked]
    /\ timers = 0 /\ barFaults = 0

----------------------------------------------------------------------------
(* RateAwareScheduler: a start is allowed while the trailing window has    *)
(* room; what waits looks again when the oldest start leaves the window.   *)
(* A start is one download, whatever the client makes of it: retrieveBars  *)
(* repeats a refused or failed request up to three times without another   *)
(* start (not during a hub recovery), and the REST gate may hold each of   *)
(* them back.  Both lie between a start and its end here and are counted   *)
(* nowhere, in the code as in the model.                                   *)

\* prune and recentStartsMs: a start at or before atMs - windowMs is out.
WindowCount(at) == Cardinality({s \in starts : s.at <= at /\ s.at + BudgetWindow > at})

CanSchedule(n, headroom) == WindowCount(tick) + n <= HistoryBudget - headroom

\* acquire: looks, and records the start in the same turn.  The requests sent
\* for it are not counted, only the start.
MayStartRead(headroom) == WindowCount(tick) < HistoryBudget - headroom
StartedCalls ==
    starts' = starts \cup {[at |-> tick, no |-> Cardinality({s \in starts : s.at = tick}) + 1]}

----------------------------------------------------------------------------
(* The observation service of a contract.                                  *)

AgeOf(c, asOf) ==
    IF observed[c].at = 0 THEN StaleAfter
    ELSE IF observed[c].at > asOf THEN 0 ELSE asOf - observed[c].at

\* refresh: a refresh of the same lane in flight is joined; another takes the
\* next sequence number and the time it reads up to.
Joined(c, l) == IF reads[l][c].seq # 0 THEN sequence[c] ELSE sequence[c] + 1
Read(c, l, job) ==
    IF reads[l][c].seq # 0 THEN reads[l][c]
    ELSE [seq |-> sequence[c] + 1, at |-> tick, want |-> Timeframes, out |-> 0,
          headroom |-> job.headroom, serial |-> job.serial]

Refreshes(l, job, S) ==
    /\ reads' = [reads EXCEPT ![l] = [c \in Contracts |-> IF c \in S THEN Read(c, l, job) ELSE @[c]]]
    /\ sequence' = [c \in Contracts |-> IF c \in S THEN Joined(c, l) ELSE sequence[c]]

\* fetchTimeframe gets its start; one at a time when the timeframes are serial.
AcquiresStart(l, c) ==
    LET r == reads[l][c] IN
    /\ r.want > 0 /\ (r.serial => r.out = 0) /\ MayStartRead(r.headroom)
    /\ reads' = [reads EXCEPT ![l][c].want = @ - 1, ![l][c].out = @ + 1]
    /\ StartedCalls
    /\ UNCHANGED <<tick, jobs, running, strays, sequence, observed, packets, timers, barFaults>>

\* The same call for a refresh that failed meanwhile: nobody waits for it, the
\* scheduler counts it.
StrayStarts(l) ==
    /\ \E h \in Headrooms :
         /\ strays[l][h] > 0 /\ MayStartRead(h)
         /\ strays' = [strays EXCEPT ![l][h] = @ - 1]
    /\ StartedCalls
    /\ UNCHANGED <<tick, jobs, running, reads, sequence, observed, packets, timers, barFaults>>

\* Faulty: whoever ends last writes.
Unfenced(c, r) == r.seq > 0
\* Only the newest refresh asked for may write.
Fenced(c, r) == r.seq = sequence[c]

BarsArrive(l, c) ==
    LET r == reads[l][c] IN
    /\ r.out > 0
    /\ IF r.out + r.want > 1
       THEN /\ reads' = [reads EXCEPT ![l][c].out = @ - 1]
            /\ UNCHANGED observed
       ELSE /\ reads' = [reads EXCEPT ![l][c] = NoRead]
            /\ observed' = IF Fenced(c, r) THEN [observed EXCEPT ![c] = [at |-> r.at, error |-> FALSE]]
                           ELSE observed
    /\ UNCHANGED <<tick, jobs, running, strays, sequence, starts, packets, timers, barFaults>>

\* A download fails once the last of the client's attempts has.  The first such
\* failure ends the refresh; what had been asked of the scheduler in parallel
\* stays asked.
BarsFail(l, c) ==
    LET r == reads[l][c] IN
    /\ r.out > 0 /\ barFaults < MaxBarFaults /\ barFaults' = barFaults + 1
    /\ reads' = [reads EXCEPT ![l][c] = NoRead]
    /\ strays' = IF r.serial THEN strays
                 ELSE [strays EXCEPT ![l][r.headroom] = @ + r.want]
    /\ observed' = IF Fenced(c, r) THEN [observed EXCEPT ![c].error = TRUE] ELSE observed
    /\ UNCHANGED <<tick, jobs, running, sequence, starts, packets, timers>>

----------------------------------------------------------------------------
(* UniverseRefreshQueue.                                                   *)

Overdue(w) == tick - w.at > QueueWait
Kept(ws) == {w \in ws : ~Overdue(w)}

\* sweepTimedOutWaiters: before anything is queued.
Swept(q) == {j \in {[k EXCEPT !.waiters = Kept(@)] : k \in q} : j.waiters # {}}

Waiter(who) == [who |-> who, at |-> tick]

\* A new job is behind all that are queued.
NextNo(q) == 1 + Max({0} \cup {j.no : j \in q})

\* Only a queued job takes another waiter, never one that runs.
Enqueued(l, key, who) ==
    LET q    == Swept(jobs[l])
        same == {j \in q : j.key = key}
    IN
    IF same # {}
    THEN (q \ same) \cup {[j EXCEPT !.waiters = @ \cup {Waiter(who)}] : j \in same}
    ELSE IF Cardinality(q) >= MaxDepth THEN q
    ELSE q \cup {[NoJob EXCEPT !.key = key, !.no = NextNo(q), !.asOf = tick, !.waiters = {Waiter(who)}]}

\* The waiters the sweep rejects, and the asker itself when the queue is full.
Rejected(l, key, who) ==
    {w.who : w \in {v \in UNION {j.waiters : j \in jobs[l]} : Overdue(v)}}
        \cup (IF \E j \in Enqueued(l, key, who) : Waiter(who) \in j.waiters THEN {} ELSE {who})

Enqueues(l, key, who) ==
    jobs' = [jobs EXCEPT ![l] = Enqueued(l, key, who)] /\ UNCHANGED running

\* A packet request goes on when its refresh answers, rejects or is too late,
\* and reads the observation as it then is.
Served(p, how, began) ==
    [packets[p] EXCEPT !.at = "served", !.how = how, !.began = began,
                       !.seen = observed'[packets[p].target].at]
Waiting(p) == packets[p].at = "waiting"

----------------------------------------------------------------------------
(* MultiInstrumentMarketDataPlane and its callers.                         *)

\* refreshMarketObservations, from its timer.
TimerRefreshes ==
    /\ timers < MaxTimers /\ timers' = timers + 1
    /\ Enqueues("background", "all", "timer")
    /\ UNCHANGED <<tick, service, starts, packets, barFaults>>

\* ensurePacketMarketObservationFresh: a fresh observation is used as it is.
PacketAsks(p, c) ==
    LET fresh == AgeOf(c, tick) < StaleAfter IN
    /\ packets[p].at = "idle"
    /\ IF fresh THEN UNCHANGED <<jobs, running>> ELSE Enqueues("packet", c, p)
    /\ packets' = [q \in Packets |->
         IF q = p
         THEN [Unasked EXCEPT !.target = c, !.asked = tick,
                 !.at = IF fresh \/ p \in Rejected("packet", c, p) THEN "served" ELSE "waiting",
                 !.how = IF fresh THEN "fresh" ELSE IF p \in Rejected("packet", c, p) THEN "rejected" ELSE "none",
                 !.seen = IF fresh \/ p \in Rejected("packet", c, p) THEN observed[c].at ELSE 0]
         ELSE IF ~fresh /\ Waiting(q) /\ q \in Rejected("packet", c, p)
         THEN [packets[q] EXCEPT !.at = "served", !.how = "rejected", !.seen = observed[packets[q].target].at]
         ELSE packets[q]]
    /\ UNCHANGED <<tick, service, starts, timers, barFaults>>

\* boundedPacketObservationRefresh: the packet is built without the refresh.
PacketTimesOut(p) ==
    /\ Waiting(p) /\ tick - packets[p].asked >= PacketWait
    /\ packets' = [packets EXCEPT ![p].at = "served", ![p].how = "timed_out",
                                  ![p].seen = observed[packets[p].target].at]
    /\ UNCHANGED <<tick, jobs, running, service, starts, timers, barFaults>>

\* contractIdsForPacketRefresh, judged by the time the first waiter asked;
\* only the target when not even the last slots allow all of them.
Wanted(job) == {c \in Contracts : c = job.key \/ AgeOf(c, job.asOf) >= StaleAfter}
PacketHeadroom(job) ==
    IF CanSchedule(Cardinality(Wanted(job)) * Timeframes, MinHeadroom) THEN MinHeadroom ELSE 0
Refreshed(l, job) ==
    IF l = "background" THEN Contracts
    ELSE IF PacketHeadroom(job) = 0 /\ ~CanSchedule(Cardinality(Wanted(job)) * Timeframes, 0) THEN {job.key}
    ELSE Wanted(job)

OperatedFirst(S) ==
    SelectSeq(<<Operated>>, LAMBDA c : c \in S) \o SetToSeq(S \ {Operated})

\* runNext: a job nobody waits for any more is dropped.  During a hub recovery
\* the contracts are read one after the other, the operated one first.
JobStarts(l, storm) == \E first \in jobs[l] :
    LET job  == [first EXCEPT !.waiters = Kept(@), !.began = tick,
                   !.headroom = IF l = "background" THEN MinHeadroom ELSE PacketHeadroom(first),
                   !.serial = storm]
        S    == Refreshed(l, job)
        late == {w.who : w \in first.waiters \ job.waiters}
    IN
    /\ running[l] = NoJob /\ \A j \in jobs[l] : first.no <= j.no
    /\ jobs' = [jobs EXCEPT ![l] = @ \ {first}]
    /\ UNCHANGED <<tick, strays, observed, starts, timers, barFaults>>
    /\ packets' = [p \in Packets |-> IF p \in late /\ Waiting(p) THEN Served(p, "rejected", 0) ELSE packets[p]]
    /\ running' = IF job.waiters = {} THEN running
                  ELSE [running EXCEPT ![l] = [job EXCEPT !.left = IF storm THEN OperatedFirst(S) ELSE <<>>]]
    /\ IF job.waiters = {} \/ storm THEN UNCHANGED <<reads, sequence>> ELSE Refreshes(l, job, S)

Quiet(l) == \A c \in Contracts : reads[l][c] = NoRead

\* refreshContractsDuringStorm: the others wait until the operated contract is
\* healthy again, which after one bad refresh means not this time.
Healthy(c) == observed[c].at > 0 /\ ~observed[c].error
MayGoOn(l) ==
    running[l].left # <<>> /\ (Head(running[l].left) # Operated => Healthy(Operated))
StormGoesOn(l) ==
    /\ running[l] # NoJob /\ Quiet(l) /\ MayGoOn(l)
    /\ running' = [running EXCEPT ![l].left = Tail(@)]
    /\ Refreshes(l, running[l], {Head(running[l].left)})
    /\ UNCHANGED <<tick, jobs, strays, observed, starts, packets, timers, barFaults>>

\* Every waiter of the job gets its result; a packet that still waits goes on.
JobEnds(l) ==
    LET told == {w.who : w \in running[l].waiters} IN
    /\ running[l] # NoJob /\ Quiet(l) /\ ~MayGoOn(l)
    /\ running' = [running EXCEPT ![l] = NoJob]
    /\ UNCHANGED <<tick, jobs, service, starts, timers, barFaults>>
    /\ packets' = [p \in Packets |->
         IF p \in told /\ Waiting(p) THEN Served(p, "answered", running[l].began) ELSE packets[p]]

TicksOn ==
    /\ tick < MaxTicks /\ tick' = tick + 1
    /\ UNCHANGED <<jobs, running, service, starts, packets, timers, barFaults>>

UniverseNext ==
    \/ TicksOn \/ TimerRefreshes
    \/ \E p \in Packets : PacketTimesOut(p) \/ \E c \in Contracts : PacketAsks(p, c)
    \/ \E l \in Lanes : JobEnds(l) \/ StormGoesOn(l) \/ StrayStarts(l)
    \/ \E l \in Lanes, storm \in BOOLEAN : JobStarts(l, storm)
    \/ \E l \in Lanes, c \in Contracts : AcquiresStart(l, c) \/ BarsArrive(l, c) \/ BarsFail(l, c)

UniverseSpec == UniverseInit /\ [][UniverseNext]_universeVars

-----------------------------------------------------------------------------
UniverseTypeOK ==
    /\ tick \in 1 .. MaxTicks /\ starts \subseteq [at : 1 .. MaxTicks, no : Nat]
    /\ sequence \in [Contracts -> Nat] /\ timers \in 0 .. MaxTimers
    /\ barFaults \in 0 .. MaxBarFaults
    /\ \A l \in Lanes : Cardinality(jobs[l]) <= MaxDepth

(* A packet that was answered waited for a refresh that began after it asked:*)
(* it joined none that was running already (the task queue's coalescing).    *)
LaterRefresh ==
    \A p \in Packets : packets[p].how = "answered" => packets[p].began >= packets[p].asked

(* No window, wherever it begins, holds more starts of history downloads than*)
(* the budget, with packets, timers and failed refreshes all drawing from it *)
(* (rate-aware-scheduler.ts:122-137).  It is a bound on the starts the       *)
(* scheduler counts and not on the requests the venue receives, which the    *)
(* client's retries can take past it (client.ts:325-398).                    *)
BudgetHolds ==
    \A t \in 1 .. MaxTicks :
       Cardinality({s \in starts : s.at >= t /\ s.at < t + BudgetWindow}) <= HistoryBudget

UniverseInv == UniverseTypeOK /\ LaterRefresh /\ BudgetHolds

(* The observation a contract shows never goes back, although refreshes of   *)
(* two lanes overlap and end in any order (refreshSequence).                 *)
NeverBack == [][\A c \in Contracts : observed'[c].at >= observed[c].at]_universeVars

(* All of it, for one run of many parts.                                     *)
UniverseSafe == []UniverseInv /\ NeverBack
=============================================================================
