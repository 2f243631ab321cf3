# A TLA+ verification of the Glitch Topstep gateway

The gateway stands between Hermes, an AI trading operator that posts intents,
and the ProjectX venue, which takes orders over REST and reports over SignalR
streams.  It is one TypeScript process with a SQLite worker thread.  Nothing in
it runs in parallel except that thread, but every `await` is a point where
another request, a timer or a stream callback can run, the process can die at
any of them, and a request to the venue that timed out may still be executed.
This directory models the parts in which those interleavings decide whether the
account is safe, checks them with TLC, and proves most of the safety properties
with TLAPS.

All paths below are relative to the repository.  A path without a directory of
its own is under `src/src/`.

## 1. Inventory

| Part | State it keeps | Operations | Correct when | Module |
|---|---|---|---|---|
| Execution coordinator (`execution/coordinator.ts`, `intent-admission.ts`) | a serial queue; per call: intent, request, outcome | handle one intent: register, admit, prepare, submit, record | no request leaves twice; nothing is built on an unknown outcome | `Execution` |
| Execution recovery (`execution/recovery*.ts`, `receipt-reconciliation.ts`, `service/reconciliation-service.ts`) | per cycle: fetched positions and orders, work lists, resolutions | list, search, resolve, flatten, publish; release the latch | it concludes only what is true, though the coordinator moves on meanwhile | `Execution` |
| Execution store (`storage/sqlite-execution-store.ts`) | intents, outbox, receipts, latch, saga rows, facts, packets | one transaction per call, guarded transitions | the transition table is respected, whoever calls | `Execution`, `Protection`, `Outcomes` |
| Operator control (`control/`, `service/flatten-workflow.ts`, `service.ts`) | command rows; `controlPaused`, `runtimeTradingMode` | submit, claim, apply, transition, list, restore | each command takes effect once, in order, and survives restarts | `Control` |
| SQLite worker (`storage/sqlite-worker.ts`, `sqlite-persistence.ts`) | a queue of calls, a queue of answers | serve one call | first in, first out | `Control` |
| Protected reduction, rearm, unprotected flatten (`execution/`) | saga rows, rearm states, grace clock | cancel, submit, confirm, rearm, sweep, flatten | an open position is protected or is being closed | `Protection` |
| Hub recovery and scheduling (`service/task-scheduler.ts`, `recovery-pipeline-gate.ts`, `projectx/hub-recovery-controller.ts`) | queue, running tasks, generation, phase | enqueue, pump, begin, advance, complete, fail | a recovery ends only on its own generation's work, and does end | `HubRecovery` |
| REST client (`projectx/client.ts`, `auth-manager.ts`, `rest-concurrency.ts`, `read-circuit-breaker.ts`) | session, permits, breaker state | call, retry reads, refresh | mutations are never retried; permits are not lost | `Rest` |
| Provider evidence (`projectx/evidence-write-queue.ts`, `provider-event-recorder.ts`) | bounded window, identity outbox | stage, enqueue, coalesce, drop, batch, restore, replay, drain | nothing is applied that is not stored; identity events are never only in memory | `Evidence` |
| Evidence log (`projectx/history-sync.ts`, `storage/sqlite-provider-evidence-store.ts`) | rows, cursor | window, append, prune, page | the cursor skips nothing; a replay knows whether it is whole | `ProviderLog` |
| Order ownership (`ownership/`) | none: derived from rows and evidence | attribute orders, derive protection and remaining lots | it claims protection only where there is some | `Ownership` |
| Trade outcomes (`learning/`, `execution/lifecycle-facts.ts`) | cached tranches, in-flight flag, facts | publish on a flat, search, claim, revise, retry | one fill is the profit of one outcome | `Outcomes` |
| Outcome store (`storage/sqlite-outcome-feed.ts`, `trade-outcome-store.ts`) | revisions, hot index, JSONL mirror | commit, mirror, import, evict | index and mirror follow the feed | `OutcomeStore` |
| Runtime lock, lifecycle (`service/runtime-lock.ts`, `lifecycle-supervisor.ts`, `service.ts`) | lock file, disposables | acquire, judge stale, unwind, retain | nobody writes behind closed stores | `Process` |
| Market data plane (`market/`) | refresh queues, history budget, observations | enqueue, acquire, download, fence | observations go forward; the venue's limit holds | `Universe` |
| Venue state, data quality (`state/`, `projectx/quote-bbo-assembler.ts`) | sides, quotes, streams, proof | assemble, apply, reconcile, judge | stale data is known to be stale | `Market` |
| Risk and admission of an entry (`risk/`, `execution/brackets.ts`) | none | size, round, compare | a stopped-out entry keeps the floor | `Admission` |
| Calendar and daily capture (`policy/`) | the latched day | trading day, objective, lock | the lock is of the day that earned it | `SessionCalendar`, `DailyCapture` |
| Amendments (`execution/amendment-safety.ts`) | none | validate, clamp | a stop keeps within its envelope | `Amendment` |
| Alerts and watchdog (`observability/`) | hysteresis, watchdog memory | evaluate, check, restart | only what stalled is restarted | `Watch` |
| Packets, HTTP, replay tools, configuration (`hermes/`, `server/`, `replay/`, `ops/`) | issued packets | build, route, report | - | in part |

How they interact: Hermes' `POST /intent` reaches the coordinator, which writes
the execution store before and after each call of the REST client.  The
reconciliation cycle fetches positions and orders, updates the venue state,
settles the latch and pending receipts, runs recovery over the same store rows,
publishes what recovery concluded and the outcomes of a flat, and at its end
completes waiting flatten controls.  `POST /control` writes the control store,
changes two fields of the service that admission reads, or sends an EXIT
through the coordinator.  Stream events pass the evidence queue before they
reach the venue state.  All stores live behind one worker, so their calls are
served one at a time in the order they were posted.  After a start the evidence
outbox is replayed and recovery runs before anything is accepted; effective
controls are restored and unfinished ones resumed.

What is hard: the outbox row as the only memory of a request in flight; two
tasks that both own that row; lists read before, and acted on after, other
steps; rows of a command marked after its effect; answers that belong to an
earlier generation; a queue that drops, coalesces and takes back; trades
attributed to tranches from a window of time; a day found by correcting a
guess.  `PROJECT.json` lists the hazards one by one, at their lines, with the
properties that would catch each, or the reason none does.

## 2. Modules

| Module | What its state is | What an action is |
|---|---|---|
| `Execution` | `registered`, `outbox`, `receipt`, `latch` are the store's tables; `cpc`, `cur`, `out` the place of `handleWireIntentSerial`; `rpc` and its lists the reconciliation cycle; `sent`, `wire`, `order` the venue | one store transaction, one venue call, or one answer; a crash clears what is not a table |
| `SubmitOnce` | one order: not sent, in flight, and what is believed of it | abstract: leave once, believe only the truth, never change a belief |
| `Control` | `status`, `seq` are `control_commands`; `calls` and `replies` the worker's queues; a task has a place `at`, its control, the status it saw and will write | a task posts a call, the worker serves the oldest, a task consumes the oldest answer |
| `Protection` | entries sent, filled and bracketed, lots, stops, targets and working orders at the venue; the gateway's snapshot of them; the journal behind it; saga and flatten rows; the one job of the queue | one awaited call of a job, one read of the cycle, an entry, a fill, its bracket, a cancellation, a crash |
| `HubRecovery` | per hub connection, subscriptions, stream state, recovery phase and generation; pending promises `jobs`; gate, scheduler, reconciliation in flight | what runs between two awaits |
| `Rest` | per endpoint the place of its request; gate line and permits; breakers; session and refresh | acquire, send, answer, delay, reauthenticate, time out |
| `Evidence` | outbox and stored rows (SQLite); window, batch, keys, timers (process) | submit, stage, write, commit, prune, restore, replay, drain, crash |
| `ProviderLog` | rows with their sequence, heads, cursor; the run of the history sync; a replay | window, fetch, append, advance; append market rows and prune; read a page |
| `OutcomeStore` | the feed's revisions, the hot index, the mirror, the write chain | commit, export, import a line, evict, crash |
| `Outcomes` | fills at the venue and which of them a search shows; outcomes, facts; the publication and the cycle | a flat seen, a search with its build and commit, a retry, a failure, a restart |
| `Ownership` | tables of the venue, events under way, the recorded evidence; the projection itself is operators | change at the venue, record, lose, snapshot, backfill |
| `Process` | the lock file, open handles, each process's place and stack of disposables | one step of start, stop, rollback or recovery of a stop; death |
| `Universe` | per lane queue and refresh, the starts, observation and sequence per contract, packet waits | enqueue, start, acquire a start, download, fence, time out |
| `Admission` | account, position with its stops, the issued packet, the mark | issue, move, decide with every check and rounding |
| `Market` | sides, quotes, streams, proof, cycle, all with ages | an update, its record, a reconciliation step, a tick |
| `Watch` | the alert tracker; a process, its log line; the watchdog's state file | evaluate, boot, drain, die, check |
| `SessionCalendar` | none | operators: the trading day and its bounds as the code computes them, and a reference |
| `DailyCapture` | clock, trades, outcomes, locks, two builds, the check of an entry | the steps of a build between its awaits |
| `Amendment` | quote, average, stop and what the snapshot shows of it | MOVE_STOP, the capture lock's tightening, drift |
| `MC*` | values of constants, compositions, constraints | |
| `*_proofs` | inductive invariants and theorems | |

Abstractions that go through all of them: prices, sizes and texts are model
values or small integers unless a property compares them; a failed call and a
crash are faults with a bound of their own, while a mutation whose answer is
lost is always possible and unbounded; time is a set of things grown old, an
age, or a tick, whichever the code compares.  Each module's header says what it
leaves out.  The choices worth knowing:

- `Execution`: admission, risk and portfolio checks are one action `Refuse`
  that is always possible; only the check that reads outbox and latch is exact.
  `reconcilePendingReceipts` settles any subset in one step.
- `Control`: `invalidateAll` is one call where the code makes two; the
  coordinator's answer to an EXIT is any the code distinguishes.
- `Protection`: one contract; whether the orders of a tranche were found is what
  the snapshot shows; all lots are long; two stops of a tranche are cancelled
  together, and a position that a second stop has turned around is not followed.
- `Ownership`: an entry is exited, stopped or rearmed only once it is wholly
  filled; an EXIT that sells contracts of several entries is followed only when
  it closes the position; a leg larger than what its entry still holds closes
  that entry and no more.
- `Universe`: a start is one download, however often the client repeats its
  request behind it; nothing counts the repeats, in the code or the model.
- `HubRecovery`: a connection attempt that ends after its timeout is left out.
- `Outcomes`: the searches and the build of one tranche are one step at the
  moment of the last of them; the economics of an outcome are left out.
- `Process`: both processes run on one machine in the run; the theorem does not
  need it.

How they compose: `Control` hands `Execution` an EXIT under the control's own
identity (`ExitAtMostOnce`: handed over once; `SubmittedAtMostOnce`: sent once).
`Protection`'s jobs run on the queue of `Execution`'s handler, and an entry
meets them as a refusal.  `HubRecovery` pays its proof with the reconciliation
that `Execution`'s cycle is part of, and calls through `Rest`, which answers or
fails.  `Evidence` feeds `ProviderLog`, `Market` and `Ownership` with rows.
`Outcomes` commits to `OutcomeStore`, and its outcomes are the trades of
`DailyCapture`.  `DailyCapture` tightens through `Amendment` and refuses entries
in `Admission`.  Across each of these seams only a value or a failure passes,
which the receiving module chooses freely, so that each is checked against
every behaviour of the other.

## 3. Runs

Every run is exhaustive; the states are distinct states.

| Run | Instance | Shows | States |
|---|---|---|---|
| `two_entries` | two entries, 1 fault | one uncertain entry at a time, and it blocks the others | 2.6 M |
| `entry_and_exits` | an entry with a full or a partial exit, 1 fault | the outbox tells the truth | 2.3 M |
| `amendment` | an entry, and an amendment posted with two bodies, 1 fault | a refusal is final; `Execution` implements `SubmitOnce` | 1.9 M |
| `recovery_flatten` | an entry and its recovery flatten, 2 faults, fairness | sent once; answered; discovered; unlatched | 78 k |
| `control_races` | pause, resume, arm and a flatten, two requests, any startup mode, 1 fault | the last pause holds, never armed beyond the start, decisions stand | 677 k |
| `protection_safety` | two tranches of one lot, open or entered while the cycle runs, a partial exit, 1 fault | sagas and flattens are told truly and sent once; the rearm places one stop | 2.4 M |
| `operator_live` | `Control` with a flatten and 2 faults; `Protection` with two lots and 1 fault; fairness | both ways out of a position come to their end | 193 k |
| `venue_link` | `HubRecovery`, `Rest`, `Evidence`, 2 faults each, fairness | the link comes back, calls return, the queue ends, the state goes forward | 452 k |
| `parts` | ten parts, each on its own instance | the safety of each | 864 k |
| `outcomes` | two entries, one proven, one failure or restart | claims and revisions of outcomes | 2.0 M |
| `month_end` (violation) | the calendar around the end of a month | a day is locked that earned nothing | - |
| `survivor_stop` (violation) | tranches of two lots and one, an exit of one lot | a survivor loses its stop | - |

`operator_live`, `venue_link` and `parts` put modules side by side: a variable
`part` says which module the behaviour is of, the others stay at their start.
Their states are the sum of the modules' states, not the product, and nothing
is lost, because the modules share no variable.  The fairness of each module is
guarded by its `part`, so that a module at rest owes no step.

Why the bounds are enough:

- `Execution`: an intent has one row, one receipt and one request, and meets
  others only through the latch, the uncertain rows, positions and the flatten
  identity; each of those is pairwise, so each run has the pair that meets
  there.  One fault already puts a crash between any two steps with the full
  recovery after it; two interrupt recovery itself.  `OneExit` lets a behaviour
  take one of the two exits; `KnownFirst` lets the second body come only for a
  known amendment, before the fault.
- `Control`: commands meet through numbers and two fields of memory.  Two
  requests reach every race of a claim; `FlattenAlone` keeps the flatten, whose
  effect is on the venue, from being multiplied with the commands whose effect
  is in memory.
- `Protection`: the rearm and the exit choose a tranche among others, hence two;
  liveness needs more than one lot in a tranche, not a second tranche.  `Scenes`
  splits the safety run: a behaviour that starts with both tranches open is of
  exits; one that starts with fewer is of entries that are sent, fill and get
  their bracket at any step of the cycle, with no exit, and no fault while an
  entry is on its way.  In `operator_live` the position is open at the start.
- `HubRecovery`, `Rest`, `Evidence`: two faults let a recovery be overtaken by a
  newer loss, a refresh fail while calls wait for it, and a batch fail behind
  one that was taken back.  One permit makes everybody wait.  Three events are a
  quote, its successor and an identity event; a batch fails before its
  transaction or behind it.
- `parts`: sizes are the least at which a window, a budget, a queue and a limit
  are exceeded (`LogBound`: a long log early or a short one late, with an order
  or a trade at the venue; `TwoDisturbances`: at most two of packets, timers and
  failures in `Universe`; `AlertsOrWatchdog`: the two halves of `Watch`, which share
  no state, one at a time).  The ownership starts with an entry of two contracts
  open, so that an exit of one and a scale-in of one follow; the watchdog sees
  two boots, so that one can be judged by the line of the other.
- `outcomes`: two closings can be confused with each other in either order;
  `OneMishap` allows a failure or a restart.  With three entries a simulation of
  28 million states found nothing that is not in the proof of section 5, and
  the properties are stated in the form that holds there.

Deadlock checking is off where a bounded clock, a bounded number of events or a
stopped process ends the behaviour: in every run except those of `Execution`
and `control_races`, where the cycle or the next post is always possible.
Symmetry is used over the two entries and over request handlers, in runs
without liveness that name none of them.

### Fairness

- `Execution`: weak for the handler and the cycle (continuations run, timers
  fire, calls time out); strong only for "time passes": a cycle that measures
  ages again and again finds the row old.
- `Control`: weak for the worker, continuations, the coordinator's answer and the
  steps of the cycle and the restart; a failing cycle is retried with backoff.
- `Protection`: weak for the job on the queue, the cycle, the fill of an EXIT's
  market order, the end of the 30 s after the fills in which legs are awaited, and
  the write of a fill to the evidence.
- `HubRecovery`: weak for each promise, the liveness tick, SignalR's own
  reconnection, the pipeline, the scheduler and the timer, and for events: a
  market opens again, and a stream that is subscribed gets some event.
- `Rest`: weak for the clock, the shared refresh, and every request's answer or
  deadline.
- `Evidence`: weak for the writer's timer and its answers, staging, start, replay
  and the stop.

Nothing is assumed of Hermes, of the operator, of the venue's answers or of the
faults.

### Where a document and the code disagree, as runs

1. `month_end`: `localDateTimeToUtcIso` corrects its guess by days of the month and
   ignores the month, so that `addCalendarDays` over the end of a month does not
   arrive (`policy/session-calendar.ts:110`).  In America/Chicago 18:00 on
   2026-01-31 gets the trading day 2026-08-01, and 2026-09-01 a start in February.
   The must-flat time and the identity of the lock use the same code.
2. `survivor_stop`: a partial EXIT cancels every leg of the tranche it names, also
   of the lots it does not sell (`execution/coordinator.ts:620`).

Every property of a passing run has a mutant of the code under which TLC refutes
it: definitions marked "Faulty" beside the one they change.  Where a property
is a conjunction of several, each conjunct was refuted by a faulty variant that
is kept there.

## 4. What the properties say, and what was found

### Properties, and why they could fail

- `OneUncertainEntry`, `UncertainEntryBlocks`: the check is awaited three steps before
  the row is written.  They hold because intents are handled one at a time and
  recovery never makes a settled row uncertain again.
- `OutboxTellsTheTruth`, `RefusalIsFinal`: recovery and the handler both conclude
  about a row while the request is in flight.  They hold because the store's
  transitions are guarded and recovery concludes "not submitted" only from
  `prepared`.  Closes are excepted: they are concluded from a flat position.
- `SubmittedAtMostOnce`, `ImplementsSubmitOnce`: retries by Hermes, by recovery and by
  the next process.  The refinement adds that beliefs never change.
- `EveryIntentAnswered`, `AcceptedIsDiscovered`, `LatchIsReleased`: no crash leaves an
  intent without an answer, an accepted order undiscovered, or the latch set.
- `LastPauseHolds`: memory follows the order of claims, the store that of numbers.
  `DecidedStaysDecided`: `transition` has no guard; only the claim protects a row.
  `NeverArmedBeyondStart`: a command right under one startup mode is restored under
  another.  `ExitAtMostOnce`, `EveryControlDecided`, `WaitingFlattenEnds`: the saga
  under retries, restarts and an account that moves.
- `ProtectionInv`: a flatten of one set of entries leaves once; a saga that tells of a
  submitted order has one.  `RearmOnlyNaked`: the rearm decides from a snapshot taken
  before it awaited, beside entries that fill meanwhile; a bracket that came after that
  snapshot is the exception, see below.  `NakedBlocksEntries`, `NakedIsFlattened`,
  `FlatIsSwept`: what is left without a stop, or with legs and no position, comes to an
  end.
- `HubInv`: answers of an earlier generation end nothing.  `HubsComeBack`: a rerun, a
  coalesced task and a sleeping restart wait on each other.
- `RestInv`: a permit released to a waiter that times out; a mutation repeated by a
  retry or after a refresh.  `CriticalCallsReturn`: the refresh that calls share.
- `EvidenceInv`, `AppliedInOrder`, `QueueEnds`: outbox, window, batch and store under
  coalescing, spills, failures and replay.  An account event is stored once, unless
  its batch was taken back behind its transaction.
- `LogInv`: the cursor and late records; versions stored twice, and an order's older
  one behind a newer one; retention counted in memory; a replay that calls itself
  complete.
- `StoreInv`: three writes of one outcome.  `OutcomesInv`, `RevisionsKeepFills`: trades
  attributed from windows that overlap.
- `OwnershipInv`: protection and remaining lots computed from evidence that comes
  late, where the evidence covers what happened, under exits of a whole entry or a
  part.  Excepted is what fills that are never reduced cannot tell (`Overclaimed`,
  `Claimable`).
- `ProcessInv`: what a failed stop retains.  `UniverseSafe`: fenced observations, the
  starts of downloads in any window, joined refreshes.  `MarketInv`: a quote joined of
  two sides.  `AdmissionSafe`: sizing against prices that moved.  `CaptureInv`,
  `LockEarned`: the day of a profit, and an entry in a locked day.  `AmendmentInv`: two
  amenders of one stop.  `WatchSafe`: the line of a dead process, and what a line told
  between two checks.

### Disagreements that are no run

These were found as counterexamples, or while translating, and are described
here so that nobody takes the absence of a property for its truth.

Execution and control.
- Any open position of the contract releases the settlement latch, also that of
  a scale-in entry that has appeared nowhere (`service.ts:1870`, against
  `docs/ARCHITECTURE.md:366`).
- Recovery lists an intent whose handler is between claiming and preparing it,
  and may publish that it was not submitted after it was (`recovery.ts:45`);
  it publishes over the pending receipt of an entry, which then is never
  reconciled (`recovery.ts:47`, against `docs/PARITY.md:99`).
- Paused and disabled after an ambiguous flatten lasts until the next restart
  only (`service.ts:1086`); a flatten of another allowlisted contract is completed
  as flat with the position open (`service.ts:1297`).
- A post with another body replaces the stored receipt
  (`sqlite-execution-store.ts:204`); a close is concluded from positions fetched
  before it (`recovery.ts:233`).
- A crash between preparing and sending the unprotected flatten leaves it unsent
  for ever; an EXIT recovered after a crash blocks the rearm for ever
  (`sqlite-execution-store.ts:564`); `degraded_stop_only` masks every tranche
  (`protection-supervisor.ts:36`).
- A rearm queued behind a scale-in, or before its bracket shows, reads the
  tranches of its own time against the orders of the snapshot it was queued with
  (`coordinator.ts:1052`, against 1056-1063, 1151 and `reconciliation-service.ts:244`):
  the new tranche seems to have no legs and is given a second stop beside its
  bracket.  `RearmOnlyNaked` excepts exactly the brackets that came after the
  snapshot; without the exception TLC shows the second stop.

Risk and policy.
- The floor is kept by the first entry, not by a scale-in: the lots there are
  priced by whatever stops work, however many lots those cover
  (`coordinator.ts:76`, 193, against 163), and on the packet's proof of protection,
  which may be old (189).  Whether the session is degraded is judged when the
  packet is built and not when the entry comes back
  (`tests/evidence-outbox-and-auth-gate.test.ts:105`).
- The capture lock can loosen a stop Hermes has moved beyond breakeven, on an
  older snapshot (`CaptureNeverLoosens`, kept in `Amendment`); and it puts the stop
  of a losing long at the bid (`clampCaptureLockBreakevenStop`).

Streams, evidence, market.
- A gap that opens while a reconciliation runs is proven by it, since success
  takes the generation of its end (`venue-state.ts:325`, against 84 and 312), and a
  stream lost while degraded opens no gap (451); the reconciliation that one hub's
  reconnection asks for completes the other hub's recovery too (`service.ts:1437`).
- A call refused by an open circuit is recorded as a failure of its own
  (`client.ts:372` with 456), so that polling keeps the circuit open;
  `refreshSession` may validate a dead token for ever (`auth-manager.ts:191`); a late
  401 invalidates a refreshed session (143).
- An identity event that was spilled never runs its `onDurable`
  (`evidence-write-queue.ts:223`); a quote and its successor can both be dropped.
- A quote of a provider whose clock leads ours counts as fresh for longer, by that
  lead; the bound of `MarketInv` therefore has `MaxAhead`.  Each retried
  reconciliation grants its grace again (`data-quality.ts:300`).
- A packet request joined to a running refresh of its own lane is answered by
  data it did not wait for; only the queue's part is a property (`LaterRefresh`).
- The scheduler's report says of its headroom that "negative would mean the
  provider limit was crossed" (`rate-aware-scheduler.ts:26`), but it counts starts: the
  client sends up to four requests behind one (`client.ts:325-398`,
  `retry-policy.ts:79-108`; one in a hub recovery), so the venue's window can hold
  more than the limit while the report shows room.
- The pruning of market rows runs behind the transaction in the same call
  (`sqlite-provider-evidence-store.ts:150-158`); when it fails, the queue takes the
  batch back (`evidence-write-queue.ts:405-408`) and stores its account events twice.
- History trades carry their creation time, the same for all versions
  (`history-sync.ts:181-190`), so that `isStrictlyOlder`
  (`sqlite-provider-evidence-store.ts:235-240`) drops none: the answer of a stale
  replica is appended behind the newer version, and the projection, which takes
  the last, may count a voided trade again.
- "Two samples with no progress are a real stall" (`gateway-watchdog-policy.ts:98`):
  the drain writes a line at most every five seconds (`service.ts:316-320`, 347), so
  that two checks can see one line although a batch was replayed between them;
  `StallIsReal` excepts batches within that time.
- An alert that never opened is reported as clearing once its signal stops
  (`health-alerts.ts:175`, against the comment at 182).

Outcomes and ownership.
- With three entries a retry can run to its end and still leave a closing fill
  in two outcomes: 1 holds the fill of 2, 2 would take that of 3, and neither is
  replaced.  An outcome can lose its closing fill to a tranche built before it in
  the same publication that then is not written, because claims are added
  before the replacement is decided (`trade-outcome-publisher.ts:107`).  The first
  is why no property says that retries end sharing; the second is the exception
  in `LostOnlyInBatch`.
- A fact write that fails before the `try` leaves the publication in flight for
  ever, and a stop waits for it (`service.ts:1766`, 962); a flat seen during a
  publication is dropped (1756); a retry passes over an intent without an outcome
  (1713).
- The rewrite that heals a failed mirror write has the hot index only, so the
  mirror loses what was evicted (`trade-outcome-store.ts:223`, 248); `StoreInv` is
  checked where the window holds every outcome.
- An EXIT of part of an entry orders the claims and never reduces them
  (`tranches.ts:51-66`, which says that "the venue count still caps the total and the
  projection cannot drift"): with an entry of two, an exit of one that leaves its
  bracket, and a scale-in of one, the old entry claims both contracts and the new
  one none, and the position is called proven though the new contract may be naked
  (`Overclaimed`).  An entry without legs, sold in part or beside one that was
  closed without a name, claims wrongly too (`Claimable`): nothing in the rows
  says which of them holds the contracts.
- Ownership calls a position protected in a gap of the evidence; hence the
  condition `Covered` of its properties.

Process.
- Two starters that judge the same lock stale can both hold it
  (`runtime-lock.ts:113`, against `tests/runtime-lock.test.ts:10`); an empty lock
  file is never stale; a lock of another host is judged stale.
- A start that fails because one hub does not connect leaves the other connected
  and registered nowhere, and closes the stores under it (`realtime.ts:170`,
  `service.ts:550`, against `lifecycle-supervisor.ts:106`); an intent whose request
  was still being read when a stop drained the queue may run behind them too.

## 5. Proofs

All proofs hold for every value of the constants that the named assumptions
admit; those only say which sets are disjoint or finite, which bounds are natural
numbers and, for `ProviderLog`, that the venue shows a record within the overlap
(`Delay <= Overlap`), which is what the overlap is for.  TLC evaluates each of
them in a run.  None of the properties is inductive; what follows is what each
proof adds.

- `Execution_proofs`: `TypeCorrect`, `AtMostOnce`, `Truth`, `Refusals`, `OneUncertain`,
  `Blocking`, and `Implementation`, the refinement of `SubmitOnce` step by step.  `IInv`
  says how row, wire, order and counter agree (`RequestInv`), what concluded rows
  and refusing receipts imply (`ConclusionInv`), what the handler knows at each of its
  steps while recovery may have moved the row (`HandlerInv`), what recovery's old
  lists still say (`ListsInv`, `FlattenInv`), and that an entry past its checks has
  no uncertain entry beside it (`EntryInv`).
- `Control_proofs`: `TypeCorrect`, `OneExit`, `NeverArmed`, `DecisionIsFinal`,
  `PauseHolds`.  `TaskInv` says what a task carries; `SendInv` that at most one task is
  between winning a claim and sending; `Deciding` that a call waits once in one queue,
  that only the winner of a claim, or the restart that lists the row as applying, may
  still decide a command, and that the restart ends before requests begin.  For
  `PauseHolds` the invariant follows the order of the worker's queue and of its answers:
  pending commands are claimed in the order of their numbers (`PendInv`), the tasks that
  have claimed pauses and resumes go on in that order (`OrderInv`), what precedes a
  completed one is decided (`AppliedInv`), and the restart visits what was left in that
  order too (`BootInv`); so a resume is applied only when no later pause is.
- `Protection_proofs`: `ReductionsAreSafe`, `RearmPlacesOneStop`.  The invariant says
  what each step of the job and the cycle carries; that a row which can be claimed has
  not been on the wire, and is claimed before the call; that a saga past its order has
  one; and that from the fetch to the rearm every working stop was seen, placed by the
  rearm, or came with a bracket after the fetch.  The lots are counted as a set, by
  cardinality.
- `Link_proofs`: `RequestsKeepTheirSlot`: the line is exactly the requests that wait,
  each once, and the permits out are those of the requests that hold one; the session's
  requests are idle unless the refresh is at them; a mutation on its way has not been
  there. `CompleteWhileSubscribed`: a stream that is connected listens with what it
  subscribed, and the starts of a hub in flight are the one it counts. `EvidenceIsKept`,
  `AppliedForward`: only its number says when an event arrived, so the invariant says
  where each may be: a number is of one event (`NumbersIdentify`); batch, queue and the
  line of stages follow each other by class, through cuts, supersedes and restores
  (`QueueInOrder`), all behind what this process applied (`AppliedBefore`); a pending
  row, or one still to come, is of no stored event (`OutboxIsNew`), and what is queued
  is stored only if it was taken back (`again`).  The sequences are spliced by four
  lemmas (`CutInOrder`, `ConcatInOrder`, `AppendInOrder`, `WithoutInOrder`).
- `Process_proofs`: `WritersSafe`.  What is registered is tied to the place of the
  process: stores and lock go only at places where no writer is registered.
  `WatchIsSound`: a line with the live process's number is of its own drain; what
  the watchdog remembers of a drain is the line its last check found, and a batch
  told since lowers the line below it.  Its hypothesis is
  the thresholds of the service, two evaluations (`health-alerts.ts:138`), or one, those of
  the deprecated call (`:209`): with three, TLC shows a critical alert that is
  clearing while its warning, which a dip of one evaluation had set back, is still opening.
- `Policy_proofs`: `StopStaysWithin`: the stop and the amendment under way are within
  the envelope whatever the snapshot shows.  `CaptureIsRight` has a hypothesis: that
  the calendar is right at the hours of the clock.  `parts` checks it on a stretch
  with a change of the clocks, and `month_end` shows that it fails at the end of a
  month; the theorem says the lock itself adds no other mistake.  The invariant
  follows a build from the hour its day was read at.  `FirstEntryIsCovered`: the stops
  never cover more contracts than the position has (`StopsInv`, counted as a set), so a flat
  account has none, a first entry leaves one, and the worth at the stops is a sum over one
  element (`WorthAtOneStop`); that stop loses the ticks the check counted, the fees and
  the spread already paid, and the check leaves more buffer than that (`FirstEntryLoss`).
- `Venue_proofs`: `QuotesAreRecent`.  No comparison in the code bounds the age of a
  side; the invariant ties each side's age to its quote's, up to the side's life and the
  lead of the provider's clock.  `BarsAreFresh`: the fence lets only the refresh with
  the newest number write; the invariant adds that refreshes in flight have different
  numbers and that the newest reads up to no earlier than what is observed (`ReadInv`),
  that no start of a download is later than the clock, so that the full trailing window
  bounds every window (`StartInv`), and that whoever waits in a job asked before the job
  began (`QueueInv`).  Starts are counted by cardinality. `OwnershipFollowsVenue`: a
  record is never ahead of the venue (`Honest`), a snapshot is right about every order
  that has not changed since it was taken (`Faithful`), and an entry sold in part was
  wholly filled, while one that holds nothing more was named by an EXIT, stopped or
  voided (`HoldsInv`).  From these, where the evidence covers what happened, the open
  orders and fills of the projection are the venue's (`OpenIsVenue`, `FilledIsBought`),
  a live leg in it is one that works (`LiveLegIsVenues`), and the entries the venue
  holds claim before the closed ones (`HeldClaimFirst`), so that the claims fit exactly
  (`OthersLeaveRoom`, `AllLeaveNothing`).  `ProvenHasLegs` needs no such order: the
  first entry in line after the protected ones gets contracts whenever some held entry
  has no leg, and keeps the status pending. Contracts are counted as a set, entry by
  entry.
- `Records_proofs`: `LogIsKept`: a run of the sync has stored what lies behind it or
  holds it; the newest row is never pruned; the last row of a record has the version its
  head has, and an order's rows only go up; a replay has no hole below what it has read,
  or knows of it.  `OneClaimEach`, `RevisionsAreRight`: the clock counts what happened,
  so that the closing fill of an outcome lies in the window of its next search
  (`FillInv`); a publication has claimed whatever belongs to an intent it does not
  rebuild and what it has built (`ClaimInv`); so a search finds a fill again that nobody
  claims (`FoundAgain`) and cannot take one that is claimed. `IndexIsCommitted`: a
  publication changes one row of the current ones (`PublishedIsCurrent`) and the index
  follows it.  `ExportFollowsFeed` (`StoreInv`) has two hypotheses: the index can hold
  every outcome, since a rewritten export forgets what was evicted, and an export found
  beside an empty feed has each outcome once, as `append` leaves it.  Its invariant
  (`MirrorInv`) says that the import follows the export line by line, that only the head
  of the chain has committed, that an append that waits is the only one of its outcome,
  and that without a backlog the export lacks at most the line the head writes.

Only model-checked:

- liveness, and the fairness it rests on: `EveryIntentAnswered`, `AcceptedIsDiscovered`,
  `LatchIsReleased`, `EveryControlDecided`, `WaitingFlattenEnds`, `NakedBlocksEntries`,
  `NakedIsFlattened`, `FlatIsSwept`, `HubsComeBack`, `CriticalCallsReturn`, `QueueEnds`;
- what a recursive function computes for every input: the calendar (`CalendarTrue`);
- the two disagreements of section 3, which are counterexamples.

## 6. Not modelled, and the plan

Left out for good: market data derivation (order flow, indicators, levels), the
layout of packets and health reports, HTTP routing, replay and validation
tools, configuration.  They keep no state other parts decide on, or only compute
from it.  Left out so far: the price path between entry and exit of an outcome
(`learning/path-chronology-tracker.ts`), late ends of connection attempts, moved
targets, the scoring of candidates.
