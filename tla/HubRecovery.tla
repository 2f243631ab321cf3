------------------------------ MODULE HubRecovery ------------------------------
(***************************************************************************)
(* The two SignalR hubs, their restart and recovery, the recovery pipeline *)
(* and the reconciliation it pays for, and what of it the gateway takes    *)
(* for a proof that its account state is current.                          *)
(*                                                                         *)
(* Connection callbacks, liveness ticks, timers, the pipeline gate and the *)
(* task scheduler are separate chains of promises on one event loop.  What *)
(* runs between two awaits is one action.                                  *)
(*                                                                         *)
(* Times are abstracted: a sleep or an age ends when it may.  Of a     *)
(* reconciliation it is kept what it read and whether a gap opened since.  *)
(***************************************************************************)
EXTENDS Integers, FiniteSets, FiniteSetsExt

CONSTANTS
    MaxHubFaults,  \* bound on dropped links, failed calls, silent or closed markets
    MaxSleepers    \* bound on restarts of one hub that wait out their delay

ASSUME FaultsAssumption == MaxHubFaults \in Nat
ASSUME SleepersAssumption == MaxSleepers \in Nat \ {0}

Hubs == {"user", "market"}
States == {"connecting", "connected", "reconnecting", "disconnected", "degraded"}

(* Faulty: a hub that is disconnected is left to SignalR.                    *)
StartingUp == {"connecting", "reconnecting"}

(* shouldForceStuckStreamRestart.                                            *)
Offline == {"connecting", "disconnected", "reconnecting"}

Phases == {"connected", "suspect", "reconnecting", "resubscribing", "reconciling",
           "failed"}

VARIABLES
    \* The wire.
    conn, subscribed,  \* SignalR's state of a hub; it was asked for our events
    publishing,        \* the venue publishes 1m bars
    \* VenueStateStore.
    stream,
    current,           \* reconciliation.generation is the operational generation
    \* HubRecoveryController.
    phase, rgen,
    \* ProjectXRealtimeClient: the promises under way, the restarts that sleep
    \* and those in flight.
    jobs, sleepers, starting,
    \* RecoveryPipelineGate and handleHubReconnected.
    gate, rerun, snaps,
    \* The scheduler's reconcile task, and reconcile itself.
    queued, awaited, answer, reader,
    sees,              \* nothing read yet, all there is, or a gap opened since
    hubFaults

wire     == <<conn, subscribed, publishing>>
store    == <<stream, current>>
recovery == <<phase, rgen>>
client   == <<jobs, sleepers, starting>>
pipeline == <<gate, rerun, snaps>>
read     == <<queued, awaited, answer, reader>>
task     == <<read, sees>>
hubVars     == <<wire, store, recovery, client, pipeline, task, hubFaults>>

(* A promise under way: onreconnected or restartHub, how far it is, and the  *)
(* recovery generation it was started in.                                    *)
Jobs == [hub : Hubs, src : {"reconnect", "restart"},
         at : {"subscribe", "pipeline", "doomed", "done", "failed"}, gen : Nat]

HubFault == hubFaults < MaxHubFaults /\ hubFaults' = hubFaults + 1

-----------------------------------------------------------------------------
(* VenueStateStore.                                                         *)

(* setStream: a gap invalidates, if the stream was connected when it opened. *)
Gap(k, to) == to \in {"reconnecting", "disconnected"} /\ stream[k] = "connected"

(* Faulty: a hub that reconnects by itself keeps its state.                  *)
SetStreamLate(k, to) ==
    /\ stream' = IF to = "reconnecting" THEN stream ELSE [stream EXCEPT ![k] = to]
    /\ current' = (current /\ ~Gap(k, to))
    /\ UNCHANGED sees

SetStream(k, to) ==
    /\ stream' = [stream EXCEPT ![k] = to]
    /\ current' = (current /\ ~Gap(k, to))
    /\ sees' = IF Gap(k, to) /\ sees = "all" THEN "gap" ELSE sees

Listening(k) == conn[k] = "on" /\ subscribed[k]

(* stateIssues, without the quote and the evidence backlog.                  *)
Complete == (\A k \in Hubs : stream[k] = "connected") /\ current

(* HubRecoveryController.                                                   *)
Active(k) == phase[k] # "connected"

BeginAttempt(k, to) ==
    /\ rgen' = IF phase[k] = "connected" THEN [rgen EXCEPT ![k] = @ + 1] ELSE rgen
    /\ phase' = IF phase[k] \in {"connected", "failed"}
                THEN [phase EXCEPT ![k] = to] ELSE phase

MarkProgress(p, k, to, gen) ==
    IF gen = rgen[k] /\ p[k] \notin {"failed", "connected"}
    THEN [p EXCEPT ![k] = to] ELSE p

Fail(k, gen) ==
    phase' = IF gen = rgen[k] THEN [phase EXCEPT ![k] = "failed"] ELSE phase

(* RecoveryPipelineGate.run: one pass more, or the first.                    *)
RunGate ==
    /\ rerun' = (gate # "idle")
    /\ gate' = IF gate = "idle" THEN "begin" ELSE gate
    /\ UNCHANGED snaps

(* onStateInvalidated: reconcile, unless the gate or a recovery will do it.  *)
Skips == gate # "idle" \/ \E k \in Hubs : Active(k)

StateInvalidated ==
    /\ reader' = IF ~Skips /\ reader = "idle" THEN "direct" ELSE reader
    /\ UNCHANGED <<queued, awaited, answer>>

(* restartHub up to its sleep; the delay grows with every call.              *)
Sleep(k) ==
    sleepers' = IF starting[k] = 0 /\ sleepers[k] < MaxSleepers
                THEN [sleepers EXCEPT ![k] = @ + 1] ELSE sleepers

(* A subscription the connection did not live to answer is rejected.         *)
Cut(k) == {IF j.hub = k /\ j.at = "subscribe" THEN [j EXCEPT !.at = "failed"] ELSE j :
              j \in jobs}

Job(k, src, at, gen) == [hub |-> k, src |-> src, at |-> at, gen |-> gen]

-----------------------------------------------------------------------------
(* start has been awaited, and the first reconciliation.                     *)
HubInit ==
    /\ conn = [k \in Hubs |-> "on"] /\ subscribed = [k \in Hubs |-> TRUE]
    /\ publishing = TRUE
    /\ stream = [k \in Hubs |-> "connected"]
    /\ current = TRUE
    /\ phase = [k \in Hubs |-> "connected"] /\ rgen = [k \in Hubs |-> 0]
    /\ jobs = {} /\ sleepers = [k \in Hubs |-> 0] /\ starting = [k \in Hubs |-> 0]
    /\ gate = "idle" /\ rerun = FALSE /\ snaps = [k \in Hubs |-> 0]
    /\ queued = "none" /\ awaited = FALSE /\ answer = "none" /\ reader = "idle"
    /\ sees = "nothing"
    /\ hubFaults = 0

-----------------------------------------------------------------------------
(* Events of the hubs.                                                      *)

(* recordAndApply of an event that changes nothing: the stream is connected. *)
Event(k) ==
    /\ Listening(k) /\ stream[k] # "connected"
    /\ stream' = [stream EXCEPT ![k] = "connected"]
    /\ UNCHANGED <<wire, current, recovery, client, pipeline, task, hubFaults>>

(* An event that cannot be parsed: payloadFault.                              *)
PayloadFault(k) ==
    /\ Listening(k) /\ HubFault
    /\ stream' = [stream EXCEPT ![k] = "degraded"]
    /\ IF k = "user" THEN StateInvalidated ELSE UNCHANGED read
    /\ UNCHANGED <<wire, current, sees, recovery, client, pipeline>>

(* onreconnecting.  The recovery it begins is why nothing is reconciled yet. *)
Drop(k) ==
    /\ conn[k] = "on" /\ HubFault
    /\ conn' = [conn EXCEPT ![k] = "retrying"]
    /\ subscribed' = [subscribed EXCEPT ![k] = FALSE]
    /\ SetStream(k, "reconnecting")
    /\ BeginAttempt(k, "reconnecting")
    /\ jobs' = Cut(k)
    /\ UNCHANGED <<publishing, sleepers, starting, pipeline, read>>

(* onreconnected, as far as the subscription.                                *)
Reconnected(k) ==
    /\ conn[k] = "retrying"
    /\ conn' = [conn EXCEPT ![k] = "on"]
    /\ jobs' = jobs \cup {Job(k, "reconnect", "subscribe", rgen[k])}
    /\ UNCHANGED <<subscribed, publishing, store, recovery, sleepers, starting,
                   pipeline, task, hubFaults>>

(* onclose: the market hub of a closed market waits for its bars.            *)
Close(k) ==
    /\ conn[k] # "off" /\ starting[k] = 0 /\ HubFault
    /\ conn' = [conn EXCEPT ![k] = "off"]
    /\ subscribed' = [subscribed EXCEPT ![k] = FALSE]
    /\ SetStream(k, "disconnected")
    /\ jobs' = Cut(k)
    /\ IF k = "market" /\ ~publishing
       THEN StateInvalidated /\ UNCHANGED sleepers
       ELSE Sleep(k) /\ UNCHANGED read
    /\ UNCHANGED <<publishing, recovery, starting, pipeline>>

(* The subscription of a reconnected hub is granted: state and pipeline.     *)
Subscribed(j) ==
    /\ j.at = "subscribe" /\ conn[j.hub] = "on"
    /\ subscribed' = [subscribed EXCEPT ![j.hub] = TRUE]
    /\ phase' = MarkProgress(phase, j.hub, "resubscribing", j.gen)
    /\ SetStream(j.hub, "connected")
    /\ jobs' = (jobs \ {j}) \cup {[j EXCEPT !.at = "pipeline"]}
    /\ RunGate
    /\ UNCHANGED <<conn, publishing, rgen, sleepers, starting, read, hubFaults>>

SubscribeFails(j) ==
    /\ j.at = "subscribe" /\ HubFault
    /\ jobs' = (jobs \ {j}) \cup {[j EXCEPT !.at = "failed"]}
    /\ UNCHANGED <<wire, store, recovery, sleepers, starting, pipeline, task>>

-----------------------------------------------------------------------------
(* restartHub.                                                              *)

(* checkStreamLiveness: a hub that has been offline for stuckStreamMs.  The   *)
(* ticks that come while a restart sleeps, each with a longer delay, are left *)
(* out to bound the sleepers.                                                 *)
StuckTick(k) ==
    /\ stream[k] \in Offline /\ (k = "market" => publishing)
    /\ starting[k] = 0 /\ sleepers[k] = 0
    /\ Sleep(k)
    /\ UNCHANGED <<wire, store, recovery, jobs, starting, pipeline, task, hubFaults>>

(* checkStreamLiveness: the market hub has been silent for three ticks.      *)
SilentTick ==
    /\ stream["market"] \in {"connected", "degraded"} /\ publishing
    /\ starting["market"] = 0 /\ HubFault
    /\ Sleep("market")
    /\ UNCHANGED <<wire, store, recovery, jobs, starting, pipeline, task>>

(* The venue stops publishing bars, and starts again: notifyMarketDataResumed.*)
MarketShuts ==
    /\ publishing /\ HubFault /\ publishing' = FALSE
    /\ UNCHANGED <<conn, subscribed, store, recovery, client, pipeline, task>>

MarketOpens ==
    /\ ~publishing /\ publishing' = TRUE
    /\ IF stream["market"] \in {"connected", "degraded"} THEN UNCHANGED sleepers
       ELSE Sleep("market")
    /\ UNCHANGED <<conn, subscribed, store, recovery, jobs, starting, pipeline,
                   task, hubFaults>>

(* Faulty: what was true before the sleep is not looked at again.            *)
MayStillStart(k) == TRUE

(* The checks after the sleep.                                               *)
MayStart(k) == starting[k] = 0 /\ (k = "market" => publishing)

(* The old connection is stopped, and its onclose finds the restart.  A gap  *)
(* that opens like this invalidates nothing.                                 *)
RestartBegin(k) ==
    /\ sleepers[k] > 0
    /\ sleepers' = [sleepers EXCEPT ![k] = @ - 1]
    /\ IF MayStart(k)
       THEN /\ starting' = [starting EXCEPT ![k] = @ + 1]
            /\ BeginAttempt(k, "suspect")
            /\ stream' = [stream EXCEPT ![k] =
                  IF conn[k] = "off" THEN "connecting" ELSE "disconnected"]
            /\ conn' = [conn EXCEPT ![k] = "off"]
            /\ subscribed' = [subscribed EXCEPT ![k] = FALSE]
            /\ jobs' = Cut(k) \cup {Job(k, "restart", "subscribe", rgen'[k])}
       ELSE UNCHANGED <<starting, recovery, stream, conn, subscribed, jobs>>
    /\ UNCHANGED <<publishing, current, pipeline, task, hubFaults>>

(* start and subscribe in time.                                              *)
Restarted(j) ==
    /\ j.at = "subscribe" /\ j.src = "restart" /\ conn[j.hub] = "off"
    /\ conn' = [conn EXCEPT ![j.hub] = "on"]
    /\ subscribed' = [subscribed EXCEPT ![j.hub] = TRUE]
    /\ phase' = MarkProgress(phase, j.hub, "resubscribing", j.gen)
    /\ SetStream(j.hub, "connected")
    /\ jobs' = (jobs \ {j}) \cup {[j EXCEPT !.at = "pipeline"]}
    /\ RunGate
    /\ UNCHANGED <<publishing, rgen, sleepers, starting, read, hubFaults>>

(* Faulty: whoever is through takes the restart in flight back.              *)
ReleasesAny(j) == TRUE

(* finally of restartHub.                                                   *)
Releases(j) == j.src = "restart"

(* The rest of onreconnected and restartHub: finally, or catch.              *)
JobDone(j) ==
    /\ j.at = "done"
    /\ jobs' = jobs \ {j}
    /\ starting' = IF Releases(j) THEN [starting EXCEPT ![j.hub] = @ - 1]
                   ELSE starting
    /\ UNCHANGED <<wire, store, recovery, sleepers, pipeline, task, hubFaults>>

JobFailed(j) ==
    /\ j.at = "failed"
    /\ jobs' = jobs \ {j}
    /\ Fail(j.hub, j.gen)
    /\ SetStream(j.hub, "disconnected")
    /\ IF Releases(j)
       THEN /\ starting' = [starting EXCEPT ![j.hub] = @ - 1]
            /\ sleepers' = IF j.hub = "market" /\ ~publishing THEN sleepers
                           ELSE [sleepers EXCEPT ![j.hub] = Min({@ + 1, MaxSleepers})]
            /\ UNCHANGED read
       ELSE UNCHANGED <<starting, sleepers>> /\ StateInvalidated
    /\ UNCHANGED <<wire, rgen, pipeline, hubFaults>>

-----------------------------------------------------------------------------
(* handleHubReconnected, run by the gate.                                   *)

Move(from, to) ==
    {IF j.at \in from THEN [j EXCEPT !.at = to] ELSE j : j \in jobs}

(* The end of a pass: another one if it was asked for, or everybody is told. *)
EndPass ==
    IF rerun
    THEN gate' = "begin" /\ rerun' = FALSE /\ UNCHANGED jobs
    ELSE /\ gate' = "idle" /\ UNCHANGED rerun
         /\ jobs' = {IF j.at = "pipeline" THEN [j EXCEPT !.at = "done"]
                     ELSE IF j.at = "doomed" THEN [j EXCEPT !.at = "failed"] ELSE j :
                        j \in jobs}

(* Both hubs that recover are taken along, and the reconciliation is queued; *)
(* if the timer's is queued, it is shared.                                   *)
PipelineBegin ==
    /\ gate = "begin"
    /\ IF \A k \in Hubs : ~Active(k)
       THEN EndPass /\ UNCHANGED <<snaps, phase, task>>
       ELSE /\ snaps' = [k \in Hubs |-> IF Active(k) THEN rgen[k] ELSE 0]
            /\ phase' = [k \in Hubs |->
                  IF Active(k) THEN MarkProgress(phase, k, "reconciling", rgen[k])[k]
                  ELSE phase[k]]
            /\ gate' = "reconcile"
            /\ queued' = IF queued = "none" THEN "pipeline" ELSE queued
            /\ awaited' = TRUE
            /\ UNCHANGED <<rerun, jobs, answer, reader, sees>>
    /\ UNCHANGED <<wire, store, rgen, sleepers, starting, hubFaults>>

(* Faulty: the callbacks of this generation are taken for the stale ones.    *)
ConcludesStale(k) == snaps[k] # 0 /\ snaps[k] # rgen[k]

(* complete and fail, of the generation that was snapped.                    *)
Concludes(k) == snaps[k] # 0 /\ snaps[k] = rgen[k]

PipelineEnd ==
    /\ gate = "reconcile" /\ answer # "none"
    /\ answer' = "none"
    /\ phase' = [k \in Hubs |->
          IF ~Concludes(k) THEN phase[k]
          ELSE IF answer = "ok" THEN "connected" ELSE "failed"]
    /\ snaps' = [k \in Hubs |-> 0]
    /\ IF answer = "ok" THEN EndPass
       ELSE IF rerun
       THEN /\ gate' = "begin" /\ rerun' = FALSE /\ jobs' = Move({"pipeline"}, "doomed")
       ELSE /\ gate' = "idle" /\ UNCHANGED rerun
            /\ jobs' = Move({"pipeline", "doomed"}, "failed")
    /\ UNCHANGED <<wire, store, rgen, sleepers, starting, queued, awaited, reader, sees,
                   hubFaults>>

-----------------------------------------------------------------------------
(* The scheduler's reconcile task, and reconcile.                           *)

(* The timer; its task swallows the error of the reconciliation.             *)
ReconcileTimer ==
    /\ queued = "none" /\ queued' = "timer"
    /\ UNCHANGED <<wire, store, recovery, client, pipeline, awaited, answer, reader,
                   sees, hubFaults>>

Answer(who, to) == IF who THEN to ELSE answer

(* The task is dispatched; beside a reconciliation under way it does nothing.*)
Dispatch ==
    /\ queued # "none"
    /\ IF reader # "idle"
       THEN answer' = Answer(awaited, "ok") /\ awaited' = FALSE /\ UNCHANGED reader
       ELSE /\ reader' = IF awaited THEN IF queued = "timer" THEN "shared" ELSE "pipeline"
                         ELSE "timer"
            /\ awaited' = FALSE /\ UNCHANGED answer
    /\ queued' = "none"
    /\ UNCHANGED <<wire, store, recovery, client, pipeline, sees, hubFaults>>

Running == reader \in {"timer", "pipeline", "shared", "direct"}

(* The REST reads are answered.                                              *)
Read ==
    /\ Running /\ sees = "nothing" /\ sees' = "all"
    /\ UNCHANGED <<wire, store, recovery, client, pipeline, read, hubFaults>>

(* replacePositions, replaceOrders, markReconciliationSucceeded: the proof is*)
(* of the generation of this moment.  The rest of the cycle follows.         *)
Apply ==
    /\ Running /\ sees # "nothing"
    /\ current' = TRUE
    /\ sees' = "nothing" /\ reader' = "idle"
    /\ answer' = Answer(reader \in {"pipeline", "shared"}, "ok")
    /\ UNCHANGED <<wire, stream, recovery, client, pipeline, queued,
                   awaited, hubFaults>>

ReconcileFails ==
    /\ Running /\ HubFault
    /\ sees' = "nothing" /\ reader' = "idle"
    /\ answer' = IF reader = "pipeline" THEN "failed" ELSE Answer(reader = "shared", "ok")
    /\ UNCHANGED <<wire, store, recovery, client, pipeline, queued, awaited>>

-----------------------------------------------------------------------------
Client ==
    \/ \E j \in jobs : JobDone(j) \/ JobFailed(j)
    \/ \E j \in jobs : (j.src = "reconnect" /\ Subscribed(j)) \/ Restarted(j)
    \/ \E k \in Hubs : RestartBegin(k)

Pipeline == PipelineBegin \/ PipelineEnd

Reconcile == Dispatch \/ Read \/ Apply

HubNext ==
    \/ MarketShuts \/ MarketOpens \/ SilentTick
    \/ \E k \in Hubs : Event(k) \/ PayloadFault(k) \/ Drop(k) \/ Reconnected(k)
                       \/ Close(k) \/ StuckTick(k)
    \/ \E j \in jobs : SubscribeFails(j)
    \/ Client \/ Pipeline \/ Reconcile \/ ReconcileTimer \/ ReconcileFails

HubSpec == HubInit /\ [][HubNext]_hubVars

(* Promises settle, timers tick, SignalR retries for ever, the market opens  *)
(* again.                                                                    *)
FairHubSpec ==
    /\ HubSpec
    /\ \A k \in Hubs : /\ WF_hubVars(RestartBegin(k)) /\ WF_hubVars(Reconnected(k))
                       /\ WF_hubVars(StuckTick(k)) /\ WF_hubVars(Event(k))
    /\ WF_hubVars(\E j \in jobs : JobDone(j) \/ JobFailed(j))
    /\ WF_hubVars(\E j \in jobs : (j.src = "reconnect" /\ Subscribed(j)) \/ Restarted(j))
    /\ WF_hubVars(Pipeline) /\ WF_hubVars(Dispatch) /\ WF_hubVars(Read)
    /\ WF_hubVars(Apply) /\ WF_hubVars(ReconcileTimer)
    /\ WF_hubVars(MarketOpens)

-----------------------------------------------------------------------------
HubTypeOK ==
    /\ conn \in [Hubs -> {"on", "retrying", "off"}]
    /\ subscribed \in [Hubs -> BOOLEAN] /\ publishing \in BOOLEAN
    /\ stream \in [Hubs -> States] /\ current \in BOOLEAN
    /\ sees \in {"nothing", "all", "gap"}
    /\ phase \in [Hubs -> Phases] /\ rgen \in [Hubs -> Nat]
    /\ jobs \subseteq Jobs
    /\ gate \in {"idle", "begin", "reconcile"} /\ snaps \in [Hubs -> Nat]
    /\ starting \in [Hubs -> Nat] /\ sleepers \in [Hubs -> 0 .. MaxSleepers]

(* The state passes for complete only while both hubs stream what was        *)
(* subscribed (stateIssues, with everything that sets a stream's state).     *)
CompleteIsSubscribed == Complete => \A k \in Hubs : Listening(k)

(* A hub has one attempt to start in flight, however many restarts were asked*)
(* for and slept (restartHub, the second check).                             *)
OneStartPerHub == \A k \in Hubs : starting[k] <= 1

HubInv == HubTypeOK /\ CompleteIsSubscribed /\ OneStartPerHub

(* Once the faults are over, both hubs stream again and the state is         *)
(* complete.                                                                 *)
Settles == <>[]Complete

(* And no recovery stays under way, on whatever promise it waits.            *)
RecoveriesConclude == <>[](\A k \in Hubs : phase[k] \in {"connected", "failed"})

(* Both: the streams come back, and what was opened to bring them back ends. *)
HubsComeBack == Settles /\ RecoveriesConclude
================================================================================
