----------------------------- MODULE Process_proofs -----------------------------
(***************************************************************************)
(* Proofs about the gateway as a process (Process), for any processes on   *)
(* any hosts, any number of intents, faults and deaths, and about what     *)
(* watches it: the alerts and the watchdog (Watch).                        *)
(*                                                                         *)
(* The inductive invariant ties what a process has registered and holds to *)
(* the place it is at: a stop gives the lock and the stores away only at   *)
(* places where nothing that writes is registered any more.                *)
(***************************************************************************)
EXTENDS Process, Watch, TLAPS

Places == {"down", "judging", "removing", "retaking", "writing", "starting", "rolling",
           "failed", "ready", "draining", "disposing", "closing", "recovering",
           "retained", "stopped", "over", "dead"}

(* What a start registers.                                                  *)
Resources == {"realtime", "timers", "local_gateway"}

PlaceTypeOK ==
    /\ life \in [Processes -> Places] /\ stack \in [Processes -> Seq(Resources)]
    /\ taken \in [Processes -> 0 .. MaxTaken]
    /\ \A p \in Processes : intents[p] <= taken[p]

(* A process that starts or has something registered holds the lock.        *)
Holds(p) ==
    life[p] \in {"writing", "starting"} \/ stack[p] # <<>> => p \in handle

(* Where the lock and the stores may be given away next, nothing is         *)
(* registered; nor is there anything where they have been.                  *)
Unregistered(p) ==
    /\ life[p] \in {"closing", "stopped", "over", "dead"} => stack[p] = <<>>
    /\ life[p] = "recovering" => stack[p] = <<>> \/ p \in failing
    /\ p \in closed => life[p] \in {"stopped", "over", "dead"}

(* From the end of the drain on, no intent is waited for.                   *)
Settled(p) ==
    life[p] \in {"disposing", "closing", "recovering", "retained", "stopped", "over", "dead"}
        => awaited[p] = 0

LifeInv ==
    /\ ProcessTypeOK /\ PlaceTypeOK
    /\ \A p \in Processes : Holds(p) /\ Unregistered(p) /\ Settled(p)

-----------------------------------------------------------------------------
(* A stack that loses its last disposer, or takes one more, is a stack.       *)
LEMMA StackShrinks ==
    ASSUME NEW s \in Seq(Resources), s # <<>> PROVE Front(s) \in Seq(Resources)
<1>1. Len(s) \in Nat /\ Len(s) > 0
  OBVIOUS
<1>2. QED
  BY <1>1 DEF Front

LEMMA StackGrows ==
    ASSUME NEW s \in Seq(Resources), NEW name \in Resources
    PROVE  Append(s, name) \in Seq(Resources)
OBVIOUS

-----------------------------------------------------------------------------
LEMMA LifeInit == ProcessInit => LifeInv
<1> SUFFICES ASSUME ProcessInit PROVE LifeInv
  OBVIOUS
<1>1. ProcessTypeOK /\ PlaceTypeOK
  BY ProcessAssumption DEF ProcessInit, ProcessTypeOK, PlaceTypeOK, Places, HubNames
<1>2. QED
  BY <1>1 DEF LifeInv, ProcessInit, Holds, Unregistered, Settled

(* The lock file's steps and the steps of the start.                        *)
LEMMA LockSteps ==
    ASSUME LifeInv, NEW p \in Processes,
           OpensLock(p) \/ JudgesLock(p) \/ RemovesLock(p) \/ RetakesLock(p) \/ WritesLock(p)
    PROVE  LifeInv'
<1> USE DEF runVars, Goes
<1>1. UNCHANGED runVars /\ UNCHANGED <<processFaults, deaths>>
  BY DEF OpensLock, JudgesLock, RemovesLock, RetakesLock, WritesLock
<1>2. /\ handle' \in SUBSET Processes /\ handle \subseteq handle'
      /\ \E next \in {"judging", "removing", "retaking", "writing", "starting", "failed"} :
            /\ Goes(p, next)
            /\ next \in {"writing", "starting"} => p \in handle'
  BY DEF OpensLock, JudgesLock, RemovesLock, RetakesLock, WritesLock, Creates, LifeInv,
         ProcessTypeOK, PlaceTypeOK, Holds
<1>3. life[p] \in {"down", "judging", "removing", "retaking", "writing"}
  BY DEF OpensLock, JudgesLock, RemovesLock, RetakesLock, WritesLock
<1>4. ProcessTypeOK' /\ PlaceTypeOK'
  BY <1>1, <1>2 DEF LifeInv, ProcessTypeOK, PlaceTypeOK, Places
<1>5. ASSUME NEW q \in Processes PROVE Holds(q)' /\ Unregistered(q)' /\ Settled(q)'
  BY <1>1, <1>2, <1>3, <1>5 DEF LifeInv, PlaceTypeOK, Holds, Unregistered, Settled
<1>6. QED BY <1>4, <1>5 DEF LifeInv

LEMMA StartSteps ==
    ASSUME LifeInv, NEW p \in Processes,
           \/ ConnectsHubs(p) \/ ConnectFails(p) \/ StartsTimers(p) \/ Listens(p) \/ StartFails(p)
    PROVE  LifeInv'
<1> USE DEF lockVars, runVars, Goes, NoFault, ProcessFault, Registers
<1>1. /\ life[p] = "starting" /\ p \in handle /\ p \notin closed
      /\ UNCHANGED <<handle, intents, awaited, closed, failing, taken, deaths>>
      /\ processFaults' \in 0 .. MaxProcessFaults
  <2>1. life[p] = "starting"
        /\ UNCHANGED <<handle, intents, awaited, closed, failing, taken, deaths>>
    BY DEF ConnectsHubs, ConnectFails, StartsTimers, Listens, StartFails
  <2>2. p \in handle /\ p \notin closed
    BY <2>1 DEF LifeInv, Holds, Unregistered
  <2>3. \/ processFaults' = processFaults
        \/ processFaults < MaxProcessFaults /\ processFaults' = processFaults + 1
    BY DEF ConnectsHubs, ConnectFails, StartsTimers, Listens, StartFails
  <2>4. processFaults \in 0 .. MaxProcessFaults /\ MaxProcessFaults \in Nat
    BY ProcessAssumption DEF LifeInv, ProcessTypeOK
  <2>5. QED BY <2>1, <2>2, <2>3, <2>4
<1>2. hubs' \in [Processes -> SUBSET HubNames] /\ serving' \subseteq Processes
  BY DEF LifeInv, ProcessTypeOK, HubNames, ConnectsHubs, ConnectFails, StartsTimers, Listens,
         StartFails
<1>3. /\ stack' \in [Processes -> Seq(Resources)]
      /\ \A q \in Processes \ {p} : stack'[q] = stack[q]
  <2>1. stack \in [Processes -> Seq(Resources)]
    BY DEF LifeInv, PlaceTypeOK
  <2>2. CASE \E name \in Resources : Registers(p, name)
    <3>1. PICK name \in Resources : stack' = [stack EXCEPT ![p] = Append(stack[p], name)]
      BY <2>2
    <3>2. Append(stack[p], name) \in Seq(Resources)
      BY <2>1, StackGrows
    <3>3. QED BY <2>1, <3>1, <3>2
  <2>3. CASE stack' = stack
    BY <2>1, <2>3
  <2>4. QED BY <2>2, <2>3 DEF Resources, ConnectsHubs, ConnectFails, StartsTimers, Listens, StartFails
<1>4. life' = life \/ Goes(p, "rolling") \/ Goes(p, "ready")
  BY DEF ConnectsHubs, ConnectFails, StartsTimers, Listens, StartFails
<1>5. ProcessTypeOK' /\ PlaceTypeOK'
  BY <1>1, <1>2, <1>3, <1>4 DEF LifeInv, ProcessTypeOK, PlaceTypeOK, Places
<1>6. ASSUME NEW q \in Processes PROVE Holds(q)' /\ Unregistered(q)' /\ Settled(q)'
  BY <1>1, <1>3, <1>4, <1>6 DEF LifeInv, PlaceTypeOK, Holds, Unregistered, Settled
<1>7. QED BY <1>5, <1>6 DEF LifeInv

LEMMA IntentSteps ==
    ASSUME LifeInv, NEW p \in Processes, TakesIntent(p) \/ IntentEnds(p)
    PROVE  LifeInv'
<1> USE DEF lockVars, NoFault
<1>1. UNCHANGED <<life, lock, handle, seenOwner, stack, hubs, serving, closed, failing,
                  undrained, processFaults, deaths>>
  BY DEF TakesIntent, IntentEnds
<1>2. /\ intents' \in [Processes -> 0 .. MaxTaken] /\ awaited' \in [Processes -> 0 .. MaxTaken]
      /\ taken' \in [Processes -> 0 .. MaxTaken]
      /\ \A q \in Processes : intents'[q] <= taken'[q] /\ awaited'[q] <= awaited[q]
  <2>1. CASE TakesIntent(p)
    BY <2>1, ProcessAssumption DEF TakesIntent, LifeInv, ProcessTypeOK, PlaceTypeOK
  <2>2. CASE IntentEnds(p)
    BY <2>2, ProcessAssumption DEF IntentEnds, LifeInv, ProcessTypeOK, PlaceTypeOK
  <2>3. QED BY <2>1, <2>2
<1>3. ProcessTypeOK' /\ PlaceTypeOK'
  BY <1>1, <1>2 DEF LifeInv, ProcessTypeOK, PlaceTypeOK
<1>4. ASSUME NEW q \in Processes PROVE Holds(q)' /\ Unregistered(q)' /\ Settled(q)'
  BY <1>1, <1>2, <1>4 DEF LifeInv, ProcessTypeOK, Holds, Unregistered, Settled
<1>5. QED BY <1>3, <1>4 DEF LifeInv

(* The steps of a stop up to its last, which gives nothing away.            *)
LEMMA StopSteps ==
    ASSUME LifeInv, NEW p \in Processes,
           \/ StopsAsked(p) \/ DrainsQueue(p) \/ UnwindingEnds(p) \/ CloseFails(p)
           \/ RollbackEnds(p)
    PROVE  LifeInv'
<1> USE DEF lockVars, runVars, Goes, NoFault, ProcessFault
<1>1. /\ UNCHANGED <<lock, handle, seenOwner, stack, hubs, serving, intents, closed, taken, deaths>>
      /\ processFaults' \in 0 .. MaxProcessFaults
  BY ProcessAssumption DEF LifeInv, ProcessTypeOK,
     StopsAsked, DrainsQueue, UnwindingEnds, CloseFails, RollbackEnds
<1>2. /\ life' \in [Processes -> Places] /\ p \notin closed
      /\ \A q \in Processes \ {p} : life'[q] = life[q]
      /\ life'[p] \notin {"writing", "starting"}
  BY DEF LifeInv, PlaceTypeOK, Unregistered, Places,
     StopsAsked, DrainsQueue, UnwindingEnds, CloseFails, RollbackEnds
<1>3. /\ awaited' \in [Processes -> 0 .. MaxTaken]
      /\ \A q \in Processes \ {p} : awaited'[q] = awaited[q]
      /\ Settled(p)'
  BY DEF LifeInv, ProcessTypeOK, PlaceTypeOK, Settled, QueueSettled,
     StopsAsked, DrainsQueue, UnwindingEnds, CloseFails, RollbackEnds
<1>4. /\ \A q \in Processes \ {p} : q \in failing => q \in failing'
      /\ Unregistered(p)'
  BY DEF LifeInv, PlaceTypeOK, Unregistered,
     StopsAsked, DrainsQueue, UnwindingEnds, CloseFails, RollbackEnds
<1>5. ProcessTypeOK' /\ PlaceTypeOK'
  BY <1>1, <1>2, <1>3 DEF LifeInv, ProcessTypeOK, PlaceTypeOK
<1>6. ASSUME NEW q \in Processes PROVE Holds(q)' /\ Unregistered(q)' /\ Settled(q)'
  <2>1. Holds(q)'
    BY <1>1, <1>2, <1>6 DEF LifeInv, Holds
  <2>2. CASE q # p
    BY <1>1, <1>2, <1>3, <1>4, <2>1, <2>2, <1>6 DEF LifeInv, Unregistered, Settled
  <2>3. QED BY <1>3, <1>4, <2>1, <2>2
<1>7. QED BY <1>5, <1>6 DEF LifeInv

LEMMA UnwindingSteps ==
    ASSUME LifeInv, NEW p \in Processes, Disposes(p) \/ DisposeFails(p)
    PROVE  LifeInv'
<1> USE DEF lockVars, NoFault, ProcessFault
<1>1. /\ Unwinding(p) /\ UNCHANGED <<life, lock, handle, seenOwner, intents, awaited, closed, taken, deaths>>
      /\ processFaults' \in 0 .. MaxProcessFaults
  BY ProcessAssumption DEF LifeInv, ProcessTypeOK, Disposes, DisposeFails
<1>2. p \in handle /\ p \notin closed /\ life[p] \in {"rolling", "disposing"}
  BY <1>1 DEF LifeInv, PlaceTypeOK, Holds, Unregistered, Unwinding
<1>3. hubs' \in [Processes -> SUBSET HubNames] /\ serving' \subseteq Processes
  BY DEF LifeInv, ProcessTypeOK, Disposes, DisposeFails
<1>4. /\ stack' \in [Processes -> Seq(Resources)]
      /\ \A q \in Processes \ {p} : stack'[q] = stack[q]
  <2>1. stack \in [Processes -> Seq(Resources)]
    BY DEF LifeInv, PlaceTypeOK
  <2>2. CASE stack' = [stack EXCEPT ![p] = Front(stack[p])]
    <3>1. Front(stack[p]) \in Seq(Resources)
      BY <1>1, <2>1, StackShrinks DEF Unwinding
    <3>2. QED BY <2>1, <2>2, <3>1
  <2>3. CASE stack' = stack
    BY <2>1, <2>3
  <2>4. QED BY <2>2, <2>3 DEF Disposes, DisposeFails
<1>5. failing \subseteq failing'
  BY DEF Disposes, DisposeFails
<1>6. ProcessTypeOK' /\ PlaceTypeOK'
  BY <1>1, <1>3, <1>4 DEF LifeInv, ProcessTypeOK, PlaceTypeOK
<1>7. ASSUME NEW q \in Processes PROVE Holds(q)' /\ Unregistered(q)' /\ Settled(q)'
  BY <1>1, <1>2, <1>4, <1>5, <1>7 DEF LifeInv, Holds, Unregistered, Settled
<1>8. QED BY <1>6, <1>7 DEF LifeInv

(* The last step of a stop: the stores are closed and the lock released, or *)
(* both are retained for good.                                              *)
LEMMA ReleaseSteps ==
    ASSUME LifeInv, NEW p \in Processes, ClosesStores(p) \/ RecoversFailedStop(p)
    PROVE  LifeInv'
<1> USE DEF Goes, NoFault
<1>1. /\ UNCHANGED <<seenOwner, stack, hubs, serving, intents, awaited, failing, undrained, taken,
                     processFaults, deaths>>
      /\ life[p] \in {"closing", "recovering"}
  BY DEF ClosesStores, RecoversFailedStop
<1>2. CASE Closes(p)
  <2>1. stack[p] = <<>> /\ awaited[p] = 0
    BY <1>1, <1>2 DEF LifeInv, PlaceTypeOK, Unregistered, Settled, ClosesStores,
       RecoversFailedStop, RetainsRecoveryState, Closes
  <2>2. ProcessTypeOK' /\ PlaceTypeOK'
    BY <1>1, <1>2 DEF Closes, LifeInv, ProcessTypeOK, PlaceTypeOK, Places
  <2>3. ASSUME NEW q \in Processes PROVE Holds(q)' /\ Unregistered(q)' /\ Settled(q)'
    BY <1>1, <1>2, <2>1, <2>3 DEF Closes, LifeInv, PlaceTypeOK, Holds, Unregistered, Settled
  <2>4. QED BY <2>2, <2>3 DEF LifeInv
<1>3. CASE ~Closes(p)
  <2>1. Goes(p, "retained") /\ life[p] = "recovering" /\ UNCHANGED <<lock, handle, closed>>
    BY <1>3 DEF ClosesStores, RecoversFailedStop
  <2>2. ProcessTypeOK' /\ PlaceTypeOK'
    BY <1>1, <2>1 DEF LifeInv, ProcessTypeOK, PlaceTypeOK, Places
  <2>3. ASSUME NEW q \in Processes PROVE Holds(q)' /\ Unregistered(q)' /\ Settled(q)'
    BY <1>1, <2>1, <2>3 DEF LifeInv, PlaceTypeOK, Holds, Unregistered, Settled
  <2>4. QED BY <2>2, <2>3 DEF LifeInv
<1>4. QED BY <1>2, <1>3

LEMMA EndSteps ==
    ASSUME LifeInv, NEW p \in Processes, ProcessExits(p) \/ Dies(p)
    PROVE  LifeInv'
<1>1. PICK next \in {"over", "dead"} : Ends(p, next)
  BY DEF ProcessExits, Dies
<1>2. /\ deaths' \in 0 .. MaxDeaths /\ life' = [life EXCEPT ![p] = next]
      /\ UNCHANGED <<closed, failing, taken, processFaults>>
      /\ \A q \in Processes \ {p} : q \in handle => q \in handle'
  BY <1>1, ProcessAssumption DEF LifeInv, ProcessTypeOK, ProcessExits, Dies, Ends, Goes
<1>3. /\ handle' \subseteq Processes /\ serving' \subseteq Processes
      /\ hubs' \in [Processes -> SUBSET HubNames]
      /\ stack' = [stack EXCEPT ![p] = <<>>]
      /\ intents' = [intents EXCEPT ![p] = 0] /\ awaited' = [awaited EXCEPT ![p] = 0]
  BY <1>1 DEF LifeInv, ProcessTypeOK, Ends
<1>4. ProcessTypeOK' /\ PlaceTypeOK'
  <2>1. ProcessTypeOK'
    BY <1>2, <1>3, ProcessAssumption DEF LifeInv, ProcessTypeOK
  <2>2. life' \in [Processes -> Places] /\ stack' \in [Processes -> Seq(Resources)]
    <3>1. <<>> \in Seq(Resources)
      OBVIOUS
    <3>2. QED BY <1>2, <1>3, <3>1 DEF LifeInv, PlaceTypeOK, Places
  <2>3. taken' \in [Processes -> 0 .. MaxTaken] /\ \A q \in Processes : intents'[q] <= taken'[q]
    BY <1>2, <1>3, ProcessAssumption DEF LifeInv, ProcessTypeOK, PlaceTypeOK
  <2>4. QED BY <2>1, <2>2, <2>3 DEF PlaceTypeOK
<1>5. ASSUME NEW q \in Processes PROVE Holds(q)' /\ Unregistered(q)' /\ Settled(q)'
  <2>1. CASE q = p
    BY <1>2, <1>3, <2>1 DEF LifeInv, ProcessTypeOK, PlaceTypeOK, Holds, Unregistered, Settled
  <2>2. CASE q # p
    BY <1>2, <1>3, <1>5, <2>2 DEF LifeInv, ProcessTypeOK, PlaceTypeOK, Holds, Unregistered, Settled
  <2>3. QED BY <2>1, <2>2
<1>6. QED BY <1>4, <1>5 DEF LifeInv

LEMMA LifeNext == LifeInv /\ [ProcessNext]_processVars => LifeInv'
<1> SUFFICES ASSUME LifeInv, [ProcessNext]_processVars PROVE LifeInv'
  OBVIOUS
<1>1. CASE ProcessNext
  <2>1. PICK p \in Processes :
          \/ ProcessStep(p)
          \/ ConnectFails(p) \/ StartFails(p) \/ TakesIntent(p) \/ StopsAsked(p)
          \/ DisposeFails(p) \/ CloseFails(p) \/ Dies(p)
    BY <1>1 DEF ProcessNext
  <2>2. QED
    BY <2>1, LockSteps, StartSteps, IntentSteps, StopSteps, UnwindingSteps, ReleaseSteps, EndSteps
       DEF ProcessStep
<1>2. CASE UNCHANGED processVars
  <2>1. ProcessTypeOK' /\ PlaceTypeOK'
    BY <1>2 DEF processVars, LifeInv, ProcessTypeOK, PlaceTypeOK
  <2>2. ASSUME NEW q \in Processes PROVE Holds(q)' /\ Unregistered(q)' /\ Settled(q)'
    BY <1>2, <2>2 DEF processVars, LifeInv, Holds, Unregistered, Settled
  <2>3. QED BY <2>1, <2>2 DEF LifeInv
<1>3. QED BY <1>1, <1>2

LEMMA LifeSafe == LifeInv => ProcessInv
<1> SUFFICES ASSUME LifeInv PROVE ProcessInv
  OBVIOUS
<1>1. WritersKeepTheLock
  <2> SUFFICES ASSUME NEW p \in Processes, {"realtime", "local_gateway"} \cap ToSet(stack[p]) # {}
               PROVE  p \in handle /\ p \notin closed
    BY DEF WritersKeepTheLock
  <2>1. stack[p] # <<>>
    BY DEF ToSet
  <2>2. QED BY <2>1 DEF LifeInv, Holds, Unregistered
<1>2. SettledBeforeClosing
  BY DEF LifeInv, SettledBeforeClosing, Unregistered, Settled
<1>3. QED BY <1>1, <1>2 DEF LifeInv, ProcessInv

-----------------------------------------------------------------------------
(* Whatever fails in a start, a stop or the recovery of a failed stop, and   *)
(* however often processes die: who may still write keeps the lock and open *)
(* stores, and stores close only behind the intents the stop waits for      *)
(* (lifecycle-supervisor.ts, service.ts, runtime-lock.ts).                  *)
THEOREM WritersSafe == ProcessSpec => []ProcessInv
<1>1. ProcessSpec => []LifeInv
  BY LifeInit, LifeNext, PTL DEF ProcessSpec
<1>2. QED
  BY <1>1, LifeSafe, PTL

-----------------------------------------------------------------------------
(***************************************************************************)
(* The alerts and the watchdog.  An alert's state says whether its last    *)
(* evaluation found it active, and of the two alerts of a metric the       *)
(* critical one has been active no longer and inactive no shorter.  What   *)
(* the watchdog remembers of a drain is the line its last check found, and *)
(* a batch told since lowers the line below it; the number of a process is *)
(* never used again, so a log line with the number of the gateway is of    *)
(* its own drain.                                                          *)
(***************************************************************************)
Alert == [up : 0 .. OpenAfter, down : 0 .. ClearAfter,
          state : {"cleared", "opening", "open", "clearing"}]
Drain == [pid : Nat, pending : Nat]

AlertInv ==
    /\ tracked \in [Alerts -> Alert]
    /\ \A a \in Alerts :
          /\ tracked[a].state \in {"opening", "open"} <=> tracked[a].up > 0
          /\ tracked[a].state \in {"opening", "open"} => tracked[a].down = 0
          /\ tracked[a].state = "clearing" => tracked[a].down > 0
    /\ tracked["critical"].up <= tracked["warn"].up
    /\ tracked["warn"].down <= tracked["critical"].down
    /\ CriticalNeverAlone

Phases     == {"down", "booting", "draining", "drained", "up"}
AfterDrain == {"drained", "up"}
Gateways   == [pid : Nat, phase : Phases, pending : Nat, mute : BOOLEAN,
               issues : SUBSET Issues, recovery : Recoveries]
Judged     == [pid : Nat, phase : Phases, moved : BOOLEAN, boots : Nat]

DrainTypeOK ==
    gateway \in Gateways /\ line \in Drain /\ memory.drain \in Drain /\ judged \in Judged

DrainInv ==
    /\ DrainTypeOK
    /\ {gateway.pid, line.pid, memory.drain.pid, judged.pid} \subseteq 0 .. judged.boots
    /\ gateway.phase = "down" <=> gateway.pid = 0
    /\ gateway.phase \in {"draining"} \cup AfterDrain <=> gateway.pid > 0 /\ line.pid = gateway.pid
    /\ line.pid = gateway.pid => gateway.pending <= line.pending
    /\ gateway.phase \in AfterDrain => line.pending = 0
    /\ line.pid = 0 => line = NoLine
    /\ memory.drain # NoLine =>
          judged.phase = "draining" /\ memory.drain.pid = judged.pid
    /\ memory.drain.pid > 0 /\ memory.drain.pid = gateway.pid =>
          /\ gateway.phase \in {"draining"} \cup AfterDrain
          /\ line.pending <= memory.drain.pending
          /\ judged.moved => line.pending < memory.drain.pending
    /\ memory.drain.pid = 0 => memory.drain = NoLine

MemoryInv ==
    /\ memory \in [age : -1 .. Grace, drain : Drain,
                   failure : [cause : FailureCauses \cup {"none"}, count : 0 .. FailureLimit]]

WatchInv == AlertInv /\ DrainInv /\ MemoryInv

-----------------------------------------------------------------------------
LEMMA WatchInvInit == WatchInit => WatchInv
<1> SUFFICES ASSUME WatchInit PROVE WatchInv
  OBVIOUS
<1> USE WatchAssumption DEF WatchInit, NoProcess, NoLine, NeverFired, NoFailure
<1>1. AlertInv
  BY DEF AlertInv, Alert, Alerts, CriticalNeverAlone, Reported
<1>2. DrainInv
  BY DEF DrainInv, DrainTypeOK, Gateways, Judged, Phases, AfterDrain, Drain, Recoveries
<1>3. MemoryInv
  BY DEF MemoryInv, Drain
<1>4. QED BY <1>1, <1>2, <1>3 DEF WatchInv

LEMMA AlertTyped ==
    ASSUME NEW a \in Alert
    PROVE  Fires(a) \in Alert /\ Fades(a) \in Alert
<1>1. /\ a.up \in 0 .. OpenAfter /\ a.down \in 0 .. ClearAfter
      /\ OpenAfter \in Nat \ {0} /\ ClearAfter \in Nat \ {0}
      /\ a.state \in {"cleared", "opening", "open", "clearing"}
  BY WatchAssumption DEF Alert
<1>2. Counted(a.up, OpenAfter) \in 0 .. OpenAfter /\ Counted(a.down, ClearAfter) \in 0 .. ClearAfter
  BY <1>1 DEF Counted
<1>3. Fades(a) = [up |-> 0, down |-> Counted(a.down, ClearAfter),
                  state |-> IF a.state = "cleared" \/ Counted(a.down, ClearAfter) >= ClearAfter
                            THEN "cleared" ELSE "clearing"]
  <2>1. SUFFICES ASSUME NEW f, f = Fades(a)
                 PROVE  f = [up |-> 0, down |-> Counted(a.down, ClearAfter),
                             state |-> IF a.state = "cleared" \/ Counted(a.down, ClearAfter) >= ClearAfter
                                       THEN "cleared" ELSE "clearing"]
    OBVIOUS
  <2>2. QED BY <2>1 DEF Fades, Alert
<1>4. QED BY <1>1, <1>2, <1>3 DEF Fires, Alert

(* One evaluation of both alerts.                                           *)
LEMMA EvaluateKeeps ==
    ASSUME OpenAfter <= 2, ClearAfter <= 2, AlertInv, Evaluate
    PROVE  AlertInv'
<1> DEFINE w == tracked["warn"]
           c == tracked["critical"]
<1>0. OpenAfter \in {1, 2} /\ ClearAfter \in {1, 2}
  BY WatchAssumption
<1>1. /\ w \in Alert /\ c \in Alert /\ c.up <= w.up /\ w.down <= c.down
      /\ \A a \in {w, c} : /\ a.state \in {"opening", "open"} <=> a.up > 0
                           /\ a.state \in {"opening", "open"} => a.down = 0
                           /\ a.state = "clearing" => a.down > 0
      /\ c.state \in {"open", "clearing"} => w.state \in {"open", "clearing"}
  BY DEF AlertInv, Alerts, CriticalNeverAlone, Reported
<1>2. /\ tracked' \in [Alerts -> {Fires(w), Fires(c), Fades(w), Fades(c)}]
      /\ \/ tracked'["warn"] = Fires(w) /\ tracked'["critical"] = Fires(c)
         \/ tracked'["warn"] = Fires(w) /\ tracked'["critical"] = Fades(c)
         \/ tracked'["warn"] = Fades(w) /\ tracked'["critical"] = Fades(c)
  BY DEF Evaluate, RawSignals, Level, Alerts
<1> DEFINE Right(v, d) ==
              /\ v \in Alert /\ d \in Alert /\ d.up <= v.up /\ v.down <= d.down
              /\ \A a \in {v, d} : /\ a.state \in {"opening", "open"} <=> a.up > 0
                                   /\ a.state \in {"opening", "open"} => a.down = 0
                                   /\ a.state = "clearing" => a.down > 0
              /\ d.state \in {"open", "clearing"} => v.state \in {"open", "clearing"}
<1> HIDE DEF w, c
<1>3. Right(Fires(w), Fires(c))
  BY <1>0, <1>1 DEF Fires, Counted, Alert
<1>4. Right(Fires(w), Fades(c))
  <2>1. Fires(w) \in Alert /\ Fades(c) \in Alert
    BY <1>0, <1>1, AlertTyped
  <2>2. /\ Fires(w).up = Counted(w.up, OpenAfter) /\ Fires(w).down = 0
        /\ Fires(w).state = IF w.state = "open" \/ Counted(w.up, OpenAfter) >= OpenAfter
                           THEN "open" ELSE "opening"
    BY DEF Fires
  <2>3. /\ Fades(c).up = 0 /\ Fades(c).down = Counted(c.down, ClearAfter)
        /\ Fades(c).state = IF c.state = "cleared" \/ Counted(c.down, ClearAfter) >= ClearAfter
                           THEN "cleared" ELSE "clearing"
    BY <1>1 DEF Fades, Alert
  <2>4. {w.up, c.up} \subseteq 0 .. OpenAfter /\ {w.down, c.down} \subseteq 0 .. ClearAfter
        /\ {w.state, c.state} \subseteq {"cleared", "opening", "open", "clearing"}
    BY <1>1 DEF Alert
  <2>5. QED BY <1>0, <1>1, <2>1, <2>2, <2>3, <2>4 DEF Counted
<1>5. Right(Fades(w), Fades(c))
  <2>1. Fades(w) \in Alert /\ Fades(c) \in Alert
    BY <1>0, <1>1, AlertTyped
  <2>2. \A a \in {w, c} :
           /\ Fades(a).up = 0 /\ Fades(a).down = Counted(a.down, ClearAfter)
           /\ Fades(a).state = IF a.state = "cleared" \/ Counted(a.down, ClearAfter) >= ClearAfter
                              THEN "cleared" ELSE "clearing"
    BY <1>1 DEF Fades, Alert
  <2>3. {w.up, c.up} \subseteq 0 .. OpenAfter /\ {w.down, c.down} \subseteq 0 .. ClearAfter
        /\ {w.state, c.state} \subseteq {"cleared", "opening", "open", "clearing"}
    BY <1>1 DEF Alert
  <2>4. QED BY <1>0, <1>1, <2>1, <2>2, <2>3 DEF Counted
<1>6. Right(tracked'["warn"], tracked'["critical"])
  BY <1>2, <1>3, <1>4, <1>5
<1>7. tracked' \in [Alerts -> Alert]
  BY <1>2, <1>6 DEF Alerts
<1>8. QED BY <1>6, <1>7 DEF AlertInv, Alerts, CriticalNeverAlone, Reported

(* The gateway with another phase, backlog or health.                       *)
LEMMA GatewayFields ==
    /\ NoProcess \in Gateways /\ NoProcess.pid = 0 /\ NoProcess.phase = "down"
    /\ NoProcess.pending = 0
    /\ \A pid \in Nat : /\ Booted(pid) \in Gateways /\ Booted(pid).pid = pid
                        /\ Booted(pid).phase = "booting"
    /\ \A pid \in Nat, phase \in Phases, pending \in Nat, mute \in BOOLEAN,
          issues \in SUBSET Issues, r \in Recoveries :
          [pid |-> pid, phase |-> phase, pending |-> pending, mute |-> mute,
           issues |-> issues, recovery |-> r] \in Gateways
<1>1. NoProcess = [pid |-> 0, phase |-> "down", pending |-> 0, mute |-> FALSE,
                   issues |-> {}, recovery |-> "idle"]
  BY DEF NoProcess
<1>2. \A pid \in Nat : Booted(pid) = [pid |-> pid, phase |-> "booting", pending |-> 0,
                                     mute |-> FALSE, issues |-> {}, recovery |-> "idle"]
  <2>1. SUFFICES ASSUME NEW pid \in Nat, NEW b, b = Booted(pid)
                 PROVE  b = [pid |-> pid, phase |-> "booting", pending |-> 0, mute |-> FALSE,
                             issues |-> {}, recovery |-> "idle"]
    OBVIOUS
  <2>2. QED BY <2>1 DEF Booted, NoProcess
<1>3. {} \in SUBSET Issues /\ "idle" \in Recoveries
  BY DEF Recoveries
<1>4. NoProcess \in Gateways /\ NoProcess.pid = 0 /\ NoProcess.phase = "down"
      /\ NoProcess.pending = 0
  BY <1>1, <1>3 DEF Gateways, Phases
<1>5. ASSUME NEW pid \in Nat
      PROVE  Booted(pid) \in Gateways /\ Booted(pid).pid = pid /\ Booted(pid).phase = "booting"
  <2> DEFINE b == Booted(pid)
  <2>1. b = [pid |-> pid, phase |-> "booting", pending |-> 0, mute |-> FALSE,
             issues |-> {}, recovery |-> "idle"]
    BY <1>2
  <2> HIDE DEF b
  <2>2. b \in Gateways /\ b.pid = pid /\ b.phase = "booting"
    BY <1>3, <2>1 DEF Gateways, Phases
  <2>3. QED BY <2>2 DEF b
<1>6. \A pid \in Nat, phase \in Phases, pending \in Nat, mute \in BOOLEAN,
         issues \in SUBSET Issues, r \in Recoveries :
         [pid |-> pid, phase |-> phase, pending |-> pending, mute |-> mute,
          issues |-> issues, recovery |-> r] \in Gateways
  BY DEF Gateways
<1>7. QED BY <1>4, <1>5, <1>6

LEMMA NextBoot ==
    ASSUME NEW j \in Judged, NEW n \in Nat
    PROVE  LET k == [j EXCEPT !.boots = n] IN
           /\ k \in Judged /\ k.boots = n
           /\ k.pid = j.pid /\ k.phase = j.phase /\ k.moved = j.moved
BY DEF Judged

(* The parts of the state the drain is about.                               *)
LEMMA DrainParts ==
    ASSUME DrainInv
    PROVE  /\ gateway.pid \in Nat /\ gateway.phase \in Phases /\ gateway.pending \in Nat
           /\ gateway.mute \in BOOLEAN /\ gateway.issues \in SUBSET Issues
           /\ gateway.recovery \in Recoveries
           /\ gateway = [pid |-> gateway.pid, phase |-> gateway.phase, pending |-> gateway.pending,
                         mute |-> gateway.mute, issues |-> gateway.issues,
                         recovery |-> gateway.recovery]
           /\ line = [pid |-> line.pid, pending |-> line.pending]
           /\ line.pid \in Nat /\ line.pending \in Nat
           /\ judged \in Judged /\ judged.boots \in Nat /\ judged.moved \in BOOLEAN
           /\ judged.pid \in Nat /\ judged.phase \in Phases
BY DEF DrainInv, DrainTypeOK, Gateways, Drain, Judged

(* A step of the drain: the line of the process falls, or nothing is told.  *)
LEMMA DrainStep ==
    ASSUME DrainInv, memory' = memory,
           gateway.phase \in {"draining", "drained", "up"},
           gateway' \in Gateways, gateway'.pid = gateway.pid,
           gateway'.phase \in {"draining", "drained", "up"},
           line' \in Drain, line'.pid = gateway.pid,
           gateway'.pending <= line'.pending, line'.pending <= line.pending,
           gateway'.phase # "draining" => line'.pending = 0,
           judged' \in Judged, judged'.pid = judged.pid, judged'.phase = judged.phase,
           judged'.boots = judged.boots,
           judged'.moved => judged.moved \/ line'.pending < line.pending
    PROVE  DrainInv'
<1>1. line.pid = gateway.pid /\ gateway.pid > 0
  BY DEF DrainInv, AfterDrain
<1>2. DrainTypeOK'
  BY DEF DrainInv, DrainTypeOK
<1>3. memory.drain.pid > 0 /\ memory.drain.pid = gateway.pid =>
        /\ line'.pending <= memory.drain.pending
        /\ judged'.moved => line'.pending < memory.drain.pending
  <2>1. /\ memory.drain.pending \in Nat /\ line'.pending \in Nat /\ line.pending \in Nat
        /\ judged'.moved \in BOOLEAN /\ judged.moved \in BOOLEAN
    BY DEF DrainInv, DrainTypeOK, Drain, Judged
  <2>2. memory.drain.pid > 0 /\ memory.drain.pid = gateway.pid =>
          /\ line.pending <= memory.drain.pending
          /\ judged.moved => line.pending < memory.drain.pending
    BY DEF DrainInv
  <2>3. QED BY <2>1, <2>2
<1>4. gateway'.phase # "down" /\ gateway'.phase \in {"draining"} \cup AfterDrain
  BY DEF AfterDrain
<1>5. /\ gateway'.phase \in AfterDrain => line'.pending = 0
      /\ {gateway.pid, line.pid, memory.drain.pid, judged.pid} \subseteq 0 .. judged.boots
      /\ memory.drain # NoLine => judged.phase = "draining" /\ memory.drain.pid = judged.pid
      /\ memory.drain.pid = 0 => memory.drain = NoLine
  BY DEF DrainInv, AfterDrain
<1>6. QED BY <1>1, <1>2, <1>3, <1>4, <1>5 DEF DrainInv

(* The process and its drain.                                               *)
LEMMA GatewayKeeps ==
    ASSUME DrainInv,
           Boot \/ Die \/ StartDrain \/ LogIntervalEnds \/ DrainBatch \/ DrainEnds \/ Listen \/ Health
    PROVE  DrainInv' /\ memory' = memory
<1>0. /\ memory' = memory /\ NoLine \in Drain
      /\ gateway.pending \in Nat /\ line.pending \in Nat /\ gateway.mute \in BOOLEAN
      /\ judged.moved \in BOOLEAN
  BY DrainParts DEF Boot, Die, StartDrain, LogIntervalEnds, DrainBatch, DrainEnds, Listen, Health, NoLine, Drain
<1>1. CASE Boot
  <2>1. /\ gateway' = Booted(judged.boots + 1)
        /\ judged' = [judged EXCEPT !.boots = judged.boots + 1] /\ line' = line
    BY <1>1 DEF Boot, NextPid
  <2>2. gateway' \in Gateways /\ gateway'.pid = judged.boots + 1 /\ gateway'.phase = "booting"
        /\ judged' \in Judged /\ judged'.boots = judged.boots + 1
        /\ judged'.pid = judged.pid /\ judged'.phase = judged.phase /\ judged'.moved = judged.moved
    BY <2>1, DrainParts, GatewayFields, NextBoot
  <2>3. QED BY <1>0, <2>1, <2>2, DrainParts DEF DrainInv, DrainTypeOK, AfterDrain, Drain
<1>2. CASE Die
  <2>1. gateway' = NoProcess /\ UNCHANGED <<line, judged>>
    BY <1>2 DEF Die
  <2>2. QED BY <1>0, <2>1, DrainParts, GatewayFields DEF DrainInv, DrainTypeOK, NoLine, AfterDrain, Drain
<1>3. CASE StartDrain
  <2>1. PICK pending \in Nat :
           /\ gateway' = [gateway EXCEPT !.phase = "draining", !.pending = pending, !.mute = TRUE]
           /\ line' = [pid |-> gateway.pid, pending |-> pending]
    <3>1. 0 .. MaxPending \subseteq Nat
      BY WatchAssumption
    <3>2. QED BY <1>3, <3>1, Zenon DEF StartDrain
  <2>2. gateway' \in Gateways /\ gateway'.pid = gateway.pid /\ gateway'.phase = "draining"
        /\ gateway'.pending = pending
    <3>1. gateway' = [pid |-> gateway.pid, phase |-> "draining", pending |-> pending,
                      mute |-> TRUE, issues |-> gateway.issues, recovery |-> gateway.recovery]
      BY <2>1, DrainParts
    <3>2. "draining" \in Phases
      BY DEF Phases
    <3>3. QED BY <3>1, <3>2, DrainParts, GatewayFields
  <2>3. line' \in Drain /\ line'.pid = gateway.pid /\ line'.pending = pending
    BY <2>1, DrainParts DEF Drain
  <2>4. gateway.phase = "booting" /\ judged' = judged
    BY <1>3 DEF StartDrain
  <2>5. QED BY <1>0, <2>2, <2>3, <2>4, DrainParts DEF DrainInv, DrainTypeOK, AfterDrain, Drain
<1>4. CASE LogIntervalEnds
  <2>1. gateway.phase = "draining" /\ UNCHANGED <<line, judged>>
        /\ gateway' = [gateway EXCEPT !.mute = FALSE]
    BY <1>4 DEF LogIntervalEnds
  <2>2. line.pid = gateway.pid /\ gateway.pending <= line.pending /\ line \in Drain
    BY <2>1, DrainParts DEF DrainInv, DrainTypeOK
  <2>3. gateway' = [pid |-> gateway.pid, phase |-> "draining", pending |-> gateway.pending,
                    mute |-> FALSE, issues |-> gateway.issues, recovery |-> gateway.recovery]
    BY <2>1, DrainParts
  <2>4. gateway' \in Gateways /\ gateway'.pid = gateway.pid /\ gateway'.phase = "draining"
        /\ gateway'.pending = gateway.pending
    BY <2>3, GatewayFields, DrainParts DEF Phases
  <2>5. QED BY <1>0, <2>1, <2>2, <2>4, DrainParts, DrainStep
<1>5. CASE DrainBatch
  <2>1. /\ gateway.phase = "draining" /\ gateway.pending > 0
        /\ gateway' = [gateway EXCEPT !.pending = gateway.pending - 1, !.mute = TRUE]
        /\ line' = IF gateway.mute THEN line ELSE [line EXCEPT !.pending = gateway.pending - 1]
        /\ judged' = [judged EXCEPT !.moved = judged.moved \/ ~gateway.mute]
    BY <1>5 DEF DrainBatch
  <2>2. /\ gateway.pending - 1 \in Nat /\ line.pid = gateway.pid /\ gateway.pending <= line.pending
        /\ line \in Drain
    BY <2>1, DrainParts DEF DrainInv, DrainTypeOK
  <2>3. gateway' = [pid |-> gateway.pid, phase |-> "draining", pending |-> gateway.pending - 1,
                    mute |-> TRUE, issues |-> gateway.issues, recovery |-> gateway.recovery]
    BY <2>1, DrainParts
  <2>4. gateway' \in Gateways /\ gateway'.pid = gateway.pid /\ gateway'.phase = "draining"
        /\ gateway'.pending = gateway.pending - 1
    BY <2>2, <2>3, GatewayFields, DrainParts DEF Phases
  <2>5. /\ judged' \in Judged /\ judged'.pid = judged.pid /\ judged'.phase = judged.phase
        /\ judged'.boots = judged.boots /\ judged'.moved = (judged.moved \/ ~gateway.mute)
    BY <2>1, DrainParts DEF Judged
  <2>6. /\ line' \in Drain /\ line'.pid = gateway.pid
        /\ line'.pending = IF gateway.mute THEN line.pending ELSE gateway.pending - 1
    BY <2>1, <2>2 DEF Drain
  <2>7. /\ gateway'.pending <= line'.pending /\ line'.pending <= line.pending
        /\ judged'.moved => judged.moved \/ line'.pending < line.pending
    BY <1>0, <2>2, <2>4, <2>5, <2>6
  <2>8. QED BY <1>0, <2>1, <2>4, <2>5, <2>6, <2>7, DrainStep
<1>6. CASE DrainEnds
  <2>1. /\ gateway.phase = "draining" /\ gateway.pending = 0 /\ judged' = judged
        /\ gateway' = [gateway EXCEPT !.phase = "drained", !.mute = FALSE]
        /\ line' = [line EXCEPT !.pending = 0]
    BY <1>6 DEF DrainEnds
  <2>2. line.pid = gateway.pid /\ 0 <= line.pending /\ line \in Drain
    BY <2>1, DrainParts DEF DrainInv, DrainTypeOK
  <2>3. gateway' = [pid |-> gateway.pid, phase |-> "drained", pending |-> 0, mute |-> FALSE,
                    issues |-> gateway.issues, recovery |-> gateway.recovery]
    BY <2>1, DrainParts
  <2>4. gateway' \in Gateways /\ gateway'.pid = gateway.pid /\ gateway'.phase = "drained"
        /\ gateway'.pending = 0
    BY <2>3, GatewayFields, DrainParts DEF Phases
  <2>5. line' \in Drain /\ line'.pid = gateway.pid /\ line'.pending = 0
    BY <2>1, <2>2 DEF Drain
  <2>6. QED BY <1>0, <2>1, <2>2, <2>4, <2>5, DrainParts, DrainStep
<1>7. CASE Listen \/ Health
  <2>1. PICK issues \in SUBSET Issues, recovery \in Recoveries :
           /\ gateway.phase \in {"drained", "up"} /\ UNCHANGED <<line, judged>>
           /\ gateway' = [pid |-> gateway.pid, phase |-> "up", pending |-> gateway.pending,
                          mute |-> gateway.mute, issues |-> issues, recovery |-> recovery]
    <3>1. CASE Listen
      <4>1. gateway' = [pid |-> gateway.pid, phase |-> "up", pending |-> gateway.pending,
                        mute |-> gateway.mute, issues |-> gateway.issues,
                        recovery |-> gateway.recovery]
        BY <3>1, DrainParts DEF Listen
      <4>2. QED BY <3>1, <4>1, DrainParts DEF Listen
    <3>2. CASE Health
      <4>1. PICK issues \in SUBSET Issues, recovery \in Recoveries :
               gateway' = [gateway EXCEPT !.issues = issues, !.recovery = recovery]
        BY <3>2, Zenon DEF Health
      <4>2. gateway' = [pid |-> gateway.pid, phase |-> gateway.phase, pending |-> gateway.pending,
                        mute |-> gateway.mute, issues |-> issues, recovery |-> recovery]
        BY <4>1, DrainParts
      <4>3. QED BY <3>2, <4>2 DEF Health
    <3>3. QED BY <1>7, <3>1, <3>2
  <2>2. line.pending = 0 /\ line.pid = gateway.pid /\ gateway.pending = 0 /\ line \in Drain
    <3>1. gateway.phase \in AfterDrain
      BY <2>1 DEF AfterDrain
    <3>2. QED BY <3>1, DrainParts DEF DrainInv, DrainTypeOK
  <2>3. gateway' \in Gateways /\ gateway'.pid = gateway.pid /\ gateway'.phase = "up"
        /\ gateway'.pending = gateway.pending
    BY <2>1, GatewayFields, DrainParts DEF Phases
  <2>4. QED BY <1>0, <2>1, <2>2, <2>3, DrainParts, DrainStep
<1>8. QED BY <1>0, <1>1, <1>2, <1>3, <1>4, <1>5, <1>6, <1>7

(* What a check keeps of the drain is the line it finds.                    *)
LEMMA KeptIsFound ==
    ASSUME DrainInv
    PROVE  /\ KeptDrain \in Drain
           /\ KeptDrain # NoLine =>
                 gateway.phase = "draining" /\ KeptDrain = line /\ line.pid = gateway.pid
           /\ KeptDrain.pid = 0 => KeptDrain = NoLine
           /\ Verdict = "stalled" =>
                 /\ gateway.phase = "draining" /\ judged.phase = "draining"
                 /\ gateway.pid = judged.pid /\ ~judged.moved
<1> USE DEF DrainInv, DrainTypeOK, Gateways, Judged, Drain, AfterDrain, NoLine
<1>1. CASE gateway.phase = "draining" /\ line.pending > 0
  <2>1. CurrentDrain = line /\ line.pid = gateway.pid /\ line.pid > 0 /\ line # NoLine
    BY <1>1 DEF CurrentDrain
  <2>2. DrainDecision = IF memory.drain = NoLine THEN "hold"
                        ELSE IF memory.drain.pid # gateway.pid \/ line.pending < memory.drain.pending
                        THEN "hold" ELSE "stalled"
    BY <1>1, <2>1 DEF DrainDecision
  <2>3. ~Reachable
    BY <1>1 DEF Reachable
  <2>4. CASE DrainDecision = "hold"
    BY <1>1, <2>1, <2>3, <2>4 DEF KeptDrain, Verdict
  <2>5. CASE DrainDecision = "stalled"
    <3>1. memory.drain # NoLine /\ memory.drain.pid = gateway.pid
          /\ line.pending = memory.drain.pending
      BY <1>1, <2>1, <2>2, <2>5
    <3>2. KeptDrain = memory.drain
      BY <2>3, <2>5 DEF KeptDrain
    <3>3. memory.drain = line
      BY <2>1, <3>1
    <3>4. judged.phase = "draining" /\ gateway.pid = judged.pid /\ ~judged.moved
      BY <2>1, <3>1
    <3>5. QED BY <1>1, <2>1, <3>2, <3>3, <3>4
  <2>6. QED BY <2>2, <2>4, <2>5
<1>2. CASE ~(gateway.phase = "draining" /\ line.pending > 0)
  <2>1. Reachable \/ CurrentDrain.pending = 0
    <3>1. gateway.phase = "drained" => line.pending = 0
      OBVIOUS
    <3>2. gateway.phase \notin {"draining", "drained", "up"} => CurrentDrain.pending = 0
      BY DEF CurrentDrain
    <3>3. gateway.phase \in {"draining", "drained"} => CurrentDrain.pending = 0
      BY <1>2, <3>1 DEF CurrentDrain
    <3>4. QED BY <3>2, <3>3 DEF Reachable
  <2>2. Reachable \/ DrainDecision = "absent"
    BY <2>1 DEF DrainDecision
  <2>3. KeptDrain = NoLine /\ Verdict # "stalled"
    BY <2>2 DEF KeptDrain, Verdict
  <2>4. QED BY <2>3
<1>3. QED BY <1>1, <1>2

LEMMA CheckKeeps ==
    ASSUME DrainInv, MemoryInv, Check
    PROVE  DrainInv' /\ MemoryInv'
<1> DEFINE kept == KeptDrain
           F == [cause : FailureCauses \cup {"none"}, count : 0 .. FailureLimit]
<1>1. /\ kept \in Drain
      /\ kept # NoLine => gateway.phase = "draining" /\ kept = line /\ line.pid = gateway.pid
      /\ kept.pid = 0 => kept = NoLine
  BY KeptIsFound
<1>2. /\ memory \in [age : -1 .. Grace, drain : Drain, failure : F]
      /\ NoFailure \in F /\ kept \in Drain /\ NoLine \in Drain /\ 0 \in -1 .. Grace /\ -1 \in -1 .. Grace
  BY <1>1, WatchAssumption DEF MemoryInv, NoFailure, NoLine, Drain
<1>3. ~Blocked(memory.failure) => \A cause \in FailureCauses : Recorded(memory.failure, cause) \in F
  <2>1. memory.failure \in F
    BY <1>2
  <2>2. QED BY <2>1, WatchAssumption DEF Recorded, Blocked, FailureCauses
<1> HIDE DEF kept, F
<1>4. \E a \in -1 .. Grace, d \in {kept, NoLine}, f \in F :
         memory' = [age |-> a, drain |-> d, failure |-> f]
  <2>1. CASE CheckWell
    BY <1>2, <2>1 DEF CheckWell, kept
  <2>2. CASE CheckGrace
    <3>1. memory' = [memory EXCEPT !.drain = kept, !.age = IF @ < 0 THEN 0 ELSE @]
      BY <2>2 DEF CheckGrace, kept
    <3>2. memory' = [age |-> IF memory.age < 0 THEN 0 ELSE memory.age, drain |-> kept,
                     failure |-> memory.failure]
      BY <1>2, <3>1
    <3>3. QED BY <1>2, <3>2
  <2>3. CASE RestartBlocked
    <3>1. memory' = [memory EXCEPT !.drain = kept]
      BY <2>3 DEF RestartBlocked, kept
    <3>2. memory' = [age |-> memory.age, drain |-> kept, failure |-> memory.failure]
      BY <1>2, <3>1
    <3>3. QED BY <1>2, <3>2
  <2>4. CASE Restart
    BY <1>2, <2>4 DEF Restart, kept
  <2>5. CASE RestartFails
    <3>1. PICK cause \in FailureCauses :
             memory' = [memory EXCEPT !.drain = kept, !.failure = Recorded(@, cause)]
      BY <2>5 DEF RestartFails, kept
    <3>2. memory' = [age |-> memory.age, drain |-> kept, failure |-> Recorded(memory.failure, cause)]
      BY <1>2, <3>1
    <3>3. Recorded(memory.failure, cause) \in F
      BY <1>3, <2>5 DEF RestartFails
    <3>4. QED BY <1>2, <3>2, <3>3
  <2>6. QED BY <2>1, <2>2, <2>3, <2>4, <2>5 DEF Check
<1>5. MemoryInv' /\ memory'.drain \in {kept, NoLine}
  BY <1>2, <1>4 DEF MemoryInv, F
<1>6. /\ line' = line
      /\ \/ gateway' = gateway /\ judged' = Found
         \/ gateway' = NoProcess /\ judged' = Found
         \/ \E pid \in NextPid : gateway' = Booted(pid) /\ judged' = [Found EXCEPT !.boots = pid]
  BY DEF Check, CheckWell, CheckGrace, RestartBlocked, Restart, RestartFails
<1>7. /\ Found \in Judged /\ Found.pid = gateway.pid /\ Found.phase = gateway.phase
      /\ ~Found.moved /\ Found.boots = judged.boots
  BY DEF Found, DrainInv, DrainTypeOK, Gateways, Judged
<1>8. DrainInv'
  <2>0. /\ memory'.drain \in Drain
        /\ memory'.drain # NoLine => gateway.phase = "draining" /\ memory'.drain.pid = gateway.pid
              /\ memory'.drain = line
        /\ memory'.drain.pid = 0 => memory'.drain = NoLine
        /\ NoLine.pid = 0
    BY <1>1, <1>2, <1>5 DEF NoLine
  <2>1. CASE gateway' = gateway /\ judged' = Found
    BY <1>6, <1>7, <2>0, <2>1 DEF DrainInv, DrainTypeOK, Gateways, Judged, Drain
  <2>2. CASE gateway' = NoProcess /\ judged' = Found
    BY <1>6, <1>7, <2>0, <2>2, GatewayFields
       DEF DrainInv, DrainTypeOK, Judged, Drain, AfterDrain, NoLine
  <2>3. CASE \E pid \in NextPid : gateway' = Booted(pid) /\ judged' = [Found EXCEPT !.boots = pid]
    <3>1. /\ gateway' = Booted(judged.boots + 1)
          /\ judged' = [Found EXCEPT !.boots = judged.boots + 1]
      BY <2>3 DEF NextPid
    <3>2. judged.boots \in Nat
      BY DEF DrainInv, DrainTypeOK, Judged
    <3>3. gateway' \in Gateways /\ gateway'.pid = judged.boots + 1 /\ gateway'.phase = "booting"
      BY <3>1, <3>2, GatewayFields
    <3>4. judged' \in Judged /\ judged'.boots = judged.boots + 1 /\ judged'.pid = gateway.pid
          /\ judged'.phase = gateway.phase /\ ~judged'.moved
      BY <1>7, <3>1, <3>2, NextBoot
    <3>5. QED BY <1>6, <2>0, <3>2, <3>3, <3>4 DEF DrainInv, DrainTypeOK, AfterDrain, Drain
  <2>4. QED BY <1>6, <2>1, <2>2, <2>3
<1>9. QED BY <1>5, <1>8

LEMMA WatchKeeps ==
    OpenAfter <= 2 /\ ClearAfter <= 2 => (WatchInv /\ [WatchNext]_watchVars => WatchInv')
<1> SUFFICES ASSUME OpenAfter <= 2, ClearAfter <= 2, WatchInv, [WatchNext]_watchVars PROVE WatchInv'
  OBVIOUS
<1> USE DEF WatchInv
<1>1. CASE Evaluate
  <2>1. AlertInv'
    BY <1>1, EvaluateKeeps
  <2>2. QED BY <1>1, <2>1 DEF Evaluate, DrainInv, DrainTypeOK, MemoryInv
<1>2. CASE Boot \/ Die \/ StartDrain \/ LogIntervalEnds \/ DrainBatch \/ DrainEnds \/ Listen \/ Health
  <2>1. tracked' = tracked
    BY <1>2 DEF Boot, Die, StartDrain, LogIntervalEnds, DrainBatch, DrainEnds, Listen, Health
  <2>2. DrainInv' /\ memory' = memory
    BY <1>2, GatewayKeeps
  <2>3. QED BY <2>1, <2>2 DEF AlertInv, CriticalNeverAlone, Reported, MemoryInv
<1>3. CASE Wait
  <2>1. MemoryInv'
    BY <1>3, WatchAssumption DEF Wait, MemoryInv
  <2>2. memory'.drain = memory.drain
    BY <1>3 DEF Wait, MemoryInv
  <2>3. QED BY <1>3, <2>1, <2>2 DEF Wait, AlertInv, CriticalNeverAlone, Reported, DrainInv, DrainTypeOK
<1>4. CASE Check
  <2>1. tracked' = tracked
    BY <1>4 DEF Check, CheckWell, CheckGrace, RestartBlocked, Restart, RestartFails
  <2>2. DrainInv' /\ MemoryInv'
    BY <1>4, CheckKeeps
  <2>3. QED BY <2>1, <2>2 DEF AlertInv, CriticalNeverAlone, Reported
<1>5. CASE UNCHANGED watchVars
  BY <1>5 DEF watchVars, AlertInv, CriticalNeverAlone, Reported, DrainInv, DrainTypeOK, MemoryInv
<1>6. QED BY <1>1, <1>2, <1>3, <1>4, <1>5 DEF WatchNext

-----------------------------------------------------------------------------
(* With the thresholds the service has (two evaluations each, and no more), *)
(* for any grace, failure limit and drain: a critical alert never stands    *)
(* without its warning, and the watchdog stops a process in its startup     *)
(* drain only if its last check found the same process in its drain and     *)
(* every batch replayed since came within five seconds of the last line     *)
(* (health-alerts.ts, gateway-health-watchdog.ps1, service.ts:316-320).     *)
THEOREM WatchIsSound ==
    ASSUME OpenAfter <= 2, ClearAfter <= 2
    PROVE  WatchSpec => WatchSafe
<1>1. WatchSpec => []WatchInv
  <2>1. WatchInv /\ [WatchNext]_watchVars => WatchInv'
    BY WatchKeeps
  <2>2. QED BY <2>1, WatchInvInit, PTL DEF WatchSpec
<1>2. WatchInv => WatchTypeOK /\ CriticalNeverAlone
  BY WatchAssumption DEF WatchInv, AlertInv, Alert, DrainInv, DrainTypeOK, Gateways, Phases, MemoryInv, WatchTypeOK
<1>3. WatchInv => (Verdict = "stalled" =>
          /\ gateway.phase = "draining" /\ judged.phase = "draining"
          /\ gateway.pid = judged.pid /\ ~judged.moved)
  BY KeptIsFound DEF WatchInv
<1>4. []WatchInv => StallIsReal
  BY <1>3, PTL DEF StallIsReal
<1>5. QED BY <1>1, <1>2, <1>4, PTL DEF WatchSafe
=============================================================================
