------------------------------ MODULE Process ------------------------------
(***************************************************************************)
(* The life of gateway processes that share a data directory: the lock     *)
(* file of the account, the resources a start acquires in order, the stop  *)
(* that unwinds them in reverse, and what a failed stop retains.           *)
(*                                                                         *)
(* The realtime hubs, the local gateway and the intents it takes in are    *)
(* the writers; the stores are closed once and for all.                    *)
(***************************************************************************)
EXTENDS Naturals, Sequences, FiniteSets, SequencesExt

CONSTANTS Processes, Nobody,
          Host,              \* the machine of each process
          MaxTaken,          \* bound: intents of one process
          MaxProcessFaults,  \* bound: failed starts, disposers and closes
          MaxDeaths          \* bound: processes killed

ASSUME ProcessAssumption ==
    /\ Nobody \notin Processes /\ DOMAIN Host = Processes
    /\ MaxTaken \in Nat /\ MaxProcessFaults \in Nat /\ MaxDeaths \in Nat

HubNames == {"user", "market"}

VARIABLES lock,       \* the lock file: [owner, written], or Nobody
          handle,     \* processes with an open handle of the lock file
          life,       \* what each process is doing
          seenOwner,  \* the owner each starter read in the file
          stack,      \* registered disposers, in order of registration
          hubs,       \* connected hubs
          serving,    \* the local gateway listens
          intents,    \* intents taken in that have not ended
          awaited,    \* those of them a stop waits for
          closed,     \* the stores are closed
          failing,    \* critical disposers that failed
          undrained,  \* the evidence queue could not be drained
          taken, processFaults, deaths

processVars == <<lock, handle, life, seenOwner, stack, hubs, serving, intents, awaited,
                 closed, failing, undrained, taken, processFaults, deaths>>
lockVars == <<lock, handle, seenOwner>>
runVars == <<stack, hubs, serving, intents, awaited, closed, failing, undrained, taken>>

ProcessInit ==
    /\ lock = Nobody /\ handle = {} /\ life = [p \in Processes |-> "down"]
    /\ seenOwner = [p \in Processes |-> Nobody]
    /\ stack = [p \in Processes |-> <<>>] /\ hubs = [p \in Processes |-> {}]
    /\ serving = {} /\ intents = [p \in Processes |-> 0] /\ awaited = intents
    /\ closed = {} /\ failing = {} /\ undrained = {}
    /\ taken = intents /\ processFaults = 0 /\ deaths = 0

Goes(p, next) == life' = [life EXCEPT ![p] = next]
ProcessFault == processFaults < MaxProcessFaults /\ processFaults' = processFaults + 1
NoFault == UNCHANGED <<processFaults, deaths>>

----------------------------------------------------------------------------
(* The lock file of the account.                                           *)

\* open(path, "wx"): the file is there at once, and empty.
Creates(p) ==
    /\ lock = Nobody /\ lock' = [owner |-> p, written |-> FALSE]
    /\ handle' = handle \cup {p} /\ Goes(p, "writing")

OpensLock(p) ==
    /\ life[p] = "down"
    /\ \/ Creates(p)
       \/ lock # Nobody /\ Goes(p, "judging") /\ UNCHANGED <<lock, handle>>
    /\ UNCHANGED <<seenOwner, runVars, processFaults, deaths>>

\* kill(pid, 0) and the boot time: gone, or another process with that pid.
IsDead(p) == life[p] \in {"dead", "over"}

\* removeIfStale: an empty file cannot be read and is nobody's to remove; a
\* dead owner's can be, and one of another host whether it lives or not.
IsStale(p) ==
    /\ lock.written
    /\ IsDead(lock.owner) \/ Host[lock.owner] # Host[p]

JudgesLock(p) ==
    /\ life[p] = "judging"
    /\ \/ lock = Nobody /\ Goes(p, "retaking") /\ UNCHANGED seenOwner
       \/ /\ lock # Nobody /\ IsStale(p)
          /\ seenOwner' = [seenOwner EXCEPT ![p] = lock.owner] /\ Goes(p, "removing")
       \/ lock # Nobody /\ ~IsStale(p) /\ Goes(p, "failed") /\ UNCHANGED seenOwner
    /\ UNCHANGED <<lock, handle, runVars, processFaults, deaths>>

\* unlink goes by the path: it takes whatever file is there by now.
RemovesLock(p) ==
    /\ life[p] = "removing"
    /\ lock' = Nobody /\ Goes(p, "retaking")
    /\ UNCHANGED <<handle, seenOwner, runVars, processFaults, deaths>>

RetakesLock(p) ==
    /\ life[p] = "retaking"
    /\ \/ Creates(p)
       \/ lock # Nobody /\ Goes(p, "failed") /\ UNCHANGED <<lock, handle>>
    /\ UNCHANGED <<seenOwner, runVars, processFaults, deaths>>

\* The payload goes to the file of the handle, under whatever name it is.
WritesLock(p) ==
    /\ life[p] = "writing" /\ Goes(p, "starting")
    /\ lock' = IF lock # Nobody /\ lock.owner = p THEN [lock EXCEPT !.written = TRUE] ELSE lock
    /\ UNCHANGED <<handle, seenOwner, runVars, processFaults, deaths>>

----------------------------------------------------------------------------
(* The start.                                                              *)

Registers(p, name) == stack' = [stack EXCEPT ![p] = Append(@, name)]

\* realtime.start connects and subscribes both hubs, and is registered then.
ConnectsHubs(p) ==
    /\ life[p] = "starting" /\ stack[p] = <<>>
    /\ hubs' = [hubs EXCEPT ![p] = HubNames] /\ Registers(p, "realtime")
    /\ UNCHANGED <<life, lockVars, serving, intents, awaited, closed, failing, undrained, taken>>
    /\ NoFault

\* It fails with one of the hubs connected, or none.
ConnectFails(p) ==
    /\ life[p] = "starting" /\ stack[p] = <<>> /\ ProcessFault
    /\ \E some \in {{}, {"user"}, {"market"}} : hubs' = [hubs EXCEPT ![p] = some]
    /\ Goes(p, "rolling")
    /\ UNCHANGED <<lockVars, stack, serving, intents, awaited, closed, failing, undrained, taken, deaths>>

StartsTimers(p) ==
    /\ life[p] = "starting" /\ stack[p] = <<"realtime">> /\ Registers(p, "timers")
    /\ UNCHANGED <<life, lockVars, hubs, serving, intents, awaited, closed, failing, undrained, taken>>
    /\ NoFault

Listens(p) ==
    /\ life[p] = "starting" /\ Len(stack[p]) = 2
    /\ serving' = serving \cup {p} /\ Registers(p, "local_gateway") /\ Goes(p, "ready")
    /\ UNCHANGED <<lockVars, hubs, intents, awaited, closed, failing, undrained, taken>> /\ NoFault

StartFails(p) ==
    /\ life[p] = "starting" /\ Len(stack[p]) = 2 /\ ProcessFault /\ Goes(p, "rolling")
    /\ UNCHANGED <<lockVars, runVars, deaths>>

----------------------------------------------------------------------------
(* The intents of the local gateway.                                       *)

TakesIntent(p) ==
    /\ p \in serving /\ taken[p] < MaxTaken
    /\ intents' = [intents EXCEPT ![p] = @ + 1] /\ taken' = [taken EXCEPT ![p] = @ + 1]
    /\ UNCHANGED <<life, lockVars, stack, hubs, serving, awaited, closed, failing, undrained>> /\ NoFault

\* The queue ends its intents one by one, the oldest first.
IntentEnds(p) ==
    /\ intents[p] > 0 /\ ~IsDead(p)
    /\ intents' = [intents EXCEPT ![p] = @ - 1]
    /\ awaited' = [awaited EXCEPT ![p] = IF @ > 0 THEN @ - 1 ELSE 0]
    /\ UNCHANGED <<life, lockVars, stack, hubs, serving, closed, failing, undrained, taken>> /\ NoFault

----------------------------------------------------------------------------
(* The stop.                                                               *)

\* stop, by a signal or by the caller of a start that failed.
StopsAsked(p) ==
    /\ life[p] \in {"ready", "failed"}
    /\ awaited' = [awaited EXCEPT ![p] = intents[p]] /\ Goes(p, "draining")
    /\ UNCHANGED <<lockVars, stack, hubs, serving, intents, closed, failing, undrained, taken>> /\ NoFault

(* Faulty: the resources go while intents are still executing.               *)
Drained(p) == TRUE

\* drainExecutionQueue: the intents that were queued have settled.
QueueSettled(p) == awaited[p] = 0

DrainsQueue(p) ==
    /\ life[p] = "draining" /\ QueueSettled(p) /\ Goes(p, "disposing")
    /\ UNCHANGED <<lockVars, runVars>> /\ NoFault

Top(p) == Last(stack[p])
Critical(name) == name \in {"realtime", "local_gateway"}
Unwinding(p) == life[p] \in {"rolling", "disposing"} /\ stack[p] # <<>> /\ p \notin failing

\* The gateway stops listening and waits for its requests, or past the
\* deadline destroys their connections; realtime stops both hubs.
Disposes(p) ==
    /\ Unwinding(p)
    /\ stack' = [stack EXCEPT ![p] = Front(@)]
    /\ serving' = IF Top(p) = "local_gateway" THEN serving \ {p} ELSE serving
    /\ hubs' = IF Top(p) = "realtime" THEN [hubs EXCEPT ![p] = {}] ELSE hubs
    /\ UNCHANGED <<life, lockVars, intents, awaited, closed, failing, undrained, taken>> /\ NoFault

\* A critical one that fails stays registered and ends the unwinding.
DisposeFails(p) ==
    /\ Unwinding(p) /\ ProcessFault
    /\ IF Critical(Top(p))
       THEN failing' = failing \cup {p} /\ UNCHANGED stack
       ELSE stack' = [stack EXCEPT ![p] = Front(@)] /\ UNCHANGED failing
    /\ UNCHANGED <<life, lockVars, hubs, serving, intents, awaited, closed, undrained, taken, deaths>>

\* rollbackAfterFailure: the caller's stop then finds what is left.
RollbackEnds(p) ==
    /\ life[p] = "rolling" /\ (stack[p] = <<>> \/ p \in failing)
    /\ failing' = failing \ {p} /\ Goes(p, "failed")
    /\ UNCHANGED <<lockVars, stack, hubs, serving, intents, awaited, closed, undrained, taken>> /\ NoFault

UnwindingEnds(p) ==
    /\ life[p] = "disposing"
    /\ \/ p \in failing /\ Goes(p, "recovering")
       \/ stack[p] = <<>> /\ p \notin failing /\ Goes(p, "closing")
    /\ UNCHANGED <<lockVars, runVars>> /\ NoFault

\* closeStores: the queue is drained, the stores are closed, and the lock is
\* released by its path.
Closes(p) ==
    /\ closed' = closed \cup {p} /\ handle' = handle \ {p}
    /\ lock' = IF p \in handle THEN Nobody ELSE lock
    /\ Goes(p, "stopped")

ClosesStores(p) ==
    /\ life[p] = "closing" /\ Closes(p)
    /\ UNCHANGED <<seenOwner, stack, hubs, serving, intents, awaited, failing, undrained, taken>> /\ NoFault

\* The drain of the evidence queue fails, with or without a durable backlog.
CloseFails(p) ==
    /\ life[p] = "closing" /\ ProcessFault /\ Goes(p, "recovering")
    /\ undrained' \in {undrained, undrained \cup {p}}
    /\ UNCHANGED <<lockVars, stack, hubs, serving, intents, awaited, closed, failing, taken, deaths>>

(* Faulty: only a backlog is a reason to retain the lock and the stores.       *)
RetainsForBacklog(p) == p \in undrained

\* requiresShutdownRetention.
RetainsRecoveryState(p) == p \in failing \/ p \in undrained

\* runShutdownFailureRecovery.
RecoversFailedStop(p) ==
    /\ life[p] = "recovering"
    /\ \/ RetainsRecoveryState(p) /\ Goes(p, "retained") /\ UNCHANGED <<lock, handle, closed>>
       \/ ~RetainsRecoveryState(p) /\ Closes(p)
    /\ UNCHANGED <<seenOwner, stack, hubs, serving, intents, awaited, failing, undrained, taken>> /\ NoFault

----------------------------------------------------------------------------
(* The end of a process, from outside or because nothing keeps it alive.   *)

Ends(p, next) ==
    /\ Goes(p, next)
    /\ handle' = handle \ {p} /\ hubs' = [hubs EXCEPT ![p] = {}] /\ serving' = serving \ {p}
    /\ intents' = [intents EXCEPT ![p] = 0] /\ awaited' = [awaited EXCEPT ![p] = 0]
    /\ stack' = [stack EXCEPT ![p] = <<>>]
    /\ UNCHANGED <<lock, seenOwner, closed, failing, undrained, taken, processFaults>>

ProcessExits(p) ==
    /\ life[p] = "stopped" /\ hubs[p] = {} /\ intents[p] = 0
    /\ Ends(p, "over") /\ UNCHANGED deaths

Dies(p) ==
    /\ ~IsDead(p) /\ life[p] # "down"
    /\ deaths < MaxDeaths /\ deaths' = deaths + 1 /\ Ends(p, "dead")

ProcessStep(p) ==
    \/ OpensLock(p) \/ JudgesLock(p) \/ RemovesLock(p) \/ RetakesLock(p) \/ WritesLock(p)
    \/ ConnectsHubs(p) \/ StartsTimers(p) \/ Listens(p)
    \/ IntentEnds(p) \/ DrainsQueue(p) \/ Disposes(p) \/ RollbackEnds(p) \/ UnwindingEnds(p)
    \/ ClosesStores(p) \/ RecoversFailedStop(p) \/ ProcessExits(p)

ProcessNext ==
    \E p \in Processes :
       \/ ProcessStep(p)
       \/ ConnectFails(p) \/ StartFails(p) \/ TakesIntent(p) \/ StopsAsked(p)
       \/ DisposeFails(p) \/ CloseFails(p) \/ Dies(p)

ProcessSpec == ProcessInit /\ [][ProcessNext]_processVars

-----------------------------------------------------------------------------
ProcessTypeOK ==
    /\ handle \subseteq Processes /\ serving \subseteq Processes /\ closed \subseteq Processes
    /\ hubs \in [Processes -> SUBSET HubNames]
    /\ intents \in [Processes -> 0 .. MaxTaken] /\ awaited \in [Processes -> 0 .. MaxTaken]
    /\ processFaults \in 0 .. MaxProcessFaults /\ deaths \in 0 .. MaxDeaths

(* A process that may still write, because its streams or its gateway are    *)
(* registered and not disposed, keeps the lock and open stores: a failed     *)
(* stop gives neither away (service.ts, closeStores and stopSerial).         *)
WritersKeepTheLock ==
    \A p \in Processes :
       {"realtime", "local_gateway"} \cap ToSet(stack[p]) # {} => p \in handle /\ p \notin closed

(* The stores close only after the intents a stop found in the queue have    *)
(* ended (drainExecutionQueue).                                              *)
SettledBeforeClosing == \A p \in Processes : p \in closed => awaited[p] = 0

ProcessInv == ProcessTypeOK /\ WritersKeepTheLock /\ SettledBeforeClosing
=============================================================================
