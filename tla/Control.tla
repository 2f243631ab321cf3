-------------------------------- MODULE Control --------------------------------
(***************************************************************************)
(* Operator controls: pause, resume, set_mode and flatten.                 *)
(*                                                                         *)
(* A command is stored before it is applied, applied to two fields of the  *)
(* running service (paused, mode) or to the venue (a flatten's EXIT), and  *)
(* then marked.  Several HTTP requests, the reconciliation cycle and, after*)
(* a start, the task that resumes what the last process left unfinished    *)
(* interleave at every await.  Every store call goes through one SQLite    *)
(* worker, which serves the calls in the order they were posted; its       *)
(* answers resume the callers in that order too.                           *)
(*                                                                         *)
(* The status column and the one detail text the code reads back are one   *)
(* value here: "waiting" is applying with waiting_for_flat, "ambiguous" is *)
(* failed by a restart that could not tell.  Of the venue only what the    *)
(* gateway's own account state shows is kept.                              *)
(***************************************************************************)
EXTENDS Naturals, Sequences

CONSTANTS
    Controls,   \* control identities
    Command,    \* what each asks: [action |-> , mode |-> , scope |-> ]
    Handlers,   \* concurrent POST /control requests
    None,       \* no control
    Starts,     \* trading modes the process may be started with
    MaxFaults   \* bound on crashes plus failed packet invalidations

Modes == {"disabled", "shadow", "armed"}
(* scope: contract_id is null, the configured contract, another allowlisted  *)
(* one, or the account or contract is not this gateway's.                    *)
Commands == [action : {"pause", "resume", "set_mode", "flatten"},
             mode   : Modes,
             scope  : {"all", "own", "other", "foreign"}]

ASSUME ControlsAssumption == None \notin Controls
ASSUME CommandAssumption == Command \in [Controls -> Commands]
ASSUME HandlersAssumption == Handlers \cap {"boot", "timer"} = {}
ASSUME StartsAssumption == Starts \subseteq Modes /\ Starts # {}
ASSUME ControlFaultsAssumption == MaxFaults \in Nat

Action(c) == Command[c].action
Scope(c)  == Command[c].scope

Open  == {"pending", "applying", "waiting"}
Final == {"completed", "rejected", "failed", "ambiguous"}
Statuses == {"absent"} \cup Open \cup Final

Tasks == Handlers \cup {"boot", "timer"}

VARIABLES
    status, seq,     \* control_commands: one row per control, numbered
    lastSeq,         \* the greatest number in the table
    paused, mode,    \* controlPaused, runtimeTradingMode
    config,          \* the trading mode this process was started with
    phase,           \* "starting" until the local gateway listens
    account,         \* what the account state shows
    calls, replies,  \* the worker's queue, and its answers not yet consumed
    at,              \* what a task has asked for, or where else it is
    ctl, saw, goal,  \* a task's control, the status it read, the next status
    todo,            \* the rows a task listed and has still to visit
    exits,           \* EXIT intents handed to the coordinator for a control
    faults

rows   == <<status, seq, lastSeq>>
memory == <<paused, mode>>
queues == <<calls, replies>>
locals == <<at, ctl, saw, goal, todo>>
world  == <<config, account>>
vars   == <<rows, memory, world, phase, queues, locals, exits, faults>>

-----------------------------------------------------------------------------
(* What the account state shows: flat; flat with an incomplete state; working*)
(* orders or a position in the configured contract; a position or orders in  *)
(* another allowlisted contract.                                             *)
Accounts == {"flat", "unknown", "own_orders", "own", "other"}

(* buildFlattenVenueSnapshot and the saga's test for flat: the configured    *)
(* contract only.                                                            *)
FlatHere == account \in {"flat", "other"}

OutOfScope(c) ==
    \/ Scope(c) = "foreign"
    \/ Scope(c) = "own" /\ account = "other"
    \/ Scope(c) = "other" /\ account \in {"own", "own_orders"}

(* A set_mode cannot arm a gateway that was not started armed.               *)
Escalates(c) == Command[c].mode = "armed" /\ config # "armed"

(* effectiveState: the completed commands of this account and contract, in   *)
(* sequence order; the last pause or resume counts, and the last set_mode.   *)
FirstEffective(S) ==   \* faulty: in the wrong order
    {c \in S : \A d \in S : seq[c] <= seq[d]}
LastEffective(S) ==
    {c \in S : \A d \in S : seq[d] <= seq[c]}
Effective(actions) ==
    LastEffective({c \in Controls :
        status[c] = "completed" /\ Action(c) \in actions /\ Scope(c) \in {"all", "own"}})
EffectivePaused == \E c \in Effective({"pause", "resume"}) : Action(c) = "pause"

-----------------------------------------------------------------------------
NoRows == [c \in Controls |-> "none"]
AtRest == [t \in Tasks |-> IF t = "boot" THEN "restore" ELSE "idle"]

Init ==
    /\ status = [c \in Controls |-> "absent"]
    /\ seq = [c \in Controls |-> 0] /\ lastSeq = 0
    /\ config \in Starts /\ paused = FALSE /\ mode = config
    /\ phase = "starting"
    /\ account \in Accounts
    /\ calls = <<>> /\ replies = <<>>
    /\ at = AtRest
    /\ ctl = [t \in Tasks |-> None]
    /\ saw = [t \in Tasks |-> "absent"]
    /\ goal = [t \in Tasks |-> "none"]
    /\ todo = [t \in Tasks |-> NoRows]
    /\ exits = [c \in Controls |-> 0]
    /\ faults = 0

(* A task posts a call and waits for the answer.                             *)
Call(t, op) ==
    /\ at' = [at EXCEPT ![t] = op]
    /\ calls' = Append(calls, t)

(* A task is done with its control: a request is answered, a list goes on.   *)
Leave(t) ==
    /\ at' = [at EXCEPT ![t] = IF t \in Handlers THEN "idle" ELSE "next"]
    /\ ctl' = [ctl EXCEPT ![t] = None]
    /\ saw' = [saw EXCEPT ![t] = "absent"]
    /\ goal' = [goal EXCEPT ![t] = "none"]
    /\ UNCHANGED calls

(* The status is settled and written next.                                   *)
Mark(t, s) == goal' = [goal EXCEPT ![t] = s] /\ Call(t, "transition")
(* The issued packets are invalidated first.                                 *)
InvalidateThenMark(t, s) == goal' = [goal EXCEPT ![t] = s] /\ Call(t, "invalidate")

-----------------------------------------------------------------------------
(* The worker: one call, one transaction, first in first out.                *)

Serve(op) ==
    /\ calls # <<>> /\ at[Head(calls)] = op
    /\ calls' = Tail(calls)
    /\ replies' = Append(replies, Head(calls))

Caller == Head(calls)

(* submit: a new control is numbered and stored pending; a known one is read.*)
ServeSubmit ==
    /\ Serve("submit")
    /\ LET c == ctl[Caller] IN
         /\ IF status[c] = "absent"
              THEN /\ status' = [status EXCEPT ![c] = "pending"]
                   /\ seq' = [seq EXCEPT ![c] = lastSeq + 1]
                   /\ lastSeq' = lastSeq + 1
              ELSE UNCHANGED rows
         /\ saw' = [saw EXCEPT ![Caller] = status'[c]]
    /\ UNCHANGED <<memory, world, phase, at, ctl, goal, todo, exits, faults>>

(* Faulty: claimed whatever the status, so long as it is open.               *)
ServeClaimOpen ==
    /\ Serve("claim")
    /\ LET c == ctl[Caller]
           won == status[c] \in Open IN
         /\ status' = [status EXCEPT ![c] = IF won THEN "applying" ELSE @]
         /\ goal' = [goal EXCEPT ![Caller] = IF won THEN "completed" ELSE "none"]
    /\ UNCHANGED <<seq, lastSeq, memory, world, phase, at, ctl, saw, todo, exits, faults>>

(* claimPending: only a pending command is claimed, so only one task applies *)
(* it.  The claimed task's goal is to complete it.                           *)
ServeClaim ==
    /\ Serve("claim")
    /\ LET c == ctl[Caller]
           won == status[c] = "pending" IN
         /\ status' = [status EXCEPT ![c] = IF won THEN "applying" ELSE @]
         /\ goal' = [goal EXCEPT ![Caller] = IF won THEN "completed" ELSE "none"]
    /\ UNCHANGED <<seq, lastSeq, memory, world, phase, at, ctl, saw, todo, exits, faults>>

(* invalidateAll only touches issued packets, which are not modelled.        *)
ServeInvalidate ==
    /\ Serve("invalidate")
    /\ UNCHANGED <<rows, memory, world, phase, locals, exits, faults>>

(* transition: whatever the row holds is overwritten.                        *)
ServeTransition ==
    /\ Serve("transition")
    /\ status' = [status EXCEPT ![ctl[Caller]] = goal[Caller]]
    /\ UNCHANGED <<seq, lastSeq, memory, world, phase, locals, exits, faults>>

(* Faulty: the start resumes only what was never claimed.                    *)
ServePendingList ==
    /\ Serve("list")
    /\ todo' = [todo EXCEPT ![Caller] = [c \in Controls |->
            IF status[c] = (IF Caller = "boot" THEN "pending" ELSE "waiting")
              THEN status[c] ELSE "none"]]
    /\ UNCHANGED <<rows, memory, world, phase, at, ctl, saw, goal, exits, faults>>

(* Faulty: the cycle looks for applying flattens that are not waiting.       *)
ServeApplyingList ==
    /\ Serve("list")
    /\ todo' = [todo EXCEPT ![Caller] = [c \in Controls |->
            IF status[c] \in (IF Caller = "boot" THEN Open ELSE {"applying"})
              THEN status[c] ELSE "none"]]
    /\ UNCHANGED <<rows, memory, world, phase, at, ctl, saw, goal, exits, faults>>

(* pending(): every open row; the reconciliation keeps the waiting flattens. *)
ServeList ==
    /\ Serve("list")
    /\ todo' = [todo EXCEPT ![Caller] = [c \in Controls |->
            IF status[c] \in (IF Caller = "boot" THEN Open ELSE {"waiting"})
              THEN status[c] ELSE "none"]]
    /\ UNCHANGED <<rows, memory, world, phase, at, ctl, saw, goal, exits, faults>>

Worker ==
    \/ ServeSubmit \/ ServeClaim \/ ServeInvalidate \/ ServeTransition \/ ServeList

-----------------------------------------------------------------------------
(* POST /control, and what a task does when an answer comes back.            *)
PostControl(h, c) ==
    /\ phase = "ready" /\ at[h] = "idle"
    /\ ctl' = [ctl EXCEPT ![h] = c]
    /\ Call(h, "submit")
    /\ UNCHANGED <<rows, memory, world, phase, replies, saw, goal, todo, exits, faults>>

Answered(t, op) ==
    /\ replies # <<>> /\ t = Head(replies) /\ at[t] = op
    /\ replies' = Tail(replies)

(* applyStoredControl up to the claim: the scope is judged by the account    *)
(* state of this moment, and the rejection overwrites whatever the row has   *)
(* become since it was read.                                                 *)
RejectOrClaim(t, c) ==
    IF OutOfScope(c) THEN Mark(t, "rejected") ELSE Call(t, "claim") /\ UNCHANGED goal

Submitted(h) ==
    /\ Answered(h, "submit")
    /\ IF saw[h] \in Final THEN Leave(h)
       ELSE RejectOrClaim(h, ctl[h]) /\ UNCHANGED <<ctl, saw>>
    /\ UNCHANGED <<rows, memory, world, phase, todo, exits, faults>>

(* The effect of a pause, resume or set_mode on the running service.         *)
SetMemory(c) ==
    /\ paused' = CASE Action(c) = "pause"  -> TRUE
                   [] Action(c) = "resume" -> FALSE
                   [] OTHER                -> paused
    /\ mode' = IF Action(c) = "set_mode" THEN Command[c].mode ELSE mode

ApplyLocal(t, c) ==
    IF Action(c) = "set_mode" /\ Escalates(c)
      THEN Mark(t, "rejected") /\ UNCHANGED memory
      ELSE InvalidateThenMark(t, "completed") /\ SetMemory(c)

(* resolveFlattenAfterReceipt, of the account state at this moment.          *)
Settled == IF FlatHere THEN "completed" ELSE "waiting"

Claimed(t) ==
    /\ Answered(t, "claim")
    /\ \/ /\ goal[t] = "none" /\ Leave(t)
          /\ UNCHANGED memory
       \/ /\ goal[t] # "none" /\ Action(ctl[t]) # "flatten"
          /\ ApplyLocal(t, ctl[t])
          /\ UNCHANGED <<ctl, saw>>
       \/ /\ goal[t] # "none" /\ Action(ctl[t]) = "flatten" /\ account = "own"
          /\ at' = [at EXCEPT ![t] = "exiting"]
          /\ UNCHANGED <<calls, memory, ctl, saw, goal>>
       \/ /\ goal[t] # "none" /\ Action(ctl[t]) = "flatten" /\ account # "own"
          /\ InvalidateThenMark(t, Settled)
          /\ UNCHANGED <<memory, ctl, saw>>
    /\ UNCHANGED <<rows, world, phase, todo, exits, faults>>

(* The flatten's EXIT, an intent with the control's own identity, goes to the*)
(* coordinator; no packet or no coordinator fails the control.               *)
SendExit(t) ==
    /\ at[t] = "exiting"
    /\ \/ /\ exits' = [exits EXCEPT ![ctl[t]] = @ + 1]
          /\ at' = [at EXCEPT ![t] = "exit_sent"]
          /\ UNCHANGED <<calls, goal>>
       \/ Mark(t, "failed") /\ UNCHANGED exits
    /\ UNCHANGED <<rows, memory, world, phase, replies, ctl, saw, todo, faults>>

(* A rejected, shadowed or ambiguous receipt fails the control as well.      *)
ExitAnswered(t) ==
    /\ at[t] = "exit_sent"
    /\ InvalidateThenMark(t, Settled) \/ Mark(t, "failed")
    /\ UNCHANGED <<rows, memory, world, phase, replies, ctl, saw, todo, exits, faults>>

Invalidated(t) ==
    /\ Answered(t, "invalidate")
    /\ Call(t, "transition")
    /\ UNCHANGED <<rows, memory, world, phase, ctl, saw, goal, todo, exits, faults>>

(* The invalidation throws: the control fails, though memory has changed.    *)
(* While rows left applying are resumed, nothing catches it: the start fails,*)
(* which is a Crash.                                                         *)
InvalidateFails(t) ==
    /\ faults < MaxFaults
    /\ Answered(t, "invalidate") /\ (t = "boot" => saw[t] = "pending")
    /\ Mark(t, "failed")
    /\ faults' = faults + 1
    /\ UNCHANGED <<rows, memory, world, phase, ctl, saw, todo, exits>>

Transitioned(t) ==
    /\ Answered(t, "transition")
    /\ Leave(t)
    /\ UNCHANGED <<rows, memory, world, phase, todo, exits, faults>>

-----------------------------------------------------------------------------
(* Lists: the rows of one are visited in sequence order.                     *)
StartList(t) ==
    /\ Call(t, "list")
    /\ UNCHANGED <<rows, world, phase, replies, ctl, saw, goal, todo, exits, faults>>

Listed(t) ==
    /\ Answered(t, "list")
    /\ at' = [at EXCEPT ![t] = "next"]
    /\ UNCHANGED <<rows, memory, world, phase, calls, ctl, saw, goal, todo, exits, faults>>

IsNext(t, c) ==
    /\ at[t] = "next" /\ todo[t][c] # "none"
    /\ \A d \in Controls : todo[t][d] # "none" => seq[c] <= seq[d]

Visit(t, c) ==
    /\ IsNext(t, c)
    /\ todo' = [todo EXCEPT ![t][c] = "none"]

Take(t, c) ==
    /\ ctl' = [ctl EXCEPT ![t] = c]
    /\ saw' = [saw EXCEPT ![t] = todo[t][c]]

NothingLeft(t) == at[t] = "next" /\ \A c \in Controls : todo[t][c] = "none"

(* completePendingFlattenControls, at the end of each reconciliation cycle,  *)
(* whose timer runs before the local gateway listens.                        *)
StartTimer ==
    /\ at["timer"] = "idle"
    /\ StartList("timer") /\ UNCHANGED memory

TimerVisits(c) ==
    /\ Visit("timer", c)
    /\ IF FlatHere THEN Mark("timer", "completed") /\ Take("timer", c)
       ELSE UNCHANGED <<at, calls, ctl, saw, goal>>
    /\ UNCHANGED <<rows, memory, world, phase, replies, exits, faults>>

TimerEnds ==
    /\ NothingLeft("timer")
    /\ at' = [at EXCEPT !["timer"] = "idle"]
    /\ UNCHANGED <<rows, memory, world, phase, queues, ctl, saw, goal, todo, exits, faults>>

(* Faulty: the restored mode is not held to the mode of this start.          *)
RestoreAnyMode ==
    /\ at["boot"] = "restore"
    /\ paused' = EffectivePaused
    /\ mode' = IF Effective({"set_mode"}) # {}
                 THEN Command[CHOOSE c \in Effective({"set_mode"}) : TRUE].mode ELSE mode
    /\ StartList("boot")

(* restoreEffectiveControlState, then resumePendingControls.  Until the      *)
(* gateway listens nobody else completes a pause, resume or mode, so reading *)
(* the effective state and setting the memory is one step.                   *)
Restore ==
    /\ at["boot"] = "restore"
    /\ paused' = EffectivePaused
    /\ mode' = IF \E c \in Effective({"set_mode"}) : ~Escalates(c)
                 THEN Command[CHOOSE c \in Effective({"set_mode"}) : ~Escalates(c)].mode
                 ELSE mode
    /\ StartList("boot")

(* A row still applying: a pause, resume or mode is applied again; a flatten *)
(* is completed when the contract is flat, waits on when it was waiting, and *)
(* is otherwise left to the operator with the gateway paused and disabled.   *)
ResumeFlatten(c) ==
    IF FlatHere THEN Mark("boot", "completed") /\ UNCHANGED memory
    ELSE IF todo["boot"][c] = "waiting" THEN Mark("boot", "waiting") /\ UNCHANGED memory
    ELSE InvalidateThenMark("boot", "ambiguous") /\ paused' = TRUE /\ mode' = "disabled"

BootVisits(c) ==
    /\ Visit("boot", c) /\ Take("boot", c)
    /\ \/ /\ todo["boot"][c] = "pending" /\ RejectOrClaim("boot", c)
          /\ UNCHANGED memory
       \/ /\ todo["boot"][c] # "pending" /\ Action(c) # "flatten"
          /\ ApplyLocal("boot", c)
       \/ /\ todo["boot"][c] # "pending" /\ Action(c) = "flatten"
          /\ ResumeFlatten(c)
    /\ UNCHANGED <<rows, world, phase, replies, exits, faults>>

(* The local gateway listens.                                                *)
BootEnds ==
    /\ NothingLeft("boot")
    /\ at' = [at EXCEPT !["boot"] = "idle"]
    /\ phase' = "ready"
    /\ UNCHANGED <<rows, memory, world, queues, ctl, saw, goal, todo, exits, faults>>

-----------------------------------------------------------------------------
AccountMoves ==
    /\ account' \in Accounts \ {account}
    /\ UNCHANGED <<rows, memory, config, phase, queues, locals, exits, faults>>

(* The process dies and is started again, perhaps in another mode.           *)
Crash ==
    /\ faults < MaxFaults
    /\ faults' = faults + 1
    /\ config' \in Starts /\ paused' = FALSE /\ mode' = config'
    /\ phase' = "starting"
    /\ calls' = <<>> /\ replies' = <<>>
    /\ at' = AtRest
    /\ ctl' = [t \in Tasks |-> None]
    /\ saw' = [t \in Tasks |-> "absent"]
    /\ goal' = [t \in Tasks |-> "none"]
    /\ todo' = [t \in Tasks |-> NoRows]
    /\ UNCHANGED <<rows, account, exits>>

Consume(t) ==
    \/ Submitted(t) \/ Claimed(t) \/ Invalidated(t) \/ Transitioned(t) \/ Listed(t)

Lists ==
    \/ StartTimer \/ TimerEnds \/ Restore \/ BootEnds
    \/ \E c \in Controls : TimerVisits(c) \/ BootVisits(c)

Next ==
    \/ \E h \in Handlers, c \in Controls : PostControl(h, c)
    \/ Worker
    \/ \E t \in Tasks : Consume(t) \/ SendExit(t) \/ ExitAnswered(t) \/ InvalidateFails(t)
    \/ Lists \/ AccountMoves \/ Crash

Spec == Init /\ [][Next]_vars

(* The worker serves, promise continuations run, calls of the coordinator    *)
(* return, the reconciliation timer fires.                                   *)
Fairness ==
    /\ WF_vars(Worker)
    /\ WF_vars(\E t \in Tasks : Consume(t))
    /\ \A t \in Tasks : WF_vars(SendExit(t)) /\ WF_vars(ExitAnswered(t))
    /\ WF_vars(StartTimer \/ TimerEnds \/ \E c \in Controls : TimerVisits(c))
    /\ WF_vars(Restore \/ BootEnds \/ \E c \in Controls : BootVisits(c))

FairSpec == Spec /\ Fairness

-----------------------------------------------------------------------------
(* The type invariant.                                                       *)
TypeOK ==
    /\ status \in [Controls -> Statuses]
    /\ seq \in [Controls -> Nat] /\ lastSeq \in Nat
    /\ paused \in BOOLEAN /\ mode \in Modes /\ config \in Modes
    /\ phase \in {"starting", "ready"}
    /\ account \in Accounts
    /\ calls \in Seq(Tasks) /\ replies \in Seq(Tasks)
    /\ at \in [Tasks -> {"restore", "idle", "next", "submit", "claim", "invalidate",
                         "transition", "list", "exiting", "exit_sent"}]
    /\ ctl \in [Tasks -> Controls \cup {None}]
    /\ saw \in [Tasks -> Statuses]
    /\ goal \in [Tasks -> Final \cup {"none", "waiting"}]
    /\ todo \in [Tasks -> [Controls -> Open \cup {"none"}]]
    /\ exits \in [Controls -> Nat]
    /\ faults \in 0 .. MaxFaults

(* However often a flatten is posted, and whatever restart interrupts it, at *)
(* most one EXIT is handed to the coordinator for it.                        *)
ExitAtMostOnce == \A c \in Controls : exits[c] <= 1

(* No sequence of commands, restarts and startup modes arms a gateway that   *)
(* was not started armed.                                                    *)
NeverArmedBeyondStart == mode = "armed" => config = "armed"

(* A completed pause of this gateway holds, through restarts and through     *)
(* commands still under way, until a resume with a later number is claimed.  *)
LastPauseHolds ==
    \A c \in Controls :
      /\ phase = "ready"
      /\ status[c] = "completed" /\ Action(c) = "pause" /\ Scope(c) \in {"all", "own"}
      /\ \A d \in Controls : Action(d) = "resume" /\ seq[d] > seq[c] => status[d] = "pending"
      => paused

(* A command without a contract that is not a flatten is decided once.  (One *)
(* that names a contract can be rejected over its outcome, and a completed   *)
(* flatten can be set back to waiting, by tasks that read an earlier row.)   *)
DecidedStaysDecided ==
    [][\A c \in Controls :
         Action(c) # "flatten" /\ Scope(c) = "all" /\ status[c] \in Final
           => status'[c] = status[c]]_vars

(* Every accepted command is decided, or waits for the account to be flat,   *)
(* also when the process died under it.                                      *)
EveryControlDecided ==
    \A c \in Controls : status[c] # "absent" ~> status[c] \in Final \cup {"waiting"}

(* A flatten does not wait for ever on an account that stays flat.           *)
WaitingFlattenEnds ==
    \A c \in Controls :
      <>[](account = "flat") => (status[c] = "waiting" ~> status[c] \in Final)
================================================================================
