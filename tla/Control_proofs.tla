----------------------------- MODULE Control_proofs -----------------------------
(***************************************************************************)
(* Proofs about Control for any set of commands, any number of concurrent  *)
(* requests and any number of faults.                                      *)
(*                                                                         *)
(* The inductive invariants say what a task carries at each of its steps,   *)
(* which tasks may still send the EXIT of a claimed flatten, of which the   *)
(* claim leaves at most one, which may still decide a command, and in which *)
(* order the claims and the results of pauses and resumes are served.      *)
(***************************************************************************)
EXTENDS Control, WellFoundedInduction, TLAPS

Ops == {"submit", "claim", "invalidate", "transition", "list"}
Idling == {"restore", "idle", "next"}

(* What a task at each of its steps carries with it.                        *)
TaskInv ==
    \A t \in Tasks :
      /\ at[t] \in Idling \cup {"submit", "list"} => goal[t] = "none"
      /\ at[t] \in (Ops \ {"list"}) \cup {"exiting", "exit_sent"} => ctl[t] \in Controls
      /\ at[t] \in {"invalidate", "transition"} => goal[t] # "none"
      /\ at[t] = "claim" => goal[t] \in {"none", "completed"}

(* The tasks that have won the claim of a control and may still send its EXIT.*)
Sender(t, c) ==
    /\ t \in Tasks /\ ctl[t] = c
    /\ at[t] = "exiting" \/ (at[t] = "claim" /\ goal[t] = "completed")

SendInv ==
    \A c \in Controls :
      /\ exits[c] <= 1
      /\ status[c] \in {"absent", "pending"} => exits[c] = 0
      /\ \A t \in Tasks : Sender(t, c) =>
           exits[c] = 0 /\ status[c] \notin {"absent", "pending"}
      /\ \A t, u \in Tasks : Sender(t, c) /\ Sender(u, c) => t = u

BaseInv == TypeOK /\ TaskInv

-----------------------------------------------------------------------------
(* Type correctness, together with what each task carries.                  *)
LEMMA BaseInit == Init => BaseInv
<1> SUFFICES ASSUME Init PROVE BaseInv
  OBVIOUS
<1>0. paused \in BOOLEAN
  BY DEF Init
<1>1. faults \in 0 .. MaxFaults
  BY ControlFaultsAssumption DEF Init
<1>2. TypeOK
  <2>1. todo \in [Tasks -> [Controls -> Open \cup {"none"}]]
    BY DEF Init, NoRows
  <2>2. calls \in Seq(Tasks) /\ replies \in Seq(Tasks)
    BY DEF Init
  <2>3. QED
    BY StartsAssumption, <1>0, <1>1, <2>1, <2>2 DEF Init, TypeOK, AtRest, Statuses, Open, Final
<1>3. TaskInv
  BY ControlsAssumption DEF Init, TaskInv, AtRest, Idling, Ops
<1>4. QED
  BY <1>2, <1>3 DEF BaseInv

LEMMA BaseWorker == BaseInv /\ Worker => BaseInv'
<1> SUFFICES ASSUME BaseInv, Worker PROVE BaseInv'
  OBVIOUS
<1> USE DEF BaseInv, TypeOK, TaskInv, rows, memory, world, locals, Serve, Caller,
            Statuses, Open, Final, Idling, Ops
<1>0. ASSUME calls # <<>> PROVE Head(calls) \in Tasks /\ Tail(calls) \in Seq(Tasks)
                               /\ Append(replies, Head(calls)) \in Seq(Tasks)
  BY <1>0
<1>1. CASE ServeSubmit
  <2>1. ctl[Head(calls)] \in Controls
    BY <1>0, <1>1 DEF ServeSubmit
  <2>2. status' \in [Controls -> Statuses] /\ seq' \in [Controls -> Nat] /\ lastSeq' \in Nat
    <3>1. CASE status[ctl[Head(calls)]] = "absent"
      <4>1. /\ status' = [status EXCEPT ![ctl[Head(calls)]] = "pending"]
            /\ seq' = [seq EXCEPT ![ctl[Head(calls)]] = lastSeq']
            /\ lastSeq' = lastSeq + 1
        BY <1>1, <3>1 DEF ServeSubmit
      <4>2. status' \in [Controls -> Statuses]
        BY <4>1
      <4>3. lastSeq' \in Nat
        BY <4>1
      <4>4. seq' \in [Controls -> Nat]
        BY <4>1, <4>3
      <4>5. QED
        BY <4>2, <4>3, <4>4
    <3>2. CASE status[ctl[Head(calls)]] # "absent"
      BY <1>1, <3>2 DEF ServeSubmit
    <3>3. QED
      BY <3>1, <3>2
  <2>3. saw' \in [Tasks -> Statuses]
    BY <1>1, <2>1, <2>2 DEF ServeSubmit
  <2>4. QED
    BY <1>0, <1>1, <2>2, <2>3 DEF ServeSubmit
<1>2. CASE ServeClaim
  BY <1>0, <1>2 DEF ServeClaim
<1>3. CASE ServeInvalidate
  BY <1>0, <1>3 DEF ServeInvalidate
<1>4. CASE ServeTransition
  BY <1>0, <1>4 DEF ServeTransition
<1>5. CASE ServeList
  BY <1>0, <1>5 DEF ServeList
<1>6. QED
  BY <1>1, <1>2, <1>3, <1>4, <1>5 DEF Worker

(* What a step of task t does to the task variables.                        *)
LocalOK ==
    /\ at \in [Tasks -> Idling \cup Ops \cup {"exiting", "exit_sent"}]
    /\ ctl \in [Tasks -> Controls \cup {None}]
    /\ saw \in [Tasks -> Statuses]
    /\ goal \in [Tasks -> Final \cup {"none", "waiting"}]
    /\ TaskInv

LEMMA LocalBase == BaseInv => LocalOK
BY DEF BaseInv, TypeOK, LocalOK, Idling, Ops

LEMMA BaseSplit ==
    ASSUME BaseInv, LocalOK', UNCHANGED <<rows, world, phase, todo, exits>>,
           paused' \in BOOLEAN, mode' \in Modes, faults' \in 0 .. MaxFaults,
           calls' \in Seq(Tasks), replies' \in Seq(Tasks)
    PROVE  BaseInv'
BY DEF BaseInv, TypeOK, LocalOK, Idling, Ops, rows, world

(* It posts a call that will settle its control.                            *)
LEMMA LocalPost ==
    ASSUME LocalOK, NEW t \in Tasks, NEW s \in Final \cup {"waiting"},
           NEW op \in {"invalidate", "transition"},
           at' = [at EXCEPT ![t] = op], goal' = [goal EXCEPT ![t] = s],
           ctl' \in [Tasks -> Controls \cup {None}], ctl'[t] \in Controls,
           \A u \in Tasks \ {t} : ctl'[u] = ctl[u],
           saw' \in [Tasks -> Statuses]
    PROVE  LocalOK'
<1>1. at' \in [Tasks -> Idling \cup Ops \cup {"exiting", "exit_sent"}]
  BY DEF LocalOK, Ops
<1>2. goal' \in [Tasks -> Final \cup {"none", "waiting"}]
  BY DEF LocalOK
<1>3. ASSUME NEW u \in Tasks
      PROVE  /\ at'[u] \in Idling \cup {"submit", "list"} => goal'[u] = "none"
             /\ at'[u] \in (Ops \ {"list"}) \cup {"exiting", "exit_sent"} => ctl'[u] \in Controls
             /\ at'[u] \in {"invalidate", "transition"} => goal'[u] # "none"
             /\ at'[u] = "claim" => goal'[u] \in {"none", "completed"}
  BY DEF LocalOK, TaskInv, Idling, Ops, Final
<1>4. QED
  BY <1>1, <1>2, <1>3 DEF LocalOK, TaskInv

(* It leaves its control.                                                   *)
LEMMA LocalLeave ==
    ASSUME LocalOK, NEW t \in Tasks, Leave(t)
    PROVE  LocalOK'
<1>0. PICK w \in {"idle", "next"} : at' = [at EXCEPT ![t] = w]
  BY DEF Leave
<1>1. at' \in [Tasks -> Idling \cup Ops \cup {"exiting", "exit_sent"}]
  BY <1>0 DEF LocalOK, Idling
<1>2. /\ goal' \in [Tasks -> Final \cup {"none", "waiting"}]
      /\ ctl' \in [Tasks -> Controls \cup {None}]
      /\ saw' \in [Tasks -> Statuses]
  BY DEF LocalOK, Leave, Statuses
<1>3. ASSUME NEW u \in Tasks
      PROVE  /\ at'[u] \in Idling \cup {"submit", "list"} => goal'[u] = "none"
             /\ at'[u] \in (Ops \ {"list"}) \cup {"exiting", "exit_sent"} => ctl'[u] \in Controls
             /\ at'[u] \in {"invalidate", "transition"} => goal'[u] # "none"
             /\ at'[u] = "claim" => goal'[u] \in {"none", "completed"}
  BY <1>0 DEF LocalOK, Leave, TaskInv, Idling, Ops
<1>4. QED
  BY <1>1, <1>2, <1>3 DEF LocalOK, TaskInv

(* It only moves on, its control and goal being what the new step needs.    *)
LEMMA LocalMove ==
    ASSUME LocalOK, NEW t \in Tasks,
           NEW op \in Idling \cup Ops \cup {"exiting", "exit_sent"},
           at' = [at EXCEPT ![t] = op], UNCHANGED goal,
           ctl' \in [Tasks -> Controls \cup {None}],
           \A u \in Tasks \ {t} : ctl'[u] = ctl[u],
           saw' \in [Tasks -> Statuses],
           op \in Idling \cup {"submit", "list"} => goal[t] = "none",
           op \in (Ops \ {"list"}) \cup {"exiting", "exit_sent"} => ctl'[t] \in Controls,
           op \in {"invalidate", "transition"} => goal[t] # "none",
           op = "claim" => goal[t] = "none"
    PROVE  LocalOK'
<1>1. at' \in [Tasks -> Idling \cup Ops \cup {"exiting", "exit_sent"}]
  BY DEF LocalOK
<1>3. ASSUME NEW u \in Tasks
      PROVE  /\ at'[u] \in Idling \cup {"submit", "list"} => goal'[u] = "none"
             /\ at'[u] \in (Ops \ {"list"}) \cup {"exiting", "exit_sent"} => ctl'[u] \in Controls
             /\ at'[u] \in {"invalidate", "transition"} => goal'[u] # "none"
             /\ at'[u] = "claim" => goal'[u] \in {"none", "completed"}
  BY DEF LocalOK, TaskInv
<1>4. QED
  BY <1>1, <1>3 DEF LocalOK, TaskInv

(* What a consumed answer and a posted call do to the queues.               *)
LEMMA QueueTypes ==
    ASSUME BaseInv, NEW t \in Tasks
    PROVE  /\ Append(calls, t) \in Seq(Tasks)
           /\ replies # <<>> => Tail(replies) \in Seq(Tasks)
           /\ calls \in Seq(Tasks) /\ replies \in Seq(Tasks)
           /\ paused \in BOOLEAN /\ mode \in Modes /\ faults \in 0 .. MaxFaults
BY DEF BaseInv, TypeOK

LEMMA BaseTasks ==
    ASSUME BaseInv, NEW t \in Tasks,
           Consume(t) \/ SendExit(t) \/ ExitAnswered(t) \/ InvalidateFails(t)
    PROVE  BaseInv'
<1> USE LocalBase, QueueTypes DEF memory
<1>0. LocalOK /\ (at[t] \in (Ops \ {"list"}) \cup {"exiting", "exit_sent"} => ctl[t] \in Controls)
      /\ (at[t] \in {"submit", "list"} => goal[t] = "none")
      /\ (at[t] \in {"invalidate"} => goal[t] # "none")
  BY DEF LocalOK, TaskInv, Idling
<1>a. ctl \in [Tasks -> Controls \cup {None}] /\ saw \in [Tasks -> Statuses]
  BY <1>0 DEF LocalOK
<1>1. CASE Submitted(t)
  <2>1. CASE Leave(t)
    <3>1. LocalOK'
      BY <1>0, <2>1, LocalLeave
    <3>2. QED
      BY <1>1, <2>1, <3>1, BaseSplit DEF Submitted, Answered, Leave
  <2>2. CASE Mark(t, "rejected") /\ UNCHANGED <<ctl, saw>>
    <3>1. LocalOK'
      BY <1>0, <1>a, <1>1, <2>2, LocalPost DEF Submitted, Answered, Mark, Call, Final, Ops
    <3>2. QED
      BY <1>1, <2>2, <3>1, BaseSplit DEF Submitted, Answered, Mark, Call
  <2>3. CASE Call(t, "claim") /\ UNCHANGED <<goal, ctl, saw>>
    <3>1. LocalOK'
      BY <1>0, <1>a, <1>1, <2>3, LocalMove DEF Submitted, Answered, Call, Ops, Idling
    <3>2. QED
      BY <1>1, <2>3, <3>1, BaseSplit DEF Submitted, Answered, Call
  <2>4. QED
    BY <1>1, <2>1, <2>2, <2>3 DEF Submitted, RejectOrClaim
<1>2. CASE Claimed(t)
  <2>0. ctl[t] \in Controls
    BY <1>0, <1>2 DEF Claimed, Answered, Ops
  <2>1. CASE goal[t] = "none" /\ Leave(t) /\ UNCHANGED memory
    <3>1. LocalOK'
      BY <1>0, <2>1, LocalLeave
    <3>2. QED
      BY <1>2, <2>1, <3>1, BaseSplit DEF Claimed, Answered, Leave
  <2>2. CASE ApplyLocal(t, ctl[t]) /\ UNCHANGED <<ctl, saw>>
    <3>2. paused' \in BOOLEAN
      BY <2>2 DEF ApplyLocal, SetMemory
    <3>3. mode' \in Modes
      BY <2>0, <2>2, CommandAssumption DEF ApplyLocal, SetMemory, Commands
    <3>4. \E s \in {"rejected", "completed"}, op \in {"invalidate", "transition"} :
             goal' = [goal EXCEPT ![t] = s] /\ Call(t, op)
      BY <2>2 DEF ApplyLocal, Mark, InvalidateThenMark
    <3>5. LocalOK'
      BY <1>0, <1>a, <2>0, <2>2, <3>4, LocalPost DEF Call, Final
    <3>6. QED
      BY <1>2, <3>2, <3>3, <3>4, <3>5, BaseSplit DEF Claimed, Answered, Call
  <2>3. CASE at' = [at EXCEPT ![t] = "exiting"] /\ UNCHANGED <<calls, memory, ctl, saw, goal>>
    <3>1. LocalOK'
      BY <1>0, <1>a, <2>0, <2>3, LocalMove DEF Ops, Idling
    <3>2. QED
      BY <1>2, <2>3, <3>1, BaseSplit DEF Claimed, Answered
  <2>4. CASE InvalidateThenMark(t, Settled) /\ UNCHANGED <<memory, ctl, saw>>
    <3>1. Settled \in Final \cup {"waiting"}
      BY DEF Settled, Final
    <3>2. LocalOK'
      BY <1>0, <1>a, <2>0, <2>4, <3>1, LocalPost DEF InvalidateThenMark, Call
    <3>3. QED
      BY <1>2, <2>4, <3>2, BaseSplit DEF Claimed, Answered, InvalidateThenMark, Call
  <2>5. QED
    BY <1>2, <2>1, <2>2, <2>3, <2>4 DEF Claimed
<1>3. CASE Invalidated(t)
  <2>1. LocalOK'
    BY <1>0, <1>a, <1>3, LocalMove DEF Invalidated, Answered, Call, Ops, Idling
  <2>2. QED
    BY <1>3, <2>1, BaseSplit DEF Invalidated, Answered, Call
<1>4. CASE Transitioned(t)
  <2>1. LocalOK'
    BY <1>0, <1>4, LocalLeave DEF Transitioned
  <2>2. QED
    BY <1>4, <2>1, BaseSplit DEF Transitioned, Answered, Leave
<1>5. CASE Listed(t)
  <2>1. LocalOK'
    BY <1>0, <1>a, <1>5, LocalMove DEF Listed, Answered, Ops, Idling
  <2>2. QED
    BY <1>5, <2>1, BaseSplit DEF Listed, Answered
<1>6. CASE SendExit(t)
  <2>1. LocalOK'
    <3>1. CASE at' = [at EXCEPT ![t] = "exit_sent"] /\ UNCHANGED goal
      BY <1>0, <1>a, <1>6, <3>1, LocalMove DEF SendExit, Ops, Idling
    <3>2. CASE Mark(t, "failed")
      <4>1. ctl[t] \in Controls /\ UNCHANGED <<ctl, saw>>
        BY <1>0, <1>6 DEF SendExit
      <4>2. "failed" \in Final \cup {"waiting"}
        BY DEF Final
      <4>3. QED
        BY <1>0, <1>a, <3>2, <4>1, <4>2, LocalPost DEF Mark, Call
    <3>3. QED
      BY <1>6, <3>1, <3>2 DEF SendExit
  <2>2. calls' \in Seq(Tasks) /\ exits' \in [Controls -> Nat]
    <3>1. ctl[t] \in Controls /\ exits \in [Controls -> Nat]
      BY <1>0, <1>6 DEF SendExit, BaseInv, TypeOK
    <3>2. exits' \in [Controls -> Nat]
      BY <1>6, <3>1 DEF SendExit
    <3>3. QED
      BY <1>6, <3>2 DEF SendExit, Mark, Call
  <2>3. QED
    BY <1>6, <2>1, <2>2 DEF SendExit, BaseInv, TypeOK, LocalOK, Idling, Ops, rows, world
<1>7. CASE ExitAnswered(t)
  <2>1. Settled \in Final \cup {"waiting"}
    BY DEF Settled, Final
  <2>2. \E s \in Final \cup {"waiting"}, op \in {"invalidate", "transition"} :
             goal' = [goal EXCEPT ![t] = s] /\ Call(t, op)
    BY <1>7, <2>1 DEF ExitAnswered, Mark, InvalidateThenMark, Final
  <2>3. LocalOK'
    <3>1. ctl[t] \in Controls /\ UNCHANGED <<ctl, saw>>
      BY <1>0, <1>7 DEF ExitAnswered
    <3>2. PICK s \in Final \cup {"waiting"}, op \in {"invalidate", "transition"} :
             goal' = [goal EXCEPT ![t] = s] /\ Call(t, op)
      BY <2>2
    <3>3. QED
      BY <1>0, <1>a, <3>1, <3>2, LocalPost DEF Call
  <2>4. QED
    BY <1>7, <2>2, <2>3, BaseSplit DEF ExitAnswered, Call
<1>8. CASE InvalidateFails(t)
  <2>1. LocalOK'
    BY <1>0, <1>a, <1>8, LocalPost DEF InvalidateFails, Answered, Mark, Call, Final, Ops
  <2>2. faults' \in 0 .. MaxFaults
    BY <1>8, ControlFaultsAssumption DEF InvalidateFails
  <2>3. QED
    BY <1>8, <2>1, <2>2, BaseSplit DEF InvalidateFails, Answered, Mark, Call
<1>9. QED
  BY <1>1, <1>2, <1>3, <1>4, <1>5, <1>6, <1>7, <1>8 DEF Consume

LEMMA BasePost ==
    ASSUME BaseInv, NEW h \in Handlers, NEW c \in Controls, PostControl(h, c)
    PROVE  BaseInv'
BY DEF BaseInv, TypeOK, TaskInv, rows, memory, world, PostControl, Call, Final, Idling, Ops, Tasks

(* Visiting a listed row.                                                   *)
LEMMA VisitBase ==
    ASSUME BaseInv, NEW t \in Tasks, NEW c \in Controls, Visit(t, c)
    PROVE  /\ todo' \in [Tasks -> [Controls -> Open \cup {"none"}]]
           /\ LocalOK /\ goal[t] = "none"
           /\ Take(t, c) => /\ ctl' \in [Tasks -> Controls \cup {None}] /\ ctl'[t] = c
                            /\ \A u \in Tasks \ {t} : ctl'[u] = ctl[u]
                            /\ saw' \in [Tasks -> Statuses]
<1>1. todo' \in [Tasks -> [Controls -> Open \cup {"none"}]]
  BY DEF BaseInv, TypeOK, Visit
<1>2. LocalOK /\ goal[t] = "none"
  BY LocalBase DEF Visit, IsNext, LocalOK, TaskInv, Idling
<1>3. ASSUME Take(t, c)
      PROVE  /\ ctl' \in [Tasks -> Controls \cup {None}] /\ ctl'[t] = c
             /\ \A u \in Tasks \ {t} : ctl'[u] = ctl[u]
  BY <1>2, <1>3 DEF Take, LocalOK
<1>4. todo[t][c] \in Statuses
  BY DEF Visit, IsNext, BaseInv, TypeOK, Statuses
<1>5. ASSUME Take(t, c) PROVE saw' \in [Tasks -> Statuses]
  BY <1>2, <1>4, <1>5 DEF Take, LocalOK
<1>6. QED
  BY <1>1, <1>2, <1>3, <1>5

(* Its queue, list and memory being typed, a visit keeps the base invariant. *)
LEMMA BaseSplitTodo ==
    ASSUME BaseInv, LocalOK', UNCHANGED <<rows, world, phase, exits, faults, replies>>,
           todo' \in [Tasks -> [Controls -> Open \cup {"none"}]],
           paused' \in BOOLEAN, mode' \in Modes, calls' \in Seq(Tasks)
    PROVE  BaseInv'
BY DEF BaseInv, TypeOK, LocalOK, Idling, Ops, rows, world

LEMMA BaseTimer ==
    ASSUME BaseInv, NEW c \in Controls, TimerVisits(c)
    PROVE  BaseInv'
<1>0. "timer" \in Tasks /\ Visit("timer", c)
  BY DEF Tasks, TimerVisits
<1>1. CASE Mark("timer", "completed") /\ Take("timer", c)
  <2>1. LocalOK'
    BY <1>0, <1>1, VisitBase, LocalPost DEF Mark, Call, Final
  <2>2. QED
    BY <1>0, <1>1, <2>1, VisitBase, QueueTypes, BaseSplitTodo
       DEF TimerVisits, Mark, Call, memory
<1>2. CASE UNCHANGED <<at, calls, ctl, saw, goal>>
  <2>1. LocalOK'
    BY <1>0, <1>2, VisitBase DEF LocalOK, TaskInv
  <2>2. QED
    BY <1>0, <1>2, <2>1, VisitBase, QueueTypes, BaseSplitTodo DEF TimerVisits, memory
<1>3. QED
  BY <1>1, <1>2 DEF TimerVisits

LEMMA BaseBoot ==
    ASSUME BaseInv, NEW c \in Controls, BootVisits(c)
    PROVE  BaseInv'
<1>0. /\ "boot" \in Tasks /\ Visit("boot", c) /\ Take("boot", c)
      /\ UNCHANGED <<rows, world, phase, replies, exits, faults>>
  BY DEF Tasks, BootVisits
<1>1. paused \in BOOLEAN /\ mode \in Modes
  BY DEF BaseInv, TypeOK
<1>2. paused' \in BOOLEAN
  BY <1>1 DEF BootVisits, ApplyLocal, ResumeFlatten, SetMemory, memory
<1>3. mode' \in Modes
  <2>1. Command[c].mode \in Modes
    BY CommandAssumption DEF Commands
  <2>2. QED
    BY <1>1, <2>1 DEF BootVisits, ApplyLocal, ResumeFlatten, SetMemory, memory, Modes
<1>4. \/ Call("boot", "claim") /\ UNCHANGED goal
      \/ \E s \in Final \cup {"waiting"}, op \in {"invalidate", "transition"} :
             goal' = [goal EXCEPT !["boot"] = s] /\ Call("boot", op)
  BY DEF BootVisits, RejectOrClaim, ApplyLocal, ResumeFlatten, Mark, InvalidateThenMark, Final
<1>5. CASE Call("boot", "claim") /\ UNCHANGED goal
  <2>1. LocalOK'
    <3>1. /\ ctl' \in [Tasks -> Controls \cup {None}] /\ ctl'["boot"] \in Controls
          /\ \A u \in Tasks \ {"boot"} : ctl'[u] = ctl[u]
          /\ saw' \in [Tasks -> Statuses] /\ LocalOK /\ goal["boot"] = "none"
      BY <1>0, VisitBase
    <3>2. "claim" \in Ops /\ "claim" \notin Idling
      BY DEF Ops, Idling
    <3>3. QED
      BY <1>0, <1>5, <3>1, <3>2, LocalMove DEF Call
  <2>2. QED
    BY <1>0, <1>2, <1>3, <1>5, <2>1, VisitBase, QueueTypes, BaseSplitTodo DEF Call
<1>6. CASE \E s \in Final \cup {"waiting"}, op \in {"invalidate", "transition"} :
             goal' = [goal EXCEPT !["boot"] = s] /\ Call("boot", op)
  <2>1. LocalOK'
    <3>1. PICK s \in Final \cup {"waiting"}, op \in {"invalidate", "transition"} :
             goal' = [goal EXCEPT !["boot"] = s] /\ Call("boot", op)
      BY <1>6
    <3>2. QED
      BY <1>0, <3>1, VisitBase, LocalPost DEF Call
  <2>2. QED
    BY <1>0, <1>2, <1>3, <1>6, <2>1, VisitBase, QueueTypes, BaseSplitTodo DEF Call
<1>7. QED
  BY <1>4, <1>5, <1>6

LEMMA BaseLists == BaseInv /\ Lists => BaseInv'
<1> SUFFICES ASSUME BaseInv, Lists PROVE BaseInv'
  OBVIOUS
<1> USE CommandAssumption
    DEF BaseInv, TypeOK, TaskInv, rows, memory, world, queues, Call, Mark,
        InvalidateThenMark, Final, Open, Statuses, Idling, Ops
<1>0. "boot" \in Tasks /\ "timer" \in Tasks
  BY DEF Tasks
<1>1. CASE StartTimer
  BY <1>0, <1>1 DEF StartTimer, StartList
<1>2. CASE TimerEnds
  BY <1>0, <1>2 DEF TimerEnds, NothingLeft
<1>3. CASE Restore
  <2>1. paused' \in BOOLEAN
    BY <1>3 DEF Restore, EffectivePaused
  <2>2. mode' \in Modes
    <3>1. CASE \E c \in Effective({"set_mode"}) : ~Escalates(c)
      <4>1. PICK c \in Controls : mode' = Command[c].mode
        BY <1>3, <3>1 DEF Restore, Effective, LastEffective
      <4>2. QED
        BY <4>1 DEF Commands
    <3>2. CASE ~ \E c \in Effective({"set_mode"}) : ~Escalates(c)
      BY <1>3, <3>2 DEF Restore
    <3>3. QED
      BY <3>1, <3>2
  <2>3. QED
    BY <1>0, <1>3, <2>1, <2>2 DEF Restore, StartList
<1>4. CASE BootEnds
  BY <1>0, <1>4 DEF BootEnds, NothingLeft
<1>5. ASSUME NEW c \in Controls, TimerVisits(c) PROVE BaseInv'
  BY <1>5, BaseTimer
<1>6. ASSUME NEW c \in Controls, BootVisits(c) PROVE BaseInv'
  BY <1>6, BaseBoot
<1>7. QED
  BY <1>1, <1>2, <1>3, <1>4, <1>5, <1>6 DEF Lists

LEMMA BaseRest == BaseInv /\ (AccountMoves \/ Crash \/ UNCHANGED vars) => BaseInv'
<1> SUFFICES ASSUME BaseInv, AccountMoves \/ Crash \/ UNCHANGED vars PROVE BaseInv'
  OBVIOUS
<1>1. CASE AccountMoves \/ UNCHANGED vars
  BY <1>1 DEF AccountMoves, vars, rows, memory, world, queues, locals, BaseInv, TypeOK, TaskInv
<1>2. CASE Crash
  <2>1. paused' \in BOOLEAN
    BY <1>2 DEF Crash
  <2>2. todo' \in [Tasks -> [Controls -> Open \cup {"none"}]]
    BY <1>2 DEF Crash, NoRows
  <2>3. calls' \in Seq(Tasks) /\ replies' \in Seq(Tasks)
    BY <1>2 DEF Crash
  <2>4. TypeOK'
    BY <1>2, <2>1, <2>2, <2>3, ControlFaultsAssumption, StartsAssumption
       DEF Crash, BaseInv, TypeOK, rows, AtRest, Statuses
  <2>5. TaskInv'
    BY <1>2, ControlsAssumption DEF Crash, TaskInv, AtRest, Idling, Ops
  <2>6. QED
    BY <2>4, <2>5 DEF BaseInv
<1>3. QED
  BY <1>1, <1>2

LEMMA BaseNext == BaseInv /\ [Next]_vars => BaseInv'
<1> SUFFICES ASSUME BaseInv, [Next]_vars PROVE BaseInv'
  OBVIOUS
<1>1. QED
  BY BaseWorker, BaseTasks, BasePost, BaseLists, BaseRest DEF Next

(* Every row, queue and task variable stays in its range.                   *)
THEOREM TypeCorrect == Spec => []TypeOK
<1>1. BaseInv => TypeOK
  BY DEF BaseInv
<1>2. QED
  BY BaseInit, BaseNext, <1>1, PTL DEF Spec

-----------------------------------------------------------------------------
(* A control is claimed by one task in its life, and only that one exits.   *)

(* A step that writes neither the status nor the exits and makes no sender. *)
LEMMA SendShrink ==
    ASSUME SendInv, UNCHANGED <<status, exits>>,
           \A t \in Tasks, c \in Controls : Sender(t, c)' => Sender(t, c)
    PROVE  SendInv'
BY DEF SendInv

(* A task that is not about to hear of a won claim, or to exit, is no sender;*)
(* the others keep what they had.                                           *)
LEMMA SendMove ==
    ASSUME BaseInv, SendInv, NEW t \in Tasks, NEW w,
           at' = [at EXCEPT ![t] = w],
           w # "exiting", w = "claim" => goal'[t] # "completed",
           \A u \in Tasks \ {t} : ctl'[u] = ctl[u] /\ goal'[u] = goal[u],
           UNCHANGED <<status, exits>>
    PROVE  SendInv'
<1>1. ASSUME NEW u \in Tasks, NEW c \in Controls, Sender(u, c)' PROVE Sender(u, c)
  BY <1>1 DEF Sender, BaseInv, TypeOK
<1>2. QED
  BY <1>1, SendShrink

LEMMA SendWorker == BaseInv /\ SendInv /\ Worker => SendInv'
<1> SUFFICES ASSUME BaseInv, SendInv, Worker PROVE SendInv'
  OBVIOUS
<1>0. calls # <<>> => Caller \in Tasks
  BY DEF BaseInv, TypeOK, Caller
<1>t. TypeOK
  BY DEF BaseInv
<1>1. CASE ServeSubmit
  <2>1. /\ Caller \in Tasks /\ ctl[Caller] \in Controls
        /\ UNCHANGED <<at, ctl, goal, exits>>
    BY <1>0, <1>1 DEF ServeSubmit, Serve, Caller, BaseInv, TaskInv, Ops
  <2>2. CASE status[ctl[Caller]] = "absent"
    <3>1. status' = [status EXCEPT ![ctl[Caller]] = "pending"]
      BY <1>1, <2>2 DEF ServeSubmit
    <3>2. QED
      BY <1>t, <2>1, <2>2, <3>1 DEF SendInv, Sender, TypeOK
  <2>3. CASE status[ctl[Caller]] # "absent"
    BY <1>1, <2>1, <2>3 DEF ServeSubmit, SendInv, Sender, rows
  <2>4. QED
    BY <2>2, <2>3
<1>2. CASE ServeClaim
  <2>1. /\ Caller \in Tasks /\ ctl[Caller] \in Controls /\ at[Caller] = "claim"
        /\ UNCHANGED <<at, ctl, exits>>
    BY <1>0, <1>2 DEF ServeClaim, Serve, Caller, BaseInv, TaskInv, Ops, locals
  <2>2. CASE status[ctl[Caller]] = "pending"
    <3>1. /\ status' = [status EXCEPT ![ctl[Caller]] = "applying"]
          /\ goal' = [goal EXCEPT ![Caller] = "completed"]
      BY <1>2, <2>2 DEF ServeClaim
    <3>2. ASSUME NEW u \in Tasks, NEW c \in Controls, Sender(u, c)'
          PROVE  (u = Caller /\ c = ctl[Caller]) \/ (Sender(u, c) /\ c # ctl[Caller])
      BY <1>t, <2>1, <2>2, <3>1, <3>2 DEF Sender, SendInv, TypeOK
    <3>3. QED
      BY <1>t, <2>1, <2>2, <3>1, <3>2 DEF SendInv, TypeOK
  <2>3. CASE status[ctl[Caller]] # "pending"
    <3>1. UNCHANGED status /\ goal' = [goal EXCEPT ![Caller] = "none"]
      BY <1>t, <1>2, <2>1, <2>3 DEF ServeClaim, TypeOK
    <3>2. \A u \in Tasks, c \in Controls : Sender(u, c)' => Sender(u, c)
      BY <1>t, <2>1, <3>1 DEF Sender, TypeOK
    <3>3. QED
      BY <2>1, <3>1, <3>2, SendShrink
  <2>4. QED
    BY <2>2, <2>3
<1>3. CASE ServeInvalidate
  BY <1>3, SendShrink DEF ServeInvalidate, Sender, rows, locals
<1>4. CASE ServeTransition
  <2>1. /\ Caller \in Tasks /\ ctl[Caller] \in Controls /\ goal[Caller] # "none"
        /\ UNCHANGED <<at, ctl, goal, exits>>
    BY <1>0, <1>4 DEF ServeTransition, Serve, Caller, BaseInv, TaskInv, Ops, locals
  <2>2. goal[Caller] \notin {"absent", "pending"}
    BY <1>t, <2>1 DEF TypeOK, Final
  <2>3. status' = [status EXCEPT ![ctl[Caller]] = goal[Caller]]
    BY <1>4 DEF ServeTransition
  <2>4. QED
    BY <1>t, <2>1, <2>2, <2>3 DEF SendInv, Sender, TypeOK
<1>5. CASE ServeList
  BY <1>5, SendShrink DEF ServeList, Sender, rows
<1>6. QED
  BY <1>1, <1>2, <1>3, <1>4, <1>5 DEF Worker

LEMMA SendTasks ==
    ASSUME BaseInv, SendInv, NEW t \in Tasks,
           Consume(t) \/ SendExit(t) \/ ExitAnswered(t) \/ InvalidateFails(t)
    PROVE  SendInv'
<1>t. TypeOK /\ TaskInv
  BY DEF BaseInv
<1>1. CASE Submitted(t)
  <2>1. UNCHANGED <<status, exits>> /\ goal[t] = "none"
    BY <1>1, <1>t DEF Submitted, Answered, rows, TaskInv
  <2>2. \E w \in {"idle", "next", "transition", "claim"} :
          /\ at' = [at EXCEPT ![t] = w]
          /\ w = "claim" => UNCHANGED goal
          /\ \A u \in Tasks \ {t} : ctl'[u] = ctl[u] /\ goal'[u] = goal[u]
    BY <1>1, <1>t DEF Submitted, Answered, RejectOrClaim, Leave, Mark, Call, TypeOK
  <2>3. QED
    BY <2>1, <2>2, SendMove
<1>2. CASE Claimed(t)
  <2>1. UNCHANGED <<status, exits>> /\ at[t] = "claim"
    BY <1>2 DEF Claimed, Answered, rows
  <2>2. CASE at' = [at EXCEPT ![t] = "exiting"] /\ UNCHANGED <<ctl, goal>> /\ goal[t] # "none"
    <3>1. goal[t] = "completed"
      BY <1>t, <2>1, <2>2 DEF TaskInv
    <3>2. \A u \in Tasks, c \in Controls : Sender(u, c)' => Sender(u, c)
      BY <1>t, <2>1, <2>2, <3>1 DEF Sender, TypeOK
    <3>3. QED
      BY <2>1, <3>2, SendShrink
  <2>3. CASE \E w \in {"idle", "next", "transition", "invalidate"} :
          /\ at' = [at EXCEPT ![t] = w]
          /\ \A u \in Tasks \ {t} : ctl'[u] = ctl[u] /\ goal'[u] = goal[u]
    BY <2>1, <2>3, SendMove
  <2>4. QED
    <3>1. CASE goal[t] = "none" /\ Leave(t)
      BY <1>t, <2>3, <3>1 DEF Leave, TypeOK
    <3>2. CASE ApplyLocal(t, ctl[t]) /\ UNCHANGED <<ctl, saw>>
      BY <1>t, <2>3, <3>2 DEF ApplyLocal, Mark, InvalidateThenMark, Call, TypeOK
    <3>3. CASE InvalidateThenMark(t, Settled) /\ UNCHANGED <<memory, ctl, saw>>
      BY <1>t, <2>3, <3>3 DEF InvalidateThenMark, Call, TypeOK
    <3>4. QED
      BY <1>2, <2>2, <3>1, <3>2, <3>3 DEF Claimed
<1>3. CASE Invalidated(t)
  BY <1>3, SendMove DEF Invalidated, Call, rows
<1>4. CASE Transitioned(t)
  <2>1. \E w \in {"idle", "next"} :
          /\ at' = [at EXCEPT ![t] = w]
          /\ \A u \in Tasks \ {t} : ctl'[u] = ctl[u] /\ goal'[u] = goal[u]
    BY <1>4, <1>t DEF Transitioned, Leave, TypeOK
  <2>2. QED
    BY <1>4, <2>1, SendMove DEF Transitioned, rows
<1>5. CASE Listed(t)
  BY <1>5, SendMove DEF Listed, rows
<1>6. CASE SendExit(t)
  <2>1. /\ UNCHANGED <<status, ctl>> /\ at[t] = "exiting" /\ ctl[t] \in Controls
        /\ Sender(t, ctl[t])
    BY <1>6, <1>t DEF SendExit, rows, TaskInv, Sender
  <2>2. CASE exits' = [exits EXCEPT ![ctl[t]] = @ + 1] /\ at' = [at EXCEPT ![t] = "exit_sent"] /\ UNCHANGED goal
    <3>1. ASSUME NEW u \in Tasks, NEW c \in Controls, Sender(u, c)'
          PROVE  Sender(u, c) /\ c # ctl[t]
      BY <1>t, <2>1, <2>2, <3>1 DEF Sender, SendInv, TypeOK
    <3>2. exits[ctl[t]] = 0 /\ status[ctl[t]] \notin {"absent", "pending"}
      BY <2>1 DEF SendInv
    <3>3. QED
      BY <1>t, <2>1, <2>2, <3>1, <3>2 DEF SendInv, TypeOK
  <2>3. CASE Mark(t, "failed") /\ UNCHANGED exits
    BY <1>t, <2>1, <2>3, SendMove DEF Mark, Call, TypeOK
  <2>4. QED
    BY <1>6, <2>2, <2>3 DEF SendExit
<1>7. CASE ExitAnswered(t)
  <2>1. \E w \in {"transition", "invalidate"} :
          /\ at' = [at EXCEPT ![t] = w]
          /\ \A u \in Tasks \ {t} : ctl'[u] = ctl[u] /\ goal'[u] = goal[u]
    BY <1>7, <1>t DEF ExitAnswered, Mark, InvalidateThenMark, Call, TypeOK
  <2>2. QED
    BY <1>7, <2>1, SendMove DEF ExitAnswered, rows
<1>8. CASE InvalidateFails(t)
  <2>1. /\ at' = [at EXCEPT ![t] = "transition"]
        /\ \A u \in Tasks \ {t} : ctl'[u] = ctl[u] /\ goal'[u] = goal[u]
    BY <1>8, <1>t DEF InvalidateFails, Mark, Call, TypeOK
  <2>2. QED
    BY <1>8, <2>1, SendMove DEF InvalidateFails, rows
<1>9. QED
  BY <1>1, <1>2, <1>3, <1>4, <1>5, <1>6, <1>7, <1>8 DEF Consume

LEMMA SendOthers ==
    ASSUME BaseInv, SendInv,
           \/ \E h \in Handlers, c \in Controls : PostControl(h, c)
           \/ Lists \/ AccountMoves \/ Crash \/ UNCHANGED vars
    PROVE  SendInv'
<1>t. TypeOK /\ TaskInv /\ "boot" \in Tasks /\ "timer" \in Tasks
  BY DEF BaseInv, Tasks
<1>1. ASSUME NEW h \in Handlers, NEW c \in Controls, PostControl(h, c) PROVE SendInv'
  <2>1. h \in Tasks
    BY DEF Tasks
  <2>2. QED
    BY <1>t, <1>1, <2>1, SendMove DEF PostControl, Call, rows, TypeOK
<1>2. CASE StartTimer
  BY <1>t, <1>2, SendMove DEF StartTimer, StartList, Call, rows
<1>3. CASE TimerEnds
  BY <1>t, <1>3, SendMove DEF TimerEnds, rows
<1>4. CASE Restore
  BY <1>t, <1>4, SendMove DEF Restore, StartList, Call, rows
<1>5. CASE BootEnds
  BY <1>t, <1>5, SendMove DEF BootEnds, rows
<1>6. ASSUME NEW c \in Controls, TimerVisits(c) PROVE SendInv'
  <2>1. CASE Mark("timer", "completed") /\ Take("timer", c)
    BY <1>t, <1>6, <2>1, SendMove DEF TimerVisits, Mark, Call, Take, rows, TypeOK
  <2>2. CASE UNCHANGED <<at, calls, ctl, saw, goal>>
    BY <1>6, <2>2, SendShrink DEF TimerVisits, rows, Sender
  <2>3. QED
    BY <1>6, <2>1, <2>2 DEF TimerVisits
<1>7. ASSUME NEW c \in Controls, BootVisits(c) PROVE SendInv'
  <2>1. UNCHANGED <<status, exits>> /\ Take("boot", c) /\ goal["boot"] = "none"
    BY <1>7, <1>t DEF BootVisits, rows, Visit, IsNext, TaskInv, Idling
  <2>2. \E w \in {"transition", "claim", "invalidate"} :
          /\ at' = [at EXCEPT !["boot"] = w]
          /\ w = "claim" => UNCHANGED goal
          /\ \A u \in Tasks \ {"boot"} : goal'[u] = goal[u]
    BY <1>7, <1>t DEF BootVisits, RejectOrClaim, ApplyLocal, ResumeFlatten, Mark,
                      InvalidateThenMark, Call, TypeOK
  <2>3. \A u \in Tasks \ {"boot"} : ctl'[u] = ctl[u]
    BY <1>t, <2>1 DEF Take, TypeOK
  <2>4. QED
    BY <1>t, <2>1, <2>2, <2>3, SendMove
<1>8. CASE AccountMoves \/ UNCHANGED vars
  BY <1>8, SendShrink DEF AccountMoves, vars, rows, locals, Sender
<1>9. CASE Crash
  <2>1. UNCHANGED <<status, exits>> /\ \A t \in Tasks : at'[t] \in Idling
    BY <1>9 DEF Crash, AtRest, rows, Idling
  <2>2. \A t \in Tasks, c \in Controls : ~Sender(t, c)'
    BY <2>1 DEF Sender, Idling
  <2>3. QED
    BY <2>1, <2>2, SendShrink
<1>10. QED
  BY <1>1, <1>2, <1>3, <1>4, <1>5, <1>6, <1>7, <1>8, <1>9 DEF Lists

LEMMA SendInit == Init => SendInv
<1> SUFFICES ASSUME Init PROVE SendInv
  OBVIOUS
<1>1. \A t \in Tasks : at[t] \in Idling
  BY DEF Init, AtRest, Idling
<1>2. \A t \in Tasks, c \in Controls : ~Sender(t, c)
  BY <1>1 DEF Sender, Idling
<1>3. \A c \in Controls : exits[c] = 0
  BY DEF Init
<1>4. ASSUME NEW c \in Controls PROVE exits[c] <= 1
  <2>1. exits[c] = 0
    BY <1>3
  <2>2. QED
    BY <2>1, SMT
<1>5. QED
  BY <1>2, <1>3, <1>4, Zenon DEF SendInv

LEMMA SendNext == BaseInv /\ SendInv /\ [Next]_vars => SendInv'
BY SendWorker, SendTasks, SendOthers DEF Next

(* However often a flatten is posted and whatever interrupts it, one EXIT.  *)
THEOREM OneExit == Spec => []ExitAtMostOnce
<1>1. BaseInv /\ SendInv => ExitAtMostOnce
  BY DEF SendInv, ExitAtMostOnce
<1>2. QED
  BY BaseInit, BaseNext, SendInit, SendNext, <1>1, PTL DEF Spec

-----------------------------------------------------------------------------
(* No task sets armed in memory without looking at the startup mode.        *)
LEMMA ArmedNext == NeverArmedBeyondStart /\ [Next]_vars => NeverArmedBeyondStart'
<1> SUFFICES ASSUME NeverArmedBeyondStart, [Next]_vars PROVE NeverArmedBeyondStart'
  OBVIOUS
<1>1. ASSUME UNCHANGED <<mode, config>> PROVE NeverArmedBeyondStart'
  BY <1>1 DEF NeverArmedBeyondStart
<1>2. ASSUME NEW t, NEW c, ApplyLocal(t, c), UNCHANGED config PROVE NeverArmedBeyondStart'
  BY <1>2 DEF ApplyLocal, SetMemory, Escalates, NeverArmedBeyondStart, memory
<1>3. CASE Worker
  BY <1>1, <1>3 DEF Worker, ServeSubmit, ServeClaim, ServeInvalidate, ServeTransition,
                    ServeList, memory, world
<1>4. ASSUME NEW t \in Tasks, Claimed(t) PROVE NeverArmedBeyondStart'
  BY <1>1, <1>2, <1>4 DEF Claimed, memory, world
<1>5. ASSUME NEW t \in Tasks,
             \/ Submitted(t) \/ Invalidated(t) \/ Transitioned(t) \/ Listed(t)
             \/ SendExit(t) \/ ExitAnswered(t) \/ InvalidateFails(t)
      PROVE  NeverArmedBeyondStart'
  BY <1>1, <1>5 DEF Submitted, Invalidated, Transitioned, Listed, SendExit, ExitAnswered,
                    InvalidateFails, memory, world
<1>6. CASE StartTimer \/ TimerEnds \/ BootEnds \/ AccountMoves \/ UNCHANGED vars
  BY <1>1, <1>6 DEF StartTimer, TimerEnds, BootEnds, AccountMoves, StartList, vars,
                    memory, world
<1>7. CASE Restore
  BY <1>7 DEF Restore, StartList, Escalates, NeverArmedBeyondStart, world
<1>8. ASSUME NEW c \in Controls, TimerVisits(c) PROVE NeverArmedBeyondStart'
  BY <1>1, <1>8 DEF TimerVisits, memory, world
<1>9. ASSUME NEW c \in Controls, BootVisits(c) PROVE NeverArmedBeyondStart'
  <2>1. UNCHANGED config
    BY <1>9 DEF BootVisits, world
  <2>2. CASE ApplyLocal("boot", c)
    BY <1>2, <2>1, <2>2
  <2>3. CASE ResumeFlatten(c)
    BY <1>1, <2>1, <2>3 DEF ResumeFlatten, NeverArmedBeyondStart, memory
  <2>4. QED
    BY <1>1, <1>9, <2>1, <2>2, <2>3 DEF BootVisits, memory
<1>10. CASE \E h \in Handlers, c \in Controls : PostControl(h, c)
  BY <1>1, <1>10 DEF PostControl, memory, world
<1>11. CASE Crash
  BY <1>11 DEF Crash, NeverArmedBeyondStart
<1>12. QED
  BY <1>3, <1>4, <1>5, <1>6, <1>7, <1>8, <1>9, <1>10, <1>11 DEF Next, Consume, Lists

(* No sequence of commands and restarts arms a gateway not started armed.   *)
THEOREM NeverArmed == Spec => []NeverArmedBeyondStart
<1>1. Init => NeverArmedBeyondStart
  BY DEF Init, NeverArmedBeyondStart
<1>2. QED
  BY <1>1, ArmedNext, PTL DEF Spec

-----------------------------------------------------------------------------
(***************************************************************************)
(* The decision of a command is final.  Only the task that won the claim   *)
(* writes one, and it is served once: a task is in the worker's queue or   *)
(* in that of the answers, never twice.  While the gateway starts, nobody  *)
(* but boot takes such a command, and boot takes each that it listed once. *)
(***************************************************************************)
(* A queue holds a task at most once.                                       *)
Waits(q, t) == \E i \in 1 .. Len(q) : q[i] = t
OneEach(q)  == \A i, j \in 1 .. Len(q) : q[i] = q[j] => i = j

Queued(t)   == Waits(calls, t) \/ Waits(replies, t)

OneQueue ==
    /\ OneEach(calls) /\ OneEach(replies)
    /\ \A t \in Tasks : ~(Waits(calls, t) /\ Waits(replies, t))

QueueInv ==
    /\ OneQueue
    /\ \A t \in Tasks : /\ Queued(t) => at[t] \in Ops
                        /\ Waits(calls, t) /\ at[t] = "claim" => goal[t] = "none"

(* Commands without a contract that are not flattens, and the task that has  *)
(* won the claim of one and has not had its decision written.               *)
Simple == {c \in Controls : Action(c) # "flatten" /\ Scope(c) = "all"}

Decider(t, c) ==
    /\ t \in Tasks /\ ctl[t] = c
    /\ \/ at[t] = "claim" /\ goal[t] # "none"
       \/ at[t] = "invalidate"
       \/ at[t] = "transition" /\ Waits(calls, t)

(* Who can be at what: the gateway listens once boot is done, the timer only *)
(* takes flattens, and a flatten alone exits or waits.                      *)
RoleInv ==
    /\ phase = "starting" => \A h \in Handlers : at[h] = "idle"
    /\ phase = "ready" => at["boot"] = "idle"
    /\ at["boot"] \in {"restore", "list", "next"} => ctl["boot"] = None
    /\ ctl["timer"] \notin Simple
    /\ \A c \in Simple : /\ todo["timer"][c] = "none" /\ todo["boot"][c] # "waiting"
                         /\ status[c] # "waiting"
    /\ \A t \in Tasks : at[t] \in {"exiting", "exit_sent"} \/ goal[t] = "waiting" => ctl[t] \notin Simple

DecideInv ==
    \A c \in Simple :
      /\ \A t \in Tasks : Decider(t, c) => status[c] = "applying"
      /\ \A t, u \in Tasks : Decider(t, c) /\ Decider(u, c) => t = u
      /\ phase = "starting" /\ ctl["boot"] = c => todo["boot"][c] = "none"
      /\ phase = "starting" /\ todo["boot"][c] = "applying" => status[c] = "applying"

Deciding == QueueInv /\ RoleInv /\ DecideInv

-----------------------------------------------------------------------------
LEMMA Popped ==
    ASSUME NEW q \in Seq(Tasks), q # <<>>, OneEach(q)
    PROVE  /\ Head(q) \in Tasks /\ Waits(q, Head(q))
           /\ Tail(q) \in Seq(Tasks) /\ OneEach(Tail(q))
           /\ \A t \in Tasks : Waits(Tail(q), t) <=> Waits(q, t) /\ t # Head(q)
<1>1. Head(q) = q[1] /\ Len(q) \in Nat \ {0} /\ Tail(q) \in Seq(Tasks) /\ Len(Tail(q)) = Len(q) - 1
  OBVIOUS
<1>2. \A i \in 1 .. Len(q) - 1 : Tail(q)[i] = q[i + 1]
  OBVIOUS
<1>3. OneEach(Tail(q))
  BY <1>1, <1>2 DEF OneEach
<1>4. ASSUME NEW t \in Tasks PROVE Waits(Tail(q), t) <=> Waits(q, t) /\ t # Head(q)
  <2>1. Waits(Tail(q), t) => Waits(q, t) /\ t # Head(q)
    BY <1>1, <1>2 DEF Waits, OneEach
  <2>2. ASSUME Waits(q, t), t # Head(q) PROVE Waits(Tail(q), t)
    <3>1. PICK i \in 1 .. Len(q) : q[i] = t
      BY <2>2 DEF Waits
    <3>2. i - 1 \in 1 .. Len(q) - 1
      BY <1>1, <2>2, <3>1
    <3>3. Tail(q)[i - 1] = t
      BY <1>2, <3>1, <3>2
    <3>4. QED BY <1>1, <3>2, <3>3 DEF Waits
  <2>3. QED BY <2>1, <2>2
<1>5. QED BY <1>1, <1>3, <1>4 DEF Waits

LEMMA Pushed ==
    ASSUME NEW q \in Seq(Tasks), OneEach(q), NEW t \in Tasks, ~Waits(q, t)
    PROVE  /\ Append(q, t) \in Seq(Tasks) /\ OneEach(Append(q, t))
           /\ \A u \in Tasks : Waits(Append(q, t), u) <=> Waits(q, u) \/ u = t
<1> DEFINE p == Append(q, t)
<1>1. p \in Seq(Tasks) /\ Len(p) = Len(q) + 1 /\ p[Len(q) + 1] = t /\ Len(q) \in Nat
  OBVIOUS
<1>2. \A i \in 1 .. Len(q) : p[i] = q[i]
  OBVIOUS
<1> HIDE DEF p
<1>3. OneEach(p)
  BY <1>1, <1>2 DEF OneEach, Waits
<1>4. \A u \in Tasks : Waits(p, u) <=> Waits(q, u) \/ u = t
  BY <1>1, <1>2 DEF Waits
<1>5. QED BY <1>1, <1>3, <1>4 DEF p

(* What an answered call, a consumed answer and a posted call do to the     *)
(* queues: a task is in one of them, once, or in neither.                   *)
LEMMA ServedQueue ==
    ASSUME TypeOK, OneQueue, NEW op, Serve(op)
    PROVE  /\ Caller \in Tasks /\ Waits(calls, Caller) /\ OneQueue'
           /\ \A t \in Tasks : /\ Waits(calls', t) <=> Waits(calls, t) /\ t # Caller
                               /\ Waits(replies', t) <=> Waits(replies, t) \/ t = Caller
<1>1. calls \in Seq(Tasks) /\ replies \in Seq(Tasks) /\ calls # <<>>
  BY DEF TypeOK, Serve
<1>2. calls' = Tail(calls) /\ replies' = Append(replies, Head(calls)) /\ Caller = Head(calls)
  BY DEF Serve, Caller
<1>3. Head(calls) \in Tasks /\ Waits(calls, Head(calls)) /\ OneEach(calls')
      /\ \A t \in Tasks : Waits(calls', t) <=> Waits(calls, t) /\ t # Head(calls)
  BY <1>1, <1>2, Popped DEF OneQueue
<1>4. ~Waits(replies, Head(calls))
  BY <1>3 DEF OneQueue
<1>5. OneEach(replies') /\ \A t \in Tasks : Waits(replies', t) <=> Waits(replies, t) \/ t = Head(calls)
  BY <1>1, <1>2, <1>3, <1>4, Pushed DEF OneQueue
<1>6. QED BY <1>2, <1>3, <1>5 DEF OneQueue

LEMMA HeardQueue ==
    ASSUME TypeOK, OneQueue, NEW t \in Tasks, NEW op, Answered(t, op),
           calls' \in {calls, Append(calls, t)}
    PROVE  /\ Waits(replies, t) /\ ~Waits(calls, t) /\ OneQueue'
           /\ Waits(calls', t) <=> calls' = Append(calls, t)
           /\ ~Waits(replies', t)
           /\ \A u \in Tasks \ {t} : /\ Waits(calls', u) <=> Waits(calls, u)
                                     /\ Waits(replies', u) <=> Waits(replies, u)
<1>1. calls \in Seq(Tasks) /\ replies \in Seq(Tasks) /\ replies # <<>> /\ t = Head(replies)
      /\ replies' = Tail(replies)
  BY DEF TypeOK, Answered
<1>2. Waits(replies, t) /\ OneEach(replies')
      /\ \A u \in Tasks : Waits(replies', u) <=> Waits(replies, u) /\ u # t
  BY <1>1, Popped DEF OneQueue
<1>3. ~Waits(calls, t)
  BY <1>2 DEF OneQueue
<1>4. CASE calls' = calls
  <2>1. Append(calls, t) # calls
    <3>1. Len(Append(calls, t)) = Len(calls) + 1 /\ Len(calls) \in Nat
      BY <1>1
    <3>2. QED BY <3>1
  <2>2. QED BY <1>2, <1>3, <1>4, <2>1 DEF OneQueue
<1>5. CASE calls' = Append(calls, t)
  <2>1. OneEach(calls') /\ \A u \in Tasks : Waits(calls', u) <=> Waits(calls, u) \/ u = t
    BY <1>1, <1>3, <1>5, Pushed DEF OneQueue
  <2>2. QED BY <1>2, <1>3, <1>5, <2>1 DEF OneQueue
<1>6. QED BY <1>4, <1>5

LEMMA PostedQueue ==
    ASSUME TypeOK, OneQueue, NEW t \in Tasks, ~Queued(t),
           calls' = Append(calls, t), UNCHANGED replies
    PROVE  /\ OneQueue' /\ Waits(calls', t)
           /\ \A u \in Tasks \ {t} : Waits(calls', u) <=> Waits(calls, u)
<1>1. calls \in Seq(Tasks)
  BY DEF TypeOK
<1>2. QED BY <1>1, Pushed DEF OneQueue, Queued

-----------------------------------------------------------------------------
(* A step of one task that writes neither a row nor a list: it settles      *)
(* nothing it had not won before.                                           *)
Goes(t, w, g, k) ==
    /\ at' = [at EXCEPT ![t] = w] /\ goal' = [goal EXCEPT ![t] = g] /\ ctl' = [ctl EXCEPT ![t] = k]

LEMMA TaskKeeps ==
    ASSUME TypeOK, Deciding, NEW t \in Tasks, NEW w, NEW g, NEW k, Goes(t, w, g, k),
           UNCHANGED <<status, todo, phase>>, OneQueue',
           \A u \in Tasks \ {t} : /\ Waits(calls', u) <=> Waits(calls, u)
                                  /\ Waits(replies', u) <=> Waits(replies, u),
           Waits(calls', t) \/ Waits(replies', t) => w \in Ops,
           Waits(calls', t) /\ w = "claim" => g = "none",
           \A c \in Simple : k = c /\ ((w = "claim" /\ g # "none") \/ w = "invalidate"
                                      \/ (w = "transition" /\ Waits(calls', t))) => Decider(t, c),
           phase = "starting" /\ t \in Handlers => w = "idle",
           phase = "ready" /\ t = "boot" => w = "idle",
           t = "boot" /\ w \in {"restore", "list", "next"} => k = None,
           k \in {ctl[t], None},
           w \in {"exiting", "exit_sent"} \/ g = "waiting" => k \notin Simple
    PROVE  Deciding'
<1>1. /\ at \in [Tasks -> {"restore", "idle", "next", "submit", "claim", "invalidate",
                           "transition", "list", "exiting", "exit_sent"}]
      /\ goal \in [Tasks -> Final \cup {"none", "waiting"}] /\ ctl \in [Tasks -> Controls \cup {None}]
  BY DEF TypeOK
<1>2. /\ at'[t] = w /\ goal'[t] = g /\ ctl'[t] = k
      /\ \A u \in Tasks \ {t} : at'[u] = at[u] /\ goal'[u] = goal[u] /\ ctl'[u] = ctl[u]
  BY <1>1 DEF Goes
<1>3. None \notin Simple /\ "boot" \in Tasks /\ "timer" \in Tasks /\ Handlers \subseteq Tasks
  BY ControlsAssumption DEF Simple, Tasks
<1>4. QueueInv'
  BY <1>2 DEF Deciding, QueueInv, Queued
<1>5. RoleInv'
  BY <1>2, <1>3 DEF Deciding, RoleInv, Simple
<1>6. DecideInv'
  <2>1. ASSUME NEW u \in Tasks, NEW c \in Simple, Decider(u, c)' PROVE Decider(u, c)
    BY <1>2, <2>1 DEF Decider
  <2>2. ctl'["boot"] \in {ctl["boot"], None}
    BY <1>2, <1>3
  <2>3. QED BY <1>3, <2>1, <2>2 DEF Deciding, DecideInv, Simple
<1>7. QED BY <1>4, <1>5, <1>6 DEF Deciding

LEMMA TasksDecide ==
    ASSUME BaseInv, Deciding, NEW t \in Tasks,
           Consume(t) \/ SendExit(t) \/ ExitAnswered(t) \/ InvalidateFails(t)
    PROVE  Deciding'
<1>t. TypeOK /\ TaskInv /\ OneQueue
  BY DEF BaseInv, Deciding, QueueInv
<1>p. /\ phase = "starting" /\ t \in Handlers => at[t] = "idle"
      /\ phase = "ready" /\ t = "boot" => at[t] = "idle"
      /\ t = "boot" /\ at[t] = "list" => ctl[t] = None
      /\ at[t] \in {"exiting", "exit_sent"} \/ goal[t] = "waiting" => ctl[t] \notin Simple
      /\ None \notin Simple
  BY <1>t, ControlsAssumption DEF Deciding, RoleInv, Simple
<1>f. /\ at = [at EXCEPT ![t] = at[t]] /\ goal = [goal EXCEPT ![t] = goal[t]]
      /\ ctl = [ctl EXCEPT ![t] = ctl[t]]
  BY <1>t DEF TypeOK
<1>1. ASSUME NEW op, Answered(t, op), Leave(t), UNCHANGED <<status, todo, phase>>, op # "idle"
      PROVE  Deciding'
  <2>1. PICK w \in {"idle", "next"} : Goes(t, w, "none", None) /\ (t \in Handlers => w = "idle")
    BY <1>1 DEF Leave, Goes
  <2>2. calls' = calls /\ at[t] = op
    BY <1>1 DEF Leave, Answered
  <2>3. ~Waits(calls', t) /\ ~Waits(replies', t) /\ OneQueue'
        /\ \A u \in Tasks \ {t} : /\ Waits(calls', u) <=> Waits(calls, u)
                                  /\ Waits(replies', u) <=> Waits(replies, u)
    <3>1. /\ ~Waits(calls, t) /\ ~Waits(replies', t) /\ OneQueue'
          /\ \A u \in Tasks \ {t} : /\ Waits(calls', u) <=> Waits(calls, u)
                                    /\ Waits(replies', u) <=> Waits(replies, u)
      BY <1>t, <1>1, <2>2, HeardQueue
    <3>2. QED BY <2>2, <3>1
  <2>4. QED BY <1>t, <1>p, <1>1, <2>1, <2>2, <2>3, TaskKeeps
<1>2. ASSUME NEW op \in Ops, NEW w \in Ops, NEW g, Answered(t, op), Call(t, w), goal' = [goal EXCEPT ![t] = g],
             UNCHANGED <<status, todo, phase, ctl>>, w # "list",
             w = "claim" => g = "none",
             g = "waiting" => ctl[t] \notin Simple,
             \A c \in Simple : ctl[t] = c /\ w \in {"invalidate", "transition"} => Decider(t, c)
      PROVE  Deciding'
  <2>1. Goes(t, w, g, ctl[t])
    BY <1>2, <1>f DEF Goes, Call
  <2>2. calls' = Append(calls, t) /\ at[t] = op
    BY <1>2 DEF Call, Answered
  <2>3. ~Waits(replies', t) /\ OneQueue'
        /\ \A u \in Tasks \ {t} : /\ Waits(calls', u) <=> Waits(calls, u)
                                  /\ Waits(replies', u) <=> Waits(replies, u)
    BY <1>t, <1>2, <2>2, HeardQueue
  <2>4. QED BY <1>t, <1>p, <1>2, <2>1, <2>2, <2>3, TaskKeeps DEF Ops
<1>3. CASE Submitted(t)
  <2>1. Answered(t, "submit") /\ UNCHANGED <<status, todo, phase>> /\ goal[t] = "none" /\ ctl[t] \in Controls
    BY <1>t, <1>3 DEF Submitted, Answered, rows, TaskInv, Ops
  <2>2. CASE Leave(t)
    BY <1>1, <2>1, <2>2
  <2>3. CASE RejectOrClaim(t, ctl[t]) /\ UNCHANGED ctl
    <3>1. CASE OutOfScope(ctl[t]) /\ Mark(t, "rejected")
      <4>1. ctl[t] \notin Simple
        BY <3>1 DEF Simple, OutOfScope
      <4>2. QED BY <1>2, <2>1, <2>3, <3>1, <4>1 DEF Mark, Ops
    <3>2. CASE Call(t, "claim") /\ UNCHANGED goal
      BY <1>2, <1>f, <2>1, <2>3, <3>2 DEF Ops
    <3>3. QED BY <2>3, <3>1, <3>2 DEF RejectOrClaim
  <2>4. QED BY <1>3, <2>2, <2>3 DEF Submitted
<1>4. CASE Claimed(t)
  <2>1. Answered(t, "claim") /\ at[t] = "claim" /\ UNCHANGED <<status, todo, phase>>
    BY <1>4 DEF Claimed, Answered, rows
  <2>2. CASE goal[t] = "none" /\ Leave(t)
    BY <1>1, <2>1, <2>2
  <2>3. ASSUME goal[t] # "none" PROVE \A c \in Simple : ctl[t] = c => Decider(t, c)
    BY <2>1, <2>3 DEF Decider
  <2>4. CASE goal[t] # "none" /\ ApplyLocal(t, ctl[t]) /\ UNCHANGED ctl
    <3>1. CASE Mark(t, "rejected")
      BY <1>2, <2>1, <2>3, <2>4, <3>1 DEF Mark, Ops
    <3>2. CASE InvalidateThenMark(t, "completed")
      BY <1>2, <2>1, <2>3, <2>4, <3>2 DEF InvalidateThenMark, Ops
    <3>3. QED BY <2>4, <3>1, <3>2 DEF ApplyLocal
  <2>5. CASE /\ Action(ctl[t]) = "flatten" /\ at' = [at EXCEPT ![t] = "exiting"]
             /\ UNCHANGED <<calls, ctl, goal>>
    <3>1. Goes(t, "exiting", goal[t], ctl[t]) /\ ctl[t] \notin Simple
      BY <1>f, <2>5 DEF Goes, Simple
    <3>2. OneQueue' /\ ~Waits(calls, t) /\ ~Waits(replies', t)
          /\ \A u \in Tasks \ {t} : /\ Waits(calls', u) <=> Waits(calls, u)
                                    /\ Waits(replies', u) <=> Waits(replies, u)
      BY <1>t, <2>1, <2>5, HeardQueue
    <3>3. QED BY <1>t, <1>p, <2>1, <2>5, <3>1, <3>2, TaskKeeps
  <2>6. CASE Action(ctl[t]) = "flatten" /\ InvalidateThenMark(t, Settled) /\ UNCHANGED ctl
    <3>1. ctl[t] \notin Simple
      BY <2>6 DEF Simple
    <3>2. QED BY <1>2, <2>1, <2>6, <3>1 DEF InvalidateThenMark, Ops
  <2>7. QED BY <1>4, <2>2, <2>4, <2>5, <2>6 DEF Claimed
<1>5. CASE Invalidated(t)
  <2>1. Answered(t, "invalidate") /\ at[t] = "invalidate" /\ Call(t, "transition")
        /\ UNCHANGED <<status, todo, phase, ctl, goal>>
    BY <1>5 DEF Invalidated, Answered, rows
  <2>2. \A c \in Simple : ctl[t] = c => Decider(t, c)
    BY <2>1 DEF Decider
  <2>3. QED BY <1>2, <1>f, <1>p, <2>1, <2>2 DEF Ops
<1>6. CASE InvalidateFails(t)
  <2>1. Answered(t, "invalidate") /\ at[t] = "invalidate" /\ Mark(t, "failed")
        /\ UNCHANGED <<status, todo, phase, ctl>>
    BY <1>6 DEF InvalidateFails, Answered, rows
  <2>2. \A c \in Simple : ctl[t] = c => Decider(t, c)
    BY <2>1 DEF Decider
  <2>3. QED BY <1>2, <2>1, <2>2 DEF Mark, Ops
<1>7. CASE Transitioned(t)
  BY <1>1, <1>7 DEF Transitioned, rows
<1>8. CASE Listed(t)
  <2>1. Answered(t, "list") /\ at[t] = "list" /\ Goes(t, "next", goal[t], ctl[t])
        /\ UNCHANGED <<status, todo, phase, calls>>
    BY <1>f, <1>8 DEF Listed, Answered, rows, Goes
  <2>2. OneQueue' /\ ~Waits(calls, t) /\ ~Waits(replies', t)
        /\ \A u \in Tasks \ {t} : /\ Waits(calls', u) <=> Waits(calls, u)
                                  /\ Waits(replies', u) <=> Waits(replies, u)
    BY <1>t, <2>1, HeardQueue
  <2>3. QED BY <1>t, <1>p, <2>1, <2>2, TaskKeeps
<1>9. CASE SendExit(t) \/ ExitAnswered(t)
  <2>1. at[t] \in {"exiting", "exit_sent"} /\ ctl[t] \notin Simple /\ ~Queued(t)
        /\ UNCHANGED <<status, todo, phase, ctl, replies>>
    BY <1>9, <1>p DEF SendExit, ExitAnswered, rows, Deciding, QueueInv, Ops
  <2>2. CASE /\ at' = [at EXCEPT ![t] = "exit_sent"] /\ UNCHANGED <<calls, goal>>
    <3>1. Goes(t, "exit_sent", goal[t], ctl[t])
      BY <1>f, <2>1, <2>2 DEF Goes
    <3>2. QED BY <1>t, <1>p, <2>1, <2>2, <3>1, TaskKeeps DEF OneQueue, Queued
  <2>3. ASSUME NEW w \in {"invalidate", "transition"}, NEW g, Call(t, w), goal' = [goal EXCEPT ![t] = g]
        PROVE  Deciding'
    <3>1. Goes(t, w, g, ctl[t]) /\ calls' = Append(calls, t)
      BY <1>f, <2>1, <2>3 DEF Goes, Call
    <3>2. OneQueue' /\ \A u \in Tasks \ {t} : Waits(calls', u) <=> Waits(calls, u)
      BY <1>t, <2>1, <3>1, PostedQueue
    <3>3. QED BY <1>t, <1>p, <2>1, <3>1, <3>2, TaskKeeps DEF Ops
  <2>4. QED
    BY <1>9, <2>2, <2>3 DEF SendExit, ExitAnswered, Mark, InvalidateThenMark
<1>10. QED
  BY <1>3, <1>4, <1>5, <1>6, <1>7, <1>8, <1>9 DEF Consume

-----------------------------------------------------------------------------
(* What the worker writes: a decision only for the task that won the claim. *)
Decides(c) == status[c] \in Final => status'[c] = status[c]

LEMMA WorkerDecides ==
    ASSUME BaseInv, Deciding, Worker
    PROVE  Deciding' /\ \A c \in Simple : Decides(c)
<1>t. TypeOK /\ TaskInv /\ OneQueue
  BY DEF BaseInv, Deciding, QueueInv
<1>0. PICK op : Serve(op)
  BY DEF Worker, ServeSubmit, ServeClaim, ServeInvalidate, ServeTransition, ServeList
<1>1. /\ Caller \in Tasks /\ Waits(calls, Caller) /\ OneQueue'
      /\ \A t \in Tasks : /\ Waits(calls', t) <=> Waits(calls, t) /\ t # Caller
                          /\ Waits(replies', t) <=> Waits(replies, t) \/ t = Caller
  BY <1>t, <1>0, ServedQueue
<1>2. at' = at /\ ctl' = ctl /\ phase' = phase
  BY DEF Worker, ServeSubmit, ServeClaim, ServeInvalidate, ServeTransition, ServeList, locals
<1>3. at[Caller] \in Ops /\ (at[Caller] \in {"submit", "claim", "invalidate", "transition"} => ctl[Caller] \in Controls)
  BY <1>1, <1>t DEF Deciding, QueueInv, Queued, TaskInv, Ops
\* The caller is the handler of a listening gateway, boot or the timer.
<1>4. /\ phase = "starting" => Caller \in {"boot", "timer"}
      /\ Caller = "timer" => ctl[Caller] \notin Simple
  BY <1>1, <1>3 DEF Deciding, RoleInv, Tasks, Ops
<1> DEFINE d == ctl[Caller]
\* A step that leaves every goal, row and list of a simple command alone.
<1>5. ASSUME UNCHANGED goal, \A c \in Simple : status'[c] = status[c],
             \A c \in Simple : todo'["boot"][c] = todo["boot"][c] /\ todo'["timer"][c] = todo["timer"][c]
      PROVE  Deciding' /\ \A c \in Simple : Decides(c)
  <2>1. QueueInv'
    BY <1>1, <1>2, <1>3, <1>5 DEF Deciding, QueueInv, Queued
  <2>2. RoleInv'
    BY <1>2, <1>5 DEF Deciding, RoleInv
  <2>3. \A u \in Tasks, c \in Simple : Decider(u, c)' => Decider(u, c)
    BY <1>1, <1>2, <1>5 DEF Decider
  <2>4. DecideInv'
    BY <1>2, <1>5, <2>3 DEF Deciding, DecideInv
  <2>5. QED BY <1>5, <2>1, <2>2, <2>4 DEF Deciding, Decides
<1>6. CASE ServeSubmit
  <2>1. UNCHANGED <<goal, todo>> /\ at[Caller] = "submit" /\ d \in Controls
    BY <1>3, <1>6 DEF ServeSubmit, Serve, Caller
  <2>2. CASE status[d] # "absent"
    BY <1>5, <1>6, <2>1, <2>2 DEF ServeSubmit, rows
  <2>3. CASE status[d] = "absent"
    <3>1. status' = [status EXCEPT ![d] = "pending"]
      BY <1>6, <2>3 DEF ServeSubmit
    <3>2. QueueInv'
      BY <1>1, <1>2, <1>3, <2>1 DEF Deciding, QueueInv, Queued
    <3>3. RoleInv'
      BY <1>t, <1>2, <2>1, <3>1 DEF Deciding, RoleInv, Simple, TypeOK
    <3>4. \A u \in Tasks, c \in Simple : Decider(u, c)' => Decider(u, c)
      BY <1>1, <1>2, <2>1 DEF Decider
    <3>5. DecideInv'
      BY <1>t, <1>2, <2>1, <2>3, <3>1, <3>4 DEF Deciding, DecideInv, Simple, TypeOK
    <3>6. QED BY <1>t, <2>3, <3>1, <3>2, <3>3, <3>5 DEF Deciding, Decides, Final, TypeOK, Simple
  <2>4. QED BY <2>2, <2>3
<1>7. CASE ServeClaim
  <2>1. UNCHANGED todo /\ at[Caller] = "claim" /\ d \in Controls /\ goal[Caller] = "none"
    BY <1>1, <1>3, <1>7 DEF ServeClaim, Serve, Caller, Deciding, QueueInv
  <2>2. CASE status[d] # "pending"
    <3>1. goal' = goal /\ status' = status
      BY <1>t, <1>7, <2>1, <2>2 DEF ServeClaim, TypeOK, Caller
    <3>2. QED BY <1>5, <2>1, <3>1
  <2>3. CASE status[d] = "pending"
    <3>1. status' = [status EXCEPT ![d] = "applying"] /\ goal' = [goal EXCEPT ![Caller] = "completed"]
      BY <1>7, <2>3 DEF ServeClaim
    <3>2. QueueInv'
      BY <1>t, <1>1, <1>2, <1>3, <2>1, <3>1 DEF Deciding, QueueInv, Queued, TypeOK
    <3>3. RoleInv'
      BY <1>t, <1>2, <2>1, <3>1 DEF Deciding, RoleInv, Simple, TypeOK
    <3>4. \A u \in Tasks, c \in Simple : Decider(u, c)' => Decider(u, c) \/ (u = Caller /\ c = d)
      BY <1>t, <1>1, <1>2, <3>1 DEF Decider, TypeOK
    <3>5. d \in Simple => \A u \in Tasks : ~Decider(u, d)
      BY <2>3 DEF Deciding, DecideInv
    <3>6. DecideInv'
      BY <1>t, <1>2, <2>1, <2>3, <3>1, <3>4, <3>5 DEF Deciding, DecideInv, Simple, TypeOK
    <3>7. QED BY <1>t, <2>3, <3>1, <3>2, <3>3, <3>6 DEF Deciding, Decides, Final, TypeOK, Simple
  <2>4. QED BY <2>2, <2>3
<1>8. CASE ServeInvalidate
  BY <1>5, <1>8 DEF ServeInvalidate, rows, locals
<1>9. CASE ServeTransition
  <2>1. /\ UNCHANGED <<todo, goal>> /\ at[Caller] = "transition" /\ d \in Controls
        /\ status' = [status EXCEPT ![d] = goal[Caller]]
    BY <1>3, <1>9 DEF ServeTransition, Serve, Caller, locals
  <2>2. CASE d \notin Simple
    BY <1>t, <1>5, <2>1, <2>2 DEF TypeOK
  <2>3. CASE d \in Simple
    <3>1. Decider(Caller, d) /\ status[d] = "applying"
      BY <1>1, <2>1, <2>3 DEF Decider, Deciding, DecideInv
    <3>2. goal[Caller] \in Final
      BY <1>t, <1>1, <2>1, <2>3 DEF Deciding, RoleInv, TypeOK, TaskInv
    <3>3. QueueInv'
      BY <1>1, <1>2, <1>3, <2>1 DEF Deciding, QueueInv, Queued
    <3>4. RoleInv'
      BY <1>t, <1>2, <2>1, <3>2 DEF Deciding, RoleInv, Simple, TypeOK, Final
    <3>5. \A u \in Tasks, c \in Simple : Decider(u, c)' => Decider(u, c) /\ c # d
      BY <1>1, <1>2, <2>1, <2>3, <3>1 DEF Decider, Deciding, DecideInv
    <3>6. phase = "starting" => Caller = "boot"
      BY <1>4, <2>3
    <3>7. DecideInv'
      BY <1>t, <1>2, <2>1, <3>1, <3>5, <3>6 DEF Deciding, DecideInv, Simple, TypeOK
    <3>8. QED BY <1>t, <2>1, <3>1, <3>3, <3>4, <3>7 DEF Deciding, Decides, Final, TypeOK, Simple
  <2>4. QED BY <2>2, <2>3
<1>10. CASE ServeList
  <2>1. UNCHANGED <<goal, status>> /\ at[Caller] = "list"
    BY <1>10 DEF ServeList, Serve, Caller, rows
  <2>2. todo' = [todo EXCEPT ![Caller] = [c \in Controls |->
            IF status[c] \in (IF Caller = "boot" THEN Open ELSE {"waiting"})
              THEN status[c] ELSE "none"]]
    BY <1>10 DEF ServeList
  <2>3. QueueInv'
    BY <1>1, <1>2, <1>3, <2>1 DEF Deciding, QueueInv, Queued
  <2>4. \A c \in Simple : /\ todo'["timer"][c] = "none" /\ todo'["boot"][c] # "waiting"
                          /\ todo'["boot"][c] = "applying" =>
                                (IF Caller = "boot" THEN status[c] ELSE todo["boot"][c]) = "applying"
    BY <1>t, <2>2 DEF Deciding, RoleInv, Simple, TypeOK, Tasks
  <2>5. RoleInv'
    BY <1>2, <2>1, <2>4 DEF Deciding, RoleInv
  <2>6. \A u \in Tasks, c \in Simple : Decider(u, c)' => Decider(u, c)
    BY <1>1, <1>2, <2>1 DEF Decider
  <2>7. \A c \in Simple : phase = "starting" /\ ctl["boot"] = c => todo'["boot"] = todo["boot"]
    <3>1. Caller = "boot" => ctl["boot"] \notin Simple
      BY <2>1, ControlsAssumption DEF Deciding, RoleInv, Simple
    <3>2. QED BY <1>t, <2>2, <3>1 DEF TypeOK, Tasks
  <2>8. DecideInv'
    BY <1>2, <2>1, <2>4, <2>6, <2>7 DEF Deciding, DecideInv
  <2>9. QED BY <2>1, <2>3, <2>5, <2>8 DEF Deciding, Decides
<1>11. QED
  BY <1>6, <1>7, <1>8, <1>9, <1>10 DEF Worker

-----------------------------------------------------------------------------
(* A task that is not queued posts a call.                                  *)
LEMMA PostKeeps ==
    ASSUME TypeOK, Deciding, NEW t \in Tasks, at[t] \notin Ops, NEW w \in Ops, NEW g, NEW k \in {ctl[t], None},
           Goes(t, w, g, k), calls' = Append(calls, t), UNCHANGED <<replies, status, todo, phase>>,
           w = "claim" => g = "none",
           w \in {"invalidate", "transition"} \/ g = "waiting" => k \notin Simple,
           phase = "starting" => t \notin Handlers, phase = "ready" => t # "boot",
           t = "boot" /\ w = "list" => k = None
    PROVE  Deciding'
<1>1. ~Queued(t) /\ OneQueue
  BY DEF Deciding, QueueInv
<1>2. OneQueue' /\ \A u \in Tasks \ {t} : Waits(calls', u) <=> Waits(calls, u)
  BY <1>1, PostedQueue
<1>3. QED BY <1>2, TaskKeeps DEF Ops

(* Idle tasks take to something: a request, or a list.                      *)
LEMMA StartsDecide ==
    ASSUME BaseInv, Deciding,
           StartTimer \/ TimerEnds \/ Restore \/ \E h \in Handlers, c \in Controls : PostControl(h, c)
    PROVE  Deciding'
<1>t. /\ TypeOK /\ TaskInv /\ "boot" \in Tasks /\ "timer" \in Tasks /\ Handlers \subseteq Tasks
      /\ Handlers \cap {"boot", "timer"} = {} /\ None \notin Simple
  BY HandlersAssumption, ControlsAssumption DEF BaseInv, Tasks, Simple
<1>f. \A t \in Tasks : goal = [goal EXCEPT ![t] = goal[t]] /\ ctl = [ctl EXCEPT ![t] = ctl[t]]
  BY <1>t DEF TypeOK
<1>r. /\ at["boot"] = "restore" => phase = "starting" /\ ctl["boot"] = None
      /\ ctl["timer"] \notin Simple
  BY <1>t DEF Deciding, RoleInv, TypeOK
<1>1. CASE StartTimer
  <2>1. Goes("timer", "list", goal["timer"], ctl["timer"]) /\ at["timer"] = "idle"
        /\ calls' = Append(calls, "timer") /\ UNCHANGED <<replies, status, todo, phase>>
    BY <1>f, <1>t, <1>1 DEF StartTimer, StartList, Call, Goes, rows
  <2>2. QED BY <1>t, <1>r, <2>1, PostKeeps DEF Ops
<1>2. CASE Restore
  <2>1. Goes("boot", "list", goal["boot"], ctl["boot"]) /\ at["boot"] = "restore"
        /\ calls' = Append(calls, "boot") /\ UNCHANGED <<replies, status, todo, phase>>
    BY <1>f, <1>t, <1>2 DEF Restore, StartList, Call, Goes, rows
  <2>2. goal["boot"] = "none"
    BY <1>t, <2>1 DEF TaskInv, Idling
  <2>3. QED BY <1>t, <1>r, <2>1, <2>2, PostKeeps DEF Ops
<1>3. CASE TimerEnds
  <2>1. Goes("timer", "idle", goal["timer"], ctl["timer"]) /\ at["timer"] = "next"
        /\ UNCHANGED <<calls, replies, status, todo, phase>>
    BY <1>f, <1>t, <1>3 DEF TimerEnds, NothingLeft, Goes, rows, queues
  <2>2. OneQueue' /\ ~Queued("timer")
    BY <2>1, <1>t DEF Deciding, QueueInv, OneQueue, Ops
  <2>3. QED BY <1>t, <1>r, <2>1, <2>2, TaskKeeps DEF Queued
<1>4. ASSUME NEW h \in Handlers, NEW c \in Controls, PostControl(h, c) PROVE Deciding'
  <2>1. /\ at' = [at EXCEPT ![h] = "submit"] /\ ctl' = [ctl EXCEPT ![h] = c]
        /\ calls' = Append(calls, h) /\ at[h] = "idle" /\ phase = "ready"
        /\ UNCHANGED <<replies, status, todo, phase, goal>>
    BY <1>4 DEF PostControl, Call, rows
  <2>2. h \in Tasks /\ h # "boot" /\ h # "timer" /\ ~Queued(h) /\ goal[h] = "none"
    BY <1>t, <2>1 DEF Deciding, QueueInv, Ops, TaskInv, Idling
  <2>3. OneQueue' /\ \A u \in Tasks \ {h} : Waits(calls', u) <=> Waits(calls, u)
    BY <1>t, <2>1, <2>2, PostedQueue DEF Deciding, QueueInv
  <2>4. QueueInv'
    BY <1>t, <2>1, <2>2, <2>3 DEF Deciding, QueueInv, Queued, TypeOK, Ops
  <2>5. RoleInv'
    BY <1>t, <2>1, <2>2 DEF Deciding, RoleInv, TypeOK
  <2>6. \A u \in Tasks, d \in Simple : Decider(u, d)' => Decider(u, d)
    BY <1>t, <2>1, <2>3 DEF Decider, TypeOK
  <2>7. DecideInv'
    BY <1>t, <2>1, <2>2, <2>6 DEF Deciding, DecideInv, TypeOK
  <2>8. QED BY <2>4, <2>5, <2>7 DEF Deciding
<1>5. QED BY <1>1, <1>2, <1>3, <1>4

(* A row that is visited is settled at once, claimed, or let go.            *)
LEMMA VisitKeeps ==
    ASSUME TypeOK, Deciding, NEW t \in {"boot", "timer"}, NEW c \in Controls, Visit(t, c), Take(t, c),
           NEW w \in {"claim", "invalidate", "transition"}, NEW g, Call(t, w), goal' = [goal EXCEPT ![t] = g],
           UNCHANGED <<status, phase, replies>>,
           w = "claim" => g = "none",
           t = "timer" \/ g = "waiting" => c \notin Simple,
           c \in Simple /\ w # "claim" => todo["boot"][c] = "applying"
    PROVE  Deciding'
<1>t. /\ "boot" \in Tasks /\ "timer" \in Tasks /\ Handlers \subseteq Tasks
      /\ Handlers \cap {"boot", "timer"} = {} /\ None \notin Simple /\ t \in Tasks
  BY HandlersAssumption, ControlsAssumption DEF Tasks, Simple
<1>1. /\ at[t] = "next" /\ todo[t][c] # "none" /\ at' = [at EXCEPT ![t] = w] /\ ctl' = [ctl EXCEPT ![t] = c]
      /\ calls' = Append(calls, t) /\ todo' = [todo EXCEPT ![t][c] = "none"]
  BY DEF Visit, IsNext, Take, Call
<1>2. ~Queued(t) /\ OneQueue /\ (t = "boot" => phase = "starting")
  BY <1>1, <1>t DEF Deciding, QueueInv, RoleInv, Ops, TypeOK
<1>3. OneQueue' /\ \A u \in Tasks \ {t} : Waits(calls', u) <=> Waits(calls, u)
  BY <1>1, <1>2, <1>t, PostedQueue
<1>4. QueueInv'
  BY <1>t, <1>1, <1>3 DEF Deciding, QueueInv, Queued, TypeOK, Ops
<1>5. RoleInv'
  BY <1>t, <1>1, <1>2 DEF Deciding, RoleInv, TypeOK, Simple
\* While the gateway starts, none but boot can hold a simple command.
<1>6. t = "boot" => \A u \in Tasks, d \in Simple : ~Decider(u, d)
  BY <1>t, <1>1, <1>2 DEF Decider, Deciding, RoleInv, Tasks
<1>7. \A u \in Tasks, d \in Simple : Decider(u, d)' => Decider(u, d) \/ (u = t /\ d = c /\ w # "claim")
  BY <1>t, <1>1, <1>3 DEF Decider, TypeOK
<1>8. \A u \in Simple : /\ todo'["boot"][u] = "applying" => todo["boot"][u] = "applying"
                        /\ todo["boot"][u] = "none" => todo'["boot"][u] = "none"
  BY <1>t, <1>1 DEF TypeOK, Simple
<1>9. DecideInv'
  <2>1. CASE t = "timer"
    <3>1. ctl'["boot"] = ctl["boot"] /\ \A u \in Tasks, d \in Simple : Decider(u, d)' => Decider(u, d)
      BY <1>t, <1>1, <1>7, <2>1 DEF TypeOK
    <3>2. QED BY <1>8, <2>1, <3>1 DEF Deciding, DecideInv
  <2>2. CASE t = "boot"
    <3>1. ctl'["boot"] = c /\ todo'["boot"][c] = "none"
      BY <1>t, <1>1, <2>2 DEF TypeOK
    <3>2. \A u \in Tasks, d \in Simple : Decider(u, d)' => u = "boot" /\ d = c /\ status[c] = "applying"
      BY <1>2, <1>6, <1>7, <2>2 DEF Deciding, DecideInv
    <3>3. QED BY <1>8, <3>1, <3>2 DEF Deciding, DecideInv
  <2>3. QED BY <2>1, <2>2
<1>10. QED BY <1>4, <1>5, <1>9 DEF Deciding

LEMMA ListsDecide == BaseInv /\ Deciding /\ Lists => Deciding'
<1> SUFFICES ASSUME BaseInv, Deciding, Lists PROVE Deciding'
  OBVIOUS
<1>t. /\ TypeOK /\ TaskInv /\ "boot" \in Tasks /\ "timer" \in Tasks /\ Handlers \cap {"boot", "timer"} = {}
      /\ None \notin Simple
  BY HandlersAssumption, ControlsAssumption DEF BaseInv, Tasks, Simple
<1>1. CASE StartTimer \/ TimerEnds \/ Restore
  BY <1>1, StartsDecide
<1>2. CASE BootEnds
  <2>1. /\ at["boot"] = "next" /\ at' = [at EXCEPT !["boot"] = "idle"] /\ phase' = "ready"
        /\ UNCHANGED <<calls, replies, status, todo, ctl, goal>>
    BY <1>2 DEF BootEnds, NothingLeft, rows, queues
  <2>2. ~Queued("boot")
    BY <1>t, <2>1 DEF Deciding, QueueInv, Ops
  <2>3. QueueInv'
    BY <1>t, <2>1, <2>2 DEF Deciding, QueueInv, Queued, OneQueue, TypeOK
  <2>4. RoleInv'
    BY <1>t, <2>1 DEF Deciding, RoleInv, TypeOK
  <2>5. \A u \in Tasks, c \in Simple : Decider(u, c)' => Decider(u, c)
    BY <1>t, <2>1 DEF Decider, TypeOK
  <2>6. DecideInv'
    BY <2>1, <2>5 DEF Deciding, DecideInv
  <2>7. QED BY <2>3, <2>4, <2>6 DEF Deciding
<1>3. ASSUME NEW c \in Controls, TimerVisits(c) PROVE Deciding'
  <2>1. Visit("timer", c) /\ UNCHANGED <<status, phase, replies>>
    BY <1>3 DEF TimerVisits, rows
  <2>2. c \notin Simple
    BY <2>1 DEF Visit, IsNext, Deciding, RoleInv
  <2>3. CASE Mark("timer", "completed") /\ Take("timer", c)
    BY <1>t, <2>1, <2>2, <2>3, VisitKeeps DEF Mark
  <2>4. CASE UNCHANGED <<at, calls, ctl, saw, goal>>
    <3>1. \A d \in Simple : todo'["boot"][d] = todo["boot"][d] /\ todo'["timer"][d] = todo["timer"][d]
      BY <1>t, <2>1, <2>2 DEF Visit, TypeOK, Simple
    <3>2. \A u \in Tasks, d \in Simple : Decider(u, d)' => Decider(u, d)
      BY <2>4 DEF Decider
    <3>3. QED BY <2>1, <2>4, <3>1, <3>2 DEF Deciding, QueueInv, OneQueue, Queued, RoleInv, DecideInv
  <2>5. QED BY <1>3, <2>3, <2>4 DEF TimerVisits
<1>4. ASSUME NEW c \in Controls, BootVisits(c) PROVE Deciding'
  <2>1. Visit("boot", c) /\ Take("boot", c) /\ UNCHANGED <<status, phase, replies>>
    BY <1>4 DEF BootVisits, rows
  <2>2. goal["boot"] = "none" /\ goal = [goal EXCEPT !["boot"] = "none"]
    BY <1>t, <2>1 DEF Visit, IsNext, TaskInv, Idling, TypeOK
  <2>3. c \in Simple => todo["boot"][c] \in {"pending", "applying"}
    BY <1>t, <2>1 DEF Visit, IsNext, Deciding, RoleInv, TypeOK, Open
  <2>4. CASE todo["boot"][c] = "pending" /\ RejectOrClaim("boot", c)
    <3>1. CASE OutOfScope(c) /\ Mark("boot", "rejected")
      <4>1. c \notin Simple
        BY <3>1 DEF Simple, OutOfScope
      <4>2. QED BY <1>t, <2>1, <3>1, <4>1, VisitKeeps DEF Mark
    <3>2. CASE Call("boot", "claim") /\ UNCHANGED goal
      BY <1>t, <2>1, <2>2, <3>2, VisitKeeps
    <3>3. QED BY <2>4, <3>1, <3>2 DEF RejectOrClaim
  <2>5. CASE todo["boot"][c] # "pending" /\ ApplyLocal("boot", c)
    <3>1. CASE Mark("boot", "rejected")
      BY <1>t, <2>1, <2>3, <2>5, <3>1, VisitKeeps DEF Mark
    <3>2. CASE InvalidateThenMark("boot", "completed")
      BY <1>t, <2>1, <2>3, <2>5, <3>2, VisitKeeps DEF InvalidateThenMark
    <3>3. QED BY <2>5, <3>1, <3>2 DEF ApplyLocal
  <2>6. CASE Action(c) = "flatten" /\ ResumeFlatten(c)
    <3>1. c \notin Simple
      BY <2>6 DEF Simple
    <3>2. \/ \E g \in {"completed", "waiting"} : Mark("boot", g)
          \/ InvalidateThenMark("boot", "ambiguous")
      BY <2>6 DEF ResumeFlatten
    <3>3. CASE \E g \in {"completed", "waiting"} : Mark("boot", g)
      BY <1>t, <2>1, <3>1, <3>3, VisitKeeps DEF Mark
    <3>4. CASE InvalidateThenMark("boot", "ambiguous")
      BY <1>t, <2>1, <3>1, <3>4, VisitKeeps DEF InvalidateThenMark
    <3>5. QED BY <3>2, <3>3, <3>4
  <2>7. QED BY <1>4, <2>4, <2>5, <2>6 DEF BootVisits
<1>5. QED BY <1>1, <1>2, <1>3, <1>4 DEF Lists

(* A process that has just started is at rest, its lists are empty.         *)
Started ==
    /\ phase = "starting" /\ calls = <<>> /\ replies = <<>> /\ at = AtRest
    /\ ctl = [t \in Tasks |-> None] /\ goal = [t \in Tasks |-> "none"] /\ todo = [t \in Tasks |-> NoRows]
    /\ \A c \in Simple : status[c] # "waiting"

LEMMA StartDecides == Started => Deciding
<1> SUFFICES ASSUME Started PROVE Deciding
  OBVIOUS
<1> USE DEF Started
<1>1. /\ "boot" \in Tasks /\ "timer" \in Tasks /\ Handlers \subseteq Tasks /\ None \notin Simple
      /\ Handlers \cap {"boot", "timer"} = {} /\ Simple \subseteq Controls
  BY ControlsAssumption, HandlersAssumption DEF Tasks, Simple
<1>2. \A t \in Tasks : ~Waits(calls, t) /\ ~Waits(replies, t)
  BY DEF Waits
<1>3. \A t \in Tasks : at[t] \in {"restore", "idle"} /\ ctl[t] = None /\ goal[t] = "none"
                       /\ \A c \in Controls : todo[t][c] = "none"
  BY DEF AtRest, NoRows
<1>4. OneEach(calls) /\ OneEach(replies)
  BY DEF OneEach
<1>5. QueueInv
  BY <1>2, <1>3, <1>4 DEF QueueInv, OneQueue, Queued
<1>6. RoleInv
  BY <1>1, <1>3 DEF RoleInv, AtRest
<1>7. DecideInv
  BY <1>1, <1>3 DEF DecideInv, Decider
<1>8. QED BY <1>5, <1>6, <1>7 DEF Deciding

LEMMA DecidingInit == Init => Deciding
<1> SUFFICES ASSUME Init PROVE Deciding
  OBVIOUS
<1>1. \A c \in Simple : status[c] # "waiting"
  BY DEF Init, Simple
<1>2. QED BY <1>1, StartDecides DEF Init, Started

LEMMA DecidingNext ==
    ASSUME BaseInv, Deciding, [Next]_vars
    PROVE  Deciding' /\ \A c \in Simple : Decides(c)
<1>1. CASE Worker
  BY <1>1, WorkerDecides
<1>2. ASSUME UNCHANGED status PROVE \A c \in Simple : Decides(c)
  BY <1>2 DEF Decides
<1>3. ASSUME NEW t \in Tasks, Consume(t) \/ SendExit(t) \/ ExitAnswered(t) \/ InvalidateFails(t)
      PROVE  Deciding' /\ UNCHANGED status
  BY <1>3, TasksDecide DEF Consume, Submitted, Claimed, Invalidated, Transitioned, Listed, SendExit,
     ExitAnswered, InvalidateFails, rows
<1>4. CASE Lists
  BY <1>4, <1>2, ListsDecide DEF Lists, StartTimer, TimerEnds, Restore, BootEnds, TimerVisits, BootVisits,
     StartList, rows
<1>5. CASE \E h \in Handlers, c \in Controls : PostControl(h, c)
  BY <1>5, <1>2, StartsDecide DEF PostControl, rows
<1>6. CASE Crash
  <2>1. Started'
    BY <1>6 DEF Deciding, RoleInv, Crash, rows, Started, NoRows, Simple
  <2>2. Started' => Deciding'
    BY StartDecides, PTL
  <2>3. QED BY <1>2, <1>6, <2>1, <2>2 DEF Crash, rows
<1>7. CASE AccountMoves \/ UNCHANGED vars
  <2>1. UNCHANGED <<status, phase, calls, replies, at, ctl, goal, todo>>
    BY <1>7 DEF AccountMoves, vars, rows, queues, locals
  <2>2. QED
    BY <1>2, <2>1 DEF Deciding, QueueInv, OneQueue, Queued, OneEach, Waits, RoleInv, DecideInv, Decider
<1>8. QED
  BY <1>1, <1>2, <1>3, <1>4, <1>5, <1>6, <1>7 DEF Next

(* Posted again, resumed after a crash or failed by an error: a command of   *)
(* the whole account that is not a flatten keeps its first decision.        *)
THEOREM DecisionIsFinal == Spec => DecidedStaysDecided
<1>1. BaseInv /\ Deciding /\ [Next]_vars =>
        [\A c \in Controls : Action(c) # "flatten" /\ Scope(c) = "all" /\ status[c] \in Final
           => status'[c] = status[c]]_vars
  BY DecidingNext DEF Simple, Decides
<1>2. BaseInv /\ Deciding /\ [Next]_vars => BaseInv' /\ Deciding'
  BY BaseNext, DecidingNext
<1>3. QED
  BY BaseInit, DecidingInit, <1>1, <1>2, PTL DEF Spec, DecidedStaysDecided

-----------------------------------------------------------------------------
(***************************************************************************)
(* A pause holds.  Commands are served and answered in the order they were *)
(* posted, so commands are claimed in the order of their numbers and their *)
(* results are written in it: when a resume is claimed, no later pause has *)
(* been applied, and none will be before it.  While the gateway starts,     *)
(* only boot applies commands, one after the other in that order.          *)
(***************************************************************************)

(* The commands that switch the gateway off and on.                         *)
Switches == {c \in Controls : Action(c) \in {"pause", "resume"}}

(* t's call or answer comes before u's: the answers are ahead of the calls.  *)
Before(q, t, u) == \E i, j \in 1 .. Len(q) : i < j /\ q[i] = t /\ q[j] = u
Ahead(t, u) ==
    Before(replies, t, u) \/ Before(calls, t, u) \/ (Waits(replies, t) /\ Waits(calls, u))

(* Rows are numbered when they are stored.                                  *)
NumberInv ==
    /\ \A c \in Controls : seq[c] <= lastSeq /\ (status[c] = "absent" <=> seq[c] = 0)
    /\ \A c, d \in Controls : seq[c] = seq[d] /\ seq[c] # 0 => c = d

(* What a task knows of the row it is at, or has listed.                    *)
KnownInv ==
    /\ \A t \in Tasks :
         /\ at[t] \in Ops => Queued(t)
         /\ at[t] \in Idling \cup {"list"} => ctl[t] = None
         /\ at[t] = "submit" => t \in Handlers
         /\ at[t] = "invalidate" /\ ctl[t] \in Switches => goal[t] = "completed"
         /\ ctl[t] \in Controls /\ ~(at[t] = "submit" /\ Waits(calls, t)) => status[ctl[t]] # "absent"
         /\ at[t] = "submit" /\ Waits(replies, t) /\ saw[t] # "pending" => status[ctl[t]] # "pending"
         /\ \A c \in Controls :
              /\ todo[t][c] # "none" => status[c] # "absent"
              /\ todo[t][c] \notin {"none", "pending"} => status[c] # "pending"
    /\ ctl["timer"] \in Controls => status[ctl["timer"]] # "pending"
    /\ \A c \in Controls : todo["timer"][c] # "pending"
    /\ ctl["timer"] \notin Switches
    /\ \A c \in Switches : todo["timer"][c] = "none" /\ todo["boot"][c] # "waiting" /\ status[c] # "waiting"
    /\ \A t \in Tasks : at[t] \in {"exiting", "exit_sent"} \/ goal[t] \in {"waiting", "ambiguous"}
                          => ctl[t] \notin Switches

(* The tasks that have claimed a switch and may still complete it.          *)
Winner(t) ==
    /\ ctl[t] \in Switches
    /\ \/ at[t] = "claim" /\ goal[t] # "none"
       \/ at[t] \in {"invalidate", "transition"} /\ goal[t] \in {"completed", "failed"}

Later(d) == {c \in Controls : seq[c] > seq[d]}

(* Task t will claim d, or decide it, when its call is served; task u, with a*)
(* later command, is not served before t has been.                          *)
Leads(t, d) ==
    /\ ctl[t] = d
    /\ \/ at[t] = "submit" /\ Waits(replies, t)
       \/ at[t] \in {"claim", "transition"} /\ Waits(calls, t)
Behind(t, u) ==
    IF at[u] = "submit" THEN at[t] = "submit" => Ahead(t, u)
                        ELSE at[t] # "submit" /\ Ahead(t, u)

(* A pending command is next in line: no later one has been claimed, and     *)
(* some task brings it to the worker before any task brings a later one.    *)
PendInv ==
    phase = "ready" => \A d \in Controls : status[d] = "pending" =>
        /\ \A c \in Later(d) : status[c] = "pending"
        /\ \E t \in Tasks : Leads(t, d) /\ \A u \in Tasks : ctl[u] \in Later(d) => Behind(t, u)

(* A claimed switch is not pending again, and none after it is complete yet.*)
WinInv ==
    \A t \in Tasks : Winner(t) =>
      /\ status[ctl[t]] # "pending"
      /\ at[t] = "claim" => \A c \in Switches \cap Later(ctl[t]) : status[c] # "completed"

(* Those who claimed switches go on in the order of the numbers.            *)
OrderInv ==
    phase = "ready" => \A t, u \in Tasks :
      Winner(t) /\ Winner(u) /\ ctl[u] \in Later(ctl[t]) =>
        /\ at[t] = at[u] => Ahead(t, u)
        /\ at[u] = "invalidate" => at[t] # "claim"
        /\ at[u] = "transition" => at[t] = "transition"

(* An applied switch is on its way to be completed, and those before a       *)
(* completed one are decided.                                               *)
AppliedInv ==
    /\ phase = "ready" => \A d \in Switches : status[d] = "applying" =>
         \E t \in Tasks : ctl[t] = d /\ Winner(t) /\ (at[t] = "transition" => Waits(calls, t))
    /\ \A c \in Switches : status[c] = "completed" =>
         \A d \in Switches : seq[d] < seq[c] => status[d] \notin {"pending", "applying"}

(* While the gateway starts: what is not decided is listed or in boot's      *)
(* hands, and what boot has in its hands is before all it has still to visit.*)
Undone(d) == status[d] = "pending" \/ (d \in Switches /\ status[d] = "applying")

BootInv ==
    phase = "starting" =>
      /\ ~(at["boot"] = "restore" \/ (at["boot"] = "list" /\ Waits(calls, "boot"))) =>
           \A d \in Controls : Undone(d) =>
             \/ todo["boot"][d] # "none"
             \/ ctl["boot"] = d /\ ~(at["boot"] = "transition" /\ Waits(replies, "boot"))
      /\ at["boot"] = "claim" => (Waits(calls, "boot") => status[ctl["boot"]] = "pending")
                                 /\ (Waits(replies, "boot") => goal["boot"] # "none")
      /\ \A c \in Controls :
           /\ todo["boot"][c] = "pending" => status[c] = "pending"
           /\ c \in Switches /\ todo["boot"][c] # "none" => status[c] = todo["boot"][c]
           /\ ctl["boot"] = c => /\ todo["boot"][c] = "none"
                                 /\ \A d \in Controls : todo["boot"][d] # "none" => seq[c] <= seq[d]

(* A pause that was applied, its row completed or about to be, and that no   *)
(* claimed resume follows.                                                  *)
Held(c) == \A d \in Later(c) : Action(d) = "resume" => status[d] = "pending"
InForce(c) ==
    /\ Action(c) = "pause" /\ Held(c)
    /\ \/ status[c] = "completed" /\ Scope(c) \in {"all", "own"}
       \/ \E t \in Tasks : ctl[t] = c /\ at[t] \in {"invalidate", "transition"} /\ goal[t] = "completed"

(* Such a pause is in the memory, once the start has restored it.           *)
PauseInv == at["boot"] # "restore" => \A c \in Switches : InForce(c) => paused

Holding == NumberInv /\ KnownInv /\ PendInv /\ WinInv /\ OrderInv /\ AppliedInv /\ BootInv
AllHold == Holding /\ TypeOK /\ TaskInv /\ QueueInv /\ RoleInv

-----------------------------------------------------------------------------
(* Queues in their order.                                                   *)
LEMMA PoppedOrder ==
    ASSUME NEW q \in Seq(Tasks), q # <<>>, OneEach(q)
    PROVE  /\ \A t, u \in Tasks : Before(q, t, u) /\ t # Head(q) => Before(Tail(q), t, u)
           /\ \A t \in Tasks : ~Before(q, t, Head(q))
           /\ \A t, u \in Tasks : Before(q, t, u) => Waits(q, t) /\ Waits(q, u) /\ t # u
<1>1. Head(q) = q[1] /\ Len(q) \in Nat \ {0} /\ Len(Tail(q)) = Len(q) - 1
  OBVIOUS
<1>2. \A i \in 1 .. Len(q) - 1 : Tail(q)[i] = q[i + 1]
  OBVIOUS
<1>3. ASSUME NEW t \in Tasks, NEW u \in Tasks, Before(q, t, u), t # Head(q)
      PROVE  Before(Tail(q), t, u)
  <2>1. PICK i, j \in 1 .. Len(q) : i < j /\ q[i] = t /\ q[j] = u
    BY <1>3 DEF Before
  <2>2. i - 1 \in 1 .. Len(q) - 1 /\ j - 1 \in 1 .. Len(q) - 1 /\ i - 1 < j - 1
    BY <1>1, <1>3, <2>1
  <2>3. Tail(q)[i - 1] = t /\ Tail(q)[j - 1] = u
    BY <1>2, <2>1, <2>2
  <2>4. QED BY <1>1, <2>2, <2>3 DEF Before
<1>4. \A t \in Tasks : ~Before(q, t, Head(q))
  BY <1>1 DEF Before, OneEach
<1>5. \A t, u \in Tasks : Before(q, t, u) => Waits(q, t) /\ Waits(q, u) /\ t # u
  BY <1>1 DEF Before, Waits, OneEach
<1>6. QED BY <1>3, <1>4, <1>5

LEMMA PushedOrder ==
    ASSUME NEW q \in Seq(Tasks), NEW t \in Tasks
    PROVE  /\ \A u, v \in Tasks : Before(q, u, v) => Before(Append(q, t), u, v)
           /\ \A u \in Tasks : Waits(q, u) => Before(Append(q, t), u, t)
<1> DEFINE p == Append(q, t)
<1>1. Len(p) = Len(q) + 1 /\ p[Len(q) + 1] = t /\ Len(q) \in Nat
  OBVIOUS
<1>2. \A i \in 1 .. Len(q) : p[i] = q[i]
  OBVIOUS
<1> HIDE DEF p
<1>3. \A u, v \in Tasks : Before(q, u, v) => Before(p, u, v)
  BY <1>1, <1>2 DEF Before
<1>4. ASSUME NEW u \in Tasks, Waits(q, u) PROVE Before(p, u, t)
  <2>1. PICK i \in 1 .. Len(q) : q[i] = u
    BY <1>4 DEF Waits
  <2>2. i \in 1 .. Len(p) /\ Len(q) + 1 \in 1 .. Len(p) /\ i < Len(q) + 1 /\ p[i] = u
    BY <1>1, <1>2, <2>1
  <2>3. QED BY <1>1, <2>2 DEF Before
<1>5. QED BY <1>3, <1>4 DEF p

(* The worker moves a task from one queue to the other: nobody overtakes.   *)
LEMMA ServedOrder ==
    ASSUME TypeOK, OneQueue, NEW op, Serve(op)
    PROVE  /\ \A t, u \in Tasks : Ahead(t, u) => Ahead(t, u)'
           /\ \A t \in Tasks : Ahead(t, Caller) => Waits(replies, t)
           /\ \A t \in Tasks : Waits(replies, t) => Ahead(t, Caller)
<1>1. calls \in Seq(Tasks) /\ replies \in Seq(Tasks) /\ calls # <<>> /\ OneEach(calls) /\ OneEach(replies)
  BY DEF TypeOK, Serve, OneQueue
<1>2. calls' = Tail(calls) /\ replies' = Append(replies, Caller) /\ Caller = Head(calls)
  BY DEF Serve, Caller
<1>3. /\ Caller \in Tasks /\ Waits(calls, Caller)
      /\ \A t \in Tasks : /\ Waits(calls', t) <=> Waits(calls, t) /\ t # Caller
                          /\ Waits(replies', t) <=> Waits(replies, t) \/ t = Caller
  BY ServedQueue
<1>4. /\ \A t, u \in Tasks : Before(calls, t, u) /\ t # Caller => Before(calls', t, u)
      /\ \A t \in Tasks : ~Before(calls, t, Caller)
      /\ \A t, u \in Tasks : Before(calls, t, u) => Waits(calls, t) /\ Waits(calls, u) /\ t # u
  BY <1>1, <1>2, PoppedOrder
<1>5. /\ \A t, u \in Tasks : Before(replies, t, u) => Before(replies', t, u)
      /\ \A t \in Tasks : Waits(replies, t) => Before(replies', t, Caller)
  BY <1>1, <1>2, <1>3, PushedOrder
<1>6. \A t \in Tasks : ~Before(replies, t, Caller)
  <2>1. ~Waits(replies, Caller)
    BY <1>3 DEF OneQueue
  <2>2. ASSUME NEW t \in Tasks, Before(replies, t, Caller) PROVE Waits(replies, Caller)
    BY <2>2 DEF Before, Waits
  <2>3. QED BY <2>1, <2>2
<1>7. QED BY <1>3, <1>4, <1>5, <1>6 DEF Ahead

(* A step of t outside the worker: t was in front, or nowhere; if it posts   *)
(* a call it is behind everybody.                                           *)
StepOrder(t) ==
    /\ OneQueue' /\ ~Waits(calls, t) /\ ~Waits(replies', t)
    /\ \A u \in Tasks \ {t} : /\ Waits(calls', u) <=> Waits(calls, u)
                              /\ Waits(replies', u) <=> Waits(replies, u)
    /\ \A u, v \in Tasks \ {t} : Ahead(u, v) => Ahead(u, v)'
    /\ \A u \in Tasks : ~Ahead(u, t)
    /\ Waits(calls', t) => \A u \in Tasks \ {t} : Queued(u) => Ahead(u, t)'

LEMMA HeardOrder ==
    ASSUME TypeOK, OneQueue, NEW t \in Tasks, NEW op, Answered(t, op),
           calls' \in {calls, Append(calls, t)}
    PROVE  /\ StepOrder(t) /\ Waits(replies, t)
           /\ Waits(calls', t) <=> calls' = Append(calls, t)
<1>1. calls \in Seq(Tasks) /\ replies \in Seq(Tasks) /\ replies # <<>> /\ OneEach(calls) /\ OneEach(replies)
      /\ t = Head(replies) /\ replies' = Tail(replies)
  BY DEF TypeOK, Answered, OneQueue
<1>2. /\ Waits(replies, t) /\ ~Waits(calls, t) /\ OneQueue'
      /\ Waits(calls', t) <=> calls' = Append(calls, t)
      /\ ~Waits(replies', t)
      /\ \A u \in Tasks \ {t} : /\ Waits(calls', u) <=> Waits(calls, u)
                                /\ Waits(replies', u) <=> Waits(replies, u)
  BY HeardQueue
<1>3. /\ \A u, v \in Tasks : Before(replies, u, v) /\ u # t => Before(replies', u, v)
      /\ \A u \in Tasks : ~Before(replies, u, t)
      /\ \A u, v \in Tasks : Before(replies, u, v) => Waits(replies, u) /\ Waits(replies, v) /\ u # v
  BY <1>1, PoppedOrder
<1>4. /\ \A u, v \in Tasks : Before(calls, u, v) => Before(calls', u, v)
      /\ \A u \in Tasks : Waits(calls, u) /\ calls' = Append(calls, t) => Before(calls', u, t)
  BY <1>1, PushedOrder
<1>5. \A u \in Tasks : ~Before(calls, u, t)
  BY <1>2 DEF Before, Waits
<1>6. \A u, v \in Tasks \ {t} : Ahead(u, v) => Ahead(u, v)'
  BY <1>2, <1>3, <1>4 DEF Ahead
<1>7. \A u \in Tasks : ~Ahead(u, t)
  BY <1>2, <1>3, <1>5 DEF Ahead
<1>8. Waits(calls', t) => \A u \in Tasks \ {t} : Queued(u) => Ahead(u, t)'
  BY <1>2, <1>4 DEF Ahead, Queued
<1>9. QED BY <1>2, <1>6, <1>7, <1>8 DEF StepOrder

LEMMA UnqueuedOrder ==
    ASSUME TypeOK, OneQueue, NEW t \in Tasks, ~Queued(t),
           calls' \in {calls, Append(calls, t)}, UNCHANGED replies
    PROVE  StepOrder(t) /\ (Waits(calls', t) <=> calls' = Append(calls, t))
<1>1. calls \in Seq(Tasks) /\ ~Waits(calls, t) /\ ~Waits(replies, t)
  BY DEF TypeOK, Queued
<1>2. /\ \A u, v \in Tasks : Before(calls, u, v) => Before(calls', u, v)
      /\ \A u \in Tasks : Waits(calls, u) /\ calls' = Append(calls, t) => Before(calls', u, t)
  BY <1>1, PushedOrder
<1>3. \A u \in Tasks : ~Before(calls, u, t) /\ ~Before(replies, u, t)
  BY <1>1 DEF Before, Waits
<1>4. OneQueue' /\ (Waits(calls', t) <=> calls' = Append(calls, t))
      /\ \A u \in Tasks \ {t} : Waits(calls', u) <=> Waits(calls, u)
  <2>1. CASE calls' = calls
    <3>1. Len(Append(calls, t)) = Len(calls) + 1 /\ Len(calls) \in Nat
      BY <1>1
    <3>2. Append(calls, t) # calls
      BY <3>1
    <3>3. QED BY <1>1, <2>1, <3>2 DEF OneQueue
  <2>2. CASE calls' = Append(calls, t)
    BY <2>2, PostedQueue
  <2>3. QED BY <2>1, <2>2
<1>5. \A u, v \in Tasks \ {t} : Ahead(u, v) => Ahead(u, v)'
  BY <1>2, <1>4 DEF Ahead
<1>6. \A u \in Tasks : ~Ahead(u, t)
  BY <1>1, <1>3 DEF Ahead
<1>7. Waits(calls', t) => \A u \in Tasks \ {t} : Queued(u) => Ahead(u, t)'
  BY <1>2, <1>4 DEF Ahead, Queued
<1>8. QED BY <1>1, <1>4, <1>5, <1>6, <1>7 DEF StepOrder

-----------------------------------------------------------------------------
(* A step of task t that writes neither a row nor a list: where it goes,     *)
(* with which goal and control, and what it may not do there.               *)
TakesStep(t, w, g, k) ==
    /\ Goes(t, w, g, k) /\ StepOrder(t) /\ (w \in Ops <=> Waits(calls', t))
    /\ UNCHANGED <<rows, todo, phase>> /\ \A u \in Tasks \ {t} : saw'[u] = saw[u]
    /\ w \in Idling \cup {"list"} => k = None
    /\ k \in {ctl[t], None} \/ (w = "submit" /\ k \in Controls)
    /\ w = "submit" => at[t] = "idle" /\ t \in Handlers
    /\ w \in {"exiting", "exit_sent"} \/ g \in {"waiting", "ambiguous"} => k \notin Switches
    /\ w = "claim" => g = "none" /\ at[t] = "submit"
    /\ k \in Switches /\ w = "invalidate" => Winner(t) /\ at[t] = "claim" /\ g = "completed"
    /\ k \in Switches /\ w = "transition" /\ g \in {"completed", "failed"} => Winner(t) /\ at[t] = "invalidate"
    /\ Winner(t) /\ at[t] = "claim" => k = ctl[t] /\ w = "invalidate"
    /\ Winner(t) /\ at[t] = "invalidate" => k = ctl[t] /\ w = "transition" /\ g \in {"completed", "failed"}
    /\ at[t] = "submit" /\ status[ctl[t]] = "pending" => k = ctl[t] /\ w \in {"claim", "transition"}
    /\ t = "boot" => /\ w # "claim" /\ at[t] # "submit"
                     /\ k # ctl[t] => at[t] = "transition"
                     /\ at[t] = "restore" => w = "list"

LEMMA StepMoves ==
    ASSUME TypeOK, NEW t \in Tasks, NEW w, NEW g, NEW k, TakesStep(t, w, g, k)
    PROVE  /\ at'[t] = w /\ goal'[t] = g /\ ctl'[t] = k
           /\ \A u \in Tasks \ {t} : at'[u] = at[u] /\ goal'[u] = goal[u] /\ ctl'[u] = ctl[u]
           /\ \A u \in Tasks \ {t} : Winner(u)' = Winner(u)
           /\ Winner(t)' => Winner(t) /\ k = ctl[t] /\ ((at[t] = "claim" /\ w = "invalidate")
                                                        \/ (at[t] = "invalidate" /\ w = "transition"))
           /\ UNCHANGED <<status, seq, lastSeq, todo, phase>>
           /\ \A d \in Controls : Later(d)' = Later(d)
<1>1. /\ at'[t] = w /\ goal'[t] = g /\ ctl'[t] = k
      /\ \A u \in Tasks \ {t} : at'[u] = at[u] /\ goal'[u] = goal[u] /\ ctl'[u] = ctl[u]
  BY DEF TakesStep, Goes, TypeOK
<1>2. UNCHANGED <<status, seq, lastSeq, todo, phase>>
  BY DEF TakesStep, rows
<1>3. \A u \in Tasks \ {t} : Winner(u)' = Winner(u)
  BY <1>1 DEF Winner
<1>4. Winner(t)' => Winner(t) /\ k = ctl[t] /\ ((at[t] = "claim" /\ w = "invalidate")
                                                \/ (at[t] = "invalidate" /\ w = "transition"))
  BY <1>1 DEF TakesStep, Winner
<1>5. \A d \in Controls : Later(d)' = Later(d)
  BY <1>2 DEF Later
<1>6. QED BY <1>1, <1>2, <1>3, <1>4, <1>5

LEMMA StepKnown ==
    ASSUME AllHold, NEW t \in Tasks, NEW w, NEW g, NEW k, TakesStep(t, w, g, k)
    PROVE  NumberInv' /\ KnownInv' /\ AppliedInv'
<1>1. TypeOK /\ StepOrder(t) /\ NumberInv /\ KnownInv /\ AppliedInv
  BY DEF AllHold, Holding, TakesStep
<1>2. /\ at'[t] = w /\ goal'[t] = g /\ ctl'[t] = k
      /\ \A u \in Tasks \ {t} : at'[u] = at[u] /\ goal'[u] = goal[u] /\ ctl'[u] = ctl[u]
      /\ \A u \in Tasks \ {t} : Winner(u)' = Winner(u)
      /\ UNCHANGED <<status, seq, lastSeq, todo, phase>>
      /\ \A d \in Controls : Later(d)' = Later(d)
  BY <1>1, StepMoves
<1>3. NumberInv'
  BY <1>1, <1>2 DEF NumberInv
<1>4. \A u \in Tasks \ {t} : /\ saw'[u] = saw[u]
                             /\ Waits(calls, u)' <=> Waits(calls, u)
                             /\ Waits(replies, u)' <=> Waits(replies, u)
                             /\ Queued(u)' <=> Queued(u)
  BY <1>1 DEF TakesStep, StepOrder, Queued
<1>5. ~Waits(calls, t) /\ ~Waits(replies, t)' /\ (w \in Ops <=> Waits(calls, t)')
  BY <1>1 DEF StepOrder, TakesStep
<1>6. KnownInv'
  <2>1. ASSUME NEW u \in Tasks
        PROVE /\ at'[u] \in Ops => Queued(u)'
              /\ at'[u] \in Idling \cup {"list"} => ctl'[u] = None
              /\ at'[u] = "submit" => u \in Handlers
              /\ at'[u] = "invalidate" /\ ctl'[u] \in Switches => goal'[u] = "completed"
              /\ ctl'[u] \in Controls /\ ~(at'[u] = "submit" /\ Waits(calls, u)') => status[ctl'[u]] # "absent"
              /\ at'[u] = "submit" /\ Waits(replies, u)' /\ saw'[u] # "pending" => status[ctl'[u]] # "pending"
              /\ at'[u] \in {"exiting", "exit_sent"} \/ goal'[u] \in {"waiting", "ambiguous"} => ctl'[u] \notin Switches
    <3>1. CASE u # t
      BY <1>1, <1>2, <1>4, <3>1 DEF KnownInv
    <3>2. CASE u = t
      <4>1. w \in Ops => Queued(t)'
        BY <1>5 DEF Queued
      <4>2. k \in Controls /\ ~(w = "submit" /\ Waits(calls, t)') => status[k] # "absent"
        BY <1>1, <1>5, ControlsAssumption DEF KnownInv, TakesStep, Ops
      <4>3. QED BY <1>2, <1>5, <3>2, <4>1, <4>2 DEF TakesStep
    <3>3. QED BY <3>1, <3>2
  <2>2. ctl'["timer"] \in {ctl["timer"], None} /\ None \notin Switches /\ None \notin Controls /\ "timer" \in Tasks
    BY <1>2, ControlsAssumption, HandlersAssumption DEF TakesStep, Switches, Tasks
  <2>3. QED BY <1>1, <1>2, <2>1, <2>2 DEF KnownInv
<1>7. AppliedInv'
  <2>1. ASSUME NEW d \in Switches, phase = "ready", status[d] = "applying"
        PROVE  \E u \in Tasks : ctl'[u] = d /\ Winner(u)' /\ (at'[u] = "transition" => Waits(calls, u)')
    <3>1. PICK u \in Tasks : ctl[u] = d /\ Winner(u) /\ (at[u] = "transition" => Waits(calls, u))
      BY <1>1, <2>1 DEF AppliedInv
    <3>2. CASE u # t
      BY <1>2, <1>4, <3>1, <3>2
    <3>3. CASE u = t
      <4>1. at[t] \in {"claim", "invalidate"} /\ ctl[t] \in Switches
        BY <1>5, <3>1, <3>3 DEF Winner
      <4>2. k = d /\ w \in Ops /\ ((w = "invalidate" /\ g = "completed")
                                   \/ (w = "transition" /\ g \in {"completed", "failed"}))
        BY <3>1, <3>3, <4>1 DEF TakesStep, Ops
      <4>3. Winner(t)'
        BY <1>2, <2>1, <4>2 DEF Winner
      <4>4. QED BY <1>2, <1>5, <4>2, <4>3
    <3>4. QED BY <3>2, <3>3
  <2>2. QED BY <1>1, <1>2, <2>1 DEF AppliedInv
<1>8. QED BY <1>3, <1>6, <1>7

LEMMA StepOrders ==
    ASSUME AllHold, NEW t \in Tasks, NEW w, NEW g, NEW k, TakesStep(t, w, g, k)
    PROVE  WinInv' /\ OrderInv'
<1>1. TypeOK /\ StepOrder(t) /\ KnownInv /\ WinInv /\ OrderInv
  BY DEF AllHold, Holding, TakesStep
<1>2. /\ at'[t] = w /\ goal'[t] = g /\ ctl'[t] = k
      /\ \A u \in Tasks \ {t} : at'[u] = at[u] /\ goal'[u] = goal[u] /\ ctl'[u] = ctl[u]
      /\ \A u \in Tasks \ {t} : Winner(u)' = Winner(u)
      /\ Winner(t)' => Winner(t) /\ k = ctl[t] /\ ((at[t] = "claim" /\ w = "invalidate")
                                                   \/ (at[t] = "invalidate" /\ w = "transition"))
      /\ UNCHANGED <<status, seq, phase>>
      /\ \A d \in Controls : Later(d)' = Later(d)
  BY <1>1, StepMoves
<1>3. \A u \in Tasks : Winner(u) => ctl[u] \in Controls /\ at[u] \in Ops /\ Queued(u)
  BY <1>1 DEF Winner, Switches, KnownInv, Ops
<1>4. WinInv'
  <2>1. ASSUME NEW u \in Tasks, Winner(u)'
        PROVE  /\ status[ctl'[u]] # "pending"
               /\ at'[u] = "claim" => \A c \in Switches \cap Later(ctl'[u]) : status[c] # "completed"
    <3>1. CASE u # t
      BY <1>1, <1>2, <2>1, <3>1 DEF WinInv
    <3>2. CASE u = t
      <4>1. Winner(t) /\ k = ctl[t] /\ w \in {"invalidate", "transition"}
        BY <1>2, <2>1, <3>2
      <4>2. QED BY <1>1, <1>2, <3>2, <4>1 DEF WinInv
    <3>3. QED BY <3>1, <3>2
  <2>2. \A u \in Tasks : Winner(u)' => ctl'[u] \in Controls
    BY <1>2, <1>3
  <2>3. QED BY <1>2, <2>1, <2>2 DEF WinInv
<1>5. ASSUME phase = "ready", NEW u \in Tasks, NEW v \in Tasks, Winner(u)', Winner(v)', ctl'[v] \in Later(ctl'[u])
      PROVE  /\ at'[u] = at'[v] => Ahead(u, v)'
             /\ at'[v] = "invalidate" => at'[u] # "claim"
             /\ at'[v] = "transition" => at'[u] = "transition"
  <2>1. Winner(u) /\ Winner(v) /\ ctl'[u] = ctl[u] /\ ctl'[v] = ctl[v] /\ u # v
    <3>1. ctl[u] \notin Later(ctl[u])
      BY <1>1 DEF Later, TypeOK
    <3>2. QED BY <1>2, <1>5, <3>1
  <2>2. /\ at[u] = at[v] => Ahead(u, v)
        /\ at[v] = "invalidate" => at[u] # "claim"
        /\ at[v] = "transition" => at[u] = "transition"
    BY <1>1, <1>5, <2>1 DEF OrderInv
  <2>3. CASE u # t /\ v # t
    BY <1>1, <1>2, <2>2, <2>3 DEF StepOrder
  <2>4. CASE u = t
    BY <1>2, <1>5, <2>1, <2>2, <2>4 DEF Winner
  <2>5. CASE v = t
    <3>1. ~Ahead(u, t) /\ at[u] # at[t]
      BY <1>1, <2>2, <2>5 DEF StepOrder
    <3>2. Waits(calls', t)
      BY <1>2, <1>5, <2>5 DEF TakesStep, Ops
    <3>3. Ahead(u, t)'
      BY <1>1, <1>3, <2>1, <2>5, <3>2 DEF StepOrder
    <3>4. at'[u] = at[u] /\ at[u] \in {"claim", "invalidate", "transition"}
      BY <1>2, <2>1, <2>5 DEF Winner
    <3>5. QED BY <1>2, <1>5, <2>1, <2>2, <2>5, <3>1, <3>3, <3>4
  <2>6. QED BY <2>3, <2>4, <2>5
<1>6. \A u \in Tasks : Winner(u)' => Later(ctl[u])' = Later(ctl'[u])
  BY <1>2, <1>3
<1>7. QED BY <1>2, <1>4, <1>5, <1>6 DEF OrderInv

LEMMA StepPends ==
    ASSUME AllHold, NEW t \in Tasks, NEW w, NEW g, NEW k, TakesStep(t, w, g, k)
    PROVE  PendInv'
<1>1. TypeOK /\ StepOrder(t) /\ KnownInv /\ PendInv /\ OneQueue
  BY DEF AllHold, Holding, TakesStep, QueueInv
<1>2. /\ at'[t] = w /\ goal'[t] = g /\ ctl'[t] = k
      /\ \A u \in Tasks \ {t} : at'[u] = at[u] /\ ctl'[u] = ctl[u]
      /\ UNCHANGED <<status, seq, phase>>
      /\ \A d \in Controls : Later(d)' = Later(d)
  BY <1>1, StepMoves
<1>3. ASSUME phase = "ready", NEW d \in Controls, status[d] = "pending"
      PROVE  \E l \in Tasks : Leads(l, d)' /\ \A u \in Tasks : ctl'[u] \in Later(d) => Behind(l, u)'
  <2>1. PICK l \in Tasks : Leads(l, d) /\ \A u \in Tasks : ctl[u] \in Later(d) => Behind(l, u)
    BY <1>1, <1>3 DEF PendInv
  <2>2. Queued(l) /\ d \notin Later(d)
    BY <1>1, <2>1 DEF Leads, Queued, Later, TypeOK
  <2>3. CASE l = t
    <3>1. at[t] = "submit" /\ ctl[t] = d
      BY <1>1, <2>1, <2>3 DEF Leads, StepOrder
    <3>2. k = d /\ w \in {"claim", "transition"} /\ Waits(calls, t)'
      BY <1>3, <3>1 DEF TakesStep, Ops
    <3>3. Leads(t, d)'
      BY <1>2, <3>2 DEF Leads
    <3>4. ASSUME NEW u \in Tasks, ctl'[u] \in Later(d) PROVE Behind(t, u)'
      <4>1. u # t /\ ctl[u] \in Later(d)
        BY <1>2, <2>2, <3>2, <3>4
      <4>2. Behind(t, u)
        BY <2>1, <2>3, <4>1
      <4>3. at'[u] = "submit"
        BY <1>2, <3>1, <4>1, <4>2 DEF Behind
      <4>4. QED BY <1>2, <3>2, <4>3 DEF Behind
    <3>5. QED BY <3>3, <3>4, <2>3
  <2>4. CASE l # t
    <3>1. Leads(l, d)'
      BY <1>1, <1>2, <2>1, <2>4 DEF Leads, StepOrder
    <3>2. ASSUME NEW u \in Tasks, ctl'[u] \in Later(d) PROVE Behind(l, u)'
      <4>1. CASE u # t
        <5>1. Behind(l, u)
          BY <1>2, <2>1, <3>2, <4>1
        <5>2. Ahead(l, u) => Ahead(l, u)'
          BY <1>1, <2>4, <4>1 DEF StepOrder
        <5>3. QED BY <1>2, <2>4, <4>1, <5>1, <5>2 DEF Behind
      <4>2. CASE u = t
        <5>1. k \in Later(d) /\ k \in Controls /\ ~Ahead(l, t)
          BY <1>1, <1>2, <3>2, <4>2 DEF Later, StepOrder
        <5>2. w \in Ops
          <6>1. CASE w = "submit"
            BY <6>1 DEF Ops
          <6>2. CASE k = ctl[t]
            <7>1. at[t] = "submit" /\ at[l] # "submit"
              BY <2>1, <5>1, <6>2 DEF Behind
            <7>2. status[k] = "pending"
              BY <1>1, <1>3, <5>1 DEF PendInv
            <7>3. QED BY <6>2, <7>1, <7>2 DEF TakesStep, Ops
          <6>3. QED BY <5>1, <6>1, <6>2, ControlsAssumption DEF TakesStep
        <5>3. Ahead(l, t)'
          BY <1>1, <2>2, <2>4, <5>2 DEF StepOrder, TakesStep
        <5>4. w = "submit" \/ at[l] # "submit"
          BY <2>1, <5>1, ControlsAssumption DEF Behind, TakesStep
        <5>5. QED BY <1>2, <2>4, <4>2, <5>3, <5>4 DEF Behind
      <4>3. QED BY <4>1, <4>2
    <3>3. QED BY <3>1, <3>2
  <2>5. QED BY <2>3, <2>4
<1>4. QED BY <1>1, <1>2, <1>3 DEF PendInv

LEMMA StepBoots ==
    ASSUME AllHold, NEW t \in Tasks, NEW w, NEW g, NEW k, TakesStep(t, w, g, k)
    PROVE  BootInv'
<1>1. /\ TypeOK /\ StepOrder(t) /\ KnownInv /\ BootInv /\ RoleInv /\ OneQueue
      /\ "boot" \in Tasks /\ None \notin Controls /\ "boot" \notin Handlers
  BY ControlsAssumption, HandlersAssumption DEF AllHold, Holding, TakesStep, QueueInv, Tasks
<1>2. /\ at'[t] = w /\ goal'[t] = g /\ ctl'[t] = k
      /\ \A u \in Tasks \ {t} : at'[u] = at[u] /\ goal'[u] = goal[u] /\ ctl'[u] = ctl[u]
      /\ UNCHANGED <<status, seq, todo, phase>>
  BY <1>1, StepMoves
<1>3. CASE t # "boot"
  <2>1. at'["boot"] = at["boot"] /\ ctl'["boot"] = ctl["boot"] /\ goal'["boot"] = goal["boot"]
        /\ (Waits(calls, "boot")' <=> Waits(calls, "boot"))
        /\ (Waits(replies, "boot")' <=> Waits(replies, "boot"))
    BY <1>1, <1>2, <1>3 DEF StepOrder
  <2>2. \A d \in Controls : Undone(d)' <=> Undone(d)
    BY <1>2 DEF Undone
  <2>3. QED BY <1>1, <1>2, <2>1, <2>2 DEF BootInv
<1>4. CASE t = "boot"
  <2>1. /\ at'["boot"] = w /\ ctl'["boot"] = k /\ w # "claim" /\ ~Waits(replies, "boot")'
        /\ (k # ctl["boot"] => at["boot"] = "transition") /\ k \in {ctl["boot"], None}
        /\ (at["boot"] = "restore" => w = "list") /\ ~Waits(calls, "boot")
        /\ (w \in Ops <=> Waits(calls, "boot")')
    BY <1>1, <1>2, <1>4 DEF TakesStep, StepOrder
  <2>2. ASSUME phase = "starting", ~(w = "restore" \/ (w = "list" /\ Waits(calls, "boot")')),
               NEW d \in Controls, Undone(d)
        PROVE  \/ todo["boot"][d] # "none"
               \/ k = d /\ ~(w = "transition" /\ Waits(replies, "boot")')
    <3>1. at["boot"] # "restore"
      BY <2>1, <2>2 DEF Ops
    <3>2. \/ todo["boot"][d] # "none"
          \/ ctl["boot"] = d /\ ~(at["boot"] = "transition" /\ Waits(replies, "boot"))
      BY <1>1, <2>1, <2>2, <3>1 DEF BootInv
    <3>3. at["boot"] = "transition" => Waits(replies, "boot")
      BY <1>1, <2>1 DEF KnownInv, Queued, Ops
    <3>4. QED BY <2>1, <3>2, <3>3
  <2>3. \A d \in Controls : Undone(d)' <=> Undone(d)
    BY <1>2 DEF Undone
  <2>4. QED BY <1>1, <1>2, <2>1, <2>2, <2>3 DEF BootInv
<1>5. QED BY <1>3, <1>4

LEMMA StepKeeps ==
    ASSUME AllHold, NEW t \in Tasks, NEW w, NEW g, NEW k, TakesStep(t, w, g, k)
    PROVE  Holding'
BY StepKnown, StepOrders, StepPends, StepBoots DEF Holding


-----------------------------------------------------------------------------
(* The steps of tasks.                                                      *)
LEMMA LeaveKeeps ==
    ASSUME AllHold, NEW t \in Tasks, NEW op, Answered(t, op), Leave(t), UNCHANGED <<rows, todo, phase>>,
           ~(Winner(t) /\ at[t] \in {"claim", "invalidate"}),
           ~(at[t] = "submit" /\ status[ctl[t]] = "pending"),
           t = "boot" => at[t] = "transition"
    PROVE  Holding'
<1>1. TypeOK /\ OneQueue /\ calls' = calls /\ None \notin Switches
  BY ControlsAssumption DEF AllHold, Holding, QueueInv, Leave, Switches
<1>2. StepOrder(t) /\ ~Waits(calls', t)
  BY <1>1, HeardOrder DEF StepOrder
<1>3. PICK w \in {"idle", "next"} : Goes(t, w, "none", None)
  BY DEF Leave, Goes
<1>4. \A u \in Tasks \ {t} : saw'[u] = saw[u]
  BY <1>1 DEF Leave, TypeOK
<1>5. TakesStep(t, w, "none", None)
  BY <1>1, <1>2, <1>3, <1>4 DEF TakesStep, Ops
<1>6. QED BY <1>5, StepKeeps

LEMMA CallKeeps ==
    ASSUME AllHold, NEW t \in Tasks, NEW w \in {"claim", "invalidate", "transition"}, NEW g,
           (\E op : Answered(t, op)) \/ (~Queued(t) /\ UNCHANGED replies),
           Call(t, w), goal' = [goal EXCEPT ![t] = g], UNCHANGED <<rows, todo, phase, ctl, saw>>,
           g \in {"waiting", "ambiguous"} => ctl[t] \notin Switches,
           w = "claim" => g = "none" /\ at[t] = "submit",
           ctl[t] \in Switches /\ w = "invalidate" => Winner(t) /\ at[t] = "claim" /\ g = "completed",
           ctl[t] \in Switches /\ w = "transition" /\ g \in {"completed", "failed"} =>
             Winner(t) /\ at[t] = "invalidate",
           Winner(t) /\ at[t] = "claim" => w = "invalidate",
           Winner(t) /\ at[t] = "invalidate" => w = "transition" /\ g \in {"completed", "failed"},
           at[t] = "submit" => w \in {"claim", "transition"},
           at[t] # "restore"
    PROVE  Holding'
<1>1. TypeOK /\ OneQueue /\ calls' = Append(calls, t) /\ (at[t] = "submit" => t \in Handlers)
      /\ "boot" \notin Handlers
  BY HandlersAssumption DEF AllHold, Holding, QueueInv, Call, KnownInv
<1>2. StepOrder(t) /\ Waits(calls', t)
  BY <1>1, HeardOrder, UnqueuedOrder
<1>3. Goes(t, w, g, ctl[t])
  BY <1>1 DEF Call, Goes, TypeOK
<1>4. TakesStep(t, w, g, ctl[t])
  BY <1>1, <1>2, <1>3 DEF TakesStep, Ops, Idling
<1>5. QED BY <1>4, StepKeeps

LEMMA TasksHold ==
    ASSUME AllHold, NEW t \in Tasks,
           Consume(t) \/ SendExit(t) \/ ExitAnswered(t) \/ InvalidateFails(t)
    PROVE  Holding'
<1>t. TypeOK /\ TaskInv /\ OneQueue /\ KnownInv /\ RoleInv /\ BootInv /\ Switches \subseteq Controls
  BY DEF AllHold, Holding, QueueInv, Switches
<1>f. /\ at = [at EXCEPT ![t] = at[t]] /\ goal = [goal EXCEPT ![t] = goal[t]]
      /\ ctl = [ctl EXCEPT ![t] = ctl[t]]
  BY <1>t DEF TypeOK
<1>h. ASSUME NEW op, Answered(t, op)
      PROVE  at[t] = op /\ Waits(replies, t)
  <2>1. replies \in Seq(Tasks) /\ replies # <<>> /\ t = Head(replies) /\ OneEach(replies) /\ at[t] = op
    BY <1>t, <1>h DEF Answered, TypeOK, OneQueue
  <2>2. QED BY <2>1, Popped
<1>3. CASE Submitted(t)
  <2>1. Answered(t, "submit") /\ UNCHANGED <<rows, todo, phase>> /\ goal[t] = "none" /\ ctl[t] \in Controls
        /\ at[t] = "submit" /\ Waits(replies, t)
    BY <1>t, <1>3, <1>h DEF Submitted, TaskInv, Ops
  <2>2. CASE saw[t] \in Final /\ Leave(t)
    <3>1. status[ctl[t]] # "pending"
      BY <1>t, <2>1, <2>2 DEF KnownInv, Final
    <3>2. t # "boot"
      BY <1>t, <2>1, HandlersAssumption DEF KnownInv
    <3>3. QED BY <2>1, <2>2, <3>1, <3>2, LeaveKeeps
  <2>3. CASE RejectOrClaim(t, ctl[t]) /\ UNCHANGED <<ctl, saw>>
    <3>1. CASE Mark(t, "rejected")
      BY <2>1, <2>3, <3>1, CallKeeps DEF Mark
    <3>2. CASE Call(t, "claim") /\ UNCHANGED goal
      <4>1. goal' = [goal EXCEPT ![t] = "none"]
        BY <1>f, <2>1, <3>2
      <4>2. QED BY <2>1, <2>3, <3>2, <4>1, CallKeeps
    <3>3. QED BY <2>3, <3>1, <3>2 DEF RejectOrClaim
  <2>4. QED BY <1>3, <2>2, <2>3 DEF Submitted
<1>4. CASE Claimed(t)
  <2>1. Answered(t, "claim") /\ at[t] = "claim" /\ Waits(replies, t) /\ UNCHANGED <<rows, todo, phase>>
    BY <1>4, <1>h DEF Claimed
  <2>2. CASE goal[t] = "none" /\ Leave(t)
    <3>1. t # "boot"
      BY <1>t, <2>1, <2>2 DEF BootInv, RoleInv, TypeOK
    <3>2. QED BY <2>1, <2>2, <3>1, LeaveKeeps DEF Winner
  <2>3. CASE goal[t] # "none" /\ Action(ctl[t]) # "flatten" /\ ApplyLocal(t, ctl[t]) /\ UNCHANGED <<ctl, saw>>
    <3>1. CASE Action(ctl[t]) = "set_mode" /\ Mark(t, "rejected")
      <4>1. ctl[t] \notin Switches
        BY <3>1 DEF Switches
      <4>2. QED BY <2>1, <2>3, <3>1, <4>1, CallKeeps DEF Mark, Winner
    <3>2. CASE InvalidateThenMark(t, "completed")
      BY <2>1, <2>3, <3>2, CallKeeps DEF InvalidateThenMark, Winner
    <3>3. QED BY <2>3, <3>1, <3>2 DEF ApplyLocal
  <2>4. CASE /\ Action(ctl[t]) = "flatten" /\ at' = [at EXCEPT ![t] = "exiting"]
             /\ UNCHANGED <<calls, ctl, goal, saw>>
    <3>1. Goes(t, "exiting", goal[t], ctl[t]) /\ ctl[t] \notin Switches
      BY <1>f, <2>4 DEF Goes, Switches
    <3>2. StepOrder(t) /\ ~Waits(calls', t)
      BY <1>t, <2>1, <2>4, HeardOrder DEF StepOrder
    <3>3. TakesStep(t, "exiting", goal[t], ctl[t])
      BY <2>1, <2>4, <3>1, <3>2 DEF TakesStep, Ops, Idling, Winner
    <3>4. QED BY <3>3, StepKeeps
  <2>5. CASE Action(ctl[t]) = "flatten" /\ InvalidateThenMark(t, Settled) /\ UNCHANGED <<ctl, saw>>
    <3>1. ctl[t] \notin Switches
      BY <2>5 DEF Switches
    <3>2. QED BY <2>1, <2>5, <3>1, CallKeeps DEF InvalidateThenMark, Winner
  <2>6. QED BY <1>4, <2>2, <2>3, <2>4, <2>5 DEF Claimed
<1>5. CASE Invalidated(t)
  <2>1. Answered(t, "invalidate") /\ at[t] = "invalidate" /\ Call(t, "transition")
        /\ UNCHANGED <<rows, todo, phase, ctl, goal, saw>>
    BY <1>5, <1>h DEF Invalidated
  <2>2. goal[t] \in {"waiting", "ambiguous"} => ctl[t] \notin Switches
    BY <1>t DEF KnownInv
  <2>3. QED BY <1>f, <2>1, <2>2, CallKeeps DEF Winner
<1>6. CASE InvalidateFails(t)
  <2>1. Answered(t, "invalidate") /\ at[t] = "invalidate" /\ Mark(t, "failed")
        /\ UNCHANGED <<rows, todo, phase, ctl, saw>>
    BY <1>6, <1>h DEF InvalidateFails
  <2>2. ctl[t] \in Switches => Winner(t)
    BY <1>t, <2>1 DEF KnownInv, Winner
  <2>3. QED BY <2>1, <2>2, CallKeeps DEF Mark
<1>7. CASE Transitioned(t)
  <2>1. Answered(t, "transition") /\ at[t] = "transition" /\ Leave(t) /\ UNCHANGED <<rows, todo, phase>>
    BY <1>7, <1>h DEF Transitioned
  <2>2. QED BY <2>1, LeaveKeeps
<1>8. CASE Listed(t)
  <2>1. Answered(t, "list") /\ at[t] = "list" /\ Goes(t, "next", goal[t], ctl[t])
        /\ UNCHANGED <<rows, todo, phase, calls, saw>>
    BY <1>f, <1>8, <1>h DEF Listed, Goes
  <2>2. StepOrder(t) /\ ~Waits(calls', t)
    BY <1>t, <2>1, HeardOrder DEF StepOrder
  <2>3. ctl[t] = None /\ None \notin Switches /\ goal[t] = "none"
    BY <1>t, <2>1, ControlsAssumption DEF KnownInv, TaskInv, Idling
  <2>4. TakesStep(t, "next", goal[t], ctl[t])
    BY <2>1, <2>2, <2>3 DEF TakesStep, Ops, Idling, Winner
  <2>5. QED BY <2>4, StepKeeps
<1>9. CASE SendExit(t) \/ ExitAnswered(t)
  <2>1. at[t] \in {"exiting", "exit_sent"} /\ ctl[t] \notin Switches /\ ~Queued(t)
        /\ UNCHANGED <<rows, todo, phase, ctl, saw, replies>>
    BY <1>9, <1>t DEF SendExit, ExitAnswered, AllHold, Holding, QueueInv, Ops, KnownInv
  <2>2. CASE at' = [at EXCEPT ![t] = "exit_sent"] /\ UNCHANGED <<calls, goal>>
    <3>1. Goes(t, "exit_sent", goal[t], ctl[t])
      BY <1>f, <2>1, <2>2 DEF Goes
    <3>2. StepOrder(t) /\ ~Waits(calls', t)
      BY <1>t, <2>1, <2>2, UnqueuedOrder DEF StepOrder
    <3>3. TakesStep(t, "exit_sent", goal[t], ctl[t])
      BY <2>1, <2>2, <3>1, <3>2 DEF TakesStep, Ops, Idling, Winner
    <3>4. QED BY <3>3, StepKeeps
  <2>3. ASSUME NEW w \in {"invalidate", "transition"}, NEW g, Call(t, w), goal' = [goal EXCEPT ![t] = g]
        PROVE  Holding'
    BY <2>1, <2>3, CallKeeps DEF Winner
  <2>4. QED
    BY <1>9, <2>2, <2>3 DEF SendExit, ExitAnswered, Mark, InvalidateThenMark
<1>10. QED
  BY <1>3, <1>4, <1>5, <1>6, <1>7, <1>8, <1>9 DEF Consume

-----------------------------------------------------------------------------
(* Idle tasks take to something, the start ends, rows are visited.          *)
LEMMA StartsHold ==
    ASSUME AllHold,
           StartTimer \/ TimerEnds \/ Restore \/ \E h \in Handlers, c \in Controls : PostControl(h, c)
    PROVE  Holding'
<1>t. /\ TypeOK /\ TaskInv /\ OneQueue /\ KnownInv
      /\ "boot" \in Tasks /\ "timer" \in Tasks /\ Handlers \subseteq Tasks
      /\ Handlers \cap {"boot", "timer"} = {} /\ None \notin Switches
  BY HandlersAssumption, ControlsAssumption DEF AllHold, Holding, QueueInv, Tasks, Switches
<1>f. \A t \in Tasks : goal = [goal EXCEPT ![t] = goal[t]] /\ ctl = [ctl EXCEPT ![t] = ctl[t]]
  BY <1>t DEF TypeOK
<1>q. ASSUME NEW t \in Tasks, at[t] \in Idling, UNCHANGED replies, calls' \in {calls, Append(calls, t)}
      PROVE  /\ StepOrder(t) /\ (Waits(calls', t) <=> calls' # calls)
             /\ ctl[t] = None /\ goal[t] = "none" /\ ~Winner(t)
  <2>1. ~Queued(t) /\ calls \in Seq(Tasks)
    BY <1>q, <1>t DEF AllHold, Holding, QueueInv, Ops, Idling, TypeOK
  <2>2. StepOrder(t) /\ (Waits(calls', t) <=> calls' = Append(calls, t))
    BY <1>t, <1>q, <2>1, UnqueuedOrder
  <2>3. Append(calls, t) # calls
    <3>1. Len(Append(calls, t)) = Len(calls) + 1 /\ Len(calls) \in Nat
      BY <2>1
    <3>2. QED BY <3>1
  <2>4. ctl[t] = None /\ goal[t] = "none"
    BY <1>q, <1>t DEF KnownInv, TaskInv
  <2>5. QED BY <1>q, <1>t, <2>2, <2>3, <2>4 DEF Winner
<1>1. CASE StartTimer
  <2>1. Goes("timer", "list", goal["timer"], ctl["timer"]) /\ at["timer"] = "idle"
        /\ calls' = Append(calls, "timer") /\ UNCHANGED <<replies, rows, todo, phase, saw>>
    BY <1>f, <1>t, <1>1 DEF StartTimer, StartList, Call, Goes
  <2>2. TakesStep("timer", "list", goal["timer"], ctl["timer"])
    BY <1>t, <1>q, <2>1 DEF TakesStep, Ops, Idling, StepOrder
  <2>3. QED BY <1>t, <2>2, StepKeeps
<1>2. CASE Restore
  <2>1. Goes("boot", "list", goal["boot"], ctl["boot"]) /\ at["boot"] = "restore"
        /\ calls' = Append(calls, "boot") /\ UNCHANGED <<replies, rows, todo, phase, saw>>
    BY <1>f, <1>t, <1>2 DEF Restore, StartList, Call, Goes
  <2>2. TakesStep("boot", "list", goal["boot"], ctl["boot"])
    BY <1>t, <1>q, <2>1 DEF TakesStep, Ops, Idling, StepOrder
  <2>3. QED BY <1>t, <2>2, StepKeeps
<1>3. CASE TimerEnds
  <2>1. Goes("timer", "idle", goal["timer"], ctl["timer"]) /\ at["timer"] = "next"
        /\ UNCHANGED <<calls, replies, rows, todo, phase, saw>>
    BY <1>f, <1>t, <1>3 DEF TimerEnds, NothingLeft, Goes, queues
  <2>2. TakesStep("timer", "idle", goal["timer"], ctl["timer"])
    BY <1>t, <1>q, <2>1 DEF TakesStep, Ops, Idling, StepOrder
  <2>3. QED BY <1>t, <2>2, StepKeeps
<1>4. ASSUME NEW h \in Handlers, NEW c \in Controls, PostControl(h, c) PROVE Holding'
  <2>1. Goes(h, "submit", goal[h], c) /\ at[h] = "idle"
        /\ calls' = Append(calls, h) /\ UNCHANGED <<replies, rows, todo, phase, saw>>
    BY <1>f, <1>t, <1>4 DEF PostControl, Call, Goes
  <2>2. TakesStep(h, "submit", goal[h], c)
    BY <1>t, <1>q, <2>1 DEF TakesStep, Ops, Idling, StepOrder
  <2>3. QED BY <1>t, <2>2, StepKeeps
<1>5. QED BY <1>1, <1>2, <1>3, <1>4

(* When the gateway begins to listen, every row is settled.                 *)
LEMMA BootEndsHolds == ASSUME AllHold, BootEnds PROVE Holding'
<1>1. /\ TypeOK /\ TaskInv /\ QueueInv /\ RoleInv /\ KnownInv /\ BootInv /\ NumberInv /\ AppliedInv
      /\ "boot" \in Tasks /\ "timer" \in Tasks /\ None \notin Controls /\ Switches \subseteq Controls
  BY ControlsAssumption DEF AllHold, Holding, Tasks, Switches
<1>2. /\ at["boot"] = "next" /\ \A c \in Controls : todo["boot"][c] = "none"
      /\ at' = [at EXCEPT !["boot"] = "idle"] /\ phase' = "ready"
      /\ UNCHANGED <<status, seq, lastSeq, calls, replies, ctl, saw, goal, todo>>
  BY DEF BootEnds, NothingLeft, rows, queues
<1>3. phase = "starting" /\ ctl["boot"] = None /\ \A h \in Handlers : at[h] = "idle"
  BY <1>1, <1>2 DEF RoleInv, TypeOK
<1>4. \A d \in Controls : ~Undone(d)
  BY <1>1, <1>2, <1>3 DEF BootInv
<1>5. \A t \in Tasks : ~Winner(t)'
  <2>1. ctl["timer"] \notin Switches /\ ctl["boot"] \notin Switches
    BY <1>1, <1>3 DEF KnownInv
  <2>2. QED BY <1>1, <1>2, <1>3, <2>1 DEF Winner, Tasks, TypeOK
<1>6. NumberInv'
  BY <1>1, <1>2 DEF NumberInv
<1>7. KnownInv'
  <2>1. \A t \in Tasks : at'[t] = at[t] \/ (t = "boot" /\ at'[t] = "idle")
    BY <1>1, <1>2 DEF TypeOK
  <2>2. \A t \in Tasks : /\ Waits(calls', t) <=> Waits(calls, t)
                         /\ Waits(replies', t) <=> Waits(replies, t)
                         /\ Queued(t)' <=> Queued(t)
    BY <1>2 DEF Queued
  <2>3. ~Queued("boot")
    BY <1>1, <1>2 DEF QueueInv, Ops
  <2>4. ASSUME NEW t \in Tasks
        PROVE  /\ at'[t] \in Ops => Queued(t)'
               /\ at'[t] \in Idling \cup {"list"} => ctl[t] = None
               /\ at'[t] = "submit" => t \in Handlers
               /\ at'[t] = "invalidate" /\ ctl[t] \in Switches => goal[t] = "completed"
               /\ ctl[t] \in Controls /\ ~(at'[t] = "submit" /\ Waits(calls', t)) => status[ctl[t]] # "absent"
               /\ at'[t] = "submit" /\ Waits(replies', t) /\ saw[t] # "pending" => status[ctl[t]] # "pending"
               /\ at'[t] \in {"exiting", "exit_sent"} => ctl[t] \notin Switches
    <3>1. CASE at'[t] = at[t]
      BY <1>1, <2>2, <3>1 DEF KnownInv
    <3>2. CASE t = "boot" /\ at'[t] = "idle"
      BY <1>1, <1>3, <3>2 DEF Ops, Idling
    <3>3. QED BY <2>1, <3>1, <3>2
  <2>5. QED BY <1>1, <1>2, <2>4 DEF KnownInv
<1>8. PendInv' /\ AppliedInv'
  BY <1>1, <1>2, <1>4 DEF PendInv, AppliedInv, Undone
<1>9. WinInv' /\ OrderInv' /\ BootInv'
  BY <1>2, <1>5 DEF WinInv, OrderInv, BootInv
<1>10. QED BY <1>6, <1>7, <1>8, <1>9 DEF Holding

(* A row that is visited and taken.                                         *)
LEMMA VisitHolds ==
    ASSUME AllHold, NEW t \in {"boot", "timer"}, NEW c \in Controls, Visit(t, c), Take(t, c),
           NEW w \in {"claim", "invalidate", "transition"}, NEW g, Call(t, w), goal' = [goal EXCEPT ![t] = g],
           UNCHANGED <<rows, phase, replies>>,
           w = "claim" => g = "none" /\ t = "boot" /\ todo["boot"][c] = "pending",
           g \in {"waiting", "ambiguous"} => c \notin Switches,
           c \in Switches /\ w = "invalidate" => g = "completed" /\ todo["boot"][c] = "applying",
           c \in Switches /\ w = "transition" => g \notin {"completed", "failed"}
    PROVE  Holding'
<1>1. /\ TypeOK /\ TaskInv /\ QueueInv /\ RoleInv /\ KnownInv /\ BootInv /\ NumberInv
      /\ PendInv /\ WinInv /\ OrderInv /\ AppliedInv
      /\ "boot" \in Tasks /\ "timer" \in Tasks /\ t \in Tasks
      /\ None \notin Controls /\ Switches \subseteq Controls /\ Handlers \cap {"boot", "timer"} = {}
  BY ControlsAssumption, HandlersAssumption DEF AllHold, Holding, Tasks, Switches
<1>2. /\ at[t] = "next" /\ todo[t][c] # "none"
      /\ \A d \in Controls : todo[t][d] # "none" => seq[c] <= seq[d]
      /\ todo' = [todo EXCEPT ![t][c] = "none"]
      /\ at' = [at EXCEPT ![t] = w] /\ ctl' = [ctl EXCEPT ![t] = c] /\ saw' = [saw EXCEPT ![t] = todo[t][c]]
      /\ calls' = Append(calls, t)
      /\ UNCHANGED <<status, seq, lastSeq>>
  BY DEF Visit, IsNext, Take, Call, rows
<1>3. /\ ~Queued(t) /\ ctl[t] = None /\ (t = "boot" => phase = "starting")
  BY <1>1, <1>2 DEF QueueInv, Ops, Idling, KnownInv, RoleInv, TypeOK
<1>4. StepOrder(t) /\ Waits(calls', t)
  BY <1>1, <1>2, <1>3, UnqueuedOrder DEF QueueInv
<1>5. /\ at'[t] = w /\ ctl'[t] = c /\ goal'[t] = g
      /\ \A u \in Tasks \ {t} : at'[u] = at[u] /\ ctl'[u] = ctl[u] /\ goal'[u] = goal[u] /\ saw'[u] = saw[u]
      /\ \A u \in Tasks \ {t} : Winner(u)' = Winner(u)
      /\ \A d \in Controls : Later(d)' = Later(d)
      /\ ~Winner(t)
  <2>1. /\ at'[t] = w /\ ctl'[t] = c /\ goal'[t] = g
        /\ \A u \in Tasks \ {t} : at'[u] = at[u] /\ ctl'[u] = ctl[u] /\ goal'[u] = goal[u] /\ saw'[u] = saw[u]
    BY <1>1, <1>2 DEF TypeOK
  <2>2. QED BY <1>1, <1>2, <1>3, <2>1 DEF Winner, Later
<1>6. /\ \A u \in Tasks, d \in Controls : todo'[u][d] = IF u = t /\ d = c THEN "none" ELSE todo[u][d]
  BY <1>1, <1>2 DEF TypeOK
<1>7. /\ status[c] # "absent" /\ (t = "timer" => status[c] # "pending" /\ c \notin Switches)
      /\ (c \in Switches /\ w = "invalidate" => status[c] # "pending")
  <2>1. status[c] # "absent" /\ (todo[t][c] # "pending" => status[c] # "pending")
    BY <1>1, <1>2 DEF KnownInv
  <2>2. t = "timer" => todo[t][c] # "pending" /\ c \notin Switches
    BY <1>1, <1>2 DEF KnownInv
  <2>3. QED BY <1>1, <2>1, <2>2 DEF KnownInv
<1>8. \A u \in Tasks \ {t} : /\ Waits(calls', u) <=> Waits(calls, u)
                             /\ Waits(replies', u) <=> Waits(replies, u)
                             /\ Queued(u)' <=> Queued(u)
  BY <1>4 DEF StepOrder, Queued
<1>9. ~Waits(replies', t)
  BY <1>4 DEF StepOrder
<1>10. NumberInv'
  BY <1>1, <1>2 DEF NumberInv
<1>11. KnownInv'
  <2>1. ASSUME NEW u \in Tasks
        PROVE /\ at'[u] \in Ops => Queued(u)'
              /\ at'[u] \in Idling \cup {"list"} => ctl'[u] = None
              /\ at'[u] = "submit" => u \in Handlers
              /\ at'[u] = "invalidate" /\ ctl'[u] \in Switches => goal'[u] = "completed"
              /\ ctl'[u] \in Controls /\ ~(at'[u] = "submit" /\ Waits(calls', u)) => status[ctl'[u]] # "absent"
              /\ at'[u] = "submit" /\ Waits(replies', u) /\ saw'[u] # "pending" => status[ctl'[u]] # "pending"
              /\ at'[u] \in {"exiting", "exit_sent"} \/ goal'[u] \in {"waiting", "ambiguous"} => ctl'[u] \notin Switches
    <3>1. CASE u # t
      <4>1. /\ at[u] \in Ops => Queued(u)
            /\ at[u] \in Idling \cup {"list"} => ctl[u] = None
            /\ at[u] = "submit" => u \in Handlers
            /\ at[u] = "invalidate" /\ ctl[u] \in Switches => goal[u] = "completed"
            /\ ctl[u] \in Controls /\ ~(at[u] = "submit" /\ Waits(calls, u)) => status[ctl[u]] # "absent"
            /\ at[u] = "submit" /\ Waits(replies, u) /\ saw[u] # "pending" => status[ctl[u]] # "pending"
            /\ at[u] \in {"exiting", "exit_sent"} \/ goal[u] \in {"waiting", "ambiguous"} => ctl[u] \notin Switches
        BY <1>1 DEF KnownInv
      <4>2. at'[u] = at[u] /\ ctl'[u] = ctl[u] /\ goal'[u] = goal[u] /\ saw'[u] = saw[u]
        BY <1>5, <3>1
      <4>3. /\ Waits(calls', u) <=> Waits(calls, u)
            /\ Waits(replies', u) <=> Waits(replies, u)
            /\ Queued(u)' <=> Queued(u)
        BY <1>8, <3>1
      <4>4. QED BY <4>1, <4>2, <4>3
    <3>2. CASE u = t
      BY <1>4, <1>5, <1>7, <3>2 DEF Queued, Idling
    <3>3. QED BY <3>1, <3>2
  <2>2. ctl'["timer"] \in Controls => status[ctl'["timer"]] # "pending"
    BY <1>1, <1>5, <1>7 DEF KnownInv
  <2>3. ctl'["timer"] \notin Switches
    BY <1>1, <1>5, <1>7 DEF KnownInv
  <2>4. /\ \A u \in Tasks, d \in Controls : /\ todo'[u][d] # "none" => status[d] # "absent"
                                            /\ todo'[u][d] \notin {"none", "pending"} => status[d] # "pending"
        /\ \A d \in Controls : todo'["timer"][d] # "pending"
        /\ \A d \in Switches : todo'["timer"][d] = "none" /\ todo'["boot"][d] # "waiting" /\ status[d] # "waiting"
    BY <1>1, <1>6 DEF KnownInv
  <2>5. QED BY <1>2, <2>1, <2>2, <2>3, <2>4 DEF KnownInv
<1>12. PendInv'
  <2>1. ASSUME phase = "ready", NEW d \in Controls, status[d] = "pending"
        PROVE  /\ \A e \in Later(d) : status[e] = "pending"
               /\ \E l \in Tasks : Leads(l, d)' /\ \A u \in Tasks : ctl'[u] \in Later(d) => Behind(l, u)'
    <3>1. PICK l \in Tasks : Leads(l, d) /\ \A u \in Tasks : ctl[u] \in Later(d) => Behind(l, u)
      BY <1>1, <2>1 DEF PendInv
    <3>2. /\ \A e \in Later(d) : status[e] = "pending"
          /\ l # t /\ t = "timer" /\ c \notin Later(d)
      BY <1>1, <1>3, <1>7, <2>1, <3>1 DEF PendInv, Leads
    <3>3. Leads(l, d)'
      BY <1>5, <1>8, <3>1, <3>2 DEF Leads
    <3>4. ASSUME NEW u \in Tasks, ctl'[u] \in Later(d) PROVE Behind(l, u)'
      <4>1. u # t /\ Behind(l, u)
        BY <1>5, <3>1, <3>2, <3>4
      <4>2. Ahead(l, u) => Ahead(l, u)'
        BY <1>4, <3>2, <4>1 DEF StepOrder
      <4>3. QED BY <1>5, <3>2, <4>1, <4>2 DEF Behind
    <3>5. QED BY <3>2, <3>3, <3>4
  <2>2. QED BY <1>2, <1>5, <2>1 DEF PendInv
<1>13. Winner(t)' => t = "boot" /\ w = "invalidate"
  BY <1>5, <1>7 DEF Winner
<1>14. \A u \in Tasks : Winner(u)' => ctl'[u] \in Controls
  BY <1>1 DEF Winner, Switches
<1>15. WinInv'
  <2>1. ASSUME NEW u \in Tasks, Winner(u)'
        PROVE  /\ status[ctl'[u]] # "pending"
               /\ at'[u] = "claim" => \A e \in Switches \cap Later(ctl'[u]) : status[e] # "completed"
    <3>1. CASE u # t
      BY <1>1, <1>5, <2>1, <3>1 DEF WinInv
    <3>2. CASE u = t
      BY <1>5, <1>7, <1>13, <2>1, <3>2 DEF Winner
    <3>3. QED BY <3>1, <3>2
  <2>2. QED BY <1>2, <1>5, <1>14, <2>1 DEF WinInv
<1>16. OrderInv'
  <2>1. ASSUME phase = "ready", NEW u \in Tasks, NEW v \in Tasks, Winner(u)', Winner(v)',
               ctl'[v] \in Later(ctl'[u])
        PROVE  /\ at'[u] = at'[v] => Ahead(u, v)'
               /\ at'[v] = "invalidate" => at'[u] # "claim"
               /\ at'[v] = "transition" => at'[u] = "transition"
    <3>1. u # t /\ v # t
      BY <1>3, <1>13, <2>1
    <3>2. QED BY <1>1, <1>4, <1>5, <2>1, <3>1 DEF OrderInv, StepOrder
  <2>2. QED BY <1>2, <1>5, <1>14, <2>1 DEF OrderInv
<1>17. AppliedInv'
  <2>1. ASSUME phase = "ready", NEW d \in Switches, status[d] = "applying"
        PROVE  \E u \in Tasks : ctl'[u] = d /\ Winner(u)' /\ (at'[u] = "transition" => Waits(calls', u))
    <3>1. PICK u \in Tasks : ctl[u] = d /\ Winner(u) /\ (at[u] = "transition" => Waits(calls, u))
      BY <1>1, <2>1 DEF AppliedInv
    <3>2. u # t
      BY <1>5, <3>1
    <3>3. QED BY <1>5, <1>8, <3>1, <3>2
  <2>2. QED BY <1>1, <1>2, <2>1 DEF AppliedInv
<1>18. BootInv'
  <2>1. \A d \in Controls : Undone(d)' <=> Undone(d)
    BY <1>2 DEF Undone
  <2>2. CASE t = "timer"
    <3>1. /\ at'["boot"] = at["boot"] /\ ctl'["boot"] = ctl["boot"] /\ goal'["boot"] = goal["boot"]
          /\ (Waits(calls', "boot") <=> Waits(calls, "boot"))
          /\ (Waits(replies', "boot") <=> Waits(replies, "boot"))
          /\ \A d \in Controls : todo'["boot"][d] = todo["boot"][d]
      BY <1>1, <1>5, <1>6, <1>8, <2>2
    <3>2. QED BY <1>1, <1>2, <2>1, <3>1 DEF BootInv
  <2>3. CASE t = "boot"
    <3>1. /\ at'["boot"] = w /\ ctl'["boot"] = c
          /\ \A d \in Controls : todo'["boot"][d] = IF d = c THEN "none" ELSE todo["boot"][d]
      BY <1>1, <1>5, <1>6, <2>3
    <3>2. \A d \in Controls : Undone(d) => todo["boot"][d] # "none"
      BY <1>1, <1>2, <1>3, <2>3 DEF BootInv
    <3>3. w = "claim" => status[c] = "pending"
      BY <1>1, <1>3, <2>3 DEF BootInv
    <3>4. \A d \in Controls : /\ todo["boot"][d] = "pending" => status[d] = "pending"
                              /\ d \in Switches /\ todo["boot"][d] # "none" => status[d] = todo["boot"][d]
      BY <1>1, <1>3, <2>3 DEF BootInv
    <3>5. QED BY <1>2, <1>9, <2>1, <2>3, <3>1, <3>2, <3>3, <3>4 DEF BootInv
  <2>4. QED BY <2>2, <2>3
<1>19. QED BY <1>10, <1>11, <1>12, <1>15, <1>16, <1>17, <1>18 DEF Holding


-----------------------------------------------------------------------------
(* The worker serves a call.                                                *)
LEMMA ServeFacts ==
    ASSUME AllHold, NEW op, Serve(op), UNCHANGED <<at, ctl, phase>>
    PROVE  /\ Caller \in Tasks /\ at[Caller] = op /\ Waits(calls, Caller) /\ ~Waits(replies, Caller)
           /\ ~Waits(calls', Caller) /\ Waits(replies', Caller)
           /\ \A u \in Tasks \ {Caller} : /\ Waits(calls', u) <=> Waits(calls, u)
                                          /\ Waits(replies', u) <=> Waits(replies, u)
           /\ \A u \in Tasks : Queued(u)' <=> Queued(u)
           /\ \A u, v \in Tasks : Ahead(u, v) => Ahead(u, v)'
           /\ \A u \in Tasks : Ahead(u, Caller) <=> Waits(replies, u)
           /\ \A u, v \in Tasks : Behind(u, v) => Behind(u, v)'
           /\ phase = "starting" /\ op # "list" /\ ctl[Caller] \in Switches => Caller = "boot"
           /\ phase = "starting" => Caller \in {"boot", "timer"}
<1>1. TypeOK /\ OneQueue /\ KnownInv /\ QueueInv /\ RoleInv
  BY DEF AllHold, Holding, QueueInv
<1>2. /\ Caller \in Tasks /\ Waits(calls, Caller)
      /\ \A t \in Tasks : /\ Waits(calls', t) <=> Waits(calls, t) /\ t # Caller
                          /\ Waits(replies', t) <=> Waits(replies, t) \/ t = Caller
  BY <1>1, ServedQueue
<1>3. /\ \A t, u \in Tasks : Ahead(t, u) => Ahead(t, u)'
      /\ \A t \in Tasks : Ahead(t, Caller) => Waits(replies, t)
      /\ \A t \in Tasks : Waits(replies, t) => Ahead(t, Caller)
  BY <1>1, ServedOrder
<1>4. at[Caller] = op
  BY DEF Serve, Caller
<1>5. ~Waits(replies, Caller)
  BY <1>1, <1>2 DEF OneQueue
<1>6. phase = "starting" => Caller \in {"boot", "timer"}
  BY <1>1, <1>2 DEF QueueInv, RoleInv, Queued, Ops, Tasks
<1>7. ctl["timer"] \notin Switches
  BY <1>1 DEF KnownInv
<1>8. \A u, v \in Tasks : Behind(u, v) => Behind(u, v)'
  BY <1>3 DEF Behind
<1>9. \A u \in Tasks : Queued(u)' <=> Queued(u)
  BY <1>2 DEF Queued
<1>10. QED BY <1>2, <1>3, <1>4, <1>5, <1>6, <1>7, <1>8, <1>9

(* Nothing but a task's answer, or its list.                                *)
LEMMA ServeSame ==
    ASSUME AllHold, NEW op \in {"submit", "claim", "invalidate", "list"}, Serve(op),
           UNCHANGED <<rows, phase, at, ctl, goal>>,
           op = "submit" => status[ctl[Caller]] # "absent" /\ saw' = [saw EXCEPT ![Caller] = status[ctl[Caller]]],
           op # "submit" => UNCHANGED saw,
           op = "claim" => status[ctl[Caller]] # "pending",
           op = "list" => todo' = [todo EXCEPT ![Caller] = [c \in Controls |->
                              IF status[c] \in (IF Caller = "boot" THEN Open ELSE {"waiting"})
                                THEN status[c] ELSE "none"]],
           op # "list" => UNCHANGED todo
    PROVE  Holding'
<1>1. /\ TypeOK /\ TaskInv /\ QueueInv /\ RoleInv /\ KnownInv /\ BootInv /\ NumberInv
      /\ PendInv /\ WinInv /\ OrderInv /\ AppliedInv
      /\ "boot" \in Tasks /\ "timer" \in Tasks /\ None \notin Controls /\ Switches \subseteq Controls
      /\ UNCHANGED <<status, seq, lastSeq>>
  BY ControlsAssumption DEF AllHold, Holding, Tasks, Switches, rows
<1>2. /\ Caller \in Tasks /\ at[Caller] = op /\ Waits(calls, Caller) /\ ~Waits(replies, Caller)
      /\ ~Waits(calls', Caller) /\ Waits(replies', Caller)
      /\ \A u \in Tasks \ {Caller} : /\ Waits(calls', u) <=> Waits(calls, u)
                                     /\ Waits(replies', u) <=> Waits(replies, u)
      /\ \A u \in Tasks : Queued(u)' <=> Queued(u)
      /\ \A u, v \in Tasks : Ahead(u, v) => Ahead(u, v)'
      /\ \A u, v \in Tasks : Behind(u, v) => Behind(u, v)'
      /\ op = "list" /\ Caller = "boot" => ctl["boot"] = None
  BY <1>1, ServeFacts DEF KnownInv
<1>3. /\ \A u \in Tasks : Winner(u)' <=> Winner(u)
      /\ \A d \in Controls : Later(d)' = Later(d)
  BY <1>1 DEF Winner, Later
<1>4. \A u \in Tasks : Winner(u) => ctl[u] \in Controls
  BY <1>1 DEF Winner
<1>5. NumberInv'
  BY <1>1 DEF NumberInv
<1>6. \A u \in Tasks : saw'[u] = IF u = Caller /\ op = "submit" THEN status[ctl[u]] ELSE saw[u]
  BY <1>1, <1>2 DEF TypeOK
<1>7. \A u \in Tasks, c \in Controls :
         todo'[u][c] = IF u # Caller \/ op # "list" THEN todo[u][c]
                       ELSE IF status[c] \in (IF u = "boot" THEN Open ELSE {"waiting"}) THEN status[c] ELSE "none"
  BY <1>1, <1>2 DEF TypeOK
<1>8. KnownInv'
  <2>1. ASSUME NEW u \in Tasks
        PROVE /\ at[u] \in Ops => Queued(u)'
              /\ at[u] \in Idling \cup {"list"} => ctl[u] = None
              /\ at[u] = "submit" => u \in Handlers
              /\ at[u] = "invalidate" /\ ctl[u] \in Switches => goal[u] = "completed"
              /\ ctl[u] \in Controls /\ ~(at[u] = "submit" /\ Waits(calls', u)) => status[ctl[u]] # "absent"
              /\ at[u] = "submit" /\ Waits(replies', u) /\ saw'[u] # "pending" => status[ctl[u]] # "pending"
              /\ at[u] \in {"exiting", "exit_sent"} \/ goal[u] \in {"waiting", "ambiguous"} => ctl[u] \notin Switches
    <3>1. /\ at[u] \in Ops => Queued(u)
          /\ at[u] \in Idling \cup {"list"} => ctl[u] = None
          /\ at[u] = "submit" => u \in Handlers
          /\ at[u] = "invalidate" /\ ctl[u] \in Switches => goal[u] = "completed"
          /\ ctl[u] \in Controls /\ ~(at[u] = "submit" /\ Waits(calls, u)) => status[ctl[u]] # "absent"
          /\ at[u] = "submit" /\ Waits(replies, u) /\ saw[u] # "pending" => status[ctl[u]] # "pending"
          /\ at[u] \in {"exiting", "exit_sent"} \/ goal[u] \in {"waiting", "ambiguous"} => ctl[u] \notin Switches
      BY <1>1 DEF KnownInv
    <3>2. CASE u # Caller
      BY <1>2, <1>6, <3>1, <3>2
    <3>3. CASE u = Caller
      BY <1>2, <1>6, <3>1, <3>3
    <3>4. QED BY <3>2, <3>3
  <2>2. ASSUME NEW u \in Tasks, NEW c \in Controls
        PROVE  /\ todo'[u][c] # "none" => status[c] # "absent"
               /\ todo'[u][c] \notin {"none", "pending"} => status[c] # "pending"
    <3>1. CASE u # Caller \/ op # "list"
      BY <1>1, <1>7, <3>1 DEF KnownInv
    <3>2. CASE u = Caller /\ op = "list"
      BY <1>7, <3>2 DEF Open
    <3>3. QED BY <3>1, <3>2
  <2>3. \A c \in Controls : todo'["timer"][c] # "pending"
    BY <1>1, <1>7 DEF KnownInv
  <2>4. \A c \in Switches : todo'["timer"][c] = "none" /\ todo'["boot"][c] # "waiting" /\ status[c] # "waiting"
    BY <1>1, <1>7 DEF KnownInv
  <2>5. (ctl["timer"] \in Controls => status[ctl["timer"]] # "pending") /\ ctl["timer"] \notin Switches
    BY <1>1 DEF KnownInv
  <2>6. QED BY <1>1, <2>1, <2>2, <2>3, <2>4, <2>5 DEF KnownInv
<1>9. PendInv'
  <2>1. ASSUME phase = "ready", NEW d \in Controls, status[d] = "pending"
        PROVE  /\ \A e \in Later(d) : status[e] = "pending"
               /\ \E l \in Tasks : Leads(l, d)' /\ \A u \in Tasks : ctl[u] \in Later(d) => Behind(l, u)'
    <3>1. PICK l \in Tasks : Leads(l, d) /\ \A u \in Tasks : ctl[u] \in Later(d) => Behind(l, u)
      BY <1>1, <2>1 DEF PendInv
    <3>2. l # Caller
      BY <1>2, <2>1, <3>1 DEF Leads
    <3>3. Leads(l, d)'
      BY <1>2, <3>1, <3>2 DEF Leads
    <3>4. \A e \in Later(d) : status[e] = "pending"
      BY <1>1, <2>1 DEF PendInv
    <3>5. QED BY <1>2, <3>1, <3>3, <3>4
  <2>2. QED BY <1>1, <1>3, <2>1 DEF PendInv
<1>10. WinInv'
  BY <1>1, <1>3, <1>4 DEF WinInv
<1>11. OrderInv'
  <2>1. ASSUME phase = "ready", NEW u \in Tasks, NEW v \in Tasks, Winner(u), Winner(v), ctl[v] \in Later(ctl[u])
        PROVE  /\ at[u] = at[v] => Ahead(u, v)'
               /\ at[v] = "invalidate" => at[u] # "claim"
               /\ at[v] = "transition" => at[u] = "transition"
    BY <1>1, <1>2, <2>1 DEF OrderInv
  <2>2. QED BY <1>3, <1>4, <2>1 DEF OrderInv
<1>12. AppliedInv'
  <2>1. ASSUME phase = "ready", NEW d \in Switches, status[d] = "applying"
        PROVE  \E u \in Tasks : ctl[u] = d /\ Winner(u)' /\ (at[u] = "transition" => Waits(calls', u))
    <3>1. PICK u \in Tasks : ctl[u] = d /\ Winner(u) /\ (at[u] = "transition" => Waits(calls, u))
      BY <1>1, <2>1 DEF AppliedInv
    <3>2. at[u] = "transition" => u # Caller
      BY <1>2
    <3>3. QED BY <1>2, <1>3, <3>1, <3>2
  <2>2. QED BY <1>1, <2>1 DEF AppliedInv
<1>13. BootInv'
  <2>1. \A d \in Controls : Undone(d)' <=> Undone(d)
    BY <1>1 DEF Undone
  <2>2. ASSUME phase = "starting", ~(at["boot"] = "restore" \/ (at["boot"] = "list" /\ Waits(calls', "boot"))),
               NEW d \in Controls, Undone(d)
        PROVE  \/ todo'["boot"][d] # "none"
               \/ ctl["boot"] = d /\ ~(at["boot"] = "transition" /\ Waits(replies', "boot"))
    <3>1. CASE Caller = "boot" /\ op = "list"
      BY <1>1, <1>7, <2>2, <3>1 DEF Undone, Open
    <3>2. CASE ~(Caller = "boot" /\ op = "list")
      <4>1. at["boot"] = "list" => (Waits(calls', "boot") <=> Waits(calls, "boot"))
        BY <1>1, <1>2, <3>2
      <4>2. at["boot"] = "transition" => (Waits(replies', "boot") <=> Waits(replies, "boot"))
        BY <1>1, <1>2
      <4>3. todo'["boot"][d] = todo["boot"][d]
        BY <1>1, <1>7, <3>2
      <4>4. QED BY <1>1, <2>2, <4>1, <4>2, <4>3 DEF BootInv
    <3>3. QED BY <3>1, <3>2
  <2>3. ASSUME phase = "starting", at["boot"] = "claim"
        PROVE  (Waits(calls', "boot") => status[ctl["boot"]] = "pending")
               /\ (Waits(replies', "boot") => goal["boot"] # "none")
    <3>1. (Waits(calls, "boot") => status[ctl["boot"]] = "pending")
          /\ (Waits(replies, "boot") => goal["boot"] # "none")
      BY <1>1, <2>3 DEF BootInv
    <3>2. Caller # "boot"
      BY <1>2, <2>3, <3>1
    <3>3. QED BY <1>1, <1>2, <3>1, <3>2
  <2>4. ASSUME phase = "starting", NEW c \in Controls
        PROVE  /\ todo'["boot"][c] = "pending" => status[c] = "pending"
               /\ c \in Switches /\ todo'["boot"][c] # "none" => status[c] = todo'["boot"][c]
               /\ ctl["boot"] = c => /\ todo'["boot"][c] = "none"
                                     /\ \A d \in Controls : todo'["boot"][d] # "none" => seq[c] <= seq[d]
    <3>1. CASE Caller = "boot" /\ op = "list"
      BY <1>1, <1>2, <1>7, <3>1
    <3>2. CASE ~(Caller = "boot" /\ op = "list")
      <4>1. \A d \in Controls : todo'["boot"][d] = todo["boot"][d]
        BY <1>1, <1>7, <3>2
      <4>2. QED BY <1>1, <2>4, <4>1 DEF BootInv
    <3>3. QED BY <3>1, <3>2
  <2>5. QED BY <1>1, <2>1, <2>2, <2>3, <2>4 DEF BootInv
<1>14. QED BY <1>5, <1>8, <1>9, <1>10, <1>11, <1>12, <1>13 DEF Holding

(* A new command is numbered and stored.                                    *)
LEMMA ServeFresh ==
    ASSUME AllHold, ServeSubmit, NEW h, h = Caller, NEW c, c = ctl[h], status[c] = "absent"
    PROVE  Holding'
<1>1. /\ TypeOK /\ TaskInv /\ QueueInv /\ RoleInv /\ KnownInv /\ BootInv /\ NumberInv
      /\ PendInv /\ WinInv /\ OrderInv /\ AppliedInv
      /\ "boot" \in Tasks /\ "timer" \in Tasks /\ None \notin Controls /\ Switches \subseteq Controls
      /\ Handlers \cap {"boot", "timer"} = {}
  BY ControlsAssumption, HandlersAssumption DEF AllHold, Holding, Tasks, Switches
<1>2. /\ Serve("submit") /\ UNCHANGED <<phase, at, ctl, goal, todo>>
      /\ status' = [status EXCEPT ![c] = "pending"] /\ seq' = [seq EXCEPT ![c] = lastSeq + 1]
      /\ lastSeq' = lastSeq + 1 /\ saw' = [saw EXCEPT ![h] = status'[c]]
  BY DEF ServeSubmit
<1>3. /\ h \in Tasks /\ at[h] = "submit" /\ Waits(calls, h) /\ ~Waits(replies, h)
      /\ ~Waits(calls', h) /\ Waits(replies', h)
      /\ \A u \in Tasks \ {h} : /\ Waits(calls', u) <=> Waits(calls, u)
                                /\ Waits(replies', u) <=> Waits(replies, u)
      /\ \A u \in Tasks : Queued(u)' <=> Queued(u)
      /\ \A u, v \in Tasks : Ahead(u, v) => Ahead(u, v)'
      /\ \A u, v \in Tasks : Behind(u, v) => Behind(u, v)'
  <2>1. /\ Caller \in Tasks /\ at[Caller] = "submit" /\ Waits(calls, Caller) /\ ~Waits(replies, Caller)
        /\ ~Waits(calls', Caller) /\ Waits(replies', Caller)
        /\ \A u \in Tasks \ {Caller} : /\ Waits(calls', u) <=> Waits(calls, u)
                                       /\ Waits(replies', u) <=> Waits(replies, u)
        /\ \A u \in Tasks : Queued(u)' <=> Queued(u)
        /\ \A u, v \in Tasks : Ahead(u, v) => Ahead(u, v)'
        /\ \A u, v \in Tasks : Behind(u, v) => Behind(u, v)'
    BY <1>1, <1>2, ServeFacts
  <2>2. QED BY <2>1
<1>4. c \in Controls /\ h \in Handlers /\ phase = "ready"
  BY <1>1, <1>3 DEF TaskInv, Ops, KnownInv, RoleInv, TypeOK
<1>5. /\ \A d \in Controls : status'[d] = IF d = c THEN "pending" ELSE status[d]
      /\ \A d \in Controls : seq'[d] = IF d = c THEN lastSeq + 1 ELSE seq[d]
      /\ \A u \in Tasks : saw'[u] = IF u = h THEN "pending" ELSE saw[u]
      /\ status[c] = "absent" /\ seq[c] = 0
      /\ lastSeq \in Nat /\ \A d \in Controls : seq[d] \in Nat /\ seq[d] <= lastSeq
  BY <1>1, <1>2, <1>4 DEF TypeOK, NumberInv
<1>6. NumberInv'
  BY <1>1, <1>2, <1>4, <1>5 DEF NumberInv
<1>7. /\ \A u \in Tasks : ctl[u] = c => at[u] = "submit" /\ Waits(calls, u) /\ u \in Handlers
      /\ \A u \in Tasks : todo[u][c] = "none"
  BY <1>1, <1>4, <1>5 DEF KnownInv
<1>8. /\ Later(c)' = {} /\ \A d \in Controls : c \notin Later(d)
      /\ \A d \in Controls \ {c} : Later(d)' = Later(d) \cup {c}
  BY <1>4, <1>5 DEF Later
<1>9. /\ \A u \in Tasks : Winner(u)' <=> Winner(u)
      /\ \A u \in Tasks : Winner(u) => ctl[u] \in Controls /\ ctl[u] # c
  BY <1>1, <1>2, <1>7 DEF Winner
<1>10. KnownInv'
  <2>1. ASSUME NEW u \in Tasks
        PROVE /\ at[u] \in Ops => Queued(u)'
              /\ at[u] \in Idling \cup {"list"} => ctl[u] = None
              /\ at[u] = "submit" => u \in Handlers
              /\ at[u] = "invalidate" /\ ctl[u] \in Switches => goal[u] = "completed"
              /\ ctl[u] \in Controls /\ ~(at[u] = "submit" /\ Waits(calls', u)) => status'[ctl[u]] # "absent"
              /\ at[u] = "submit" /\ Waits(replies', u) /\ saw'[u] # "pending" => status'[ctl[u]] # "pending"
              /\ at[u] \in {"exiting", "exit_sent"} \/ goal[u] \in {"waiting", "ambiguous"} => ctl[u] \notin Switches
    <3>1. /\ at[u] \in Ops => Queued(u)
          /\ at[u] \in Idling \cup {"list"} => ctl[u] = None
          /\ at[u] = "submit" => u \in Handlers /\ ctl[u] \in Controls
          /\ at[u] = "invalidate" /\ ctl[u] \in Switches => goal[u] = "completed"
          /\ ctl[u] \in Controls /\ ~(at[u] = "submit" /\ Waits(calls, u)) => status[ctl[u]] # "absent"
          /\ at[u] = "submit" /\ Waits(replies, u) /\ saw[u] # "pending" => status[ctl[u]] # "pending"
          /\ at[u] \in {"exiting", "exit_sent"} \/ goal[u] \in {"waiting", "ambiguous"} => ctl[u] \notin Switches
      BY <1>1 DEF KnownInv, TaskInv, Ops
    <3>2. CASE u # h
      <4>1. at[u] = "submit" /\ Waits(replies, u) => ctl[u] # c
        BY <1>1, <1>7 DEF QueueInv, OneQueue
      <4>2. /\ Waits(calls', u) <=> Waits(calls, u)
            /\ Waits(replies', u) <=> Waits(replies, u)
            /\ Queued(u)' <=> Queued(u)
            /\ saw'[u] = saw[u]
        BY <1>3, <1>5, <3>2
      <4>3. ctl[u] \in Controls => status'[ctl[u]] = IF ctl[u] = c THEN "pending" ELSE status[ctl[u]]
        BY <1>5
      <4>4. QED BY <3>1, <4>1, <4>2, <4>3
    <3>3. CASE u = h
      BY <1>3, <1>4, <1>5, <3>1, <3>3
    <3>4. QED BY <3>2, <3>3
  <2>2. ASSUME NEW u \in Tasks, NEW d \in Controls
        PROVE  /\ todo[u][d] # "none" => status'[d] # "absent"
               /\ todo[u][d] \notin {"none", "pending"} => status'[d] # "pending"
    BY <1>1, <1>5, <1>7 DEF KnownInv
  <2>3. \A d \in Switches : todo["timer"][d] = "none" /\ todo["boot"][d] # "waiting" /\ status'[d] # "waiting"
    BY <1>1, <1>5 DEF KnownInv
  <2>4. /\ ctl["timer"] \in Controls => status'[ctl["timer"]] # "pending"
        /\ ctl["timer"] \notin Switches /\ \A d \in Controls : todo["timer"][d] # "pending"
    BY <1>1, <1>5, <1>7 DEF KnownInv
  <2>5. QED BY <1>2, <2>1, <2>2, <2>3, <2>4 DEF KnownInv
<1>11. PendInv'
  <2>1. ASSUME NEW d \in Controls, status'[d] = "pending"
        PROVE  /\ \A e \in Later(d)' : status'[e] = "pending"
               /\ \E l \in Tasks : Leads(l, d)' /\ \A u \in Tasks : ctl[u] \in Later(d)' => Behind(l, u)'
    <3>1. CASE d = c
      <4>1. Leads(h, c)'
        BY <1>2, <1>3 DEF Leads
      <4>2. QED BY <1>3, <1>8, <3>1, <4>1
    <3>2. CASE d # c
      <4>1. status[d] = "pending"
        BY <1>5, <2>1, <3>2
      <4>2. PICK l \in Tasks : Leads(l, d) /\ \A u \in Tasks : ctl[u] \in Later(d) => Behind(l, u)
        BY <1>1, <1>4, <4>1 DEF PendInv
      <4>3. l # h /\ Leads(l, d)'
        <5>1. l # h
          BY <3>2, <4>2 DEF Leads
        <5>2. (Waits(calls', l) <=> Waits(calls, l)) /\ (Waits(replies', l) <=> Waits(replies, l))
          BY <1>3, <5>1
        <5>3. QED BY <1>2, <4>2, <5>1, <5>2 DEF Leads
      <4>4. \A e \in Later(d) : status[e] = "pending"
        BY <1>1, <1>4, <4>1 DEF PendInv
      <4>5. \A e \in Later(d)' : status'[e] = "pending"
        BY <1>5, <1>8, <3>2, <4>4 DEF Later
      <4>6. ASSUME NEW u \in Tasks, ctl[u] \in Later(d)' PROVE Behind(l, u)'
        <5>1. CASE ctl[u] \in Later(d)
          BY <1>3, <4>2, <5>1
        <5>2. CASE ctl[u] = c
          <6>1. at[u] = "submit" /\ Waits(calls, u)
            BY <1>7, <5>2
          <6>2. at[l] = "submit" => Ahead(l, u)
            BY <4>2, <6>1 DEF Leads, Ahead
          <6>3. Behind(l, u)
            BY <6>1, <6>2 DEF Behind
          <6>4. QED BY <1>3, <6>3
        <5>3. QED BY <1>8, <3>2, <4>6, <5>1, <5>2
      <4>7. QED BY <4>3, <4>5, <4>6
    <3>3. QED BY <3>1, <3>2
  <2>2. QED BY <1>2, <2>1 DEF PendInv
<1>12. WinInv'
  <2>1. ASSUME NEW u \in Tasks, Winner(u)
        PROVE  /\ status'[ctl[u]] # "pending"
               /\ at[u] = "claim" => \A e \in Switches \cap Later(ctl[u])' : status'[e] # "completed"
    <3>1. /\ status[ctl[u]] # "pending" /\ ctl[u] \in Controls \ {c}
          /\ at[u] = "claim" => \A e \in Switches \cap Later(ctl[u]) : status[e] # "completed"
      BY <1>1, <1>9, <2>1 DEF WinInv
    <3>2. Later(ctl[u])' = Later(ctl[u]) \cup {c}
      BY <1>2, <1>8, <3>1 DEF Later
    <3>3. QED BY <1>1, <1>5, <3>1, <3>2
  <2>2. QED BY <1>2, <1>9, <2>1 DEF WinInv
<1>13. OrderInv'
  <2>1. ASSUME NEW u \in Tasks, NEW v \in Tasks, Winner(u), Winner(v), ctl[v] \in Later(ctl[u])'
        PROVE  /\ at[u] = at[v] => Ahead(u, v)'
               /\ at[v] = "invalidate" => at[u] # "claim"
               /\ at[v] = "transition" => at[u] = "transition"
    <3>1. ctl[v] \in Later(ctl[u])
      <4>1. ctl[u] \in Controls \ {c} /\ ctl[v] # c
        BY <1>9, <2>1
      <4>2. Later(ctl[u])' = Later(ctl[u]) \cup {c}
        BY <1>2, <1>8, <4>1 DEF Later
      <4>3. QED BY <2>1, <4>1, <4>2
    <3>2. QED BY <1>1, <1>3, <1>4, <2>1, <3>1 DEF OrderInv
  <2>2. QED BY <1>2, <1>9, <2>1 DEF OrderInv
<1>14. AppliedInv'
  <2>1. ASSUME NEW d \in Switches, status'[d] = "applying"
        PROVE  \E u \in Tasks : ctl[u] = d /\ Winner(u)' /\ (at[u] = "transition" => Waits(calls', u))
    <3>1. status[d] = "applying"
      BY <1>1, <1>5, <2>1
    <3>2. PICK u \in Tasks : ctl[u] = d /\ Winner(u) /\ (at[u] = "transition" => Waits(calls, u))
      BY <1>1, <1>4, <3>1 DEF AppliedInv
    <3>3. Winner(u)' /\ (at[u] = "transition" => Waits(calls', u))
      BY <1>3, <1>9, <3>2
    <3>4. QED BY <3>2, <3>3
  <2>2. ASSUME NEW e \in Switches, status'[e] = "completed", NEW d \in Switches, seq'[d] < seq'[e]
        PROVE  status'[d] \notin {"pending", "applying"}
    <3>1. e # c /\ status[e] = "completed" /\ d # c
      BY <1>1, <1>5, <2>2
    <3>2. QED BY <1>1, <1>5, <2>2, <3>1 DEF AppliedInv
  <2>3. QED BY <1>2, <2>1, <2>2 DEF AppliedInv
<1>15. BootInv'
  BY <1>2, <1>4 DEF BootInv
<1>16. QED BY <1>6, <1>10, <1>11, <1>12, <1>13, <1>14, <1>15 DEF Holding

(* Whose claim or result is served has no pending command before its own.   *)
LEMMA ServedFirst ==
    ASSUME AllHold, NEW op \in {"claim", "transition"}, Serve(op), UNCHANGED <<at, ctl, phase>>,
           NEW h, h = Caller, phase = "ready", NEW d \in Controls, status[d] = "pending"
    PROVE  ctl[h] \notin Later(d)
<1>1. OneQueue /\ PendInv
  BY DEF AllHold, Holding, QueueInv
<1>2. h \in Tasks /\ at[h] = op /\ \A u \in Tasks : Ahead(u, h) <=> Waits(replies, u)
  BY ServeFacts
<1>3. SUFFICES ASSUME ctl[h] \in Later(d) PROVE FALSE
  OBVIOUS
<1>4. PICK l \in Tasks : Leads(l, d) /\ \A u \in Tasks : ctl[u] \in Later(d) => Behind(l, u)
  BY <1>1 DEF PendInv
<1>5. at[l] # "submit" /\ Waits(replies, l)
  BY <1>2, <1>3, <1>4 DEF Behind
<1>6. Waits(calls, l)
  BY <1>4, <1>5 DEF Leads
<1>7. QED BY <1>1, <1>5, <1>6 DEF OneQueue

(* A pending command is claimed.                                            *)
LEMMA ServeWon ==
    ASSUME AllHold, ServeClaim, NEW h, h = Caller, NEW c, c = ctl[h], status[c] = "pending"
    PROVE  Holding'
<1>1. /\ TypeOK /\ TaskInv /\ QueueInv /\ RoleInv /\ KnownInv /\ BootInv /\ NumberInv
      /\ PendInv /\ WinInv /\ OrderInv /\ AppliedInv
      /\ "boot" \in Tasks /\ "timer" \in Tasks /\ None \notin Controls /\ Switches \subseteq Controls
      /\ Handlers \cap {"boot", "timer"} = {}
  BY ControlsAssumption, HandlersAssumption DEF AllHold, Holding, Tasks, Switches
<1>2. /\ Serve("claim") /\ UNCHANGED <<phase, at, ctl, saw, todo, seq, lastSeq>>
      /\ status' = [status EXCEPT ![c] = "applying"] /\ goal' = [goal EXCEPT ![h] = "completed"]
  BY DEF ServeClaim
<1>3. /\ h \in Tasks /\ at[h] = "claim" /\ Waits(calls, h) /\ ~Waits(replies, h)
      /\ ~Waits(calls', h) /\ Waits(replies', h)
      /\ \A u \in Tasks \ {h} : /\ Waits(calls', u) <=> Waits(calls, u)
                                /\ Waits(replies', u) <=> Waits(replies, u)
      /\ \A u \in Tasks : Queued(u)' <=> Queued(u)
      /\ \A u, v \in Tasks : Ahead(u, v) => Ahead(u, v)'
      /\ \A u \in Tasks : Ahead(u, h) <=> Waits(replies, u)
      /\ \A u, v \in Tasks : Behind(u, v) => Behind(u, v)'
      /\ phase = "starting" => h \in {"boot", "timer"}
  BY <1>1, <1>2, ServeFacts
<1>4. c \in Controls /\ goal[h] = "none"
  BY <1>1, <1>3 DEF TaskInv, Ops, QueueInv
<1>5. /\ \A d \in Controls : status'[d] = IF d = c THEN "applying" ELSE status[d]
      /\ \A u \in Tasks : goal'[u] = IF u = h THEN "completed" ELSE goal[u]
      /\ \A d \in Controls : Later(d)' = Later(d)
      /\ \A d \in Controls : d \notin Later(d)
  BY <1>1, <1>2, <1>3, <1>4 DEF TypeOK, Later
<1>6. NumberInv'
  BY <1>1, <1>2, <1>4, <1>5 DEF NumberInv
<1>7. /\ \A u \in Tasks \ {h} : Winner(u)' <=> Winner(u)
      /\ ~Winner(h) /\ (Winner(h)' <=> c \in Switches)
      /\ \A u \in Tasks : Winner(u)' => ctl[u] \in Controls
  BY <1>1, <1>2, <1>3, <1>4, <1>5 DEF Winner
<1>8. h # "timer" /\ (phase = "starting" => h = "boot")
  BY <1>1, <1>3, <1>4 DEF KnownInv
<1>9. phase = "ready" => \A d \in Controls : status[d] = "pending" => c \notin Later(d)
  BY <1>2, ServedFirst
<1>10. KnownInv'
  <2>1. ASSUME NEW u \in Tasks
        PROVE /\ at[u] \in Ops => Queued(u)'
              /\ at[u] \in Idling \cup {"list"} => ctl[u] = None
              /\ at[u] = "submit" => u \in Handlers
              /\ at[u] = "invalidate" /\ ctl[u] \in Switches => goal'[u] = "completed"
              /\ ctl[u] \in Controls /\ ~(at[u] = "submit" /\ Waits(calls', u)) => status'[ctl[u]] # "absent"
              /\ at[u] = "submit" /\ Waits(replies', u) /\ saw[u] # "pending" => status'[ctl[u]] # "pending"
              /\ at[u] \in {"exiting", "exit_sent"} \/ goal'[u] \in {"waiting", "ambiguous"} => ctl[u] \notin Switches
    <3>1. /\ at[u] \in Ops => Queued(u)
          /\ at[u] \in Idling \cup {"list"} => ctl[u] = None
          /\ at[u] = "submit" => u \in Handlers /\ ctl[u] \in Controls
          /\ at[u] = "invalidate" /\ ctl[u] \in Switches => goal[u] = "completed"
          /\ ctl[u] \in Controls /\ ~(at[u] = "submit" /\ Waits(calls, u)) => status[ctl[u]] # "absent"
          /\ at[u] = "submit" /\ Waits(replies, u) /\ saw[u] # "pending" => status[ctl[u]] # "pending"
          /\ at[u] \in {"exiting", "exit_sent"} \/ goal[u] \in {"waiting", "ambiguous"} => ctl[u] \notin Switches
      BY <1>1 DEF KnownInv, TaskInv, Ops
    <3>2. ctl[u] \in Controls => status'[ctl[u]] = IF ctl[u] = c THEN "applying" ELSE status[ctl[u]]
      BY <1>5
    <3>3. CASE u # h
      <4>1. /\ Waits(calls', u) <=> Waits(calls, u)
            /\ Waits(replies', u) <=> Waits(replies, u)
            /\ Queued(u)' <=> Queued(u)
            /\ goal'[u] = goal[u]
        BY <1>3, <1>5, <3>3
      <4>2. QED BY <3>1, <3>2, <4>1
    <3>4. CASE u = h
      BY <1>3, <1>4, <1>5, <3>1, <3>2, <3>4 DEF Idling
    <3>5. QED BY <3>3, <3>4
  <2>2. ASSUME NEW u \in Tasks, NEW d \in Controls
        PROVE  /\ todo[u][d] # "none" => status'[d] # "absent"
               /\ todo[u][d] \notin {"none", "pending"} => status'[d] # "pending"
    BY <1>1, <1>5 DEF KnownInv
  <2>3. \A d \in Switches : todo["timer"][d] = "none" /\ todo["boot"][d] # "waiting" /\ status'[d] # "waiting"
    BY <1>1, <1>5 DEF KnownInv
  <2>4. /\ ctl["timer"] \in Controls => status'[ctl["timer"]] # "pending"
        /\ ctl["timer"] \notin Switches /\ \A d \in Controls : todo["timer"][d] # "pending"
    BY <1>1, <1>5 DEF KnownInv
  <2>5. QED BY <1>2, <2>1, <2>2, <2>3, <2>4 DEF KnownInv
<1>11. PendInv'
  <2>1. ASSUME phase = "ready", NEW d \in Controls, status'[d] = "pending"
        PROVE  /\ \A e \in Later(d)' : status'[e] = "pending"
               /\ \E l \in Tasks : Leads(l, d)' /\ \A u \in Tasks : ctl[u] \in Later(d)' => Behind(l, u)'
    <3>1. status[d] = "pending" /\ d # c /\ c \notin Later(d)
      BY <1>5, <1>9, <2>1
    <3>2. PICK l \in Tasks : Leads(l, d) /\ \A u \in Tasks : ctl[u] \in Later(d) => Behind(l, u)
      BY <1>1, <2>1, <3>1 DEF PendInv
    <3>3. l # h
      BY <3>1, <3>2 DEF Leads
    <3>4. (Waits(calls', l) <=> Waits(calls, l)) /\ (Waits(replies', l) <=> Waits(replies, l))
      BY <1>3, <3>3
    <3>5. Leads(l, d)'
      BY <1>2, <3>2, <3>4 DEF Leads
    <3>6. \A e \in Later(d) : status[e] = "pending"
      BY <1>1, <2>1, <3>1 DEF PendInv
    <3>7. \A e \in Later(d) : status'[e] = "pending"
      BY <1>5, <3>1, <3>6 DEF Later
    <3>8. QED BY <1>3, <1>5, <3>2, <3>5, <3>7
  <2>2. QED BY <1>2, <2>1 DEF PendInv
<1>12. WinInv'
  <2>1. ASSUME NEW u \in Tasks, Winner(u)'
        PROVE  /\ status'[ctl[u]] # "pending"
               /\ at[u] = "claim" => \A e \in Switches \cap Later(ctl[u])' : status'[e] # "completed"
    <3>1. CASE u = h
      <4>1. c \in Switches /\ Later(c)' = Later(c) /\ ctl[u] = c
        BY <1>4, <1>5, <1>7, <2>1, <3>1
      <4>2. \A e \in Switches \cap Later(c) : status[e] # "completed"
        BY <1>1, <4>1 DEF AppliedInv, Later
      <4>3. Later(ctl[u])' = Later(c)
        BY <1>2, <4>1 DEF Later
      <4>4. QED BY <1>1, <1>5, <4>1, <4>2, <4>3
    <3>2. CASE u # h
      <4>1. /\ Winner(u) /\ ctl[u] \in Controls
            /\ at[u] = "claim" => \A e \in Switches \cap Later(ctl[u]) : status[e] # "completed"
            /\ status[ctl[u]] # "pending"
        BY <1>1, <1>7, <2>1, <3>2 DEF WinInv
      <4>2. Later(ctl[u])' = Later(ctl[u])
        BY <1>2, <1>5, <4>1 DEF Later
      <4>3. QED BY <1>1, <1>5, <4>1, <4>2
    <3>3. QED BY <3>1, <3>2
  <2>2. QED BY <1>2, <1>7, <2>1 DEF WinInv
<1>13. OrderInv'
  <2>1. ASSUME phase = "ready", NEW u \in Tasks, NEW v \in Tasks, Winner(u)', Winner(v)', ctl[v] \in Later(ctl[u])
        PROVE  /\ at[u] = at[v] => Ahead(u, v)'
               /\ at[v] = "invalidate" => at[u] # "claim"
               /\ at[v] = "transition" => at[u] = "transition"
    <3>1. CASE u # h /\ v # h
      BY <1>1, <1>3, <1>7, <2>1, <3>1 DEF OrderInv
    <3>2. CASE u = h
      <4>1. v # h /\ Winner(v)
        BY <1>4, <1>5, <1>7, <2>1, <3>2
      <4>2. status[ctl[v]] # "pending"
        BY <1>1, <4>1 DEF WinInv
      <4>3. status[ctl[v]] = "pending"
        BY <1>1, <1>4, <2>1, <3>2 DEF PendInv
      <4>4. QED BY <4>2, <4>3
    <3>3. CASE v = h /\ u # h
      <4>1. Winner(u)
        BY <1>7, <2>1, <3>3
      <4>2. at[u] = "claim" => Waits(replies, u)
        BY <1>1, <4>1 DEF QueueInv, Winner, KnownInv, Queued, Ops
      <4>3. at[u] = "claim" => Ahead(u, h)'
        BY <1>3, <4>2
      <4>4. QED BY <1>3, <3>3, <4>3
    <3>4. QED BY <3>1, <3>2, <3>3
  <2>2. \A u \in Tasks : Winner(u)' => Later(ctl[u])' = Later(ctl[u])
    BY <1>2, <1>5, <1>7 DEF Later
  <2>3. QED BY <1>2, <1>7, <2>1, <2>2 DEF OrderInv
<1>14. AppliedInv'
  <2>1. ASSUME phase = "ready", NEW d \in Switches, status'[d] = "applying"
        PROVE  \E u \in Tasks : ctl[u] = d /\ Winner(u)' /\ (at[u] = "transition" => Waits(calls', u))
    <3>1. CASE d = c
      BY <1>3, <1>7, <2>1, <3>1
    <3>2. CASE d # c
      <4>1. status[d] = "applying"
        BY <1>1, <1>5, <2>1, <3>2
      <4>2. PICK u \in Tasks : ctl[u] = d /\ Winner(u) /\ (at[u] = "transition" => Waits(calls, u))
        BY <1>1, <2>1, <4>1 DEF AppliedInv
      <4>3. u # h
        BY <3>2, <4>2
      <4>4. Winner(u)' /\ (at[u] = "transition" => Waits(calls', u))
        BY <1>3, <1>7, <4>2, <4>3
      <4>5. QED BY <4>2, <4>4
    <3>3. QED BY <3>1, <3>2
  <2>2. ASSUME NEW e \in Switches, status'[e] = "completed", NEW d \in Switches, seq[d] < seq[e]
        PROVE  status'[d] \notin {"pending", "applying"}
    <3>1. e # c /\ status[e] = "completed"
      BY <1>1, <1>5, <2>2
    <3>2. status[d] \notin {"pending", "applying"}
      BY <1>1, <2>2, <3>1 DEF AppliedInv
    <3>3. QED BY <1>1, <1>5, <3>2
  <2>3. QED BY <1>2, <2>1, <2>2 DEF AppliedInv
<1>15. BootInv'
  <2>1. CASE phase = "ready"
    BY <1>2, <2>1 DEF BootInv
  <2>2. CASE phase = "starting"
    <3>1. h = "boot"
      BY <1>8, <2>2
    <3>2. \A d \in Controls : Undone(d)' => Undone(d)
      BY <1>5 DEF Undone
    <3>3. \A d \in Controls : /\ todo["boot"][d] = "pending" => status[d] = "pending"
                              /\ d \in Switches /\ todo["boot"][d] # "none" => status[d] = todo["boot"][d]
                              /\ \A e \in Controls : ctl["boot"] = d /\ todo["boot"][e] # "none" => seq[d] <= seq[e]
                              /\ Undone(d) => todo["boot"][d] # "none" \/ d = c
      BY <1>1, <1>3, <2>2, <3>1 DEF BootInv
    <3>4. todo["boot"][c] = "none"
      BY <1>1, <1>4, <2>2, <3>1 DEF BootInv
    <3>5. \A d \in Controls : /\ todo["boot"][d] = "pending" => status'[d] = "pending"
                              /\ d \in Switches /\ todo["boot"][d] # "none" => status'[d] = todo["boot"][d]
      BY <1>5, <3>3, <3>4
    <3>6. QED BY <1>2, <1>3, <1>4, <1>5, <3>1, <3>2, <3>3, <3>4, <3>5 DEF BootInv
  <2>3. QED BY <1>1, <2>1, <2>2 DEF TypeOK
<1>16. QED BY <1>6, <1>10, <1>11, <1>12, <1>13, <1>14, <1>15 DEF Holding

(* A task's result is written.                                              *)
LEMMA ServeWrites ==
    ASSUME AllHold, ServeTransition, NEW h, h = Caller, NEW c, c = ctl[h], NEW g, g = goal[h]
    PROVE  Holding'
<1>1. /\ TypeOK /\ TaskInv /\ QueueInv /\ RoleInv /\ KnownInv /\ BootInv /\ NumberInv
      /\ PendInv /\ WinInv /\ OrderInv /\ AppliedInv
      /\ "boot" \in Tasks /\ "timer" \in Tasks /\ None \notin Controls /\ Switches \subseteq Controls
      /\ Handlers \cap {"boot", "timer"} = {}
  BY ControlsAssumption, HandlersAssumption DEF AllHold, Holding, Tasks, Switches
<1>2. /\ Serve("transition") /\ UNCHANGED <<phase, at, ctl, goal, saw, todo, seq, lastSeq>>
      /\ status' = [status EXCEPT ![c] = g]
  BY DEF ServeTransition, locals
<1>3. /\ h \in Tasks /\ at[h] = "transition" /\ Waits(calls, h) /\ ~Waits(replies, h)
      /\ ~Waits(calls', h) /\ Waits(replies', h)
      /\ \A u \in Tasks \ {h} : /\ Waits(calls', u) <=> Waits(calls, u)
                                /\ Waits(replies', u) <=> Waits(replies, u)
      /\ \A u \in Tasks : Queued(u)' <=> Queued(u)
      /\ \A u, v \in Tasks : Ahead(u, v) => Ahead(u, v)'
      /\ \A u \in Tasks : Ahead(u, h) <=> Waits(replies, u)
      /\ \A u, v \in Tasks : Behind(u, v) => Behind(u, v)'
      /\ phase = "starting" => h \in {"boot", "timer"}
  BY <1>1, <1>2, ServeFacts
<1>4. c \in Controls /\ g \in Final \cup {"waiting"} /\ status[c] # "absent"
      /\ (g \in {"waiting", "ambiguous"} => c \notin Switches)
  <2>1. c \in Controls /\ g \in Final \cup {"waiting"}
    BY <1>1, <1>3 DEF TaskInv, Ops, TypeOK
  <2>2. QED BY <1>1, <1>3, <2>1 DEF KnownInv
<1>5. /\ \A d \in Controls : status'[d] = IF d = c THEN g ELSE status[d]
      /\ \A d \in Controls : Later(d)' = Later(d)
      /\ \A d \in Controls : d \notin Later(d)
      /\ g \notin {"absent", "pending", "applying"}
  BY <1>1, <1>2, <1>4 DEF TypeOK, Later, Final
<1>6. NumberInv'
  BY <1>1, <1>2, <1>4, <1>5 DEF NumberInv
<1>7. /\ \A u \in Tasks : Winner(u)' <=> Winner(u)
      /\ \A u \in Tasks : Winner(u) => ctl[u] \in Controls
      /\ c \in Switches /\ g = "completed" => Winner(h)
      /\ \A u \in Tasks : Later(ctl[u])' = Later(ctl[u])
  BY <1>1, <1>2, <1>3, <1>4 DEF Winner, Later
<1>8. h = "timer" => c \notin Switches /\ status[c] # "pending"
  BY <1>1, <1>4 DEF KnownInv
<1>9. phase = "ready" => \A d \in Controls : status[d] = "pending" => c \notin Later(d)
  BY <1>2, ServedFirst
<1>s. phase \in {"starting", "ready"}
  BY <1>1 DEF TypeOK
<1>10. KnownInv'
  <2>1. ASSUME NEW u \in Tasks
        PROVE /\ at[u] \in Ops => Queued(u)'
              /\ ctl[u] \in Controls /\ ~(at[u] = "submit" /\ Waits(calls', u)) => status'[ctl[u]] # "absent"
              /\ at[u] = "submit" /\ Waits(replies', u) /\ saw[u] # "pending" => status'[ctl[u]] # "pending"
    <3>1. /\ at[u] \in Ops => Queued(u)
          /\ at[u] = "submit" => ctl[u] \in Controls
          /\ ctl[u] \in Controls /\ ~(at[u] = "submit" /\ Waits(calls, u)) => status[ctl[u]] # "absent"
          /\ at[u] = "submit" /\ Waits(replies, u) /\ saw[u] # "pending" => status[ctl[u]] # "pending"
      BY <1>1 DEF KnownInv, TaskInv, Ops
    <3>2. ctl[u] \in Controls => status'[ctl[u]] = IF ctl[u] = c THEN g ELSE status[ctl[u]]
      BY <1>5
    <3>3. at[u] = "submit" => (Waits(calls', u) <=> Waits(calls, u)) /\ (Waits(replies', u) <=> Waits(replies, u))
      BY <1>3
    <3>4. Queued(u)' <=> Queued(u)
      BY <1>3
    <3>5. QED BY <1>5, <3>1, <3>2, <3>3, <3>4
  <2>2. ASSUME NEW u \in Tasks, NEW d \in Controls
        PROVE  /\ todo[u][d] # "none" => status'[d] # "absent"
               /\ todo[u][d] \notin {"none", "pending"} => status'[d] # "pending"
    BY <1>1, <1>5 DEF KnownInv
  <2>3. \A d \in Switches : todo["timer"][d] = "none" /\ todo["boot"][d] # "waiting" /\ status'[d] # "waiting"
    BY <1>1, <1>4, <1>5 DEF KnownInv
  <2>4. /\ ctl["timer"] \in Controls => status'[ctl["timer"]] # "pending"
        /\ ctl["timer"] \notin Switches /\ \A d \in Controls : todo["timer"][d] # "pending"
    BY <1>1, <1>5 DEF KnownInv
  <2>5. \A u \in Tasks :
          /\ at[u] \in Idling \cup {"list"} => ctl[u] = None
          /\ at[u] = "submit" => u \in Handlers
          /\ at[u] = "invalidate" /\ ctl[u] \in Switches => goal[u] = "completed"
          /\ at[u] \in {"exiting", "exit_sent"} \/ goal[u] \in {"waiting", "ambiguous"} => ctl[u] \notin Switches
    BY <1>1 DEF KnownInv
  <2>6. QED BY <1>2, <2>1, <2>2, <2>3, <2>4, <2>5 DEF KnownInv
<1>11. PendInv'
  <2>1. ASSUME phase = "ready", NEW d \in Controls, status'[d] = "pending"
        PROVE  /\ \A e \in Later(d)' : status'[e] = "pending"
               /\ \E l \in Tasks : Leads(l, d)' /\ \A u \in Tasks : ctl[u] \in Later(d)' => Behind(l, u)'
    <3>1. status[d] = "pending" /\ d # c /\ c \notin Later(d)
      BY <1>5, <1>9, <2>1
    <3>2. PICK l \in Tasks : Leads(l, d) /\ \A u \in Tasks : ctl[u] \in Later(d) => Behind(l, u)
      BY <1>1, <2>1, <3>1 DEF PendInv
    <3>3. l # h
      BY <3>1, <3>2 DEF Leads
    <3>4. (Waits(calls', l) <=> Waits(calls, l)) /\ (Waits(replies', l) <=> Waits(replies, l))
      BY <1>3, <3>3
    <3>5. Leads(l, d)'
      BY <1>2, <3>2, <3>4 DEF Leads
    <3>6. \A e \in Later(d) : status[e] = "pending"
      BY <1>1, <2>1, <3>1 DEF PendInv
    <3>7. \A e \in Later(d) : status'[e] = "pending"
      BY <1>5, <3>1, <3>6 DEF Later
    <3>8. QED BY <1>3, <1>5, <3>2, <3>5, <3>7
  <2>2. QED BY <1>2, <2>1 DEF PendInv
<1>12. WinInv'
  <2>1. ASSUME NEW u \in Tasks, Winner(u)
        PROVE  /\ status'[ctl[u]] # "pending"
               /\ at[u] = "claim" => \A e \in Switches \cap Later(ctl[u]) : status'[e] # "completed"
    <3>1. /\ status[ctl[u]] # "pending" /\ ctl[u] \in Controls
          /\ at[u] = "claim" => \A e \in Switches \cap Later(ctl[u]) : status[e] # "completed"
      BY <1>1, <1>7, <2>1 DEF WinInv
    <3>2. at[u] = "claim" /\ c \in Switches /\ c \in Later(ctl[u]) => g # "completed"
      <4>1. SUFFICES ASSUME at[u] = "claim", c \in Switches, c \in Later(ctl[u]), g = "completed" PROVE FALSE
        OBVIOUS
      <4>2. Winner(h)
        BY <1>7, <4>1
      <4>3. CASE phase = "ready"
        BY <1>1, <1>3, <2>1, <4>1, <4>2, <4>3 DEF OrderInv
      <4>4. CASE phase = "starting"
        <5>1. h = "boot"
          BY <1>3, <1>8, <4>1, <4>4
        <5>2. u \in {"boot", "timer"}
          BY <1>1, <3>1, <4>1, <4>4 DEF RoleInv, Tasks
        <5>3. u # "timer"
          BY <1>1, <2>1 DEF KnownInv, Winner
        <5>4. QED BY <1>3, <4>1, <5>1, <5>2, <5>3
      <4>5. QED BY <1>s, <4>3, <4>4
    <3>3. QED BY <1>1, <1>5, <3>1, <3>2
  <2>2. QED BY <1>2, <1>7, <2>1 DEF WinInv
<1>13. OrderInv'
  <2>1. ASSUME phase = "ready", NEW u \in Tasks, NEW v \in Tasks, Winner(u), Winner(v), ctl[v] \in Later(ctl[u])
        PROVE  /\ at[u] = at[v] => Ahead(u, v)'
               /\ at[v] = "invalidate" => at[u] # "claim"
               /\ at[v] = "transition" => at[u] = "transition"
    BY <1>1, <1>3, <2>1 DEF OrderInv
  <2>2. QED BY <1>2, <1>7, <2>1 DEF OrderInv
<1>14. AppliedInv'
  <2>1. ASSUME phase = "ready", NEW d \in Switches, status'[d] = "applying"
        PROVE  \E u \in Tasks : ctl[u] = d /\ Winner(u)' /\ (at[u] = "transition" => Waits(calls', u))
    <3>1. d # c /\ status[d] = "applying"
      BY <1>1, <1>5, <2>1
    <3>2. PICK u \in Tasks : ctl[u] = d /\ Winner(u) /\ (at[u] = "transition" => Waits(calls, u))
      BY <1>1, <2>1, <3>1 DEF AppliedInv
    <3>3. u # h
      BY <3>1, <3>2
    <3>4. Winner(u)' /\ (at[u] = "transition" => Waits(calls', u))
      BY <1>3, <1>7, <3>2, <3>3
    <3>5. QED BY <3>2, <3>4
  <2>2. ASSUME NEW e \in Switches, status'[e] = "completed", NEW d \in Switches, seq[d] < seq[e]
        PROVE  status'[d] \notin {"pending", "applying"}
    <3>1. CASE e # c
      <4>1. status[d] \notin {"pending", "applying"}
        BY <1>1, <1>5, <2>2, <3>1 DEF AppliedInv
      <4>2. QED BY <1>1, <1>5, <4>1
    <3>2. CASE e = c
      <4>1. g = "completed" /\ Winner(h) /\ c \in Later(d) /\ d # c
        BY <1>1, <1>4, <1>5, <1>7, <2>2, <3>2 DEF Later
      <4>2. SUFFICES ASSUME status[d] \in {"pending", "applying"} PROVE FALSE
        BY <1>1, <1>5, <4>1
      <4>3. CASE phase = "ready"
        <5>1. status[d] = "applying"
          BY <1>1, <1>9, <4>1, <4>2, <4>3
        <5>2. PICK u \in Tasks : ctl[u] = d /\ Winner(u) /\ (at[u] = "transition" => Waits(calls, u))
          BY <1>1, <4>3, <5>1 DEF AppliedInv
        <5>3. at[u] = "transition" /\ Ahead(u, h)
          BY <1>1, <1>3, <4>1, <4>3, <5>2 DEF OrderInv
        <5>4. Waits(replies, u) /\ Waits(calls, u)
          BY <1>3, <5>2, <5>3
        <5>5. QED BY <1>1, <5>4 DEF QueueInv, OneQueue
      <4>4. CASE phase = "starting"
        <5>1. h = "boot"
          BY <1>3, <1>8, <2>2, <3>2, <4>4
        <5>2. Undone(d) /\ ctl["boot"] = c
          BY <2>2, <4>2, <5>1 DEF Undone
        <5>3. todo["boot"][d] # "none"
          BY <1>1, <1>3, <4>1, <4>4, <5>1, <5>2 DEF BootInv
        <5>4. seq[c] <= seq[d]
          BY <1>1, <1>4, <4>4, <5>2, <5>3 DEF BootInv
        <5>5. QED BY <1>1, <1>4, <2>2, <3>2, <5>4 DEF TypeOK
      <4>5. QED BY <1>s, <4>3, <4>4
    <3>3. QED BY <3>1, <3>2
  <2>3. QED BY <1>2, <2>1, <2>2 DEF AppliedInv
<1>15. BootInv'
  <2>1. CASE phase = "ready"
    BY <1>2, <2>1 DEF BootInv
  <2>2. CASE phase = "starting"
    <3>1. \A d \in Controls : Undone(d)' => Undone(d) /\ d # c
      BY <1>5 DEF Undone
    <3>2. h # "boot" => (Waits(calls', "boot") <=> Waits(calls, "boot"))
                        /\ (Waits(replies', "boot") <=> Waits(replies, "boot"))
      BY <1>1, <1>3
    <3>3. h \in {"boot", "timer"}
      BY <1>3, <2>2
    <3>4. ASSUME ~(at["boot"] = "restore" \/ (at["boot"] = "list" /\ Waits(calls', "boot"))),
                 NEW d \in Controls, Undone(d)'
          PROVE  \/ todo["boot"][d] # "none"
                 \/ ctl["boot"] = d /\ ~(at["boot"] = "transition" /\ Waits(replies', "boot"))
      <4>1. \/ todo["boot"][d] # "none"
            \/ ctl["boot"] = d /\ ~(at["boot"] = "transition" /\ Waits(replies, "boot"))
        BY <1>1, <1>3, <2>2, <3>1, <3>2, <3>4 DEF BootInv
      <4>2. QED BY <3>1, <3>2, <3>4, <4>1
    <3>5. ASSUME at["boot"] = "claim"
          PROVE  (Waits(calls', "boot") => status'[ctl["boot"]] = "pending")
                 /\ (Waits(replies', "boot") => goal["boot"] # "none")
      <4>1. (Waits(calls, "boot") => status[ctl["boot"]] = "pending")
            /\ (Waits(replies, "boot") => goal["boot"] # "none") /\ ctl["boot"] \in Controls
        BY <1>1, <2>2, <3>5 DEF BootInv, TaskInv, Ops
      <4>2. h = "timer"
        BY <1>3, <3>3, <3>5
      <4>3. QED BY <1>5, <1>8, <3>2, <4>1, <4>2
    <3>6. ASSUME NEW d \in Controls
          PROVE  /\ todo["boot"][d] = "pending" => status'[d] = "pending"
                 /\ d \in Switches /\ todo["boot"][d] # "none" => status'[d] = todo["boot"][d]
      <4>1. /\ todo["boot"][d] = "pending" => status[d] = "pending"
            /\ d \in Switches /\ todo["boot"][d] # "none" => status[d] = todo["boot"][d]
            /\ ctl["boot"] = d => todo["boot"][d] = "none"
        BY <1>1, <2>2 DEF BootInv
      <4>2. h = "boot" => ctl["boot"] = c
        OBVIOUS
      <4>3. QED BY <1>5, <1>8, <3>3, <4>1, <4>2
    <3>7. \A d \in Controls : ctl["boot"] = d =>
             /\ todo["boot"][d] = "none"
             /\ \A e \in Controls : todo["boot"][e] # "none" => seq[d] <= seq[e]
      BY <1>1, <2>2 DEF BootInv
    <3>8. QED BY <1>2, <3>4, <3>5, <3>6, <3>7 DEF BootInv
  <2>3. QED BY <1>s, <2>1, <2>2
<1>16. QED BY <1>6, <1>10, <1>11, <1>12, <1>13, <1>14, <1>15 DEF Holding

LEMMA WorkerHolds == ASSUME AllHold, Worker PROVE Holding'
<1>1. TypeOK /\ QueueInv
  BY DEF AllHold, Holding
<1>2. CASE ServeSubmit
  <2>1. PICK h : h = Caller
    OBVIOUS
  <2>2. PICK c : c = ctl[h]
    OBVIOUS
  <2>3. CASE status[c] = "absent"
    BY <1>2, <2>1, <2>2, <2>3, ServeFresh
  <2>4. CASE status[c] # "absent"
    <3>1. /\ Serve("submit") /\ UNCHANGED <<rows, phase, at, ctl, goal, todo>>
          /\ saw' = [saw EXCEPT ![Caller] = status[ctl[Caller]]]
      BY <1>2, <2>1, <2>2, <2>4 DEF ServeSubmit, rows
    <3>2. QED BY <2>1, <2>2, <2>4, <3>1, ServeSame
  <2>5. QED BY <2>3, <2>4
<1>3. CASE ServeClaim
  <2>1. PICK h : h = Caller
    OBVIOUS
  <2>2. PICK c : c = ctl[h]
    OBVIOUS
  <2>3. CASE status[c] = "pending"
    BY <1>3, <2>1, <2>2, <2>3, ServeWon
  <2>4. CASE status[c] # "pending"
    <3>1. Serve("claim") /\ h \in Tasks /\ goal[h] = "none"
      BY <1>1, <1>3, <2>1, ServedQueue DEF ServeClaim, QueueInv, Serve, Caller
    <3>2. UNCHANGED <<rows, phase, at, ctl, goal, saw, todo>>
      BY <1>1, <1>3, <2>1, <2>2, <2>4, <3>1 DEF ServeClaim, rows, TypeOK
    <3>3. QED BY <2>1, <2>2, <2>4, <3>1, <3>2, ServeSame
  <2>5. QED BY <2>3, <2>4
<1>4. CASE ServeInvalidate
  BY <1>4, ServeSame DEF ServeInvalidate, locals
<1>5. CASE ServeTransition
  <2>1. PICK h : h = Caller
    OBVIOUS
  <2>2. PICK c : c = ctl[h]
    OBVIOUS
  <2>3. PICK g : g = goal[h]
    OBVIOUS
  <2>4. QED BY <1>5, <2>1, <2>2, <2>3, ServeWrites
<1>6. CASE ServeList
  BY <1>6, ServeSame DEF ServeList
<1>7. QED BY <1>2, <1>3, <1>4, <1>5, <1>6 DEF Worker

-----------------------------------------------------------------------------
LEMMA ListsHold == ASSUME AllHold, Lists PROVE Holding'
<1>t. /\ TypeOK /\ TaskInv /\ KnownInv /\ BootInv
      /\ "boot" \in Tasks /\ "timer" \in Tasks /\ Switches \subseteq Controls
      /\ RoleInv /\ QueueInv
  BY DEF AllHold, Holding, Tasks, Switches
<1>1. CASE StartTimer \/ TimerEnds \/ Restore
  BY <1>1, StartsHold
<1>2. CASE BootEnds
  BY <1>2, BootEndsHolds
<1>3. ASSUME NEW c \in Controls, TimerVisits(c) PROVE Holding'
  <2>1. Visit("timer", c) /\ UNCHANGED <<rows, phase, replies>>
    BY <1>3 DEF TimerVisits
  <2>2. todo["timer"][c] # "none" /\ c \notin Switches
    BY <1>t, <2>1 DEF Visit, IsNext, KnownInv
  <2>3. CASE Mark("timer", "completed") /\ Take("timer", c)
    BY <2>1, <2>2, <2>3, VisitHolds DEF Mark
  <2>4. CASE UNCHANGED <<at, calls, ctl, saw, goal>>
    <3>1. /\ todo' = [todo EXCEPT !["timer"][c] = "none"]
          /\ UNCHANGED <<status, seq, lastSeq, phase, replies, at, calls, ctl, saw, goal>>
      BY <2>1, <2>4 DEF Visit, rows
    <3>2. \A u \in Tasks, d \in Controls : todo'[u][d] \in {todo[u][d], "none"}
      BY <1>t, <3>1 DEF TypeOK
    <3>3. \A d \in Controls : todo'["boot"][d] = todo["boot"][d]
      BY <1>t, <3>1 DEF TypeOK
    <3>4. /\ \A u \in Tasks : (Queued(u)' <=> Queued(u)) /\ (Winner(u)' <=> Winner(u))
          /\ \A d \in Controls : Later(d)' = Later(d) /\ (Undone(d)' <=> Undone(d))
          /\ \A u \in Tasks, d \in Controls : Leads(u, d)' <=> Leads(u, d)
          /\ \A u, v \in Tasks : (Ahead(u, v)' <=> Ahead(u, v)) /\ (Behind(u, v)' <=> Behind(u, v))
      BY <3>1 DEF Queued, Winner, Later, Undone, Leads, Ahead, Behind
    <3>5. NumberInv' /\ AppliedInv'
      BY <3>1, <3>4 DEF AllHold, Holding, NumberInv, AppliedInv
    <3>6. KnownInv'
      <4>1. \A u \in Tasks : /\ at[u] \in Ops => Queued(u)
                             /\ at[u] \in Idling \cup {"list"} => ctl[u] = None
                             /\ at[u] = "submit" => u \in Handlers
                             /\ at[u] = "invalidate" /\ ctl[u] \in Switches => goal[u] = "completed"
                             /\ ctl[u] \in Controls /\ ~(at[u] = "submit" /\ Waits(calls, u)) =>
                                  status[ctl[u]] # "absent"
                             /\ at[u] = "submit" /\ Waits(replies, u) /\ saw[u] # "pending" =>
                                  status[ctl[u]] # "pending"
                             /\ at[u] \in {"exiting", "exit_sent"} \/ goal[u] \in {"waiting", "ambiguous"} =>
                                  ctl[u] \notin Switches
        BY <1>t DEF KnownInv
      <4>2. \A u \in Tasks, d \in Controls : /\ todo'[u][d] # "none" => status[d] # "absent"
                                             /\ todo'[u][d] \notin {"none", "pending"} => status[d] # "pending"
        BY <1>t, <3>2 DEF KnownInv
      <4>3. /\ ctl["timer"] \in Controls => status[ctl["timer"]] # "pending"
            /\ \A d \in Controls : todo'["timer"][d] # "pending"
            /\ ctl["timer"] \notin Switches
            /\ \A d \in Switches : todo'["timer"][d] = "none" /\ todo'["boot"][d] # "waiting" /\ status[d] # "waiting"
        BY <1>t, <3>2, <3>3 DEF KnownInv
      <4>4. QED BY <3>1, <3>4, <4>1, <4>2, <4>3 DEF KnownInv
    <3>7. PendInv'
      BY <3>1, <3>4 DEF AllHold, Holding, PendInv
    <3>8. WinInv' /\ OrderInv'
      <4>1. \A u \in Tasks : Winner(u) => ctl[u] \in Controls
        BY <1>t DEF Winner
      <4>2. QED BY <3>1, <3>4, <4>1 DEF AllHold, Holding, WinInv, OrderInv
    <3>9. BootInv'
      BY <1>t, <3>1, <3>3, <3>4 DEF BootInv
    <3>10. QED BY <3>5, <3>6, <3>7, <3>8, <3>9 DEF Holding
  <2>5. QED BY <1>3, <2>3, <2>4 DEF TimerVisits
<1>4. ASSUME NEW c \in Controls, BootVisits(c) PROVE Holding'
  <2>1. Visit("boot", c) /\ Take("boot", c) /\ UNCHANGED <<rows, phase, replies>>
    BY <1>4 DEF BootVisits
  <2>2. goal["boot"] = "none" /\ goal = [goal EXCEPT !["boot"] = "none"]
    BY <1>t, <2>1 DEF Visit, IsNext, TaskInv, Idling, TypeOK
  <2>3. c \in Switches => todo["boot"][c] \in {"pending", "applying"}
    BY <1>t, <2>1 DEF Visit, IsNext, KnownInv, TypeOK, Open
  <2>4. CASE todo["boot"][c] = "pending" /\ RejectOrClaim("boot", c)
    <3>1. CASE Mark("boot", "rejected")
      BY <2>1, <3>1, VisitHolds DEF Mark
    <3>2. CASE Call("boot", "claim") /\ UNCHANGED goal
      <4>1. goal' = [goal EXCEPT !["boot"] = "none"]
        BY <2>2, <3>2
      <4>2. QED BY <2>1, <2>4, <3>2, <4>1, VisitHolds
    <3>3. QED BY <2>4, <3>1, <3>2 DEF RejectOrClaim
  <2>5. CASE todo["boot"][c] # "pending" /\ ApplyLocal("boot", c)
    <3>1. CASE Mark("boot", "rejected")
      BY <2>1, <3>1, VisitHolds DEF Mark
    <3>2. CASE InvalidateThenMark("boot", "completed")
      BY <2>1, <2>3, <2>5, <3>2, VisitHolds DEF InvalidateThenMark
    <3>3. QED BY <2>5, <3>1, <3>2 DEF ApplyLocal
  <2>6. CASE Action(c) = "flatten" /\ ResumeFlatten(c)
    <3>1. c \notin Switches
      BY <2>6 DEF Switches
    <3>2. \/ \E g \in {"completed", "waiting"} : Mark("boot", g)
          \/ InvalidateThenMark("boot", "ambiguous")
      BY <2>6 DEF ResumeFlatten
    <3>3. CASE \E g \in {"completed", "waiting"} : Mark("boot", g)
      BY <2>1, <3>1, <3>3, VisitHolds DEF Mark
    <3>4. CASE InvalidateThenMark("boot", "ambiguous")
      BY <2>1, <3>1, <3>4, VisitHolds DEF InvalidateThenMark
    <3>5. QED BY <3>2, <3>3, <3>4
  <2>7. QED BY <1>4, <2>4, <2>5, <2>6 DEF BootVisits
<1>5. QED BY <1>1, <1>2, <1>3, <1>4 DEF Lists

(* A process that has just started is at rest, and the rows are numbered.    *)
RowsInv ==
    /\ NumberInv /\ \A c \in Switches : status[c] # "waiting"
    /\ \A c \in Switches : status[c] = "completed" =>
         \A d \in Switches : seq[d] < seq[c] => status[d] \notin {"pending", "applying"}

LEMMA StartHolds == Started /\ RowsInv => Holding
<1> SUFFICES ASSUME Started, RowsInv PROVE Holding
  OBVIOUS
<1> USE DEF Started
<1>1. /\ "boot" \in Tasks /\ "timer" \in Tasks /\ None \notin Switches /\ None \notin Controls
      /\ Switches \subseteq Controls
  BY ControlsAssumption DEF Tasks, Switches
<1>2. \A t \in Tasks : at[t] \in {"restore", "idle"} /\ ctl[t] = None /\ goal[t] = "none" /\ ~Winner(t)
                       /\ \A c \in Controls : todo[t][c] = "none"
  BY <1>1 DEF AtRest, NoRows, Winner
<1>3. at["boot"] = "restore"
  BY <1>1 DEF AtRest
<1>4. KnownInv
  BY <1>1, <1>2 DEF KnownInv, RowsInv, Ops
<1>5. PendInv /\ WinInv /\ OrderInv
  BY <1>2 DEF PendInv, WinInv, OrderInv
<1>6. AppliedInv /\ NumberInv
  BY DEF AppliedInv, RowsInv
<1>7. BootInv
  BY <1>1, <1>2, <1>3 DEF BootInv
<1>8. QED BY <1>4, <1>5, <1>6, <1>7 DEF Holding

LEMMA HoldsInit == Init => Holding
<1> SUFFICES ASSUME Init PROVE Holding
  OBVIOUS
<1>1. Started
  BY DEF Init, Started, Simple
<1>2. RowsInv
  BY DEF Init, RowsInv, NumberInv, Switches
<1>3. QED BY <1>1, <1>2, StartHolds

LEMMA HoldsNext ==
    ASSUME AllHold, [Next]_vars
    PROVE  Holding'
<1>1. CASE Worker
  BY <1>1, WorkerHolds
<1>2. CASE \E t \in Tasks : Consume(t) \/ SendExit(t) \/ ExitAnswered(t) \/ InvalidateFails(t)
  BY <1>2, TasksHold
<1>3. CASE Lists
  BY <1>3, ListsHold
<1>4. CASE \E h \in Handlers, c \in Controls : PostControl(h, c)
  BY <1>4, StartsHold
<1>5. CASE Crash
  <2>1. Started'
    BY <1>5 DEF AllHold, Holding, RoleInv, Crash, rows, Started, NoRows, Simple
  <2>2. RowsInv'
    BY <1>5 DEF AllHold, Holding, RowsInv, NumberInv, KnownInv, AppliedInv, Crash, rows
  <2>3. Started' /\ RowsInv' => Holding'
    BY StartHolds, PTL
  <2>4. QED BY <2>1, <2>2, <2>3
<1>6. CASE AccountMoves \/ UNCHANGED vars
  <2>1. UNCHANGED <<status, seq, lastSeq, phase, calls, replies, at, ctl, saw, goal, todo>>
    BY <1>6 DEF AccountMoves, vars, rows, queues, locals
  <2>2. /\ \A u \in Tasks : (Queued(u)' <=> Queued(u)) /\ (Winner(u)' <=> Winner(u))
        /\ \A u, v \in Tasks : (Ahead(u, v)' <=> Ahead(u, v)) /\ (Behind(u, v)' <=> Behind(u, v))
        /\ \A u \in Tasks, d \in Controls : Leads(u, d)' <=> Leads(u, d)
        /\ \A d \in Controls : Later(d)' = Later(d) /\ (Undone(d)' <=> Undone(d))
    BY <2>1 DEF Queued, Winner, Ahead, Behind, Leads, Later, Undone
  <2>3. \A u \in Tasks : Winner(u) => ctl[u] \in Controls
    BY DEF Winner, Switches
  <2>4. NumberInv' /\ KnownInv' /\ AppliedInv' /\ BootInv'
    BY <2>1, <2>2 DEF AllHold, Holding, NumberInv, KnownInv, AppliedInv, BootInv
  <2>5. PendInv' /\ WinInv' /\ OrderInv'
    BY <2>1, <2>2, <2>3 DEF AllHold, Holding, PendInv, WinInv, OrderInv
  <2>6. QED BY <2>4, <2>5 DEF Holding
<1>7. QED
  BY <1>1, <1>2, <1>3, <1>4, <1>5, <1>6 DEF Next

-----------------------------------------------------------------------------
(* What is in force stays so, or nothing new comes into force.               *)
LEMMA PauseKept ==
    ASSUME PauseInv, at'["boot"] # "restore" => at["boot"] # "restore",
           UNCHANGED paused, \A c \in Switches : InForce(c)' => InForce(c)
    PROVE  PauseInv'
<1>1. PauseInv <=> (at["boot"] # "restore" => \A c \in Switches : InForce(c) => paused)
  BY DEF PauseInv
<1>2. PauseInv' <=> (at'["boot"] # "restore" => \A c \in Switches : InForce(c)' => paused')
  BY DEF PauseInv
<1>3. QED BY <1>1, <1>2

LEMMA PauseSet == ASSUME paused' = TRUE PROVE PauseInv'
BY DEF PauseInv

(* The worker takes no pause out of force.                                  *)
LEMMA PauseWorker == ASSUME AllHold, PauseInv, Worker PROVE PauseInv'
<1>1. /\ TypeOK /\ TaskInv /\ QueueInv /\ KnownInv /\ NumberInv /\ Switches \subseteq Controls
  BY DEF AllHold, Holding, Switches
<1>2. PICK h \in Tasks : h = Caller
  <2>1. \E op : Serve(op)
    BY DEF Worker, ServeSubmit, ServeClaim, ServeInvalidate, ServeTransition, ServeList
  <2>2. QED BY <1>1, <2>1, ServedQueue DEF QueueInv
<1>3. PICK c : c = ctl[h]
  OBVIOUS
<1>4. UNCHANGED <<paused, at, ctl>>
  BY DEF Worker, ServeSubmit, ServeClaim, ServeInvalidate, ServeTransition, ServeList, memory, locals
<1>5. ASSUME UNCHANGED <<rows, goal>> PROVE PauseInv'
  <2>1. \A p \in Switches : InForce(p)' => InForce(p)
    BY <1>4, <1>5 DEF InForce, Held, Later, rows
  <2>2. QED BY <1>4, <2>1, PauseKept
<1>6. CASE ServeSubmit
  <2>1. at[h] = "submit" /\ c \in Controls
    BY <1>1, <1>2, <1>3, <1>6 DEF ServeSubmit, Serve, Caller, TaskInv, Ops
  <2>2. CASE status[c] = "absent"
    <3>1. /\ \A d \in Controls : status'[d] = IF d = c THEN "pending" ELSE status[d]
          /\ \A d \in Controls : seq'[d] = IF d = c THEN lastSeq + 1 ELSE seq[d]
          /\ seq[c] = 0 /\ UNCHANGED goal
      BY <1>1, <1>2, <1>3, <1>6, <2>1, <2>2 DEF ServeSubmit, TypeOK, NumberInv
    <3>2. \A u \in Tasks : ctl[u] = c => at[u] = "submit"
      BY <1>1, <2>1, <2>2 DEF KnownInv
    <3>3. ASSUME NEW p \in Switches, InForce(p)' PROVE InForce(p)
      <4>1. p # c
        BY <1>1, <1>4, <3>1, <3>2, <3>3 DEF InForce
      <4>2. Held(p)
        <5>1. \A d \in Controls : d # c /\ seq'[d] > seq'[p] /\ Action(d) = "resume" => status'[d] = "pending"
          BY <3>3 DEF InForce, Held, Later
        <5>2. ASSUME NEW d \in Later(p), Action(d) = "resume" PROVE status[d] = "pending"
          <6>1. d \in Controls /\ seq[d] > seq[p] /\ d # c
            BY <1>1, <2>1, <3>1, <5>2 DEF Later, TypeOK
          <6>2. QED BY <1>1, <3>1, <4>1, <5>1, <5>2, <6>1
        <5>3. QED BY <5>2 DEF Held
      <4>3. status'[p] = status[p]
        BY <1>1, <3>1, <4>1
      <4>4. QED BY <1>4, <3>1, <3>3, <4>2, <4>3 DEF InForce
    <3>4. QED BY <1>4, <3>3, PauseKept
  <2>3. CASE status[c] # "absent"
    BY <1>2, <1>3, <1>5, <1>6, <2>3 DEF ServeSubmit
  <2>4. QED BY <2>2, <2>3
<1>7. CASE ServeClaim
  <2>1. at[h] = "claim" /\ c \in Controls /\ goal[h] = "none"
    BY <1>1, <1>2, <1>3, <1>7, ServedQueue DEF ServeClaim, Serve, Caller, TaskInv, Ops, QueueInv
  <2>2. /\ \A d \in Controls : status'[d] = IF d = c /\ status[c] = "pending" THEN "applying" ELSE status[d]
        /\ UNCHANGED seq /\ \A u \in Tasks \ {h} : goal'[u] = goal[u]
    BY <1>1, <1>2, <1>3, <1>7, <2>1 DEF ServeClaim, TypeOK
  <2>3. ASSUME NEW p \in Switches, InForce(p)' PROVE InForce(p)
    <3>1. Later(p)' = Later(p) /\ p \in Controls /\ \A d \in Later(p) : d \in Controls
      BY <1>1, <2>2 DEF Later
    <3>2. Held(p)
      BY <2>2, <2>3, <3>1 DEF InForce, Held
    <3>3. status'[p] = "completed" => status[p] = "completed"
      BY <2>2, <3>1
    <3>4. QED BY <1>4, <2>1, <2>2, <2>3, <3>2, <3>3 DEF InForce
  <2>4. QED BY <1>4, <2>3, PauseKept
<1>8. CASE ServeInvalidate \/ ServeList
  BY <1>5, <1>8 DEF ServeInvalidate, ServeList, locals
<1>9. CASE ServeTransition
  <2>1. at[h] = "transition" /\ c \in Controls /\ goal[h] \in Final \cup {"waiting"}
    BY <1>1, <1>2, <1>3, <1>9 DEF ServeTransition, Serve, Caller, TaskInv, Ops, TypeOK
  <2>2. /\ \A d \in Controls : status'[d] = IF d = c THEN goal[h] ELSE status[d]
        /\ UNCHANGED <<seq, goal>>
    BY <1>1, <1>2, <1>3, <1>9, <2>1 DEF ServeTransition, TypeOK, locals
  <2>3. ASSUME NEW p \in Switches, InForce(p)' PROVE InForce(p)
    <3>1. Later(p)' = Later(p) /\ p \in Controls /\ \A d \in Later(p) : d \in Controls
      BY <1>1, <2>2 DEF Later
    <3>2. Held(p)
      <4>1. \A d \in Later(p) : Action(d) = "resume" => status'[d] = "pending"
        BY <2>3, <3>1 DEF InForce, Held
      <4>2. QED BY <2>1, <2>2, <3>1, <4>1 DEF Held, Final
    <3>3. status'[p] = "completed" => status[p] = "completed" \/ (p = c /\ goal[h] = "completed")
      BY <2>2, <3>1
    <3>4. QED BY <1>2, <1>3, <1>4, <2>1, <2>2, <2>3, <3>2, <3>3 DEF InForce
  <2>4. QED BY <1>4, <2>3, PauseKept
<1>10. QED BY <1>6, <1>7, <1>8, <1>9 DEF Worker

(* A resume is applied when no pause after it is in force.                   *)
LEMMA ResumeFindsNone ==
    ASSUME AllHold, NEW t \in Tasks, NEW c \in Switches, Action(c) = "resume", UNCHANGED rows,
           status[c] \notin {"absent", "pending"}, ctl'[t] = c,
           \A u \in Tasks \ {t} : at'[u] = at[u] /\ ctl'[u] = ctl[u] /\ goal'[u] = goal[u],
           \/ at[t] = "claim" /\ goal[t] # "none" /\ ctl[t] = c
           \/ t = "boot" /\ at[t] = "next" /\ status[c] = "applying"
    PROVE  \A p \in Switches : ~InForce(p)'
<1>1. /\ TypeOK /\ RoleInv /\ KnownInv /\ NumberInv /\ WinInv /\ OrderInv /\ AppliedInv
      /\ Switches \subseteq Controls
  BY DEF AllHold, Holding, Switches
<1>2. SUFFICES ASSUME NEW p \in Switches, InForce(p)' PROVE FALSE
  OBVIOUS
<1>3. p # c /\ p \in Controls /\ UNCHANGED <<status, seq>> /\ c \in Controls
  BY <1>1, <1>2 DEF InForce, rows
<1>4. p \in Later(c) /\ seq[c] < seq[p]
  <2>1. c \notin Later(p)
    BY <1>2, <1>3 DEF InForce, Held, Later
  <2>2. seq[c] # 0
    BY <1>1, <1>3 DEF NumberInv
  <2>3. seq[c] # seq[p] /\ seq[c] \in Nat /\ seq[p] \in Nat
    BY <1>1, <1>3, <2>2 DEF NumberInv, TypeOK
  <2>4. QED BY <1>3, <2>1, <2>3 DEF Later
<1>5. status[p] # "completed"
  <2>1. CASE at[t] = "claim" /\ goal[t] # "none" /\ ctl[t] = c
    BY <1>1, <1>4, <2>1 DEF WinInv, Winner
  <2>2. CASE status[c] = "applying"
    BY <1>1, <1>4, <2>2 DEF AppliedInv
  <2>3. QED BY <2>1, <2>2
<1>6. PICK u \in Tasks : ctl'[u] = p /\ at'[u] \in {"invalidate", "transition"} /\ goal'[u] = "completed"
  BY <1>2, <1>3, <1>5 DEF InForce
<1>7. u # t /\ ctl[u] = p /\ at[u] \in {"invalidate", "transition"} /\ Winner(u) /\ u # "timer"
  BY <1>1, <1>3, <1>6 DEF Winner, KnownInv
<1>8. CASE phase = "ready"
  <2>1. at[t] = "claim" /\ goal[t] # "none" /\ ctl[t] = c
    BY <1>1, <1>8 DEF RoleInv
  <2>2. Winner(t)
    BY <2>1 DEF Winner
  <2>3. QED BY <1>1, <1>4, <1>7, <1>8, <2>1, <2>2 DEF OrderInv
<1>9. CASE phase = "starting"
  <2>1. u = "boot" /\ t # "timer"
    BY <1>1, <1>7, <1>9, HandlersAssumption DEF RoleInv, Tasks, KnownInv
  <2>2. t = "boot"
    BY <1>1, <1>9, <2>1 DEF RoleInv, Tasks
  <2>3. QED BY <1>7, <2>1, <2>2
<1>10. QED BY <1>1, <1>8, <1>9 DEF TypeOK

(* A task moves on.                                                         *)
LEMMA PauseTasks ==
    ASSUME AllHold, PauseInv, NEW t \in Tasks,
           Consume(t) \/ SendExit(t) \/ ExitAnswered(t) \/ InvalidateFails(t)
    PROVE  PauseInv'
<1>1. /\ TypeOK /\ TaskInv /\ KnownInv /\ WinInv /\ RoleInv /\ Switches \subseteq Controls
      /\ UNCHANGED rows /\ "boot" \in Tasks /\ at[t] # "restore"
  BY DEF Answered, AllHold, Holding, Switches, Tasks, Consume, Submitted, Claimed, Invalidated, Transitioned,
         Listed, SendExit,
         ExitAnswered, InvalidateFails
<1>2. ASSUME NEW w, NEW g, at' = [at EXCEPT ![t] = w], goal' = [goal EXCEPT ![t] = g], UNCHANGED <<paused, ctl>>,
             w # "restore",
             w \in {"invalidate", "transition"} /\ g = "completed" /\ ctl[t] \in Switches => at[t] = "invalidate"
      PROVE  PauseInv'
  <2>1. \A u \in Tasks : at'[u] = (IF u = t THEN w ELSE at[u]) /\ goal'[u] = IF u = t THEN g ELSE goal[u]
    BY <1>1, <1>2 DEF TypeOK
  <2>2. ASSUME NEW p \in Switches, InForce(p)' PROVE InForce(p)
    <3>1. Held(p) /\ status'[p] = status[p] /\ Action(p) = "pause"
      BY <1>1, <2>2 DEF InForce, Held, Later, rows
    <3>2. ASSUME NEW u \in Tasks, ctl[u] = p, at'[u] \in {"invalidate", "transition"}, goal'[u] = "completed"
          PROVE  at[u] \in {"invalidate", "transition"} /\ goal[u] = "completed"
      BY <1>1, <1>2, <2>1, <3>2 DEF KnownInv
    <3>3. QED BY <1>2, <2>2, <3>1, <3>2 DEF InForce
  <2>3. at'["boot"] # "restore" => at["boot"] # "restore"
    BY <1>1, <1>2, <2>1
  <2>4. QED BY <1>2, <2>2, <2>3, PauseKept
<1>3. ASSUME Leave(t), UNCHANGED paused PROVE PauseInv'
  <2>1. PICK w \in {"idle", "next"} : at' = [at EXCEPT ![t] = w]
    BY <1>3 DEF Leave
  <2>2. ctl' = [ctl EXCEPT ![t] = None] /\ goal' = [goal EXCEPT ![t] = "none"]
    BY <1>3 DEF Leave
  <2>3. ASSUME NEW p \in Switches, InForce(p)' PROVE InForce(p)
    <3>1. Held(p) /\ status'[p] = status[p] /\ Action(p) = "pause"
      BY <1>1, <2>3 DEF InForce, Held, Later, rows
    <3>2. ASSUME NEW u \in Tasks, ctl'[u] = p, at'[u] \in {"invalidate", "transition"}, goal'[u] = "completed"
          PROVE  ctl[u] = p /\ at[u] \in {"invalidate", "transition"} /\ goal[u] = "completed"
      BY <1>1, <2>1, <2>2, <3>2 DEF TypeOK
    <3>3. QED BY <2>3, <3>1, <3>2 DEF InForce
  <2>4. at'["boot"] # "restore" => at["boot"] # "restore"
    BY <1>1, <2>1 DEF TypeOK
  <2>5. QED BY <1>3, <2>3, <2>4, PauseKept
<1>f. goal = [goal EXCEPT ![t] = goal[t]]
  BY <1>1 DEF TypeOK
<1>4. CASE Submitted(t)
  <2>1. UNCHANGED paused /\ at[t] = "submit"
    BY <1>4 DEF Submitted, Answered, memory
  <2>2. CASE Mark(t, "rejected") /\ UNCHANGED ctl
    BY <1>2, <2>1, <2>2 DEF Mark, Call
  <2>3. CASE Call(t, "claim") /\ UNCHANGED <<goal, ctl>>
    BY <1>2, <1>f, <2>1, <2>3 DEF Call
  <2>4. QED BY <1>3, <1>4, <2>1, <2>2, <2>3 DEF Submitted, RejectOrClaim
<1>5. CASE Claimed(t)
  <2>1. at[t] = "claim" /\ ctl[t] \in Controls
    BY <1>1, <1>5 DEF Claimed, Answered, TaskInv, Ops
  <2>2. CASE Leave(t) /\ UNCHANGED memory
    BY <1>3, <2>2 DEF memory
  <2>3. CASE /\ goal[t] # "none" /\ Action(ctl[t]) # "flatten" /\ ApplyLocal(t, ctl[t])
             /\ UNCHANGED <<ctl, saw>>
    <3>1. CASE Mark(t, "rejected") /\ UNCHANGED memory
      BY <1>2, <2>3, <3>1 DEF Mark, Call, memory
    <3>2. CASE InvalidateThenMark(t, "completed") /\ SetMemory(ctl[t])
      <4>1. CASE Action(ctl[t]) = "pause"
        BY <3>2, <4>1, PauseSet DEF SetMemory
      <4>2. CASE Action(ctl[t]) = "resume"
        <5>1. ctl[t] \in Switches /\ Winner(t)
          BY <2>1, <2>3, <4>2 DEF Switches, Winner
        <5>2. status[ctl[t]] \notin {"absent", "pending"}
          BY <1>1, <2>1, <5>1 DEF WinInv, KnownInv
        <5>3. \A u \in Tasks \ {t} : at'[u] = at[u] /\ ctl'[u] = ctl[u] /\ goal'[u] = goal[u]
          BY <1>1, <2>3, <3>2 DEF InvalidateThenMark, Call, TypeOK
        <5>4. \A p \in Switches : ~InForce(p)'
          BY <1>1, <2>1, <2>3, <4>2, <5>1, <5>2, <5>3, ResumeFindsNone
        <5>5. QED BY <5>4 DEF PauseInv
      <4>3. CASE Action(ctl[t]) = "set_mode"
        <5>1. UNCHANGED paused /\ ctl[t] \notin Switches
          BY <3>2, <4>3 DEF SetMemory, Switches
        <5>2. QED BY <1>2, <2>3, <3>2, <5>1 DEF InvalidateThenMark, Call
      <4>4. QED BY <2>1, <2>3, <4>1, <4>2, <4>3, CommandAssumption DEF Action, Commands
    <3>3. QED BY <2>3, <3>1, <3>2 DEF ApplyLocal
  <2>4. CASE at' = [at EXCEPT ![t] = "exiting"] /\ UNCHANGED <<memory, ctl, goal>>
    BY <1>2, <1>f, <2>4 DEF memory
  <2>5. CASE Action(ctl[t]) = "flatten" /\ InvalidateThenMark(t, Settled) /\ UNCHANGED <<memory, ctl>>
    <3>1. ctl[t] \notin Switches
      BY <2>5 DEF Switches
    <3>2. QED BY <1>2, <2>5, <3>1 DEF InvalidateThenMark, Call, memory
  <2>6. QED BY <1>5, <2>2, <2>3, <2>4, <2>5 DEF Claimed
<1>6. CASE Invalidated(t)
  BY <1>2, <1>6, <1>f DEF Invalidated, Answered, Call, memory
<1>7. CASE InvalidateFails(t)
  BY <1>2, <1>7 DEF InvalidateFails, Answered, Mark, Call, memory
<1>8. CASE Transitioned(t)
  BY <1>3, <1>8 DEF Transitioned, memory
<1>9. CASE Listed(t)
  BY <1>2, <1>9, <1>f DEF Listed, Answered, memory
<1>10. CASE SendExit(t) \/ ExitAnswered(t)
  <2>1. ctl[t] \notin Switches /\ UNCHANGED <<paused, ctl>>
    BY <1>1, <1>10 DEF SendExit, ExitAnswered, KnownInv, memory
  <2>2. \E w \in {"exit_sent", "invalidate", "transition"} : \E g :
           at' = [at EXCEPT ![t] = w] /\ goal' = [goal EXCEPT ![t] = g]
    BY <1>10, <1>f DEF SendExit, ExitAnswered, Mark, InvalidateThenMark, Call
  <2>3. QED BY <1>2, <2>1, <2>2
<1>11. QED
  BY <1>4, <1>5, <1>6, <1>7, <1>8, <1>9, <1>10 DEF Consume

-----------------------------------------------------------------------------
(* A set of numbers has a least member: the row numbers have a greatest.     *)
LEMMA LeastOf ==
    ASSUME NEW R, IsWellFoundedOn(R, Nat), \A x, y \in Nat : y < x => <<y, x>> \in R,
           NEW T \in SUBSET Nat, T # {}
    PROVE  \E x \in T : \A y \in T : x <= y
<1>1. PICK x \in T : \A y \in T : ~(<<y, x>> \in R)
  BY WFMin, Zenon
<1>2. \A y \in T : ~(y < x)
  BY <1>1
<1>3. QED BY <1>2

LEMMA LeastOfSome ==
    ASSUME NEW T \in SUBSET Nat, T # {}
    PROVE  \E x \in T : \A y \in T : x <= y
<1>1. \A x, y \in Nat : y < x => <<y, x>> \in OpToRel(<, Nat)
  BY DEF OpToRel
<1>2. QED BY <1>1, NatLessThanWellFounded, LeastOf, Zenon

LEMMA LastEffectiveExists ==
    ASSUME TypeOK, NumberInv, NEW S \in SUBSET Controls, S # {}
    PROVE  LastEffective(S) # {}
<1> DEFINE T == {lastSeq - seq[c] : c \in S}
<1>1. \A c \in S : seq[c] \in Nat /\ lastSeq \in Nat /\ seq[c] <= lastSeq
  BY DEF TypeOK, NumberInv
<1>2. T \in SUBSET Nat
  BY <1>1
<1>3. T # {}
  OBVIOUS
<1>4. PICK x \in T : \A y \in T : x <= y
  BY <1>2, <1>3, LeastOfSome, Zenon
<1>5. PICK c \in S : x = lastSeq - seq[c]
  BY <1>4
<1>6. ASSUME NEW d \in S PROVE seq[d] <= seq[c]
  <2>1. lastSeq - seq[c] <= lastSeq - seq[d]
    BY <1>4, <1>5
  <2>2. QED BY <1>1, <2>1
<1>7. QED BY <1>6 DEF LastEffective

(* The start restores a pause that is in force.                             *)
LEMMA PauseRestored == ASSUME AllHold, Restore PROVE PauseInv'
<1>1. /\ TypeOK /\ RoleInv /\ KnownInv /\ NumberInv /\ Switches \subseteq Controls /\ "boot" \in Tasks
  BY DEF AllHold, Holding, Switches, Tasks
<1>2. /\ at["boot"] = "restore" /\ at' = [at EXCEPT !["boot"] = "list"] /\ paused' = EffectivePaused
      /\ UNCHANGED <<status, seq, lastSeq, ctl, goal>>
  BY DEF Restore, StartList, Call, rows
<1>3. phase = "starting" /\ \A h \in Handlers : at[h] = "idle"
  BY <1>1, <1>2 DEF RoleInv, TypeOK
<1>4. SUFFICES ASSUME NEW p \in Switches, InForce(p)' PROVE paused'
  BY DEF PauseInv
<1>5. ASSUME NEW u \in Tasks, ctl[u] = p, at'[u] \in {"invalidate", "transition"} PROVE FALSE
  <2>1. u # "timer"
    BY <1>1, <1>5 DEF KnownInv
  <2>2. u # "boot"
    BY <1>1, <1>2, <1>5
  <2>3. u \in Handlers /\ at'[u] = at[u]
    BY <1>1, <1>2, <2>1, <2>2 DEF Tasks, TypeOK
  <2>4. QED BY <1>3, <1>5, <2>3
<1>6. /\ status[p] = "completed" /\ Scope(p) \in {"all", "own"} /\ Action(p) = "pause" /\ p \in Controls
      /\ Held(p)
  BY <1>1, <1>2, <1>4, <1>5 DEF InForce, Held, Later
<1> DEFINE S == {c \in Controls :
        status[c] = "completed" /\ Action(c) \in {"pause", "resume"} /\ Scope(c) \in {"all", "own"}}
<1>7. p \in S /\ S \subseteq Controls
  BY <1>6
<1>8. PICK m : m \in LastEffective(S)
  BY <1>1, <1>7, LastEffectiveExists
<1>9. /\ m \in Effective({"pause", "resume"}) /\ seq[p] <= seq[m] /\ m \in Controls /\ status[m] = "completed"
      /\ Action(m) \in {"pause", "resume"}
  BY <1>7, <1>8 DEF LastEffective, Effective
<1>10. Action(m) # "resume"
  <2>1. SUFFICES ASSUME Action(m) = "resume" PROVE FALSE
    OBVIOUS
  <2>2. seq[m] # 0 /\ m # p
    BY <1>1, <1>6, <1>9, <2>1 DEF NumberInv
  <2>3. seq[m] # seq[p] /\ seq[m] \in Nat /\ seq[p] \in Nat
    BY <1>1, <1>6, <1>9, <2>2 DEF NumberInv, TypeOK
  <2>4. m \in Later(p)
    BY <1>9, <2>3 DEF Later
  <2>5. QED BY <1>6, <1>9, <2>1, <2>4 DEF Held
<1>11. QED BY <1>2, <1>9, <1>10 DEF EffectivePaused

(* Lists, and a request that is posted.                                     *)
LEMMA PauseLists ==
    ASSUME AllHold, PauseInv, Lists \/ \E h \in Handlers, c \in Controls : PostControl(h, c)
    PROVE  PauseInv'
<1>1. /\ TypeOK /\ RoleInv /\ KnownInv /\ BootInv /\ Switches \subseteq Controls
      /\ "boot" \in Tasks /\ "timer" \in Tasks /\ Handlers \subseteq Tasks
      /\ Handlers \cap {"boot", "timer"} = {}
  BY HandlersAssumption DEF AllHold, Holding, Switches, Tasks
\* Task t comes to w, with a control that is not a pause or does not settle it.
<1>2. ASSUME NEW t \in Tasks, at[t] # "restore", UNCHANGED <<rows, paused>>, at'[t] # "restore",
             \A u \in Tasks \ {t} : at'[u] = at[u] /\ ctl'[u] = ctl[u] /\ goal'[u] = goal[u],
             \/ at'[t] \notin {"invalidate", "transition"} \/ ctl'[t] \notin Switches \/ goal'[t] # "completed"
      PROVE  PauseInv'
  <2>1. ASSUME NEW p \in Switches, InForce(p)' PROVE InForce(p)
    <3>1. Held(p) /\ status'[p] = status[p] /\ Action(p) = "pause"
      BY <1>2, <2>1 DEF InForce, Held, Later, rows
    <3>2. ASSUME NEW u \in Tasks, ctl'[u] = p, at'[u] \in {"invalidate", "transition"}, goal'[u] = "completed"
          PROVE  ctl[u] = p /\ at[u] \in {"invalidate", "transition"} /\ goal[u] = "completed"
      BY <1>2, <2>1, <3>2
    <3>3. QED BY <2>1, <3>1, <3>2 DEF InForce
  <2>2. at'["boot"] # "restore" => at["boot"] # "restore"
    BY <1>1, <1>2
  <2>3. QED BY <1>2, <2>1, <2>2, PauseKept
<1>3. CASE StartTimer \/ TimerEnds \/ BootEnds
  <2>1. PICK t \in {"boot", "timer"}, w \in {"list", "idle"} :
           at[t] # "restore" /\ at' = [at EXCEPT ![t] = w] /\ UNCHANGED <<rows, paused, ctl, goal>>
    BY <1>3 DEF StartTimer, TimerEnds, BootEnds, StartList, NothingLeft, Call, memory
  <2>2. QED BY <1>1, <1>2, <2>1 DEF TypeOK
<1>4. CASE Restore
  BY <1>4, PauseRestored
<1>5. ASSUME NEW h \in Handlers, NEW c \in Controls, PostControl(h, c) PROVE PauseInv'
  <2>1. /\ at[h] = "idle" /\ at' = [at EXCEPT ![h] = "submit"] /\ ctl' = [ctl EXCEPT ![h] = c]
        /\ UNCHANGED <<rows, paused, goal>>
    BY <1>5 DEF PostControl, Call, memory
  <2>2. QED BY <1>1, <1>2, <2>1 DEF TypeOK
<1>6. ASSUME NEW t \in {"boot", "timer"}, NEW c \in Controls, Visit(t, c), UNCHANGED rows
      PROVE  /\ t \in Tasks /\ at[t] = "next" /\ todo[t][c] # "none" /\ (t = "timer" => c \notin Switches)
             /\ \A w : Call(t, w) => at'[t] = w /\ \A u \in Tasks \ {t} : at'[u] = at[u]
             /\ \A g : goal' = [goal EXCEPT ![t] = g] => goal'[t] = g /\ \A u \in Tasks \ {t} : goal'[u] = goal[u]
             /\ Take(t, c) => ctl'[t] = c /\ \A u \in Tasks \ {t} : ctl'[u] = ctl[u]
  BY <1>1, <1>6 DEF Visit, IsNext, Take, Call, TypeOK, KnownInv
<1>7. ASSUME NEW c \in Controls, TimerVisits(c) PROVE PauseInv'
  <2>1. Visit("timer", c) /\ UNCHANGED <<rows, paused>>
    BY <1>7 DEF TimerVisits, memory
  <2>2. CASE Mark("timer", "completed") /\ Take("timer", c)
    BY <1>2, <1>6, <2>1, <2>2 DEF Mark
  <2>3. CASE UNCHANGED <<at, calls, ctl, saw, goal>>
    <3>1. \A p \in Switches : InForce(p)' => InForce(p)
      BY <2>1, <2>3 DEF InForce, Held, Later, rows
    <3>2. QED BY <2>1, <2>3, <3>1, PauseKept
  <2>4. QED BY <1>7, <2>2, <2>3 DEF TimerVisits
<1>8. ASSUME NEW c \in Controls, BootVisits(c) PROVE PauseInv'
  <2>1. Visit("boot", c) /\ Take("boot", c) /\ UNCHANGED rows
    BY <1>8 DEF BootVisits
  <2>2. /\ at["boot"] = "next" /\ todo["boot"][c] # "none" /\ ctl'["boot"] = c
        /\ \A u \in Tasks \ {"boot"} : ctl'[u] = ctl[u]
    BY <1>6, <2>1
  <2>3. UNCHANGED goal \/ \E g : goal' = [goal EXCEPT !["boot"] = g]
    BY <1>8 DEF BootVisits, RejectOrClaim, ApplyLocal, ResumeFlatten, Mark, InvalidateThenMark
  <2>4. \A u \in Tasks \ {"boot"} : goal'[u] = goal[u]
    BY <1>6, <2>1, <2>3
  <2>5. ASSUME NEW w \in {"claim", "invalidate", "transition"}, Call("boot", w), UNCHANGED paused,
               w = "claim" \/ c \notin Switches \/ goal'["boot"] # "completed"
        PROVE  PauseInv'
    BY <1>2, <1>6, <2>1, <2>2, <2>4, <2>5
  <2>m. ASSUME Mark("boot", "rejected"), UNCHANGED paused PROVE PauseInv'
    <3>1. Call("boot", "transition") /\ goal' = [goal EXCEPT !["boot"] = "rejected"]
      BY <2>m DEF Mark
    <3>2. goal'["boot"] # "completed"
      BY <1>1, <3>1 DEF TypeOK
    <3>3. QED BY <2>5, <2>m, <3>1, <3>2
  <2>6. CASE RejectOrClaim("boot", c) /\ UNCHANGED memory
    <3>1. CASE Mark("boot", "rejected")
      BY <2>6, <2>m, <3>1 DEF memory
    <3>2. CASE Call("boot", "claim")
      BY <2>5, <2>6, <3>2 DEF memory
    <3>3. QED BY <2>6, <3>1, <3>2 DEF RejectOrClaim
  <2>7. CASE todo["boot"][c] # "pending" /\ ApplyLocal("boot", c)
    <3>1. CASE Mark("boot", "rejected") /\ UNCHANGED memory
      BY <2>m, <3>1 DEF memory
    <3>2. CASE InvalidateThenMark("boot", "completed") /\ SetMemory(c)
      <4>1. Call("boot", "invalidate")
        BY <3>2 DEF InvalidateThenMark
      <4>2. CASE Action(c) = "pause"
        BY <3>2, <4>2, PauseSet DEF SetMemory
      <4>3. CASE Action(c) \notin {"pause", "resume"}
        BY <2>5, <3>2, <4>1, <4>3 DEF SetMemory, Switches
      <4>4. CASE Action(c) = "resume"
        <5>1. c \in Switches /\ phase = "starting"
          BY <1>1, <2>2, <4>4 DEF Switches, RoleInv, TypeOK
        <5>2. status[c] = todo["boot"][c]
          BY <1>1, <2>2, <5>1 DEF BootInv
        <5>3. status[c] = "applying"
          BY <1>1, <2>2, <2>7, <5>1, <5>2 DEF KnownInv, TypeOK, Open
        <5>4. \A u \in Tasks \ {"boot"} : at'[u] = at[u]
          BY <1>6, <2>1, <4>1
        <5>5. \A p \in Switches : ~InForce(p)'
          BY <1>1, <2>1, <2>2, <2>4, <4>4, <5>1, <5>3, <5>4, ResumeFindsNone
        <5>6. QED BY <5>5 DEF PauseInv
      <4>5. QED BY <4>2, <4>3, <4>4
    <3>3. QED BY <2>7, <3>1, <3>2 DEF ApplyLocal
  <2>8. CASE Action(c) = "flatten" /\ ResumeFlatten(c)
    <3>1. c \notin Switches
      BY <2>8 DEF Switches
    <3>2. CASE paused' = TRUE
      BY <3>2, PauseSet
    <3>3. CASE UNCHANGED memory /\ \E g : Mark("boot", g)
      BY <2>5, <3>1, <3>3 DEF Mark, memory
    <3>4. QED BY <2>8, <3>2, <3>3 DEF ResumeFlatten
  <2>9. QED BY <1>8, <2>6, <2>7, <2>8 DEF BootVisits
<1>9. QED BY <1>3, <1>4, <1>5, <1>7, <1>8 DEF Lists

LEMMA PauseNext == ASSUME AllHold, PauseInv, [Next]_vars PROVE PauseInv'
<1>1. CASE Worker
  BY <1>1, PauseWorker
<1>2. CASE \E t \in Tasks : Consume(t) \/ SendExit(t) \/ ExitAnswered(t) \/ InvalidateFails(t)
  BY <1>2, PauseTasks
<1>3. CASE Lists \/ \E h \in Handlers, c \in Controls : PostControl(h, c)
  BY <1>3, PauseLists
<1>4. CASE Crash
  <2>1. at'["boot"] = "restore"
    BY <1>4 DEF Crash, AtRest, Tasks
  <2>2. QED BY <2>1 DEF PauseInv
<1>5. CASE AccountMoves \/ UNCHANGED vars
  <2>1. UNCHANGED <<status, seq, paused, at, ctl, goal>>
    BY <1>5 DEF AccountMoves, vars, rows, memory, locals
  <2>2. \A p \in Switches : InForce(p)' => InForce(p)
    BY <2>1 DEF InForce, Held, Later
  <2>3. QED BY <2>1, <2>2, PauseKept
<1>6. QED BY <1>1, <1>2, <1>3, <1>4, <1>5 DEF Next

(* A completed pause holds until a later resume is claimed: over restarts,  *)
(* and whatever older commands are still under way.                         *)
THEOREM PauseHolds == Spec => []LastPauseHolds
<1>1. Init => BaseInv /\ Deciding /\ Holding /\ PauseInv
  <2>1. Init => PauseInv
    BY DEF Init, PauseInv, AtRest, Tasks
  <2>2. QED BY <2>1, BaseInit, DecidingInit, HoldsInit
<1>2. BaseInv /\ Deciding /\ Holding => AllHold
  BY DEF BaseInv, Deciding, AllHold
<1>3. BaseInv /\ Deciding /\ Holding /\ PauseInv /\ [Next]_vars => BaseInv' /\ Deciding' /\ Holding' /\ PauseInv'
  BY <1>2, BaseNext, DecidingNext, HoldsNext, PauseNext
<1>4. BaseInv /\ Deciding /\ Holding /\ PauseInv => LastPauseHolds
  <2>1. SUFFICES ASSUME RoleInv, PauseInv, NEW c \in Controls, phase = "ready",
                        status[c] = "completed", Action(c) = "pause", Scope(c) \in {"all", "own"},
                        \A d \in Controls : Action(d) = "resume" /\ seq[d] > seq[c] => status[d] = "pending"
                 PROVE  paused
    BY DEF Deciding, LastPauseHolds
  <2>2. at["boot"] = "idle" /\ c \in Switches /\ Held(c)
    BY <2>1 DEF RoleInv, Switches, Held, Later
  <2>3. QED BY <2>1, <2>2 DEF PauseInv, InForce
<1>5. QED
  BY <1>1, <1>3, <1>4, PTL DEF Spec
================================================================================
