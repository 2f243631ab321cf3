-------------------------------- MODULE Rest --------------------------------
(***************************************************************************)
(* The ProjectX REST client: the session of ProjectXAuthManager, the       *)
(* concurrency gate, the read circuit breaker and the retry loop that each *)
(* request goes through.                                                   *)
(*                                                                         *)
(* A request is named by the endpoint it posts to, and an endpoint has one *)
(* request at a time, as its caller waits for the answer.  Time is counted *)
(* in polls: between two ticks of the clock every caller may start one     *)
(* request, which is what setInterval does for the periodic reads.         *)
(***************************************************************************)
EXTENDS Naturals, Sequences, FiniteSets, SequencesExt

CONSTANTS Calls,             \* endpoints the callers of this instance use
          MaxConcurrent,     \* slots of the REST gate
          MaxAttempts,       \* length of rateLimitRetryMs
          FailureThreshold,  \* failures that open a circuit
          Cooldown,          \* polls a circuit stays open for
          MaxRestFaults      \* bound on refusals, revocations and expiries

Endpoints == {"loginKey", "validate", "accounts", "contracts", "positions",
              "openOrders", "orders", "trades", "retrieveBars",
              "place", "modify", "cancel", "closeContract"}

ASSUME RestAssumption ==
    /\ Calls \subseteq Endpoints \ {"loginKey", "validate"}
    /\ MaxConcurrent \in Nat \ {0} /\ MaxAttempts \in Nat \ {0}
    /\ FailureThreshold \in Nat \ {0} /\ Cooldown \in Nat /\ MaxRestFaults \in Nat

IsMutationPath(p) == p \in {"place", "modify", "cancel", "closeContract"}

\* The rank in PRIORITY_ORDER of the queue the request waits in, best first.
RestPriorityForPath(p) ==
    IF p \in {"accounts", "positions", "openOrders"} \/ IsMutationPath(p) THEN 0
    ELSE IF p = "trades" THEN 1
    ELSE IF p = "retrieveBars" THEN 3 ELSE 2

Families == {"bars", "positions", "orders", "trades", "accounts", "contracts", "auth", "other"}

ReadEndpointFamily(p) ==
    CASE p = "retrieveBars"              -> "bars"
      [] p \in {"openOrders", "orders"}  -> "orders"
      [] p = "validate"                  -> "auth"
      [] p \in Families                  -> p
      [] OTHER                           -> "other"

(* Faulty: a mutation that failed on the way is tried again too.            *)
ShouldRetryAnyPost(p, error, attempt) ==
    attempt < MaxAttempts /\ error \in {"rate_limited", "server", "network"}

\* shouldRetryPost: a 429, a 5xx, a network error and an error without a
\* status (the missing token among them) are tried again, never for a mutation.
ShouldRetryPost(p, error, attempt) ==
    /\ ~IsMutationPath(p)
    /\ attempt < MaxAttempts
    /\ error \in {"rate_limited", "server", "network", "not_authenticated"}

VARIABLES call,           \* endpoint -> its request
          waitLine,       \* requests waiting for a slot, oldest first
          slots,          \* slots taken
          circuit,        \* family -> [failures, openFor]
          token,          \* the session token: none, live or dead at the venue
          usable,         \* the expiry is known and its margin not reached
          refreshFailed,  \* the last refresh failed
          refresh,        \* phase of the single refresh in flight
          due,            \* callers whose timer has fired
          posted,         \* mutation -> times the venue saw the current request
          restFaults      \* faults so far

restVars == <<call, waitLine, slots, circuit, token, usable, refreshFailed, refresh,
              due, posted, restFaults>>
session  == <<token, usable, refreshFailed, refresh>>

Idle == [at |-> "idle", attempt |-> 1, again |-> FALSE, storm |-> FALSE,
         with |-> "none", result |-> "none"]

RestInit ==
    /\ call = [p \in Endpoints |-> Idle]
    /\ waitLine = <<>> /\ slots = 0
    /\ circuit = [f \in Families |-> [failures |-> 0, openFor |-> 0]]
    /\ token = "none" /\ usable = FALSE /\ refreshFailed = FALSE /\ refresh = "none"
    /\ due = {} /\ posted = [p \in Endpoints |-> 0] /\ restFaults = 0

RestFault == restFaults < MaxRestFaults /\ restFaults' = restFaults + 1

----------------------------------------------------------------------------
(* The gate.                                                               *)

\* The waiter a released slot goes to: the best rank, the oldest of it.
Best(q) == CHOOSE i \in DOMAIN q : \A j \in DOMAIN q :
              \/ RestPriorityForPath(q[i]) < RestPriorityForPath(q[j])
              \/ RestPriorityForPath(q[i]) = RestPriorityForPath(q[j]) /\ i <= j

\* What release does to the requests: `calls` with the next waiter started.
Handed(calls) ==
    IF waitLine = <<>> THEN calls ELSE [calls EXCEPT ![waitLine[Best(waitLine)]].at = "held"]

Release ==
    IF waitLine = <<>>
    THEN slots' = slots - 1 /\ waitLine' = waitLine
    ELSE slots' = slots /\ waitLine' = RemoveAt(waitLine, Best(waitLine))

Acquire(p) ==
    /\ call[p].at = "ready"
    /\ IF slots < MaxConcurrent
       THEN /\ slots' = slots + 1 /\ waitLine' = waitLine
            /\ call' = [call EXCEPT ![p].at = "held"]
       ELSE /\ slots' = slots /\ waitLine' = Append(waitLine, p)
            /\ call' = [call EXCEPT ![p].at = "queued"]
    /\ UNCHANGED <<circuit, session, due, posted, restFaults>>

(* Faulty: it stays there, settled.                                         *)
NotWithdrawn(p) == waitLine

\* A timed-out waiter leaves the queue it waits in.
Withdrawn(p) == RemoveAt(waitLine, CHOOSE i \in DOMAIN waitLine : waitLine[i] = p)

----------------------------------------------------------------------------
(* The circuit breaker.                                                    *)

IsOpen(p) == ~IsMutationPath(p) /\ circuit[ReadEndpointFamily(p)].openFor > 0

RecordSuccess(p) ==
    IF IsMutationPath(p) THEN circuit
    ELSE [circuit EXCEPT ![ReadEndpointFamily(p)] = [failures |-> 0, openFor |-> 0]]

\* Every failed attempt of a read counts, the one an open circuit refused too.
RecordFailure(p) ==
    LET f == ReadEndpointFamily(p) IN
    IF IsMutationPath(p) THEN circuit
    ELSE IF circuit[f].failures + 1 >= FailureThreshold
         THEN [circuit EXCEPT ![f] = [failures |-> 0, openFor |-> Cooldown]]
         ELSE [circuit EXCEPT ![f].failures = @ + 1]

\* Time passes once every caller that is due has been served or skipped.
Tick ==
    /\ due = {}
    /\ due' = Calls
    /\ circuit' = [f \in Families |-> [circuit[f] EXCEPT !.openFor = IF @ > 0 THEN @ - 1 ELSE 0]]
    /\ UNCHANGED <<call, waitLine, slots, session, posted, restFaults>>

----------------------------------------------------------------------------
(* The session.                                                            *)

HasUsableSession == ~refreshFailed /\ token # "none" /\ usable

\* ensureAuthenticated: join the refresh in flight, use the session, or start
\* the refresh, after the backoff when the last one failed.
EnsureAuthenticated(p, record) ==
    /\ IF refresh = "none" /\ HasUsableSession
       THEN call' = [call EXCEPT ![p] = [record EXCEPT !.at = "ready"]]
       ELSE call' = [call EXCEPT ![p] = [record EXCEPT !.at = "auth"]]
    /\ refresh' = IF refresh = "none" /\ ~HasUsableSession
                  THEN (IF refreshFailed THEN "backoff" ELSE "begin") ELSE refresh

Begin(p) ==
    /\ p \in due /\ call[p].at = "idle"
    /\ \E storm \in (IF p = "retrieveBars" THEN BOOLEAN ELSE {FALSE}) :
          EnsureAuthenticated(p, [Idle EXCEPT !.storm = storm])
    /\ due' = due \ {p}
    /\ posted' = [posted EXCEPT ![p] = 0]
    /\ UNCHANGED <<waitLine, slots, circuit, token, usable, refreshFailed, restFaults>>

\* The timer fires while the previous request is still in flight.
Skip(p) ==
    /\ p \in due /\ call[p].at # "idle"
    /\ due' = due \ {p}
    /\ UNCHANGED <<call, waitLine, slots, circuit, session, posted, restFaults>>

BackoffEnds ==
    /\ refresh = "backoff" /\ refresh' = "begin"
    /\ UNCHANGED <<call, waitLine, slots, circuit, token, usable, refreshFailed, due, posted, restFaults>>

\* A token is validated, even one the venue no longer knows; without one the
\* manager logs in.
RefreshBegins ==
    /\ refresh = "begin"
    /\ LET p == IF token # "none" THEN "validate" ELSE "loginKey" IN
          /\ refresh' = p
          /\ call' = [call EXCEPT ![p] = [Idle EXCEPT !.at = "ready"]]
    /\ UNCHANGED <<waitLine, slots, circuit, token, usable, refreshFailed, due, posted, restFaults>>

(* Faulty: nobody is told.                                                  *)
NotWoken(calls, at) == calls

Woken(calls, at) == [p \in Endpoints |-> IF calls[p].at = "auth" THEN [calls[p] EXCEPT !.at = at] ELSE calls[p]]

\* The login answered: its token is kept and validated once, as advice only.
LoginAnswered ==
    /\ refresh = "loginKey" /\ call["loginKey"].result = "ok"
    /\ token' = "live" /\ refresh' = "advisory"
    /\ call' = [call EXCEPT !["loginKey"] = Idle, !["validate"] = [Idle EXCEPT !.at = "ready"]]
    /\ UNCHANGED <<waitLine, slots, circuit, usable, refreshFailed, due, posted, restFaults>>

\* The refresh succeeds, and every caller that joined it goes on.  A validated
\* session needs a token still: one invalidated in the meantime fails below.
Refreshed ==
    /\ call["validate"].at = "answered"
    /\ \/ refresh = "advisory"
       \/ refresh = "validate" /\ call["validate"].result = "ok" /\ token # "none"
    /\ usable' = TRUE /\ refreshFailed' = FALSE /\ refresh' = "none"
    /\ call' = Woken([call EXCEPT !["validate"] = Idle], "ready")
    /\ UNCHANGED <<waitLine, slots, circuit, token, due, posted, restFaults>>

\* The refresh fails: the token stays, and every caller that joined it fails.
RefreshFailed ==
    /\ \/ refresh = "loginKey" /\ call["loginKey"].at = "answered" /\ call["loginKey"].result # "ok"
       \/ refresh = "validate" /\ call["validate"].at = "answered"
            /\ (call["validate"].result # "ok" \/ token = "none")
    /\ refreshFailed' = TRUE /\ refresh' = "none"
    /\ call' = Woken([call EXCEPT ![refresh] = Idle], "answered")
    /\ UNCHANGED <<waitLine, slots, circuit, token, usable, due, posted, restFaults>>

----------------------------------------------------------------------------
(* The request.                                                            *)

\* withAuthenticatedRead tries a read once more after a 401; a mutation and
\* the refresh's own requests are answered with the error.
TriesAgain(p, error) ==
    /\ error = "unauthorized" /\ ~call[p].again
    /\ p \notin {"loginKey", "validate"} /\ ~IsMutationPath(p)

\* An attempt that failed: tried again after a delay, tried again with a new
\* session, or answered.  `calls` is the table after the slot was released.
AttemptFails(p, error, calls) ==
    /\ circuit' = RecordFailure(p)
    /\ IF ShouldRetryPost(p, error, call[p].attempt) /\ ~call[p].storm
       THEN /\ call' = [calls EXCEPT ![p].at = "delay", ![p].attempt = @ + 1]
            /\ UNCHANGED session
       ELSE IF TriesAgain(p, error)
       THEN /\ token' = "none" /\ usable' = FALSE
            /\ call' = [calls EXCEPT ![p].at = "reauth", ![p].attempt = 1, ![p].again = TRUE]
            /\ UNCHANGED <<refreshFailed, refresh>>
       ELSE /\ call' = [calls EXCEPT ![p].at = "answered", ![p].result = error]
            /\ UNCHANGED session

\* The slot is there: the breaker and the token are looked at now.
Send(p) ==
    /\ call[p].at = "held" /\ ~IsOpen(p) /\ (token # "none" \/ p = "loginKey")
    /\ call' = [call EXCEPT ![p].at = "wire", ![p].with = IF p = "loginKey" THEN "live" ELSE token]
    /\ posted' = [posted EXCEPT ![p] = IF IsMutationPath(p) THEN @ + 1 ELSE 0]
    /\ UNCHANGED <<waitLine, slots, circuit, session, due, restFaults>>

RefusedHere(p) ==
    /\ call[p].at = "held" /\ (IsOpen(p) \/ (token = "none" /\ p # "loginKey"))
    /\ Release
    /\ AttemptFails(p, IF IsOpen(p) THEN "circuit_open" ELSE "not_authenticated", Handed(call))
    /\ UNCHANGED <<due, posted, restFaults>>

\* validateSession keeps the token, or takes the new one the venue sends.
TokensAfter(p) == IF p = "validate" THEN {token, "live"} ELSE {token}

Answered(p) ==
    /\ call[p].at = "wire" /\ call[p].with = "live"
    /\ Release
    /\ circuit' = RecordSuccess(p)
    /\ call' = [Handed(call) EXCEPT ![p].at = "answered", ![p].result = "ok"]
    /\ token' \in TokensAfter(p)
    /\ UNCHANGED <<usable, refreshFailed, refresh, due, posted, restFaults>>

\* The venue does not know the token the request was sent with.
Unauthorized(p) ==
    /\ call[p].at = "wire" /\ call[p].with = "dead"
    /\ Release
    /\ AttemptFails(p, "unauthorized", Handed(call))
    /\ UNCHANGED <<due, posted, restFaults>>

Fails(p) ==
    /\ call[p].at = "wire" /\ RestFault
    /\ Release
    /\ \E error \in {"rate_limited", "server", "network"} : AttemptFails(p, error, Handed(call))
    /\ UNCHANGED <<due, posted>>

DelayEnds(p) ==
    /\ call[p].at = "delay"
    /\ call' = [call EXCEPT ![p].at = "ready"]
    /\ UNCHANGED <<waitLine, slots, circuit, session, due, posted, restFaults>>

\* The operation's deadline passed during the delay.
DeadlinePasses(p) ==
    /\ call[p].at = "delay" /\ RestFault
    /\ call' = [call EXCEPT ![p].at = "answered", ![p].result = "deadline"]
    /\ UNCHANGED <<waitLine, slots, circuit, session, due, posted>>

\* In a storm the bars request waits for a slot no longer than its deadline;
\* the breaker does not hear of it.
GateTimesOut(p) ==
    /\ call[p].at = "queued" /\ call[p].storm
    /\ waitLine' = Withdrawn(p)
    /\ call' = [call EXCEPT ![p].at = "answered", ![p].result = "gate_timeout"]
    /\ UNCHANGED <<slots, circuit, session, due, posted, restFaults>>

Reauthenticates(p) ==
    /\ call[p].at = "reauth"
    /\ EnsureAuthenticated(p, call[p])
    /\ UNCHANGED <<waitLine, slots, circuit, token, usable, refreshFailed, due, posted, restFaults>>

Returns(p) ==
    /\ p \in Calls /\ call[p].at = "answered"
    /\ call' = [call EXCEPT ![p] = Idle]
    /\ UNCHANGED <<waitLine, slots, circuit, session, due, posted, restFaults>>

\* The venue forgets the session; the margin before the expiry is reached.
Revoked ==
    /\ token = "live" /\ RestFault
    /\ token' = "dead"
    /\ UNCHANGED <<call, waitLine, slots, circuit, usable, refreshFailed, refresh, due, posted>>

MarginReached ==
    /\ usable /\ RestFault
    /\ usable' = FALSE
    /\ UNCHANGED <<call, waitLine, slots, circuit, token, refreshFailed, refresh, due, posted>>

Answers == \E p \in Endpoints : Answered(p) \/ Unauthorized(p)

Moves == \E p \in Endpoints :
    \/ Begin(p) \/ Skip(p) \/ Acquire(p) \/ Send(p) \/ RefusedHere(p)
    \/ DelayEnds(p) \/ Reauthenticates(p) \/ Returns(p)

Refreshes == BackoffEnds \/ RefreshBegins \/ LoginAnswered \/ Refreshed \/ RefreshFailed

RestNext ==
    \/ Tick \/ Answers \/ Moves \/ Refreshes \/ Revoked \/ MarginReached
    \/ \E p \in Endpoints : Fails(p) \/ DeadlinePasses(p) \/ GateTimesOut(p)

\* Timers fire, promises settle, and every request is answered or times out.
RestFairness ==
    /\ WF_restVars(Tick)
    /\ WF_restVars(Refreshes)
    /\ \A p \in Endpoints :
          /\ WF_restVars(Answered(p) \/ Unauthorized(p))
          /\ WF_restVars(Begin(p) \/ Skip(p))
          /\ WF_restVars(Acquire(p) \/ Send(p) \/ RefusedHere(p) \/ DelayEnds(p)
                         \/ Reauthenticates(p) \/ Returns(p))

RestSpec == RestInit /\ [][RestNext]_restVars /\ RestFairness

-----------------------------------------------------------------------------
RestTypeOK ==
    /\ slots \in 0 .. MaxConcurrent
    /\ token \in {"none", "live", "dead"} /\ {usable, refreshFailed} \subseteq BOOLEAN
    /\ due \subseteq Endpoints /\ posted \in [Endpoints -> Nat]
    /\ restFaults \in 0 .. MaxRestFaults

(* The gate loses no slot: every taken slot is one request's, and no request *)
(* waits while a slot is free, whatever timed out or failed meanwhile.       *)
GateLosesNoSlot ==
    /\ slots = Cardinality({p \in Endpoints : call[p].at \in {"held", "wire"}})
    /\ slots < MaxConcurrent => waitLine = <<>>

(* The venue sees a mutation at most once per call, through rate limits, lost*)
(* answers and a session that is refreshed under it (shouldRetryPost).       *)
MutationPostedOnce == \A p \in Endpoints : IsMutationPath(p) => posted[p] <= 1

RestInv == RestTypeOK /\ GateLosesNoSlot /\ MutationPostedOnce

(* A critical call (an order, a close, a search of open state) always comes  *)
(* back to its caller, answered or failed: neither the queue behind one      *)
(* slot, nor the retries, nor a renewal of the token keeps it for ever.      *)
CriticalCallsReturn ==
    \A p \in Calls : RestPriorityForPath(p) = 0 => (call[p].at # "idle" ~> call[p].at = "idle")
=============================================================================
