------------------------------ MODULE Link_proofs ------------------------------
(***************************************************************************)
(* Proofs about the link to the venue: the REST client, the recovery of    *)
(* the two streams and the evidence queue behind them, for any callers,    *)
(* slots, attempts, keys, marks and faults.                                *)
(*                                                                         *)
(* The invariant of the client has three parts: the gate's line is exactly *)
(* the requests that wait, each once; the session's two requests are idle  *)
(* unless the refresh in flight is at them; a mutation that is on its way  *)
(* to the wire has not been there.  That of the streams has two: a hub     *)
(* whose stream is connected listens with what it subscribed, and of the   *)
(* promises of a restart at most one per hub is an attempt in flight.      *)
(***************************************************************************)
EXTENDS Rest, HubRecovery, Evidence, FiniteSetTheorems, SequenceTheorems,
        WellFoundedInduction, TLAPS

Steps == {"idle", "auth", "ready", "queued", "held", "wire", "delay", "reauth", "answered"}

Results == {"none", "ok", "deadline", "gate_timeout", "circuit_open", "not_authenticated",
            "unauthorized", "rate_limited", "server", "network"}

Requests == [at : Steps, attempt : Nat, again : BOOLEAN, storm : BOOLEAN,
             with : {"none", "live", "dead"}, result : Results]

Busy == {"held", "wire"}
Holders(calls) == {p \in Endpoints : calls[p].at \in Busy}
Waits(q, p) == \E i \in 1 .. Len(q) : q[i] = p
OneEach(q) == \A i, j \in 1 .. Len(q) : q[i] = q[j] => i = j

(* The line and the slots are those of the requests of a table.             *)
Gate(calls, q, n) ==
    /\ q \in Seq(Endpoints) /\ OneEach(q)
    /\ \A p \in Endpoints : Waits(q, p) <=> calls[p].at = "queued"
    /\ n = Cardinality(Holders(calls)) /\ n \in 0 .. MaxConcurrent
    /\ n < MaxConcurrent => q = <<>>

GateInv == Gate(call, waitLine, slots)

(* The refresh in flight and the two requests it makes.                     *)
SessionInv ==
    /\ refresh \in {"none", "backoff", "begin", "loginKey", "validate", "advisory"}
    /\ token \in {"none", "live", "dead"} /\ usable \in BOOLEAN /\ refreshFailed \in BOOLEAN
    /\ refresh # "loginKey" => call["loginKey"].at = "idle"
    /\ refresh \notin {"validate", "advisory"} => call["validate"].at = "idle"
    /\ \A p \in Endpoints : call[p].result = "ok" => call[p].at = "answered"

(* A mutation on its way to the wire has not been there.                    *)
PostInv ==
    /\ posted \in [Endpoints -> Nat]
    /\ \A p \in Endpoints : IsMutationPath(p) =>
          /\ posted[p] <= 1
          /\ call[p].at \in {"auth", "ready", "queued", "held"} => posted[p] = 0
          /\ call[p].at \notin {"delay", "reauth"}

TableInv ==
    /\ call \in [Endpoints -> Requests]
    /\ due \subseteq Calls /\ restFaults \in 0 .. MaxRestFaults

ClientInv == TableInv /\ GateInv /\ SessionInv /\ PostInv

-----------------------------------------------------------------------------
LEMMA FiniteEndpoints == IsFiniteSet(Endpoints)
<1>1. \A x, y : IsFiniteSet({x, y})
  <2> TAKE x, y
  <2>1. IsFiniteSet({x}) /\ IsFiniteSet({y}) /\ {x, y} = {x} \cup {y}
    BY FS_Singleton
  <2>2. QED BY <2>1, FS_Union
<1>2. \A u, v, x, y : IsFiniteSet({u, v, x, y})
  <2> TAKE u, v, x, y
  <2>1. IsFiniteSet({u, v}) /\ IsFiniteSet({x, y}) /\ {u, v, x, y} = {u, v} \cup {x, y}
    BY <1>1
  <2>2. QED BY <2>1, FS_Union
<1> DEFINE A == {"loginKey", "validate", "accounts", "contracts"}
           B == {"positions", "openOrders", "orders", "trades"}
           C == {"place", "modify", "cancel", "closeContract"}
<1>3. IsFiniteSet(A) /\ IsFiniteSet(B) /\ IsFiniteSet(C) /\ IsFiniteSet({"retrieveBars"})
  BY <1>2, FS_Singleton
<1>4. IsFiniteSet(A \cup B) /\ IsFiniteSet(C \cup {"retrieveBars"})
  <2> HIDE DEF A, B, C
  <2> QED BY <1>3, FS_Union
<1>5. Endpoints = (A \cup B) \cup (C \cup {"retrieveBars"})
  BY DEF Endpoints
<1>6. QED
  <2> HIDE DEF A, B, C
  <2> QED BY <1>4, <1>5, FS_Union

(* A nonempty set of naturals has a least element.                          *)
LEMMA Least ==
    ASSUME NEW S \in SUBSET Nat, S # {}
    PROVE  \E m \in S : \A n \in S : m <= n
<1> DEFINE R == OpToRel(<, Nat)
<1>0. IsWellFoundedOn(R, Nat)
  BY NatLessThanWellFounded, Zenon
<1>a. \A n, m \in Nat : n < m => <<n, m>> \in R
  BY Zenon DEF OpToRel
<1> HIDE DEF R
<1>1. PICK m \in S : \A n \in S : ~ (<<n, m>> \in R)
  BY <1>0, WFMin
<1>2. \A n \in S : m <= n
  <2> TAKE n \in S
  <2>1. n \in Nat /\ m \in Nat
    OBVIOUS
  <2>2. ~ (n < m)
    BY <1>1, <1>a, <2>1, Zenon
  <2>3. QED BY <2>1, <2>2
<1>3. QED BY <1>2

(* The waiter that release serves is one of the line.                       *)
LEMMA BestWaits ==
    ASSUME NEW q \in Seq(Endpoints), q # <<>>
    PROVE  Best(q) \in 1 .. Len(q)
<1> DEFINE rank == [i \in 1 .. Len(q) |-> RestPriorityForPath(q[i])]
           R == {rank[i] : i \in 1 .. Len(q)}
<1>1. Len(q) \in Nat \ {0} /\ DOMAIN q = 1 .. Len(q)
  OBVIOUS
<1>2. rank \in [1 .. Len(q) -> Nat]
  BY DEF RestPriorityForPath
<1>3. PICK r \in R : \A n \in R : r <= n
  <2>1. R \in SUBSET Nat
    BY <1>2
  <2>2. rank[1] \in R
    BY <1>1
  <2>3. QED BY <2>1, <2>2, Least
<1> DEFINE I == {i \in 1 .. Len(q) : rank[i] = r}
<1>4. PICK m \in I : \A n \in I : m <= n
  <2>1. I \in SUBSET Nat /\ I # {}
    BY <1>1, <1>3
  <2>2. QED BY <2>1, Least
<1>5. \A j \in 1 .. Len(q) : rank[m] < rank[j] \/ (rank[m] = rank[j] /\ m <= j)
  <2> TAKE j \in 1 .. Len(q)
  <2>1. rank[j] \in R /\ rank[j] \in Nat /\ rank[m] = r /\ m \in Nat /\ r \in Nat
    BY <1>1, <1>2, <1>4
  <2>2. rank[m] <= rank[j]
    BY <1>3, <2>1
  <2>3. CASE rank[m] = rank[j]
    BY <1>4, <2>1, <2>3
  <2>4. QED BY <2>1, <2>2, <2>3
<1>6. \E i \in DOMAIN q : \A j \in DOMAIN q :
              \/ RestPriorityForPath(q[i]) < RestPriorityForPath(q[j])
              \/ RestPriorityForPath(q[i]) = RestPriorityForPath(q[j]) /\ i <= j
  BY <1>1, <1>4, <1>5
<1>7. Best(q) \in DOMAIN q
  BY <1>6 DEF Best
<1>8. QED BY <1>1, <1>7

(* What RemoveAt leaves of a line in which everybody waits once.            *)
LEMMA Removed ==
    ASSUME NEW q \in Seq(Endpoints), OneEach(q), NEW k \in 1 .. Len(q)
    PROVE  /\ RemoveAt(q, k) \in Seq(Endpoints) /\ OneEach(RemoveAt(q, k))
           /\ \A p \in Endpoints : Waits(RemoveAt(q, k), p) <=> Waits(q, p) /\ p # q[k]
<1> DEFINE a == SubSeq(q, 1, k - 1)
           b == SubSeq(q, k + 1, Len(q))
           r == RemoveAt(q, k)
<1>1. Len(q) \in Nat /\ k \in Nat /\ 1 <= k /\ k <= Len(q) /\ \A i \in 1 .. Len(q) : q[i] \in Endpoints
  OBVIOUS
<1>2. a \in Seq(Endpoints) /\ Len(a) = k - 1 /\ \A i \in 1 .. k - 1 : a[i] = q[i]
  BY <1>1, SubSeqProperties
<1>3. b \in Seq(Endpoints) /\ Len(b) = Len(q) - k /\ \A i \in 1 .. Len(q) - k : b[i] = q[k + i]
  BY <1>1, SubSeqProperties
<1>4. r = a \o b
  BY DEF RemoveAt
<1> HIDE DEF a, b, r
<1>5. /\ r \in Seq(Endpoints) /\ Len(r) = Len(q) - 1
      /\ \A i \in 1 .. Len(q) - 1 : r[i] = IF i < k THEN q[i] ELSE q[i + 1]
  <2>1. r \in Seq(Endpoints) /\ Len(r) = Len(a) + Len(b)
        /\ \A i \in 1 .. Len(a) + Len(b) : r[i] = IF i <= Len(a) THEN a[i] ELSE b[i - Len(a)]
    BY <1>2, <1>3, <1>4, ConcatProperties
  <2>2. Len(a) + Len(b) = Len(q) - 1
    BY <1>1, <1>2, <1>3
  <2>3. ASSUME NEW i \in 1 .. Len(q) - 1 PROVE r[i] = IF i < k THEN q[i] ELSE q[i + 1]
    <3>1. CASE i < k
      BY <1>1, <1>2, <2>1, <2>2, <3>1
    <3>2. CASE ~(i < k)
      <4>1. i - (k - 1) \in 1 .. Len(q) - k /\ ~(i <= k - 1) /\ k + (i - (k - 1)) = i + 1
        BY <1>1, <3>2
      <4>2. QED BY <1>1, <1>2, <1>3, <2>1, <2>2, <3>2, <4>1
    <3>3. QED BY <3>1, <3>2
  <2>4. QED BY <2>1, <2>2, <2>3
<1>6. OneEach(r)
  <2>1. SUFFICES ASSUME NEW i \in 1 .. Len(r), NEW j \in 1 .. Len(r), r[i] = r[j] PROVE i = j
    BY DEF OneEach
  <2>2. \A u, w \in 1 .. Len(q) : q[u] = q[w] => u = w
    BY <1>1 DEF OneEach
  <2> DEFINE old(x) == IF x < k THEN x ELSE x + 1
  <2>3. \A x \in 1 .. Len(r) : old(x) \in 1 .. Len(q) /\ r[x] = q[old(x)]
    BY <1>1, <1>5
  <2>4. old(i) = old(j)
    BY <2>1, <2>2, <2>3
  <2>5. QED BY <1>1, <1>5, <2>4
<1>7. ASSUME NEW p \in Endpoints PROVE Waits(r, p) <=> Waits(q, p) /\ p # q[k]
  <2>1. ASSUME Waits(r, p) PROVE Waits(q, p) /\ p # q[k]
    BY <1>1, <1>5, <2>1 DEF Waits, OneEach
  <2>2. ASSUME Waits(q, p), p # q[k] PROVE Waits(r, p)
    <3>1. PICK i \in 1 .. Len(q) : q[i] = p
      BY <2>2 DEF Waits
    <3>2. CASE i < k
      BY <1>1, <1>5, <3>1, <3>2 DEF Waits
    <3>3. CASE i > k
      <4>1. i - 1 \in 1 .. Len(q) - 1 /\ ~(i - 1 < k)
        BY <1>1, <3>3
      <4>2. r[i - 1] = p
        BY <1>1, <1>5, <3>1, <4>1
      <4>3. QED BY <1>5, <4>1, <4>2 DEF Waits
    <3>4. QED BY <1>1, <2>2, <3>1, <3>2, <3>3
  <2>3. QED BY <2>1, <2>2
<1>8. QED BY <1>5, <1>6, <1>7 DEF r

LEMMA Joined ==
    ASSUME NEW q \in Seq(Endpoints), OneEach(q), NEW p \in Endpoints, ~Waits(q, p)
    PROVE  /\ Append(q, p) \in Seq(Endpoints) /\ OneEach(Append(q, p))
           /\ \A u \in Endpoints : Waits(Append(q, p), u) <=> Waits(q, u) \/ u = p
<1> DEFINE r == Append(q, p)
<1>1. r \in Seq(Endpoints) /\ Len(r) = Len(q) + 1 /\ r[Len(q) + 1] = p /\ Len(q) \in Nat
  OBVIOUS
<1>2. \A i \in 1 .. Len(q) : r[i] = q[i]
  OBVIOUS
<1> HIDE DEF r
<1>3. OneEach(r)
  BY <1>1, <1>2 DEF OneEach, Waits
<1>4. \A u \in Endpoints : Waits(r, u) <=> Waits(q, u) \/ u = p
  BY <1>1, <1>2 DEF Waits
<1>5. QED BY <1>1, <1>3, <1>4 DEF r

-----------------------------------------------------------------------------
(* The gate after a step that moved some requests, by what it did to the    *)
(* line and the slots: nothing, a slot taken, a place in the line taken or  *)
(* left, a slot released.                                                   *)
LEMMA GateSame ==
    ASSUME NEW calls, NEW c, NEW q, NEW n, Gate(calls, q, n),
           \A p \in Endpoints : /\ c[p].at = "queued" <=> calls[p].at = "queued"
                                /\ c[p].at \in Busy <=> calls[p].at \in Busy
    PROVE  Gate(c, q, n)
<1>1. Holders(c) = Holders(calls)
  BY DEF Holders
<1>2. QED BY <1>1 DEF Gate

LEMMA HoldersFinite == \A calls : IsFiniteSet(Holders(calls)) /\ Cardinality(Holders(calls)) \in Nat
BY FiniteEndpoints, FS_Subset, FS_CardinalityType DEF Holders

LEMMA GateTaken ==
    ASSUME NEW calls, NEW c, NEW q, NEW n, Gate(calls, q, n), n < MaxConcurrent,
           NEW p \in Endpoints, calls[p].at \notin Busy \cup {"queued"}, c[p].at \in Busy,
           \A r \in Endpoints \ {p} : c[r].at = calls[r].at
    PROVE  Gate(c, q, n + 1)
<1>1. Holders(c) = Holders(calls) \cup {p} /\ p \notin Holders(calls)
  BY DEF Holders
<1>2. Cardinality(Holders(c)) = n + 1
  BY <1>1, HoldersFinite, FS_AddElement DEF Gate
<1>3. \A r \in Endpoints : c[r].at = "queued" <=> calls[r].at = "queued"
  BY DEF Busy
<1>4. n + 1 \in 0 .. MaxConcurrent /\ q = <<>>
  BY RestAssumption DEF Gate
<1>5. QED BY <1>2, <1>3, <1>4 DEF Gate

LEMMA GateLined ==
    ASSUME NEW calls, NEW c, NEW q, NEW n, Gate(calls, q, n), ~(n < MaxConcurrent),
           NEW p \in Endpoints, calls[p].at \notin Busy \cup {"queued"}, c[p].at = "queued",
           \A r \in Endpoints \ {p} : c[r].at = calls[r].at
    PROVE  Gate(c, Append(q, p), n)
<1>1. Holders(c) = Holders(calls)
  BY DEF Holders, Busy
<1>2. q \in Seq(Endpoints) /\ OneEach(q) /\ ~Waits(q, p)
  BY DEF Gate
<1>3. /\ Append(q, p) \in Seq(Endpoints) /\ OneEach(Append(q, p))
      /\ \A u \in Endpoints : Waits(Append(q, p), u) <=> Waits(q, u) \/ u = p
  BY <1>2, Joined
<1>4. \A u \in Endpoints : Waits(Append(q, p), u) <=> c[u].at = "queued"
  BY <1>3 DEF Gate
<1>5. QED BY <1>1, <1>3, <1>4 DEF Gate

LEMMA GateLeft ==
    ASSUME NEW calls, NEW c, NEW q, NEW n, Gate(calls, q, n),
           NEW p \in Endpoints, calls[p].at = "queued", c[p].at \notin Busy \cup {"queued"},
           \A r \in Endpoints \ {p} : c[r].at = calls[r].at
    PROVE  Gate(c, RemoveAt(q, CHOOSE i \in DOMAIN q : q[i] = p), n)
<1> DEFINE k == CHOOSE i \in DOMAIN q : q[i] = p
<1>1. Holders(c) = Holders(calls)
  BY DEF Holders, Busy
<1>2. q \in Seq(Endpoints) /\ OneEach(q) /\ Waits(q, p) /\ q # <<>>
  BY DEF Gate, Waits
<1>3. k \in 1 .. Len(q) /\ q[k] = p
  BY <1>2 DEF Waits
<1> HIDE DEF k
<1>4. /\ RemoveAt(q, k) \in Seq(Endpoints) /\ OneEach(RemoveAt(q, k))
      /\ \A u \in Endpoints : Waits(RemoveAt(q, k), u) <=> Waits(q, u) /\ u # p
  BY <1>2, <1>3, Removed
<1>5. \A u \in Endpoints : Waits(RemoveAt(q, k), u) <=> c[u].at = "queued"
  BY <1>4 DEF Gate
<1>6. ~(n < MaxConcurrent)
  BY <1>2 DEF Gate
<1>7. Gate(c, RemoveAt(q, k), n)
  BY <1>1, <1>4, <1>5, <1>6 DEF Gate
<1>8. QED BY <1>7 DEF k

\* Nobody waits: the slot is free again.
LEMMA GateFreed ==
    ASSUME NEW calls, NEW c, NEW n, Gate(calls, <<>>, n),
           NEW p \in Endpoints, calls[p].at \in Busy, c[p].at \notin Busy \cup {"queued"},
           \A r \in Endpoints \ {p} : c[r].at = calls[r].at
    PROVE  Gate(c, <<>>, n - 1)
<1>1. Holders(c) = Holders(calls) \ {p} /\ p \in Holders(calls)
  BY DEF Holders
<1>2. n \in Nat /\ n # 0 /\ Cardinality(Holders(c)) = n - 1
  BY <1>1, HoldersFinite, FS_RemoveElement, FS_EmptySet DEF Gate
<1>3. \A r \in Endpoints : c[r].at = "queued" <=> calls[r].at = "queued"
  BY DEF Busy
<1>4. n - 1 \in 0 .. MaxConcurrent
  BY <1>2, RestAssumption DEF Gate
<1>5. QED BY <1>2, <1>3, <1>4 DEF Gate

\* The best waiter gets the slot.
LEMMA GatePassed ==
    ASSUME NEW calls, NEW c, NEW q, NEW n, Gate(calls, q, n), q # <<>>,
           NEW p \in Endpoints, calls[p].at \in Busy, c[p].at \notin Busy \cup {"queued"},
           q[Best(q)] \in Endpoints => c[q[Best(q)]].at \in Busy,
           \A r \in Endpoints \ {p, q[Best(q)]} : c[r].at = calls[r].at
    PROVE  Gate(c, RemoveAt(q, Best(q)), n)
<1> DEFINE k == Best(q)
           w == q[k]
<1>1. q \in Seq(Endpoints) /\ OneEach(q)
  BY DEF Gate
<1>2. k \in 1 .. Len(q)
  BY <1>1, BestWaits
<1>3. w \in Endpoints /\ calls[w].at = "queued" /\ w # p /\ c[w].at \in Busy
  BY <1>1, <1>2 DEF Gate, Waits, Busy
<1>4. Holders(c) = (Holders(calls) \ {p}) \cup {w} /\ p \in Holders(calls) /\ w \notin Holders(calls)
  BY <1>3 DEF Holders, Busy
<1>5. Cardinality(Holders(c)) = n
  <2> DEFINE h == Holders(calls) \ {p}
  <2>1. IsFiniteSet(h) /\ Cardinality(h) = n - 1 /\ n \in Nat
    BY <1>4, HoldersFinite, FS_RemoveElement DEF Gate
  <2>2. w \notin h /\ Holders(c) = h \cup {w}
    BY <1>4
  <2> HIDE DEF h, w
  <2>3. Cardinality(h \cup {w}) = Cardinality(h) + 1
    BY <2>1, <2>2, FS_AddElement
  <2>4. QED BY <2>1, <2>2, <2>3
<1>6. /\ RemoveAt(q, k) \in Seq(Endpoints) /\ OneEach(RemoveAt(q, k))
      /\ \A u \in Endpoints : Waits(RemoveAt(q, k), u) <=> Waits(q, u) /\ u # w
  BY <1>1, <1>2, Removed
<1>7. \A u \in Endpoints : Waits(RemoveAt(q, k), u) <=> c[u].at = "queued"
  BY <1>3, <1>6 DEF Gate, Busy
<1>8. ~(n < MaxConcurrent)
  BY DEF Gate
<1>9. QED BY <1>5, <1>6, <1>7, <1>8 DEF Gate

-----------------------------------------------------------------------------
(* What a step did to one request: where it is now and what it is answered. *)
Put(calls, c, p, s, x) ==
    /\ c \in [Endpoints -> Requests]
    /\ c[p].at = s /\ c[p].result = x
    /\ \A r \in Endpoints \ {p} : c[r] = calls[r]

LEMMA IdleRequest == /\ Idle \in Requests /\ Idle.at = "idle" /\ Idle.result = "none"
                     /\ \A s \in Steps : /\ [Idle EXCEPT !.at = s] \in Requests
                                         /\ [Idle EXCEPT !.at = s].at = s
                                         /\ [Idle EXCEPT !.at = s].result = "none"
BY DEF Idle, Requests, Steps, Results

LEMMA PutAt ==
    ASSUME NEW calls \in [Endpoints -> Requests], NEW p \in Endpoints, NEW s \in Steps
    PROVE  Put(calls, [calls EXCEPT ![p].at = s], p, s, calls[p].result)
<1>1. [calls[p] EXCEPT !.at = s] \in Requests /\ [calls[p] EXCEPT !.at = s].at = s
      /\ [calls[p] EXCEPT !.at = s].result = calls[p].result
  BY DEF Requests
<1>2. QED BY <1>1 DEF Put

LEMMA PutAnswer ==
    ASSUME NEW calls \in [Endpoints -> Requests], NEW p \in Endpoints, NEW x \in Results
    PROVE  Put(calls, [calls EXCEPT ![p].at = "answered", ![p].result = x], p, "answered", x)
<1> DEFINE r == [[calls[p] EXCEPT !.at = "answered"] EXCEPT !.result = x]
<1>1. r \in Requests /\ r.at = "answered" /\ r.result = x
  BY DEF Requests, Steps
<1>2. [calls EXCEPT ![p].at = "answered", ![p].result = x] = [calls EXCEPT ![p] = r]
  OBVIOUS
<1>3. QED BY <1>1, <1>2 DEF Put

(* What a released slot does to the table.                                  *)
LEMMA HandedOver ==
    ASSUME TableInv, GateInv
    PROVE  /\ Handed(call) \in [Endpoints -> Requests]
           /\ waitLine = <<>> => Handed(call) = call
           /\ waitLine # <<>> =>
                LET w == waitLine[Best(waitLine)]
                IN  /\ w \in Endpoints /\ call[w].at = "queued"
                    /\ Put(call, Handed(call), w, "held", call[w].result)
<1>1. CASE waitLine = <<>>
  BY <1>1 DEF Handed, TableInv
<1>2. CASE waitLine # <<>>
  <2> DEFINE w == waitLine[Best(waitLine)]
  <2>1. waitLine \in Seq(Endpoints) /\ Best(waitLine) \in 1 .. Len(waitLine)
    BY <1>2, BestWaits DEF GateInv, Gate
  <2>2. w \in Endpoints /\ call[w].at = "queued"
    BY <2>1 DEF GateInv, Gate, Waits
  <2>3. Handed(call) = [call EXCEPT ![w].at = "held"]
    BY <1>2 DEF Handed
  <2> HIDE DEF w
  <2>4. Put(call, Handed(call), w, "held", call[w].result)
    BY <2>2, <2>3, PutAt DEF TableInv, Steps
  <2>5. QED BY <1>2, <2>2, <2>4 DEF w, Put
<1>3. QED BY <1>1, <1>2

-----------------------------------------------------------------------------
LEMMA ClientInit == RestInit => ClientInv
<1> SUFFICES ASSUME RestInit PROVE ClientInv
  OBVIOUS
<1>1. TableInv
  BY IdleRequest, RestAssumption DEF RestInit, TableInv
<1>2. call = [p \in Endpoints |-> Idle] /\ \A p \in Endpoints : call[p].at = "idle" /\ call[p].result = "none"
  BY IdleRequest DEF RestInit
<1>3. GateInv
  <2>1. Holders(call) = {}
    BY <1>2 DEF Holders, Busy
  <2>2. Cardinality(Holders(call)) = 0
    BY <2>1, FS_EmptySet
  <2>3. waitLine = <<>> /\ slots = 0
    BY DEF RestInit
  <2>4. OneEach(waitLine) /\ \A p \in Endpoints : ~Waits(waitLine, p)
    BY <2>3 DEF OneEach, Waits
  <2>5. QED BY <1>2, <2>2, <2>3, <2>4, RestAssumption DEF GateInv, Gate
<1>4. SessionInv
  BY <1>2 DEF RestInit, SessionInv, Endpoints
<1>5. PostInv
  BY <1>2 DEF RestInit, PostInv
<1>6. QED BY <1>1, <1>3, <1>4, <1>5 DEF ClientInv

(* The steps of the caller and of the session are those of one request that *)
(* takes and leaves no slot.                                                *)
Quiet(s) == s \notin Busy \cup {"queued"}

LEMMA OneMoves ==
    ASSUME ClientInv, NEW p \in Endpoints, NEW s, NEW x, Put(call, call', p, s, x),
           Quiet(call[p].at), Quiet(s), UNCHANGED <<waitLine, slots>>
    PROVE  GateInv'
<1>1. \A r \in Endpoints : /\ call'[r].at = "queued" <=> call[r].at = "queued"
                           /\ call'[r].at \in Busy <=> call[r].at \in Busy
  BY DEF Put, Quiet
<1>2. Gate(call', waitLine, slots)
  BY <1>1, GateSame DEF ClientInv, GateInv
<1>3. QED BY <1>2 DEF GateInv

\* What ensureAuthenticated does to the request and to the refresh.
LEMMA Authenticates ==
    ASSUME TableInv, SessionInv, NEW p \in Endpoints, NEW rec \in Requests,
           EnsureAuthenticated(p, rec)
    PROVE  /\ \E s \in {"ready", "auth"} : Put(call, call', p, s, rec.result)
           /\ refresh' # refresh => refresh = "none" /\ refresh' \in {"backoff", "begin"}
<1> DEFINE ok == refresh = "none" /\ HasUsableSession
           s == IF ok THEN "ready" ELSE "auth"
           r == [rec EXCEPT !.at = s]
<1>1. call' = [call EXCEPT ![p] = r]
  BY DEF EnsureAuthenticated
<1>2. r \in Requests /\ r.at = s /\ r.result = rec.result
  BY DEF Requests, Steps
<1>3. s \in {"ready", "auth"}
  OBVIOUS
<1> HIDE DEF r, s
<1>4. Put(call, call', p, s, rec.result)
  BY <1>1, <1>2 DEF Put, TableInv
<1>5. refresh' # refresh => refresh = "none" /\ refresh' \in {"backoff", "begin"}
  BY DEF EnsureAuthenticated
<1>6. QED BY <1>3, <1>4, <1>5

(* The other requests: as they were, but for a waiter that got a slot.      *)
Others(p) ==
    \A r \in Endpoints \ {p} :
        /\ call'[r].result = call[r].result
        /\ call'[r].at = call[r].at \/ (call[r].at = "queued" /\ call'[r].at = "held")

LEMMA SlotReleased ==
    ASSUME ClientInv, NEW p \in Endpoints, NEW s, NEW x, call[p].at \in Busy, Release,
           Put(Handed(call), call', p, s, x), Quiet(s)
    PROVE  GateInv' /\ Others(p) /\ Handed(call)[p] = call[p]
<1>1. Gate(call, waitLine, slots) /\ waitLine \in Seq(Endpoints)
  BY DEF ClientInv, GateInv, Gate
<1>2. CASE waitLine = <<>>
  <2>1. Handed(call) = call /\ waitLine' = <<>> /\ slots' = slots - 1
    BY <1>2, HandedOver DEF Release, ClientInv
  <2>2. \A r \in Endpoints \ {p} : call'[r].at = call[r].at /\ call'[r].result = call[r].result
    BY <2>1 DEF Put
  <2>3. Gate(call', <<>>, slots - 1)
    BY <1>1, <1>2, <2>2, GateFreed DEF Put, Quiet
  <2>4. QED BY <2>1, <2>2, <2>3 DEF GateInv, Others
<1>3. CASE waitLine # <<>>
  <2> DEFINE w == waitLine[Best(waitLine)]
  <2>1. w \in Endpoints /\ call[w].at = "queued" /\ Put(call, Handed(call), w, "held", call[w].result)
    BY <1>3, HandedOver DEF ClientInv
  <2>2. w # p
    BY <2>1 DEF Busy
  <2>3. waitLine' = RemoveAt(waitLine, Best(waitLine)) /\ slots' = slots
    BY <1>3 DEF Release
  <2> HIDE DEF w
  <2>4. call'[w].at = "held" /\ call'[w].result = call[w].result
    BY <2>1, <2>2 DEF Put
  <2>5. \A r \in Endpoints \ {p, w} : call'[r] = call[r]
    BY <2>1, <2>2 DEF Put
  <2>6. Gate(call', RemoveAt(waitLine, Best(waitLine)), slots)
    BY <1>1, <1>3, <2>4, <2>5, GatePassed DEF Put, Quiet, Busy, w
  <2>7. QED BY <2>1, <2>2, <2>3, <2>4, <2>5, <2>6 DEF GateInv, Others, Put
<1>4. QED BY <1>2, <1>3

LEMMA SessionAfter ==
    ASSUME ClientInv, NEW p \in Endpoints, Others(p),
           p \in {"loginKey", "validate"} => call[p].at # "idle",
           call'[p].result = "ok" => call'[p].at = "answered",
           refresh' # refresh => refresh = "none" /\ refresh' \in {"backoff", "begin"},
           token' \in {"none", "live", "dead"}, usable' \in BOOLEAN, refreshFailed' \in BOOLEAN
    PROVE  SessionInv'
<1>1. \A r \in Endpoints : call'[r].result = "ok" => call'[r].at = "answered"
  BY DEF ClientInv, SessionInv, Others
<1>2. "loginKey" \in Endpoints /\ "validate" \in Endpoints
  BY DEF Endpoints
<1>3. refresh' # "loginKey" => call'["loginKey"].at = "idle"
  BY <1>2 DEF ClientInv, SessionInv, Others
<1>4. refresh' \notin {"validate", "advisory"} => call'["validate"].at = "idle"
  BY <1>2 DEF ClientInv, SessionInv, Others
<1>5. refresh' \in {"none", "backoff", "begin", "loginKey", "validate", "advisory"}
  BY DEF ClientInv, SessionInv
<1>6. QED BY <1>1, <1>3, <1>4, <1>5 DEF SessionInv

LEMMA PostAfter ==
    ASSUME ClientInv, NEW p \in Endpoints, Others(p), posted' = posted,
           IsMutationPath(p) =>
              /\ call'[p].at \notin {"delay", "reauth"}
              /\ call'[p].at \in {"auth", "ready", "queued", "held"} =>
                    call[p].at \in {"auth", "ready", "queued", "held"}
    PROVE  PostInv'
<1>1. ASSUME NEW r \in Endpoints, IsMutationPath(r)
      PROVE  /\ posted'[r] <= 1
             /\ call'[r].at \in {"auth", "ready", "queued", "held"} => posted'[r] = 0
             /\ call'[r].at \notin {"delay", "reauth"}
  <2>1. CASE r = p
    BY <1>1, <2>1 DEF ClientInv, PostInv
  <2>2. CASE r # p
    BY <1>1, <2>2 DEF ClientInv, PostInv, Others
  <2>3. QED BY <2>1, <2>2
<1>2. QED BY <1>1 DEF ClientInv, PostInv

LEMMA PutOthers ==
    ASSUME NEW p \in Endpoints, NEW s, NEW x, Put(call, call', p, s, x)
    PROVE  Others(p)
BY DEF Put, Others

-----------------------------------------------------------------------------
(* The steps of one request that no slot changes hands in.                  *)
LEMMA BeginKeeps == ASSUME ClientInv, NEW p \in Endpoints, Begin(p) PROVE ClientInv'
<1>1. p \in Calls /\ p \notin {"loginKey", "validate"} /\ call[p].at = "idle"
  BY RestAssumption DEF Begin, ClientInv, TableInv
<1>2. PICK storm \in BOOLEAN : EnsureAuthenticated(p, [Idle EXCEPT !.storm = storm])
  BY DEF Begin
<1> DEFINE rec == [Idle EXCEPT !.storm = storm]
<1>3. rec \in Requests /\ rec.result = "none"
  BY DEF Idle, Requests, Steps, Results
<1> HIDE DEF rec
<1>4. PICK s \in {"ready", "auth"} : Put(call, call', p, s, "none")
  BY <1>2, <1>3, Authenticates DEF rec, ClientInv
<1>5. refresh' # refresh => refresh = "none" /\ refresh' \in {"backoff", "begin"}
  BY <1>2, <1>3, Authenticates DEF rec, ClientInv
<1>6. Others(p)
  BY <1>4, PutOthers
<1>7. GateInv'
  BY <1>1, <1>4, OneMoves DEF Begin, Quiet, Busy
<1>8. SessionInv'
  <2>1. token' \in {"none", "live", "dead"} /\ usable' \in BOOLEAN /\ refreshFailed' \in BOOLEAN
    BY DEF Begin, ClientInv, SessionInv
  <2>2. call'[p].result # "ok"
    BY <1>4 DEF Put
  <2>3. QED BY <1>1, <1>5, <1>6, <2>1, <2>2, SessionAfter
<1>9. PostInv'
  <2>1. posted' = [posted EXCEPT ![p] = 0]
    BY DEF Begin
  <2>2. ASSUME NEW r \in Endpoints, IsMutationPath(r)
        PROVE  /\ posted'[r] <= 1
               /\ call'[r].at \in {"auth", "ready", "queued", "held"} => posted'[r] = 0
               /\ call'[r].at \notin {"delay", "reauth"}
    <3>1. CASE r = p
      BY <1>4, <2>1, <3>1 DEF Put, ClientInv, PostInv
    <3>2. CASE r # p
      BY <1>6, <2>1, <2>2, <3>2 DEF ClientInv, PostInv, Others
    <3>3. QED BY <3>1, <3>2
  <2>3. QED BY <2>1, <2>2 DEF ClientInv, PostInv
<1>10. TableInv'
  BY <1>4 DEF Put, ClientInv, TableInv, Begin
<1>11. QED BY <1>7, <1>8, <1>9, <1>10 DEF ClientInv

LEMMA AcquireKeeps == ASSUME ClientInv, NEW p \in Endpoints, Acquire(p) PROVE ClientInv'
<1>1. call[p].at = "ready"
  BY DEF Acquire
<1>2. PICK s \in {"held", "queued"} :
         call' = [call EXCEPT ![p].at = s] /\ (s = "held" <=> slots < MaxConcurrent)
  BY DEF Acquire
<1>3. Put(call, call', p, s, call[p].result)
  <2>1. s \in Steps /\ call \in [Endpoints -> Requests]
    BY DEF Steps, ClientInv, TableInv
  <2>2. Put(call, [call EXCEPT ![p].at = s], p, s, call[p].result)
    BY <2>1, PutAt
  <2>3. QED BY <1>2, <2>2, Zenon
<1>4. Others(p)
  BY <1>3, PutOthers
<1>5. GateInv'
  <2>1. Gate(call, waitLine, slots) /\ call[p].at \notin Busy \cup {"queued"}
        /\ \A r \in Endpoints \ {p} : call'[r].at = call[r].at
    BY <1>1, <1>3 DEF ClientInv, GateInv, Put, Busy
  <2>2. CASE slots < MaxConcurrent
    <3>1. call'[p].at \in Busy /\ slots' = slots + 1 /\ waitLine' = waitLine
      BY <1>2, <1>3, <2>2 DEF Put, Busy, Acquire
    <3>2. Gate(call', waitLine, slots + 1)
      BY <2>1, <2>2, <3>1, GateTaken
    <3>3. QED BY <3>1, <3>2 DEF GateInv
  <2>3. CASE ~(slots < MaxConcurrent)
    <3>1. call'[p].at = "queued" /\ slots' = slots /\ waitLine' = Append(waitLine, p)
      BY <1>2, <1>3, <2>3 DEF Put, Acquire
    <3>2. Gate(call', Append(waitLine, p), slots)
      BY <2>1, <2>3, <3>1, GateLined
    <3>3. QED BY <3>1, <3>2 DEF GateInv
  <2>4. QED BY <2>2, <2>3
<1>6. call[p].result # "ok"
  BY <1>1 DEF ClientInv, SessionInv
<1>7. SessionInv'
  <2>1. token' \in {"none", "live", "dead"} /\ usable' \in BOOLEAN /\ refreshFailed' \in BOOLEAN
        /\ refresh' = refresh
    BY DEF Acquire, ClientInv, SessionInv, session
  <2>2. QED BY <1>1, <1>3, <1>4, <1>6, <2>1, SessionAfter DEF Put
<1>8. PostInv'
  <2>1. posted' = posted
    BY DEF Acquire
  <2>2. QED BY <1>1, <1>3, <1>4, <2>1, PostAfter DEF Put
<1>9. TableInv'
  BY <1>3 DEF Put, ClientInv, TableInv, Acquire
<1>10. QED BY <1>5, <1>7, <1>8, <1>9 DEF ClientInv

LEMMA SendKeeps == ASSUME ClientInv, NEW p \in Endpoints, Send(p) PROVE ClientInv'
<1>1. call[p].at = "held" /\ call[p] \in Requests
  BY DEF Send, ClientInv, TableInv
<1> DEFINE w == IF p = "loginKey" THEN "live" ELSE token
           rec == [[call[p] EXCEPT !.at = "wire"] EXCEPT !.with = w]
<1>2. w \in {"none", "live", "dead"}
  BY DEF ClientInv, SessionInv
<1>3. call' = [call EXCEPT ![p] = rec]
  BY DEF Send, ClientInv, TableInv
<1> HIDE DEF w
<1>4. rec \in Requests /\ rec.at = "wire" /\ rec.result = call[p].result
  BY <1>1, <1>2 DEF Requests, Steps
<1> HIDE DEF rec
<1>5. Put(call, call', p, "wire", call[p].result)
  BY <1>3, <1>4 DEF Put, ClientInv, TableInv
<1>6. Others(p)
  BY <1>5, PutOthers
<1>7. GateInv'
  <2>1. \A r \in Endpoints : /\ call'[r].at = "queued" <=> call[r].at = "queued"
                             /\ call'[r].at \in Busy <=> call[r].at \in Busy
    BY <1>1, <1>5 DEF Put, Busy
  <2>2. waitLine' = waitLine /\ slots' = slots
    BY DEF Send
  <2>3. Gate(call', waitLine, slots)
    BY <2>1, GateSame DEF ClientInv, GateInv
  <2>4. QED BY <2>2, <2>3 DEF GateInv
<1>8. SessionInv'
  <2>1. token' \in {"none", "live", "dead"} /\ usable' \in BOOLEAN /\ refreshFailed' \in BOOLEAN
        /\ refresh' = refresh
    BY DEF Send, ClientInv, SessionInv, session
  <2>2. call[p].result # "ok"
    BY <1>1 DEF ClientInv, SessionInv
  <2>3. QED BY <1>1, <1>5, <1>6, <2>1, <2>2, SessionAfter DEF Put
<1>9. PostInv'
  <2>1. posted' = [posted EXCEPT ![p] = IF IsMutationPath(p) THEN posted[p] + 1 ELSE 0]
    BY DEF Send
  <2>2. posted' \in [Endpoints -> Nat]
    BY <2>1 DEF ClientInv, PostInv
  <2>3. ASSUME NEW r \in Endpoints, IsMutationPath(r)
        PROVE  /\ posted'[r] <= 1
               /\ call'[r].at \in {"auth", "ready", "queued", "held"} => posted'[r] = 0
               /\ call'[r].at \notin {"delay", "reauth"}
    <3>1. CASE r = p
      BY <1>1, <1>5, <2>1, <2>3, <3>1 DEF Put, ClientInv, PostInv
    <3>2. CASE r # p
      BY <1>6, <2>1, <2>3, <3>2 DEF ClientInv, PostInv, Others
    <3>3. QED BY <3>1, <3>2
  <2>4. QED BY <2>2, <2>3 DEF PostInv
<1>10. TableInv'
  BY <1>5 DEF Put, ClientInv, TableInv, Send
<1>11. QED BY <1>7, <1>8, <1>9, <1>10 DEF ClientInv

(* A quiet step of one request: it is somewhere else, or answered.          *)
LEMMA QuietStep ==
    ASSUME ClientInv, NEW p \in Endpoints, NEW s, NEW x, Put(call, call', p, s, x),
           Quiet(call[p].at), Quiet(s), x = "ok" => s = "answered",
           p \in {"loginKey", "validate"} => call[p].at # "idle",
           refresh' # refresh => refresh = "none" /\ refresh' \in {"backoff", "begin"},
           IsMutationPath(p) =>
              s \notin {"delay", "reauth"} /\ (s \in {"auth", "ready"} => call[p].at \in {"auth", "ready"}),
           UNCHANGED <<waitLine, slots, token, usable, refreshFailed, posted>>,
           due' = due, restFaults' \in 0 .. MaxRestFaults
    PROVE  ClientInv'
<1>1. Others(p)
  BY PutOthers
<1>2. GateInv'
  BY OneMoves
<1>3. SessionInv'
  <2>1. token' \in {"none", "live", "dead"} /\ usable' \in BOOLEAN /\ refreshFailed' \in BOOLEAN
    BY DEF ClientInv, SessionInv
  <2>2. QED BY <1>1, <2>1, SessionAfter DEF Put
<1>4. PostInv'
  BY <1>1, PostAfter DEF Put, Quiet, Busy
<1>5. TableInv'
  BY DEF Put, ClientInv, TableInv
<1>6. QED BY <1>2, <1>3, <1>4, <1>5 DEF ClientInv

LEMMA DelayKeeps ==
    ASSUME ClientInv, NEW p \in Endpoints, DelayEnds(p) \/ DeadlinePasses(p)
    PROVE  ClientInv'
<1>1. call[p].at = "delay" /\ call[p].result # "ok" /\ ~IsMutationPath(p)
  BY DEF DelayEnds, DeadlinePasses, ClientInv, SessionInv, PostInv
<1>2. call \in [Endpoints -> Requests] /\ restFaults \in 0 .. MaxRestFaults
  BY DEF ClientInv, TableInv
<1>3. CASE DelayEnds(p)
  <2>1. Put(call, call', p, "ready", call[p].result)
    BY <1>2, <1>3, PutAt DEF DelayEnds, Steps
  <2>2. UNCHANGED <<waitLine, slots, token, usable, refreshFailed, refresh, posted, due, restFaults>>
    BY <1>3 DEF DelayEnds, session
  <2>3. Quiet(call[p].at) /\ Quiet("ready")
    BY <1>1 DEF Quiet, Busy
  <2>4. QED BY <1>1, <1>2, <2>1, <2>2, <2>3, QuietStep
<1>4. CASE DeadlinePasses(p)
  <2>1. Put(call, call', p, "answered", "deadline")
    BY <1>2, <1>4, PutAnswer DEF DeadlinePasses, Results
  <2>2. restFaults' \in 0 .. MaxRestFaults
    BY <1>2, <1>4, RestAssumption DEF DeadlinePasses, RestFault
  <2>3. QED
    BY <1>1, <1>4, <2>1, <2>2, QuietStep DEF DeadlinePasses, session, Quiet, Busy
<1>5. QED BY <1>3, <1>4

LEMMA ReauthKeeps ==
    ASSUME ClientInv, NEW p \in Endpoints, Reauthenticates(p)
    PROVE  ClientInv'
<1>1. call[p].at = "reauth" /\ call[p].result # "ok" /\ ~IsMutationPath(p) /\ call[p] \in Requests
  BY DEF Reauthenticates, ClientInv, SessionInv, PostInv, TableInv
<1>2. EnsureAuthenticated(p, call[p])
  BY DEF Reauthenticates
<1>3. PICK s \in {"ready", "auth"} : Put(call, call', p, s, call[p].result)
  BY <1>1, <1>2, Authenticates DEF ClientInv
<1>4. refresh' # refresh => refresh = "none" /\ refresh' \in {"backoff", "begin"}
  BY <1>1, <1>2, Authenticates DEF ClientInv
<1>5. UNCHANGED <<waitLine, slots, token, usable, refreshFailed, posted, due>> /\ restFaults' \in 0 .. MaxRestFaults
  BY DEF Reauthenticates, ClientInv, TableInv
<1>6. Quiet(call[p].at) /\ Quiet(s)
  BY <1>1 DEF Quiet, Busy
<1>7. QED BY <1>1, <1>3, <1>4, <1>5, <1>6, QuietStep

LEMMA ReturnsKeeps ==
    ASSUME ClientInv, NEW p \in Endpoints, Returns(p)
    PROVE  ClientInv'
<1>1. call[p].at = "answered"
  BY DEF Returns
<1>2. Put(call, call', p, "idle", "none")
  BY IdleRequest DEF Returns, Put, ClientInv, TableInv
<1>3. UNCHANGED <<waitLine, slots, token, usable, refreshFailed, refresh, posted, due>>
      /\ restFaults' \in 0 .. MaxRestFaults
  BY DEF Returns, session, ClientInv, TableInv
<1>4. Quiet(call[p].at) /\ Quiet("idle")
  BY <1>1 DEF Quiet, Busy
<1>5. QED BY <1>1, <1>2, <1>3, <1>4, QuietStep

LEMMA GateTimesOutKeeps ==
    ASSUME ClientInv, NEW p \in Endpoints, GateTimesOut(p)
    PROVE  ClientInv'
<1>1. call[p].at = "queued"
  BY DEF GateTimesOut
<1>2. Put(call, call', p, "answered", "gate_timeout")
  BY PutAnswer DEF GateTimesOut, Results, ClientInv, TableInv
<1>3. Others(p)
  BY <1>2, PutOthers
<1>4. GateInv'
  <2>1. waitLine' = RemoveAt(waitLine, CHOOSE i \in DOMAIN waitLine : waitLine[i] = p) /\ slots' = slots
    BY DEF GateTimesOut, Withdrawn
  <2>2. Gate(call', RemoveAt(waitLine, CHOOSE i \in DOMAIN waitLine : waitLine[i] = p), slots)
    <3>1. Gate(call, waitLine, slots)
      BY DEF ClientInv, GateInv
    <3>2. call'[p].at \notin Busy \cup {"queued"} /\ \A r \in Endpoints \ {p} : call'[r].at = call[r].at
      BY <1>2 DEF Put, Busy
    <3>3. QED BY <1>1, <3>1, <3>2, GateLeft
  <2>3. QED BY <2>1, <2>2 DEF GateInv
<1>5. SessionInv'
  <2>1. token' \in {"none", "live", "dead"} /\ usable' \in BOOLEAN /\ refreshFailed' \in BOOLEAN
        /\ refresh' = refresh
    BY DEF GateTimesOut, ClientInv, SessionInv, session
  <2>2. call[p].at # "idle" /\ call'[p].at = "answered"
    BY <1>1, <1>2 DEF Put
  <2>3. QED BY <1>3, <2>1, <2>2, SessionAfter
<1>6. PostInv'
  <2>1. posted' = posted
    BY DEF GateTimesOut
  <2>2. QED BY <1>2, <1>3, <2>1, PostAfter DEF Put
<1>7. TableInv'
  BY <1>2 DEF Put, ClientInv, TableInv, GateTimesOut
<1>8. QED BY <1>4, <1>5, <1>6, <1>7 DEF ClientInv

-----------------------------------------------------------------------------
(* The steps that give a slot back.                                         *)
LEMMA AnsweredKeeps == ASSUME ClientInv, NEW p \in Endpoints, Answered(p) PROVE ClientInv'
<1>1. call[p].at = "wire" /\ Release
  BY DEF Answered
<1>2. Put(Handed(call), call', p, "answered", "ok")
  <2>1. Handed(call) \in [Endpoints -> Requests]
    BY HandedOver DEF ClientInv
  <2>2. QED BY <2>1, PutAnswer DEF Answered, Results
<1>3. GateInv' /\ Others(p)
  BY <1>1, <1>2, SlotReleased DEF Quiet, Busy
<1>4. SessionInv'
  <2>1. token' \in {"none", "live", "dead"} /\ usable' \in BOOLEAN /\ refreshFailed' \in BOOLEAN
        /\ refresh' = refresh
    BY DEF Answered, ClientInv, SessionInv, TokensAfter
  <2>2. QED BY <1>1, <1>2, <1>3, <2>1, SessionAfter DEF Put
<1>5. PostInv'
  <2>1. posted' = posted
    BY DEF Answered
  <2>2. QED BY <1>2, <1>3, <2>1, PostAfter DEF Put
<1>6. TableInv'
  BY <1>2 DEF Put, ClientInv, TableInv, Answered
<1>7. QED BY <1>3, <1>4, <1>5, <1>6 DEF ClientInv

\* A failed attempt: tried again only for a read, answered with the error.
LEMMA AttemptFailed ==
    ASSUME NEW p \in Endpoints, NEW error \in Results \ {"ok"},
           NEW calls \in [Endpoints -> Requests], calls[p].attempt \in Nat, AttemptFails(p, error, calls),
           calls[p].result # "ok"
    PROVE  \E s \in {"delay", "reauth", "answered"}, x \in Results \ {"ok"} :
              Put(calls, call', p, s, x) /\ (IsMutationPath(p) => s = "answered")
<1>1. calls[p] \in Requests
  OBVIOUS
<1>2. CASE ShouldRetryPost(p, error, call[p].attempt) /\ ~call[p].storm
  <2> DEFINE d == [calls[p] EXCEPT !.at = "delay"]
             r == [d EXCEPT !.attempt = calls[p].attempt + 1]
  <2>1. call' = [calls EXCEPT ![p] = r]
    BY <1>2 DEF AttemptFails
  <2>2. d \in Requests /\ d.at = "delay" /\ d.result = calls[p].result /\ calls[p].attempt + 1 \in Nat
    BY <1>1 DEF Requests, Steps
  <2> HIDE DEF d
  <2>3. r \in Requests /\ r.at = "delay" /\ r.result = calls[p].result
    BY <2>2 DEF Requests
  <2> HIDE DEF r
  <2>4. Put(calls, call', p, "delay", calls[p].result) /\ calls[p].result \in Results
    BY <1>1, <2>1, <2>3 DEF Put, Requests
  <2>5. QED BY <1>2, <2>4 DEF ShouldRetryPost
<1>3. CASE ~(ShouldRetryPost(p, error, call[p].attempt) /\ ~call[p].storm) /\ TriesAgain(p, error)
  <2> DEFINE r == [[[calls[p] EXCEPT !.at = "reauth"] EXCEPT !.attempt = 1] EXCEPT !.again = TRUE]
  <2>1. call' = [calls EXCEPT ![p] = r]
    BY <1>3 DEF AttemptFails
  <2>2. r \in Requests /\ r.at = "reauth" /\ r.result = calls[p].result
    BY <1>1 DEF Requests, Steps
  <2> HIDE DEF r
  <2>3. Put(calls, call', p, "reauth", calls[p].result) /\ calls[p].result \in Results
    BY <1>1, <2>1, <2>2 DEF Put, Requests
  <2>4. QED BY <1>3, <2>3 DEF TriesAgain
<1>4. CASE ~(ShouldRetryPost(p, error, call[p].attempt) /\ ~call[p].storm) /\ ~TriesAgain(p, error)
  <2>1. call' = [calls EXCEPT ![p].at = "answered", ![p].result = error]
    BY <1>4 DEF AttemptFails
  <2>2. QED BY <2>1, PutAnswer
<1>5. QED BY <1>2, <1>3, <1>4

LEMMA FailedKeeps ==
    ASSUME ClientInv, NEW p \in Endpoints, NEW error \in Results \ {"ok"}, call[p].at \in Busy, Release,
           AttemptFails(p, error, Handed(call)), UNCHANGED <<due, posted>>,
           restFaults' \in 0 .. MaxRestFaults
    PROVE  ClientInv'
<1>1. Handed(call) \in [Endpoints -> Requests] /\ Handed(call)[p] = call[p] /\ call[p] \in Requests
  <2>1. CASE waitLine = <<>>
    BY <2>1, HandedOver DEF ClientInv, TableInv
  <2>2. CASE waitLine # <<>>
    BY <2>2, HandedOver DEF ClientInv, TableInv, Put, Busy
  <2>3. QED BY <2>1, <2>2
<1>2. Handed(call)[p].result # "ok" /\ Handed(call)[p].attempt \in Nat
  BY <1>1 DEF ClientInv, SessionInv, Busy, Requests
<1>3. PICK s \in {"delay", "reauth", "answered"}, x \in Results \ {"ok"} :
         Put(Handed(call), call', p, s, x) /\ (IsMutationPath(p) => s = "answered")
  BY <1>1, <1>2, AttemptFailed
<1>4. GateInv' /\ Others(p)
  BY <1>3, SlotReleased DEF Quiet, Busy
<1>5. SessionInv'
  <2>1. token' \in {"none", "live", "dead"} /\ usable' \in BOOLEAN /\ refreshFailed' \in BOOLEAN
        /\ refresh' = refresh
    BY DEF AttemptFails, ClientInv, SessionInv, session
  <2>2. call[p].at # "idle" /\ call'[p].result # "ok"
    BY <1>3 DEF Put, Busy
  <2>3. QED BY <1>4, <2>1, <2>2, SessionAfter
<1>6. PostInv'
  BY <1>3, <1>4, PostAfter DEF Put
<1>7. TableInv'
  BY <1>3 DEF Put, ClientInv, TableInv
<1>8. QED BY <1>4, <1>5, <1>6, <1>7 DEF ClientInv

LEMMA RefusedKeeps == ASSUME ClientInv, NEW p \in Endpoints, RefusedHere(p) PROVE ClientInv'
<1> DEFINE error == IF IsOpen(p) THEN "circuit_open" ELSE "not_authenticated"
<1>1. error \in Results \ {"ok"}
  BY DEF Results
<1>2. AttemptFails(p, error, Handed(call)) /\ Release /\ call[p].at \in Busy
  BY DEF RefusedHere, Busy
<1>3. UNCHANGED <<due, posted>> /\ restFaults' \in 0 .. MaxRestFaults
  BY DEF RefusedHere, ClientInv, TableInv
<1> HIDE DEF error
<1>4. QED BY <1>1, <1>2, <1>3, FailedKeeps

LEMMA UnauthorizedKeeps == ASSUME ClientInv, NEW p \in Endpoints, Unauthorized(p) PROVE ClientInv'
<1>1. "unauthorized" \in Results \ {"ok"}
  BY DEF Results
<1>2. AttemptFails(p, "unauthorized", Handed(call)) /\ Release /\ call[p].at \in Busy
  BY DEF Unauthorized, Busy
<1>3. UNCHANGED <<due, posted>> /\ restFaults' \in 0 .. MaxRestFaults
  BY DEF Unauthorized, ClientInv, TableInv
<1>4. QED BY <1>1, <1>2, <1>3, FailedKeeps

LEMMA FailsKeeps == ASSUME ClientInv, NEW p \in Endpoints, Fails(p) PROVE ClientInv'
<1>1. PICK error \in {"rate_limited", "server", "network"} : AttemptFails(p, error, Handed(call))
  BY DEF Fails
<1>2. error \in Results \ {"ok"}
  BY DEF Results
<1>3. Release /\ call[p].at \in Busy /\ UNCHANGED <<due, posted>>
  BY DEF Fails, Busy
<1>4. restFaults' \in 0 .. MaxRestFaults
  BY RestAssumption DEF Fails, RestFault, ClientInv, TableInv
<1>5. QED BY <1>1, <1>2, <1>3, <1>4, FailedKeeps

-----------------------------------------------------------------------------
(* The steps of the refresh.                                                *)
LEMMA RefreshBeginsKeeps == ASSUME ClientInv, RefreshBegins PROVE ClientInv'
<1> DEFINE p == IF token # "none" THEN "validate" ELSE "loginKey"
<1>1. /\ refresh = "begin" /\ refresh' = p /\ call' = [call EXCEPT ![p] = [Idle EXCEPT !.at = "ready"]]
      /\ UNCHANGED <<waitLine, slots, token, usable, refreshFailed, due, posted, restFaults>>
  BY DEF RefreshBegins
<1>2. p \in {"validate", "loginKey"} /\ p \in Endpoints /\ ~IsMutationPath(p)
  BY DEF Endpoints, IsMutationPath
<1> HIDE DEF p
<1>3. call["loginKey"].at = "idle" /\ call["validate"].at = "idle"
  BY <1>1 DEF ClientInv, SessionInv
<1>4. Put(call, call', p, "ready", "none")
  BY <1>1, <1>2, IdleRequest DEF Put, ClientInv, TableInv, Steps
<1>5. Others(p)
  BY <1>2, <1>4, PutOthers
<1>6. GateInv'
  <2>1. Quiet(call[p].at) /\ Quiet("ready") /\ UNCHANGED <<waitLine, slots>>
    BY <1>1, <1>2, <1>3 DEF Quiet, Busy
  <2>2. QED BY <1>2, <1>4, <2>1, OneMoves
<1>7. SessionInv'
  <2>1. \A r \in Endpoints : call'[r].result = "ok" => call'[r].at = "answered"
    BY <1>4, <1>5 DEF Put, Others, ClientInv, SessionInv
  <2>2. \A r \in {"validate", "loginKey"} : r # p => call'[r].at = "idle"
    BY <1>3, <1>5 DEF Others, Endpoints
  <2>3. QED BY <1>1, <1>2, <2>1, <2>2 DEF ClientInv, SessionInv
<1>8. PostInv'
  BY <1>1, <1>2, <1>5, PostAfter
<1>9. TableInv'
  BY <1>1, <1>4 DEF Put, ClientInv, TableInv
<1>10. QED BY <1>6, <1>7, <1>8, <1>9 DEF ClientInv

LEMMA LoginAnsweredKeeps == ASSUME ClientInv, LoginAnswered PROVE ClientInv'
<1>1. /\ refresh = "loginKey" /\ refresh' = "advisory" /\ token' = "live"
      /\ call' = [call EXCEPT !["loginKey"] = Idle, !["validate"] = [Idle EXCEPT !.at = "ready"]]
      /\ UNCHANGED <<waitLine, slots, usable, refreshFailed, due, posted, restFaults>>
  BY DEF LoginAnswered
<1>2. call["loginKey"].at = "answered" /\ call["validate"].at = "idle"
  BY DEF LoginAnswered, ClientInv, SessionInv, Endpoints
<1>3. /\ call' \in [Endpoints -> Requests]
      /\ call'["loginKey"].at = "idle" /\ call'["loginKey"].result = "none"
      /\ call'["validate"].at = "ready" /\ call'["validate"].result = "none"
      /\ \A r \in Endpoints \ {"loginKey", "validate"} : call'[r] = call[r]
  BY <1>1, IdleRequest DEF ClientInv, TableInv, Steps, Endpoints
<1>4. GateInv'
  <2>1. \A r \in Endpoints : /\ call'[r].at = "queued" <=> call[r].at = "queued"
                             /\ call'[r].at \in Busy <=> call[r].at \in Busy
    BY <1>2, <1>3 DEF Busy
  <2>2. Gate(call', waitLine, slots)
    BY <2>1, GateSame DEF ClientInv, GateInv
  <2>3. QED BY <1>1, <2>2 DEF GateInv
<1>5. SessionInv'
  <2>1. \A r \in Endpoints : call'[r].result = "ok" => call'[r].at = "answered"
    BY <1>3 DEF ClientInv, SessionInv
  <2>2. QED BY <1>1, <1>3, <2>1 DEF ClientInv, SessionInv
<1>6. PostInv'
  <2>1. \A r \in Endpoints : IsMutationPath(r) => r \notin {"loginKey", "validate"}
    BY DEF IsMutationPath
  <2>2. QED BY <1>1, <1>3, <2>1 DEF ClientInv, PostInv
<1>7. TableInv'
  BY <1>1, <1>3 DEF ClientInv, TableInv
<1>8. QED BY <1>4, <1>5, <1>6, <1>7 DEF ClientInv

\* The refresh ends: its last request is dropped and the callers go on.
LEMMA RefreshEnds ==
    ASSUME ClientInv, NEW p \in {"loginKey", "validate"}, NEW s \in {"ready", "answered"},
           call[p].at = "answered", refresh' = "none",
           \A r \in {"loginKey", "validate"} \ {p} : call[r].at = "idle",
           call' = Woken([call EXCEPT ![p] = Idle], s),
           usable' \in BOOLEAN, refreshFailed' \in BOOLEAN,
           UNCHANGED <<waitLine, slots, token, due, posted, restFaults>>
    PROVE  ClientInv'
<1> DEFINE c == [call EXCEPT ![p] = Idle]
<1>1. p \in Endpoints /\ {"loginKey", "validate"} \subseteq Endpoints
  BY DEF Endpoints
<1>2. /\ c \in [Endpoints -> Requests] /\ c[p].at = "idle" /\ c[p].result = "none"
      /\ \A r \in Endpoints \ {p} : c[r] = call[r]
  BY <1>1, IdleRequest DEF ClientInv, TableInv
<1> HIDE DEF c
<1>3. \A r \in Endpoints : call'[r] = IF c[r].at = "auth" THEN [c[r] EXCEPT !.at = s] ELSE c[r]
  BY DEF Woken, c
<1>4. \A r \in Endpoints : c[r] \in Requests /\ [c[r] EXCEPT !.at = s] \in Requests
                           /\ [c[r] EXCEPT !.at = s].at = s /\ [c[r] EXCEPT !.at = s].result = c[r].result
  BY <1>2 DEF Requests, Steps
<1>5. call' \in [Endpoints -> Requests]
  <2>1. \A r \in Endpoints : call'[r] \in Requests
    BY <1>3, <1>4
  <2>2. call' = [r \in Endpoints |-> IF c[r].at = "auth" THEN [c[r] EXCEPT !.at = s] ELSE c[r]]
    BY DEF Woken, c
  <2>3. QED BY <2>1, <2>2
<1>6. \A r \in Endpoints : call'[r].result = c[r].result
                           /\ call'[r].at = IF c[r].at = "auth" THEN s ELSE c[r].at
  BY <1>3, <1>4
<1>7. GateInv'
  <2>1. \A r \in Endpoints : /\ call'[r].at = "queued" <=> call[r].at = "queued"
                             /\ call'[r].at \in Busy <=> call[r].at \in Busy
    BY <1>2, <1>6 DEF Busy
  <2>2. Gate(call', waitLine, slots)
    BY <2>1, GateSame DEF ClientInv, GateInv
  <2>3. QED BY <2>2 DEF GateInv
<1>8. SessionInv'
  <2>1. ASSUME NEW r \in Endpoints, call'[r].result = "ok" PROVE call'[r].at = "answered"
    <3>1. r # p
      BY <1>2, <1>6, <2>1
    <3>2. c[r] = call[r]
      BY <1>2, <3>1
    <3>3. call[r].result = "ok" => call[r].at = "answered"
      BY DEF ClientInv, SessionInv
    <3>4. QED BY <1>6, <2>1, <3>2, <3>3
  <2>2. ASSUME NEW r \in {"loginKey", "validate"} PROVE call'[r].at = "idle"
    <3>1. c[r].at = "idle" /\ r \in Endpoints
      BY <1>1, <1>2, Zenon
    <3>2. QED BY <1>6, <3>1
  <2>3. QED BY <2>1, <2>2 DEF ClientInv, SessionInv
<1>9. PostInv'
  <2>1. ASSUME NEW r \in Endpoints, IsMutationPath(r)
        PROVE  /\ posted'[r] <= 1
               /\ call'[r].at \in {"auth", "ready", "queued", "held"} => posted'[r] = 0
               /\ call'[r].at \notin {"delay", "reauth"}
    <3>1. r # p
      BY <2>1 DEF IsMutationPath
    <3>2. QED BY <1>2, <1>6, <2>1, <3>1 DEF ClientInv, PostInv
  <2>2. QED BY <2>1 DEF ClientInv, PostInv
<1>10. TableInv'
  BY <1>5 DEF ClientInv, TableInv
<1>11. QED BY <1>7, <1>8, <1>9, <1>10 DEF ClientInv

LEMMA RefreshedKeeps == ASSUME ClientInv, Refreshed \/ RefreshFailed PROVE ClientInv'
<1>1. CASE Refreshed
  <2>1. call["validate"].at = "answered" /\ call["loginKey"].at = "idle"
    BY <1>1 DEF Refreshed, ClientInv, SessionInv
  <2>2. call' = Woken([call EXCEPT !["validate"] = Idle], "ready") /\ refresh' = "none"
        /\ usable' = TRUE /\ refreshFailed' = FALSE
        /\ UNCHANGED <<waitLine, slots, token, due, posted, restFaults>>
    BY <1>1 DEF Refreshed
  <2>3. QED BY <2>1, <2>2, RefreshEnds
<1>2. CASE RefreshFailed
  <2>1. refresh \in {"loginKey", "validate"} /\ call[refresh].at = "answered"
        /\ \A r \in {"loginKey", "validate"} \ {refresh} : call[r].at = "idle"
    BY <1>2 DEF RefreshFailed, ClientInv, SessionInv
  <2>2. call' = Woken([call EXCEPT ![refresh] = Idle], "answered") /\ refresh' = "none"
        /\ refreshFailed' = TRUE
        /\ UNCHANGED <<waitLine, slots, token, usable, due, posted, restFaults>>
    BY <1>2 DEF RefreshFailed
  <2>3. usable' \in BOOLEAN /\ refreshFailed' \in BOOLEAN
    BY <2>2 DEF ClientInv, SessionInv
  <2>4. QED BY <2>1, <2>2, <2>3, RefreshEnds
<1>3. QED BY <1>1, <1>2

\* The clock, the skipped timers, the end of the backoff and the faults of the session.
LEMMA OthersKeep ==
    ASSUME ClientInv,
           \/ Tick \/ BackoffEnds \/ Revoked \/ MarginReached
           \/ \E p \in Endpoints : Skip(p)
    PROVE  ClientInv'
<1>1. UNCHANGED <<call, waitLine, slots, posted>>
  BY DEF Tick, BackoffEnds, Revoked, MarginReached, Skip
<1>2. GateInv' /\ PostInv'
  BY <1>1 DEF ClientInv, GateInv, PostInv
<1>3. SessionInv'
  BY <1>1 DEF Tick, BackoffEnds, Revoked, MarginReached, Skip, session, ClientInv, SessionInv
<1>4. TableInv'
  BY <1>1, RestAssumption DEF Tick, BackoffEnds, Revoked, MarginReached, Skip, RestFault, ClientInv, TableInv
<1>5. QED BY <1>2, <1>3, <1>4 DEF ClientInv

LEMMA ClientStep == ClientInv /\ [RestNext]_restVars => ClientInv'
<1> SUFFICES ASSUME ClientInv, [RestNext]_restVars PROVE ClientInv'
  OBVIOUS
<1>1. CASE RestNext
  <2>1. CASE Answers
    BY <2>1, AnsweredKeeps, UnauthorizedKeeps DEF Answers
  <2>2. CASE Moves
    <3>1. PICK p \in Endpoints : \/ Begin(p) \/ Skip(p) \/ Acquire(p) \/ Send(p) \/ RefusedHere(p)
                                 \/ DelayEnds(p) \/ Reauthenticates(p) \/ Returns(p)
      BY <2>2 DEF Moves
    <3>2. QED BY <3>1, BeginKeeps, OthersKeep, AcquireKeeps, SendKeeps, RefusedKeeps, DelayKeeps,
                 ReauthKeeps, ReturnsKeeps
  <2>3. CASE Refreshes
    BY <2>3, OthersKeep, RefreshBeginsKeeps, LoginAnsweredKeeps, RefreshedKeeps DEF Refreshes
  <2>4. CASE Tick \/ Revoked \/ MarginReached
    BY <2>4, OthersKeep
  <2>5. CASE \E p \in Endpoints : Fails(p) \/ DeadlinePasses(p) \/ GateTimesOut(p)
    BY <2>5, FailsKeeps, DelayKeeps, GateTimesOutKeeps
  <2>6. QED BY <1>1, <2>1, <2>2, <2>3, <2>4, <2>5 DEF RestNext
<1>2. CASE UNCHANGED restVars
  BY <1>2 DEF restVars, ClientInv, TableInv, GateInv, SessionInv, PostInv
<1>3. QED BY <1>1, <1>2

LEMMA ClientIsRight == ClientInv => RestInv
<1> SUFFICES ASSUME ClientInv PROVE RestInv
  OBVIOUS
<1>1. RestTypeOK
  BY RestAssumption DEF ClientInv, TableInv, GateInv, Gate, SessionInv, PostInv, RestTypeOK
<1>2. GateLosesNoSlot
  BY DEF ClientInv, GateInv, Gate, Holders, Busy, GateLosesNoSlot
<1>3. MutationPostedOnce
  BY DEF ClientInv, PostInv, MutationPostedOnce
<1>4. QED BY <1>1, <1>2, <1>3 DEF RestInv

(* The gate loses no slot and no waiter, and the venue sees a mutation at   *)
(* most once per call, whatever was rate limited, lost, timed out in the    *)
(* line or met a session that was renewed under it (client.ts, the gate of  *)
(* rest-concurrency.ts and shouldRetryPost).                                *)
THEOREM RequestsKeepTheirSlot == RestSpec => []RestInv
<1>1. RestInit => ClientInv
  BY ClientInit
<1>2. ClientInv /\ [RestNext]_restVars => ClientInv'
  BY ClientStep
<1>3. ClientInv => RestInv
  BY ClientIsRight
<1>4. QED BY <1>1, <1>2, <1>3, PTL DEF RestSpec

-----------------------------------------------------------------------------
(* The two streams.  A stream that passes for connected is one the venue    *)
(* delivers; a hub that starts has the one promise that starts it.          *)
StreamInv == \A k \in Hubs : stream[k] = "connected" => Listening(k)

(* The restarts of a table of promises are the attempts in flight.          *)
OneAttempt(js, st) ==
    /\ js \subseteq Jobs /\ st \in [Hubs -> 0 .. 1]
    /\ \A j \in js : j.src = "restart" => st[j.hub] = 1
    /\ \A i, j \in js : i.src = "restart" /\ j.src = "restart" /\ i.hub = j.hub => i = j

StartInv == OneAttempt(jobs, starting)

ConnectionInv == HubTypeOK /\ StreamInv /\ StartInv

(* A gap that opens, and only it, is kept in what a reconciliation sees.    *)
LEMMA SetStreamTypes ==
    ASSUME NEW k \in Hubs, NEW to \in States, HubTypeOK, SetStream(k, to)
    PROVE  /\ stream' = [stream EXCEPT ![k] = to] /\ stream' \in [Hubs -> States]
           /\ current' \in BOOLEAN /\ sees' \in {"nothing", "all", "gap"}
BY DEF SetStream, HubTypeOK, States, Hubs

LEMMA AttemptTypes ==
    ASSUME NEW k \in Hubs, NEW to \in Phases, HubTypeOK, BeginAttempt(k, to)
    PROVE  phase' \in [Hubs -> Phases] /\ rgen' \in [Hubs -> Nat]
BY DEF BeginAttempt, HubTypeOK

LEMMA ProgressTypes ==
    ASSUME NEW k \in Hubs, NEW to \in Phases, NEW g, HubTypeOK
    PROVE  MarkProgress(phase, k, to, g) \in [Hubs -> Phases]
BY DEF MarkProgress, HubTypeOK

(* Promises that only get on keep their number.                             *)
LEMMA JobsGetOn ==
    ASSUME NEW js, NEW st, OneAttempt(js, st), NEW f \in [js -> Jobs],
           \A j \in js : f[j].hub = j.hub /\ f[j].src = j.src
    PROVE  OneAttempt({f[j] : j \in js}, st)
BY DEF OneAttempt, Jobs

LEMMA CutJobs ==
    ASSUME NEW k, StartInv
    PROVE  OneAttempt(Cut(k), starting)
<1> DEFINE f == [j \in jobs |-> IF j.hub = k /\ j.at = "subscribe" THEN [j EXCEPT !.at = "failed"]
                                ELSE j]
<1>1. f \in [jobs -> Jobs] /\ \A j \in jobs : f[j].hub = j.hub /\ f[j].src = j.src
  BY DEF StartInv, OneAttempt, Jobs
<1>2. Cut(k) = {f[j] : j \in jobs}
  BY DEF Cut
<1>3. QED
  <2> HIDE DEF f
  <2> QED BY <1>1, <1>2, JobsGetOn DEF StartInv

LEMMA MovedJobs ==
    ASSUME NEW from, NEW to \in {"doomed", "failed"}, StartInv
    PROVE  OneAttempt(Move(from, to), starting)
<1> DEFINE f == [j \in jobs |-> IF j.at \in from THEN [j EXCEPT !.at = to] ELSE j]
<1>1. f \in [jobs -> Jobs] /\ \A j \in jobs : f[j].hub = j.hub /\ f[j].src = j.src
  BY DEF StartInv, OneAttempt, Jobs
<1>2. Move(from, to) = {f[j] : j \in jobs}
  BY DEF Move
<1>3. QED
  <2> HIDE DEF f
  <2> QED BY <1>1, <1>2, JobsGetOn DEF StartInv

LEMMA PassEnds ==
    ASSUME StartInv, EndPass, gate \in {"begin", "reconcile"}
    PROVE  OneAttempt(jobs', starting) /\ gate' \in {"idle", "begin", "reconcile"}
<1> DEFINE f == [j \in jobs |-> IF j.at = "pipeline" THEN [j EXCEPT !.at = "done"]
                                ELSE IF j.at = "doomed" THEN [j EXCEPT !.at = "failed"] ELSE j]
<1>1. f \in [jobs -> Jobs] /\ \A j \in jobs : f[j].hub = j.hub /\ f[j].src = j.src
  BY DEF StartInv, OneAttempt, Jobs
<1>2. jobs' = jobs \/ jobs' = {f[j] : j \in jobs}
  BY DEF EndPass
<1>3. OneAttempt({f[j] : j \in jobs}, starting)
  <2> HIDE DEF f
  <2> QED BY <1>1, JobsGetOn DEF StartInv
<1>4. QED BY <1>2, <1>3 DEF EndPass, StartInv

(* One promise gets on, one is added for an onreconnected, one is over.     *)
LEMMA OneGetsOn ==
    ASSUME NEW j \in jobs, StartInv,
           NEW to \in {"subscribe", "pipeline", "doomed", "done", "failed"}
    PROVE  OneAttempt((jobs \ {j}) \cup {[j EXCEPT !.at = to]}, starting)
BY DEF StartInv, OneAttempt, Jobs

LEMMA OneIsOver ==
    ASSUME NEW j \in jobs, StartInv, Releases(j)
    PROVE  OneAttempt(jobs \ {j}, [starting EXCEPT ![j.hub] = @ - 1])
<1>1. j \in Jobs /\ j.src = "restart" /\ starting[j.hub] = 1 /\ j.hub \in Hubs
  BY DEF StartInv, OneAttempt, Releases, Jobs
<1>2. \A i \in jobs \ {j} : i.src = "restart" => i.hub # j.hub
  BY <1>1 DEF StartInv, OneAttempt
<1>3. [starting EXCEPT ![j.hub] = @ - 1] \in [Hubs -> 0 .. 1]
  BY <1>1 DEF StartInv, OneAttempt
<1>4. \A i \in jobs \ {j} : i.src = "restart" => [starting EXCEPT ![j.hub] = @ - 1][i.hub] = 1
  BY <1>1, <1>2 DEF StartInv, OneAttempt, Jobs
<1>5. QED BY <1>3, <1>4 DEF StartInv, OneAttempt

LEMMA ConnectionInit == HubInit => ConnectionInv
<1> SUFFICES ASSUME HubInit PROVE ConnectionInv
  OBVIOUS
<1>1. HubTypeOK
  BY SleepersAssumption DEF HubInit, HubTypeOK, States, Phases
<1>2. StreamInv
  BY DEF HubInit, StreamInv, Listening
<1>3. StartInv
  BY DEF HubInit, StartInv, OneAttempt
<1>4. QED BY <1>1, <1>2, <1>3 DEF ConnectionInv

LEMMA SleepTypes ==
    ASSUME HubTypeOK, NEW k \in Hubs, Sleep(k)
    PROVE  sleepers' \in [Hubs -> 0 .. MaxSleepers]
BY SleepersAssumption DEF HubTypeOK, Sleep

-----------------------------------------------------------------------------
(* Events of the hubs.                                                      *)
LEMMA EventsStep ==
    ASSUME ConnectionInv, NEW k \in Hubs,
           Event(k) \/ PayloadFault(k) \/ Drop(k) \/ Reconnected(k) \/ Close(k) \/ StuckTick(k)
    PROVE  ConnectionInv'
<1> USE DEF ConnectionInv
<1>1. CASE Event(k)
  BY <1>1 DEF Event, HubTypeOK, StreamInv, StartInv, Listening, wire, recovery, client, task,
              pipeline, read, States
<1>2. CASE PayloadFault(k)
  BY <1>2 DEF PayloadFault, HubTypeOK, StreamInv, StartInv, Listening, wire, recovery, client,
              pipeline, States
<1>3. CASE Drop(k)
  <2>1. /\ conn' = [conn EXCEPT ![k] = "retrying"]
        /\ subscribed' = [subscribed EXCEPT ![k] = FALSE]
        /\ SetStream(k, "reconnecting") /\ BeginAttempt(k, "reconnecting")
        /\ jobs' = Cut(k) /\ UNCHANGED <<publishing, sleepers, starting, gate, snaps>>
    BY <1>3 DEF Drop, pipeline
  <2>2. /\ stream' = [stream EXCEPT ![k] = "reconnecting"] /\ stream' \in [Hubs -> States]
        /\ current' \in BOOLEAN /\ sees' \in {"nothing", "all", "gap"}
    BY <2>1, SetStreamTypes DEF States
  <2>3. phase' \in [Hubs -> Phases] /\ rgen' \in [Hubs -> Nat]
    BY <2>1, AttemptTypes DEF Phases
  <2>4. StartInv'
    BY <2>1, CutJobs DEF StartInv
  <2>5. StreamInv'
    BY <2>1, <2>2 DEF StreamInv, Listening, HubTypeOK
  <2>6. HubTypeOK'
    BY <2>1, <2>2, <2>3, <2>4 DEF HubTypeOK, StartInv, OneAttempt
  <2>7. QED BY <2>4, <2>5, <2>6
<1>4. CASE Reconnected(k)
  <2>1. /\ conn[k] = "retrying" /\ conn' = [conn EXCEPT ![k] = "on"]
        /\ jobs' = jobs \cup {Job(k, "reconnect", "subscribe", rgen[k])}
        /\ UNCHANGED <<subscribed, publishing, stream, current, phase, rgen, sleepers,
                       starting, gate, snaps, sees>>
    BY <1>4 DEF Reconnected, store, recovery, pipeline, task
  <2>2. Job(k, "reconnect", "subscribe", rgen[k]) \in Jobs
    BY DEF Job, Jobs, HubTypeOK
  <2>3. StartInv'
    BY <2>1, <2>2 DEF StartInv, OneAttempt, Job
  <2>4. StreamInv'
    BY <2>1 DEF StreamInv, Listening, HubTypeOK
  <2>5. HubTypeOK'
    BY <2>1, <2>3 DEF HubTypeOK, StartInv, OneAttempt
  <2>6. QED BY <2>3, <2>4, <2>5
<1>5. CASE Close(k)
  <2>1. /\ conn' = [conn EXCEPT ![k] = "off"]
        /\ subscribed' = [subscribed EXCEPT ![k] = FALSE]
        /\ SetStream(k, "disconnected") /\ (Sleep(k) \/ UNCHANGED sleepers)
        /\ jobs' = Cut(k) /\ UNCHANGED <<publishing, phase, rgen, starting, gate, snaps>>
    BY <1>5 DEF Close, pipeline, recovery
  <2>2. /\ stream' = [stream EXCEPT ![k] = "disconnected"] /\ stream' \in [Hubs -> States]
        /\ current' \in BOOLEAN /\ sees' \in {"nothing", "all", "gap"}
    BY <2>1, SetStreamTypes DEF States
  <2>3. sleepers' \in [Hubs -> 0 .. MaxSleepers]
    BY <2>1, SleepTypes DEF HubTypeOK
  <2>4. StartInv'
    BY <2>1, CutJobs DEF StartInv
  <2>5. StreamInv'
    BY <2>1, <2>2 DEF StreamInv, Listening, HubTypeOK
  <2>6. HubTypeOK'
    BY <2>1, <2>2, <2>3, <2>4 DEF HubTypeOK, StartInv, OneAttempt
  <2>7. QED BY <2>4, <2>5, <2>6
<1>6. CASE StuckTick(k)
  <2>1. Sleep(k) /\ UNCHANGED <<conn, subscribed, publishing, stream, current, phase, rgen, jobs,
                                starting, gate, snaps, sees>>
    BY <1>6 DEF StuckTick, wire, store, recovery, pipeline, task
  <2>2. sleepers' \in [Hubs -> 0 .. MaxSleepers]
    BY <2>1, SleepTypes
  <2>3. QED BY <2>1, <2>2 DEF HubTypeOK, StreamInv, StartInv, Listening
<1>7. QED BY <1>1, <1>2, <1>3, <1>4, <1>5, <1>6

(* The subscription is granted: the stream passes for connected again, on   *)
(* a connection that is subscribed.                                         *)
LEMMA GrantedStep ==
    ASSUME ConnectionInv, NEW j \in jobs, Subscribed(j) \/ Restarted(j)
    PROVE  ConnectionInv'
<1> USE DEF ConnectionInv
<1>0. j \in Jobs /\ j.hub \in Hubs
  BY DEF StartInv, OneAttempt, Jobs
<1>1. /\ conn'[j.hub] = "on" /\ conn' \in [Hubs -> {"on", "retrying", "off"}]
      /\ \A k \in Hubs \ {j.hub} : conn'[k] = conn[k]
      /\ subscribed' = [subscribed EXCEPT ![j.hub] = TRUE]
      /\ phase' = MarkProgress(phase, j.hub, "resubscribing", j.gen)
      /\ SetStream(j.hub, "connected")
      /\ jobs' = (jobs \ {j}) \cup {[j EXCEPT !.at = "pipeline"]}
      /\ RunGate /\ UNCHANGED <<publishing, rgen, sleepers, starting>>
  BY <1>0 DEF Subscribed, Restarted, HubTypeOK
<1>2. /\ stream' = [stream EXCEPT ![j.hub] = "connected"] /\ stream' \in [Hubs -> States]
      /\ current' \in BOOLEAN /\ sees' \in {"nothing", "all", "gap"}
  BY <1>0, <1>1, SetStreamTypes DEF States
<1>3. phase' \in [Hubs -> Phases]
  BY <1>0, <1>1, ProgressTypes DEF Phases
<1>4. StartInv'
  BY <1>1, OneGetsOn DEF StartInv
<1>5. StreamInv'
  BY <1>0, <1>1, <1>2 DEF StreamInv, Listening, HubTypeOK
<1>6. HubTypeOK'
  BY <1>0, <1>1, <1>2, <1>3, <1>4 DEF HubTypeOK, StartInv, OneAttempt, RunGate
<1>7. QED BY <1>4, <1>5, <1>6

(* The rest of onreconnected and restartHub.                                *)
LEMMA SettledStep ==
    ASSUME ConnectionInv, NEW j \in jobs, SubscribeFails(j) \/ JobDone(j) \/ JobFailed(j)
    PROVE  ConnectionInv'
<1> USE DEF ConnectionInv
<1>0. j \in Jobs /\ j.hub \in Hubs
  BY DEF StartInv, OneAttempt, Jobs
<1>1. CASE SubscribeFails(j)
  <2>1. /\ jobs' = (jobs \ {j}) \cup {[j EXCEPT !.at = "failed"]}
        /\ UNCHANGED <<conn, subscribed, publishing, stream, current, phase, rgen, sleepers,
                       starting, gate, snaps, sees>>
    BY <1>1 DEF SubscribeFails, wire, store, recovery, pipeline, task
  <2>2. StartInv'
    BY <2>1, OneGetsOn DEF StartInv
  <2>3. QED BY <2>1, <2>2 DEF HubTypeOK, StreamInv, StartInv, OneAttempt, Listening
<1>2. (jobs' = jobs \ {j} /\ starting' = IF Releases(j) THEN [starting EXCEPT ![j.hub] = @ - 1]
                                         ELSE starting) => StartInv'
  BY OneIsOver DEF StartInv, OneAttempt
<1>3. CASE JobDone(j)
  <2>1. StartInv' /\ UNCHANGED <<conn, subscribed, publishing, stream, current, phase, rgen,
                                 sleepers, gate, snaps, sees>>
    BY <1>2, <1>3 DEF JobDone, wire, store, recovery, pipeline, task
  <2>2. QED BY <2>1 DEF HubTypeOK, StreamInv, StartInv, OneAttempt, Listening
<1>4. CASE JobFailed(j)
  <2>1. /\ StartInv' /\ SetStream(j.hub, "disconnected") /\ Fail(j.hub, j.gen)
        /\ UNCHANGED <<conn, subscribed, publishing, rgen, gate, snaps>>
    BY <1>2, <1>4 DEF JobFailed, wire, pipeline
  <2>2. sleepers' \in [Hubs -> 0 .. MaxSleepers]
    <3>1. Min({sleepers[j.hub] + 1, MaxSleepers}) \in 0 .. MaxSleepers
      BY <1>0, SleepersAssumption DEF HubTypeOK, Min
    <3>2. QED BY <1>0, <1>4, <3>1 DEF JobFailed, HubTypeOK
  <2>3. /\ stream' = [stream EXCEPT ![j.hub] = "disconnected"] /\ stream' \in [Hubs -> States]
        /\ current' \in BOOLEAN /\ sees' \in {"nothing", "all", "gap"}
    BY <1>0, <2>1, SetStreamTypes DEF States
  <2>4. phase' \in [Hubs -> Phases]
    BY <1>0, <2>1 DEF Fail, HubTypeOK, Phases
  <2>5. StreamInv'
    BY <1>0, <2>1, <2>3 DEF StreamInv, Listening, HubTypeOK
  <2>6. HubTypeOK'
    <3>1. jobs' \subseteq Jobs /\ starting' \in [Hubs -> Nat]
      BY <2>1 DEF StartInv, OneAttempt
    <3>2. QED BY <2>1, <2>2, <2>3, <2>4, <3>1 DEF HubTypeOK
  <2>7. QED BY <2>1, <2>5, <2>6
<1>5. QED BY <1>1, <1>3, <1>4

(* restartHub after its sleep: the second check keeps the attempts at one.  *)
LEMMA RestartStep ==
    ASSUME ConnectionInv, NEW k \in Hubs, RestartBegin(k)
    PROVE  ConnectionInv'
<1> USE DEF ConnectionInv
<1>1. /\ UNCHANGED <<publishing, current, gate, snaps, sees>>
      /\ sleepers[k] > 0 /\ sleepers' = [sleepers EXCEPT ![k] = @ - 1]
  BY DEF RestartBegin, pipeline, task
<1>2. sleepers' \in [Hubs -> 0 .. MaxSleepers]
  BY <1>1, SleepersAssumption DEF HubTypeOK
<1>3. CASE ~MayStart(k)
  BY <1>1, <1>2, <1>3 DEF RestartBegin, recovery, HubTypeOK, StreamInv, StartInv, Listening
<1>4. CASE MayStart(k)
  <2>1. /\ starting[k] = 0 /\ starting' = [starting EXCEPT ![k] = @ + 1]
        /\ BeginAttempt(k, "suspect")
        /\ stream' = [stream EXCEPT ![k] = IF conn[k] = "off" THEN "connecting"
                                           ELSE "disconnected"]
        /\ conn' = [conn EXCEPT ![k] = "off"]
        /\ subscribed' = [subscribed EXCEPT ![k] = FALSE]
        /\ jobs' = Cut(k) \cup {Job(k, "restart", "subscribe", rgen'[k])}
    BY <1>4 DEF RestartBegin, MayStart
  <2>2. phase' \in [Hubs -> Phases] /\ rgen' \in [Hubs -> Nat]
    BY <2>1, AttemptTypes DEF Phases
  <2>3. OneAttempt(Cut(k), starting)
    BY CutJobs
  <2>4. Job(k, "restart", "subscribe", rgen'[k]) \in Jobs
    BY <2>2 DEF Job, Jobs
  <2>5. \A i \in Cut(k) : i.src = "restart" => i.hub # k
    BY <2>1, <2>3 DEF OneAttempt
  <2>6. starting' \in [Hubs -> 0 .. 1]
    BY <2>1, <2>3 DEF OneAttempt
  <2>7. StartInv'
    <3>1. jobs' \subseteq Jobs
      BY <2>1, <2>3, <2>4 DEF OneAttempt
    <3>2. \A i \in jobs' : i.src = "restart" => starting'[i.hub] = 1
      BY <2>1, <2>3, <3>1 DEF OneAttempt, Job, Jobs
    <3>3. \A i, h \in jobs' : i.src = "restart" /\ h.src = "restart" /\ i.hub = h.hub => i = h
      BY <2>1, <2>3, <2>5 DEF OneAttempt, Job
    <3>4. QED BY <2>6, <3>1, <3>2, <3>3 DEF StartInv, OneAttempt
  <2>8. StreamInv'
    BY <2>1 DEF StreamInv, Listening, HubTypeOK
  <2>9. HubTypeOK'
    <3>1. stream' \in [Hubs -> States]
      BY <2>1 DEF HubTypeOK, States
    <3>2. QED BY <1>1, <1>2, <2>1, <2>2, <2>7, <3>1 DEF HubTypeOK, StartInv, OneAttempt
  <2>10. QED BY <2>7, <2>8, <2>9
<1>5. QED BY <1>3, <1>4

(* The gate and the reconciliation leave the wire and the restarts alone.   *)
LEMMA PipelineStep ==
    ASSUME ConnectionInv, PipelineBegin \/ PipelineEnd
    PROVE  ConnectionInv'
<1> USE DEF ConnectionInv
<1>1. UNCHANGED <<conn, subscribed, publishing, stream, current, rgen, sleepers, starting, sees>>
  BY DEF PipelineBegin, PipelineEnd, wire, store, task
<1>2. snaps' \in [Hubs -> Nat]
  BY DEF PipelineBegin, PipelineEnd, HubTypeOK
<1>3. phase' \in [Hubs -> Phases]
  <2>1. CASE PipelineBegin
    <3>1. \A k \in Hubs : MarkProgress(phase, k, "reconciling", rgen[k])[k] \in Phases
      BY ProgressTypes DEF Phases
    <3>2. QED BY <2>1, <3>1 DEF PipelineBegin, HubTypeOK
  <2>2. CASE PipelineEnd
    BY <2>2 DEF PipelineEnd, HubTypeOK, Phases
  <2>3. QED BY <2>1, <2>2
<1>4. OneAttempt(jobs', starting) /\ gate' \in {"idle", "begin", "reconcile"}
  <2>1. CASE EndPass /\ gate \in {"begin", "reconcile"}
    BY <2>1, PassEnds
  <2>2. CASE jobs' = jobs /\ gate' = "reconcile"
    BY <2>2 DEF StartInv
  <2>3. CASE jobs' = Move({"pipeline"}, "doomed") /\ gate' = "begin"
    BY <2>3, MovedJobs
  <2>4. CASE jobs' = Move({"pipeline", "doomed"}, "failed") /\ gate' = "idle"
    BY <2>4, MovedJobs
  <2>5. QED BY <2>1, <2>2, <2>3, <2>4 DEF PipelineBegin, PipelineEnd
<1>5. QED BY <1>1, <1>2, <1>3, <1>4 DEF HubTypeOK, StreamInv, StartInv, OneAttempt, Listening

LEMMA MarketHoursStep ==
    ASSUME ConnectionInv, MarketShuts \/ MarketOpens \/ SilentTick
    PROVE  ConnectionInv'
<1> USE DEF ConnectionInv
<1>1. /\ UNCHANGED <<conn, subscribed, stream, current, phase, rgen, jobs, starting, gate, snaps,
                     sees>>
      /\ Sleep("market") \/ UNCHANGED sleepers
      /\ publishing' \in BOOLEAN
  BY DEF MarketShuts, MarketOpens, SilentTick, wire, store, recovery, client, pipeline, task,
         HubTypeOK
<1>2. sleepers' \in [Hubs -> 0 .. MaxSleepers]
  BY <1>1, SleepTypes DEF HubTypeOK, Hubs
<1>3. QED BY <1>1, <1>2 DEF HubTypeOK, StreamInv, StartInv, Listening

LEMMA ReconcileStep ==
    ASSUME ConnectionInv, Reconcile \/ ReconcileTimer \/ ReconcileFails
    PROVE  ConnectionInv'
<1> USE DEF ConnectionInv
<1>1. /\ UNCHANGED <<conn, subscribed, publishing, stream, phase, rgen, jobs, sleepers, starting,
                     gate, snaps>>
      /\ current' \in BOOLEAN /\ sees' \in {"nothing", "all", "gap"}
  BY DEF Reconcile, Dispatch, Read, Apply, ReconcileTimer, ReconcileFails, wire, store, recovery,
         client, pipeline, HubTypeOK
<1>2. QED BY <1>1 DEF HubTypeOK, StreamInv, StartInv, Listening

LEMMA ConnectionStep == ConnectionInv /\ [HubNext]_hubVars => ConnectionInv'
<1> SUFFICES ASSUME ConnectionInv, [HubNext]_hubVars PROVE ConnectionInv'
  OBVIOUS
<1>1. CASE UNCHANGED hubVars
  BY <1>1 DEF hubVars, wire, store, recovery, client, pipeline, task, ConnectionInv, HubTypeOK,
              StreamInv, StartInv, Listening
<1>2. CASE HubNext
  BY <1>2, EventsStep, GrantedStep, SettledStep, RestartStep, PipelineStep, MarketHoursStep,
     ReconcileStep DEF HubNext, Client, Pipeline
<1>3. QED BY <1>1, <1>2

(* CompleteIsSubscribed and OneStartPerHub, with the types: whatever drops, *)
(* closes, sleeps and restarts meet, the account state passes for complete  *)
(* only while both hubs deliver what was subscribed, and a hub has one      *)
(* attempt to start in flight.                                              *)
THEOREM CompleteWhileSubscribed == HubSpec => []HubInv
<1>1. HubInit => ConnectionInv
  BY ConnectionInit
<1>2. ConnectionInv /\ [HubNext]_hubVars => ConnectionInv'
  BY ConnectionStep
<1>3. ConnectionInv => HubInv
  BY DEF ConnectionInv, HubInv, CompleteIsSubscribed, Complete, StreamInv, StartInv, OneAttempt,
         OneStartPerHub
<1>4. QED BY <1>1, <1>2, <1>3, PTL DEF HubSpec
-----------------------------------------------------------------------------
(***************************************************************************)
(* The evidence queue.  Nothing in it carries the order of arrival but the  *)
(* number of an event, so the invariant says where each number may be: a    *)
(* batch in flight, the queue and the line of stages follow each other, all *)
(* of it behind what was applied, and a row leaves the outbox in the same   *)
(* step as its event is stored.                                             *)
(***************************************************************************)
(* The events whose stage is not over, and all that are kept anywhere.       *)
Waiting == {staging[i].e : i \in DOMAIN staging}
Known == Waiting \cup outbox \cup Range(entries) \cup Range(batch) \cup Range(stored)
Row == [e : Events, row : BOOLEAN]

(* Types, by the provers that can tell them.                                 *)
EventsTyped ==
    /\ staging \in Seq(Row) /\ entries \in Seq(Events)
    /\ batch \in Seq(Events) /\ stored \in Seq(Events)
    /\ outbox \subseteq Events /\ dropped \subseteq Events
    /\ Len(batch) <= BatchSize

CountersTyped ==
    /\ mode \in {"down", "starting", "running", "stopping"}
    /\ next \in 0 .. MaxEvents /\ born \in 0 .. next
    /\ writing \in {"idle", "asked", "committed"}
    /\ evidenceFaults \in 0 .. MaxEvidenceFaults /\ failures \in 0 .. evidenceFaults

KeysTyped == byKey \in [Keys -> 0 .. next] /\ seen \in [Keys -> 0 .. next]

EvidenceTyped == EventsTyped /\ CountersTyped /\ KeysTyped /\ degraded \in BOOLEAN

(* A number is of one event, and the key tables speak of events of their key.*)
NumbersIdentify ==
    /\ \A a \in Known : a.n <= next
    /\ \A a, b \in Known : a.n = b.n => a = b
    /\ \A a \in Known, k \in Keys : a.n \in {byKey[k], seen[k]} => a.key = k

(* What is being staged arrived in this process; its row is there when it says so.*)
StagedAreNew ==
    \A i \in DOMAIN staging :
        /\ staging[i].e.class = "identity" /\ staging[i].e.n > born
        /\ staging[i].row => staging[i].e \in outbox

(* Order by class: sequence before sequence, and within one.                 *)
InOrder(s, t) == \A e \in Range(s), f \in Range(t) : e.class = f.class => e.n < f.n
Ascending(s) ==
    \A i, j \in DOMAIN s : i < j /\ s[i].class = s[j].class => s[i].n < s[j].n

(* Batch, queue and stage line follow each other in the order of arrival.    *)
QueueInOrder ==
    /\ Ascending(entries) /\ Ascending(batch) /\ InOrder(batch, entries)
    /\ \A i, j \in DOMAIN staging : i < j => staging[i].e.n < staging[j].e.n
    /\ \A e \in Range(entries) \cup Range(batch), w \in Waiting :
          e.class = "identity" => e.n < w.n

(* What is still to come of this process is later than what was applied.     *)
AppliedBefore ==
    \A f \in applied, e \in Waiting \cup Range(entries) \cup Range(batch) :
        e.n > born /\ e.class = f.class => f.n < e.n

(* A row that is pending, or will be, is of an event that is not stored.     *)
OutboxIsNew == (outbox \cup Waiting) \cap Range(stored) = {}

(* NewestIsKept, said of events and not of their numbers.                    *)
NewestHeld ==
    \A k \in Keys : seen[k] > born /\ mode # "down" =>
        \/ \E e \in Range(entries) \cup Range(batch) \cup Range(stored) : e.n = seen[k]
        \/ \E d \in dropped : d.key = k /\ d.n > seen[k]

(* Only what was taken back after its transaction is queued and stored.      *)
QueuedIsKept ==
    /\ again \subseteq 1 .. MaxEvents
    /\ \A e \in Range(entries) \cup (IF writing = "committed" THEN {} ELSE Range(batch)) :
          e.class = "identity" => e \in outbox \/ (e \in Range(stored) /\ e.n \in again)

(* What is empty when.                                                       *)
QueuePhases ==
    /\ writing = "idle" => batch = <<>>
    /\ writing = "committed" => Range(batch) \subseteq Range(stored)
    /\ mode = "down" => entries = <<>> /\ batch = <<>>
    /\ mode \in {"down", "starting"} => staging = <<>>
    /\ mode = "starting" => next = born

(* The inductive invariant.                                                  *)
EvidenceInd ==
    /\ EvidenceTyped /\ NumbersIdentify /\ StagedAreNew /\ QueueInOrder /\ AppliedBefore
    /\ OutboxIsNew /\ QueuePhases
    /\ StoredOnce /\ RunsAfterReplay /\ QueuedIsKept /\ PersistBeforeApply /\ NewestHeld

-----------------------------------------------------------------------------
(* Sequences of events: their elements, and their order by class.            *)
LEMMA ElementsOfSeq ==
    ASSUME NEW S, NEW s \in Seq(S)
    PROVE  /\ DOMAIN s = 1 .. Len(s) /\ Len(s) \in Nat /\ Range(s) \subseteq S
           /\ Range(s) = {s[i] : i \in 1 .. Len(s)}
<1>1. DOMAIN s = 1 .. Len(s) /\ Len(s) \in Nat /\ \A i \in 1 .. Len(s) : s[i] \in S
  BY LenProperties, ElementOfSeq
<1>2. Range(s) = {s[i] : i \in 1 .. Len(s)}
  BY <1>1, Zenon DEF Range
<1>3. QED BY <1>1, <1>2

LEMMA NothingInOrder ==
    /\ <<>> \in Seq(Events) /\ Len(<<>>) = 0 /\ Range(<<>>) = {} /\ Ascending(<<>>)
    /\ \A s : InOrder(s, <<>>) /\ InOrder(<<>>, s)
<1>1. <<>> \in Seq(Events) /\ Len(<<>>) = 0
  BY EmptySeq
<1>2. Range(<<>>) = {} /\ DOMAIN <<>> = {}
  BY <1>1, ElementsOfSeq DEF Range
<1>3. QED BY <1>1, <1>2 DEF Ascending, InOrder

LEMMA AppendOfSeq ==
    ASSUME NEW S, NEW s \in Seq(S), NEW x \in S
    PROVE  /\ Append(s, x) \in Seq(S) /\ Len(Append(s, x)) = Len(s) + 1
           /\ \A i \in 1 .. Len(s) : Append(s, x)[i] = s[i]
           /\ Append(s, x)[Len(s) + 1] = x
           /\ Range(Append(s, x)) = Range(s) \cup {x}
<1> DEFINE t == Append(s, x)
<1>1. /\ t \in Seq(S) /\ Len(t) = Len(s) + 1 /\ t[Len(s) + 1] = x
      /\ \A i \in 1 .. Len(s) : t[i] = s[i]
  OBVIOUS
<1> HIDE DEF t
<1>2. Len(s) \in Nat
  BY ElementsOfSeq
<1>3. 1 .. Len(t) = (1 .. Len(s)) \cup {Len(s) + 1}
  BY <1>1, <1>2
<1>4. Range(t) = Range(s) \cup {x}
  <2>1. ASSUME NEW y PROVE y \in Range(t) <=> y \in Range(s) \cup {x}
    <3>1. /\ Range(t) = {t[i] : i \in 1 .. Len(t)}
          /\ Range(s) = {s[i] : i \in 1 .. Len(s)}
      BY <1>1, ElementsOfSeq
    <3>2. QED BY <3>1, <1>1, <1>3
  <2>2. QED BY <2>1
<1>5. QED BY <1>1, <1>4 DEF t

LEMMA AppendInOrder ==
    ASSUME NEW s \in Seq(Events), NEW e \in Events, Ascending(s),
           \A f \in Range(s) : f.class = e.class => f.n < e.n
    PROVE  Ascending(Append(s, e))
<1> DEFINE t == Append(s, e)
<1>1. /\ t \in Seq(Events) /\ Len(t) = Len(s) + 1 /\ t[Len(s) + 1] = e
      /\ \A i \in 1 .. Len(s) : t[i] = s[i]
  BY AppendOfSeq
<1> HIDE DEF t
<1>2. /\ DOMAIN t = 1 .. Len(s) + 1 /\ DOMAIN s = 1 .. Len(s) /\ Len(s) \in Nat
      /\ \A i \in 1 .. Len(s) : s[i] \in Range(s)
  BY <1>1, ElementsOfSeq
<1>3. ASSUME NEW i \in DOMAIN t, NEW j \in DOMAIN t, i < j, t[i].class = t[j].class
      PROVE  t[i].n < t[j].n
  <2>1. i \in 1 .. Len(s) /\ t[i] = s[i]
    BY <1>1, <1>2, <1>3
  <2>2. CASE j \in 1 .. Len(s)
    BY <1>1, <1>2, <1>3, <2>1, <2>2 DEF Ascending
  <2>3. CASE j = Len(s) + 1
    BY <1>1, <1>2, <1>3, <2>1, <2>3
  <2>4. QED BY <1>2, <2>2, <2>3
<1>4. QED BY <1>3 DEF Ascending, t

LEMMA ConcatInOrder ==
    ASSUME NEW s \in Seq(Events), NEW t \in Seq(Events),
           Ascending(s), Ascending(t), InOrder(s, t)
    PROVE  Ascending(s \o t)
<1> DEFINE u == s \o t
<1>1. /\ u \in Seq(Events) /\ Len(u) = Len(s) + Len(t)
      /\ \A i \in 1 .. Len(s) + Len(t) : u[i] = IF i <= Len(s) THEN s[i] ELSE t[i - Len(s)]
  BY ConcatProperties
<1> HIDE DEF u
<1>2. /\ DOMAIN u = 1 .. Len(s) + Len(t) /\ Len(s) \in Nat /\ Len(t) \in Nat
      /\ DOMAIN s = 1 .. Len(s) /\ DOMAIN t = 1 .. Len(t)
      /\ \A i \in 1 .. Len(s) : s[i] \in Range(s)
      /\ \A i \in 1 .. Len(t) : t[i] \in Range(t)
  BY <1>1, ElementsOfSeq
<1>3. ASSUME NEW i \in DOMAIN u, NEW j \in DOMAIN u, i < j, u[i].class = u[j].class
      PROVE  u[i].n < u[j].n
  <2>1. CASE j <= Len(s)
    <3>1. i \in 1 .. Len(s) /\ j \in 1 .. Len(s) /\ u[i] = s[i] /\ u[j] = s[j]
      BY <1>1, <1>2, <1>3, <2>1
    <3>2. QED BY <1>2, <1>3, <3>1 DEF Ascending
  <2>2. CASE i <= Len(s) /\ j > Len(s)
    <3>1. /\ i \in 1 .. Len(s) /\ u[i] = s[i]
          /\ j - Len(s) \in 1 .. Len(t) /\ u[j] = t[j - Len(s)]
      BY <1>1, <1>2, <1>3, <2>2
    <3>2. QED BY <1>2, <1>3, <3>1 DEF InOrder
  <2>3. CASE i > Len(s)
    <3>1. /\ i - Len(s) \in 1 .. Len(t) /\ u[i] = t[i - Len(s)]
          /\ j - Len(s) \in 1 .. Len(t) /\ u[j] = t[j - Len(s)]
          /\ i - Len(s) < j - Len(s)
      BY <1>1, <1>2, <1>3, <2>3
    <3>2. QED BY <1>2, <1>3, <3>1 DEF Ascending
  <2>4. QED BY <1>2, <1>3, <2>1, <2>2, <2>3
<1>4. QED BY <1>3 DEF Ascending, u

(* A part of a sequence.                                                    *)
LEMMA PartOfSeq ==
    ASSUME NEW s \in Seq(Events), NEW a \in 1 .. Len(s) + 1, NEW b \in 0 .. Len(s)
    PROVE  LET p == SubSeq(s, a, b) IN
           /\ p \in Seq(Events) /\ Len(p) = IF a <= b THEN b - a + 1 ELSE 0
           /\ \A i \in 1 .. Len(p) : a + i - 1 \in a .. b /\ p[i] = s[a + i - 1]
           /\ \A x : x \in Range(p) <=> \E i \in a .. b : s[i] = x
           /\ Ascending(s) => Ascending(p)
<1> DEFINE p == SubSeq(s, a, b)
<1>1. /\ DOMAIN s = 1 .. Len(s) /\ Len(s) \in Nat /\ a \in Int /\ b \in Int
      /\ \A i \in a .. b : s[i] \in Events /\ i \in 1 .. Len(s)
  BY ElementsOfSeq, ElementOfSeq
<1>2. /\ p \in Seq(Events) /\ Len(p) = IF a <= b THEN b - a + 1 ELSE 0
      /\ \A i \in 1 .. b - a + 1 : p[i] = s[a + i - 1]
  BY <1>1, SubSeqProperties
<1> HIDE DEF p
<1>3. /\ DOMAIN p = 1 .. Len(p)
      /\ \A i \in 1 .. Len(p) : a + i - 1 \in a .. b /\ p[i] = s[a + i - 1]
  BY <1>1, <1>2, ElementsOfSeq
<1>4. ASSUME NEW x PROVE x \in Range(p) <=> \E i \in a .. b : s[i] = x
  <2>1. Range(p) = {p[i] : i \in 1 .. Len(p)}
    BY <1>2, ElementsOfSeq
  <2>2. ASSUME NEW i \in a .. b, s[i] = x PROVE x \in Range(p)
    <3>1. i - a + 1 \in 1 .. Len(p) /\ a + (i - a + 1) - 1 = i
      BY <1>1, <1>2
    <3>2. p[i - a + 1] = s[i]
      BY <1>3, <3>1
    <3>3. QED BY <2>1, <2>2, <3>1, <3>2
  <2>3. QED BY <1>3, <2>1, <2>2
<1>5. ASSUME Ascending(s) PROVE Ascending(p)
  <2>1. ASSUME NEW i \in DOMAIN p, NEW j \in DOMAIN p, i < j, p[i].class = p[j].class
        PROVE  p[i].n < p[j].n
    <3>1. /\ a + i - 1 \in DOMAIN s /\ p[i] = s[a + i - 1]
          /\ a + j - 1 \in DOMAIN s /\ p[j] = s[a + j - 1]
      BY <1>1, <1>3
    <3>2. a + i - 1 < a + j - 1
      BY <1>1, <1>3, <2>1
    <3>3. QED BY <1>5, <2>1, <3>1, <3>2 DEF Ascending
  <2>2. QED BY <2>1 DEF Ascending
<1>6. QED BY <1>2, <1>3, <1>4, <1>5 DEF p

(* takeBatch: the head of the queue and what is left of it.                  *)
LEMMA CutInOrder ==
    ASSUME NEW s \in Seq(Events), NEW size \in 0 .. Len(s)
    PROVE  LET head == SubSeq(s, 1, size)  rest == SubSeq(s, size + 1, Len(s)) IN
           /\ head \in Seq(Events) /\ Len(head) = size /\ rest \in Seq(Events)
           /\ Range(s) = Range(head) \cup Range(rest)
           /\ Ascending(s) => Ascending(head) /\ Ascending(rest) /\ InOrder(head, rest)
<1> DEFINE head == SubSeq(s, 1, size)  rest == SubSeq(s, size + 1, Len(s))
<1>1. /\ DOMAIN s = 1 .. Len(s) /\ Len(s) \in Nat /\ size \in Nat
      /\ Range(s) = {s[i] : i \in 1 .. Len(s)}
  BY ElementsOfSeq
<1>a. 1 \in 1 .. Len(s) + 1 /\ size + 1 \in 1 .. Len(s) + 1 /\ Len(s) \in 0 .. Len(s)
  BY <1>1
<1>2. /\ head \in Seq(Events) /\ Len(head) = (IF 1 <= size THEN size - 1 + 1 ELSE 0)
      /\ \A x : x \in Range(head) <=> \E i \in 1 .. size : s[i] = x
      /\ Ascending(s) => Ascending(head)
  BY <1>a, PartOfSeq
<1>3. /\ rest \in Seq(Events)
      /\ \A x : x \in Range(rest) <=> \E i \in size + 1 .. Len(s) : s[i] = x
      /\ Ascending(s) => Ascending(rest)
  BY <1>a, PartOfSeq
<1> HIDE DEF head, rest
<1>4. Len(head) = size
  BY <1>1, <1>2
<1>5. Range(s) = Range(head) \cup Range(rest)
  <2>1. 1 .. Len(s) = (1 .. size) \cup (size + 1 .. Len(s))
    BY <1>1
  <2>2. QED BY <1>1, <1>2, <1>3, <2>1
<1>6. ASSUME Ascending(s), NEW e \in Range(head), NEW f \in Range(rest), e.class = f.class
      PROVE  e.n < f.n
  <2>1. PICK i \in 1 .. size : s[i] = e
    BY <1>2
  <2>2. PICK j \in size + 1 .. Len(s) : s[j] = f
    BY <1>3
  <2>3. i \in DOMAIN s /\ j \in DOMAIN s /\ i < j
    BY <1>1, <2>1, <2>2
  <2>4. QED BY <1>6, <2>1, <2>2, <2>3 DEF Ascending
<1>7. QED BY <1>2, <1>3, <1>4, <1>5, <1>6 DEF head, rest, InOrder

(* enqueue: a superseded entry leaves the queue.                             *)
LEMMA WithoutInOrder ==
    ASSUME entries \in Seq(Events), NEW old
    PROVE  LET r == Unsuperseded(old) IN
           /\ r \in Seq(Events) /\ Range(r) \subseteq Range(entries)
           /\ \A x \in Range(entries) : x.n # old => x \in Range(r)
           /\ Ascending(entries) => Ascending(r)
<1> DEFINE r == Unsuperseded(old)
<1>1. /\ DOMAIN entries = 1 .. Len(entries) /\ Len(entries) \in Nat
      /\ Range(entries) = {entries[i] : i \in 1 .. Len(entries)}
  BY ElementsOfSeq
<1>2. CASE ~\E i \in 1 .. Len(entries) : entries[i].n = old
  <2>1. r = entries
    BY <1>2 DEF Unsuperseded, RemoveFirstMatch
  <2> HIDE DEF r
  <2>2. QED BY <2>1 DEF r
<1>3. CASE \E i \in 1 .. Len(entries) : entries[i].n = old
  <2> DEFINE I == {i \in 1 .. Len(entries) : entries[i].n = old}
             k == CHOOSE x \in I : \A y \in I : x <= y
  <2>1. r = SubSeq(entries, 1, k - 1) \o SubSeq(entries, k + 1, Len(entries))
    BY <1>3 DEF Unsuperseded, RemoveFirstMatch, RemoveAt, SelectInSeq, Min
  <2>2. k \in I
    <3>1. I # {} /\ I \subseteq Nat
      BY <1>1, <1>3
    <3>2. \E x \in I : \A y \in I : x <= y
      BY <3>1, Least
    <3>3. QED BY <3>2
  <2> DEFINE head == SubSeq(entries, 1, k - 1)  rest == SubSeq(entries, k + 1, Len(entries))
  <2>a. /\ 1 \in 1 .. Len(entries) + 1 /\ k + 1 \in 1 .. Len(entries) + 1 /\ Len(entries) \in 0 .. Len(entries)
        /\ k - 1 \in 0 .. Len(entries) /\ k \in 1 .. Len(entries)
    BY <1>1, <2>2
  <2>3. /\ head \in Seq(Events)
        /\ \A x : x \in Range(head) <=> \E i \in 1 .. k - 1 : entries[i] = x
        /\ Ascending(entries) => Ascending(head)
    BY <2>a, PartOfSeq
  <2>4. /\ rest \in Seq(Events)
        /\ \A x : x \in Range(rest) <=> \E i \in k + 1 .. Len(entries) : entries[i] = x
        /\ Ascending(entries) => Ascending(rest)
    BY <2>a, PartOfSeq
  <2>5. entries[k].n = old
    BY <2>2
  <2>b. r = head \o rest
    BY <2>1
  <2> HIDE DEF r, head, rest, k
  <2>6. r \in Seq(Events) /\ Range(r) = Range(head) \cup Range(rest)
    BY <2>b, <2>3, <2>4, ConcatProperties, RangeConcatenation
  <2>7. Range(r) \subseteq Range(entries)
    <3>1. 1 .. k - 1 \subseteq 1 .. Len(entries) /\ k + 1 .. Len(entries) \subseteq 1 .. Len(entries)
      BY <1>1, <2>a
    <3>2. QED BY <1>1, <2>3, <2>4, <2>6, <3>1
  <2>8. ASSUME NEW x \in Range(entries), x.n # old PROVE x \in Range(r)
    <3>1. PICK i \in 1 .. Len(entries) : entries[i] = x
      BY <1>1
    <3>2. i # k
      BY <2>5, <2>8, <3>1
    <3>3. i \in 1 .. k - 1 \/ i \in k + 1 .. Len(entries)
      BY <1>1, <2>a, <3>2
    <3>4. QED BY <2>3, <2>4, <2>6, <3>1, <3>3
  <2>9. ASSUME Ascending(entries) PROVE Ascending(r)
    <3>1. ASSUME NEW e \in Range(head), NEW f \in Range(rest), e.class = f.class
          PROVE  e.n < f.n
      <4>1. PICK i \in 1 .. k - 1 : entries[i] = e
        BY <2>3
      <4>2. PICK j \in k + 1 .. Len(entries) : entries[j] = f
        BY <2>4
      <4>3. i \in DOMAIN entries /\ j \in DOMAIN entries /\ i < j
        BY <1>1, <2>a, <4>1, <4>2
      <4>4. QED BY <2>9, <3>1, <4>1, <4>2, <4>3 DEF Ascending
    <3>2. Ascending(head \o rest)
      BY <2>3, <2>4, <2>9, <3>1, ConcatInOrder DEF InOrder
    <3>3. QED BY <2>b, <3>2
  <2>10. QED BY <2>6, <2>7, <2>8, <2>9 DEF r
<1>4. QED BY <1>2, <1>3

LEMMA EvidenceConstants ==
    /\ HighWater \in Nat /\ MaxEvents \in Nat /\ MaxEvidenceFaults \in Nat
    /\ BatchSize \in Nat \ {0} /\ LoadLimit \in Nat \ {0}
BY WatermarkAssumption, SizesAssumption, BoundsAssumption

LEMMA EventFacts ==
    ASSUME NEW e \in Events
    PROVE  /\ e.n \in 1 .. MaxEvents /\ e.n \in Nat /\ e.n # 0
           /\ e.class \in {"identity", "market"} /\ e.key \in Keys \cup {NoKey}
BY EvidenceConstants DEF Events

LEMMA NumbersOfRange ==
    ASSUME NEW s PROVE Numbers(s) = {e.n : e \in Range(s)}
BY Zenon DEF Numbers, Range

LEMMA EvidenceInitInd == EvidenceInit => EvidenceInd
<1> SUFFICES ASSUME EvidenceInit PROVE EvidenceInd
  OBVIOUS
<1>1. /\ Range(staging) = {} /\ Waiting = {} /\ Range(entries) = {} /\ Range(batch) = {}
      /\ Range(stored) = {} /\ Known = {} /\ DOMAIN staging = {} /\ DOMAIN stored = {}
  BY NothingInOrder DEF EvidenceInit, EmptyQueue, Waiting, Known, Range
<1>2. EvidenceTyped
  <2>1. <<>> \in Seq(Row) /\ <<>> \in Seq(Events) /\ Len(<<>>) = 0
    BY EmptySeq
  <2>2. /\ staging \in Seq(Row) /\ entries \in Seq(Events) /\ batch \in Seq(Events)
        /\ stored \in Seq(Events) /\ Len(batch) = 0
    BY <2>1, Zenon DEF EvidenceInit, EmptyQueue
  <2>3. outbox = {} /\ dropped = {}
    BY DEF EvidenceInit
  <2>4. EventsTyped
    BY <2>2, <2>3, EvidenceConstants DEF EventsTyped
  <2>5. CountersTyped
    <3>1. /\ mode = "running" /\ next = 0 /\ born = 0 /\ writing = "idle"
          /\ failures = 0 /\ evidenceFaults = 0
      BY DEF EvidenceInit, EmptyQueue
    <3>2. QED BY <3>1, EvidenceConstants DEF CountersTyped
  <2>6. KeysTyped
    BY DEF EvidenceInit, EmptyQueue, KeysTyped
  <2>7. degraded \in BOOLEAN
    BY DEF EvidenceInit, EmptyQueue
  <2>8. QED BY <2>4, <2>5, <2>6, <2>7 DEF EvidenceTyped
<1>3. NumbersIdentify /\ StagedAreNew /\ AppliedBefore /\ OutboxIsNew
  BY <1>1 DEF NumbersIdentify, StagedAreNew, AppliedBefore, OutboxIsNew, EvidenceInit
<1>4. QueueInOrder
  BY <1>1, NothingInOrder DEF QueueInOrder, EvidenceInit, EmptyQueue
<1>5. QueuePhases /\ RunsAfterReplay /\ PersistBeforeApply
  BY <1>1 DEF QueuePhases, RunsAfterReplay, PersistBeforeApply, EvidenceInit, EmptyQueue
<1>6. StoredOnce /\ QueuedIsKept
  BY <1>1 DEF StoredOnce, Identity, QueuedIsKept, EvidenceInit
<1>7. NewestHeld
  BY DEF NewestHeld, EvidenceInit
<1>8. QED BY <1>2, <1>3, <1>4, <1>5, <1>6, <1>7 DEF EvidenceInd

LEMMA KnownTyped == ASSUME EvidenceTyped PROVE Known \subseteq Events
<1>1. Waiting \subseteq Events
  <2>1. ASSUME NEW i \in DOMAIN staging PROVE staging[i].e \in Events
    <3>1. staging \in Seq(Row)
      BY DEF EvidenceTyped, EventsTyped
    <3>2. staging[i] \in Row
      BY <2>1, <3>1, ElementsOfSeq
    <3>3. QED BY <3>2 DEF Row
  <2>2. QED BY <2>1 DEF Waiting
<1>2. /\ Range(entries) \subseteq Events /\ Range(batch) \subseteq Events
      /\ Range(stored) \subseteq Events
  BY ElementsOfSeq DEF EvidenceTyped, EventsTyped
<1>3. QED BY <1>1, <1>2 DEF Known, EvidenceTyped, EventsTyped

(* An action that brings no new event.                                      *)
LEMMA NothingNew ==
    ASSUME EvidenceInd, Known' \subseteq Known, next' = next, seen' = seen,
           \A k \in Keys : byKey'[k] \in {0, byKey[k]}
    PROVE  NumbersIdentify'
<1>1. \A a \in Known : a.n # 0
  BY KnownTyped, EventFacts DEF EvidenceInd
<1>2. QED BY <1>1 DEF EvidenceInd, NumbersIdentify

(* The process ends: the queue is lost, what was staged may be in the outbox.*)
LEMMA StepCrashLike ==
    ASSUME EvidenceInd, Forget, mode' = "down", outbox' \in {outbox, outbox \cup Waiting},
           evidenceFaults' = evidenceFaults, UNCHANGED <<next, born, stored, fate>>
    PROVE  EvidenceInd'
<1> USE DEF fate
<1>1. /\ Range(staging') = {} /\ Waiting' = {} /\ Range(entries') = {} /\ Range(batch') = {}
      /\ DOMAIN staging' = {}
  BY NothingInOrder DEF Forget, Waiting, Range
<1>2. Known' \subseteq Known
  BY <1>1 DEF Known
<1>3. EvidenceTyped'
  <2>1. outbox' \subseteq Events
    BY KnownTyped DEF EvidenceInd, EvidenceTyped, EventsTyped, Known
  <2>2. <<>> \in Seq(Row) /\ <<>> \in Seq(Events) /\ Len(<<>>) = 0
    BY EmptySeq
  <2>3. /\ staging' \in Seq(Row) /\ entries' \in Seq(Events) /\ batch' \in Seq(Events)
        /\ Len(batch') = 0
    BY <2>2, Zenon DEF Forget
  <2>4. EventsTyped'
    BY <2>1, <2>3, EvidenceConstants DEF EvidenceInd, EvidenceTyped, EventsTyped
  <2>5. CountersTyped'
    <3>1. writing' = "idle" /\ failures' = 0
      BY DEF Forget
    <3>2. QED BY <3>1, EvidenceConstants DEF EvidenceInd, EvidenceTyped, CountersTyped
  <2>6. KeysTyped'
    BY EvidenceConstants DEF EvidenceInd, EvidenceTyped, CountersTyped, KeysTyped, Forget
  <2>7. degraded' \in BOOLEAN
    BY DEF Forget
  <2>8. QED BY <2>4, <2>5, <2>6, <2>7 DEF EvidenceTyped
<1>4. NumbersIdentify'
  BY <1>2, NothingNew DEF Forget
<1>5. StagedAreNew' /\ AppliedBefore'
  BY <1>1 DEF StagedAreNew, AppliedBefore
<1>6. QueueInOrder'
  BY <1>1, NothingInOrder DEF QueueInOrder, Forget
<1>7. OutboxIsNew'
  BY <1>1 DEF OutboxIsNew, EvidenceInd
<1>8. QueuePhases' /\ RunsAfterReplay' /\ PersistBeforeApply' /\ NewestHeld'
  BY DEF QueuePhases, RunsAfterReplay, PersistBeforeApply, NewestHeld, EvidenceInd, Forget
<1>9. StoredOnce' /\ QueuedIsKept'
  BY <1>1 DEF StoredOnce, Identity, QueuedIsKept, EvidenceInd, fate
<1>10. QED BY <1>3, <1>4, <1>5, <1>6, <1>7, <1>8, <1>9 DEF EvidenceInd

LEMMA MinOfTwo ==
    ASSUME NEW a \in Nat, NEW b \in Nat
    PROVE  Min({a, b}) \in {a, b} /\ Min({a, b}) <= a /\ Min({a, b}) <= b
<1> DEFINE S == {a, b}
<1>1. \E x \in S : \A y \in S : x <= y
  <2>1. a <= b \/ b <= a
    OBVIOUS
  <2>2. QED BY <2>1
<1>2. Min(S) = CHOOSE x \in S : \A y \in S : x <= y
  BY Zenon DEF Min
<1> HIDE DEF S
<1>3. Min(S) \in S /\ \A y \in S : Min(S) <= y
  BY <1>1, <1>2, Zenon
<1>4. QED BY <1>3 DEF S

LEMMA StepBatchBegin == ASSUME EvidenceInd, BatchBegin PROVE EvidenceInd'
<1> DEFINE size  == Min({BatchSize, Len(entries)})
           taken == SubSeq(entries, 1, size)
           left  == SubSeq(entries, size + 1, Len(entries))
<1>1. /\ writing = "idle" /\ entries # <<>> /\ mode \in {"starting", "running", "stopping"}
      /\ batch' = taken /\ entries' = left /\ writing' = "asked" /\ byKey' = FreedKeys(taken)
      /\ UNCHANGED <<mode, next, born, staging, degraded, failures, outbox, stored, applied,
                     dropped, seen, again, evidenceFaults>>
  BY DEF BatchBegin, Due, Up, disk, fate, bounds
<1>2. /\ entries \in Seq(Events) /\ batch = <<>> /\ Len(entries) \in Nat
      /\ Ascending(entries)
  BY <1>1, ElementsOfSeq DEF EvidenceInd, EvidenceTyped, EventsTyped, QueuePhases, QueueInOrder
<1>3. size \in 0 .. Len(entries) /\ size <= BatchSize
  BY <1>2, MinOfTwo, EvidenceConstants
<1>4. /\ taken \in Seq(Events) /\ Len(taken) = size /\ left \in Seq(Events)
      /\ Range(entries) = Range(taken) \cup Range(left)
      /\ Ascending(taken) /\ Ascending(left) /\ InOrder(taken, left)
  BY <1>2, <1>3, CutInOrder
<1> HIDE DEF taken, left, size
<1>5. /\ Range(entries) = Range(batch') \cup Range(entries') /\ Range(batch) = {}
      /\ Ascending(batch') /\ Ascending(entries') /\ InOrder(batch', entries')
      /\ Waiting' = Waiting
  BY <1>1, <1>2, <1>4, NothingInOrder DEF Waiting
<1>6. EvidenceTyped'
  <2>1. EventsTyped'
    BY <1>1, <1>3, <1>4 DEF EvidenceInd, EvidenceTyped, EventsTyped
  <2>2. CountersTyped'
    BY <1>1 DEF EvidenceInd, EvidenceTyped, CountersTyped
  <2>3. KeysTyped'
    BY <1>1 DEF EvidenceInd, EvidenceTyped, CountersTyped, KeysTyped, FreedKeys
  <2>4. QED BY <1>1, <2>1, <2>2, <2>3 DEF EvidenceInd, EvidenceTyped
<1>7. NumbersIdentify'
  <2>1. Known' \subseteq Known
    BY <1>1, <1>5 DEF Known
  <2>2. \A k \in Keys : byKey'[k] \in {0, byKey[k]}
    BY <1>1 DEF FreedKeys
  <2>3. QED BY <1>1, <2>1, <2>2, NothingNew
<1>8. StagedAreNew' /\ OutboxIsNew'
  BY <1>1, <1>5 DEF EvidenceInd, StagedAreNew, OutboxIsNew
<1>9. QueueInOrder'
  BY <1>1, <1>5 DEF EvidenceInd, QueueInOrder
<1>10. AppliedBefore'
  BY <1>1, <1>5 DEF EvidenceInd, AppliedBefore
<1>11. QueuePhases'
  BY <1>1 DEF EvidenceInd, QueuePhases
<1>12. StoredOnce' /\ RunsAfterReplay' /\ PersistBeforeApply'
  BY <1>1 DEF EvidenceInd, StoredOnce, Identity, RunsAfterReplay, PersistBeforeApply
<1>13. QueuedIsKept'
  BY <1>1, <1>5 DEF EvidenceInd, QueuedIsKept
<1>14. NewestHeld'
  BY <1>1, <1>5 DEF EvidenceInd, NewestHeld
<1>15. QED BY <1>6, <1>7, <1>8, <1>9, <1>10, <1>11, <1>12, <1>13, <1>14 DEF EvidenceInd

LEMMA StepBatchCommits == ASSUME EvidenceInd, BatchCommits PROVE EvidenceInd'
<1>1. /\ writing = "asked" /\ writing' = "committed" /\ stored' = stored \o batch
      /\ outbox' = {e \in outbox : e.n \notin Numbers(batch)}
      /\ mode \in {"starting", "running", "stopping"}
      /\ UNCHANGED <<mode, next, born, staging, entries, byKey, batch, degraded, failures,
                     applied, dropped, seen, again, evidenceFaults>>
  BY DEF BatchCommits, MarkedApplied, Up, fate, bounds
<1>2. /\ stored \in Seq(Events) /\ batch \in Seq(Events) /\ entries \in Seq(Events)
      /\ Range(batch) \subseteq Known
      /\ \A e \in Known : e \in Events
      /\ \A a, b \in Known : a.n = b.n => a = b
  BY KnownTyped DEF EvidenceInd, EvidenceTyped, EventsTyped, NumbersIdentify, Known
<1>3. stored' \in Seq(Events) /\ Range(stored') = Range(stored) \cup Range(batch)
  BY <1>1, <1>2, ConcatProperties, RangeConcatenation
<1>4. outbox' = outbox \ Range(batch)
  <2>1. ASSUME NEW e \in outbox PROVE e.n \in Numbers(batch) <=> e \in Range(batch)
    <3>1. e \in Known
      BY DEF Known
    <3>2. QED BY <1>2, <3>1, NumbersOfRange
  <2>2. QED BY <1>1, <2>1
<1>5. /\ Waiting' = Waiting /\ Known' \subseteq Known
      /\ Waiting \cap Range(batch) = {}
  <2>1. Waiting' = Waiting
    BY <1>1 DEF Waiting
  <2>2. ASSUME NEW e \in Waiting PROVE e \notin Range(batch)
    <3>1. e.class = "identity" /\ e \in Events
      BY <1>2 DEF Waiting, EvidenceInd, StagedAreNew, Known
    <3>2. QED BY <3>1, EventFacts DEF EvidenceInd, QueueInOrder
  <2>3. QED BY <1>1, <1>3, <1>4, <2>1, <2>2 DEF Known
<1>6. EvidenceTyped'
  <2>1. EventsTyped'
    BY <1>1, <1>3, <1>4 DEF EvidenceInd, EvidenceTyped, EventsTyped
  <2>2. CountersTyped'
    BY <1>1 DEF EvidenceInd, EvidenceTyped, CountersTyped
  <2>3. KeysTyped'
    BY <1>1 DEF EvidenceInd, EvidenceTyped, KeysTyped
  <2>4. QED BY <1>1, <2>1, <2>2, <2>3 DEF EvidenceInd, EvidenceTyped
<1>7. NumbersIdentify'
  BY <1>1, <1>5, NothingNew
<1>8. StagedAreNew'
  BY <1>1, <1>4, <1>5 DEF EvidenceInd, StagedAreNew, Waiting
<1>9. OutboxIsNew'
  BY <1>3, <1>4, <1>5 DEF EvidenceInd, OutboxIsNew
<1>10. QueueInOrder' /\ AppliedBefore'
  BY <1>1, <1>5 DEF EvidenceInd, QueueInOrder, AppliedBefore
<1>11. QueuePhases'
  BY <1>1, <1>3 DEF EvidenceInd, QueuePhases
<1>12. RunsAfterReplay' /\ PersistBeforeApply'
  BY <1>1, <1>3, <1>4 DEF EvidenceInd, RunsAfterReplay, PersistBeforeApply
<1>13. QueuedIsKept'
  <2>1. ASSUME NEW e \in Range(entries), e.class = "identity"
        PROVE  e \in outbox' \/ (e \in Range(stored') /\ e.n \in again)
    <3>1. e \in outbox \/ (e \in Range(stored) /\ e.n \in again)
      BY <2>1 DEF EvidenceInd, QueuedIsKept
    <3>2. e \notin Range(batch)
      BY <1>2, <2>1, EventFacts DEF EvidenceInd, QueueInOrder, InOrder, Known
    <3>3. QED BY <1>3, <1>4, <3>1, <3>2
  <2>2. QED BY <1>1, <2>1 DEF EvidenceInd, QueuedIsKept
<1>14. NewestHeld'
  BY <1>1, <1>3 DEF EvidenceInd, NewestHeld
<1>15. StoredOnce'
  <2>1. /\ Len(stored') = Len(stored) + Len(batch)
        /\ \A i \in 1 .. Len(stored) + Len(batch) :
              stored'[i] = IF i <= Len(stored) THEN stored[i] ELSE batch[i - Len(stored)]
    BY <1>1, <1>2, ConcatProperties
  <2>2. /\ DOMAIN stored' = 1 .. Len(stored) + Len(batch) /\ Len(stored) \in Nat
        /\ Len(batch) \in Nat
        /\ DOMAIN stored = 1 .. Len(stored) /\ DOMAIN batch = 1 .. Len(batch)
        /\ \A i \in 1 .. Len(stored) : stored[i] \in Range(stored)
        /\ \A i \in 1 .. Len(batch) : batch[i] \in Range(batch)
    BY <1>2, <1>3, <2>1, ElementsOfSeq
  <2>3. \A e \in Range(batch) : e.class = "identity" /\ e \in Range(stored) => e.n \in again
    BY <1>1 DEF EvidenceInd, QueuedIsKept, OutboxIsNew
  <2>4. ASSUME NEW i \in DOMAIN stored', NEW j \in DOMAIN stored', i < j,
               stored'[i].class = "identity", stored'[j].class = "identity",
               stored'[i].n = stored'[j].n
        PROVE  stored'[i].n \in again
    <3>1. CASE j <= Len(stored)
      <4>1. /\ i \in DOMAIN stored /\ j \in DOMAIN stored
            /\ stored'[i] = stored[i] /\ stored'[j] = stored[j]
        BY <2>1, <2>2, <2>4, <3>1
      <4>2. i = j \/ stored[i].n \in again
        BY <2>4, <4>1 DEF EvidenceInd, StoredOnce, Identity
      <4>3. QED BY <2>2, <2>4, <4>1, <4>2
    <3>2. CASE i <= Len(stored) /\ j > Len(stored)
      <4>1. stored'[i] \in Range(stored) /\ stored'[j] \in Range(batch)
        <5>1. i \in 1 .. Len(stored) /\ j - Len(stored) \in 1 .. Len(batch)
          BY <2>2, <2>4, <3>2
        <5>2. stored'[i] = stored[i] /\ stored'[j] = batch[j - Len(stored)]
          BY <2>1, <2>2, <2>4, <3>2
        <5>3. QED BY <2>2, <5>1, <5>2
      <4>2. stored'[i] = stored'[j]
        BY <1>2, <2>4, <4>1 DEF Known
      <4>3. QED BY <2>3, <2>4, <4>1, <4>2
    <3>3. CASE i > Len(stored)
      <4>1. /\ i - Len(stored) \in DOMAIN batch /\ j - Len(stored) \in DOMAIN batch
            /\ stored'[i] = batch[i - Len(stored)] /\ stored'[j] = batch[j - Len(stored)]
            /\ i - Len(stored) < j - Len(stored)
        BY <2>1, <2>2, <2>4, <3>3
      <4>2. stored'[i].n < stored'[j].n
        BY <2>4, <4>1 DEF EvidenceInd, QueueInOrder, Ascending
      <4>3. stored'[i] \in Events
        BY <1>2, <2>2, <4>1
      <4>4. QED BY <2>4, <4>2, <4>3, EventFacts
    <3>4. QED BY <2>2, <2>4, <3>1, <3>2, <3>3
  <2>5. ASSUME NEW i \in DOMAIN stored', NEW j \in DOMAIN stored',
               stored'[i].class = "identity", stored'[j].class = "identity",
               stored'[i].n = stored'[j].n
        PROVE  i = j \/ stored'[i].n \in again
    <3>1. i < j \/ j < i => stored'[i].n \in again
      BY <2>4, <2>5
    <3>2. QED BY <2>2, <3>1
  <2>6. QED BY <1>1, <2>5 DEF StoredOnce, Identity
<1>16. QED
  BY <1>6, <1>7, <1>8, <1>9, <1>10, <1>11, <1>12, <1>13, <1>14, <1>15 DEF EvidenceInd

LEMMA StepBatchDone == ASSUME EvidenceInd, BatchDone PROVE EvidenceInd'
<1>1. /\ writing = "committed" /\ writing' = "idle" /\ batch' = <<>> /\ failures' = 0
      /\ applied' = applied \cup Appliable(batch) /\ degraded' = (degraded /\ ~IsLow)
      /\ mode \in {"starting", "running", "stopping"}
      /\ UNCHANGED <<mode, next, born, staging, entries, byKey, outbox, stored, dropped,
                     seen, again, evidenceFaults>>
  BY DEF BatchDone, Up, disk, bounds
<1>2. /\ Range(batch') = {} /\ batch' \in Seq(Events) /\ Len(batch') = 0 /\ Waiting' = Waiting
      /\ Ascending(batch') /\ InOrder(batch', entries')
  BY <1>1, NothingInOrder DEF Waiting
<1>3. Range(batch) \subseteq Range(stored)
  BY <1>1 DEF EvidenceInd, QueuePhases
<1>4. EvidenceTyped'
  <2>1. EventsTyped'
    BY <1>1, <1>2, EvidenceConstants DEF EvidenceInd, EvidenceTyped, EventsTyped
  <2>2. CountersTyped'
    BY <1>1, EvidenceConstants DEF EvidenceInd, EvidenceTyped, CountersTyped
  <2>3. KeysTyped'
    BY <1>1 DEF EvidenceInd, EvidenceTyped, KeysTyped
  <2>4. degraded' \in BOOLEAN
    BY <1>1
  <2>5. QED BY <2>1, <2>2, <2>3, <2>4 DEF EvidenceTyped
<1>5. NumbersIdentify'
  <2>1. Known' \subseteq Known
    BY <1>1, <1>2 DEF Known
  <2>2. QED BY <1>1, <2>1, NothingNew
<1>6. StagedAreNew' /\ OutboxIsNew'
  BY <1>1, <1>2 DEF EvidenceInd, StagedAreNew, OutboxIsNew
<1>7. QueueInOrder'
  BY <1>1, <1>2 DEF EvidenceInd, QueueInOrder
<1>8. AppliedBefore'
  <2>1. ASSUME NEW f \in Range(batch), NEW e \in Waiting \cup Range(entries),
               e.class = f.class
        PROVE  f.n < e.n
    <3>1. CASE e \in Range(entries)
      BY <2>1, <3>1 DEF EvidenceInd, QueueInOrder, InOrder
    <3>2. CASE e \in Waiting
      <4>1. e.class = "identity"
        BY <3>2 DEF EvidenceInd, StagedAreNew, Waiting
      <4>2. QED BY <2>1, <3>2, <4>1 DEF EvidenceInd, QueueInOrder
    <3>3. QED BY <2>1, <3>1, <3>2
  <2>2. QED BY <1>1, <1>2, <2>1 DEF EvidenceInd, AppliedBefore, Appliable
<1>9. QueuePhases'
  BY <1>1, <1>2 DEF EvidenceInd, QueuePhases
<1>10. StoredOnce' /\ RunsAfterReplay'
  BY <1>1 DEF EvidenceInd, StoredOnce, Identity, RunsAfterReplay
<1>11. PersistBeforeApply'
  BY <1>1, <1>3 DEF EvidenceInd, PersistBeforeApply, Appliable
<1>12. QueuedIsKept'
  BY <1>1, <1>2 DEF EvidenceInd, QueuedIsKept
<1>13. NewestHeld'
  BY <1>1, <1>2, <1>3 DEF EvidenceInd, NewestHeld
<1>14. QED BY <1>4, <1>5, <1>6, <1>7, <1>8, <1>9, <1>10, <1>11, <1>12, <1>13 DEF EvidenceInd

(* The batch goes back, from before its transaction or from behind it.       *)
LEMMA StepTakesBack == ASSUME EvidenceInd, BatchFails \/ PruneFails PROVE EvidenceInd'
<1>1. /\ writing \in {"asked", "committed"}
      /\ writing' = "idle" /\ batch' = <<>> /\ entries' = batch \o entries
      /\ failures' = failures + 1 /\ degraded' = (degraded \/ TRUE)
      /\ evidenceFaults < MaxEvidenceFaults /\ evidenceFaults' = evidenceFaults + 1
      /\ mode \in {"starting", "running", "stopping"}
      /\ again' = IF writing = "asked" THEN again ELSE again \cup Numbers(batch)
      /\ UNCHANGED <<mode, next, born, staging, byKey, outbox, stored, applied, dropped, seen>>
  BY DEF BatchFails, PruneFails, TakeBack, Up, disk, Restored, EvidenceFault, Raised
<1>2. /\ batch \in Seq(Events) /\ entries \in Seq(Events)
      /\ Ascending(batch) /\ Ascending(entries) /\ InOrder(batch, entries)
  BY DEF EvidenceInd, EvidenceTyped, EventsTyped, QueueInOrder
<1>3. /\ entries' \in Seq(Events) /\ Range(entries') = Range(batch) \cup Range(entries)
      /\ Ascending(entries')
  BY <1>1, <1>2, ConcatProperties, RangeConcatenation, ConcatInOrder
<1>4. /\ Range(batch') = {} /\ batch' \in Seq(Events) /\ Len(batch') = 0 /\ Waiting' = Waiting
      /\ Ascending(batch') /\ InOrder(batch', entries')
  BY <1>1, NothingInOrder DEF Waiting
<1>5. EvidenceTyped'
  <2>1. EventsTyped'
    BY <1>1, <1>3, <1>4, EvidenceConstants DEF EvidenceInd, EvidenceTyped, EventsTyped
  <2>2. CountersTyped'
    BY <1>1, EvidenceConstants DEF EvidenceInd, EvidenceTyped, CountersTyped
  <2>3. KeysTyped'
    BY <1>1 DEF EvidenceInd, EvidenceTyped, KeysTyped
  <2>4. degraded' \in BOOLEAN
    BY <1>1
  <2>5. QED BY <2>1, <2>2, <2>3, <2>4 DEF EvidenceTyped
<1>6. NumbersIdentify'
  <2>1. Known' \subseteq Known
    BY <1>1, <1>3, <1>4 DEF Known
  <2>2. QED BY <1>1, <2>1, NothingNew
<1>7. StagedAreNew' /\ OutboxIsNew'
  BY <1>1, <1>4 DEF EvidenceInd, StagedAreNew, OutboxIsNew
<1>8. QueueInOrder'
  BY <1>1, <1>3, <1>4 DEF EvidenceInd, QueueInOrder
<1>9. AppliedBefore'
  BY <1>1, <1>3, <1>4 DEF EvidenceInd, AppliedBefore
<1>10. QueuePhases'
  BY <1>1 DEF EvidenceInd, QueuePhases
<1>11. StoredOnce' /\ RunsAfterReplay' /\ PersistBeforeApply'
  BY <1>1 DEF EvidenceInd, StoredOnce, Identity, RunsAfterReplay, PersistBeforeApply
<1>12. QueuedIsKept'
  <2>1. Range(batch) \subseteq Events /\ Numbers(batch) = {e.n : e \in Range(batch)}
    BY <1>2, ElementsOfSeq, NumbersOfRange
  <2>2. Numbers(batch) \subseteq 1 .. MaxEvents
    BY <2>1 DEF Events
  <2>3. CASE writing = "asked"
    BY <1>1, <1>3, <1>4, <2>3 DEF EvidenceInd, QueuedIsKept
  <2>4. CASE writing = "committed"
    <3>1. \A e \in Range(batch) : e \in Range(stored) /\ e.n \in again'
      BY <1>1, <2>1, <2>4 DEF EvidenceInd, QueuePhases
    <3>2. again' \subseteq 1 .. MaxEvents /\ again \subseteq again'
      BY <1>1, <2>2, <2>4 DEF EvidenceInd, QueuedIsKept
    <3>3. \A e \in Range(entries) : e.class = "identity" =>
              e \in outbox \/ (e \in Range(stored) /\ e.n \in again)
      BY DEF EvidenceInd, QueuedIsKept
    <3>4. QED BY <1>1, <1>3, <1>4, <3>1, <3>2, <3>3 DEF QueuedIsKept
  <2>5. QED BY <1>1, <2>3, <2>4
<1>13. NewestHeld'
  BY <1>1, <1>3, <1>4 DEF EvidenceInd, NewestHeld
<1>14. QED
  BY <1>5, <1>6, <1>7, <1>8, <1>9, <1>10, <1>11, <1>12, <1>13 DEF EvidenceInd

LEMMA StepForgets == ASSUME EvidenceInd, Crash \/ DrainFails \/ Stopped PROVE EvidenceInd'
<1>1. CASE Crash
  BY <1>1, StepCrashLike DEF Crash, disk
<1>2. CASE DrainFails
  BY <1>2, StepCrashLike DEF DrainFails, disk, bounds
<1>3. CASE Stopped
  BY <1>3, StepCrashLike DEF Stopped, bounds, Waiting
<1>4. QED BY <1>1, <1>2, <1>3

LEMMA StepStopAsked == ASSUME EvidenceInd, StopAsked PROVE EvidenceInd'
<1>1. /\ mode = "running" /\ mode' = "stopping"
      /\ UNCHANGED <<next, born, staging, entries, byKey, batch, writing, degraded, failures,
                     outbox, stored, applied, dropped, seen, again, evidenceFaults>>
  BY DEF StopAsked, queue, disk, fate
<1>2. Waiting' = Waiting /\ Known' = Known
  BY <1>1 DEF Waiting, Known
<1>3. EvidenceTyped'
  <2>1. EventsTyped' /\ KeysTyped' /\ degraded' \in BOOLEAN
    BY <1>1 DEF EvidenceInd, EvidenceTyped, EventsTyped, KeysTyped
  <2>2. CountersTyped'
    BY <1>1 DEF EvidenceInd, EvidenceTyped, CountersTyped
  <2>3. QED BY <2>1, <2>2 DEF EvidenceTyped
<1>4. /\ NumbersIdentify' /\ StagedAreNew' /\ QueueInOrder' /\ AppliedBefore' /\ OutboxIsNew'
      /\ StoredOnce' /\ PersistBeforeApply' /\ QueuedIsKept'
  BY <1>1, <1>2 DEF EvidenceInd, NumbersIdentify, StagedAreNew, QueueInOrder, AppliedBefore,
                    OutboxIsNew, StoredOnce, Identity, PersistBeforeApply, QueuedIsKept
<1>5. RunsAfterReplay' /\ QueuePhases' /\ NewestHeld'
  BY <1>1 DEF EvidenceInd, RunsAfterReplay, QueuePhases, NewestHeld
<1>6. QED BY <1>3, <1>4, <1>5 DEF EvidenceInd

LEMMA StepStart == ASSUME EvidenceInd, Start PROVE EvidenceInd'
<1>1. /\ mode = "down" /\ mode' = "starting" /\ born' = next
      /\ UNCHANGED <<next, staging, entries, byKey, batch, writing, degraded, failures,
                     outbox, stored, applied, dropped, seen, again, evidenceFaults>>
  BY DEF Start, queue, disk, fate, bounds
<1>2. /\ staging = <<>> /\ entries = <<>> /\ batch = <<>>
      /\ next \in Nat /\ \A k \in Keys : seen[k] \in 0 .. next
  BY <1>1, EvidenceConstants DEF EvidenceInd, QueuePhases, EvidenceTyped, CountersTyped, KeysTyped
<1>3. /\ Waiting' = Waiting /\ Known' = Known /\ Waiting = {} /\ DOMAIN staging' = {}
      /\ Range(entries) = {} /\ Range(batch) = {}
  BY <1>1, <1>2, NothingInOrder DEF Waiting, Known, Range
<1>4. EvidenceTyped'
  <2>1. EventsTyped' /\ KeysTyped' /\ degraded' \in BOOLEAN
    BY <1>1 DEF EvidenceInd, EvidenceTyped, EventsTyped, KeysTyped
  <2>2. CountersTyped'
    BY <1>1, <1>2 DEF EvidenceInd, EvidenceTyped, CountersTyped
  <2>3. QED BY <2>1, <2>2 DEF EvidenceTyped
<1>5. /\ NumbersIdentify' /\ QueueInOrder' /\ OutboxIsNew'
      /\ StoredOnce' /\ PersistBeforeApply' /\ QueuedIsKept'
  BY <1>1, <1>3 DEF EvidenceInd, NumbersIdentify, QueueInOrder,
                    OutboxIsNew, StoredOnce, Identity, PersistBeforeApply, QueuedIsKept
<1>6. StagedAreNew' /\ AppliedBefore'
  BY <1>1, <1>3 DEF StagedAreNew, AppliedBefore
<1>7. RunsAfterReplay' /\ QueuePhases'
  BY <1>1, <1>2 DEF EvidenceInd, RunsAfterReplay, QueuePhases
<1>8. NewestHeld'
  BY <1>1, <1>2 DEF NewestHeld
<1>9. QED BY <1>4, <1>5, <1>6, <1>7, <1>8 DEF EvidenceInd

LEMMA StepReplay == ASSUME EvidenceInd, Replay PROVE EvidenceInd'
<1>1. /\ mode = "starting" /\ entries = <<>> /\ writing = "idle"
      /\ UNCHANGED <<next, born, staging, byKey, batch, writing, failures, outbox, stored,
                     applied, dropped, seen, again, evidenceFaults>>
  BY DEF Replay, disk, fate, bounds
<1>2. /\ staging = <<>> /\ batch = <<>> /\ next = born /\ outbox \subseteq Events
  BY <1>1 DEF EvidenceInd, QueuePhases, EvidenceTyped, EventsTyped
<1>3. /\ Waiting' = Waiting /\ Waiting = {} /\ DOMAIN staging' = {} /\ DOMAIN staging = {}
      /\ Range(entries) = {} /\ Range(batch) = {}
      /\ Ascending(batch') /\ InOrder(batch', entries')
  BY <1>1, <1>2, NothingInOrder DEF Waiting, Range
<1>4. /\ entries' \in Seq(Events) /\ Range(entries') \subseteq outbox /\ Ascending(entries')
      /\ degraded' \in BOOLEAN
      /\ mode' \in {"starting", "running"} /\ (mode' = "running" => outbox = {})
  <2>1. CASE NoneLeft
    <3>1. entries' = <<>> /\ mode' = "running" /\ outbox = {} /\ degraded' = degraded
      BY <1>1, <2>1 DEF Replay, NoneLeft
    <3>2. entries' \in Seq(Events) /\ Range(entries') = {} /\ Ascending(entries')
      BY <3>1, NothingInOrder
    <3>3. QED BY <3>1, <3>2 DEF EvidenceInd, EvidenceTyped
  <2>2. CASE ~NoneLeft
    <3>1. PICK size \in 1 .. LoadLimit : \E rows \in [1 .. size -> outbox] :
              Oldest(rows) /\ entries' = rows /\ degraded' = Raised(size >= HighWater)
      BY <2>2 DEF Replay
    <3>2. PICK rows \in [1 .. size -> outbox] :
              Oldest(rows) /\ entries' = rows /\ degraded' = Raised(size >= HighWater)
      BY <3>1
    <3>3. rows \in [1 .. size -> Events] /\ size \in Nat
      BY <1>2, <3>2, EvidenceConstants
    <3>4. rows \in Seq(Events)
      BY <3>3
    <3>5. Range(rows) \subseteq outbox /\ Ascending(rows)
      BY <3>2 DEF Range, Ascending, Oldest
    <3>6. degraded' \in BOOLEAN
      BY <3>2 DEF Raised, EvidenceInd, EvidenceTyped
    <3>7. mode' = mode
      BY <2>2 DEF Replay
    <3>8. QED BY <1>1, <3>2, <3>4, <3>5, <3>6, <3>7
  <2>3. QED BY <2>1, <2>2
<1>5. EvidenceTyped'
  <2>1. EventsTyped'
    BY <1>1, <1>4 DEF EvidenceInd, EvidenceTyped, EventsTyped
  <2>2. CountersTyped'
    BY <1>1, <1>4 DEF EvidenceInd, EvidenceTyped, CountersTyped
  <2>3. KeysTyped'
    BY <1>1 DEF EvidenceInd, EvidenceTyped, KeysTyped
  <2>4. QED BY <1>4, <2>1, <2>2, <2>3 DEF EvidenceTyped
<1>6. NumbersIdentify'
  <2>1. Known' \subseteq Known
    BY <1>1, <1>3, <1>4 DEF Known
  <2>2. QED BY <1>1, <2>1, NothingNew
<1>7. StagedAreNew' /\ OutboxIsNew'
  BY <1>1, <1>3 DEF EvidenceInd, StagedAreNew, OutboxIsNew
<1>8. QueueInOrder'
  BY <1>1, <1>3, <1>4 DEF EvidenceInd, QueueInOrder
<1>9. AppliedBefore'
  <2>1. \A e \in outbox : e.n <= next /\ e.n \in Nat /\ next \in Nat
    BY <1>2, EventFacts, EvidenceConstants
       DEF EvidenceInd, NumbersIdentify, Known, EvidenceTyped, CountersTyped
  <2>2. QED BY <1>1, <1>2, <1>3, <1>4, <2>1 DEF AppliedBefore
<1>10. QueuePhases'
  BY <1>1, <1>2, <1>4 DEF EvidenceInd, QueuePhases
<1>11. StoredOnce' /\ PersistBeforeApply'
  BY <1>1 DEF EvidenceInd, StoredOnce, Identity, PersistBeforeApply
<1>12. RunsAfterReplay'
  BY <1>1, <1>4 DEF RunsAfterReplay
<1>13. QueuedIsKept'
  <2>1. Range(batch') = {} /\ again' \subseteq 1 .. MaxEvents
    BY <1>1, <1>2, <1>3 DEF EvidenceInd, QueuedIsKept
  <2>2. QED BY <1>1, <1>4, <2>1 DEF QueuedIsKept
<1>14. NewestHeld'
  BY <1>1, <1>3, <1>4 DEF EvidenceInd, NewestHeld
<1>15. QED
  BY <1>5, <1>6, <1>7, <1>8, <1>9, <1>10, <1>11, <1>12, <1>13, <1>14 DEF EvidenceInd

LEMMA WaitingFacts ==
    ASSUME EvidenceInd
    PROVE  /\ staging \in Seq(Row) /\ DOMAIN staging = 1 .. Len(staging) /\ Len(staging) \in Nat
           /\ \A i \in DOMAIN staging : /\ staging[i] \in Row /\ staging[i].e \in Waiting
                                        /\ staging[i].e \in Events /\ staging[i].e \in Known
           /\ \A e \in Waiting : e \in Events /\ e.class = "identity" /\ e.n > born
<1>1. staging \in Seq(Row)
  BY DEF EvidenceInd, EvidenceTyped, EventsTyped
<1>2. DOMAIN staging = 1 .. Len(staging) /\ Len(staging) \in Nat
  BY <1>1, ElementsOfSeq
<1>3. \A i \in DOMAIN staging : staging[i] \in Row
  BY <1>1, <1>2, ElementOfSeq
<1>4. \A e \in Waiting : e \in Events /\ e.class = "identity" /\ e.n > born
  BY <1>3 DEF Waiting, Row, EvidenceInd, StagedAreNew
<1>5. QED BY <1>1, <1>2, <1>3, <1>4 DEF Waiting, Known

(* The oldest staged event leaves the line of stageTail.                     *)
LEMMA OldestStaged ==
    ASSUME EvidenceInd, staging # <<>>, staging' = Tail(staging)
    PROVE  LET h == Head(staging).e IN
           /\ h \in Waiting /\ h \in Events /\ h.class = "identity" /\ h.n > born
           /\ Head(staging).row => h \in outbox
           /\ staging' \in Seq(Row) /\ Waiting' \subseteq Waiting
           /\ \A w \in Waiting' : h.n < w.n
           /\ \A i \in DOMAIN staging' : \E j \in DOMAIN staging : staging'[i] = staging[j]
           /\ \A i, j \in DOMAIN staging' : i < j => staging'[i].e.n < staging'[j].e.n
<1> DEFINE h == Head(staging).e
<1>1. /\ staging' \in Seq(Row) /\ Len(staging') = Len(staging) - 1
      /\ \A i \in 1 .. Len(staging') : staging'[i] = staging[i + 1]
  BY WaitingFacts, HeadTailProperties
<1>2. DOMAIN staging' = 1 .. Len(staging) - 1 /\ DOMAIN staging = 1 .. Len(staging)
      /\ Len(staging) \in Nat
  BY <1>1, WaitingFacts, ElementsOfSeq
<1>3. 1 \in DOMAIN staging /\ Head(staging) = staging[1]
  <2>1. Len(staging) # 0
    BY WaitingFacts, EmptySeq
  <2>2. 1 \in DOMAIN staging
    BY <1>2, <2>1
  <2>3. Head(staging) = staging[1]
    BY WaitingFacts
  <2>4. QED BY <2>2, <2>3
<1>4. \A i \in DOMAIN staging' : i + 1 \in DOMAIN staging /\ staging'[i] = staging[i + 1]
  BY <1>1, <1>2
<1>5. /\ \A i \in DOMAIN staging' : \E j \in DOMAIN staging : staging'[i] = staging[j]
      /\ Waiting' \subseteq Waiting
  BY <1>4 DEF Waiting
<1>6. /\ \A i, j \in DOMAIN staging' : i < j => staging'[i].e.n < staging'[j].e.n
      /\ \A i \in DOMAIN staging' : staging[1].e.n < staging'[i].e.n
  <2>1. \A i, j \in DOMAIN staging : i < j => staging[i].e.n < staging[j].e.n
    BY DEF EvidenceInd, QueueInOrder
  <2>2. ASSUME NEW i \in DOMAIN staging', NEW j \in DOMAIN staging', i < j
        PROVE  staging'[i].e.n < staging'[j].e.n
    <3>1. i + 1 \in DOMAIN staging /\ j + 1 \in DOMAIN staging /\ i + 1 < j + 1
      BY <1>2, <1>4, <2>2
    <3>2. QED BY <1>4, <2>1, <3>1
  <2>3. ASSUME NEW i \in DOMAIN staging' PROVE staging[1].e.n < staging'[i].e.n
    <3>1. i + 1 \in DOMAIN staging /\ 1 < i + 1
      BY <1>2, <1>4
    <3>2. QED BY <1>3, <1>4, <2>1, <3>1
  <2>4. QED BY <2>2, <2>3
<1>7. \A w \in Waiting' : h.n < w.n
  BY <1>3, <1>6 DEF Waiting
<1>8. h \in Waiting /\ h \in Events /\ h.class = "identity" /\ h.n > born
      /\ (Head(staging).row => h \in outbox)
  BY <1>3, WaitingFacts DEF EvidenceInd, StagedAreNew
<1>9. QED BY <1>1, <1>5, <1>6, <1>7, <1>8

LEMMA EnqueueIdentity ==
    ASSUME EvidenceTyped, NEW e \in Events, e.class = "identity", Enqueue(e)
    PROVE  /\ entries' \in {entries, Append(entries, e)}
           /\ degraded' \in BOOLEAN /\ UNCHANGED <<byKey, dropped, seen>>
BY DEF Enqueue, Raised, EvidenceTyped

LEMMA StepStageCommits == ASSUME EvidenceInd, StageCommits PROVE EvidenceInd'
<1>1. PICK i \in DOMAIN staging :
          /\ ~staging[i].row
          /\ staging' = [staging EXCEPT ![i].row = TRUE]
          /\ outbox' = outbox \cup {staging[i].e}
  BY DEF StageCommits
<1>2. /\ mode \in {"starting", "running", "stopping"}
      /\ UNCHANGED <<mode, next, born, entries, byKey, batch, writing, degraded, failures,
                     stored, applied, dropped, seen, again, evidenceFaults>>
  BY DEF StageCommits, Up, fate, bounds
<1>3. /\ staging' \in Seq(Row) /\ DOMAIN staging' = DOMAIN staging
      /\ \A j \in DOMAIN staging : staging'[j].e = staging[j].e
      /\ \A j \in DOMAIN staging : j # i => staging'[j] = staging[j]
      /\ staging[i].e \in Waiting /\ staging[i].e \in Events /\ staging[i].e.n > born
  <2>1. [staging[i] EXCEPT !.row = TRUE] \in Row
    BY WaitingFacts DEF Row
  <2>2. staging' = [staging EXCEPT ![i] = [staging[i] EXCEPT !.row = TRUE]]
    BY <1>1
  <2>3. staging' \in Seq(Row)
    BY <2>1, <2>2, WaitingFacts, ExceptSeq
  <2>4. /\ DOMAIN staging' = DOMAIN staging
        /\ \A j \in DOMAIN staging : j # i => staging'[j] = staging[j]
        /\ staging'[i] = [staging[i] EXCEPT !.row = TRUE]
    BY <2>2
  <2>5. staging'[i].e = staging[i].e
    BY <2>4, WaitingFacts DEF Row
  <2>6. QED BY <2>3, <2>4, <2>5, WaitingFacts
<1>4. Waiting' = Waiting
  BY <1>3 DEF Waiting
<1>5. Known' \subseteq Known
  BY <1>1, <1>2, <1>3, <1>4 DEF Known
<1>6. EvidenceTyped'
  <2>1. EventsTyped'
    BY <1>1, <1>2, <1>3 DEF EvidenceInd, EvidenceTyped, EventsTyped
  <2>2. CountersTyped'
    BY <1>2 DEF EvidenceInd, EvidenceTyped, CountersTyped
  <2>3. KeysTyped' /\ degraded' \in BOOLEAN
    BY <1>2 DEF EvidenceInd, EvidenceTyped, KeysTyped
  <2>4. QED BY <2>1, <2>2, <2>3 DEF EvidenceTyped
<1>7. NumbersIdentify'
  BY <1>2, <1>5, NothingNew
<1>8. StagedAreNew'
  BY <1>1, <1>2, <1>3 DEF EvidenceInd, StagedAreNew
<1>9. OutboxIsNew'
  BY <1>1, <1>2, <1>3, <1>4 DEF EvidenceInd, OutboxIsNew
<1>10. QueueInOrder'
  BY <1>2, <1>3, <1>4 DEF EvidenceInd, QueueInOrder
<1>11. AppliedBefore'
  BY <1>2, <1>4 DEF EvidenceInd, AppliedBefore
<1>12. QueuePhases'
  <2>1. mode' \in {"down", "starting"} => staging' = <<>>
    <3>1. ASSUME mode \in {"down", "starting"} PROVE FALSE
      <4>1. staging = <<>>
        BY <3>1 DEF EvidenceInd, QueuePhases
      <4>2. DOMAIN staging = {}
        BY <4>1
      <4>3. QED BY <4>2
    <3>2. QED BY <1>2, <3>1
  <2>2. QED BY <1>2, <2>1 DEF EvidenceInd, QueuePhases
<1>13. RunsAfterReplay'
  BY <1>1, <1>2, <1>3 DEF EvidenceInd, RunsAfterReplay
<1>14. StoredOnce' /\ PersistBeforeApply' /\ QueuedIsKept'
  BY <1>1, <1>2 DEF EvidenceInd, StoredOnce, Identity, PersistBeforeApply, QueuedIsKept
<1>15. NewestHeld'
  BY <1>2 DEF EvidenceInd, NewestHeld
<1>16. QED BY <1>6, <1>7, <1>8, <1>9, <1>10, <1>11, <1>12, <1>13, <1>14, <1>15 DEF EvidenceInd

LEMMA StepStageFails == ASSUME EvidenceInd, StageFails PROVE EvidenceInd'
<1> DEFINE h == Head(staging).e
<1>1. /\ staging # <<>> /\ staging' = Tail(staging) /\ dropped' = dropped \cup {h}
      /\ evidenceFaults < MaxEvidenceFaults /\ evidenceFaults' = evidenceFaults + 1
      /\ UNCHANGED <<mode, next, born, entries, byKey, batch, writing, degraded, failures,
                     outbox, stored, applied, seen, again>>
  BY DEF StageFails, EvidenceFault, disk
<1>2. /\ h \in Waiting /\ h \in Events
      /\ staging' \in Seq(Row) /\ Waiting' \subseteq Waiting
      /\ \A i \in DOMAIN staging' : \E j \in DOMAIN staging : staging'[i] = staging[j]
      /\ \A i, j \in DOMAIN staging' : i < j => staging'[i].e.n < staging'[j].e.n
  BY <1>1, OldestStaged
<1> HIDE DEF h
<1>3. EvidenceTyped'
  <2>1. EventsTyped'
    BY <1>1, <1>2 DEF EvidenceInd, EvidenceTyped, EventsTyped
  <2>2. CountersTyped'
    BY <1>1, EvidenceConstants DEF EvidenceInd, EvidenceTyped, CountersTyped
  <2>3. KeysTyped' /\ degraded' \in BOOLEAN
    BY <1>1 DEF EvidenceInd, EvidenceTyped, KeysTyped
  <2>4. QED BY <2>1, <2>2, <2>3 DEF EvidenceTyped
<1>4. NumbersIdentify'
  <2>1. Known' \subseteq Known
    BY <1>1, <1>2 DEF Known
  <2>2. QED BY <1>1, <2>1, NothingNew
<1>5. StagedAreNew'
  BY <1>1, <1>2 DEF EvidenceInd, StagedAreNew
<1>6. OutboxIsNew' /\ AppliedBefore'
  BY <1>1, <1>2 DEF EvidenceInd, OutboxIsNew, AppliedBefore
<1>7. QueueInOrder'
  BY <1>1, <1>2 DEF EvidenceInd, QueueInOrder
<1>8. QueuePhases'
  BY <1>1 DEF EvidenceInd, QueuePhases
<1>9. RunsAfterReplay' /\ StoredOnce' /\ PersistBeforeApply' /\ QueuedIsKept' /\ NewestHeld'
  BY <1>1 DEF EvidenceInd, RunsAfterReplay, StoredOnce, Identity, PersistBeforeApply,
              QueuedIsKept, NewestHeld
<1>10. QED BY <1>3, <1>4, <1>5, <1>6, <1>7, <1>8, <1>9 DEF EvidenceInd

LEMMA StepStageDone == ASSUME EvidenceInd, StageDone PROVE EvidenceInd'
<1> DEFINE h == Head(staging).e
<1>1. /\ staging # <<>> /\ Head(staging).row /\ staging' = Tail(staging) /\ Enqueue(h)
      /\ mode \in {"starting", "running", "stopping"}
      /\ UNCHANGED <<mode, next, born, batch, writing, failures, outbox, stored, applied, again,
                     evidenceFaults>>
  BY DEF StageDone, Staged, Up, disk, bounds
<1>2. /\ h \in Waiting /\ h \in Events /\ h.class = "identity" /\ h \in outbox
      /\ staging' \in Seq(Row) /\ Waiting' \subseteq Waiting
      /\ \A w \in Waiting' : h.n < w.n
      /\ \A i \in DOMAIN staging' : \E j \in DOMAIN staging : staging'[i] = staging[j]
      /\ \A i, j \in DOMAIN staging' : i < j => staging'[i].e.n < staging'[j].e.n
  BY <1>1, OldestStaged
<1> HIDE DEF h
<1>3. /\ entries' \in {entries, Append(entries, h)}
      /\ degraded' \in BOOLEAN /\ UNCHANGED <<byKey, dropped, seen>>
  BY <1>1, <1>2, EnqueueIdentity DEF EvidenceInd
<1>4. /\ entries \in Seq(Events) /\ Ascending(entries)
      /\ \A e \in Range(entries) \cup Range(batch) : e.class = "identity" => e.n < h.n
  BY <1>2 DEF EvidenceInd, EvidenceTyped, EventsTyped, QueueInOrder
<1>5. /\ entries' \in Seq(Events) /\ Ascending(entries')
      /\ Range(entries) \subseteq Range(entries') /\ Range(entries') \subseteq Range(entries) \cup {h}
  <2>1. CASE entries' = entries
    BY <1>4, <2>1
  <2>2. CASE entries' = Append(entries, h)
    BY <1>2, <1>4, <2>2, AppendOfSeq, AppendInOrder
  <2>3. QED BY <1>3, <2>1, <2>2
<1>6. EvidenceTyped'
  <2>1. EventsTyped'
    BY <1>1, <1>2, <1>3, <1>5 DEF EvidenceInd, EvidenceTyped, EventsTyped
  <2>2. CountersTyped'
    BY <1>1 DEF EvidenceInd, EvidenceTyped, CountersTyped
  <2>3. KeysTyped'
    BY <1>1, <1>3 DEF EvidenceInd, EvidenceTyped, KeysTyped
  <2>4. QED BY <1>3, <2>1, <2>2, <2>3 DEF EvidenceTyped
<1>7. NumbersIdentify'
  <2>1. Known' \subseteq Known
    BY <1>1, <1>2, <1>5 DEF Known
  <2>2. QED BY <1>1, <1>3, <2>1, NothingNew
<1>8. StagedAreNew'
  BY <1>1, <1>2 DEF EvidenceInd, StagedAreNew
<1>9. OutboxIsNew'
  BY <1>1, <1>2 DEF EvidenceInd, OutboxIsNew
<1>10. QueueInOrder'
  <2>1. InOrder(batch', entries')
    BY <1>1, <1>2, <1>4, <1>5 DEF EvidenceInd, QueueInOrder, InOrder
  <2>2. \A e \in Range(entries') \cup Range(batch'), w \in Waiting' :
            e.class = "identity" => e.n < w.n
    BY <1>1, <1>2, <1>5 DEF EvidenceInd, QueueInOrder
  <2>3. QED BY <1>1, <1>2, <1>5, <2>1, <2>2 DEF EvidenceInd, QueueInOrder
<1>11. AppliedBefore'
  BY <1>1, <1>2, <1>5 DEF EvidenceInd, AppliedBefore
<1>12. QueuePhases'
  <2>1. mode \notin {"down", "starting"}
    BY <1>1 DEF EvidenceInd, QueuePhases
  <2>2. QED BY <1>1, <2>1 DEF EvidenceInd, QueuePhases
<1>13. RunsAfterReplay' /\ StoredOnce' /\ PersistBeforeApply'
  BY <1>1 DEF EvidenceInd, RunsAfterReplay, StoredOnce, Identity, PersistBeforeApply
<1>14. QueuedIsKept'
  BY <1>1, <1>2, <1>5 DEF EvidenceInd, QueuedIsKept
<1>15. NewestHeld'
  BY <1>1, <1>3, <1>5 DEF EvidenceInd, NewestHeld
<1>16. QED
  BY <1>6, <1>7, <1>8, <1>9, <1>10, <1>11, <1>12, <1>13, <1>14, <1>15 DEF EvidenceInd

(* A new event has the next number: nothing known has it.                    *)
LEMMA SomethingNew ==
    ASSUME EvidenceInd, NEW e \in Events, e.n = next + 1, next' = next + 1,
           Known' \subseteq Known \cup {e},
           \A k \in Keys : \/ byKey'[k] \in {0, byKey[k]}
                           \/ byKey'[k] = e.n /\ e.key = k,
           \A k \in Keys : seen'[k] = seen[k] \/ (seen'[k] = e.n /\ e.key = k)
    PROVE  NumbersIdentify'
<1>1. /\ next \in Nat
      /\ \A a \in Known : a.n \in Nat /\ a.n # 0 /\ a.n <= next
      /\ \A k \in Keys : byKey[k] \in 0 .. next /\ seen[k] \in 0 .. next
  BY KnownTyped, EventFacts, EvidenceConstants
     DEF EvidenceInd, EvidenceTyped, CountersTyped, KeysTyped, NumbersIdentify
<1>2. \A a \in Known' : a.n <= next'
  BY <1>1
<1>3. \A a, b \in Known' : a.n = b.n => a = b
  BY <1>1 DEF EvidenceInd, NumbersIdentify
<1>4. ASSUME NEW a \in Known', NEW k \in Keys, a.n \in {byKey'[k], seen'[k]} PROVE a.key = k
  <2>1. CASE a = e
    BY <1>1, <1>4, <2>1
  <2>2. CASE a \in Known
    BY <1>1, <1>4, <2>2 DEF EvidenceInd, NumbersIdentify
  <2>3. QED BY <2>1, <2>2
<1>5. QED BY <1>2, <1>3, <1>4 DEF NumbersIdentify

LEMMA NewNumber ==
    ASSUME EvidenceInd, next < MaxEvents
    PROVE  /\ next \in Nat /\ next + 1 \in 1 .. MaxEvents /\ born \in Nat /\ born <= next
           /\ \A a \in Known \cup applied : a.n \in Nat /\ a.n < next + 1
           /\ \A k \in Keys : byKey[k] \in 0 .. next /\ seen[k] \in 0 .. next
<1>1. next \in Nat /\ next + 1 \in 1 .. MaxEvents /\ born \in Nat /\ born <= next
  BY EvidenceConstants DEF EvidenceInd, EvidenceTyped, CountersTyped
<1>2. \A a \in Known : a.n \in Nat /\ a.n < next + 1
  BY <1>1, KnownTyped, EventFacts DEF EvidenceInd, NumbersIdentify
<1>3. applied \subseteq Known
  BY DEF EvidenceInd, PersistBeforeApply, Known
<1>4. QED BY <1>1, <1>2, <1>3 DEF EvidenceInd, EvidenceTyped, KeysTyped

LEMMA EnqueueMarket ==
    ASSUME EvidenceTyped, NEW e \in Events, e.class = "market", Enqueue(e)
    PROVE  LET old  == Superseded(e)
               rest == Unsuperseded(old) IN
           /\ \/ /\ entries' = rest /\ dropped' = dropped \cup {e} /\ seen' = seen
                 /\ byKey' \in {byKey, [byKey EXCEPT ![e.key] = 0]}
              \/ /\ entries' = Append(rest, e) /\ dropped' = dropped
                 /\ \/ e.key = NoKey /\ seen' = seen /\ byKey' = byKey
                    \/ /\ e.key \in Keys /\ seen' = [seen EXCEPT ![e.key] = e.n]
                       /\ byKey' = [byKey EXCEPT ![e.key] = e.n]
           /\ degraded' \in BOOLEAN
<1> DEFINE old  == Superseded(e)
           rest == Unsuperseded(old)
           full == Len(rest) >= HighWater
<1>1. /\ entries' = IF full THEN rest ELSE Append(rest, e)
      /\ dropped' = IF full THEN dropped \cup {e} ELSE dropped
      /\ seen' = IF full \/ e.key = NoKey THEN seen ELSE [seen EXCEPT ![e.key] = e.n]
      /\ degraded' = Raised(Len(rest) + 1 >= HighWater)
      /\ byKey' = IF e.key = NoKey THEN byKey
                  ELSE [byKey EXCEPT ![e.key] =
                           IF ~full THEN e.n ELSE IF old # 0 THEN 0 ELSE @]
  BY DEF Enqueue
<1> HIDE DEF rest, old, full
<1>2. degraded' \in BOOLEAN
  BY <1>1 DEF Raised, EvidenceTyped
<1>3. CASE ~full
  <2>1. e.key = NoKey \/ e.key \in Keys
    BY EventFacts
  <2>2. QED BY <1>1, <1>2, <1>3, <2>1, KeysAssumption DEF rest, old
<1>4. CASE full
  <2>1. \/ byKey' = byKey
        \/ byKey' = [byKey EXCEPT ![e.key] = 0]
        \/ byKey' = [byKey EXCEPT ![e.key] = byKey[e.key]]
    BY <1>1, <1>4
  <2>2. [byKey EXCEPT ![e.key] = byKey[e.key]] = byKey
    BY DEF EvidenceTyped, KeysTyped
  <2>3. entries' = rest /\ dropped' = dropped \cup {e} /\ seen' = seen
    BY <1>1, <1>4
  <2>4. QED BY <1>2, <2>1, <2>2, <2>3 DEF rest, old
<1>5. QED BY <1>3, <1>4

(* A hub's event of the account: it is staged.                              *)
LEMMA StepSubmitIdentity ==
    ASSUME EvidenceInd, next < MaxEvents, next' = next + 1, mode \in {"running", "stopping"},
           NEW e \in Events, e.n = next + 1, e.class = "identity",
           staging' = Append(staging, [e |-> e, row |-> FALSE]),
           UNCHANGED <<mode, born, entries, byKey, batch, writing, degraded, failures,
                       disk, fate, evidenceFaults>>
    PROVE  EvidenceInd'
<1> DEFINE s == [e |-> e, row |-> FALSE]
<1>1. UNCHANGED <<outbox, stored, applied, dropped, seen, again>>
  BY DEF disk, fate
<1>2. /\ s \in Row /\ s.e = e /\ s.row = FALSE
  BY DEF Row
<1> HIDE DEF s
<1>3. /\ staging' \in Seq(Row) /\ DOMAIN staging' = 1 .. Len(staging) + 1
      /\ \A i \in 1 .. Len(staging) : staging'[i] = staging[i]
      /\ staging'[Len(staging) + 1] = s
      /\ DOMAIN staging = 1 .. Len(staging) /\ Len(staging) \in Nat
      /\ staging' = Append(staging, s)
  <2>1. staging' = Append(staging, s)
    BY DEF s
  <2>2. /\ staging' \in Seq(Row) /\ Len(staging') = Len(staging) + 1
        /\ \A i \in 1 .. Len(staging) : staging'[i] = staging[i]
        /\ staging'[Len(staging) + 1] = s
    BY <1>2, <2>1, WaitingFacts, AppendOfSeq
  <2>3. QED BY <2>1, <2>2, WaitingFacts, ElementsOfSeq
<1>4. Waiting' = Waiting \cup {e}
  <2>1. DOMAIN staging' = DOMAIN staging \cup {Len(staging) + 1}
    BY <1>3
  <2>2. QED BY <1>2, <1>3, <2>1 DEF Waiting
<1>5. /\ next \in Nat /\ next + 1 \in 1 .. MaxEvents /\ born \in Nat /\ born <= next
      /\ \A a \in Known \cup applied : a.n \in Nat /\ a.n < e.n
  BY NewNumber
<1>6. EvidenceTyped'
  <2>1. EventsTyped'
    BY <1>1, <1>3 DEF EvidenceInd, EvidenceTyped, EventsTyped
  <2>2. CountersTyped'
    BY <1>1, <1>5 DEF EvidenceInd, EvidenceTyped, CountersTyped
  <2>3. KeysTyped'
    BY <1>1, <1>5 DEF EvidenceInd, EvidenceTyped, KeysTyped
  <2>4. QED BY <2>1, <2>2, <2>3 DEF EvidenceInd, EvidenceTyped
<1>7. NumbersIdentify'
  <2>1. Known' \subseteq Known \cup {e}
    BY <1>1, <1>4 DEF Known
  <2>2. QED BY <1>1, <2>1, SomethingNew
<1>8. StagedAreNew'
  <2>1. e.n > born
    BY <1>5
  <2>2. ASSUME NEW i \in DOMAIN staging'
        PROVE  /\ staging'[i].e.class = "identity" /\ staging'[i].e.n > born'
               /\ staging'[i].row => staging'[i].e \in outbox'
    <3>1. CASE i \in DOMAIN staging
      BY <1>1, <1>3, <3>1 DEF EvidenceInd, StagedAreNew
    <3>2. CASE i = Len(staging) + 1
      BY <1>1, <1>2, <1>3, <2>1, <3>2
    <3>3. QED BY <1>3, <3>1, <3>2
  <2>3. QED BY <2>2 DEF StagedAreNew
<1>9. OutboxIsNew'
  <2>1. e \notin Range(stored)
    BY <1>5 DEF Known
  <2>2. QED BY <1>1, <1>4, <2>1 DEF EvidenceInd, OutboxIsNew
<1>10. QueueInOrder'
  <2>1. ASSUME NEW i \in DOMAIN staging', NEW j \in DOMAIN staging', i < j
        PROVE  staging'[i].e.n < staging'[j].e.n
    <3>1. i \in DOMAIN staging /\ staging'[i] = staging[i] /\ staging[i].e \in Known
      BY <1>3, <2>1, WaitingFacts
    <3>2. CASE j \in DOMAIN staging
      BY <1>3, <2>1, <3>1, <3>2 DEF EvidenceInd, QueueInOrder
    <3>3. CASE j = Len(staging) + 1
      BY <1>2, <1>3, <1>5, <3>1, <3>3
    <3>4. QED BY <1>3, <3>2, <3>3
  <2>2. \A f \in Range(entries) \cup Range(batch) : f.n < e.n
    BY <1>5 DEF Known
  <2>3. QED BY <1>1, <1>4, <2>1, <2>2 DEF EvidenceInd, QueueInOrder
<1>11. AppliedBefore'
  BY <1>1, <1>4, <1>5 DEF EvidenceInd, AppliedBefore
<1>12. QueuePhases'
  BY <1>1 DEF EvidenceInd, QueuePhases
<1>13. RunsAfterReplay' /\ StoredOnce' /\ PersistBeforeApply' /\ QueuedIsKept' /\ NewestHeld'
  BY <1>1 DEF EvidenceInd, RunsAfterReplay, StoredOnce, Identity, PersistBeforeApply,
              QueuedIsKept, NewestHeld
<1>14. QED BY <1>6, <1>7, <1>8, <1>9, <1>10, <1>11, <1>12, <1>13 DEF EvidenceInd

(* A quote, a level of the depth or a print: queued, coalesced or dropped.   *)
LEMMA StepSubmitMarket ==
    ASSUME EvidenceInd, next < MaxEvents, next' = next + 1, mode \in {"running", "stopping"},
           NEW e \in Events, e.n = next + 1, e.class = "market", Enqueue(e),
           UNCHANGED <<mode, born, staging, batch, writing, failures, disk, applied, again,
                       evidenceFaults>>
    PROVE  EvidenceInd'
<1> DEFINE old  == Superseded(e)
           rest == Unsuperseded(old)
<1>1. UNCHANGED <<outbox, stored>> /\ Waiting' = Waiting
  BY DEF disk, Waiting
<1>2. /\ \/ /\ entries' = rest /\ dropped' = dropped \cup {e} /\ seen' = seen
            /\ byKey' \in {byKey, [byKey EXCEPT ![e.key] = 0]}
         \/ /\ entries' = Append(rest, e) /\ dropped' = dropped
            /\ \/ e.key = NoKey /\ seen' = seen /\ byKey' = byKey
               \/ /\ e.key \in Keys /\ seen' = [seen EXCEPT ![e.key] = e.n]
                  /\ byKey' = [byKey EXCEPT ![e.key] = e.n]
      /\ degraded' \in BOOLEAN
  BY EnqueueMarket DEF EvidenceInd
<1>3. /\ next \in Nat /\ next + 1 \in 1 .. MaxEvents /\ born \in Nat /\ born <= next
      /\ \A a \in Known \cup applied : a.n \in Nat /\ a.n < e.n
      /\ \A k \in Keys : byKey[k] \in 0 .. next /\ seen[k] \in 0 .. next
  BY NewNumber
<1>4. /\ entries \in Seq(Events) /\ Ascending(entries) /\ Range(entries) \subseteq Known
      /\ Range(batch) \subseteq Known /\ batch \in Seq(Events)
  BY DEF EvidenceInd, EvidenceTyped, EventsTyped, QueueInOrder, Known
<1>5. /\ rest \in Seq(Events) /\ Range(rest) \subseteq Range(entries) /\ Ascending(rest)
      /\ \A x \in Range(entries) : x.n # old => x \in Range(rest)
  BY <1>4, WithoutInOrder
<1>6. old # 0 => e.key \in Keys /\ old = byKey[e.key]
  BY EventFacts DEF Superseded
<1> HIDE DEF rest, old
<1>7. /\ entries' \in Seq(Events) /\ Ascending(entries')
      /\ Range(rest) \subseteq Range(entries') /\ Range(entries') \subseteq Range(entries) \cup {e}
      /\ entries' = Append(rest, e) => e \in Range(entries')
  <2>1. CASE entries' = rest
    <3>1. entries' = Append(rest, e) => e \in Range(entries')
      BY <1>5, AppendOfSeq
    <3>2. QED BY <1>5, <2>1, <3>1
  <2>2. CASE entries' = Append(rest, e)
    <3>1. \A f \in Range(rest) : f.n < e.n
      BY <1>3, <1>4, <1>5
    <3>2. Ascending(Append(rest, e))
      BY <1>5, <3>1, AppendInOrder
    <3>3. Append(rest, e) \in Seq(Events) /\ Range(Append(rest, e)) = Range(rest) \cup {e}
      BY <1>5, AppendOfSeq
    <3>4. QED BY <1>5, <2>2, <3>2, <3>3
  <2>3. QED BY <1>2, <2>1, <2>2
<1>8. /\ byKey \in [Keys -> 0 .. next] /\ seen \in [Keys -> 0 .. next]
  BY DEF EvidenceInd, EvidenceTyped, KeysTyped
<1>9. EvidenceTyped'
  <2>1. EventsTyped'
    BY <1>1, <1>2, <1>7 DEF EvidenceInd, EvidenceTyped, EventsTyped
  <2>2. CountersTyped'
    BY <1>3 DEF EvidenceInd, EvidenceTyped, CountersTyped
  <2>3. KeysTyped'
    <3>1. byKey' \in [Keys -> 0 .. next + 1]
      BY <1>2, <1>3, <1>8
    <3>2. seen' \in [Keys -> 0 .. next + 1]
      <4>1. seen \in [Keys -> 0 .. next + 1] /\ e.n \in 0 .. next + 1
        BY <1>3, <1>8
      <4>2. seen' = seen \/ (e.key \in Keys /\ seen' = [seen EXCEPT ![e.key] = e.n])
        BY <1>2
      <4>3. QED BY <4>1, <4>2
    <3>3. QED BY <3>1, <3>2 DEF KeysTyped
  <2>4. QED BY <1>2, <2>1, <2>2, <2>3 DEF EvidenceTyped
<1>10. NumbersIdentify'
  <2>1. Known' \subseteq Known \cup {e}
    BY <1>1, <1>7 DEF Known
  <2>2. \A k \in Keys : byKey'[k] \in {0, byKey[k]} \/ (byKey'[k] = e.n /\ e.key = k)
    BY <1>2, <1>8
  <2>3. \A k \in Keys : seen'[k] = seen[k] \/ (seen'[k] = e.n /\ e.key = k)
    BY <1>2, <1>8
  <2>4. QED BY <2>1, <2>2, <2>3, SomethingNew
<1>11. StagedAreNew' /\ OutboxIsNew'
  BY <1>1 DEF EvidenceInd, StagedAreNew, OutboxIsNew
<1>12. QueueInOrder'
  <2>1. InOrder(batch', entries')
    BY <1>3, <1>4, <1>7 DEF EvidenceInd, QueueInOrder, InOrder
  <2>2. \A f \in Range(entries') \cup Range(batch'), w \in Waiting' :
            f.class = "identity" => f.n < w.n
    BY <1>1, <1>7 DEF EvidenceInd, QueueInOrder
  <2>3. QED BY <1>7, <2>1, <2>2 DEF EvidenceInd, QueueInOrder
<1>13. AppliedBefore'
  BY <1>1, <1>3, <1>7 DEF EvidenceInd, AppliedBefore
<1>14. QueuePhases'
  BY <1>1 DEF EvidenceInd, QueuePhases
<1>15. RunsAfterReplay' /\ StoredOnce' /\ PersistBeforeApply'
  BY <1>1 DEF EvidenceInd, RunsAfterReplay, StoredOnce, Identity, PersistBeforeApply
<1>16. QueuedIsKept'
  BY <1>1, <1>7 DEF EvidenceInd, QueuedIsKept
<1>17. NewestHeld'
  <2> SUFFICES ASSUME NEW k \in Keys, seen'[k] > born, mode # "down"
               PROVE  \/ \E f \in Range(entries') \cup Range(batch) \cup Range(stored) :
                             f.n = seen'[k]
                      \/ \E d \in dropped' : d.key = k /\ d.n > seen'[k]
    BY <1>1 DEF NewestHeld
  <2>1. CASE seen'[k] # seen[k]
    <3>1. entries' = Append(rest, e) /\ seen'[k] = e.n
      BY <1>2, <1>8, <2>1
    <3>2. QED BY <1>7, <3>1
  <2>2. CASE seen'[k] = seen[k] /\ \E d \in dropped : d.key = k /\ d.n > seen[k]
    BY <1>2, <2>2
  <2>3. CASE /\ seen'[k] = seen[k]
             /\ \E f \in Range(batch) \cup Range(stored) : f.n = seen[k]
    BY <2>3
  <2>4. ASSUME seen'[k] = seen[k], NEW f \in Range(entries), f.n = seen[k]
        PROVE  \/ \E g \in Range(entries') : g.n = seen'[k]
               \/ \E d \in dropped' : d.key = k /\ d.n > seen'[k]
    <3>1. CASE f.n # old
      BY <1>5, <1>7, <2>4, <3>1
    <3>2. CASE f.n = old
      <4>1. f.n \in Nat /\ f.n # 0 /\ f \in Known /\ f \in Events
        BY <1>3, <1>4, EventFacts, KnownTyped DEF EvidenceInd
      <4>2. e.key \in Keys /\ f.n = byKey[e.key]
        BY <1>6, <3>2, <4>1
      <4>3. f.key = k /\ f.key = e.key
        BY <2>4, <4>1, <4>2 DEF EvidenceInd, NumbersIdentify
      <4>4. CASE entries' = rest /\ dropped' = dropped \cup {e}
        BY <1>3, <2>4, <4>1, <4>3, <4>4
      <4>5. CASE entries' = Append(rest, e) /\ seen' = [seen EXCEPT ![e.key] = e.n]
        <5>1. seen'[k] = e.n
          BY <1>8, <4>3, <4>5
        <5>2. QED BY <1>7, <4>5, <5>1
      <4>6. QED BY <1>2, <4>2, <4>4, <4>5, KeysAssumption
    <3>3. QED BY <3>1, <3>2
  <2>5. \/ \E f \in Range(entries) \cup Range(batch) \cup Range(stored) : f.n = seen[k]
        \/ \E d \in dropped : d.key = k /\ d.n > seen[k]
        \/ seen'[k] # seen[k]
    BY DEF EvidenceInd, NewestHeld
  <2>6. QED BY <2>1, <2>2, <2>3, <2>4, <2>5
<1>18. QED
  BY <1>9, <1>10, <1>11, <1>12, <1>13, <1>14, <1>15, <1>16, <1>17 DEF EvidenceInd

LEMMA StepSubmit == ASSUME EvidenceInd, Submit PROVE EvidenceInd'
<1>1. /\ mode \in {"running", "stopping"} /\ next < MaxEvents /\ next' = next + 1
      /\ UNCHANGED <<mode, born, batch, writing, failures, disk, applied, again,
                     evidenceFaults>>
  BY DEF Submit, bounds
<1>2. PICK e \in Arriving(next + 1) :
          IF e.class = "identity"
          THEN /\ staging' = Append(staging, [e |-> e, row |-> FALSE])
               /\ UNCHANGED <<entries, byKey, degraded, dropped, seen>>
          ELSE Enqueue(e) /\ UNCHANGED staging
  BY DEF Submit
<1>3. e \in Events /\ e.n = next + 1 /\ e.class \in {"identity", "market"}
  BY <1>1, NewNumber DEF Arriving, Events
<1>4. CASE e.class = "identity"
  <2>1. /\ staging' = Append(staging, [e |-> e, row |-> FALSE])
        /\ UNCHANGED <<entries, byKey, degraded, dropped, seen>>
    BY <1>2, <1>4
  <2>2. UNCHANGED fate
    BY <1>1, <2>1 DEF fate
  <2>3. QED BY <1>1, <1>3, <1>4, <2>1, <2>2, StepSubmitIdentity
<1>5. CASE e.class # "identity"
  BY <1>1, <1>2, <1>3, <1>5, StepSubmitMarket
<1>6. QED BY <1>4, <1>5

(* The named parts of EvidenceInv.                                          *)
LEMMA EvidenceIndImplies == ASSUME EvidenceInd PROVE EvidenceInv
<1>1. EvidenceTypeOK
  <2>1. EventsTyped /\ CountersTyped /\ KeysTyped /\ degraded \in BOOLEAN
    BY DEF EvidenceInd, EvidenceTyped
  <2>2. /\ Range(staging) \subseteq Row /\ Range(entries) \subseteq Events
        /\ Range(batch) \subseteq Events /\ Range(stored) \subseteq Events
    BY <2>1, ElementsOfSeq DEF EventsTyped
  <2>3. /\ mode \in {"down", "starting", "running", "stopping"}
        /\ {next, born} \subseteq 0 .. MaxEvents /\ born <= next
        /\ writing \in {"idle", "asked", "committed"}
        /\ failures \in 0 .. MaxEvidenceFaults
    BY <2>1, EvidenceConstants DEF CountersTyped
  <2>4. byKey \in [Keys -> 0 .. MaxEvents] /\ seen \in [Keys -> 0 .. MaxEvents]
    BY <2>1, EvidenceConstants DEF KeysTyped, CountersTyped
  <2>5. applied \cup dropped \subseteq Events /\ outbox \subseteq Events
    BY <2>1, <2>2 DEF EvidenceInd, PersistBeforeApply, EventsTyped
  <2>6. Len(batch) <= BatchSize
    BY <2>1 DEF EventsTyped
  <2>7. Range(entries) \cup Range(batch) \cup Range(stored) \cup outbox \subseteq Events
    BY <2>2, <2>5
  <2>8. again \subseteq 1 .. MaxEvents
    BY DEF EvidenceInd, QueuedIsKept
  <2>9. QED BY <2>1, <2>2, <2>3, <2>4, <2>5, <2>6, <2>7, <2>8, Zenon DEF EvidenceTypeOK, Row
<1>2. NewestIsKept
  <2>1. ASSUME NEW k \in Keys, seen[k] > born, mode # "down"
        PROVE  \/ seen[k] \in Numbers(entries) \cup Numbers(batch) \cup Numbers(stored)
               \/ \E d \in dropped : d.key = k /\ d.n > seen[k]
    <3>1. \/ \E f \in Range(entries) \cup Range(batch) \cup Range(stored) : f.n = seen[k]
          \/ \E d \in dropped : d.key = k /\ d.n > seen[k]
      BY <2>1 DEF EvidenceInd, NewestHeld
    <3>2. QED BY <3>1, NumbersOfRange
  <2>2. QED BY <2>1 DEF NewestIsKept
<1>3. QueuedIsStaged
  BY DEF EvidenceInd, QueuedIsKept, QueuedIsStaged
<1>4. QED BY <1>1, <1>2, <1>3 DEF EvidenceInd, EvidenceInv

LEMMA EvidenceIndStep == ASSUME EvidenceInd, [EvidenceNext]_evidenceVars PROVE EvidenceInd'
<1>1. CASE Submit BY <1>1, StepSubmit
<1>2. CASE Stage BY <1>2, StepStageCommits, StepStageDone DEF Stage
<1>3. CASE StageFails BY <1>3, StepStageFails
<1>4. CASE Writer BY <1>4, StepBatchBegin, StepBatchCommits, StepBatchDone DEF Writer
<1>5. CASE BatchFails \/ PruneFails BY <1>5, StepTakesBack
<1>6. CASE Crash \/ DrainFails \/ Stopped BY <1>6, StepForgets
<1>7. CASE StopAsked BY <1>7, StepStopAsked
<1>8. CASE Start BY <1>8, StepStart
<1>9. CASE Replay BY <1>9, StepReplay
<1>10. CASE UNCHANGED evidenceVars
  <2>1. UNCHANGED <<mode, next, born, staging, entries, byKey, batch, writing, degraded,
                    failures, outbox, stored, applied, dropped, seen, again, evidenceFaults>>
    BY <1>10 DEF evidenceVars, queue, disk, fate, bounds
  <2>2. Waiting' = Waiting /\ Known' = Known
    BY <2>1 DEF Waiting, Known
  <2>3. EvidenceTyped'
    BY <2>1, Zenon DEF EvidenceInd, EvidenceTyped, EventsTyped, CountersTyped, KeysTyped
  <2>4. /\ NumbersIdentify' /\ StagedAreNew' /\ QueueInOrder' /\ AppliedBefore'
        /\ OutboxIsNew' /\ QueuePhases'
    BY <2>1, <2>2 DEF EvidenceInd, NumbersIdentify, StagedAreNew, QueueInOrder, AppliedBefore,
                      OutboxIsNew, QueuePhases
  <2>5. /\ StoredOnce' /\ RunsAfterReplay' /\ QueuedIsKept' /\ PersistBeforeApply'
        /\ NewestHeld'
    BY <2>1 DEF EvidenceInd, StoredOnce, Identity, RunsAfterReplay, QueuedIsKept,
                PersistBeforeApply, NewestHeld
  <2>6. QED BY <2>3, <2>4, <2>5 DEF EvidenceInd
<1>11. QED
  BY <1>1, <1>2, <1>3, <1>4, <1>5, <1>6, <1>7, <1>8, <1>9, <1>10 DEF EvidenceNext

(* EvidenceInv: for any keys, marks, batches, faults and ends of the process,*)
(* an account event is stored once, except one whose batch was taken back    *)
(* behind its transaction, its row outlives the memory it is queued in or it *)
(* is stored, the service runs only when the old rows are replayed, nothing  *)
(* is applied before it is stored, and the newest quote survives coalescing  *)
(* and restores.                                                             *)
THEOREM EvidenceIsKept == EvidenceSpec => []EvidenceInv
<1>1. EvidenceInit => EvidenceInd
  BY EvidenceInitInd
<1>2. EvidenceInd /\ [EvidenceNext]_evidenceVars => EvidenceInd'
  BY EvidenceIndStep
<1>3. EvidenceInd => EvidenceInv
  BY EvidenceIndImplies
<1>4. QED BY <1>1, <1>2, <1>3, PTL DEF EvidenceSpec

LEMMA OnlyInOrder ==
    ASSUME EvidenceInd, [EvidenceNext]_evidenceVars,
           NEW e \in applied' \ applied, NEW f \in applied, e.class = f.class
    PROVE  f.n < e.n
<1>1. CASE BatchDone
  <2>1. e \in Range(batch) /\ e.n > born
    BY <1>1 DEF BatchDone, Appliable
  <2>2. QED BY <2>1 DEF EvidenceInd, AppliedBefore
<1>2. CASE ~BatchDone
  <2>1. applied' = applied
    BY <1>2 DEF EvidenceNext, Submit, Stage, StageCommits, StageDone, StageFails, Writer,
                BatchBegin, BatchCommits, BatchFails, PruneFails, TakeBack, Crash, DrainFails,
                StopAsked, Stopped, Start, Replay, fate, evidenceVars
  <2>2. QED BY <2>1
<1>3. QED BY <1>1, <1>2

(* AppliedInOrder: of a class no event is applied behind a later one, although*)
(* batches fail and go back to the head of the queue (restore).              *)
THEOREM AppliedForward == EvidenceSpec => AppliedInOrder
<1>1. EvidenceInit => EvidenceInd
  BY EvidenceInitInd
<1>2. EvidenceInd /\ [EvidenceNext]_evidenceVars => EvidenceInd'
  BY EvidenceIndStep
<1>3. EvidenceInd /\ [EvidenceNext]_evidenceVars =>
          [\A e \in applied' \ applied, f \in applied :
              e.class = f.class => f.n < e.n]_evidenceVars
  BY OnlyInOrder
<1>4. QED BY <1>1, <1>2, <1>3, PTL DEF EvidenceSpec, AppliedInOrder
================================================================================
