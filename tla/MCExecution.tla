------------------------------ MODULE MCExecution ------------------------------
(* Instances of Execution for TLC: which intents there are and what each asks. *)
EXTENDS Execution, TLC

CONSTANTS e1, e2, f1, r1, m1, x1, b1, b2

\* No entry has a recovery flatten, or e1 has.
NoFlatten  == [i \in Intents |-> None]
FlattenOf1 == [i \in Intents |-> IF i = e1 THEN f1 ELSE None]

\* Two entries: the second meets the first's latch and ambiguity.
KindTwoEntries == (e1 :> "enter") @@ (e2 :> "enter")
EntrySymmetry == Permutations({e1, e2})
\* An entry and the flatten that recovery may issue for it.
KindEntryFlatten == (e1 :> "enter") @@ (f1 :> "flatten")
\* An entry and an amendment of its stop.
KindEntryModify == (e1 :> "enter") @@ (m1 :> "modify")
\* An entry with one of its exits.
KindEntryExits == (e1 :> "enter") @@ (x1 :> "close") @@ (r1 :> "reduce")
OneExit == registered[x1] = None \/ registered[r1] = None
\* The second body is only ever posted for the amendment once it is known, and
\* before the run's fault.
KnownFirst == /\ \A i \in Intents : registered[i] # b2
              /\ out = "body_conflict" => cur = m1 /\ faults = 0
================================================================================
