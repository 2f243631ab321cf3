----------------------------- MODULE MCDailyCapture -----------------------------
(* Instances of DailyCapture on its own.                                     *)
EXTENDS DailyCapture
\* One trade wins what the objective asks for, another loses it again.
WinAndLoss == [t \in Trades |-> IF t = "win" THEN 1 ELSE -1]
================================================================================
