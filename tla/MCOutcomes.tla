------------------------------- MODULE MCOutcomes -------------------------------
(* Instances of Outcomes for TLC.                                            *)
EXTENDS Outcomes

\* A run has a failed call or a crash, not both.
OneMishap == faults + crashes <= 1
================================================================================
