------------------------------- MODULE MCControl -------------------------------
(* Instances of Control for TLC: which commands the operator may post.       *)
EXTENDS Control, TLC

CONSTANTS pause, resume, arm, flat, h1, h2

Cmd(a, m, s) == [action |-> a, mode |-> m, scope |-> s]

\* A pause and a resume of the whole account, a mode, and a flatten of the
\* configured contract.
FlattenOwn == [c \in Controls |->
    CASE c = pause  -> Cmd("pause", "disabled", "all")
      [] c = resume -> Cmd("resume", "disabled", "all")
      [] c = arm    -> Cmd("set_mode", "armed", "own")
      [] c = flat   -> Cmd("flatten", "disabled", "own")]

\* A flatten is posted alone, the other commands together; to them the account
\* is in another contract or it is not.
FlattenAlone ==
    IF status[flat] # "absent" THEN \A c \in Controls \ {flat} : status[c] = "absent"
    ELSE account \in {"flat", "other"}

HandlerSymmetry == Permutations(Handlers)
================================================================================
