------------------------------ MODULE Verdicts ------------------------------
(***************************************************************************)
(* What review promises of a finding that rests on evidence alone: a rule  *)
(* finds it once, and from then on only an investigator's verdict on that  *)
(* very finding changes it, in one step and for good until the next one.   *)
(***************************************************************************)
CONSTANT Findings

VARIABLES
    status,     \* [Findings -> "absent", "active" or "rejected"]
    word        \* [Findings -> the last verdict: "none", "rejected" or "reverted"]

vars == <<status, word>>

Init ==
    /\ status = [f \in Findings |-> "absent"]
    /\ word = [f \in Findings |-> "none"]

\* a rule of a reasoning run, or of a cascade, finds what nobody has found before
Find(found) ==
    /\ \A f \in found : status[f] = "absent"
    /\ status' = [f \in Findings |-> IF f \in found THEN "active" ELSE status[f]]
    /\ UNCHANGED word

Reject(f) ==
    /\ status[f] = "active"
    /\ status' = [status EXCEPT ![f] = "rejected"]
    /\ word' = [word EXCEPT ![f] = "rejected"]

Revert(f) ==
    /\ status[f] = "rejected"
    /\ status' = [status EXCEPT ![f] = "active"]
    /\ word' = [word EXCEPT ![f] = "reverted"]

Next ==
    \/ \E found \in SUBSET Findings : Find(found)
    \/ \E f \in Findings : Reject(f) \/ Revert(f)

Spec == Init /\ [][Next]_vars
=============================================================================
