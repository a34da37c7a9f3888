--------------------------- MODULE ReviewHistory ---------------------------
(***************************************************************************)
(* What the review of inferences promises where requests overlap, fail or  *)
(* come from several cases.  The code then does not keep every promise,    *)
(* and what it forgets to look at is not in its state.  So the exceptions  *)
(* are kept in history variables beside the program's own: they record     *)
(* what happened and never hold a step back.                               *)
(***************************************************************************)
EXTENDS InferenceReview

VARIABLES
    contested,    \* facts whose last verdict was not the only one being settled, or not its case's to settle
    late,         \* [Investigators -> facts vetoed since the request asked whether they are]
    stray         \* cases whose escalation lost its ground where no walk over the case follows

history == <<contested, late, stray>>
HistoryInit == Init /\ contested = {} /\ late = [i \in Investigators |-> {}] /\ stray = {}

\* the verdict is in, its :Rejection not yet written or deleted
Settling(i) == req[i].pc \in {"veto", "unveto"}
Names(r, f) == r.rel = f.rel /\ r.from = f.from /\ r.to = f.to

Submitted(i) == Quiet(i) /\ req'[i].pc \in {"veto", "unveto"}
CutShort(i) == ~Quiet(i) /\ req'[i].pc = "idle" /\ failures' # failures

\* a verdict on f while another on f is being settled, or a revert that will leave a
\* :Rejection behind, because another case issued it
Disputed(i, f) ==
    \/ \E j \in Investigators : Settling(j) /\ req[j].key = f
    \/ req'[i].op = "revert" /\ \E r \in rejections : Names(r, f) /\ r.case # req'[i].case

RememberContested ==
    contested' =
        {f \in Facts :
            \/ \E i \in Investigators : Submitted(i) /\ req'[i].key = f /\ Disputed(i, f)
            \/ \E i \in Investigators : CutShort(i) /\ Settling(i) /\ req[i].key = f
            \/ f \in contested /\ ~\E i \in Investigators : Submitted(i) /\ req'[i].key = f}

\* from the reads that found no rejection by hand to the write that relies on them
RememberLate ==
    late' = [i \in Investigators |->
                IF req[i].pc = "direct" /\ req'[i].pc = "direct"
                THEN late[i] \cup {f \in Facts : ~Vetoed(f) /\ Vetoed(f)'} ELSE {}]

Escalation(c) == flag[<<"Rule_08", c>>]
Grounded(s) == ActivePrior(s) \/ ActiveMember(s)
\* an active escalation nobody restored by hand, without a prior case or a membership
Unfounded(c) ==
    /\ Escalation(c).status = "active" /\ Escalation(c).human # "reverted"
    /\ ~Grounded(Escalation(c).subject)

\* a step after which nothing walks to the escalation of case c: one of a request on another
\* case, of the sweep, or of _direct_reinstate
Escapes(i, c) ==
    /\ req'[i] # req[i]
    /\ \/ c # (IF Quiet(i) THEN req'[i] ELSE req[i]).case
       \/ req[i].pc \in {"orphans", "direct"}

RememberStray ==
    stray' = {c \in Cases :
                /\ Unfounded(c)'
                /\ \/ c \in stray
                   \/ ~Unfounded(c) /\ \E i \in Investigators : Escapes(i, c)
                   \/ \E i \in Investigators : CutShort(i) /\ req[i].case = c}

Remember == RememberContested /\ RememberLate /\ RememberStray

HistorySpec == HistoryInit /\ [][Next /\ Remember]_<<vars, history>>

---------------------------------------------------------------------------
(* Properties                                                              *)

\* At every moment, whoever else reviews, cascades, reasons or fails: a fact that no request
\* is settling carries a :Rejection exactly when an investigator's last word on it was to
\* reject it, unless that word was given while another on the same fact was being settled,
\* was cut short before its :Rejection, or reverts what another case had vetoed too
\* (_MERGE_REJECTION, _DELETE_REJECTION).
VetoesMatchVerdicts ==
    \A f \in Facts \ contested :
        (\A i \in Investigators : ~(Settling(i) /\ req[i].key = f))
        => (Vetoed(f) <=> fact[f].human = "rejected")

\* the only membership of its subject that the cascade's queries for it match
Alone(f) ==
    \A g \in MemberFacts : /\ g.from = f.from /\ NetworkType[g.to] = NetworkType[f.to]
                           /\ fact[g].status # "absent"
                           => g = f

\* A membership an investigator rejected, the :Rejection written, is not given back by
\* reverting something upstream of it, in however many requests at once; unless its subject is
\* in a second network of the type, which .single() may have read in its place, or the
\* :Rejection came after the cascade had looked for it (cascade._has_manual_rejection).
ManualRejectionOutlivesCascade ==
    [][\A f \in MemberFacts :
          /\ fact[f].status = "rejected" /\ fact[f].human = "rejected" /\ Vetoed(f)
          /\ fact'[f].status # "rejected"
          => \/ RevertedByHand(f)
             \/ ~Alone(f)
             \/ \E i \in Investigators : req[i].pc = "direct" /\ f \in late[i]]_vars

\* At every moment an active escalation that nobody restored by hand rests on a prior guilty
\* case or a network membership of its subject, or a rejecting request on its own case is
\* under way and will look at it: through an edge, the membership on it and the escalation on
\* that. Excepted is what became unfounded by a request on another case, by the network sweep
\* or by _direct_reinstate, or was left so by a request cut short
\* (cascade_reject, _any_upstream_condition_holds).
EscalationsFounded ==
    \A c \in Cases \ stray :
        Unfounded(c) => \E i \in Investigators : ~Quiet(i) /\ req[i].op = "reject" /\ req[i].case = c
=============================================================================
