------------------------- MODULE CaseFindingsProofs -------------------------
(***************************************************************************)
(* What the screens say of a finding's review, for any findings, scopes    *)
(* and number of requests.                                                 *)
(***************************************************************************)
EXTENDS CaseFindings, TLAPS, FiniteSetTheorems, WellFoundedInduction

---------------------------------------------------------------------------
(* Types.                                                                  *)

\* What a mark has been given: each field of the marks the statements write is typed.
LEMMA MarksTyped ==
    ASSUME NEW f \in Facts, TypeOK
    PROVE  /\ mark[f] \in Marks
           /\ InvalidatedMark(f) \in Marks
           /\ ReinstatedMark(mark[f]) \in Marks
           /\ [ReinstatedMark(mark[f]) EXCEPT !.status = "active"] \in Marks
           /\ [mark[f] EXCEPT !.status = "active"] \in Marks
<1>1. mark[f] \in Marks /\ now \in Times /\ 0 \in Times
  BY FactsTyped DEF TypeOK, Times
<1> QED BY <1>1 DEF Marks, InvalidatedMark, ReinstatedMark

\* A statement that writes one mark and one act keeps the types of both.
LEMMA SetsTyped ==
    ASSUME TypeOK, NEW f \in Facts, NEW m \in Marks, NEW side \in {"human", "cascade"}, NEW act \in Acts,
           Sets(f, m, side, act)
    PROVE  /\ mark' \in [Facts -> Marks]
           /\ acts' \in [Facts -> [human : Acts, cascade : Acts]]
<1>1. acts[f] \in [human : Acts, cascade : Acts]
  BY DEF TypeOK
<1>2. [acts[f] EXCEPT ![side] = act] \in [human : Acts, cascade : Acts]
  BY <1>1
<1> QED BY <1>2 DEF Sets, TypeOK


\* The properties of every finding keep their shape, whatever the statements that
\* reject, revert and cascade write to it (rejection.py, cascade.py): no status of its
\* own, no time outside the run, and no act on a finding that nobody has.
THEOREM FindingsTyped == Spec => []TypeOK
<1>1. Init => TypeOK
  BY FactsTyped DEF Init, TypeOK, Marks, NewMark, Times, NoAct, Act, Acts, Requests
<1>2. TypeOK /\ [Next]_vars => TypeOK'
  <2> SUFFICES ASSUME TypeOK, [Next]_vars PROVE TypeOK'
    OBVIOUS
  <2>1. now \in Times /\ MaxRequests \in Nat
    BY FactsTyped DEF TypeOK
  <2>2. \A kind \in {"reject", "revert"}, f \in Facts : Comes(kind, f) =>
           now + 1 \in Times /\ now' \in Times /\ vetoed' \subseteq Facts /\ request' \in Requests
    BY <2>1 DEF Comes, Times, Requests, TypeOK
  <2>3. ASSUME NEW f \in Facts, Reject(f) PROVE TypeOK'
    <3>1. Comes("reject", f) /\ Sets(f, [mark[f] EXCEPT !.status = "rejected", !.rejectedBy = TRUE,
                                                       !.rejectedAt = now + 1],
                                    "human", Act("rejected", now + 1))
      BY <2>3 DEF Reject
    <3>2. mark[f] \in Marks
      BY DEF TypeOK
    <3>3. [mark[f] EXCEPT !.status = "rejected", !.rejectedBy = TRUE, !.rejectedAt = now + 1] \in Marks
      BY <3>1, <3>2, <2>2 DEF Marks
    <3>4. Act("rejected", now + 1) \in Acts
      BY <3>1, <2>2 DEF Act, Acts
    <3> QED BY <3>1, <3>3, <3>4, <2>2, SetsTyped DEF TypeOK
  <2>4. ASSUME NEW f \in Facts, Revert(f) PROVE TypeOK'
    <3>1. Comes("revert", f) /\ Sets(f, [mark[f] EXCEPT !.status = "active", !.revertedAt = now + 1,
                                                       !.rejectedBy = FALSE, !.rejectedAt = 0],
                                    "human", Act("reverted", now + 1))
      BY <2>4 DEF Revert
    <3>2. mark[f] \in Marks /\ 0 \in Times
      BY <2>1 DEF TypeOK, Times
    <3>3. [mark[f] EXCEPT !.status = "active", !.revertedAt = now + 1, !.rejectedBy = FALSE,
                          !.rejectedAt = 0] \in Marks
      BY <3>1, <3>2, <2>2 DEF Marks
    <3>4. Act("reverted", now + 1) \in Acts
      BY <3>1, <2>2 DEF Act, Acts
    <3> QED BY <3>1, <3>3, <3>4, <2>2, SetsTyped DEF TypeOK
  <2>5. ASSUME NEW f \in Facts, Reassert(f) PROVE TypeOK'
    BY <2>5, MarksTyped DEF Reassert, TypeOK
  <2>6. ASSUME NEW f \in Facts, Invalidate(f) PROVE TypeOK'
    <3>1. Act("invalidated", now) \in Acts
      BY <2>1 DEF Act, Acts
    <3> QED BY <2>6, <3>1, MarksTyped, SetsTyped DEF Invalidate, Walks, TypeOK
  <2>7. ASSUME NEW f \in Facts, MarkReinstated(f) \/ DirectReinstate(f) PROVE TypeOK'
    <3>1. Act("reinstated", now) \in Acts
      BY <2>1 DEF Act, Acts
    <3>2. CASE MarkReinstated(f)
      BY <3>1, <3>2, MarksTyped, SetsTyped DEF MarkReinstated, Walks, TypeOK
    <3>3. CASE DirectReinstate(f)
      BY <3>1, <3>3, MarksTyped, SetsTyped DEF DirectReinstate, Walks, TypeOK
    <3> QED BY <2>7, <3>2, <3>3
  <2>8. ASSUME Veto PROVE TypeOK'
    BY <2>8 DEF Veto, TypeOK, Requests, NoRequest
  <2>9. ASSUME UNCHANGED vars PROVE TypeOK'
    BY <2>9 DEF TypeOK, vars
  <2> QED BY <2>3, <2>4, <2>5, <2>6, <2>7, <2>8, <2>9 DEF Next
<1> QED BY <1>1, <1>2, PTL DEF Spec

---------------------------------------------------------------------------
(* The audit trail: what a finding's properties tell of the last verdict   *)
(* on it and of the cascade's last act.                                    *)

Human(f) == acts[f].human
Cascade(f) == acts[f].cascade

\* rejected_by stands for a rejection that is the last verdict, rejected_at for its time
\* unless the cascade has written a membership since, reverted_at for a revert's
VerdictTold(f) ==
    /\ Human(f).what \in {"none", "rejected", "reverted"}
    /\ Human(f).what = "none" <=> Human(f).at = 0
    /\ Human(f).at <= now
    /\ mark[f].rejectedBy <=> Human(f).what = "rejected"
    /\ mark[f].revertedAt <= Human(f).at
    /\ Human(f).what = "reverted" => mark[f].revertedAt = Human(f).at
    /\ mark[f].rejectedBy => mark[f].rejectedAt = Human(f).at
    /\ ~mark[f].rejectedBy /\ f.rule \notin MemberRules => mark[f].rejectedAt = 0
    /\ mark[f].rejectedBy /\ f.rule \in MemberRules => ~Active(f) /\ Cascade(f).at <= Human(f).at

\* auto_invalidated and invalidated_by_rule_id stand for an invalidation that is the
\* cascade's last act, on a finding of a kind that it writes
CascadeTold(f) ==
    /\ Cascade(f).what \in {"none", "invalidated", "reinstated"}
    /\ Cascade(f).what = "none" <=> Cascade(f).at = 0
    /\ Cascade(f).at <= now
    /\ Cascade(f).what # "none" => f.rule \in MemberRules \cup CaseFlagRules
    /\ mark[f].auto <=> Cascade(f).what = "invalidated"
    /\ mark[f].invalidatedBy <=> Cascade(f).what = "invalidated"
    /\ mark[f].reinstatedAt <= Cascade(f).at
    /\ f.rule \in CaseFlagRules /\ mark[f].auto => mark[f].invalidatedAt = Cascade(f).at

\* A finding is rejected by the later of the two
Decided(f) ==
    ~Active(f) =>
       IF Cascade(f).at > Human(f).at
       THEN /\ Cascade(f).what = "invalidated"
            /\ f.rule \in MemberRules => ~mark[f].rejectedBy /\ mark[f].rejectedAt = Cascade(f).at
       ELSE Human(f).what = "rejected"

\* The :Rejection is written after the finding: until then the request is on its way,
\* and the cascade, which trusts the :Rejection, does not walk
Pending(kind, f) == request.phase = "veto" /\ request.kind = kind /\ request.of = f
VetoFollows(f) ==
    /\ mark[f].rejectedBy => f \in vetoed \/ Pending("reject", f)
    /\ Pending("revert", f) => ~mark[f].rejectedBy
    /\ Human(f).what = "reverted" /\ Human(f).at = now => request.kind = "revert"

Told(f) == VerdictTold(f) /\ CascadeTold(f) /\ Decided(f) /\ VetoFollows(f)
AuditInv ==
    /\ request.kind # "none" => now # 0
    /\ \A f \in Facts : Told(f)

\* The cascade writes memberships and case flags only (DOWNSTREAM_DEPENDENTS).
LEMMA OnlyDependentsWalked ==
    ASSUME NEW rule, RestsOn(rule) # {}
    PROVE  rule \in MemberRules \cup CaseFlagRules
BY DEF RestsOn, MemberRules, CaseFlagRules

\* What was true of a finding stays true when a statement writes another one.
LEMMA OthersKeepTheirTrail ==
    ASSUME NEW f \in Facts, TypeOK, TypeOK', Told(f), now <= now',
           mark'[f] = mark[f], acts'[f] = acts[f]
    PROVE  VerdictTold(f)' /\ CascadeTold(f)' /\ Decided(f)'
<1>1. now \in Nat /\ now' \in Nat
  BY FactsTyped DEF TypeOK, Times
<1>2. acts[f].human.at \in Nat /\ acts[f].cascade.at \in Nat
  BY FactsTyped DEF TypeOK, Times, Acts
<1>3. VerdictTold(f)'
  BY <1>1, <1>2 DEF Told, VerdictTold, Human, Cascade, Active
<1>4. CascadeTold(f)'
  BY <1>1, <1>2 DEF Told, CascadeTold, Human, Cascade
<1>5. Decided(f)'
  BY <1>1, <1>2 DEF Told, Decided, Human, Cascade, Active
<1> QED BY <1>3, <1>4, <1>5

\* So far as the :Rejection goes as well, while request and :Rejection stay.
LEMMA OthersKeepTheirVeto ==
    ASSUME NEW f \in Facts, Told(f), UNCHANGED <<vetoed, request, now>>,
           mark'[f].rejectedBy = mark[f].rejectedBy, acts'[f].human = acts[f].human
    PROVE  VetoFollows(f)'
BY DEF Told, VetoFollows, Pending, Human

\* A statement that writes one finding leaves the other ones.
LEMMA SetsOne ==
    ASSUME TypeOK, NEW f \in Facts, NEW m, NEW side \in {"human", "cascade"}, NEW act,
           Sets(f, m, side, act)
    PROVE  /\ mark'[f] = m
           /\ acts'[f] = [acts[f] EXCEPT ![side] = act]
           /\ \A g \in Facts \ {f} : mark'[g] = mark[g] /\ acts'[g] = acts[g]
BY DEF Sets, TypeOK

\* When a request comes, only its own finding waits for a :Rejection.
LEMMA ComingKeepsVetoes ==
    ASSUME TypeOK, NEW kind \in {"reject", "revert"}, NEW f \in Facts, Comes(kind, f),
           NEW g \in Facts, g # f, Told(g), mark'[g] = mark[g], acts'[g] = acts[g]
    PROVE  VetoFollows(g)'
<1>1. now \in Nat /\ now' = now + 1 /\ acts[g].human.at \in Nat
  BY FactsTyped DEF TypeOK, Times, Acts, Comes
<1>2. Human(g).at # now'
  BY <1>1 DEF Told, VerdictTold, Human
<1>3. request.phase = "walk" /\ request'.phase = "veto" /\ request'.of = f /\ vetoed' = vetoed
  BY DEF Comes
<1> QED BY <1>2, <1>3 DEF Told, VetoFollows, Pending, Human

\* Every statement keeps the trail.
LEMMA AuditStep ==
    ASSUME TypeOK, TypeOK', AuditInv, [Next]_vars
    PROVE  AuditInv'
<1>1. now \in Nat /\ MaxRequests \in Nat /\ now' \in Nat
  BY FactsTyped DEF TypeOK, Times
<1>2. \A f \in Facts : /\ acts[f].human.at \in Nat /\ acts[f].cascade.at \in Nat
                       /\ mark[f].revertedAt \in Nat /\ mark[f].reinstatedAt \in Nat
                       /\ mark[f].rejectedAt \in Nat
                       /\ acts[f] \in [human : Acts, cascade : Acts] /\ mark[f] \in Marks
                       /\ mark[f].rejectedBy \in BOOLEAN /\ mark[f].auto \in BOOLEAN
                       /\ mark[f].invalidatedBy \in BOOLEAN
                       /\ mark[f].status \in {"active", "rejected"}
  BY FactsTyped DEF TypeOK, Times, Acts, Marks
<1>3. \A f \in Facts : Told(f)
  BY DEF AuditInv
<1>4. ASSUME NEW f \in Facts, Reject(f) PROVE AuditInv'
  <2>1. Comes("reject", f) /\ Active(f)
        /\ Sets(f, [mark[f] EXCEPT !.status = "rejected", !.rejectedBy = TRUE,
                                   !.rejectedAt = now + 1],
                "human", Act("rejected", now + 1))
    BY <1>4 DEF Reject
  <2>2. /\ mark'[f] = [mark[f] EXCEPT !.status = "rejected", !.rejectedBy = TRUE,
                                     !.rejectedAt = now + 1]
        /\ acts'[f] = [acts[f] EXCEPT !.human = Act("rejected", now + 1)]
        /\ \A g \in Facts \ {f} : mark'[g] = mark[g] /\ acts'[g] = acts[g]
    BY <2>1, SetsOne
  <2>3. now' = now + 1 /\ request' = [kind |-> "reject", of |-> f, phase |-> "veto"]
    BY <2>1 DEF Comes
  <2>4. /\ Human(f)' = Act("rejected", now + 1) /\ Cascade(f)' = Cascade(f)
        /\ mark'[f].rejectedBy /\ mark'[f].rejectedAt = now + 1 /\ mark'[f].status = "rejected"
        /\ mark'[f].revertedAt = mark[f].revertedAt /\ mark'[f].auto = mark[f].auto
        /\ mark'[f].invalidatedBy = mark[f].invalidatedBy
        /\ mark'[f].invalidatedAt = mark[f].invalidatedAt
        /\ mark'[f].reinstatedAt = mark[f].reinstatedAt
    BY <2>2, <1>2 DEF Human, Cascade, Marks
  <2>5. VerdictTold(f)'
    BY <1>1, <1>2, <1>3, <2>3, <2>4 DEF Told, VerdictTold, CascadeTold, Human, Cascade, Act, Active
  <2>6. CascadeTold(f)'
    BY <1>1, <1>2, <1>3, <2>3, <2>4 DEF Told, CascadeTold, Cascade
  <2>7. Decided(f)'
    BY <1>1, <1>2, <1>3, <2>3, <2>4 DEF Told, Decided, CascadeTold, Cascade, Act
  <2>8. VetoFollows(f)'
    BY <2>3, <2>4 DEF VetoFollows, Pending, Act
  <2>9. \A g \in Facts \ {f} : Told(g)'
    BY <1>1, <1>3, <2>1, <2>2, <2>3, OthersKeepTheirTrail, ComingKeepsVetoes DEF Told
  <2> QED BY <1>1, <2>3, <2>5, <2>6, <2>7, <2>8, <2>9 DEF AuditInv, Told
<1>5. ASSUME NEW f \in Facts, Revert(f) PROVE AuditInv'
  <2>1. Comes("revert", f) /\ IsRejected(f)
        /\ Sets(f, [mark[f] EXCEPT !.status = "active", !.revertedAt = now + 1,
                                   !.rejectedBy = FALSE, !.rejectedAt = 0],
                "human", Act("reverted", now + 1))
    BY <1>5 DEF Revert
  <2>2. /\ mark'[f] = [mark[f] EXCEPT !.status = "active", !.revertedAt = now + 1,
                                     !.rejectedBy = FALSE, !.rejectedAt = 0]
        /\ acts'[f] = [acts[f] EXCEPT !.human = Act("reverted", now + 1)]
        /\ \A g \in Facts \ {f} : mark'[g] = mark[g] /\ acts'[g] = acts[g]
    BY <2>1, SetsOne
  <2>3. now' = now + 1 /\ request' = [kind |-> "revert", of |-> f, phase |-> "veto"]
    BY <2>1 DEF Comes
  <2>4. /\ Human(f)' = Act("reverted", now + 1) /\ Cascade(f)' = Cascade(f)
        /\ ~mark'[f].rejectedBy /\ mark'[f].rejectedAt = 0 /\ mark'[f].status = "active"
        /\ mark'[f].revertedAt = now + 1 /\ mark'[f].auto = mark[f].auto
        /\ mark'[f].invalidatedBy = mark[f].invalidatedBy
        /\ mark'[f].invalidatedAt = mark[f].invalidatedAt
        /\ mark'[f].reinstatedAt = mark[f].reinstatedAt
    BY <2>2, <1>2 DEF Human, Cascade, Marks
  <2>5. VerdictTold(f)'
    BY <1>1, <1>2, <1>3, <2>3, <2>4 DEF Told, VerdictTold, Human, Act
  <2>6. CascadeTold(f)'
    BY <1>1, <1>2, <1>3, <2>3, <2>4 DEF Told, CascadeTold, Cascade
  <2>7. Decided(f)'
    BY <2>4 DEF Decided, Active
  <2>8. VetoFollows(f)'
    BY <2>3, <2>4 DEF VetoFollows, Pending, Act
  <2>9. \A g \in Facts \ {f} : Told(g)'
    BY <1>1, <1>3, <2>1, <2>2, <2>3, OthersKeepTheirTrail, ComingKeepsVetoes DEF Told
  <2> QED BY <1>1, <2>3, <2>5, <2>6, <2>7, <2>8, <2>9 DEF AuditInv, Told
<1>6. ASSUME NEW f \in Facts, Reassert(f) PROVE AuditInv'
  <2>1. /\ f.rule \notin MemberRules
        /\ mark' = [mark EXCEPT ![f].status = "active"]
        /\ UNCHANGED <<vetoed, request, now, acts>>
    BY <1>6 DEF Reassert, MemberRules, CaseFlagRules
  <2>2. /\ mark'[f] = [mark[f] EXCEPT !.status = "active"]
        /\ \A g \in Facts \ {f} : mark'[g] = mark[g]
    BY <2>1 DEF TypeOK
  <2>3. /\ Human(f)' = Human(f) /\ Cascade(f)' = Cascade(f) /\ mark'[f].status = "active"
        /\ mark'[f].rejectedBy = mark[f].rejectedBy /\ mark'[f].rejectedAt = mark[f].rejectedAt
        /\ mark'[f].revertedAt = mark[f].revertedAt /\ mark'[f].auto = mark[f].auto
        /\ mark'[f].invalidatedBy = mark[f].invalidatedBy
        /\ mark'[f].invalidatedAt = mark[f].invalidatedAt
        /\ mark'[f].reinstatedAt = mark[f].reinstatedAt
    BY <2>1, <2>2, <1>2 DEF Human, Cascade, Marks
  <2>4. VerdictTold(f)' /\ CascadeTold(f)' /\ Decided(f)' /\ VetoFollows(f)'
    BY <1>3, <2>1, <2>3 DEF Told, VerdictTold, CascadeTold, Decided, VetoFollows, Pending, Active
  <2>5. \A g \in Facts \ {f} : Told(g)'
    BY <1>1, <1>3, <2>1, <2>2, OthersKeepTheirTrail, OthersKeepTheirVeto DEF Told
  <2> QED BY <2>1, <2>4, <2>5 DEF AuditInv, Told
<1>7. ASSUME NEW f \in Facts, Invalidate(f) PROVE AuditInv'
  <2>1. /\ request.kind = "reject" /\ Active(f) /\ UNCHANGED <<vetoed, request, now>>
        /\ RestsOn(f.rule) # {}
        /\ Sets(f, InvalidatedMark(f), "cascade", Act("invalidated", now))
    BY <1>7 DEF Invalidate, Walks
  <2>2. now # 0 /\ f.rule \in MemberRules \cup CaseFlagRules
    BY <2>1, OnlyDependentsWalked DEF AuditInv
  <2>3. /\ mark'[f] = InvalidatedMark(f)
        /\ acts'[f] = [acts[f] EXCEPT !.cascade = Act("invalidated", now)]
        /\ \A g \in Facts \ {f} : mark'[g] = mark[g] /\ acts'[g] = acts[g]
    BY <2>1, SetsOne
  <2>4. /\ Human(f)' = Human(f) /\ Cascade(f)' = Act("invalidated", now)
        /\ mark'[f].status = "rejected" /\ mark'[f].auto /\ mark'[f].invalidatedBy
        /\ mark'[f].rejectedBy = mark[f].rejectedBy
        /\ mark'[f].rejectedAt = IF f.rule \in MemberRules THEN now ELSE mark[f].rejectedAt
        /\ f.rule \notin MemberRules => mark'[f].invalidatedAt = now
        /\ mark'[f].revertedAt = mark[f].revertedAt
        /\ mark'[f].reinstatedAt = mark[f].reinstatedAt
    BY <2>3, <1>2 DEF Human, Cascade, Marks, InvalidatedMark
  <2>5. f.rule \in MemberRules => ~mark[f].rejectedBy
    BY <1>3, <2>1 DEF Told, VerdictTold
  <2>6. f.rule \in MemberRules => f.rule \notin CaseFlagRules
    BY DEF MemberRules, CaseFlagRules
  <2>7. VerdictTold(f)'
    BY <1>1, <1>2, <1>3, <2>1, <2>4, <2>5 DEF Told, VerdictTold, Human
  <2>8. CascadeTold(f)'
    BY <1>1, <1>2, <1>3, <2>1, <2>2, <2>4, <2>6 DEF Told, CascadeTold, Act, Cascade
  <2>9. Decided(f)'
    <3>1. now > Human(f).at \/ Human(f).at = now
      BY <1>1, <1>2, <1>3 DEF Told, VerdictTold, Human
    <3>2. CASE now > Human(f).at
      BY <2>1, <2>4, <2>5, <3>2 DEF Decided, Act
    <3>3. CASE Human(f).at = now
      <4>1. Human(f).what = "rejected"
        BY <1>3, <2>1, <2>2, <3>3 DEF Told, VerdictTold, VetoFollows
      <4> QED BY <1>1, <2>1, <2>4, <3>3, <4>1 DEF Decided, Act
    <3> QED BY <3>1, <3>2, <3>3
  <2>10. VetoFollows(f)'
    BY <1>3, <2>1, <2>4, OthersKeepTheirVeto DEF Human
  <2>11. \A g \in Facts \ {f} : Told(g)'
    BY <1>1, <1>3, <2>1, <2>3, OthersKeepTheirTrail, OthersKeepTheirVeto DEF Told
  <2> QED BY <2>1, <2>2, <2>7, <2>8, <2>9, <2>10, <2>11 DEF AuditInv, Told
<1>8. ASSUME NEW f \in Facts, MarkReinstated(f) \/ DirectReinstate(f) PROVE AuditInv'
  <2> DEFINE m == ReinstatedMark(mark[f])
  <2>1. /\ request.kind = "revert" /\ request.phase = "walk" /\ UNCHANGED <<vetoed, request, now>>
        /\ RestsOn(f.rule) # {} /\ mark[f].auto
        /\ \/ Active(f) /\ Sets(f, m, "cascade", Act("reinstated", now))
           \/ /\ f \notin vetoed
              /\ Sets(f, [m EXCEPT !.status = "active"], "cascade", Act("reinstated", now))
    BY <1>8 DEF MarkReinstated, DirectReinstate, Walks
  <2>2. now # 0 /\ f.rule \in MemberRules \cup CaseFlagRules
    BY <2>1, OnlyDependentsWalked DEF AuditInv
  <2>3. /\ \/ mark'[f] = m /\ Active(f)
           \/ mark'[f] = [m EXCEPT !.status = "active"]
        /\ acts'[f] = [acts[f] EXCEPT !.cascade = Act("reinstated", now)]
        /\ \A g \in Facts \ {f} : mark'[g] = mark[g] /\ acts'[g] = acts[g]
    <3> HIDE DEF m
    <3>1. CASE Active(f) /\ Sets(f, m, "cascade", Act("reinstated", now))
      BY <3>1 DEF Sets, TypeOK
    <3>2. CASE Sets(f, [m EXCEPT !.status = "active"], "cascade", Act("reinstated", now))
      BY <3>2 DEF Sets, TypeOK
    <3> QED BY <2>1, <3>1, <3>2
  <2>4. /\ Human(f)' = Human(f) /\ Cascade(f)' = Act("reinstated", now)
        /\ ~mark'[f].auto /\ ~mark'[f].invalidatedBy
        /\ mark'[f].rejectedBy = mark[f].rejectedBy
        /\ mark'[f].rejectedAt = mark[f].rejectedAt
        /\ mark'[f].revertedAt = mark[f].revertedAt
        /\ mark'[f].reinstatedAt = now
    BY <2>3, <1>2 DEF Human, Cascade, Marks, ReinstatedMark
  <2>5. mark'[f].status = "active"
    BY <1>2, <2>3 DEF Active, ReinstatedMark, Marks
  <2>6. f.rule \in MemberRules => ~mark[f].rejectedBy
    BY <1>3, <2>1 DEF Told, VerdictTold, VetoFollows, Pending
  <2>7. VerdictTold(f)'
    BY <1>1, <1>2, <1>3, <2>1, <2>4, <2>6 DEF Told, VerdictTold, Human
  <2>8. CascadeTold(f)'
    BY <1>1, <1>2, <1>3, <2>1, <2>2, <2>4 DEF Told, CascadeTold, Act, Cascade
  <2>9. Decided(f)'
    BY <2>5 DEF Decided, Active
  <2>10. VetoFollows(f)'
    BY <1>3, <2>1, <2>4, OthersKeepTheirVeto DEF Human
  <2>11. \A g \in Facts \ {f} : Told(g)'
    BY <1>1, <1>3, <2>1, <2>3, OthersKeepTheirTrail, OthersKeepTheirVeto DEF Told
  <2> QED BY <2>1, <2>2, <2>7, <2>8, <2>9, <2>10, <2>11 DEF AuditInv, Told
<1>9. ASSUME Veto PROVE AuditInv'
  <2>1. /\ request.phase = "veto" /\ UNCHANGED <<mark, now, acts>>
        /\ vetoed' = IF request.kind = "reject" THEN vetoed \cup {request.of}
                     ELSE vetoed \ {request.of}
        /\ request' = [request EXCEPT !.phase = "walk"]
    BY <1>9 DEF Veto
  <2>2. request \in Requests
    BY <2>1 DEF TypeOK, NoRequest
  <2>3. request'.phase = "walk" /\ request'.kind = request.kind /\ request.kind \in {"reject", "revert"}
    BY <2>1, <2>2 DEF Requests
  <2>4. ASSUME NEW g \in Facts PROVE Told(g)'
    <3>1. VerdictTold(g)' /\ CascadeTold(g)' /\ Decided(g)'
      BY <1>1, <1>3, <2>1, OthersKeepTheirTrail
    <3>2. VetoFollows(g)'
      BY <1>3, <2>1, <2>3 DEF Told, VetoFollows, Pending, Human
    <3> QED BY <3>1, <3>2 DEF Told
  <2> QED BY <2>1, <2>3, <2>4 DEF AuditInv
<1>10. ASSUME UNCHANGED vars PROVE AuditInv'
  BY <1>10 DEF AuditInv, Told, VerdictTold, CascadeTold, Decided, VetoFollows, Pending, Human, Cascade,
     Active, vars
<1> QED BY <1>4, <1>5, <1>6, <1>7, <1>8, <1>9, <1>10 DEF Next

\* So the trail can be trusted at any time.
LEMMA AuditTrusted == Spec => [](TypeOK /\ AuditInv)
<1>1. Init => AuditInv
  BY DEF Init, AuditInv, Told, VerdictTold, CascadeTold, Decided, VetoFollows, Pending, Human, Cascade,
     Active, NewMark, NoAct, Act, NoRequest
<1>2. TypeOK /\ TypeOK' /\ AuditInv /\ [Next]_vars => AuditInv'
  BY AuditStep
<1> QED BY <1>1, <1>2, FindingsTyped, PTL DEF Spec

---------------------------------------------------------------------------
(* What the screens make of the trail.                                     *)

\* _more_recent_key_set on the rejection and the revert of a finding: the side that is
\* shown is the last verdict, when the query hands on a rejected_at only where an
\* investigator rejected.
LEMMA VerdictSide ==
    ASSUME NEW f \in Facts, TypeOK, AuditInv, NEW first, NEW second,
           first.what = "rejected", first.by = mark[f].rejectedBy,
           first.at = If(mark[f].rejectedBy, mark[f].rejectedAt),
           second.what = "reverted", second.by = (mark[f].revertedAt # 0), second.at = mark[f].revertedAt
    PROVE  /\ Shown(first, second).what = acts[f].human.what
           /\ Shown(first, second).at = acts[f].human.at
<1>1. /\ mark[f].revertedAt \in Nat /\ mark[f].rejectedAt \in Nat /\ mark[f].rejectedBy \in BOOLEAN
      /\ acts[f].human.at \in Nat
  BY FactsTyped DEF TypeOK, Times, Acts, Marks
<1>2. VerdictTold(f)
  BY DEF AuditInv, Told
<1>3. CASE acts[f].human.what = "none"
  <2>1. ~mark[f].rejectedBy /\ mark[f].revertedAt = 0 /\ acts[f].human.at = 0
    BY <1>1, <1>2, <1>3 DEF VerdictTold, Human
  <2>2. first.by = FALSE /\ second.by = FALSE
    BY <1>1, <2>1
  <2>3. Shown(first, second) = NoSide
    BY <2>2 DEF Shown
  <2> QED BY <1>3, <2>1, <2>3 DEF Side, NoSide
<1>4. CASE acts[f].human.what = "rejected"
  <2>1. mark[f].rejectedBy /\ mark[f].rejectedAt = acts[f].human.at
        /\ mark[f].revertedAt <= acts[f].human.at
    BY <1>1, <1>2, <1>4 DEF VerdictTold, Human
  <2>2. first.by = TRUE /\ first.at = acts[f].human.at /\ second.at <= first.at
    BY <1>1, <2>1 DEF If
  <2>3. Shown(first, second) = first
    BY <1>1, <2>2 DEF Shown, MoreRecent
  <2> QED BY <1>4, <2>2, <2>3
<1>5. CASE acts[f].human.what = "reverted"
  <2>1. ~mark[f].rejectedBy /\ mark[f].revertedAt = acts[f].human.at /\ acts[f].human.at # 0
    BY <1>1, <1>2, <1>5 DEF VerdictTold, Human
  <2>2. second.by = TRUE /\ first.at = 0 /\ second.at = acts[f].human.at
    BY <1>1, <2>1 DEF If
  <2>3. Shown(first, second) = second
    BY <1>1, <2>1, <2>2 DEF Shown, MoreRecent
  <2> QED BY <1>5, <2>2, <2>3
<1> QED BY <1>2, <1>3, <1>4, <1>5 DEF VerdictTold, Human

\* What the three queries of the panel hand on: a membership's says whose rejected_at
\* it is, and the others have one that a revert clears.
LEMMA PanelTells ==
    ASSUME NEW f \in Facts, TypeOK, AuditInv
    PROVE  /\ PanelTrail(f).rejected.what = "rejected"
           /\ PanelTrail(f).rejected.by = mark[f].rejectedBy
           /\ PanelTrail(f).rejected.at = If(mark[f].rejectedBy, mark[f].rejectedAt)
           /\ PanelTrail(f).reverted.what = "reverted"
           /\ PanelTrail(f).reverted.by = (mark[f].revertedAt # 0)
           /\ PanelTrail(f).reverted.at = mark[f].revertedAt
           /\ PanelTrail(f).invalidated.what = "invalidated"
           /\ PanelTrail(f).invalidated.by =
                 (f.rule \in MemberRules \cup CaseFlagRules /\ mark[f].invalidatedBy)
           /\ PanelTrail(f).invalidated.at =
                 IF f.rule \in MemberRules THEN If(mark[f].auto, mark[f].rejectedAt)
                 ELSE IF f.rule \in CaseFlagRules THEN mark[f].invalidatedAt ELSE 0
           /\ PanelTrail(f).reinstated.at = mark[f].reinstatedAt
           /\ Trimmed(PanelTrail(f)).rejected =
                 IF Rejection(PanelTrail(f)).human.what = "rejected" THEN PanelTrail(f).rejected
                 ELSE NoSide
           /\ Trimmed(PanelTrail(f)).invalidated =
                 IF Rejection(PanelTrail(f)).cascade.what = "invalidated" THEN PanelTrail(f).invalidated
                 ELSE NoSide
<1>1. mark[f].rejectedBy \in BOOLEAN /\ mark[f].invalidatedBy \in BOOLEAN
  BY DEF TypeOK, Marks
<1>2. f.rule \notin MemberRules => If(mark[f].rejectedBy, mark[f].rejectedAt) = mark[f].rejectedAt
  BY <1>1 DEF AuditInv, Told, VerdictTold, If
<1>3. f.rule \in CaseFlagRules => f.rule \notin MemberRules
  BY DEF MemberRules, CaseFlagRules
<1>4. CASE f.rule \in MemberRules
  <2>1. PanelTrail(f) = MemberTrail(mark[f])
    BY <1>4 DEF PanelTrail, MemberRules, CaseFlagRules
  <2> QED BY <1>1, <1>4, <2>1 DEF MemberTrail, Trail, Side, Trimmed
<1>5. CASE f.rule \in CaseFlagRules
  <2>1. PanelTrail(f) = FlagTrail(mark[f])
    BY <1>3, <1>5 DEF PanelTrail
  <2> QED BY <1>1, <1>2, <1>3, <1>5, <2>1 DEF FlagTrail, Trail, Side, Trimmed
<1>6. CASE f.rule \notin MemberRules \cup CaseFlagRules
  <2>1. PanelTrail(f) = PlainTrail(mark[f])
    BY <1>6 DEF PanelTrail
  <2>2. (f.rule \in MemberRules \cup CaseFlagRules /\ mark[f].invalidatedBy) = FALSE
    BY <1>6
  <2>3. f.rule \notin MemberRules /\ f.rule \notin CaseFlagRules
    BY <1>6
  <2>4. PanelTrail(f).invalidated = [what |-> "invalidated", by |-> FALSE, at |-> 0]
    BY <2>1 DEF PlainTrail, Trail, Side
  <2>5. /\ PanelTrail(f).invalidated.what = "invalidated"
        /\ PanelTrail(f).invalidated.by = FALSE
        /\ PanelTrail(f).invalidated.at = 0
    BY <2>4
  <2>6. /\ PanelTrail(f).rejected.what = "rejected"
        /\ PanelTrail(f).rejected.by = mark[f].rejectedBy
        /\ PanelTrail(f).rejected.at = If(mark[f].rejectedBy, mark[f].rejectedAt)
        /\ PanelTrail(f).reverted.what = "reverted"
        /\ PanelTrail(f).reverted.by = (mark[f].revertedAt # 0)
        /\ PanelTrail(f).reverted.at = mark[f].revertedAt
        /\ PanelTrail(f).reinstated.at = mark[f].reinstatedAt
    BY <1>1, <1>2, <2>1, <2>3 DEF PlainTrail, Trail, Side
  <2>7. /\ Trimmed(PanelTrail(f)).rejected =
             IF Rejection(PanelTrail(f)).human.what = "rejected" THEN PanelTrail(f).rejected ELSE NoSide
        /\ Trimmed(PanelTrail(f)).invalidated =
             IF Rejection(PanelTrail(f)).cascade.what = "invalidated" THEN PanelTrail(f).invalidated
             ELSE NoSide
    BY <2>1 DEF PlainTrail, Trail, Trimmed
  <2> QED BY <2>2, <2>3, <2>5, <2>6, <2>7
<1> QED BY <1>4, <1>5, <1>6

\* So the panel's human side is the last verdict.
LEMMA PanelVerdict ==
    ASSUME NEW f \in Facts, TypeOK, AuditInv
    PROVE  /\ Rejection(PanelTrail(f)).human.what = acts[f].human.what
           /\ Rejection(PanelTrail(f)).human.at = acts[f].human.at
<1>1. Rejection(PanelTrail(f)).human = Shown(PanelTrail(f).rejected, PanelTrail(f).reverted)
  BY DEF Rejection
<1> QED BY <1>1, PanelTells, VerdictSide

\* The panel of fired rules (rules_fired_view.py, build_rejection) shows the last
\* verdict on every finding, whatever the cascade and the pipeline wrote after it: for
\* any findings, any case and any number of requests.
THEOREM LastVerdictIsShown == Spec => []LastVerdictShown
<1>1. TypeOK /\ AuditInv => LastVerdictShown
  <2> SUFFICES ASSUME TypeOK, AuditInv, NEW f \in Facts
               PROVE  LET side == Rejection(PanelTrail(f)).human
                      IN Act(side.what, side.at) = acts[f].human
    BY DEF LastVerdictShown
  <2>1. acts[f].human \in Acts
    BY DEF TypeOK
  <2>2. acts[f].human = Act(acts[f].human.what, acts[f].human.at)
    BY <2>1 DEF Act, Acts
  <2> QED BY <2>2, PanelVerdict
<1> QED BY <1>1, AuditTrusted, PTL

---------------------------------------------------------------------------
(* Why a finding is rejected.                                              *)

\* What the trail says of a finding that the panel calls rejected.
LEMMA RejectedBecause ==
    ASSUME NEW f \in Facts, TypeOK, AuditInv, PanelStatus(f) = "rejected"
    PROVE  IF acts[f].cascade.at > acts[f].human.at
           THEN /\ acts[f].cascade.what = "invalidated"
                /\ f.rule \in MemberRules => ~mark[f].rejectedBy /\ mark[f].rejectedAt = acts[f].cascade.at
           ELSE acts[f].human.what = "rejected"
<1>1. VerdictTold(f) /\ CascadeTold(f) /\ Decided(f)
  BY DEF AuditInv, Told
<1>2. acts[f].human.at \in Nat /\ acts[f].cascade.at \in Nat /\ mark[f].rejectedBy \in BOOLEAN
  BY FactsTyped DEF TypeOK, Times, Acts, Marks
<1>3. CASE f.rule = "Rule_11"
  <2>1. mark[f].rejectedBy /\ acts[f].human.what = "rejected"
    BY <1>1, <1>3 DEF PanelStatus, IsRejected, VerdictTold, Human
  <2>2. acts[f].cascade.what = "none" /\ acts[f].cascade.at = 0
    BY <1>1, <1>3 DEF CascadeTold, Cascade, MemberRules, CaseFlagRules
  <2> QED BY <1>2, <2>1, <2>2
<1>4. CASE f.rule # "Rule_11"
  BY <1>1, <1>4 DEF PanelStatus, IsRejected, Decided, Human, Cascade
<1> QED BY <1>3, <1>4

\* resolve_reviewer_notation, when the cascade came last: the notation is its.
LEMMA NotationOfCascade ==
    ASSUME NEW t, NEW at \in Nat, t.rejected.by \in BOOLEAN, t.invalidated.by = TRUE,
           at # 0, t.invalidated.at \in {0, at},
           t.rejected.by => t.invalidated.at = at /\ t.rejected.at \in Nat /\ at > t.rejected.at,
           t.invalidated.at = 0 => t.rejected.at = at
    PROVE  Notation(t) = Act("invalidated", at)
<1>1. (IF t.invalidated.at = 0 THEN t.rejected.at ELSE t.invalidated.at) = at
  OBVIOUS
<1>2. CASE t.rejected.by
  BY <1>1, <1>2 DEF Notation, Act
<1>3. CASE ~t.rejected.by
  BY <1>1, <1>3 DEF Notation
<1> QED BY <1>2, <1>3

\* And when the investigator came last, it is the investigator's.
LEMMA NotationOfVerdict ==
    ASSUME NEW t, NEW at \in Nat, t.rejected.by = TRUE, t.rejected.at = at,
           t.invalidated.by \in BOOLEAN, t.invalidated.at \in Nat,
           t.invalidated.by => t.invalidated.at <= at
    PROVE  Notation(t) = Act("rejected", at)
<1>1. CASE t.invalidated.by
  BY <1>1 DEF Notation, Act
<1>2. CASE ~t.invalidated.by
  BY <1>2 DEF Notation
<1> QED BY <1>1, <1>2

\* The report's trail (its properties as they are) has the panel's sides, but that a
\* membership's rejected_at is handed on whoever wrote it, and never an invalidated_at.
LEMMA ReportTells ==
    ASSUME NEW f \in Facts, TypeOK, AuditInv
    PROVE  /\ ReportTrail(f).rejected.by = mark[f].rejectedBy
           /\ ReportTrail(f).rejected.at = mark[f].rejectedAt
           /\ ReportTrail(f).invalidated.by =
                 (f.rule \in MemberRules \cup CaseFlagRules /\ mark[f].invalidatedBy)
           /\ ReportTrail(f).invalidated.at = IF f.rule \in CaseFlagRules THEN mark[f].invalidatedAt ELSE 0
<1>1. mark[f].rejectedBy \in BOOLEAN /\ mark[f].invalidatedBy \in BOOLEAN
  BY DEF TypeOK, Marks
<1>2. CASE f.rule \in MemberRules
  <2>1. f.rule \notin CaseFlagRules
    BY <1>2 DEF MemberRules, CaseFlagRules
  <2> QED BY <1>1, <1>2, <2>1 DEF ReportTrail, Trail, Side
<1>3. CASE f.rule \notin MemberRules
  <2>1. If(mark[f].rejectedBy, mark[f].rejectedAt) = mark[f].rejectedAt
    BY <1>1, <1>3 DEF AuditInv, Told, VerdictTold, If
  <2>2. ReportTrail(f) = PanelTrail(f)
    BY <1>3 DEF ReportTrail
  <2> QED BY <1>3, <2>1, <2>2, PanelTells
<1> QED BY <1>2, <1>3

\* Whoever looks at a rejected finding is told who rejected it, an investigator or the
\* cascade, and when: in the panel's trimmed audit, in the report's notation, and, of
\* what the cascade rejected, in the rule audit; for any findings, any case and any
\* number of requests (rejection.py, cascade.py, rules_fired_view.py).
THEOREM RejectionIsExplained == Spec => []RejectionExplained
<1>1. TypeOK /\ AuditInv => RejectionExplained
  <2> SUFFICES ASSUME TypeOK, AuditInv, NEW f \in Facts, PanelStatus(f) = "rejected"
               PROVE  /\ Notation(Trimmed(PanelTrail(f))) = Deciding(f)
                      /\ Notation(ReportTrail(f)) = Deciding(f)
                      /\ Deciding(f).what = "invalidated" =>
                            AuditTrail(f) = [auto |-> TRUE, at |-> Deciding(f).at]
    BY DEF RejectionExplained
  <2> DEFINE h == acts[f].human
             c == acts[f].cascade
             p == PanelTrail(f)
             t == Trimmed(p)
             r == ReportTrail(f)
  <2>1. /\ h \in Acts /\ c \in Acts /\ h.at \in Nat /\ c.at \in Nat
        /\ mark[f].rejectedBy \in BOOLEAN /\ mark[f].auto \in BOOLEAN
        /\ mark[f].invalidatedBy \in BOOLEAN /\ mark[f].rejectedAt \in Nat
        /\ mark[f].invalidatedAt \in Nat /\ mark[f].reinstatedAt \in Nat
    BY FactsTyped DEF TypeOK, Times, Acts, Marks
  <2>2. VerdictTold(f) /\ CascadeTold(f)
    BY DEF AuditInv, Told
  <2>3. /\ p.rejected.by = mark[f].rejectedBy
        /\ p.rejected.at = If(mark[f].rejectedBy, mark[f].rejectedAt)
        /\ p.invalidated.what = "invalidated"
        /\ p.invalidated.by = (f.rule \in MemberRules \cup CaseFlagRules /\ mark[f].invalidatedBy)
        /\ p.invalidated.at = IF f.rule \in MemberRules THEN If(mark[f].auto, mark[f].rejectedAt)
                              ELSE IF f.rule \in CaseFlagRules THEN mark[f].invalidatedAt ELSE 0
        /\ p.reinstated.at = mark[f].reinstatedAt
    BY PanelTells
  <2>4. Rejection(p).human.what = h.what
    BY PanelVerdict
  <2>5. Rejection(p).cascade = Shown(p.invalidated, p.reinstated)
    BY DEF Rejection
  <2>6. /\ t.rejected = IF h.what = "rejected" THEN p.rejected ELSE NoSide
        /\ t.invalidated = IF Rejection(p).cascade.what = "invalidated" THEN p.invalidated ELSE NoSide
    BY <2>4, PanelTells
  <2>7. f.rule \in CaseFlagRules => f.rule \notin MemberRules
    BY DEF MemberRules, CaseFlagRules
  <2>8. CASE c.at > h.at
    <3>1. /\ c.what = "invalidated" /\ mark[f].auto /\ mark[f].invalidatedBy /\ c.at # 0
          /\ mark[f].reinstatedAt <= c.at /\ f.rule \in MemberRules \cup CaseFlagRules
          /\ f.rule \in MemberRules => ~mark[f].rejectedBy /\ mark[f].rejectedAt = c.at
          /\ f.rule \in CaseFlagRules => mark[f].invalidatedAt = c.at
      BY <2>1, <2>2, <2>8, RejectedBecause DEF CascadeTold, Cascade
    <3>2. Deciding(f) = Act("invalidated", c.at)
      BY <2>1, <2>8, <3>1 DEF Deciding, Act, Acts
    <3>3. p.invalidated.by = TRUE /\ p.invalidated.at = c.at
      BY <2>1, <2>3, <2>7, <3>1 DEF If
    <3>4. Rejection(p).cascade = p.invalidated
      BY <2>1, <2>3, <2>5, <3>1, <3>3 DEF Shown, MoreRecent
    <3>5. t.invalidated.by = TRUE /\ t.invalidated.at = c.at
      BY <2>3, <2>6, <3>3, <3>4
    <3>6. /\ t.rejected.by \in BOOLEAN
          /\ t.rejected.by => t.rejected.at \in Nat /\ c.at > t.rejected.at
      <4>1. CASE h.what = "rejected" /\ mark[f].rejectedBy
        <5>1. t.rejected.by = TRUE /\ t.rejected.at = h.at
          BY <2>1, <2>2, <2>3, <2>6, <4>1 DEF VerdictTold, Human, If
        <5> QED BY <2>1, <2>8, <5>1
      <4>2. CASE h.what = "rejected" /\ ~mark[f].rejectedBy
        BY <2>1, <2>3, <2>6, <4>2
      <4>3. CASE h.what # "rejected"
        BY <2>6, <4>3 DEF Side, NoSide
      <4> QED BY <4>1, <4>2, <4>3
    <3>7. Notation(t) = Act("invalidated", c.at)
      BY <2>1, <3>1, <3>5, <3>6, NotationOfCascade
    <3>8. /\ r.rejected.by = mark[f].rejectedBy /\ r.rejected.at = mark[f].rejectedAt
          /\ r.invalidated.by = TRUE
          /\ r.invalidated.at = IF f.rule \in MemberRules THEN 0 ELSE c.at
      BY <2>1, <2>7, <3>1, ReportTells
    <3>9. r.rejected.by => r.invalidated.at = c.at /\ r.rejected.at \in Nat /\ c.at > r.rejected.at
      BY <2>1, <2>2, <2>8, <3>1, <3>8 DEF VerdictTold, Human
    <3>10. Notation(r) = Act("invalidated", c.at)
      BY <2>1, <3>1, <3>8, <3>9, NotationOfCascade
    <3>11. AuditTrail(f) = [auto |-> TRUE, at |-> c.at]
      BY <2>1, <2>7, <3>1 DEF AuditTrail, If
    <3> QED BY <3>2, <3>7, <3>10, <3>11 DEF Act
  <2>9. CASE ~(c.at > h.at)
    <3>1. h.what = "rejected" /\ mark[f].rejectedBy /\ mark[f].rejectedAt = h.at
      BY <2>1, <2>2, <2>9, RejectedBecause DEF VerdictTold, Human
    <3>2. Deciding(f) = Act("rejected", h.at)
      BY <2>1, <2>9, <3>1 DEF Deciding, Act, Acts
    <3>3. t.rejected.by = TRUE /\ t.rejected.at = h.at
      BY <2>1, <2>3, <2>6, <3>1 DEF If
    <3>4. /\ p.invalidated.by \in BOOLEAN /\ p.invalidated.at \in Nat /\ r.invalidated.by \in BOOLEAN
          /\ r.invalidated.at \in Nat
          /\ p.invalidated.by => p.invalidated.at <= h.at
          /\ r.invalidated.by => r.invalidated.at <= h.at
      <4>1. CASE f.rule \in MemberRules
        <5>1. p.invalidated.at \in {0, h.at} /\ p.invalidated.by = mark[f].invalidatedBy
          BY <2>1, <2>3, <3>1, <4>1 DEF If
        <5>2. r.invalidated.at = 0 /\ r.invalidated.by = mark[f].invalidatedBy
          BY <2>1, <2>7, <4>1, ReportTells
        <5> QED BY <2>1, <5>1, <5>2
      <4>2. CASE f.rule \in CaseFlagRules
        <5>1. p.invalidated.by = mark[f].invalidatedBy /\ p.invalidated.at = mark[f].invalidatedAt
          BY <2>1, <2>3, <2>7, <4>2
        <5>2. r.invalidated.by = mark[f].invalidatedBy /\ r.invalidated.at = mark[f].invalidatedAt
          BY <2>1, <4>2, ReportTells
        <5>3. mark[f].invalidatedBy => mark[f].invalidatedAt = c.at
          BY <2>2, <4>2 DEF CascadeTold, Cascade
        <5> QED BY <2>1, <2>9, <5>1, <5>2, <5>3
      <4>3. CASE f.rule \notin MemberRules \cup CaseFlagRules
        <5>1. p.invalidated.by \in BOOLEAN /\ ~p.invalidated.by /\ p.invalidated.at = 0
          BY <2>3, <4>3
        <5>2. r.invalidated.by \in BOOLEAN /\ ~r.invalidated.by /\ r.invalidated.at = 0
          BY <4>3, ReportTells
        <5> QED BY <5>1, <5>2
      <4> QED BY <4>1, <4>2, <4>3
    <3>5. /\ t.invalidated.by \in BOOLEAN /\ t.invalidated.at \in Nat
          /\ t.invalidated.by => t.invalidated.at <= h.at
      <4>1. CASE Rejection(p).cascade.what = "invalidated"
        BY <2>6, <3>4, <4>1
      <4>2. CASE Rejection(p).cascade.what # "invalidated"
        <5>1. t.invalidated = NoSide
          BY <2>6, <4>2
        <5>2. t.invalidated.by \in BOOLEAN /\ ~t.invalidated.by /\ t.invalidated.at = 0
          BY <5>1 DEF NoSide, Side
        <5> QED BY <5>2
      <4> QED BY <4>1, <4>2
    <3>6. Notation(t) = Act("rejected", h.at)
      BY <2>1, <3>3, <3>5, NotationOfVerdict
    <3>7. r.rejected.by = TRUE /\ r.rejected.at = h.at
      BY <3>1, ReportTells
    <3>8. Notation(r) = Act("rejected", h.at)
      BY <2>1, <3>4, <3>7, NotationOfVerdict
    <3> QED BY <3>2, <3>6, <3>8 DEF Act
  <2> QED BY <2>8, <2>9
<1> QED BY <1>1, AuditTrusted, PTL

---------------------------------------------------------------------------
(* The risk of the case, from the findings that are active.                *)

\* A nonempty set of naturals has a least element, and Min is it.
LEMMA MinOfNaturals ==
    ASSUME NEW S \in SUBSET Nat, S # {}
    PROVE  Min(S) \in S /\ \A y \in S : Min(S) <= y
<1>1. PICK x \in S : \A y \in S : ~(<<y, x>> \in OpToRel(<, Nat))
  BY NatLessThanWellFounded, WFMin
<1>2. \A y \in S : ~(y < x)
  <2>1. ASSUME NEW y \in S, y < x PROVE FALSE
    <3>1. <<y, x>> \in OpToRel(<, Nat)
      BY <2>1 DEF OpToRel
    <3> QED BY <1>1, <3>1
  <2> QED BY <2>1
<1>3. \A y \in S : x <= y
  BY <1>2
<1> QED BY <1>3 DEF Min

\* A nonempty set of naturals below a bound has a greatest element, and Max is it.
LEMMA MaxOfBounded ==
    ASSUME NEW n \in Nat, NEW S \in SUBSET (0..n), S # {}
    PROVE  Max(S) \in S /\ \A y \in S : y <= Max(S)
<1> DEFINE T == {n - x : x \in S}
<1>1. T \in SUBSET Nat /\ T # {}
  OBVIOUS
<1>2. Min(T) \in T /\ \A y \in T : Min(T) <= y
  BY <1>1, MinOfNaturals
<1>3. PICK x \in S : Min(T) = n - x
  BY <1>2
<1>4. \A y \in S : x >= y
  <2>1. ASSUME NEW y \in S PROVE x >= y
    <3>1. n - x <= n - y
      BY <1>2, <1>3
    <3> QED BY <3>1
  <2> QED BY <2>1
<1> QED BY <1>4 DEF Max

\* _recency_weight falls with the years.
LEMMA WeightFalls ==
    ASSUME NEW a \in Nat, NEW b \in Nat, a <= b
    PROVE  Weight(b) <= Weight(a) /\ Weight(a) \in {4, 7, 10}
BY DEF Weight

\* GraphComponent, of its three signals
Component(a, r, s) == ((a + 100 * r) * s) \div 10

\* _size_multiplier grows with the network, and a larger signal scores no less.
LEMMA ComponentGrows ==
    ASSUME NEW r \in 0..10, NEW q \in 0..10, r <= q, NEW a \in {0, 1500}, NEW b \in {0, 1500}, a <= b,
           NEW s \in {10, 12, 15}, NEW t \in {10, 12, 15}, s <= t
    PROVE  Component(a, r, s) \in Nat /\ Component(a, r, s) <= Component(b, q, t)
<1> DEFINE x == a + 100 * r
           y == b + 100 * q
<1>1. x \in Nat /\ y \in Nat /\ x <= y
  OBVIOUS
<1> HIDE DEF x, y
<1>2. x * s \in Nat /\ y * t \in Nat /\ x * s <= y * t
  <2>1. x * s <= y * s
    <3>1. CASE s = 10 BY <1>1, <3>1
    <3>2. CASE s = 12 BY <1>1, <3>2
    <3>3. CASE s = 15 BY <1>1, <3>3
    <3> QED BY <3>1, <3>2, <3>3
  <2>2. y * s <= y * t
    <3>1. CASE s = 10 /\ t = 10 BY <1>1, <3>1
    <3>2. CASE s = 10 /\ t = 12 BY <1>1, <3>2
    <3>3. CASE s = 10 /\ t = 15 BY <1>1, <3>3
    <3>4. CASE s = 12 /\ t = 12 BY <1>1, <3>4
    <3>5. CASE s = 12 /\ t = 15 BY <1>1, <3>5
    <3>6. CASE s = 15 /\ t = 15 BY <1>1, <3>6
    <3> QED BY <3>1, <3>2, <3>3, <3>4, <3>5, <3>6
  <2>3. x * s \in Nat /\ y * s \in Nat /\ y * t \in Nat
    BY <1>1
  <2> HIDE DEF x, y
  <2> QED BY <2>1, <2>2, <2>3
<1>3. \A i, j \in Nat : i <= j => i \div 10 \in Nat /\ i \div 10 <= j \div 10
  OBVIOUS
<1>4. (x * s) \div 10 \in Nat /\ (x * s) \div 10 <= (y * t) \div 10
  BY <1>2, <1>3
<1> QED BY <1>4 DEF x, y, Component

\* The final score and tier grow with the component.
LEMMA ScoreGrows ==
    ASSUME NEW g \in Nat, NEW h \in Nat, g <= h
    PROVE  /\ Min({BaseScore + g, 10000}) <= Min({BaseScore + h, 10000})
           /\ Min({BaseScore + g, 10000}) \in Nat /\ Min({BaseScore + h, 10000}) \in Nat
<1>1. BaseScore \in Nat
  BY FactsTyped
<1>2. \A n \in Nat : LET m == Min({BaseScore + n, 10000}) IN
         m \in {BaseScore + n, 10000} /\ m <= BaseScore + n /\ m <= 10000
  <2>1. ASSUME NEW n \in Nat PROVE LET m == Min({BaseScore + n, 10000}) IN
                                  m \in {BaseScore + n, 10000} /\ m <= BaseScore + n /\ m <= 10000
    <3>1. {BaseScore + n, 10000} \in SUBSET Nat
      BY <1>1
    <3> QED BY <3>1, MinOfNaturals
  <2> QED BY <2>1
<1> DEFINE m(n) == Min({BaseScore + n, 10000})
<1>3. \A n \in Nat : m(n) \in {BaseScore + n, 10000} /\ m(n) <= BaseScore + n /\ m(n) <= 10000
  BY <1>2
<1> HIDE DEF m
<1>4. m(g) <= m(h) /\ m(g) \in Nat /\ m(h) \in Nat
  BY <1>1, <1>3
<1> QED BY <1>4 DEF m

\* The tier of a larger score is no lower.
LEMMA TierGrows ==
    ASSUME NEW a \in Nat, NEW b \in Nat, a <= b
    PROVE  /\ TierOf(a) \in 1..4 /\ TierOf(b) \in 1..4 /\ TierOf(a) <= TierOf(b)
           /\ Max({TierOf(a), 3}) <= Max({TierOf(b), 3})
           /\ TierOf(a) <= Max({TierOf(b), 3})
<1>1. TierOf(a) \in 1..4 /\ TierOf(b) \in 1..4 /\ TierOf(a) <= TierOf(b)
  BY DEF TierOf
<1>2. \A n \in 1..4 : LET m == Max({n, 3}) IN m \in {n, 3} /\ n <= m /\ 3 <= m
  <2>1. ASSUME NEW n \in 1..4 PROVE LET m == Max({n, 3}) IN m \in {n, 3} /\ n <= m /\ 3 <= m
    <3>1. {n, 3} \in SUBSET (0..4)
      OBVIOUS
    <3> QED BY <3>1, MaxOfBounded
  <2> QED BY <2>1
<1> QED BY <1>1, <1>2

\* The three signals as functions of the findings that are active.
Actives == {f \in Facts : Active(f)}
PriorsOf(A) == {f \in Of({"Rule_07"}) : f.who = {Primary} /\ f \in A}
AgesOf(A) == {YearsOf[f.item] : f \in PriorsOf(A)} \ {Undated}
RecencyOf(A) ==
    IF PriorsOf(A) = {} THEN 0 ELSE IF AgesOf(A) = {} THEN 7 ELSE Weight(Min(AgesOf(A)))
NetworksOf(A) == {Group(f) : f \in {g \in Of(MemberRules) : g.who = {Primary} /\ g \in A}}
SizesOf(A) == {0} \cup {Cardinality(group \cap A) : group \in NetworksOf(A)}
MultiplierOf(A) ==
    IF Max(SizesOf(A)) >= 7 THEN 15 ELSE IF Max(SizesOf(A)) >= 4 THEN 12 ELSE 10

\* They are the model's, before a step and after it.
LEMMA SignalsOfActives ==
    /\ Priors = PriorsOf(Actives) /\ Years = AgesOf(Actives) /\ Recency = RecencyOf(Actives)
    /\ PrimaryNetworks = NetworksOf(Actives) /\ SizeMultiplier = MultiplierOf(Actives)
    /\ Priors' = PriorsOf(Actives') /\ Years' = AgesOf(Actives') /\ Recency' = RecencyOf(Actives')
    /\ PrimaryNetworks' = NetworksOf(Actives') /\ SizeMultiplier' = MultiplierOf(Actives')
<1>1. Priors = PriorsOf(Actives) /\ PrimaryNetworks = NetworksOf(Actives)
  BY DEF Priors, PriorsOf, PrimaryNetworks, NetworksOf, Actives, Of
<1>2. Priors' = PriorsOf(Actives') /\ PrimaryNetworks' = NetworksOf(Actives')
  BY DEF Priors, PriorsOf, PrimaryNetworks, NetworksOf, Actives, Of
<1>3. Years = AgesOf(Actives) /\ Years' = AgesOf(Actives')
  BY <1>1, <1>2 DEF Years, AgesOf
<1>4. Recency = RecencyOf(Actives) /\ Recency' = RecencyOf(Actives')
  BY <1>1, <1>2, <1>3 DEF Recency, RecencyOf
<1>5. \A f \in Facts : Group(f) \subseteq Facts
  BY DEF Group
<1>6. \A group \in NetworksOf(Actives) : {f \in group : Active(f)} = group \cap Actives
  BY <1>5 DEF NetworksOf, Actives, Of
<1>7. \A group \in NetworksOf(Actives') : {f \in group : Active(f)'} = group \cap Actives'
  BY <1>5 DEF NetworksOf, Actives, Of
<1>8. NetworkSize = Max(SizesOf(Actives))
  <2>1. {Cardinality({f \in group : Active(f)}) : group \in PrimaryNetworks}
          = {Cardinality(group \cap Actives) : group \in NetworksOf(Actives)}
    BY <1>1, <1>6
  <2> QED BY <2>1 DEF NetworkSize, SizesOf
<1>9. NetworkSize' = Max(SizesOf(Actives'))
  <2>1. {Cardinality({f \in group : Active(f)'}) : group \in PrimaryNetworks'}
          = {Cardinality(group \cap Actives') : group \in NetworksOf(Actives')}
    BY <1>2, <1>7
  <2> QED BY <2>1 DEF NetworkSize, SizesOf
<1> QED BY <1>1, <1>2, <1>3, <1>4, <1>8, <1>9 DEF SizeMultiplier, MultiplierOf

\* The most recent prior case weighs no more when fewer are left, if one with a date is
\* (_resolve_prior_recency).
LEMMA RecencyFalls ==
    ASSUME NEW A, NEW B \in SUBSET A, ~(PriorsOf(B) # {} /\ AgesOf(B) = {})
    PROVE  /\ RecencyOf(B) <= RecencyOf(A)
           /\ RecencyOf(A) \in 0..10 /\ RecencyOf(B) \in 0..10
           /\ RecencyOf(B) # 0 => RecencyOf(A) # 0
<1>1. PriorsOf(B) \subseteq PriorsOf(A) /\ AgesOf(B) \subseteq AgesOf(A)
  BY DEF PriorsOf, AgesOf
<1>2. AgesOf(A) \in SUBSET Nat /\ AgesOf(B) \in SUBSET Nat
  BY RiskTyped DEF AgesOf, PriorsOf
<1>3. AgesOf(A) # {} => Min(AgesOf(A)) \in Nat /\ \A y \in AgesOf(A) : Min(AgesOf(A)) <= y
  BY <1>2, MinOfNaturals
<1>4. RecencyOf(A) \in {0, 4, 7, 10}
  BY <1>3, WeightFalls DEF RecencyOf
<1>5. CASE PriorsOf(B) = {}
  BY <1>4, <1>5 DEF RecencyOf
<1>6. CASE PriorsOf(B) # {}
  <2>1. AgesOf(B) # {} /\ AgesOf(A) # {} /\ PriorsOf(A) # {}
    BY <1>1, <1>6
  <2>2. Min(AgesOf(B)) \in AgesOf(B)
    BY <1>2, <2>1, MinOfNaturals
  <2>3. Min(AgesOf(B)) \in Nat /\ Min(AgesOf(A)) \in Nat /\ Min(AgesOf(A)) <= Min(AgesOf(B))
    BY <1>1, <1>2, <1>3, <2>1, <2>2
  <2>4. RecencyOf(B) = Weight(Min(AgesOf(B))) /\ RecencyOf(A) = Weight(Min(AgesOf(A)))
    BY <1>6, <2>1 DEF RecencyOf
  <2> QED BY <2>3, <2>4, WeightFalls
<1> QED BY <1>5, <1>6

\* The primary subject's networks grow no larger when fewer memberships are active.
LEMMA NetworksShrink ==
    ASSUME NEW A \in SUBSET Facts, NEW B \in SUBSET A
    PROVE  /\ NetworksOf(B) \subseteq NetworksOf(A)
           /\ MultiplierOf(B) <= MultiplierOf(A)
           /\ MultiplierOf(A) \in {10, 12, 15} /\ MultiplierOf(B) \in {10, 12, 15}
<1>1. NetworksOf(B) \subseteq NetworksOf(A)
  BY DEF NetworksOf
<1> DEFINE n == Cardinality(Facts)
<1>2. n \in Nat
  BY RiskTyped, FS_CardinalityType
<1>3. \A group : /\ Cardinality(group \cap A) \in 0..n /\ Cardinality(group \cap B) \in 0..n
                /\ Cardinality(group \cap B) <= Cardinality(group \cap A)
  <2> TAKE group
  <2>1. IsFiniteSet(A) /\ Cardinality(A) <= n
    BY RiskTyped, FS_Subset
  <2>2. group \cap A \in SUBSET Facts /\ group \cap B \in SUBSET (group \cap A)
    OBVIOUS
  <2>3. IsFiniteSet(group \cap A) /\ Cardinality(group \cap A) <= n
    BY <2>2, RiskTyped, FS_Subset
  <2>4. IsFiniteSet(group \cap B) /\ Cardinality(group \cap B) <= Cardinality(group \cap A)
    BY <2>2, <2>3, FS_Subset
  <2>5. Cardinality(group \cap A) \in Nat /\ Cardinality(group \cap B) \in Nat
    BY <2>3, <2>4, FS_CardinalityType
  <2> QED BY <1>2, <2>3, <2>4, <2>5
<1>4. SizesOf(A) \in SUBSET (0..n) /\ SizesOf(B) \in SUBSET (0..n)
      /\ SizesOf(A) # {} /\ SizesOf(B) # {}
  <2>1. 0 \in 0..n
    BY <1>2
  <2> HIDE DEF n
  <2> QED BY <1>3, <2>1 DEF SizesOf
<1> HIDE DEF n
<1>5. /\ Max(SizesOf(A)) \in 0..n /\ \A y \in SizesOf(A) : y <= Max(SizesOf(A))
      /\ Max(SizesOf(B)) \in SizesOf(B) /\ Max(SizesOf(B)) \in 0..n
  BY <1>2, <1>4, MaxOfBounded
<1>6. Max(SizesOf(B)) <= Max(SizesOf(A))
  <2>1. CASE Max(SizesOf(B)) = 0
    BY <1>2, <1>5, <2>1
  <2>2. CASE Max(SizesOf(B)) # 0
    <3>1. PICK group \in NetworksOf(B) : Max(SizesOf(B)) = Cardinality(group \cap B)
      BY <1>5, <2>2 DEF SizesOf
    <3>2. Cardinality(group \cap A) \in SizesOf(A)
      BY <1>1, <3>1 DEF SizesOf
    <3>3. Cardinality(group \cap A) <= Max(SizesOf(A))
      BY <1>5, <3>2
    <3> QED BY <1>2, <1>3, <1>5, <3>1, <3>3
  <2> QED BY <2>1, <2>2
<1> QED BY <1>1, <1>2, <1>5, <1>6 DEF MultiplierOf

\* Taking findings away never raises the risk score or the tier of the case, but where
\* only prior cases without a date are left (risk_signals.py): for any findings, any
\* ages, any base score.
THEOREM RejectingLowers == Spec => RejectingNeverRaises
<1>1. ASSUME \A f \in Facts : Active(f)' => Active(f), ~(Priors' # {} /\ Years' = {})
      PROVE  RiskScore' <= RiskScore /\ RiskTier' <= RiskTier
  <2> DEFINE A == Actives
             B == Actives'
  <2>1. A \in SUBSET Facts /\ B \in SUBSET A
    BY <1>1 DEF Actives
  <2>2. ~(PriorsOf(B) # {} /\ AgesOf(B) = {})
    BY <1>1, SignalsOfActives
  <2>3. /\ Recency' <= Recency /\ Recency \in 0..10 /\ Recency' \in 0..10
        /\ Recency' # 0 => Recency # 0
    BY <2>1, <2>2, RecencyFalls, SignalsOfActives
  <2>4. /\ PrimaryNetworks' \subseteq PrimaryNetworks /\ SizeMultiplier' <= SizeMultiplier
        /\ SizeMultiplier \in {10, 12, 15} /\ SizeMultiplier' \in {10, 12, 15}
    BY <2>1, NetworksShrink, SignalsOfActives
  <2>5. Rule8Signal' => Rule8Signal
    BY <2>3, <2>4 DEF Rule8Signal
  <2>6. GraphComponent \in Nat /\ GraphComponent' \in Nat /\ GraphComponent' <= GraphComponent
    <3> DEFINE a == IF Rule8Signal THEN 1500 ELSE 0
               b == IF Rule8Signal' THEN 1500 ELSE 0
    <3>1. a \in {0, 1500} /\ b \in {0, 1500} /\ b <= a
      BY <2>5
    <3>2. GraphComponent = Component(a, Recency, SizeMultiplier)
      BY DEF GraphComponent, Component
    <3>3. GraphComponent' = Component(b, Recency', SizeMultiplier')
      BY DEF GraphComponent, Component
    <3> HIDE DEF a, b
    <3>4. GraphComponent' <= GraphComponent /\ GraphComponent' \in Nat
      BY <2>3, <2>4, <3>1, <3>2, <3>3, ComponentGrows
    <3>5. GraphComponent \in Nat
      BY <2>3, <2>4, <3>1, <3>2, ComponentGrows
    <3> QED BY <3>4, <3>5
  <2>7. RiskScore' <= RiskScore /\ RiskScore \in Nat /\ RiskScore' \in Nat
    BY <2>6, ScoreGrows DEF RiskScore
  <2>8. (\E f \in Of({"Rule_13"}) : Active(f)') => \E f \in Of({"Rule_13"}) : Active(f)
    BY <1>1 DEF Of
  <2>9. RiskTier' <= RiskTier
    <3>1. /\ TierOf(RiskScore') <= TierOf(RiskScore)
          /\ Max({TierOf(RiskScore'), 3}) <= Max({TierOf(RiskScore), 3})
          /\ TierOf(RiskScore') <= Max({TierOf(RiskScore), 3})
      BY <2>7, TierGrows
    <3> QED BY <2>8, <3>1 DEF RiskTier
  <2> QED BY <2>7, <2>9
<1>2. [Next]_vars => [(\A f \in Facts : Active(f)' => Active(f)) =>
                        \/ RiskScore' <= RiskScore /\ RiskTier' <= RiskTier
                        \/ Priors' # {} /\ Years' = {}]_vars
  BY <1>1
<1> QED BY <1>2, PTL DEF Spec, RejectingNeverRaises

---------------------------------------------------------------------------
(* The panel: the blocks of the subjects' runs, merged one after another.  *)

\* _merge_rules_fired, of what the merge has and the block of one more run
Takes(rows, block) == rows \cup {r \in block : \A o \in rows : RowKey(o) # RowKey(r)}
Adds(g, s) == IF s = {} THEN {} ELSE Takes(g[s \ {Max(s)}], Block(Population[Max(s)]))
Merges(g, S) == g = [s \in SUBSET S |-> Adds(g, s)]
MergeOf(S) == (CHOOSE g : Merges(g, S))[S]
Runs == DOMAIN Population

\* The runs are finite in number, and of any of them there is a last one.
LEMMA RunsCounted ==
    /\ IsFiniteSet(Runs)
    /\ \A s \in SUBSET Runs : s # {} => Max(s) \in s
<1>1. Len(Population) \in Nat /\ Runs = 1..Len(Population)
  BY WhoTyped DEF Runs
<1>2. \A s \in SUBSET Runs : s \in SUBSET (0..Len(Population))
  BY <1>1
<1>3. IsFiniteSet(1..Len(Population))
  BY <1>1, FS_Interval
<1>4. \A s \in SUBSET Runs : s # {} => Max(s) \in s
  BY <1>1, <1>2, MaxOfBounded
<1> QED BY <1>1, <1>3, <1>4

\* A set of sets of runs has a smallest one: induction over the parts of a set.
LEMMA SmallestPart ==
    ASSUME NEW Bad, Bad \subseteq SUBSET Runs, Bad # {}
    PROVE  \E T \in Bad : \A U \in Bad : U \subseteq T => U = T
<1>1. IsWellFoundedOn(StrictSubsetOrdering(Runs), SUBSET Runs)
  <2>1. IsFiniteSet(Runs)
    BY RunsCounted
  <2> QED BY <2>1, FS_StrictSubsetOrderingWellFounded, FS_FiniteSubsetsOfFinite
<1>2. \E T \in Bad : \A U \in Bad : ~(<<U, T>> \in StrictSubsetOrdering(Runs))
  BY <1>1, WFMin
<1> QED BY <1>2 DEF StrictSubsetOrdering

\* Two merges agree on the runs they share.
LEMMA MergesAgree ==
    ASSUME NEW S \in SUBSET Runs, NEW T \in SUBSET S, NEW g, NEW h, Merges(g, S), Merges(h, T)
    PROVE  \A s \in SUBSET T : g[s] = h[s]
<1> DEFINE Bad == {s \in SUBSET T : g[s] # h[s]}
<1> SUFFICES ASSUME Bad # {} PROVE FALSE
  OBVIOUS
<1>1. PICK s \in Bad : \A u \in Bad : u \subseteq s => u = s
  <2>1. Bad \subseteq SUBSET Runs
    OBVIOUS
  <2> HIDE DEF Bad
  <2> QED BY <2>1, SmallestPart
<1>2. g[s] = Adds(g, s) /\ h[s] = Adds(h, s)
  BY DEF Merges
<1>3. s # {} => g[s \ {Max(s)}] = h[s \ {Max(s)}]
  BY <1>1, RunsCounted
<1> QED BY <1>2, <1>3 DEF Adds

\* A merge of the runs of a smaller set is part of one of more.
LEMMA MergeOfRest ==
    ASSUME NEW T \in SUBSET Runs, \A U \in SUBSET T : \E g : Merges(g, U)
    PROVE  /\ MergeOf({}) = {}
           /\ T # {} => MergeOf(T) = Takes(MergeOf(T \ {Max(T)}), Block(Population[Max(T)]))
<1> DEFINE G(U) == CHOOSE g : Merges(g, U)
<1>1. Merges(G({}), {}) /\ Merges(G(T), T) /\ Merges(G(T \ {Max(T)}), T \ {Max(T)})
  BY RunsCounted
<1>2. MergeOf({}) = {}
  BY <1>1 DEF MergeOf, Merges, Adds
<1>3. G(T)[T \ {Max(T)}] = MergeOf(T \ {Max(T)})
  BY <1>1, MergesAgree DEF MergeOf
<1>4. G(T)[T] = Adds(G(T), T)
  BY <1>1 DEF Merges
<1> QED BY <1>2, <1>3, <1>4 DEF MergeOf, Adds

\* The runs can be merged.
LEMMA MergesThere == \A T \in SUBSET Runs : \E g : Merges(g, T)
<1> DEFINE Bad == {T \in SUBSET Runs : ~\E g : Merges(g, T)}
<1> SUFFICES ASSUME Bad # {} PROVE FALSE
  OBVIOUS
<1>1. PICK T \in Bad : \A U \in Bad : U \subseteq T => U = T
  <2>1. Bad \subseteq SUBSET Runs
    OBVIOUS
  <2> HIDE DEF Bad
  <2> QED BY <2>1, SmallestPart
<1>2. \A U \in SUBSET T : U # T => \E g : Merges(g, U)
  BY <1>1
<1> DEFINE g == [s \in SUBSET T |-> IF s = {} THEN {}
                                    ELSE Takes(MergeOf(s \ {Max(s)}), Block(Population[Max(s)]))]
<1>3. ASSUME NEW U \in SUBSET T, U # T
      PROVE  g[U] = MergeOf(U)
  <2>1. U \in SUBSET Runs /\ \A V \in SUBSET U : \E h : Merges(h, V)
    BY <1>1, <1>2, <1>3
  <2>2. /\ MergeOf({}) = {}
        /\ U # {} => MergeOf(U) = Takes(MergeOf(U \ {Max(U)}), Block(Population[Max(U)]))
    BY <2>1, MergeOfRest
  <2> QED BY <2>2
<1>4. ASSUME NEW s \in SUBSET T
      PROVE  g[s] = Adds(g, s)
  <2>1. CASE s = {}
    BY <2>1 DEF Adds
  <2>2. CASE s # {}
    <3>1. s \ {Max(s)} \in SUBSET T /\ s \ {Max(s)} # T
      BY <1>1, <2>2, RunsCounted
    <3>2. g[s \ {Max(s)}] = MergeOf(s \ {Max(s)})
      BY <1>3, <3>1
    <3> QED BY <2>2, <3>2 DEF Adds
  <2> QED BY <2>1, <2>2
<1>5. Merges(g, T)
  <2> HIDE DEF g
  <2>1. g = [s \in SUBSET T |-> g[s]]
    BY DEF g
  <2> QED BY <1>4, <2>1 DEF Merges
<1> QED BY <1>1, <1>5

\* What is taken from the blocks of a set of runs: their rows, and one row of each key.
TakenOnce(T) ==
    LET rows == MergeOf(T)
    IN  /\ \A r \in rows : \E i \in T : r \in Block(Population[i])
        /\ \A i \in T : \A r \in Block(Population[i]) : \E o \in rows : o.of = r.of
        /\ \A o, p \in rows : o.of = p.of => o = p

\* In one block there is one row of each key.
LEMMA BlockRows ==
    ASSUME NEW s
    PROVE  /\ \A r \in Block(s) : \E f \in Facts : r.of = Group(f) /\ r = Row(Group(f), s)
           /\ \A o, p \in Block(s) : o.of = p.of => o = p
BY DEF Block, Row

\* So it is for any set of runs.
LEMMA AllTakenOnce == \A T \in SUBSET Runs : TakenOnce(T)
<1> DEFINE Bad == {T \in SUBSET Runs : ~TakenOnce(T)}
<1> SUFFICES ASSUME Bad # {} PROVE FALSE
  OBVIOUS
<1>1. PICK T \in Bad : \A U \in Bad : U \subseteq T => U = T
  <2>1. Bad \subseteq SUBSET Runs
    OBVIOUS
  <2> HIDE DEF Bad
  <2> QED BY <2>1, SmallestPart
<1>2. \A U \in SUBSET T : \E g : Merges(g, U)
  BY <1>1, MergesThere
<1>3. T # {}
  BY <1>1, <1>2, MergeOfRest DEF TakenOnce
<1> DEFINE x == Max(T)
           block == Block(Population[x])
           U == T \ {x}
           rest == MergeOf(U)
           rows == MergeOf(T)
<1>4. x \in T /\ U \in SUBSET Runs /\ U # T /\ T = U \cup {x}
  BY <1>1, <1>3, RunsCounted
<1>5. TakenOnce(U)
  BY <1>1, <1>4
<1>6. rows = rest \cup {r \in block : \A o \in rest : o.of # r.of}
  BY <1>1, <1>2, <1>3, MergeOfRest DEF Takes, RowKey
<1>7. /\ \A r \in rest : \E i \in U : r \in Block(Population[i])
      /\ \A i \in U : \A r \in Block(Population[i]) : \E o \in rest : o.of = r.of
      /\ \A o, p \in rest : o.of = p.of => o = p
  BY <1>5 DEF TakenOnce
<1>8. \A o, p \in block : o.of = p.of => o = p
  BY BlockRows
<1>9. \A i \in T : i \in U \/ Block(Population[i]) = block
  BY <1>4
<1>10. x \in T
  BY <1>4
<1>11. \A r \in rows : \E i \in T : r \in Block(Population[i])
  BY <1>4, <1>6, <1>7
<1>12. \A i \in T : \A r \in Block(Population[i]) : \E o \in rows : o.of = r.of
  <2> SUFFICES ASSUME NEW i \in T, NEW r \in Block(Population[i]) PROVE \E o \in rows : o.of = r.of
    OBVIOUS
  <2>1. CASE i \in U
    <3>1. PICK o \in rest : o.of = r.of
      BY <1>7, <2>1
    <3> QED BY <1>6, <3>1
  <2>2. CASE Block(Population[i]) = block
    BY <1>6, <2>2
  <2> QED BY <1>9, <2>1, <2>2
<1> HIDE DEF rest, block, rows
<1>13. \A o, p \in rows : o.of = p.of => o = p
  BY <1>6, <1>7, <1>8
<1> QED BY <1>1, <1>11, <1>12, <1>13 DEF TakenOnce, rows

\* A finding is in its own group, and in no other.
LEMMA GroupsApart ==
    ASSUME NEW f \in Facts, NEW g \in Facts, f \in Group(g)
    PROVE  f \in Group(f) /\ Group(f) = Group(g)
BY DEF Group

\* A row of the panel has a finding exactly if its group is the finding's.
LEMMA PanelRows ==
    ASSUME NEW f \in Facts, NEW row \in Merged
    PROVE  f \in row.of <=> row.of = Group(f)
<1>1. PICK i \in Runs : row \in Block(Population[i])
  <2>1. Merged = MergeOf(Runs)
    BY DEF Merged, FoldLeft, MapThenFoldSet, MergeOf, Merges, Adds, Takes, Runs
  <2> QED BY <2>1, AllTakenOnce DEF TakenOnce
<1>2. PICK g \in Facts : row.of = Group(g)
  BY <1>1, BlockRows
<1>3. f \in Group(f)
  BY DEF Group
<1> QED BY <1>2, <1>3, GroupsApart

\* Every subject's run sees the rejected findings about it.
LEMMA RejectedSeen ==
    ASSUME NEW f \in Facts, IsRejected(f), NEW s \in f.who \cap Direct
    PROVE  Seen(f, s) /\ \E i \in Runs : Population[i] = s
<1>1. s \in ScopeOf[s] /\ \E i \in Runs : Population[i] = s
  BY WhoTyped DEF Runs
<1>2. f.who \cap ScopeOf[s] # {}
  BY <1>1
<1>3. f.rule = "Rule_11" => mark[f].rejectedBy
  BY DEF IsRejected
<1> QED BY <1>1, <1>2, <1>3 DEF Seen

\* The panel has one row of a rejected finding about a subject of the case.
LEMMA PanelHasIt ==
    ASSUME NEW f \in Facts, IsRejected(f), f.who \cap Direct # {}
    PROVE  Cardinality({row \in Panel : f \in row.of}) = 1
<1>1. Merged = MergeOf(Runs) /\ TakenOnce(Runs)
  BY AllTakenOnce DEF Merged, FoldLeft, MapThenFoldSet, MergeOf, Merges, Adds, Takes, Runs
<1>2. PICK s \in f.who \cap Direct : TRUE
  OBVIOUS
<1>3. PICK i \in Runs : Population[i] = s /\ Seen(f, s)
  BY <1>2, RejectedSeen
<1>4. Row(Group(f), s) \in Block(Population[i]) /\ Row(Group(f), s).of = Group(f)
  BY <1>3 DEF Block, Row
<1>5. PICK row \in Merged : row.of = Group(f)
  BY <1>1, <1>3, <1>4 DEF TakenOnce
<1>6. row \in Panel /\ f \in row.of
  <2>1. f \in row.of
    BY <1>5, PanelRows
  <2> QED BY <1>5, <2>1 DEF Panel
<1>7. \A other \in Panel : f \in other.of => other = row
  <2> SUFFICES ASSUME NEW other \in Panel, f \in other.of PROVE other = row
    OBVIOUS
  <2>1. other \in Merged /\ other.of = Group(f)
    BY PanelRows DEF Panel
  <2> QED BY <1>1, <1>5, <2>1 DEF TakenOnce
<1>8. {other \in Panel : f \in other.of} = {row}
  BY <1>6, <1>7
<1> QED BY <1>8, FS_Singleton

\* A rejected finding of a subject of the case can always be undone, for any findings, any
\* population and any scopes around it: the panel has it, once, in whatever order the runs
\* are merged, and a revert finds it within its reach (_merge_rules_fired,
\* _filter_to_direct_subjects, _locate_and_revert).
THEOREM UndoIsOffered == Spec => []UndoOffered
<1>1. UndoOffered
  <2> SUFFICES ASSUME NEW f \in Facts, IsRejected(f), f.who \cap Direct # {}
               PROVE  /\ Cardinality({row \in Panel : f \in row.of}) = 1
                      /\ InReach(f)
                      /\ AuditLists(f) \/ (f.rule \in PairRules /\ Min(f.who) \notin CaseScope)
                      /\ f.rule \in PairRules => f \in GraphEdges
    BY DEF UndoOffered
  <2>1. Direct \subseteq CaseScope
    BY CaseTyped
  <2>2. f.rule \notin PairRules \cup CaseFlagRules => f.who \subseteq CaseScope
    BY <2>1, WhoTyped
  <2>3. f.who \cap CaseScope # {}
    BY <2>1
  <2>4. InReach(f)
    BY <2>2, <2>3 DEF InReach
  <2>5. AuditLists(f) \/ (f.rule \in PairRules /\ Min(f.who) \notin CaseScope)
    BY <2>2 DEF AuditLists
  <2>6. f.rule \in PairRules => f \in GraphEdges
    <3>1. SUFFICES ASSUME f.rule \in PairRules PROVE f \in GraphEdges
      OBVIOUS
    <3>2. f \in {g \in Of(PairRules) : g.who \cap Direct # {}}
      BY <3>1 DEF Of
    <3>3. f.who \subseteq GraphSubjects
      BY <3>2 DEF GraphSubjects
    <3>4. f.rule \notin MemberRules
      BY <3>1 DEF PairRules, MemberRules
    <3> QED BY <3>1, <3>3, <3>4 DEF GraphEdges, Of
  <2> QED BY <2>4, <2>5, <2>6, PanelHasIt
<1> QED BY <1>1, PTL DEF Spec

=============================================================================
