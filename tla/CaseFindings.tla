---------------------------- MODULE CaseFindings ----------------------------
(***************************************************************************)
(* What the screens of one case say about its findings. A finding carries  *)
(* an audit trail that the statements of a rejection, of a revert and of   *)
(* the cascade write (reasoning_layer/rejection.py, cascade.py); the panel *)
(* of fired rules (queries/rules_fired_queries.py, rules_fired.py,         *)
(* pipeline.py, rules_fired_view.py), the rule audit, the network graph,   *)
(* the report's notation and the risk score are all read from it.          *)
(*                                                                         *)
(* Requests are given one after the other and each statement is a          *)
(* transaction; the pipeline may assert findings between any two of them.  *)
(* InferenceReview has the requests that overlap and the whole walk of the *)
(* cascade: here the walk may stop after any part of it.                   *)
(***************************************************************************)
EXTENDS Naturals, Sequences, SequencesExt, FiniteSetsExt

CONSTANTS
    Facts,          \* the findings in the graph: [rule, who, item]
    Population,     \* the subjects reasoned for the case, in order: the primary one is first
    Direct,         \* those on the case itself
    ScopeOf,        \* resolve_scope's one hop around each of them
    YearsOf,        \* how long ago a prior case was closed, or Undated
    Undated,
    BaseScore,      \* AppWorks' risk score, in ten thousandths
    FastTracked,    \* (:Case).is_fasttrack
    MaxRequests     \* how many verdicts are given

PairRules == {"Rule_01", "Rule_03", "Rule_05"}
MemberRules == {"Rule_02", "Rule_04", "Rule_06", "Rule_09"}
CaseFlagRules == {"Rule_08", "Rule_13"}
Rules == PairRules \cup MemberRules \cup CaseFlagRules
           \cup {"Rule_07", "Rule_10", "Rule_11", "Rule_12"}
Subjects == UNION {f.who : f \in Facts}
Primary == Population[1]
CaseScope == ScopeOf[Primary]
Of(rules) == {f \in Facts : f.rule \in rules}

ASSUME FactsTyped ==
    /\ Subjects \subseteq Nat /\ MaxRequests \in Nat /\ BaseScore \in 0..10000
    /\ FastTracked \in BOOLEAN
    /\ \A f \in Facts : f.rule \in Rules
ASSUME CaseTyped ==
    /\ Population # <<>> /\ Primary \in Direct
    /\ Direct \subseteq CaseScope      \* co-subjects are one hop from each other
    /\ \A i \in 1..Len(Population) : ScopeOf[Population[i]] \subseteq Nat
\* each is reasoned for and in its own scope (_reasoning_population_for_case, resolve_scope);
\* a finding other than a pair or a flag of the case is about one subject
ASSUME WhoTyped ==
    /\ Population \in Seq(Nat)
    /\ \A s \in Direct : s \in ScopeOf[s] /\ \E i \in DOMAIN Population : Population[i] = s
    /\ \A f \in Facts : f.rule \notin PairRules \cup CaseFlagRules => \E s \in f.who : f.who = {s}
ASSUME RiskTyped ==
    /\ IsFiniteSet(Facts)
    /\ \A f \in Of({"Rule_07"}) : YearsOf[f.item] \in Nat \cup {Undated}    \* _years_since: never negative

VARIABLES
    mark,           \* each finding's status and audit properties
    vetoed,         \* the findings with a :Rejection node
    request,        \* the request being served
    now,            \* its time: the number of requests so far
    acts            \* the last verdict on each finding, and the last act of the cascade

vars == <<mark, vetoed, request, now, acts>>

\* a time, and 0 for null. rejected_by and invalidated_by_rule_id are only set or
\* not; reverted_by and reinstated_by_rule_id come and stay with their times.
\* Of Rule 11's flag, status is is_cross_case and rejectedBy is cross_case_rejected
Times == 0..MaxRequests
Marks == [status : {"active", "rejected"}, rejectedBy : BOOLEAN, rejectedAt : Times,
          revertedAt : Times, auto : BOOLEAN, invalidatedBy : BOOLEAN, invalidatedAt : Times,
          reinstatedAt : Times]
NewMark == [status |-> "active", rejectedBy |-> FALSE, rejectedAt |-> 0, revertedAt |-> 0,
            auto |-> FALSE, invalidatedBy |-> FALSE, invalidatedAt |-> 0, reinstatedAt |-> 0]
Act(what, at) == [what |-> what, at |-> at]
NoAct == Act("none", 0)
Acts == [what : {"none", "rejected", "reverted", "invalidated", "reinstated"}, at : Times]

Requests == [kind : {"reject", "revert"}, of : Facts, phase : {"veto", "walk"}]
NoRequest == [kind |-> "none", phase |-> "walk"]

Init ==
    /\ mark = [f \in Facts |-> NewMark]
    /\ vetoed = {}
    /\ request = NoRequest
    /\ now = 0
    /\ acts = [f \in Facts |-> [human |-> NoAct, cascade |-> NoAct]]
---------------------------------------------------------------------------
Active(f) == mark[f].status = "active"
HoldsFor(rules, s) == \E f \in Of(rules) : s \in f.who /\ Active(f)

\* DOWNSTREAM_DEPENDENTS: what a finding rests on, one set of rules for each
\* relationship type it needs
RestsOn(rule) ==
    CASE rule = "Rule_02" -> {{"Rule_01"}}
      [] rule = "Rule_04" -> {{"Rule_03"}}
      [] rule = "Rule_06" -> {{"Rule_05"}}
      [] rule = "Rule_08" -> {{"Rule_07"}, MemberRules}
      [] rule = "Rule_13" -> {{"Rule_07"}}
      [] OTHER            -> {}
AnyHolds(f) == \E rules \in RestsOn(f.rule) : \E s \in f.who : HoldsFor(rules, s)
AllHold(f) == \A rules \in RestsOn(f.rule) : \E s \in f.who : HoldsFor(rules, s)

\* the subjects a walk from f and the sweep of their networks come to
Reached(f) ==
    LET nets == {m.item : m \in {g \in Of(MemberRules) : g.who \cap f.who # {}}}
    IN f.who \cup UNION {m.who : m \in {g \in Of(MemberRules) : g.item \in nets}}

\* _locate_and_reject and _locate_and_revert look within the case's scope
InReach(f) ==
    CASE f.rule \in PairRules                    -> f.who \cap CaseScope # {}
      [] f.rule \in CaseFlagRules \cup {"Rule_12"} -> TRUE
      [] OTHER                                   -> f.who \subseteq CaseScope
IsRejected(f) == IF f.rule = "Rule_11" THEN mark[f].rejectedBy ELSE ~Active(f)

Sets(f, m, side, act) ==
    /\ mark' = [mark EXCEPT ![f] = m]
    /\ acts' = [acts EXCEPT ![f] = [@ EXCEPT ![side] = act]]
Comes(kind, f) ==
    /\ request.phase = "walk" /\ now < MaxRequests
    /\ InReach(f)
    /\ now' = now + 1
    /\ request' = [kind |-> kind, of |-> f, phase |-> "veto"]
    /\ UNCHANGED vetoed

\* _BULK_REJECT_*
Reject(f) ==
    /\ Comes("reject", f) /\ Active(f)
    /\ Sets(f, [mark[f] EXCEPT !.status = "rejected", !.rejectedBy = TRUE,
                               !.rejectedAt = now + 1],
            "human", Act("rejected", now + 1))

\* _REVERT_*: what the cascade wrote stays
Revert(f) ==
    /\ Comes("revert", f) /\ IsRejected(f)
    /\ Sets(f, [mark[f] EXCEPT !.status = "active", !.revertedAt = now + 1,
                               !.rejectedBy = FALSE, !.rejectedAt = 0],
            "human", Act("reverted", now + 1))

\* _MERGE_REJECTION or _DELETE_REJECTION, a statement of its own
Veto ==
    /\ request.phase = "veto"
    /\ vetoed' = IF request.kind = "reject" THEN vetoed \cup {request.of}
                 ELSE vetoed \ {request.of}
    /\ request' = [request EXCEPT !.phase = "walk"]
    /\ UNCHANGED <<mark, now, acts>>
---------------------------------------------------------------------------
Walks(kind, f) ==
    /\ request.kind = kind /\ request.phase = "walk"
    /\ RestsOn(f.rule) # {} /\ f.who \cap Reached(request.of) # {}
    /\ UNCHANGED <<vetoed, request, now>>

\* _AUTO_INVALIDATE_MEMBERSHIP writes the rejected_at that a rejection writes, and
\* the case flags' query an invalidated_at of their own
InvalidatedMarkApart(f) ==     \* not in the code: a status of its own for the case flags
    IF f.rule \in MemberRules THEN [mark[f] EXCEPT !.status = "rejected", !.auto = TRUE]
    ELSE [mark[f] EXCEPT !.status = "invalidated", !.auto = TRUE]
InvalidatedMark(f) ==
    LET m == [mark[f] EXCEPT !.status = "rejected", !.auto = TRUE, !.invalidatedBy = TRUE]
    IN IF f.rule \in MemberRules THEN [m EXCEPT !.rejectedAt = now]
       ELSE [m EXCEPT !.invalidatedAt = now]
Invalidate(f) ==
    /\ Walks("reject", f) /\ Active(f) /\ ~AnyHolds(f)
    /\ Sets(f, InvalidatedMark(f), "cascade", Act("invalidated", now))

ReinstatedMark(m) ==
    [m EXCEPT !.auto = FALSE, !.invalidatedBy = FALSE, !.invalidatedAt = 0, !.reinstatedAt = now]
\* _mark_reinstated, once the rule itself has made the finding active
MarkReinstated(f) ==
    /\ Walks("revert", f) /\ mark[f].auto /\ AllHold(f) /\ Active(f)
    /\ Sets(f, ReinstatedMark(mark[f]), "cascade", Act("reinstated", now))
\* _direct_reinstate, when it has not and no investigator rejected it
DirectReinstate(f) ==
    /\ Walks("revert", f) /\ mark[f].auto /\ AllHold(f)
    /\ ~Active(f) /\ f \notin vetoed
    /\ Sets(f, [ReinstatedMark(mark[f]) EXCEPT !.status = "active"],
            "cascade", Act("reinstated", now))

\* a run of the pipeline: edges keep the status they have (coalesce), while these
\* four rules set theirs, guarded by the :Rejection alone
Reassert(f) ==
    /\ f.rule \in CaseFlagRules \cup {"Rule_11", "Rule_12"}
    /\ AllHold(f) /\ f \notin vetoed /\ ~Active(f)
    /\ mark' = [mark EXCEPT ![f].status = "active"]
    /\ UNCHANGED <<vetoed, request, now, acts>>

Next ==
    \/ \E f \in Facts :
         \/ Reject(f) \/ Revert(f) \/ Reassert(f)
         \/ Invalidate(f) \/ MarkReinstated(f) \/ DirectReinstate(f)
    \/ Veto

Spec == Init /\ [][Next]_vars
---------------------------------------------------------------------------
\* The audit map of a row, as the query of each kind of finding returns it
Side(what, by, at) == [what |-> what, by |-> by, at |-> at]
Trail(m, rejectedAt, invalidatedBy, invalidatedAt) ==
    [rejected    |-> Side("rejected", m.rejectedBy, rejectedAt),
     reverted    |-> Side("reverted", m.revertedAt # 0, m.revertedAt),
     invalidated |-> Side("invalidated", invalidatedBy, invalidatedAt),
     reinstated  |-> Side("reinstated", m.reinstatedAt # 0, m.reinstatedAt)]
If(condition, at) == IF condition THEN at ELSE 0

PlainTrail(m) == Trail(m, m.rejectedAt, FALSE, 0)
\* a membership's one rejected_at stands for both kinds of act
MemberTrailUnmasked(m) ==       \* not in the code: whoever wrote it
    Trail(m, m.rejectedAt, m.invalidatedBy, If(m.auto, m.rejectedAt))
MemberTrail(m) ==
    Trail(m, If(m.rejectedBy, m.rejectedAt), m.invalidatedBy, If(m.auto, m.rejectedAt))
FlagTrail(m) == Trail(m, m.rejectedAt, m.invalidatedBy, m.invalidatedAt)
PanelTrail(f) ==
    CASE f.rule \in MemberRules   -> MemberTrail(mark[f])
      [] f.rule \in CaseFlagRules -> FlagTrail(mark[f])
      [] OTHER                    -> PlainTrail(mark[f])
\* the report reads a membership's properties as they are: it never has an invalidated_at
ReportTrail(f) ==
    IF f.rule \in MemberRules THEN Trail(mark[f], mark[f].rejectedAt, mark[f].invalidatedBy, 0)
    ELSE PanelTrail(f)
\* the rule audit has the cascade's columns only
AuditTrail(f) ==
    [auto |-> mark[f].auto,
     at   |-> IF f.rule \in MemberRules THEN If(mark[f].auto, mark[f].rejectedAt)
              ELSE mark[f].invalidatedAt]

\* _more_recent_key_set
MoreRecent(first, second) ==
    IF first.at = 0 /\ second.at = 0 THEN (IF first.by THEN first ELSE second)
    ELSE IF first.at >= second.at THEN first ELSE second
NoSide == Side("none", FALSE, 0)
Shown(first, second) == IF first.by \/ second.by THEN MoreRecent(first, second) ELSE NoSide

\* build_rejection: of either pair the side that came last, if somebody stands behind it
Rejection(trail) == [human   |-> Shown(trail.rejected, trail.reverted),
                     cascade |-> Shown(trail.invalidated, trail.reinstated)]
Trimmed(trail) ==
    LET shown == Rejection(trail) IN
    [trail EXCEPT !.rejected = IF shown.human.what = "rejected" THEN @ ELSE NoSide,
                  !.invalidated = IF shown.cascade.what = "invalidated" THEN @ ELSE NoSide]

\* resolve_reviewer_notation: which of the two explains a finding that is excluded
NotationTied(trail) ==      \* not in the code: a tie goes to the cascade
    LET human == Act("rejected", trail.rejected.at)
        at == IF trail.invalidated.at = 0 THEN trail.rejected.at ELSE trail.invalidated.at
        cascade == Act("invalidated", at)
    IN CASE trail.rejected.by /\ trail.invalidated.by -> IF at >= human.at THEN cascade ELSE human
         [] trail.rejected.by /\ ~trail.invalidated.by -> human
         [] ~trail.rejected.by /\ trail.invalidated.by -> cascade
         [] OTHER -> NoAct
Notation(trail) ==
    LET human == Act("rejected", trail.rejected.at)
        at == IF trail.invalidated.at = 0 THEN trail.rejected.at ELSE trail.invalidated.at
        cascade == Act("invalidated", at)
    IN CASE trail.rejected.by /\ trail.invalidated.by -> IF at > human.at THEN cascade ELSE human
         [] trail.rejected.by /\ ~trail.invalidated.by -> human
         [] ~trail.rejected.by /\ trail.invalidated.by -> cascade
         [] OTHER -> NoAct
---------------------------------------------------------------------------
\* The panel. One row stands for a pair or a flag, or for a whole network
PanelStatus(f) == IF IsRejected(f) THEN "rejected" ELSE "active"
Group(f) ==
    IF f.rule \in MemberRules THEN {g \in Facts : g.rule = f.rule /\ g.item = f.item} ELSE {f}

\* the WHERE of the finding's query in the run of subject s
SeenActive(f, s) ==      \* not in the code: a hub only while it is one
    CASE f.rule \in CaseFlagRules -> TRUE
      [] f.rule = "Rule_04"       -> f.who \cap ScopeOf[s] # {}
      [] f.rule = "Rule_11"       -> s \in f.who /\ Active(f)
      [] OTHER                    -> s \in f.who
Seen(f, s) ==
    CASE f.rule \in CaseFlagRules -> TRUE
      [] f.rule = "Rule_04"       -> f.who \cap ScopeOf[s] # {}
      [] f.rule = "Rule_11"       -> s \in f.who /\ (Active(f) \/ mark[f].rejectedBy)
      [] OTHER                    -> s \in f.who

\* a network is active while a membership that the query saw is
Row(group, s) ==
    [of |-> group, anchor |-> s,
     status |-> IF \E f \in group : Seen(f, s) /\ PanelStatus(f) = "active"
                THEN "active" ELSE "rejected"]
Block(s) == {Row(Group(f), s) : f \in {g \in Facts : Seen(g, s)}}

\* _merge_rules_fired: a row that an earlier block had is not taken again
KeyAnchored(row) == <<row.of, row.anchor>>      \* not in the code: the anchor in the key
RowKey(row) == row.of
Merged ==
    FoldLeft(LAMBDA rows, s : rows \cup {r \in Block(s) : \A o \in rows : RowKey(o) # RowKey(r)},
             {}, Population)
\* _filter_to_direct_subjects
Panel == {row \in Merged : \E f \in row.of : f.who \cap Direct # {}}

RuleOf(row) == (CHOOSE f \in row.of : TRUE).rule
\* the fired of a rule, for the case: evidence_count counts the rejected rows too
CaseFired(rule) == \E row \in Panel : RuleOf(row) = rule

\* the rule audit's list, by the primary subject's scope: a pair by its lower end
AuditLists(f) ==
    CASE f.rule \in PairRules     -> Min(f.who) \in CaseScope
      [] f.rule \in CaseFlagRules -> TRUE
      [] OTHER                    -> f.who \subseteq CaseScope

\* get_fraud_network: the case's subjects, those linked to them and those of their
\* networks, and every edge between any two nodes of these
GraphSubjects ==
    Direct \cup UNION {f.who : f \in {g \in Of(PairRules) : g.who \cap Direct # {}}}
           \cup UNION {f.who : f \in UNION {Group(g) : g \in {h \in Of(MemberRules) :
                                                                h.who \subseteq Direct}}}
GraphEdges == {f \in Of(PairRules \cup MemberRules) :
                 /\ f.who \subseteq GraphSubjects
                 /\ f.rule \in MemberRules => \E g \in Group(f) : g.who \subseteq Direct}
---------------------------------------------------------------------------
\* apply_graph_risk_signals, in ten thousandths
Priors == {f \in Of({"Rule_07"}) : f.who = {Primary} /\ Active(f)}
Years == {YearsOf[f.item] : f \in Priors} \ {Undated}
Weight(years) == IF years < 2 THEN 10 ELSE IF years <= 5 THEN 7 ELSE 4
\* _resolve_prior_recency: the most recent prior case that has a date
RecencyOfOldest ==      \* not in the code: the oldest one
    IF Priors = {} THEN 0 ELSE IF Years = {} THEN 7 ELSE Weight(Max(Years))
Recency ==
    IF Priors = {} THEN 0 ELSE IF Years = {} THEN 7 ELSE Weight(Min(Years))

PrimaryNetworks ==
    {Group(f) : f \in {g \in Of(MemberRules) : g.who = {Primary} /\ Active(g)}}
NetworkSize ==
    Max({0} \cup {Cardinality({f \in group : Active(f)}) : group \in PrimaryNetworks})
SizeMultiplier == IF NetworkSize >= 7 THEN 15 ELSE IF NetworkSize >= 4 THEN 12 ELSE 10
Rule8Signal == Recency # 0 /\ PrimaryNetworks # {}
GraphComponent ==
    (((IF Rule8Signal THEN 1500 ELSE 0) + 100 * Recency) * SizeMultiplier) \div 10
RiskScore == Min({BaseScore + GraphComponent, 10000})
TierOf(score) == IF score >= 7500 THEN 4 ELSE IF score >= 5000 THEN 3
                 ELSE IF score >= 2500 THEN 2 ELSE 1
RiskTier == IF FastTracked \/ (\E f \in Of({"Rule_13"}) : Active(f))
            THEN Max({TierOf(RiskScore), 3}) ELSE TierOf(RiskScore)
---------------------------------------------------------------------------
\* The audit properties keep their shape: what a rejection, a revert and the cascade
\* write to one finding are the properties the queries know, and no status of its own
\* (_BULK_REJECT_*, _AUTO_INVALIDATE_*).
TypeOK ==
    /\ mark \in [Facts -> Marks]
    /\ vetoed \subseteq Facts
    /\ request \in Requests \cup {NoRequest}
    /\ now \in Times
    /\ acts \in [Facts -> [human : Acts, cascade : Acts]]

\* The act that made a finding what it is
Deciding(f) == IF acts[f].cascade.at > acts[f].human.at THEN acts[f].cascade ELSE acts[f].human

\* Whoever looks at a rejected finding is told who rejected it, an investigator or the
\* cascade, and when: in the panel's trimmed audit, in the report's notation, and, of
\* what the cascade rejected, in the rule audit. The two kinds of rejection share a
\* property of a membership and leave their own behind them when they are undone
RejectionExplained ==
    \A f \in Facts : PanelStatus(f) = "rejected" =>
        /\ Notation(Trimmed(PanelTrail(f))) = Deciding(f)
        /\ Notation(ReportTrail(f)) = Deciding(f)
        /\ Deciding(f).what = "invalidated" =>
              AuditTrail(f) = [auto |-> TRUE, at |-> Deciding(f).at]

\* The panel shows the last verdict on every finding, also when the cascade or a run of
\* the rules came after it
LastVerdictShown ==
    \A f \in Facts :
        LET side == Rejection(PanelTrail(f)).human
        IN Act(side.what, side.at) = acts[f].human

\* A rejected finding of a subject of the case can be undone: the panel has it, once,
\* whichever subjects' runs saw it, and a revert would find it; the rule audit has it
\* too, unless it is a pair whose lower end is out of scope, and so has the graph if it
\* draws it
UndoOffered ==
    \A f \in Facts : IsRejected(f) /\ f.who \cap Direct # {} =>
        /\ Cardinality({row \in Panel : f \in row.of}) = 1
        /\ InReach(f)
        /\ AuditLists(f) \/ (f.rule \in PairRules /\ Min(f.who) \notin CaseScope)
        /\ f.rule \in PairRules => f \in GraphEdges

\* Taking findings away never raises the risk of the case, but for the prior case
\* whose closing date nobody knows: it weighs more than an old one, and counts only
\* when no prior case that has a date is left
RejectingNeverRaises ==
    [][(\A f \in Facts : Active(f)' => Active(f)) =>
         \/ RiskScore' <= RiskScore /\ RiskTier' <= RiskTier
         \/ Priors' # {} /\ Years' = {}]_vars

\* reasoning_layer/rules_fired.py: "A rule whose only findings were rejected reports
\* fired=false", and "a fact an investigator has explicitly rejected must never be
\* handed to any of them as live evidence"
RejectedNotFired ==
    \A rule \in Rules : CaseFired(rule) => \E row \in Panel : RuleOf(row) = rule
                                                          /\ row.status = "active"
=============================================================================
