--------------------------- MODULE InferenceGraph ---------------------------
(***************************************************************************)
(* The inferred part of the investigation graph (Neo4j): the facts the     *)
(* fourteen rules of reasoning_layer/rules write, the :Rejection nodes     *)
(* that veto them, and what one firing of one rule does to both.           *)
(*                                                                         *)
(* What the ETL and the extraction stage loaded (who shares an employer,   *)
(* which allegations are attributed to whom, which cases are closed) is    *)
(* evidence: a constant here, because nothing in this module writes it.    *)
(* A rule identifier is shortened to its number: "Rule_01" stands for      *)
(* Rule_01_Shared_Employer and so on.  Rule_14 only raises the confidence  *)
(* of a fact; confidence is abstracted, so Rule_14 has no operator.        *)
(***************************************************************************)
EXTENDS Integers, Sequences, FiniteSets

CONSTANTS
    Subjects,          \* subject_ids, compared with < as the code compares strings
    Cases,
    Allegations,
    Networks,          \* :FraudNetwork nodes (and the employer, address or alias behind each)
    None,              \* a null property
    NetworkType,       \* [Networks -> "Employer", "Address", "Identity" or "CheckSplit"]
    SharedEvidence,    \* [from, to, net]: the two subjects share the employer, address or alias of net
    NetworkEvidence,   \* the part of SharedEvidence whose allegations also qualify for Rules 2, 4, 6
    SplitEvidence,     \* [from, to, net]: co-subjects with check-split allegations (Rule 9)
    GuiltyEvidence,    \* <<subject, closed case with a guilty outcome>> (Rule 7)
    HubEvidence,       \* subjects co-listed in two cases (Rule 11)
    AttributedTo,      \* <<subject, allegation>>: ALLEGATION_LIKELY_AGAINST_SUBJECT
    WageEvidence,      \* the part of AttributedTo that a wage record corroborates (Rule 12)
    AllegationCase,    \* [Allegations -> Cases]
    LoadedIn,          \* <<subject, case>>: APPEARS_IN_CASE edges loaded by the ETL
    MergedInto,        \* <<case, case>>: MERGED_INTO_CASE edges
    PrimaryOf,         \* [Cases -> Subjects \cup {None}]
    OpenCases,         \* cases whose status is not a closed one
    FastTrackable,     \* cases above the fraud threshold and not fast-tracked
    Scope,             \* [Subjects -> SUBSET Subjects]: resolve_scope's one-hop population
    EnabledRules       \* rules whose :InferenceRule node is enabled

EdgeRules == {"Rule_01", "Rule_03", "Rule_05"}
LinkRules == {"Rule_02", "Rule_04", "Rule_06"}
NetworkRules == LinkRules \cup {"Rule_09"}
CaseFlagRules == {"Rule_08", "Rule_13"}
FlagRules == CaseFlagRules \cup {"Rule_12"}
Rules == EdgeRules \cup NetworkRules \cup FlagRules \cup {"Rule_07", "Rule_10", "Rule_11"}
LinkTypes == {"Employer", "Address", "Identity"}

\* network_type read or written by a rule (its own, or that of the edges feeding it)
TypeOfRule(rule) ==
    CASE rule \in {"Rule_01", "Rule_02"} -> "Employer"
      [] rule \in {"Rule_03", "Rule_04"} -> "Address"
      [] rule \in {"Rule_05", "Rule_06"} -> "Identity"
      [] OTHER                           -> "CheckSplit"

\* _RULE_SPECS: the relationship_type of a rule's facts and of their :Rejection keys
RelationshipType(rule) ==
    CASE rule = "Rule_01"        -> "SHARES_EMPLOYER_WITH"
      [] rule = "Rule_03"        -> "SHARES_ADDRESS_WITH"
      [] rule = "Rule_05"        -> "SHARES_ALIAS_PATTERN_WITH"
      [] rule = "Rule_07"        -> "HAS_PRIOR_GUILTY_CASE"
      [] rule = "Rule_10"        -> "APPEARS_IN_CASE"
      [] rule \in NetworkRules   -> "MEMBER_OF_FRAUD_NETWORK"
      [] rule = "Rule_11"        -> "CROSS_CASE_HUB"
      [] rule = "Rule_08"        -> "CASE_RISK_ESCALATION"
      [] rule = "Rule_13"        -> "FASTTRACK_RECOMMENDATION"
      [] OTHER                   -> "WAGE_CORROBORATION"

\* the rules whose edges of a link type feed that type's networks
EdgeRuleOf(type) ==
    CASE type = "Employer" -> "Rule_01"
      [] type = "Address"  -> "Rule_03"
      [] OTHER             -> "Rule_05"

Key(rule, from, to) == [rel |-> RelationshipType(rule), from |-> from, to |-> to]
EdgeKey(e) == Key(EdgeRuleOf(NetworkType[e.net]), e.from, e.to)
MemberKey(s, net) == Key("Rule_02", s, net)
PriorKey(s, c) == Key("Rule_07", s, c)

EdgeFacts == {EdgeKey(e) : e \in SharedEvidence}
MemberFacts == UNION {{MemberKey(e.from, e.net), MemberKey(e.to, e.net)} :
                        e \in NetworkEvidence \cup SplitEvidence}
PriorFacts == {PriorKey(g[1], g[2]) : g \in GuiltyEvidence}
MergedFacts == {Key("Rule_10", s, m[2]) : s \in Subjects, m \in MergedInto}
                  \ {Key("Rule_10", l[1], l[2]) : l \in LoadedIn}
HubFacts == {Key("Rule_11", s, s) : s \in HubEvidence}
\* every relationship or subject property the evidence lets a rule write
Facts == EdgeFacts \cup MemberFacts \cup PriorFacts \cup MergedFacts \cup HubFacts

\* Rules 8, 13 and 12 write properties of a node, at most one finding per node
FlagIds == (CaseFlagRules \X Cases) \cup ({"Rule_12"} \X Allegations)

Marks == [status : {"absent", "active", "rejected"},   \* absent: not written yet (status null)
          auto   : BOOLEAN,                            \* auto_invalidated
          human  : {"none", "rejected", "reverted"}]   \* rejected_by set / reverted_by set
FlagMarks == [status : {"absent", "active", "rejected"}, auto : BOOLEAN,
              human : {"none", "rejected", "reverted"},
              asserted : BOOLEAN,                      \* the rule's own properties are set
              subject : Subjects \cup {None}]          \* risk_escalation_subject_id
RelationshipTypes == {RelationshipType(r) : r \in Rules}
Nodes == Subjects \cup Networks \cup Cases \cup Allegations
Keys == [rel : RelationshipTypes, from : Subjects, to : Nodes]
RejectionNodes == [rel : RelationshipTypes, from : Subjects, to : Nodes, rule : Rules, case : Cases]

ASSUME SubjectsOrdered == Subjects \subseteq Nat
ASSUME EvidenceTyped ==
    /\ NetworkType \in [Networks -> LinkTypes \cup {"CheckSplit"}]
    /\ NetworkEvidence \subseteq SharedEvidence
    /\ \A e \in SharedEvidence \cup SplitEvidence :
          /\ e.from \in Subjects /\ e.to \in Subjects /\ e.from < e.to
          /\ e.net \in Networks
    /\ \A e \in SharedEvidence : NetworkType[e.net] \in LinkTypes
    /\ \A e \in SplitEvidence : NetworkType[e.net] = "CheckSplit"
ASSUME NodesTyped ==
    /\ GuiltyEvidence \subseteq Subjects \X Cases
    /\ LoadedIn \subseteq Subjects \X Cases
    /\ AttributedTo \subseteq Subjects \X Allegations /\ WageEvidence \subseteq AttributedTo
    /\ MergedInto \subseteq Cases \X Cases
    /\ HubEvidence \subseteq Subjects
    /\ AllegationCase \in [Allegations -> Cases]
    /\ PrimaryOf \in [Cases -> Subjects \cup {None}]
    /\ OpenCases \subseteq Cases /\ FastTrackable \subseteq Cases
    /\ Scope \in [Subjects -> SUBSET Subjects]
    /\ \A s \in Subjects : s \in Scope[s]
    /\ None \notin Subjects

VARIABLES
    fact,         \* [Facts -> Marks]
    flag,         \* [FlagIds -> FlagMarks]
    rejections    \* the :Rejection nodes, keyed by relationship_type, from_key, to_key

graph == <<fact, flag, rejections>>

Unwritten == [status |-> "absent", auto |-> FALSE, human |-> "none"]
UnwrittenFlag == [status |-> "absent", auto |-> FALSE, human |-> "none",
                  asserted |-> FALSE, subject |-> None]

GraphInit ==
    /\ fact = [f \in Facts |-> Unwritten]
    /\ flag = [f \in FlagIds |-> UnwrittenFlag]
    /\ rejections = {}

Active(f) == fact[f].status = "active"
Vetoed(key) == \E r \in rejections : r.rel = key.rel /\ r.from = key.from /\ r.to = key.to
\* APPEARS_IN_CASE is matched without a look at its status, by rules and routes alike
AppearsIn(s, c) ==
    \/ <<s, c>> \in LoadedIn
    \/ /\ Key("Rule_10", s, c) \in Facts
       /\ fact[Key("Rule_10", s, c)].status # "absent"

---------------------------------------------------------------------------
(* What one firing of a rule asserts, for the case, subject and scope of   *)
(* the run that fires it.                                                  *)

InScope(e, subject) == e.from \in Scope[subject] \/ e.to \in Scope[subject]

EdgesAsserted(rule, subject) ==
    {EdgeKey(e) : e \in {d \in SharedEvidence :
        /\ NetworkType[d.net] = TypeOfRule(rule)
        /\ InScope(d, subject)
        /\ ~Vetoed(EdgeKey(d))}}

PairsJoining(rule, subject) ==
    {e \in (IF rule = "Rule_09" THEN SplitEvidence ELSE NetworkEvidence) :
        /\ NetworkType[e.net] = TypeOfRule(rule)
        /\ InScope(e, subject)
        /\ rule = "Rule_09" \/ Active(EdgeKey(e))
        /\ ~Vetoed(MemberKey(e.from, e.net)) /\ ~Vetoed(MemberKey(e.to, e.net))}

MembershipsAsserted(rule, subject) ==
    UNION {{MemberKey(e.from, e.net), MemberKey(e.to, e.net)} : e \in PairsJoining(rule, subject)}

PriorsAsserted(case, subject) ==
    {PriorKey(g[1], g[2]) : g \in {h \in GuiltyEvidence :
        h[1] \in Scope[subject] /\ h[2] # case /\ AppearsIn(h[1], h[2]) /\ ~Vetoed(PriorKey(h[1], h[2]))}}

MergesAsserted(subject) ==
    {f \in MergedFacts :
        /\ f.from \in Scope[subject]
        /\ \E m \in MergedInto : m[2] = f.to /\ AppearsIn(f.from, m[1])
        /\ ~Vetoed(f)}

\* a slip: without the coalesce, asserting again revives what was rejected
AssertWithoutCoalesce(ids) ==
    /\ fact' = [f \in Facts |-> IF f \in ids THEN [fact[f] EXCEPT !.status = "active"] ELSE fact[f]]
    /\ UNCHANGED <<flag, rejections>>

\* MERGE with coalesce(r.status, "active"): only what has no status yet becomes active
Assert(ids) ==
    /\ fact' = [f \in Facts |-> IF f \in ids /\ fact[f].status = "absent"
                                THEN [fact[f] EXCEPT !.status = "active"] ELSE fact[f]]
    /\ UNCHANGED <<flag, rejections>>

\* a slip: the hub rule without its NOT EXISTS guard
AssertHubsUnguarded(subject) ==
    /\ fact' = [f \in Facts |-> IF f \in HubFacts /\ f.from \in Scope[subject]
                                THEN [fact[f] EXCEPT !.status = "active"] ELSE fact[f]]
    /\ UNCHANGED <<flag, rejections>>

\* Rule 11 sets is_cross_case without coalesce; its guard is the :Rejection alone
AssertHubs(subject) ==
    /\ fact' = [f \in Facts |-> IF f \in HubFacts /\ f.from \in Scope[subject] /\ ~Vetoed(f)
                                THEN [fact[f] EXCEPT !.status = "active"] ELSE fact[f]]
    /\ UNCHANGED <<flag, rejections>>

ActiveMember(s) == \E f \in MemberFacts : f.from = s /\ Active(f)
ActivePrior(s) == \E f \in PriorFacts : f.from = s /\ Active(f)

\* the subjects of the scope that make Rule 8 escalate case c
Recidivists(c, subject) ==
    {s \in Scope[subject] :
        /\ c \in OpenCases /\ AppearsIn(s, c)
        /\ \E f \in PriorFacts : f.from = s /\ f.to # c /\ Active(f)
        /\ ActiveMember(s)
        /\ ~Vetoed(Key("Rule_08", s, c))}

Lead(ss) == CHOOSE s \in ss : \A t \in ss : s <= t

Corroborated(al, subject) ==
    \E w \in WageEvidence :
        w[2] = al /\ w[1] \in Scope[subject] /\ ~Vetoed(Key("Rule_12", w[1], al))

FastTracks(c, case, subject) ==
    /\ c = case /\ c \in FastTrackable
    /\ ActivePrior(subject)
    /\ ~Vetoed(Key("Rule_13", subject, c))

\* the flags' SET is unconditional: no coalesce, no look at the old status
AssertFlags(rule, case, subject) ==
    /\ flag' = [f \in FlagIds |->
          IF f[1] # rule THEN flag[f]
          ELSE IF rule = "Rule_08" /\ Recidivists(f[2], subject) # {}
               THEN [flag[f] EXCEPT !.status = "active", !.asserted = TRUE,
                                    !.subject = Lead(Recidivists(f[2], subject))]
          ELSE IF \/ rule = "Rule_12" /\ Corroborated(f[2], subject)
                  \/ rule = "Rule_13" /\ FastTracks(f[2], case, subject)
               THEN [flag[f] EXCEPT !.status = "active", !.asserted = TRUE]
          ELSE flag[f]]
    /\ UNCHANGED <<fact, rejections>>

\* execute_rules for one rule: one write transaction, or nothing when the rule is disabled
Fire(rule, case, subject) ==
    \/ rule \notin EnabledRules /\ UNCHANGED graph
    \/ /\ rule \in EnabledRules
       /\ \/ rule \in EdgeRules /\ Assert(EdgesAsserted(rule, subject))
          \/ rule \in NetworkRules /\ Assert(MembershipsAsserted(rule, subject))
          \/ rule = "Rule_07" /\ Assert(PriorsAsserted(case, subject))
          \/ rule = "Rule_10" /\ Assert(MergesAsserted(subject))
          \/ rule = "Rule_11" /\ AssertHubs(subject)
          \/ rule \in FlagRules /\ AssertFlags(rule, case, subject)

\* rule.yaml: the rules in the order of wave 1, then of wave 2
RuleOrder == <<"Rule_01", "Rule_03", "Rule_05", "Rule_10", "Rule_11",
               "Rule_02", "Rule_04", "Rule_06", "Rule_07", "Rule_08",
               "Rule_09", "Rule_12", "Rule_13">>

\* Types of the inferred facts, the flags and the :Rejection nodes (the rule files).
GraphTypeOK ==
    /\ fact \in [Facts -> Marks]
    /\ flag \in [FlagIds -> FlagMarks]
    /\ rejections \subseteq RejectionNodes
=============================================================================
