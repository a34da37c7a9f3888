-------------------------- MODULE InferenceReview --------------------------
(***************************************************************************)
(* Human review of inferred facts: reject_inference and revert_rejection   *)
(* (reasoning_layer/rejection.py), the cascade each of them runs over the  *)
(* facts that rest on the one reviewed (reasoning_layer/cascade.py), and   *)
(* the reasoning runs that go on beside them (reasoning_layer/pipeline.py, *)
(* rule_engine.py).                                                        *)
(*                                                                         *)
(* A request is one session.run after another, each its own transaction,   *)
(* so a request is a program counter and every statement a step: other     *)
(* requests, and the rules of a reasoning run, may come between any two.   *)
(* A step may also be the last one of its request: Neo4j goes away, or the *)
(* process does, and nothing undoes the statements already committed.      *)
(***************************************************************************)
EXTENDS InferenceGraph

CONSTANTS
    Investigators,     \* each has at most one request in flight
    Runners,           \* concurrent reasoning runs
    Reviewable,        \* the rules whose facts investigators review
    Operations,        \* what investigators ask for: "reject", "revert"
    MaxWalkDepth,      \* cascade._MAX_WALK_DEPTH
    MaxRequests,       \* bound on requests ever submitted
    MaxRuns,           \* bound on reasoning runs ever started
    MaxFailures        \* bound on requests and runs cut short

ASSUME BoundsTyped == /\ {MaxWalkDepth, MaxRequests, MaxRuns, MaxFailures} \subseteq Nat
                      /\ Reviewable \subseteq Rules
                      /\ Operations \subseteq {"reject", "revert"}

VARIABLES
    req,          \* [Investigators -> the request in flight]
    run,          \* [Runners -> the reasoning run in flight]
    lastChange,   \* [Cases -> last_inference_change_at], 0 while unset
    clock,        \* requests submitted so far; the timestamp of the latest
    runs,         \* reasoning runs started so far
    failures      \* requests and runs cut short so far

vars == <<graph, req, run, lastChange, clock, runs, failures>>

Tasks == [rule : Rules, subject : Subjects, depth : Nat]
Idle == [pc |-> "idle"]
Requests == [pc : {"veto", "unveto", "walk", "invalidate", "refire", "probe", "mark", "direct",
                   "sweep", "orphans", "touch"},
             op : {"reject", "revert"}, case : Cases, rule : Rules, key : Keys,
             affected : Seq(Subjects), at : 1..MaxRequests, todo : Seq(Tasks),
             nets : SUBSET Networks, orphans : SUBSET Subjects, type : LinkTypes \cup {"CheckSplit"}]
RunIdle == [next |-> 0]
Runs == [next : 1..Len(RuleOrder), case : Cases, subject : Subjects]

Init ==
    /\ GraphInit
    /\ req = [i \in Investigators |-> Idle]
    /\ run = [w \in Runners |-> RunIdle]
    /\ lastChange = [c \in Cases |-> 0]
    /\ clock = 0 /\ runs = 0 /\ failures = 0

---------------------------------------------------------------------------
(* What the cascade reads.                                                 *)

\* a slip: the table without the network rules' entry
DependentsOfEdgesOnly(rule) ==
    CASE rule = "Rule_01" -> <<"Rule_02">>
      [] rule = "Rule_03" -> <<"Rule_04">>
      [] rule = "Rule_05" -> <<"Rule_06">>
      [] rule = "Rule_07" -> <<"Rule_08", "Rule_13">>
      [] OTHER -> <<>>

\* DOWNSTREAM_DEPENDENTS: the rules that read what a rule writes
Dependents(rule) ==
    CASE rule = "Rule_01" -> <<"Rule_02">>
      [] rule = "Rule_03" -> <<"Rule_04">>
      [] rule = "Rule_05" -> <<"Rule_06">>
      [] rule = "Rule_07" -> <<"Rule_08", "Rule_13">>
      [] rule \in NetworkRules -> <<"Rule_08">>
      [] OTHER -> <<>>

\* one level of _walk's two loops: dependents outside, subjects inside
TasksFor(rule, subjects, depth) ==
    IF depth >= MaxWalkDepth THEN <<>> ELSE
    LET Of(d) == [n \in 1..Len(subjects) |-> [rule |-> d, subject |-> subjects[n], depth |-> depth]]
        deps == Dependents(rule)
    IN  IF deps = <<>> THEN <<>>
        ELSE IF Len(deps) = 1 THEN Of(deps[1]) ELSE Of(deps[1]) \o Of(deps[2])

ActiveEdge(type, s) ==
    \E f \in EdgeFacts : f.rel = RelationshipType(EdgeRuleOf(type)) /\ s \in {f.from, f.to} /\ Active(f)

\* _condition_still_holds for each relationship_type a dependent requires
Supports(rule, s) ==
    CASE rule \in LinkRules -> {ActiveEdge(TypeOfRule(rule), s)}
      [] rule = "Rule_08"   -> {ActivePrior(s), ActiveMember(s)}
      [] OTHER              -> {ActivePrior(s)}
AnyUpstreamHolds(rule, s) == TRUE \in Supports(rule, s)
AllUpstreamHold(rule, s) == FALSE \notin Supports(rule, s)

\* what the cascade's queries match for a dependent: memberships by network_type, not by
\* network, or the finding on the request's own case
MembershipsOf(rule, s) ==
    {f \in MemberFacts : rule \in LinkRules /\ f.from = s /\ NetworkType[f.to] = TypeOfRule(rule)}
FlagsOf(rule, case) == {f \in FlagIds : f[1] = rule /\ f[2] = case /\ rule \in CaseFlagRules}
WrittenMemberships(rule, s) == {f \in MembershipsOf(rule, s) : fact[f].status # "absent"}

WasAutoInvalidated(rule, s, case) ==
    \/ \E f \in WrittenMemberships(rule, s) : fact[f].auto
    \/ \E f \in FlagsOf(rule, case) : flag[f].auto

\* .single() takes any one of the matching memberships; a null status reads as active
ActiveReadings(rule, s, case) ==
    IF rule \in CaseFlagRules THEN {flag[f].status # "rejected" : f \in FlagsOf(rule, case)}
    ELSE IF WrittenMemberships(rule, s) = {} THEN {FALSE}
    ELSE {Active(f) : f \in WrittenMemberships(rule, s)}

\* a slip: nobody asks whether a human rejected the dependent too
ManualNotAsked(rule, s, case) == {FALSE}

\* _has_manual_rejection, under the key of the subject being walked
ManualReadings(rule, s, case) ==
    IF rule \in CaseFlagRules THEN {Vetoed(Key(rule, s, case))}
    ELSE IF WrittenMemberships(rule, s) = {} THEN {FALSE}
    ELSE {Vetoed(f) : f \in WrittenMemberships(rule, s)}

---------------------------------------------------------------------------
(* What the cascade writes: each sets graph' as a whole.                   *)

Invalidated(mark) == [mark EXCEPT !.status = "rejected", !.auto = TRUE]
Unmarked(mark) == [mark EXCEPT !.auto = FALSE]
Reinstated(mark) == [mark EXCEPT !.status = "active", !.auto = FALSE]

\* what _auto_invalidate's WHERE clauses select
LiveMemberships(rule, s) == {f \in MembershipsOf(rule, s) : Active(f)}
LiveFlags(rule, s, case) ==
    {f \in FlagsOf(rule, case) : /\ flag[f].status # "rejected"
                                 /\ rule = "Rule_08" => flag[f].subject = s}

AutoInvalidate(rule, s, case) ==
    /\ fact' = [f \in Facts |-> IF f \in LiveMemberships(rule, s) THEN Invalidated(fact[f]) ELSE fact[f]]
    /\ flag' = [f \in FlagIds |-> IF f \in LiveFlags(rule, s, case) THEN Invalidated(flag[f]) ELSE flag[f]]
    /\ UNCHANGED rejections

MarkReinstated(rule, s, case) ==
    /\ fact' = [f \in Facts |-> IF f \in LiveMemberships(rule, s) THEN Unmarked(fact[f]) ELSE fact[f]]
    /\ flag' = [f \in FlagIds |-> IF f \in FlagsOf(rule, case) THEN Unmarked(flag[f]) ELSE flag[f]]
    /\ UNCHANGED rejections

\* what _direct_reinstate's WHERE clauses select
MarkedMemberships(rule, s) == {f \in MembershipsOf(rule, s) : fact[f].auto}
MarkedFlags(rule, case) == {f \in FlagsOf(rule, case) : flag[f].auto}

DirectReinstate(rule, s, case) ==
    /\ fact' = [f \in Facts |-> IF f \in MarkedMemberships(rule, s) THEN Reinstated(fact[f]) ELSE fact[f]]
    /\ flag' = [f \in FlagIds |-> IF f \in MarkedFlags(rule, case) THEN Reinstated(flag[f]) ELSE flag[f]]
    /\ UNCHANGED rejections

---------------------------------------------------------------------------
(* reject_inference and revert_rejection                                   *)

Quiet(i) == req[i].pc = "idle"
Other == UNCHANGED <<run, runs, failures>>
Goto(i, label) == req' = [req EXCEPT ![i].pc = label]

CaseScope(c) == IF PrimaryOf[c] = None THEN {} ELSE Scope[PrimaryOf[c]]

\* the fact an investigator names, if the rule wrote it and the case's scope reaches it
FactInReach(rule, case, f) ==
    /\ rule \notin FlagRules
    /\ f \in Facts /\ f.rel = RelationshipType(rule)
    /\ rule \in NetworkRules => NetworkType[f.to] = TypeOfRule(rule)
    /\ f.from \in CaseScope(case) \/ (rule \in EdgeRules /\ f.to \in CaseScope(case))

\* case flags hang on the case itself; the subject named must be the one on record
FlagInReach(rule, case, id, s) ==
    /\ rule \in FlagRules
    /\ id \in FlagIds /\ id[1] = rule /\ flag[id].asserted
    /\ CASE rule = "Rule_08" -> id[2] = case /\ s = flag[id].subject
         [] rule = "Rule_13" -> id[2] = case /\ s = PrimaryOf[case]
         [] OTHER            -> AllegationCase[id[2]] = case /\ <<s, id[2]>> \in AttributedTo

NewRequest(i, op, case, rule, key, affected) ==
    /\ op \in Operations /\ clock < MaxRequests
    /\ clock' = clock + 1
    /\ req' = [req EXCEPT ![i] =
          [pc |-> IF op = "reject" THEN "veto" ELSE "unveto", op |-> op, case |-> case,
           rule |-> rule, key |-> key, affected |-> affected, at |-> clock + 1,
           todo |-> <<>>, nets |-> {}, orphans |-> {}, type |-> "CheckSplit"]]
    /\ UNCHANGED <<rejections, lastChange>> /\ Other

\* a slip: only one end of a symmetric edge is walked
AffectedFrom(rule, f) == <<f.from>>
AffectedBy(rule, f) == IF rule \in EdgeRules THEN <<f.from, f.to>> ELSE <<f.from>>

\* _locate_and_reject: one statement finds the instance and marks it; a request that
\* finds nothing raises InferenceNotFoundError and leaves no trace
RejectFact(i, case, rule, f) ==
    /\ Quiet(i) /\ rule \in Reviewable
    /\ FactInReach(rule, case, f) /\ Active(f)
    /\ fact' = [fact EXCEPT ![f].status = "rejected", ![f].human = "rejected"]
    /\ UNCHANGED flag
    /\ NewRequest(i, "reject", case, rule, f, AffectedBy(rule, f))

RejectFlag(i, case, rule, id, s) ==
    /\ Quiet(i) /\ rule \in Reviewable
    /\ FlagInReach(rule, case, id, s) /\ flag[id].status = "active"
    /\ flag' = [flag EXCEPT ![id].status = "rejected", ![id].human = "rejected"]
    /\ UNCHANGED fact
    /\ NewRequest(i, "reject", case, rule, Key(rule, s, id[2]), <<s>>)

\* Rule 11's revert looks for cross_case_rejected, the others for status = "rejected"
IsRejected(rule, mark) ==
    IF rule = "Rule_11" THEN mark.human = "rejected" ELSE mark.status = "rejected"

\* _locate_and_revert
RevertFact(i, case, rule, f) ==
    /\ Quiet(i) /\ rule \in Reviewable
    /\ FactInReach(rule, case, f) /\ IsRejected(rule, fact[f])
    /\ fact' = [fact EXCEPT ![f].status = "active", ![f].human = "reverted"]
    /\ UNCHANGED flag
    /\ NewRequest(i, "revert", case, rule, f, AffectedBy(rule, f))

RevertFlag(i, case, rule, id, s) ==
    /\ Quiet(i) /\ rule \in Reviewable
    /\ FlagInReach(rule, case, id, s) /\ flag[id].status = "rejected"
    /\ flag' = [flag EXCEPT ![id].status = "active", ![id].human = "reverted"]
    /\ UNCHANGED fact
    /\ NewRequest(i, "revert", case, rule, Key(rule, s, id[2]), <<s>>)

StartWalk(i) ==
    req' = [req EXCEPT ![i].pc = "walk",
                       ![i].todo = TasksFor(req[i].rule, req[i].affected, 0)]

\* a slip: from_key and to_key swapped
RecordSwapped(i) ==
    LET k == req[i].key
    IN  /\ req[i].pc = "veto"
        /\ rejections' = rejections \cup {[rel |-> k.rel, from |-> k.to, to |-> k.from,
                                            rule |-> req[i].rule, case |-> req[i].case]}
        /\ StartWalk(i)
        /\ UNCHANGED <<fact, flag, lastChange, clock>> /\ Other

\* _MERGE_REJECTION: ON CREATE only, an existing node keeps its issuer
RecordRejection(i) ==
    LET k == req[i].key
    IN  /\ req[i].pc = "veto"
        /\ rejections' = IF Vetoed(k) THEN rejections
                         ELSE rejections \cup {[rel |-> k.rel, from |-> k.from, to |-> k.to,
                                                rule |-> req[i].rule, case |-> req[i].case]}
        /\ StartWalk(i)
        /\ UNCHANGED <<fact, flag, lastChange, clock>> /\ Other

\* a slip: the revert leaves the :Rejection behind
KeepRejection(i) ==
    /\ req[i].pc = "unveto"
    /\ StartWalk(i)
    /\ UNCHANGED <<graph, lastChange, clock>> /\ Other

\* _DELETE_REJECTION: only the node this very case issued
DeleteRejection(i) ==
    LET k == req[i].key
    IN  /\ req[i].pc = "unveto"
        /\ rejections' = rejections \ {[rel |-> k.rel, from |-> k.from, to |-> k.to,
                                        rule |-> req[i].rule, case |-> req[i].case]}
        /\ StartWalk(i)
        /\ UNCHANGED <<fact, flag, lastChange, clock>> /\ Other

---------------------------------------------------------------------------
(* _walk                                                                   *)

Task(i) == Head(req[i].todo)
Skip(i) == req' = [req EXCEPT ![i].pc = "walk", ![i].todo = Tail(@)]
\* a fact that changed has its own dependents walked next, for its own subject
Descend(i) ==
    req' = [req EXCEPT ![i].pc = "walk",
              ![i].todo = TasksFor(Task(i).rule, <<Task(i).subject>>, Task(i).depth + 1) \o Tail(@)]
AtTask(i, label) == req[i].pc = label /\ req[i].todo # <<>>

\* the reads of one loop iteration decide what the write, a later statement, will be
Examine(i) ==
    LET t == Task(i)
    IN  /\ AtTask(i, "walk")
        /\ \/ /\ req[i].op = "reject" /\ ~AnyUpstreamHolds(t.rule, t.subject)
              /\ Goto(i, "invalidate")
           \/ /\ req[i].op = "revert" /\ AllUpstreamHold(t.rule, t.subject)
              /\ WasAutoInvalidated(t.rule, t.subject, req[i].case)
              /\ Goto(i, "refire")
           \/ /\ ~(req[i].op = "reject" /\ ~AnyUpstreamHolds(t.rule, t.subject))
              /\ ~(req[i].op = "revert" /\ AllUpstreamHold(t.rule, t.subject)
                     /\ WasAutoInvalidated(t.rule, t.subject, req[i].case))
              /\ Skip(i)
        /\ UNCHANGED <<graph, lastChange, clock>> /\ Other

Invalidate(i) ==
    LET t == Task(i)
    IN  /\ AtTask(i, "invalidate")
        /\ AutoInvalidate(t.rule, t.subject, req[i].case)
        /\ IF LiveMemberships(t.rule, t.subject) # {} \/ LiveFlags(t.rule, t.subject, req[i].case) # {}
           THEN Descend(i) ELSE Skip(i)
        /\ UNCHANGED <<lastChange, clock>> /\ Other

\* _reinstate: re-run the dependent's own rule, look at what became of the fact, and
\* only then clear the bookkeeping, leave a manual rejection alone, or set it directly
Refire(i) ==
    /\ AtTask(i, "refire")
    /\ Fire(Task(i).rule, req[i].case, Task(i).subject)
    /\ Goto(i, "probe")
    /\ UNCHANGED <<lastChange, clock>> /\ Other

Probe(i) ==
    LET t == Task(i)
    IN  /\ AtTask(i, "probe")
        /\ \E active \in ActiveReadings(t.rule, t.subject, req[i].case),
              manual \in ManualReadings(t.rule, t.subject, req[i].case) :
              \/ active /\ Goto(i, "mark")
              \/ ~active /\ manual /\ Skip(i)
              \/ ~active /\ ~manual /\ Goto(i, "direct")
        /\ UNCHANGED <<graph, lastChange, clock>> /\ Other

Mark(i) ==
    /\ AtTask(i, "mark")
    /\ MarkReinstated(Task(i).rule, Task(i).subject, req[i].case)
    /\ Descend(i)
    /\ UNCHANGED <<lastChange, clock>> /\ Other

Direct(i) ==
    LET t == Task(i)
    IN  /\ AtTask(i, "direct")
        /\ DirectReinstate(t.rule, t.subject, req[i].case)
        /\ IF MarkedMemberships(t.rule, t.subject) # {} \/ MarkedFlags(t.rule, req[i].case) # {}
           THEN Descend(i) ELSE Skip(i)
        /\ UNCHANGED <<lastChange, clock>> /\ Other

\* only a rejected symmetric edge is followed by the network sweep
EndWalk(i) ==
    /\ req[i].pc = "walk" /\ req[i].todo = <<>>
    /\ IF req[i].op = "reject" /\ req[i].rule \in EdgeRules
       THEN req' = [req EXCEPT ![i].pc = "sweep", ![i].nets =
              {f.to : f \in {g \in MemberFacts : /\ fact[g].status # "absent"
                                                 /\ g.from \in {req[i].key.from, req[i].key.to}
                                                 /\ NetworkType[g.to] \in LinkTypes}}]
       ELSE Goto(i, "touch")
    /\ UNCHANGED <<graph, lastChange, clock>> /\ Other

---------------------------------------------------------------------------
(* sweep_network_orphans                                                   *)

Members(net) == {f.from : f \in {g \in MemberFacts : g.to = net /\ Active(g)}}

InternalEdge(net) ==
    \E f \in EdgeFacts : /\ f.rel = RelationshipType(EdgeRuleOf(NetworkType[net]))
                         /\ f.from \in Members(net) /\ f.to \in Members(net) /\ Active(f)

\* one network: its active members are orphans unless an active edge joins two of them
SweepNetwork(i, net) ==
    /\ req[i].pc = "sweep" /\ net \in req[i].nets
    /\ req' = [req EXCEPT ![i].pc = "orphans",
                          ![i].nets = @ \ {net},
                          ![i].type = NetworkType[net],
                          ![i].orphans = IF InternalEdge(net) THEN {} ELSE Members(net)]
    /\ UNCHANGED <<graph, lastChange, clock>> /\ Other

LinkRuleOf(type) ==
    CASE type = "Employer" -> "Rule_02"
      [] type = "Address"  -> "Rule_04"
      [] OTHER             -> "Rule_06"

SweepOrphan(i, s) ==
    /\ req[i].pc = "orphans" /\ s \in req[i].orphans
    /\ AutoInvalidate(LinkRuleOf(req[i].type), s, req[i].case)
    /\ req' = [req EXCEPT ![i].orphans = @ \ {s}]
    /\ UNCHANGED <<lastChange, clock>> /\ Other

EndNetwork(i) ==
    /\ req[i].pc = "orphans" /\ req[i].orphans = {}
    /\ Goto(i, "sweep")
    /\ UNCHANGED <<graph, lastChange, clock>> /\ Other

EndSweep(i) ==
    /\ req[i].pc = "sweep" /\ req[i].nets = {}
    /\ Goto(i, "touch")
    /\ UNCHANGED <<graph, lastChange, clock>> /\ Other

\* a slip: stamped with a time that has not come yet
TouchAhead(i) ==
    /\ req[i].pc = "touch"
    /\ lastChange' = [lastChange EXCEPT ![req[i].case] = clock + 1]
    /\ req' = [req EXCEPT ![i] = Idle]
    /\ UNCHANGED <<graph, clock>> /\ Other

\* _touch_case_last_inference_change: stamped with the time the request began
Touch(i) ==
    /\ req[i].pc = "touch"
    /\ lastChange' = [lastChange EXCEPT ![req[i].case] = req[i].at]
    /\ req' = [req EXCEPT ![i] = Idle]
    /\ UNCHANGED <<graph, clock>> /\ Other

\* any statement may fail: the request ends, what it committed stays
Cut(i) ==
    /\ ~Quiet(i) /\ failures < MaxFailures
    /\ failures' = failures + 1
    /\ req' = [req EXCEPT ![i] = Idle]
    /\ UNCHANGED <<graph, run, lastChange, clock, runs>>

---------------------------------------------------------------------------
(* Reasoning runs: the rules in their order, each its own transaction.     *)

Review == <<req, lastChange, clock>>

\* subjects_for_case, widened by the one-hop scope of each
Population(c) ==
    LET direct == {s \in Subjects : AppearsIn(s, c)}
    IN  direct \cup UNION {Scope[s] : s \in direct}

\* a disabled rule is passed over without a statement; 0 when the run is over
Following(n) ==
    LET later == {m \in 1..Len(RuleOrder) : m > n /\ RuleOrder[m] \in EnabledRules}
    IN  IF later = {} THEN 0 ELSE Lead(later)

StartRun(w, case, subject) ==
    /\ run[w].next = 0 /\ runs < MaxRuns
    /\ subject \in Population(case)
    /\ run' = [run EXCEPT ![w] = IF Following(0) = 0 THEN RunIdle
                   ELSE [next |-> Following(0), case |-> case, subject |-> subject]]
    /\ runs' = runs + 1
    /\ UNCHANGED <<graph, failures>> /\ UNCHANGED Review

RunRule(w) ==
    /\ run[w].next # 0
    /\ Fire(RuleOrder[run[w].next], run[w].case, run[w].subject)
    /\ LET n == Following(run[w].next)
       IN  run' = [run EXCEPT ![w] = IF n = 0 THEN RunIdle ELSE [@ EXCEPT !.next = n]]
    /\ UNCHANGED <<runs, failures>> /\ UNCHANGED Review

AbortRun(w) ==
    /\ run[w].next # 0 /\ failures < MaxFailures
    /\ failures' = failures + 1
    /\ run' = [run EXCEPT ![w] = RunIdle]
    /\ UNCHANGED <<graph, runs>> /\ UNCHANGED Review

---------------------------------------------------------------------------
Submit(i) ==
    \E case \in Cases, rule \in Rules :
        \/ \E f \in Facts : RejectFact(i, case, rule, f) \/ RevertFact(i, case, rule, f)
        \/ \E id \in FlagIds, s \in Subjects :
              RejectFlag(i, case, rule, id, s) \/ RevertFlag(i, case, rule, id, s)

Handle(i) ==
    \/ RecordRejection(i) \/ DeleteRejection(i)
    \/ Examine(i) \/ Invalidate(i) \/ Refire(i) \/ Probe(i) \/ Mark(i) \/ Direct(i) \/ EndWalk(i)
    \/ \E net \in Networks : SweepNetwork(i, net)
    \/ \E s \in Subjects : SweepOrphan(i, s)
    \/ EndNetwork(i) \/ EndSweep(i) \/ Touch(i)

Reason(w) == RunRule(w) \/ \E c \in Cases, s \in Subjects : StartRun(w, c, s)

Next ==
    \/ \E i \in Investigators : Submit(i) \/ Handle(i) \/ Cut(i)
    \/ \E w \in Runners : Reason(w) \/ AbortRun(w)

Spec == Init /\ [][Next]_vars

---------------------------------------------------------------------------
(* Properties                                                              *)

\* Every variable keeps its type: facts and marks over the evidence, :Rejection nodes,
\* the requests and runs in flight.
TypeOK ==
    /\ GraphTypeOK
    /\ req \in [Investigators -> Requests \cup {Idle}]
    /\ run \in [Runners -> Runs \cup {RunIdle}]
    /\ lastChange \in [Cases -> 0..MaxRequests]
    /\ clock \in 0..MaxRequests /\ runs \in 0..MaxRuns /\ failures \in 0..MaxFailures

Written(key) ==
    \/ key \in Facts /\ fact[key].status # "absent"
    \/ \E id \in FlagIds : /\ key.rel = RelationshipType(id[1]) /\ key.to = id[2]
                           /\ flag[id].asserted /\ flag[id].status # "absent"

\* A :Rejection node always names a finding that some rule really wrote: a veto never
\* keeps a rule from asserting something no investigator has seen (rejection.reject_inference).
VetoNamesFinding == \A r \in rejections : Written([rel |-> r.rel, from |-> r.from, to |-> r.to])

\* the facts no cascade writes: edges, prior cases, merged cases, check-split memberships
BaseFacts ==
    EdgeFacts \cup PriorFacts \cup MergedFacts
      \cup {f \in MemberFacts : NetworkType[f.to] = "CheckSplit"}

\* Through every statement of every request, cascade and run, also where requests overlap
\* or are cut short, a base fact behaves as one that is found, rejected and reverted in
\* single steps: the module implements Verdicts (reject_inference, revert_rejection).
V == INSTANCE Verdicts WITH Findings <- BaseFacts,
                            status <- [f \in BaseFacts |-> fact[f].status],
                            word <- [f \in BaseFacts |-> fact[f].human]
VerdictsImplemented == V!Spec

RevertedByHand(f) ==
    \E i \in Investigators : Quiet(i) /\ req'[i].pc = "unveto" /\ req'[i].key = f

\* A rejected base fact stays rejected, whatever requests, cascades, reasoning runs and
\* failures come in between, until an investigator reverts that very fact
\* (the coalesce in every rule file; cascade.py's queries).
RejectionStands ==
    [][\A f \in BaseFacts :
          fact[f].status = "rejected" /\ fact'[f].status # "rejected" => RevertedByHand(f)]_vars

\* the subjects for whom run w may assert a flag: Rule 8 names one, Rule 12 takes whom the
\* wage record names, Rule 13 the subject of the run itself
AssertedFor(w, id) ==
    CASE id[1] = "Rule_08" -> {flag'[id].subject}
      [] id[1] = "Rule_12" -> {s \in Scope[run[w].subject] : <<s, id[2]>> \in WageEvidence}
      [] OTHER             -> {run[w].subject}

\* A reasoning run never revives a rejected edge, membership, prior case or merged case; a
\* rejected hub only without a veto; and a rejected flag of Rules 8, 12 or 13 only for a
\* subject no :Rejection names, who need not be the one it was rejected for
\* (the NOT EXISTS guards and the coalesce of rules/*.cypher).
RunsRespectReview ==
    [][\A w \in Runners : run'[w] # run[w] =>
          /\ \A f \in Facts : fact[f].status = "rejected" /\ fact'[f].status # "rejected"
                              => f \in HubFacts /\ ~Vetoed(f)
          /\ \A id \in FlagIds : flag[id].status = "rejected" /\ flag'[id].status # "rejected"
                              => \E s \in AssertedFor(w, id) : ~Vetoed(Key(id[1], s, id[2]))]_vars

AllQuiet == \A i \in Investigators : Quiet(i)
\* no request is under way and none was ever cut short
Settled == AllQuiet /\ failures = 0

\* With no request under way and none ever cut short, an active membership of a linked
\* network that nobody restored by hand has an active edge of the link's type under it:
\* the cascade missed no dependent (cascade_reject, sweep_network_orphans).
MembershipsFounded ==
    Settled => \A f \in MemberFacts :
        /\ Active(f) /\ fact[f].human # "reverted" /\ NetworkType[f.to] \in LinkTypes
        => ActiveEdge(NetworkType[f.to], f.from)
---------------------------------------------------------------------------
(* What comments and docstrings of the code promise, and runs refute.      *)

\* rejection.py: reverting deletes the :Rejection, which "is what actually lets the rule
\* fire again": a fact reverted by hand carries none once all is quiet (_DELETE_REJECTION).
RevertLiftsVeto == Settled => \A f \in Facts : fact[f].human = "reverted" => ~Vetoed(f)

\* pipeline.py, Principle 14: "a rejected fact is never re-asserted": a wage corroboration or
\* a fast-track recommendation an investigator rejected only comes back by a revert
\* (rule_12, rule_13).
FlagsStayRejected ==
    [][\A id \in FlagIds :
          /\ id[1] # "Rule_08"
          /\ flag[id].status = "rejected" /\ flag[id].human = "rejected"
          /\ flag'[id].status = "active"
          => \E i \in Investigators : Quiet(i) /\ req'[i].pc = "unveto"]_vars

\* cascade.py: a cascade "must NEVER override" a human rejection: a membership rejected by
\* hand, its :Rejection written, is given back by a revert of its own alone, whatever other
\* networks its subject is in (_has_manual_rejection).
ManualRejectionNeverUndone ==
    [][\A f \in MemberFacts :
          /\ fact[f].status = "rejected" /\ fact[f].human = "rejected" /\ Vetoed(f)
          /\ fact'[f].status # "rejected"
          => RevertedByHand(f)]_vars
=============================================================================
