----------------------- MODULE InferenceReviewProofs -----------------------
(***************************************************************************)
(* What holds of InferenceReview for every graph, every number of          *)
(* investigators and reasoning runs, and every bound.  What the cascade    *)
(* leaves behind is in the last three parts: vetoes, memberships rejected  *)
(* by hand and escalations, each with the exceptions ReviewHistory keeps   *)
(* for what the code does not promise.                                     *)
(***************************************************************************)
EXTENDS ReviewHistory, TLAPS, WellFoundedInduction, SequenceTheorems

\* A nonempty set of naturals has the least element Lead picks (rule_08's reduce).
LEMMA LeadInSet ==
    ASSUME NEW S \in SUBSET Nat, S # {}
    PROVE  Lead(S) \in S
<1>1. \E x \in S : \A y \in S : ~ (<<y, x>> \in OpToRel(<, Nat))
  BY NatLessThanWellFounded, WFMin
<1>2. PICK x \in S : \A y \in S : ~ (<<y, x>> \in OpToRel(<, Nat))
  BY <1>1
<1>3. \A y \in S : ~ (y < x)
  <2>1. ASSUME NEW y \in S, y < x PROVE FALSE
    <3>1. <<y, x>> \in Nat \X Nat OBVIOUS
    <3>2. <<y, x>>[1] < <<y, x>>[2] BY <2>1
    <3>3. <<y, x>> \in OpToRel(<, Nat) BY <3>1, <3>2 DEF OpToRel
    <3> QED BY <3>3, <1>2
  <2> QED BY <2>1
<1>4. \A y \in S : x <= y
  BY <1>3
<1> QED BY <1>4 DEF Lead

---------------------------------------------------------------------------
(* Every way the graph is written keeps its type.                          *)

\* Asserting findings keeps the types of facts and marks (rules/*.cypher, MERGE).
LEMMA AssertTyped ==
    ASSUME GraphTypeOK, NEW ids, Assert(ids)
    PROVE  GraphTypeOK'
BY DEF GraphTypeOK, Assert, Marks

\* Rule 11's firing keeps them too.
LEMMA HubsTyped ==
    ASSUME GraphTypeOK, NEW subject, AssertHubs(subject)
    PROVE  GraphTypeOK'
BY DEF GraphTypeOK, AssertHubs, Marks

\* So do the findings written onto cases and allegations: an escalation names a subject of the scope.
LEMMA FlagsTyped ==
    ASSUME GraphTypeOK, NEW rule, NEW case, NEW subject \in Subjects, AssertFlags(rule, case, subject)
    PROVE  GraphTypeOK'
<1>1. \A c : Recidivists(c, subject) # {} => Lead(Recidivists(c, subject)) \in Subjects
  <2>1. \A c : Recidivists(c, subject) \subseteq Subjects
    BY NodesTyped DEF Recidivists
  <2> QED BY <2>1, LeadInSet, SubjectsOrdered
<1>2. flag' \in [FlagIds -> FlagMarks]
  BY ZenonT(30), <1>1 DEF GraphTypeOK, AssertFlags, FlagMarks
<1> QED BY <1>2 DEF GraphTypeOK, AssertFlags

\* Hence one firing of any rule does (rule_engine.execute_rules).
LEMMA FireTyped ==
    ASSUME GraphTypeOK, NEW rule, NEW case, NEW subject \in Subjects, Fire(rule, case, subject)
    PROVE  GraphTypeOK'
<1>1. CASE UNCHANGED graph
  BY <1>1 DEF GraphTypeOK, graph
<1>2. CASE \E ids : Assert(ids)
  BY <1>2, AssertTyped
<1>3. CASE AssertHubs(subject)
  BY <1>3, HubsTyped
<1>4. CASE AssertFlags(rule, case, subject)
  BY <1>4, FlagsTyped
<1> QED BY <1>1, <1>2, <1>3, <1>4 DEF Fire

\* The three ways a cascade changes one mark keep it a mark (cascade.py's SET clauses).
LEMMA MarksTyped ==
    ASSUME NEW m \in Marks
    PROVE  Invalidated(m) \in Marks /\ Unmarked(m) \in Marks /\ Reinstated(m) \in Marks
BY DEF Marks, Invalidated, Unmarked, Reinstated

\* The same of a finding on a node (_CASE_FLAG_FIELDS).
LEMMA FlagMarksTyped ==
    ASSUME NEW m \in FlagMarks
    PROVE  Invalidated(m) \in FlagMarks /\ Unmarked(m) \in FlagMarks /\ Reinstated(m) \in FlagMarks
BY DEF FlagMarks, Invalidated, Unmarked, Reinstated

\* _auto_invalidate, _mark_reinstated and _direct_reinstate keep the graph's type.
LEMMA InvalidateTyped ==
    ASSUME GraphTypeOK, NEW rule, NEW s, NEW case, AutoInvalidate(rule, s, case)
    PROVE  GraphTypeOK'
BY MarksTyped, FlagMarksTyped DEF GraphTypeOK, AutoInvalidate

\* The bookkeeping cleared by _mark_reinstated is typed.
LEMMA MarkTyped ==
    ASSUME GraphTypeOK, NEW rule, NEW s, NEW case, MarkReinstated(rule, s, case)
    PROVE  GraphTypeOK'
BY MarksTyped, FlagMarksTyped DEF GraphTypeOK, MarkReinstated

\* And so is what _direct_reinstate gives back.
LEMMA DirectTyped ==
    ASSUME GraphTypeOK, NEW rule, NEW s, NEW case, DirectReinstate(rule, s, case)
    PROVE  GraphTypeOK'
BY MarksTyped, FlagMarksTyped DEF GraphTypeOK, DirectReinstate

---------------------------------------------------------------------------
(* The work list of a request.                                             *)

\* Every dependent is a rule, and a rule has at most two (DOWNSTREAM_DEPENDENTS).
LEMMA DependentsTyped ==
    ASSUME NEW rule \in Rules
    PROVE  \/ Dependents(rule) = <<>>
           \/ \E a \in Rules : Dependents(rule) = <<a>>
           \/ \E a \in Rules, b \in Rules : Dependents(rule) = <<a, b>>
BY DEF Rules, EdgeRules, NetworkRules, LinkRules, FlagRules, CaseFlagRules, Dependents

\* One level of the walk is a sequence of tasks (cascade._walk's two loops).
LEMMA TasksTyped ==
    ASSUME NEW rule \in Rules, NEW subjects \in Seq(Subjects), NEW depth \in Nat
    PROVE  TasksFor(rule, subjects, depth) \in Seq(Tasks)
<1> DEFINE Of(d) == [n \in 1..Len(subjects) |-> [rule |-> d, subject |-> subjects[n], depth |-> depth]]
<1>1. \A d \in Rules : Of(d) \in Seq(Tasks)
  <2> SUFFICES ASSUME NEW d \in Rules PROVE Of(d) \in Seq(Tasks)
    OBVIOUS
  <2>1. \A n \in 1..Len(subjects) : [rule |-> d, subject |-> subjects[n], depth |-> depth] \in Tasks
    BY DEF Tasks
  <2>2. Of(d) \in [1..Len(subjects) -> Tasks]
    BY <2>1
  <2> QED BY <2>2, LenProperties, SeqDef
<1>2. \A a \in Rules, b \in Rules : Of(a) \o Of(b) \in Seq(Tasks)
  BY <1>1, ConcatProperties
<1> HIDE DEF Of
<1>3. CASE Dependents(rule) = <<>>
  BY <1>3, EmptySeq DEF TasksFor
<1>4. ASSUME NEW a \in Rules, Dependents(rule) = <<a>> PROVE TasksFor(rule, subjects, depth) \in Seq(Tasks)
  <2>1. TasksFor(rule, subjects, depth) \in {<<>>, Of(a)}
    BY <1>4 DEF TasksFor, Of
  <2> QED BY <2>1, <1>1, EmptySeq
<1>5. ASSUME NEW a \in Rules, NEW b \in Rules, Dependents(rule) = <<a, b>>
      PROVE  TasksFor(rule, subjects, depth) \in Seq(Tasks)
  <2>1. TasksFor(rule, subjects, depth) \in {<<>>, Of(a) \o Of(b)}
    BY <1>5 DEF TasksFor, Of
  <2> QED BY <2>1, <1>2, EmptySeq
<1> QED BY <1>3, <1>4, <1>5, DependentsTyped

---------------------------------------------------------------------------
(* Facts and their keys.                                                   *)

\* Families of facts have relationship_types of their own (_RULE_SPECS).
LEMMA RelationshipTypesDiffer ==
    /\ \A r \in EdgeRules, q \in Rules \ EdgeRules : RelationshipType(r) # RelationshipType(q)
    /\ RelationshipType("Rule_07") # RelationshipType("Rule_02")
    /\ RelationshipType("Rule_10") # RelationshipType("Rule_02")
    /\ RelationshipType("Rule_11") # RelationshipType("Rule_02")
    /\ RelationshipType("Rule_11") # RelationshipType("Rule_07")
    /\ RelationshipType("Rule_11") # RelationshipType("Rule_10")
BY DEF RelationshipType, EdgeRules, Rules, NetworkRules, LinkRules, FlagRules, CaseFlagRules

\* Each network type is fed by an edge rule (_UPSTREAM_REL_TYPE_BY_NETWORK_TYPE).
LEMMA EdgeRuleTyped == \A t : EdgeRuleOf(t) \in EdgeRules
BY DEF EdgeRuleOf, EdgeRules

\* The families of facts, each with the nodes its keys join.
LEMMA FamiliesTyped ==
    /\ \A f \in EdgeFacts : /\ f.from \in Subjects /\ f.to \in Subjects
                            /\ \E r \in EdgeRules : f = Key(r, f.from, f.to)
    /\ \A f \in MemberFacts : f.from \in Subjects /\ f.to \in Networks /\ f = Key("Rule_02", f.from, f.to)
    /\ \A f \in PriorFacts : f.from \in Subjects /\ f.to \in Cases /\ f = Key("Rule_07", f.from, f.to)
    /\ \A f \in MergedFacts : f.from \in Subjects /\ f.to \in Cases /\ f = Key("Rule_10", f.from, f.to)
    /\ \A f \in HubFacts : f.from \in Subjects /\ f.to \in Subjects /\ f = Key("Rule_11", f.from, f.to)
<1>1. \A f \in EdgeFacts : /\ f.from \in Subjects /\ f.to \in Subjects
                           /\ \E r \in EdgeRules : f = Key(r, f.from, f.to)
  BY EdgeRuleTyped, EvidenceTyped DEF EdgeFacts, EdgeKey, Key
<1>2. \A f \in MemberFacts : f.from \in Subjects /\ f.to \in Networks /\ f = Key("Rule_02", f.from, f.to)
  BY EvidenceTyped DEF MemberFacts, MemberKey, Key
<1>3. \A f \in PriorFacts : f.from \in Subjects /\ f.to \in Cases /\ f = Key("Rule_07", f.from, f.to)
  BY NodesTyped DEF PriorFacts, PriorKey, Key
<1>4. \A f \in MergedFacts : f.from \in Subjects /\ f.to \in Cases /\ f = Key("Rule_10", f.from, f.to)
  BY NodesTyped DEF MergedFacts, Key
<1>5. \A f \in HubFacts : f.from \in Subjects /\ f.to \in Subjects /\ f = Key("Rule_11", f.from, f.to)
  BY NodesTyped DEF HubFacts, Key
<1> QED BY <1>1, <1>2, <1>3, <1>4, <1>5

\* A rule's key over nodes of the graph is a key a :Rejection may carry.
LEMMA KeyTyped ==
    ASSUME NEW rule \in Rules, NEW from \in Subjects, NEW to \in Nodes
    PROVE  Key(rule, from, to) \in Keys
BY DEF Key, Keys, RelationshipTypes

\* Every fact is keyed as its :Rejection would be.
LEMMA FactsAreKeys == Facts \subseteq Keys
<1>1. EdgeRules \subseteq Rules /\ {"Rule_02", "Rule_07", "Rule_10", "Rule_11"} \subseteq Rules
  BY DEF Rules, NetworkRules, LinkRules
<1> QED BY <1>1, FamiliesTyped, KeyTyped DEF Facts, Nodes

\* A fact of an edge rule is an edge: both its ends are subjects.
LEMMA EdgesJoinSubjects ==
    ASSUME NEW rule \in EdgeRules, NEW f \in Facts, f.rel = RelationshipType(rule)
    PROVE  f \in EdgeFacts
<1>1. {"Rule_02", "Rule_07", "Rule_10", "Rule_11"} \subseteq Rules \ EdgeRules
  BY DEF Rules, EdgeRules, NetworkRules, LinkRules
<1>2. \A r, a, b : Key(r, a, b).rel = RelationshipType(r)
  BY DEF Key
<1>3. \A g \in MemberFacts \cup PriorFacts \cup MergedFacts \cup HubFacts :
        \E q \in Rules \ EdgeRules : g.rel = RelationshipType(q)
  BY <1>1, <1>2, FamiliesTyped
<1> QED BY <1>3, RelationshipTypesDiffer DEF Facts

\* A reviewed fact puts subjects on the walk: its one end, or both of an edge.
LEMMA AffectedTyped ==
    ASSUME NEW rule \in Rules, NEW f \in Facts, f.rel = RelationshipType(rule)
    PROVE  AffectedBy(rule, f) \in Seq(Subjects)
<1>1. f.from \in Subjects
  BY FactsAreKeys DEF Keys
<1>2. CASE rule \in EdgeRules
  <2>1. f.to \in Subjects
    BY <1>2, EdgesJoinSubjects, FamiliesTyped
  <2> QED BY <1>1, <1>2, <2>1 DEF AffectedBy
<1> QED BY <1>1, <1>2 DEF AffectedBy

---------------------------------------------------------------------------
(* Every step of a request keeps the requests' type.                       *)

ReqTyped == req \in [Investigators -> Requests \cup {Idle}]

\* An investigator who is not idle has a request in flight.
LEMMA InFlight ==
    ASSUME ReqTyped, NEW i \in Investigators, ~Quiet(i)
    PROVE  req[i] \in Requests
BY DEF ReqTyped, Quiet, Idle

Labels == {"veto", "unveto", "walk", "invalidate", "refire", "probe", "mark", "direct",
           "sweep", "orphans", "touch"}

\* Moving the program counter keeps requests typed.
LEMMA GotoTyped ==
    ASSUME ReqTyped, NEW i \in Investigators, ~Quiet(i), NEW label \in Labels, Goto(i, label)
    PROVE  ReqTyped'
<1>1. [req[i] EXCEPT !.pc = label] \in Requests
  BY InFlight DEF Requests, Labels
<1> QED BY <1>1 DEF Goto, ReqTyped

\* So does ending a request.
LEMMA FinishTyped ==
    ASSUME ReqTyped, NEW i \in Investigators, req' = [req EXCEPT ![i] = Idle]
    PROVE  ReqTyped'
BY DEF ReqTyped

\* Starting the walk gives the request a typed work list.
LEMMA StartWalkTyped ==
    ASSUME ReqTyped, NEW i \in Investigators, ~Quiet(i), StartWalk(i)
    PROVE  ReqTyped'
<1> DEFINE todo == TasksFor(req[i].rule, req[i].affected, 0)
<1>1. req[i].rule \in Rules /\ req[i].affected \in Seq(Subjects)
  BY InFlight DEF Requests
<1>2. todo \in Seq(Tasks)
  BY <1>1, TasksTyped
<1> HIDE DEF todo
<1>3. [[req[i] EXCEPT !.pc = "walk"] EXCEPT !.todo = todo] \in Requests
  BY <1>2, InFlight DEF Requests
<1>4. req' = [req EXCEPT ![i] = [[req[i] EXCEPT !.pc = "walk"] EXCEPT !.todo = todo]]
  BY DEF StartWalk, todo, ReqTyped
<1> QED BY <1>3, <1>4 DEF ReqTyped

\* The task at the head of the work list, and the list after it, are typed.
LEMMA TaskTyped ==
    ASSUME ReqTyped, NEW i \in Investigators, NEW label \in Labels, AtTask(i, label)
    PROVE  /\ ~Quiet(i)
           /\ req[i].todo \in Seq(Tasks) /\ req[i].todo # <<>>
           /\ Task(i) \in Tasks
           /\ Tail(req[i].todo) \in Seq(Tasks)
<1>1. ~Quiet(i)
  BY DEF AtTask, Quiet, Labels
<1>2. req[i].todo \in Seq(Tasks) /\ req[i].todo # <<>>
  BY <1>1, InFlight DEF Requests, AtTask
<1> QED BY <1>1, <1>2, HeadTailProperties DEF Task

\* Passing over a dependent keeps requests typed.
LEMMA SkipTyped ==
    ASSUME ReqTyped, NEW i \in Investigators, NEW label \in Labels, AtTask(i, label), Skip(i)
    PROVE  ReqTyped'
<1> DEFINE todo == Tail(req[i].todo)
<1>1. todo \in Seq(Tasks)
  BY TaskTyped
<1>2. req' = [req EXCEPT ![i] = [[req[i] EXCEPT !.pc = "walk"] EXCEPT !.todo = todo]]
  BY DEF Skip, ReqTyped
<1> HIDE DEF todo
<1>3. [[req[i] EXCEPT !.pc = "walk"] EXCEPT !.todo = todo] \in Requests
  BY <1>1, InFlight, TaskTyped DEF Requests
<1> QED BY <1>2, <1>3 DEF ReqTyped

\* So does going on to the dependents of a dependent (_walk's recursion).
LEMMA DescendTyped ==
    ASSUME ReqTyped, NEW i \in Investigators, NEW label \in Labels, AtTask(i, label), Descend(i)
    PROVE  ReqTyped'
<1> DEFINE todo == TasksFor(Task(i).rule, <<Task(i).subject>>, Task(i).depth + 1) \o Tail(req[i].todo)
<1>1. /\ Task(i).rule \in Rules /\ Task(i).subject \in Subjects
      /\ Task(i).depth + 1 \in Nat
  BY TaskTyped DEF Tasks
<1>2. todo \in Seq(Tasks)
  <2>1. <<Task(i).subject>> \in Seq(Subjects)
    BY <1>1
  <2>2. TasksFor(Task(i).rule, <<Task(i).subject>>, Task(i).depth + 1) \in Seq(Tasks)
    BY <1>1, <2>1, TasksTyped
  <2>3. Tail(req[i].todo) \in Seq(Tasks)
    BY TaskTyped
  <2> QED BY <2>2, <2>3, ConcatProperties
<1>3. req' = [req EXCEPT ![i] = [[req[i] EXCEPT !.pc = "walk"] EXCEPT !.todo = todo]]
  BY DEF Descend, ReqTyped
<1> HIDE DEF todo
<1>4. [[req[i] EXCEPT !.pc = "walk"] EXCEPT !.todo = todo] \in Requests
  BY <1>2, InFlight, TaskTyped DEF Requests
<1> QED BY <1>3, <1>4 DEF ReqTyped

\* After the walk a request sweeps networks, or goes on to the timestamp.
LEMMA EndWalkTyped ==
    ASSUME ReqTyped, NEW i \in Investigators, EndWalk(i)
    PROVE  ReqTyped'
<1> DEFINE nets == {f.to : f \in {g \in MemberFacts : /\ fact[g].status # "absent"
                                                      /\ g.from \in {req[i].key.from, req[i].key.to}
                                                      /\ NetworkType[g.to] \in LinkTypes}}
<1>1. ~Quiet(i)
  BY DEF EndWalk, Quiet
<1>2. nets \in SUBSET Networks
  BY FamiliesTyped
<1>3. CASE Goto(i, "touch")
  BY <1>1, <1>3, GotoTyped DEF Labels
<1>4. CASE req' = [req EXCEPT ![i].pc = "sweep", ![i].nets = nets]
  <2> HIDE DEF nets
  <2>1. [[req[i] EXCEPT !.pc = "sweep"] EXCEPT !.nets = nets] \in Requests
    BY <1>1, <1>2, InFlight DEF Requests
  <2> QED BY <1>4, <2>1 DEF ReqTyped
<1> QED BY <1>3, <1>4 DEF EndWalk

\* The orphans of a network are subjects, its type one that links subjects or splits checks.
LEMMA SweepNetworkTyped ==
    ASSUME ReqTyped, NEW i \in Investigators, NEW net \in Networks, SweepNetwork(i, net)
    PROVE  ReqTyped'
<1> DEFINE orphans == IF InternalEdge(net) THEN {} ELSE Members(net)
           r == [req[i] EXCEPT !.pc = "orphans", !.nets = @ \ {net},
                               !.type = NetworkType[net], !.orphans = orphans]
<1>1. ~Quiet(i)
  BY DEF SweepNetwork, Quiet
<1>2. orphans \in SUBSET Subjects
  BY FamiliesTyped DEF Members
<1>3. NetworkType[net] \in LinkTypes \cup {"CheckSplit"}
  BY EvidenceTyped
<1>4. req' = [req EXCEPT ![i] = r]
  BY DEF SweepNetwork, ReqTyped
<1> HIDE DEF orphans
<1>5. r \in Requests
  BY <1>1, <1>2, <1>3, InFlight DEF Requests
<1> HIDE DEF r
<1> QED BY <1>4, <1>5 DEF ReqTyped

\* Taking an orphan off the list keeps requests typed.
LEMMA SweepOrphanTyped ==
    ASSUME ReqTyped, NEW i \in Investigators, NEW s \in Subjects, SweepOrphan(i, s)
    PROVE  ReqTyped'
<1>1. ~Quiet(i)
  BY DEF SweepOrphan, Quiet
<1>2. [req[i] EXCEPT !.orphans = @ \ {s}] \in Requests
  BY <1>1, InFlight DEF Requests
<1> QED BY <1>2 DEF SweepOrphan, ReqTyped

\* What NewRequest puts in flight, for a key and walked subjects of the right type.
LEMMA NewRequestTyped ==
    ASSUME TypeOK, NEW i \in Investigators, NEW op, NEW case \in Cases, NEW rule \in Rules,
           NEW key \in Keys, NEW affected \in Seq(Subjects),
           NewRequest(i, op, case, rule, key, affected)
    PROVE  ReqTyped' /\ clock' \in 0..MaxRequests
<1> DEFINE r == [pc |-> IF op = "reject" THEN "veto" ELSE "unveto", op |-> op, case |-> case,
                 rule |-> rule, key |-> key, affected |-> affected, at |-> clock + 1,
                 todo |-> <<>>, nets |-> {}, orphans |-> {}, type |-> "CheckSplit"]
<1>1. op \in {"reject", "revert"} /\ clock + 1 \in 1..MaxRequests
  BY BoundsTyped DEF NewRequest, TypeOK
<1>2. r \in Requests
  BY <1>1, EmptySeq DEF Requests
<1>3. req' = [req EXCEPT ![i] = r] /\ clock' = clock + 1
  BY DEF NewRequest
<1> HIDE DEF r
<1> QED BY <1>1, <1>2, <1>3 DEF TypeOK, ReqTyped

\* The SET of _locate_and_reject or _locate_and_revert keeps a fact's marks typed.
LEMMA MarkOneTyped ==
    ASSUME GraphTypeOK
    PROVE  /\ \A f \in Facts, v \in {"active", "rejected"}, h \in {"rejected", "reverted"} :
                [[fact[f] EXCEPT !.status = v] EXCEPT !.human = h] \in Marks
           /\ \A f \in FlagIds, v \in {"active", "rejected"}, h \in {"rejected", "reverted"} :
                [[flag[f] EXCEPT !.status = v] EXCEPT !.human = h] \in FlagMarks
<1>1. \A m \in Marks, v \in {"active", "rejected"}, h \in {"rejected", "reverted"} :
         [[m EXCEPT !.status = v] EXCEPT !.human = h] \in Marks
  BY DEF Marks
<1>2. \A m \in FlagMarks, v \in {"active", "rejected"}, h \in {"rejected", "reverted"} :
         [[m EXCEPT !.status = v] EXCEPT !.human = h] \in FlagMarks
  BY DEF FlagMarks
<1> QED BY <1>1, <1>2 DEF GraphTypeOK

\* A request that is let in, of any of the four kinds, is typed with the mark it sets.
LEMMA SubmitTyped ==
    ASSUME TypeOK, NEW i \in Investigators, Submit(i)
    PROVE  TypeOK'
<1>1. PICK case \in Cases, rule \in Rules :
        \/ \E f \in Facts : RejectFact(i, case, rule, f) \/ RevertFact(i, case, rule, f)
        \/ \E id \in FlagIds, s \in Subjects :
              RejectFlag(i, case, rule, id, s) \/ RevertFlag(i, case, rule, id, s)
  BY DEF Submit
<1>2. ASSUME NEW f \in Facts, RejectFact(i, case, rule, f) \/ RevertFact(i, case, rule, f)
      PROVE  TypeOK'
  <2>1. f \in Keys /\ AffectedBy(rule, f) \in Seq(Subjects)
    BY <1>2, FactsAreKeys, AffectedTyped DEF RejectFact, RevertFact, FactInReach
  <2>2. PICK op : NewRequest(i, op, case, rule, f, AffectedBy(rule, f))
    BY <1>2 DEF RejectFact, RevertFact
  <2>3. PICK v \in {"active", "rejected"}, h \in {"rejected", "reverted"} :
            fact' = [fact EXCEPT ![f] = [[@ EXCEPT !.status = v] EXCEPT !.human = h]]
    <3>1. CASE RejectFact(i, case, rule, f)
      BY <3>1 DEF RejectFact
    <3>2. CASE RevertFact(i, case, rule, f)
      BY <3>2 DEF RevertFact
    <3> QED BY <1>2, <3>1, <3>2
  <2>4. fact' \in [Facts -> Marks]
    <3>1. GraphTypeOK
      BY DEF TypeOK
    <3>2. [[fact[f] EXCEPT !.status = v] EXCEPT !.human = h] \in Marks
      BY <3>1, MarkOneTyped
    <3>3. fact \in [Facts -> Marks]
      BY <3>1 DEF GraphTypeOK
    <3> QED BY <2>3, <3>2, <3>3
  <2>5. flag' = flag /\ rejections' = rejections
    BY <1>2 DEF RejectFact, RevertFact, NewRequest
  <2>6. ReqTyped' /\ clock' \in 0..MaxRequests
    BY <2>1, <2>2, NewRequestTyped
  <2> QED BY <2>2, <2>4, <2>5, <2>6 DEF NewRequest, Other, GraphTypeOK, ReqTyped, TypeOK
<1>3. ASSUME NEW id \in FlagIds, NEW s \in Subjects,
             RejectFlag(i, case, rule, id, s) \/ RevertFlag(i, case, rule, id, s)
      PROVE  TypeOK'
  <2>1. Key(rule, s, id[2]) \in Keys /\ <<s>> \in Seq(Subjects)
    BY KeyTyped DEF FlagIds, Nodes
  <2>2. PICK op : NewRequest(i, op, case, rule, Key(rule, s, id[2]), <<s>>)
    BY <1>3 DEF RejectFlag, RevertFlag
  <2>3. PICK v \in {"active", "rejected"}, h \in {"rejected", "reverted"} :
            flag' = [flag EXCEPT ![id] = [[@ EXCEPT !.status = v] EXCEPT !.human = h]]
    <3>1. CASE RejectFlag(i, case, rule, id, s)
      BY <3>1 DEF RejectFlag
    <3>2. CASE RevertFlag(i, case, rule, id, s)
      BY <3>2 DEF RevertFlag
    <3> QED BY <1>3, <3>1, <3>2
  <2>4. flag' \in [FlagIds -> FlagMarks]
    <3>1. GraphTypeOK
      BY DEF TypeOK
    <3>2. [[flag[id] EXCEPT !.status = v] EXCEPT !.human = h] \in FlagMarks
      BY <3>1, MarkOneTyped
    <3>3. flag \in [FlagIds -> FlagMarks]
      BY <3>1 DEF GraphTypeOK
    <3> QED BY <2>3, <3>2, <3>3
  <2>5. fact' = fact /\ rejections' = rejections
    BY <1>3 DEF RejectFlag, RevertFlag, NewRequest
  <2>6. ReqTyped' /\ clock' \in 0..MaxRequests
    BY <2>1, <2>2, NewRequestTyped
  <2> QED BY <2>2, <2>4, <2>5, <2>6 DEF NewRequest, Other, GraphTypeOK, ReqTyped, TypeOK
<1> QED BY <1>1, <1>2, <1>3

\* The statement that records or lifts a veto writes a typed :Rejection.
LEMMA VetoTyped ==
    ASSUME TypeOK, NEW i \in Investigators, RecordRejection(i) \/ DeleteRejection(i)
    PROVE  GraphTypeOK' /\ ReqTyped'
<1>1. ReqTyped /\ GraphTypeOK
  BY DEF TypeOK, ReqTyped
<1>2. ~Quiet(i) /\ StartWalk(i)
  BY DEF RecordRejection, DeleteRejection, Quiet
<1>3. ReqTyped'
  BY <1>1, <1>2, StartWalkTyped
<1>4. req[i].key \in Keys /\ req[i].rule \in Rules /\ req[i].case \in Cases
  BY <1>1, <1>2, InFlight DEF Requests
<1>5. [rel |-> req[i].key.rel, from |-> req[i].key.from, to |-> req[i].key.to,
       rule |-> req[i].rule, case |-> req[i].case] \in RejectionNodes
  BY <1>4 DEF Keys, RejectionNodes
<1>6. rejections' \subseteq RejectionNodes
  BY <1>1, <1>5 DEF RecordRejection, DeleteRejection, GraphTypeOK
<1>7. fact' = fact /\ flag' = flag
  BY DEF RecordRejection, DeleteRejection
<1> QED BY <1>1, <1>3, <1>6, <1>7 DEF GraphTypeOK

\* Every statement of a request leaves the graph and the requests typed.
LEMMA HandleTyped ==
    ASSUME TypeOK, NEW i \in Investigators, Handle(i)
    PROVE  GraphTypeOK' /\ ReqTyped'
<1>1. ReqTyped /\ GraphTypeOK
  BY DEF TypeOK, ReqTyped
<1>2. UNCHANGED graph => GraphTypeOK'
  BY <1>1 DEF GraphTypeOK, graph
<1>3. \A label \in Labels : AtTask(i, label) =>
          Task(i) \in Tasks /\ ~Quiet(i)
  BY <1>1, TaskTyped
<1> USE DEF Labels
<1>4. CASE RecordRejection(i) \/ DeleteRejection(i)
  BY <1>4, VetoTyped
<1>5. CASE Examine(i)
  <2>1. AtTask(i, "walk") /\ ~Quiet(i)
    BY <1>3, <1>5 DEF Examine
  <2>2. Goto(i, "invalidate") \/ Goto(i, "refire") \/ Skip(i)
    BY <1>5 DEF Examine
  <2> QED BY <1>1, <1>2, <1>5, <2>1, <2>2, GotoTyped, SkipTyped DEF Examine
<1>6. CASE Invalidate(i)
  <2>1. AtTask(i, "invalidate")
    BY <1>6 DEF Invalidate
  <2>2. GraphTypeOK'
    BY <1>1, <1>6, InvalidateTyped DEF Invalidate
  <2>3. Descend(i) \/ Skip(i)
    BY <1>6 DEF Invalidate
  <2> QED BY <1>1, <2>1, <2>2, <2>3, DescendTyped, SkipTyped
<1>7. CASE Refire(i)
  <2>1. AtTask(i, "refire") /\ Task(i).subject \in Subjects /\ ~Quiet(i)
    BY <1>3, <1>7 DEF Refire, Tasks
  <2>2. GraphTypeOK'
    BY <1>1, <1>7, <2>1, FireTyped DEF Refire
  <2>3. Goto(i, "probe")
    BY <1>7 DEF Refire
  <2> QED BY <1>1, <2>1, <2>2, <2>3, GotoTyped
<1>8. CASE Probe(i)
  <2>1. AtTask(i, "probe") /\ ~Quiet(i)
    BY <1>3, <1>8 DEF Probe
  <2>2. Goto(i, "mark") \/ Goto(i, "direct") \/ Skip(i)
    BY <1>8 DEF Probe
  <2> QED BY <1>1, <1>2, <1>8, <2>1, <2>2, GotoTyped, SkipTyped DEF Probe
<1>9. CASE Mark(i)
  <2>1. AtTask(i, "mark") /\ Descend(i)
    BY <1>9 DEF Mark
  <2>2. GraphTypeOK'
    BY <1>1, <1>9, MarkTyped DEF Mark
  <2> QED BY <1>1, <2>1, <2>2, DescendTyped
<1>10. CASE Direct(i)
  <2>1. AtTask(i, "direct")
    BY <1>10 DEF Direct
  <2>2. GraphTypeOK'
    BY <1>1, <1>10, DirectTyped DEF Direct
  <2>3. Descend(i) \/ Skip(i)
    BY <1>10 DEF Direct
  <2> QED BY <1>1, <2>1, <2>2, <2>3, DescendTyped, SkipTyped
<1>11. CASE EndWalk(i)
  BY <1>1, <1>2, <1>11, EndWalkTyped DEF EndWalk
<1>12. CASE \E net \in Networks : SweepNetwork(i, net)
  BY <1>1, <1>2, <1>12, SweepNetworkTyped DEF SweepNetwork
<1>13. CASE \E s \in Subjects : SweepOrphan(i, s)
  <2>1. PICK s \in Subjects : SweepOrphan(i, s)
    BY <1>13
  <2>2. GraphTypeOK'
    BY <1>1, <2>1, InvalidateTyped DEF SweepOrphan
  <2> QED BY <1>1, <2>1, <2>2, SweepOrphanTyped
<1>14. CASE EndNetwork(i) \/ EndSweep(i)
  <2>1. ~Quiet(i)
    BY <1>14 DEF EndNetwork, EndSweep, Quiet
  <2> QED BY <1>1, <1>2, <1>14, <2>1, GotoTyped DEF EndNetwork, EndSweep
<1>15. CASE Touch(i)
  BY <1>1, <1>2, <1>15, FinishTyped DEF Touch
<1> QED
  BY <1>4, <1>5, <1>6, <1>7, <1>8, <1>9, <1>10, <1>11, <1>12, <1>13, <1>14, <1>15 DEF Handle

\* A request's statements touch neither the runs nor the bounds, and stamp a case with a
\* time that has come.
LEMMA HandleKeepsRuns ==
    ASSUME TypeOK, NEW i \in Investigators, Handle(i)
    PROVE  UNCHANGED <<run, runs, failures, clock>> /\ lastChange' \in [Cases -> 0..MaxRequests]
<1>1. CASE Touch(i)
  <2>1. ~Quiet(i)
    BY <1>1 DEF Touch, Quiet
  <2>2. req[i].at \in 1..MaxRequests
    BY <2>1, InFlight DEF TypeOK, ReqTyped, Requests
  <2>3. req[i].at \in 0..MaxRequests
    BY <2>2, BoundsTyped
  <2> QED BY <1>1, <2>3 DEF Touch, Other, TypeOK
<1>2. CASE ~Touch(i)
  BY <1>2 DEF Handle, RecordRejection, DeleteRejection, Examine, Invalidate, Refire, Probe, Mark,
              Direct, EndWalk, SweepNetwork, SweepOrphan, EndNetwork, EndSweep, Other, TypeOK
<1> QED BY <1>1, <1>2

---------------------------------------------------------------------------
(* Reasoning runs.                                                         *)

\* The rule a run goes on to is one of rule.yaml's, unless the run is over.
LEMMA FollowingTyped ==
    ASSUME NEW n
    PROVE  Following(n) # 0 => Following(n) \in 1..Len(RuleOrder)
<1> DEFINE later == {m \in 1..Len(RuleOrder) : m > n /\ RuleOrder[m] \in EnabledRules}
<1>1. later \subseteq Nat
  OBVIOUS
<1>2. CASE later = {}
  BY <1>2 DEF Following
<1>3. CASE later # {}
  <2>1. Lead(later) \in later
    BY <1>1, <1>3, LeadInSet
  <2> QED BY <1>3, <2>1 DEF Following
<1> QED BY <1>2, <1>3

\* A run that starts, fires its next rule or is cut short keeps every type.
LEMMA RunTyped ==
    ASSUME TypeOK, NEW w \in Runners, Reason(w) \/ AbortRun(w)
    PROVE  TypeOK'
<1>1. GraphTypeOK /\ run \in [Runners -> Runs \cup {RunIdle}] /\ runs \in 0..MaxRuns
        /\ failures \in 0..MaxFailures
  BY DEF TypeOK
<1>2. UNCHANGED graph => GraphTypeOK'
  BY <1>1 DEF GraphTypeOK, graph
<1>3. CASE RunRule(w)
  <2>1. run[w] \in Runs
    BY <1>1, <1>3 DEF RunRule, RunIdle
  <2>2. run[w].subject \in Subjects
    BY <2>1 DEF Runs
  <2>3. GraphTypeOK'
    BY <1>1, <1>3, <2>2, FireTyped DEF RunRule
  <2>4. Following(run[w].next) # 0 => [run[w] EXCEPT !.next = Following(run[w].next)] \in Runs
    BY <2>1, FollowingTyped DEF Runs
  <2>5. run' = [run EXCEPT ![w] = IF Following(run[w].next) = 0 THEN RunIdle
                                  ELSE [run[w] EXCEPT !.next = Following(run[w].next)]]
    BY <1>1, <1>3 DEF RunRule
  <2>6. run' \in [Runners -> Runs \cup {RunIdle}]
    BY <1>1, <2>4, <2>5
  <2> QED BY <1>3, <2>3, <2>6 DEF RunRule, Review, TypeOK
<1>4. ASSUME NEW c \in Cases, NEW s \in Subjects, StartRun(w, c, s) PROVE TypeOK'
  <2>1. Following(0) # 0 => [next |-> Following(0), case |-> c, subject |-> s] \in Runs
    BY FollowingTyped DEF Runs
  <2>2. run' \in [Runners -> Runs \cup {RunIdle}]
    BY <1>1, <1>4, <2>1 DEF StartRun
  <2>3. runs' \in 0..MaxRuns
    BY <1>1, <1>4, BoundsTyped DEF StartRun
  <2> QED BY <1>2, <1>4, <2>2, <2>3 DEF StartRun, Review, TypeOK
<1>5. CASE AbortRun(w)
  <2>1. failures' \in 0..MaxFailures
    BY <1>1, <1>5, BoundsTyped DEF AbortRun
  <2>2. run' \in [Runners -> Runs \cup {RunIdle}]
    BY <1>1, <1>5 DEF AbortRun
  <2> QED BY <1>2, <1>5, <2>1, <2>2 DEF AbortRun, Review, TypeOK
<1> QED BY <1>3, <1>4, <1>5 DEF Reason

\* A request cut short leaves every variable typed.
LEMMA CutTyped ==
    ASSUME TypeOK, NEW i \in Investigators, Cut(i)
    PROVE  TypeOK'
<1>1. failures' \in 0..MaxFailures
  BY BoundsTyped DEF Cut, TypeOK
<1>2. ReqTyped'
  BY FinishTyped DEF Cut, TypeOK, ReqTyped
<1> QED BY <1>1, <1>2 DEF Cut, TypeOK, ReqTyped, GraphTypeOK, graph

\* The empty graph is typed.
LEMMA InitTyped == Init => TypeOK
BY BoundsTyped DEF Init, GraphInit, TypeOK, GraphTypeOK, Unwritten, UnwrittenFlag, Marks, FlagMarks

\* Every step keeps the type invariant: one case per actor and kind of step.
LEMMA StepTyped == TypeOK /\ [Next]_vars => TypeOK'
<1> SUFFICES ASSUME TypeOK, [Next]_vars PROVE TypeOK'
  OBVIOUS
<1>1. ASSUME NEW i \in Investigators, Submit(i) PROVE TypeOK'
  BY <1>1, SubmitTyped
<1>2. ASSUME NEW i \in Investigators, Handle(i) PROVE TypeOK'
  BY <1>2, HandleTyped, HandleKeepsRuns DEF TypeOK, ReqTyped
<1>3. ASSUME NEW i \in Investigators, Cut(i) PROVE TypeOK'
  BY <1>3, CutTyped
<1>4. ASSUME NEW w \in Runners, Reason(w) \/ AbortRun(w) PROVE TypeOK'
  BY <1>4, RunTyped
<1>5. CASE UNCHANGED vars
  BY <1>5 DEF vars, graph, TypeOK, GraphTypeOK
<1> QED BY <1>1, <1>2, <1>3, <1>4, <1>5 DEF Next

\* Every variable keeps its type, for every graph and every number of actors.
THEOREM TypeCorrect == Spec => []TypeOK
BY InitTyped, StepTyped, PTL DEF Spec

---------------------------------------------------------------------------
(* Rejections stand: no firing and no cascade gives a base fact back.      *)

\* No hub finding and no membership a cascade may touch is a base fact.
LEMMA BaseApart ==
    /\ BaseFacts \subseteq Facts
    /\ BaseFacts \cap HubFacts = {}
    /\ \A rule, s : BaseFacts \cap MembershipsOf(rule, s) = {}
<1>1. BaseFacts \subseteq Facts
  BY DEF BaseFacts, Facts
<1>2. \A r, a, b : Key(r, a, b).rel = RelationshipType(r)
  BY DEF Key
<1>3. /\ {"Rule_02", "Rule_07", "Rule_10", "Rule_11"} \subseteq Rules \ EdgeRules
  BY DEF Rules, EdgeRules, NetworkRules, LinkRules
<1>4. /\ \A f \in EdgeFacts : \E r \in EdgeRules : f.rel = RelationshipType(r)
      /\ \A f \in MemberFacts : f.rel = RelationshipType("Rule_02")
      /\ \A f \in PriorFacts : f.rel = RelationshipType("Rule_07")
      /\ \A f \in MergedFacts : f.rel = RelationshipType("Rule_10")
      /\ \A f \in HubFacts : f.rel = RelationshipType("Rule_11")
  BY <1>2, FamiliesTyped
<1>5. BaseFacts \cap HubFacts = {}
  BY <1>3, <1>4, RelationshipTypesDiffer DEF BaseFacts
<1>6. \A f \in BaseFacts \cap MemberFacts : NetworkType[f.to] = "CheckSplit"
  BY <1>3, <1>4, RelationshipTypesDiffer DEF BaseFacts
<1>7. \A rule \in LinkRules : TypeOfRule(rule) # "CheckSplit"
  BY DEF LinkRules, TypeOfRule
<1> QED BY <1>1, <1>5, <1>6, <1>7 DEF MembershipsOf

\* A firing writes a status over "absent", or revives a hub finding nobody vetoed.
LEMMA FireKeepsRejected ==
    ASSUME GraphTypeOK, NEW rule, NEW case, NEW subject, Fire(rule, case, subject)
    PROVE  \A f \in Facts : fact[f].status = "rejected" =>
             fact'[f].status = "rejected" \/ (f \in HubFacts /\ ~Vetoed(f))
<1>1. CASE UNCHANGED graph
  BY <1>1 DEF graph
<1>2. CASE \E ids : Assert(ids)
  BY <1>2 DEF Assert
<1>3. CASE AssertHubs(subject)
  BY <1>3 DEF AssertHubs
<1>4. CASE AssertFlags(rule, case, subject)
  BY <1>4 DEF AssertFlags
<1> QED BY <1>1, <1>2, <1>3, <1>4 DEF Fire

\* No statement of a request gives a base fact back, reverting it apart.
LEMMA HandleKeepsRejected ==
    ASSUME TypeOK, NEW i \in Investigators, Handle(i)
    PROVE  \A f \in BaseFacts : fact[f].status = "rejected" => fact'[f].status = "rejected"
<1>1. GraphTypeOK
  BY DEF TypeOK
<1>2. CASE UNCHANGED fact
  BY <1>2
<1>3. ASSUME NEW rule, NEW s, NEW case, AutoInvalidate(rule, s, case)
      PROVE  \A f \in BaseFacts : fact[f].status = "rejected" => fact'[f].status = "rejected"
  BY <1>1, <1>3, BaseApart DEF AutoInvalidate, LiveMemberships
<1>4. CASE Invalidate(i) \/ \E s \in Subjects : SweepOrphan(i, s)
  BY <1>3, <1>4 DEF Invalidate, SweepOrphan
<1>5. CASE Refire(i)
  BY <1>1, <1>5, FireKeepsRejected, BaseApart DEF Refire
<1>6. CASE Mark(i)
  BY <1>1, <1>6, BaseApart DEF Mark, MarkReinstated, LiveMemberships
<1>7. CASE Direct(i)
  BY <1>1, <1>7, BaseApart DEF Direct, DirectReinstate, MarkedMemberships
<1> QED
  BY <1>2, <1>4, <1>5, <1>6, <1>7 DEF Handle, RecordRejection, DeleteRejection, Examine, Probe,
     EndWalk, SweepNetwork, EndNetwork, EndSweep, Touch, graph

\* A request that is let in gives a fact back only when it reverts that fact.
LEMMA SubmitKeepsRejected ==
    ASSUME TypeOK, NEW i \in Investigators, Submit(i)
    PROVE  \A f \in Facts : fact[f].status = "rejected" /\ fact'[f].status # "rejected"
                            => RevertedByHand(f)
<1> SUFFICES ASSUME NEW f \in Facts, fact[f].status = "rejected", fact'[f].status # "rejected"
             PROVE  RevertedByHand(f)
  OBVIOUS
<1>1. fact \in [Facts -> Marks] /\ ReqTyped
  BY DEF TypeOK, GraphTypeOK, ReqTyped
<1>2. PICK case \in Cases, rule \in Rules :
        \/ \E g \in Facts : RejectFact(i, case, rule, g) \/ RevertFact(i, case, rule, g)
        \/ \E id \in FlagIds, s \in Subjects :
              RejectFlag(i, case, rule, id, s) \/ RevertFlag(i, case, rule, id, s)
  BY DEF Submit
<1>3. PICK g \in Facts : RejectFact(i, case, rule, g) \/ RevertFact(i, case, rule, g)
  BY <1>2 DEF RejectFlag, RevertFlag
<1>4. ~RejectFact(i, case, rule, g)
  <2>1. SUFFICES ASSUME RejectFact(i, case, rule, g) PROVE fact'[f].status = "rejected"
    OBVIOUS
  <2>2. fact' = [fact EXCEPT ![g] = [[@ EXCEPT !.status = "rejected"] EXCEPT !.human = "rejected"]]
    BY <2>1 DEF RejectFact
  <2>3. [[fact[g] EXCEPT !.status = "rejected"] EXCEPT !.human = "rejected"].status = "rejected"
    BY <1>1 DEF Marks
  <2> QED BY <1>1, <2>2, <2>3
<1>5. RevertFact(i, case, rule, g)
  BY <1>3, <1>4
<1>6. g = f
  BY <1>1, <1>5 DEF RevertFact
<1>7. req'[i].pc = "unveto" /\ req'[i].key = f
  BY <1>1, <1>5, <1>6 DEF RevertFact, NewRequest, ReqTyped
<1> QED BY <1>5, <1>7 DEF RevertedByHand, RevertFact

\* A rejected base fact stays rejected until an investigator reverts that very fact,
\* whatever else the requests, the cascades and the reasoning runs do.
THEOREM RejectionsStand == Spec => RejectionStands
<1> DEFINE Stands == \A f \in BaseFacts :
              fact[f].status = "rejected" /\ fact'[f].status # "rejected" => RevertedByHand(f)
<1>1. TypeOK /\ [Next]_vars => [Stands]_vars
  <2> SUFFICES ASSUME TypeOK, Next PROVE Stands
    OBVIOUS
  <2>1. ASSUME NEW i \in Investigators, Submit(i) PROVE Stands
    BY <2>1, SubmitKeepsRejected, BaseApart
  <2>2. ASSUME NEW i \in Investigators, Handle(i) PROVE Stands
    BY <2>2, HandleKeepsRejected
  <2>3. ASSUME NEW i \in Investigators, Cut(i) PROVE Stands
    BY <2>3 DEF Cut, graph
  <2>4. ASSUME NEW w \in Runners, Reason(w) \/ AbortRun(w) PROVE Stands
    BY <2>4, FireKeepsRejected, BaseApart DEF Reason, RunRule, StartRun, AbortRun, graph, TypeOK
  <2> QED BY <2>1, <2>2, <2>3, <2>4 DEF Next
<1> QED BY <1>1, TypeCorrect, PTL DEF Spec, RejectionStands

---------------------------------------------------------------------------
(* The refinement: base facts behave as Verdicts says.                     *)

\* A firing finds base facts nobody had found, or leaves them all as they are.
LEMMA FireFinds ==
    ASSUME GraphTypeOK, NEW rule, NEW case, NEW subject, Fire(rule, case, subject)
    PROVE  [V!Next]_(V!vars)
<1> DEFINE found == {f \in BaseFacts : fact[f].status = "absent" /\ fact'[f].status # "absent"}
<1>1. CASE \A f \in BaseFacts : fact'[f] = fact[f]
  BY <1>1 DEF V!vars
<1>2. CASE \E ids : Assert(ids)
  <2>1. PICK ids : fact' = [f \in Facts |-> IF f \in ids /\ fact[f].status = "absent"
                                             THEN [fact[f] EXCEPT !.status = "active"] ELSE fact[f]]
    BY <1>2 DEF Assert
  <2>2. \A f \in BaseFacts : fact[f] \in Marks /\ fact'[f] = IF f \in ids /\ fact[f].status = "absent"
                                THEN [fact[f] EXCEPT !.status = "active"] ELSE fact[f]
    BY <2>1, BaseApart DEF GraphTypeOK
  <2>3. \A m \in Marks : /\ [m EXCEPT !.status = "active"].status = "active"
                         /\ [m EXCEPT !.status = "active"].human = m.human
    BY DEF Marks
  <2>4. \A f \in BaseFacts : /\ fact'[f].status = IF f \in found THEN "active" ELSE fact[f].status
                             /\ fact'[f].human = fact[f].human
    <3> TAKE f \in BaseFacts
    <3>1. CASE f \in ids /\ fact[f].status = "absent"
      <4>1. fact'[f].status = "active" /\ fact'[f].human = fact[f].human
        BY <2>2, <2>3, <3>1
      <4> QED BY <3>1, <4>1
    <3>2. CASE ~(f \in ids /\ fact[f].status = "absent")
      BY <2>2, <3>2
    <3> QED BY <3>1, <3>2
  <2>5. found \in SUBSET BaseFacts /\ \A f \in found : fact[f].status = "absent"
    OBVIOUS
  <2> HIDE DEF found
  <2>6. \E ff \in SUBSET BaseFacts : V!Find(ff)
    <3>1. ASSUME NEW ff \in SUBSET BaseFacts, ff = found PROVE V!Find(ff)
      BY <2>4, <2>5, <3>1 DEF V!Find
    <3> QED BY <2>5, <3>1
  <2> QED BY <2>6 DEF V!Next
<1>3. CASE AssertHubs(subject)
  BY <1>1, <1>3, BaseApart DEF AssertHubs
<1>4. CASE UNCHANGED fact
  BY <1>1, <1>4
<1> QED BY <1>2, <1>3, <1>4 DEF Fire, AssertFlags, graph

\* A statement of a request finds base facts, by firing a rule, or leaves them as they are.
LEMMA HandleFinds ==
    ASSUME TypeOK, NEW i \in Investigators, Handle(i)
    PROVE  [V!Next]_(V!vars)
<1>1. GraphTypeOK
  BY DEF TypeOK
<1>2. CASE \A f \in BaseFacts : fact'[f] = fact[f]
  BY <1>2 DEF V!vars
<1>3. ASSUME NEW rule, NEW s, NEW case, AutoInvalidate(rule, s, case)
      PROVE  \A f \in BaseFacts : fact'[f] = fact[f]
  BY <1>1, <1>3, BaseApart DEF AutoInvalidate, LiveMemberships
<1>4. CASE Invalidate(i) \/ \E s \in Subjects : SweepOrphan(i, s)
  BY <1>2, <1>3, <1>4 DEF Invalidate, SweepOrphan
<1>5. CASE Refire(i)
  BY <1>1, <1>5, FireFinds DEF Refire
<1>6. CASE Mark(i)
  BY <1>1, <1>2, <1>6, BaseApart DEF Mark, MarkReinstated, LiveMemberships
<1>7. CASE Direct(i)
  BY <1>1, <1>2, <1>7, BaseApart DEF Direct, DirectReinstate, MarkedMemberships
<1>8. CASE UNCHANGED fact
  BY <1>2, <1>8
<1> QED
  BY <1>4, <1>5, <1>6, <1>7, <1>8 DEF Handle, RecordRejection, DeleteRejection, Examine, Probe,
     EndWalk, SweepNetwork, EndNetwork, EndSweep, Touch, graph

\* A base fact is of no hub: Rule 11's revert, which goes by the verdict, never meets one.
LEMMA BaseOfNoHub == \A f \in BaseFacts : f.rel # RelationshipType("Rule_11")
<1>1. \A r, a, b : Key(r, a, b).rel = RelationshipType(r)
  BY DEF Key
<1>2. {"Rule_02", "Rule_07", "Rule_10", "Rule_11"} \subseteq Rules \ EdgeRules
  BY DEF Rules, EdgeRules, NetworkRules, LinkRules
<1>3. /\ \A f \in EdgeFacts : \E r \in EdgeRules : f.rel = RelationshipType(r)
      /\ \A f \in MemberFacts : f.rel = RelationshipType("Rule_02")
      /\ \A f \in PriorFacts : f.rel = RelationshipType("Rule_07")
      /\ \A f \in MergedFacts : f.rel = RelationshipType("Rule_10")
  BY <1>1, FamiliesTyped
<1> QED BY <1>2, <1>3, RelationshipTypesDiffer DEF BaseFacts

\* A request that is let in gives the verdict it brings on one base fact, or on none.
LEMMA SubmitGivesVerdict ==
    ASSUME TypeOK, NEW i \in Investigators, Submit(i)
    PROVE  [V!Next]_(V!vars)
<1>1. fact \in [Facts -> Marks]
  BY DEF TypeOK, GraphTypeOK
<1>2. CASE \A f \in BaseFacts : fact'[f] = fact[f]
  BY <1>2 DEF V!vars
<1>3. PICK case \in Cases, rule \in Rules :
        \/ \E g \in Facts : RejectFact(i, case, rule, g) \/ RevertFact(i, case, rule, g)
        \/ \E id \in FlagIds, s \in Subjects :
              RejectFlag(i, case, rule, id, s) \/ RevertFlag(i, case, rule, id, s)
  BY DEF Submit
<1>4. ASSUME NEW g \in Facts, NEW s \in {"active", "rejected"}, NEW h \in {"rejected", "reverted"},
             fact' = [fact EXCEPT ![g] = [[@ EXCEPT !.status = s] EXCEPT !.human = h]]
      PROVE  /\ g \notin BaseFacts => \A f \in BaseFacts : fact'[f] = fact[f]
             /\ \A f \in BaseFacts : /\ fact'[f].status = IF f = g THEN s ELSE fact[f].status
                                     /\ fact'[f].human = IF f = g THEN h ELSE fact[f].human
  <2>1. \A m \in Marks : /\ [[m EXCEPT !.status = s] EXCEPT !.human = h].status = s
                         /\ [[m EXCEPT !.status = s] EXCEPT !.human = h].human = h
    BY DEF Marks
  <2>2. fact[g] \in Marks /\ BaseFacts \subseteq Facts
    BY <1>1, BaseApart
  <2>3. \A f \in Facts : fact'[f] = IF f = g THEN [[fact[g] EXCEPT !.status = s] EXCEPT !.human = h]
                                             ELSE fact[f]
    BY <1>1, <1>4
  <2> QED BY <2>1, <2>2, <2>3
<1>5. ASSUME NEW g \in Facts, RejectFact(i, case, rule, g) PROVE [V!Next]_(V!vars)
  <2>1. fact[g].status = "active"
        /\ fact' = [fact EXCEPT ![g] = [[@ EXCEPT !.status = "rejected"] EXCEPT !.human = "rejected"]]
    BY <1>5 DEF RejectFact, Active
  <2>2. CASE g \in BaseFacts
    <3>1. \A f \in BaseFacts : /\ fact'[f].status = IF f = g THEN "rejected" ELSE fact[f].status
                               /\ fact'[f].human = IF f = g THEN "rejected" ELSE fact[f].human
      BY <1>4, <2>1
    <3>2. V!Reject(g)
      BY <2>1, <2>2, <3>1 DEF V!Reject
    <3> QED BY <2>2, <3>2 DEF V!Next
  <2>3. CASE g \notin BaseFacts
    BY <1>2, <1>4, <2>1, <2>3
  <2> QED BY <2>2, <2>3
<1>6. ASSUME NEW g \in Facts, RevertFact(i, case, rule, g) PROVE [V!Next]_(V!vars)
  <2>1. fact' = [fact EXCEPT ![g] = [[@ EXCEPT !.status = "active"] EXCEPT !.human = "reverted"]]
    BY <1>6 DEF RevertFact
  <2>2. CASE g \in BaseFacts
    <3>1. \A f \in BaseFacts : /\ fact'[f].status = IF f = g THEN "active" ELSE fact[f].status
                               /\ fact'[f].human = IF f = g THEN "reverted" ELSE fact[f].human
      BY <1>4, <2>1
    <3>2. fact[g].status = "rejected"
      BY <1>6, <2>2, BaseOfNoHub DEF RevertFact, IsRejected, FactInReach
    <3>3. V!Revert(g)
      BY <2>2, <3>1, <3>2 DEF V!Revert
    <3> QED BY <2>2, <3>3 DEF V!Next
  <2>3. CASE g \notin BaseFacts
    BY <1>2, <1>4, <2>1, <2>3
  <2> QED BY <2>2, <2>3
<1>7. CASE \E id \in FlagIds, s \in Subjects :
              RejectFlag(i, case, rule, id, s) \/ RevertFlag(i, case, rule, id, s)
  BY <1>2, <1>7 DEF RejectFlag, RevertFlag
<1> QED BY <1>3, <1>5, <1>6, <1>7

\* Every behaviour of the review, for every graph and any number of investigators and
\* runs, is one of Verdicts: a verdict on a base fact is one step, and nothing else
\* changes what it says.
THEOREM ReviewGivesVerdicts == Spec => VerdictsImplemented
<1>1. Init => V!Init
  BY BaseApart DEF Init, GraphInit, Unwritten, V!Init
<1>2. TypeOK /\ [Next]_vars => [V!Next]_(V!vars)
  <2> SUFFICES ASSUME TypeOK, [Next]_vars PROVE [V!Next]_(V!vars)
    OBVIOUS
  <2>1. CASE UNCHANGED vars
    BY <2>1 DEF vars, graph, V!vars
  <2>2. ASSUME NEW i \in Investigators, Submit(i) PROVE [V!Next]_(V!vars)
    BY <2>2, SubmitGivesVerdict
  <2>3. ASSUME NEW i \in Investigators, Handle(i) PROVE [V!Next]_(V!vars)
    BY <2>3, HandleFinds
  <2>4. ASSUME NEW i \in Investigators, Cut(i) PROVE [V!Next]_(V!vars)
    BY <2>4 DEF Cut, graph, V!vars
  <2>5. ASSUME NEW w \in Runners, Reason(w) \/ AbortRun(w) PROVE [V!Next]_(V!vars)
    <3>1. CASE UNCHANGED fact
      BY <3>1 DEF V!vars
    <3> QED BY <2>5, <3>1, FireFinds DEF Reason, RunRule, StartRun, AbortRun, graph, TypeOK
  <2> QED BY <2>1, <2>2, <2>3, <2>4, <2>5 DEF Next
<1> QED BY <1>1, <1>2, TypeCorrect, PTL DEF Spec, VerdictsImplemented, V!Spec

---------------------------------------------------------------------------
(* Reasoning runs respect the review.                                      *)

\* Each flag rule revives its finding only for a subject nobody vetoed it for.
LEMMA FlagsRevivedUnvetoed ==
    ASSUME GraphTypeOK, NEW rule, NEW case, NEW w, run[w].subject \in Subjects,
           Fire(rule, case, run[w].subject),
           NEW id \in FlagIds, flag[id].status = "rejected", flag'[id].status # "rejected"
    PROVE  \E s \in AssertedFor(w, id) : ~Vetoed(Key(id[1], s, id[2]))
<1> DEFINE subject == run[w].subject
           lead == Lead(Recidivists(id[2], subject))
<1>1. AssertFlags(rule, case, subject)
  BY DEF Fire, Assert, AssertHubs, graph
<1>2. /\ id[1] = rule
      /\ \/ rule = "Rule_08" /\ Recidivists(id[2], subject) # {}
         \/ rule = "Rule_12" /\ Corroborated(id[2], subject)
         \/ rule = "Rule_13" /\ FastTracks(id[2], case, subject)
  BY <1>1 DEF AssertFlags
<1>3. CASE rule = "Rule_08"
  <2>1. flag'[id] = [[[flag[id] EXCEPT !.status = "active"] EXCEPT !.asserted = TRUE] EXCEPT !.subject = lead]
    BY <1>1, <1>2, <1>3 DEF AssertFlags
  <2>2. flag'[id].subject = lead
    <3> HIDE DEF lead
    <3> QED BY <2>1 DEF GraphTypeOK, FlagMarks
  <2>3. lead \in Recidivists(id[2], subject)
    <3>1. Recidivists(id[2], subject) \subseteq Nat
      BY NodesTyped, SubjectsOrdered DEF Recidivists
    <3> QED BY <1>2, <1>3, <3>1, LeadInSet
  <2>4. AssertedFor(w, id) = {flag'[id].subject}
    BY <1>2, <1>3 DEF AssertedFor
  <2>5. ~Vetoed(Key("Rule_08", lead, id[2]))
    BY <2>3 DEF Recidivists
  <2> HIDE DEF lead
  <2> QED BY <1>2, <1>3, <2>2, <2>4, <2>5
<1>4. CASE rule = "Rule_12"
  <2>1. PICK e \in WageEvidence : e[2] = id[2] /\ e[1] \in Scope[subject] /\ ~Vetoed(Key("Rule_12", e[1], id[2]))
    BY <1>2, <1>4 DEF Corroborated
  <2>2. e = <<e[1], id[2]>>
    BY <2>1, NodesTyped
  <2>3. AssertedFor(w, id) = {s \in Scope[subject] : <<s, id[2]>> \in WageEvidence}
    BY <1>2, <1>4 DEF AssertedFor
  <2> QED BY <1>2, <1>4, <2>1, <2>2, <2>3
<1>5. CASE rule = "Rule_13"
  BY <1>2, <1>5 DEF FastTracks, AssertedFor
<1> QED BY <1>2, <1>3, <1>4, <1>5

\* A request that is let in starts no run and stops none.
LEMMA SubmitKeepsRuns ==
    ASSUME NEW i \in Investigators, Submit(i)
    PROVE  UNCHANGED run
<1>1. PICK case \in Cases, rule \in Rules :
        \/ \E f \in Facts : RejectFact(i, case, rule, f) \/ RevertFact(i, case, rule, f)
        \/ \E id \in FlagIds, s \in Subjects :
              RejectFlag(i, case, rule, id, s) \/ RevertFlag(i, case, rule, id, s)
  BY DEF Submit
<1>2. \A op, key, affected : NewRequest(i, op, case, rule, key, affected) => UNCHANGED run
  BY DEF NewRequest, Other
<1>3. \A f \in Facts : RejectFact(i, case, rule, f) \/ RevertFact(i, case, rule, f) => UNCHANGED run
  BY <1>2 DEF RejectFact, RevertFact
<1>4. \A id \in FlagIds, s \in Subjects :
         RejectFlag(i, case, rule, id, s) \/ RevertFlag(i, case, rule, id, s) => UNCHANGED run
  BY <1>2 DEF RejectFlag, RevertFlag
<1> QED BY <1>1, <1>3, <1>4

\* A reasoning run revives no rejected fact but an unvetoed hub finding, and a rejected flag,
\* whichever rule's, only for a subject nobody vetoed.
THEOREM RunsRespectVerdicts == Spec => RunsRespectReview
<1> DEFINE Respects == \A w \in Runners : run'[w] # run[w] =>
              /\ \A f \in Facts : fact[f].status = "rejected" /\ fact'[f].status # "rejected"
                                  => f \in HubFacts /\ ~Vetoed(f)
              /\ \A id \in FlagIds : flag[id].status = "rejected" /\ flag'[id].status # "rejected"
                                  => \E s \in AssertedFor(w, id) : ~Vetoed(Key(id[1], s, id[2]))
<1>1. TypeOK /\ [Next]_vars => [Respects]_vars
  <2> SUFFICES ASSUME TypeOK, Next PROVE Respects
    OBVIOUS
  <2>1. ASSUME NEW i \in Investigators, Submit(i) PROVE Respects
    <3>1. UNCHANGED run
      BY <2>1, SubmitKeepsRuns
    <3> QED BY <3>1
  <2>2. ASSUME NEW i \in Investigators, Handle(i) PROVE Respects
    BY <2>2, HandleKeepsRuns
  <2>3. ASSUME NEW i \in Investigators, Cut(i) PROVE Respects
    BY <2>3 DEF Cut
  <2>4. ASSUME NEW w \in Runners, Reason(w) \/ AbortRun(w) PROVE Respects
    <3>1. CASE UNCHANGED graph
      BY <3>1 DEF graph
    <3>2. CASE RunRule(w)
      <4>1. run[w].subject \in Subjects
        BY <3>2 DEF RunRule, TypeOK, RunIdle, Runs
      <4>2. Fire(RuleOrder[run[w].next], run[w].case, run[w].subject) /\ GraphTypeOK
        BY <3>2 DEF RunRule, TypeOK
      <4>3. \A v \in Runners : run'[v] # run[v] => v = w
        BY <3>2 DEF RunRule, TypeOK
      <4> QED BY <4>1, <4>2, <4>3, FireKeepsRejected, FlagsRevivedUnvetoed
    <3> QED BY <2>4, <3>1, <3>2 DEF Reason, StartRun, AbortRun
  <2> QED BY <2>1, <2>2, <2>3, <2>4 DEF Next
<1> QED BY <1>1, TypeCorrect, PTL DEF Spec, RunsRespectReview

---------------------------------------------------------------------------
(* A veto names a finding.  The invariant alone is not inductive: it also  *)
(* takes that a request about to write a :Rejection names a finding, and   *)
(* that a finding once written stays written.                              *)

VetoInFlightNamesFinding ==
    \A i \in Investigators : req[i].pc = "veto" => Written(req[i].key)
VetoInv == VetoNamesFinding /\ VetoInFlightNamesFinding

\* Nothing unwrites a finding: no status returns to "absent", no rule's properties vanish.
StaysWritten ==
    /\ \A f \in Facts : fact[f].status # "absent" => fact'[f].status # "absent"
    /\ \A id \in FlagIds : /\ flag[id].asserted => flag'[id].asserted
                           /\ flag[id].status # "absent" => flag'[id].status # "absent"

\* Where no step erases a finding, a written key stays written.
LEMMA WrittenForGood ==
    ASSUME StaysWritten, NEW key, Written(key)
    PROVE  Written(key)'
BY DEF StaysWritten, Written

\* No firing erases a finding (MERGE and SET only add).
LEMMA FireStaysWritten ==
    ASSUME GraphTypeOK, NEW rule, NEW case, NEW subject, Fire(rule, case, subject)
    PROVE  StaysWritten
<1>1. \A m \in Marks : [m EXCEPT !.status = "active"].status = "active"
  BY DEF Marks
<1>2. \A m \in FlagMarks :
         LET n == [[m EXCEPT !.status = "active"] EXCEPT !.asserted = TRUE]
         IN  n \in FlagMarks /\ n.status = "active" /\ n.asserted
  BY DEF FlagMarks
<1>3. \A m \in FlagMarks : \A v :
         LET n == [m EXCEPT !.subject = v]
         IN  n.status = m.status /\ n.asserted = m.asserted
  BY DEF FlagMarks
<1>4. CASE UNCHANGED graph
  BY <1>4 DEF graph, StaysWritten
<1>5. CASE \E ids : Assert(ids)
  BY <1>1, <1>5 DEF Assert, StaysWritten, GraphTypeOK
<1>6. CASE AssertHubs(subject)
  BY <1>1, <1>6 DEF AssertHubs, StaysWritten, GraphTypeOK
<1>7. CASE AssertFlags(rule, case, subject)
  <2>1. UNCHANGED fact
    BY <1>7 DEF AssertFlags
  <2>2. ASSUME NEW id \in FlagIds
        PROVE  \/ flag'[id] = flag[id]
               \/ flag'[id] = [[flag[id] EXCEPT !.status = "active"] EXCEPT !.asserted = TRUE]
               \/ flag'[id] = [[[flag[id] EXCEPT !.status = "active"] EXCEPT !.asserted = TRUE]
                                EXCEPT !.subject = Lead(Recidivists(id[2], subject))]
    BY <1>7 DEF AssertFlags
  <2>3. ASSUME NEW id \in FlagIds
        PROVE  \/ flag'[id] = flag[id]
               \/ flag'[id].status = "active" /\ flag'[id].asserted
    <3> DEFINE set == [[flag[id] EXCEPT !.status = "active"] EXCEPT !.asserted = TRUE]
    <3>1. set \in FlagMarks /\ set.status = "active" /\ set.asserted
      BY <1>2 DEF GraphTypeOK
    <3>2. flag'[id] \in {flag[id], set, [set EXCEPT !.subject = Lead(Recidivists(id[2], subject))]}
      BY <2>2
    <3> HIDE DEF set
    <3> QED BY ZenonT(30), <1>3, <3>1, <3>2
  <2> QED BY <2>1, <2>3 DEF StaysWritten
<1> QED BY <1>4, <1>5, <1>6, <1>7 DEF Fire

\* Neither does a statement of the cascade.
LEMMA MarksStayWritten ==
    /\ \A m \in Marks \cup FlagMarks :
          /\ Invalidated(m).status = "rejected" /\ Reinstated(m).status = "active"
          /\ Unmarked(m).status = m.status
    /\ \A m \in FlagMarks :
          Invalidated(m).asserted = m.asserted /\ Reinstated(m).asserted = m.asserted
            /\ Unmarked(m).asserted = m.asserted
BY DEF Marks, FlagMarks, Invalidated, Reinstated, Unmarked

\* Nor does any other statement of a request.
LEMMA HandleStaysWritten ==
    ASSUME TypeOK, NEW i \in Investigators, Handle(i)
    PROVE  StaysWritten
<1>1. GraphTypeOK /\ (\A f \in Facts : fact[f] \in Marks) /\ (\A id \in FlagIds : flag[id] \in FlagMarks)
  BY DEF TypeOK, GraphTypeOK
<1>2. CASE UNCHANGED <<fact, flag>>
  BY <1>2 DEF StaysWritten
<1>3. ASSUME NEW rule, NEW s, NEW case, AutoInvalidate(rule, s, case)
      PROVE  StaysWritten
  BY <1>1, <1>3, MarksStayWritten DEF AutoInvalidate, StaysWritten
<1>4. CASE Invalidate(i) \/ \E s \in Subjects : SweepOrphan(i, s)
  BY <1>3, <1>4 DEF Invalidate, SweepOrphan
<1>5. CASE Refire(i)
  BY <1>1, <1>5, FireStaysWritten DEF Refire
<1>6. CASE Mark(i)
  BY <1>1, <1>6, MarksStayWritten DEF Mark, MarkReinstated, StaysWritten
<1>7. CASE Direct(i)
  BY <1>1, <1>7, MarksStayWritten DEF Direct, DirectReinstate, StaysWritten
<1> QED
  BY <1>2, <1>4, <1>5, <1>6, <1>7 DEF Handle, RecordRejection, DeleteRejection, Examine, Probe,
     EndWalk, SweepNetwork, EndNetwork, EndSweep, Touch, graph

\* A request that is let in leaves every finding written, and a reject starts from one.
LEMMA SubmitNamesFinding ==
    ASSUME TypeOK, NEW i \in Investigators, Submit(i)
    PROVE  /\ StaysWritten
           /\ req'[i].pc = "veto" => Written(req'[i].key)
           /\ \A j \in Investigators \ {i} : req'[j] = req[j]
           /\ rejections' = rejections
<1>1. ReqTyped /\ GraphTypeOK
  BY DEF TypeOK, ReqTyped
<1>2. PICK case \in Cases, rule \in Rules :
        \/ \E f \in Facts : RejectFact(i, case, rule, f) \/ RevertFact(i, case, rule, f)
        \/ \E id \in FlagIds, s \in Subjects :
              RejectFlag(i, case, rule, id, s) \/ RevertFlag(i, case, rule, id, s)
  BY DEF Submit
<1>3. \A op, key, affected : NewRequest(i, op, case, rule, key, affected) =>
        /\ req'[i].pc = (IF op = "reject" THEN "veto" ELSE "unveto") /\ req'[i].key = key
        /\ \A j \in Investigators \ {i} : req'[j] = req[j]
        /\ rejections' = rejections
  BY <1>1 DEF NewRequest, ReqTyped
<1>4. \A m \in Marks \cup FlagMarks, v \in {"active", "rejected"}, h \in {"rejected", "reverted"} :
        [[m EXCEPT !.status = v] EXCEPT !.human = h].status = v
  BY DEF Marks, FlagMarks
<1>5. \A m \in FlagMarks, v \in {"active", "rejected"}, h \in {"rejected", "reverted"} :
        [[m EXCEPT !.status = v] EXCEPT !.human = h].asserted = m.asserted
  BY DEF FlagMarks
<1>6. (\A f \in Facts : fact[f] \in Marks) /\ (\A id \in FlagIds : flag[id] \in FlagMarks)
  BY <1>1 DEF GraphTypeOK
<1>7. ASSUME NEW f \in Facts, RejectFact(i, case, rule, f)
      PROVE  StaysWritten /\ Written(f) /\ NewRequest(i, "reject", case, rule, f, AffectedBy(rule, f))
  BY <1>1, <1>4, <1>6, <1>7 DEF RejectFact, StaysWritten, Written, Active, GraphTypeOK
<1>8. ASSUME NEW f \in Facts, RevertFact(i, case, rule, f)
      PROVE  StaysWritten /\ NewRequest(i, "revert", case, rule, f, AffectedBy(rule, f))
  BY <1>1, <1>4, <1>6, <1>8 DEF RevertFact, StaysWritten, GraphTypeOK
<1>9. ASSUME NEW id \in FlagIds, NEW s \in Subjects, RejectFlag(i, case, rule, id, s)
      PROVE  /\ StaysWritten /\ Written(Key(rule, s, id[2]))
             /\ NewRequest(i, "reject", case, rule, Key(rule, s, id[2]), <<s>>)
  <2>1. Written(Key(rule, s, id[2]))
    BY <1>9 DEF RejectFlag, FlagInReach, Written, Key
  <2>2. StaysWritten
    BY <1>1, <1>4, <1>5, <1>6, <1>9 DEF RejectFlag, StaysWritten, GraphTypeOK
  <2> QED BY <1>9, <2>1, <2>2 DEF RejectFlag
<1>10. ASSUME NEW id \in FlagIds, NEW s \in Subjects, RevertFlag(i, case, rule, id, s)
       PROVE  StaysWritten /\ NewRequest(i, "revert", case, rule, Key(rule, s, id[2]), <<s>>)
  BY <1>1, <1>4, <1>5, <1>6, <1>10 DEF RevertFlag, StaysWritten, GraphTypeOK
<1> QED BY <1>2, <1>3, <1>7, <1>8, <1>9, <1>10

\* No statement after the first puts a request back where it records its veto.
LEMMA HandleLeavesVeto ==
    ASSUME TypeOK, NEW i \in Investigators, Handle(i)
    PROVE  /\ req'[i].pc # "veto"
           /\ \A j \in Investigators \ {i} : req'[j] = req[j]
<1>1. ReqTyped
  BY DEF TypeOK, ReqTyped
<1>2. \A label \in Labels \ {"veto"} : Goto(i, label) =>
        req'[i].pc # "veto" /\ \A j \in Investigators \ {i} : req'[j] = req[j]
  <2>1. ~Quiet(i)
    BY DEF Handle, RecordRejection, DeleteRejection, Examine, Invalidate, Refire, Probe, Mark, Direct,
           AtTask, EndWalk, SweepNetwork, SweepOrphan, EndNetwork, EndSweep, Touch, Quiet
  <2>2. req[i] \in Requests
    BY <1>1, <2>1, InFlight
  <2> QED BY <1>1, <2>2 DEF Goto, ReqTyped, Requests
<1>3. \A r \in Requests : \A label, v :
        /\ [[r EXCEPT !.pc = label] EXCEPT !.todo = v].pc = label
        /\ [[r EXCEPT !.pc = label] EXCEPT !.nets = v].pc = label
  BY DEF Requests
<1>4. \A r \in Requests : \A label, v, t, o :
        [[[[r EXCEPT !.pc = label] EXCEPT !.nets = v] EXCEPT !.type = t] EXCEPT !.orphans = o].pc = label
  BY DEF Requests
<1>5. ~Quiet(i) => req[i] \in Requests
  BY <1>1, InFlight
<1>6. ASSUME ~Quiet(i), StartWalk(i) \/ Skip(i) \/ Descend(i)
      PROVE  req'[i].pc # "veto" /\ \A j \in Investigators \ {i} : req'[j] = req[j]
  <2>1. \E v : req' = [req EXCEPT ![i] = [[req[i] EXCEPT !.pc = "walk"] EXCEPT !.todo = v]]
    <3>1. CASE StartWalk(i)
      BY <1>1, <3>1 DEF StartWalk, ReqTyped
    <3>2. CASE Skip(i)
      BY <1>1, <3>2 DEF Skip, ReqTyped
    <3>3. CASE Descend(i)
      BY <1>1, <3>3 DEF Descend, ReqTyped
    <3> QED BY <1>6, <3>1, <3>2, <3>3
  <2> QED BY <1>1, <1>3, <1>5, <1>6, <2>1 DEF ReqTyped
<1>7. CASE RecordRejection(i) \/ DeleteRejection(i)
  BY <1>6, <1>7 DEF RecordRejection, DeleteRejection, Quiet
<1>8. CASE Examine(i) \/ Invalidate(i) \/ Refire(i) \/ Probe(i) \/ Mark(i) \/ Direct(i)
  <2>1. ~Quiet(i)
    BY <1>8 DEF Examine, Invalidate, Refire, Probe, Mark, Direct, AtTask, Quiet
  <2>2. \/ Skip(i) \/ Descend(i)
        \/ \E label \in Labels \ {"veto"} : Goto(i, label)
    BY <1>8 DEF Examine, Invalidate, Refire, Probe, Mark, Direct, Labels
  <2> QED BY <1>2, <1>6, <2>1, <2>2
<1>9. CASE EndWalk(i)
  <2>1. ~Quiet(i)
    BY <1>9 DEF EndWalk, Quiet
  <2>2. \/ Goto(i, "touch")
        \/ \E v : req' = [req EXCEPT ![i] = [[req[i] EXCEPT !.pc = "sweep"] EXCEPT !.nets = v]]
    BY <1>1, <1>9 DEF EndWalk, ReqTyped
  <2>3. CASE Goto(i, "touch")
    BY <1>2, <2>3 DEF Labels
  <2>4. CASE \E v : req' = [req EXCEPT ![i] = [[req[i] EXCEPT !.pc = "sweep"] EXCEPT !.nets = v]]
    BY <1>1, <1>3, <1>5, <2>1, <2>4 DEF ReqTyped
  <2> QED BY <2>2, <2>3, <2>4
<1>10. ASSUME NEW net \in Networks, SweepNetwork(i, net)
       PROVE  req'[i].pc # "veto" /\ \A j \in Investigators \ {i} : req'[j] = req[j]
  <2>1. ~Quiet(i)
    BY <1>10 DEF SweepNetwork, Quiet
  <2>2. \E v, t, o : req' = [req EXCEPT ![i] = [[[[req[i] EXCEPT !.pc = "orphans"] EXCEPT !.nets = v]
                                                EXCEPT !.type = t] EXCEPT !.orphans = o]]
    <3> DEFINE v == req[i].nets \ {net}
               t == NetworkType[net]
               o == IF InternalEdge(net) THEN {} ELSE Members(net)
    <3>1. req' = [req EXCEPT ![i] = [[[[req[i] EXCEPT !.pc = "orphans"] EXCEPT !.nets = v]
                                       EXCEPT !.type = t] EXCEPT !.orphans = o]]
      BY <1>10 DEF SweepNetwork
    <3> HIDE DEF v, t, o
    <3> QED BY <3>1
  <2> QED BY <1>1, <1>4, <1>5, <2>1, <2>2 DEF ReqTyped
<1>11. CASE \E s \in Subjects : SweepOrphan(i, s)
  <2>1. PICK s \in Subjects : SweepOrphan(i, s)
    BY <1>11
  <2>2. ~Quiet(i) /\ req[i].pc = "orphans"
    BY <2>1 DEF SweepOrphan, Quiet
  <2>3. [req[i] EXCEPT !.orphans = @ \ {s}].pc = "orphans"
    BY <1>5, <2>2 DEF Requests
  <2> QED BY <1>1, <2>1, <2>3 DEF SweepOrphan, ReqTyped
<1>12. CASE EndNetwork(i) \/ EndSweep(i)
  BY <1>2, <1>12 DEF EndNetwork, EndSweep, Labels
<1>13. CASE Touch(i)
  BY <1>1, <1>13 DEF Touch, ReqTyped, Idle
<1> QED BY <1>7, <1>8, <1>9, <1>10, <1>11, <1>12, <1>13 DEF Handle

\* A veto is only ever written by the request in whose key it names.
LEMMA HandleKeepsVetoes ==
    ASSUME NEW i \in Investigators, Handle(i)
    PROVE  \A r \in rejections' \ rejections :
             /\ req[i].pc = "veto"
             /\ [rel |-> r.rel, from |-> r.from, to |-> r.to]
                  = [rel |-> req[i].key.rel, from |-> req[i].key.from, to |-> req[i].key.to]
<1>1. CASE RecordRejection(i)
  BY <1>1 DEF RecordRejection
<1>2. CASE DeleteRejection(i)
  BY <1>2 DEF DeleteRejection
<1>3. CASE Refire(i)
  BY <1>3 DEF Refire, Fire, Assert, AssertHubs, AssertFlags, graph
<1>4. CASE UNCHANGED rejections
  BY <1>4
<1> QED
  BY <1>1, <1>2, <1>3, <1>4 DEF Handle, Examine, Invalidate, AutoInvalidate, Probe, Mark, MarkReinstated,
     Direct, DirectReinstate, EndWalk, SweepNetwork, SweepOrphan, EndNetwork, EndSweep, Touch, graph

\* A :Rejection node always names a finding some rule wrote.
THEOREM VetoesNameFindings == Spec => []VetoNamesFinding
<1>1. Init => VetoInv
  BY DEF Init, GraphInit, VetoInv, VetoNamesFinding, VetoInFlightNamesFinding, Idle
<1>2. TypeOK /\ VetoInv /\ [Next]_vars => VetoInv'
  <2> SUFFICES ASSUME TypeOK, VetoInv, [Next]_vars PROVE VetoInv'
    OBVIOUS
  <2>1. ASSUME NEW i \in Investigators, Submit(i) PROVE VetoInv'
    <3>1. /\ StaysWritten /\ rejections' = rejections
          /\ req'[i].pc = "veto" => Written(req'[i].key)
          /\ \A j \in Investigators \ {i} : req'[j] = req[j]
      BY <2>1, SubmitNamesFinding
    <3>2. VetoNamesFinding'
      BY <3>1, WrittenForGood DEF VetoInv, VetoNamesFinding
    <3>3. VetoInFlightNamesFinding'
      BY <3>1, WrittenForGood DEF VetoInv, VetoInFlightNamesFinding
    <3> QED BY <3>2, <3>3 DEF VetoInv
  <2>2. ASSUME NEW i \in Investigators, Handle(i) PROVE VetoInv'
    <3>1. StaysWritten
      BY <2>2, HandleStaysWritten
    <3>2. req'[i].pc # "veto" /\ \A j \in Investigators \ {i} : req'[j] = req[j]
      BY <2>2, HandleLeavesVeto
    <3>3. VetoInFlightNamesFinding'
      BY <3>1, <3>2, WrittenForGood DEF VetoInv, VetoInFlightNamesFinding
    <3>4. ASSUME NEW r \in rejections' PROVE Written([rel |-> r.rel, from |-> r.from, to |-> r.to])'
      <4>1. CASE r \in rejections
        BY <3>1, <4>1, WrittenForGood DEF VetoInv, VetoNamesFinding
      <4>2. CASE r \notin rejections
        <5>1. /\ req[i].pc = "veto"
              /\ [rel |-> r.rel, from |-> r.from, to |-> r.to]
                   = [rel |-> req[i].key.rel, from |-> req[i].key.from, to |-> req[i].key.to]
          BY <2>2, <4>2, HandleKeepsVetoes
        <5>2. req[i].key \in Keys
          BY <5>1, InFlight DEF TypeOK, ReqTyped, Quiet, Requests
        <5>3. req[i].key = [rel |-> r.rel, from |-> r.from, to |-> r.to]
          BY <5>1, <5>2 DEF Keys
        <5>4. Written([rel |-> r.rel, from |-> r.from, to |-> r.to])
          BY <5>1, <5>3 DEF VetoInv, VetoInFlightNamesFinding
        <5> QED BY <3>1, <5>4, WrittenForGood
      <4> QED BY <4>1, <4>2
    <3> QED BY <3>3, <3>4 DEF VetoInv, VetoNamesFinding
  <2>3. ASSUME NEW i \in Investigators, Cut(i) PROVE VetoInv'
    <3>1. StaysWritten /\ rejections' = rejections
      BY <2>3 DEF Cut, graph, StaysWritten
    <3>2. \A j \in Investigators : req'[j] = req[j] \/ req'[j].pc = "idle"
      BY <2>3 DEF Cut, TypeOK, Idle
    <3> QED BY <3>1, <3>2, WrittenForGood DEF VetoInv, VetoNamesFinding, VetoInFlightNamesFinding
  <2>4. ASSUME NEW w \in Runners, Reason(w) \/ AbortRun(w) PROVE VetoInv'
    <3>1. UNCHANGED <<req, rejections>>
      BY <2>4 DEF Reason, RunRule, StartRun, AbortRun, Review, graph, Fire, Assert, AssertHubs, AssertFlags
    <3>2. StaysWritten
      <4>1. CASE UNCHANGED graph
        BY <4>1 DEF graph, StaysWritten
      <4>2. CASE RunRule(w)
        BY <4>2, FireStaysWritten DEF RunRule, TypeOK
      <4> QED BY <2>4, <4>1, <4>2 DEF Reason, StartRun, AbortRun
    <3> QED BY <3>1, <3>2, WrittenForGood DEF VetoInv, VetoNamesFinding, VetoInFlightNamesFinding
  <2>5. CASE UNCHANGED vars
    BY <2>5 DEF vars, graph, VetoInv, VetoNamesFinding, VetoInFlightNamesFinding, Written
  <2> QED BY <2>1, <2>2, <2>3, <2>4, <2>5 DEF Next
<1>3. VetoInv => VetoNamesFinding
  BY DEF VetoInv
<1> QED BY <1>1, <1>2, <1>3, TypeCorrect, PTL DEF Spec

---------------------------------------------------------------------------
(* Who asks for what at one time.                                          *)

\* nothing is ever given back, or no request is under way beside another
OneWay == "revert" \notin Operations \/ \A i, j \in Investigators : i = j

---------------------------------------------------------------------------
(* Work lists.                                                             *)

Listed(todo, rule, s) == \E n \in 1..Len(todo) : todo[n].rule = rule /\ todo[n].subject = s
Among(subjects, s) == \E n \in 1..Len(subjects) : subjects[n] = s

\* A task that is listed is the first, or listed among the rest (_walk's order).
LEMMA ListedTail ==
    ASSUME NEW q \in Seq(Tasks), q # <<>>, NEW rule, NEW s, Listed(q, rule, s),
           ~(Head(q).rule = rule /\ Head(q).subject = s)
    PROVE  Listed(Tail(q), rule, s)
<1>1. PICK n \in 1..Len(q) : q[n].rule = rule /\ q[n].subject = s
  BY DEF Listed
<1>2. n # 1
  BY <1>1
<1>3. n - 1 \in 1..Len(Tail(q)) /\ Tail(q)[n - 1] = q[n]
  BY <1>1, <1>2, HeadTailProperties
<1> QED BY <1>1, <1>3 DEF Listed

\* A task stays listed when others are put before it (_walk's recursion).
LEMMA ListedAfter ==
    ASSUME NEW p \in Seq(Tasks), NEW q \in Seq(Tasks), NEW rule, NEW s, Listed(q, rule, s)
    PROVE  Listed(p \o q, rule, s)
<1>1. PICK n \in 1..Len(q) : q[n].rule = rule /\ q[n].subject = s
  BY DEF Listed
<1>2. Len(p) + n \in 1..Len(p \o q) /\ (p \o q)[Len(p) + n] = q[n]
  BY <1>1, ConcatProperties
<1> QED BY <1>1, <1>2 DEF Listed

\* The walk from a reviewed fact lists, for each subject it affects, the first dependent of
\* the fact's rule (DOWNSTREAM_DEPENDENTS).
LEMMA WalkLists ==
    ASSUME NEW rule \in Rules, NEW subjects \in Seq(Subjects), NEW s, Among(subjects, s),
           MaxWalkDepth > 0, Dependents(rule) # <<>>
    PROVE  Listed(TasksFor(rule, subjects, 0), Dependents(rule)[1], s)
<1> DEFINE Of(d) == [n \in 1..Len(subjects) |-> [rule |-> d, subject |-> subjects[n], depth |-> 0]]
<1>1. PICK n \in 1..Len(subjects) : subjects[n] = s
  BY DEF Among
<1>2. Len(subjects) \in Nat
  OBVIOUS
<1>3. ASSUME NEW d PROVE Len(Of(d)) = Len(subjects) /\ Of(d)[n].rule = d /\ Of(d)[n].subject = s
  BY <1>1, <1>2
<1>4. ASSUME NEW d \in Rules PROVE Of(d) \in Seq(Tasks)
  <2>1. \A k \in 1..Len(subjects) : [rule |-> d, subject |-> subjects[k], depth |-> 0] \in Tasks
    BY <1>4 DEF Tasks
  <2>2. Of(d) \in [1..Len(subjects) -> Tasks]
    BY <2>1
  <2> QED BY <2>2, <1>2, SeqDef
<1> HIDE DEF Of
<1>5. ASSUME NEW a \in Rules, Dependents(rule) = <<a>>
      PROVE  Listed(TasksFor(rule, subjects, 0), Dependents(rule)[1], s)
  <2>1. TasksFor(rule, subjects, 0) = Of(a)
    BY <1>5, BoundsTyped DEF TasksFor, Of
  <2>2. Dependents(rule)[1] = a
    BY <1>5
  <2> QED BY <2>1, <2>2, <1>1, <1>3 DEF Listed
<1>6. ASSUME NEW a \in Rules, NEW b \in Rules, Dependents(rule) = <<a, b>>
      PROVE  Listed(TasksFor(rule, subjects, 0), Dependents(rule)[1], s)
  <2>1. TasksFor(rule, subjects, 0) = Of(a) \o Of(b)
    BY <1>6, BoundsTyped DEF TasksFor, Of
  <2>2. Dependents(rule)[1] = a
    BY <1>6
  <2>3. n \in 1..Len(Of(a) \o Of(b)) /\ (Of(a) \o Of(b))[n] = Of(a)[n]
    BY <1>1, <1>3, <1>4, ConcatProperties
  <2> QED BY <2>1, <2>2, <2>3, <1>3 DEF Listed
<1> QED BY <1>5, <1>6, DependentsTyped

---------------------------------------------------------------------------
(* Which steps may give a fact, and which may take one.                    *)

\* The families of facts, by their relationship_type.
LEMMA FamilyNames ==
    /\ \A f \in EdgeFacts :
          f.rel \in {"SHARES_EMPLOYER_WITH", "SHARES_ADDRESS_WITH", "SHARES_ALIAS_PATTERN_WITH"}
    /\ \A f \in MemberFacts : f.rel = "MEMBER_OF_FRAUD_NETWORK"
    /\ \A f \in PriorFacts : f.rel = "HAS_PRIOR_GUILTY_CASE"
    /\ \A f \in MergedFacts : f.rel = "APPEARS_IN_CASE"
    /\ \A f \in HubFacts : f.rel = "CROSS_CASE_HUB"
<1>1. \A r, a, b : Key(r, a, b).rel = RelationshipType(r)
  BY DEF Key
<1>2. /\ RelationshipType("Rule_02") = "MEMBER_OF_FRAUD_NETWORK"
      /\ RelationshipType("Rule_07") = "HAS_PRIOR_GUILTY_CASE"
      /\ RelationshipType("Rule_10") = "APPEARS_IN_CASE"
      /\ RelationshipType("Rule_11") = "CROSS_CASE_HUB"
      /\ \A r \in EdgeRules : RelationshipType(r)
           \in {"SHARES_EMPLOYER_WITH", "SHARES_ADDRESS_WITH", "SHARES_ALIAS_PATTERN_WITH"}
  BY DEF RelationshipType, EdgeRules, NetworkRules, LinkRules
<1> QED BY <1>1, <1>2, FamiliesTyped

\* No flag rule's key is a fact's.
LEMMA FlagsAreNoFacts ==
    \A f \in Facts, rule \in FlagRules : f.rel # RelationshipType(rule)
<1>1. RelationshipType("Rule_08") = "CASE_RISK_ESCALATION" /\ RelationshipType("Rule_13") = "FASTTRACK_RECOMMENDATION"
      /\ RelationshipType("Rule_12") = "WAGE_CORROBORATION"
  BY DEF RelationshipType, NetworkRules, LinkRules
<1>2. FlagRules = {"Rule_08", "Rule_12", "Rule_13"}
  BY DEF FlagRules, CaseFlagRules
<1> QED BY <1>1, <1>2, FamilyNames DEF Facts

\* Firing a rule takes nothing away, and gives a membership of a linked network only to one
\* who has an active edge of the link's type (the MATCH of Rules 2, 4 and 6).
LEMMA FireFounds ==
    ASSUME GraphTypeOK, NEW rule, NEW case, NEW subject, Fire(rule, case, subject)
    PROVE  /\ \A f \in Facts : Active(f) => Active(f)'
           /\ \A f \in Facts : fact'[f].human = fact[f].human
           /\ rejections' = rejections
           /\ \A f \in MemberFacts : Active(f)' /\ ~Active(f) /\ NetworkType[f.to] \in LinkTypes
                                     => ActiveEdge(NetworkType[f.to], f.from)
<1>1. MemberFacts \subseteq Facts
  BY DEF Facts
<1>2. CASE UNCHANGED graph
  BY <1>1, <1>2 DEF graph, Active
<1>3. ASSUME NEW ids, Assert(ids)
      PROVE  /\ \A f \in Facts : Active(f) => Active(f)'
             /\ \A f \in Facts : fact'[f].human = fact[f].human
             /\ rejections' = rejections
             /\ \A f \in MemberFacts : Active(f)' /\ ~Active(f) => f \in ids
  BY <1>1, <1>3 DEF Assert, Active, GraphTypeOK, Marks
<1>4. CASE rule \in NetworkRules /\ Assert(MembershipsAsserted(rule, subject))
  <2> SUFFICES ASSUME NEW f \in MembershipsAsserted(rule, subject), NetworkType[f.to] \in LinkTypes
               PROVE  ActiveEdge(NetworkType[f.to], f.from)
    BY <1>3, <1>4
  <2>1. PICK e \in PairsJoining(rule, subject) : f \in {MemberKey(e.from, e.net), MemberKey(e.to, e.net)}
    BY DEF MembershipsAsserted
  <2>2. f.to = e.net /\ f.from \in {e.from, e.to}
    BY <2>1 DEF MemberKey, Key
  <2>3. rule # "Rule_09"
    BY <2>1, <2>2 DEF PairsJoining, TypeOfRule, LinkTypes
  <2>4. e \in SharedEvidence /\ Active(EdgeKey(e))
    BY <2>1, <2>3, EvidenceTyped DEF PairsJoining
  <2>5. /\ EdgeKey(e) \in EdgeFacts
        /\ EdgeKey(e).rel = RelationshipType(EdgeRuleOf(NetworkType[f.to]))
        /\ f.from \in {EdgeKey(e).from, EdgeKey(e).to}
    BY <2>2, <2>4 DEF EdgeFacts, EdgeKey, Key
  <2> QED BY <2>4, <2>5 DEF ActiveEdge
<1>5. CASE \E ids : Assert(ids) /\ ids \cap MemberFacts = {}
  BY <1>3, <1>5
<1>6. CASE AssertHubs(subject)
  <2>1. HubFacts \cap MemberFacts = {}
    BY FamilyNames
  <2> QED BY <1>1, <1>6, <2>1 DEF AssertHubs, Active, GraphTypeOK, Marks
<1>7. CASE AssertFlags(rule, case, subject)
  BY <1>1, <1>7 DEF AssertFlags, Active
<1>8. /\ EdgesAsserted(rule, subject) \cap MemberFacts = {}
      /\ PriorsAsserted(case, subject) \cap MemberFacts = {}
      /\ MergesAsserted(subject) \cap MemberFacts = {}
  <2>1. EdgesAsserted(rule, subject) \subseteq EdgeFacts
    BY DEF EdgesAsserted, EdgeFacts
  <2>2. PriorsAsserted(case, subject) \subseteq PriorFacts
    BY DEF PriorsAsserted, PriorFacts
  <2>3. MergesAsserted(subject) \subseteq MergedFacts
    BY DEF MergesAsserted
  <2> QED BY <2>1, <2>2, <2>3, FamilyNames
<1> QED BY <1>2, <1>4, <1>5, <1>6, <1>7, <1>8 DEF Fire

\* The cascade's writes touch memberships of linked networks alone, and no verdict.
LEMMA CascadeWrites ==
    ASSUME GraphTypeOK, NEW rule, NEW s, NEW case,
           \/ AutoInvalidate(rule, s, case)
           \/ MarkReinstated(rule, s, case)
           \/ DirectReinstate(rule, s, case)
    PROVE  /\ rejections' = rejections
           /\ \A f \in Facts : fact'[f].human = fact[f].human
           /\ \A f \in Facts : f \notin MembershipsOf(rule, s) => fact'[f] = fact[f]
           /\ AutoInvalidate(rule, s, case) =>
                 \A f \in MembershipsOf(rule, s) : f \in Facts => ~Active(f)'
           /\ MarkReinstated(rule, s, case) => \A f \in Facts : fact'[f].status = fact[f].status
<1>1. \A m \in Marks :
         /\ Invalidated(m).human = m.human /\ Invalidated(m).status = "rejected"
         /\ Unmarked(m).human = m.human /\ Unmarked(m).status = m.status
         /\ Reinstated(m).human = m.human
  BY DEF Marks, Invalidated, Unmarked, Reinstated
<1>2. \A f \in Facts : fact[f] \in Marks
  BY DEF GraphTypeOK
<1>3. /\ LiveMemberships(rule, s) = {f \in MembershipsOf(rule, s) : Active(f)}
      /\ MarkedMemberships(rule, s) \subseteq MembershipsOf(rule, s)
  BY DEF LiveMemberships, MarkedMemberships
<1>4. CASE AutoInvalidate(rule, s, case)
  BY <1>1, <1>2, <1>3, <1>4 DEF AutoInvalidate, MarkReinstated, Active
<1>5. CASE MarkReinstated(rule, s, case)
  <2>1. \A f \in Facts : fact'[f] \in {fact[f], Unmarked(fact[f])}
    BY <1>5 DEF MarkReinstated
  <2>2. AutoInvalidate(rule, s, case) => \A f \in Facts : f \in LiveMemberships(rule, s) => fact'[f].status = "rejected"
    BY <1>1, <1>2 DEF AutoInvalidate
  <2> QED BY <1>1, <1>2, <1>3, <1>5, <1>4, <2>1, <2>2 DEF MarkReinstated
<1>6. CASE DirectReinstate(rule, s, case)
  BY <1>1, <1>2, <1>3, <1>4, <1>5, <1>6 DEF DirectReinstate
<1> QED BY <1>4, <1>5, <1>6

\* What the steps of a request other than its verdict do to the facts: an edge or a prior case
\* found stays found, no verdict changes, and a membership is given only where a rule may give
\* one, or by _direct_reinstate.
LEMMA HandleFounds ==
    ASSUME TypeOK, NEW i \in Investigators, Handle(i)
    PROVE  /\ \A f \in Facts : f \notin MemberFacts /\ Active(f) => Active(f)'
           /\ \A f \in Facts : fact'[f].human = fact[f].human
           /\ \A f \in MemberFacts : Active(f)' /\ ~Active(f) /\ NetworkType[f.to] \in LinkTypes =>
                 \/ ActiveEdge(NetworkType[f.to], f.from)
                 \/ Direct(i) /\ f \in MembershipsOf(Task(i).rule, Task(i).subject)
<1>1. MemberFacts \subseteq Facts /\ \A rule, s : MembershipsOf(rule, s) \subseteq MemberFacts
  BY DEF Facts, MembershipsOf
<1>2. CASE UNCHANGED fact
  BY <1>1, <1>2 DEF Active
<1>3. CASE Refire(i)
  BY <1>3, <1>1, FireFounds DEF Refire, TypeOK
<1>4. ASSUME NEW rule, NEW s, NEW case, AutoInvalidate(rule, s, case) \/ MarkReinstated(rule, s, case)
      PROVE  /\ \A f \in Facts : f \notin MemberFacts /\ Active(f) => Active(f)'
             /\ \A f \in Facts : fact'[f].human = fact[f].human
             /\ \A f \in MemberFacts : Active(f)' => Active(f)
  BY <1>1, <1>4, CascadeWrites DEF TypeOK, Active
<1>5. CASE Direct(i)
  BY <1>1, <1>5, CascadeWrites DEF Direct, TypeOK, Active
<1>6. CASE Invalidate(i) \/ Mark(i) \/ \E s \in Subjects : SweepOrphan(i, s)
  BY <1>4, <1>6 DEF Invalidate, Mark, SweepOrphan
<1> QED
  BY <1>2, <1>3, <1>5, <1>6 DEF Handle, RecordRejection, DeleteRejection, Examine, Probe, EndWalk,
     SweepNetwork, EndNetwork, EndSweep, Touch, graph

---------------------------------------------------------------------------
(* Memberships of linked networks.                                         *)

\* request i has yet to look at the memberships of s in networks of the type
OwesMembership(i, type, s) ==
    /\ ~Quiet(i) /\ req[i].op = "reject"
    /\ \/ req[i].pc = "veto" /\ req[i].rule = EdgeRuleOf(type) /\ Among(req[i].affected, s)
       \/ req[i].pc \in {"walk", "invalidate"} /\ Listed(req[i].todo, LinkRuleOf(type), s)

Unowed(f) ==
    Active(f) /\ fact[f].human # "reverted" /\ NetworkType[f.to] \in LinkTypes =>
        \/ ActiveEdge(NetworkType[f.to], f.from)
        \/ \E i \in Investigators : OwesMembership(i, NetworkType[f.to], f.from)

\* no membership without an edge, but for those that a request under way has yet to look at
MembershipsOwed == failures = 0 => \A f \in MemberFacts : Unowed(f)

Reinstating == {"refire", "probe", "mark", "direct"}

\* what _reinstate gives back has its edge, from the read that decided it to the write
UpstreamStands ==
    \A i \in Investigators : req[i].pc \in Reinstating =>
        /\ req[i].op = "revert"
        /\ Task(i).rule \in LinkRules => ActiveEdge(TypeOfRule(Task(i).rule), Task(i).subject)

\* nobody asks for what is not offered
AskedFor == \A i \in Investigators : ~Quiet(i) => req[i].op \in Operations

FoundedInv == MembershipsOwed /\ UpstreamStands /\ AskedFor

\* The rules of a linked network type, and what each rests on (DOWNSTREAM_DEPENDENTS).
LEMMA LinkRulesOf ==
    /\ \A type \in LinkTypes : /\ LinkRuleOf(type) \in LinkRules /\ EdgeRuleOf(type) \in EdgeRules
                               /\ TypeOfRule(LinkRuleOf(type)) = type
                               /\ Dependents(EdgeRuleOf(type)) = <<LinkRuleOf(type)>>
    /\ EdgeRules \subseteq Rules /\ LinkRules \subseteq Rules /\ LinkRules \cap CaseFlagRules = {}
    /\ \A type \in LinkTypes, r \in EdgeRules :
          RelationshipType(r) = RelationshipType(EdgeRuleOf(type)) => r = EdgeRuleOf(type)
<1>1. /\ LinkRuleOf("Employer") = "Rule_02" /\ LinkRuleOf("Address") = "Rule_04"
      /\ LinkRuleOf("Identity") = "Rule_06"
      /\ EdgeRuleOf("Employer") = "Rule_01" /\ EdgeRuleOf("Address") = "Rule_03"
      /\ EdgeRuleOf("Identity") = "Rule_05"
  BY DEF LinkRuleOf, EdgeRuleOf
<1>2. /\ TypeOfRule("Rule_02") = "Employer" /\ TypeOfRule("Rule_04") = "Address"
      /\ TypeOfRule("Rule_06") = "Identity"
      /\ Dependents("Rule_01") = <<"Rule_02">> /\ Dependents("Rule_03") = <<"Rule_04">>
      /\ Dependents("Rule_05") = <<"Rule_06">>
  BY DEF TypeOfRule, Dependents, NetworkRules, LinkRules
<1>3. /\ RelationshipType("Rule_01") = "SHARES_EMPLOYER_WITH"
      /\ RelationshipType("Rule_03") = "SHARES_ADDRESS_WITH"
      /\ RelationshipType("Rule_05") = "SHARES_ALIAS_PATTERN_WITH"
  BY DEF RelationshipType, NetworkRules, LinkRules
<1>4. LinkTypes = {"Employer", "Address", "Identity"} /\ EdgeRules = {"Rule_01", "Rule_03", "Rule_05"}
  BY DEF LinkTypes, EdgeRules
<1>5. EdgeRules \subseteq Rules /\ LinkRules \subseteq Rules /\ LinkRules \cap CaseFlagRules = {}
  BY DEF EdgeRules, LinkRules, Rules, NetworkRules, CaseFlagRules
<1>6. LinkRules = {"Rule_02", "Rule_04", "Rule_06"}
  BY DEF LinkRules
<1> QED BY <1>1, <1>2, <1>3, <1>4, <1>5, <1>6

\* What a link rule's condition reads, and what its writes match.
LEMMA LinkRuleReads ==
    ASSUME NEW rule \in LinkRules, NEW s
    PROVE  /\ AnyUpstreamHolds(rule, s) <=> ActiveEdge(TypeOfRule(rule), s)
           /\ AllUpstreamHold(rule, s) <=> ActiveEdge(TypeOfRule(rule), s)
           /\ MembershipsOf(rule, s) = {f \in MemberFacts : f.from = s /\ NetworkType[f.to] = TypeOfRule(rule)}
<1>1. Supports(rule, s) = {ActiveEdge(TypeOfRule(rule), s)}
  BY DEF Supports, LinkRules
<1>2. ActiveEdge(TypeOfRule(rule), s) \in BOOLEAN
  BY DEF ActiveEdge
<1> QED BY <1>1, <1>2 DEF AnyUpstreamHolds, AllUpstreamHold, MembershipsOf

\* No step but a verdict takes an edge away.
LEMMA EdgesStay ==
    ASSUME TypeOK, \/ \E i \in Investigators : Handle(i) \/ Cut(i)
                   \/ \E w \in Runners : Reason(w) \/ AbortRun(w)
    PROVE  \A type, s : ActiveEdge(type, s) => ActiveEdge(type, s)'
<1>1. EdgeFacts \subseteq Facts /\ EdgeFacts \cap MemberFacts = {}
  BY FamilyNames DEF Facts
<1>2. \A f \in EdgeFacts : Active(f) => Active(f)'
  <2>1. CASE UNCHANGED fact
    BY <2>1 DEF Active
  <2>2. ASSUME NEW i \in Investigators, Handle(i) PROVE \A f \in EdgeFacts : Active(f) => Active(f)'
    BY <1>1, <2>2, HandleFounds
  <2>3. ASSUME NEW w \in Runners, RunRule(w) PROVE \A f \in EdgeFacts : Active(f) => Active(f)'
    BY <1>1, <2>3, FireFounds DEF RunRule, TypeOK
  <2> QED BY <2>1, <2>2, <2>3 DEF Cut, Reason, StartRun, AbortRun, graph
<1> QED BY <1>2 DEF ActiveEdge

\* a request keeps what was asked of it
Kept(i) == /\ req'[i].op = req[i].op /\ req'[i].case = req[i].case /\ req'[i].rule = req[i].rule
           /\ req'[i].key = req[i].key /\ req'[i].affected = req[i].affected

\* What each way of going on leaves of a request: the task list, and all that was asked.
LEMMA GoesOn ==
    ASSUME ReqTyped, NEW i \in Investigators, ~Quiet(i)
    PROVE  /\ \A label : Goto(i, label) => Kept(i) /\ req'[i].pc = label /\ req'[i].todo = req[i].todo
           /\ StartWalk(i) => /\ Kept(i) /\ req'[i].pc = "walk"
                              /\ req'[i].todo = TasksFor(req[i].rule, req[i].affected, 0)
           /\ Skip(i) => Kept(i) /\ req'[i].pc = "walk" /\ req'[i].todo = Tail(req[i].todo)
           /\ Descend(i) => /\ Kept(i) /\ req'[i].pc = "walk"
                            /\ req'[i].todo = TasksFor(Task(i).rule, <<Task(i).subject>>, Task(i).depth + 1)
                                                \o Tail(req[i].todo)
<1>1. req[i] \in Requests
  BY InFlight
<1>2. \A label : Goto(i, label) => Kept(i) /\ req'[i].pc = label /\ req'[i].todo = req[i].todo
  BY <1>1 DEF Goto, Kept, ReqTyped, Requests
<1>3. ASSUME NEW todo, req' = [req EXCEPT ![i] = [[req[i] EXCEPT !.pc = "walk"] EXCEPT !.todo = todo]]
      PROVE  Kept(i) /\ req'[i].pc = "walk" /\ req'[i].todo = todo
  BY <1>1, <1>3 DEF Kept, ReqTyped, Requests
<1>4. ASSUME NEW todo, req' = [req EXCEPT ![i].pc = "walk", ![i].todo = todo]
      PROVE  Kept(i) /\ req'[i].pc = "walk" /\ req'[i].todo = todo
  BY <1>3, <1>4 DEF ReqTyped
<1>5. StartWalk(i) => Kept(i) /\ req'[i].pc = "walk" /\ req'[i].todo = TasksFor(req[i].rule, req[i].affected, 0)
  BY <1>4 DEF StartWalk
<1>6. Skip(i) => Kept(i) /\ req'[i].pc = "walk" /\ req'[i].todo = Tail(req[i].todo)
  <2> DEFINE rest == Tail(req[i].todo)
  <2>1. Skip(i) => req' = [req EXCEPT ![i].pc = "walk", ![i].todo = rest]
    BY DEF Skip, ReqTyped
  <2> HIDE DEF rest
  <2>2. Skip(i) => Kept(i) /\ req'[i].pc = "walk" /\ req'[i].todo = rest
    BY <2>1, <1>4
  <2> QED BY <2>2 DEF rest
<1>7. Descend(i) => /\ Kept(i) /\ req'[i].pc = "walk"
                    /\ req'[i].todo = TasksFor(Task(i).rule, <<Task(i).subject>>, Task(i).depth + 1)
                                        \o Tail(req[i].todo)
  <2> DEFINE next == TasksFor(Task(i).rule, <<Task(i).subject>>, Task(i).depth + 1)
  <2>1. Descend(i) => req' = [req EXCEPT ![i].pc = "walk", ![i].todo = next \o Tail(req[i].todo)]
    BY DEF Descend, ReqTyped
  <2> HIDE DEF next
  <2>2. Descend(i) => Kept(i) /\ req'[i].pc = "walk" /\ req'[i].todo = next \o Tail(req[i].todo)
    BY <2>1, <1>4
  <2> QED BY <2>2 DEF next
<1> QED BY <1>2, <1>5, <1>6, <1>7

\* The tasks a walk goes down to are tasks.
LEMMA DeeperTyped ==
    ASSUME ReqTyped, NEW i \in Investigators, NEW label \in Labels, AtTask(i, label)
    PROVE  TasksFor(Task(i).rule, <<Task(i).subject>>, Task(i).depth + 1) \in Seq(Tasks)
<1>1. Task(i) \in Tasks
  BY TaskTyped
<1>2. Task(i).rule \in Rules /\ <<Task(i).subject>> \in Seq(Subjects) /\ Task(i).depth + 1 \in Nat
  BY <1>1 DEF Tasks
<1> QED BY <1>2, TasksTyped

\* A request that drops its first task or goes down from it keeps every other task it has.
LEMMA OthersStayListed ==
    ASSUME ReqTyped, NEW i \in Investigators, NEW label \in Labels, AtTask(i, label),
           Skip(i) \/ Descend(i), NEW rule, NEW s, Listed(req[i].todo, rule, s),
           ~(Task(i).rule = rule /\ Task(i).subject = s)
    PROVE  Listed(req'[i].todo, rule, s)
<1>1. /\ ~Quiet(i) /\ req[i].todo \in Seq(Tasks) /\ req[i].todo # <<>>
      /\ Tail(req[i].todo) \in Seq(Tasks)
  BY TaskTyped
<1>2. Listed(Tail(req[i].todo), rule, s)
  BY <1>1, ListedTail DEF Task
<1>3. CASE Skip(i)
  BY <1>1, <1>2, <1>3, GoesOn
<1>4. CASE Descend(i)
  BY <1>1, <1>2, <1>4, GoesOn, DeeperTyped, ListedAfter
<1> QED BY <1>3, <1>4

\* Of the steps of a request that owes a look at something, only four are enabled.
LEMMA OwingSteps ==
    ASSUME NEW i \in Investigators, Handle(i), req[i].pc \in {"veto", "walk", "invalidate"}
    PROVE  \/ req[i].pc = "veto" /\ RecordRejection(i)
           \/ req[i].pc = "walk" /\ (Examine(i) \/ EndWalk(i))
           \/ req[i].pc = "invalidate" /\ Invalidate(i)
BY DEF Handle, RecordRejection, DeleteRejection, Examine, Invalidate, Refire, Probe, Mark, Direct, EndWalk,
       SweepNetwork, SweepOrphan, EndNetwork, EndSweep, Touch, AtTask

\* A request that owes a look at somebody's memberships goes on owing it until it finds an
\* active edge, or has invalidated them all (_walk, cascade_reject).
LEMMA MembershipOwedUntilDone ==
    ASSUME TypeOK, MaxWalkDepth > 0, NEW i \in Investigators, Handle(i),
           NEW type \in LinkTypes, NEW s, OwesMembership(i, type, s), ~ActiveEdge(type, s)
    PROVE  \/ OwesMembership(i, type, s)'
           \/ \A f \in MemberFacts : f.from = s /\ NetworkType[f.to] = type => ~Active(f)'
<1> DEFINE link == LinkRuleOf(type)
<1>1. ReqTyped /\ ~Quiet(i) /\ req[i] \in Requests /\ req[i].op = "reject"
  BY InFlight DEF TypeOK, ReqTyped, OwesMembership
<1>2. link \in LinkRules /\ EdgeRuleOf(type) \in Rules /\ TypeOfRule(link) = type
      /\ Dependents(EdgeRuleOf(type)) = <<link>>
  BY LinkRulesOf
<1>3. \A l \in {"walk", "invalidate", "veto"} : req'[i].pc = l => ~Quiet(i)'
  BY DEF Quiet
<1>4. CASE req[i].pc = "veto"
  <2>1. StartWalk(i)
    BY <1>4, OwingSteps DEF RecordRejection
  <2>2. req[i].rule = EdgeRuleOf(type) /\ Among(req[i].affected, s) /\ req[i].affected \in Seq(Subjects)
    BY <1>1, <1>4 DEF OwesMembership, Requests
  <2>3. Dependents(EdgeRuleOf(type)) # <<>> /\ Dependents(EdgeRuleOf(type))[1] = link
    BY <1>2
  <2>4. Listed(TasksFor(req[i].rule, req[i].affected, 0), link, s)
    BY <1>2, <2>2, <2>3, WalkLists
  <2>5. req'[i].op = "reject" /\ req'[i].pc = "walk" /\ Listed(req'[i].todo, link, s)
    BY <1>1, <2>1, <2>4, GoesOn DEF Kept
  <2> QED BY <1>3, <2>5 DEF OwesMembership
<1>5. CASE req[i].pc = "walk"
  <2>1. Listed(req[i].todo, link, s)
    BY <1>5 DEF OwesMembership
  <2>2. req[i].todo # <<>>
    BY <2>1 DEF Listed
  <2>3. Examine(i) /\ AtTask(i, "walk")
    BY <1>5, <2>2, OwingSteps DEF EndWalk, Examine
  <2>4. CASE Goto(i, "invalidate")
    BY <1>1, <1>3, <2>1, <2>4, GoesOn DEF OwesMembership, Kept
  <2>5. CASE Skip(i) /\ AnyUpstreamHolds(Task(i).rule, Task(i).subject)
    <3>1. ~(Task(i).rule = link /\ Task(i).subject = s)
      BY <1>2, <2>5, LinkRuleReads
    <3>2. Listed(req'[i].todo, link, s)
      BY <1>1, <2>1, <2>3, <2>5, <3>1, OthersStayListed DEF Labels
    <3> QED BY <1>1, <1>3, <2>5, <3>2, GoesOn DEF OwesMembership, Kept
  <2> QED BY <1>1, <2>3, <2>4, <2>5 DEF Examine
<1>6. CASE req[i].pc = "invalidate"
  <2>1. Listed(req[i].todo, link, s)
    BY <1>6 DEF OwesMembership
  <2>2. /\ Invalidate(i) /\ AtTask(i, "invalidate") /\ (Skip(i) \/ Descend(i))
        /\ AutoInvalidate(Task(i).rule, Task(i).subject, req[i].case)
    BY <1>6, OwingSteps DEF Invalidate
  <2>3. CASE Task(i).rule = link /\ Task(i).subject = s
    <3>1. \A f \in MembershipsOf(link, s) : f \in Facts => ~Active(f)'
      BY <2>2, <2>3, CascadeWrites DEF TypeOK
    <3>2. MemberFacts \subseteq Facts
      BY DEF Facts
    <3> QED BY <1>2, <3>1, <3>2, LinkRuleReads
  <2>4. CASE ~(Task(i).rule = link /\ Task(i).subject = s)
    <3>1. Listed(req'[i].todo, link, s)
      BY <1>1, <2>1, <2>2, <2>4, OthersStayListed DEF Labels
    <3> QED BY <1>1, <1>3, <2>2, <3>1, GoesOn DEF OwesMembership, Kept
  <2> QED BY <2>3, <2>4
<1> QED BY <1>4, <1>5, <1>6 DEF OwesMembership

\* A verdict is the request's first step: what it says of the fact, and what the request then is.
LEMMA SubmitIs ==
    ASSUME TypeOK, NEW i \in Investigators, Submit(i)
    PROVE  /\ Quiet(i) /\ ~Quiet(i)'
           /\ \A j \in Investigators \ {i} : req'[j] = req[j]
           /\ UNCHANGED <<rejections, run, failures>>
           /\ req'[i].op \in Operations /\ req'[i].case \in Cases /\ req'[i].rule \in Reviewable
           /\ req'[i].pc = IF req'[i].op = "reject" THEN "veto" ELSE "unveto"
           /\ req'[i].todo = <<>>
           /\ \/ UNCHANGED fact /\ req'[i].rule \in FlagRules /\ req'[i].key \notin Facts
              \/ \E g \in Facts :
                   /\ req'[i].key = g /\ FactInReach(req'[i].rule, req'[i].case, g)
                   /\ req'[i].rule \in Rules /\ req'[i].affected = AffectedBy(req'[i].rule, g)
                   /\ UNCHANGED flag
                   /\ \A f \in Facts \ {g} : fact'[f] = fact[f]
                   /\ \/ /\ req'[i].op = "reject" /\ Active(g)
                         /\ fact'[g].status = "rejected" /\ fact'[g].human = "rejected"
                      \/ /\ req'[i].op = "revert"
                         /\ fact'[g].status = "active" /\ fact'[g].human = "reverted"
<1>1. PICK case \in Cases, rule \in Rules :
        \/ \E f \in Facts : RejectFact(i, case, rule, f) \/ RevertFact(i, case, rule, f)
        \/ \E id \in FlagIds, s \in Subjects : RejectFlag(i, case, rule, id, s) \/ RevertFlag(i, case, rule, id, s)
  BY DEF Submit
<1>2. ASSUME NEW op, NEW key, NEW affected, NewRequest(i, op, case, rule, key, affected)
      PROVE  /\ req'[i].op = op /\ req'[i].case = case /\ req'[i].rule = rule /\ req'[i].key = key
             /\ req'[i].todo = <<>> /\ req'[i].affected = affected /\ req'[i].pc = IF op = "reject" THEN "veto" ELSE "unveto"
             /\ op \in Operations /\ \A j \in Investigators \ {i} : req'[j] = req[j]
             /\ UNCHANGED <<rejections, run, failures>>
  BY <1>2 DEF NewRequest, TypeOK, Other
<1>3. CASE \E id \in FlagIds, s \in Subjects : RejectFlag(i, case, rule, id, s) \/ RevertFlag(i, case, rule, id, s)
  <2>1. PICK op, s, to, affected : NewRequest(i, op, case, rule, Key(rule, s, to), affected)
    BY <1>3 DEF RejectFlag, RevertFlag
  <2>2. Quiet(i) /\ UNCHANGED fact /\ rule \in FlagRules /\ rule \in Reviewable
    BY <1>3 DEF RejectFlag, RevertFlag, FlagInReach
  <2>3. ~Quiet(i)'
    BY <1>2, <2>1 DEF Quiet
  <2>4. Key(rule, s, to) \notin Facts
    BY <2>2, FlagsAreNoFacts DEF Key
  <2> HIDE DEF Quiet
  <2> QED BY <1>2, <2>1, <2>2, <2>3, <2>4
<1>4. CASE \E f \in Facts : RejectFact(i, case, rule, f) \/ RevertFact(i, case, rule, f)
  <2>1. PICK g \in Facts : RejectFact(i, case, rule, g) \/ RevertFact(i, case, rule, g)
    BY <1>4
  <2>2. PICK op \in {"reject", "revert"} :
          /\ NewRequest(i, op, case, rule, g, AffectedBy(rule, g))
          /\ op = "reject" => RejectFact(i, case, rule, g)
          /\ op = "revert" => RevertFact(i, case, rule, g)
    BY <2>1 DEF RejectFact, RevertFact
  <2>3. Quiet(i) /\ FactInReach(rule, case, g) /\ UNCHANGED flag /\ rule \in Reviewable
    BY <2>2 DEF RejectFact, RevertFact
  <2>4. ~Quiet(i)'
    BY <1>2, <2>2 DEF Quiet
  <2>5. fact[g] \in Marks /\ fact \in [Facts -> Marks]
    BY DEF TypeOK, GraphTypeOK
  <2>6. \A f \in Facts \ {g} : fact'[f] = fact[f]
    BY <2>2, <2>5 DEF RejectFact, RevertFact
  <2>7. op = "reject" => Active(g) /\ fact'[g].status = "rejected" /\ fact'[g].human = "rejected"
    BY <2>2, <2>5 DEF RejectFact, Marks
  <2>8. op = "revert" => fact'[g].status = "active" /\ fact'[g].human = "reverted"
    BY <2>2, <2>5 DEF RevertFact, Marks
  <2> HIDE DEF Quiet
  <2> QED BY <1>2, <2>2, <2>3, <2>4, <2>6, <2>7, <2>8
<1> QED BY <1>1, <1>3, <1>4

\* A verdict on an edge has both its ends looked at; no other verdict takes an edge away.
LEMMA VerdictOwes ==
    ASSUME TypeOK, NEW i \in Investigators, Submit(i), NEW f \in MemberFacts, Unowed(f)
    PROVE  Unowed(f)'
<1> DEFINE T == NetworkType[f.to]
<1> DEFINE s == f.from
<1>1. MemberFacts \subseteq Facts /\ EdgeFacts \subseteq Facts /\ EdgeFacts \cap MemberFacts = {}
  BY FamilyNames DEF Facts
<1>2. \A j \in Investigators : OwesMembership(j, T, s) => OwesMembership(j, T, s)'
  BY SubmitIs DEF OwesMembership, Quiet
<1>3. CASE UNCHANGED fact
  BY <1>2, <1>3 DEF Unowed, Active, ActiveEdge
<1>4. ASSUME NEW g \in Facts, req'[i].key = g, FactInReach(req'[i].rule, req'[i].case, g),
             req'[i].rule \in Rules, req'[i].affected = AffectedBy(req'[i].rule, g),
             \A h \in Facts \ {g} : fact'[h] = fact[h],
             \/ /\ req'[i].op = "reject" /\ Active(g) /\ fact'[g].status = "rejected"
             \/ /\ req'[i].op = "revert" /\ fact'[g].status = "active" /\ fact'[g].human = "reverted"
      PROVE  Unowed(f)'
  <2> SUFFICES ASSUME Active(f)', fact'[f].human # "reverted", T \in LinkTypes
               PROVE  ActiveEdge(T, s)' \/ \E j \in Investigators : OwesMembership(j, T, s)'
    BY DEF Unowed
  <2>1. f # g /\ Active(f) /\ fact[f].human # "reverted"
    BY <1>1, <1>4 DEF Active
  <2>2. CASE \E j \in Investigators : OwesMembership(j, T, s)
    BY <1>2, <2>2
  <2>3. CASE ActiveEdge(T, s)
    <3>1. PICK e \in EdgeFacts : e.rel = RelationshipType(EdgeRuleOf(T)) /\ s \in {e.from, e.to} /\ Active(e)
      BY <2>3 DEF ActiveEdge
    <3>2. CASE Active(e)'
      BY <3>1, <3>2 DEF ActiveEdge
    <3>3. CASE ~Active(e)'
      <4>1. e = g /\ req'[i].op = "reject"
        BY <1>1, <1>4, <3>1, <3>3 DEF Active
      <4>2. req'[i].rule \in EdgeRules
        <5>1. g.rel = RelationshipType(req'[i].rule)
          BY <1>4 DEF FactInReach
        <5>2. EdgeRuleOf(T) \in EdgeRules
          BY EdgeRuleTyped
        <5> QED BY <1>4, <3>1, <4>1, <5>1, <5>2, RelationshipTypesDiffer
      <4>3. req'[i].rule = EdgeRuleOf(T)
        BY <1>4, <3>1, <4>1, <4>2, LinkRulesOf DEF FactInReach
      <4>4. req'[i].affected = <<g.from, g.to>>
        BY <1>4, <4>2 DEF AffectedBy
      <4>5. Among(req'[i].affected, s)
        <5>1. s = <<g.from, g.to>>[1] \/ s = <<g.from, g.to>>[2]
          BY <3>1, <4>1
        <5>2. 1 \in 1..Len(<<g.from, g.to>>) /\ 2 \in 1..Len(<<g.from, g.to>>)
          OBVIOUS
        <5> QED BY <4>4, <5>1, <5>2 DEF Among
      <4>6. OwesMembership(i, T, s)'
        BY <4>1, <4>3, <4>5, SubmitIs DEF OwesMembership
      <4> QED BY <4>6
    <3> QED BY <3>2, <3>3
  <2> QED BY <2>1, <2>2, <2>3 DEF Unowed
<1> QED BY <1>3, <1>4, SubmitIs

\* A request under way goes on with what was asked, or ends. It reinstates only what its read
\* found all upstream of, or goes on reinstating; it sweeps only for a rejected edge.
LEMMA HandleMoves ==
    ASSUME TypeOK, NEW i \in Investigators, Handle(i)
    PROVE  /\ ~Quiet(i)
           /\ req'[i] = Idle \/ Kept(i)
           /\ req'[i].pc \notin {"veto", "unveto"}
           /\ req'[i].pc \in Reinstating =>
                 /\ Task(i)' = Task(i)
                 /\ \/ req[i].pc \in Reinstating
                    \/ req[i].op = "revert" /\ AllUpstreamHold(Task(i).rule, Task(i).subject)
           /\ req'[i].pc \in {"sweep", "orphans"} =>
                 req[i].pc \in {"sweep", "orphans"} \/ req[i].rule \in EdgeRules
<1> DEFINE Moved == /\ req'[i] = Idle \/ Kept(i)
                    /\ req'[i].pc \notin {"veto", "unveto"}
                    /\ req'[i].pc \in Reinstating =>
                          /\ Task(i)' = Task(i)
                          /\ \/ req[i].pc \in Reinstating
                             \/ req[i].op = "revert" /\ AllUpstreamHold(Task(i).rule, Task(i).subject)
                    /\ req'[i].pc \in {"sweep", "orphans"} =>
                          req[i].pc \in {"sweep", "orphans"} \/ req[i].rule \in EdgeRules
<1>1. ReqTyped
  BY DEF TypeOK, ReqTyped
<1>2. Reinstating = {"refire", "probe", "mark", "direct"}
  BY DEF Reinstating
<1>3. ASSUME ~Quiet(i), NEW label, Goto(i, label)
      PROVE  Kept(i) /\ req'[i].pc = label /\ Task(i)' = Task(i)
  BY <1>1, <1>3, GoesOn DEF Task
<1>4. ~Quiet(i) /\ req[i] \in Requests
  <2>1. ~Quiet(i)
    BY DEF Handle, RecordRejection, DeleteRejection, Examine, Invalidate, Refire, Probe, Mark, Direct, EndWalk,
       SweepNetwork, SweepOrphan, EndNetwork, EndSweep, Touch, AtTask, Quiet
  <2> QED BY <2>1, <1>1, InFlight
<1>5. CASE Skip(i) \/ Descend(i) \/ StartWalk(i)
  BY <1>1, <1>2, <1>4, <1>5, GoesOn
<1>6. CASE Examine(i)
  <2>1. CASE Goto(i, "invalidate")
    BY <1>2, <1>3, <1>4, <2>1
  <2> QED BY <1>3, <1>4, <1>5, <1>6, <2>1 DEF Examine
<1>7. CASE Refire(i) \/ Probe(i)
  <2>1. req[i].pc \in Reinstating
    BY <1>2, <1>7 DEF Refire, Probe, AtTask
  <2>2. ASSUME NEW label \in {"probe", "mark", "direct"}, Goto(i, label) PROVE Moved
    BY <1>2, <1>3, <1>4, <2>1, <2>2
  <2> QED BY <1>4, <1>5, <1>7, <2>2 DEF Refire, Probe
<1>8. CASE RecordRejection(i) \/ DeleteRejection(i)
  BY <1>5, <1>8 DEF RecordRejection, DeleteRejection
<1>9. CASE Invalidate(i) \/ Mark(i) \/ Direct(i)
  BY <1>5, <1>9 DEF Invalidate, Mark, Direct
<1>10. CASE EndNetwork(i) \/ EndSweep(i)
  BY <1>2, <1>3, <1>4, <1>10 DEF EndNetwork, EndSweep
<1>11. CASE EndWalk(i)
  <2>1. CASE Goto(i, "touch")
    BY <1>2, <1>3, <1>4, <2>1
  <2>2. ASSUME NEW nets, req' = [req EXCEPT ![i].pc = "sweep", ![i].nets = nets]
        PROVE  req'[i].pc = "sweep" /\ Kept(i)
    BY <1>1, <1>4, <2>2 DEF ReqTyped, Requests, Kept
  <2> QED BY <1>2, <1>4, <1>11, <2>1, <2>2 DEF EndWalk
<1>12. ASSUME NEW net \in Networks, SweepNetwork(i, net) PROVE Moved
  <2>1. ASSUME NEW nets, NEW type, NEW orphans,
               req' = [req EXCEPT ![i].pc = "orphans", ![i].nets = nets, ![i].type = type, ![i].orphans = orphans]
        PROVE  req'[i].pc = "orphans" /\ Kept(i)
    BY <1>1, <1>4, <2>1 DEF ReqTyped, Requests, Kept
  <2>2. req'[i].pc = "orphans" /\ Kept(i)
    <3> DEFINE nets == req[i].nets \ {net}
    <3> DEFINE orphans == IF InternalEdge(net) THEN {} ELSE Members(net)
    <3>1. req' = [req EXCEPT ![i].pc = "orphans", ![i].nets = nets, ![i].type = NetworkType[net],
                             ![i].orphans = orphans]
      BY <1>1, <1>12 DEF SweepNetwork, ReqTyped
    <3> HIDE DEF nets, orphans
    <3> QED BY <2>1, <3>1
  <2>3. req[i].pc = "sweep"
    BY <1>12 DEF SweepNetwork
  <2> QED BY <1>2, <2>2, <2>3
<1>13. ASSUME NEW s \in Subjects, SweepOrphan(i, s) PROVE Moved
  <2>1. req' = [req EXCEPT ![i] = [req[i] EXCEPT !.orphans = @ \ {s}]] /\ req[i].pc = "orphans"
    BY <1>1, <1>13 DEF SweepOrphan, ReqTyped
  <2> DEFINE r == [req[i] EXCEPT !.orphans = @ \ {s}]
  <2>2. /\ r.pc = "orphans" /\ r.op = req[i].op /\ r.case = req[i].case /\ r.rule = req[i].rule
        /\ r.key = req[i].key /\ r.affected = req[i].affected
    BY <1>4, <2>1 DEF Requests
  <2>3. req'[i] = r
    BY <1>1, <2>1 DEF ReqTyped
  <2> HIDE DEF r
  <2> QED BY <1>2, <2>1, <2>2, <2>3 DEF Kept
<1>14. CASE Touch(i)
  BY <1>1, <1>2, <1>4, <1>14 DEF Touch, ReqTyped, Idle
<1> QED BY <1>4, <1>6, <1>7, <1>8, <1>9, <1>10, <1>11, <1>12, <1>13, <1>14 DEF Handle

\* A step of a request leaves no membership unfounded and unowed.
LEMMA HandleOwes ==
    ASSUME TypeOK, UpstreamStands, MaxWalkDepth > 0, NEW i \in Investigators, Handle(i),
           NEW f \in MemberFacts, Unowed(f)
    PROVE  Unowed(f)'
<1> DEFINE T == NetworkType[f.to]
<1> DEFINE s == f.from
<1> SUFFICES ASSUME Active(f)', fact'[f].human # "reverted", T \in LinkTypes, ~ActiveEdge(T, s)'
             PROVE  \E j \in Investigators : OwesMembership(j, T, s)'
  BY DEF Unowed
<1>1. f \in Facts /\ fact[f].human # "reverted"
  BY HandleFounds DEF Facts
<1>2. ~ActiveEdge(T, s)
  BY EdgesStay
<1>3. Active(f)
  <2>1. CASE Direct(i) /\ f \in MembershipsOf(Task(i).rule, Task(i).subject)
    <3>1. Task(i).rule \in LinkRules /\ T = TypeOfRule(Task(i).rule) /\ s = Task(i).subject
      BY <2>1 DEF MembershipsOf
    <3>2. req[i].pc \in Reinstating
      BY <2>1 DEF Direct, AtTask, Reinstating
    <3> QED BY <1>2, <3>1, <3>2 DEF UpstreamStands
  <2> QED BY <1>1, <1>2, <2>1, HandleFounds
<1>4. PICK j \in Investigators : OwesMembership(j, T, s)
  BY <1>1, <1>2, <1>3 DEF Unowed
<1>5. CASE j # i
  <2>1. req'[j] = req[j]
    BY <1>5, HandleLeavesVeto
  <2> QED BY <1>4, <2>1 DEF OwesMembership, Quiet
<1>6. CASE j = i
  BY <1>2, <1>4, <1>6, MembershipOwedUntilDone
<1> QED BY <1>5, <1>6

\* Nor does a reasoning run.
LEMMA RunOwes ==
    ASSUME TypeOK, NEW w \in Runners, Reason(w) \/ AbortRun(w), NEW f \in MemberFacts, Unowed(f)
    PROVE  Unowed(f)'
<1>1. UNCHANGED req
  BY DEF Reason, RunRule, StartRun, AbortRun, Review
<1>2. \A type, s : ActiveEdge(type, s) => ActiveEdge(type, s)'
  BY EdgesStay
<1>3. f \in Facts
  BY DEF Facts
<1>4. /\ fact'[f].human = fact[f].human
      /\ Active(f)' /\ ~Active(f) /\ NetworkType[f.to] \in LinkTypes => ActiveEdge(NetworkType[f.to], f.from)
  <2>1. CASE RunRule(w)
    BY <1>3, <2>1, FireFounds DEF RunRule, TypeOK
  <2>2. CASE UNCHANGED fact
    BY <2>2 DEF Active
  <2> QED BY <2>1, <2>2 DEF Reason, StartRun, AbortRun, graph
<1> QED BY <1>1, <1>2, <1>4 DEF Unowed, OwesMembership, Quiet

\* What a reinstatement rests on stands until it is written, and nobody asks for what is not offered.
LEMMA UpstreamKept ==
    ASSUME OneWay, TypeOK, UpstreamStands, AskedFor, [Next]_vars
    PROVE  UpstreamStands' /\ AskedFor'
<1>1. ASSUME NEW i \in Investigators, Submit(i) PROVE UpstreamStands' /\ AskedFor'
  <2>1. /\ \A j \in Investigators \ {i} : req'[j] = req[j]
        /\ req'[i].op \in Operations /\ req'[i].pc \in {"veto", "unveto"}
    BY <1>1, SubmitIs
  <2>2. AskedFor'
    BY <2>1 DEF AskedFor, Quiet
  <2>3. ASSUME NEW j \in Investigators, req'[j].pc \in Reinstating PROVE FALSE
    <3>1. j # i /\ req'[j] = req[j]
      BY <2>1, <2>3 DEF Reinstating
    <3>2. req[j].op = "revert" /\ ~Quiet(j)
      BY <2>3, <3>1 DEF UpstreamStands, Reinstating, Quiet
    <3> QED BY <3>1, <3>2 DEF OneWay, AskedFor
  <2> QED BY <2>2, <2>3 DEF UpstreamStands
<1>2. ASSUME \A type, s : ActiveEdge(type, s) => ActiveEdge(type, s)',
             NEW i \in Investigators, \A j \in Investigators \ {i} : req'[j] = req[j],
             \/ req'[i] = Idle
             \/ /\ Kept(i) /\ ~Quiet(i)
                /\ req'[i].pc \in Reinstating =>
                     /\ Task(i)' = Task(i)
                     /\ \/ req[i].pc \in Reinstating
                        \/ req[i].op = "revert" /\ AllUpstreamHold(Task(i).rule, Task(i).subject)
      PROVE  UpstreamStands' /\ AskedFor'
  <2>1. AskedFor'
    BY <1>2 DEF AskedFor, Quiet, Kept, Idle
  <2>2. ASSUME NEW j \in Investigators \ {i}, req'[j].pc \in Reinstating
        PROVE  (/\ req[j].op = "revert"
                /\ Task(j).rule \in LinkRules => ActiveEdge(TypeOfRule(Task(j).rule), Task(j).subject))'
    BY <1>2, <2>2 DEF UpstreamStands, Task
  <2>3. ASSUME req'[i].pc \in Reinstating
        PROVE  (/\ req[i].op = "revert"
                /\ Task(i).rule \in LinkRules => ActiveEdge(TypeOfRule(Task(i).rule), Task(i).subject))'
    <3>1. req'[i] # Idle
      BY <2>3 DEF Idle, Reinstating
    <3>2. Task(i)' = Task(i) /\ Kept(i)
      BY <1>2, <2>3, <3>1
    <3>3. req[i].op = "revert" /\ (Task(i).rule \in LinkRules => ActiveEdge(TypeOfRule(Task(i).rule), Task(i).subject))
      BY <1>2, <2>3, <3>1, LinkRuleReads DEF UpstreamStands
    <3> QED BY <1>2, <3>2, <3>3 DEF Kept
  <2> QED BY <2>1, <2>2, <2>3 DEF UpstreamStands
<1>3. ASSUME NEW i \in Investigators, Handle(i) PROVE UpstreamStands' /\ AskedFor'
  <2>1. \A j \in Investigators \ {i} : req'[j] = req[j]
    BY <1>3, HandleLeavesVeto
  <2> QED BY <1>2, <1>3, <2>1, EdgesStay, HandleMoves
<1>4. ASSUME NEW i \in Investigators, Cut(i) PROVE UpstreamStands' /\ AskedFor'
  <2>1. req'[i] = Idle /\ \A j \in Investigators \ {i} : req'[j] = req[j]
    BY <1>4 DEF Cut, TypeOK
  <2> QED BY <1>2, <1>4, <2>1, EdgesStay
<1>5. ASSUME UNCHANGED req, \A type, s : ActiveEdge(type, s) => ActiveEdge(type, s)'
      PROVE  UpstreamStands' /\ AskedFor'
  BY <1>5 DEF UpstreamStands, AskedFor, Quiet, Task
<1>6. ASSUME NEW w \in Runners, Reason(w) \/ AbortRun(w) PROVE UpstreamStands' /\ AskedFor'
  <2>1. UNCHANGED req
    BY <1>6 DEF Reason, RunRule, StartRun, AbortRun, Review
  <2> QED BY <1>5, <1>6, <2>1, EdgesStay
<1>7. CASE UNCHANGED vars
  BY <1>5, <1>7 DEF vars, graph, ActiveEdge, Active
<1> QED BY <1>1, <1>3, <1>4, <1>6, <1>7 DEF Next

\* With nothing under way and nothing cut short, a membership of a linked network that nobody
\* restored by hand has its edge: if nobody reverts, however many reject at once, or if no two
\* requests are under way together (cascade_reject, sweep_network_orphans).
THEOREM MembershipsAreFounded ==
    ASSUME OneWay, MaxWalkDepth > 0
    PROVE  Spec => []MembershipsFounded
<1>1. Init => FoundedInv
  <2>1. MemberFacts \subseteq Facts
    BY DEF Facts
  <2> QED BY <2>1 DEF Init, GraphInit, FoundedInv, MembershipsOwed, Unowed, Active, Unwritten, UpstreamStands,
             AskedFor, Quiet, Idle, Reinstating
<1>2. TypeOK /\ FoundedInv /\ [Next]_vars => FoundedInv'
  <2> SUFFICES ASSUME TypeOK, FoundedInv, [Next]_vars PROVE FoundedInv'
    OBVIOUS
  <2>1. UpstreamStands' /\ AskedFor'
    BY UpstreamKept DEF FoundedInv
  <2>2. MembershipsOwed'
    <3> SUFFICES ASSUME failures' = 0, NEW f \in MemberFacts PROVE Unowed(f)'
      BY DEF MembershipsOwed
    <3>1. failures \in Nat
      BY BoundsTyped DEF TypeOK
    <3>2. failures = 0 => Unowed(f)
      BY DEF FoundedInv, MembershipsOwed
    <3>3. ASSUME NEW i \in Investigators, Submit(i) PROVE Unowed(f)'
      BY <3>2, <3>3, SubmitIs, VerdictOwes
    <3>4. ASSUME NEW i \in Investigators, Handle(i) PROVE Unowed(f)'
      <4>1. failures = 0
        BY <3>4, HandleKeepsRuns
      <4> QED BY <3>2, <3>4, <4>1, HandleOwes DEF FoundedInv
    <3>5. ASSUME NEW i \in Investigators, Cut(i) PROVE FALSE
      BY <3>1, <3>5 DEF Cut
    <3>6. ASSUME NEW w \in Runners, Reason(w) \/ AbortRun(w) PROVE Unowed(f)'
      <4>1. failures = 0
        BY <3>1, <3>6 DEF Reason, RunRule, StartRun, AbortRun
      <4> QED BY <3>2, <3>6, <4>1, RunOwes
    <3>7. CASE UNCHANGED vars
      BY <3>2, <3>7 DEF vars, graph, Unowed, Active, ActiveEdge, OwesMembership, Quiet
    <3> QED BY <3>3, <3>4, <3>5, <3>6, <3>7 DEF Next
  <2> QED BY <2>1, <2>2 DEF FoundedInv
<1>3. FoundedInv => MembershipsFounded
  BY DEF FoundedInv, MembershipsOwed, Unowed, MembershipsFounded, Settled, AllQuiet, OwesMembership
<1> QED BY <1>1, <1>2, <1>3, TypeCorrect, PTL DEF Spec

---------------------------------------------------------------------------
(* Vetoes and verdicts.                                                    *)

\* What the history variables record does not change what the program may do.
LEMMA HistoryAddsNothing == HistorySpec => Spec
<1>1. [Next /\ Remember]_<<vars, history>> => [Next]_vars
  OBVIOUS
<1>2. HistoryInit => Init
  BY DEF HistoryInit
<1> QED BY <1>1, <1>2, PTL DEF HistorySpec, Spec

\* every :Rejection, written or to be, was issued by a rule and a case that reach its fact
Issuable(rule, case, key) == key \in Facts => FactInReach(rule, case, key)
Issued ==
    /\ \A r \in rejections : Issuable(r.rule, r.case, [rel |-> r.rel, from |-> r.from, to |-> r.to])
    /\ \A i \in Investigators : Settling(i) => Issuable(req[i].rule, req[i].case, req[i].key)

\* one request at most is settling f; it will leave the veto as its verdict says, and until
\* then, or when there is none, veto and verdict agree
VetoFollows(f) ==
    /\ \/ Vetoed(f) <=> fact[f].human = "rejected"
       \/ \E i \in Investigators : Settling(i) /\ req[i].key = f
    /\ \A i, j \in Investigators : Settling(i) /\ req[i].key = f /\ Settling(j) /\ req[j].key = f => i = j
    /\ \A i \in Investigators : Settling(i) /\ req[i].key = f =>
          \/ req[i].pc = "veto" /\ fact[f].human = "rejected"
          \/ /\ req[i].pc = "unveto" /\ fact[f].human = "reverted"
             /\ \A r \in rejections : Names(r, f) => r.case = req[i].case

VerdictInv == Issued /\ \A f \in Facts \ contested : VetoFollows(f)

\* One rule alone reaches a given fact (_locate_and_reject's rule_id).
LEMMA OneRuleReaches ==
    ASSUME NEW f, NEW r \in Rules, NEW q \in Rules, NEW c, NEW d,
           FactInReach(r, c, f), FactInReach(q, d, f)
    PROVE  r = q
<1>1. /\ r \notin FlagRules /\ q \notin FlagRules /\ RelationshipType(r) = RelationshipType(q)
      /\ r \in NetworkRules => NetworkType[f.to] = TypeOfRule(r)
      /\ q \in NetworkRules => NetworkType[f.to] = TypeOfRule(q)
  BY DEF FactInReach
<1>2. \A a, b \in NetworkRules : TypeOfRule(a) = TypeOfRule(b) => a = b
  BY DEF NetworkRules, LinkRules, TypeOfRule
<1>3. \A a \in Rules \ FlagRules : a \in NetworkRules \/ a \in {"Rule_01", "Rule_03", "Rule_05", "Rule_07", "Rule_10", "Rule_11"}
  BY DEF Rules, FlagRules, CaseFlagRules, NetworkRules, LinkRules, EdgeRules
<1>4. /\ RelationshipType("Rule_01") = "SHARES_EMPLOYER_WITH" /\ RelationshipType("Rule_03") = "SHARES_ADDRESS_WITH"
      /\ RelationshipType("Rule_05") = "SHARES_ALIAS_PATTERN_WITH" /\ RelationshipType("Rule_07") = "HAS_PRIOR_GUILTY_CASE"
      /\ RelationshipType("Rule_10") = "APPEARS_IN_CASE" /\ RelationshipType("Rule_11") = "CROSS_CASE_HUB"
      /\ \A a \in NetworkRules : RelationshipType(a) = "MEMBER_OF_FRAUD_NETWORK"
  BY DEF RelationshipType, NetworkRules, LinkRules
<1> QED BY <1>1, <1>2, <1>3, <1>4

\* No reasoning run writes or deletes a :Rejection.
LEMMA RunsVetoNothing ==
    ASSUME NEW w \in Runners, Reason(w) \/ AbortRun(w)
    PROVE  UNCHANGED <<req, rejections>>
BY DEF Reason, RunRule, StartRun, AbortRun, Review, graph, Fire, Assert, AssertHubs, AssertFlags

\* A :Rejection is issued by the rule and the case its request was let in for.
LEMMA IssuedKept ==
    ASSUME TypeOK, Issued, [Next]_vars
    PROVE  Issued'
<1>1. ASSUME NEW i \in Investigators, Submit(i) PROVE Issued'
  <2>1. Issuable(req'[i].rule, req'[i].case, req'[i].key)
    BY <1>1, SubmitIs DEF Issuable
  <2> QED BY <1>1, <2>1, SubmitIs DEF Issued, Settling, Issuable
<1>2. ASSUME NEW i \in Investigators, Handle(i) PROVE Issued'
  <2>1. \A j \in Investigators : Settling(j)' => req'[j] = req[j]
    BY <1>2, HandleMoves, HandleLeavesVeto DEF Settling
  <2>2. ASSUME NEW r \in rejections', r \notin rejections
        PROVE  Issuable(r.rule, r.case, [rel |-> r.rel, from |-> r.from, to |-> r.to])
    <3>1. RecordRejection(i)
      <4>1. CASE Refire(i)
        BY <2>2, <4>1 DEF Refire, Fire, Assert, AssertHubs, AssertFlags, graph
      <4> QED BY <1>2, <2>2, <4>1 DEF Handle, DeleteRejection, Examine, Invalidate, AutoInvalidate, Probe,
            Mark, MarkReinstated, Direct, DirectReinstate, EndWalk, SweepNetwork, SweepOrphan, EndNetwork,
            EndSweep, Touch, graph
    <3>2. req[i].pc = "veto" /\ req[i].key \in Keys
      BY <3>1, InFlight DEF RecordRejection, TypeOK, ReqTyped, Quiet, Requests
    <3>3. r = [rel |-> req[i].key.rel, from |-> req[i].key.from, to |-> req[i].key.to,
               rule |-> req[i].rule, case |-> req[i].case]
      BY <2>2, <3>1 DEF RecordRejection
    <3>4. [rel |-> r.rel, from |-> r.from, to |-> r.to] = req[i].key /\ r.rule = req[i].rule /\ r.case = req[i].case
      BY <3>2, <3>3 DEF Keys
    <3> QED BY <3>2, <3>4 DEF Issued, Settling
  <2> QED BY <2>1, <2>2 DEF Issued, Settling, Issuable
<1>3. ASSUME NEW i \in Investigators, Cut(i) PROVE Issued'
  BY <1>3 DEF Cut, graph, TypeOK, Idle, Issued, Settling, Issuable
<1>4. ASSUME NEW w \in Runners, Reason(w) \/ AbortRun(w) PROVE Issued'
  <2>1. UNCHANGED <<req, rejections>>
    BY <1>4, RunsVetoNothing
  <2> QED BY <2>1 DEF Issued, Settling, Issuable
<1>5. CASE UNCHANGED vars
  BY <1>5 DEF vars, graph, Issued, Settling, Issuable
<1> QED BY <1>1, <1>2, <1>3, <1>4, <1>5 DEF Next

\* A fact that is judged anew is uncontested only if nobody else is settling it; one that is
\* not stays as contested as it was.
LEMMA ContestedKept ==
    ASSUME RememberContested, NEW f \in Facts, f \notin contested'
    PROVE  /\ \A i \in Investigators : Submitted(i) /\ req'[i].key = f => ~Disputed(i, f)
           /\ \A i \in Investigators : ~(CutShort(i) /\ Settling(i) /\ req[i].key = f)
           /\ (\A i \in Investigators : ~(Submitted(i) /\ req'[i].key = f)) => f \notin contested
BY DEF RememberContested

\* An undisputed verdict is followed by its own request.
LEMMA VerdictFollowed ==
    ASSUME TypeOK, RememberContested, NEW i \in Investigators, Submit(i),
           NEW f \in Facts, f \notin contested', f \notin contested => VetoFollows(f)
    PROVE  VetoFollows(f)'
<1>1. /\ Quiet(i) /\ ~Settling(i) /\ rejections' = rejections
      /\ \A j \in Investigators \ {i} : req'[j] = req[j]
      /\ req'[i].pc = IF req'[i].op = "reject" THEN "veto" ELSE "unveto"
  BY SubmitIs DEF Settling, Quiet
<1>2. Submitted(i) /\ Settling(i)' /\ \A j \in Investigators \ {i} : ~Submitted(j)
  BY <1>1 DEF Submitted, Settling, Quiet
<1>3. Vetoed(f)' <=> Vetoed(f)
  BY <1>1 DEF Vetoed
<1>4. CASE req'[i].key # f
  <2>1. f \notin contested
    BY <1>2, <1>4, ContestedKept
  <2>2. fact'[f] = fact[f]
    BY <1>4, SubmitIs
  <2> QED BY <1>1, <1>3, <1>4, <2>1, <2>2 DEF VetoFollows, Settling
<1>5. CASE req'[i].key = f
  <2>1. ~Disputed(i, f)
    BY <1>2, <1>5, ContestedKept
  <2>2. \A j \in Investigators : Settling(j)' /\ req'[j].key = f => j = i
    BY <1>1, <2>1 DEF Disputed, Settling
  <2>3. \/ req'[i].pc = "veto" /\ fact'[f].human = "rejected"
        \/ req'[i].pc = "unveto" /\ req'[i].op = "revert" /\ fact'[f].human = "reverted"
    BY <1>5, SubmitIs
  <2>4. req'[i].pc = "unveto" => \A r \in rejections : Names(r, f) => r.case = req'[i].case
    BY <2>1, <2>3 DEF Disputed
  <2> QED BY <1>1, <1>2, <1>5, <2>2, <2>3, <2>4 DEF VetoFollows
<1> QED BY <1>4, <1>5

\* The statement after the verdict leaves the fact's :Rejection as the verdict says
\* (_MERGE_REJECTION, _DELETE_REJECTION), and no other statement touches either.
LEMMA VetoFollowed ==
    ASSUME TypeOK, Issued, NEW i \in Investigators, Handle(i), NEW f \in Facts, VetoFollows(f)
    PROVE  VetoFollows(f)'
<1>1. /\ ~Settling(i)' /\ fact'[f].human = fact[f].human
      /\ \A j \in Investigators \ {i} : req'[j] = req[j]
      /\ ReqTyped /\ rejections \subseteq RejectionNodes
  BY HandleMoves, HandleFounds, HandleLeavesVeto DEF Settling, TypeOK, ReqTyped, GraphTypeOK
<1>2. ASSUME ~(Settling(i) /\ req[i].key = f),
             \A r : Names(r, f) => (r \in rejections' <=> r \in rejections)
      PROVE  VetoFollows(f)'
  <2>1. Vetoed(f)' <=> Vetoed(f)
    BY <1>2 DEF Vetoed, Names
  <2> QED BY <1>1, <1>2, <2>1 DEF VetoFollows, Settling
<1>3. ASSUME Settling(i), req[i].key = f, Vetoed(f)' <=> fact[f].human = "rejected"
      PROVE  VetoFollows(f)'
  BY <1>1, <1>3 DEF VetoFollows, Settling
<1>4. CASE ~Settling(i)
  <2>1. rejections' = rejections
    <3>1. CASE Refire(i)
      BY <3>1 DEF Refire, Fire, Assert, AssertHubs, AssertFlags, graph
    <3> QED BY <1>4, <3>1 DEF Handle, RecordRejection, DeleteRejection, Settling, Examine, Invalidate,
          AutoInvalidate, Probe, Mark, MarkReinstated, Direct, DirectReinstate, EndWalk, SweepNetwork,
          SweepOrphan, EndNetwork, EndSweep, Touch, graph
  <2> QED BY <1>2, <1>4, <2>1
<1>5. CASE Settling(i)
  <2>0. PICK k : k = req[i].key
    OBVIOUS
  <2> DEFINE own == [rel |-> k.rel, from |-> k.from, to |-> k.to, rule |-> req[i].rule, case |-> req[i].case]
  <2>1. req[i] \in Requests /\ k \in Keys /\ f \in Keys
    BY <1>1, <1>5, <2>0, InFlight, FactsAreKeys DEF Settling, Quiet, Requests
  <2>2. own.rel = k.rel /\ own.from = k.from /\ own.to = k.to /\ own.rule = req[i].rule /\ own.case = req[i].case
    OBVIOUS
  <2>3. rejections' \subseteq rejections \cup {own} /\ rejections \ {own} \subseteq rejections'
    BY <1>5, <2>0 DEF Handle, RecordRejection, DeleteRejection, Settling, Examine, Invalidate, Refire, Probe, Mark,
       Direct, EndWalk, SweepNetwork, SweepOrphan, EndNetwork, EndSweep, Touch, AtTask
  <2>4. Names(own, f) <=> k = f
    BY <2>1, <2>2 DEF Names, Keys
  <2>5. k # f => VetoFollows(f)'
    BY <1>2, <2>0, <2>3, <2>4
  <2>6. CASE k = f /\ RecordRejection(i)
    <3>1. req[i].pc = "veto" /\ rejections' = IF Vetoed(k) THEN rejections ELSE rejections \cup {own}
      BY <2>0, <2>6 DEF RecordRejection
    <3>2. Vetoed(f)'
      BY <2>2, <2>6, <3>1 DEF Vetoed
    <3>3. fact[f].human = "rejected"
      BY <1>5, <2>0, <2>6, <3>1 DEF VetoFollows
    <3> QED BY <1>3, <1>5, <2>0, <2>6, <3>2, <3>3
  <2>7. CASE k = f /\ DeleteRejection(i)
    <3>1. req[i].pc = "unveto" /\ rejections' = rejections \ {own}
      BY <2>0, <2>7 DEF DeleteRejection
    <3>2. fact[f].human = "reverted" /\ \A r \in rejections : Names(r, f) => r.case = req[i].case
      BY <1>5, <2>0, <2>7, <3>1 DEF VetoFollows
    <3>3. ASSUME NEW r \in rejections, Names(r, f) PROVE r = own
      <4>1. r \in RejectionNodes
        BY <1>1
      <4>2. [rel |-> r.rel, from |-> r.from, to |-> r.to] = f
        BY <2>1, <3>3 DEF Keys, Names
      <4>3. FactInReach(r.rule, r.case, f) /\ FactInReach(req[i].rule, req[i].case, f)
        BY <1>5, <2>0, <2>7, <4>2 DEF Issued, Issuable
      <4>4. r.rule \in Rules /\ req[i].rule \in Rules
        BY <2>1, <4>1 DEF RejectionNodes, Requests
      <4>5. r.rule = req[i].rule
        BY <4>3, <4>4, OneRuleReaches
      <4> QED BY <2>7, <3>2, <3>3, <4>1, <4>5 DEF RejectionNodes, Names
    <3>4. ~Vetoed(f)'
      BY <3>1, <3>3 DEF Vetoed, Names
    <3> QED BY <1>3, <1>5, <2>0, <2>7, <3>2, <3>4
  <2> QED BY <1>5, <2>5, <2>6, <2>7 DEF Handle, Settling, Examine, Invalidate, Refire, Probe, Mark, Direct, EndWalk,
          SweepNetwork, SweepOrphan, EndNetwork, EndSweep, Touch, AtTask
<1> QED BY <1>4, <1>5

\* Whatever overlaps, fails or comes from another case: a fact that no request is settling
\* carries a :Rejection exactly when an investigator's last word on it was to reject it, but for
\* the facts whose last word was contested when it was given or cut short before its :Rejection
\* (_MERGE_REJECTION, _DELETE_REJECTION).
THEOREM VetoesMatch == HistorySpec => []VetoesMatchVerdicts
<1>1. HistoryInit => VerdictInv
  BY DEF Init, GraphInit, HistoryInit, VerdictInv, VetoFollows, Issued, Vetoed, Unwritten, Settling, Idle
<1>2. TypeOK /\ VerdictInv /\ [Next /\ Remember]_<<vars, history>> => VerdictInv'
  <2> SUFFICES ASSUME TypeOK, VerdictInv, [Next /\ Remember]_<<vars, history>> PROVE VerdictInv'
    OBVIOUS
  <2>1. Issued'
    BY IssuedKept DEF VerdictInv
  <2>2. ASSUME Next, RememberContested, NEW f \in Facts, f \notin contested' PROVE VetoFollows(f)'
    <3>1. f \notin contested => VetoFollows(f)
      BY DEF VerdictInv
    <3>2. ASSUME NEW i \in Investigators, Submit(i) PROVE VetoFollows(f)'
      BY <2>2, <3>1, <3>2, VerdictFollowed
    <3>3. ASSUME NEW i \in Investigators, Handle(i) PROVE VetoFollows(f)'
      <4>1. \A j \in Investigators : ~Submitted(j)
        BY <3>3, HandleMoves, HandleLeavesVeto DEF Submitted, Quiet
      <4> QED BY <2>2, <3>1, <3>3, <4>1, ContestedKept, VetoFollowed DEF VerdictInv
    <3>4. ASSUME NEW i \in Investigators, Cut(i) PROVE VetoFollows(f)'
      <4>1. /\ ~Quiet(i) /\ req'[i] = Idle /\ failures' # failures
            /\ \A j \in Investigators \ {i} : req'[j] = req[j]
            /\ UNCHANGED <<fact, rejections>>
        BY <3>4, BoundsTyped DEF Cut, TypeOK, graph
      <4>2. CutShort(i) /\ \A j \in Investigators : ~Submitted(j)
        BY <4>1 DEF CutShort, Submitted, Idle, Quiet
      <4>3. VetoFollows(f) /\ ~(Settling(i) /\ req[i].key = f)
        BY <2>2, <3>1, <4>2, ContestedKept
      <4>4. ~Settling(i)'
        BY <4>1 DEF Settling, Idle
      <4> QED BY <4>1, <4>3, <4>4 DEF VetoFollows, Settling, Vetoed
    <3>5. ASSUME NEW w \in Runners, Reason(w) \/ AbortRun(w) PROVE VetoFollows(f)'
      <4>1. UNCHANGED <<req, rejections>>
        BY <3>5, RunsVetoNothing
      <4>2. fact'[f].human = fact[f].human
        <5>1. CASE RunRule(w)
          BY <5>1, FireFounds DEF RunRule, TypeOK
        <5> QED BY <3>5, <5>1 DEF Reason, StartRun, AbortRun, graph
      <4>3. VetoFollows(f)
        BY <2>2, <3>1, <4>1, ContestedKept DEF Submitted, Quiet
      <4> QED BY <4>1, <4>2, <4>3 DEF VetoFollows, Vetoed, Settling
    <3> QED BY <2>2, <3>2, <3>3, <3>4, <3>5 DEF Next
  <2>3. CASE UNCHANGED <<vars, history>>
    BY <2>1, <2>3 DEF vars, graph, history, VerdictInv, VetoFollows, Vetoed, Settling
  <2> QED BY <2>1, <2>2, <2>3 DEF VerdictInv, Remember
<1>3. VerdictInv => VetoesMatchVerdicts
  BY DEF VerdictInv, VetoFollows, VetoesMatchVerdicts
<1> QED BY <1>1, <1>2, <1>3, TypeCorrect, HistoryAddsNothing, PTL DEF HistorySpec

---------------------------------------------------------------------------
(* A membership rejected by hand, and the reinstatement of what rests on   *)
(* a reverted edge.                                                        *)

\* what _direct_reinstate is about to give back, no investigator had rejected when it asked
DirectUnvetoed ==
    \A i \in Investigators : req[i].pc = "direct" =>
        \A f \in MembershipsOf(Task(i).rule, Task(i).subject) : Vetoed(f) => f \in late[i] \/ ~Alone(f)

\* A vetoed fact is a written one.
LEMMA VetoedIsWritten ==
    ASSUME GraphTypeOK, VetoNamesFinding, NEW f \in Facts, Vetoed(f)
    PROVE  fact[f].status # "absent"
<1>1. PICK r \in rejections : r.rel = f.rel /\ r.from = f.from /\ r.to = f.to
  BY DEF Vetoed
<1>2. [rel |-> r.rel, from |-> r.from, to |-> r.to] = f
  BY <1>1, FactsAreKeys DEF Keys
<1>3. Written(f)
  BY <1>1, <1>2 DEF VetoNamesFinding
<1>4. \A id \in FlagIds : id[1] \in FlagRules
  BY DEF FlagIds, FlagRules
<1> QED BY <1>3, <1>4, FlagsAreNoFacts DEF Written

\* Where _has_manual_rejection answers no, no membership that is alone in its type is vetoed.
LEMMA ManualReadsIt ==
    ASSUME GraphTypeOK, VetoNamesFinding, NEW rule, NEW s, NEW case,
           FALSE \in ManualReadings(rule, s, case), NEW f \in MembershipsOf(rule, s), Alone(f)
    PROVE  ~Vetoed(f)
<1> SUFFICES ASSUME Vetoed(f) PROVE FALSE
  OBVIOUS
<1>1. rule \in LinkRules /\ f \in MemberFacts /\ f \in Facts
  BY DEF MembershipsOf, Facts
<1>2. rule \notin CaseFlagRules
  BY <1>1 DEF LinkRules, CaseFlagRules
<1>3. f \in WrittenMemberships(rule, s)
  BY <1>1, VetoedIsWritten DEF WrittenMemberships
<1>4. PICK g \in WrittenMemberships(rule, s) : ~Vetoed(g)
  BY <1>2, <1>3 DEF ManualReadings, Vetoed
<1>5. g = f
  BY <1>3, <1>4 DEF WrittenMemberships, MembershipsOf, Alone
<1> QED BY <1>4, <1>5

\* A request gets to _direct_reinstate only from the reads that found nothing rejected by hand.
LEMMA DirectFollowsProbe ==
    ASSUME TypeOK, NEW i \in Investigators, Handle(i), req'[i].pc = "direct"
    PROVE  /\ UNCHANGED graph /\ Task(i)' = Task(i)
           /\ FALSE \in ManualReadings(Task(i).rule, Task(i).subject, req[i].case)
<1>1. ReqTyped /\ ~Quiet(i) /\ req[i] \in Requests
  BY HandleMoves, InFlight DEF TypeOK, ReqTyped
<1>2. \A label : Goto(i, label) => label = "direct"
  BY <1>1, GoesOn
<1>3. ~Skip(i) /\ ~Descend(i) /\ ~StartWalk(i)
  BY <1>1, GoesOn
<1>4. ~EndWalk(i)
  <2>1. ASSUME NEW nets, req' = [req EXCEPT ![i].pc = "sweep", ![i].nets = nets] PROVE FALSE
    BY <1>1, <2>1 DEF ReqTyped, Requests
  <2> QED BY <1>2, <2>1 DEF EndWalk
<1>5. \A net \in Networks : ~SweepNetwork(i, net)
  <2> SUFFICES ASSUME NEW net \in Networks, SweepNetwork(i, net) PROVE FALSE
    OBVIOUS
  <2>1. ASSUME NEW nets, NEW type, NEW orphans,
               req' = [req EXCEPT ![i].pc = "orphans", ![i].nets = nets, ![i].type = type, ![i].orphans = orphans]
        PROVE  FALSE
    BY <1>1, <2>1 DEF ReqTyped, Requests
  <2> DEFINE nets == req[i].nets \ {net}
  <2> DEFINE orphans == IF InternalEdge(net) THEN {} ELSE Members(net)
  <2>2. req' = [req EXCEPT ![i].pc = "orphans", ![i].nets = nets, ![i].type = NetworkType[net],
                           ![i].orphans = orphans]
    BY <1>1 DEF SweepNetwork, ReqTyped
  <2> HIDE DEF nets, orphans
  <2> QED BY <2>1, <2>2
<1>6. \A s \in Subjects : ~SweepOrphan(i, s)
  BY <1>1 DEF SweepOrphan, ReqTyped, Requests
<1>7. ~Touch(i)
  BY <1>1 DEF Touch, ReqTyped, Idle
<1>8. Probe(i) /\ Goto(i, "direct")
  BY <1>2, <1>3, <1>4, <1>5, <1>6, <1>7 DEF Handle, RecordRejection, DeleteRejection, Examine, Invalidate, Refire,
     Probe, Mark, Direct, EndNetwork, EndSweep
<1>9. Task(i)' = Task(i)
  BY <1>1, <1>8, GoesOn DEF Task
<1>10. FALSE \in ManualReadings(Task(i).rule, Task(i).subject, req[i].case)
  <2>1. \A m \in ManualReadings(Task(i).rule, Task(i).subject, req[i].case) : m \in BOOLEAN
    BY DEF ManualReadings, Vetoed
  <2>2. ~Goto(i, "mark")
    BY <1>2
  <2> QED BY <1>3, <1>8, <2>1, <2>2 DEF Probe
<1> QED BY <1>8, <1>9, <1>10 DEF Probe

\* A statement of a request gives a rejected membership back only by _direct_reinstate.
LEMMA HandleRevives ==
    ASSUME TypeOK, NEW i \in Investigators, Handle(i),
           NEW f \in MemberFacts, fact[f].status = "rejected", fact'[f].status # "rejected"
    PROVE  req[i].pc = "direct" /\ f \in MembershipsOf(Task(i).rule, Task(i).subject)
<1>1. GraphTypeOK /\ f \in Facts /\ f \notin HubFacts /\ fact[f] \in Marks
  BY FamilyNames DEF TypeOK, GraphTypeOK, Facts
<1>2. ~UNCHANGED graph /\ ~UNCHANGED fact
  BY DEF graph
<1>3. \A rule, s, case : ~AutoInvalidate(rule, s, case)
  <2>1. Invalidated(fact[f]).status = "rejected"
    BY <1>1 DEF Invalidated, Marks
  <2> QED BY <1>1, <2>1 DEF AutoInvalidate
<1>4. \A rule, s, case : ~MarkReinstated(rule, s, case)
  BY <1>1, CascadeWrites
<1>5. ~Refire(i)
  BY <1>1, FireKeepsRejected DEF Refire
<1>6. Direct(i)
  BY <1>2, <1>3, <1>4, <1>5 DEF Handle, RecordRejection, DeleteRejection, Examine, Invalidate, Probe, Mark, EndWalk,
     SweepNetwork, SweepOrphan, EndNetwork, EndSweep, Touch
<1>7. f \in MembershipsOf(Task(i).rule, Task(i).subject)
  BY <1>1, <1>6, CascadeWrites DEF Direct
<1> QED BY <1>6, <1>7 DEF Direct, AtTask

\* A finding alone after a step was alone before it: no step erases a membership.
LEMMA WasAlone ==
    ASSUME StaysWritten, NEW f, Alone(f)'
    PROVE  Alone(f)
BY DEF StaysWritten, Alone, Facts

\* No step erases a finding.
LEMMA StepStaysWritten ==
    ASSUME TypeOK, Next
    PROVE  StaysWritten
<1>1. ASSUME NEW i \in Investigators, Submit(i) PROVE StaysWritten
  BY <1>1, SubmitNamesFinding
<1>2. ASSUME NEW i \in Investigators, Handle(i) PROVE StaysWritten
  BY <1>2, HandleStaysWritten
<1>3. ASSUME NEW w \in Runners, RunRule(w) PROVE StaysWritten
  BY <1>3, FireStaysWritten DEF RunRule, TypeOK
<1>4. CASE UNCHANGED graph
  BY <1>4 DEF graph, StaysWritten
<1> QED BY <1>1, <1>2, <1>3, <1>4 DEF Next, Cut, Reason, StartRun, AbortRun

\* From those reads to that write, what is rejected is remembered as late.
LEMMA DirectStaysUnvetoed ==
    ASSUME TypeOK, VetoNamesFinding, DirectUnvetoed, Next, RememberLate
    PROVE  DirectUnvetoed'
<1> SUFFICES ASSUME NEW i \in Investigators, req'[i].pc = "direct",
                    NEW f \in MembershipsOf(Task(i)'.rule, Task(i)'.subject),
                    Vetoed(f)', f \notin late'[i], Alone(f)'
             PROVE  FALSE
  BY DEF DirectUnvetoed, MembershipsOf
<1>1. f \in Facts /\ Alone(f)
  BY WasAlone, StepStaysWritten DEF MembershipsOf, Facts
<1>2. CASE req'[i] = req[i]
  <2>1. late'[i] = late[i] \cup {g \in Facts : ~Vetoed(g) /\ Vetoed(g)'}
    BY <1>2 DEF RememberLate
  <2>2. f \notin late[i] /\ Vetoed(f)
    BY <1>1, <2>1
  <2>3. Task(i)' = Task(i)
    BY <1>2 DEF Task
  <2> QED BY <1>1, <1>2, <2>2, <2>3 DEF DirectUnvetoed
<1>3. ASSUME NEW j \in Investigators, Handle(j) PROVE FALSE
  <2>1. CASE j = i
    <3>1. /\ UNCHANGED graph /\ Task(i)' = Task(i)
          /\ FALSE \in ManualReadings(Task(i).rule, Task(i).subject, req[i].case)
      BY <1>3, <2>1, DirectFollowsProbe
    <3>2. ~Vetoed(f)
      BY <1>1, <3>1, ManualReadsIt DEF TypeOK
    <3> QED BY <3>1, <3>2 DEF Vetoed, graph
  <2> QED BY <1>2, <1>3, <2>1, HandleLeavesVeto
<1>4. ASSUME NEW j \in Investigators, Submit(j) PROVE FALSE
  BY <1>2, <1>4, SubmitIs
<1>5. ASSUME NEW j \in Investigators, Cut(j) PROVE FALSE
  BY <1>2, <1>5 DEF Cut, TypeOK, Idle
<1>6. ASSUME NEW w \in Runners, Reason(w) \/ AbortRun(w) PROVE FALSE
  BY <1>2, <1>6, RunsVetoNothing
<1> QED BY <1>3, <1>4, <1>5, <1>6 DEF Next

\* A membership rejected by hand, its :Rejection written, is not given back by reverting what
\* is upstream of it, however many requests are under way: but where its subject has a second
\* membership of the type, or the :Rejection came between the cascade's look for it and the
\* write (cascade._has_manual_rejection).
THEOREM ManualRejectionsOutliveCascades == HistorySpec => ManualRejectionOutlivesCascade
<1> DEFINE Outlives == \A f \in MemberFacts :
              /\ fact[f].status = "rejected" /\ fact[f].human = "rejected" /\ Vetoed(f)
              /\ fact'[f].status # "rejected"
              => \/ RevertedByHand(f)
                 \/ ~Alone(f)
                 \/ \E i \in Investigators : req[i].pc = "direct" /\ f \in late[i]
<1>1. HistoryInit => DirectUnvetoed
  BY DEF HistoryInit, Init, Idle, DirectUnvetoed
<1>2. TypeOK /\ VetoNamesFinding /\ DirectUnvetoed /\ [Next /\ Remember]_<<vars, history>> => DirectUnvetoed'
  <2>1. CASE UNCHANGED <<vars, history>>
    BY <2>1 DEF vars, graph, history, DirectUnvetoed, Task, MembershipsOf, Vetoed, Alone
  <2> QED BY <2>1, DirectStaysUnvetoed DEF Remember
<1>3. TypeOK /\ DirectUnvetoed /\ [Next]_vars => [Outlives]_vars
  <2> SUFFICES ASSUME TypeOK, DirectUnvetoed, Next, NEW f \in MemberFacts,
                      fact[f].status = "rejected", Vetoed(f), fact'[f].status # "rejected"
               PROVE  \/ RevertedByHand(f)
                      \/ ~Alone(f)
                      \/ \E i \in Investigators : req[i].pc = "direct" /\ f \in late[i]
    OBVIOUS
  <2>1. f \in Facts /\ f \notin HubFacts
    BY FamilyNames DEF Facts
  <2>2. ASSUME NEW i \in Investigators, Submit(i) PROVE RevertedByHand(f)
    BY <2>1, <2>2, SubmitKeepsRejected
  <2>3. ASSUME NEW i \in Investigators, Handle(i) PROVE req[i].pc = "direct" /\ (f \in late[i] \/ ~Alone(f))
    BY <2>3, HandleRevives DEF DirectUnvetoed
  <2>4. ASSUME NEW i \in Investigators, Cut(i) PROVE FALSE
    BY <2>4 DEF Cut, graph
  <2>5. ASSUME NEW w \in Runners, Reason(w) \/ AbortRun(w) PROVE FALSE
    BY <2>1, <2>5, FireKeepsRejected DEF Reason, RunRule, StartRun, AbortRun, graph, TypeOK
  <2> QED BY <2>2, <2>3, <2>4, <2>5 DEF Next
<1>4. [Next /\ Remember]_<<vars, history>> => [Next]_vars
  OBVIOUS
<1> QED BY <1>1, <1>2, <1>3, <1>4, TypeCorrect, VetoesNameFindings, HistoryAddsNothing, PTL
        DEF HistorySpec, ManualRejectionOutlivesCascade

---------------------------------------------------------------------------
(* Escalations.                                                            *)

\* request i has yet to look at whether s still escalates case c
OwesEscalation(i, c, s) ==
    /\ ~Quiet(i) /\ req[i].op = "reject" /\ req[i].case = c
    /\ \/ /\ req[i].pc = "veto" /\ req[i].rule \in NetworkRules \cup {"Rule_07"}
          /\ Among(req[i].affected, s)
       \/ req[i].pc \in {"walk", "invalidate"} /\ Listed(req[i].todo, "Rule_08", s)

EscalationOwed(c) == \E i \in Investigators : OwesEscalation(i, c, Escalation(c).subject)

\* what a walk has on its list: case flags, and above them, at the first level, link rules
WalkTasks == {t \in Tasks : t.rule \in CaseFlagRules \/ (t.rule \in LinkRules /\ t.depth = 0)}

\* only a reject invalidates, and the walk goes down one level from a link rule
WalkShape(i) ==
    /\ req[i].pc = "invalidate" => req[i].op = "reject"
    /\ req[i].todo \in Seq(WalkTasks)
WalksShaped == \A i \in Investigators : ~Quiet(i) => WalkShape(i)

GroundInv == WalksShaped /\ \A c \in Cases \ stray : Unfounded(c) => EscalationOwed(c)

\* What rests on a prior case, a membership or a flag is a case flag (DOWNSTREAM_DEPENDENTS).
LEMMA LeavesLeadToFlags ==
    ASSUME NEW rule \in Rules \ EdgeRules
    PROVE  /\ \/ Dependents(rule) = <<>>
              \/ \E a \in CaseFlagRules : Dependents(rule) = <<a>>
              \/ \E a, b \in CaseFlagRules : Dependents(rule) = <<a, b>>
           /\ rule \in NetworkRules \cup {"Rule_07"} => Dependents(rule) # <<>> /\ Dependents(rule)[1] = "Rule_08"
BY DEF Rules, EdgeRules, NetworkRules, LinkRules, FlagRules, CaseFlagRules, Dependents

\* The dependents of a rule: link rules of an edge rule's, case flags of any other's.
LEMMA DependentsBelow ==
    ASSUME NEW rule \in Rules
    PROVE  \/ Dependents(rule) = <<>>
           \/ \E a \in LinkRules \cup CaseFlagRules : Dependents(rule) = <<a>> /\ (rule \notin EdgeRules => a \in CaseFlagRules)
           \/ \E a, b \in CaseFlagRules : Dependents(rule) = <<a, b>>
BY DEF Rules, EdgeRules, NetworkRules, LinkRules, FlagRules, CaseFlagRules, Dependents

\* So one level of a walk has the shape of a walk: the first, and any below a link rule or a flag.
LEMMA LevelShaped ==
    ASSUME NEW rule \in Rules, NEW subjects \in Seq(Subjects), NEW depth \in Nat, depth = 0 \/ rule \notin EdgeRules
    PROVE  TasksFor(rule, subjects, depth) \in Seq(WalkTasks)
<1> DEFINE Of(d) == [n \in 1..Len(subjects) |-> [rule |-> d, subject |-> subjects[n], depth |-> depth]]
<1>1. ASSUME NEW d \in LinkRules \cup CaseFlagRules, d \in CaseFlagRules \/ depth = 0
      PROVE  Of(d) \in Seq(WalkTasks)
  <2>1. d \in Rules
    BY DEF LinkRules, CaseFlagRules, FlagRules, NetworkRules, Rules
  <2>2. \A n \in 1..Len(subjects) : [rule |-> d, subject |-> subjects[n], depth |-> depth] \in WalkTasks
    BY <1>1, <2>1 DEF Tasks, WalkTasks
  <2>3. Of(d) \in [1..Len(subjects) -> WalkTasks]
    BY <2>2
  <2> QED BY <2>3, LenProperties, SeqDef
<1>2. \A a, b \in CaseFlagRules : Of(a) \o Of(b) \in Seq(WalkTasks)
  BY <1>1, ConcatProperties
<1> HIDE DEF Of
<1>3. CASE Dependents(rule) = <<>>
  BY <1>3, EmptySeq DEF TasksFor
<1>4. ASSUME NEW a \in LinkRules \cup CaseFlagRules, Dependents(rule) = <<a>>, rule \notin EdgeRules => a \in CaseFlagRules
      PROVE  TasksFor(rule, subjects, depth) \in Seq(WalkTasks)
  <2>1. TasksFor(rule, subjects, depth) \in {<<>>, Of(a)}
    BY <1>4 DEF TasksFor, Of
  <2>2. Of(a) \in Seq(WalkTasks)
    BY <1>1, <1>4
  <2> QED BY <2>1, <2>2, EmptySeq
<1>5. ASSUME NEW a \in CaseFlagRules, NEW b \in CaseFlagRules, Dependents(rule) = <<a, b>>
      PROVE  TasksFor(rule, subjects, depth) \in Seq(WalkTasks)
  <2>1. TasksFor(rule, subjects, depth) \in {<<>>, Of(a) \o Of(b)}
    BY <1>5 DEF TasksFor, Of
  <2> QED BY <2>1, <1>2, EmptySeq
<1> QED BY <1>3, <1>4, <1>5, DependentsBelow

\* A request leaves its list alone but where it starts its walk, drops a task, or goes down.
LEMMA HandleLists ==
    ASSUME TypeOK, NEW i \in Investigators, Handle(i)
    PROVE  /\ \/ req'[i] = Idle
              \/ req'[i].todo = req[i].todo
              \/ StartWalk(i)
              \/ (\E label \in Labels : AtTask(i, label)) /\ (Skip(i) \/ Descend(i))
           /\ req'[i].pc = "invalidate" => req[i].op = "reject"
<1>1. ReqTyped /\ ~Quiet(i) /\ req[i] \in Requests
  BY HandleMoves, InFlight DEF TypeOK, ReqTyped
<1>2. ASSUME NEW label, Goto(i, label) PROVE req'[i].todo = req[i].todo /\ req'[i].pc = label
  BY <1>1, <1>2, GoesOn
<1>3. CASE StartWalk(i)
  BY <1>1, <1>3, GoesOn
<1>4. CASE (\E label \in Labels : AtTask(i, label)) /\ (Skip(i) \/ Descend(i))
  BY <1>1, <1>4, GoesOn
<1>5. CASE Examine(i)
  <2>1. AtTask(i, "walk") /\ "walk" \in Labels
    BY <1>5 DEF Examine, Labels
  <2> QED BY <1>2, <1>4, <1>5, <2>1 DEF Examine
<1>6. CASE Invalidate(i) \/ Probe(i) \/ Mark(i) \/ Direct(i) \/ Refire(i)
  <2>1. \E label \in Labels : AtTask(i, label)
    BY <1>6 DEF Invalidate, Probe, Mark, Direct, Refire, Labels
  <2> QED BY <1>2, <1>4, <1>6, <2>1 DEF Invalidate, Probe, Mark, Direct, Refire
<1>7. CASE EndWalk(i)
  <2>1. ASSUME NEW nets, req' = [req EXCEPT ![i].pc = "sweep", ![i].nets = nets]
        PROVE  req'[i].todo = req[i].todo /\ req'[i].pc = "sweep"
    BY <1>1, <2>1 DEF ReqTyped, Requests
  <2> QED BY <1>2, <1>7, <2>1 DEF EndWalk
<1>8. ASSUME NEW net \in Networks, SweepNetwork(i, net)
      PROVE  req'[i].todo = req[i].todo /\ req'[i].pc = "orphans"
  <2>1. ASSUME NEW nets, NEW type, NEW orphans,
               req' = [req EXCEPT ![i].pc = "orphans", ![i].nets = nets, ![i].type = type, ![i].orphans = orphans]
        PROVE  req'[i].todo = req[i].todo /\ req'[i].pc = "orphans"
    BY <1>1, <2>1 DEF ReqTyped, Requests
  <2> DEFINE nets == req[i].nets \ {net}
  <2> DEFINE orphans == IF InternalEdge(net) THEN {} ELSE Members(net)
  <2>2. req' = [req EXCEPT ![i].pc = "orphans", ![i].nets = nets, ![i].type = NetworkType[net],
                           ![i].orphans = orphans]
    BY <1>1, <1>8 DEF SweepNetwork, ReqTyped
  <2> HIDE DEF nets, orphans
  <2> QED BY <2>1, <2>2
<1>9. ASSUME NEW s \in Subjects, SweepOrphan(i, s)
      PROVE  req'[i].todo = req[i].todo /\ req'[i].pc = "orphans"
  BY <1>1, <1>9 DEF SweepOrphan, ReqTyped, Requests
<1>10. CASE EndNetwork(i) \/ EndSweep(i)
  BY <1>2, <1>10 DEF EndNetwork, EndSweep
<1>11. CASE Touch(i)
  BY <1>1, <1>11 DEF Touch, ReqTyped, Idle
<1> QED BY <1>3, <1>5, <1>6, <1>7, <1>8, <1>9, <1>10, <1>11 DEF Handle, RecordRejection, DeleteRejection

\* So every request keeps the shape of its walk.
LEMMA ShapeKept ==
    ASSUME TypeOK, WalksShaped, Next
    PROVE  WalksShaped'
<1> SUFFICES ASSUME NEW i \in Investigators, ~Quiet(i)' PROVE WalkShape(i)'
  BY DEF WalksShaped
<1>1. ReqTyped
  BY DEF TypeOK, ReqTyped
<1>2. CASE req'[i] = req[i]
  BY <1>2 DEF WalksShaped, WalkShape, Quiet
<1>3. ASSUME NEW j \in Investigators, Submit(j) PROVE WalkShape(i)'
  <2>1. CASE j = i
    BY <1>3, <2>1, SubmitIs, EmptySeq DEF WalkShape
  <2> QED BY <1>2, <1>3, <2>1, SubmitIs
<1>4. ASSUME Handle(i) PROVE WalkShape(i)'
  <2>1. /\ ~Quiet(i) /\ req[i] \in Requests /\ WalkShape(i) /\ Kept(i)
        /\ req'[i].pc = "invalidate" => req[i].op = "reject"
    BY <1>1, <1>4, HandleMoves, HandleLists, InFlight DEF WalksShaped, Quiet, Idle
  <2> SUFFICES req'[i].todo \in Seq(WalkTasks)
    BY <2>1 DEF WalkShape, Kept
  <2>2. CASE StartWalk(i)
    <3>1. TasksFor(req[i].rule, req[i].affected, 0) \in Seq(WalkTasks)
      BY <2>1, LevelShaped DEF Requests
    <3> QED BY <1>1, <2>1, <2>2, <3>1, GoesOn
  <2>3. ASSUME NEW label \in Labels, AtTask(i, label), Skip(i) \/ Descend(i) PROVE req'[i].todo \in Seq(WalkTasks)
    <3>1. req[i].todo \in Seq(WalkTasks) /\ req[i].todo # <<>>
      BY <2>1, <2>3 DEF AtTask, WalkShape
    <3>2. Task(i) \in WalkTasks /\ Tail(req[i].todo) \in Seq(WalkTasks)
      BY <3>1, HeadTailProperties DEF Task
    <3>3. Task(i).rule \in Rules /\ <<Task(i).subject>> \in Seq(Subjects) /\ Task(i).depth + 1 \in Nat
          /\ Task(i).rule \notin EdgeRules
      BY <3>2 DEF WalkTasks, Tasks, CaseFlagRules, LinkRules, EdgeRules
    <3>4. TasksFor(Task(i).rule, <<Task(i).subject>>, Task(i).depth + 1) \in Seq(WalkTasks)
      BY <3>3, LevelShaped
    <3>5. TasksFor(Task(i).rule, <<Task(i).subject>>, Task(i).depth + 1) \o Tail(req[i].todo) \in Seq(WalkTasks)
      BY <3>2, <3>4, ConcatProperties
    <3> QED BY <1>1, <2>1, <2>3, <3>2, <3>5, GoesOn
  <2>4. req'[i] # Idle
    BY DEF Quiet, Idle
  <2> QED BY <1>4, <2>1, <2>2, <2>3, <2>4, HandleLists DEF WalkShape
<1>5. ASSUME NEW j \in Investigators, Handle(j) PROVE WalkShape(i)'
  BY <1>2, <1>4, <1>5, HandleLeavesVeto
<1>6. ASSUME NEW j \in Investigators, Cut(j) PROVE WalkShape(i)'
  <2>1. req'[i] \in {req[i], Idle}
    BY <1>6 DEF Cut, TypeOK
  <2> QED BY <1>2, <2>1 DEF Idle, Quiet
<1>7. ASSUME NEW w \in Runners, Reason(w) \/ AbortRun(w) PROVE WalkShape(i)'
  BY <1>2, <1>7, RunsVetoNothing
<1> QED BY <1>3, <1>5, <1>6, <1>7 DEF Next

\* _auto_invalidate leaves a flag as it is, or rejected; and does reject the escalation of the
\* request's case for the subject it walks.
LEMMA InvalidatesEscalation ==
    ASSUME GraphTypeOK, NEW rule, NEW s, NEW case, AutoInvalidate(rule, s, case), NEW c \in Cases
    PROVE  /\ Escalation(c)' = Escalation(c) \/ Escalation(c)'.status = "rejected"
           /\ rule = "Rule_08" /\ case = c /\ Escalation(c).subject = s => Escalation(c)'.status = "rejected"
<1> DEFINE id == <<"Rule_08", c>>
<1>1. id \in FlagIds /\ id[1] = "Rule_08" /\ id[2] = c
  BY DEF FlagIds, CaseFlagRules
<1>2. Invalidated(flag[id]).status = "rejected"
  BY <1>1 DEF GraphTypeOK, FlagMarks, Invalidated
<1>3. flag'[id] = IF id \in LiveFlags(rule, s, case) THEN Invalidated(flag[id]) ELSE flag[id]
  BY <1>1 DEF AutoInvalidate
<1>4. rule = "Rule_08" /\ case = c /\ flag[id].subject = s /\ flag[id].status # "rejected"
        => id \in LiveFlags(rule, s, case)
  BY <1>1 DEF LiveFlags, FlagsOf, CaseFlagRules
<1> QED BY <1>2, <1>3, <1>4 DEF Escalation

\* Rule 8 escalates for somebody with a prior case and a membership that stand; no firing takes
\* either away.
LEMMA FireGrounds ==
    ASSUME GraphTypeOK, NEW rule, NEW case, NEW subject \in Subjects, Fire(rule, case, subject), NEW c \in Cases
    PROVE  /\ Escalation(c)' = Escalation(c) \/ Grounded(Escalation(c).subject)'
           /\ \A s : Grounded(s) => Grounded(s)'
<1> DEFINE id == <<"Rule_08", c>>
           lead == Lead(Recidivists(c, subject))
<1>1. id \in FlagIds /\ id[1] = "Rule_08" /\ id[2] = c
  BY DEF FlagIds, CaseFlagRules
<1>2. \A s : Grounded(s) => Grounded(s)'
  BY FireFounds DEF Facts, Grounded, ActivePrior, ActiveMember
<1>3. CASE flag'[id] # flag[id]
  <2>1. AssertFlags(rule, case, subject)
    BY <1>3 DEF Fire, Assert, AssertHubs, graph
  <2>2. rule = "Rule_08" /\ Recidivists(c, subject) # {}
    BY <1>1, <1>3, <2>1 DEF AssertFlags
  <2>3. flag'[id] = [[[flag[id] EXCEPT !.status = "active"] EXCEPT !.asserted = TRUE] EXCEPT !.subject = lead]
    BY <1>1, <2>1, <2>2 DEF AssertFlags
  <2>4. flag'[id].subject = lead
    <3> HIDE DEF lead
    <3> QED BY <1>1, <2>3 DEF GraphTypeOK, FlagMarks
  <2>5. lead \in Recidivists(c, subject)
    <3>1. Recidivists(c, subject) \subseteq Nat
      BY NodesTyped, SubjectsOrdered DEF Recidivists
    <3> QED BY <2>2, <3>1, LeadInSet
  <2>6. Grounded(lead)
    BY <2>5 DEF Recidivists, Grounded
  <2>7. PICK t : t = lead
    OBVIOUS
  <2>8. Grounded(t)'
    BY <1>2, <2>6, <2>7
  <2>9. Escalation(c)'.subject = t
    BY <2>4, <2>7 DEF Escalation
  <2> QED BY <1>2, <2>8, <2>9 DEF Grounded, ActivePrior, ActiveMember
<1> QED BY <1>2, <1>3 DEF Escalation

\* No other statement of a cascade names another subject or writes a verdict, and only
\* _direct_reinstate makes an escalation active.
LEMMA CascadeEscalates ==
    ASSUME GraphTypeOK, NEW rule, NEW s, NEW case, NEW c \in Cases,
           \/ AutoInvalidate(rule, s, case)
           \/ MarkReinstated(rule, s, case)
           \/ DirectReinstate(rule, s, case)
    PROVE  /\ Escalation(c)'.subject = Escalation(c).subject /\ Escalation(c)'.human = Escalation(c).human
           /\ ~DirectReinstate(rule, s, case) /\ Escalation(c)'.status = "active" => Escalation(c).status = "active"
<1> DEFINE id == <<"Rule_08", c>>
<1>1. id \in FlagIds /\ flag[id] \in FlagMarks
  BY DEF FlagIds, CaseFlagRules, GraphTypeOK
<1>2. \A m \in FlagMarks :
         /\ Invalidated(m).subject = m.subject /\ Invalidated(m).human = m.human /\ Invalidated(m).status = "rejected"
         /\ Unmarked(m).subject = m.subject /\ Unmarked(m).human = m.human /\ Unmarked(m).status = m.status
         /\ Reinstated(m).subject = m.subject /\ Reinstated(m).human = m.human
  BY DEF FlagMarks, Invalidated, Unmarked, Reinstated
<1>3. AutoInvalidate(rule, s, case) => flag'[id] \in {flag[id], Invalidated(flag[id])}
  BY <1>1 DEF AutoInvalidate
<1>4. MarkReinstated(rule, s, case) => flag'[id] \in {flag[id], Unmarked(flag[id])}
  BY <1>1 DEF MarkReinstated
<1>5. DirectReinstate(rule, s, case) => flag'[id] \in {flag[id], Reinstated(flag[id])}
  BY <1>1 DEF DirectReinstate
<1> QED BY <1>1, <1>2, <1>3, <1>4, <1>5 DEF Escalation

\* So a request's statement leaves whom an escalation is for and what was said of it, and gives
\* it back only by _direct_reinstate; or it fired the rule, and what it names has its ground.
LEMMA HandleEscalates ==
    ASSUME TypeOK, NEW i \in Investigators, Handle(i), NEW c \in Cases
    PROVE  \/ Grounded(Escalation(c).subject)'
           \/ /\ Escalation(c)'.subject = Escalation(c).subject
              /\ Escalation(c)'.human = Escalation(c).human
              /\ \/ Escalation(c)'.status = "active" => Escalation(c).status = "active"
                 \/ req[i].pc = "direct" /\ req'[i].pc = "walk"
<1>1. ReqTyped /\ ~Quiet(i)
  BY HandleMoves DEF TypeOK, ReqTyped
<1>2. CASE UNCHANGED flag
  BY <1>2 DEF Escalation
<1>3. CASE Refire(i)
  <2>1. Task(i).subject \in Subjects
    BY <1>1, <1>3, TaskTyped DEF Refire, Labels, Tasks
  <2>2. Escalation(c)' = Escalation(c) \/ Grounded(Escalation(c).subject)'
    BY <1>3, <2>1, FireGrounds DEF Refire, TypeOK
  <2> QED BY <2>2
<1>4. CASE Direct(i)
  <2>1. req[i].pc = "direct" /\ req'[i].pc = "walk"
    BY <1>1, <1>4, GoesOn DEF Direct, AtTask
  <2>2. Escalation(c)'.subject = Escalation(c).subject /\ Escalation(c)'.human = Escalation(c).human
    BY <1>4, CascadeEscalates DEF Direct, TypeOK
  <2> QED BY <2>1, <2>2
<1>5. ASSUME NEW rule, NEW s, NEW case, AutoInvalidate(rule, s, case) \/ MarkReinstated(rule, s, case)
      PROVE  /\ Escalation(c)'.subject = Escalation(c).subject /\ Escalation(c)'.human = Escalation(c).human
             /\ Escalation(c)'.status = "active" => Escalation(c).status = "active"
  <2> DEFINE id == <<"Rule_08", c>>
  <2>1. id \in FlagIds /\ flag[id] \in FlagMarks
    BY DEF FlagIds, CaseFlagRules, GraphTypeOK, TypeOK
  <2>2. flag'[id] \in {flag[id], Invalidated(flag[id]), Unmarked(flag[id])}
    BY <1>5, <2>1 DEF AutoInvalidate, MarkReinstated
  <2> QED BY <2>1, <2>2 DEF Escalation, FlagMarks, Invalidated, Unmarked
<1>6. CASE Invalidate(i) \/ Mark(i) \/ \E s \in Subjects : SweepOrphan(i, s)
  BY <1>5, <1>6 DEF Invalidate, Mark, SweepOrphan
<1> QED BY <1>2, <1>3, <1>4, <1>6 DEF Handle, RecordRejection, DeleteRejection, Examine, Probe, EndWalk,
     SweepNetwork, EndNetwork, EndSweep, Touch, graph

\* An escalation loses its ground to a statement of a request only where a walk takes the
\* membership away, and goes down from it, or where the sweep does.
LEMMA GroundLost ==
    ASSUME TypeOK, NEW i \in Investigators, Handle(i), NEW s, Grounded(s), ~Grounded(s)'
    PROVE  \/ req[i].pc = "orphans" /\ req'[i] # req[i]
           \/ /\ AtTask(i, "invalidate") /\ Descend(i)
              /\ Task(i).rule \in LinkRules /\ Task(i).subject = s
<1>1. PICK f \in PriorFacts \cup MemberFacts : f.from = s /\ Active(f) /\ ~Active(f)'
  BY DEF Grounded, ActivePrior, ActiveMember
<1>2. f \in Facts /\ f \in MemberFacts
  BY <1>1, HandleFounds DEF Facts
<1>3. ~UNCHANGED graph /\ ~UNCHANGED fact
  BY <1>1 DEF graph, Active
<1>4. ~Refire(i)
  BY <1>1, <1>2, FireFounds DEF Refire, TypeOK
<1>5. \A rule, t, case : ~MarkReinstated(rule, t, case) /\ ~DirectReinstate(rule, t, case)
  <2>1. fact[f] \in Marks
    BY <1>2 DEF TypeOK, GraphTypeOK
  <2>2. Unmarked(fact[f]).status = fact[f].status /\ Reinstated(fact[f]).status = "active"
    BY <2>1 DEF Marks, Unmarked, Reinstated
  <2> QED BY <1>1, <1>2, <2>2 DEF MarkReinstated, DirectReinstate, Active
<1>6. ASSUME NEW rule, NEW t, NEW case, AutoInvalidate(rule, t, case)
      PROVE  f \in LiveMemberships(rule, t) /\ rule \in LinkRules /\ t = s
  <2>1. f \in MembershipsOf(rule, t)
    BY <1>1, <1>2, <1>6, CascadeWrites DEF TypeOK, Active
  <2> QED BY <1>1, <2>1 DEF LiveMemberships, MembershipsOf
<1>7. CASE Invalidate(i)
  BY <1>6, <1>7 DEF Invalidate
<1>8. ASSUME NEW t \in Subjects, SweepOrphan(i, t)
      PROVE  req[i].pc = "orphans" /\ req'[i] # req[i]
  <2>1. ReqTyped /\ ~Quiet(i) /\ req[i] \in Requests
    BY HandleMoves, InFlight DEF TypeOK, ReqTyped
  <2>2. req'[i].orphans = req[i].orphans \ {t} /\ t \in req[i].orphans /\ req[i].pc = "orphans"
    BY <1>8, <2>1 DEF SweepOrphan, ReqTyped, Requests
  <2> QED BY <2>2
<1> QED BY <1>3, <1>4, <1>5, <1>7, <1>8 DEF Handle, RecordRejection, DeleteRejection, Examine, Probe, Mark, Direct,
      EndWalk, SweepNetwork, EndNetwork, EndSweep, Touch

\* A request that owes a look at an escalation goes on owing it until it finds what the
\* escalation rests on, or has invalidated it (_any_upstream_condition_holds).
LEMMA EscalationOwedUntilDone ==
    ASSUME TypeOK, MaxWalkDepth > 0, NEW i \in Investigators, Handle(i),
           NEW c \in Cases, NEW s, OwesEscalation(i, c, s), ~Grounded(s)
    PROVE  OwesEscalation(i, c, s)' \/ (Escalation(c).subject = s => Escalation(c)'.status = "rejected")
<1>1. ReqTyped /\ ~Quiet(i) /\ req[i] \in Requests /\ req[i].op = "reject" /\ req[i].case = c
  BY InFlight DEF TypeOK, ReqTyped, OwesEscalation
<1>2. \A l \in {"walk", "invalidate"} : req'[i].pc = l => ~Quiet(i)'
  BY DEF Quiet
<1>3. CASE req[i].pc = "veto"
  <2>1. /\ req[i].rule \in NetworkRules \cup {"Rule_07"} /\ Among(req[i].affected, s)
        /\ req[i].rule \in Rules \ EdgeRules /\ req[i].affected \in Seq(Subjects) /\ StartWalk(i)
    BY <1>1, <1>3, OwingSteps DEF OwesEscalation, Requests, RecordRejection, NetworkRules, LinkRules, EdgeRules
  <2>2. Dependents(req[i].rule) # <<>> /\ Dependents(req[i].rule)[1] = "Rule_08"
    BY <2>1, LeavesLeadToFlags
  <2>3. Listed(TasksFor(req[i].rule, req[i].affected, 0), "Rule_08", s)
    BY <2>1, <2>2, WalkLists
  <2> QED BY <1>1, <1>2, <2>1, <2>3, GoesOn DEF OwesEscalation, Kept
<1>4. ASSUME NEW label \in {"walk", "invalidate"}, AtTask(i, label), Skip(i) \/ Descend(i),
             ~(Task(i).rule = "Rule_08" /\ Task(i).subject = s)
      PROVE  OwesEscalation(i, c, s)'
  <2>1. Listed(req[i].todo, "Rule_08", s) /\ label \in Labels
    BY <1>4 DEF OwesEscalation, AtTask, Labels
  <2>2. Listed(req'[i].todo, "Rule_08", s)
    BY <1>1, <1>4, <2>1, OthersStayListed
  <2> QED BY <1>1, <1>2, <1>4, <2>2, GoesOn DEF OwesEscalation, Kept
<1>5. CASE req[i].pc = "walk"
  <2>1. Listed(req[i].todo, "Rule_08", s)
    BY <1>5 DEF OwesEscalation
  <2>2. req[i].todo # <<>>
    BY <2>1 DEF Listed
  <2>3. Examine(i) /\ AtTask(i, "walk")
    BY <1>5, <2>2, OwingSteps DEF EndWalk, Examine
  <2>4. CASE Goto(i, "invalidate")
    BY <1>1, <1>2, <2>1, <2>4, GoesOn DEF OwesEscalation, Kept
  <2>5. CASE Skip(i) /\ AnyUpstreamHolds(Task(i).rule, Task(i).subject)
    <3>1. Supports("Rule_08", s) = {ActivePrior(s), ActiveMember(s)}
      BY DEF Supports, LinkRules
    <3>2. ~AnyUpstreamHolds("Rule_08", s)
      BY <3>1 DEF AnyUpstreamHolds, Grounded
    <3> QED BY <1>4, <2>3, <2>5, <3>2
  <2> QED BY <1>1, <2>3, <2>4, <2>5 DEF Examine
<1>6. CASE req[i].pc = "invalidate"
  <2>1. /\ AtTask(i, "invalidate") /\ (Skip(i) \/ Descend(i))
        /\ AutoInvalidate(Task(i).rule, Task(i).subject, req[i].case)
    BY <1>6, OwingSteps DEF Invalidate
  <2>2. CASE Task(i).rule = "Rule_08" /\ Task(i).subject = s
    BY <1>1, <2>1, <2>2, InvalidatesEscalation DEF TypeOK
  <2> QED BY <1>4, <2>1, <2>2
<1> QED BY <1>3, <1>5, <1>6 DEF OwesEscalation

\* A verdict leaves an escalation as it is, or rejected, or given back by hand.
LEMMA SubmitEscalates ==
    ASSUME TypeOK, NEW i \in Investigators, Submit(i), NEW c \in Cases
    PROVE  /\ Escalation(c)'.subject = Escalation(c).subject
           /\ \/ Escalation(c)' = Escalation(c)
              \/ Escalation(c)'.status = "rejected"
              \/ Escalation(c)'.human = "reverted"
<1> DEFINE esc == <<"Rule_08", c>>
<1>1. esc \in FlagIds /\ flag \in [FlagIds -> FlagMarks]
  BY DEF FlagIds, CaseFlagRules, TypeOK, GraphTypeOK
<1>2. CASE UNCHANGED flag
  BY <1>2 DEF Escalation
<1>3. ASSUME NEW id \in FlagIds, NEW status \in {"active", "rejected"}, NEW human \in {"rejected", "reverted"},
             status = "rejected" \/ human = "reverted",
             flag' = [flag EXCEPT ![id].status = status, ![id].human = human]
      PROVE  /\ Escalation(c)'.subject = Escalation(c).subject
             /\ \/ Escalation(c)' = Escalation(c)
                \/ Escalation(c)'.status = "rejected"
                \/ Escalation(c)'.human = "reverted"
  <2>1. flag' = [flag EXCEPT ![id] = [[flag[id] EXCEPT !.status = status] EXCEPT !.human = human]]
    BY <1>1, <1>3
  <2>2. \A m \in FlagMarks : LET n == [[m EXCEPT !.status = status] EXCEPT !.human = human]
                             IN  n.subject = m.subject /\ n.status = status /\ n.human = human
    BY DEF FlagMarks
  <2> QED BY <1>1, <1>3, <2>1, <2>2 DEF Escalation
<1>4. PICK case \in Cases, rule \in Rules :
        \/ \E f \in Facts : RejectFact(i, case, rule, f) \/ RevertFact(i, case, rule, f)
        \/ \E id \in FlagIds, s \in Subjects : RejectFlag(i, case, rule, id, s) \/ RevertFlag(i, case, rule, id, s)
  BY DEF Submit
<1>5. ASSUME NEW id \in FlagIds, NEW s \in Subjects, RejectFlag(i, case, rule, id, s) \/ RevertFlag(i, case, rule, id, s)
      PROVE  \E status \in {"active", "rejected"}, human \in {"rejected", "reverted"} :
               /\ status = "rejected" \/ human = "reverted"
               /\ flag' = [flag EXCEPT ![id].status = status, ![id].human = human]
  BY <1>5 DEF RejectFlag, RevertFlag
<1>6. (\E f \in Facts : RejectFact(i, case, rule, f) \/ RevertFact(i, case, rule, f)) => UNCHANGED flag
  BY DEF RejectFact, RevertFact
<1> QED BY <1>2, <1>3, <1>4, <1>5, <1>6

\* A verdict that takes an escalation's ground away has its subject looked at.
LEMMA VerdictGrounds ==
    ASSUME TypeOK, NEW i \in Investigators, Submit(i), NEW s, Grounded(s), ~Grounded(s)',
           NEW c, req'[i].case = c
    PROVE  OwesEscalation(i, c, s)'
<1>1. PICK f \in PriorFacts \cup MemberFacts : f.from = s /\ Active(f) /\ ~Active(f)'
  BY DEF Grounded, ActivePrior, ActiveMember
<1>2. f \in Facts /\ fact'[f] # fact[f]
  BY <1>1 DEF Facts, Active
<1>3. /\ req'[i].key = f /\ FactInReach(req'[i].rule, req'[i].case, f) /\ req'[i].op = "reject"
      /\ req'[i].rule \in Rules /\ req'[i].affected = AffectedBy(req'[i].rule, f)
  BY <1>1, <1>2, SubmitIs DEF Active
<1>4. f.rel = RelationshipType(req'[i].rule) /\ req'[i].rule \notin FlagRules
  BY <1>3 DEF FactInReach
<1>5. req'[i].rule \in NetworkRules \cup {"Rule_07"}
  <2>1. /\ RelationshipType("Rule_10") = "APPEARS_IN_CASE" /\ RelationshipType("Rule_11") = "CROSS_CASE_HUB"
        /\ \A r \in EdgeRules : RelationshipType(r)
             \in {"SHARES_EMPLOYER_WITH", "SHARES_ADDRESS_WITH", "SHARES_ALIAS_PATTERN_WITH"}
    BY DEF RelationshipType, NetworkRules, LinkRules, EdgeRules
  <2>2. f.rel \in {"HAS_PRIOR_GUILTY_CASE", "MEMBER_OF_FRAUD_NETWORK"}
    BY <1>1, FamilyNames
  <2> QED BY <1>3, <1>4, <2>1, <2>2 DEF Rules
<1>6. req'[i].affected = <<s>>
  BY <1>1, <1>3, <1>5 DEF AffectedBy, EdgeRules, NetworkRules, LinkRules
<1>7. Among(req'[i].affected, s)
  <2>1. 1 \in 1..Len(<<s>>) /\ <<s>>[1] = s
    OBVIOUS
  <2> QED BY <1>6, <2>1 DEF Among
<1>8. req'[i].pc = "veto" /\ ~Quiet(i)'
  BY <1>3, SubmitIs
<1> QED BY <1>3, <1>5, <1>7, <1>8 DEF OwesEscalation

\* A walk that takes a membership away goes on to what it escalates.
LEMMA WalkGrounds ==
    ASSUME TypeOK, WalksShaped, MaxWalkDepth > 1, NEW i \in Investigators, ~Quiet(i),
           AtTask(i, "invalidate"), Descend(i), Task(i).rule \in LinkRules, NEW s, Task(i).subject = s,
           NEW c, req[i].case = c
    PROVE  OwesEscalation(i, c, s)'
<1>1. ReqTyped /\ WalkShape(i) /\ "invalidate" \in Labels
  BY DEF TypeOK, ReqTyped, WalksShaped, Labels
<1>2. Task(i) \in WalkTasks /\ Tail(req[i].todo) \in Seq(Tasks)
  <2>1. req[i].todo \in Seq(WalkTasks) /\ req[i].todo # <<>>
    BY <1>1 DEF WalkShape, AtTask
  <2> QED BY <1>1, <2>1, HeadTailProperties, TaskTyped DEF Task
<1>3. Task(i).depth = 0 /\ s \in Subjects
  BY <1>2 DEF WalkTasks, Tasks, LinkRules, CaseFlagRules
<1> DEFINE next == TasksFor(Task(i).rule, <<Task(i).subject>>, Task(i).depth + 1)
<1>4. next = <<[rule |-> "Rule_08", subject |-> s, depth |-> 1]>>
  <2> DEFINE Of(d) == [n \in 1..Len(<<s>>) |-> [rule |-> d, subject |-> <<s>>[n], depth |-> 1]]
  <2>1. Dependents(Task(i).rule) = <<"Rule_08">>
    BY DEF Dependents, NetworkRules, LinkRules
  <2>2. ~(Task(i).depth + 1 >= MaxWalkDepth) /\ Task(i).depth + 1 = 1
    BY <1>3, BoundsTyped
  <2>3. next = Of("Rule_08")
    BY <2>1, <2>2 DEF TasksFor
  <2>4. Of("Rule_08") = <<[rule |-> "Rule_08", subject |-> s, depth |-> 1]>>
    OBVIOUS
  <2> QED BY <2>3, <2>4
<1>5. next \in Seq(Tasks) /\ Len(next) = 1 /\ next[1].rule = "Rule_08" /\ next[1].subject = s
  BY <1>1, <1>4, DeeperTyped
<1> HIDE DEF next
<1>6. (next \o Tail(req[i].todo))[1] = next[1] /\ 1 \in 1..Len(next \o Tail(req[i].todo))
  BY <1>2, <1>5, ConcatProperties
<1>7. Listed(next \o Tail(req[i].todo), "Rule_08", s)
  BY <1>5, <1>6 DEF Listed
<1>8. Kept(i) /\ req'[i].pc = "walk" /\ req'[i].todo = next \o Tail(req[i].todo)
  BY <1>1, GoesOn DEF next
<1>9. req[i].op = "reject" /\ ~Quiet(i)'
  BY <1>1, <1>8 DEF WalkShape, AtTask, Quiet
<1> QED BY <1>7, <1>8, <1>9 DEF OwesEscalation, Kept

\* What history leaves of an unfounded escalation that is not astray after a step.
LEMMA StrayKept ==
    ASSUME RememberStray, NEW c \in Cases, c \notin stray', Unfounded(c)'
    PROVE  /\ c \notin stray
           /\ ~Unfounded(c) => \A i \in Investigators : ~Escapes(i, c)
           /\ \A i \in Investigators : ~(CutShort(i) /\ req[i].case = c)
BY DEF RememberStray

\* At every moment, whoever rejects, reverts, reasons or fails: an active escalation that nobody
\* restored by hand rests on a prior guilty case or a membership of its subject, or a rejection
\* on its own case is under way and has yet to look at it; but for those that lost their ground
\* where no walk over the case follows, or whose walk was cut short (cascade_reject, rule_08).
THEOREM EscalationsAreFounded ==
    ASSUME MaxWalkDepth > 1
    PROVE  HistorySpec => []EscalationsFounded
<1>0. MaxWalkDepth > 0
  BY BoundsTyped
<1>1. HistoryInit => GroundInv
  <2>1. \A c \in Cases : <<"Rule_08", c>> \in FlagIds
    BY DEF FlagIds, CaseFlagRules
  <2> QED BY <2>1 DEF HistoryInit, Init, GraphInit, GroundInv, Unfounded, Escalation, UnwrittenFlag, WalksShaped, Quiet, Idle
<1>2. TypeOK /\ GroundInv /\ [Next /\ Remember]_<<vars, history>> => GroundInv'
  <2> SUFFICES ASSUME TypeOK, GroundInv, [Next /\ Remember]_<<vars, history>> PROVE GroundInv'
    OBVIOUS
  <2>1. ASSUME Next, RememberStray, NEW c \in Cases, c \notin stray', Unfounded(c)' PROVE EscalationOwed(c)'
    <3>1. /\ Unfounded(c) => \E j \in Investigators : OwesEscalation(j, c, Escalation(c).subject)
          /\ ~Unfounded(c) => \A i \in Investigators : ~Escapes(i, c)
          /\ \A i \in Investigators : ~(CutShort(i) /\ req[i].case = c)
      BY <2>1, StrayKept DEF GroundInv, EscalationOwed
    <3>2. PICK s : s = Escalation(c).subject
      OBVIOUS
    <3>3. SUFFICES ASSUME Escalation(c)'.subject = s
                   PROVE  \E j \in Investigators : OwesEscalation(j, c, s)'
      <4>1. ASSUME NEW i \in Investigators, Handle(i), Escalation(c)'.subject # s PROVE FALSE
        BY <2>1, <3>2, <4>1, HandleEscalates DEF Unfounded
      <4>2. ASSUME NEW w \in Runners, RunRule(w), Escalation(c)'.subject # s PROVE FALSE
        <5>1. run[w].subject \in Subjects
          BY <4>2 DEF RunRule, TypeOK, Runs, RunIdle
        <5>2. Escalation(c)' = Escalation(c) \/ Grounded(Escalation(c).subject)'
          BY <4>2, <5>1, FireGrounds DEF RunRule, TypeOK
        <5> QED BY <2>1, <3>2, <4>2, <5>2 DEF Unfounded
      <4>3. ASSUME NEW i \in Investigators, Submit(i) PROVE Escalation(c)'.subject = s
        BY <3>2, <4>3, SubmitEscalates
      <4>4. UNCHANGED flag => Escalation(c)'.subject = s
        BY <3>2 DEF Escalation
      <4>5. Escalation(c)'.subject = s
        BY <2>1, <4>1, <4>2, <4>3, <4>4 DEF Next, Cut, Reason, StartRun, AbortRun, graph
      <4> QED BY <4>5 DEF EscalationOwed, OwesEscalation
    <3>4. /\ Escalation(c)'.status = "active" /\ Escalation(c)'.human # "reverted" /\ ~Grounded(s)'
      BY <2>1, <3>3 DEF Unfounded, Grounded, ActivePrior, ActiveMember
    <3>5. ASSUME NEW i \in Investigators, Submit(i) PROVE \E j \in Investigators : OwesEscalation(j, c, s)'
      <4>1. Quiet(i) /\ req'[i] # req[i] /\ \A j \in Investigators \ {i} : req'[j] = req[j]
        BY <3>5, SubmitIs DEF Quiet
      <4>2. CASE Unfounded(c)
        BY <3>1, <3>2, <4>1, <4>2 DEF OwesEscalation, Quiet
      <4>3. CASE ~Unfounded(c)
        <5>1. req'[i].case = c
          BY <3>1, <4>1, <4>3 DEF Escapes
        <5>2. Escalation(c)' = Escalation(c)
          BY <3>4, <3>5, SubmitEscalates
        <5>3. Grounded(s)
          BY <3>2, <3>4, <4>3, <5>2 DEF Unfounded
        <5> QED BY <3>4, <3>5, <5>1, <5>3, VerdictGrounds
      <4> QED BY <4>2, <4>3
    <3>6. ASSUME NEW i \in Investigators, Handle(i) PROVE \E j \in Investigators : OwesEscalation(j, c, s)'
      <4>1. ~Quiet(i) /\ \A j \in Investigators \ {i} : req'[j] = req[j]
        BY <3>6, HandleMoves, HandleLeavesVeto
      <4>2. CASE Unfounded(c)
        <5>1. PICK j \in Investigators : OwesEscalation(j, c, s)
          BY <3>1, <3>2, <4>2
        <5>2. ~Grounded(s)
          BY <3>2, <4>2 DEF Unfounded
        <5>3. OwesEscalation(j, c, s)'
          <6>1. CASE j # i
            BY <4>1, <5>1, <6>1 DEF OwesEscalation, Quiet
          <6>2. CASE j = i
            BY <1>0, <3>2, <3>4, <3>6, <5>1, <5>2, <6>2, EscalationOwedUntilDone
          <6> QED BY <6>1, <6>2
        <5> QED BY <5>3
      <4>3. CASE ~Unfounded(c)
        <5>1. req'[i] # req[i] => req[i].case = c /\ req[i].pc \notin {"orphans", "direct"}
          BY <3>1, <4>1, <4>3 DEF Escapes
        <5>2. Escalation(c)'.human = Escalation(c).human /\ Escalation(c).status = "active"
          <6>1. ~Grounded(Escalation(c).subject)'
            BY <2>1 DEF Unfounded
          <6>2. ~(req[i].pc = "direct" /\ req'[i].pc = "walk")
            BY <5>1
          <6> QED BY <3>4, <3>6, <6>1, <6>2, HandleEscalates
        <5>3. Grounded(s)
          BY <3>2, <3>4, <4>3, <5>2 DEF Unfounded
        <5>4. AtTask(i, "invalidate") /\ Descend(i) /\ Task(i).rule \in LinkRules /\ Task(i).subject = s
          BY <3>4, <3>6, <5>1, <5>3, GroundLost
        <5>5. req[i].case = c
          BY <4>1, <5>1, <5>4, GoesOn DEF AtTask, TypeOK, ReqTyped
        <5> QED BY <4>1, <5>4, <5>5, WalkGrounds DEF GroundInv
      <4> QED BY <4>2, <4>3
    <3>7. ASSUME NEW i \in Investigators, Cut(i) PROVE \E j \in Investigators : OwesEscalation(j, c, s)'
      <4>1. /\ ~Quiet(i) /\ req'[i] = Idle /\ failures' # failures /\ UNCHANGED graph
            /\ \A j \in Investigators \ {i} : req'[j] = req[j]
        BY <3>7, BoundsTyped DEF Cut, TypeOK
      <4>2. Unfounded(c)
        BY <2>1, <4>1 DEF Unfounded, Escalation, Grounded, ActivePrior, ActiveMember, Active, graph
      <4>3. CutShort(i)
        BY <4>1 DEF CutShort, Idle
      <4>4. PICK j \in Investigators : OwesEscalation(j, c, s)
        BY <3>1, <3>2, <4>2
      <4>5. j # i
        BY <3>1, <4>3, <4>4 DEF OwesEscalation
      <4> QED BY <4>1, <4>4, <4>5 DEF OwesEscalation, Quiet
    <3>8. ASSUME NEW w \in Runners, Reason(w) \/ AbortRun(w) PROVE \E j \in Investigators : OwesEscalation(j, c, s)'
      <4>1. UNCHANGED req
        BY <3>8, RunsVetoNothing
      <4>2. Unfounded(c)
        <5>1. CASE UNCHANGED graph
          BY <2>1, <5>1 DEF Unfounded, Escalation, Grounded, ActivePrior, ActiveMember, Active, graph
        <5>2. CASE RunRule(w)
          <6>1. run[w].subject \in Subjects
            BY <5>2 DEF RunRule, TypeOK, Runs, RunIdle
          <6>2. /\ Escalation(c)' = Escalation(c) \/ Grounded(Escalation(c).subject)'
                /\ Grounded(s) => Grounded(s)'
            BY <5>2, <6>1, FireGrounds DEF RunRule, TypeOK
          <6>3. Escalation(c)' = Escalation(c)
            BY <2>1, <6>2 DEF Unfounded
          <6> QED BY <3>2, <3>4, <6>2, <6>3 DEF Unfounded
        <5> QED BY <3>8, <5>1, <5>2 DEF Reason, StartRun, AbortRun
      <4>3. PICK j \in Investigators : OwesEscalation(j, c, s)
        BY <3>1, <3>2, <4>2
      <4> QED BY <4>1, <4>3 DEF OwesEscalation, Quiet
    <3> QED BY <2>1, <3>5, <3>6, <3>7, <3>8 DEF Next
  <2>2. CASE Next /\ RememberStray
    BY <2>1, <2>2, ShapeKept DEF GroundInv
  <2>3. CASE UNCHANGED <<vars, history>>
    BY <2>3 DEF vars, graph, history, GroundInv, WalksShaped, WalkShape, Unfounded, EscalationOwed, OwesEscalation,
       Escalation, Grounded, ActivePrior, ActiveMember, Active, Quiet
  <2> QED BY <2>2, <2>3 DEF Remember
<1>3. GroundInv => EscalationsFounded
  BY DEF GroundInv, EscalationOwed, OwesEscalation, EscalationsFounded
<1> QED BY <1>1, <1>2, <1>3, TypeCorrect, HistoryAddsNothing, PTL DEF HistorySpec
=============================================================================
