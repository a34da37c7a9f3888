----------------------------- MODULE GraphSync -----------------------------
(***************************************************************************)
(* The load of cases from AppWorks into the graph (etl/graph_sync.py): a   *)
(* fetch of many calls, any of which may fail and then looks like an empty *)
(* answer, and one transaction that merges what was fetched and retires,   *)
(* on its second miss, what was not. Several loaders (a batch on the       *)
(* command line, a reload from the API) sync cases that share subjects.    *)
(***************************************************************************)
EXTENDS Naturals, FiniteSets, TLC

CONSTANTS Cases, Subjects, Allegations,
          Records,         \* what AppWorks may hold, as the relationships it becomes
          InitialRecords,  \* what it holds when the service starts
          TypeOf,          \* the type in the taxonomy of each allegation
          Loaders,
          MaxFetches, MaxEdits, MaxOutages

Edge(rel, from, to) == [rel |-> rel, from |-> from, to |-> to]
Pair(s, t) == Edge("co_subject", {s, t}, {s, t})
PairsOf(S) == {Pair(q[1], q[2]) : q \in {r \in S \X S : r[1] # r[2]}}
Pairs == PairsOf(Subjects)
Edges == Records \cup Pairs
Types == {TypeOf[a] : a \in Allegations}

\* "detail" stands for an address, an alias, a job and a wage record of a subject
ASSUME SyncConstants ==
    /\ Cases # {} /\ Allegations \cap (Cases \cup Subjects) = {}
    /\ \A e \in Records :
          /\ e = Edge(e.rel, e.from, e.to)
          /\ \/ e.rel = "appears" /\ e.from \in Subjects /\ e.to \in Cases
             \/ e.rel = "allegation" /\ e.from \in Cases /\ e.to \in Allegations
             \/ e.rel = "detail" /\ e.from \in Subjects
             \/ e.rel = "comment" /\ e.from \in Cases \cup Subjects \cup Allegations
             \/ e.rel = "merged" /\ e.from \in Cases
    /\ InitialRecords \subseteq Records
    /\ {MaxFetches, MaxEdits, MaxOutages} \subseteq Nat

VARIABLES source,   \* what AppWorks holds
          edge,     \* the relationships in Neo4j: retrieved_at, _prune_pending, case_id
          node,     \* the nodes with one parent: allegations and comments
          linked,   \* HAS_ALLEGATION_TYPE of each case
          sync,     \* each loader's canonical dict, as far as it has fetched it
          clock, outages,
          steady,   \* bookkeeping: what AppWorks has held ever since the start,
          edits,    \* how often it has changed,
          clean     \* and complete loads of a case since it last changed
vars == <<source, edge, node, linked, sync, clock, outages, steady, edits, clean>>
graph == <<edge, node, linked>>

Missing == [at |-> 0, pending |-> FALSE, case |-> CHOOSE c \in Cases : TRUE]
Here(e) == edge[e].at # 0
Owned(e) == e.rel \in {"allegation", "comment"}
NodeOf(e) == <<e.rel, e.to>>

Idle == [phase |-> "idle", case |-> CHOOSE c \in Cases : TRUE, at |-> 0, failed |-> FALSE, edits |-> 0,
         subjects |-> {}, allegations |-> {}, typed |-> {}, edges |-> {}]

Init ==
    /\ source = InitialRecords /\ steady = InitialRecords
    /\ edge = [e \in Edges |-> Missing]
    /\ node = {} /\ linked = [c \in Cases |-> {}]
    /\ sync = [p \in Loaders |-> Idle]
    /\ clock = 0 /\ outages = 0 /\ edits = 0
    /\ clean = [c \in Cases |-> 0]
---------------------------------------------------------------------------
\* An investigator adds or removes one record in AppWorks.
Edit ==
    /\ edits < MaxEdits /\ edits' = edits + 1
    /\ \E e \in Records :
          /\ source' = IF e \in source THEN source \ {e} ELSE source \cup {e}
          /\ steady' = steady \ {e}
    /\ clean' = [c \in Cases |-> 0]
    /\ UNCHANGED <<graph, sync, clock, outages>>

Roster(c) == {s \in Subjects : Edge("appears", s, c) \in source}
Alleged(c) == {a \in Allegations : Edge("allegation", c, a) \in source}
\* the addresses, aliases, jobs and wages of some subjects, and the comment on each
Hanging(found) == {e \in source : e.rel \in {"detail", "comment"} /\ e.from \in found}

\* safe_fetch and get_relationship_items answer a failed call with nothing: an outage, which
\* counts once for a fetch, whatever it takes
Losing(loses, before) ==
    LET n == IF loses /\ ~before THEN 1 ELSE 0
    IN  outages + n <= MaxOutages /\ outages' = outages + n

Remarks(c) == {e \in source : e.rel = "comment" /\ e.from = c}
\* what of a case's allegations and commentary a fetch has not come by
CaseLoses(c, alleged, told, typed, remarks) ==
    \/ alleged # Alleged(c) \/ told # alleged \/ typed # told \/ remarks # Remarks(c)
\* the merged cases come with the workfolder; the text of an allegation makes its comment
CaseDict(c, alleged, told, typed, remarks) ==
    [Idle EXCEPT !.phase = "case", !.case = c, !.at = clock + 1,
        !.failed = CaseLoses(c, alleged, told, typed, remarks), !.edits = edits,
        !.allegations = alleged, !.typed = typed,
        !.edges = remarks \cup {e \in source : \/ e.rel = "comment" /\ e.from \in told
                                               \/ e.rel = "merged" /\ e.from = c
                                               \/ e.rel = "allegation" /\ e.from = c /\ e.to \in alleged}]

\* The workfolder, its allegations and its commentary. An allegation whose own call fails keeps
\* its id and loses its text and its type.
FetchCase(p, c) ==
    /\ sync[p].phase = "idle"
    /\ clock < MaxFetches /\ clock' = clock + 1
    /\ \E alleged \in {Alleged(c), {}} : \E told \in SUBSET alleged :
          \E typed \in SUBSET told, remarks \in SUBSET Remarks(c) :
             /\ Losing(CaseLoses(c, alleged, told, typed, remarks), FALSE)
             /\ sync' = [sync EXCEPT ![p] = CaseDict(c, alleged, told, typed, remarks)]
    /\ UNCHANGED <<source, graph, steady, edits, clean>>

\* The subjects and what hangs on them, each kind by a call of its own. A subject whose own call
\* fails has no id and is skipped.
SubjectsLose(c, found, hung) == found # Roster(c) \/ hung # Hanging(found)
WholeDict(d, found, hung) ==
    [d EXCEPT !.phase = "ready", !.failed = (@ \/ SubjectsLose(d.case, found, hung)),
              !.subjects = found,
              !.edges = @ \cup hung \cup {Edge("appears", s, d.case) : s \in found}]
FetchSubjects(p) ==
    /\ sync[p].phase = "case"
    /\ \E found \in SUBSET Roster(sync[p].case) : \E hung \in SUBSET Hanging(found) :
          /\ Losing(SubjectsLose(sync[p].case, found, hung), sync[p].failed)
          /\ sync' = [sync EXCEPT ![p] = WholeDict(@, found, hung)]
    /\ UNCHANGED <<source, graph, clock, steady, edits, clean>>

\* the workfolder's own call, or the transaction, fails: the attempt leaves nothing
Abandon(p) ==
    /\ sync[p].phase # "idle"
    /\ sync' = [sync EXCEPT ![p] = Idle]
    /\ UNCHANGED <<source, graph, clock, outages, steady, edits, clean>>

\* everything the fetch reported, and every pair of its subjects
Written(d) == d.edges \cup PairsOf(d.subjects)

\* a slip: a row that is reported again keeps its flag
MergedKeepingFlag(d) ==
    [e \in Edges |-> IF e \in Written(d)
                     THEN [at |-> d.at, pending |-> edge[e].pending, case |-> d.case]
                     ELSE edge[e]]
\* the MERGEs: a row that is reported again loses its flag
Merged(d) ==
    [e \in Edges |-> IF e \in Written(d) THEN [at |-> d.at, pending |-> FALSE, case |-> d.case]
                     ELSE edge[e]]

\* the scope of the sweep: the case, this fetch's subjects and allegations, the pairs it wrote last
Swept(d, merged, e) ==
    \/ e.rel = "appears" /\ e.to = d.case
    \/ e.rel = "allegation" /\ e.from = d.case
    \/ e.rel = "detail" /\ e.from \in d.subjects
    \/ e.rel = "comment" /\ e.from \in {d.case} \cup d.subjects \cup d.allegations
    \/ e.rel = "co_subject" /\ merged[e].case = d.case

Stale(d, merged) == {e \in Edges : merged[e].at \notin {0, d.at} /\ Swept(d, merged, e)}

\* a slip: deleted on the first miss
PrunedAtOnce(d, merged) == [e \in Edges |-> IF e \in Stale(d, merged) THEN Missing ELSE merged[e]]
\* a miss is flagged, and a miss of what is flagged is a deletion
Pruned(d, merged) ==
    [e \in Edges |-> IF e \notin Stale(d, merged) THEN merged[e]
                     ELSE IF merged[e].pending THEN Missing
                     ELSE [merged[e] EXCEPT !.pending = TRUE]]

Retired(merged, pruned) == {NodeOf(e) : e \in {x \in Edges : Owned(x) /\ merged[x].at # 0 /\ pruned[x].at = 0}}
\* a node has the relationship that makes it, an allegation also those of its comments
Attached(pruned) ==
    LET left == {e \in Edges : pruned[e].at # 0}
    IN  {NodeOf(e) : e \in left} \cup {<<"allegation", e.from>> : e \in {x \in left : x.rel = "comment"}}
\* a slip: nothing is collected
CollectedNone(d, merged, pruned) == node \cup {NodeOf(e) : e \in {x \in Written(d) : Owned(x)}}
\* the nodes that are retired now and that nothing reaches any more go
Collected(d, merged, pruned) ==
    (node \cup {NodeOf(e) : e \in {x \in Written(d) : Owned(x)}})
        \ (Retired(merged, pruned) \ Attached(pruned))

\* a slip: an allegation without a known type is linked as well
LinkedRaw(d) == {IF a \in d.typed THEN TypeOf[a] ELSE "" : a \in d.allegations}
LinkedTypes(d) == {TypeOf[a] : a \in d.typed}

\* One transaction: merge, flag or delete, collect; the links to types are made anew.
Load(p) ==
    /\ sync[p].phase = "ready"
    /\ LET d == sync[p]
           merged == Merged(d)
           pruned == Pruned(d, merged)
       IN  /\ edge' = pruned
           /\ node' = Collected(d, merged, pruned)
           /\ linked' = [linked EXCEPT ![d.case] = LinkedTypes(d)]
           /\ clean' = IF d.failed \/ d.edits # edits THEN [c \in Cases |-> 0]
                       ELSE [clean EXCEPT ![d.case] = IF @ = 2 THEN 2 ELSE @ + 1]
    /\ sync' = [sync EXCEPT ![p] = Idle]
    /\ UNCHANGED <<source, clock, outages, steady, edits>>

Next ==
    \/ Edit
    \/ \E p \in Loaders :
          \/ \E c \in Cases : FetchCase(p, c)
          \/ FetchSubjects(p) \/ Load(p) \/ Abandon(p)

Spec == Init /\ [][Next]_vars
---------------------------------------------------------------------------
Marks == [at : Nat, pending : BOOLEAN, case : Cases]
Answers == [phase : {"idle", "case", "ready"}, case : Cases, at : Nat, failed : BOOLEAN, edits : Nat,
            subjects : SUBSET Subjects, allegations : SUBSET Allegations,
            typed : SUBSET Allegations, edges : SUBSET Records]
\* Types; a case is linked to types of the taxonomy only (load_case_graph), and what an
\* owned node stands for is one of AppWorks' records.
TypeOK ==
    /\ source \in SUBSET Records /\ steady \in SUBSET source
    /\ edge \in [Edges -> Marks]
    /\ node \in SUBSET {NodeOf(e) : e \in Records}
    /\ linked \in [Cases -> SUBSET Types]
    /\ sync \in [Loaders -> Answers]
    /\ clock \in Nat /\ outages \in 0..MaxOutages /\ edits \in Nat
    /\ clean \in [Cases -> 0..2]

\* what AppWorks has never stopped reporting, for a pair through the case that wrote it last
Steady(e) ==
    IF e \in Pairs THEN \A s \in e.from : Edge("appears", s, edge[e].case) \in steady
    ELSE e \in steady

\* "Deleting on the first miss would let one transient failure silently erase real investigative
\* data": one outage, whatever calls it takes and however loads overlap, loses no relationship
\* that AppWorks goes on reporting (_tx_prune_stale).
OneOutageLosesNothing ==
    [][\A e \in Edges : outages <= 1 /\ Here(e) /\ Steady(e) => Here(e)']_vars

\* what a complete fetch of case c speaks of, and what it reports of that
Covers(c, e) ==
    \/ e.rel = "appears" /\ e.to = c
    \/ e.rel \in {"allegation", "merged"} /\ e.from = c
    \/ e.rel = "detail" /\ e.from \in Roster(c)
    \/ e.rel = "comment" /\ e.from \in {c} \cup Roster(c) \cup Alleged(c)
    \/ e.rel = "co_subject" /\ (e.from \subseteq Roster(c) \/ edge[e].case = c)
Reports(c, e) == IF e \in Pairs THEN e.from \subseteq Roster(c) ELSE e \in source

\* One complete load heals what was flagged, two remove what is gone: the graph then says of the
\* case what AppWorks says, with other cases' loads in between (load_case_graph).
SettlesInTwo ==
    /\ \A c \in Cases, e \in Edges :
        Covers(c, e) =>
            /\ clean[c] >= 1 /\ Reports(c, e) => Here(e) /\ ~edge[e].pending
            /\ clean[c] = 2 /\ ~Reports(c, e) /\ e.rel # "merged" => ~Here(e)
    /\ \A c \in Cases : clean[c] >= 1 => linked[c] = {TypeOf[a] : a \in Alleged(c)}

\* No allegation and no comment stays behind with nothing attached to it (_RECONCILE_GC_*).
NothingLoose == node \subseteq Attached(edge)

\* "left for a later run to reconcile once that allegation's HAS_ALLEGATION edge has actually
\* been confirmed-deleted": the comment of a retired allegation goes, two loads later.
CommentaryFollows ==
    \A c \in Cases, e \in Edges :
        /\ e.rel = "comment" /\ e.from \in Allegations /\ Edge("allegation", c, e.from) \in Records
        /\ clean[c] = 2 /\ ~Here(Edge("allegation", c, e.from))
        => ~Here(e)
=============================================================================
