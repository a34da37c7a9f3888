--------------------------- MODULE GraphSyncProofs ---------------------------
(***************************************************************************)
(* What is proved of the load of cases into the graph: types, that one     *)
(* outage loses nothing AppWorks goes on reporting, that no node is left   *)
(* behind without a relationship, and that two complete loads settle it.   *)
(***************************************************************************)
EXTENDS GraphSync, TLAPS

\* Pairs are no records: AppWorks reports none, the load makes them.
LEMMA PairsApart ==
    /\ \A e \in Pairs : /\ e.rel = "co_subject"
                        /\ \E s, t \in Subjects : s # t /\ e = Pair(s, t) /\ e.from = {s, t}
    /\ \A e \in Records : e.rel # "co_subject" /\ e \notin Pairs
    /\ \A S : S \subseteq Subjects => PairsOf(S) \subseteq Pairs
<1>1. \A e \in Pairs : /\ e.rel = "co_subject"
                       /\ \E s, t \in Subjects : s # t /\ e = Pair(s, t) /\ e.from = {s, t}
  <2> TAKE e \in Pairs
  <2>1. PICK q \in {r \in Subjects \X Subjects : r[1] # r[2]} : e = Pair(q[1], q[2])
    BY DEF Pairs, PairsOf
  <2> QED BY <2>1 DEF Pair, Edge
<1>2. \A e \in Records : e.rel # "co_subject"
  BY SyncConstants
<1>3. \A S : S \subseteq Subjects => PairsOf(S) \subseteq Pairs
  BY DEF Pairs, PairsOf
<1> QED BY <1>1, <1>2, <1>3

\* Every edge is a record or a pair.
LEMMA EdgesAre ==
    /\ Records \subseteq Edges /\ Pairs \subseteq Edges
    /\ \A e \in Edges : e \in Records \/ e \in Pairs
BY DEF Edges

\* A canonical dict reports edges, with a case to put on them.
LEMMA MergedTyped ==
    ASSUME TypeOK, NEW p \in Loaders
    PROVE  /\ Written(sync[p]) \subseteq Edges
           /\ Merged(sync[p]) \in [Edges -> Marks]
           /\ Pruned(sync[p], Merged(sync[p])) \in [Edges -> Marks]
<1>1. sync[p] \in Answers
  BY DEF TypeOK
<1>2. Written(sync[p]) \subseteq Edges
  BY <1>1, PairsApart, EdgesAre DEF Written, Answers
<1>3. edge \in [Edges -> Marks] /\ sync[p].at \in Nat /\ sync[p].case \in Cases
  BY <1>1 DEF TypeOK, Answers
<1>4. Merged(sync[p]) \in [Edges -> Marks]
  BY <1>3 DEF Merged, Marks
<1>5. Missing \in Marks
  BY SyncConstants DEF Missing, Marks
<1>6. \A m \in Marks : [m EXCEPT !.pending = TRUE] \in Marks
  BY DEF Marks
<1>7. Pruned(sync[p], Merged(sync[p])) \in [Edges -> Marks]
  <2> DEFINE merged == Merged(sync[p])
  <2>1. merged \in [Edges -> Marks]
    BY <1>4
  <2> HIDE DEF merged
  <2>2. Pruned(sync[p], merged) \in [Edges -> Marks]
    BY <2>1, <1>5, <1>6 DEF Pruned
  <2> QED BY <2>2 DEF merged
<1> QED BY <1>2, <1>4, <1>7

\* Type correctness, for any cases, records and loaders.
THEOREM SyncTyped == Spec => []TypeOK
<1>1. Init => TypeOK
  <2>1. Missing \in Marks /\ Idle \in Answers
    BY SyncConstants DEF Missing, Marks, Idle, Answers
  <2> QED BY <2>1, SyncConstants DEF Init, TypeOK
<1>2. TypeOK /\ [Next]_vars => TypeOK'
  <2> SUFFICES ASSUME TypeOK, [Next]_vars PROVE TypeOK'
    OBVIOUS
  <2> USE SyncConstants
  <2>1. CASE Edit
    <3>1. source' \in SUBSET Records /\ steady' \in SUBSET source'
      BY <2>1 DEF TypeOK, Edit
    <3>2. edits' \in Nat /\ clean' \in [Cases -> 0..2]
      BY <2>1 DEF TypeOK, Edit
    <3> QED BY <2>1, <3>1, <3>2 DEF TypeOK, Edit, graph
  <2>2. ASSUME NEW p \in Loaders, NEW c \in Cases, FetchCase(p, c) PROVE TypeOK'
    <3>1. PICK alleged \in {Alleged(c), {}} : \E told \in SUBSET alleged :
                 \E typed \in SUBSET told, remarks \in SUBSET Remarks(c) :
                    /\ Losing(CaseLoses(c, alleged, told, typed, remarks), FALSE)
                    /\ sync' = [sync EXCEPT ![p] = CaseDict(c, alleged, told, typed, remarks)]
      BY <2>2 DEF FetchCase
    <3>0. PICK told \in SUBSET alleged :
             \E typed \in SUBSET told, remarks \in SUBSET Remarks(c) :
                /\ Losing(CaseLoses(c, alleged, told, typed, remarks), FALSE)
                /\ sync' = [sync EXCEPT ![p] = CaseDict(c, alleged, told, typed, remarks)]
      BY <3>1
    <3>2. PICK typed \in SUBSET told, remarks \in SUBSET Remarks(c) :
             /\ Losing(CaseLoses(c, alleged, told, typed, remarks), FALSE)
             /\ sync' = [sync EXCEPT ![p] = CaseDict(c, alleged, told, typed, remarks)]
      BY <3>0
    <3>3. CaseDict(c, alleged, told, typed, remarks) \in Answers
      <4>1. /\ CaseLoses(c, alleged, told, typed, remarks) \in BOOLEAN
            /\ alleged \in SUBSET Allegations /\ typed \in SUBSET Allegations
            /\ remarks \subseteq source /\ source \subseteq Records
            /\ clock + 1 \in Nat /\ edits \in Nat
        BY DEF CaseLoses, Alleged, Remarks, TypeOK
      <4> QED BY <4>1 DEF CaseDict, Idle, Answers
    <3>4. outages' \in 0..MaxOutages /\ clock' \in Nat
      BY <2>2, <3>2 DEF Losing, FetchCase, TypeOK
    <3>5. sync' \in [Loaders -> Answers]
      BY <3>2, <3>3 DEF TypeOK
    <3> QED BY <2>2, <3>4, <3>5 DEF TypeOK, FetchCase, graph
  <2>3. ASSUME NEW p \in Loaders, FetchSubjects(p) PROVE TypeOK'
    <3>1. PICK found \in SUBSET Roster(sync[p].case) : \E hung \in SUBSET Hanging(found) :
             /\ Losing(SubjectsLose(sync[p].case, found, hung), sync[p].failed)
             /\ sync' = [sync EXCEPT ![p] = WholeDict(@, found, hung)]
      BY <2>3 DEF FetchSubjects
    <3>2. PICK hung \in SUBSET Hanging(found) :
             /\ Losing(SubjectsLose(sync[p].case, found, hung), sync[p].failed)
             /\ sync' = [sync EXCEPT ![p] = WholeDict(@, found, hung)]
      BY <3>1
    <3>3. WholeDict(sync[p], found, hung) \in Answers
      <4>1. /\ sync[p] \in Answers /\ found \in SUBSET Subjects
            /\ SubjectsLose(sync[p].case, found, hung) \in BOOLEAN
            /\ hung \subseteq Records
            /\ {Edge("appears", s, sync[p].case) : s \in found} \subseteq Records
        BY DEF TypeOK, Roster, Hanging, SubjectsLose
      <4> QED BY <4>1 DEF WholeDict, Answers
    <3>4. outages' \in 0..MaxOutages
      BY <3>2 DEF Losing, TypeOK
    <3>5. sync' \in [Loaders -> Answers]
      BY <3>2, <3>3 DEF TypeOK
    <3> QED BY <2>3, <3>4, <3>5 DEF TypeOK, FetchSubjects, graph
  <2>4. ASSUME NEW p \in Loaders, Load(p) PROVE TypeOK'
    <3>1. Idle \in Answers
      BY DEF Idle, Answers
    <3>2. sync' \in [Loaders -> Answers]
      BY <2>4, <3>1 DEF Load, TypeOK
    <3>3. edge' \in [Edges -> Marks]
      BY <2>4, MergedTyped DEF Load
    <3>4. node' \in SUBSET {NodeOf(e) : e \in Records}
      <4>1. {NodeOf(e) : e \in {x \in Written(sync[p]) : Owned(x)}} \subseteq {NodeOf(e) : e \in Records}
        BY MergedTyped, PairsApart, EdgesAre DEF Owned
      <4> QED BY <2>4, <4>1 DEF Load, Collected, TypeOK
    <3>5. linked' \in [Cases -> SUBSET Types]
      <4>1. LinkedTypes(sync[p]) \in SUBSET Types /\ sync[p].case \in Cases
        BY DEF LinkedTypes, Types, TypeOK, Answers
      <4> QED BY <2>4, <4>1 DEF Load, TypeOK
    <3>6. clean' \in [Cases -> 0..2]
      <4>1. \A n \in 0..2 : (IF n = 2 THEN 2 ELSE n + 1) \in 0..2
        OBVIOUS
      <4>2. clean \in [Cases -> 0..2] /\ sync[p].case \in Cases
        BY DEF TypeOK, Answers
      <4> QED BY <2>4, <4>1, <4>2 DEF Load
    <3> QED BY <2>4, <3>2, <3>3, <3>4, <3>5, <3>6 DEF TypeOK, Load
  <2>5. ASSUME NEW p \in Loaders, Abandon(p) PROVE TypeOK'
    <3>1. Idle \in Answers
      BY DEF Idle, Answers
    <3> QED BY <2>5, <3>1 DEF TypeOK, Abandon, graph
  <2>6. CASE UNCHANGED vars
    BY <2>6 DEF vars, TypeOK
  <2> QED BY <2>1, <2>2, <2>3, <2>4, <2>5, <2>6 DEF Next
<1> QED BY <1>1, <1>2, PTL DEF Spec
---------------------------------------------------------------------------
(* One outage loses nothing.                                               *)

\* A dict that lost no call has all that AppWorks has held from the start to now of its case,
\* its subjects and its allegations; any dict has been fetched at some time.
Tells(p) ==
    LET d == sync[p]
    IN  d.phase # "idle" =>
        /\ d.at # 0
        /\ ~d.failed => \A e \in steady :
              /\ e.rel \in {"allegation", "merged"} /\ e.from = d.case => e \in d.edges
              /\ e.rel = "comment" /\ e.from \in {d.case} \cup d.allegations => e \in d.edges
              /\ d.phase = "ready" =>
                    /\ e.rel = "appears" /\ e.to = d.case => e \in d.edges /\ e.from \in d.subjects
                    /\ e.rel \in {"detail", "comment"} /\ e.from \in d.subjects => e \in d.edges
TellsInv == \A p \in Loaders : Tells(p)

\* a relationship AppWorks goes on reporting that a load has flagged
Doubted(e) == Here(e) /\ Steady(e) /\ edge[e].pending
\* With no outage nothing of the kind is flagged, and with one not before the fetch that met
\* it is loaded.
DoubtInv ==
    /\ outages = 0 => (\A p \in Loaders : ~sync[p].failed) /\ (\A e \in Edges : ~Doubted(e))
    /\ outages = 1 => \A p \in Loaders : sync[p].failed =>
          (\A q \in Loaders : sync[q].failed => q = p) /\ (\A e \in Edges : ~Doubted(e))

\* What a dict that lost nothing sweeps without having written it has not been steady.
LEMMA SweptUnsteady ==
    ASSUME TypeOK, NEW p \in Loaders, Tells(p), sync[p].phase = "ready", ~sync[p].failed,
           NEW e \in Edges, e \notin Written(sync[p]), Swept(sync[p], Merged(sync[p]), e)
    PROVE  ~Steady(e)
<1> DEFINE d == sync[p]
<1>1. Merged(d)[e] = edge[e] /\ e \notin d.edges /\ e \notin PairsOf(d.subjects)
  BY DEF Merged, Written
<1>2. CASE e \in Records
  <2>1. e \notin Pairs /\ e.rel # "co_subject"
    BY <1>2, PairsApart
  <2>2. e \notin steady
    BY <1>1, <2>1 DEF Swept, Tells
  <2> QED BY <2>1, <2>2 DEF Steady
<1>3. CASE e \in Pairs
  <2>1. PICK s, t \in Subjects : s # t /\ e = Pair(s, t) /\ e.from = {s, t} /\ e.rel = "co_subject"
    BY <1>3, PairsApart
  <2>2. edge[e].case = d.case
    BY <1>1, <2>1 DEF Swept
  <2>3. SUFFICES ASSUME Steady(e) PROVE FALSE
    OBVIOUS
  <2>4. Edge("appears", s, d.case) \in steady /\ Edge("appears", t, d.case) \in steady
    BY <1>3, <2>1, <2>2, <2>3 DEF Steady
  <2>5. \A r : Edge("appears", r, d.case) \in steady => r \in d.subjects
    BY DEF Tells, Edge
  <2>6. <<s, t>> \in {r \in d.subjects \X d.subjects : r[1] # r[2]}
    BY <2>1, <2>4, <2>5
  <2>7. e \in PairsOf(d.subjects)
    BY <2>1, <2>6 DEF PairsOf
  <2> QED BY <1>1, <2>7
<1> QED BY <1>2, <1>3, EdgesAre

\* A load of a dict that lost nothing flags and deletes nothing that is steady; no load deletes
\* what was not flagged.
LEMMA LoadKeeps ==
    ASSUME TypeOK, NEW p \in Loaders, Tells(p), Load(p), NEW e \in Edges, Here(e)
    PROVE  /\ Steady(e) /\ ~sync[p].failed => Here(e)' /\ (edge'[e].pending => edge[e].pending)
           /\ ~edge[e].pending => Here(e)'
           /\ edge'[e].pending => edge'[e].case = edge[e].case
<1> DEFINE d == sync[p]
           merged == Merged(d)
<1>1. edge' = Pruned(d, merged) /\ d.phase = "ready" /\ d.at # 0
  BY DEF Load, Tells
<1>2. merged \in [Edges -> Marks] /\ edge \in [Edges -> Marks]
  BY MergedTyped DEF TypeOK
<1>3. CASE e \in Written(d)
  <2>1. merged[e].at = d.at /\ merged[e].pending = FALSE
    BY <1>3 DEF Merged
  <2>2. e \notin Stale(d, merged)
    BY <2>1 DEF Stale
  <2>3. edge'[e] = merged[e]
    BY <1>1, <2>2 DEF Pruned
  <2> QED BY <1>1, <2>1, <2>3 DEF Here
<1>4. CASE e \notin Written(d)
  <2>1. merged[e] = edge[e]
    BY <1>4 DEF Merged
  <2>2. CASE e \notin Stale(d, merged)
    <3>1. edge'[e] = edge[e]
      BY <1>1, <2>1, <2>2 DEF Pruned
    <3> QED BY <3>1 DEF Here
  <2>3. CASE e \in Stale(d, merged)
    <3>1. ~(Steady(e) /\ ~d.failed)
      BY <1>1, <1>4, <2>3, SweptUnsteady DEF Stale
    <3>2. edge'[e] = IF edge[e].pending THEN Missing ELSE [edge[e] EXCEPT !.pending = TRUE]
      BY <1>1, <2>1, <2>3 DEF Pruned
    <3>3. [edge[e] EXCEPT !.pending = TRUE].at = edge[e].at /\ [edge[e] EXCEPT !.pending = TRUE].case = edge[e].case
      BY <1>2 DEF Marks
    <3>4. ~edge[e].pending => Here(e)' /\ edge'[e].case = edge[e].case
      BY <3>2, <3>3 DEF Here
    <3>5. edge[e].pending => ~edge'[e].pending
      BY <3>2 DEF Missing
    <3> QED BY <3>1, <3>4, <3>5
  <2> QED BY <2>2, <2>3
<1> QED BY <1>3, <1>4

\* What a load writes for the first time it does not flag.
LEMMA LoadUnflagged ==
    ASSUME TypeOK, NEW p \in Loaders, Tells(p), Load(p), NEW e \in Edges, ~Here(e), edge'[e].pending
    PROVE  ~Here(e)'
<1> DEFINE d == sync[p]
           merged == Merged(d)
<1>1. edge' = Pruned(d, merged)
  BY DEF Load
<1>2. CASE e \in Written(d)
  <2>1. merged[e].at = d.at /\ merged[e].pending = FALSE
    BY <1>2 DEF Merged
  <2> QED BY <1>1, <2>1 DEF Stale, Pruned
<1>3. CASE e \notin Written(d)
  <2>1. merged[e] = edge[e] /\ edge[e].at = 0
    BY <1>3 DEF Merged, Here
  <2>2. edge'[e] = edge[e]
    BY <1>1, <2>1 DEF Stale, Pruned
  <2> QED BY <2>1, <2>2 DEF Here
<1> QED BY <1>2, <1>3

\* A fetch that lost nothing tells everything, and so does every dict after every step.
LEMMA TellsKept == TypeOK /\ TellsInv /\ [Next]_vars => TellsInv'
<1> SUFFICES ASSUME TypeOK, TellsInv, [Next]_vars PROVE TellsInv'
  OBVIOUS
<1>1. CASE UNCHANGED vars
  BY <1>1 DEF vars, TellsInv, Tells
<1>2. CASE Edit
  <2>1. steady' \subseteq steady /\ sync' = sync
    BY <1>2 DEF Edit
  <2> QED BY <2>1 DEF TellsInv, Tells
<1>3. ASSUME NEW p \in Loaders, NEW c \in Cases, FetchCase(p, c) PROVE TellsInv'
  <2>1. PICK alleged \in {Alleged(c), {}}, told \in SUBSET Allegations :
           \E typed \in SUBSET told, remarks \in SUBSET Remarks(c) :
              sync' = [sync EXCEPT ![p] = CaseDict(c, alleged, told, typed, remarks)]
    BY <1>3 DEF FetchCase, Alleged
  <2>2. PICK typed \in SUBSET told, remarks \in SUBSET Remarks(c) :
           sync' = [sync EXCEPT ![p] = CaseDict(c, alleged, told, typed, remarks)]
    BY <2>1
  <2> DEFINE d == CaseDict(c, alleged, told, typed, remarks)
  <2>3. /\ d.phase = "case" /\ d.case = c /\ d.at = clock + 1 /\ d.allegations = alleged
        /\ d.failed = CaseLoses(c, alleged, told, typed, remarks)
        /\ d.edges = remarks \cup {e \in source : \/ e.rel = "comment" /\ e.from \in told
                                                  \/ e.rel = "merged" /\ e.from = c
                                                  \/ e.rel = "allegation" /\ e.from = c /\ e.to \in alleged}
    BY DEF CaseDict, Idle
  <2>4. steady' = steady /\ steady \subseteq source /\ source \subseteq Records /\ clock \in Nat
    BY <1>3 DEF FetchCase, TypeOK
  <2>5. ASSUME ~d.failed, NEW e \in steady
        PROVE  /\ e.rel \in {"allegation", "merged"} /\ e.from = d.case => e \in d.edges
               /\ e.rel = "comment" /\ e.from \in {d.case} \cup d.allegations => e \in d.edges
    <3>1. alleged = Alleged(c) /\ told = alleged /\ remarks = Remarks(c)
      BY <2>3, <2>5 DEF CaseLoses
    <3>2. e.rel = "allegation" /\ e.from = c => e.to \in alleged
      BY <2>4, <3>1, SyncConstants DEF Alleged
    <3> HIDE DEF d
    <3> QED BY <2>3, <2>4, <3>1, <3>2 DEF Remarks
  <2>6. sync'[p] = d /\ \A q \in Loaders : q # p => sync'[q] = sync[q]
    BY <2>2 DEF TypeOK
  <2> HIDE DEF d
  <2>7. Tells(p)'
    BY <2>3, <2>4, <2>5, <2>6 DEF Tells
  <2>8. \A q \in Loaders : q # p => Tells(q)'
    BY <2>4, <2>6 DEF Tells, TellsInv
  <2> QED BY <2>7, <2>8 DEF TellsInv
<1>4. ASSUME NEW p \in Loaders, FetchSubjects(p) PROVE TellsInv'
  <2>1. PICK found \in SUBSET Roster(sync[p].case) : \E hung \in SUBSET Hanging(found) :
           sync' = [sync EXCEPT ![p] = WholeDict(@, found, hung)]
    BY <1>4 DEF FetchSubjects
  <2>2. PICK hung \in SUBSET Hanging(found) : sync' = [sync EXCEPT ![p] = WholeDict(@, found, hung)]
    BY <2>1
  <2> DEFINE c == sync[p].case
             d == WholeDict(sync[p], found, hung)
  <2>3. /\ d.phase = "ready" /\ d.case = c /\ d.at = sync[p].at
        /\ d.allegations = sync[p].allegations /\ d.subjects = found
        /\ d.failed = (sync[p].failed \/ SubjectsLose(c, found, hung))
        /\ d.edges = sync[p].edges \cup hung \cup {Edge("appears", s, c) : s \in found}
    BY DEF WholeDict, TypeOK, Answers
  <2>4. steady' = steady /\ steady \subseteq source /\ source \subseteq Records /\ sync[p].phase = "case"
    BY <1>4 DEF FetchSubjects, TypeOK
  <2>5. ASSUME ~d.failed, NEW e \in steady
        PROVE  /\ e.rel = "appears" /\ e.to = c => e \in d.edges /\ e.from \in found
               /\ e.rel \in {"detail", "comment"} /\ e.from \in found => e \in d.edges
    <3>1. ~sync[p].failed /\ found = Roster(c) /\ hung = Hanging(found)
      BY <2>3, <2>5 DEF SubjectsLose
    <3>2. e.rel = "appears" /\ e.to = c => e.from \in found /\ e = Edge("appears", e.from, c)
      BY <2>4, <3>1, SyncConstants DEF Roster
    <3>3. e.rel \in {"detail", "comment"} /\ e.from \in found => e \in hung
      BY <2>4, <3>1 DEF Hanging
    <3> HIDE DEF d
    <3> QED BY <2>3, <3>2, <3>3
  <2>6. sync'[p] = d /\ \A q \in Loaders : q # p => sync'[q] = sync[q]
    BY <2>2 DEF TypeOK
  <2> HIDE DEF d
  <2>7. Tells(p)'
    BY <2>3, <2>4, <2>5, <2>6 DEF Tells, TellsInv
  <2>8. \A q \in Loaders : q # p => Tells(q)'
    BY <2>4, <2>6 DEF Tells, TellsInv
  <2> QED BY <2>7, <2>8 DEF TellsInv
<1>5. ASSUME NEW p \in Loaders, Abandon(p) \/ Load(p) PROVE TellsInv'
  <2>1. sync' = [sync EXCEPT ![p] = Idle] /\ steady' = steady
    BY <1>5 DEF Abandon, Load
  <2>2. Idle.phase = "idle"
    BY DEF Idle
  <2>3. sync'[p].phase = "idle" /\ \A q \in Loaders : q # p => sync'[q] = sync[q]
    BY <2>1, <2>2 DEF TypeOK
  <2> QED BY <2>1, <2>3 DEF Tells, TellsInv
<1> QED BY <1>1, <1>2, <1>3, <1>4, <1>5 DEF Next

\* One outage is one failed fetch, and what it flags it flags when it is loaded.
LEMMA DoubtKept == TypeOK /\ TellsInv /\ DoubtInv /\ [Next]_vars => DoubtInv'
<1> SUFFICES ASSUME TypeOK, TellsInv, DoubtInv, [Next]_vars PROVE DoubtInv'
  OBVIOUS
<1> USE DEF DoubtInv
<1>1. CASE UNCHANGED vars
  BY <1>1 DEF vars, Doubted, Here, Steady
<1>2. CASE Edit
  <2>1. steady' \subseteq steady /\ UNCHANGED <<edge, sync, outages>>
    BY <1>2 DEF Edit, graph
  <2>2. \A e \in Edges : Doubted(e)' => Doubted(e)
    BY <2>1 DEF Doubted, Here, Steady
  <2> QED BY <2>1, <2>2
<1>3. ASSUME NEW p \in Loaders, NEW lost \in BOOLEAN, NEW before \in BOOLEAN,
             before => sync[p].failed, Losing(lost, before), UNCHANGED <<steady, edge>>,
             sync'[p].failed = (before \/ lost), \A q \in Loaders : q # p => sync'[q] = sync[q]
      PROVE  DoubtInv'
  <2>1. \A e \in Edges : Doubted(e)' <=> Doubted(e)
    BY <1>3 DEF Doubted, Here, Steady
  <2>2. outages \in Nat
    BY DEF TypeOK
  <2>3. CASE lost /\ ~before
    BY <1>3, <2>1, <2>2, <2>3 DEF Losing
  <2>4. CASE ~(lost /\ ~before)
    <3>1. outages' = outages /\ sync'[p].failed = before
      BY <1>3, <2>2, <2>4 DEF Losing
    <3> QED BY <1>3, <2>1, <3>1
  <2> QED BY <2>3, <2>4
<1>4. ASSUME NEW p \in Loaders, NEW c \in Cases, FetchCase(p, c) PROVE DoubtInv'
  <2>1. PICK alleged \in {Alleged(c), {}}, told \in SUBSET Allegations :
           \E typed \in SUBSET told, remarks \in SUBSET Remarks(c) :
              /\ Losing(CaseLoses(c, alleged, told, typed, remarks), FALSE)
              /\ sync' = [sync EXCEPT ![p] = CaseDict(c, alleged, told, typed, remarks)]
    BY <1>4 DEF FetchCase, Alleged
  <2>2. PICK typed \in SUBSET told, remarks \in SUBSET Remarks(c) :
              /\ Losing(CaseLoses(c, alleged, told, typed, remarks), FALSE)
              /\ sync' = [sync EXCEPT ![p] = CaseDict(c, alleged, told, typed, remarks)]
    BY <2>1
  <2> DEFINE lost == CaseLoses(c, alleged, told, typed, remarks)
  <2>3. lost \in BOOLEAN /\ CaseDict(c, alleged, told, typed, remarks).failed = lost
    BY DEF CaseLoses, CaseDict, Idle
  <2> HIDE DEF lost
  <2> QED BY <1>3, <1>4, <2>2, <2>3 DEF lost, FetchCase, graph, TypeOK
<1>5. ASSUME NEW p \in Loaders, FetchSubjects(p) PROVE DoubtInv'
  <2>1. PICK found \in SUBSET Roster(sync[p].case) : \E hung \in SUBSET Hanging(found) :
           /\ Losing(SubjectsLose(sync[p].case, found, hung), sync[p].failed)
           /\ sync' = [sync EXCEPT ![p] = WholeDict(@, found, hung)]
    BY <1>5 DEF FetchSubjects
  <2>2. PICK hung \in SUBSET Hanging(found) :
           /\ Losing(SubjectsLose(sync[p].case, found, hung), sync[p].failed)
           /\ sync' = [sync EXCEPT ![p] = WholeDict(@, found, hung)]
    BY <2>1
  <2> DEFINE lost == SubjectsLose(sync[p].case, found, hung)
  <2>3. /\ lost \in BOOLEAN /\ sync[p].failed \in BOOLEAN
        /\ WholeDict(sync[p], found, hung).failed = (sync[p].failed \/ lost)
    BY DEF SubjectsLose, WholeDict, TypeOK, Answers
  <2> HIDE DEF lost
  <2> QED BY <1>3, <1>5, <2>2, <2>3 DEF lost, FetchSubjects, graph, TypeOK
<1>6. ASSUME NEW p \in Loaders, Abandon(p) PROVE DoubtInv'
  <2>1. sync'[p].failed = FALSE /\ \A q \in Loaders : q # p => sync'[q] = sync[q]
    BY <1>6 DEF Abandon, Idle, TypeOK
  <2>2. \A e \in Edges : Doubted(e)' <=> Doubted(e)
    BY <1>6 DEF Abandon, graph, Doubted, Here, Steady
  <2> QED BY <1>6, <2>1, <2>2 DEF Abandon
<1>7. ASSUME NEW p \in Loaders, Load(p) PROVE DoubtInv'
  <2>1. sync'[p].failed = FALSE /\ \A q \in Loaders : q # p => sync'[q] = sync[q]
    BY <1>7 DEF Load, Idle, TypeOK
  <2>2. outages' = outages /\ steady' = steady
    BY <1>7 DEF Load
  <2>3. CASE sync[p].failed
    BY <2>1, <2>2, <2>3 DEF TypeOK
  <2>4. CASE ~sync[p].failed
    <3>1. ASSUME NEW e \in Edges, Doubted(e)' PROVE Doubted(e)
      <4>1. Here(e)
        BY <1>7, <3>1, LoadUnflagged DEF TellsInv, Doubted
      <4>2. edge'[e].case = edge[e].case
        BY <1>7, <3>1, <4>1, LoadKeeps DEF TellsInv, Doubted
      <4>3. Steady(e)
        BY <2>2, <3>1, <4>2 DEF Doubted, Steady
      <4> QED BY <1>7, <2>4, <3>1, <4>1, <4>3, LoadKeeps DEF TellsInv, Doubted
    <3> QED BY <2>1, <2>2, <3>1
  <2> QED BY <2>3, <2>4
<1> QED BY <1>1, <1>2, <1>4, <1>5, <1>6, <1>7 DEF Next

\* Whatever one outage takes of whichever fetch, and however the loads of however many loaders
\* overlap, the graph keeps every relationship AppWorks goes on reporting.
THEOREM OutageLosesNothing == Spec => OneOutageLosesNothing
<1> DEFINE Keeps == \A e \in Edges : outages <= 1 /\ Here(e) /\ Steady(e) => Here(e)'
<1>1. Init => TellsInv /\ DoubtInv
  <2>1. Idle.phase = "idle" /\ Idle.failed = FALSE /\ Missing.pending = FALSE
    BY DEF Idle, Missing
  <2> QED BY <2>1 DEF Init, TellsInv, Tells, DoubtInv, Doubted
<1>2. TypeOK /\ TellsInv /\ DoubtInv /\ [Next]_vars => [Keeps]_vars
  <2> SUFFICES ASSUME TypeOK, TellsInv, DoubtInv, Next PROVE Keeps
    OBVIOUS
  <2>1. CASE edge' = edge
    BY <2>1 DEF Here
  <2>2. ASSUME NEW p \in Loaders, Load(p) PROVE Keeps
    <3> SUFFICES ASSUME NEW e \in Edges, outages <= 1, Here(e), Steady(e) PROVE Here(e)'
      OBVIOUS
    <3>1. outages \in Nat /\ sync[p].failed \in BOOLEAN
      BY DEF TypeOK, Answers
    <3>2. outages = 0 \/ outages = 1
      BY <3>1
    <3>3. sync[p].failed => ~edge[e].pending
      BY <3>2 DEF DoubtInv, Doubted
    <3> QED BY <2>2, <3>3, LoadKeeps DEF TellsInv
  <2> QED BY <2>1, <2>2 DEF Next, Edit, FetchCase, FetchSubjects, Abandon, graph
<1> QED BY <1>1, <1>2, SyncTyped, TellsKept, DoubtKept, PTL DEF Spec, OneOutageLosesNothing
---------------------------------------------------------------------------
(* Nothing is left loose.                                                  *)

\* Only allegations and comments are collected, and a dict with an allegation has what ties
\* it to its case.
LooseInv ==
    /\ \A x \in node : x[1] \in {"allegation", "comment"}
    /\ \A p \in Loaders : sync[p].phase # "idle" =>
          /\ sync[p].at # 0
          /\ \A a \in sync[p].allegations : Edge("allegation", sync[p].case, a) \in sync[p].edges
    /\ NothingLoose

\* No step leaves a node loose: what a load keeps of a retired node's edges ties it still.
LEMMA LooseKept == TypeOK /\ LooseInv /\ [Next]_vars => LooseInv'
<1> SUFFICES ASSUME TypeOK, LooseInv, [Next]_vars PROVE LooseInv'
  OBVIOUS
<1>1. CASE UNCHANGED vars
  BY <1>1 DEF vars, LooseInv, NothingLoose, Attached
<1>2. CASE Edit
  BY <1>2 DEF Edit, graph, LooseInv, NothingLoose, Attached
<1>3. ASSUME NEW p \in Loaders, UNCHANGED graph, NEW d, sync' = [sync EXCEPT ![p] = d],
             d.phase # "idle" =>
                 d.at # 0 /\ \A a \in d.allegations : Edge("allegation", d.case, a) \in d.edges
      PROVE  LooseInv'
  <2>1. sync'[p] = d /\ \A q \in Loaders : q # p => sync'[q] = sync[q]
    BY <1>3 DEF TypeOK
  <2>2. NothingLoose'
    BY <1>3 DEF LooseInv, NothingLoose, Attached, graph
  <2> QED BY <1>3, <2>1, <2>2 DEF LooseInv, graph
<1>4. ASSUME NEW p \in Loaders, NEW c \in Cases, FetchCase(p, c) PROVE LooseInv'
  <2>1. PICK alleged \in {Alleged(c), {}}, told \in SUBSET Allegations :
           \E typed \in SUBSET told, remarks \in SUBSET Remarks(c) :
              sync' = [sync EXCEPT ![p] = CaseDict(c, alleged, told, typed, remarks)]
    BY <1>4 DEF FetchCase, Alleged
  <2>2. PICK typed \in SUBSET told, remarks \in SUBSET Remarks(c) :
           sync' = [sync EXCEPT ![p] = CaseDict(c, alleged, told, typed, remarks)]
    BY <2>1
  <2> DEFINE d == CaseDict(c, alleged, told, typed, remarks)
  <2>3. /\ d.at = clock + 1 /\ d.case = c /\ d.allegations = alleged
        /\ d.edges = remarks \cup {e \in source : \/ e.rel = "comment" /\ e.from \in told
                                                  \/ e.rel = "merged" /\ e.from = c
                                                  \/ e.rel = "allegation" /\ e.from = c /\ e.to \in alleged}
    BY DEF CaseDict, Idle
  <2>4. \A a \in alleged : Edge("allegation", c, a) \in d.edges
    BY <2>3 DEF Alleged, Edge
  <2>5. d.at # 0
    BY <2>3 DEF TypeOK
  <2> HIDE DEF d
  <2> QED BY <1>3, <1>4, <2>2, <2>3, <2>4, <2>5 DEF d, FetchCase
<1>5. ASSUME NEW p \in Loaders, FetchSubjects(p) PROVE LooseInv'
  <2>1. PICK found \in SUBSET Roster(sync[p].case) : \E hung \in SUBSET Hanging(found) :
           sync' = [sync EXCEPT ![p] = WholeDict(@, found, hung)]
    BY <1>5 DEF FetchSubjects
  <2>2. PICK hung \in SUBSET Hanging(found) :
           sync' = [sync EXCEPT ![p] = WholeDict(sync[p], found, hung)]
    BY <2>1
  <2> DEFINE d == WholeDict(sync[p], found, hung)
  <2>3. /\ d.at = sync[p].at /\ d.case = sync[p].case /\ d.allegations = sync[p].allegations
        /\ sync[p].edges \subseteq d.edges
    BY DEF WholeDict, TypeOK, Answers
  <2>4. sync[p].phase = "case"
    BY <1>5 DEF FetchSubjects
  <2> HIDE DEF d
  <2> QED BY <1>3, <1>5, <2>2, <2>3, <2>4 DEF d, FetchSubjects, LooseInv
<1>6. ASSUME NEW p \in Loaders, Abandon(p) PROVE LooseInv'
  BY <1>3, <1>6 DEF Abandon, Idle
<1>7. ASSUME NEW p \in Loaders, Load(p) PROVE LooseInv'
  <2> DEFINE d == sync[p]
             merged == Merged(d)
             pruned == Pruned(d, merged)
             added == {NodeOf(e) : e \in {x \in Written(d) : Owned(x)}}
  <2>1. /\ edge' = pruned /\ node' = (node \cup added) \ (Retired(merged, pruned) \ Attached(pruned))
        /\ d.phase = "ready" /\ d.at # 0 /\ sync' = [sync EXCEPT ![p] = Idle]
    BY <1>7 DEF Load, Collected, LooseInv
  <2>2. \A e \in Edges : e \in Written(d) => pruned[e].at = d.at
    BY DEF Merged, Stale, Pruned
  <2>3. \A e \in Edges : merged[e].at = 0 => edge[e].at = 0
    BY <2>1 DEF Merged
  <2>4. \A e \in Edges : pruned[e].at = 0 /\ merged[e].at # 0 => Swept(d, merged, e) /\ e \notin Written(d)
    <3> TAKE e \in Edges
    <3>1. [merged[e] EXCEPT !.pending = TRUE].at = merged[e].at
      BY MergedTyped DEF Marks
    <3> QED BY <2>1, <2>2, <3>1 DEF Pruned, Stale
  <2>5. added \subseteq Attached(pruned)
    BY <2>1, <2>2, MergedTyped DEF Attached
  <2>6. \A x \in node' : x[1] \in {"allegation", "comment"}
    BY <2>1 DEF LooseInv, Owned, NodeOf
  <2>7. ASSUME NEW x \in node, x \in node' PROVE x \in Attached(pruned)
    <3>1. x \in Attached(edge) /\ x[1] \in {"allegation", "comment"}
      BY DEF LooseInv, NothingLoose
    <3>2. x \in Retired(merged, pruned) => x \in Attached(pruned)
      BY <2>1, <2>7
    <3>3. CASE \E e \in Edges : edge[e].at # 0 /\ x = NodeOf(e)
      <4>1. PICK e \in Edges : edge[e].at # 0 /\ x = NodeOf(e)
        BY <3>3
      <4>2. Owned(e)
        BY <3>1, <4>1 DEF Owned, NodeOf
      <4>3. merged[e].at # 0
        BY <2>3, <4>1
      <4> QED BY <3>2, <4>1, <4>2, <4>3 DEF Retired, Attached
    <3>4. CASE \E e \in Edges : edge[e].at # 0 /\ e.rel = "comment" /\ x = <<"allegation", e.from>>
      <4>1. PICK e \in Edges : edge[e].at # 0 /\ e.rel = "comment" /\ x = <<"allegation", e.from>>
        BY <3>4
      <4>2. PICK r \in Records : x = NodeOf(r)
        BY DEF TypeOK
      <4>3. e.from \in Allegations
        BY <4>1, <4>2, SyncConstants DEF NodeOf
      <4>4. CASE pruned[e].at # 0
        BY <4>1, <4>4 DEF Attached
      <4>5. CASE pruned[e].at = 0
        <5>1. Swept(d, merged, e)
          BY <2>3, <2>4, <4>1, <4>5
        <5>2. e.from \in d.allegations
          BY <4>1, <4>3, <5>1, SyncConstants DEF Swept, TypeOK, Answers
        <5>3. Edge("allegation", d.case, e.from) \in Written(d)
          BY <2>1, <5>2 DEF LooseInv, Written
        <5>4. /\ Edge("allegation", d.case, e.from) \in Edges
              /\ NodeOf(Edge("allegation", d.case, e.from)) = x
          BY <4>1, <5>3, MergedTyped DEF NodeOf, Edge
        <5> QED BY <2>1, <2>2, <5>3, <5>4 DEF Attached
      <4> QED BY <4>4, <4>5
    <3> QED BY <3>1, <3>3, <3>4 DEF Attached
  <2>8. NothingLoose'
    BY <2>1, <2>5, <2>7 DEF NothingLoose
  <2>9. sync'[p].phase = "idle" /\ \A q \in Loaders : q # p => sync'[q] = sync[q]
    BY <2>1 DEF Idle, TypeOK
  <2> QED BY <2>6, <2>8, <2>9 DEF LooseInv
<1> QED BY <1>1, <1>2, <1>4, <1>5, <1>6, <1>7 DEF Next

\* No allegation and no comment is ever in the graph with nothing attached to it.
THEOREM NothingEverLoose == Spec => []NothingLoose
<1>1. Init => LooseInv
  <2>1. Idle.phase = "idle"
    BY DEF Idle
  <2> QED BY <2>1 DEF Init, LooseInv, NothingLoose
<1>2. LooseInv => NothingLoose
  BY DEF LooseInv
<1> QED BY <1>1, <1>2, SyncTyped, LooseKept, PTL DEF Spec
---------------------------------------------------------------------------
(* Two complete loads settle a case.                                       *)

\* What AppWorks holds of a case before its subjects are asked for.
Filed(c) ==
    {e \in source : \/ e.rel \in {"allegation", "merged"} /\ e.from = c
                    \/ e.rel = "comment" /\ e.from \in {c} \cup Alleged(c)}
\* What it holds of a case in all.
Whole(c) == Filed(c) \cup Hanging(Roster(c)) \cup {Edge("appears", s, c) : s \in Roster(c)}
\* A dict that lost nothing of what AppWorks still holds is what AppWorks holds.
Exact(d) == d.phase # "idle" /\ ~d.failed /\ d.edits = edits
Complete(d) ==
    /\ d.allegations = Alleged(d.case) /\ d.typed = d.allegations
    /\ d.phase = "case" => d.edges = Filed(d.case)
    /\ d.phase = "ready" => /\ d.subjects = Roster(d.case)
                            /\ d.edges = Whole(d.case)
ExactInv ==
    \A p \in Loaders : /\ sync[p].edits <= edits
                       /\ Exact(sync[p]) => Complete(sync[p])

\* Each fetch has a time of its own, which no relationship has before its load.
FreshInv ==
    /\ \A e \in Edges : edge[e].at <= clock
    /\ \A p \in Loaders : sync[p].phase # "idle" =>
          /\ sync[p].at \in 1..clock
          /\ \A e \in Edges : edge[e].at # sync[p].at
          /\ \A q \in Loaders : sync[q].phase # "idle" /\ q # p => sync[q].at # sync[p].at

\* What holds of a case since a complete load of it: the pairs of its subjects belong to a case
\* that lists both, and what is no longer reported is flagged until a second load.
Settled(c) ==
    clean[c] >= 1 =>
        /\ linked[c] = {TypeOf[a] : a \in Alleged(c)}
        /\ \A e \in Edges :
              /\ Covers(c, e) /\ Reports(c, e) => Here(e) /\ ~edge[e].pending
              /\ e \in Pairs /\ Reports(c, e) => e.from \subseteq Roster(edge[e].case)
              /\ Covers(c, e) /\ ~Reports(c, e) /\ e.rel # "merged" =>
                    ~Here(e) \/ (clean[c] = 1 /\ edge[e].pending)
SettledInv == \A c \in Cases : Settled(c)

\* The whole of a case is what AppWorks holds of what a fetch of it covers.
LEMMA WholeIs == ASSUME TypeOK, NEW c PROVE Whole(c) = {e \in source : Covers(c, e)}
<1> DEFINE appearing == {Edge("appears", s, c) : s \in Roster(c)}
<1>1. \A e \in source : e.rel = "appears" /\ e.to = c => e \in appearing
  BY SyncConstants DEF Roster, TypeOK
<1>2. ASSUME NEW e \in appearing PROVE e \in source /\ e.rel = "appears" /\ e.to = c
  <2>1. PICK s \in Roster(c) : e = Edge("appears", s, c)
    OBVIOUS
  <2>2. e \in source
    BY <2>1 DEF Roster
  <2> QED BY <2>1, <2>2 DEF Edge
<1>3. \A e \in source : e.rel # "co_subject"
  BY PairsApart DEF TypeOK
<1>4. Whole(c) = Filed(c) \cup Hanging(Roster(c)) \cup appearing
  BY DEF Whole
<1> HIDE DEF appearing
<1>5. \A e \in Whole(c) : e \in source /\ Covers(c, e)
  BY <1>2, <1>4 DEF Covers, Filed, Hanging
<1>6. \A e \in source : Covers(c, e) => e \in Whole(c)
  BY <1>1, <1>3, <1>4 DEF Covers, Filed, Hanging
<1> QED BY <1>5, <1>6

\* A pair is one of a set's exactly if both its subjects are in the set.
LEMMA PairOf ==
    ASSUME NEW e \in Pairs, NEW S
    PROVE  e \in PairsOf(S) <=> e.from \subseteq S
<1>1. PICK s, t \in Subjects : s # t /\ e = Pair(s, t) /\ e.from = {s, t}
  BY PairsApart
<1>2. ASSUME e.from \subseteq S PROVE e \in PairsOf(S)
  <2>1. <<s, t>> \in {r \in S \X S : r[1] # r[2]}
    BY <1>1, <1>2
  <2> QED BY <1>1, <2>1 DEF PairsOf
<1>3. ASSUME e \in PairsOf(S) PROVE e.from \subseteq S
  <2>1. PICK q \in {r \in S \X S : r[1] # r[2]} : e = Pair(q[1], q[2])
    BY <1>3 DEF PairsOf
  <2> QED BY <2>1 DEF Pair, Edge
<1> QED BY <1>2, <1>3

\* An exact dict writes what AppWorks reports of its case and sweeps what it does not.
LEMMA ExactWrites ==
    ASSUME TypeOK, FreshInv, NEW p \in Loaders, Complete(sync[p]), sync[p].phase = "ready", NEW e \in Edges
    PROVE  LET d == sync[p]
               merged == Merged(d)
           IN  /\ e \in Written(d) <=> Covers(d.case, e) /\ Reports(d.case, e)
               /\ e \in Stale(d, merged) <=>
                     /\ e \notin Written(d) /\ Here(e) /\ e.rel # "merged" /\ Covers(d.case, e)
<1> DEFINE d == sync[p]
           merged == Merged(d)
<1>1. /\ d.subjects = Roster(d.case) /\ d.allegations = Alleged(d.case)
      /\ d.edges = {x \in source : Covers(d.case, x)} /\ d.edges \subseteq Records
  BY WholeIs DEF Complete, TypeOK
<1>2. e \in Pairs => e.rel = "co_subject" /\ e \notin Records
  BY PairsApart
<1>3. e \in Records => e \notin Pairs /\ e.rel # "co_subject"
  BY PairsApart
<1>4. d.subjects \subseteq Subjects /\ PairsOf(d.subjects) \subseteq Pairs
  BY <1>1, PairsApart DEF Roster
<1>5. e \in Written(d) <=> Covers(d.case, e) /\ Reports(d.case, e)
  <2>1. CASE e \in Pairs
    BY <1>1, <1>2, <2>1, PairOf DEF Written, Covers, Reports
  <2>2. CASE e \in Records
    BY <1>1, <1>3, <1>4, <2>2 DEF Written, Reports
  <2> QED BY <2>1, <2>2, EdgesAre
<1>6. CASE e \in Written(d)
  <2>1. merged[e].at = d.at
    BY <1>6 DEF Merged
  <2> QED BY <1>5, <1>6, <2>1 DEF Stale
<1>7. CASE e \notin Written(d)
  <2>1. merged[e] = edge[e] /\ edge[e].at # d.at
    BY <1>7 DEF Merged, FreshInv
  <2>2. Swept(d, merged, e) <=> e.rel # "merged" /\ Covers(d.case, e)
    <3>1. CASE e \in Pairs
      <4>1. ~(e.from \subseteq Roster(d.case))
        BY <1>1, <1>7, <3>1, PairOf DEF Written
      <4> QED BY <1>2, <2>1, <3>1, <4>1 DEF Swept, Covers
    <3>2. CASE e \in Records
      BY <1>1, <1>3, <3>2 DEF Swept, Covers
    <3> QED BY <3>1, <3>2, EdgesAre
  <2> QED BY <1>5, <1>7, <2>1, <2>2 DEF Stale, Here
<1> QED BY <1>6, <1>7, <1>5

\* What an exact load leaves of an edge.
LEMMA ExactLoads ==
    ASSUME TypeOK, FreshInv, NEW p \in Loaders, Complete(sync[p]), Load(p), NEW e \in Edges
    PROVE  LET k == sync[p].case
           IN  /\ Covers(k, e) /\ Reports(k, e) => Here(e)' /\ edge'[e].pending = FALSE /\ edge'[e].case = k
               /\ ~(Covers(k, e) /\ Reports(k, e)) =>
                     \/ edge'[e] = edge[e] /\ ~(Here(e) /\ e.rel # "merged" /\ Covers(k, e))
                     \/ /\ e.rel # "merged" /\ Covers(k, e) /\ Here(e)
                        /\ \/ edge[e].pending /\ ~Here(e)'
                           \/ ~edge[e].pending /\ edge'[e].pending = TRUE /\ edge'[e].case = edge[e].case
<1> DEFINE d == sync[p]
           merged == Merged(d)
<1>1. edge' = Pruned(d, merged) /\ d.phase = "ready" /\ d.at # 0
  BY DEF Load, FreshInv
<1>2. merged \in [Edges -> Marks] /\ edge \in [Edges -> Marks]
  BY MergedTyped DEF TypeOK
<1>3. CASE e \in Written(d)
  <2>1. merged[e] = [at |-> d.at, pending |-> FALSE, case |-> d.case]
    BY <1>3 DEF Merged
  <2>2. edge'[e] = merged[e]
    BY <1>1, <1>3, ExactWrites DEF Pruned
  <2> QED BY <1>1, <1>3, <2>1, <2>2, ExactWrites DEF Here
<1>4. CASE e \notin Written(d)
  <2>1. merged[e] = edge[e]
    BY <1>4 DEF Merged
  <2>2. CASE e \in Stale(d, merged)
    <3>1. edge'[e] = IF edge[e].pending THEN Missing ELSE [edge[e] EXCEPT !.pending = TRUE]
      BY <1>1, <2>1, <2>2 DEF Pruned
    <3>2. [edge[e] EXCEPT !.pending = TRUE].pending = TRUE /\ [edge[e] EXCEPT !.pending = TRUE].case = edge[e].case
      BY <1>2 DEF Marks
    <3>3. e.rel # "merged" /\ Covers(d.case, e) /\ Here(e)
      BY <1>1, <2>2, ExactWrites
    <3>4. Missing.at = 0
      BY DEF Missing
    <3> QED BY <1>1, <1>4, <3>1, <3>2, <3>3, <3>4, ExactWrites DEF Here
  <2>3. CASE e \notin Stale(d, merged)
    <3>1. edge'[e] = edge[e]
      BY <1>1, <2>1, <2>3 DEF Pruned
    <3> QED BY <1>1, <1>4, <2>3, <3>1, ExactWrites
  <2> QED BY <2>2, <2>3
<1> QED BY <1>3, <1>4

\* The fetch of a case changes one dict and nothing of the graph.
LEMMA FetchedCase ==
    ASSUME TypeOK, NEW p \in Loaders, NEW c \in Cases, FetchCase(p, c)
    PROVE  /\ sync'[p].phase = "case" /\ sync'[p].at = clock + 1 /\ sync'[p].edits = edits
           /\ ~sync'[p].failed =>
                 /\ sync'[p].case = c /\ sync'[p].allegations = Alleged(c) /\ sync'[p].typed = Alleged(c)
                 /\ sync'[p].edges = Filed(c)
           /\ \A q \in Loaders : q # p => sync'[q] = sync[q]
           /\ clock' = clock + 1 /\ UNCHANGED <<source, edge, linked, edits, clean>>
<1>1. PICK alleged \in {Alleged(c), {}}, told \in SUBSET Allegations :
         /\ told \subseteq alleged
         /\ \E typed \in SUBSET told, remarks \in SUBSET Remarks(c) :
               sync' = [sync EXCEPT ![p] = CaseDict(c, alleged, told, typed, remarks)]
  BY DEF FetchCase, Alleged
<1>2. PICK typed \in SUBSET told, remarks \in SUBSET Remarks(c) :
         sync' = [sync EXCEPT ![p] = CaseDict(c, alleged, told, typed, remarks)]
  BY <1>1
<1> DEFINE d == CaseDict(c, alleged, told, typed, remarks)
<1>3. sync'[p] = d /\ \A q \in Loaders : q # p => sync'[q] = sync[q]
  BY <1>2 DEF TypeOK
<1>4. /\ d.phase = "case" /\ d.case = c /\ d.at = clock + 1 /\ d.edits = edits
      /\ d.allegations = alleged /\ d.typed = typed
      /\ d.failed = CaseLoses(c, alleged, told, typed, remarks)
      /\ d.edges = remarks \cup {e \in source : \/ e.rel = "comment" /\ e.from \in told
                                                \/ e.rel = "merged" /\ e.from = c
                                                \/ e.rel = "allegation" /\ e.from = c /\ e.to \in alleged}
  BY DEF CaseDict, Idle
<1> HIDE DEF d
<1>5. ASSUME ~d.failed PROVE alleged = Alleged(c) /\ typed = Alleged(c) /\ d.edges = Filed(c)
  <2>1. told = Alleged(c) /\ alleged = Alleged(c) /\ typed = Alleged(c) /\ remarks = Remarks(c)
    BY <1>4, <1>5 DEF CaseLoses
  <2>2. \A e \in source : e.rel = "allegation" /\ e.from = c => e.to \in Alleged(c)
    BY SyncConstants DEF Alleged, TypeOK
  <2>3. d.edges \subseteq Filed(c)
    BY <1>4, <2>1 DEF Remarks, Filed
  <2>4. Filed(c) \subseteq d.edges
    BY <1>4, <2>1, <2>2 DEF Remarks, Filed
  <2> QED BY <2>1, <2>3, <2>4
<1> QED BY <1>3, <1>4, <1>5 DEF FetchCase, graph

\* So does the fetch of the subjects, which only adds to it.
LEMMA FetchedSubjects ==
    ASSUME TypeOK, NEW p \in Loaders, FetchSubjects(p)
    PROVE  /\ sync[p].phase = "case" /\ sync'[p].phase = "ready"
           /\ sync'[p].at = sync[p].at /\ sync'[p].edits = sync[p].edits /\ sync'[p].case = sync[p].case
           /\ sync'[p].allegations = sync[p].allegations /\ sync'[p].typed = sync[p].typed
           /\ ~sync'[p].failed =>
                 /\ ~sync[p].failed /\ sync'[p].subjects = Roster(sync[p].case)
                 /\ sync'[p].edges = sync[p].edges \cup Hanging(Roster(sync[p].case))
                                       \cup {Edge("appears", s, sync[p].case) : s \in Roster(sync[p].case)}
           /\ \A q \in Loaders : q # p => sync'[q] = sync[q]
           /\ UNCHANGED <<source, edge, linked, clock, edits, clean>>
<1>1. PICK found \in SUBSET Roster(sync[p].case) : \E hung \in SUBSET Hanging(found) :
         sync' = [sync EXCEPT ![p] = WholeDict(@, found, hung)]
  BY DEF FetchSubjects
<1>2. PICK hung \in SUBSET Hanging(found) : sync' = [sync EXCEPT ![p] = WholeDict(sync[p], found, hung)]
  BY <1>1
<1> DEFINE d == WholeDict(sync[p], found, hung)
<1>3. sync'[p] = d /\ \A q \in Loaders : q # p => sync'[q] = sync[q]
  BY <1>2 DEF TypeOK
<1>4. /\ d.phase = "ready" /\ d.case = sync[p].case /\ d.at = sync[p].at /\ d.edits = sync[p].edits
      /\ d.allegations = sync[p].allegations /\ d.typed = sync[p].typed /\ d.subjects = found
      /\ d.failed = (sync[p].failed \/ SubjectsLose(sync[p].case, found, hung))
      /\ d.edges = sync[p].edges \cup hung \cup {Edge("appears", s, sync[p].case) : s \in found}
  BY DEF WholeDict, TypeOK, Answers
<1> HIDE DEF d
<1>5. ASSUME ~d.failed
      PROVE  ~sync[p].failed /\ found = Roster(sync[p].case) /\ hung = Hanging(Roster(sync[p].case))
  BY <1>4, <1>5 DEF SubjectsLose
<1> QED BY <1>3, <1>4, <1>5 DEF FetchSubjects, graph

\* Every dict is what AppWorks holds if nothing was lost and nothing has changed since.
LEMMA ExactKept == TypeOK /\ ExactInv /\ [Next]_vars => ExactInv'
<1> SUFFICES ASSUME TypeOK, ExactInv, [Next]_vars PROVE ExactInv'
  OBVIOUS
<1> USE DEF ExactInv
<1>0. edits \in Nat /\ \A p \in Loaders : sync[p] \in Answers /\ sync[p].edits \in Nat
  BY DEF TypeOK, Answers
<1>1. ASSUME NEW p \in Loaders, source' = source, edits' = edits, sync'[p] = sync[p]
      PROVE  sync'[p].edits <= edits' /\ (Exact(sync[p])' => Complete(sync[p])')
  BY <1>1 DEF Exact, Complete, Whole, Filed, Hanging, Alleged, Roster
<1>2. CASE UNCHANGED vars
  BY <1>1, <1>2 DEF vars
<1>3. CASE Edit
  BY <1>0, <1>3 DEF Edit, Exact
<1>4. ASSUME NEW p \in Loaders, NEW c \in Cases, FetchCase(p, c) PROVE ExactInv'
  <2>1. ASSUME Exact(sync[p])' PROVE Complete(sync[p])'
    <3>1. Filed(c)' = Filed(c) /\ Alleged(c)' = Alleged(c)
      BY <1>4, FetchedCase DEF Filed, Alleged
    <3>2. /\ sync'[p].phase = "case" /\ sync'[p].case = c /\ sync'[p].edges = Filed(c)
          /\ sync'[p].allegations = Alleged(c) /\ sync'[p].typed = Alleged(c)
      BY <1>4, <2>1, FetchedCase DEF Exact
    <3> QED BY <3>1, <3>2 DEF Complete
  <2> QED BY <1>0, <1>1, <1>4, <2>1, FetchedCase
<1>5. ASSUME NEW p \in Loaders, FetchSubjects(p) PROVE ExactInv'
  <2>1. ASSUME Exact(sync[p])' PROVE Complete(sync[p])'
    <3>1. Exact(sync[p]) /\ Complete(sync[p])
      BY <1>5, <2>1, FetchedSubjects DEF Exact
    <3>2. sync'[p].edges = Whole(sync[p].case)
      BY <1>5, <2>1, <3>1, FetchedSubjects DEF Exact, Complete, Whole
    <3>3. Whole(sync[p].case)' = Whole(sync[p].case)
      BY <1>5, FetchedSubjects DEF Whole, Filed, Hanging, Alleged, Roster
    <3> QED BY <1>5, <2>1, <3>1, <3>2, <3>3, FetchedSubjects DEF Exact, Complete, Alleged, Roster
  <2> QED BY <1>0, <1>1, <1>5, <2>1, FetchedSubjects
<1>6. ASSUME NEW p \in Loaders, Abandon(p) \/ Load(p) PROVE ExactInv'
  <2>1. sync'[p].phase = "idle" /\ sync'[p].edits = 0 /\ \A q \in Loaders : q # p => sync'[q] = sync[q]
    BY <1>6 DEF Abandon, Load, Idle, TypeOK
  <2>2. UNCHANGED <<source, edits>>
    BY <1>6 DEF Abandon, Load, graph
  <2> QED BY <1>0, <1>1, <2>1, <2>2 DEF Exact
<1> QED BY <1>2, <1>3, <1>4, <1>5, <1>6 DEF Next

\* The time of a fetch is in no relationship before its load and in no other fetch.
LEMMA FreshKept == TypeOK /\ FreshInv /\ [Next]_vars => FreshInv'
<1> SUFFICES ASSUME TypeOK, FreshInv, [Next]_vars PROVE FreshInv'
  OBVIOUS
<1> USE DEF FreshInv
<1>0. /\ clock \in Nat /\ \A p \in Loaders : sync[p].at \in Nat
      /\ edge \in [Edges -> Marks] /\ \A e \in Edges : edge[e].at \in Nat
  BY DEF TypeOK, Answers, Marks
<1>1. CASE UNCHANGED vars
  BY <1>1 DEF vars
<1>2. CASE Edit
  BY <1>2 DEF Edit, graph
<1>3. ASSUME NEW p \in Loaders, NEW c \in Cases, FetchCase(p, c) PROVE FreshInv'
  BY <1>0, <1>3, FetchedCase
<1>4. ASSUME NEW p \in Loaders, FetchSubjects(p) PROVE FreshInv'
  BY <1>0, <1>4, FetchedSubjects
<1>5. ASSUME NEW p \in Loaders, Abandon(p) \/ Load(p) PROVE FreshInv'
  <2>1. sync'[p].phase = "idle" /\ \A q \in Loaders : q # p => sync'[q] = sync[q]
    BY <1>5 DEF Abandon, Load, Idle, TypeOK
  <2>2. clock' = clock
    BY <1>5 DEF Abandon, Load
  <2>3. ASSUME NEW e \in Edges PROVE edge'[e].at \in {0, edge[e].at} \/ (Load(p) /\ edge'[e].at = sync[p].at)
    <3>1. CASE Abandon(p)
      BY <3>1 DEF Abandon, graph
    <3>2. CASE Load(p)
      <4> DEFINE merged == Merged(sync[p])
      <4>1. edge' = Pruned(sync[p], merged) /\ merged \in [Edges -> Marks]
        BY <3>2, MergedTyped DEF Load
      <4>2. merged[e].at \in {edge[e].at, sync[p].at}
        BY DEF Merged
      <4>3. Missing.at = 0 /\ [merged[e] EXCEPT !.pending = TRUE].at = merged[e].at
        BY <4>1 DEF Missing, Marks
      <4> HIDE DEF merged
      <4> QED BY <3>2, <4>1, <4>2, <4>3 DEF Pruned
    <3> QED BY <1>5, <3>1, <3>2
  <2>4. Load(p) => sync[p].phase # "idle"
    BY DEF Load
  <2> QED BY <1>0, <2>1, <2>2, <2>3, <2>4
<1> QED BY <1>1, <1>2, <1>3, <1>4, <1>5 DEF Next

\* A complete load settles its case, and no other load unsettles it.
LEMMA SettledKept == TypeOK /\ ExactInv /\ FreshInv /\ SettledInv /\ [Next]_vars => SettledInv'
<1> SUFFICES ASSUME TypeOK, ExactInv, FreshInv, SettledInv, [Next]_vars, NEW c \in Cases PROVE Settled(c)'
  BY DEF SettledInv
<1>0. clean[c] \in 0..2 /\ Settled(c)
  BY DEF TypeOK, SettledInv
<1>1. CASE UNCHANGED <<source, edge, linked, clean>>
  BY <1>0, <1>1 DEF Settled, Covers, Reports, Here, Alleged, Roster
<1>2. CASE clean'[c] = 0
  BY <1>2 DEF Settled
<1>3. ASSUME NEW p \in Loaders, Load(p), clean'[c] # 0 PROVE Settled(c)'
  <2> DEFINE k == sync[p].case
  <2>1. /\ clean' = [clean EXCEPT ![k] = IF @ = 2 THEN 2 ELSE @ + 1]
        /\ Exact(sync[p]) /\ source' = source
        /\ linked' = [linked EXCEPT ![k] = LinkedTypes(sync[p])]
    BY <1>3 DEF Load, Exact
  <2>2. Complete(sync[p])
    BY <2>1 DEF ExactInv
  <2>3. \A x : Alleged(x)' = Alleged(x) /\ Roster(x)' = Roster(x)
    BY <2>1 DEF Alleged, Roster
  <2>4. clean \in [Cases -> 0..2] /\ linked \in [Cases -> SUBSET Types]
    BY DEF TypeOK
  <2>5. linked'[c] = {TypeOf[a] : a \in Alleged(c)}
    <3>1. CASE c = k
      BY <2>1, <2>2, <2>4, <3>1 DEF LinkedTypes, Complete
    <3>2. CASE c # k
      BY <1>0, <1>3, <2>1, <2>4, <3>2 DEF Settled
    <3> QED BY <3>1, <3>2
  <2>6. \/ c = k /\ ((clean[c] = 0 /\ clean'[c] = 1) \/ (clean[c] >= 1 /\ clean'[c] = 2))
        \/ c # k /\ clean'[c] = clean[c] /\ clean[c] >= 1
    <3>1. CASE c = k
      BY <1>0, <2>1, <2>4, <3>1
    <3>2. CASE c # k
      BY <1>0, <1>3, <2>1, <2>4, <3>2
    <3> QED BY <3>1, <3>2
  <2>7. ASSUME NEW e \in Edges
        PROVE  /\ (Covers(c, e) /\ Reports(c, e))' => Here(e)' /\ ~edge'[e].pending
               /\ e \in Pairs /\ Reports(c, e)' => e.from \subseteq Roster(edge'[e].case)
               /\ Covers(c, e)' /\ ~Reports(c, e)' /\ e.rel # "merged" =>
                     ~Here(e)' \/ (clean'[c] = 1 /\ edge'[e].pending)
    <3>0. clean[c] >= 1 =>
              /\ Covers(c, e) /\ Reports(c, e) => Here(e) /\ ~edge[e].pending
              /\ e \in Pairs /\ Reports(c, e) => e.from \subseteq Roster(edge[e].case)
              /\ Covers(c, e) /\ ~Reports(c, e) /\ e.rel # "merged" => ~Here(e) \/ (clean[c] = 1 /\ edge[e].pending)
      BY <1>0 DEF Settled
    <3>1. Reports(c, e)' <=> Reports(c, e)
      BY <2>1, <2>3 DEF Reports
    <3>2. e \in Pairs => e.rel = "co_subject"
      BY PairsApart
    <3>3. e \in Records => e \notin Pairs /\ (Covers(c, e)' <=> Covers(c, e))
      BY <2>3, PairsApart DEF Covers
    <3>4. e \in Pairs => /\ Covers(c, e) <=> e.from \subseteq Roster(c) \/ edge[e].case = c
                         /\ Covers(c, e)' <=> e.from \subseteq Roster(c) \/ edge'[e].case = c
                         /\ \A x : Reports(x, e) <=> e.from \subseteq Roster(x)
      BY <2>3, <3>2 DEF Covers, Reports
    <3>5. CASE Covers(k, e) /\ Reports(k, e)
      <4>1. Here(e)' /\ edge'[e].pending = FALSE /\ edge'[e].case = k
        BY <1>3, <2>2, <3>5, ExactLoads
      <4>2. CASE e \in Pairs
        BY <3>1, <3>4, <3>5, <4>1, <4>2
      <4>3. CASE e \in Records
        BY <3>1, <3>3, <3>5, <4>1, <4>3 DEF Reports
      <4> QED BY <4>2, <4>3, EdgesAre
    <3>6. CASE ~(Covers(k, e) /\ Reports(k, e))
      <4>1. \/ edge'[e] = edge[e] /\ ~(Here(e) /\ e.rel # "merged" /\ Covers(k, e))
            \/ /\ e.rel # "merged" /\ Covers(k, e) /\ Here(e)
               /\ \/ edge[e].pending /\ ~Here(e)'
                  \/ ~edge[e].pending /\ edge'[e].pending = TRUE /\ edge'[e].case = edge[e].case
        BY <1>3, <2>2, <3>6, ExactLoads
      <4>2. CASE e \in Records
        <5>1. e \notin Pairs /\ (Covers(c, e)' <=> Covers(c, e)) /\ \A x : Reports(x, e) <=> e \in source
          BY <3>3, <4>2 DEF Reports
        <5>2. CASE e \in source
          <6>1. ~Covers(k, e) /\ edge'[e] = edge[e]
            BY <3>6, <4>1, <5>1, <5>2
          <6> QED BY <2>6, <3>0, <3>1, <5>1, <5>2, <6>1 DEF Here
        <5>3. CASE e \notin source
          <6> SUFFICES ASSUME Covers(c, e), e.rel # "merged" PROVE ~Here(e)' \/ (clean'[c] = 1 /\ edge'[e].pending)
            BY <3>1, <5>1, <5>3
          <6>1. CASE edge'[e] = edge[e] /\ ~(Here(e) /\ e.rel # "merged" /\ Covers(k, e))
            BY <2>6, <3>0, <5>1, <5>3, <6>1 DEF Here
          <6>2. CASE edge[e].pending /\ ~Here(e)'
            BY <6>2
          <6>3. CASE Here(e) /\ ~edge[e].pending /\ edge'[e].pending = TRUE
            BY <2>6, <3>0, <5>1, <5>3, <6>3
          <6> QED BY <4>1, <6>1, <6>2, <6>3
        <5> QED BY <5>2, <5>3
      <4>3. CASE e \in Pairs
        <5>0. ~(e.from \subseteq Roster(k)) /\ (Covers(k, e) <=> edge[e].case = k)
          <6>1. Covers(k, e) <=> e.from \subseteq Roster(k) \/ edge[e].case = k
            BY <3>2, <4>3 DEF Covers
          <6> QED BY <3>4, <3>6, <4>3, <6>1
        <5>1. CASE e.from \subseteq Roster(c)
          <6>1. c # k /\ clean[c] >= 1 /\ edge[e].case # k
            BY <2>6, <3>0, <3>4, <4>3, <5>0, <5>1
          <6>2. edge'[e] = edge[e]
            BY <4>1, <5>0, <6>1
          <6> QED BY <3>0, <3>1, <3>4, <4>3, <5>1, <6>1, <6>2 DEF Here
        <5>2. CASE ~(e.from \subseteq Roster(c))
          <6> SUFFICES ASSUME Covers(c, e)', e.rel # "merged" PROVE ~Here(e)' \/ (clean'[c] = 1 /\ edge'[e].pending)
            BY <3>1, <3>4, <4>3, <5>2
          <6>0. edge'[e].case = c /\ ~Reports(c, e)
            BY <3>4, <4>3, <5>2
          <6>1. CASE edge'[e] = edge[e] /\ ~(Here(e) /\ e.rel # "merged" /\ Covers(k, e))
            BY <2>6, <3>0, <3>4, <4>3, <5>0, <6>0, <6>1 DEF Here
          <6>2. CASE edge[e].pending /\ ~Here(e)'
            BY <6>2
          <6>3. CASE Here(e) /\ ~edge[e].pending /\ edge'[e].pending = TRUE /\ edge'[e].case = edge[e].case
            BY <2>6, <3>0, <3>4, <4>3, <6>0, <6>3
          <6> QED BY <4>1, <6>1, <6>2, <6>3
        <5> QED BY <5>1, <5>2
      <4> QED BY <4>2, <4>3, EdgesAre
    <3> QED BY <3>5, <3>6
  <2> QED BY <2>3, <2>5, <2>7 DEF Settled
<1>4. \/ UNCHANGED <<source, edge, linked, clean>> \/ clean'[c] = 0
      \/ \E p \in Loaders : Load(p)
  <2>1. CASE Edit
    BY <2>1 DEF Edit
  <2>2. ASSUME NEW p \in Loaders, NEW x \in Cases, FetchCase(p, x) PROVE UNCHANGED <<source, edge, linked, clean>>
    BY <2>2 DEF FetchCase, graph
  <2>3. ASSUME NEW p \in Loaders, FetchSubjects(p) \/ Abandon(p) PROVE UNCHANGED <<source, edge, linked, clean>>
    BY <2>3 DEF FetchSubjects, Abandon, graph
  <2>4. CASE UNCHANGED vars
    BY <2>4 DEF vars
  <2> QED BY <2>1, <2>2, <2>3, <2>4 DEF Next
<1> QED BY <1>1, <1>2, <1>3, <1>4

\* Once two loads of a case have lost nothing since AppWorks last changed, the graph says of the
\* case what AppWorks says, whatever loads of other cases came between; after one, everything
\* reported is there and nothing of it is flagged.
THEOREM TwoLoadsSettle == Spec => []SettlesInTwo
<1>1. Init => ExactInv /\ FreshInv /\ SettledInv
  <2>1. Idle.phase = "idle" /\ Idle.edits = 0 /\ Missing.at = 0
    BY DEF Idle, Missing
  <2> QED BY <2>1 DEF Init, ExactInv, Exact, FreshInv, SettledInv, Settled
<1>2. TypeOK /\ SettledInv => SettlesInTwo
  <2> SUFFICES ASSUME TypeOK, SettledInv PROVE SettlesInTwo
    OBVIOUS
  <2>1. \A c \in Cases : clean[c] \in 0..2 /\ Settled(c)
    BY DEF TypeOK, SettledInv
  <2> QED BY <2>1 DEF SettlesInTwo, Settled
<1> QED BY <1>1, <1>2, SyncTyped, ExactKept, FreshKept, SettledKept, PTL DEF Spec
=============================================================================
