---------------------------- MODULE ReportsProofs ----------------------------
(***************************************************************************)
(* What is proved of the reports: types, and that every report shows the   *)
(* case as it stood at some moment of its own request.                     *)
(***************************************************************************)
EXTENDS Reports, TLAPS

\* A listing of no connections is one.
LEMMA ListingsAre ==
    /\ NoConnections \in Listings
    /\ \A g \in Listings : DOMAIN g \subseteq Facts /\ \A f \in DOMAIN g : g[f] \in Entries
    /\ \A D \in SUBSET Facts : [D -> Entries] \subseteq Listings
<1>1. NoConnections \in [{} -> Entries] /\ {} \in SUBSET Facts
  BY DEF NoConnections, Entries
<1> QED BY ZenonT(30), <1>1 DEF Listings

\* Of an entry, its rejection says whether it is active.
LEMMA EntriesAre ==
    \A x \in Entries :
        /\ x.rejection = None => x = Active /\ x.status = "active"
        /\ x.rejection # None => \E t \in Times : x = Rejected(t) /\ x.status = "rejected"
BY Bounds DEF Entries, Active, Rejected, Times, None

\* What is dumped has the listing's connections.
LEMMA DumpedIs ==
    ASSUME NEW g \in Listings
    PROVE  /\ DOMAIN Dumped(g) = DOMAIN g
           /\ Dumped(g) \in UNION {[listed -> DumpedEntries] : listed \in SUBSET Facts}
<1>1. DOMAIN Dumped(g) = DOMAIN g
  BY DEF Dumped
<1>2. ASSUME NEW f \in DOMAIN g PROVE Dumped(g)[f] \in DumpedEntries
  <2>1. g[f] \in Entries
    BY ListingsAre
  <2>2. CASE g[f].rejection = None
    BY <2>1, <2>2, EntriesAre DEF Dumped, DumpedEntries
  <2>3. CASE g[f].rejection # None
    <3>1. PICK t \in Times : g[f] = Rejected(t)
      BY <2>1, <2>3, EntriesAre
    <3> QED BY <2>3, <3>1 DEF Dumped, DumpedEntries
  <2> QED BY <2>2, <2>3
<1>3. Dumped(g) \in [DOMAIN g -> DumpedEntries]
  BY <1>2 DEF Dumped
<1>4. DOMAIN g \in SUBSET Facts
  BY ListingsAre
<1> QED BY <1>1, <1>3, <1>4

\* A draft that shows the connections read now was written from them: were one of them active,
\* its dump would have lost a key.
LEMMA UnchangedIs ==
    ASSUME NEW g \in Listings, NEW h \in Listings, g = Dumped(h)
    PROVE  g = h
<1>1. DOMAIN g = DOMAIN h
  BY DumpedIs
<1>2. ASSUME NEW f \in DOMAIN h PROVE g[f] = h[f]
  <2>1. g[f] \in Entries /\ h[f] \in Entries
    BY <1>1, ListingsAre
  <2>2. CASE h[f].rejection # None
    BY <2>2 DEF Dumped
  <2>3. CASE h[f].rejection = None
    <3>1. g[f] = [status |-> h[f].status]
      BY <2>3 DEF Dumped
    <3>2. DOMAIN g[f] = {"status"}
      BY <3>1
    <3>3. \A x \in Entries : "rejection" \in DOMAIN x
      BY DEF Entries, Active, Rejected
    <3> QED BY <2>1, <3>2, <3>3
  <2> QED BY <2>2, <2>3
<1>3. g = [f \in DOMAIN g |-> g[f]] /\ h = [f \in DOMAIN h |-> h[f]]
  <2>1. \A x \in Listings : x = [f \in DOMAIN x |-> x[f]]
    BY DEF Listings
  <2> QED BY <2>1
<1> QED BY <1>1, <1>2, <1>3
---------------------------------------------------------------------------
\* What a listing's connections, or the edit of the plan, were at some moment since the request
\* came; nothing, if the store was away.
GraphShown(r, prose, gs) ==
    IF "graph" \in r.missed THEN prose = NoConnections
    ELSE \E i \in r.since[1]..Len(gs) : prose = gs[i]
PlanShown(r, edit, ps) ==
    IF "plan" \in r.missed THEN edit = None
    ELSE \E i \in r.since[2]..Len(ps) : edit = ps[i]

\* What holds of a thread, by where it stands.
Timely(r, gs, ps) ==
    /\ r.phase \in {"idle", "related"} => r.missed = {}
    /\ r.phase = "plan" => r.missed \subseteq {"graph"}
    /\ r.phase \notin {"idle", "failed"} => r.since[1] \in 1..Len(gs) /\ r.since[2] \in 1..Len(ps)
    /\ r.phase \in {"plan", "lookup", "compare", "prompt", "agent"} => GraphShown(r, r.related, gs)
    /\ r.phase \in {"lookup", "compare", "prompt", "agent"} => PlanShown(r, r.edit, ps)
    /\ r.phase \in {"render", "done"} =>
          /\ r.answer \in Answers
          /\ GraphShown(r, r.answer.prose, gs) /\ PlanShown(r, r.answer.log.edit, ps)
          /\ r.answer.log.rejected = Refused(r.answer.prose)

\* A draft shows what it was written from.
Kept(d) == d.related = Dumped(d.prose)

Fine(r, gs, ps) == r \in Threads /\ Kept(r.draft) /\ Timely(r, gs, ps)
ClockInv == clock + left <= MaxEvents + 1
DraftsInv == \A i \in 1..Len(drafts) : Kept(drafts[i])
ThreadsInv == \A q \in Requests : Fine(request[q], graphs, plans)
Inv == TypeOK /\ ClockInv /\ DraftsInv /\ ThreadsInv

\* No draft is a draft of no connections.
LEMMA NoDraftIs == NoDraft \in Drafts /\ Kept(NoDraft)
<1>1. DOMAIN NoConnections = {}
  BY DEF NoConnections
<1>2. Dumped(NoConnections) = NoConnections
  BY <1>1 DEF Dumped, NoConnections
<1> QED BY <1>2, ListingsAre, DumpedIs DEF NoDraft, Drafts, Kept

\* The connections a listing rejects are among the facts, and its dump rejects the same.
LEMMA RefusedAre ==
    ASSUME NEW g \in Listings
    PROVE  Refused(g) \subseteq Facts
BY ListingsAre DEF Refused

\* A sequence that is kept or appended to keeps what it had.
LEMMA Longer ==
    ASSUME NEW S, NEW s \in Seq(S), NEW t \in Seq(S), t = s \/ \E x \in S : t = Append(s, x)
    PROVE  /\ Len(s) <= Len(t) /\ Len(t) \in Nat /\ Len(s) \in Nat
           /\ \A i \in 1..Len(s) : i \in 1..Len(t) /\ t[i] = s[i]
<1>1. CASE t = s
  BY <1>1
<1>2. ASSUME NEW x \in S, t = Append(s, x)
      PROVE  Len(t) = Len(s) + 1 /\ \A i \in 1..Len(s) : t[i] = s[i]
  BY <1>2
<1>3. Len(s) \in Nat
  OBVIOUS
<1> QED BY <1>1, <1>2, <1>3

\* What was so at some moment remains so as more happens.
LEMMA TimePasses ==
    ASSUME NEW r, NEW gs \in Seq(Listings), NEW ps \in Seq(Nat), r \in Threads,
           NEW more \in Seq(Listings), NEW edits \in Seq(Nat),
           more = gs \/ (\E g \in Listings : more = Append(gs, g)),
           edits = ps \/ (\E p \in Nat : edits = Append(ps, p)),
           Fine(r, gs, ps)
    PROVE  Fine(r, more, edits)
<1>1. /\ Len(gs) <= Len(more) /\ Len(more) \in Nat /\ Len(gs) \in Nat
      /\ \A i \in 1..Len(gs) : i \in 1..Len(more) /\ more[i] = gs[i]
  BY Longer
<1>2. /\ Len(ps) <= Len(edits) /\ Len(edits) \in Nat /\ Len(ps) \in Nat
      /\ \A i \in 1..Len(ps) : i \in 1..Len(edits) /\ edits[i] = ps[i]
  BY Longer
<1>3. r.since[1] \in Nat /\ r.since[2] \in Nat
  BY DEF Threads
<1>4. ASSUME NEW prose, GraphShown(r, prose, gs), r.since[1] \in 1..Len(gs)
      PROVE  GraphShown(r, prose, more)
  <2>1. CASE "graph" \in r.missed
    BY <1>4, <2>1 DEF GraphShown
  <2>2. CASE "graph" \notin r.missed
    <3>1. PICK i \in r.since[1]..Len(gs) : prose = gs[i]
      BY <1>4, <2>2 DEF GraphShown
    <3>2. i \in 1..Len(gs) /\ i \in r.since[1]..Len(more)
      BY <1>1, <1>3, <1>4, <3>1
    <3>3. prose = more[i]
      BY <1>1, <3>1, <3>2
    <3> QED BY <2>2, <3>2, <3>3 DEF GraphShown
  <2> QED BY <2>1, <2>2
<1>5. ASSUME NEW edit, PlanShown(r, edit, ps), r.since[2] \in 1..Len(ps)
      PROVE  PlanShown(r, edit, edits)
  <2>1. CASE "plan" \in r.missed
    BY <1>5, <2>1 DEF PlanShown
  <2>2. CASE "plan" \notin r.missed
    <3>1. PICK i \in r.since[2]..Len(ps) : edit = ps[i]
      BY <1>5, <2>2 DEF PlanShown
    <3>2. i \in 1..Len(ps) /\ i \in r.since[2]..Len(edits)
      BY <1>2, <1>3, <1>5, <3>1
    <3>3. edit = edits[i]
      BY <1>2, <3>1, <3>2
    <3> QED BY <2>2, <3>2, <3>3 DEF PlanShown
  <2> QED BY <2>1, <2>2
<1>6. Timely(r, gs, ps)
  BY DEF Fine
<1>7. r.phase \notin {"idle", "failed"} =>
         r.since[1] \in 1..Len(more) /\ r.since[2] \in 1..Len(edits)
  BY <1>1, <1>2, <1>3, <1>6 DEF Timely
<1>8. Timely(r, more, edits)
  BY <1>4, <1>5, <1>6, <1>7 DEF Timely
<1> QED BY <1>8 DEF Fine
---------------------------------------------------------------------------
\* What happens is paid for.
LEMMA HappensIs ==
    ASSUME left \in 0..MaxEvents, NEW n \in Nat, Happens(n)
    PROVE  left' \in 0..MaxEvents /\ left' <= left
BY Bounds DEF Happens

\* One thing happens or none.
LEMMA CountIs == ASSUME NEW b \in BOOLEAN PROVE Count(b) \in {0, 1}
BY DEF Count

\* A thread that moves on, and is as it should be, leaves the others as they should be: what
\* they have read is still what the case has been.
LEMMA ThreadMoves ==
    ASSUME Inv, NEW q \in Requests,
           request' = [request EXCEPT ![q] = request'[q]], Fine(request'[q], graphs, plans),
           graphs' \in Seq(Listings), graphs' = graphs \/ \E g \in Listings : graphs' = Append(graphs, g),
           plans' \in Seq(Nat), plans' = plans \/ \E p \in Nat : plans' = Append(plans, p)
    PROVE  ThreadsInv' /\ request' \in [Requests -> Threads]
<1>1. ASSUME NEW o \in Requests PROVE Fine(request'[o], graphs, plans)
  BY DEF Inv, TypeOK, ThreadsInv
<1>2. ASSUME NEW o \in Requests PROVE Fine(request'[o], graphs', plans')
  <2>1. Fine(request'[o], graphs, plans) /\ request'[o] \in Threads
    BY <1>1 DEF Fine
  <2>2. graphs \in Seq(Listings) /\ plans \in Seq(Nat)
    BY DEF Inv, TypeOK
  <2> QED BY <2>1, <2>2, TimePasses
<1>3. request' \in [Requests -> Threads]
  BY <1>1 DEF Fine, Inv, TypeOK
<1> QED BY <1>2, <1>3 DEF ThreadsInv

\* A step of a thread's own that writes nothing else.
LEMMA OnlyThreadMoves ==
    ASSUME Inv, NEW q \in Requests, NEW b \in BOOLEAN, Happens(Count(b)),
           request' = [request EXCEPT ![q] = request'[q]], Fine(request'[q], graphs, plans),
           UNCHANGED <<world, drafts>>
    PROVE  Inv'
<1>1. UNCHANGED <<graphs, plans, verdict, lastChange, clock, drafts>>
  BY DEF world
<1>2. left' \in 0..MaxEvents /\ left' <= left
  BY CountIs, HappensIs DEF Inv, TypeOK
<1>3. ThreadsInv' /\ request' \in [Requests -> Threads]
  BY <1>1, ThreadMoves DEF Inv, TypeOK
<1>4. TypeOK'
  BY <1>1, <1>2, <1>3 DEF Inv, TypeOK
<1>5. ClockInv'
  BY <1>1, <1>2, Bounds DEF Inv, TypeOK, ClockInv, Times
<1>6. DraftsInv'
  BY <1>1 DEF Inv, DraftsInv
<1> QED BY <1>3, <1>4, <1>5, <1>6 DEF Inv

\* A thread that has failed has nothing to show.
LEMMA FailedIsFine ==
    ASSUME NEW r \in Threads, NEW gs, NEW ps
    PROVE  Fine(Failed(r), gs, ps)
<1> DEFINE t == Failed(r)
<1>1. /\ t.phase = "failed" /\ t.draft = NoDraft /\ t.missed = {}
      /\ t \in Threads
  BY NoDraftIs, ListingsAre DEF Failed, Ended, Threads, Phases, Unanswered, None
<1>2. Timely(t, gs, ps)
  BY <1>1 DEF Timely
<1> HIDE DEF t
<1>3. Fine(t, gs, ps)
  BY <1>1, <1>2, NoDraftIs DEF Fine
<1> QED BY <1>3 DEF t

\* The live graph and the live edit are what the case has been last.
LEMMA LiveAre ==
    ASSUME Inv
    PROVE  /\ Graph \in Listings /\ Plan \in Nat
           /\ Len(graphs) \in Nat /\ Len(graphs) >= 1 /\ Len(plans) \in Nat /\ Len(plans) >= 1
BY DEF Inv, TypeOK, Graph, Plan

\* A request that has come.
LEMMA AskKeeps ==
    ASSUME Inv, NEW q \in Requests, NEW call \in Calls, NEW resolved \in BOOLEAN,
           Ask(q, call, resolved)
    PROVE  Inv'
<1> DEFINE came == [request[q] EXCEPT !.route = call[1], !.reload = call[2],
                                      !.since = <<Len(graphs), Len(plans)>>]
           t == [came EXCEPT !.phase = "related"]
<1>1. Fine(request[q], graphs, plans) /\ request[q] \in Threads /\ request[q].phase = "idle"
  BY DEF Inv, ThreadsInv, Fine, Ask, At
<1>2. call[1] \in {"json", "pdf"} /\ call[2] \in BOOLEAN
  BY Bounds
<1>3. came \in Threads
  BY <1>1, <1>2, LiveAre DEF Threads
<1>4. t \in Threads /\ t.phase = "related" /\ t.missed = request[q].missed
      /\ t.draft = request[q].draft /\ t.since = <<Len(graphs), Len(plans)>>
  BY <1>1, <1>2, LiveAre DEF Threads, Phases
<1>5. Fine(t, graphs, plans)
  <2> HIDE DEF t
  <2>1. t.since[1] \in 1..Len(graphs) /\ t.since[2] \in 1..Len(plans)
    BY <1>4, LiveAre
  <2>2. t.missed = {}
    BY <1>1, <1>4 DEF Fine, Timely
  <2> QED BY <1>1, <1>4, <2>1, <2>2 DEF Fine, Timely
<1>6. Fine(Failed(came), graphs, plans)
  <2> HIDE DEF came
  <2> QED BY <1>3, FailedIsFine
<1>7. request' = [request EXCEPT ![q] = IF resolved THEN t ELSE Failed(came)]
  BY DEF Ask, Becomes
<1> HIDE DEF t, came
<1>8. request'[q] = (IF resolved THEN t ELSE Failed(came))
  BY <1>7 DEF Inv, TypeOK
<1>9. (~resolved) \in BOOLEAN /\ Happens(Count(~resolved)) /\ UNCHANGED <<world, drafts>>
  BY DEF Ask
<1> QED BY <1>5, <1>6, <1>7, <1>8, <1>9, OnlyThreadMoves

\* A request that has read its connections: the live ones, or none of an absent graph.
LEMMA ReadRelatedKeeps ==
    ASSUME Inv, NEW q \in Requests, NEW away \in BOOLEAN, ReadRelated(q, away)
    PROVE  Inv'
<1> DEFINE r == request[q]
           t == [r EXCEPT !.phase = "plan", !.related = IF away THEN NoConnections ELSE Graph,
                          !.missed = IF away THEN @ \cup {"graph"} ELSE @]
<1>1. Fine(r, graphs, plans) /\ r \in Threads /\ r.phase = "related"
  BY DEF Inv, ThreadsInv, Fine, ReadRelated, At
<1>2. t \in Threads
  BY <1>1, LiveAre, ListingsAre DEF Threads, Phases
<1>3. /\ t.phase = "plan" /\ t.since = r.since /\ t.draft = r.draft
      /\ t.related = (IF away THEN NoConnections ELSE Graph)
      /\ t.missed = (IF away THEN r.missed \cup {"graph"} ELSE r.missed)
  BY <1>1 DEF Threads
<1>4. request' = [request EXCEPT ![q] = t]
  BY DEF ReadRelated, Becomes
<1> HIDE DEF t
<1>5. r.missed = {} /\ t.since[1] \in 1..Len(graphs) /\ t.since[2] \in 1..Len(plans)
  BY <1>1, <1>3 DEF Fine, Timely
<1>6. GraphShown(t, t.related, graphs)
  <2>1. Len(graphs) \in t.since[1]..Len(graphs)
    BY <1>5, LiveAre
  <2> QED BY <1>3, <1>5, <2>1 DEF GraphShown, Graph
<1>7. Fine(t, graphs, plans)
  BY <1>1, <1>2, <1>3, <1>5, <1>6 DEF Fine, Timely
<1>8. request'[q] = t /\ Happens(Count(away)) /\ UNCHANGED <<world, drafts>>
  BY <1>4 DEF Inv, TypeOK, ReadRelated
<1> QED BY <1>4, <1>7, <1>8, OnlyThreadMoves

\* And the edit of the plan: the live one, or none when it cannot be read.
LEMMA ReadPlanKeeps ==
    ASSUME Inv, NEW q \in Requests, NEW away \in BOOLEAN, ReadPlan(q, away)
    PROVE  Inv'
<1> DEFINE r == request[q]
           t == [r EXCEPT !.phase = "lookup", !.edit = IF away THEN None ELSE Plan,
                          !.missed = IF away THEN @ \cup {"plan"} ELSE @]
<1>1. Fine(r, graphs, plans) /\ r \in Threads /\ r.phase = "plan"
  BY DEF Inv, ThreadsInv, Fine, ReadPlan, At
<1>2. t \in Threads
  BY <1>1, LiveAre DEF Threads, Phases, None
<1>3. /\ t.phase = "lookup" /\ t.since = r.since /\ t.draft = r.draft /\ t.related = r.related
      /\ t.edit = (IF away THEN None ELSE Plan)
      /\ t.missed = (IF away THEN r.missed \cup {"plan"} ELSE r.missed)
  BY <1>1 DEF Threads
<1>4. request' = [request EXCEPT ![q] = t]
  BY DEF ReadPlan, Becomes
<1> HIDE DEF t
<1>5. r.missed \subseteq {"graph"} /\ t.since[1] \in 1..Len(graphs) /\ t.since[2] \in 1..Len(plans)
  BY <1>1, <1>3 DEF Fine, Timely
<1>6. GraphShown(t, t.related, graphs)
  BY <1>1, <1>3 DEF Fine, Timely, GraphShown
<1>7. PlanShown(t, t.edit, plans)
  <2>1. Len(plans) \in t.since[2]..Len(plans)
    BY <1>5, LiveAre
  <2> QED BY <1>3, <1>5, <2>1 DEF PlanShown, Plan
<1>8. Fine(t, graphs, plans)
  BY <1>1, <1>2, <1>3, <1>5, <1>6, <1>7 DEF Fine, Timely
<1>9. request'[q] = t /\ Happens(Count(away)) /\ UNCHANGED <<world, drafts>>
  BY <1>4 DEF Inv, TypeOK, ReadPlan
<1> QED BY <1>4, <1>8, <1>9, OnlyThreadMoves

\* A thread that moves on with what it has read, whatever it does with the draft.
LEMMA CarriesOn ==
    ASSUME NEW gs, NEW ps, NEW r, NEW t \in Threads, Fine(r, gs, ps),
           r.phase \in {"lookup", "compare", "prompt"},
           t.phase \in {"lookup", "compare", "prompt", "agent"}, t.since = r.since,
           t.missed = r.missed, t.related = r.related, t.edit = r.edit, Kept(t.draft)
    PROVE  Fine(t, gs, ps)
BY DEF Fine, Timely, GraphShown, PlanShown

\* The latest draft is a draft.
LEMMA LatestIs ==
    ASSUME Inv, NEW away \in BOOLEAN
    PROVE  Latest(away) \in Drafts /\ Kept(Latest(away))
<1>1. CASE away \/ drafts = <<>>
  BY <1>1, NoDraftIs DEF Latest
<1>2. CASE ~away /\ drafts # <<>>
  <2>1. Len(drafts) \in 1..Len(drafts) /\ drafts[Len(drafts)] \in Drafts
    BY <1>2 DEF Inv, TypeOK
  <2> QED BY <1>2, <2>1 DEF Latest, Inv, DraftsInv
<1> QED BY <1>1, <1>2

\* A look at the latest draft.
LEMMA LookUpKeeps ==
    ASSUME Inv, NEW q \in Requests, NEW away \in BOOLEAN, LookUp(q, away)
    PROVE  Inv'
<1> DEFINE r == request[q]
           next == IF Latest(away) = NoDraft THEN "prompt" ELSE "compare"
           found == [r EXCEPT !.draft = Latest(away)]
           t == [found EXCEPT !.phase = next]
<1>1. Fine(r, graphs, plans) /\ r \in Threads /\ r.phase = "lookup"
  BY DEF Inv, ThreadsInv, Fine, LookUp, At
<1>2. next \in {"prompt", "compare"}
  OBVIOUS
<1>3. request' = [request EXCEPT ![q] = t]
  BY DEF LookUp, Becomes
<1> HIDE DEF next
<1>4. t \in Threads
  BY <1>1, <1>2, LatestIs DEF Threads, Phases
<1>5. /\ t.phase = next /\ t.since = r.since /\ t.missed = r.missed /\ t.related = r.related
      /\ t.edit = r.edit /\ t.draft = Latest(away)
  BY <1>1 DEF Threads
<1> HIDE DEF t
<1>6. Fine(t, graphs, plans)
  BY <1>1, <1>2, <1>4, <1>5, LatestIs, CarriesOn
<1>7. request'[q] = t /\ Happens(Count(away)) /\ UNCHANGED <<world, drafts>>
  BY <1>3 DEF Inv, TypeOK, LookUp
<1> QED BY <1>3, <1>6, <1>7, OnlyThreadMoves

\* An answer out of a draft that shows the connections just read was written from them.
LEMMA FromDraftIs ==
    ASSUME NEW r \in Threads, NEW gs, NEW ps, Fine(r, gs, ps), Unchanged(r),
           GraphShown(r, r.related, gs), PlanShown(r, r.edit, ps)
    PROVE  /\ FromDraft(r) \in Answers
           /\ GraphShown(r, FromDraft(r).prose, gs) /\ PlanShown(r, FromDraft(r).log.edit, ps)
           /\ FromDraft(r).log.rejected = Refused(FromDraft(r).prose)
<1>1. r.related \in Listings /\ r.draft.prose \in Listings /\ r.edit \in Nat /\ r.stale \in BOOLEAN
  BY DEF Threads, Drafts
<1>2. r.related = Dumped(r.draft.prose) /\ r.related = r.draft.related
  BY DEF Unchanged, Fine, Kept
<1>3. r.related = r.draft.prose
  BY <1>1, <1>2, UnchangedIs
<1>4. Refused(r.related) \subseteq Facts
  BY <1>1, RefusedAre
<1>5. /\ FromDraft(r).prose = r.related /\ FromDraft(r).log.edit = r.edit
      /\ FromDraft(r).log.rejected = Refused(r.related)
  BY <1>2, <1>3 DEF FromDraft, DecisionLog
<1>6. FromDraft(r) \in Answers
  BY <1>1, <1>2, <1>4 DEF FromDraft, DecisionLog, Answers, Logs
<1> QED BY <1>5, <1>6

\* What a thread shows, measured by what it asked.
Shows(r, answer, gs, ps) ==
    /\ GraphShown(r, answer.prose, gs) /\ PlanShown(r, answer.log.edit, ps)
    /\ answer.log.rejected = Refused(answer.prose)

\* A thread that ends with such an answer.
LEMMA EndedIsFine ==
    ASSUME NEW r \in Threads, NEW gs, NEW ps, NEW answer \in Answers, Fine(r, gs, ps),
           r.phase \notin {"idle", "failed"}, Shows(r, answer, gs, ps)
    PROVE  Fine(Ended(r, "done", answer), gs, ps)
<1> DEFINE t == Ended(r, "done", answer)
<1>1. t \in Threads
  BY NoDraftIs, ListingsAre DEF Ended, Threads, Phases, None
<1>2. /\ t.phase = "done" /\ t.answer = answer /\ t.since = r.since /\ t.missed = r.missed
      /\ t.draft = NoDraft
  BY DEF Ended, Threads
<1> HIDE DEF t
<1>3. Fine(t, gs, ps)
  BY <1>1, <1>2, NoDraftIs DEF Fine, Timely, Shows, GraphShown, PlanShown
<1> QED BY <1>3 DEF t

\* One that goes on to render such an answer.
LEMMA RenderedIsFine ==
    ASSUME NEW r \in Threads, NEW gs, NEW ps, NEW answer \in Answers, Fine(r, gs, ps),
           r.phase \notin {"idle", "failed"}, Shows(r, answer, gs, ps)
    PROVE  Fine([r EXCEPT !.phase = "render", !.answer = answer], gs, ps)
<1> DEFINE t == [r EXCEPT !.phase = "render", !.answer = answer]
<1>1. t \in Threads
  BY DEF Threads, Phases
<1>2. /\ t.phase = "render" /\ t.answer = answer /\ t.since = r.since /\ t.missed = r.missed
      /\ t.draft = r.draft
  BY DEF Threads
<1> HIDE DEF t
<1>3. Fine(t, gs, ps)
  BY <1>1, <1>2 DEF Fine, Timely, Shows, GraphShown, PlanShown
<1> QED BY <1>3 DEF t

\* A draft compared: the answer comes from it, or the agent is asked.
LEMMA CompareKeeps ==
    ASSUME Inv, NEW q \in Requests, NEW away \in BOOLEAN, Compare(q, away)
    PROVE  Inv'
<1> DEFINE r == request[q]
           change == IF away THEN None ELSE lastChange
           told == [r EXCEPT !.stale = ~Unchanged(r) \/ GraphNewer(change, r.draft)]
           hit == Unchanged(r) /\ ~r.reload
           t == IF hit THEN Ended(told, "done", FromDraft(told))
                ELSE [told EXCEPT !.phase = "prompt", !.draft = NoDraft]
<1>1. Fine(r, graphs, plans) /\ r \in Threads /\ r.phase = "compare"
  BY DEF Inv, ThreadsInv, Fine, Compare, At
<1>2. (~Unchanged(r) \/ GraphNewer(change, r.draft)) \in BOOLEAN
  BY DEF Unchanged, GraphNewer
<1>3. told \in Threads
  BY <1>1, <1>2 DEF Threads
<1>4. /\ told.phase = "compare" /\ told.since = r.since /\ told.missed = r.missed
      /\ told.related = r.related /\ told.edit = r.edit /\ told.draft = r.draft
  BY <1>1 DEF Threads
<1>5. request' = [request EXCEPT ![q] = t]
  BY DEF Compare, Becomes
<1> HIDE DEF told, change
<1>6. Fine(told, graphs, plans)
  BY <1>1, <1>3, <1>4, CarriesOn DEF Fine
<1>7. ASSUME hit PROVE Fine(Ended(told, "done", FromDraft(told)), graphs, plans)
  <2>1. Unchanged(told)
    BY <1>4, <1>7 DEF Unchanged
  <2>2. GraphShown(told, told.related, graphs) /\ PlanShown(told, told.edit, plans)
    BY <1>4, <1>6 DEF Fine, Timely
  <2>3. FromDraft(told) \in Answers /\ Shows(told, FromDraft(told), graphs, plans)
    BY <1>3, <1>6, <2>1, <2>2, FromDraftIs DEF Shows
  <2> QED BY <1>3, <1>4, <1>6, <2>3, EndedIsFine
<1>8. Fine([told EXCEPT !.phase = "prompt", !.draft = NoDraft], graphs, plans)
  <2> DEFINE u == [told EXCEPT !.phase = "prompt", !.draft = NoDraft]
  <2>1. u \in Threads
    BY <1>3, NoDraftIs DEF Threads, Phases
  <2>2. /\ u.phase = "prompt" /\ u.since = told.since /\ u.missed = told.missed
        /\ u.related = told.related /\ u.edit = told.edit /\ u.draft = NoDraft
    BY <1>3 DEF Threads
  <2> HIDE DEF u
  <2>3. Fine(u, graphs, plans)
    BY <1>4, <1>6, <2>1, <2>2, NoDraftIs, CarriesOn
  <2> QED BY <2>3 DEF u
<1>9. Fine(t, graphs, plans)
  BY <1>7, <1>8
<1> HIDE DEF t
<1>10. request'[q] = t /\ Happens(Count(away)) /\ UNCHANGED <<world, drafts>>
  BY <1>5 DEF Inv, TypeOK, Compare
<1> QED BY <1>5, <1>9, <1>10, OnlyThreadMoves

\* The PDF route's look, without a flag.
LEMMA LookUpPdfKeeps ==
    ASSUME Inv, NEW q \in Requests, NEW away \in BOOLEAN, LookUpPdf(q, away)
    PROVE  Inv'
<1> DEFINE r == request[q]
           found == [r EXCEPT !.draft = Latest(away)]
           hit == ~r.reload /\ Unchanged(found)
           t == IF hit THEN [found EXCEPT !.phase = "render", !.answer = FromDraft(found)]
                ELSE [r EXCEPT !.phase = "prompt"]
<1>1. Fine(r, graphs, plans) /\ r \in Threads /\ r.phase = "lookup"
  BY DEF Inv, ThreadsInv, Fine, LookUpPdf, At
<1>2. found \in Threads
  BY <1>1, LatestIs DEF Threads
<1>3. /\ found.phase = "lookup" /\ found.since = r.since /\ found.missed = r.missed
      /\ found.related = r.related /\ found.edit = r.edit /\ found.draft = Latest(away)
  BY <1>1 DEF Threads
<1>4. request' = [request EXCEPT ![q] = t]
  BY DEF LookUpPdf, Becomes
<1> HIDE DEF found
<1>5. Fine(found, graphs, plans)
  BY <1>1, <1>2, <1>3, LatestIs, CarriesOn
<1>6. ASSUME hit
      PROVE  Fine([found EXCEPT !.phase = "render", !.answer = FromDraft(found)], graphs, plans)
  <2>1. GraphShown(found, found.related, graphs) /\ PlanShown(found, found.edit, plans)
    BY <1>3, <1>5 DEF Fine, Timely
  <2>2. FromDraft(found) \in Answers /\ Shows(found, FromDraft(found), graphs, plans)
    BY <1>2, <1>5, <1>6, <2>1, FromDraftIs DEF Shows
  <2> QED BY <1>2, <1>3, <1>5, <2>2, RenderedIsFine
<1>7. Fine([r EXCEPT !.phase = "prompt"], graphs, plans)
  <2> DEFINE u == [r EXCEPT !.phase = "prompt"]
  <2>1. u \in Threads
    BY <1>1 DEF Threads, Phases
  <2>2. /\ u.phase = "prompt" /\ u.since = r.since /\ u.missed = r.missed
        /\ u.related = r.related /\ u.edit = r.edit /\ u.draft = r.draft
    BY <1>1 DEF Threads
  <2> HIDE DEF u
  <2>3. Fine(u, graphs, plans)
    <3>1. Kept(u.draft)
      BY <1>1, <2>2 DEF Fine
    <3> QED BY <1>1, <2>1, <2>2, <3>1, CarriesOn
  <2> QED BY <2>3 DEF u
<1>8. Fine(t, graphs, plans)
  BY <1>6, <1>7
<1> HIDE DEF t
<1>9. request'[q] = t /\ Happens(Count(away)) /\ UNCHANGED <<world, drafts>>
  BY <1>4 DEF Inv, TypeOK, LookUpPdf
<1> QED BY <1>4, <1>8, <1>9, OnlyThreadMoves

\* The agent fails.
LEMMA AgentFailsKeeps ==
    ASSUME Inv, NEW q \in Requests, AgentFails(q)
    PROVE  Inv'
<1>1. request[q] \in Threads /\ request' = [request EXCEPT ![q] = Failed(request[q])]
  BY DEF Inv, TypeOK, AgentFails, Fails, Becomes
<1>2. request'[q] = Failed(request[q])
  BY <1>1 DEF Inv, TypeOK
<1>3. Happens(Count(TRUE)) /\ UNCHANGED <<world, drafts>>
  BY DEF AgentFails, Count
<1> QED BY <1>1, <1>2, <1>3, FailedIsFine, OnlyThreadMoves

\* The document is made, or is not.
LEMMA RenderKeeps ==
    ASSUME Inv, NEW q \in Requests, NEW breaks \in BOOLEAN, Render(q, breaks)
    PROVE  Inv'
<1> DEFINE r == request[q]
           t == IF breaks THEN Failed(r) ELSE Ended(r, "done", r.answer)
<1>1. Fine(r, graphs, plans) /\ r \in Threads /\ r.phase = "render"
  BY DEF Inv, ThreadsInv, Fine, Render, At
<1>2. Shows(r, r.answer, graphs, plans)
  BY <1>1 DEF Fine, Timely, Shows
<1>3. Fine(Failed(r), graphs, plans)
  BY <1>1, FailedIsFine
<1>4. r.answer \in Answers
  BY <1>1 DEF Fine, Timely
<1>5. Fine(t, graphs, plans)
  BY <1>1, <1>2, <1>3, <1>4, EndedIsFine
<1>6. request' = [request EXCEPT ![q] = t]
  BY DEF Render, Fails, Becomes
<1> HIDE DEF t
<1>7. request'[q] = t /\ Happens(Count(breaks)) /\ UNCHANGED <<world, drafts>>
  BY <1>6 DEF Inv, TypeOK, Render
<1> QED BY <1>5, <1>6, <1>7, OnlyThreadMoves

\* What the agent wrote, from what the thread had read.
LEMMA WrittenIs ==
    ASSUME NEW r \in Threads, NEW gs, NEW ps, Fine(r, gs, ps), r.phase = "agent"
    PROVE  Written(r) \in Answers /\ Shows(r, Written(r), gs, ps)
<1>1. r.related \in Listings /\ r.edit \in Nat /\ r.stale \in BOOLEAN /\ Refused(r.related) \subseteq Facts
  BY RefusedAre DEF Threads
<1>2. Written(r) \in Answers
  BY <1>1 DEF Written, DecisionLog, Answers, Logs
<1>3. GraphShown(r, r.related, gs) /\ PlanShown(r, r.edit, ps)
  BY DEF Fine, Timely
<1> QED BY <1>2, <1>3 DEF Written, DecisionLog, Shows

\* A draft is saved with what it was written from.
LEMMA InsertedKeeps ==
    ASSUME Inv, NEW q \in Requests, NEW away \in BOOLEAN, Inserted(q, away)
    PROVE  drafts' \in Seq(Drafts) /\ DraftsInv'
<1> DEFINE d == [related |-> Dumped(request[q].related), prose |-> request[q].related, at |-> clock]
<1>1. request[q].related \in Listings /\ clock \in Times
  BY DEF Inv, TypeOK, Threads
<1>2. d \in Drafts /\ Kept(d)
  BY <1>1, DumpedIs DEF Drafts, Kept
<1>3. drafts' = IF away THEN drafts ELSE Append(drafts, d)
  BY DEF Inserted
<1> HIDE DEF d
<1>4. CASE away
  BY <1>3, <1>4 DEF Inv, TypeOK, DraftsInv
<1>5. CASE ~away
  <2>1. drafts \in Seq(Drafts) /\ drafts' = Append(drafts, d)
    BY <1>3, <1>5 DEF Inv, TypeOK
  <2>2. drafts' \in Seq(Drafts) /\ Len(drafts') = Len(drafts) + 1
    BY <1>2, <2>1
  <2>3. \A i \in 1..Len(drafts') : drafts'[i] = (IF i <= Len(drafts) THEN drafts[i] ELSE d)
    BY <2>1
  <2>4. \A i \in 1..Len(drafts') : Kept(drafts'[i])
    BY <1>2, <2>1, <2>2, <2>3 DEF Inv, DraftsInv
  <2> QED BY <2>2, <2>4 DEF DraftsInv
<1> QED BY <1>4, <1>5

\* A thread that saves its draft and answers, or goes on to render.
LEMMA SaveKeeps ==
    ASSUME Inv, NEW q \in Requests, NEW away \in BOOLEAN, Save(q, away) \/ SavePdf(q, away)
    PROVE  Inv'
<1> DEFINE r == request[q]
           ended == Ended(r, "done", Written(r))
           goes == [r EXCEPT !.phase = "render", !.answer = Written(r)]
<1>1. Fine(r, graphs, plans) /\ r \in Threads /\ r.phase = "agent"
  BY DEF Inv, ThreadsInv, Fine, Save, SavePdf, At
<1>2. Written(r) \in Answers /\ Shows(r, Written(r), graphs, plans)
  BY <1>1, WrittenIs
<1>3. Fine(ended, graphs, plans)
  BY <1>1, <1>2, EndedIsFine
<1>4. Fine(goes, graphs, plans)
  BY <1>1, <1>2, RenderedIsFine
<1>5. request' = [request EXCEPT ![q] = ended] \/ request' = [request EXCEPT ![q] = goes]
  BY DEF Save, SavePdf, Becomes
<1> HIDE DEF ended, goes
<1>6. request' = [request EXCEPT ![q] = request'[q]] /\ Fine(request'[q], graphs, plans)
  BY <1>3, <1>4, <1>5 DEF Inv, TypeOK
<1>7. UNCHANGED <<graphs, plans, verdict, lastChange, clock>>
  BY DEF Save, SavePdf, world
<1>8. left' \in 0..MaxEvents /\ left' <= left
  BY CountIs, HappensIs DEF Inv, TypeOK, Save, SavePdf
<1>9. drafts' \in Seq(Drafts) /\ DraftsInv'
  BY InsertedKeeps DEF Save, SavePdf
<1>10. ThreadsInv' /\ request' \in [Requests -> Threads]
  BY <1>6, <1>7, ThreadMoves DEF Inv, TypeOK
<1>11. TypeOK'
  BY <1>7, <1>8, <1>9, <1>10 DEF Inv, TypeOK
<1>12. ClockInv'
  BY <1>7, <1>8, Bounds DEF Inv, TypeOK, ClockInv, Times
<1> QED BY <1>9, <1>10, <1>11, <1>12 DEF Inv

\* What the rules find is listed as active beside what was listed.
LEMMA FoundIs ==
    ASSUME Inv, NEW found \in SUBSET Facts
    PROVE  [f \in found \cup DOMAIN Graph |-> IF f \in found THEN Active ELSE Graph[f]] \in Listings
<1> DEFINE D == found \cup DOMAIN Graph
           g == [f \in D |-> IF f \in found THEN Active ELSE Graph[f]]
<1>1. D \in SUBSET Facts /\ \A f \in DOMAIN Graph : Graph[f] \in Entries
  BY LiveAre, ListingsAre
<1>2. g \in [D -> Entries]
  BY <1>1 DEF Entries
<1>3. [D -> Entries] \subseteq Listings
  BY <1>1, ListingsAre
<1> QED BY <1>2, <1>3

\* The rules run for the prompt.
LEMMA PromptKeeps ==
    ASSUME Inv, NEW q \in Requests, NEW found \in SUBSET Facts, Prompt(q, found)
    PROVE  Inv'
<1> DEFINE r == request[q]
           g == [f \in found \cup DOMAIN Graph |-> IF f \in found THEN Active ELSE Graph[f]]
           t == [r EXCEPT !.phase = "agent"]
<1>1. Fine(r, graphs, plans) /\ r \in Threads /\ r.phase = "prompt"
  BY DEF Inv, ThreadsInv, Fine, Prompt, At
<1>2. t \in Threads
  BY <1>1 DEF Threads, Phases
<1>3. /\ t.phase = "agent" /\ t.since = r.since /\ t.missed = r.missed
      /\ t.related = r.related /\ t.edit = r.edit /\ t.draft = r.draft
  BY <1>1 DEF Threads
<1>4. request' = [request EXCEPT ![q] = t]
  BY DEF Prompt, Becomes
<1>5. graphs' = graphs \/ graphs' = Append(graphs, g)
  BY DEF Prompt
<1> HIDE DEF t
<1>6. Fine(t, graphs, plans)
  <2>1. Kept(t.draft)
    BY <1>1, <1>3 DEF Fine
  <2> QED BY <1>1, <1>2, <1>3, <2>1, CarriesOn
<1>7. g \in Listings
  BY FoundIs
<1> HIDE DEF g
<1>8. graphs' \in Seq(Listings) /\ graphs' # <<>> /\ (graphs' = graphs \/ \E x \in Listings : graphs' = Append(graphs, x))
  <2>1. graphs \in Seq(Listings) /\ graphs # <<>>
    BY DEF Inv, TypeOK
  <2>2. CASE graphs' = graphs
    BY <2>1, <2>2
  <2>3. CASE graphs' = Append(graphs, g)
    <3>1. graphs' \in Seq(Listings) /\ graphs' # <<>>
      BY <1>7, <2>1, <2>3
    <3> QED BY <1>7, <2>3, <3>1
  <2> QED BY <1>5, <2>2, <2>3
<1>9. request'[q] = t /\ UNCHANGED <<plans, verdict, lastChange, drafts, clock>>
  BY <1>4 DEF Inv, TypeOK, Prompt
<1>10. left' \in 0..MaxEvents /\ left' <= left
  <2>1. (found # {}) \in BOOLEAN /\ Happens(Count(found # {}))
    BY DEF Prompt
  <2> QED BY <2>1, CountIs, HappensIs DEF Inv, TypeOK
<1>11. ThreadsInv' /\ request' \in [Requests -> Threads]
  <2>1. plans \in Seq(Nat)
    BY DEF Inv, TypeOK
  <2> QED BY <1>4, <1>6, <1>8, <1>9, <2>1, ThreadMoves
<1>12. TypeOK'
  BY <1>8, <1>9, <1>10, <1>11 DEF Inv, TypeOK
<1>13. ClockInv' /\ DraftsInv'
  BY <1>9, <1>10, Bounds DEF Inv, TypeOK, ClockInv, Times, DraftsInv
<1> QED BY <1>11, <1>12, <1>13 DEF Inv

\* Whatever happens around the threads adds to what the case has been.
LEMMA WorldMoves ==
    ASSUME Inv, UNCHANGED <<drafts, request>>, clock' \in Times,
           left' \in 0..MaxEvents, ClockInv',
           {verdict', lastChange'} \subseteq Times \cup {None},
           graphs' \in Seq(Listings), graphs' # <<>>,
           graphs' = graphs \/ \E g \in Listings : graphs' = Append(graphs, g),
           plans' \in Seq(Nat), plans' # <<>>,
           plans' = plans \/ \E p \in Nat : plans' = Append(plans, p)
    PROVE  Inv'
<1>1. TypeOK'
  BY DEF Inv, TypeOK
<1>2. ASSUME NEW o \in Requests PROVE Fine(request'[o], graphs', plans')
  <2>1. Fine(request'[o], graphs, plans) /\ request'[o] \in Threads
    BY DEF Inv, ThreadsInv, Fine
  <2>2. graphs \in Seq(Listings) /\ plans \in Seq(Nat)
    BY DEF Inv, TypeOK
  <2> QED BY <2>1, <2>2, TimePasses
<1>3. DraftsInv'
  BY DEF Inv, DraftsInv
<1> QED BY <1>1, <1>2, <1>3 DEF Inv, ThreadsInv

\* A verdict begins, lands, or is refused.
LEMMA VerdictKeeps ==
    ASSUME Inv, VerdictBegins \/ VerdictRefused \/ \E f \in Facts : VerdictLands(f)
    PROVE  Inv'
<1> USE Bounds
<1>1. CASE VerdictBegins
  <2>1. left' = left - 1 /\ 1 <= left /\ clock' = clock + 1 /\ verdict' = clock + 1
        /\ UNCHANGED <<graphs, plans, lastChange, drafts, request>>
    BY <1>1 DEF VerdictBegins, Happens
  <2>2. clock' \in Times /\ left' \in 0..MaxEvents /\ ClockInv'
    BY <2>1 DEF Inv, TypeOK, ClockInv, Times
  <2> QED BY <2>1, <2>2, WorldMoves DEF Inv, TypeOK
<1>2. CASE VerdictRefused
  <2>1. ClockInv'
    BY <1>2 DEF VerdictRefused, Inv, ClockInv
  <2> QED BY <1>2, <2>1, WorldMoves DEF VerdictRefused, Inv, TypeOK
<1>3. ASSUME NEW f \in Facts, VerdictLands(f) PROVE Inv'
  <2> DEFINE x == IF Graph[f] = Active THEN Rejected(verdict) ELSE Active
             g == [Graph EXCEPT ![f] = x]
  <2>1. verdict \in Times /\ f \in DOMAIN Graph /\ graphs' = Append(graphs, g)
        /\ lastChange' = verdict /\ verdict' = None /\ UNCHANGED <<plans, drafts, request, clock, left>>
    BY <1>3 DEF VerdictLands, Inv, TypeOK
  <2>2. x \in Entries
    BY <2>1 DEF Entries
  <2>3. Graph \in [DOMAIN Graph -> Entries] /\ DOMAIN Graph \in SUBSET Facts
    BY LiveAre, ListingsAre DEF Listings
  <2> HIDE DEF x
  <2>4. g \in [DOMAIN Graph -> Entries]
    BY <2>2, <2>3
  <2>5. g \in Listings
    BY <2>3, <2>4, ListingsAre
  <2> HIDE DEF g
  <2>6. graphs' \in Seq(Listings) /\ graphs' # <<>>
    BY SMTT(30), <2>1, <2>5 DEF Inv, TypeOK
  <2>7. ClockInv'
    BY <2>1 DEF Inv, ClockInv
  <2> QED BY <2>1, <2>5, <2>6, <2>7, WorldMoves DEF Inv, TypeOK
<1> QED BY <1>1, <1>2, <1>3

\* The rules run for somebody else, or the plan is edited.
LEMMA OthersKeep ==
    ASSUME Inv, \/ \E found \in SUBSET Facts : RulesFind(found)
                \/ \E edit \in 0..Len(plans) : EditPlan(edit)
    PROVE  Inv'
<1>1. Happens(1) /\ UNCHANGED <<verdict, lastChange, drafts, request, clock>>
  BY DEF RulesFind, EditPlan
<1>2. left' \in 0..MaxEvents /\ ClockInv'
  BY <1>1, Bounds DEF Happens, Inv, TypeOK, ClockInv, Times
<1>3. ASSUME NEW found \in SUBSET Facts, RulesFind(found) PROVE Inv'
  <2> DEFINE g == [f \in found \cup DOMAIN Graph |-> IF f \in found THEN Active ELSE Graph[f]]
  <2>1. graphs' = Append(graphs, g) /\ plans' = plans
    BY <1>3 DEF RulesFind
  <2>2. g \in Listings
    BY FoundIs
  <2> HIDE DEF g
  <2>3. graphs' \in Seq(Listings) /\ graphs' # <<>>
    BY <2>1, <2>2 DEF Inv, TypeOK
  <2> QED BY <1>1, <1>2, <2>1, <2>2, <2>3, WorldMoves DEF Inv, TypeOK
<1>4. ASSUME NEW edit \in 0..Len(plans), EditPlan(edit) PROVE Inv'
  <2>1. edit \in Nat /\ plans' = Append(plans, edit) /\ graphs' = graphs
    BY <1>4, LiveAre DEF EditPlan
  <2>2. plans' \in Seq(Nat) /\ plans' # <<>>
    BY <2>1 DEF Inv, TypeOK
  <2> QED BY <1>1, <1>2, <2>1, <2>2, WorldMoves DEF Inv, TypeOK
<1> QED BY <1>3, <1>4

\* The initial states.
LEMMA InitIs == Init => Inv
<1> SUFFICES ASSUME Init PROVE Inv
  OBVIOUS
<1> DEFINE t == [phase |-> "idle", route |-> "json", reload |-> FALSE, since |-> <<0, 0>>,
                 missed |-> {}, related |-> NoConnections, edit |-> None, draft |-> NoDraft,
                 stale |-> FALSE, answer |-> Unanswered]
<1>1. t \in Threads
  BY NoDraftIs, ListingsAre DEF Threads, Phases, None
<1>2. Fine(t, graphs, plans)
  <2>1. t.phase = "idle" /\ t.missed = {} /\ t.draft = NoDraft
    OBVIOUS
  <2> HIDE DEF t
  <2> QED BY <1>1, <2>1, NoDraftIs DEF Fine, Timely
<1>3. \A q \in Requests : request[q] = t
  BY DEF Init
<1>4. request \in [Requests -> Threads]
  BY <1>1 DEF Init
<1> HIDE DEF t
<1>5. ThreadsInv
  BY <1>2, <1>3 DEF ThreadsInv
<1>6. graphs \in Seq(Listings) /\ graphs # <<>>
  <2>1. PICK known \in SUBSET Facts : graphs = <<[f \in known |-> Active]>>
    BY DEF Init
  <2>2. [f \in known |-> Active] \in [known -> Entries]
    BY DEF Entries
  <2>3. [f \in known |-> Active] \in Listings
    BY <2>2, ListingsAre
  <2> QED BY <2>1, <2>3
<1>7. /\ plans = <<None>> /\ drafts = <<>> /\ verdict = None /\ lastChange = None
      /\ clock = 1 /\ left = MaxEvents /\ MaxEvents \in Nat
  BY Bounds DEF Init
<1>8. plans \in Seq(Nat) /\ plans # <<>> /\ drafts \in Seq(Drafts)
  BY <1>7 DEF None
<1>9. clock \in Times /\ left \in 0..MaxEvents /\ ClockInv
  BY <1>7 DEF Times, ClockInv
<1>10. DraftsInv
  BY <1>7 DEF DraftsInv
<1>11. TypeOK
  BY <1>4, <1>6, <1>7, <1>8, <1>9 DEF TypeOK
<1> QED BY <1>5, <1>9, <1>10, <1>11 DEF Inv

\* The steps.
LEMMA StepKeeps == Inv /\ [Next]_vars => Inv'
<1> SUFFICES ASSUME Inv, [Next]_vars PROVE Inv'
  OBVIOUS
<1>1. ASSUME NEW q \in Requests, Thread(q) PROVE Inv'
  BY <1>1, ReadRelatedKeeps, ReadPlanKeeps, LookUpKeeps, CompareKeeps, LookUpPdfKeeps, SaveKeeps,
     RenderKeeps, PromptKeeps DEF Thread
<1>2. ASSUME NEW q \in Requests, AgentFails(q) PROVE Inv'
  BY <1>2, AgentFailsKeeps
<1>3. ASSUME NEW q \in Requests, NEW call \in Calls, NEW resolved \in BOOLEAN, Ask(q, call, resolved)
      PROVE  Inv'
  BY <1>3, AskKeeps
<1>4. CASE VerdictBegins \/ VerdictRefused \/ \E f \in Facts : VerdictLands(f)
  BY <1>4, VerdictKeeps
<1>5. CASE \/ \E found \in SUBSET Facts : RulesFind(found)
           \/ \E edit \in 0..Len(plans) : EditPlan(edit)
  BY <1>5, OthersKeep
<1>6. CASE UNCHANGED vars
  BY <1>6 DEF vars, Inv, TypeOK, ClockInv, DraftsInv, ThreadsInv
<1> QED BY <1>1, <1>2, <1>3, <1>4, <1>5, <1>6 DEF Next

\* So the invariant holds of every behaviour.
LEMMA AlwaysInv == Spec => []Inv
<1> QED BY InitIs, StepKeeps, PTL DEF Spec

\* Types: every row and thread is of its shape, however many requests and events there are.
THEOREM ReportsTyped == Spec => []TypeOK
<1>1. Inv => TypeOK
  BY DEF Inv
<1> QED BY AlwaysInv, <1>1, PTL

\* Every report shows connections and an edit that were the live ones after its request came,
\* whoever wrote the draft it was served from.
THEOREM ReportsOfTheirTime == Spec => []OfItsTime
<1>1. Inv => OfItsTime
  <2> SUFFICES ASSUME Inv, NEW q \in Requests, At(q, "done")
               PROVE  Timely(request[q], graphs, plans) /\ request[q].phase = "done"
    BY DEF OfItsTime, Timely, GraphShown, PlanShown
  <2> QED BY DEF Inv, ThreadsInv, Fine, At
<1> QED BY AlwaysInv, <1>1, PTL

=============================================================================
