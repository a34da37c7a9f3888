------------------------ MODULE NarrativeCacheProofs ------------------------
(***************************************************************************)
(* Proofs about NarrativeCache: its types; that an investigator's edit is  *)
(* never part of the plan a revert falls back to; that the graph's signals *)
(* raise a score once; that every write of a route to its worker's dict    *)
(* finds one and leaves the other tabs' narratives as they are; that a     *)
(* plan shows the steps its label names; and that a stale one says so.     *)
(***************************************************************************)
EXTENDS NarrativeCache, SequenceTheorems, TLAPS

\* a score that the graph's signals have raised has its base beside it
Founded == {score \in Scores : score.raised = 1 => score.base} \cup {NoScore}

\* a dict whose plan is not an investigator's, and whose score is founded
PureData == {d \in CaseData : d.plan[1] # "investigator" /\ d.risk \in Founded}

\* an answer that names the edit whose steps it shows, if the edit was the same throughout
Labelled(answer) ==
    answer.tab = "plan" /\ answer.before = answer.edit =>
        IF answer.edit # NoPlan THEN answer.steps = answer.edit ELSE answer.steps[1] = "agent"

\* an answer whose score the graph's signals have raised once at most
Shown == {answer \in Answers : answer.raised <= 1 /\ Labelled(answer)}

\* a plan is nobody's prerequisite: no route waits for its answer
PlanLast(todo) == \A n \in DOMAIN todo : todo[n].route = "plan" => n = Len(todo)

\* a thread in flight has a route to run, which resolves a case's data unless it is the intake
Running(r) ==
    r.phase \notin {"idle", "done", "failed"} =>
        /\ r.todo # <<>>
        /\ r.phase = "open" => Head(r.todo).route # "intake"

\* a thread that reads or writes its worker's dict, without asking whether it is there
Needs(r) ==
    \/ r.live
    \/ r.phase \in {"check", "agent", "save"} /\ Head(r.todo).route # "intake"

\* every copy a thread holds, for itself or for the row, is pure as well
PureThreads ==
    {r \in Threads :
        /\ Running(r) /\ PlanLast(r.todo) /\ (r.live => r.phase \notin {"idle", "done", "failed"})
        /\ r.data \in PureData /\ r.draft \in PureData
        /\ r.answer \in Shown \cup {Unanswered}}

PureInv ==
    /\ store \in [Workers -> PureData \cup {Cold}]
    /\ row \in Rows /\ row.data \in PureData
    /\ override \in Plans
    /\ lastChange \in Nat /\ clock \in Nat
    /\ request \in [Requests -> PureThreads]
    /\ left \in 0..MaxEvents

\* the dict is there for whoever needs it
WarmInv == \A q \in Requests : Needs(request[q]) => Warm(request[q].worker)

---------------------------------------------------------------------------
\* An empty dict is pure, and the empty row is a row.
LEMMA NothingPure == Nothing \in PureData /\ NoRow \in Rows /\ NoRow.data \in PureData
<1>1. Nothing \in CaseData
  BY DEF Nothing, CaseData, NoPlan, Plans, Tabs
<1>2. Nothing.plan[1] # "investigator" /\ Nothing.matches = FALSE /\ Nothing.risk \in Founded
  BY DEF Nothing, NoPlan, Founded
<1>. QED
  BY <1>1, <1>2 DEF PureData, NoRow, Rows

\* The parts of a thread, for the steps that take one apart.
LEMMA ThreadParts ==
    ASSUME NEW r \in PureThreads
    PROVE  /\ r \in Threads /\ Running(r) /\ PlanLast(r.todo)
           /\ r.data \in PureData /\ r.draft \in PureData
           /\ r.todo \in Seq(Frames) /\ r.worker \in Workers
           /\ r.answer \in Shown \cup {Unanswered}
  BY DEF PureThreads, Threads

\* A thread that opens a route keeps its type.
LEMMA OpeningPure ==
    ASSUME NEW r \in Threads, NEW todo \in Seq(Frames), todo # <<>>, PlanLast(todo)
    PROVE  Opening(r, todo) \in PureThreads /\ ~Needs(Opening(r, todo))
<1>. DEFINE s == Opening(r, todo)
<1>1. /\ s \in Threads
      /\ s.data = Nothing /\ s.draft = Nothing /\ s.todo = todo /\ s.live = FALSE
      /\ s.answer = Unanswered
      /\ s.phase = IF Head(todo).route = "intake" THEN "check" ELSE "open"
  BY NothingPure DEF Opening, Cleared, Threads, PureData, NoPlan, Plans
<1>2. Running(s)
  BY <1>1 DEF Running
<1>. QED
  BY <1>1, <1>2, NothingPure DEF PureThreads, Needs

\* A thread that ends, with an answer or without, keeps its type.
LEMMA EndedPure ==
    ASSUME NEW r \in Threads, NEW phase \in {"done", "failed"},
           NEW answer \in Shown \cup {Unanswered}
    PROVE  /\ [Ended(r, phase) EXCEPT !.answer = answer] \in PureThreads
           /\ ~Needs([Ended(r, phase) EXCEPT !.answer = answer])
<1>. DEFINE s == [Ended(r, phase) EXCEPT !.answer = answer]
<1>1. <<>> \in Seq(Frames)
  OBVIOUS
<1>2. s \in Threads /\ s.data = Nothing /\ s.draft = Nothing /\ s.phase = phase /\ s.live = FALSE
      /\ s.answer = answer
  <2>1. answer \in Answers \cup {Unanswered}
    BY DEF Shown
  <2>. QED
    BY <1>1, <2>1, NothingPure DEF Ended, Cleared, Threads, PureData, NoPlan, Plans
<1>3. PlanLast(s.todo)
  <2>1. s.todo = <<>>
    BY DEF Ended, Cleared, Threads
  <2>. QED
    BY <2>1 DEF PlanLast
<1>. QED
  BY <1>2, <1>3, NothingPure DEF PureThreads, Running, Needs

\* A thread that fails keeps its type.
LEMMA FailedPure ==
    ASSUME NEW r \in Threads
    PROVE  Failed(r) \in PureThreads /\ ~Needs(Failed(r))
  BY EndedPure DEF Failed

\* An answered thread goes on with what is left of its stack.
LEMMA AnsweredPure ==
    ASSUME NEW r \in Threads, r.todo # <<>>, PlanLast(r.todo), NEW answer \in Shown \cup {Unanswered}
    PROVE  Answered(r, answer) \in PureThreads /\ ~Needs(Answered(r, answer))
<1>1. r.todo \in Seq(Frames)
  BY DEF Threads
<1>2. CASE Len(r.todo) = 1
  BY <1>2, EndedPure DEF Answered
<1>3. CASE Len(r.todo) # 1
  <2>1. Tail(r.todo) \in Seq(Frames) /\ Tail(r.todo) # <<>> /\ PlanLast(Tail(r.todo))
    <3>1. Len(r.todo) \in Nat /\ Len(r.todo) # 0 /\ Tail(r.todo) \in Seq(Frames)
          /\ Len(Tail(r.todo)) = Len(r.todo) - 1
      BY <1>1, HeadTailProperties, EmptySeq, LenProperties
    <3>2. Len(Tail(r.todo)) # 0
      BY <1>3, <3>1
    <3>3. PlanLast(Tail(r.todo))
      <4>1. \A n \in 1..Len(Tail(r.todo)) : Tail(r.todo)[n] = r.todo[n + 1] /\ n + 1 \in 1..Len(r.todo)
        BY <1>1, <3>1, HeadTailProperties
      <4>2. \A n \in 1..Len(Tail(r.todo)) : n + 1 = Len(r.todo) => n = Len(Tail(r.todo))
        BY <3>1
      <4>. QED
        BY <1>1, <3>1, <4>1, <4>2, LenProperties DEF PlanLast
    <3>. QED
      BY <3>1, <3>2, <3>3, EmptySeq
  <2>. QED
    BY <1>3, <2>1, OpeningPure DEF Answered
<1>. QED
  BY <1>2, <1>3

\* A thread that runs a prerequisite first keeps its type.
LEMMA UpstreamPure ==
    ASSUME NEW r \in Threads, r.todo # <<>>, PlanLast(r.todo),
           Head(r.todo).route \in {"similar_cases", "risk_assessment", "plan"}
    PROVE  Upstream(r) \in PureThreads /\ ~Needs(Upstream(r))
<1>. DEFINE top == [Head(r.todo) EXCEPT !.again = TRUE]
            up == Frame(Prerequisite[Head(r.todo).route], FALSE)
<1>1. r.todo \in Seq(Frames)
  BY DEF Threads
<1>2. Head(r.todo) \in Frames /\ Tail(r.todo) \in Seq(Frames)
  BY <1>1
<1>3. top \in Frames
  BY <1>2 DEF Frames
<1>4. up \in Frames
  BY DEF Frame, Frames, Prerequisite, Routes, Tabs
<1>p. up.route # "plan" /\ top.route = Head(r.todo).route
  BY <1>2 DEF Frame, Frames, Prerequisite
<1>. HIDE DEF top, up
<1>5. <<up, top>> \in Seq(Frames) /\ <<up, top>> # <<>>
  BY <1>3, <1>4
<1>6. <<up, top>> \o Tail(r.todo) \in Seq(Frames) /\ <<up, top>> \o Tail(r.todo) # <<>>
  BY <1>2, <1>5, ConcatProperties, ConcatEqualIffEmpty
<1>7. PlanLast(<<up, top>> \o Tail(r.todo))
  <2>. DEFINE more == <<up, top>> \o Tail(r.todo)
  <2>1. Len(r.todo) \in Nat \ {0} /\ Len(Tail(r.todo)) = Len(r.todo) - 1
    BY <1>1, HeadTailProperties, EmptySeq, LenProperties
  <2>2. /\ more \in Seq(Frames) /\ Len(more) = Len(r.todo) + 1
        /\ \A n \in 1..Len(more) :
              more[n] = IF n <= 2 THEN <<up, top>>[n] ELSE Tail(r.todo)[n - 2]
    BY <1>2, <1>5, <2>1, ConcatProperties
  <2>3. more[1] = up /\ more[2] = top /\ Head(r.todo) = r.todo[1]
    BY <1>1, <2>1, <2>2
  <2>4. \A n \in 3..Len(more) : more[n] = r.todo[n - 1] /\ n - 1 \in 1..Len(r.todo)
    BY <1>1, <2>1, <2>2, HeadTailProperties
  <2>. HIDE DEF more
  <2>5. \A n \in 1..Len(r.todo) : r.todo[n].route = "plan" => n = Len(r.todo)
    BY <1>1, LenProperties DEF PlanLast
  <2>6. ASSUME NEW n \in 1..Len(more), more[n].route = "plan" PROVE n = Len(more)
    <3>1. CASE n = 1
      BY <1>p, <2>3, <2>6, <3>1
    <3>2. CASE n = 2
      <4>1. r.todo[1].route = "plan" /\ 1 \in 1..Len(r.todo)
        BY <1>p, <2>1, <2>3, <2>6, <3>2
      <4>. QED
        BY <2>1, <2>2, <2>5, <3>2, <4>1
    <3>3. CASE n # 1 /\ n # 2
      <4>1. n \in 3..Len(more)
        BY <2>1, <2>2, <3>3
      <4>2. n - 1 = Len(r.todo)
        BY <2>4, <2>5, <2>6, <4>1
      <4>. QED
        BY <2>1, <2>2, <4>2
    <3>. QED
      BY <3>1, <3>2, <3>3
  <2>. QED
    BY <2>2, <2>6, LenProperties DEF PlanLast, more
<1>. QED
  BY <1>6, <1>7, OpeningPure DEF Upstream, up, top

\* So does one that has the data its route needs, or does not.
LEMMA ResolvedPure ==
    ASSUME NEW r \in PureThreads, r.todo # <<>>, Head(r.todo).route # "intake",
           NEW d
    PROVE  /\ Resolved(r, d) \in PureThreads
           /\ Needs(Resolved(r, d)) => Resolved(r, d).worker = r.worker
<1>1. /\ r \in Threads /\ r.todo \in Seq(Frames) /\ PlanLast(r.todo)
      /\ r.data \in PureData /\ r.draft \in PureData /\ r.answer \in Shown \cup {Unanswered}
  BY ThreadParts
<1>2. Head(r.todo).route \in Routes
  <2>1. Head(r.todo) \in Frames
    BY <1>1
  <2>. QED
    BY <2>1 DEF Frames
<1>3. CASE Provided(Head(r.todo).route, d) \/ Head(r.todo).again
  <2>. DEFINE s == [r EXCEPT !.phase = "check"]
  <2>1. s \in Threads /\ s.data = r.data /\ s.draft = r.draft
        /\ s.todo = r.todo /\ s.phase = "check" /\ s.worker = r.worker /\ s.answer = r.answer
    BY <1>1 DEF Threads
  <2>2. s \in PureThreads
    BY <2>1, <1>1 DEF PureThreads, Running
  <2>. QED
    BY <2>1, <2>2, <1>3 DEF Resolved
<1>4. CASE ~(Provided(Head(r.todo).route, d) \/ Head(r.todo).again)
  <2>1. Head(r.todo).route \in {"similar_cases", "risk_assessment", "plan"}
    BY <1>2, <1>4 DEF Provided, Routes, Tabs
  <2>. QED
    BY <1>1, <1>4, <2>1, UpstreamPure DEF Resolved
<1>. QED
  BY <1>3, <1>4

\* No dict of a case is the mark of a missing one.
LEMMA DictIsWarm == \A d \in CaseData : d # Cold
<1>1. ASSUME NEW d \in CaseData, d = Cold PROVE FALSE
  <2>1. DOMAIN d = {"complaint", "matches", "risk", "plan", "narrated", "human"}
    BY DEF CaseData
  <2>2. DOMAIN Cold = {"cold"}
    BY DEF Cold
  <2>. QED
    BY <1>1, <2>1, <2>2
<1>. QED
  BY <1>1

\* What a thread sees of its case is pure: the worker's dict, or the one it holds.
LEMMA ViewPure ==
    ASSUME PureInv, NEW q \in Requests, Warm(W(q))
    PROVE  View(q) \in PureData /\ store[W(q)] \in PureData
<1>1. request[q] \in PureThreads /\ W(q) \in Workers
  BY ThreadParts DEF PureInv, W
<1>2. store[W(q)] \in PureData
  BY <1>1 DEF PureInv, Warm
<1>. QED
  BY <1>1, <1>2, ThreadParts DEF View

\* So is what it sees when it does not hold the worker's dict.
LEMMA HeldPure ==
    ASSUME PureInv, NEW q \in Requests, request[q].live => Warm(W(q))
    PROVE  View(q) \in PureData
<1>1. request[q] \in PureThreads
  BY DEF PureInv
<1>. QED
  BY <1>1, ViewPure, ThreadParts DEF View

\* A dict that is replaced is left to its holders as it was.
LEMMA OrphanedPure ==
    ASSUME PureInv, WarmInv, NEW w \in Workers
    PROVE  Orphaned(w) \in [Requests -> PureThreads]
<1>. SUFFICES ASSUME NEW q \in Requests, W(q) = w, request[q].live
              PROVE  [request[q] EXCEPT !.live = FALSE, !.data = store[w]] \in PureThreads
  BY DEF Orphaned, PureInv
<1>. DEFINE s == [request[q] EXCEPT !.live = FALSE, !.data = store[w]]
<1>1. request[q] \in PureThreads /\ request[q] \in Threads /\ Running(request[q])
      /\ request[q].draft \in PureData /\ request[q].answer \in Shown \cup {Unanswered}
  BY ThreadParts DEF PureInv
<1>2. store[w] \in PureData /\ store[w] \in CaseData
  BY DEF PureInv, WarmInv, Needs, W, Warm, PureData
<1>3. /\ s \in Threads /\ s.data = store[w] /\ s.draft = request[q].draft
      /\ s.todo = request[q].todo /\ s.phase = request[q].phase /\ s.live = FALSE
      /\ s.answer = request[q].answer
  BY <1>1, <1>2 DEF Threads
<1>4. Running(s)
  BY <1>1, <1>3 DEF Running
<1>. QED
  BY <1>1, <1>2, <1>3, <1>4 DEF PureThreads

\* A section that a run of a route writes holds the agent's plan, never the edit.
LEMMA SectionPure ==
    ASSUME NEW d \in PureData, clock \in Nat, NEW graphUp \in BOOLEAN, NEW edit,
           NEW tab \in Tabs \ {"intake"}, NEW narrated \in [Tabs -> Nat]
    PROVE  /\ [Section(tab, d, graphUp, edit) EXCEPT !.narrated = narrated] \in PureData
           /\ [Section(tab, d, graphUp, edit) EXCEPT !.narrated = narrated].narrated = narrated
<1>. DEFINE s == Section(tab, d, graphUp, edit)
<1>1. ByAgent(clock) \in Plans /\ ByAgent(clock)[1] # "investigator"
  BY DEF ByAgent, Plans
<1>2. d \in CaseData /\ d.plan[1] # "investigator" /\ d.risk \in Founded
  BY DEF PureData
<1>3. [raised |-> Count(graphUp), base |-> graphUp] \in Scores
      /\ [raised |-> Count(graphUp), base |-> graphUp] \in Founded
  BY DEF Scores, Count, Founded
<1>4. s \in CaseData /\ (s.plan = d.plan \/ s.plan = ByAgent(clock)) /\ s.risk \in Founded
  <2>1. CASE tab = "similar_cases"
    BY <2>1, <1>2 DEF Section, CaseData
  <2>2. CASE tab = "risk_assessment"
    BY <2>2, <1>2, <1>3 DEF Section, CaseData
  <2>3. CASE tab = "plan"
    BY <2>3, <1>1, <1>2 DEF Section, CaseData
  <2>. QED
    BY <2>1, <2>2, <2>3 DEF Tabs
<1>5. [s EXCEPT !.narrated = narrated] \in CaseData
      /\ [s EXCEPT !.narrated = narrated].plan = s.plan
      /\ [s EXCEPT !.narrated = narrated].risk = s.risk
      /\ [s EXCEPT !.narrated = narrated].narrated = narrated
  BY <1>4 DEF CaseData
<1>. QED
  BY <1>1, <1>2, <1>4, <1>5 DEF PureData

\* No tool of the copilot writes an edit in the plan's place.
LEMMA ToolPure ==
    ASSUME NEW d \in PureData, NEW tool \in Tools
    PROVE  Tooled(tool, d) \in PureData
<1>1. d \in CaseData /\ d.plan[1] # "investigator" /\ d.risk \in Founded
  BY DEF PureData
<1>2. CASE tool = "complaint"
  BY <1>1, <1>2 DEF Tooled, PureData, CaseData
<1>3. CASE tool = "risk"
  <2>1. [raised |-> 0, base |-> FALSE] \in Scores /\ [raised |-> 0, base |-> FALSE] \in Founded
    BY DEF Scores, Founded
  <2>. QED
    BY <1>1, <1>3, <2>1 DEF Tooled, PureData, CaseData
<1>4. CASE tool = "plan"
  <2>1. Skeleton \in Plans /\ Skeleton[1] # "investigator"
    BY DEF Skeleton, Plans
  <2>. QED
    BY <1>1, <1>4, <2>1 DEF Tooled, PureData, CaseData
<1>5. CASE tool = "other"
  BY <1>1, <1>5 DEF Tooled
<1>. QED
  BY <1>2, <1>3, <1>4, <1>5 DEF Tools

\* Stripping a dict for the row leaves its plan alone.
LEMMA StripPure ==
    ASSUME NEW d \in PureData, clock \in Nat
    PROVE  /\ [data |-> Strip(d), at |-> clock] \in Rows
           /\ Strip(d) \in PureData
<1>1. d \in CaseData /\ d.plan[1] # "investigator" /\ d.risk \in Founded
  BY DEF PureData
<1>2. [raised |-> 0, base |-> FALSE] \in Scores /\ [raised |-> 0, base |-> FALSE] \in Founded
  BY DEF Scores, Founded
<1>3. Strip(d) \in CaseData /\ ~Strip(d).matches /\ Strip(d).plan = d.plan /\ Strip(d).risk \in Founded
  BY <1>1, <1>2 DEF Strip, CaseData
<1>. QED
  BY <1>1, <1>3 DEF Rows, PureData

\* An answer from the cache is an answer.
LEMMA CachedAnswer ==
    ASSUME NEW d \in PureData, NEW tab \in Tabs, Cached(tab, d) \/ tab = "intake",
           NEW edit \in Plans, NEW stale \in BOOLEAN, NEW graphUp \in BOOLEAN
    PROVE  FromCache(tab, d, edit, stale, graphUp) \in Shown
<1>. d \in CaseData
  BY DEF PureData
<1>1. StepsShown(tab, d, edit) \in Plans
  <2>1. d.narrated.plan \in Nat
    BY DEF CaseData, Tabs
  <2>. QED
    BY <2>1 DEF StepsShown, NoPlan, ByAgent, Plans
<1>2. (IF tab = "risk_assessment" THEN Raised(d.risk, graphUp) ELSE 0) \in 0..1
  <2>1. CASE tab = "risk_assessment"
    <3>1. d.risk \in Scores /\ (d.risk.raised = 1 => d.risk.base)
      BY <2>1 DEF PureData, Founded, Cached
    <3>. QED
      BY <3>1 DEF Raised, Scores, Count
  <2>. QED
    BY <2>1
<1>3. Labelled(FromCache(tab, d, edit, stale, graphUp))
  BY DEF Labelled, FromCache, StepsShown, ByAgent
<1>4. FromCache(tab, d, edit, stale, graphUp).raised <= 1
  BY <1>2 DEF FromCache
<1>5. FromCache(tab, d, edit, stale, graphUp) \in Answers
  BY <1>1, <1>2 DEF FromCache, Answers, Routes
<1>. QED
  BY <1>3, <1>4, <1>5 DEF Shown

\* Threads that keep their place and need no more than before still have what they need, and
\* so has the one that moves, as long as no dict goes away.
LEMMA WarmKept ==
    ASSUME PureInv, WarmInv,
           NEW f \in [Requests -> PureThreads],
           \A p \in Requests : Needs(f[p]) => Needs(request[p]) /\ f[p].worker = request[p].worker,
           NEW q \in Requests, NEW r \in PureThreads, request' = [f EXCEPT ![q] = r],
           \A w \in Workers : Warm(w) => store'[w] # Cold,
           Needs(r) => store'[r.worker] # Cold
    PROVE  request' \in [Requests -> PureThreads] /\ WarmInv'
<1>1. request' \in [Requests -> PureThreads]
  OBVIOUS
<1>2. ASSUME NEW p \in Requests, Needs(request'[p])
      PROVE  store'[request'[p].worker] # Cold
  <2>1. request[p].worker \in Workers
    BY ThreadParts DEF PureInv
  <2>2. CASE p = q
    BY <2>2, <1>2
  <2>3. CASE p # q
    BY <2>1, <2>3, <1>2 DEF WarmInv, Warm
  <2>. QED
    BY <2>2, <2>3
<1>. QED
  BY <1>1, <1>2 DEF WarmInv, Warm, Needs

\* The threads whose dict is replaced keep their place and need no more than before.
LEMMA OrphansNeed ==
    ASSUME PureInv, NEW w \in Workers, NEW p \in Requests
    PROVE  /\ Needs(Orphaned(w)[p]) => Needs(request[p])
           /\ Orphaned(w)[p].worker = request[p].worker
  BY DEF Orphaned, PureInv, PureThreads, Threads, Needs

\* A thread that moves while the dicts stay as they are.
LEMMA Moves ==
    ASSUME PureInv, WarmInv, NEW q \in Requests, NEW r \in PureThreads,
           request' = [request EXCEPT ![q] = r], store' = store,
           Needs(r) => Warm(r.worker)
    PROVE  request' \in [Requests -> PureThreads] /\ WarmInv'
<1>1. request \in [Requests -> PureThreads]
  BY DEF PureInv
<1>. QED
  BY <1>1, WarmKept DEF Warm

\* What happens is counted, within its bound.
LEMMA HappensTyped ==
    ASSUME PureInv, NEW n \in Nat, Happens(n)
    PROVE  left' \in 0..MaxEvents
  BY Bounds DEF PureInv, Happens

\* A read of the row is the row or the empty one, both pure; a read of the edit is a plan.
LEMMA ReadsPure ==
    ASSUME PureInv
    PROVE  /\ \A got \in RowReads : got \in Rows /\ got.data \in PureData
           /\ \A q \in Requests : \A edit \in EditReads(q) : edit \in Plans
  BY NothingPure DEF PureInv, RowReads, EditReads, NoPlan, Plans

\* The thread of a request in flight.
LEMMA Flying ==
    ASSUME PureInv, NEW q \in Requests, request[q].phase \notin {"idle", "done", "failed"}
    PROVE  /\ request[q] \in PureThreads /\ request[q] \in Threads
           /\ request[q].todo # <<>> /\ PlanLast(request[q].todo) /\ request[q].todo \in Seq(Frames)
           /\ W(q) \in Workers /\ Top(q) \in Frames /\ Route(q) \in Routes
<1>1. request[q] \in PureThreads
  BY DEF PureInv
<1>2. request[q] \in Threads /\ Running(request[q]) /\ request[q].todo \in Seq(Frames)
      /\ PlanLast(request[q].todo) /\ request[q].worker \in Workers
  BY <1>1, ThreadParts
<1>3. request[q].todo # <<>>
  BY <1>2 DEF Running
<1>4. Head(request[q].todo) \in Frames
  BY <1>2, <1>3
<1>. QED
  BY <1>1, <1>2, <1>3, <1>4 DEF W, Top, Route, Frames

\* What a condition costs is a number.
LEMMA CountNat == \A condition : Count(condition) \in Nat
  BY DEF Count

---------------------------------------------------------------------------
\* Each step keeps the dicts pure and there for whoever needs them.
LEMMA AskPure ==
    ASSUME PureInv, WarmInv, NEW q \in Requests, NEW w \in Workers, NEW asked \in Calls,
           Ask(q, w, asked)
    PROVE  PureInv' /\ WarmInv'
<1>. DEFINE s == [request[q] EXCEPT !.worker = w]
<1>1. Todo(asked) \in Seq(Frames) /\ Todo(asked) # <<>> /\ PlanLast(Todo(asked))
  <2>1. CASE asked = ReloadAll
    <3>1. Todo(asked) \in Seq(Frames) /\ Todo(asked) # <<>>
      BY <2>1 DEF Todo, Frame, Frames, Routes, Tabs
    <3>2. PlanLast(Todo(asked))
      BY <2>1 DEF Todo, Frame, PlanLast
    <3>. QED
      BY <3>1, <3>2
  <2>2. CASE asked # ReloadAll
    <3>1. asked \in {"open", "reload"} \X Routes
      BY <2>2, Bounds
    <3>2. Frame(asked[2], asked[1] = "reload") \in Frames
      BY <3>1 DEF Frame, Frames
    <3>. HIDE DEF Frame
    <3>3. Todo(asked) \in Seq(Frames) /\ Todo(asked) # <<>>
      BY <2>2, <3>2 DEF Todo
    <3>4. PlanLast(Todo(asked))
      BY <2>2 DEF Todo, PlanLast
    <3>. QED
      BY <3>3, <3>4
  <2>. QED
    BY <2>1, <2>2
<1>2. s \in Threads
  <2>1. request[q] \in Threads
    BY ThreadParts DEF PureInv
  <2>. QED
    BY <2>1 DEF Threads
<1>3. request' = [request EXCEPT ![q] = Opening(s, Todo(asked))] /\ store' = store
  BY DEF Ask, stored
<1>4. request' \in [Requests -> PureThreads] /\ WarmInv'
  <2>. HIDE DEF s
  <2>. QED
    BY <1>1, <1>2, <1>3, OpeningPure, Moves
<1>. QED
  BY <1>4 DEF Ask, stored, PureInv

\* Taking the dict by reference, or the row for one that is missing.
LEMMA OpenPure ==
    ASSUME PureInv, WarmInv, NEW q \in Requests, Open(q)
    PROVE  PureInv' /\ WarmInv'
<1>1. /\ request[q] \in PureThreads /\ request[q] \in Threads
      /\ request[q].todo # <<>> /\ PlanLast(request[q].todo) /\ Route(q) \in Routes /\ Route(q) # "intake"
      /\ Head(request[q].todo).route = Route(q)
  <2>1. Running(request[q]) /\ request[q].phase = "open"
    BY ThreadParts DEF Open, At, PureInv
  <2>. QED
    BY <2>1, Flying DEF Running, Route, Top
<1>2. CASE Warm(W(q)) /\ left' = left
           /\ request' = [request EXCEPT ![q] = Resolved([@ EXCEPT !.live = TRUE], store[W(q)])]
  <2>. DEFINE s == [request[q] EXCEPT !.live = TRUE]
  <2>1. /\ s \in Threads /\ s.todo = request[q].todo /\ s.phase = "open"
        /\ s.data = request[q].data /\ s.draft = request[q].draft /\ s.worker = W(q)
        /\ s.answer = request[q].answer
    BY <1>1 DEF Threads, Open, At, W
  <2>2. s \in PureThreads
    BY <1>1, <2>1 DEF PureThreads, Running
  <2>3. request' = [request EXCEPT ![q] = Resolved(s, store[W(q)])]
    BY <1>2
  <2>. HIDE DEF s
  <2>4. /\ Resolved(s, store[W(q)]) \in PureThreads
        /\ Needs(Resolved(s, store[W(q)])) => Resolved(s, store[W(q)]).worker = W(q)
    BY <1>1, <2>1, <2>2, ResolvedPure
  <2>5. request' \in [Requests -> PureThreads] /\ WarmInv'
    <3>1. store' = store
      BY DEF Open, stored
    <3>. QED
      BY <1>2, <2>3, <2>4, <3>1, Moves
  <2>. QED
    BY <1>2, <2>5 DEF Open, stored, PureInv
<1>3. ASSUME NEW got \in RowReads, Happens(Count(got # row)),
             request' = [request EXCEPT ![q] =
                IF got # NoRow THEN [@ EXCEPT !.phase = "load", !.data = got.data]
                ELSE IF Top(q).again \/ Route(q) = "copilot" THEN Failed(@)
                ELSE Upstream(@)],
             ~Warm(W(q))
      PROVE  PureInv' /\ WarmInv'
  <2>1. ~Needs(request[q])
    BY <1>3 DEF WarmInv, W
  <2>2. CASE got # NoRow
    <3>. DEFINE s == [request[q] EXCEPT !.phase = "load", !.data = got.data]
    <3>1. got.data \in PureData /\ got.data \in CaseData
      BY ReadsPure DEF PureData
    <3>2. /\ s \in Threads /\ s.todo = request[q].todo /\ s.phase = "load"
          /\ s.data = got.data /\ s.draft = request[q].draft /\ s.live = request[q].live
          /\ s.answer = request[q].answer
      BY <1>1, <3>1 DEF Threads
    <3>3. s \in PureThreads /\ ~Needs(s)
      BY <1>1, <2>1, <3>1, <3>2 DEF PureThreads, Running, Needs
    <3>4. request' = [request EXCEPT ![q] = s]
      BY <1>3, <2>2
    <3>. HIDE DEF s
    <3>. QED
      BY <3>3, <3>4, Moves, <1>3, CountNat, HappensTyped DEF Open, stored, PureInv
  <2>3. CASE got = NoRow /\ (Top(q).again \/ Route(q) = "copilot")
    BY <1>1, <1>3, <2>3, FailedPure, Moves, CountNat, HappensTyped DEF Open, stored, PureInv
  <2>4. CASE got = NoRow /\ ~(Top(q).again \/ Route(q) = "copilot")
    <3>1. Head(request[q].todo).route \in {"similar_cases", "risk_assessment", "plan"}
      BY <1>1, <2>4 DEF Routes, Tabs
    <3>. QED
      BY <1>1, <1>3, <2>4, <3>1, UpstreamPure, Moves, CountNat, HappensTyped
      DEF Open, stored, PureInv
  <2>. QED
    BY <2>2, <2>3, <2>4
<1>. QED
  BY <1>2, <1>3 DEF Open

\* A dict made of the row replaces the worker's, whose holders keep their own.
LEMMA LoadPure ==
    ASSUME PureInv, WarmInv, NEW q \in Requests, Load(q)
    PROVE  PureInv' /\ WarmInv'
<1>. DEFINE s == [request[q] EXCEPT !.live = TRUE, !.data = Nothing]
            d == request[q].data
            answer == FromCache("intake", d, NoPlan, s.stale, TRUE)
            r == IF Route(q) = "intake" THEN Answered(s, answer) ELSE Resolved(s, d)
<1>1. /\ request[q] \in PureThreads /\ request[q] \in Threads /\ request[q].phase = "load"
      /\ request[q].todo # <<>> /\ PlanLast(request[q].todo) /\ Head(request[q].todo).route = Route(q) /\ W(q) \in Workers
  BY Flying DEF Load, At, Route, Top
<1>2. d \in PureData /\ d \in CaseData
  BY <1>1, ThreadParts DEF PureData
<1>3. /\ s \in Threads /\ s.todo = request[q].todo /\ s.phase = "load"
      /\ s.data = Nothing /\ s.draft = request[q].draft /\ s.worker = W(q)
      /\ s.stale \in BOOLEAN /\ s.answer = request[q].answer
  BY <1>1, NothingPure DEF Threads, W, PureData
<1>4. s \in PureThreads
  BY <1>1, <1>3, NothingPure DEF PureThreads, Running
<1>5. answer \in Shown
  BY <1>2, <1>3, CachedAnswer DEF NoPlan, Plans, Tabs
<1>6. /\ request' = [Orphaned(W(q)) EXCEPT ![q] = r]
      /\ store' = [store EXCEPT ![W(q)] = d]
      /\ UNCHANGED <<row, override, lastChange, clock, left>>
  BY DEF Load
<1>7. r \in PureThreads /\ (Needs(r) => r.worker = W(q))
  <2>. HIDE DEF s, d, answer
  <2>1. CASE Route(q) = "intake"
    BY <1>1, <1>3, <1>5, <2>1, AnsweredPure
  <2>2. CASE Route(q) # "intake"
    BY <1>1, <1>3, <1>4, <2>2, ResolvedPure
  <2>. QED
    BY <2>1, <2>2
<1>. HIDE DEF r
<1>8. store' \in [Workers -> PureData \cup {Cold}] /\ store'[W(q)] # Cold
      /\ \A w \in Workers : Warm(w) => store'[w] # Cold
  BY <1>1, <1>2, <1>6, DictIsWarm DEF PureInv, Warm
<1>9. Orphaned(W(q)) \in [Requests -> PureThreads]
  BY <1>1, OrphanedPure
<1>10. request' \in [Requests -> PureThreads] /\ WarmInv'
  BY <1>1, <1>6, <1>7, <1>8, <1>9, OrphansNeed, WarmKept
<1>. QED
  BY <1>6, <1>8, <1>10 DEF PureInv

\* An answer from the cache takes its plan from a pure dict, or from the edit.
LEMMA CheckPure ==
    ASSUME PureInv, WarmInv, NEW q \in Requests, Check(q)
    PROVE  PureInv' /\ WarmInv'
<1>1. /\ request[q] \in PureThreads /\ request[q] \in Threads /\ request[q].phase = "check"
      /\ request[q].todo # <<>> /\ PlanLast(request[q].todo) /\ Head(request[q].todo).route = Route(q)
      /\ W(q) \in Workers /\ Route(q) \in Tabs /\ request[q].worker = W(q)
  BY Flying DEF Check, At, Route, Top, W
<1>. DEFINE tab == Route(q)
            cold == tab = "intake" /\ ~Warm(W(q))
            d(got) == IF tab # "intake" THEN View(q) ELSE IF cold THEN got.data ELSE store[W(q)]
            stale(got, graphUp) == graphUp /\ IsGraphNewer(lastChange, Basis(tab, d(got), got))
<1>2. PICK got \in RowReads, graphUp \in BOOLEAN, edit \in EditReads(q) :
          /\ Happens(Count(got # row) + Count(~graphUp) + Count(EditMissed(q, edit)))
          /\ request' = [request EXCEPT ![q] =
                IF ~Cached(tab, d(got)) \/ (Top(q).reload /\ edit = NoPlan)
                THEN [@ EXCEPT !.phase = "agent", !.before = edit, !.stale = stale(got, graphUp)]
                ELSE IF cold THEN [@ EXCEPT !.phase = "load", !.data = d(got),
                                            !.stale = stale(got, graphUp)]
                ELSE Answered(@, FromCache(tab, d(got), edit, stale(got, graphUp), graphUp))]
  BY DEF Check
<1>3. UNCHANGED <<store, row, override, lastChange, clock>>
  BY DEF Check, stored
<1>4. d(got) \in PureData /\ d(got) \in CaseData
  <2>1. CASE tab # "intake"
    BY <1>1, <2>1, HeldPure DEF WarmInv, Needs, PureData
  <2>2. CASE cold
    BY <2>2, ReadsPure DEF PureData
  <2>3. CASE tab = "intake" /\ ~cold
    BY <1>1, <2>3, ViewPure DEF PureData
  <2>. QED
    BY <2>1, <2>2, <2>3
<1>5. stale(got, graphUp) \in BOOLEAN /\ edit \in Plans
  BY ReadsPure DEF IsGraphNewer
<1>. HIDE DEF d, stale
<1>6. left' \in 0..MaxEvents
  <2>1. Count(got # row) + Count(~graphUp) + Count(EditMissed(q, edit)) \in Nat
    BY CountNat
  <2>. QED
    BY <1>2, <2>1, HappensTyped
<1>7. CASE ~Cached(tab, d(got)) \/ (Top(q).reload /\ edit = NoPlan)
  <2>. DEFINE s == [request[q] EXCEPT !.phase = "agent", !.before = edit,
                                      !.stale = stale(got, graphUp)]
  <2>1. /\ s \in Threads /\ s.todo = request[q].todo /\ s.phase = "agent"
        /\ s.data = request[q].data /\ s.draft = request[q].draft
        /\ s.live = request[q].live /\ s.worker = W(q) /\ s.answer = request[q].answer
    BY <1>1, <1>5 DEF Threads
  <2>2. s \in PureThreads /\ (Needs(s) => Warm(s.worker))
    BY <1>1, <2>1 DEF PureThreads, Running, Needs, WarmInv
  <2>3. request' = [request EXCEPT ![q] = s]
    BY <1>2, <1>7
  <2>. HIDE DEF s
  <2>. QED
    BY <1>3, <1>6, <2>2, <2>3, Moves DEF PureInv
<1>8. CASE ~(~Cached(tab, d(got)) \/ (Top(q).reload /\ edit = NoPlan)) /\ cold
  <2>. DEFINE s == [request[q] EXCEPT !.phase = "load", !.data = d(got),
                                      !.stale = stale(got, graphUp)]
  <2>1. /\ s \in Threads /\ s.todo = request[q].todo /\ s.phase = "load"
        /\ s.data = d(got) /\ s.draft = request[q].draft
        /\ s.live = request[q].live /\ s.worker = W(q) /\ s.answer = request[q].answer
    BY <1>1, <1>4, <1>5 DEF Threads
  <2>2. s \in PureThreads /\ (Needs(s) => Warm(s.worker))
    BY <1>1, <1>4, <2>1 DEF PureThreads, Running, Needs, WarmInv
  <2>3. request' = [request EXCEPT ![q] = s]
    BY <1>2, <1>8
  <2>. HIDE DEF s
  <2>. QED
    BY <1>3, <1>6, <2>2, <2>3, Moves DEF PureInv
<1>9. CASE ~(~Cached(tab, d(got)) \/ (Top(q).reload /\ edit = NoPlan)) /\ ~cold
  <2>. DEFINE a == FromCache(tab, d(got), edit, stale(got, graphUp), graphUp)
  <2>1. a \in Shown
    BY <1>1, <1>4, <1>5, <1>9, CachedAnswer
  <2>2. request' = [request EXCEPT ![q] = Answered(request[q], a)]
    BY <1>2, <1>9
  <2>. HIDE DEF a
  <2>3. Answered(request[q], a) \in PureThreads /\ ~Needs(Answered(request[q], a))
    BY <1>1, <2>1, AnsweredPure
  <2>. QED
    BY <1>3, <1>6, <2>2, <2>3, Moves DEF PureInv
<1>. QED
  BY <1>7, <1>8, <1>9

\* An agent that fails leaves the dicts alone.
LEMMA AgentFailsPure ==
    ASSUME PureInv, WarmInv, NEW q \in Requests, AgentFails(q)
    PROVE  PureInv' /\ WarmInv'
<1>1. request[q] \in Threads /\ request' = [request EXCEPT ![q] = Failed(request[q])]
  BY Flying DEF AgentFails, At
<1>2. request' \in [Requests -> PureThreads] /\ WarmInv'
  BY <1>1, FailedPure, Moves DEF AgentFails, stored
<1>. QED
  BY <1>2, HappensTyped DEF AgentFails, stored, PureInv

\* A fresh intake replaces the dict by one without a plan.
LEMMA ComposeIntakePure ==
    ASSUME PureInv, WarmInv, NEW q \in Requests, ComposeIntake(q)
    PROVE  PureInv' /\ WarmInv'
<1>1. /\ request[q] \in PureThreads /\ request[q] \in Threads /\ request[q].phase = "agent"
      /\ request[q].todo # <<>> /\ PlanLast(request[q].todo) /\ Head(request[q].todo).route = "intake"
      /\ W(q) \in Workers /\ request[q].worker = W(q)
  BY Flying DEF ComposeIntake, At, Route, Top, W
<1>. DEFINE existing(got) == IF Warm(W(q)) THEN store[W(q)] ELSE got.data
            d(got) == [Nothing EXCEPT !.complaint = TRUE,
                          !.narrated = [existing(got).narrated EXCEPT !["intake"] = clock]]
            answer == Composed(q, NoPlan, NoPlan, 0)
<1>2. PICK got \in IF Warm(W(q)) THEN {row} ELSE RowReads :
          /\ Happens(Count(got # row))
          /\ store' = [store EXCEPT ![W(q)] = d(got)]
          /\ request' = [Orphaned(W(q)) EXCEPT ![q] =
                [@ EXCEPT !.phase = "save", !.draft = d(got), !.answer = answer]]
  BY DEF ComposeIntake
<1>3. UNCHANGED <<row, override, lastChange, clock>>
  BY DEF ComposeIntake
<1>4. existing(got).narrated \in [Tabs -> Nat]
  BY <1>1, ViewPure, ReadsPure DEF PureData, CaseData
<1>5. d(got) \in PureData /\ d(got) \in CaseData
  <2>1. [existing(got).narrated EXCEPT !["intake"] = clock] \in [Tabs -> Nat]
    BY <1>4 DEF PureInv
  <2>. HIDE DEF existing
  <2>. QED
    BY <2>1, NothingPure DEF PureData, CaseData
<1>. HIDE DEF d
<1>6. answer \in Shown /\ answer \in Answers
  <2>1. answer \in Answers /\ answer.raised <= 1 /\ answer.tab = "intake"
    BY <1>1 DEF Composed, Answers, Threads, NoPlan, Plans, Route, Top, Routes, Tabs
  <2>. QED
    BY <2>1 DEF Shown, Labelled
<1>. HIDE DEF answer
<1>. DEFINE f == Orphaned(W(q))
            s == [f[q] EXCEPT !.phase = "save", !.draft = d(got), !.answer = answer]
<1>7. /\ f \in [Requests -> PureThreads] /\ f[q].todo = request[q].todo
      /\ f[q].worker = W(q) /\ f[q].live = FALSE
  BY <1>1, OrphanedPure DEF Orphaned, Threads
<1>. HIDE DEF f
<1>8. /\ s \in Threads /\ s.todo = request[q].todo /\ s.phase = "save"
      /\ s.data = f[q].data /\ s.data \in PureData /\ s.draft = d(got)
      /\ s.live = FALSE /\ s.worker = W(q) /\ s.answer = answer
  <2>1. f[q] \in Threads /\ f[q].data \in PureData
    BY <1>7, ThreadParts
  <2>. QED
    BY <1>5, <1>6, <1>7, <2>1 DEF Threads
<1>9. s \in PureThreads /\ ~Needs(s)
  BY <1>1, <1>5, <1>6, <1>8 DEF PureThreads, Running, Needs
<1>10. request' = [f EXCEPT ![q] = s]
  BY <1>2 DEF f
<1>. HIDE DEF s
<1>11. store' \in [Workers -> PureData \cup {Cold}]
       /\ \A w \in Workers : Warm(w) => store'[w] # Cold
  BY <1>1, <1>2, <1>5, DictIsWarm DEF PureInv, Warm
<1>12. request' \in [Requests -> PureThreads] /\ WarmInv'
  <2>1. \A p \in Requests : Needs(f[p]) => Needs(request[p]) /\ f[p].worker = request[p].worker
    BY <1>1, OrphansNeed DEF f
  <2>. QED
    BY <1>7, <1>9, <1>10, <1>11, <2>1, WarmKept
<1>13. left' \in 0..MaxEvents
  BY <1>2, CountNat, HappensTyped
<1>. QED
  BY <1>3, <1>11, <1>12, <1>13 DEF PureInv

\* A generated tab is written to the worker's dict and to what goes into the row.
LEMMA ComposeTabPure ==
    ASSUME PureInv, WarmInv, NEW q \in Requests, ComposeTab(q)
    PROVE  PureInv' /\ WarmInv'
<1>1. /\ request[q] \in PureThreads /\ request[q] \in Threads /\ request[q].phase = "agent"
      /\ request[q].todo # <<>> /\ PlanLast(request[q].todo) /\ W(q) \in Workers /\ request[q].worker = W(q)
      /\ Route(q) \in Tabs \ {"intake"} /\ Warm(W(q))
  BY Flying DEF ComposeTab, At, W
<1>. DEFINE tab == Route(q)
            narrated == [Forwarded(q) EXCEPT ![tab] = clock]
            steps(edit) == IF tab # "plan" THEN NoPlan
                           ELSE IF edit # NoPlan /\ request[q].before # NoPlan
                           THEN request[q].before ELSE ByAgent(clock)
            kept(graphUp, edit) ==
                [Section(tab, store[W(q)], graphUp, edit) EXCEPT !.narrated = narrated]
            draft(graphUp, edit) ==
                [Section(tab, View(q), graphUp, edit) EXCEPT !.narrated = narrated]
            answer(graphUp, edit) ==
                Composed(q, edit, steps(edit), IF tab = "risk_assessment" THEN Count(graphUp) ELSE 0)
<1>2. PICK graphUp \in BOOLEAN, edit \in EditReads(q) :
          /\ Happens(Count(~graphUp) + Count(EditMissed(q, edit)))
          /\ store' = [store EXCEPT ![W(q)] =
                [Section(tab, @, graphUp, edit) EXCEPT !.narrated = narrated]]
          /\ request' = [request EXCEPT ![q] =
                [@ EXCEPT !.phase = "save", !.draft = draft(graphUp, edit),
                          !.answer = answer(graphUp, edit)]]
  BY DEF ComposeTab
<1>3. UNCHANGED <<row, override, lastChange, clock>>
  BY DEF ComposeTab
<1>4. narrated \in [Tabs -> Nat]
  <2>1. View(q).narrated \in [Tabs -> Nat] /\ clock \in Nat
    BY <1>1, ViewPure DEF PureData, CaseData, PureInv
  <2>. QED
    BY <2>1 DEF Forwarded
<1>. HIDE DEF narrated
<1>5. kept(graphUp, edit) \in PureData /\ draft(graphUp, edit) \in PureData
  <2>1. store[W(q)] \in PureData /\ View(q) \in PureData /\ clock \in Nat
    BY <1>1, ViewPure DEF PureInv
  <2>. QED
    BY <1>1, <1>4, <2>1, SectionPure
<1>6. answer(graphUp, edit) \in Shown /\ answer(graphUp, edit) \in Answers
  <2>1. edit \in Plans /\ clock \in Nat
    BY ReadsPure DEF PureInv
  <2>2. request[q].before \in Plans /\ request[q].stale \in BOOLEAN
    BY <1>1 DEF Threads
  <2>3. steps(edit) \in Plans
    BY <2>1, <2>2 DEF NoPlan, ByAgent, Plans
  <2>4. (IF tab = "risk_assessment" THEN Count(graphUp) ELSE 0) \in 0..1
    BY DEF Count
  <2>5. Labelled(answer(graphUp, edit))
    BY DEF Composed, Labelled, ByAgent
  <2>. HIDE DEF steps
  <2>6. answer(graphUp, edit) \in Answers /\ answer(graphUp, edit).raised <= 1
    BY <1>1, <2>1, <2>2, <2>3, <2>4 DEF Composed, Answers, Routes
  <2>. QED
    BY <2>5, <2>6 DEF Shown
<1>7. store' = [store EXCEPT ![W(q)] = kept(graphUp, edit)]
  BY <1>2
<1>. HIDE DEF kept, draft, answer
<1>. DEFINE s == [request[q] EXCEPT !.phase = "save", !.draft = draft(graphUp, edit),
                                    !.answer = answer(graphUp, edit)]
<1>8. /\ s \in Threads /\ s.todo = request[q].todo /\ s.phase = "save"
      /\ s.data = request[q].data /\ s.draft = draft(graphUp, edit) /\ s.worker = W(q)
      /\ s.answer = answer(graphUp, edit)
  BY <1>1, <1>5, <1>6 DEF Threads, PureData
<1>9. s \in PureThreads
  BY <1>1, <1>5, <1>6, <1>8 DEF PureThreads, Running
<1>10. request' = [request EXCEPT ![q] = s]
  BY <1>2
<1>. HIDE DEF s
<1>11. store' \in [Workers -> PureData \cup {Cold}]
       /\ \A w \in Workers : Warm(w) => store'[w] # Cold
  BY <1>1, <1>5, <1>7, DictIsWarm DEF PureInv, PureData, Warm
<1>12. request' \in [Requests -> PureThreads] /\ WarmInv'
  <2>1. request \in [Requests -> PureThreads]
    BY DEF PureInv
  <2>. QED
    BY <1>1, <1>8, <1>9, <1>10, <1>11, <2>1, WarmKept
<1>13. left' \in 0..MaxEvents
  <2>1. Count(~graphUp) + Count(EditMissed(q, edit)) \in Nat
    BY CountNat
  <2>. QED
    BY <1>2, <2>1, HappensTyped
<1>. QED
  BY <1>3, <1>11, <1>12, <1>13 DEF PureInv

\* The copilot's case data is given the edit, beside the plan and not in its place.
LEMMA ConsultPure ==
    ASSUME PureInv, WarmInv, NEW q \in Requests, Consult(q)
    PROVE  PureInv' /\ WarmInv'
<1>1. /\ request[q] \in PureThreads /\ request[q] \in Threads /\ request[q].phase = "check"
      /\ request[q].todo # <<>> /\ PlanLast(request[q].todo) /\ W(q) \in Workers /\ request[q].worker = W(q)
      /\ Route(q) = "copilot" /\ Head(request[q].todo).route = "copilot"
  BY Flying DEF Consult, At, W, Route, Top
<1>2. Warm(W(q))
  BY <1>1 DEF WarmInv, Needs
<1>. DEFINE human(edit) == IF edit # NoPlan THEN edit ELSE View(q).human
            d(edit) == [View(q) EXCEPT !.human = human(edit)]
            answer(edit) ==
                [Composed(q, edit, IF human(edit) # NoPlan THEN human(edit) ELSE d(edit).plan, 0)
                    EXCEPT !.before = edit]
            data(edit) == IF request[q].live THEN request[q].data ELSE d(edit)
            next(edit) == [request[q] EXCEPT !.phase = "agent", !.data = data(edit),
                                             !.before = edit, !.answer = answer(edit)]
<1>3. PICK edit \in EditReads(q) :
          /\ Happens(Count(EditMissed(q, edit)))
          /\ store' = IF request[q].live THEN [store EXCEPT ![W(q)] = d(edit)] ELSE store
          /\ request' = [request EXCEPT ![q] = next(edit)]
  BY DEF Consult
<1>4. UNCHANGED <<row, override, lastChange, clock>>
  BY DEF Consult
<1>5. edit \in Plans /\ View(q) \in PureData
  BY <1>1, <1>2, ReadsPure, ViewPure
<1>6. /\ human(edit) \in Plans /\ d(edit) \in PureData /\ d(edit) \in CaseData
      /\ d(edit).plan \in Plans
  BY <1>5 DEF PureData, CaseData
<1>. HIDE DEF human, d
<1>7. answer(edit) \in Shown /\ answer(edit) \in Answers
  <2>1. request[q].before \in Plans /\ request[q].stale \in BOOLEAN
    BY <1>1 DEF Threads
  <2>2. answer(edit) \in Answers /\ answer(edit).raised <= 1 /\ answer(edit).tab = "copilot"
    BY <1>1, <1>5, <1>6, <2>1 DEF Composed, Answers, Routes
  <2>. QED
    BY <2>2 DEF Shown, Labelled
<1>. HIDE DEF answer
<1>. DEFINE s == next(edit)
<1>8. data(edit) \in PureData /\ data(edit) \in CaseData
  BY <1>1, <1>6, ThreadParts DEF PureData
<1>9. request' = [request EXCEPT ![q] = s]
  BY <1>3
<1>. HIDE DEF data
<1>10. /\ s \in Threads /\ s.todo = request[q].todo /\ s.phase = "agent"
       /\ s.data = data(edit) /\ s.draft = request[q].draft /\ s.worker = W(q)
       /\ s.answer = answer(edit)
  BY <1>1, <1>5, <1>7, <1>8 DEF Threads
<1>11. s \in PureThreads
  BY <1>1, <1>7, <1>8, <1>10 DEF PureThreads, Running
<1>. HIDE DEF s
<1>12. store' \in [Workers -> PureData \cup {Cold}]
       /\ \A w \in Workers : Warm(w) => store'[w] # Cold
  BY <1>1, <1>3, <1>6, DictIsWarm DEF PureInv, Warm
<1>13. request' \in [Requests -> PureThreads] /\ WarmInv'
  <2>1. request \in [Requests -> PureThreads]
    BY DEF PureInv
  <2>. QED
    BY <1>1, <1>2, <1>9, <1>10, <1>11, <1>12, <2>1, WarmKept
<1>14. left' \in 0..MaxEvents
  BY <1>3, CountNat, HappensTyped
<1>. QED
  BY <1>4, <1>12, <1>13, <1>14 DEF PureInv

\* What the copilot's tools write is no edit.
LEMMA ReplyPure ==
    ASSUME PureInv, WarmInv, NEW q \in Requests, Reply(q)
    PROVE  PureInv' /\ WarmInv'
<1>1. /\ request[q] \in PureThreads /\ request[q] \in Threads /\ request[q].phase = "agent"
      /\ request[q].todo # <<>> /\ PlanLast(request[q].todo) /\ W(q) \in Workers /\ request[q].worker = W(q)
  BY Flying DEF Reply, At, W
<1>2. UNCHANGED <<row, override, lastChange, clock, left>>
  BY DEF Reply
<1>3. CASE /\ request' = [request EXCEPT ![q] = Answered(@, @.answer)]
           /\ UNCHANGED store
  <2>1. request[q].answer \in Shown \cup {Unanswered}
    BY <1>1, ThreadParts
  <2>. QED
    BY <1>1, <1>2, <1>3, <2>1, AnsweredPure, Moves DEF PureInv
<1>4. ASSUME NEW tool \in Tools, Warm(W(q)),
             store' = [store EXCEPT ![W(q)] = Tooled(tool, @)],
             request' = [request EXCEPT ![q] =
                [@ EXCEPT !.phase = "save", !.draft = Tooled(tool, View(q))]]
      PROVE  PureInv' /\ WarmInv'
  <2>. DEFINE kept == Tooled(tool, store[W(q)])
              draft == Tooled(tool, View(q))
              s == [request[q] EXCEPT !.phase = "save", !.draft = draft]
  <2>1. kept \in PureData /\ draft \in PureData /\ kept \in CaseData /\ draft \in CaseData
    <3>1. store[W(q)] \in PureData /\ View(q) \in PureData
      BY <1>4, ViewPure
    <3>2. kept \in PureData /\ draft \in PureData
      BY <3>1, ToolPure
    <3>. QED
      BY <3>2 DEF PureData
  <2>2. store' = [store EXCEPT ![W(q)] = kept] /\ request' = [request EXCEPT ![q] = s]
    BY <1>4
  <2>. HIDE DEF kept, draft
  <2>3. /\ s \in Threads /\ s.todo = request[q].todo /\ s.phase = "save"
        /\ s.data = request[q].data /\ s.draft = draft /\ s.worker = W(q)
        /\ s.answer = request[q].answer
    BY <1>1, <2>1 DEF Threads
  <2>4. s \in PureThreads
    BY <1>1, <2>1, <2>3 DEF PureThreads, Running
  <2>. HIDE DEF s
  <2>5. store' \in [Workers -> PureData \cup {Cold}]
        /\ \A w \in Workers : Warm(w) => store'[w] # Cold
    BY <1>1, <2>1, <2>2, DictIsWarm DEF PureInv, Warm
  <2>6. request \in [Requests -> PureThreads]
    BY DEF PureInv
  <2>7. request' \in [Requests -> PureThreads] /\ WarmInv'
    <3>1. store'[s.worker] # Cold
      BY <1>1, <1>4, <2>3, <2>5
    <3>2. request' = [request EXCEPT ![q] = s]
      BY <2>2
    <3>. QED
      BY <2>4, <2>5, <2>6, <3>1, <3>2, WarmKept
  <2>. QED
    BY <1>2, <2>5, <2>7 DEF PureInv
<1>. QED
  BY <1>3, <1>4 DEF Reply

\* The row is written whole from a pure dict, stripped, or not at all.
LEMMA PersistPure ==
    ASSUME PureInv, WarmInv, NEW q \in Requests, Persist(q)
    PROVE  PureInv' /\ WarmInv'
<1>1. /\ request[q] \in PureThreads /\ request[q] \in Threads /\ request[q].todo # <<>>
      /\ PlanLast(request[q].todo)
      /\ request[q].draft \in PureData /\ request[q].answer \in Shown \cup {Unanswered}
  BY Flying, ThreadParts DEF Persist, At, Threads
<1>2. request' \in [Requests -> PureThreads] /\ WarmInv'
  BY <1>1, AnsweredPure, Moves DEF Persist
<1>3. row' \in Rows /\ row'.data \in PureData
  <2>1. row' = row \/ row' = [data |-> Strip(request[q].draft), at |-> clock]
    BY DEF Persist
  <2>. QED
    BY <1>1, <2>1, StripPure DEF PureInv
<1>4. left' \in 0..MaxEvents
  BY HappensTyped DEF Persist, PureInv
<1>. QED
  BY <1>2, <1>3, <1>4 DEF Persist, PureInv

\* A restart takes the dict together with the threads that needed it.
LEMMA RestartPure ==
    ASSUME PureInv, WarmInv, NEW w \in Workers, Restart(w)
    PROVE  PureInv' /\ WarmInv'
<1>1. store' = [store EXCEPT ![w] = Cold] /\ UNCHANGED <<row, override, lastChange, clock>>
  BY DEF Restart
<1>2. ASSUME NEW q \in Requests
      PROVE  /\ request'[q] \in PureThreads
             /\ Needs(request'[q]) => Needs(request[q]) /\ request'[q] = request[q] /\ W(q) # w
  <2>1. request[q] \in PureThreads /\ request[q] \in Threads
    BY ThreadParts DEF PureInv
  <2>2. CASE InFlight(q) /\ W(q) = w
    BY <2>1, <2>2, FailedPure DEF Restart
  <2>3. CASE ~(InFlight(q) /\ W(q) = w)
    <3>1. request'[q] = request[q]
      BY <2>3 DEF Restart
    <3>2. Needs(request[q]) => InFlight(q)
      BY <2>1 DEF PureThreads, Needs, InFlight
    <3>. QED
      BY <2>1, <2>3, <3>1, <3>2
  <2>. QED
    BY <2>2, <2>3
<1>3. request' \in [Requests -> PureThreads]
  BY <1>2 DEF Restart
<1>4. WarmInv'
  <2>1. ASSUME NEW q \in Requests, Needs(request'[q])
        PROVE  store'[request'[q].worker] # Cold
    <3>1. request[q].worker \in Workers /\ request[q].worker # w /\ request'[q] = request[q]
      BY <1>2, <2>1, ThreadParts DEF PureInv, W
    <3>. QED
      BY <1>1, <1>2, <2>1, <3>1 DEF WarmInv, Warm, PureInv
  <2>. QED
    BY <2>1 DEF WarmInv, Warm, Needs
<1>5. store' \in [Workers -> PureData \cup {Cold}]
  BY <1>1 DEF PureInv
<1>6. left' \in 0..MaxEvents
  BY HappensTyped DEF Restart
<1>. QED
  BY <1>1, <1>3, <1>4, <1>5, <1>6 DEF PureInv

\* A verdict and an edit leave the dicts and the row alone.
LEMMA OutsidePure ==
    ASSUME PureInv, WarmInv, Verdict \/ SaveEdit \/ RevertToAI \/ UNCHANGED vars
    PROVE  PureInv' /\ WarmInv'
<1>1. /\ UNCHANGED <<store, row, request>> /\ left' \in 0..MaxEvents
      /\ clock' \in Nat /\ lastChange' \in Nat /\ override' \in Plans
  BY HappensTyped
  DEF Verdict, SaveEdit, RevertToAI, vars, stored, PureInv, ByInvestigator, NoPlan, Plans
<1>2. PureInv'
  BY <1>1 DEF PureInv
<1>3. WarmInv'
  BY <1>1 DEF WarmInv, Warm, Needs
<1>. QED
  BY <1>2, <1>3

---------------------------------------------------------------------------
\* For any number of processes and requests and any bound on what else happens, the dicts and
\* the row are pure, and the dict is there for whoever needs it (core/case_store.py).
THEOREM DictsPure == Spec => [](PureInv /\ WarmInv)
<1>1. Init => PureInv /\ WarmInv
  <2>. SUFFICES ASSUME Init PROVE PureInv /\ WarmInv
    OBVIOUS
  <2>1. ASSUME NEW q \in Requests
        PROVE  request[q] \in PureThreads /\ ~Needs(request[q])
    <3>1. 1 \in Workers
      BY Bounds DEF Workers
    <3>2. request[q] \in Threads
      BY <2>1, <3>1, NothingPure DEF Init, Threads, PureData, NoPlan, Plans
    <3>3. PlanLast(request[q].todo)
      BY <2>1 DEF Init, PlanLast
    <3>. QED
      BY <2>1, <3>2, <3>3, NothingPure DEF Init, PureThreads, Running, Needs
  <2>2. request \in [Requests -> PureThreads]
    BY <2>1 DEF Init
  <2>3. row \in Rows /\ row.data \in PureData
    BY NothingPure DEF Init
  <2>4. store \in [Workers -> PureData \cup {Cold}]
    BY DEF Init
  <2>5. left \in 0..MaxEvents
    BY Bounds DEF Init
  <2>6. override \in Plans /\ lastChange \in Nat /\ clock \in Nat
    BY DEF Init, NoPlan, Plans
  <2>7. WarmInv
    BY <2>1 DEF WarmInv
  <2>. QED
    BY <2>2, <2>3, <2>4, <2>5, <2>6, <2>7 DEF PureInv
<1>2. PureInv /\ WarmInv /\ [Next]_vars => (PureInv /\ WarmInv)'
  <2>. SUFFICES ASSUME PureInv, WarmInv, [Next]_vars PROVE PureInv' /\ WarmInv'
    OBVIOUS
  <2>1. ASSUME NEW q \in Requests, NEW w \in Workers, NEW asked \in Calls, Ask(q, w, asked)
        PROVE  PureInv' /\ WarmInv'
    BY <2>1, AskPure
  <2>2. ASSUME NEW q \in Requests, Serve(q)
        PROVE  PureInv' /\ WarmInv'
    BY <2>2, OpenPure, LoadPure, CheckPure, AgentFailsPure, ComposeIntakePure, ComposeTabPure,
       ConsultPure, ReplyPure, PersistPure DEF Serve
  <2>3. ASSUME NEW w \in Workers, Restart(w)
        PROVE  PureInv' /\ WarmInv'
    BY <2>3, RestartPure
  <2>4. CASE Verdict \/ SaveEdit \/ RevertToAI \/ UNCHANGED vars
    BY <2>4, OutsidePure
  <2>. QED
    BY <2>1, <2>2, <2>3, <2>4 DEF Next
<1>. QED
  BY <1>1, <1>2, PTL DEF Spec

\* The variables keep their types (core/case_store.py, api/services).
THEOREM NarrativesTyped == Spec => []TypeOK
<1>1. PureInv => TypeOK
  BY DEF PureInv, PureThreads, PureData, TypeOK
<1>. QED
  BY <1>1, DictsPure, PTL

\* An edit is never part of the plan a revert falls back to, in any process's CASE_STORE or in
\* the row, whatever is regenerated, cached, read back or restarted while it stands
\* (run_plan_pipeline, persist_case_session).
THEOREM BaselineStands == Spec => []BaselineIsAgents
<1>1. PureInv => BaselineIsAgents
  BY DEF PureInv, PureData, BaselineIsAgents, Warm
<1>. QED
  BY <1>1, DictsPure, PTL

\* Every write of a route to CASE_STORE[case_id] finds a dict there, on any number of
\* processes, also after another thread has replaced it (resolve_case_data).
THEOREM WritesFindTheirDict == Spec => []WarmWhileServed
<1>1. WarmInv => WarmWhileServed
  BY DEF WarmInv, WarmWhileServed, Needs, Route, Top, W
<1>. QED
  BY <1>1, DictsPure, PTL

\* The graph's signals are never added to a score that holds them already: not on a dict that
\* went through the row and came back, nor on one a thread kept from before
\* (strip_graph_derived_fields).
THEOREM RaisedOnce == Spec => []SignalsCountOnce
<1>1. PureInv => SignalsCountOnce
  <2>. SUFFICES ASSUME PureInv, NEW q \in Requests, request[q].answer # Unanswered
                PROVE  request[q].answer.raised <= 1
    BY DEF SignalsCountOnce
  <2>1. request[q].answer \in Shown
    BY ThreadParts DEF PureInv
  <2>. QED
    BY <2>1 DEF Shown
<1>. QED
  BY <1>1, DictsPure, PTL

\* A plan that names an edit shows that edit's steps, and one that names none the agent's, as
\* long as the edit was the same when the answer was begun and when it was labelled: served
\* from the cache or generated, first of its requests or last of a reload of everything
\* (apply_step_override_to_summary).
THEOREM PlansAreLabelled == Spec => []LabelsMatchSteps
<1>1. PureInv => LabelsMatchSteps
  <2>. SUFFICES ASSUME PureInv, NEW q \in Requests, request[q].answer # Unanswered
                PROVE  Labelled(request[q].answer)
    BY DEF LabelsMatchSteps, Labelled
  <2>1. request[q].answer \in Shown
    BY ThreadParts DEF PureInv
  <2>. QED
    BY <2>1 DEF Shown
<1>. QED
  BY <1>1, DictsPure, PTL

---------------------------------------------------------------------------
\* A step of the system leaves the phase of a thread it does not serve as it is, unless it
\* takes the thread's process down.
LEMMA OthersWait ==
    ASSUME PureInv, NEW q \in Requests, InFlight(q), [Next]_vars, ~Serve(q)
    PROVE  \/ request'[q].phase = request[q].phase
           \/ request'[q].phase = "failed" /\ left' # left
<1>1. \A r \in Requests : request[r] \in Threads
  BY ThreadParts DEF PureInv
<1>2. request \in [Requests -> PureThreads]
  BY DEF PureInv
<1>3. ASSUME NEW p \in Requests, NEW w \in Workers, NEW asked \in Calls, Ask(p, w, asked)
      PROVE  request'[q] = request[q]
  BY <1>2, <1>3 DEF Ask, At, InFlight
<1>4. ASSUME NEW p \in Requests, p # q, Serve(p)
      PROVE  request'[q].phase = request[q].phase
  <2>1. CASE Load(p) \/ ComposeIntake(p)
    <3>1. request'[q] = Orphaned(W(p))[q]
      BY <1>4, <2>1 DEF Load, ComposeIntake, Orphaned
    <3>. QED
      BY <1>1, <3>1 DEF Orphaned, Threads
  <2>2. CASE \/ Open(p) \/ Check(p) \/ AgentFails(p) \/ ComposeTab(p)
             \/ Consult(p) \/ Reply(p) \/ Persist(p)
    <3>1. request'[q] = request[q]
      BY <1>2, <1>4, <2>2
      DEF Open, Check, AgentFails, ComposeTab, Consult, Reply, Persist
    <3>. QED
      BY <3>1
  <2>. QED
    BY <1>4, <2>1, <2>2 DEF Serve
<1>5. ASSUME NEW w \in Workers, Restart(w)
      PROVE  \/ request'[q].phase = request[q].phase
             \/ request'[q].phase = "failed" /\ left' # left
  <2>1. left' = left - 1 /\ left \in Int
    BY <1>5 DEF Restart, Happens, PureInv
  <2>2. Failed(request[q]).phase = "failed"
    BY <1>1 DEF Failed, Ended, Cleared, Threads
  <2>. QED
    BY <1>5, <2>1, <2>2 DEF Restart
<1>6. CASE Verdict \/ SaveEdit \/ RevertToAI \/ UNCHANGED vars
  BY <1>6 DEF Verdict, SaveEdit, RevertToAI, vars
<1>. QED
  BY <1>3, <1>4, <1>5, <1>6 DEF Next

\* A run of a route leaves every narrative of another tab as it finds it in its worker's dict at
\* the end of its agent's run, when it holds that dict or is the intake, which copies it
\* (merge_agent_summary_cache).
THEOREM NarrativesKept == Spec => OtherTabsKept
<1>1. PureInv /\ WarmInv /\ [Next]_vars =>
        [\A q \in Requests :
            /\ At(q, "agent") /\ request'[q].phase = "save" /\ Route(q) \in Tabs
            /\ Warm(W(q)) /\ (request[q].live \/ Route(q) = "intake")
            => \A tab \in Tabs \ {Route(q)} :
                  store'[W(q)].narrated[tab] = store[W(q)].narrated[tab]]_vars
  <2>. SUFFICES ASSUME PureInv, WarmInv, [Next]_vars, NEW q \in Requests,
                       At(q, "agent"), request'[q].phase = "save", Route(q) \in Tabs, Warm(W(q)),
                       request[q].live \/ Route(q) = "intake", NEW tab \in Tabs \ {Route(q)}
                PROVE  store'[W(q)].narrated[tab] = store[W(q)].narrated[tab]
    OBVIOUS
  <2>1. InFlight(q) /\ request[q] \in Threads /\ W(q) \in Workers /\ store[W(q)] \in PureData
        /\ View(q) \in PureData /\ clock \in Nat
    BY Flying, ViewPure DEF At, InFlight, PureInv
  <2>2. Serve(q)
    BY <2>1, OthersWait DEF At
  <2>3. ComposeIntake(q) \/ ComposeTab(q)
    <3>1. ~AgentFails(q)
      <4>1. AgentFails(q) => request'[q] = Failed(request[q])
        BY DEF AgentFails, PureInv
      <4>. QED
        BY <2>1, <4>1 DEF Failed, Ended, Cleared, Threads
    <3>2. ~Open(q) /\ ~Load(q) /\ ~Check(q) /\ ~Consult(q) /\ ~Reply(q) /\ ~Persist(q)
      BY DEF Open, Load, Check, Consult, Reply, Persist, At, Tabs
    <3>. QED
      BY <2>2, <3>1, <3>2 DEF Serve
  <2>4. store[W(q)].narrated \in [Tabs -> Nat]
    BY <2>1 DEF PureData, CaseData
  <2>5. CASE ComposeIntake(q)
    <3>. DEFINE narrated == [store[W(q)].narrated EXCEPT !["intake"] = clock]
                d == [Nothing EXCEPT !.complaint = TRUE, !.narrated = narrated]
    <3>1. store' = [store EXCEPT ![W(q)] = d] /\ Route(q) = "intake"
      BY <2>5 DEF ComposeIntake
    <3>2. d.narrated = narrated
      BY DEF Nothing
    <3>. QED
      BY <2>1, <2>4, <3>1, <3>2 DEF PureInv
  <2>6. CASE ComposeTab(q)
    <3>. DEFINE narrated == [store[W(q)].narrated EXCEPT ![Route(q)] = clock]
    <3>1. Route(q) \in Tabs \ {"intake"} /\ Forwarded(q) = store[W(q)].narrated
      BY <2>6 DEF ComposeTab, Forwarded, View
    <3>2. PICK graphUp \in BOOLEAN, edit \in EditReads(q) :
            store' = [store EXCEPT ![W(q)] =
                [Section(Route(q), @, graphUp, edit) EXCEPT !.narrated = narrated]]
      BY <2>6, <3>1 DEF ComposeTab
    <3>3. narrated \in [Tabs -> Nat]
      BY <2>1, <2>4
    <3>4. narrated[tab] = store[W(q)].narrated[tab]
      BY <2>4
    <3>. HIDE DEF narrated
    <3>5. [Section(Route(q), store[W(q)], graphUp, edit) EXCEPT !.narrated = narrated].narrated
            = narrated
      BY <2>1, <3>1, <3>3, SectionPure
    <3>. QED
      BY <2>1, <3>2, <3>4, <3>5 DEF PureInv
  <2>. QED
    BY <2>3, <2>5, <2>6
<1>. QED
  BY <1>1, DictsPure, PTL DEF Spec, OtherTabsKept

\* A plan that is served from the cache goes by its own time, which no later write of the row
\* for another tab renews: a verdict given since is told, to whichever request asks, as long as
\* the graph, the row and the edit can be read. The plan's route is the last of its request, so
\* its answer is what the request shows (evaluate_cache_staleness).
THEOREM StaleIsTold == Spec => StalePlanIsTold
<1>1. PureInv /\ WarmInv /\ [Next]_vars =>
        [\A q \in Requests :
            /\ At(q, "check") /\ Route(q) = "plan" /\ left' = left
            /\ request'[q].phase \notin {"check", "agent"} /\ lastChange > View(q).narrated["plan"]
            => request'[q].answer.stale]_vars
  <2>. SUFFICES ASSUME PureInv, WarmInv, [Next]_vars, NEW q \in Requests,
                       At(q, "check"), Route(q) = "plan", left' = left,
                       request'[q].phase \notin {"check", "agent"},
                       lastChange > View(q).narrated["plan"]
                PROVE  request'[q].answer.stale
    OBVIOUS
  <2>1. /\ InFlight(q) /\ request[q] \in Threads /\ request[q].todo \in Seq(Frames)
        /\ request[q].todo # <<>> /\ PlanLast(request[q].todo) /\ left \in Nat
    BY Flying DEF At, InFlight, PureInv
  <2>2. Serve(q)
    BY <2>1, OthersWait DEF At
  <2>3. Check(q)
    BY <2>2 DEF Serve, Open, Load, AgentFails, ComposeIntake, ComposeTab, Consult, Reply, Persist, At
  <2>. DEFINE tab == Route(q)
              cold == tab = "intake" /\ ~Warm(W(q))
              d(got) == IF tab # "intake" THEN View(q) ELSE IF cold THEN got.data ELSE store[W(q)]
              late(got, graphUp) == graphUp /\ IsGraphNewer(lastChange, Basis(tab, d(got), got))
              stale(got, graphUp) ==
                graphUp /\ IsGraphNewer(lastChange, Basis("plan", View(q), got))
  <2>4. PICK got \in RowReads, graphUp \in BOOLEAN, edit \in EditReads(q) :
          /\ Happens(Count(got # row) + Count(~graphUp) + Count(EditMissed(q, edit)))
          /\ request' = [request EXCEPT ![q] =
                IF ~Cached(tab, d(got)) \/ (Top(q).reload /\ edit = NoPlan)
                THEN [@ EXCEPT !.phase = "agent", !.before = edit, !.stale = late(got, graphUp)]
                ELSE IF cold THEN [@ EXCEPT !.phase = "load", !.data = d(got),
                                            !.stale = late(got, graphUp)]
                ELSE Answered(@, FromCache(tab, d(got), edit, late(got, graphUp), graphUp))]
    BY <2>3 DEF Check
  <2>5. tab = "plan" /\ ~cold /\ d(got) = View(q) /\ late(got, graphUp) = stale(got, graphUp)
    OBVIOUS
  <2>. HIDE DEF tab, cold, d, late, stale
  <2>6. /\ Happens(Count(got # row) + Count(~graphUp) + Count(EditMissed(q, edit)))
        /\ request' = [request EXCEPT ![q] =
              IF ~Cached("plan", View(q)) \/ (Top(q).reload /\ edit = NoPlan)
              THEN [@ EXCEPT !.phase = "agent", !.before = edit, !.stale = stale(got, graphUp)]
              ELSE Answered(@, FromCache("plan", View(q), edit, stale(got, graphUp), graphUp))]
    BY <2>4, <2>5
  <2>7. graphUp
    <3>1. Count(got # row) + Count(~graphUp) + Count(EditMissed(q, edit)) = 0
      <4>1. Count(got # row) + Count(~graphUp) + Count(EditMissed(q, edit)) \in Nat
        BY CountNat
      <4>. QED
        BY <2>1, <2>6, <4>1 DEF Happens
    <3>2. Count(got # row) \in Nat /\ Count(~graphUp) \in Nat /\ Count(EditMissed(q, edit)) \in Nat
      BY CountNat
    <3>3. Count(~graphUp) = 0
      BY <3>1, <3>2
    <3>. QED
      BY <3>3 DEF Count
  <2>. DEFINE a == FromCache("plan", View(q), edit, stale(got, graphUp), graphUp)
  <2>8. ~(~Cached("plan", View(q)) \/ (Top(q).reload /\ edit = NoPlan))
    <3>. DEFINE s == [request[q] EXCEPT !.phase = "agent", !.before = edit,
                                        !.stale = stale(got, graphUp)]
    <3>1. s.phase = "agent"
      BY <2>1 DEF Threads
    <3>. HIDE DEF stale
    <3>2. ASSUME ~Cached("plan", View(q)) \/ (Top(q).reload /\ edit = NoPlan) PROVE FALSE
      <4>1. request'[q] = s
        BY <2>6, <3>2 DEF PureInv
      <4>. QED
        BY <3>1, <4>1
    <3>. QED
      BY <3>2
  <2>9. request'[q] = Answered(request[q], a)
    BY <2>6, <2>8 DEF PureInv
  <2>10. stale(got, graphUp)
    BY <2>7, <2>8 DEF stale, Cached, Basis, IsGraphNewer
  <2>11. Len(request[q].todo) = 1
    <3>1. 1 \in DOMAIN request[q].todo /\ Head(request[q].todo) = request[q].todo[1]
      BY <2>1, HeadTailProperties, EmptySeq, LenProperties
    <3>2. Head(request[q].todo).route = "plan"
      BY DEF Route, Top
    <3>. QED
      BY <2>1, <3>1, <3>2 DEF PlanLast
  <2>12. a.stale = stale(got, graphUp)
    BY DEF FromCache
  <2>. HIDE DEF a, stale
  <2>13. request'[q].answer = a
    <3>1. Answered(request[q], a) = [Ended(request[q], "done") EXCEPT !.answer = a]
      BY <2>11 DEF Answered
    <3>. QED
      BY <2>1, <2>9, <3>1 DEF Ended, Cleared, Threads
  <2>. QED
    BY <2>10, <2>12, <2>13
<1>. QED
  BY <1>1, DictsPure, PTL DEF Spec, StalePlanIsTold
=============================================================================
