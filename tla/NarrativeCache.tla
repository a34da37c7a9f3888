-------------------------- MODULE NarrativeCache --------------------------
(***************************************************************************)
(* One case's generated narratives and the copies the server keeps of      *)
(* them: the dict each worker process holds in CASE_STORE, shared by       *)
(* reference between its requests (core/case_store.py); the row of         *)
(* case_ai_summary_store every route writes whole; and the investigator's  *)
(* edit of the plan's steps (core/investigation_plan_override_repository). *)
(* The routes are those of api/services: each resolves the case's data,    *)
(* answers from its cached narrative or asks the agent, and writes the     *)
(* result to the dict and then to the row.                                 *)
(***************************************************************************)
EXTENDS Naturals, Sequences

CONSTANTS
    NWorkers,       \* server processes, in the order they are first asked
    NRequests,      \* the requests of a behaviour, in the order they come
    Calls,          \* what a request may ask for: <<"open" or "reload", route>>, ReloadAll
    MaxEvents       \* what else happens: verdicts, edits, failures and restarts

Workers == 1..NWorkers
Requests == 1..NRequests
Tabs == {"intake", "similar_cases", "risk_assessment", "plan"}
Routes == Tabs \cup {"copilot"}
ReloadAll == <<"reload", "all">>

ASSUME Bounds == /\ Calls \subseteq ({"open", "reload"} \X Routes) \cup {ReloadAll}
                 /\ {NRequests, MaxEvents} \subseteq Nat /\ NWorkers \in Nat \ {0}

VARIABLES
    store,         \* [Workers -> the dict CASE_STORE holds]
    row,           \* case_ai_summary_store
    override,      \* investigation_plan_overrides
    lastChange,    \* (:Case).last_inference_change_at
    request,       \* [Requests -> the request's thread]
    clock,         \* the time, as the number of verdicts and edits: only their order with a stamp counts
    left           \* how much else may still happen

vars == <<store, row, override, lastChange, request, clock, left>>
stored == <<store, row, override>>

\* the steps of a plan, by the time of the run or of the save they come from
Plans == {"agent", "investigator", "none", "skeleton"} \X Nat
NoPlan == <<"none", 0>>
Skeleton == <<"skeleton", 0>>      \* the plan tool's metadata, which has no steps
ByAgent(time) == <<"agent", time>>
ByInvestigator(time) == <<"investigator", time>>

\* how often the graph's signals have been added to the score, and whether the score
\* before them (base_risk_score) is kept beside it
Scores == [raised : 0..1, base : BOOLEAN]
NoScore == [none |-> TRUE]

CaseData == [complaint : BOOLEAN,            \* complaint_intelligence
             matches : BOOLEAN,              \* similar_cases
             risk : Scores \cup {NoScore},   \* risk_assessment
             plan : Plans,                   \* investigation_plan
             narrated : [Tabs -> Nat],       \* agent_summary_cache: generated_at, 0 where absent
             human : Plans]                  \* modified_ai_investigation_plan
Nothing == [complaint |-> FALSE, matches |-> FALSE, risk |-> NoScore, plan |-> NoPlan,
            narrated |-> [t \in Tabs |-> 0], human |-> NoPlan]
Cold == [cold |-> TRUE]

\* a row is written without matches
Rows == [data : {d \in CaseData : ~d.matches}, at : Nat]
NoRow == [data |-> Nothing, at |-> 0]

Frames == [route : Routes, reload : BOOLEAN, again : BOOLEAN]
Frame(route, reload) == [route |-> route, reload |-> reload, again |-> FALSE]

\* steps: what the answer shows or rests on; edit: the edit it names as modified_by;
\* before: the edit as read before the agent ran; raised: the score shown
Answers == [tab : Routes, steps : Plans,
            edit : Plans, before : Plans,
            stale : BOOLEAN, raised : 0..2]
Unanswered == [tab |-> "none"]

Threads == [phase : {"idle", "open", "load", "check", "agent", "save", "done", "failed"},
            worker : Workers,
            todo : Seq(Frames),
            live : BOOLEAN,        \* its case_data is the worker's own dict
            data : CaseData,       \* its case_data otherwise
            before : Plans,
            stale : BOOLEAN,
            draft : CaseData,      \* the ai_summary it is about to persist
            answer : Answers \cup {Unanswered}]

Init ==
    /\ store = [w \in Workers |-> Cold]
    /\ row = NoRow
    /\ override = NoPlan
    /\ lastChange = 0
    /\ request = [q \in Requests |-> [phase |-> "idle", worker |-> 1,
                                      todo |-> <<>>, live |-> FALSE, data |-> Nothing,
                                      before |-> NoPlan, stale |-> FALSE, draft |-> Nothing,
                                      answer |-> Unanswered]]
    /\ clock = 1
    /\ left = MaxEvents
---------------------------------------------------------------------------
At(q, phase) == request[q].phase = phase
W(q) == request[q].worker
Top(q) == Head(request[q].todo)
Route(q) == Top(q).route
Warm(w) == store[w] # Cold
View(q) == IF request[q].live THEN store[W(q)] ELSE request[q].data
Count(condition) == IF condition THEN 1 ELSE 0

\* a verdict, an edit, a restart, or n failed statements, graph reads or agent runs
Happens(n) == n <= left /\ left' = left - n

\* a read of the row or of the edit is answered with nothing while PostgreSQL is away
RowReads == {row, NoRow}
EditReads(q) == IF Route(q) \in {"plan", "copilot"} THEN {override, NoPlan} ELSE {NoPlan}
EditMissed(q, edit) == Route(q) \in {"plan", "copilot"} /\ edit # override

\* who holds a worker's dict when another takes its place keeps it, and nobody updates it
Orphaned(w) ==
    [q \in Requests |-> IF W(q) = w /\ request[q].live
                        THEN [request[q] EXCEPT !.live = FALSE, !.data = store[w]]
                        ELSE request[q]]

Cleared(r) == [r EXCEPT !.live = FALSE, !.data = Nothing, !.before = NoPlan,
                        !.stale = FALSE, !.draft = Nothing]
Opening(r, todo) ==
    [Cleared(r) EXCEPT !.todo = todo, !.answer = Unanswered,
                       !.phase = IF Head(todo).route = "intake" THEN "check" ELSE "open"]
Ended(r, phase) == [Cleared(r) EXCEPT !.todo = <<>>, !.phase = phase]
Failed(r) == [Ended(r, "failed") EXCEPT !.answer = Unanswered]

\* reload_all: each route in turn, stopping at the first that fails
Todo(call) ==
    IF call = ReloadAll
    THEN <<Frame("intake", TRUE), Frame("similar_cases", TRUE),
           Frame("risk_assessment", TRUE), Frame("plan", TRUE)>>
    ELSE <<Frame(call[2], call[1] = "reload")>>

Answered(r, answer) ==
    IF Len(r.todo) = 1 THEN [Ended(r, "done") EXCEPT !.answer = answer]
    ELSE Opening(r, Tail(r.todo))

Ask(q, w, call) ==
    /\ At(q, "idle") /\ \A p \in 1..(q - 1) : ~At(p, "idle")
    /\ w <= q
    /\ request' = [request EXCEPT ![q] = Opening([@ EXCEPT !.worker = w], Todo(call))]
    /\ UNCHANGED <<stored, lastChange, clock, left>>

\* the route whose output each needs, and whether a dict has it
Prerequisite == [similar_cases |-> "intake", risk_assessment |-> "similar_cases",
                 plan |-> "risk_assessment"]
Provided(route, d) ==
    CASE route = "similar_cases"   -> d.complaint
      [] route = "risk_assessment" -> d.matches
      [] route = "plan"            -> d.risk # NoScore
      [] OTHER                     -> TRUE

\* a slip: the prerequisite is run again for as long as its output is missing
UpstreamUntilThere(r) ==
    Opening(r, <<Frame(Prerequisite[Head(r.todo).route], FALSE)>> \o r.todo)
Upstream(r) ==
    Opening(r, <<Frame(Prerequisite[Head(r.todo).route], FALSE),
                 [Head(r.todo) EXCEPT !.again = TRUE]>> \o Tail(r.todo))

\* a missing prerequisite is run once, whatever comes of it
Resolved(r, d) ==
    IF Provided(Head(r.todo).route, d) \/ Head(r.todo).again
    THEN [r EXCEPT !.phase = "check"]
    ELSE Upstream(r)

\* the worker's dict, by reference, or else what the row holds
Open(q) ==
    /\ At(q, "open")
    /\ \/ /\ Warm(W(q))
          /\ request' = [request EXCEPT ![q] = Resolved([@ EXCEPT !.live = TRUE], store[W(q)])]
          /\ UNCHANGED left
       \/ /\ ~Warm(W(q))
          /\ \E got \in RowReads :
                /\ Happens(Count(got # row))
                /\ request' = [request EXCEPT ![q] =
                      IF got # NoRow THEN [@ EXCEPT !.phase = "load", !.data = got.data]
                      ELSE IF Top(q).again \/ Route(q) = "copilot" THEN Failed(@)
                      ELSE Upstream(@)]
    /\ UNCHANGED <<stored, lastChange, clock>>

\* how much of the score shown comes from the graph's signals, on top of what base there is
Raised(risk, graphUp) == (IF risk.base THEN 0 ELSE risk.raised) + Count(graphUp)

\* a slip: the narrative is served as cached, although the answer names the edit
StepsUnspliced(tab, d, edit) == IF tab = "plan" THEN ByAgent(d.narrated.plan) ELSE NoPlan
StepsShown(tab, d, edit) ==
    IF tab # "plan" THEN NoPlan ELSE IF edit # NoPlan THEN edit ELSE ByAgent(d.narrated.plan)

FromCache(tab, d, edit, stale, graphUp) ==
    [tab |-> tab, steps |-> StepsShown(tab, d, edit),
     edit |-> edit, before |-> edit, stale |-> stale,
     raised |-> IF tab = "risk_assessment" THEN Raised(d.risk, graphUp) ELSE 0]

\* a slip: the row read from PostgreSQL is not put in CASE_STORE
LoadAside(q) ==
    /\ At(q, "load")
    /\ request' = [request EXCEPT ![q] =
          IF Route(q) = "intake"
          THEN Answered(@, FromCache("intake", @.data, NoPlan, @.stale, TRUE))
          ELSE Resolved(@, @.data)]
    /\ UNCHANGED <<stored, lastChange, clock, left>>

\* the dict made of the row takes the place of whatever another thread has put there meanwhile
Load(q) ==
    /\ At(q, "load")
    /\ store' = [store EXCEPT ![W(q)] = request[q].data]
    /\ LET r == [request[q] EXCEPT !.live = TRUE, !.data = Nothing]
       IN  request' = [Orphaned(W(q)) EXCEPT ![q] =
             IF Route(q) = "intake"
             THEN Answered(r, FromCache("intake", request[q].data, NoPlan, r.stale, TRUE))
             ELSE Resolved(r, request[q].data)]
    /\ UNCHANGED <<row, override, lastChange, clock, left>>

\* a slip: every tab goes by the time the row was last written
BasisShared(tab, d, got) == got.at
\* evaluate_cache_staleness: the plan goes by its own time, the others by the row's
Basis(tab, d, got) ==
    IF tab = "plan" /\ d.narrated.plan # 0 THEN d.narrated.plan ELSE got.at

IsGraphNewer(changed, generated) == generated # 0 /\ changed > generated

Cached(tab, d) ==
    /\ d.narrated[tab] # 0
    /\ tab = "risk_assessment" => d.risk # NoScore
    /\ tab = "plan" => d.plan # NoPlan

\* the cached narrative, or else the agent; a cached plan with an edit is not generated afresh
Check(q) ==
    /\ At(q, "check") /\ Route(q) \in Tabs
    /\ \E got \in RowReads, graphUp \in BOOLEAN, edit \in EditReads(q) :
          LET tab == Route(q)
              cold == tab = "intake" /\ ~Warm(W(q))
              d == IF tab # "intake" THEN View(q) ELSE IF cold THEN got.data ELSE store[W(q)]
              stale == graphUp /\ IsGraphNewer(lastChange, Basis(tab, d, got))
          IN  /\ Happens(Count(got # row) + Count(~graphUp) + Count(EditMissed(q, edit)))
              /\ request' = [request EXCEPT ![q] =
                    IF ~Cached(tab, d) \/ (Top(q).reload /\ edit = NoPlan)
                    THEN [@ EXCEPT !.phase = "agent", !.before = edit, !.stale = stale]
                    ELSE IF cold THEN [@ EXCEPT !.phase = "load", !.data = d, !.stale = stale]
                    ELSE Answered(@, FromCache(tab, d, edit, stale, graphUp))]
    /\ UNCHANGED <<stored, lastChange, clock>>

AgentFails(q) ==
    /\ At(q, "agent")
    /\ Happens(1)
    /\ request' = [request EXCEPT ![q] = Failed(@)]
    /\ UNCHANGED <<stored, lastChange, clock>>

\* a slip: the narratives carried forward are those of the last row, whatever the dict holds
ForwardedFromRow(q) == row.data.narrated
\* merge_agent_summary_cache: the other tabs' narratives, from the request's case_data
Forwarded(q) == View(q).narrated

Composed(q, edit, steps, raised) ==
    [tab |-> Route(q), steps |-> steps, edit |-> edit,
     before |-> request[q].before, stale |-> request[q].stale, raised |-> raised]

\* the fresh intake's sections take the place of the dict, with the other tabs' narratives
ComposeIntake(q) ==
    /\ At(q, "agent") /\ Route(q) = "intake"
    /\ \E got \in IF Warm(W(q)) THEN {row} ELSE RowReads :
          LET existing == IF Warm(W(q)) THEN store[W(q)] ELSE got.data
              d == [Nothing EXCEPT !.complaint = TRUE,
                                   !.narrated = [existing.narrated EXCEPT !["intake"] = clock]]
          IN  /\ Happens(Count(got # row))
              /\ store' = [store EXCEPT ![W(q)] = d]
              /\ request' = [Orphaned(W(q)) EXCEPT ![q] =
                    [@ EXCEPT !.phase = "save", !.draft = d,
                              !.answer = Composed(q, NoPlan, NoPlan, 0)]]
    /\ UNCHANGED <<row, override, lastChange, clock>>

\* a slip: the edit is made part of the plan that is stored
SectionWithEdit(tab, d, graphUp, edit) ==
    CASE tab = "similar_cases"   -> [d EXCEPT !.matches = TRUE]
      [] tab = "risk_assessment" -> [d EXCEPT !.risk = [raised |-> Count(graphUp), base |-> graphUp]]
      [] tab = "plan" -> [d EXCEPT !.plan = IF edit = NoPlan THEN ByAgent(clock) ELSE edit]
\* what a run of the route puts in a dict
Section(tab, d, graphUp, edit) ==
    CASE tab = "similar_cases"   -> [d EXCEPT !.matches = TRUE]
      [] tab = "risk_assessment" -> [d EXCEPT !.risk = [raised |-> Count(graphUp), base |-> graphUp]]
      [] tab = "plan"            -> [d EXCEPT !.plan = ByAgent(clock)]

\* The agent has answered: the section and the narratives go into the worker's dict as it is
\* now, and into an ai_summary built from the case_data the request resolved. The edit is read
\* again for the label, and the steps shown are those of the edit read before, if there was one.
ComposeTab(q) ==
    /\ At(q, "agent") /\ Route(q) \in Tabs \ {"intake"} /\ Warm(W(q))
    /\ \E graphUp \in BOOLEAN, edit \in EditReads(q) :
          LET tab == Route(q)
              narrated == [Forwarded(q) EXCEPT ![tab] = clock]
              spliced == edit # NoPlan /\ request[q].before # NoPlan
              steps == IF tab # "plan" THEN NoPlan
                       ELSE IF spliced THEN request[q].before ELSE ByAgent(clock)
          IN  /\ graphUp \/ tab = "risk_assessment"
              /\ Happens(Count(~graphUp) + Count(EditMissed(q, edit)))
              /\ store' = [store EXCEPT ![W(q)] =
                    [Section(tab, @, graphUp, edit) EXCEPT !.narrated = narrated]]
              /\ request' = [request EXCEPT ![q] =
                    [@ EXCEPT !.phase = "save",
                              !.draft = [Section(tab, View(q), graphUp, edit)
                                            EXCEPT !.narrated = narrated],
                              !.answer = Composed(q, edit, steps,
                                  IF tab = "risk_assessment" THEN Count(graphUp) ELSE 0)]]
    /\ UNCHANGED <<row, override, lastChange, clock>>

\* the copilot's case_data is given the edit there is, and keeps the one there was
Consult(q) ==
    /\ At(q, "check") /\ Route(q) = "copilot"
    /\ \E edit \in EditReads(q) :
          LET human == IF edit # NoPlan THEN edit ELSE View(q).human
              d == [View(q) EXCEPT !.human = human]
          IN  /\ Happens(Count(EditMissed(q, edit)))
              /\ store' = IF request[q].live THEN [store EXCEPT ![W(q)] = d] ELSE store
              /\ request' = [request EXCEPT ![q] =
                    [@ EXCEPT !.phase = "agent",
                              !.data = IF request[q].live THEN request[q].data ELSE d,
                              !.before = edit,
                              !.answer = [Composed(q, edit, IF human # NoPlan THEN human ELSE d.plan, 0)
                                             EXCEPT !.before = edit]]]
    /\ UNCHANGED <<row, override, lastChange, clock>>

\* the copilot may call every tool of the manifest; most have sections of their own
Tools == {"complaint", "risk", "plan", "other"}
Tooled(tool, d) ==
    CASE tool = "complaint" -> [d EXCEPT !.complaint = TRUE]
      [] tool = "risk"      -> [d EXCEPT !.risk = [raised |-> 0, base |-> FALSE]]
      [] tool = "plan"      -> [d EXCEPT !.plan = Skeleton]
      [] tool = "other"     -> d

Reply(q) ==
    /\ At(q, "agent") /\ Route(q) = "copilot"
    /\ \/ /\ request' = [request EXCEPT ![q] = Answered(@, @.answer)]
          /\ UNCHANGED store
       \/ \E tool \in Tools :
             /\ Warm(W(q))
             /\ store' = [store EXCEPT ![W(q)] = Tooled(tool, @)]
             /\ request' = [request EXCEPT ![q] =
                   [@ EXCEPT !.phase = "save", !.draft = Tooled(tool, View(q))]]
    /\ UNCHANGED <<row, override, lastChange, clock, left>>

\* a slip: the base score is dropped with the signals, not put back in the score's place
StripBase(d) ==
    [d EXCEPT !.matches = FALSE,
              !.risk = IF @ = NoScore THEN @ ELSE [@ EXCEPT !.base = FALSE]]
\* a slip: the matches stay
StripScore(d) ==
    [d EXCEPT !.risk = IF @ = NoScore \/ ~@.base THEN @ ELSE [raised |-> 0, base |-> FALSE]]
\* strip_graph_derived_fields: the matches go, and the score becomes its base again
Strip(d) ==
    [d EXCEPT !.matches = FALSE,
              !.risk = IF @ = NoScore \/ ~@.base THEN @ ELSE [raised |-> 0, base |-> FALSE]]

\* the whole ai_summary replaces the row, or, best-effort, nothing does
Persist(q) ==
    /\ At(q, "save")
    /\ \/ /\ row' = [data |-> Strip(request[q].draft), at |-> clock]
          /\ UNCHANGED left
       \/ /\ Happens(1)
          /\ UNCHANGED row
    /\ request' = [request EXCEPT ![q] = Answered(@, @.answer)]
    /\ UNCHANGED <<store, override, lastChange, clock>>

\* a rejection or a revert of a finding of the case (_touch_case_last_inference_change)
Verdict ==
    /\ Happens(1)
    /\ clock' = clock + 1 /\ lastChange' = clock + 1
    /\ UNCHANGED <<stored, request>>

\* modify_investigation_steps and revert_to_ai_plan
SaveEdit ==
    /\ Happens(1)
    /\ clock' = clock + 1 /\ override' = ByInvestigator(clock + 1)
    /\ UNCHANGED <<store, row, lastChange, request>>

RevertToAI ==
    /\ override # NoPlan /\ override' = NoPlan
    /\ UNCHANGED <<store, row, lastChange, request, clock, left>>

InFlight(q) == request[q].phase \notin {"idle", "done", "failed"}

Restart(w) ==
    /\ Warm(w)
    /\ Happens(1)
    /\ store' = [store EXCEPT ![w] = Cold]
    /\ request' = [q \in Requests |-> IF InFlight(q) /\ W(q) = w THEN Failed(request[q])
                                      ELSE request[q]]
    /\ UNCHANGED <<row, override, lastChange, clock>>

Serve(q) ==
    \/ Open(q) \/ Load(q) \/ Check(q) \/ AgentFails(q) \/ ComposeIntake(q) \/ ComposeTab(q)
    \/ Consult(q) \/ Reply(q) \/ Persist(q)

Next ==
    \/ \E q \in Requests, w \in Workers, call \in Calls : Ask(q, w, call)
    \/ \E q \in Requests : Serve(q)
    \/ Verdict \/ SaveEdit \/ RevertToAI
    \/ \E w \in Workers : Restart(w)

Spec == Init /\ [][Next]_vars

\* a thread runs on, its agent answers or times out, and its process lives or takes it down
FairSpec == Spec /\ WF_vars(\E q \in Requests : Serve(q))
---------------------------------------------------------------------------
\* Types of the dicts, the row, the edit and the threads; a row lacks what is stripped
\* before a save (persistence_filters).
TypeOK ==
    /\ store \in [Workers -> CaseData \cup {Cold}]
    /\ row \in Rows
    /\ override \in Plans
    /\ lastChange \in Nat /\ clock \in Nat
    /\ request \in [Requests -> Threads]
    /\ left \in 0..MaxEvents

\* What a revert falls back to is always the agent's: an edit is never part of the plan in
\* CASE_STORE or in the row, whatever is regenerated while it stands (run_plan_pipeline).
BaselineIsAgents ==
    /\ \A w \in Workers : Warm(w) => store[w].plan[1] # "investigator"
    /\ row.data.plan[1] # "investigator"

\* A route writes to CASE_STORE[case_id] without asking whether it is there: it is, from the
\* moment the route has resolved the case to the end of its agent's run (resolve_case_data).
WarmWhileServed ==
    \A q \in Requests :
        InFlight(q) /\ Route(q) # "intake" /\ request[q].phase \in {"check", "agent", "save"}
        => Warm(W(q))

\* A run leaves every other tab's narrative in its worker's dict as it is, including those
\* written while its agent ran, unless an intake or a cold read has replaced the dict under it
\* (merge_agent_summary_cache).
OtherTabsKept ==
    [][\A q \in Requests :
          /\ At(q, "agent") /\ request'[q].phase = "save" /\ Route(q) \in Tabs
          /\ Warm(W(q)) /\ (request[q].live \/ Route(q) = "intake")
          => \A tab \in Tabs \ {Route(q)} : store'[W(q)].narrated[tab] = store[W(q)].narrated[tab]]_vars

\* The graph's signals count once in every score shown, from whichever copy its base came: a
\* dict that holds both scores, or a row read by a cold worker (strip_graph_derived_fields).
SignalsCountOnce ==
    \A q \in Requests : request[q].answer # Unanswered => request[q].answer.raised <= 1

\* A plan served from the cache after a verdict given since it was written says it is stale,
\* even if the row has been written since, as long as the graph can be asked
\* (plan_generated_at_before_call).
StalePlanIsTold ==
    [][\A q \in Requests :
          /\ At(q, "check") /\ Route(q) = "plan" /\ left' = left
          /\ request'[q].phase \notin {"check", "agent"} /\ lastChange > View(q).narrated["plan"]
          => request'[q].answer.stale]_vars

\* A plan that names an edit shows its steps, and one that names none shows the agent's,
\* unless an edit was saved or reverted while the agent ran (apply_step_override_to_summary).
LabelsMatchSteps ==
    \A q \in Requests :
        LET a == request[q].answer
        IN  a # Unanswered /\ a.tab = "plan" /\ a.before = a.edit
            => IF a.edit # NoPlan THEN a.steps = a.edit ELSE a.steps[1] = "agent"

\* Every request is answered or fails: the chain of prerequisites ends, also when a route
\* answers from its cache and leaves its section missing (resolve_prerequisite_case_data).
RequestsAnswered == (\E q \in Requests : InFlight(q)) ~> (\A q \in Requests : ~InFlight(q))

\* "Revert case_id to the AI-generated plan by deleting its override row": the copilot
\* answers from an investigator's steps only while an edit stands.
CopilotFollowsRevert ==
    \A q \in Requests :
        LET a == request[q].answer
        IN  a # Unanswered /\ a.tab = "copilot" /\ a.edit = NoPlan => a.steps[1] # "investigator"
=============================================================================
