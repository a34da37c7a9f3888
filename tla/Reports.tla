------------------------------ MODULE Reports ------------------------------
(***************************************************************************)
(* The investigation report of one case and the drafts kept of it          *)
(* (api/services/report_service.py, core/report_artifacts_repository.py).  *)
(* A request reads the subject's connections from the graph and the        *)
(* investigator's edit of the plan, looks for a draft whose connections    *)
(* are the ones it has just read, and otherwise has the agent write one,   *)
(* which is inserted as a new row. Between its steps the graph gains       *)
(* findings, investigators give verdicts and edit the plan, and other      *)
(* requests save drafts of their own. Either store may be away: a graph    *)
(* that is away reads as a subject with no connections.                    *)
(***************************************************************************)
EXTENDS Naturals, Sequences

CONSTANTS
    Facts,          \* the connections the rules may find
    NRequests,      \* the requests of a behaviour, in the order they come
    Calls,          \* what they ask for: <<"json" or "pdf", reload_ai_summary>>
    MaxEvents       \* verdicts, findings, edits of the plan, and failures of a store or the agent

Requests == 1..NRequests

ASSUME Bounds == Calls \subseteq ({"json", "pdf"} \X BOOLEAN) /\ {NRequests, MaxEvents} \subseteq Nat

VARIABLES
    graphs,       \* the connections, and what they have been: the last is what a read returns
    plans,        \* investigation_plan_overrides, likewise: the number of the edit, 0 for none
    verdict,      \* the verdict being given, by the time its request began
    lastChange,   \* (:Case).last_inference_change_at
    drafts,       \* report_artifacts, by generated_at
    request,      \* [Requests -> the request's thread]
    clock,        \* the time, which every verdict moves on
    left          \* how much else may still happen

vars == <<graphs, plans, verdict, lastChange, drafts, request, clock, left>>
world == <<graphs, plans, verdict, lastChange, clock>>

\* one entry of related_network; a verdict is named by its time, and an active
\* connection has none
None == 0
Active == [status |-> "active", rejection |-> None]
Rejected(time) == [status |-> "rejected", rejection |-> time]
Times == 1..(MaxEvents + 1)
Entries == {Active} \cup {Rejected(time) : time \in Times}
Listings == UNION {[listed -> Entries] : listed \in SUBSET Facts}
NoConnections == [f \in {} |-> Active]

\* GeneratedReport.model_dump(exclude_none=True): an entry loses the keys that hold None
DumpedEntries == {[status |-> "active"]} \cup {Rejected(time) : time \in Times}
Undumped(listing) == listing      \* not in the code: None dumped as it is
Dumped(listing) ==
    [f \in DOMAIN listing |-> IF listing[f].rejection = None
                              THEN [status |-> listing[f].status] ELSE listing[f]]

\* the Decision & Override Log: the edit of the plan, and how many connections are rejected
Refused(listing) == {f \in DOMAIN listing : listing[f].status = "rejected"}
DecisionLog(rejected, plan) == [edit |-> plan, rejected |-> rejected]
Logs == [edit : Nat, rejected : SUBSET Facts]

\* what the agent was given to write from, and the row it was saved in
Drafts == [related : UNION {[listed -> DumpedEntries] : listed \in SUBSET Facts},
           prose : Listings, at : Times \cup {None}]
NoDraft == [related |-> NoConnections, prose |-> NoConnections, at |-> None]

Answers == [prose : Listings, log : Logs, from : {"db_cache", "llm"}, stale : BOOLEAN]
Unanswered == [from |-> "nobody"]

Phases == {"idle", "related", "plan", "lookup", "compare", "prompt", "agent", "render",
           "done", "failed"}
Threads == [phase : Phases, route : {"json", "pdf"}, reload : BOOLEAN,
            since : Nat \X Nat,         \* how many versions graphs and plans had when it came
            missed : SUBSET {"graph", "plan"},     \* the reads that found a store away
            related : Listings, edit : Nat, draft : Drafts, stale : BOOLEAN,
            answer : Answers \cup {Unanswered}]

Init ==
    /\ \E known \in SUBSET Facts : graphs = <<[f \in known |-> Active]>>
    /\ plans = <<None>>
    /\ verdict = None /\ lastChange = None
    /\ drafts = <<>>
    /\ request = [q \in Requests |->
                    [phase |-> "idle", route |-> "json", reload |-> FALSE, since |-> <<0, 0>>,
                     missed |-> {}, related |-> NoConnections, edit |-> None, draft |-> NoDraft,
                     stale |-> FALSE, answer |-> Unanswered]]
    /\ clock = 1
    /\ left = MaxEvents
---------------------------------------------------------------------------
At(q, phase) == request[q].phase = phase
Graph == graphs[Len(graphs)]
Plan == plans[Len(plans)]
Happens(n) == n <= left /\ left' = left - n
Count(condition) == IF condition THEN 1 ELSE 0

\* a thread that ends keeps its answer, and what the answer is measured by
Ended(r, phase, answer) ==
    [r EXCEPT !.phase = phase, !.answer = answer,
              !.draft = NoDraft, !.related = NoConnections, !.edit = None, !.stale = FALSE]
Becomes(q, r) == request' = [request EXCEPT ![q] = r]
Failed(r) == [Ended(r, "failed", Unanswered) EXCEPT !.missed = {}, !.since = <<0, 0>>]
Fails(q) == Becomes(q, Failed(request[q]))

\* run_generate_report: a case whose primary subject is not known is refused (400)
Ask(q, call, resolved) ==
    /\ At(q, "idle") /\ \A p \in 1..(q - 1) : ~At(p, "idle")
    /\ Happens(Count(~resolved))
    /\ LET came == [request[q] EXCEPT !.route = call[1], !.reload = call[2],
                                      !.since = <<Len(graphs), Len(plans)>>]
       IN Becomes(q, IF resolved THEN [came EXCEPT !.phase = "related"]
                     ELSE Failed(came))
    /\ UNCHANGED <<world, drafts>>

\* assemble_related_network: a graph that is away gives an empty section
ReadRelated(q, away) ==
    /\ At(q, "related") /\ Happens(Count(away))
    /\ Becomes(q, [request[q] EXCEPT !.phase = "plan",
                                     !.related = IF away THEN NoConnections ELSE Graph,
                                     !.missed = IF away THEN @ \cup {"graph"} ELSE @])
    /\ UNCHANGED <<world, drafts>>

\* get_override: an edit that cannot be read is treated as none
ReadPlan(q, away) ==
    /\ At(q, "plan") /\ Happens(Count(away))
    /\ Becomes(q, [request[q] EXCEPT !.phase = "lookup",
                                     !.edit = IF away THEN None ELSE Plan,
                                     !.missed = IF away THEN @ \cup {"plan"} ELSE @])
    /\ UNCHANGED <<world, drafts>>

\* get_latest_report: nothing on a miss or while PostgreSQL is away
Latest(away) == IF away \/ drafts = <<>> THEN NoDraft ELSE drafts[Len(drafts)]
UnchangedListed(r) ==      \* not in the code: whatever became of the connections listed
    r.draft # NoDraft /\ DOMAIN r.related = DOMAIN r.draft.related
Unchanged(r) == r.draft # NoDraft /\ r.related = r.draft.related
GraphNewer(change, draft) == change > draft.at

\* an answer from the draft: its prose, under a log rendered anew
FromDraft(r) ==
    [prose |-> r.draft.prose, log |-> DecisionLog(Refused(r.draft.related), r.edit),
     from |-> "db_cache", stale |-> r.stale]

\* /generate_report looks even when it was asked to reload, for the flag it returns
LookUp(q, away) ==
    /\ At(q, "lookup") /\ request[q].route = "json"
    /\ Happens(Count(away))
    /\ LET found == [request[q] EXCEPT !.draft = Latest(away)]
       IN Becomes(q, [found EXCEPT !.phase = IF Latest(away) = NoDraft THEN "prompt" ELSE "compare"])
    /\ UNCHANGED <<world, drafts>>

\* _generate_report_try_cache, from evaluate_cache_staleness on: with the graph away
\* its time is taken for no signal
Compare(q, away) ==
    /\ At(q, "compare") /\ Happens(Count(away))
    /\ LET change == IF away THEN None ELSE lastChange
           told == [request[q] EXCEPT !.stale = \/ ~Unchanged(request[q])
                                                \/ GraphNewer(change, request[q].draft)]
       IN Becomes(q, IF Unchanged(request[q]) /\ ~request[q].reload
                     THEN Ended(told, "done", FromDraft(told))
                     ELSE [told EXCEPT !.phase = "prompt", !.draft = NoDraft])
    /\ UNCHANGED <<world, drafts>>

\* /generate_report/pdf: no look at all on a reload, and no flag; the PDF of a hit is
\* rendered from the spliced draft
LookUpPdf(q, away) ==
    /\ At(q, "lookup") /\ request[q].route = "pdf"
    /\ Happens(Count(away)) /\ (away => ~request[q].reload)
    /\ LET found == [request[q] EXCEPT !.draft = Latest(away)]
       IN Becomes(q, IF ~request[q].reload /\ Unchanged(found)
                     THEN [found EXCEPT !.phase = "render", !.answer = FromDraft(found)]
                     ELSE [request[q] EXCEPT !.phase = "prompt"])
    /\ UNCHANGED <<world, drafts>>

\* fetch_live_graph_findings runs the rules of a case they have not run for, after the
\* connections were read: what they find is in the prompt's rules and not among them
Prompt(q, found) ==
    /\ At(q, "prompt")
    /\ Happens(Count(found # {}))
    /\ found \cap DOMAIN Graph = {}
    /\ graphs' = IF found = {} THEN graphs
                 ELSE Append(graphs, [f \in found \cup DOMAIN Graph |->
                                         IF f \in found THEN Active ELSE Graph[f]])
    /\ Becomes(q, [request[q] EXCEPT !.phase = "agent"])
    /\ UNCHANGED <<plans, verdict, lastChange, drafts, clock>>

\* the agent fails: 401 when the AppWorks session has expired, 500 otherwise
AgentFails(q) ==
    /\ At(q, "agent") /\ Happens(1)
    /\ Fails(q)
    /\ UNCHANGED <<world, drafts>>

\* what was written, under the log of the edit and the connections read at the start
Written(r) ==
    [prose |-> r.related, log |-> DecisionLog(Refused(r.related), r.edit),
     from |-> "llm", stale |-> r.stale]

\* the agent has answered. save_report: a row of its own, stamped by the INSERT, or nothing while PostgreSQL is away
Inserted(q, away) ==
    drafts' = IF away THEN drafts
              ELSE Append(drafts, [related |-> Dumped(request[q].related),
                                   prose |-> request[q].related, at |-> clock])

Save(q, away) ==
    /\ At(q, "agent") /\ request[q].route = "json"
    /\ Happens(Count(away))
    /\ Inserted(q, away)
    /\ Becomes(q, Ended(request[q], "done", Written(request[q])))
    /\ UNCHANGED world

SavePdf(q, away) ==
    /\ At(q, "agent") /\ request[q].route = "pdf"
    /\ Happens(Count(away))
    /\ Inserted(q, away)
    /\ Becomes(q, [request[q] EXCEPT !.phase = "render", !.answer = Written(request[q])])
    /\ UNCHANGED world

\* render_report_pdf, after the row is in: a failure (500) leaves the draft to the next request
Render(q, breaks) ==
    /\ At(q, "render") /\ Happens(Count(breaks))
    /\ IF breaks THEN Fails(q)
       ELSE Becomes(q, Ended(request[q], "done", request[q].answer))
    /\ UNCHANGED <<world, drafts>>
---------------------------------------------------------------------------
\* a verdict is stamped when its request begins, and changes the graph later
VerdictBegins ==
    /\ verdict = None /\ Happens(1)
    /\ clock' = clock + 1 /\ verdict' = clock + 1
    /\ UNCHANGED <<graphs, plans, lastChange, drafts, request>>

\* reject_inference or revert_rejection of f: the fact, then last_inference_change_at
VerdictLands(f) ==
    /\ verdict # None /\ f \in DOMAIN Graph
    /\ graphs' = Append(graphs, [Graph EXCEPT ![f] = IF Graph[f] = Active THEN Rejected(verdict)
                                                     ELSE Active])
    /\ lastChange' = verdict /\ verdict' = None
    /\ UNCHANGED <<plans, drafts, request, clock, left>>

\* it is refused (404, 409), and changes nothing
VerdictRefused ==
    /\ verdict # None
    /\ verdict' = None
    /\ UNCHANGED <<graphs, plans, lastChange, drafts, request, clock, left>>

\* another run of the rules finds connections
RulesFind(found) ==
    /\ Happens(1)
    /\ found # {} /\ found \cap DOMAIN Graph = {}
    /\ graphs' = Append(graphs, [f \in found \cup DOMAIN Graph |->
                                    IF f \in found THEN Active ELSE Graph[f]])
    /\ UNCHANGED <<plans, verdict, lastChange, drafts, request, clock>>

\* the plan's steps are saved, or the saved ones deleted
EditPlan(edit) ==
    /\ Happens(1)
    /\ edit \in {None, Len(plans)} /\ edit # Plan
    /\ plans' = Append(plans, edit)
    /\ UNCHANGED <<graphs, verdict, lastChange, drafts, request, clock>>

Thread(q) ==
    \/ \E away \in BOOLEAN : \/ ReadRelated(q, away) \/ ReadPlan(q, away)
                             \/ LookUp(q, away) \/ Compare(q, away) \/ LookUpPdf(q, away)
                             \/ Save(q, away) \/ SavePdf(q, away) \/ Render(q, away)
    \/ \E found \in SUBSET Facts : Prompt(q, found)

Next ==
    \/ \E q \in Requests : \/ \E call \in Calls, resolved \in BOOLEAN : Ask(q, call, resolved)
                           \/ Thread(q) \/ AgentFails(q)
    \/ VerdictBegins \/ VerdictRefused
    \/ \E f \in Facts : VerdictLands(f)
    \/ \E found \in SUBSET Facts : RulesFind(found)
    \/ \E edit \in 0..Len(plans) : EditPlan(edit)

Spec == Init /\ [][Next]_vars

---------------------------------------------------------------------------
\* Types; a row of report_artifacts has the shape a dump gives it, without the keys that
\* hold None (save_report).
TypeOK ==
    /\ graphs \in Seq(Listings) /\ graphs # <<>>
    /\ plans \in Seq(Nat) /\ plans # <<>>
    /\ {verdict, lastChange} \subseteq Times \cup {None} /\ clock \in Times /\ left \in 0..MaxEvents
    /\ drafts \in Seq(Drafts)
    /\ request \in [Requests -> Threads]

\* A report shows the case as it stood at some moment of its own request, whichever
\* draft it came from and whoever saved that draft last: the connections its prose was
\* written from, and the edit its log names, were the live ones after the request came.
\* A section whose read found its store away is empty instead. (The content check of
\* _generate_report_try_cache and the splices into a cached draft.)
OfItsTime ==
    \A q \in Requests : At(q, "done") =>
        LET r == request[q]
        IN /\ IF "graph" \in r.missed THEN r.answer.prose = NoConnections
              ELSE \E i \in r.since[1]..Len(graphs) : r.answer.prose = graphs[i]
           /\ IF "plan" \in r.missed THEN r.answer.log.edit = None
              ELSE \E i \in r.since[2]..Len(plans) : r.answer.log.edit = plans[i]
           /\ r.answer.log.rejected = Refused(r.answer.prose)

\* "The two routes read and write the same drafts, so calling one after the other never
\* triggers a redundant LLM call" (report_service.py): no request that may answer from the
\* drafts, and has read the latest, goes to the agent for the connections it was written from.
NoRedundantRun ==
    [][\A q \in Requests :
          /\ At(q, "lookup") \/ At(q, "compare")
          /\ At(q, "prompt")'
          /\ ~request[q].reload
          /\ left' = left
          => drafts = <<>> \/ Latest(FALSE).prose # request[q].related]_vars
=============================================================================
