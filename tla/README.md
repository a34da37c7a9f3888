# TLA+ models of the BSI investigation service

This directory holds the specifications kept beside the code of the BSI backend: a service that loads fraud cases from
AppWorks into a Neo4j graph, infers relationships and case flags from them with fourteen rules and one LLM extraction
step, lets investigators reject and revert what was inferred, and generates scores, narratives, answers and reports
about the result. The models are about the parts where something lasting is at stake: **the graph and its reconciliation
with AppWorks, the inferred findings and the human verdicts on them, the runs and ingests that rewrite them
concurrently, and everything that is cached, drafted or shown about them**.

File names below are relative to `src/`.

## 1. The system

```
 AppWorks --etl/graph_sync--> Neo4j graph <--rules, extraction-- reasoning_layer/pipeline
    |                            ^  ^  |                            |  lock + row
    |         reject / revert ---+  |  +--> rules fired, network,   v
    |         (api -> rejection)    |       risk signals,   PostgreSQL (core/*_repository)
    |                 cascade, sweep+       rule audit          ^
    +--> risk scoring --> api/services --narratives, plan, -----+--- per-process case store
                                         copilot, report             and copilot memory
```

| Component | State it keeps | Operations | Hard behaviour | What makes it correct |
|---|---|---|---|---|
| Inference rules (`reasoning_layer/rules`, `rule_engine`, `scope`) | relationships with `status`, flags on cases and allegations | one Cypher transaction per rule, in the order of `config/rule.yaml` | MERGE over facts an investigator rejected; rules that read other rules' facts; one veto key per family | a run never gives back what a human took away; a finding rests on live evidence |
| Rejection and revert (`rejection.py`) | `:Rejection` nodes, `status`, human marks, `last_inference_change_at` | `reject_inference`, `revert_rejection` | five to many separate transactions per request, failures between them, requests from different cases | verdict and veto agree; a rejection stands until its own revert |
| Cascade and sweep (`cascade.py`) | `auto_invalidated` marks | `cascade_reject`, `cascade_revert`, `sweep_network_orphans` | read-then-write loops, a depth cap, `.single()` over several rows | invalidates exactly the findings that lost their support, never overrides a human |
| Reasoning pipeline (`pipeline.py`) | none of its own | `run_pipeline`, `run_pipeline_for_case` | check-then-act around a run; four failure domains | one run at a time per subject and case, all-or-nothing |
| Run state, pool, lock (`core/pipeline_state_repository.py`, `core/db.py`) | `pipeline_execution_state`, session-level advisory locks, a pool of 10 | `start_run`, `mark_*`, `clear_run`, `pipeline_run_lock` | outages, lost sessions, pool exhaustion, crashes | no overlap while PostgreSQL answers; a completed row is a whole run |
| Ingestion (`etl/ingest_service.py`, `core/graph_ingest_repository.py`) | `graph_ingest_state` | `load_case`, `reason_case`, `ingest` | retries, partial failure, requests reasoning in between | conclusions are as recent as the data; a receipt is never better than the outcome |
| Extraction stage, rule audit (`extraction_stage.py`, `graph_load.py`, `rule_audit.py`) | attributions of allegations to subjects, corroborations | one LLM call per subject and the MERGEs of its answer; a read-only list | stands between the two waves of a run; fails in ways no other stage does | its mark in the row is its outcome |
| Graph sync (`etl/graph_sync.py`) | source facts, `_prune_pending` flags | fetch a case, `load_case_graph` | failed calls look like empty answers; two-miss reconciliation; facts shared by cases; overlapping loaders | a fact is removed only when really gone, and then for good; nothing is left loose |
| Case store, sessions, narratives (`core/case_store.py`, `narrative_staleness.py`, …) | per-process dictionaries over `case_ai_summary_store`, plan overrides | lookups, merges, staleness tests | every worker has its own copy; LLM calls between read and write | a narrative shown as current reflects the graph |
| Conversations and the copilot (`core/conversation_repository.py`, `copilot_service.py`, `agent_runner.py`) | `conversation_history`, a rolling window in each process | ask, fetch; append and trim; the agent's turn loop | `max + 1` turn indexes read before they are inserted; two copies of one transcript; runs that say nothing | no turn of the window is missing, answers follow their questions, a question is answered |
| Report drafts (`report_service.py`, `core/report_artifacts_repository.py`) | `report_artifacts`, one row per generated report | JSON and PDF routes, each with a cached and a generating path | the graph, the plan and the drafts change between a route's reads and its save | a report shows the case as it stood during the request |
| Findings shown (`network/fraud_network.py`, `queries/rules_fired_queries.py`, `rules_fired*.py`, `risk_signals.py`) | the audit properties of each finding | queries, merges over subjects, projections | human and cascade marks share properties; one finding is seen from several subjects' runs | whoever looks is told the same, true story; undoing is offered once |
| Risk calculation (`appworks/risk_scoring.py`, `semantic_layer/dispatcher.py`) | none | nine calls in order, evaluation of the catalogue | each call may fail on its own and be passed over; the agent may call the tool again | a score is of all the facts, or not above that |
| HTTP API (`api/`) | none beyond the above | one handler per route | order of store reads, agent calls and writes | – |
| AppWorks client (`appworks/appworks_auth.py`, `appworks_services.py`, mappers) | a service token | REST calls, token refresh, mapping | 401 against other failures; refresh by several threads | a refused caller is told so |
| Agent set-up, semantic layer | none | prompt building, a registry of read-only tools | – | – |
| Agent audit log (`core/agent_audit_repository.py`) | an append-only table | append | – | – |
| Rule inference, LLM context (`rule_inference.py`, `context_enrichment.py`, `copilot_templates.py`, …) | none | projections of rows onto prompts and responses | – | – |
| Utilities, migrations, prompts | none | layout, DDL, text | – | – |

Three directories, `reasoning_layer/{network,queries,reports}/`, hold the modules the application imports. The files of
the same names one level up are earlier copies that nothing else uses, some of them identical and some behind; the
models follow the files in use.

## 2. Modules

| Module | Models | Builds on |
|---|---|---|
| `InferenceGraph` | the inferred facts and flags, `:Rejection` nodes, and every rule that creates a finding | – |
| `InferenceReview` | reject, revert, cascade, sweep and reasoning runs, statement by statement | `InferenceGraph` |
| `ReviewHistory` | what overlaps, failures and other cases leave of the review's promises: history variables beside `InferenceReview`, and the properties that need them | `InferenceReview` |
| `Verdicts` | what review promises of a base fact: the abstract specification `InferenceReview` implements | – |
| `PipelineRun` | `run_pipeline` for the subjects of a case: advisory lock, pool, run row, stages, outage and crash | – |
| `CaseIngest` | ingests with retries and receipts, beside requests that run the pipeline | `PipelineRun` |
| `GraphSync` | fetch and load of cases that share subjects, with two-miss reconciliation | – |
| `NarrativeCache` | the narratives of a case: one dict per process, the row behind them, the edit of the plan, the requests that read and generate them | – |
| `Copilot` | the transcript in rows and in each process, appending and seeding, the agent's turns | – |
| `Reports` | drafts and the two routes that read and write them, beside verdicts, rules and edits | – |
| `CaseFindings` | the audit marks of findings and the views made of them | – |
| `RiskScoring` | the calls of one calculation and what each lost one does to the score | – |
| `InferenceReviewProofs` | theorems about `InferenceReview` and `ReviewHistory` | `ReviewHistory` |
| `CaseIngestProofs`, `GraphSyncProofs`, `NarrativeCacheProofs`, `CopilotProofs`, `ReportsProofs`, `CaseFindingsProofs`, `RiskScoringProofs` | theorems about the module each is named for | that module |
| `MC…` | small graphs, cases, processes and requests for TLC | |

The composition follows the code's: what connects the components is what one leaves in a store for the other.
`CaseIngest` runs on top of `PipelineRun`; `InferenceReview` has the runs of the pipeline beside the verdicts;
`NarrativeCache`, `Reports` and `Copilot` have what they depend on of the rest (a verdict's time, a changed graph, an
edit) as actions of an environment that does no less than the modules that detail it.

### InferenceGraph

`fact` is the set of relationships that rules write: `[rel, from, to]`, with `status`, `auto` (the cascade's
`auto_invalidated`) and `human` (`cross_case_rejected` and the reverted marks). `flag` is what Rules 8, 11(case side),
12 and 13 put on a case or an allegation. `rejections` are the `:Rejection` nodes. What the ETL and the extraction stage
produce is evidence, held constant: who shares an employer, address or alias with whom, who has a guilty prior case,
what is attributed to whom. `Fire(rule, case, subject)` is the whole of one rule file: match, veto guard, MERGE with its
coalesce. A network is what a rule's `network_key` stands for.

### InferenceReview, Verdicts and ReviewHistory

A request is a program counter, `req[i]`, and every statement the code commits is one action: `RejectFact`/`RejectFlag`
(the SET), `RecordRejection` (the MERGE of the node), then the walk: `Examine` (the reads of one loop iteration),
`Invalidate`, or `Refire`, `Probe`, `Mark`, `Direct` for a revert, `EndWalk`, `SweepNetwork`, `SweepOrphan`, and
`Touch`. `Cut` ends a request between any two of them: whatever it committed stays. A reasoning run is `StartRun`, one
`RunRule` per enabled rule and `AbortRun`. A request that finds nothing to reject raises and leaves no trace, so it is
no step.

`Verdicts` is the same seen from an investigator's chair: a finding is absent, active or rejected; a rule finds what is
absent; a verdict on that very finding, and nothing else, moves it between the other two, in one step. `InferenceReview`
implements it for the facts that rest on evidence alone (edges, priors, merged cases, check splits), with `status` and
the last human word read off the fact: `V == INSTANCE Verdicts WITH …`, `VerdictsImplemented == V!Spec`. Every other
statement of a request, every cascade and every rule over an existing fact is a stuttering step there.

`ReviewHistory` adds three variables the code does not have, which record what happened and hold no step back. Requests
that overlap, come from several cases or are cut short do break promises that one request keeps, and the state does not
show afterwards that they were: `contested` are the facts whose last verdict was given while another on the same fact
was being settled, was cut short before its `:Rejection`, or reverts what another case has vetoed too; `late[i]` are the
facts vetoed after request `i` had looked for their rejection and before the write that relies on the look; `stray` are
the cases whose escalation lost its ground in a step after which no walk over that case follows (a request on another
case, the network sweep, `_direct_reinstate`), or in a request cut short. The properties say what holds for everything
else, so that each exception is one event and not an assumption about who works when. `HistorySpec` is `Spec` with these
variables; all `Review…` runs use it.

### PipelineRun and CaseIngest

`state` is the row of a (case, subject) pair, `lock` the session holding its advisory lock, `call` the thread in
`run_pipeline`, from `Lock` through `Check`, `ClearRun`, `StartRun`, the three stages with a mark after each, `Serve`
and `Release`. `Statement(c)` says that `get_cursor` finds a connection and a server; `NoStatement(c)` that it does not:
the server is down, locks and waiters have emptied the pool, or an outage broke the connection that lay in the pool.
`Outage` ends every session: locks are lost and waiters go on without one, as `pipeline_run_lock` lets them. `Crash`
ends a process with all its calls. A completed row remembers `saw`, the load of each case its first wave could read;
that is bookkeeping of the model, not of the code. `CaseIngest` adds `job` and `ingested` (the receipt), and `together`,
again bookkeeping: the batch a case was last loaded in.

### GraphSync

`source` is what AppWorks holds, as the relationships it becomes; `edge[e]` is the relationship in Neo4j with its
`retrieved_at`, its `_prune_pending` flag and, for a pair of co-subjects, the `case_id` that last wrote it; `node` are
the allegations and comments, which live as long as something reaches them; `linked` are a case's allegation types.
`sync[p]` is one loader's canonical dict.

`FetchCase` and `FetchSubjects` are the two halves of a fetch. Each call in them may fail, and `safe_fetch` or
`get_relationship_items` then answers with nothing: the sets quantified over are the combinations of lost calls that
exist (a comment is lost with its allegation's own call, a subject whose record fails is skipped with all that hangs on
it). `Load` is the one transaction: `Merged` (everything reported, flags cleared), `Pruned` (flag on the first miss,
delete on the second, within the scope the sweep's queries have), `Collected` (nodes retired in this transaction that
nothing reaches). `Abandon` is a fetch or a transaction that fails as a whole. `Edit` is an investigator changing one
record in AppWorks. `steady`, `edits` and `clean` are bookkeeping of the model: what has been reported all along, and
how many loads that lost nothing a case has had since the last edit.

### NarrativeCache

One case. `store[w]` is `CASE_STORE[case_id]` of worker process `w`, or `Cold`; `row` is its row of
`case_ai_summary_store`; `override` is the investigator's edit of the plan; `lastChange` is `last_inference_change_at`.
A dict is a record of what its sections are built from: which are there, who wrote the plan and when, whether the score
is the base or raised by graph signals, and when each tab's narrative was generated.

`request[q]` is a thread. `todo` is its stack of routes, since a route runs its missing prerequisites as whole routes
first (`resolve_prerequisite_case_data`, at most once each) and `reload_all` runs all of them. `live` says that the
thread holds its worker's dict by reference: what another thread writes to that dict it sees, until an intake or a cold
read puts another dict in its place; then `Orphaned` gives it the old one, as `data`. The steps follow the statements
that wait: `Open` (the dict or the row), `Load`, `Check` (staleness and cache), the agent,
`ComposeIntake`/`ComposeTab`/`Consult` and `Reply`, `Persist`, and `AgentFails` in the agent's place. Beside them an
investigator gives verdicts, saves and reverts an edit, and a process restarts. The clock ticks only where times are
told apart, at verdicts and edits. `graph_up`, `got` and `edit` in the steps are what a read returns: the truth, or
nothing if the server is away, each of which costs one of `MaxEvents`.

### Copilot

`rows` are the rows of `conversation_history`, `memory[w]` the same transcript in worker `w`'s `COPILOT_HISTORY_STORE`,
and `request[q]` a thread, either a question or a fetch. `ReadMemory`, `ReadRows` and `Seed` are
`resolve_copilot_history`: memory first, then the rows, then what the client sent along. `Turn` is one round of
`_run_loop`, with or without text, with or without tool calls; what `extract_agent_summary` would return is kept as
`own`, `earlier` or `blank`. The append of a message is three steps, `ReadIndex` (`max + 1`), `Insert` (which also finds
the rows to trim, in the transaction's own view) and `Commit`, for the question and then for the answer; `Recall` and
`Remember` are `store_copilot_turn`'s read and write of the memory. `Restart` empties a worker and ends its threads. A
blank question, an outage, an agent that fails or says nothing and a restart each cost one of `MaxFaults`.

### Reports

`graphs` and `plans` are histories: the last entry is what a read returns, the earlier ones are there to say of which
moment an answer is. `verdict` is a verdict on its way, already stamped, and `lastChange` what it will be compared with.
`drafts` are the rows of `report_artifacts`. A thread goes through `ReadRelated`, `ReadPlan`, `LookUp` and `Compare`
(JSON) or `LookUpPdf`, `Prompt`, the agent, `Save` or `SavePdf`, and `Render`. The two routes differ where the code
does: JSON looks even when asked to reload and tells a stale draft by the graph's time, PDF does neither, and only PDF
can fail after its draft is in. `Dumped` is what `model_dump(exclude_none=True)` does to a connection. `VerdictBegins`,
`VerdictLands`, `VerdictRefused`, `RulesFind` and `EditPlan` are the rest of the service.

### CaseFindings

`mark[f]` is a finding's status and audit properties, `vetoed` its `:Rejection`, `request` the one being served.
`Reject`, `Revert`, `Veto`, `Invalidate`, `MarkReinstated`, `DirectReinstate` and `Reassert` write the properties that
each statement of `rejection.py`, `cascade.py` and the rule files writes, no more and no fewer: memberships get a
`rejected_at` from both an investigator and the cascade, case flags an `invalidated_at` of their own, a revert leaves
what the cascade wrote. `acts` is bookkeeping: the last verdict and the last act of the cascade on a finding, which the
views are compared with. Who is walked to is a superset of what `InferenceReview` details.

The views are operators on that state: `Panel` (the blocks of each subject's run, merged by content and filtered to the
case's own subjects), `PanelTrail`, `ReportTrail` and `AuditTrail`, `Rejection` and `Trimmed` (`build_rejection`),
`Notation` (the reviewer's line in a report), `AuditLists`, `GraphEdges`, and `RiskScore` and `RiskTier`
(`apply_graph_risk_signals`, in ten thousandths).

### RiskScoring

`held` is what AppWorks holds, `run` the agent's run with the context it has read so far, `lost` the calls the latest
calculation has lost. The actions `ReadCatalogue` … `ReadSubjects` are the calls in the code's order; each says what its
failure leaves of the context, which differs from call to call: without the workfolder nothing more is read, a
workfolder that answers but not twice is the tool's error, a lost allegation record makes the allegation look open,
thresholds are lost rule by rule. A rule of the catalogue has two lists of thresholds, its child rows (`own`) and the
one its row carries itself (`inline`), and nothing ties one to the other: `ListOf` takes the second where the first is
missing or could not be read, as `_rule_from_row` does, and `bare` are the rules whose child rows were lost. `Score` is
the evaluation (`Points`, `Weight`, `Applies`, `Rated`), `Call` and `Stop` are the agent, who may calculate again in the
same turn or a later one, up to and including turn `MaxTurns`, whose calls `_run_loop` still dispatches, and `Refused`
is a 401, which ends the request whatever was being read.

### Slips

Beside a definition there is sometimes a variant of it with a comment that begins "a slip" or "not in the code": the
mistake one could make there (a dropped coalesce, a table without an entry, a lock granted at once, an index read once
for two appends). No specification uses them. Substituting one for the definition makes the property it is meant for
fail, which is how the properties are known to say something.

## 3. Runs

All twelve pass; the sizes are what TLC finds (distinct states).

| Run | Instance | States | What it shows |
|---|---|---|---|
| `ReviewSequential` | 2 subjects in two open cases, a prior case, rules 1, 2, 7, 8; 1 investigator, 4 requests, 1 run | 258,957 | escalations are founded, vetoes match verdicts and manual rejections outlive cascades, but for what one case does to the other |
| `ReviewConcurrent` | 2 subjects in one case, rules 1 and 2; 2 investigators, 3 requests, 2 runs, 1 failure, investigators interchangeable | 178,581 | base facts behave as `Verdicts` says with requests, runs and a failure interleaved; vetoes name findings, half-committed rejections included, and match verdicts but where contested |
| `ReviewRejectsOnly` | 3 subjects, a triangle of edges in one network; 2 investigators, 3 rejections | 80,643 | cascades and sweeps leave no membership without an edge |
| `ReviewFamilies` | merged case, hub, check split, prior, wage record, fast-track; 2 requests, 2 runs | 48,826 | no rule of the remaining families revives a rejected fact; a flag of Rules 8, 12 and 13 comes back only for a subject without a veto |
| `PipelineIngest` | 2 cases (one of 2 subjects), 1 ingest thread and 1 request thread in two processes, 2 failures, 2 attempts per load | 98,330 | runs exclude each other, completed means whole and current, batches are loaded first, receipts are honest |
| `PipelineOutages` | 1 case, 1 process, a pool of two connections, an outage, a crash, fairness | 96,912 | calls end when PostgreSQL goes away, and when the lock of a run and its waiter leave the run no connection |
| `GraphLoads` | 2 loaders, 2 cases sharing 2 subjects, an address, an allegation with a comment; 3 fetches, 1 edit, 1 outage | 125,410 | one outage loses nothing, two complete loads settle the graph, nothing stays loose |
| `Narratives` | 2 processes, 2 requests of risk assessment, plan, copilot or `reload_all`, 1 event (verdict, edit, failure or restart), fairness | 689,744 | an edit stays out of the stored plan, other tabs' narratives survive, signals count once, stale plans say so, labels match steps, every request ends |
| `CopilotChat` | 2 workers, 2 requests, a window of 2 messages, 2 turns, 1 fault | 204,300 | the window is unbroken, answers follow their questions in rows and memories |
| `ReportDrafts` | 1 connection, 2 requests of every route, 2 events | 378,477 | every report is of its own time |
| `FindingsShown` | 12 findings of 4 subjects, priors, a network, escalations, a hub; 3 verdicts | 47,446 | rejections are explained, the last verdict is shown, undoing is offered once, a rejection does not raise the risk |
| `RiskScores` | 6 rules of every strategy, one with two different lists, one with its row's list only, one that pays less for more; 3 holdings, with and without a summary, 3 turns | 97,812 | a score is of the whole case or never above what the lists read could give it, but for one known case |

### Bounds, and why they are enough

* `MaxRequests`, `MaxRuns`, `MaxCalls`, `MaxFaults`, `MaxFailures`, `MaxOutages`, `MaxEvents`, `MaxEdits`, `MaxFetches`
  and `NRequests` bound counters no code has; four requests are reject, revert, reject, revert of different facts, three
  are what it takes for two investigators to settle one fact while a third verdict waits, two runs one before and one
  after a verdict. Four requests by two investigators with two runs and no failure (399,929 states), or with a failure
  and one run (225,769), satisfy its properties and `ManualRejectionOutlivesCascade` as well; they ask nothing new and
  take longer, so they are not kept as runs (`ReviewConcurrent.cfg` with other bounds).
* `ReviewSequential` has the couple in two open cases, for a verdict, a cascade or a reinstatement of one case that
  reaches the other's vetoes and escalation; `ReviewConcurrent` has one case, where the overlaps are.
* `MaxWalkDepth` is `_MAX_WALK_DEPTH`, 2 in the code and in the runs: just the length of the longest chain of
  dependents, an edge, a membership, an escalation.
* Two subjects form every pair a rule joins; three are needed only where an edge is lost and the network must still be
  connected by another. One key per pair of subjects and network type is enough because rules are symmetric in the rest.
* `MaxAttempts` is `_MAX_ATTEMPTS`, 3 in the code and 2 in the run: a first, a middle and a last attempt behave as a
  first and a last do. `PoolSize` is `DB_POOL_MAX_CONN`, 10 in the code. In `PipelineIngest` it exceeds the callers, as
  `CompletedIsWhole` needs; in `PipelineOutages` it is two, so that a run's lock and a waiter for it hold both, and the
  run has no connection for its statements (`getconn` of `db.py`) until one of them ends.
* `GraphLoads` has three fetches, for two loads of one case with another's between or across them; a deletion takes two
  of them, and so does the recovery from a flag. One outage takes any set of calls of one fetch. The proofs are for any
  number of each.
* `Narratives` has two processes, for a copy that the other does not see, and two requests, for one thread that replaces
  or extends what another holds. They arrive in the order of their numbers and a request goes to a process no higher
  than its own number: numbers are names. One event suffices for each of the mutants to be caught.
* `Window` is `CONVERSATION_HISTORY_MAX_TURNS`, 20 in the code and 2 in the run, an exchange; `Copilot` assumes at least
  that. Two appends at once are enough for two rows of one index and for a trim by an index that is no longer the last.
  `MaxTurns` is `BSI_MAX_TURNS`.
* `ReportDrafts` has one connection, which may be there or not, and be rejected and back; two events are a verdict and a
  failure, a finding and an edit, and so on.
* `FindingsShown` has one finding of each kind that is stored or shown differently, three verdicts (reject, revert and
  reject again, or of two findings), and a base score from which a fall crosses a tier. `RiskScores` has three turns,
  any number of calculations in each: the agent's first, one in between and the last, after which it is stopped.
* Deadlock is not checked: when requests, runs and calls are used up the model stops, as the system does when nobody
  asks it anything. What must not stop is said by `CallsEnd` and `RequestsAnswered`.

## 4. What the code promises and does not do

Where a doc or a comment says one thing and the code does another, the model follows the code and states the comment as
a property of its own. Those properties are not among the runs, since they fail; each has a configuration that begins
with `Doc`, and `tlc -config DocX.cfg MCY.tla` prints the behaviour that breaks it.

| Configuration | Module | Property | What is said, and what happens |
|---|---|---|---|
| `DocRevertVeto` | `MCInferenceReview` | `RevertLiftsVeto` | `rejection.py:1152-1153`: deleting the node is what lets the rule fire again. The DELETE matches the reverting case; a fact rejected from one case and reverted from another is active and still vetoed |
| `DocReassert` | `MCInferenceReview` | `FlagsStayRejected` | `pipeline.py:25-26`: "a rejected fact is never re-asserted". The SET of Rules 12 and 13 is unconditional past a guard that looks for a `:Rejection` of one subject. Rule 12 corroborates an allegation for whichever subject has a wage record, so that the run of another subject of it brings back the flag (`rule_12_slam_wage_corroboration.cypher:46-58`); Rule 13 looks for the run's subject, and the node is keyed by the primary one (`rule_13_fasttrack_escalation.cypher:27`). Each alone breaks the property |
| `DocManualVeto` | `MCInferenceReview` | `ManualRejectionNeverUndone` | `cascade.py:567-568`: a cascade "must NEVER override" a human rejection. `_has_manual_rejection` asks about one of several networks, `_direct_reinstate` writes them all |
| `DocNextTrigger` | `MCCaseIngest` | `NextTriggerReruns` | `pipeline.py:22-23`: "the next trigger re-runs from the start". A forced run that cannot clear the old row leaves it completed |
| `DocStrandedComment` | `MCGraphSync` | `CommentaryFollows` | `etl/graph_sync.py:669-672`: the comment of a retired allegation is "left for a later run to reconcile". No later run has that allegation in its scope, and the comment keeps its node |
| `DocCopilotRevert` | `MCNarrativeCache` | `CopilotFollowsRevert` | `investigation_plan_override_repository.py:157`: deleting the row reverts the case to the generated plan. The copilot copies an edit into `CASE_STORE` under `human_modified_plan`, nobody takes it out, and the copilot of that process goes on to answer from the investigator's steps |
| `DocFetchTells` | `MCCopilot` | `EmptyMeansNone` | `core/case_store.py:631-632`: a fetch can tell "no history yet" from "the transcript store is unreachable". A question asked while PostgreSQL was away warms the process with an empty transcript, and the next fetch returns it |
| `DocCopilotRefuses` | `MCCopilot` | `AlwaysAnswers` | `copilot_service.py:134-135`: "Copilot always answers the question below". An agent that says nothing leaves a blank turn, and every later question is refused by the validation of the history |
| `DocOneDraft` | `MCReports` | `NoRedundantRun` | `report_service.py:1003-1004`: the routes share drafts, so that one after the other "never triggers a redundant LLM call". The draft is dumped without the keys that hold None and compared with connections that have them: an active connection never matches |
| `DocRejectedFires` | `MCCaseFindings` | `RejectedNotFired` | `rules_fired.py:250-251`: a rule whose only findings were rejected reports `fired=false`. One subject's block does; the merge of the blocks (`pipeline.py:461`) counts rejected instances again |
| `DocLossRaises` | `MCRiskScoring` | `LossesNeverRaise` | `risk_scoring.py:357` logs a failed read of the allegations and scores without. A lost record of one allegation has an empty status, and an empty status counts as open (`risk_scoring.py:351`). Losses raise a score in two more ways: a rule whose child rows are lost is scored by the list its own row carries (`risk_scoring.py:676-679`), which may pay more; and a lost value is 0, which pays more where a step falls. `LossesAddNothing` says what is left |

Seen while modelling, in the models, without a configuration of their own: the sweep invalidates a membership as
`cascade_reject` would, but does not go on to Rule 8 as `cascade_reject` does (`cascade.py:1121`); the sweep invalidates
the member's memberships in other networks of the same type (`cascade.py:1198`); Rule 8 fires before Rule 9, whose
memberships it reads (`rule.yaml:57`); a case flag is reinstated for whichever subject's walk reaches it
(`cascade.py:452`); a rejection cut between its SET and its MERGE cannot be repeated, because the retry looks for an
active fact (`rejection.py:893`); taking away the last prior case that has a date leaves one without, which weighs more
than an old one (`risk_signals.py:399`); `graph_load.py` suppresses an attribution that has a `:Rejection`, and no route
ever creates one for that relationship.

## 5. Fairness

`FairSpec` of `CaseIngest` assumes that a call executes its next statement: it is a thread of a server that waits for
nothing but its lock. `Granted` is enabled only while the lock is free, and weak fairness is enough because a lock that
is freed stays free until a waiter takes it, and the calls are bounded. Nothing is assumed of new requests, failures,
outages or recovery. `FairSpec` of `NarrativeCache` is weaker: while there are requests in flight some one of them
moves. An agent answers or runs into its timeout, and nothing a thread does waits for another thread.

`InferenceReview`, `GraphSync`, `Copilot`, `Reports`, `CaseFindings` and `RiskScoring` state no fairness: their threads
are straight lines of statements, loops over a snapshot, a walk of bounded depth or a loop that counts its turns, and
what must happen there besides safety is that a handler comes to its end.

## 6. Proofs

Every safety invariant and every action property the runs check is a theorem; only liveness is not. The eight proof
modules hold for all values of the constants that satisfy the ASSUMEs of the module they are about; TLC evaluates those
on the instances of the runs. Where a theorem needs more than those, it says so in its own ASSUME, and the reason is
given here. The inductive invariants were checked by TLC on the runs before they were proved. Types are proved first, by
one lemma per action; what follows says what else each theorem needs.

`InferenceReviewProofs`:

* `TypeCorrect` – `Spec => []TypeOK`.
* `ReviewGivesVerdicts` – `Spec => VerdictsImplemented`, the refinement of `Verdicts`. The initial states map to initial
  states, and each step to a verdict on one base fact (`SubmitGivesVerdict`), to the finding of new ones (`FireFinds`,
  also within a cascade: `HandleFinds`) or to a stutter. No invariant beyond the types is needed, because no other
  action can write a base fact past its coalesce (`BaseApart`: the cascade's queries select memberships of link networks
  only).
* `RejectionsStand` – what follows for one fact: a rejected base fact is given back only by its own revert.
* `RunsRespectVerdicts` – `Spec => RunsRespectReview`: no rule of a reasoning run revives a rejected edge, membership,
  prior case or merged case, a hub only without a veto, and a flag of Rules 8, 12 or 13 only for a subject no
  `:Rejection` names. That subject need not be the one the flag was rejected for: the theorem is what the guards give,
  and `DocReassert` what they do not.
* `VetoesNameFindings` – every `:Rejection` names a finding some rule wrote. Not inductive alone: a node is written from
  the request's own key, a statement after the SET. `VetoInv` adds that the key of a request about to write its node
  names a written finding (`VetoInFlightNamesFinding`); what is written stays written (`WrittenForGood`), as nothing in
  these modules deletes a fact.
* `MembershipsAreFounded` – `[]MembershipsFounded`, for rejections by any number of investigators, or for one who also
  reverts (`OneWay`). `FoundedInv` says that a live membership without an edge is one that a request under way is yet to
  come to: its handler has the rule and the subject among its tasks, or will have, at a depth below `MaxWalkDepth`
  (assumed positive; it is 2 in the code). Without `OneWay` it is false: a reject and a revert of edges of one network
  each act on what the other has just changed.
* `VetoesMatch` – `HistorySpec => []VetoesMatchVerdicts`, for any number of investigators at once, in any cases, with
  failures. `VerdictInv` adds what is between the two statements of a verdict: for a fact that is not contested, whether
  its `:Rejection` is there is decided by the last verdict on it or by the one request that is settling it. A reject and
  a revert of one fact in flight together may leave the node of the one beside the verdict of the other, and a revert
  deletes the `:Rejection` of its own case only (`DocRevertVeto`); those facts are `contested` until the next verdict on
  them.
* `ManualRejectionsOutliveCascades` – `HistorySpec => ManualRejectionOutlivesCascade`, for any number of investigators
  at once. `DirectUnvetoed`: what a cascade is about to give back had no `:Rejection` when it looked, or has one that is
  `late`. A subject in a second network of the type is excepted in the property, because `_has_manual_rejection` asks
  about any one of them and `_direct_reinstate` writes them all (`DocManualVeto`).
* `EscalationsAreFounded` – `HistorySpec => []EscalationsFounded`, for any number of concurrent requests on any
  findings, edges included, in any cases, with failures. `GroundInv` says of an escalation without ground, of a case not
  `stray`, that a rejecting request on its case is yet to look at it: it has taken a membership or a prior case of the
  subject and its walk is to start, or Rule 8 for that subject is on the list of its walk. `WalksShaped` says what such
  a list may hold. It assumes `MaxWalkDepth > 1`, the depth of edge, membership, escalation; `_MAX_WALK_DEPTH` is 2.

These three need no assumption about who works when: what the code leaves wrong is said by the history. The sweep that
follows a rejected edge invalidates memberships and does not go on to Rule 8 (section 4), which is one way into `stray`.

`CaseIngestProofs`, for any number of callers, workers, cases and failures and any pool:

* `IngestTypeCorrect` – `Spec => []TypeOK`. `JobInv` strengthens it: an ingest that is about to load a case, or to count
  one as reasoned, has one; without it the heads and tails of its lists would have no type.
* `LocksExclude` – `Spec => []LockedRunsExclude`. `LockInv` says that a call past its wait with its connection intact
  owns the lock of its pair; a lock has one owner, so two such calls are one.
* `CompletedWhole` – `Spec => []CompletedIsWhole`. `WholeInv` says that while PostgreSQL answers every call past `Lock`
  has its connection, and the row of its pair has the marks of the stages it has been through. A step of another call
  cannot disturb that, because by `LockInv` no other call past the lock is about the same pair (`KeepsWhole`); a
  statement always finds a connection because there are fewer callers than connections (`Answers`).
* `IngestsLeaveNothingStale` – `Spec => []CompletedIsCurrent`, and `BatchesAreSeenWhole` – `Spec => []BatchSeenWhole`,
  for any number of ingests with overlapping batches, while nothing fails, as both properties say. `RunsInv` says that a
  call ends only when it has been through its subjects, and that an ingest loads all of its batch before the first run,
  which is of the first case loaded. `OwedInv` says of each pair and each related case that the completed row has read
  the case as last loaded or that some ingest is still to run the pair (`Due`): it has the case ahead in its batch, or
  the call it made is yet to come to the pair. The debt may pass from one ingest to another, which is why the invariant
  speaks of some ingest and not of the one that loaded.
* `ReasonedCasesAreRun` – `Spec => []ReasonedMeansRun`, whatever fails, with one ingest beside any requests
  (`OneIngester`): the second of two ingests may mark a case as reasoned while the first has loaded it anew and failed.
  `ReasonInv` follows the mark of the case that is being loaded and what the run is still to come to.

`GraphSyncProofs`, for any cases, shared records, loaders, edits and outages:

* `SyncTyped` – `Spec => []TypeOK`.
* `OutageLosesNothing` – `Spec => OneOutageLosesNothing`. A deletion needs two misses, and both must not come of one
  outage though it may take calls of a fetch that overlaps others. `TellsInv` says that a dict that lost nothing has all
  that was there from the start of what it speaks of; `DoubtInv` that with no outage nothing of that kind is flagged,
  and with one not before the fetch that met it is loaded.
* `NothingEverLoose` – `Spec => []NothingLoose`. `LooseInv`: a node is there only through its relationship, or, an
  allegation, a comment's; and a dict with an allegation has what ties it to its case.
* `TwoLoadsSettle` – `Spec => []SettlesInTwo`. `ExactInv`: a dict that lost nothing since the last edit is exactly what
  AppWorks holds of its case, in either half of the fetch; `FreshInv`: a fetch's time is its own, and no relationship
  has it before its load, so that the sweep tells old from new; `SettledInv`: since a complete load the pairs of a
  case's subjects belong to a case that lists both, and what is gone is flagged until a second. The second is what keeps
  another case's load from undoing the first: a shared pair changes owner, but only to a case that reports it.

`NarrativeCacheProofs`, for any number of processes and requests, any set of calls and any `MaxEvents`; all follow from
`DictsPure`:

* `NarrativesTyped` – `Spec => []TypeOK`.
* `BaselineStands` – `Spec => []BaselineIsAgents`. A plan reaches a dict or the row from any copy some thread still
  holds, so `PureInv` says of all of them, the worker's, an orphaned one, the draft of a row, that their plan is not the
  investigator's.
* `RaisedOnce` – `Spec => []SignalsCountOnce`. `PureInv` says of the same copies that a raised score has its base beside
  it (`Founded`), which is what the next augmentation starts from.
* `WritesFindTheirDict` – `Spec => []WarmWhileServed`. `WarmInv` adds the threads that hold the dict by reference; a
  dict goes only in a restart, which ends the threads of its process.
* `PlansAreLabelled` – `Spec => []LabelsMatchSteps`: a plan and the name of the edit it goes by stay together in every
  copy, and a request whose edit changed while its agent ran says so of itself.
* `NarrativesKept` – `Spec => OtherTabsKept`. The property is about the step from the agent to the save, which only the
  thread itself takes (`OthersWait`); it writes its own tab into the dict of its process as that is now, not as it was
  before the agent ran.
* `StaleIsTold` – `Spec => StalePlanIsTold`. `PlanLast`: the frame of the plan's route is at the bottom of its request's
  stack only, so that what it says is what the request shows.

`CopilotProofs`, for any workers, requests, faults and window of at least an exchange:

* `CopilotTyped` – types, and `RowsInv`: the rows are finitely many, no thread's index is past the last by more than
  one, and what a DELETE has found is a window behind the last row or the thread's own.
* `WindowUnbroken` – `Spec => []UnbrokenWindow`, by `RowsInv`: a commit adds an index that is at most the next one and
  takes only what is a window behind.
* `AnswersFollowQuestions` – `Spec => []AnswersFollow`. `OrderInv` says that no answer is in the rows before its thread
  has committed it, that the index of an answer under way is behind its question's, and that whatever a thread has read
  is ordered; a window that cuts a transcript keeps its end.

`ReportsProofs`, for any facts, requests, calls and events:

* `ReportsTyped` – `Spec => []TypeOK`. `ClockInv` bounds the clock by the events left.
* `ReportsOfTheirTime` – `Spec => []OfItsTime`. `Timely` says of a thread, by its phase, that the connections and the
  edit it holds were the live ones at some moment since it came, or that it missed their store; `DraftsInv` that a draft
  is the dump of what it was written from. So a draft that equals what was read shows what was read, whoever saved it.

`CaseFindingsProofs`, for any findings, subjects and number of requests:

* `FindingsTyped` – `Spec => []TypeOK`, the trail of acts included.
* `LastVerdictIsShown` and `RejectionIsExplained` – `[]LastVerdictShown` and `[]RejectionExplained`. `AuditInv` ties
  each finding's marks to its trail: what the marks of a verdict tell is the last verdict there was (`VerdictTold`),
  those of a cascade the last cascade (`CascadeTold`), a status is the doing of the later of the two (`Decided`), and
  the `:Rejection` is that of a standing verdict but for the statement between (`VetoFollows`). A revert clears some
  marks and a cascade others, so neither property is inductive without the rest.
* `RejectingLowers` – `Spec => RejectingNeverRaises`. The score is a sum of maxima over findings shown and each of them
  is monotone in what is shown; the exception is the one the property names, priors left without a date.
* `UndoIsOffered` – `Spec => []UndoOffered`. No invariant of the behaviour is needed: it is about the merge of the
  subjects' blocks. The panel takes a finding from the first block that has it; the proof goes by induction over the
  blocks merged so far, that a finding some block had is in exactly one of the rows (`TakenOnce`, `AllTakenOnce`).
  `WhoTyped` says that each direct subject is in its own scope and among those reasoned for, as `resolve_scope` and
  `_reasoning_population_for_case` have it.

`RiskScoringProofs`, for any finite catalogue, case and number of turns:

* `ScoresTyped` – `Spec => []TypeOK`, and a score among them is a share, 0 to 10000, of the points there were to earn:
  no rule earns more than its maximum, bonus included.
* `OutagesAddNothing` – `Spec => []LossesAddNothing`, for any catalogue, lists that fall and rows whose own list differs
  from their child rows included. With nothing lost but child rows the score is exactly the whole case's by the lists
  that were read; with parts of the case lost it is at most what those lists could give the whole case, each rule taken
  at the best paid of the steps the case reaches. `CalculationInv` says that the rules are all there or none is, that no
  rule is without its child rows unless a call for them was lost, that the facts are no more than the case's unless a
  record of an allegation was lost, and that with nothing of the case lost what was read so far is exact; `ResultInv`
  carries that to the result. The step from facts to score goes through the sums, term by term.

Induction without an operator parameter: `MapThenSumSet` and the folds of these two modules are unfolded by a smallest
counterexample. The parts of a finite set are well founded by strict inclusion (`FS_StrictSubsetOrderingWellFounded`),
so a non-empty set of parts of which the claim fails would have a least one (`WFMin`), and taking an element from that
contradicts it. The claim is a set there, not an operator, and the provers can instantiate it. The merge of the blocks,
a fold over their numbers, is unfolded in the same way.

Out of the prover's reach, and left to TLC: liveness under fairness (`CallsEnd`, `RequestsAnswered`), which needs
ENABLED and well-founded progress.

## 7. Abstractions

* The reads one loop iteration of the cascade makes before its write are one step, and so are the sweep's two reads. The
  write is a step of its own, so that the check-then-act race is there.
* Rule 14 adjusts confidence and creates nothing; confidence, rationale and timestamps other than
  `last_inference_change_at` are left out of the rules.
* Evidence does not change during a run of `InferenceReview`; loads change only what `CaseIngest` needs to know. What
  the extraction stage writes of the LLM's answer (`graph_load.py`) is evidence too: attributions are merged, never
  withdrawn, and no request rejects one.
* `MembershipsFounded` is checked for rejections only, and proved for those or for one investigator who also reverts: a
  reject and a revert of edges of one network, in flight together, may each act on what the other has just changed.
* A commit whose acknowledgement is lost is not distinguished from a commit that fails.
* A failure that ends a read before anything is written is no step.
* `GraphSync`: the properties of nodes, the normalisation of values and the order of MERGEs within the transaction are
  left out; an address, an alias, a job and a wage record are one kind of detail. AppWorks answers of one moment per
  half of a fetch.
* `NarrativeCache` leaves out the `fraud_patterns` tab (the same handler shape with other sections), an `ai_summary` a
  client supplies itself, the plan's `plan_stale` mark, the graph ingest at the start of `reload_all`, and the rows of
  findings that are stripped before a save. Statements between which nothing waits are one step. No limit on the age of
  a cached row is modelled: `CASE_STORE_TTL_SECONDS` is None.
* `Copilot`: texts are `own`, `earlier` or `blank`; tool results are not told apart. PostgreSQL runs the append at READ
  COMMITTED, its default: each statement sees what is committed by then. Rows of one index come in any order.
  `UnbrokenWindow` is about the window: a straggler behind it may stay until the next append.
* `Reports`: a connection is its status and the verdict behind it; the sections of a report that nothing changes
  meanwhile are left out, and so is the wording. A verdict lands in one step, as `InferenceReview` has its statements.
* `CaseFindings`: requests come one after the other, and the walk of the cascade may reach any finding it could reach;
  `InferenceReview` has the overlaps and the walk. Times are the numbers of requests, so that two acts of one request
  have one time, as the code stamps them.
* `RiskScoring`: four numeric dimensions and three conditions stand for what the catalogue may ask; conditions that name
  other properties of the workfolder are left out. A row's own list is taken to be one `RiskRuleDef` accepts: with one
  it refuses (`_fetch_risk_rules` logs it), the rule would drop out. Points are natural numbers, scores ten thousandths,
  rounded to the nearest. What AppWorks holds does not change during a calculation.

## 8. Not modelled

* Rule inference, LLM context, enrichment and copilot templates (`rule_inference.py`, `context_enrichment.py`,
  `report_llm_context.py`, `copilot_templates.py`, `investigation_tasks.py`, `similar_cases.py`, `fraud_patterns.py`,
  `graph_queries.py`): read-only projections from rows to text, with no state and nothing that depends on an order. What
  they are given is modelled where it is kept.
* The mapping of AppWorks records, and the service account's login of the command line: a straight translation of
  fields, and a login before anything else runs.
* Agent set-up and tool registration: prompt text and a table built at start-up. The agent's loop itself is in `Copilot`
  and `RiskScoring`, as far as turns and results go.
* The agent audit log: appended to, and read by nobody in the program.
* Schema, migrations, settings, taxonomy and prompts: declarations, and creation that is idempotent.
* PDF and HTML layout, provenance, and `scripts/dedupe_symmetric_edges.py`, a one-off repair.
* The superseded copies named in section 1.
* Of modelled components: the `fraud_patterns` route, `run_reasoning=False` and the dry run of an ingest, seeding and
  enabling of rules (`rule_registry.py`: `EnabledRules` is a constant), request parsing and response building.

What would come next: evidence that grows between runs in `InferenceReview` (the extraction stage, and a load that
retires a shared employer under a membership), which needs the rules' foundedness restated against evidence that was.
