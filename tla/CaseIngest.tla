----------------------------- MODULE CaseIngest -----------------------------
(***************************************************************************)
(* ingest (etl/ingest_service.py): load every case of a batch from         *)
(* AppWorks into the graph, then reason over those that loaded, beside     *)
(* requests that run the same pipeline; and the row per case of            *)
(* graph_ingest_state (core/graph_ingest_repository.py).                   *)
(***************************************************************************)
EXTENDS PipelineRun

CONSTANTS
    Ingesters,      \* the callers that ingest; the others serve requests
    Batches,        \* the lists of cases ingests are asked for
    MaxAttempts     \* ingest_service._MAX_ATTEMPTS

ASSUME IngestBounds == /\ Ingesters \subseteq Callers
                       /\ Batches \subseteq Seq(Cases) \ {<<>>}
                       /\ MaxAttempts \in Nat \ {0}

VARIABLES
    ingested,    \* [Cases -> graph_ingest_state.status]
    job,         \* [Ingesters -> the ingest in flight]
    together     \* [Cases -> the batch the case was last loaded in]

vars == <<pipeline, ingested, job, together>>

Jobs == [phase : {"mark_started", "sync", "mark_loaded", "mark_failed", "reason", "runs"},
         batch : Batches, todo : Seq(Cases), loaded : Seq(Cases), attempt : 1..MaxAttempts]
NoJob == [phase |-> "idle"]

Init ==
    /\ PipelineInit
    /\ ingested = [c \in Cases |-> "none"]
    /\ job = [g \in Ingesters |-> NoJob]
    /\ together = [c \in Cases |-> <<>>]

---------------------------------------------------------------------------
In(g, phase) == job[g].phase = phase
Loading(g) == Head(job[g].todo)
Graph == UNCHANGED <<state, lock, up, outages>>

\* every write to graph_ingest_state is best-effort; only mark_started creates the row
Receipt(g, case, status) ==
    \/ /\ Statement(g) /\ (status = "loading" \/ ingested[case] # "none")
       /\ ingested' = [ingested EXCEPT ![case] = status]
    \/ /\ NoStatement(g) \/ (status # "loading" /\ ingested[case] = "none")
       /\ UNCHANGED ingested

Ingest(g, batch) ==
    /\ In(g, "idle") /\ Quiet(g)
    /\ calls < MaxCalls /\ calls' = calls + 1
    /\ job' = [job EXCEPT ![g] = [phase |-> "mark_started", batch |-> batch, todo |-> batch,
                                  loaded |-> <<>>, attempt |-> 1]]
    /\ UNCHANGED <<call, loads, faults, ingested, together>> /\ Graph

MarkStarted(g) ==
    /\ In(g, "mark_started")
    /\ Receipt(g, Loading(g), "loading")
    /\ job' = [job EXCEPT ![g].phase = "sync"]
    /\ UNCHANGED <<call, loads, calls, faults, together>> /\ Graph

\* a slip: the count of attempts starts at nought
AnotherAttemptMore(g) == job[g].attempt <= MaxAttempts
AnotherAttempt(g) == job[g].attempt < MaxAttempts

\* sync_case: one write transaction, retried unless the caller's session has expired
Sync(g) ==
    /\ In(g, "sync")
    /\ \/ /\ loads' = [loads EXCEPT ![Loading(g)] = @ + 1]
          /\ together' = [together EXCEPT ![Loading(g)] = job[g].batch]
          /\ job' = [job EXCEPT ![g].phase = "mark_loaded"]
          /\ NoFault
       \/ /\ Fault /\ AnotherAttempt(g)
          /\ job' = [job EXCEPT ![g].phase = "mark_started", ![g].attempt = @ + 1]
          /\ UNCHANGED <<loads, together>>
       \/ /\ Fault
          /\ job' = [job EXCEPT ![g].phase = "mark_failed"]
          /\ UNCHANGED <<loads, together>>
    /\ UNCHANGED <<call, calls, ingested>> /\ Graph

\* all cases are loaded first, then those that loaded are reasoned over
Phase(todo) == IF todo = <<>> THEN "reason" ELSE "mark_started"

NextCase(g, loaded) ==
    LET later == Tail(job[g].todo)
    IN  job' = [job EXCEPT ![g] = [@ EXCEPT !.phase = Phase(later), !.todo = later,
                                            !.loaded = loaded, !.attempt = 1]]

MarkLoaded(g) ==
    /\ In(g, "mark_loaded")
    /\ Receipt(g, Loading(g), "loaded")
    /\ NextCase(g, Append(job[g].loaded, Loading(g)))
    /\ UNCHANGED <<call, loads, calls, faults, together>> /\ Graph

GiveUp(g) ==
    /\ In(g, "mark_failed")
    /\ Receipt(g, Loading(g), "failed")
    /\ NextCase(g, job[g].loaded)
    /\ UNCHANGED <<call, loads, calls, faults, together>> /\ Graph

\* a slip: a case is reasoned over as soon as it is loaded
LoadedToReason(g) ==
    /\ In(g, "reason") \/ (In(g, "mark_started") /\ job[g].attempt = 1)
    /\ job[g].loaded # <<>>
CaseToReason(g) == In(g, "reason") /\ job[g].loaded # <<>>

\* reason_case: its subjects are read outside any handler, so that a failure ends the ingest
Reason(g) ==
    /\ CaseToReason(g)
    /\ LET case == Head(job[g].loaded)
       IN  \/ /\ Begin(g, case, Direct[case], TRUE)
              /\ job' = [job EXCEPT ![g].phase = "runs"]
              /\ NoFault
           \/ /\ Direct[case] = <<>>
              /\ job' = [job EXCEPT ![g].loaded = Tail(@)]
              /\ UNCHANGED call /\ NoFault
           \/ /\ Fault
              /\ job' = [job EXCEPT ![g] = NoJob]
              /\ UNCHANGED call
    /\ UNCHANGED <<loads, calls, ingested, together>> /\ Graph

\* a slip: a case counts as reasoned whatever became of its subjects
MarkReasonedAlways(g) ==
    /\ In(g, "runs") /\ At(g, "done")
    /\ Receipt(g, Head(job[g].loaded), "reasoned")
    /\ call' = [call EXCEPT ![g] = Idle]
    /\ job' = [job EXCEPT ![g].phase = Phase(job[g].todo), ![g].loaded = Tail(@)]
    /\ UNCHANGED <<loads, calls, faults, together>> /\ Graph

\* only a case all of whose subjects came through is marked reasoned
MarkReasoned(g) ==
    /\ In(g, "runs") /\ At(g, "done")
    /\ IF call[g].ok THEN Receipt(g, Head(job[g].loaded), "reasoned") ELSE UNCHANGED ingested
    /\ call' = [call EXCEPT ![g] = Idle]
    /\ job' = [job EXCEPT ![g].phase = Phase(job[g].todo), ![g].loaded = Tail(@)]
    /\ UNCHANGED <<loads, calls, faults, together>> /\ Graph

Report(g) ==
    /\ In(g, "reason") /\ job[g].loaded = <<>>
    /\ job' = [job EXCEPT ![g] = NoJob]
    /\ UNCHANGED <<call, loads, calls, faults, ingested, together>> /\ Graph

IngestStep(g) ==
    \/ MarkStarted(g) \/ Sync(g) \/ MarkLoaded(g) \/ GiveUp(g)
    \/ Reason(g) \/ MarkReasoned(g) \/ Report(g)

Ours == UNCHANGED <<ingested, job, together>>
Requests == Callers \ Ingesters

WorkerDies(w) ==
    /\ Crash(w)
    /\ job' = [g \in Ingesters |-> IF WorkerOf[g] = w THEN NoJob ELSE job[g]]
    /\ UNCHANGED <<ingested, together>>

CallStep(c) ==
    \/ Advance(c) /\ Ours
    \/ c \in Requests /\ Return(c) /\ Ours
    \/ c \in Ingesters /\ IngestStep(c)

Next ==
    \/ \E c \in Requests, case \in Cases, force \in BOOLEAN : Ask(c, case, force) /\ Ours
    \/ \E g \in Ingesters, batch \in Batches : Ingest(g, batch)
    \/ \E c \in Callers : CallStep(c)
    \/ Outage /\ Ours
    \/ Recover /\ Ours
    \/ \E w \in Workers : WorkerDies(w)

Spec == Init /\ [][Next]_vars

\* a thread runs on as long as its process lives; a free lock is given to someone who waits
FairSpec == Spec /\ \A c \in Callers : WF_vars(CallStep(c))
---------------------------------------------------------------------------
\* Types; an attempt is one of _MAX_ATTEMPTS, and a receipt one of the four outcomes that
\* graph_ingest_repository writes.
TypeOK ==
    /\ PipelineTypeOK
    /\ ingested \in [Cases -> {"none", "loading", "loaded", "reasoned", "failed"}]
    /\ job \in [Ingesters -> Jobs \cup {NoJob}]
    /\ together \in [Cases -> Batches \cup {<<>>}]

NoIngest == \A g \in Ingesters : In(g, "idle")
Undisturbed == Calm /\ faults = 0

DirectPairs == {p \in Pairs : \E n \in DOMAIN Direct[p[1]] : Direct[p[1]][n] = p[2]}

\* With no ingest under way and nothing ever failed, a completed run of a subject of a case
\* has read the case as it was last loaded: an ingest leaves no stale conclusion behind
\* (reason_case's force=True, run_pipeline).
CompletedIsCurrent ==
    Undisturbed /\ NoIngest => \A p \in DirectPairs : Done(state[p]) => state[p].saw[p[1]] = loads[p[1]]

\* In the same states it has read every case of its case's batch as last loaded with it:
\* cases are cross-referenced, so all are loaded before any is reasoned over (ingest).
BatchSeenWhole ==
    Undisturbed /\ NoIngest =>
        \A p \in DirectPairs, d \in Cases :
            /\ Done(state[p]) /\ together[p[1]] # <<>>
            /\ \E n \in DOMAIN together[p[1]] : together[p[1]][n] = d
            /\ together[d] = together[p[1]]
            => state[p].saw[d] = loads[d]

\* With one ingest at a time, a case marked reasoned has been reasoned over for every one of
\* its subjects since it was last loaded, whatever failed (mark_reasoned).
ReasonedMeansRun ==
    Calm => \A case \in Cases :
        /\ ingested[case] = "reasoned"
        => \A p \in DirectPairs : p[1] = case => state[p].saw[case] = loads[case]

\* Every call gets its answer: the lock is released by every way out of a run, and nobody
\* waits for a connection (advisory_lock, ThreadedConnectionPool).
CallsEnd == \A c \in Callers : ~Quiet(c) ~> Quiet(c)

\* pipeline.py, Principle 15: "the next trigger re-runs from the start": a call answers from
\* an earlier run only when that run has read the case as last loaded (clear_run).
NextTriggerReruns ==
    [][\A c \in Callers :
          /\ NoIngest /\ At(c, "check") /\ call'[c].pc = "serve"
          /\ Pair(c) \in DirectPairs
          => state[Pair(c)].saw[call[c].case] = loads[call[c].case]]_vars
=============================================================================
