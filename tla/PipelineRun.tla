---------------------------- MODULE PipelineRun ----------------------------
(***************************************************************************)
(* run_pipeline (reasoning_layer/pipeline.py) for one subject of a case    *)
(* after the other: the advisory lock and the connection pool it takes a   *)
(* connection from (core/db.py), the row of pipeline_execution_state       *)
(* (core/pipeline_state_repository.py) and the stages of a run.            *)
(*                                                                         *)
(* What a stage writes to the graph is InferenceGraph's; here a run only   *)
(* remembers which load of each case its first wave could read.            *)
(***************************************************************************)
EXTENDS Integers, Sequences, FiniteSets

CONSTANTS
    Callers,       \* threads that ask for reasoning: requests and ingests
    Workers,       \* processes, each with a connection pool of its own
    WorkerOf,      \* [Callers -> Workers]
    Cases, Subjects,
    None,          \* nobody
    Direct,        \* [Cases -> Seq(Subjects)]: subjects_for_case
    Population,    \* [Cases -> Seq(Subjects)]: those, and the subjects one hop out
    PoolSize,      \* DB_POOL_MAX_CONN
    MaxCalls,      \* bound on the calls ever made
    MaxFaults,     \* bound on failures of Neo4j, AppWorks, the LLM or a process
    MaxOutages     \* bound on outages of PostgreSQL

ASSUME RunBounds == /\ {PoolSize, MaxCalls, MaxFaults, MaxOutages} \subseteq Nat
                    /\ WorkerOf \in [Callers -> Workers]
                    /\ None \notin Callers /\ IsFiniteSet(Callers)
ASSUME SubjectLists == /\ Direct \in [Cases -> Seq(Subjects)]
                       /\ Population \in [Cases -> Seq(Subjects)]

VARIABLES
    state,      \* [Pairs -> row of pipeline_execution_state]
    lock,       \* [Pairs -> the caller whose session holds the advisory lock, or None]
    call,       \* [Callers -> the call in flight]
    up,         \* PostgreSQL answers
    loads,      \* [Cases -> how often the case has been loaded into the graph]
    calls, faults, outages

pipeline == <<state, lock, call, up, loads, calls, faults, outages>>

Pairs == Cases \X Subjects
Loads == [Cases -> Nat]
\* saw: the loads the last completed run could read
Rows == [status : {"none", "running", "completed", "failed"},
         wave1 : BOOLEAN, extraction : BOOLEAN, wave2 : BOOLEAN, cleared : BOOLEAN, saw : Loads]
Never == [status |-> "none", wave1 |-> FALSE, extraction |-> FALSE, wave2 |-> FALSE,
          cleared |-> FALSE, saw |-> [c \in Cases |-> 0]]
Stages == {"wave1", "mark_wave1", "extraction", "mark_extraction", "wave2", "mark_wave2"}
Calls == [pc : Stages \cup {"lock", "wait", "check", "clear", "start", "mark_failed", "serve",
                            "release", "done"},
          case : Cases, todo : Seq(Subjects), force : BOOLEAN,
          conn : {"none", "open", "broken"},    \* the connection the lock is held on
          ok : BOOLEAN,                         \* no subject has failed so far
          saw : Loads]
Idle == [pc |-> "idle", conn |-> "none"]

PipelineInit ==
    /\ state = [p \in Pairs |-> Never]
    /\ lock = [p \in Pairs |-> None]
    /\ call = [c \in Callers |-> Idle]
    /\ up = TRUE
    /\ loads = [c \in Cases |-> 0]
    /\ calls = 0 /\ faults = 0 /\ outages = 0

---------------------------------------------------------------------------
Quiet(c) == call[c].pc = "idle"
Pair(c) == <<call[c].case, Head(call[c].todo)>>
At(c, label) == call[c].pc = label
Goto(c, label) == call' = [call EXCEPT ![c].pc = label]
\* an exception leaves run_pipeline, past the lock's finally, for run_pipeline_for_case
Raise(c) == call' = [call EXCEPT ![c].pc = "release", ![c].ok = FALSE]

Fault == faults < MaxFaults /\ faults' = faults + 1
NoFault == UNCHANGED faults
Env == UNCHANGED <<up, loads, calls, outages>>

\* connections a process has checked out for its locks, held or waited for
Held(w) == {c \in Callers : WorkerOf[c] = w /\ call[c].conn # "none"}
\* get_cursor finds a connection and the server answers
Statement(c) == up /\ Cardinality(Held(WorkerOf[c])) < PoolSize
\* it finds none, or one that an outage has broken while it lay in the pool
NoStatement(c) == ~Statement(c) \/ outages > 0

\* a write that commits, or raises where the row stands
Write(c, row, next) ==
    /\ \/ Statement(c) /\ state' = [state EXCEPT ![Pair(c)] = row] /\ Goto(c, next)
       \/ NoStatement(c) /\ UNCHANGED state /\ Raise(c)
    /\ UNCHANGED lock /\ NoFault /\ Env

Begin(c, case, subjects, force) ==
    /\ Quiet(c) /\ subjects # <<>>
    /\ call' = [call EXCEPT ![c] = [pc |-> "lock", case |-> case, todo |-> subjects, force |-> force,
                                    conn |-> "none", ok |-> TRUE, saw |-> [d \in Cases |-> 0]]]

\* run_pipeline_for_case, for a request that reads the case, or reloads it
Ask(c, case, force) ==
    /\ calls < MaxCalls /\ calls' = calls + 1
    /\ Begin(c, case, Population[case], force)
    /\ UNCHANGED <<state, lock, up, loads, faults, outages>>

\* pipeline_run_lock: without a connection it goes on unlocked
Lock(c) ==
    /\ At(c, "lock")
    /\ \/ Statement(c) /\ call' = [call EXCEPT ![c].pc = "wait", ![c].conn = "open"]
       \/ NoStatement(c) /\ Goto(c, "check")
    /\ UNCHANGED <<state, lock>> /\ NoFault /\ Env

\* a slip: pg_advisory_lock returns without waiting
GrantedAtOnce(c) ==
    /\ At(c, "wait")
    /\ lock' = [lock EXCEPT ![Pair(c)] = c]
    /\ Goto(c, "check")
    /\ UNCHANGED state /\ NoFault /\ Env

Granted(c) ==
    /\ At(c, "wait") /\ lock[Pair(c)] = None
    /\ lock' = [lock EXCEPT ![Pair(c)] = c]
    /\ Goto(c, "check")
    /\ UNCHANGED state /\ NoFault /\ Env

\* get_run_state answers None when the database does not
RowsRead(c) == (IF Statement(c) THEN {state[Pair(c)]} ELSE {})
               \cup (IF NoStatement(c) THEN {Never} ELSE {})
Done(row) == row.status = "completed" /\ ~row.cleared

\* a slip: an explicit reload does not count
CheckIgnoringForce(c) ==
    /\ At(c, "check")
    /\ \E row \in RowsRead(c) : Goto(c, IF Done(row) THEN "serve" ELSE "start")
    /\ UNCHANGED <<state, lock>> /\ NoFault /\ Env

Check(c) ==
    /\ At(c, "check")
    /\ \E row \in RowsRead(c) :
          Goto(c, IF ~Done(row) THEN "start" ELSE IF call[c].force THEN "clear" ELSE "serve")
    /\ UNCHANGED <<state, lock>> /\ NoFault /\ Env

ClearRun(c) == At(c, "clear") /\ Write(c, [state[Pair(c)] EXCEPT !.cleared = TRUE], "start")

StartRun(c) ==
    /\ At(c, "start")
    /\ Write(c, [Never EXCEPT !.status = "running", !.saw = state[Pair(c)].saw], "wave1")

\* a stage's own work: it ends, or Neo4j fails and the handler marks the run failed
Work(c, stage, next) ==
    /\ At(c, stage)
    /\ \/ Goto(c, next) /\ NoFault
       \/ Goto(c, "mark_failed") /\ Fault
    /\ UNCHANGED <<state, lock>> /\ Env

Wave1(c) ==
    /\ At(c, "wave1")
    /\ \/ call' = [call EXCEPT ![c].pc = "mark_wave1", ![c].saw = loads] /\ NoFault
       \/ Goto(c, "mark_failed") /\ Fault
    /\ UNCHANGED <<state, lock>> /\ Env
MarkWave1(c) ==
    At(c, "mark_wave1") /\ Write(c, [state[Pair(c)] EXCEPT !.wave1 = TRUE], "extraction")

\* run_extraction: an error of the LLM client is no ValueError, and no handler's
Extraction(c) ==
    \/ Work(c, "extraction", "mark_extraction")
    \/ At(c, "extraction") /\ Fault /\ Raise(c) /\ UNCHANGED <<state, lock>> /\ Env

\* a slip: the run is called completed before its second wave
MarkExtractionCompleted(c) ==
    /\ At(c, "mark_extraction")
    /\ Write(c, [state[Pair(c)] EXCEPT !.extraction = TRUE, !.status = "completed"], "wave2")
MarkExtraction(c) ==
    At(c, "mark_extraction") /\ Write(c, [state[Pair(c)] EXCEPT !.extraction = TRUE], "wave2")

Wave2(c) == Work(c, "wave2", "mark_wave2")
MarkWave2(c) ==
    /\ At(c, "mark_wave2")
    /\ Write(c, [state[Pair(c)] EXCEPT !.wave2 = TRUE, !.status = "completed", !.saw = call[c].saw],
             "serve")

\* swallows an error of its own; the failure that led here is raised
MarkFailed(c) ==
    /\ At(c, "mark_failed") /\ Raise(c)
    /\ \/ Statement(c) /\ state' = [state EXCEPT ![Pair(c)].status = "failed"]
       \/ NoStatement(c) /\ UNCHANGED state
    /\ UNCHANGED lock /\ NoFault /\ Env

\* build_rules_fired reads the graph, after a run as after none
Serve(c) ==
    /\ At(c, "serve")
    /\ \/ Goto(c, "release") /\ NoFault
       \/ Raise(c) /\ Fault
    /\ UNCHANGED <<state, lock>> /\ Env

NextSubject(c, ok) ==
    LET later == Tail(call[c].todo)
    IN  call' = [call EXCEPT ![c].pc = IF later = <<>> THEN "done" ELSE "lock",
                             ![c].todo = later, ![c].conn = "none", ![c].ok = @ /\ ok]

\* a slip: the lock is released on the way out of a success only
ReleaseOnSuccess(c) ==
    /\ At(c, "release") /\ NextSubject(c, call[c].conn # "broken")
    /\ lock' = IF lock[Pair(c)] = c /\ call[c].ok THEN [lock EXCEPT ![Pair(c)] = None] ELSE lock
    /\ UNCHANGED state /\ NoFault /\ Env

\* pg_advisory_unlock on a connection the server dropped raises over the run's own result
Release(c) ==
    /\ At(c, "release") /\ NextSubject(c, call[c].conn # "broken")
    /\ lock' = IF lock[Pair(c)] = c THEN [lock EXCEPT ![Pair(c)] = None] ELSE lock
    /\ UNCHANGED state /\ NoFault /\ Env

Advance(c) ==
    \/ Lock(c) \/ Granted(c) \/ Check(c) \/ ClearRun(c) \/ StartRun(c)
    \/ Wave1(c) \/ MarkWave1(c) \/ Extraction(c) \/ MarkExtraction(c) \/ Wave2(c) \/ MarkWave2(c)
    \/ MarkFailed(c) \/ Serve(c) \/ Release(c)

\* the request has its answer
Return(c) ==
    /\ At(c, "done")
    /\ call' = [call EXCEPT ![c] = Idle]
    /\ UNCHANGED <<state, lock>> /\ NoFault /\ Env

---------------------------------------------------------------------------
(* PostgreSQL and the processes come and go.                               *)

\* every session ends: locks are lost, whoever waits for one gets an error and goes on
Outage ==
    /\ up /\ outages < MaxOutages
    /\ outages' = outages + 1 /\ up' = FALSE
    /\ lock' = [p \in Pairs |-> None]
    /\ call' = [c \in Callers |->
                  IF At(c, "wait") THEN [call[c] EXCEPT !.pc = "check", !.conn = "none"]
                  ELSE IF call[c].conn = "open" THEN [call[c] EXCEPT !.conn = "broken"]
                  ELSE call[c]]
    /\ UNCHANGED <<state, loads, calls, faults>>

Recover == ~up /\ up' = TRUE /\ UNCHANGED <<state, lock, call, loads, calls, faults, outages>>

\* a process dies with all its calls; PostgreSQL ends their sessions
Crash(w) ==
    /\ Fault
    /\ lock' = [p \in Pairs |-> IF lock[p] # None /\ WorkerOf[lock[p]] = w THEN None ELSE lock[p]]
    /\ call' = [c \in Callers |-> IF WorkerOf[c] = w THEN Idle ELSE call[c]]
    /\ UNCHANGED <<state, up, loads, calls, outages>>

---------------------------------------------------------------------------
\* Types of the rows, the locks, the calls and the pool (pipeline_state_repository, db).
PipelineTypeOK ==
    /\ state \in [Pairs -> Rows]
    /\ lock \in [Pairs -> Callers \cup {None}]
    /\ call \in [Callers -> Calls \cup {Idle}]
    /\ \A c \in Callers : call[c].pc \notin {"idle", "done"} => call[c].todo # <<>>
    /\ up \in BOOLEAN
    /\ loads \in Loads
    /\ calls \in 0..MaxCalls /\ faults \in 0..MaxFaults /\ outages \in 0..MaxOutages

\* Two runs of one subject of one case overlap only where PostgreSQL could not give one of
\* them its lock, or lost it (pipeline_run_lock, advisory_lock).
LockedRunsExclude ==
    \A c, d \in Callers :
        /\ c # d /\ {call[c].pc, call[d].pc} \subseteq Stages
        /\ Pair(c) = Pair(d)
        => call[c].conn # "open" \/ call[d].conn # "open"

\* PostgreSQL has always answered and no pool can run out
Calm == outages = 0 /\ PoolSize > Cardinality(Callers)

\* As long as PostgreSQL answers, a row says completed only when all its stages do, whatever
\* stage, process or call failed before (mark_wave2_complete, mark_failed).
CompletedIsWhole ==
    Calm => \A p \in Pairs :
        state[p].status = "completed" => state[p].wave1 /\ state[p].extraction /\ state[p].wave2
=============================================================================
