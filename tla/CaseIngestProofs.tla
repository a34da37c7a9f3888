-------------------------- MODULE CaseIngestProofs --------------------------
(***************************************************************************)
(* Proofs about CaseIngest: its types; that two runs of one subject of one *)
(* case exclude each other while each holds its advisory lock; that no row *)
(* says completed before its run is whole; that ingests leave no stale     *)
(* conclusion behind where nothing fails; and that, one ingest at a time,  *)
(* a receipt is true whatever fails.                                       *)
(***************************************************************************)
EXTENDS CaseIngest, TLAPS, FiniteSetTheorems

\* the cases an ingest has yet to load, or to reason over, are there when it turns to them
JobInv ==
    \A g \in Ingesters :
        /\ job[g].phase \in {"mark_started", "sync", "mark_loaded", "mark_failed"} => job[g].todo # <<>>
        /\ job[g].phase = "runs" => job[g].loaded # <<>>

\* a call with its connection intact owns the lock of its pair, unless it still waits for it
LockInv ==
    \A c \in Callers :
        /\ call[c].conn = "open" /\ call[c].pc # "wait" => lock[Pair(c)] = c
        /\ call[c].pc \in {"idle", "lock", "done"} => call[c].conn = "none"

\* what a call has behind it: a lock on an intact connection, and the marks of earlier stages
Progress(c) ==
    /\ call[c].pc \notin {"idle", "lock", "done"} => call[c].conn = "open"
    /\ call[c].pc \in {"extraction", "mark_extraction", "wave2", "mark_wave2"}
       => state[Pair(c)].wave1
    /\ call[c].pc \in {"wave2", "mark_wave2"} => state[Pair(c)].extraction

Whole(row) == row.status = "completed" => row.wave1 /\ row.extraction /\ row.wave2

\* as long as PostgreSQL answers, every call has its progress and no row is completed early
WholeInv ==
    Calm => /\ up
            /\ \A c \in Callers : Progress(c)
            /\ \A p \in Pairs : Whole(state[p])

Working == Stages \cup {"lock", "wait", "check", "clear", "start", "mark_failed", "serve", "release"}

---------------------------------------------------------------------------
\* A call that has begun is a full record, and it has a subject until it is done.
LEMMA CallFields ==
    ASSUME PipelineTypeOK, NEW c \in Callers, call[c].pc \notin {"idle", "done"}
    PROVE  /\ call[c] \in Calls
           /\ Pair(c) \in Pairs
           /\ call[c].todo \in Seq(Subjects) \ {<<>>}
  BY DEF PipelineTypeOK, Calls, Idle, Pair, Pairs

\* Replacing one call by a well-typed record that still has a subject keeps calls well typed.
LEMMA CallReplaced ==
    ASSUME PipelineTypeOK, NEW c \in Callers, NEW r \in Calls \cup {Idle},
           r.pc \notin {"idle", "done"} => r.todo # <<>>,
           call' = [call EXCEPT ![c] = r]
    PROVE  /\ call' \in [Callers -> Calls \cup {Idle}]
           /\ \A d \in Callers : call'[d].pc \notin {"idle", "done"} => call'[d].todo # <<>>
  BY DEF PipelineTypeOK

\* The two ways a call goes on with the subject it has: at another label, or past a failure.
LEMMA GotoTyped ==
    ASSUME PipelineTypeOK, NEW c \in Callers, call[c].pc \notin {"idle", "done"},
           NEW label \in Working, Goto(c, label)
    PROVE  /\ call' \in [Callers -> Calls \cup {Idle}]
           /\ \A d \in Callers : call'[d].pc \notin {"idle", "done"} => call'[d].todo # <<>>
           /\ call' = [call EXCEPT ![c] = [call[c] EXCEPT !.pc = label]]
  <1> DEFINE r == [call[c] EXCEPT !.pc = label]
  <1>1. call[c] \in Calls /\ call[c].todo # <<>>
    BY CallFields
  <1>2. r \in Calls /\ r.todo = call[c].todo
    BY <1>1 DEF Calls, Working, Stages
  <1>3. call' = [call EXCEPT ![c] = r]
    BY DEF Goto
  <1> HIDE DEF r
  <1>4. QED
    BY <1>1, <1>2, <1>3, CallReplaced DEF r

\* A call that raises goes to its release.
LEMMA RaiseTyped ==
    ASSUME PipelineTypeOK, NEW c \in Callers, call[c].pc \notin {"idle", "done"}, Raise(c)
    PROVE  /\ call' \in [Callers -> Calls \cup {Idle}]
           /\ \A d \in Callers : call'[d].pc \notin {"idle", "done"} => call'[d].todo # <<>>
           /\ call' = [call EXCEPT ![c] = [call[c] EXCEPT !.pc = "release", !.ok = FALSE]]
  <1> DEFINE q == [call[c] EXCEPT !.pc = "release"]
             r == [q EXCEPT !.ok = FALSE]
  <1>1. call[c] \in Calls /\ call[c].todo # <<>>
    BY CallFields
  <1>2. q \in Calls /\ q.todo = call[c].todo
    BY <1>1 DEF Calls
  <1>3. r \in Calls /\ r.todo = call[c].todo
    BY <1>2 DEF Calls
  <1>4. call' = [call EXCEPT ![c] = r]
    BY DEF Raise, PipelineTypeOK
  <1>5. r = [call[c] EXCEPT !.pc = "release", !.ok = FALSE]
    OBVIOUS
  <1> HIDE DEF q, r
  <1>6. QED
    BY <1>1, <1>3, <1>4, <1>5, CallReplaced

\* A write by run_pipeline leaves a typed row, or raises.
LEMMA WriteTyped ==
    ASSUME PipelineTypeOK, NEW c \in Callers, call[c].pc \notin {"idle", "done"},
           NEW row \in Rows, NEW next \in Working, Write(c, row, next)
    PROVE  PipelineTypeOK'
  <1>1. CASE Statement(c) /\ state' = [state EXCEPT ![Pair(c)] = row] /\ Goto(c, next)
    <2>1. state' \in [Pairs -> Rows]
      BY <1>1 DEF PipelineTypeOK
    <2>2. QED
      BY <1>1, <2>1, GotoTyped DEF Write, NoFault, Env, PipelineTypeOK
  <1>2. CASE NoStatement(c) /\ UNCHANGED state /\ Raise(c)
    BY <1>2, RaiseTyped DEF Write, NoFault, Env, PipelineTypeOK
  <1>3. QED
    BY <1>1, <1>2 DEF Write

\* Faults stay within their bound.
LEMMA FaultTyped == PipelineTypeOK /\ (Fault \/ NoFault) => faults' \in 0..MaxFaults
  BY RunBounds DEF PipelineTypeOK, Fault, NoFault

\* A stage leaves the types alone.
LEMMA WorkTyped ==
    ASSUME PipelineTypeOK, NEW c \in Callers, NEW stage \in Stages, NEW next \in Working,
           Work(c, stage, next)
    PROVE  PipelineTypeOK'
  <1>1. call[c].pc \notin {"idle", "done"}
    BY DEF Work, At, Stages
  <1>2. PICK label \in Working : Goto(c, label)
    BY DEF Work, Working
  <1>3. QED
    BY <1>1, <1>2, GotoTyped, FaultTyped DEF Work, Env, PipelineTypeOK

\* A call that goes on to its next subject.
LEMMA NextSubjectTyped ==
    ASSUME PipelineTypeOK, NEW c \in Callers, call[c].pc \notin {"idle", "done"},
           NEW ok \in BOOLEAN, NextSubject(c, ok)
    PROVE  /\ call' \in [Callers -> Calls \cup {Idle}]
           /\ \A d \in Callers : call'[d].pc \notin {"idle", "done"} => call'[d].todo # <<>>
           /\ call'[c].pc \in {"lock", "done"} /\ call'[c].conn = "none"
           /\ \A d \in Callers \ {c} : call'[d] = call[d]
  <1> DEFINE later == Tail(call[c].todo)
             r == [pc |-> IF later = <<>> THEN "done" ELSE "lock", case |-> call[c].case,
                   todo |-> later, force |-> call[c].force, conn |-> "none",
                   ok |-> call[c].ok /\ ok, saw |-> call[c].saw]
  <1>1. call[c] \in Calls /\ call[c].todo \in Seq(Subjects) \ {<<>>}
    BY CallFields
  <1>2. later \in Seq(Subjects)
    BY <1>1
  <1>3. (call[c].ok /\ ok) \in BOOLEAN
    BY Zenon
  <1>4. r \in Calls /\ r.todo = later /\ r.pc \in {"lock", "done"} /\ r.conn = "none"
    BY <1>1, <1>2, <1>3 DEF Calls
  <1>5. r.pc \notin {"idle", "done"} => r.todo # <<>>
    OBVIOUS
  <1>6. call' = [call EXCEPT ![c] = r]
    <2>1. \A d \in Callers \ {c} : call'[d] = call[d]
      BY DEF NextSubject, PipelineTypeOK
    <2>2. call'[c] = r
      BY <1>1 DEF NextSubject, PipelineTypeOK, Calls
    <2>3. DOMAIN call' = Callers /\ call' = [d \in Callers |-> call'[d]]
      BY DEF NextSubject, PipelineTypeOK
    <2>4. QED
      BY <2>1, <2>2, <2>3 DEF PipelineTypeOK
  <1> HIDE DEF r
  <1>7. QED
    BY <1>4, <1>5, <1>6, CallReplaced DEF PipelineTypeOK

---------------------------------------------------------------------------
\* Every step of a run keeps the pipeline's types.
LEMMA AdvanceTyped ==
    ASSUME PipelineTypeOK, NEW c \in Callers, Advance(c)
    PROVE  PipelineTypeOK'
  <1> USE DEF NoFault, Env
  <1>0. call[c].pc \notin {"idle", "done"}
    BY Zenon DEF Advance, Lock, Granted, Check, ClearRun, StartRun, Wave1, MarkWave1, Extraction,
         MarkExtraction, Wave2, MarkWave2, MarkFailed, Serve, Release, Work, At
  <1>r. call[c] \in Calls /\ Pair(c) \in Pairs /\ call[c].todo # <<>> /\ state[Pair(c)] \in Rows
    BY <1>0, CallFields DEF PipelineTypeOK
  <1>1. CASE Lock(c)
    <2>1. CASE Goto(c, "check")
      BY <1>0, <1>1, <2>1, GotoTyped DEF Lock, PipelineTypeOK, Working
    <2>2. CASE call' = [call EXCEPT ![c].pc = "wait", ![c].conn = "open"]
      <3> DEFINE q == [call[c] EXCEPT !.pc = "wait"]
                 r == [q EXCEPT !.conn = "open"]
      <3>1. q \in Calls /\ q.todo = call[c].todo
        BY <1>r DEF Calls
      <3>2. r \in Calls /\ r.todo = call[c].todo
        BY <3>1 DEF Calls
      <3>3. call' = [call EXCEPT ![c] = r]
        BY <2>2 DEF PipelineTypeOK
      <3> HIDE DEF q, r
      <3>4. QED
        BY <1>1, <1>r, <3>2, <3>3, CallReplaced DEF Lock, PipelineTypeOK
    <2>3. QED
      BY <1>1, <2>1, <2>2 DEF Lock
  <1>2. CASE Granted(c)
    BY <1>0, <1>r, <1>2, GotoTyped DEF Granted, PipelineTypeOK, Working
  <1>3. CASE Check(c)
    <2>1. PICK label \in Working : Goto(c, label)
      BY <1>3 DEF Check, Working
    <2>2. QED
      BY <1>0, <1>3, <2>1, GotoTyped DEF Check, PipelineTypeOK
  <1>4. CASE ClearRun(c)
    BY <1>0, <1>r, <1>4, WriteTyped DEF ClearRun, Rows, Working
  <1>5. CASE StartRun(c)
    BY <1>0, <1>r, <1>5, WriteTyped DEF StartRun, Rows, Never, Working, Stages
  <1>6. CASE Wave1(c)
    <2>1. CASE Goto(c, "mark_failed")
      BY <1>0, <1>6, <2>1, GotoTyped, FaultTyped DEF Wave1, PipelineTypeOK, Working
    <2>2. CASE call' = [call EXCEPT ![c].pc = "mark_wave1", ![c].saw = loads]
      <3> DEFINE q == [call[c] EXCEPT !.pc = "mark_wave1"]
                 r == [q EXCEPT !.saw = loads]
      <3>1. q \in Calls /\ q.todo = call[c].todo
        BY <1>r DEF Calls, Stages
      <3>2. r \in Calls /\ r.todo = call[c].todo
        BY <3>1 DEF Calls, PipelineTypeOK
      <3>3. call' = [call EXCEPT ![c] = r]
        BY <2>2 DEF PipelineTypeOK
      <3> HIDE DEF q, r
      <3>4. QED
        BY <1>6, <1>r, <3>2, <3>3, CallReplaced, FaultTyped DEF Wave1, PipelineTypeOK
    <2>3. QED
      BY <1>6, <2>1, <2>2 DEF Wave1
  <1>7. CASE MarkWave1(c)
    BY <1>0, <1>r, <1>7, WriteTyped DEF MarkWave1, Rows, Working, Stages
  <1>8. CASE Extraction(c)
    <2>1. CASE Work(c, "extraction", "mark_extraction")
      BY <2>1, WorkTyped DEF Stages, Working
    <2>2. CASE Fault /\ Raise(c) /\ UNCHANGED <<state, lock>> /\ Env
      BY <1>0, <2>2, RaiseTyped, FaultTyped DEF PipelineTypeOK
    <2>3. QED
      BY <1>8, <2>1, <2>2 DEF Extraction
  <1>9. CASE MarkExtraction(c)
    BY <1>0, <1>r, <1>9, WriteTyped DEF MarkExtraction, Rows, Working, Stages
  <1>10. CASE Wave2(c)
    BY <1>10, WorkTyped DEF Wave2, Stages, Working
  <1>11. CASE MarkWave2(c)
    <2>1. call[c].saw \in Loads
      BY <1>r DEF Calls
    <2>2. [state[Pair(c)] EXCEPT !.wave2 = TRUE, !.status = "completed", !.saw = call[c].saw] \in Rows
      BY <1>r, <2>1 DEF Rows
    <2>3. QED
      BY <1>0, <2>2, <1>11, WriteTyped DEF MarkWave2, Working
  <1>12. CASE MarkFailed(c)
    <2>1. state' \in [Pairs -> Rows]
      BY <1>12, <1>r DEF MarkFailed, PipelineTypeOK, Rows
    <2>2. QED
      BY <1>0, <1>12, <2>1, RaiseTyped DEF MarkFailed, PipelineTypeOK
  <1>13. CASE Serve(c)
    <2>1. CASE Goto(c, "release")
      BY <1>0, <1>13, <2>1, GotoTyped, FaultTyped DEF Serve, PipelineTypeOK, Working
    <2>2. CASE Raise(c)
      BY <1>0, <1>13, <2>2, RaiseTyped, FaultTyped DEF Serve, PipelineTypeOK
    <2>3. QED
      BY <1>13, <2>1, <2>2 DEF Serve
  <1>14. CASE Release(c)
    BY <1>0, <1>14, NextSubjectTyped DEF Release, PipelineTypeOK
  <1>15. QED
    BY <1>1, <1>2, <1>3, <1>4, <1>5, <1>6, <1>7, <1>8, <1>9, <1>10, <1>11, <1>12, <1>13, <1>14
       DEF Advance

\* A call that begins, or is over.
LEMMA BeginTyped ==
    ASSUME PipelineTypeOK, NEW c \in Callers, NEW case \in Cases, NEW subjects \in Seq(Subjects),
           NEW force \in BOOLEAN, Begin(c, case, subjects, force)
    PROVE  /\ call' \in [Callers -> Calls \cup {Idle}]
           /\ \A d \in Callers : call'[d].pc \notin {"idle", "done"} => call'[d].todo # <<>>
           /\ call'[c].pc = "lock" /\ call'[c].conn = "none"
           /\ \A d \in Callers \ {c} : call'[d] = call[d]
  <1> DEFINE r == [pc |-> "lock", case |-> case, todo |-> subjects, force |-> force,
                   conn |-> "none", ok |-> TRUE, saw |-> [d \in Cases |-> 0]]
  <1>1. r \in Calls /\ r.todo # <<>> /\ r.pc = "lock" /\ r.conn = "none"
    BY DEF Calls, Loads, Begin
  <1>2. call' = [call EXCEPT ![c] = r]
    BY DEF Begin
  <1> HIDE DEF r
  <1>3. QED
    BY <1>1, <1>2, CallReplaced DEF PipelineTypeOK

\* A call that is over.
LEMMA OverTyped ==
    ASSUME PipelineTypeOK, NEW c \in Callers, call' = [call EXCEPT ![c] = Idle]
    PROVE  /\ call' \in [Callers -> Calls \cup {Idle}]
           /\ \A d \in Callers : call'[d].pc \notin {"idle", "done"} => call'[d].todo # <<>>
  BY CallReplaced DEF Idle

\* A call that begins.
LEMMA AskTyped ==
    ASSUME PipelineTypeOK, NEW c \in Callers, NEW case \in Cases, NEW force \in BOOLEAN,
           Ask(c, case, force)
    PROVE  PipelineTypeOK'
  <1>1. Population[case] \in Seq(Subjects)
    BY SubjectLists
  <1>2. calls' \in 0..MaxCalls
    BY RunBounds DEF Ask, PipelineTypeOK
  <1>3. QED
    BY <1>1, <1>2, BeginTyped DEF Ask, PipelineTypeOK

\* A call whose answer is taken.
LEMMA ReturnTyped ==
    ASSUME PipelineTypeOK, NEW c \in Callers, Return(c)
    PROVE  PipelineTypeOK'
  BY OverTyped DEF Return, PipelineTypeOK, NoFault, Env

\* PostgreSQL goes away and comes back; a process dies.
LEMMA OutageTyped == PipelineTypeOK /\ Outage => PipelineTypeOK'
  <1> SUFFICES ASSUME PipelineTypeOK, Outage PROVE PipelineTypeOK'
    OBVIOUS
  <1>1. ASSUME NEW c \in Callers
        PROVE  /\ call'[c] \in Calls \cup {Idle}
               /\ call'[c].pc \notin {"idle", "done"} => call'[c].todo # <<>>
    <2>1. CASE At(c, "wait")
      <3> DEFINE q == [call[c] EXCEPT !.pc = "check"]
      <3>1. call[c] \in Calls /\ call[c].todo # <<>>
        BY <2>1, CallFields DEF At
      <3>2. q \in Calls /\ q.todo = call[c].todo
        BY <3>1 DEF Calls
      <3>3. [q EXCEPT !.conn = "none"] \in Calls /\ [q EXCEPT !.conn = "none"].todo = call[c].todo
        BY <3>2 DEF Calls
      <3>4. call'[c] = [q EXCEPT !.conn = "none"]
        BY <2>1, <1>1 DEF Outage
      <3> HIDE DEF q
      <3>5. QED
        BY <3>1, <3>3, <3>4
    <2>2. CASE ~At(c, "wait") /\ call[c].conn = "open"
      <3>1. call[c] \in Calls
        BY <2>2 DEF PipelineTypeOK, Idle
      <3>2. call'[c] = [call[c] EXCEPT !.conn = "broken"]
        BY <2>2, <1>1 DEF Outage
      <3>3. QED
        BY <3>1, <3>2 DEF Calls, PipelineTypeOK
    <2>3. CASE ~At(c, "wait") /\ call[c].conn # "open"
      BY <2>3, <1>1 DEF Outage, PipelineTypeOK
    <2>4. QED
      BY <2>1, <2>2, <2>3
  <1>2. call' \in [Callers -> Calls \cup {Idle}]
    BY <1>1 DEF Outage
  <1>3. outages' \in 0..MaxOutages
    <2>1. outages < MaxOutages /\ outages' = outages + 1
      BY Zenon DEF Outage
    <2>2. outages \in 0..MaxOutages /\ MaxOutages \in Nat
      BY RunBounds DEF PipelineTypeOK
    <2>3. QED
      BY <2>1, <2>2
  <1>4. QED
    BY <1>1, <1>2, <1>3 DEF Outage, PipelineTypeOK

\* A process that crashes leaves its calls idle and its locks free.
LEMMA CrashTyped ==
    ASSUME PipelineTypeOK, NEW w \in Workers, Crash(w)
    PROVE  PipelineTypeOK'
  <1>1. call' \in [Callers -> Calls \cup {Idle}]
    BY DEF Crash, PipelineTypeOK
  <1>2. \A c \in Callers : call'[c].pc \notin {"idle", "done"} => call'[c].todo # <<>>
    BY DEF Crash, PipelineTypeOK, Idle
  <1>3. lock' \in [Pairs -> Callers \cup {None}]
    BY DEF Crash, PipelineTypeOK
  <1>4. QED
    BY <1>1, <1>2, <1>3, FaultTyped DEF Crash, PipelineTypeOK

---------------------------------------------------------------------------
\* What the types say of an ingest: those of its record, and that its lists are not empty
\* when it takes the first case of one.
IngestTypes == TypeOK /\ JobInv

\* The initial states are typed.
LEMMA InitTypes == Init => IngestTypes
  <1> SUFFICES ASSUME Init PROVE IngestTypes
    OBVIOUS
  <1>1. PipelineTypeOK
    <2>1. Never \in Rows
      BY DEF Never, Rows, Loads
    <2>2. 0 \in 0..MaxCalls /\ 0 \in 0..MaxFaults /\ 0 \in 0..MaxOutages
      BY RunBounds
    <2>3. QED
      BY <2>1, <2>2 DEF Init, PipelineInit, PipelineTypeOK, Idle, Loads
  <1>2. QED
    BY <1>1 DEF Init, IngestTypes, TypeOK, JobInv, NoJob

\* The parts of a job.
LEMMA JobFields ==
    ASSUME IngestTypes, NEW g \in Ingesters, job[g].phase # "idle"
    PROVE  /\ g \in Callers
           /\ job[g] \in Jobs
           /\ job[g].phase \in {"mark_started", "sync", "mark_loaded", "mark_failed"}
              => job[g].todo \in Seq(Cases) \ {<<>>} /\ Loading(g) \in Cases
  BY IngestBounds DEF IngestTypes, TypeOK, JobInv, Jobs, NoJob, Loading

\* Replacing one ingest's record keeps the ingests well typed.
LEMMA JobReplaced ==
    ASSUME IngestTypes, NEW g \in Ingesters, NEW r \in Jobs \cup {NoJob},
           r.phase \in {"mark_started", "sync", "mark_loaded", "mark_failed"} => r.todo # <<>>,
           r.phase = "runs" => r.loaded # <<>>,
           job' = [job EXCEPT ![g] = r]
    PROVE  job' \in [Ingesters -> Jobs \cup {NoJob}] /\ JobInv'
  BY DEF IngestTypes, TypeOK, JobInv

\* A receipt is written or is not.
LEMMA ReceiptTyped ==
    ASSUME IngestTypes, NEW g \in Callers, NEW case \in Cases,
           NEW status \in {"loading", "loaded", "reasoned", "failed"}, Receipt(g, case, status)
    PROVE  ingested' \in [Cases -> {"none", "loading", "loaded", "reasoned", "failed"}]
  BY DEF IngestTypes, TypeOK, Receipt

\* An ingest that begins has a case to load.
LEMMA IngestTyped ==
    ASSUME IngestTypes, NEW g \in Ingesters, NEW batch \in Batches, Ingest(g, batch)
    PROVE  IngestTypes'
  <1> DEFINE r == [phase |-> "mark_started", batch |-> batch, todo |-> batch,
                   loaded |-> <<>>, attempt |-> 1]
  <1>1. batch \in Seq(Cases) /\ batch # <<>> /\ 1 \in 1..MaxAttempts
    BY IngestBounds
  <1>2. r \in Jobs /\ r.todo # <<>> /\ r.phase # "runs"
    BY <1>1 DEF Jobs
  <1>3. job' = [job EXCEPT ![g] = r]
    BY DEF Ingest
  <1> HIDE DEF r
  <1>4. job' \in [Ingesters -> Jobs \cup {NoJob}] /\ JobInv'
    BY <1>2, <1>3, JobReplaced
  <1>5. calls' \in 0..MaxCalls
    BY RunBounds DEF Ingest, IngestTypes, TypeOK, PipelineTypeOK
  <1>6. QED
    BY <1>4, <1>5 DEF Ingest, Graph, IngestTypes, TypeOK, PipelineTypeOK

\* The receipt that says it started.
LEMMA MarkStartedTyped ==
    ASSUME IngestTypes, NEW g \in Ingesters, MarkStarted(g)
    PROVE  IngestTypes'
  <1> DEFINE r == [job[g] EXCEPT !.phase = "sync"]
  <1>1. job[g] \in Jobs /\ job[g].todo # <<>> /\ Loading(g) \in Cases /\ g \in Callers
    BY JobFields DEF MarkStarted, In
  <1>2. r \in Jobs /\ r.todo # <<>> /\ r.phase # "runs"
    BY <1>1 DEF Jobs
  <1>3. job' = [job EXCEPT ![g] = r]
    BY DEF MarkStarted
  <1> HIDE DEF r
  <1>4. job' \in [Ingesters -> Jobs \cup {NoJob}] /\ JobInv'
    BY <1>2, <1>3, JobReplaced
  <1>5. QED
    BY <1>1, <1>4, ReceiptTyped DEF MarkStarted, Graph, IngestTypes, TypeOK, PipelineTypeOK

\* A load, done, retried or given up.
LEMMA SyncTyped ==
    ASSUME IngestTypes, NEW g \in Ingesters, Sync(g)
    PROVE  IngestTypes'
  <1>1. job[g] \in Jobs /\ job[g].todo # <<>> /\ Loading(g) \in Cases /\ g \in Callers
    BY JobFields DEF Sync, In
  <1>2. job[g].batch \in Batches /\ job[g].attempt \in 1..MaxAttempts
    BY <1>1 DEF Jobs
  <1>3. /\ loads' \in Loads
        /\ together' \in [Cases -> Batches \cup {<<>>}]
        /\ faults' \in 0..MaxFaults
    <2>1. faults' \in 0..MaxFaults
      BY FaultTyped DEF Sync, IngestTypes, TypeOK
    <2>2. CASE /\ loads' = [loads EXCEPT ![Loading(g)] = @ + 1]
               /\ together' = [together EXCEPT ![Loading(g)] = job[g].batch]
      BY <1>1, <1>2, <2>1, <2>2 DEF IngestTypes, TypeOK, PipelineTypeOK, Loads
    <2>3. CASE UNCHANGED <<loads, together>>
      BY <2>1, <2>3 DEF IngestTypes, TypeOK, PipelineTypeOK
    <2>4. QED
      BY <2>2, <2>3 DEF Sync
  <1>4. job' \in [Ingesters -> Jobs \cup {NoJob}] /\ JobInv'
    <2>1. CASE job' = [job EXCEPT ![g].phase = "mark_loaded"]
      <3> DEFINE r == [job[g] EXCEPT !.phase = "mark_loaded"]
      <3>1. r \in Jobs /\ r.todo # <<>> /\ r.phase # "runs"
        BY <1>1 DEF Jobs
      <3>2. job' = [job EXCEPT ![g] = r]
        BY <2>1
      <3> HIDE DEF r
      <3>3. QED
        BY <3>1, <3>2, JobReplaced
    <2>2. CASE job' = [job EXCEPT ![g].phase = "mark_failed"]
      <3> DEFINE r == [job[g] EXCEPT !.phase = "mark_failed"]
      <3>1. r \in Jobs /\ r.todo # <<>> /\ r.phase # "runs"
        BY <1>1 DEF Jobs
      <3>2. job' = [job EXCEPT ![g] = r]
        BY <2>2
      <3> HIDE DEF r
      <3>3. QED
        BY <3>1, <3>2, JobReplaced
    <2>3. CASE /\ AnotherAttempt(g)
               /\ job' = [job EXCEPT ![g].phase = "mark_started", ![g].attempt = @ + 1]
      <3> DEFINE r == [job[g] EXCEPT !.phase = "mark_started", !.attempt = job[g].attempt + 1]
      <3>1. job[g].attempt + 1 \in 1..MaxAttempts
        BY <1>2, <2>3, IngestBounds DEF AnotherAttempt
      <3>2. r \in Jobs /\ r.todo # <<>> /\ r.phase # "runs"
        BY <1>1, <3>1 DEF Jobs
      <3>3. job' = [job EXCEPT ![g] = r]
        BY <1>1, <2>3 DEF IngestTypes, TypeOK
      <3> HIDE DEF r
      <3>4. QED
        BY <3>2, <3>3, JobReplaced
    <2>4. QED
      BY <2>1, <2>2, <2>3 DEF Sync
  <1>5. QED
    BY <1>3, <1>4 DEF Sync, Graph, IngestTypes, TypeOK, PipelineTypeOK

\* An ingest that goes on to the next case, or to the second of its two passes.
LEMMA NextCaseTyped ==
    ASSUME IngestTypes, NEW g \in Ingesters, job[g] \in Jobs, job[g].todo # <<>>,
           NEW loaded \in Seq(Cases), NextCase(g, loaded)
    PROVE  job' \in [Ingesters -> Jobs \cup {NoJob}] /\ JobInv'
  <1> DEFINE later == Tail(job[g].todo)
             r == [job[g] EXCEPT !.phase = Phase(later), !.todo = later, !.loaded = loaded,
                                 !.attempt = 1]
  <1>1. later \in Seq(Cases) /\ job[g].batch \in Batches /\ 1 \in 1..MaxAttempts
    BY IngestBounds DEF Jobs
  <1>2. r \in Jobs /\ r.phase \in {"reason", "mark_started"} /\ r.todo = later
    BY <1>1 DEF Jobs, Phase
  <1>3. r.phase = "mark_started" => r.todo # <<>>
    BY <1>2 DEF Phase
  <1>4. job' = [job EXCEPT ![g] = r]
    BY DEF NextCase
  <1> HIDE DEF r
  <1>5. QED
    BY <1>2, <1>3, <1>4, JobReplaced

\* The receipt of a load.
LEMMA MarkLoadedTyped ==
    ASSUME IngestTypes, NEW g \in Ingesters, MarkLoaded(g) \/ GiveUp(g)
    PROVE  IngestTypes'
  <1>1. job[g] \in Jobs /\ job[g].todo # <<>> /\ Loading(g) \in Cases /\ g \in Callers
    BY JobFields DEF MarkLoaded, GiveUp, In
  <1>2. job[g].loaded \in Seq(Cases) /\ Append(job[g].loaded, Loading(g)) \in Seq(Cases)
    BY <1>1 DEF Jobs
  <1>3. job' \in [Ingesters -> Jobs \cup {NoJob}] /\ JobInv'
    BY <1>1, <1>2, NextCaseTyped DEF MarkLoaded, GiveUp
  <1>4. ingested' \in [Cases -> {"none", "loading", "loaded", "reasoned", "failed"}]
    BY <1>1, ReceiptTyped DEF MarkLoaded, GiveUp
  <1>5. UNCHANGED <<call, loads, calls, faults, together, state, lock, up, outages>>
    BY DEF MarkLoaded, GiveUp, Graph
  <1>6. QED
    BY <1>3, <1>4, <1>5 DEF IngestTypes, TypeOK, PipelineTypeOK

\* An ingest that reasons over a case.
LEMMA ReasonTyped ==
    ASSUME IngestTypes, NEW g \in Ingesters, Reason(g)
    PROVE  IngestTypes'
  <1> DEFINE case == Head(job[g].loaded)
  <1>1. job[g] \in Jobs /\ g \in Callers /\ job[g].phase = "reason" /\ job[g].loaded # <<>>
    BY JobFields DEF Reason, CaseToReason, In
  <1>2. job[g].loaded \in Seq(Cases) /\ case \in Cases /\ Direct[case] \in Seq(Subjects)
    BY <1>1, SubjectLists DEF Jobs
  <1> HIDE DEF case
  <1>3. UNCHANGED <<loads, calls, ingested, together, state, lock, up, outages>>
    BY DEF Reason, Graph
  <1>4. faults' \in 0..MaxFaults
    BY FaultTyped DEF Reason, IngestTypes, TypeOK
  <1>5. /\ call' \in [Callers -> Calls \cup {Idle}]
        /\ \A d \in Callers : call'[d].pc \notin {"idle", "done"} => call'[d].todo # <<>>
    <2>1. CASE Begin(g, case, Direct[case], TRUE)
      BY <1>1, <1>2, <2>1, BeginTyped DEF IngestTypes, TypeOK
    <2>2. CASE UNCHANGED call
      BY <2>2 DEF IngestTypes, TypeOK, PipelineTypeOK
    <2>3. QED
      BY <2>1, <2>2 DEF Reason, case
  <1>6. job' \in [Ingesters -> Jobs \cup {NoJob}] /\ JobInv'
    <2>1. CASE job' = [job EXCEPT ![g].phase = "runs"]
      <3> DEFINE r == [job[g] EXCEPT !.phase = "runs"]
      <3>1. r \in Jobs /\ r.phase = "runs" /\ r.loaded # <<>>
        BY <1>1 DEF Jobs
      <3>2. job' = [job EXCEPT ![g] = r]
        BY <2>1
      <3> HIDE DEF r
      <3>3. QED
        BY <3>1, <3>2, JobReplaced
    <2>2. CASE job' = [job EXCEPT ![g].loaded = Tail(@)]
      <3> DEFINE r == [job[g] EXCEPT !.loaded = Tail(job[g].loaded)]
      <3>1. Tail(job[g].loaded) \in Seq(Cases)
        BY <1>1, <1>2
      <3>2. r \in Jobs /\ r.phase = "reason"
        BY <1>1, <3>1 DEF Jobs
      <3>3. job' = [job EXCEPT ![g] = r]
        BY <2>2
      <3> HIDE DEF r
      <3>4. QED
        BY <3>2, <3>3, JobReplaced
    <2>3. CASE job' = [job EXCEPT ![g] = NoJob]
      BY <2>3, JobReplaced DEF NoJob
    <2>4. QED
      BY <2>1, <2>2, <2>3 DEF Reason
  <1>7. QED
    BY <1>3, <1>4, <1>5, <1>6 DEF IngestTypes, TypeOK, PipelineTypeOK

\* The receipt of the reasoning.
LEMMA MarkReasonedTyped ==
    ASSUME IngestTypes, NEW g \in Ingesters, MarkReasoned(g)
    PROVE  IngestTypes'
  <1> DEFINE r == [job[g] EXCEPT !.phase = Phase(job[g].todo), !.loaded = Tail(job[g].loaded)]
  <1>1. job[g] \in Jobs /\ g \in Callers /\ job[g].loaded # <<>>
    BY JobFields DEF MarkReasoned, In, IngestTypes, JobInv
  <1>2. job[g].loaded \in Seq(Cases) /\ Head(job[g].loaded) \in Cases
        /\ Tail(job[g].loaded) \in Seq(Cases)
    BY <1>1 DEF Jobs
  <1>3. /\ r \in Jobs /\ r.phase \in {"reason", "mark_started"}
        /\ r.phase = "mark_started" => r.todo # <<>>
    BY <1>1, <1>2 DEF Jobs, Phase
  <1>4. job' = [job EXCEPT ![g] = r]
    BY <1>1 DEF MarkReasoned, IngestTypes, TypeOK
  <1> HIDE DEF r
  <1>5. job' \in [Ingesters -> Jobs \cup {NoJob}] /\ JobInv'
    BY <1>3, <1>4, JobReplaced
  <1>6. ingested' \in [Cases -> {"none", "loading", "loaded", "reasoned", "failed"}]
    BY <1>1, <1>2, ReceiptTyped DEF MarkReasoned, IngestTypes, TypeOK
  <1>7. QED
    BY <1>1, <1>5, <1>6, OverTyped DEF MarkReasoned, Graph, IngestTypes, TypeOK, PipelineTypeOK

\* The report of the ingest.
LEMMA ReportTyped ==
    ASSUME IngestTypes, NEW g \in Ingesters, Report(g)
    PROVE  IngestTypes'
  <1>1. job' \in [Ingesters -> Jobs \cup {NoJob}] /\ JobInv'
    BY JobReplaced DEF Report, NoJob
  <1>2. QED
    BY <1>1 DEF Report, Graph, IngestTypes, TypeOK, PipelineTypeOK

\* A step that changes only the pipeline, or kills a worker.
LEMMA OursTyped == IngestTypes /\ Ours /\ PipelineTypeOK' => IngestTypes'
  BY DEF IngestTypes, TypeOK, JobInv, Ours

\* A process that dies takes its ingest with it.
LEMMA WorkerDiesTyped ==
    ASSUME IngestTypes, NEW w \in Workers, WorkerDies(w)
    PROVE  IngestTypes'
  <1>1. PipelineTypeOK'
    BY CrashTyped DEF WorkerDies, IngestTypes, TypeOK
  <1>2. QED
    BY <1>1 DEF WorkerDies, IngestTypes, TypeOK, JobInv, NoJob

\* Every step keeps the types.
LEMMA NextTyped == IngestTypes /\ [Next]_vars => IngestTypes'
  <1> SUFFICES ASSUME IngestTypes, [Next]_vars PROVE IngestTypes'
    OBVIOUS
  <1>1. ASSUME NEW c \in Requests, NEW case \in Cases, NEW force \in BOOLEAN,
               Ask(c, case, force), Ours
        PROVE  IngestTypes'
    BY <1>1, AskTyped, OursTyped DEF Requests, IngestTypes, TypeOK
  <1>2. ASSUME NEW g \in Ingesters, NEW batch \in Batches, Ingest(g, batch) PROVE IngestTypes'
    BY <1>2, IngestTyped
  <1>3. ASSUME NEW c \in Callers, CallStep(c) PROVE IngestTypes'
    <2>1. CASE Advance(c) /\ Ours
      BY <2>1, AdvanceTyped, OursTyped DEF IngestTypes, TypeOK
    <2>2. CASE Return(c) /\ Ours
      BY <2>2, ReturnTyped, OursTyped DEF IngestTypes, TypeOK
    <2>3. CASE c \in Ingesters /\ IngestStep(c)
      BY <2>3, MarkStartedTyped, SyncTyped, MarkLoadedTyped, ReasonTyped, MarkReasonedTyped,
         ReportTyped DEF IngestStep
    <2>4. QED
      BY <1>3, <2>1, <2>2, <2>3 DEF CallStep
  <1>4. CASE Outage /\ Ours
    BY <1>4, OutageTyped, OursTyped DEF IngestTypes, TypeOK
  <1>5. CASE Recover /\ Ours
    <2>1. PipelineTypeOK'
      BY <1>5 DEF Recover, IngestTypes, TypeOK, PipelineTypeOK
    <2>2. QED
      BY <1>5, <2>1, OursTyped
  <1>6. ASSUME NEW w \in Workers, WorkerDies(w) PROVE IngestTypes'
    BY <1>6, WorkerDiesTyped
  <1>7. CASE UNCHANGED vars
    BY <1>7 DEF vars, pipeline, IngestTypes, TypeOK, PipelineTypeOK, JobInv
  <1>8. QED
    BY <1>1, <1>2, <1>3, <1>4, <1>5, <1>6, <1>7 DEF Next

\* The types hold throughout (ingest, run_pipeline_for_case).
THEOREM IngestTypeCorrect == Spec => []TypeOK
  <1>1. IngestTypes => TypeOK
    BY DEF IngestTypes
  <1>2. QED
    BY InitTypes, NextTyped, <1>1, PTL DEF Spec

---------------------------------------------------------------------------
\* A call that goes on past the lock keeps it, and nobody else's lock is touched.
LEMMA StaysLocked ==
    ASSUME PipelineTypeOK, LockInv, NEW c \in Callers, NEW r \in Calls,
           call[c].pc \notin {"idle", "done", "wait"}, r.pc \notin {"wait", "lock", "done"},
           r.case = call[c].case, r.todo = call[c].todo, r.conn = call[c].conn,
           call' = [call EXCEPT ![c] = r], UNCHANGED lock
    PROVE  LockInv'
  <1>1. ASSUME NEW d \in Callers
        PROVE  /\ call'[d].conn = "open" /\ call'[d].pc # "wait" => lock'[Pair(d)'] = d
               /\ call'[d].pc \in {"idle", "lock", "done"} => call'[d].conn = "none"
    <2>1. CASE d = c
      <3>1. call'[d] = r /\ r.pc # "idle"
        BY <2>1 DEF PipelineTypeOK, Calls, Stages
      <3>2. Pair(d)' = Pair(d)
        BY <2>1, <3>1 DEF Pair
      <3>3. QED
        BY <2>1, <3>1, <3>2 DEF LockInv
    <2>2. CASE d # c
      <3>1. call'[d] = call[d]
        BY <2>2 DEF PipelineTypeOK
      <3>2. Pair(d)' = Pair(d)
        BY <3>1 DEF Pair
      <3>3. QED
        BY <3>1, <3>2 DEF LockInv
    <2>3. QED
      BY <2>1, <2>2
  <1>2. QED
    BY <1>1 DEF LockInv

\* A call that moves on keeps its lock.
LEMMA GotoLocked ==
    ASSUME PipelineTypeOK, LockInv, NEW c \in Callers, call[c].pc \notin {"idle", "done", "wait"},
           NEW label \in Working \ {"wait", "lock"}, Goto(c, label), UNCHANGED lock
    PROVE  LockInv'
  <1> DEFINE r == [call[c] EXCEPT !.pc = label]
  <1>1. r \in Calls /\ r.case = call[c].case /\ r.todo = call[c].todo /\ r.conn = call[c].conn
        /\ r.pc = label /\ label # "done"
    BY CallFields DEF Calls, Working, Stages
  <1>2. call' = [call EXCEPT ![c] = r]
    BY DEF Goto
  <1> HIDE DEF r
  <1>3. QED
    BY <1>1, <1>2, StaysLocked

\* So does one that raises.
LEMMA RaiseLocked ==
    ASSUME PipelineTypeOK, LockInv, NEW c \in Callers, call[c].pc \notin {"idle", "done", "wait"},
           Raise(c), UNCHANGED lock
    PROVE  LockInv'
  <1> DEFINE q == [call[c] EXCEPT !.pc = "release"]
             r == [q EXCEPT !.ok = FALSE]
  <1>1. q \in Calls /\ q.case = call[c].case /\ q.todo = call[c].todo /\ q.conn = call[c].conn
        /\ q.pc = "release"
    BY CallFields DEF Calls
  <1>2. r \in Calls /\ r.case = call[c].case /\ r.todo = call[c].todo /\ r.conn = call[c].conn
        /\ r.pc = "release"
    BY <1>1 DEF Calls
  <1>3. call' = [call EXCEPT ![c] = r]
    BY DEF Raise, PipelineTypeOK
  <1> HIDE DEF q, r
  <1>4. QED
    BY <1>2, <1>3, StaysLocked

\* A lock is granted only while nobody has it, and given back only by the call that has it.
LEMMA GrantedLocked ==
    ASSUME PipelineTypeOK, LockInv, NEW c \in Callers, Granted(c)
    PROVE  LockInv'
  <1>1. call[c].pc = "wait" /\ lock[Pair(c)] = None /\ lock' = [lock EXCEPT ![Pair(c)] = c]
        /\ Goto(c, "check")
    BY DEF Granted, At
  <1>2. call[c] \in Calls /\ Pair(c) \in Pairs
    BY <1>1, CallFields
  <1>3. ASSUME NEW d \in Callers
        PROVE  /\ call'[d].conn = "open" /\ call'[d].pc # "wait" => lock'[Pair(d)'] = d
               /\ call'[d].pc \in {"idle", "lock", "done"} => call'[d].conn = "none"
    <2>1. CASE d = c
      <3>1. call'[d] = [call[c] EXCEPT !.pc = "check"]
        BY <1>1, <2>1 DEF Goto, PipelineTypeOK
      <3>2. call'[d].pc = "check" /\ Pair(d)' = Pair(c)
        BY <1>2, <2>1, <3>1 DEF Pair, Calls
      <3>3. QED
        BY <1>1, <1>2, <2>1, <3>2 DEF PipelineTypeOK
    <2>2. CASE d # c
      <3>1. call'[d] = call[d]
        BY <1>1, <2>2 DEF Goto, PipelineTypeOK
      <3>2. Pair(d)' = Pair(d)
        BY <3>1 DEF Pair
      <3>3. lock[Pair(d)] = d => lock'[Pair(d)] = d
        BY <1>1, <1>2, RunBounds DEF PipelineTypeOK
      <3>4. QED
        BY <3>1, <3>2, <3>3 DEF LockInv
    <2>3. QED
      BY <2>1, <2>2
  <1>4. QED
    BY <1>3 DEF LockInv

\* A release gives up the lock of its own call only.
LEMMA ReleaseLocked ==
    ASSUME PipelineTypeOK, LockInv, NEW c \in Callers, Release(c)
    PROVE  LockInv'
  <1>1. call[c].pc = "release"
    BY DEF Release, At
  <1>2. call'[c].conn = "none" /\ \A d \in Callers \ {c} : call'[d] = call[d]
    BY <1>1, NextSubjectTyped DEF Release
  <1>3. ASSUME NEW d \in Callers, lock[Pair(d)] = d, d # c PROVE lock'[Pair(d)] = d
    BY <1>3, RunBounds DEF Release, PipelineTypeOK
  <1>4. ASSUME NEW d \in Callers
        PROVE  /\ call'[d].conn = "open" /\ call'[d].pc # "wait" => lock'[Pair(d)'] = d
               /\ call'[d].pc \in {"idle", "lock", "done"} => call'[d].conn = "none"
    <2>1. CASE d = c
      BY <1>2, <2>1
    <2>2. CASE d # c
      <3>1. call'[d] = call[d]
        BY <1>2, <2>2
      <3>2. Pair(d)' = Pair(d)
        BY <3>1 DEF Pair
      <3>3. QED
        BY <1>3, <2>2, <3>1, <3>2 DEF LockInv
    <2>3. QED
      BY <2>1, <2>2
  <1>5. QED
    BY <1>4 DEF LockInv

\* A call waits for the lock, takes it, or goes on without one.
LEMMA LockLocked ==
    ASSUME PipelineTypeOK, LockInv, NEW c \in Callers, Lock(c)
    PROVE  LockInv'
  <1>0. call[c].pc = "lock" /\ UNCHANGED lock
    BY DEF Lock, At
  <1>1. CASE Goto(c, "check")
    BY <1>0, <1>1, GotoLocked DEF Working
  <1>2. CASE call' = [call EXCEPT ![c].pc = "wait", ![c].conn = "open"]
    <2> DEFINE q == [call[c] EXCEPT !.pc = "wait"]
               r == [q EXCEPT !.conn = "open"]
    <2>1. call[c] \in Calls
      BY <1>0, CallFields
    <2>2. q \in Calls /\ q.pc = "wait"
      BY <2>1 DEF Calls
    <2>3. r.pc = "wait"
      BY <2>2 DEF Calls
    <2>4. call' = [call EXCEPT ![c] = r]
      BY <1>2 DEF PipelineTypeOK
    <2> HIDE DEF q, r
    <2>5. ASSUME NEW d \in Callers
          PROVE  /\ call'[d].conn = "open" /\ call'[d].pc # "wait" => lock'[Pair(d)'] = d
                 /\ call'[d].pc \in {"idle", "lock", "done"} => call'[d].conn = "none"
      <3>1. CASE d = c
        BY <2>3, <2>4, <3>1 DEF PipelineTypeOK
      <3>2. CASE d # c
        <4>1. call'[d] = call[d]
          BY <2>4, <3>2 DEF PipelineTypeOK
        <4>2. Pair(d)' = Pair(d)
          BY <4>1 DEF Pair
        <4>3. QED
          BY <1>0, <4>1, <4>2 DEF LockInv
      <3>3. QED
        BY <3>1, <3>2
    <2>6. QED
      BY <2>5 DEF LockInv
  <1>3. QED
    BY <1>1, <1>2 DEF Lock

\* A write of the row leaves the locks alone.
LEMMA WriteLocked ==
    ASSUME PipelineTypeOK, LockInv, NEW c \in Callers, call[c].pc \notin {"idle", "done", "wait"},
           NEW row, NEW next \in Working \ {"wait", "lock"}, Write(c, row, next)
    PROVE  LockInv'
  BY GotoLocked, RaiseLocked DEF Write

\* So does a stage.
LEMMA WorkLocked ==
    ASSUME PipelineTypeOK, LockInv, NEW c \in Callers, NEW stage \in Stages,
           NEW next \in Working \ {"wait", "lock"}, Work(c, stage, next)
    PROVE  LockInv'
  <1>1. call[c].pc \notin {"idle", "done", "wait"} /\ UNCHANGED lock
    BY DEF Work, At, Stages
  <1>2. PICK label \in Working \ {"wait", "lock"} : Goto(c, label)
    BY DEF Work, Working
  <1>3. QED
    BY <1>1, <1>2, GotoLocked

\* Every step of a run keeps the locks.
LEMMA AdvanceLocked ==
    ASSUME PipelineTypeOK, LockInv, NEW c \in Callers, Advance(c)
    PROVE  LockInv'
  <1>1. CASE Lock(c) \/ Granted(c) \/ Release(c)
    BY <1>1, LockLocked, GrantedLocked, ReleaseLocked
  <1>2. CASE Check(c)
    <2>1. call[c].pc = "check" /\ UNCHANGED lock
      BY <1>2 DEF Check, At
    <2>2. PICK label \in Working \ {"wait", "lock"} : Goto(c, label)
      BY <1>2 DEF Check, Working
    <2>3. QED
      BY <2>1, <2>2, GotoLocked
  <1>3. CASE ClearRun(c)
    BY <1>3, WriteLocked DEF ClearRun, At, Working, Stages
  <1>4. CASE StartRun(c)
    BY <1>4, WriteLocked DEF StartRun, At, Working, Stages
  <1>5. CASE MarkWave1(c)
    BY <1>5, WriteLocked DEF MarkWave1, At, Working, Stages
  <1>6. CASE MarkExtraction(c)
    BY <1>6, WriteLocked DEF MarkExtraction, At, Working, Stages
  <1>7. CASE MarkWave2(c)
    BY <1>7, WriteLocked DEF MarkWave2, At, Working, Stages
  <1>8. CASE Wave1(c)
    <2>1. call[c].pc = "wave1" /\ UNCHANGED lock
      BY <1>8 DEF Wave1, At
    <2>2. CASE Goto(c, "mark_failed")
      BY <2>1, <2>2, GotoLocked DEF Working
    <2>3. CASE call' = [call EXCEPT ![c].pc = "mark_wave1", ![c].saw = loads]
      <3> DEFINE q == [call[c] EXCEPT !.pc = "mark_wave1"]
                 r == [q EXCEPT !.saw = loads]
      <3>1. q \in Calls /\ q.case = call[c].case /\ q.todo = call[c].todo /\ q.conn = call[c].conn
            /\ q.pc = "mark_wave1"
        BY <2>1, CallFields DEF Calls, Stages
      <3>2. r \in Calls /\ r.case = call[c].case /\ r.todo = call[c].todo /\ r.conn = call[c].conn
            /\ r.pc = "mark_wave1"
        BY <3>1 DEF Calls, PipelineTypeOK
      <3>3. call' = [call EXCEPT ![c] = r]
        BY <2>3 DEF PipelineTypeOK
      <3> HIDE DEF q, r
      <3>4. QED
        BY <2>1, <3>2, <3>3, StaysLocked
    <2>4. QED
      BY <1>8, <2>2, <2>3 DEF Wave1
  <1>9. CASE Extraction(c)
    <2>1. CASE Work(c, "extraction", "mark_extraction")
      BY <2>1, WorkLocked DEF Stages, Working
    <2>2. CASE At(c, "extraction") /\ Raise(c) /\ UNCHANGED lock
      BY <2>2, RaiseLocked DEF At
    <2>3. QED
      BY <1>9, <2>1, <2>2 DEF Extraction
  <1>10. CASE Wave2(c)
    BY <1>10, WorkLocked DEF Wave2, Stages, Working
  <1>11. CASE MarkFailed(c)
    BY <1>11, RaiseLocked DEF MarkFailed, At
  <1>12. CASE Serve(c)
    BY <1>12, GotoLocked, RaiseLocked DEF Serve, At, Working
  <1>13. QED
    BY <1>1, <1>2, <1>3, <1>4, <1>5, <1>6, <1>7, <1>8, <1>9, <1>10, <1>11, <1>12 DEF Advance

\* A call that begins, or is over, holds no connection.
LEMMA EndsLocked ==
    ASSUME PipelineTypeOK, LockInv, NEW c \in Callers, UNCHANGED lock, call'[c].conn = "none",
           \A d \in Callers \ {c} : call'[d] = call[d]
    PROVE  LockInv'
  <1>1. \A d \in Callers \ {c} : Pair(d)' = Pair(d)
    BY DEF Pair
  <1>2. QED
    BY <1>1 DEF LockInv

\* With the server gone nobody has a lock, or a connection that is intact.
LEMMA OutageLocked == PipelineTypeOK /\ LockInv /\ Outage => LockInv'
  <1> SUFFICES ASSUME PipelineTypeOK, LockInv, Outage, NEW c \in Callers
               PROVE  /\ call'[c].conn # "open"
                      /\ call'[c].pc \in {"idle", "lock", "done"} => call'[c].conn = "none"
    BY DEF LockInv
  <1>1. CASE At(c, "wait")
    <2>1. call[c] \in Calls /\ call'[c] = [call[c] EXCEPT !.pc = "check", !.conn = "none"]
      BY <1>1, CallFields DEF Outage, At
    <2>2. QED
      BY <2>1 DEF Calls
  <1>2. CASE ~At(c, "wait") /\ call[c].conn = "open"
    <2>1. call[c] \in Calls
      BY <1>2 DEF PipelineTypeOK, Idle
    <2>2. call'[c] = [call[c] EXCEPT !.conn = "broken"]
      BY <1>2 DEF Outage
    <2>3. call'[c].conn = "broken" /\ call'[c].pc = call[c].pc
      BY <2>1, <2>2 DEF Calls
    <2>4. QED
      BY <1>2, <2>3 DEF LockInv
  <1>3. CASE ~At(c, "wait") /\ call[c].conn # "open"
    BY <1>3 DEF Outage, LockInv
  <1>4. QED
    BY <1>1, <1>2, <1>3

\* A crash frees the locks of the calls it ends.
LEMMA CrashLocked ==
    ASSUME PipelineTypeOK, LockInv, NEW w \in Workers, Crash(w)
    PROVE  LockInv'
  <1>1. ASSUME NEW c \in Callers
        PROVE  /\ call'[c].conn = "open" /\ call'[c].pc # "wait" => lock'[Pair(c)'] = c
               /\ call'[c].pc \in {"idle", "lock", "done"} => call'[c].conn = "none"
    <2>1. CASE WorkerOf[c] = w
      BY <2>1 DEF Crash, Idle
    <2>2. CASE WorkerOf[c] # w
      <3>1. call'[c] = call[c]
        BY <2>2 DEF Crash
      <3>2. Pair(c)' = Pair(c)
        BY <3>1 DEF Pair
      <3>3. call[c].conn = "open" => Pair(c) \in Pairs
        BY CallFields DEF LockInv
      <3>4. lock[Pair(c)] = c /\ Pair(c) \in Pairs => lock'[Pair(c)] = c
        BY <2>2 DEF Crash
      <3>5. QED
        BY <3>1, <3>2, <3>3, <3>4 DEF LockInv
    <2>3. QED
      BY <2>1, <2>2
  <1>2. QED
    BY <1>1 DEF LockInv

\* Every step keeps the locks.
LEMMA NextLocked == IngestTypes /\ LockInv /\ [Next]_vars => LockInv'
  <1> SUFFICES ASSUME IngestTypes, LockInv, [Next]_vars PROVE LockInv'
    OBVIOUS
  <1>0. PipelineTypeOK
    BY DEF IngestTypes, TypeOK
  <1>s. ASSUME UNCHANGED <<call, lock>> PROVE LockInv'
    BY <1>s DEF LockInv, Pair
  <1>1. ASSUME NEW c \in Requests, NEW case \in Cases, NEW force \in BOOLEAN, Ask(c, case, force)
        PROVE  LockInv'
    <2>1. Population[case] \in Seq(Subjects) /\ c \in Callers
      BY SubjectLists DEF Requests
    <2>2. QED
      BY <1>0, <1>1, <2>1, BeginTyped, EndsLocked DEF Ask
  <1>2. ASSUME NEW g \in Ingesters, NEW batch \in Batches, Ingest(g, batch) PROVE LockInv'
    BY <1>2, <1>s DEF Ingest, Graph
  <1>3. ASSUME NEW c \in Callers, CallStep(c) PROVE LockInv'
    <2>1. CASE Advance(c)
      BY <1>0, <2>1, AdvanceLocked
    <2>2. CASE Return(c)
      <3>1. call'[c] = Idle /\ \A d \in Callers \ {c} : call'[d] = call[d]
        BY <1>0, <2>2 DEF Return, PipelineTypeOK
      <3>2. QED
        BY <1>0, <2>2, <3>1, EndsLocked DEF Return, Idle
    <2>3. CASE MarkReasoned(c)
      <3>1. call'[c] = Idle /\ \A d \in Callers \ {c} : call'[d] = call[d]
        BY <1>0, <2>3 DEF MarkReasoned, PipelineTypeOK
      <3>2. QED
        BY <1>0, <2>3, <3>1, EndsLocked DEF MarkReasoned, Graph, Idle
    <2>4. CASE c \in Ingesters /\ Reason(c)
      <3> DEFINE case == Head(job[c].loaded)
      <3>1. job[c] \in Jobs /\ job[c].loaded # <<>> /\ UNCHANGED lock
        BY <2>4, JobFields DEF Reason, CaseToReason, In, Graph
      <3>2. case \in Cases /\ Direct[case] \in Seq(Subjects)
        BY <3>1, SubjectLists DEF Jobs
      <3> HIDE DEF case
      <3>3. CASE Begin(c, case, Direct[case], TRUE)
        BY <1>0, <3>1, <3>2, <3>3, BeginTyped, EndsLocked
      <3>4. CASE UNCHANGED call
        BY <3>1, <3>4, <1>s
      <3>5. QED
        BY <2>4, <3>3, <3>4 DEF Reason, case
    <2>5. CASE MarkStarted(c) \/ Sync(c) \/ MarkLoaded(c) \/ GiveUp(c) \/ Report(c)
      <3>1. UNCHANGED <<call, lock>>
        BY <2>5 DEF MarkStarted, Sync, MarkLoaded, GiveUp, Report, Graph
      <3>2. QED
        BY <3>1, <1>s
    <2>6. QED
      BY <1>3, <2>1, <2>2, <2>3, <2>4, <2>5 DEF CallStep, IngestStep
  <1>4. CASE Outage
    BY <1>0, <1>4, OutageLocked
  <1>5. CASE Recover
    BY <1>5, <1>s DEF Recover
  <1>6. ASSUME NEW w \in Workers, WorkerDies(w) PROVE LockInv'
    BY <1>0, <1>6, CrashLocked DEF WorkerDies
  <1>7. CASE UNCHANGED vars
    BY <1>7, <1>s DEF vars, pipeline
  <1>8. QED
    BY <1>1, <1>2, <1>3, <1>4, <1>5, <1>6, <1>7 DEF Next

\* Two runs of one subject of one case that both hold their connection exclude each other,
\* however many callers, workers, cases and failures there are (pipeline_run_lock).
THEOREM LocksExclude == Spec => []LockedRunsExclude
  <1>1. Init => LockInv
    BY DEF Init, PipelineInit, LockInv, Idle
  <1>2. LockInv => LockedRunsExclude
    BY DEF LockInv, LockedRunsExclude, Stages
  <1>3. QED
    BY InitTypes, NextTyped, NextLocked, <1>1, <1>2, PTL DEF Spec

---------------------------------------------------------------------------
\* While PostgreSQL answers and the pool is larger than the number of callers, every
\* statement finds a connection.
LEMMA Answers ==
    ASSUME PipelineTypeOK, Calm, up, NEW c \in Callers
    PROVE  Statement(c) /\ ~NoStatement(c)
  <1>1. IsFiniteSet(Callers) /\ Held(WorkerOf[c]) \subseteq Callers
    BY RunBounds DEF Held
  <1>2. Cardinality(Held(WorkerOf[c])) <= Cardinality(Callers)
    BY <1>1, FS_Subset
  <1>3. Cardinality(Held(WorkerOf[c])) \in Nat /\ Cardinality(Callers) \in Nat /\ PoolSize \in Nat
    BY <1>1, FS_Subset, FS_CardinalityType, RunBounds
  <1>4. Cardinality(Held(WorkerOf[c])) < PoolSize
    BY <1>2, <1>3 DEF Calm
  <1>5. ~(outages > 0)
    BY DEF Calm
  <1>6. QED
    BY <1>4, <1>5, Zenon DEF Statement, NoStatement

\* A step of one call, which may write the row of its own pair if it is past the lock.
LEMMA KeepsWhole ==
    ASSUME PipelineTypeOK, LockInv, WholeInv, Calm, NEW c \in Callers,
           \A d \in Callers \ {c} : call'[d] = call[d],
           \/ UNCHANGED state
           \/ /\ call[c].pc \notin {"idle", "lock", "wait", "done"}
              /\ \E row \in Rows : Whole(row) /\ state' = [state EXCEPT ![Pair(c)] = row],
           Progress(c)', UNCHANGED up
    PROVE  WholeInv'
  <1>1. up'
    BY DEF WholeInv
  <1>2. \A p \in Pairs : Whole(state'[p])
    BY DEF WholeInv, PipelineTypeOK
  <1>3. ASSUME NEW d \in Callers \ {c} PROVE Progress(d)'
    <2>1. Progress(d) /\ Progress(c) /\ call'[d] = call[d]
      BY DEF WholeInv
    <2>2. Pair(d)' = Pair(d)
      BY <2>1 DEF Pair
    <2>3. CASE call[d].pc \in {"extraction", "mark_extraction", "wave2", "mark_wave2"}
      <3>1. lock[Pair(d)] = d
        BY <2>1, <2>3 DEF Progress, LockInv
      <3>2. call[c].pc \notin {"idle", "lock", "wait", "done"} => lock[Pair(c)] = c
        BY <2>1 DEF Progress, LockInv
      <3>3. Pair(c) # Pair(d) \/ UNCHANGED state
        BY <3>1, <3>2
      <3>4. state'[Pair(d)] = state[Pair(d)]
        BY <2>3, <3>3, CallFields DEF PipelineTypeOK
      <3>5. QED
        BY <2>1, <2>2, <3>4 DEF Progress
    <2>4. CASE call[d].pc \notin {"extraction", "mark_extraction", "wave2", "mark_wave2"}
      BY <2>1, <2>4 DEF Progress
    <2>5. QED
      BY <2>3, <2>4
  <1>4. QED
    BY <1>1, <1>2, <1>3 DEF WholeInv, Whole

\* A move to another label, where the row already holds what that label needs.
LEMMA GotoWhole ==
    ASSUME PipelineTypeOK, LockInv, WholeInv, Calm, NEW c \in Callers,
           call[c].pc \notin {"idle", "lock", "wait", "done"},
           NEW label \in Working, Goto(c, label), UNCHANGED <<state, up>>,
           label \in {"extraction", "mark_extraction", "wave2", "mark_wave2"}
           => state[Pair(c)].wave1,
           label \in {"wave2", "mark_wave2"} => state[Pair(c)].extraction
    PROVE  WholeInv'
  <1>1. call[c] \in Calls /\ call' = [call EXCEPT ![c] = [call[c] EXCEPT !.pc = label]]
    BY CallFields DEF Goto
  <1>2. call'[c].pc = label /\ call'[c].conn = "open" /\ Pair(c)' = Pair(c)
    BY <1>1 DEF PipelineTypeOK, Calls, Pair, WholeInv, Progress
  <1>3. QED
    BY <1>1, <1>2, KeepsWhole DEF PipelineTypeOK, Progress

\* A call that raises leaves the rows as they are.
LEMMA RaiseWhole ==
    ASSUME PipelineTypeOK, LockInv, WholeInv, Calm, NEW c \in Callers,
           call[c].pc \notin {"idle", "lock", "wait", "done"}, Raise(c), UNCHANGED up,
           \/ UNCHANGED state
           \/ \E row \in Rows : Whole(row) /\ state' = [state EXCEPT ![Pair(c)] = row]
    PROVE  WholeInv'
  <1>1. call[c] \in Calls /\ \A d \in Callers \ {c} : call'[d] = call[d]
    BY CallFields DEF Raise, PipelineTypeOK
  <1>2. call'[c] = [call[c] EXCEPT !.pc = "release", !.ok = FALSE]
    BY RaiseTyped DEF PipelineTypeOK
  <1>3. call'[c].pc = "release" /\ call'[c].conn = "open"
    BY <1>1, <1>2 DEF Calls, WholeInv, Progress
  <1>4. QED
    BY <1>1, <1>3, KeepsWhole DEF Progress

\* A write that has its connection marks the stage it has been through.
LEMMA WriteWhole ==
    ASSUME PipelineTypeOK, LockInv, WholeInv, Calm, NEW c \in Callers,
           call[c].pc \notin {"idle", "lock", "wait", "done"},
           NEW row \in Rows, NEW next \in Working, Write(c, row, next), Whole(row),
           next \in {"extraction", "mark_extraction", "wave2", "mark_wave2"} => row.wave1,
           next \in {"wave2", "mark_wave2"} => row.extraction
    PROVE  WholeInv'
  <1>1. state' = [state EXCEPT ![Pair(c)] = row] /\ Goto(c, next) /\ UNCHANGED up
    BY Answers, Zenon DEF Write, WholeInv, Env
  <1>2. call[c] \in Calls /\ Pair(c) \in Pairs
        /\ call' = [call EXCEPT ![c] = [call[c] EXCEPT !.pc = next]]
    BY <1>1, CallFields DEF Goto
  <1>3. call'[c].pc = next /\ call'[c].conn = "open" /\ Pair(c)' = Pair(c)
        /\ state'[Pair(c)] = row
    BY <1>1, <1>2 DEF PipelineTypeOK, Calls, Pair, WholeInv, Progress
  <1>4. Progress(c)'
    BY <1>3 DEF Progress
  <1>5. QED
    BY <1>1, <1>2, <1>4, KeepsWhole DEF PipelineTypeOK

\* Every step of a run keeps the order of a row's marks.
LEMMA AdvanceWhole ==
    ASSUME PipelineTypeOK, LockInv, WholeInv, Calm, NEW c \in Callers, Advance(c)
    PROVE  WholeInv'
  <1> DEFINE row == state[Pair(c)]
  <1>p. Progress(c)
    BY DEF WholeInv
  <1>r. call[c].pc \notin {"idle", "done"} => row \in Rows /\ Whole(row)
    BY CallFields DEF PipelineTypeOK, WholeInv
  <1> HIDE DEF row
  <1>1. CASE Lock(c)
    <2>1. call[c] \in Calls /\ UNCHANGED <<state, up>>
      BY <1>1, CallFields DEF Lock, At, Env
    <2>2. call' = [call EXCEPT ![c].pc = "wait", ![c].conn = "open"]
      BY <1>1, Answers, Zenon DEF Lock, WholeInv
    <2>3. call'[c].pc = "wait" /\ call'[c].conn = "open"
          /\ \A d \in Callers \ {c} : call'[d] = call[d]
      BY <2>1, <2>2 DEF PipelineTypeOK, Calls
    <2>4. QED
      BY <2>1, <2>3, KeepsWhole DEF Progress
  <1>2. CASE Granted(c)
    <2>1. call[c] \in Calls /\ call[c].pc = "wait" /\ Goto(c, "check") /\ UNCHANGED <<state, up>>
      BY <1>2, CallFields DEF Granted, At, Env
    <2>2. call'[c].pc = "check" /\ call'[c].conn = call[c].conn
          /\ \A d \in Callers \ {c} : call'[d] = call[d]
      BY <2>1 DEF Goto, PipelineTypeOK, Calls
    <2>3. QED
      BY <1>p, <2>1, <2>2, KeepsWhole DEF Progress
  <1>3. CASE Check(c)
    <2>1. call[c].pc = "check" /\ UNCHANGED <<state, up>>
      BY <1>3 DEF Check, At, Env
    <2>2. PICK label \in {"start", "clear", "serve"} : Goto(c, label)
      BY <1>3 DEF Check
    <2>3. QED
      BY <2>1, <2>2, GotoWhole DEF Working
  <1>4. CASE ClearRun(c)
    <2>1. call[c].pc = "clear" /\ Write(c, [row EXCEPT !.cleared = TRUE], "start")
      BY <1>4 DEF ClearRun, At, row
    <2>2. [row EXCEPT !.cleared = TRUE] \in Rows /\ Whole([row EXCEPT !.cleared = TRUE])
      BY <1>r, <2>1 DEF Rows, Whole
    <2>3. QED
      BY <2>1, <2>2, WriteWhole DEF Working
  <1>5. CASE StartRun(c)
    <2> DEFINE next == [Never EXCEPT !.status = "running", !.saw = row.saw]
    <2>1. call[c].pc = "start" /\ Write(c, next, "wave1")
      BY <1>5 DEF StartRun, At, row
    <2>2. next \in Rows /\ Whole(next)
      BY <1>r, <2>1 DEF Rows, Whole, Never
    <2> HIDE DEF next
    <2>3. QED
      BY <2>1, <2>2, WriteWhole DEF Working, Stages
  <1>6. CASE Wave1(c)
    <2>1. call[c].pc = "wave1" /\ call[c] \in Calls /\ UNCHANGED <<state, up>>
      BY <1>6, CallFields DEF Wave1, At, Env
    <2>2. CASE Goto(c, "mark_failed")
      BY <2>1, <2>2, GotoWhole DEF Working
    <2>3. CASE call' = [call EXCEPT ![c].pc = "mark_wave1", ![c].saw = loads]
      <3>1. call'[c].pc = "mark_wave1" /\ call'[c].conn = call[c].conn
            /\ \A d \in Callers \ {c} : call'[d] = call[d]
        BY <2>1, <2>3 DEF PipelineTypeOK, Calls
      <3>2. QED
        BY <1>p, <2>1, <3>1, KeepsWhole DEF Progress
    <2>4. QED
      BY <1>6, <2>2, <2>3 DEF Wave1
  <1>7. CASE MarkWave1(c)
    <2> DEFINE next == [row EXCEPT !.wave1 = TRUE]
    <2>1. call[c].pc = "mark_wave1" /\ Write(c, next, "extraction")
      BY <1>7 DEF MarkWave1, At, row
    <2>2. next \in Rows /\ Whole(next) /\ next.wave1
      BY <1>r, <2>1 DEF Rows, Whole
    <2> HIDE DEF next
    <2>3. QED
      BY <2>1, <2>2, WriteWhole DEF Working, Stages
  <1>8. CASE Extraction(c)
    <2>1. call[c].pc = "extraction" /\ UNCHANGED <<state, up>>
      BY <1>8 DEF Extraction, Work, At, Env
    <2>2. CASE Raise(c)
      BY <2>1, <2>2, RaiseWhole
    <2>3. CASE Work(c, "extraction", "mark_extraction")
      BY <1>p, <2>1, <2>3, GotoWhole DEF Work, Working, Stages, Progress
    <2>4. QED
      BY <1>8, <2>2, <2>3 DEF Extraction
  <1>9. CASE MarkExtraction(c)
    <2> DEFINE next == [row EXCEPT !.extraction = TRUE]
    <2>1. call[c].pc = "mark_extraction" /\ Write(c, next, "wave2")
      BY <1>9 DEF MarkExtraction, At, row
    <2>2. next \in Rows /\ Whole(next) /\ next.wave1 /\ next.extraction
      BY <1>p, <1>r, <2>1 DEF Rows, Whole, Progress, row
    <2> HIDE DEF next
    <2>3. QED
      BY <2>1, <2>2, WriteWhole DEF Working, Stages
  <1>10. CASE Wave2(c)
    <2>1. call[c].pc = "wave2" /\ UNCHANGED <<state, up>>
      BY <1>10 DEF Wave2, Work, At, Env
    <2>2. QED
      BY <1>10, <1>p, <2>1, GotoWhole DEF Wave2, Work, Working, Stages, Progress
  <1>11. CASE MarkWave2(c)
    <2> DEFINE next == [row EXCEPT !.wave2 = TRUE, !.status = "completed", !.saw = call[c].saw]
    <2>1. call[c].pc = "mark_wave2" /\ Write(c, next, "serve")
      BY <1>11 DEF MarkWave2, At, row
    <2>2. call[c].saw \in Loads
      BY <2>1, CallFields DEF Calls
    <2>3. next \in Rows /\ Whole(next)
      BY <1>p, <1>r, <2>1, <2>2 DEF Rows, Whole, Progress, row
    <2> HIDE DEF next
    <2>4. QED
      BY <2>1, <2>3, WriteWhole DEF Working
  <1>12. CASE MarkFailed(c)
    <2>1. call[c].pc = "mark_failed" /\ Raise(c) /\ UNCHANGED up
      BY <1>12 DEF MarkFailed, At, Env
    <2>2. state' = [state EXCEPT ![Pair(c)].status = "failed"]
      BY <1>12, Answers, Zenon DEF MarkFailed, WholeInv
    <2>3. [row EXCEPT !.status = "failed"] \in Rows /\ Whole([row EXCEPT !.status = "failed"])
      BY <1>r, <2>1 DEF Rows, Whole
    <2>4. state' = [state EXCEPT ![Pair(c)] = [row EXCEPT !.status = "failed"]]
      BY <2>2 DEF row
    <2>5. QED
      BY <2>1, <2>3, <2>4, RaiseWhole
  <1>13. CASE Serve(c)
    <2>1. call[c].pc = "serve" /\ UNCHANGED <<state, up>>
      BY <1>13 DEF Serve, At, Env
    <2>2. QED
      BY <1>13, <2>1, GotoWhole, RaiseWhole DEF Serve, Working
  <1>14. CASE Release(c)
    <2>1. call[c].pc = "release" /\ UNCHANGED <<state, up>>
      BY <1>14 DEF Release, At, Env
    <2>2. call'[c].pc \in {"lock", "done"} /\ \A d \in Callers \ {c} : call'[d] = call[d]
      BY <1>14, <2>1, NextSubjectTyped DEF Release
    <2>3. QED
      BY <2>1, <2>2, KeepsWhole DEF Progress
  <1>15. QED
    BY <1>1, <1>2, <1>3, <1>4, <1>5, <1>6, <1>7, <1>8, <1>9, <1>10, <1>11, <1>12, <1>13, <1>14
       DEF Advance

\* A call that begins, or is over, has nothing behind it.
LEMMA EndsWhole ==
    ASSUME PipelineTypeOK, LockInv, WholeInv, Calm, NEW c \in Callers,
           call'[c].pc \in {"idle", "lock", "done"}, UNCHANGED <<state, up>>,
           \A d \in Callers \ {c} : call'[d] = call[d]
    PROVE  WholeInv'
  BY KeepsWhole DEF Progress

\* As long as PostgreSQL answers it has answered so far.
LEMMA CalmBefore ==
    ASSUME PipelineTypeOK, [Next]_vars, Calm'
    PROVE  Calm /\ ~Outage
<1>1. outages \in Nat
  BY RunBounds DEF PipelineTypeOK
<1>2. ~Outage
  <2>1. Outage => outages' = outages + 1
    BY Zenon DEF Outage
  <2>2. outages' = 0
    BY DEF Calm
  <2> QED BY <1>1, <2>1, <2>2
<1>3. UNCHANGED outages
  BY <1>2 DEF Next, vars, pipeline, CallStep, Advance, IngestStep, Ask, Lock, Granted, Check,
     ClearRun, StartRun, Wave1, MarkWave1, Extraction, MarkExtraction, Wave2, MarkWave2,
     MarkFailed, Serve, Release, Return, Work, Write, Env, Graph, Ingest, MarkStarted, Sync,
     MarkLoaded, GiveUp, Reason, MarkReasoned, Report, Recover, WorkerDies, Crash
<1> QED BY <1>2, <1>3 DEF Calm

\* Every step keeps the order of a row's marks.
LEMMA NextWhole == IngestTypes /\ LockInv /\ WholeInv /\ [Next]_vars => WholeInv'
  <1> SUFFICES ASSUME IngestTypes, LockInv, WholeInv, [Next]_vars, Calm' PROVE WholeInv'
    BY DEF WholeInv
  <1>0. PipelineTypeOK
    BY DEF IngestTypes, TypeOK
  <1>o. ~Outage /\ Calm
    BY <1>0, CalmBefore
  <1>s. ASSUME UNCHANGED <<call, state, up>> PROVE WholeInv'
    BY <1>s, <1>o DEF WholeInv, Progress, Pair
  <1>1. ASSUME NEW c \in Requests, NEW case \in Cases, NEW force \in BOOLEAN, Ask(c, case, force)
        PROVE  WholeInv'
    <2>1. Population[case] \in Seq(Subjects) /\ c \in Callers
      BY SubjectLists DEF Requests
    <2>2. QED
      BY <1>0, <1>o, <1>1, <2>1, BeginTyped, EndsWhole DEF Ask
  <1>2. ASSUME NEW g \in Ingesters, NEW batch \in Batches, Ingest(g, batch) PROVE WholeInv'
    BY <1>2, <1>s DEF Ingest, Graph
  <1>3. ASSUME NEW c \in Callers, CallStep(c) PROVE WholeInv'
    <2>1. CASE Advance(c)
      BY <1>0, <1>o, <2>1, AdvanceWhole
    <2>2. CASE Return(c) \/ MarkReasoned(c)
      <3>1. call' = [call EXCEPT ![c] = Idle] /\ UNCHANGED <<state, up>>
        BY <2>2 DEF Return, MarkReasoned, Env, Graph
      <3>2. call'[c] = Idle /\ \A d \in Callers \ {c} : call'[d] = call[d]
        BY <1>0, <3>1 DEF PipelineTypeOK
      <3>3. QED
        BY <1>0, <1>o, <3>1, <3>2, EndsWhole DEF Idle
    <2>3. CASE c \in Ingesters /\ Reason(c)
      <3> DEFINE case == Head(job[c].loaded)
      <3>1. job[c] \in Jobs /\ job[c].loaded # <<>> /\ UNCHANGED <<state, up>>
        BY <2>3, JobFields DEF Reason, CaseToReason, In, Graph
      <3>2. case \in Cases /\ Direct[case] \in Seq(Subjects)
        BY <3>1, SubjectLists DEF Jobs
      <3> HIDE DEF case
      <3>3. CASE Begin(c, case, Direct[case], TRUE)
        BY <1>0, <1>o, <3>1, <3>2, <3>3, BeginTyped, EndsWhole
      <3>4. CASE UNCHANGED call
        BY <3>1, <3>4, <1>s
      <3>5. QED
        BY <2>3, <3>3, <3>4 DEF Reason, case
    <2>4. CASE MarkStarted(c) \/ Sync(c) \/ MarkLoaded(c) \/ GiveUp(c) \/ Report(c)
      <3>1. UNCHANGED <<call, state, up>>
        BY <2>4 DEF MarkStarted, Sync, MarkLoaded, GiveUp, Report, Graph
      <3>2. QED
        BY <3>1, <1>s
    <2>5. QED
      BY <1>3, <2>1, <2>2, <2>3, <2>4 DEF CallStep, IngestStep
  <1>4. CASE Recover
    BY <1>o, <1>4 DEF Recover, WholeInv
  <1>5. ASSUME NEW w \in Workers, WorkerDies(w) PROVE WholeInv'
    <2>1. \A c \in Callers : call'[c] = Idle \/ call'[c] = call[c]
      BY <1>5 DEF WorkerDies, Crash
    <2>2. UNCHANGED <<state, up>>
      BY <1>5 DEF WorkerDies, Crash
    <2>3. \A c \in Callers : Progress(c)'
      <3> SUFFICES ASSUME NEW c \in Callers PROVE Progress(c)'
        OBVIOUS
      <3>1. CASE call'[c] = Idle
        BY <3>1 DEF Progress, Idle
      <3>2. CASE call'[c] = call[c]
        BY <1>o, <2>2, <3>2 DEF WholeInv, Progress, Pair
      <3>3. QED
        BY <2>1, <3>1, <3>2
    <2>4. QED
      BY <1>o, <2>2, <2>3 DEF WholeInv
  <1>6. CASE UNCHANGED vars
    BY <1>6, <1>s DEF vars, pipeline
  <1>7. QED
    BY <1>o, <1>1, <1>2, <1>3, <1>4, <1>5, <1>6 DEF Next

\* As long as PostgreSQL answers, a row says completed only when all its stages do, for any
\* number of callers, workers, failures and crashes (mark_wave2_complete, mark_failed).
THEOREM CompletedWhole == Spec => []CompletedIsWhole
  <1>1. Init => LockInv
    BY DEF Init, PipelineInit, LockInv, Idle
  <1>2. Init => WholeInv
    BY DEF Init, PipelineInit, WholeInv, Progress, Whole, Idle, Never
  <1>3. WholeInv => CompletedIsWhole
    BY DEF WholeInv, CompletedIsWhole, Whole
  <1>4. QED
    BY InitTypes, NextTyped, NextLocked, NextWhole, <1>1, <1>2, <1>3, PTL DEF Spec

---------------------------------------------------------------------------
(* What a run has read, and who will yet read it.                          *)

\* the stages of a run that has read the graph and not yet said so in its row
Reading == {"mark_wave1", "extraction", "mark_extraction", "wave2", "mark_wave2"}
\* the places of a call that has yet to read it for its subject
Ahead == {"lock", "wait", "check", "clear", "start", "wave1"}
\* nothing has gone wrong for a call
Good(c) == call[c].ok /\ call[c].pc # "mark_failed"
Members(s) == {s[n] : n \in DOMAIN s}

\* the row of a pair, and every run that will write it, has read a case as last loaded
FreshOf(p, d) ==
    /\ state[p].saw[d] = loads[d]
    /\ \A c \in Callers : call[c].pc \in Reading /\ Pair(c) = p => call[c].saw[d] = loads[d]

\* the call of a caller comes to a pair yet, or has read the case for it as last loaded
Comes(c, p, d) ==
    /\ call[c].case = p[1]
    /\ \E n \in DOMAIN call[c].todo :
          /\ call[c].todo[n] = p[2]
          /\ \/ n > 1
             \/ call[c].pc \in Ahead
             \/ call[c].pc \in Reading /\ call[c].saw[d] = loads[d]

\* A step of a run does one of four things: it moves on, reads the graph, writes what it
\* has read, or leaves its subject
Moves(c) ==
    /\ call'[c].todo = call[c].todo /\ call'[c].saw = call[c].saw
    /\ \A p \in Pairs : state'[p].saw = state[p].saw
    /\ call'[c].pc \in Reading => call[c].pc \in Reading
    /\ call'[c].pc \notin {"idle", "done"}
    /\ Good(c)' => /\ Good(c)
                   /\ call[c].pc \in Ahead => call'[c].pc \in Ahead \/ ~call[c].force
                   /\ call[c].pc \in Reading => call'[c].pc \in Reading
    /\ faults' = faults /\ Good(c) => Good(c)'
Reads(c) ==
    /\ call'[c].todo = call[c].todo /\ call'[c].saw = loads
    /\ \A p \in Pairs : state'[p].saw = state[p].saw
    /\ call[c].pc \in Ahead /\ call'[c].pc \in Reading /\ call'[c].ok = call[c].ok
Completes(c) ==
    /\ call'[c].todo = call[c].todo /\ call'[c].saw = call[c].saw
    /\ \A p \in Pairs : state'[p].saw = IF p = Pair(c) THEN call[c].saw ELSE state[p].saw
    /\ call[c].pc \in Reading /\ call'[c].pc = "serve" /\ call'[c].ok = call[c].ok
Leaves(c) ==
    /\ call'[c].todo = Tail(call[c].todo)
    /\ \A p \in Pairs : state'[p].saw = state[p].saw
    /\ call[c].pc = "release" /\ call'[c].ok = call[c].ok
    /\ call'[c].pc = IF Tail(call[c].todo) = <<>> THEN "done" ELSE "lock"
Goes(c) ==
    /\ call[c] \in Calls /\ call[c].todo # <<>>
    /\ call'[c].case = call[c].case /\ call'[c].force = call[c].force
    /\ \A e \in Callers \ {c} : call'[e] = call[e]
    /\ UNCHANGED loads
    /\ Moves(c) \/ Reads(c) \/ Completes(c) \/ Leaves(c)

\* A call that goes to another label moves on, if the label fits.
LEMMA GotoMoves ==
    ASSUME PipelineTypeOK, NEW c \in Callers, call[c].pc \notin {"idle", "done"},
           NEW label \in Working, Goto(c, label), UNCHANGED loads,
           \A p \in Pairs : state'[p].saw = state[p].saw,
           label \in Reading => call[c].pc \in Reading,
           label = "mark_failed" => faults' # faults,
           call[c].pc # "mark_failed",
           label # "mark_failed" /\ call[c].pc \in Ahead => label \in Ahead \/ ~call[c].force,
           label # "mark_failed" /\ call[c].pc \in Reading => label \in Reading
    PROVE  Goes(c)
<1>1. call[c] \in Calls /\ call[c].todo # <<>>
  BY CallFields
<1>2. call'[c] = [call[c] EXCEPT !.pc = label] /\ \A e \in Callers \ {c} : call'[e] = call[e]
  BY DEF Goto, PipelineTypeOK
<1>3. /\ call'[c].pc = label /\ call'[c].case = call[c].case /\ call'[c].todo = call[c].todo
      /\ call'[c].force = call[c].force /\ call'[c].saw = call[c].saw /\ call'[c].ok = call[c].ok
  BY <1>1, <1>2 DEF Calls
<1>4. label \notin {"idle", "done"}
  BY DEF Working, Stages
<1>5. Moves(c)
  BY <1>3, <1>4 DEF Moves, Good
<1> QED BY <1>1, <1>2, <1>3, <1>5 DEF Goes

\* A call that raises moves on without its good name.
LEMMA RaiseMoves ==
    ASSUME PipelineTypeOK, NEW c \in Callers, call[c].pc \notin {"idle", "done"}, Raise(c),
           UNCHANGED loads, \A p \in Pairs : state'[p].saw = state[p].saw,
           call[c].pc = "mark_failed" \/ faults' # faults
    PROVE  Goes(c)
<1>1. call[c] \in Calls /\ call[c].todo # <<>>
  BY CallFields
<1>2. /\ call'[c] = [call[c] EXCEPT !.pc = "release", !.ok = FALSE]
      /\ \A e \in Callers \ {c} : call'[e] = call[e]
  BY RaiseTyped DEF PipelineTypeOK
<1>3. /\ call'[c].pc = "release" /\ call'[c].case = call[c].case /\ call'[c].todo = call[c].todo
      /\ call'[c].force = call[c].force /\ call'[c].saw = call[c].saw /\ ~call'[c].ok
  BY <1>1, <1>2 DEF Calls
<1>4. Moves(c)
  BY <1>3 DEF Moves, Good, Reading
<1> QED BY <1>1, <1>2, <1>3, <1>4 DEF Goes

\* A write that has its connection is made.
LEMMA WriteMade ==
    ASSUME PipelineTypeOK, WholeInv, Calm, NEW c \in Callers, call[c].pc \notin {"idle", "done"},
           NEW row \in Rows, NEW next \in Working, Write(c, row, next)
    PROVE  /\ Goto(c, next) /\ UNCHANGED <<loads, faults>> /\ Pair(c) \in Pairs
           /\ \A p \in Pairs : state'[p].saw = IF p = Pair(c) THEN row.saw ELSE state[p].saw
<1>1. state' = [state EXCEPT ![Pair(c)] = row] /\ Goto(c, next) /\ UNCHANGED <<loads, faults>>
  BY Answers, Zenon DEF Write, WholeInv, Env, NoFault
<1>2. Pair(c) \in Pairs
  BY CallFields
<1> QED BY <1>1, <1>2 DEF PipelineTypeOK

\* Every step of a run does one of the four.
LEMMA AdvanceGoes ==
    ASSUME PipelineTypeOK, WholeInv, Calm, NEW c \in Callers, Advance(c)
    PROVE  Goes(c)
<1> DEFINE row == state[Pair(c)]
<1>0. call[c].pc \notin {"idle", "done"}
  BY Zenon DEF Advance, Lock, Granted, Check, ClearRun, StartRun, Wave1, MarkWave1, Extraction,
       MarkExtraction, Wave2, MarkWave2, MarkFailed, Serve, Release, Work, At
<1>r. call[c] \in Calls /\ Pair(c) \in Pairs /\ call[c].todo # <<>> /\ row \in Rows
  BY <1>0, CallFields DEF PipelineTypeOK
<1>f. faults \in Nat
  BY RunBounds DEF PipelineTypeOK
<1> HIDE DEF row
<1>1. CASE Lock(c)
  <2>1. call[c].pc = "lock" /\ UNCHANGED <<state, loads, faults>>
    BY <1>1 DEF Lock, At, Env, NoFault
  <2>2. call' = [call EXCEPT ![c].pc = "wait", ![c].conn = "open"]
    BY <1>1, Answers, Zenon DEF Lock, WholeInv
  <2>3. /\ call'[c].pc = "wait" /\ call'[c].case = call[c].case /\ call'[c].todo = call[c].todo
        /\ call'[c].force = call[c].force /\ call'[c].saw = call[c].saw /\ call'[c].ok = call[c].ok
        /\ \A e \in Callers \ {c} : call'[e] = call[e]
    BY <1>r, <2>2 DEF PipelineTypeOK, Calls
  <2>4. Moves(c)
    BY <2>1, <2>3 DEF Moves, Good, Ahead, Reading
  <2> QED BY <1>r, <2>1, <2>3, <2>4 DEF Goes
<1>2. CASE Granted(c)
  <2>1. call[c].pc = "wait" /\ Goto(c, "check") /\ UNCHANGED <<state, loads, faults>>
    BY <1>2 DEF Granted, At, Env, NoFault
  <2> QED BY <1>0, <2>1, GotoMoves DEF Working, Ahead, Reading
<1>3. CASE Check(c)
  <2>1. call[c].pc = "check" /\ UNCHANGED <<state, loads, faults>>
    BY <1>3 DEF Check, At, Env, NoFault
  <2>2. PICK label \in {"start", "clear", "serve"} :
            Goto(c, label) /\ (label = "serve" => ~call[c].force)
    BY <1>3 DEF Check
  <2> QED BY <1>0, <2>1, <2>2, GotoMoves DEF Working, Ahead, Reading
<1>4. CASE ClearRun(c)
  <2>1. call[c].pc = "clear" /\ Write(c, [row EXCEPT !.cleared = TRUE], "start")
    BY <1>4 DEF ClearRun, At, row
  <2>2. [row EXCEPT !.cleared = TRUE] \in Rows /\ [row EXCEPT !.cleared = TRUE].saw = row.saw
    BY <1>r DEF Rows
  <2>3. /\ Goto(c, "start") /\ UNCHANGED <<loads, faults>>
        /\ \A p \in Pairs : state'[p].saw = state[p].saw
    BY <1>0, <2>1, <2>2, WriteMade DEF Working, row
  <2> QED BY <1>0, <2>1, <2>3, GotoMoves DEF Working, Ahead, Reading
<1>5. CASE StartRun(c)
  <2> DEFINE new == [Never EXCEPT !.status = "running", !.saw = row.saw]
  <2>1. call[c].pc = "start" /\ Write(c, new, "wave1")
    BY <1>5 DEF StartRun, At, row
  <2>2. new \in Rows /\ new.saw = row.saw
    BY <1>r DEF Rows, Never
  <2> HIDE DEF new
  <2>3. /\ Goto(c, "wave1") /\ UNCHANGED <<loads, faults>>
        /\ \A p \in Pairs : state'[p].saw = state[p].saw
    BY <1>0, <2>1, <2>2, WriteMade DEF Working, Stages, row
  <2> QED BY <1>0, <2>1, <2>3, GotoMoves DEF Working, Stages, Ahead, Reading
<1>6. CASE Wave1(c)
  <2>1. call[c].pc = "wave1" /\ UNCHANGED <<state, loads>>
    BY <1>6 DEF Wave1, At, Env
  <2>2. CASE Goto(c, "mark_failed") /\ Fault
    BY <1>0, <1>f, <2>1, <2>2, GotoMoves DEF Working, Ahead, Reading, Fault
  <2>3. CASE call' = [call EXCEPT ![c].pc = "mark_wave1", ![c].saw = loads]
    <3>1. /\ call'[c].pc = "mark_wave1" /\ call'[c].case = call[c].case /\ call'[c].todo = call[c].todo
          /\ call'[c].force = call[c].force /\ call'[c].saw = loads /\ call'[c].ok = call[c].ok
          /\ \A e \in Callers \ {c} : call'[e] = call[e]
      BY <1>r, <2>3 DEF PipelineTypeOK, Calls
    <3>2. Reads(c)
      BY <2>1, <3>1 DEF Reads, Ahead, Reading
    <3> QED BY <1>r, <2>1, <3>1, <3>2 DEF Goes
  <2> QED BY <1>6, <2>2, <2>3 DEF Wave1
<1>7. CASE MarkWave1(c)
  <2> DEFINE new == [row EXCEPT !.wave1 = TRUE]
  <2>1. call[c].pc = "mark_wave1" /\ Write(c, new, "extraction")
    BY <1>7 DEF MarkWave1, At, row
  <2>2. new \in Rows /\ new.saw = row.saw
    BY <1>r DEF Rows
  <2> HIDE DEF new
  <2>3. /\ Goto(c, "extraction") /\ UNCHANGED <<loads, faults>>
        /\ \A p \in Pairs : state'[p].saw = state[p].saw
    BY <1>0, <2>1, <2>2, WriteMade DEF Working, Stages, row
  <2> QED BY <1>0, <2>1, <2>3, GotoMoves DEF Working, Stages, Ahead, Reading
<1>8. CASE Extraction(c)
  <2>1. call[c].pc = "extraction" /\ UNCHANGED <<state, loads>>
    BY <1>8 DEF Extraction, Work, At, Env
  <2>2. CASE Raise(c) /\ Fault
    BY <1>0, <1>f, <2>1, <2>2, RaiseMoves DEF Fault
  <2>3. CASE Goto(c, "mark_extraction") \/ (Goto(c, "mark_failed") /\ Fault)
    BY <1>0, <1>f, <2>1, <2>3, GotoMoves DEF Working, Stages, Ahead, Reading, Fault
  <2> QED BY <1>8, <2>2, <2>3 DEF Extraction, Work
<1>9. CASE MarkExtraction(c)
  <2> DEFINE new == [row EXCEPT !.extraction = TRUE]
  <2>1. call[c].pc = "mark_extraction" /\ Write(c, new, "wave2")
    BY <1>9 DEF MarkExtraction, At, row
  <2>2. new \in Rows /\ new.saw = row.saw
    BY <1>r DEF Rows
  <2> HIDE DEF new
  <2>3. /\ Goto(c, "wave2") /\ UNCHANGED <<loads, faults>>
        /\ \A p \in Pairs : state'[p].saw = state[p].saw
    BY <1>0, <2>1, <2>2, WriteMade DEF Working, Stages, row
  <2> QED BY <1>0, <2>1, <2>3, GotoMoves DEF Working, Stages, Ahead, Reading
<1>10. CASE Wave2(c)
  <2>1. call[c].pc = "wave2" /\ UNCHANGED <<state, loads>>
    BY <1>10 DEF Wave2, Work, At, Env
  <2>2. Goto(c, "mark_wave2") \/ (Goto(c, "mark_failed") /\ Fault)
    BY <1>10 DEF Wave2, Work
  <2> QED BY <1>0, <1>f, <2>1, <2>2, GotoMoves DEF Working, Stages, Ahead, Reading, Fault
<1>11. CASE MarkWave2(c)
  <2> DEFINE new == [row EXCEPT !.wave2 = TRUE, !.status = "completed", !.saw = call[c].saw]
  <2>1. call[c].pc = "mark_wave2" /\ Write(c, new, "serve")
    BY <1>11 DEF MarkWave2, At, row
  <2>2. call[c].saw \in Loads
    BY <1>r DEF Calls
  <2>3. new \in Rows /\ new.saw = call[c].saw
    BY <1>r, <2>2 DEF Rows
  <2> HIDE DEF new
  <2>4. /\ Goto(c, "serve") /\ UNCHANGED <<loads, faults>>
        /\ \A p \in Pairs : state'[p].saw = IF p = Pair(c) THEN call[c].saw ELSE state[p].saw
    BY <1>0, <2>1, <2>3, WriteMade DEF Working
  <2>5. call'[c] = [call[c] EXCEPT !.pc = "serve"] /\ \A e \in Callers \ {c} : call'[e] = call[e]
    BY <2>4 DEF Goto, PipelineTypeOK
  <2>6. /\ call'[c].pc = "serve" /\ call'[c].case = call[c].case /\ call'[c].todo = call[c].todo
        /\ call'[c].force = call[c].force /\ call'[c].saw = call[c].saw /\ call'[c].ok = call[c].ok
    BY <1>r, <2>5 DEF Calls
  <2>7. Completes(c)
    BY <2>1, <2>4, <2>6 DEF Completes, Reading
  <2> QED BY <1>r, <2>4, <2>5, <2>6, <2>7 DEF Goes
<1>12. CASE MarkFailed(c)
  <2>1. call[c].pc = "mark_failed" /\ Raise(c) /\ UNCHANGED loads
    BY <1>12 DEF MarkFailed, At, Env
  <2>2. state' = [state EXCEPT ![Pair(c)].status = "failed"] \/ UNCHANGED state
    BY <1>12 DEF MarkFailed
  <2>3. \A p \in Pairs : state'[p].saw = state[p].saw
    BY <1>r, <2>2 DEF PipelineTypeOK, Rows
  <2> QED BY <1>0, <2>1, <2>3, RaiseMoves
<1>13. CASE Serve(c)
  <2>1. call[c].pc = "serve" /\ UNCHANGED <<state, loads>>
    BY <1>13 DEF Serve, At, Env
  <2>2. Goto(c, "release") \/ (Raise(c) /\ Fault)
    BY <1>13 DEF Serve
  <2>3. CASE Goto(c, "release")
    BY <1>0, <2>1, <2>3, GotoMoves DEF Working, Ahead, Reading
  <2>4. CASE Raise(c) /\ Fault
    BY <1>0, <1>f, <2>1, <2>4, RaiseMoves DEF Fault
  <2> QED BY <2>2, <2>3, <2>4
<1>14. CASE Release(c)
  <2>1. call[c].pc = "release" /\ UNCHANGED <<state, loads>>
        /\ NextSubject(c, call[c].conn # "broken")
    BY <1>14 DEF Release, At, Env
  <2>2. call[c].conn = "open" /\ call[c].ok \in BOOLEAN
    BY <1>r, <2>1 DEF WholeInv, Progress, Calls
  <2>3. /\ call'[c].pc = IF Tail(call[c].todo) = <<>> THEN "done" ELSE "lock"
        /\ call'[c].todo = Tail(call[c].todo) /\ call'[c].case = call[c].case
        /\ call'[c].force = call[c].force /\ call'[c].ok = (call[c].ok /\ call[c].conn # "broken")
        /\ \A e \in Callers \ {c} : call'[e] = call[e]
    BY <1>r, <2>1, ZenonT(30) DEF NextSubject, PipelineTypeOK, Calls
  <2>4. call'[c].ok = call[c].ok
    <3>1. (call[c].ok /\ call[c].conn # "broken") = call[c].ok
      BY <2>2
    <3> QED BY <2>3, <3>1
  <2>5. Leaves(c)
    BY <2>1, <2>3, <2>4 DEF Leaves
  <2> QED BY <1>r, <2>1, <2>3, <2>5 DEF Goes
<1> QED BY <1>1, <1>2, <1>3, <1>4, <1>5, <1>6, <1>7, <1>8, <1>9, <1>10, <1>11, <1>12, <1>13, <1>14
   DEF Advance

\* Two calls that are past their locks are not about the same pair.
LEMMA AloneOnPair ==
    ASSUME PipelineTypeOK, LockInv, WholeInv, Calm, NEW c \in Callers, NEW e \in Callers,
           call[c].pc \notin {"idle", "lock", "wait", "done"},
           call[e].pc \notin {"idle", "lock", "wait", "done"}, Pair(c) = Pair(e)
    PROVE  c = e
<1>1. call[c].conn = "open" /\ call[e].conn = "open"
  BY DEF WholeInv, Progress
<1>2. lock[Pair(c)] = c /\ lock[Pair(e)] = e
  BY <1>1 DEF LockInv
<1> QED BY <1>2

\* A run never takes the news of a case away: what it reads and writes is no older.
LEMMA FreshGoes ==
    ASSUME PipelineTypeOK, NEW c \in Callers, Goes(c), NEW p \in Pairs, NEW d \in Cases, FreshOf(p, d)
    PROVE  FreshOf(p, d)'
<1>1. \A e \in Callers \ {c} : call'[e].pc \in Reading /\ Pair(e)' = p => call'[e].saw[d] = loads'[d]
  BY DEF Goes, FreshOf, Pair
<1>2. CASE Moves(c)
  <2>1. state'[p].saw[d] = loads'[d]
    BY <1>2 DEF Goes, Moves, FreshOf
  <2>2. Pair(c)' = Pair(c)
    BY <1>2 DEF Goes, Moves, Pair
  <2>3. call'[c].pc \in Reading /\ Pair(c)' = p => call'[c].saw[d] = loads'[d]
    BY <1>2, <2>2 DEF Goes, Moves, FreshOf
  <2> QED BY <1>1, <2>1, <2>3 DEF FreshOf
<1>3. CASE Reads(c)
  BY <1>1, <1>3 DEF Goes, Reads, FreshOf
<1>4. CASE Completes(c)
  <2>1. Pair(c) = p => call[c].saw[d] = loads[d]
    BY <1>4 DEF Completes, FreshOf
  <2>2. state'[p].saw[d] = loads'[d]
    BY <1>4, <2>1 DEF Goes, Completes, FreshOf
  <2>3. call'[c].pc \notin Reading
    BY <1>4 DEF Completes, Reading
  <2> QED BY <1>1, <2>2, <2>3 DEF FreshOf
<1>5. CASE Leaves(c)
  <2>1. call'[c].pc \notin Reading
    BY <1>5 DEF Leaves, Reading
  <2> QED BY <1>1, <1>5, <2>1 DEF Goes, Leaves, FreshOf
<1> QED BY <1>2, <1>3, <1>4, <1>5 DEF Goes

\* The later members of a list are those of its tail.
LEMMA TailMember ==
    ASSUME NEW S, NEW s \in Seq(S), s # <<>>, NEW n \in DOMAIN s, n > 1
    PROVE  n - 1 \in DOMAIN Tail(s) /\ Tail(s)[n - 1] = s[n]
<1>1. Len(s) \in Nat /\ n \in 1..Len(s) /\ n \in 2..Len(s)
  OBVIOUS
<1>2. Tail(s) \in Seq(S) /\ Len(Tail(s)) = Len(s) - 1
  OBVIOUS
<1>3. n - 1 \in 1..Len(Tail(s))
  BY <1>1, <1>2
<1>4. n - 1 \in DOMAIN Tail(s)
  BY <1>2, <1>3
<1>5. Tail(s)[n - 1] = s[(n - 1) + 1]
  BY <1>1, <1>2, <1>3
<1>6. (n - 1) + 1 = n
  BY <1>1
<1> QED BY <1>4, <1>5, <1>6

\* What a forced call comes to it still comes to, or it has been there, unless it failed.
LEMMA ComesGoes ==
    ASSUME PipelineTypeOK, LockInv, WholeInv, Calm, NEW c \in Callers, Goes(c),
           NEW p \in Pairs, NEW d \in Cases, Comes(c, p, d), call[c].force, Good(c)'
    PROVE  Comes(c, p, d)' \/ FreshOf(p, d)'
<1>1. PICK n \in DOMAIN call[c].todo :
         /\ call[c].todo[n] = p[2]
         /\ n > 1 \/ call[c].pc \in Ahead \/ (call[c].pc \in Reading /\ call[c].saw[d] = loads[d])
  BY DEF Comes
<1>2. call[c].case = p[1] /\ call'[c].case = p[1] /\ UNCHANGED loads
  BY DEF Comes, Goes
<1>3. call[c].todo \in Seq(Subjects) /\ call[c].todo # <<>> /\ n \in Nat \ {0}
  BY <1>1 DEF Goes, Calls
<1>4. CASE n > 1
  <2>1. CASE call'[c].todo = call[c].todo
    BY <1>1, <1>2, <1>4, <2>1 DEF Comes
  <2>2. CASE Leaves(c)
    <3>1. n - 1 \in DOMAIN Tail(call[c].todo) /\ Tail(call[c].todo)[n - 1] = p[2]
      BY <1>1, <1>3, <1>4, TailMember
    <3>2. Tail(call[c].todo) # <<>>
      BY <3>1
    <3>3. call'[c].todo = Tail(call[c].todo) /\ call'[c].pc = "lock"
      BY <2>2, <3>2 DEF Leaves
    <3> QED BY <1>2, <3>1, <3>3 DEF Comes, Ahead
  <2> QED BY <2>1, <2>2 DEF Goes, Moves, Reads, Completes
<1>5. CASE n = 1
  <2>0. Pair(c) = p
    BY <1>1, <1>2, <1>3, <1>5 DEF Pair, Pairs
  <2>1. CASE Moves(c)
    <3>1. CASE call[c].pc \in Ahead
      <4>1. call'[c].pc \in Ahead
        BY <2>1, <3>1 DEF Moves
      <4> QED BY <1>1, <1>2, <2>1, <4>1 DEF Comes, Moves
    <3>2. CASE call[c].pc \in Reading /\ call[c].saw[d] = loads[d]
      <4>1. call'[c].pc \in Reading /\ call'[c].saw[d] = loads'[d]
        BY <1>2, <2>1, <3>2 DEF Moves
      <4> QED BY <1>1, <1>2, <2>1, <4>1 DEF Comes, Moves
    <3> QED BY <1>1, <1>5, <3>1, <3>2
  <2>2. CASE Reads(c)
    <3>1. call'[c].pc \in Reading /\ call'[c].saw[d] = loads'[d] /\ call'[c].todo = call[c].todo
      BY <1>2, <2>2 DEF Reads
    <3> QED BY <1>1, <1>2, <3>1 DEF Comes
  <2>3. CASE Completes(c)
    <3>1. call[c].pc \in Reading /\ call[c].saw[d] = loads[d]
      BY <1>1, <1>5, <2>3 DEF Completes, Ahead, Reading
    <3>2. state'[p].saw[d] = loads'[d]
      BY <1>2, <2>0, <2>3, <3>1 DEF Completes
    <3>3. ASSUME NEW e \in Callers, call'[e].pc \in Reading, Pair(e)' = p PROVE FALSE
      <4>1. e # c
        BY <2>3, <3>3 DEF Completes, Reading
      <4>2. call'[e] = call[e]
        BY <4>1 DEF Goes
      <4>3. call[e].pc \in Reading /\ Pair(e) = Pair(c)
        BY <2>0, <3>3, <4>2 DEF Pair
      <4>4. /\ call[e].pc \notin {"idle", "lock", "wait", "done"}
            /\ call[c].pc \notin {"idle", "lock", "wait", "done"}
        BY <3>1, <4>3 DEF Reading
      <4> QED BY <4>1, <4>3, <4>4, AloneOnPair
    <3> QED BY <3>2, <3>3 DEF FreshOf
  <2>4. CASE Leaves(c)
    BY <1>1, <1>5, <2>4 DEF Leaves, Ahead, Reading
  <2> QED BY <2>1, <2>2, <2>3, <2>4 DEF Goes
<1> QED BY <1>3, <1>4, <1>5

\* Calls that begin or end have read nothing, and the others do not notice.
LEMMA FreshStays ==
    ASSUME UNCHANGED state, NEW p, NEW d, FreshOf(p, d), loads'[d] = loads[d],
           \A e \in Callers : call'[e] = call[e] \/ call'[e].pc \notin Reading
    PROVE  FreshOf(p, d)'
BY DEF FreshOf, Pair

---------------------------------------------------------------------------
(* What an ingest has before it.                                           *)

\* The members of a list are its head and those of its tail.
LEMMA TailMembers ==
    ASSUME NEW S, NEW s \in Seq(S), s # <<>>
    PROVE  Head(s) \in Members(s) /\ Members(s) = {Head(s)} \cup Members(Tail(s))
<1>1. Len(s) \in Nat \ {0} /\ DOMAIN s = 1..Len(s) /\ Head(s) = s[1]
  OBVIOUS
<1>2. Tail(s) \in Seq(S) /\ Len(Tail(s)) = Len(s) - 1
  OBVIOUS
<1>3. DOMAIN Tail(s) = 1..(Len(s) - 1)
  BY <1>2
<1>4. \A n \in 1..(Len(s) - 1) : Tail(s)[n] = s[n + 1] /\ n + 1 \in DOMAIN s
  BY <1>1, <1>2
<1>5. 1 \in DOMAIN s
  BY <1>1
<1>6. \A n \in DOMAIN s : n = 1 \/ (n - 1 \in DOMAIN Tail(s) /\ Tail(s)[n - 1] = s[n])
  <2> SUFFICES ASSUME NEW n \in DOMAIN s, n # 1 PROVE n - 1 \in DOMAIN Tail(s) /\ Tail(s)[n - 1] = s[n]
    OBVIOUS
  <2>1. n > 1
    BY <1>1
  <2> QED BY <2>1, TailMember
<1> QED BY <1>1, <1>3, <1>4, <1>5, <1>6 DEF Members

\* What is appended to a list joins its members.
LEMMA AppendMembers ==
    ASSUME NEW S, NEW s \in Seq(S), NEW x \in S
    PROVE  Members(Append(s, x)) = Members(s) \cup {x}
<1>1. Len(s) \in Nat /\ DOMAIN s = 1..Len(s)
  OBVIOUS
<1>2. Append(s, x) \in Seq(S) /\ Len(Append(s, x)) = Len(s) + 1
  OBVIOUS
<1>3. DOMAIN Append(s, x) = 1..(Len(s) + 1)
  BY <1>2
<1>4. \A n \in 1..Len(s) : Append(s, x)[n] = s[n]
  BY <1>1
<1>5. Append(s, x)[Len(s) + 1] = x
  BY <1>1
<1>6. \A n \in 1..(Len(s) + 1) : n \in 1..Len(s) \/ n = Len(s) + 1
  BY <1>1
<1>7. Len(s) + 1 \in 1..(Len(s) + 1) /\ \A n \in 1..Len(s) : n \in 1..(Len(s) + 1)
  BY <1>1
<1> QED BY <1>1, <1>3, <1>4, <1>5, <1>6, <1>7 DEF Members

JobIs(g, phase, todo, loaded) ==
    /\ job'[g].phase = phase /\ job'[g].batch = job[g].batch
    /\ job'[g].todo = todo /\ job'[g].loaded = loaded
    /\ \A h \in Ingesters \ {g} : job'[h] = job[h]

\* A job that is given another phase.
LEMMA PhaseIs ==
    ASSUME IngestTypes, NEW g \in Ingesters, job[g].phase # "idle", NEW phase,
           job' = [job EXCEPT ![g].phase = phase]
    PROVE  JobIs(g, phase, job[g].todo, job[g].loaded)
<1>1. job[g] \in Jobs
  BY JobFields
<1>2. job'[g] = [job[g] EXCEPT !.phase = phase] /\ \A h \in Ingesters \ {g} : job'[h] = job[h]
  BY DEF IngestTypes, TypeOK
<1> QED BY <1>1, <1>2 DEF JobIs, Jobs

\* A job that goes on to its next case.
LEMMA NextCaseIs ==
    ASSUME IngestTypes, NEW g \in Ingesters, job[g].phase # "idle", NEW loaded, NextCase(g, loaded)
    PROVE  JobIs(g, Phase(Tail(job[g].todo)), Tail(job[g].todo), loaded)
<1> DEFINE later == Tail(job[g].todo)
           phase == Phase(later)
<1>1. job[g] \in Jobs
  BY JobFields
<1>2. /\ job'[g] = [job[g] EXCEPT !.phase = phase, !.todo = later, !.loaded = loaded, !.attempt = 1]
      /\ \A h \in Ingesters \ {g} : job'[h] = job[h]
  BY DEF IngestTypes, TypeOK, NextCase
<1> HIDE DEF later, phase
<1> QED BY <1>1, <1>2 DEF JobIs, Jobs, later, phase

\* What the steps of an ingest do to its job.
LEMMA JobSteps ==
    ASSUME IngestTypes, NEW g \in Ingesters
    PROVE  /\ MarkStarted(g) => JobIs(g, "sync", job[g].todo, job[g].loaded)
           /\ MarkLoaded(g) => JobIs(g, Phase(Tail(job[g].todo)), Tail(job[g].todo),
                                     Append(job[g].loaded, Loading(g)))
           /\ GiveUp(g) => JobIs(g, Phase(Tail(job[g].todo)), Tail(job[g].todo), job[g].loaded)
           /\ Sync(g) => \/ /\ loads' = [loads EXCEPT ![Loading(g)] = @ + 1]
                            /\ together' = [together EXCEPT ![Loading(g)] = job[g].batch]
                            /\ JobIs(g, "mark_loaded", job[g].todo, job[g].loaded) /\ NoFault
                         \/ /\ Fault /\ UNCHANGED <<loads, together>>
                            /\ \/ JobIs(g, "mark_started", job[g].todo, job[g].loaded)
                               \/ JobIs(g, "mark_failed", job[g].todo, job[g].loaded)
           /\ Reason(g) => LET case == Head(job[g].loaded) IN
                 \/ /\ Begin(g, case, Direct[case], TRUE) /\ NoFault
                    /\ JobIs(g, "runs", job[g].todo, job[g].loaded)
                 \/ /\ Direct[case] = <<>> /\ UNCHANGED call
                    /\ JobIs(g, "reason", job[g].todo, Tail(job[g].loaded))
                 \/ Fault /\ job' = [job EXCEPT ![g] = NoJob] /\ UNCHANGED call
           /\ MarkReasoned(g) => JobIs(g, Phase(job[g].todo), job[g].todo, Tail(job[g].loaded))
<1>1. MarkStarted(g) => JobIs(g, "sync", job[g].todo, job[g].loaded)
  BY PhaseIs DEF MarkStarted, In
<1>2. MarkLoaded(g) => JobIs(g, Phase(Tail(job[g].todo)), Tail(job[g].todo),
                             Append(job[g].loaded, Loading(g)))
  BY NextCaseIs DEF MarkLoaded, In
<1>3. GiveUp(g) => JobIs(g, Phase(Tail(job[g].todo)), Tail(job[g].todo), job[g].loaded)
  BY NextCaseIs DEF GiveUp, In
<1>4. ASSUME Sync(g)
      PROVE  \/ /\ loads' = [loads EXCEPT ![Loading(g)] = @ + 1]
                /\ together' = [together EXCEPT ![Loading(g)] = job[g].batch]
                /\ JobIs(g, "mark_loaded", job[g].todo, job[g].loaded) /\ NoFault
             \/ /\ Fault /\ UNCHANGED <<loads, together>>
                /\ \/ JobIs(g, "mark_started", job[g].todo, job[g].loaded)
                   \/ JobIs(g, "mark_failed", job[g].todo, job[g].loaded)
  <2>1. job[g].phase = "sync" /\ job[g] \in Jobs
    BY <1>4, JobFields DEF Sync, In
  <2>2. ASSUME job' = [job EXCEPT ![g].phase = "mark_started", ![g].attempt = @ + 1]
        PROVE  JobIs(g, "mark_started", job[g].todo, job[g].loaded)
    <3> DEFINE r == [job[g] EXCEPT !.phase = "mark_started", !.attempt = job[g].attempt + 1]
    <3>1. /\ r.phase = "mark_started" /\ r.batch = job[g].batch
          /\ r.todo = job[g].todo /\ r.loaded = job[g].loaded
      BY <2>1 DEF Jobs
    <3>2. job' = [job EXCEPT ![g] = r]
      BY <2>1, <2>2 DEF IngestTypes, TypeOK
    <3> HIDE DEF r
    <3>3. job'[g] = r /\ \A h \in Ingesters \ {g} : job'[h] = job[h]
      BY <3>2 DEF IngestTypes, TypeOK
    <3> QED BY <3>1, <3>3 DEF JobIs
  <2>3. job' = [job EXCEPT ![g].phase = "mark_loaded"]
          => JobIs(g, "mark_loaded", job[g].todo, job[g].loaded)
    BY <2>1, PhaseIs
  <2>4. job' = [job EXCEPT ![g].phase = "mark_failed"]
          => JobIs(g, "mark_failed", job[g].todo, job[g].loaded)
    BY <2>1, PhaseIs
  <2>5. \/ /\ loads' = [loads EXCEPT ![Loading(g)] = @ + 1]
           /\ together' = [together EXCEPT ![Loading(g)] = job[g].batch]
           /\ job' = [job EXCEPT ![g].phase = "mark_loaded"] /\ NoFault
        \/ /\ Fault /\ UNCHANGED <<loads, together>>
           /\ \/ job' = [job EXCEPT ![g].phase = "mark_started", ![g].attempt = @ + 1]
              \/ job' = [job EXCEPT ![g].phase = "mark_failed"]
    BY <1>4, Zenon DEF Sync
  <2> HIDE DEF JobIs
  <2> QED BY <2>2, <2>3, <2>4, <2>5, Zenon
<1>5. ASSUME Reason(g)
      PROVE  LET case == Head(job[g].loaded) IN
                 \/ /\ Begin(g, case, Direct[case], TRUE) /\ NoFault
                    /\ JobIs(g, "runs", job[g].todo, job[g].loaded)
                 \/ /\ Direct[case] = <<>> /\ UNCHANGED call
                    /\ JobIs(g, "reason", job[g].todo, Tail(job[g].loaded))
                 \/ Fault /\ job' = [job EXCEPT ![g] = NoJob] /\ UNCHANGED call
  <2> DEFINE case == Head(job[g].loaded)
  <2>1. job[g].phase = "reason" /\ job[g] \in Jobs
    BY <1>5, JobFields DEF Reason, CaseToReason, In
  <2>2. job' = [job EXCEPT ![g].phase = "runs"] => JobIs(g, "runs", job[g].todo, job[g].loaded)
    BY <2>1, PhaseIs
  <2>3. ASSUME job' = [job EXCEPT ![g].loaded = Tail(@)]
        PROVE  JobIs(g, "reason", job[g].todo, Tail(job[g].loaded))
    <3>1. /\ job'[g] = [job[g] EXCEPT !.loaded = Tail(job[g].loaded)]
          /\ \A h \in Ingesters \ {g} : job'[h] = job[h]
      BY <2>1, <2>3 DEF IngestTypes, TypeOK
    <3> QED BY <2>1, <3>1 DEF JobIs, Jobs
  <2>4. \/ /\ Begin(g, case, Direct[case], TRUE) /\ NoFault
           /\ job' = [job EXCEPT ![g].phase = "runs"]
        \/ /\ Direct[case] = <<>> /\ UNCHANGED call
           /\ job' = [job EXCEPT ![g].loaded = Tail(@)]
        \/ Fault /\ job' = [job EXCEPT ![g] = NoJob] /\ UNCHANGED call
    BY <1>5, Zenon DEF Reason
  <2> HIDE DEF case, JobIs
  <2>5. \/ /\ Begin(g, case, Direct[case], TRUE) /\ NoFault
           /\ JobIs(g, "runs", job[g].todo, job[g].loaded)
        \/ /\ Direct[case] = <<>> /\ UNCHANGED call
           /\ JobIs(g, "reason", job[g].todo, Tail(job[g].loaded))
        \/ Fault /\ job' = [job EXCEPT ![g] = NoJob] /\ UNCHANGED call
    BY <2>2, <2>3, <2>4, Zenon
  <2> QED BY <2>5 DEF case
<1>6. ASSUME MarkReasoned(g) PROVE JobIs(g, Phase(job[g].todo), job[g].todo, Tail(job[g].loaded))
  <2>1. job[g].phase = "runs" /\ job[g] \in Jobs
    BY <1>6, JobFields DEF MarkReasoned, In
  <2> DEFINE phase == Phase(job[g].todo)
  <2>2. /\ job'[g] = [job[g] EXCEPT !.phase = phase, !.loaded = Tail(job[g].loaded)]
        /\ \A h \in Ingesters \ {g} : job'[h] = job[h]
    BY <1>6, <2>1 DEF MarkReasoned, IngestTypes, TypeOK
  <2> HIDE DEF phase
  <2> QED BY <2>1, <2>2 DEF JobIs, Jobs, phase
<1> QED BY <1>1, <1>2, <1>3, <1>4, <1>5, <1>6


---------------------------------------------------------------------------
(* An ingest and the call it makes.                                        *)

Ends(c) == call[c].pc = "done" => call[c].todo = <<>>

\* an ingest turns to its loaded cases when it has none to load; a run is of the first of them
RunsFor(g) ==
    /\ In(g, "reason") \/ In(g, "runs") => job[g].todo = <<>>
    /\ In(g, "runs") => /\ call[g].pc # "idle" /\ call[g].force
                        /\ call[g].case = Head(job[g].loaded)
RunsInv == Calm => /\ \A c \in Callers : Ends(c)
                   /\ \A g \in Ingesters : RunsFor(g)

\* The step of one caller leaves the others' calls as they were.
LEMMA RunsElsewhere ==
    ASSUME RunsInv, Calm, NEW c \in Callers, \A e \in Callers \ {c} : call'[e] = call[e],
           \A h \in Ingesters \ {c} : job'[h] = job[h], Ends(c)', c \in Ingesters => RunsFor(c)'
    PROVE  RunsInv'
<1>1. Ingesters \subseteq Callers
  BY IngestBounds
<1>2. ASSUME NEW e \in Callers \ {c} PROVE Ends(e)'
  <2>1. Ends(e) /\ call'[e] = call[e]
    BY DEF RunsInv
  <2> QED BY <2>1 DEF Ends
<1>3. ASSUME NEW h \in Ingesters \ {c} PROVE RunsFor(h)'
  <2>1. RunsFor(h) /\ call'[h] = call[h] /\ job'[h] = job[h]
    BY <1>1 DEF RunsInv
  <2> QED BY <2>1 DEF RunsFor, In
<1> QED BY <1>2, <1>3 DEF RunsInv

\* A run goes on for the ingest that made it.
LEMMA AdvanceRuns ==
    ASSUME RunsInv, Calm, NEW c \in Callers, Goes(c), UNCHANGED job
    PROVE  RunsInv'
<1>1. call'[c].pc # "idle" /\ (call'[c].pc = "done" => call'[c].todo = <<>>)
  BY DEF Goes, Moves, Reads, Completes, Leaves, Reading
<1>2. call'[c].force = call[c].force /\ call'[c].case = call[c].case
  BY DEF Goes
<1>3. ASSUME c \in Ingesters PROVE RunsFor(c)'
  <2>1. RunsFor(c) /\ job'[c] = job[c]
    BY <1>3 DEF RunsInv
  <2> QED BY <1>1, <1>2, <2>1 DEF RunsFor, In
<1> QED BY <1>1, <1>3, RunsElsewhere DEF Goes, Ends

\* So does an ingest that loads.
LEMMA LoadRuns ==
    ASSUME IngestTypes, RunsInv, Calm, NEW g \in Ingesters,
           MarkStarted(g) \/ Sync(g) \/ MarkLoaded(g) \/ GiveUp(g) \/ Report(g)
    PROVE  RunsInv'
<1>1. g \in Callers /\ UNCHANGED call
  BY IngestBounds DEF MarkStarted, Sync, MarkLoaded, GiveUp, Report
<1>2. Ends(g)'
  BY <1>1 DEF RunsInv, Ends
<1>3. RunsFor(g)' /\ \A h \in Ingesters \ {g} : job'[h] = job[h]
  <2>1. CASE Report(g)
    BY <2>1 DEF Report, NoJob, IngestTypes, TypeOK, RunsFor, In
  <2>2. CASE MarkStarted(g) \/ Sync(g)
    <3>1. PICK phase \in {"sync", "mark_loaded", "mark_started", "mark_failed"} :
             JobIs(g, phase, job[g].todo, job[g].loaded)
      BY <2>2, JobSteps
    <3> QED BY <3>1 DEF JobIs, RunsFor, In
  <2>3. CASE MarkLoaded(g) \/ GiveUp(g)
    <3> DEFINE later == Tail(job[g].todo)
    <3>1. PICK loaded : JobIs(g, Phase(later), later, loaded)
      BY <2>3, JobSteps
    <3> HIDE DEF later
    <3> QED BY <3>1 DEF JobIs, RunsFor, In, Phase
  <2> QED BY <2>1, <2>2, <2>3
<1> QED BY <1>1, <1>2, <1>3, RunsElsewhere

\* An ingest that turns to a case calls for it.
LEMMA ReasonRuns ==
    ASSUME IngestTypes, RunsInv, Calm, NEW g \in Ingesters, Reason(g)
    PROVE  RunsInv'
<1> DEFINE case == Head(job[g].loaded)
<1>1. g \in Callers /\ job[g].phase = "reason" /\ job[g].todo = <<>> /\ RunsFor(g)
  BY IngestBounds DEF Reason, CaseToReason, RunsInv, RunsFor, In
<1>2. CASE /\ Begin(g, case, Direct[case], TRUE)
           /\ JobIs(g, "runs", job[g].todo, job[g].loaded)
  <2>1. /\ call'[g].pc = "lock" /\ call'[g].force /\ call'[g].case = case
        /\ \A e \in Callers \ {g} : call'[e] = call[e]
    BY <1>1, <1>2 DEF Begin, IngestTypes, TypeOK, PipelineTypeOK
  <2>2. RunsFor(g)' /\ Ends(g)'
    BY <1>1, <1>2, <2>1 DEF JobIs, RunsFor, In, Ends
  <2> QED BY <1>1, <1>2, <2>1, <2>2, RunsElsewhere DEF JobIs
<1>3. CASE UNCHANGED call /\ JobIs(g, "reason", job[g].todo, Tail(job[g].loaded))
  <2>1. RunsFor(g)' /\ Ends(g)'
    BY <1>1, <1>3 DEF JobIs, RunsFor, In, Ends, RunsInv
  <2> QED BY <1>1, <1>3, <2>1, RunsElsewhere DEF JobIs
<1>4. CASE UNCHANGED call /\ job' = [job EXCEPT ![g] = NoJob]
  <2>1. job'[g] = NoJob /\ \A h \in Ingesters \ {g} : job'[h] = job[h]
    BY <1>4 DEF IngestTypes, TypeOK
  <2>2. RunsFor(g)' /\ Ends(g)'
    BY <1>1, <1>4, <2>1 DEF NoJob, RunsFor, In, Ends, RunsInv
  <2> QED BY <1>1, <1>4, <2>1, <2>2, RunsElsewhere
<1> QED BY <1>2, <1>3, <1>4, JobSteps

\* What an ingest does when its run is over.
LEMMA ReasonedRuns ==
    ASSUME IngestTypes, RunsInv, Calm, NEW g \in Ingesters, MarkReasoned(g)
    PROVE  RunsInv'
<1>1. g \in Callers /\ call'[g] = Idle /\ \A e \in Callers \ {g} : call'[e] = call[e]
  BY IngestBounds DEF MarkReasoned, IngestTypes, TypeOK, PipelineTypeOK
<1>2. JobIs(g, Phase(job[g].todo), job[g].todo, Tail(job[g].loaded))
  BY JobSteps
<1>3. RunsFor(g)' /\ Ends(g)'
  BY <1>1, <1>2 DEF JobIs, Phase, RunsFor, In, Ends, Idle
<1> QED BY <1>1, <1>2, <1>3, RunsElsewhere DEF JobIs

\* Every step keeps what an ingest and its call have in common.
LEMMA NextRuns == IngestTypes /\ WholeInv /\ RunsInv /\ [Next]_vars => RunsInv'
<1> SUFFICES ASSUME IngestTypes, WholeInv, RunsInv, [Next]_vars, Calm' PROVE RunsInv'
  BY DEF RunsInv
<1>0. PipelineTypeOK /\ Ingesters \subseteq Callers
  BY IngestBounds DEF IngestTypes, TypeOK
<1>c. Calm /\ ~Outage
  BY <1>0, CalmBefore
<1>s. ASSUME UNCHANGED <<call, job>> PROVE RunsInv'
  BY <1>s, <1>c DEF RunsInv, RunsFor, Ends, In
<1>1. ASSUME NEW c \in Requests, NEW case \in Cases, NEW force \in BOOLEAN, Ask(c, case, force), Ours
      PROVE  RunsInv'
  <2>1. Population[case] \in Seq(Subjects) /\ c \in Callers \ Ingesters
    BY SubjectLists DEF Requests
  <2>2. call'[c].pc = "lock" /\ \A e \in Callers \ {c} : call'[e] = call[e]
    BY <1>0, <1>1, <2>1, BeginTyped DEF Ask
  <2>3. Ends(c)'
    BY <2>2 DEF Ends
  <2> QED BY <1>c, <1>1, <2>1, <2>2, <2>3, RunsElsewhere DEF Ours
<1>2. ASSUME NEW g \in Ingesters, NEW batch \in Batches, Ingest(g, batch) PROVE RunsInv'
  <2>1. /\ job'[g].phase = "mark_started" /\ \A h \in Ingesters \ {g} : job'[h] = job[h]
        /\ UNCHANGED call
    BY <1>2 DEF Ingest, IngestTypes, TypeOK
  <2>2. RunsFor(g)' /\ Ends(g)'
    BY <1>0, <1>c, <2>1 DEF RunsFor, Ends, In, RunsInv
  <2> QED BY <1>0, <1>c, <2>1, <2>2, RunsElsewhere
<1>3. ASSUME NEW c \in Callers, CallStep(c) PROVE RunsInv'
  <2>1. CASE Advance(c) /\ Ours
    BY <1>0, <1>c, <2>1, AdvanceGoes, AdvanceRuns DEF Ours
  <2>2. CASE c \in Requests /\ Return(c) /\ Ours
    <3>1. call'[c] = Idle /\ \A e \in Callers \ {c} : call'[e] = call[e]
      BY <1>0, <2>2 DEF Return, PipelineTypeOK
    <3>2. Ends(c)' /\ c \notin Ingesters
      BY <2>2, <3>1 DEF Ends, Idle, Requests
    <3> QED BY <1>c, <2>2, <3>1, <3>2, RunsElsewhere DEF Ours
  <2>3. CASE c \in Ingesters /\ IngestStep(c)
    BY <1>c, <2>3, LoadRuns, ReasonRuns, ReasonedRuns DEF IngestStep
  <2> QED BY <1>3, <2>1, <2>2, <2>3 DEF CallStep
<1>4. CASE Recover /\ Ours
  BY <1>4, <1>s DEF Recover, Ours
<1>5. ASSUME NEW w \in Workers, WorkerDies(w) PROVE RunsInv'
  <2>1. \A c \in Callers : Ends(c)'
    BY <1>c, <1>5 DEF WorkerDies, Crash, RunsInv, Ends, Idle
  <2>2. ASSUME NEW g \in Ingesters PROVE RunsFor(g)'
    <3>1. CASE WorkerOf[g] = w
      BY <1>5, <3>1 DEF WorkerDies, RunsFor, In, NoJob
    <3>2. CASE WorkerOf[g] # w
      <4>1. job'[g] = job[g] /\ call'[g] = call[g] /\ RunsFor(g)
        BY <1>0, <1>c, <1>5, <3>2 DEF WorkerDies, Crash, RunsInv
      <4> QED BY <4>1 DEF RunsFor, In
    <3> QED BY <3>1, <3>2
  <2> QED BY <2>1, <2>2 DEF RunsInv
<1>6. CASE UNCHANGED vars
  BY <1>6, <1>s DEF vars, pipeline
<1> QED BY <1>c, <1>1, <1>2, <1>3, <1>4, <1>5, <1>6 DEF Next


---------------------------------------------------------------------------
(* What is owed to a subject until nothing is under way.                   *)

\* the cases an ingest will yet reason over
Upcoming(g) ==
    IF In(g, "idle") THEN {}
    ELSE Members(job[g].todo) \cup Members(IF In(g, "runs") THEN Tail(job[g].loaded) ELSE job[g].loaded)
\* its present run has yet to come to a pair
Running(g, p, d) == In(g, "runs") /\ Comes(g, p, d)
Due(p, d) == FreshOf(p, d) \/ \E g \in Ingesters : p[1] \in Upcoming(g) \/ Running(g, p, d)

\* a case and those it was last loaded with
Related(c, d) == d = c \/ (d \in Members(together[c]) /\ together[d] = together[c])
Grouped(c) == together[c] = <<>> \/ c \in Members(together[c])

Sound(g) ==
    /\ ~In(g, "mark_failed")
    /\ In(g, "runs") => Good(g)
    /\ job[g].phase \in {"mark_started", "sync", "mark_loaded"}
       => /\ Members(job[g].todo) \subseteq Members(job[g].batch)
          /\ Members(job[g].batch) \subseteq Upcoming(g)

\* where nothing failed, a subject of a case has been run over that case and over those last
\* loaded with it as they are, or there is an ingest that will see to it
OwedInv ==
    Undisturbed => /\ \A g \in Ingesters : Sound(g)
                   /\ \A c \in Cases : Grouped(c)
                   /\ \A p \in DirectPairs, d \in Cases : Related(p[1], d) => Due(p, d)

\* Where nothing has failed nothing failed before.
LEMMA UndisturbedBefore ==
    ASSUME PipelineTypeOK, [Next]_vars, Undisturbed'
    PROVE  Undisturbed /\ UNCHANGED faults /\ ~Fault
<1>1. Calm /\ ~Outage
  BY CalmBefore DEF Undisturbed
<1>2. faults \in Nat /\ faults' = 0
  BY RunBounds DEF PipelineTypeOK, Undisturbed
<1>3. ~Fault
  <2>1. Fault => faults' = faults + 1
    BY Zenon DEF Fault
  <2> QED BY <1>2, <2>1
<1>4. UNCHANGED faults
  <2>1. ASSUME NEW c \in Callers, Advance(c) PROVE UNCHANGED faults
    BY <1>3, <2>1, ZenonT(30) DEF Advance, Lock, Granted, Check, ClearRun, StartRun, Wave1, MarkWave1,
       Extraction, MarkExtraction, Wave2, MarkWave2, MarkFailed, Serve, Release, Work, Write, NoFault
  <2>2. ASSUME NEW g \in Ingesters, IngestStep(g) PROVE UNCHANGED faults
    BY <1>3, <2>2 DEF IngestStep, MarkStarted, Sync, MarkLoaded, GiveUp, Reason, MarkReasoned, Report,
       NoFault
  <2> QED BY <1>1, <1>3, <2>1, <2>2 DEF Next, CallStep, Return, NoFault, vars, pipeline, Ask, Ingest,
                                       Recover, WorkerDies, Crash
<1> QED BY <1>1, <1>2, <1>3, <1>4 DEF Undisturbed

\* A step of one caller that loads nothing owes what it owed.
LEMMA OwedElsewhere ==
    ASSUME OwedInv, Undisturbed, NEW c \in Callers, UNCHANGED <<loads, together>>,
           \A e \in Callers \ {c} : call'[e] = call[e], \A h \in Ingesters \ {c} : job'[h] = job[h],
           c \in Ingesters => Sound(c)',
           \A p \in DirectPairs, d \in Cases : FreshOf(p, d) => FreshOf(p, d)',
           c \in Ingesters => \A p \in DirectPairs, d \in Cases :
               p[1] \in Upcoming(c) \/ Running(c, p, d) => Due(p, d)'
    PROVE  OwedInv'
<1>1. ASSUME NEW h \in Ingesters \ {c}
      PROVE  /\ Sound(h)' /\ Upcoming(h)' = Upcoming(h)
             /\ \A p, d : Running(h, p, d) => Running(h, p, d)'
  <2>1. Sound(h) /\ job'[h] = job[h] /\ call'[h] = call[h]
    BY IngestBounds DEF OwedInv
  <2>2. Upcoming(h)' = Upcoming(h)
    BY <2>1 DEF Upcoming, In
  <2>3. Sound(h)'
    BY <2>1, <2>2 DEF Sound, In, Good
  <2> QED BY <2>1, <2>2, <2>3 DEF Running, Comes, In
<1>2. \A g \in Ingesters : Sound(g)'
  BY <1>1
<1>3. \A case \in Cases : Grouped(case)'
  BY DEF OwedInv, Grouped
<1>4. ASSUME NEW p \in DirectPairs, NEW d \in Cases, Related(p[1], d)' PROVE Due(p, d)'
  <2>1. Due(p, d)
    BY <1>4 DEF OwedInv, Related
  <2>2. CASE FreshOf(p, d)
    BY <2>2 DEF Due
  <2>3. CASE ~FreshOf(p, d)
    <3>1. PICK h \in Ingesters : p[1] \in Upcoming(h) \/ Running(h, p, d)
      BY <2>1, <2>3 DEF Due
    <3>2. CASE h = c
      BY <3>1, <3>2
    <3>3. CASE h # c
      BY <1>1, <3>1, <3>3 DEF Due
    <3> QED BY <3>2, <3>3
  <2> QED BY <2>2, <2>3
<1>5. \A p \in DirectPairs', d \in Cases' : Related(p[1], d)' => Due(p, d)'
  BY <1>4 DEF DirectPairs, Pairs
<1> QED BY <1>2, <1>3, <1>5 DEF OwedInv

\* A call that nothing happens to keeps its good name.
LEMMA StaysGood ==
    ASSUME NEW c \in Callers, Goes(c)
    PROVE  /\ Good(c)' => Good(c)
           /\ UNCHANGED faults /\ Good(c) => Good(c)'
<1>1. CASE Moves(c)
  BY <1>1 DEF Moves
<1>2. CASE Reads(c) \/ Completes(c) \/ Leaves(c)
  BY <1>2 DEF Reads, Completes, Leaves, Good, Ahead, Reading
<1> QED BY <1>1, <1>2 DEF Goes

\* A run sees to what its ingest owes.
LEMMA AdvanceOwed ==
    ASSUME PipelineTypeOK, LockInv, WholeInv, RunsInv, OwedInv, Undisturbed, UNCHANGED faults,
           NEW c \in Callers, Goes(c), Ours
    PROVE  OwedInv'
<1>c. Calm
  BY DEF Undisturbed
<1>1. \A p \in DirectPairs, d \in Cases : FreshOf(p, d) => FreshOf(p, d)'
  BY FreshGoes DEF DirectPairs
<1>2. ASSUME c \in Ingesters
      PROVE  /\ Sound(c)'
             /\ \A p \in DirectPairs, d \in Cases :
                   p[1] \in Upcoming(c) \/ Running(c, p, d) => Due(p, d)'
  <2>1. job'[c] = job[c] /\ Sound(c) /\ RunsFor(c)
    BY <1>2, <1>c DEF Ours, OwedInv, RunsInv
  <2>2. Upcoming(c)' = Upcoming(c)
    BY <2>1 DEF Upcoming, In
  <2>3. In(c, "runs") => Good(c)'
    BY <2>1, StaysGood DEF Sound
  <2>4. Sound(c)'
    BY <2>1, <2>2, <2>3 DEF Sound, In
  <2>5. ASSUME NEW p \in DirectPairs, NEW d \in Cases, Running(c, p, d) PROVE Due(p, d)'
    <3>1. p \in Pairs /\ call[c].force /\ In(c, "runs")' /\ Good(c)'
      BY <2>1, <2>3, <2>5 DEF DirectPairs, Running, RunsFor, In
    <3>2. Comes(c, p, d)' \/ FreshOf(p, d)'
      BY <1>c, <2>5, <3>1, ComesGoes DEF Running
    <3> QED BY <1>2, <3>1, <3>2 DEF Due, Running
  <2> QED BY <1>2, <2>2, <2>4, <2>5 DEF Due
<1> QED BY <1>1, <1>2, OwedElsewhere DEF Goes, Ours

\* So does an ingest that moves on without a load.
LEMMA SettlesOwed ==
    ASSUME OwedInv, Undisturbed, NEW g \in Ingesters, UNCHANGED <<state, loads, together>>,
           \A e \in Callers \ {g} : call'[e] = call[e], \A h \in Ingesters \ {g} : job'[h] = job[h],
           call'[g] = call[g] \/ call'[g].pc \notin Reading, Sound(g)',
           \A p \in DirectPairs, d \in Cases :
               p[1] \in Upcoming(g) \/ Running(g, p, d) => p[1] \in Upcoming(g)' \/ Running(g, p, d)'
    PROVE  OwedInv'
<1>1. g \in Callers
  BY IngestBounds
<1>2. \A p \in DirectPairs, d \in Cases : FreshOf(p, d) => FreshOf(p, d)'
  BY FreshStays
<1> QED BY <1>1, <1>2, OwedElsewhere DEF Due

\* What an ingest has before it once its job is another.
LEMMA UpcomingIs ==
    ASSUME NEW g \in Ingesters, NEW phase, NEW todo, NEW loaded, JobIs(g, phase, todo, loaded),
           phase # "idle"
    PROVE  Upcoming(g)' = Members(todo) \cup Members(IF phase = "runs" THEN Tail(loaded) ELSE loaded)
BY DEF JobIs, Upcoming, In

\* An ingest that begins owes more than it did.
LEMMA IngestOwed ==
    ASSUME IngestTypes, OwedInv, Undisturbed, NEW g \in Ingesters, NEW batch \in Batches,
           Ingest(g, batch)
    PROVE  OwedInv'
<1>1. /\ job'[g].phase = "mark_started" /\ job'[g].batch = batch /\ job'[g].todo = batch
      /\ job'[g].loaded = <<>> /\ \A h \in Ingesters \ {g} : job'[h] = job[h]
  BY DEF Ingest, IngestTypes, TypeOK
<1>2. In(g, "idle") /\ UNCHANGED <<call, state, loads, together>>
  BY DEF Ingest, Graph
<1>3. Members(batch) \subseteq Upcoming(g)'
  BY <1>1 DEF Upcoming, In
<1>4. Sound(g)'
  BY <1>1, <1>3 DEF Sound, In
<1>5. \A p, d : p[1] \notin Upcoming(g) /\ ~Running(g, p, d)
  BY <1>2 DEF Upcoming, Running, In
<1> QED BY <1>1, <1>2, <1>4, <1>5, SettlesOwed

\* The receipts of a load change nothing of that.
LEMMA ReceiptOwed ==
    ASSUME IngestTypes, OwedInv, Undisturbed, NEW g \in Ingesters, MarkStarted(g) \/ MarkLoaded(g)
    PROVE  OwedInv'
<1>1. /\ job[g] \in Jobs /\ job[g].phase \in {"mark_started", "mark_loaded"}
      /\ job[g].todo \in Seq(Cases) /\ job[g].todo # <<>> /\ Loading(g) \in Cases
      /\ job[g].loaded \in Seq(Cases)
  BY JobFields DEF MarkStarted, MarkLoaded, In, Jobs
<1>2. UNCHANGED <<call, state, loads, together>> /\ Sound(g)
  BY DEF MarkStarted, MarkLoaded, Graph, OwedInv
<1>3. Upcoming(g) = Members(job[g].todo) \cup Members(job[g].loaded)
  BY <1>1 DEF Upcoming, In
<1>4. \A p, d : ~Running(g, p, d)
  BY <1>1 DEF Running, In
<1>5. CASE MarkStarted(g)
  <2>1. JobIs(g, "sync", job[g].todo, job[g].loaded)
    BY <1>5, JobSteps
  <2>2. Upcoming(g)' = Upcoming(g)
    BY <1>3, <2>1, UpcomingIs
  <2>3. Sound(g)'
    BY <1>1, <1>2, <2>1, <2>2 DEF Sound, JobIs, In
  <2> QED BY <1>2, <1>4, <2>1, <2>2, <2>3, SettlesOwed DEF JobIs
<1>6. CASE MarkLoaded(g)
  <2> DEFINE later == Tail(job[g].todo)
             loaded == Append(job[g].loaded, Loading(g))
  <2>1. JobIs(g, Phase(later), later, loaded)
    BY <1>6, JobSteps
  <2>2. Members(job[g].todo) = {Loading(g)} \cup Members(later)
    BY <1>1, TailMembers DEF Loading
  <2>3. Members(loaded) = Members(job[g].loaded) \cup {Loading(g)}
    BY <1>1, AppendMembers
  <2> HIDE DEF later, loaded
  <2>4. Phase(later) \in {"reason", "mark_started"}
    BY DEF Phase
  <2>5. Upcoming(g)' = Upcoming(g)
    BY <1>3, <2>1, <2>2, <2>3, <2>4, UpcomingIs
  <2>6. Sound(g)'
    BY <1>1, <1>2, <2>1, <2>2, <2>4, <2>5 DEF Sound, JobIs, In
  <2> QED BY <1>2, <1>4, <2>1, <2>5, <2>6, SettlesOwed DEF JobIs
<1> QED BY <1>5, <1>6

\* An ingest that loads a case owes it and its batch a run, and has it before it.
LEMMA SyncOwed ==
    ASSUME IngestTypes, OwedInv, Undisturbed, ~Fault, NEW g \in Ingesters, Sync(g)
    PROVE  OwedInv'
<1> DEFINE case == Loading(g)
           batch == job[g].batch
<1>1. /\ job[g] \in Jobs /\ job[g].phase = "sync" /\ job[g].todo \in Seq(Cases)
      /\ job[g].todo # <<>> /\ case \in Cases /\ g \in Callers
      /\ batch \in Batches
  BY JobFields DEF Sync, In, Jobs
<1>2. UNCHANGED <<call, state>> /\ Sound(g)
  BY DEF Sync, Graph, OwedInv
<1>3. /\ loads' = [loads EXCEPT ![case] = @ + 1] /\ together' = [together EXCEPT ![case] = batch]
      /\ JobIs(g, "mark_loaded", job[g].todo, job[g].loaded)
  BY JobSteps
<1>4. Upcoming(g)' = Upcoming(g)
  <2>1. Upcoming(g) = Members(job[g].todo) \cup Members(job[g].loaded)
    BY <1>1 DEF Upcoming, In
  <2> QED BY <1>3, <2>1, UpcomingIs
<1>5. case \in Members(batch) /\ Members(batch) \subseteq Upcoming(g)
  <2>1. case \in Members(job[g].todo)
    BY <1>1, TailMembers DEF Loading
  <2> QED BY <1>1, <1>2, <2>1 DEF Sound
<1>6. batch # <<>>
  BY <1>1, IngestBounds
<1>7. \A c \in Cases \ {case} : loads'[c] = loads[c] /\ together'[c] = together[c]
  BY <1>3 DEF IngestTypes, TypeOK, PipelineTypeOK, Loads
<1>8. together'[case] = batch
  BY <1>1, <1>3 DEF IngestTypes, TypeOK
<1>9. ASSUME NEW h \in Ingesters \ {g}
      PROVE  /\ Sound(h)' /\ Upcoming(h)' = Upcoming(h)
             /\ \A p, d : loads'[d] = loads[d] /\ Running(h, p, d) => Running(h, p, d)'
  <2>1. Sound(h) /\ job'[h] = job[h] /\ call'[h] = call[h]
    BY <1>2, <1>3 DEF OwedInv, JobIs
  <2>2. Upcoming(h)' = Upcoming(h)
    BY <2>1 DEF Upcoming, In
  <2>3. Sound(h)'
    BY <2>1, <2>2 DEF Sound, In, Good
  <2> QED BY <2>1, <2>2, <2>3 DEF Running, Comes, In
<1>10. Sound(g)'
  BY <1>1, <1>2, <1>3, <1>4 DEF Sound, JobIs, In
<1>11. \A c \in Cases : Grouped(c)'
  BY <1>5, <1>7, <1>8 DEF OwedInv, Grouped
<1> HIDE DEF case, batch
<1>12. ASSUME NEW p \in DirectPairs, NEW d \in Cases, Related(p[1], d)' PROVE Due(p, d)'
  <2>0. p[1] \in Cases
    BY DEF DirectPairs, Pairs
  <2>1. CASE p[1] = case
    BY <1>4, <1>5, <2>1 DEF Due
  <2>2. CASE p[1] # case /\ d = case
    <3>1. together[p[1]] = batch
      BY <1>7, <1>8, <1>12, <2>0, <2>2 DEF Related
    <3>2. p[1] \in Members(batch)
      BY <1>6, <2>0, <3>1 DEF OwedInv, Grouped
    <3> QED BY <1>4, <1>5, <3>2 DEF Due
  <2>3. CASE p[1] # case /\ d # case
    <3>1. Related(p[1], d) /\ loads'[d] = loads[d]
      BY <1>7, <1>12, <2>0, <2>3 DEF Related
    <3>2. Due(p, d)
      BY <3>1 DEF OwedInv
    <3>3. FreshOf(p, d) => FreshOf(p, d)'
      BY <1>2, <3>1, FreshStays
    <3>4. ~Running(g, p, d)
      BY <1>1 DEF Running, In
    <3>5. ASSUME NEW h \in Ingesters, p[1] \in Upcoming(h) \/ Running(h, p, d)
          PROVE  p[1] \in Upcoming(h)' \/ Running(h, p, d)'
      <4>1. CASE h = g
        BY <1>4, <3>4, <3>5, <4>1
      <4>2. CASE h # g
        BY <1>9, <3>1, <3>5, <4>2
      <4> QED BY <4>1, <4>2
    <3> QED BY <3>2, <3>3, <3>5 DEF Due
  <2> QED BY <2>1, <2>2, <2>3
<1>13. \A p \in DirectPairs', d \in Cases' : Related(p[1], d)' => Due(p, d)'
  BY <1>12 DEF DirectPairs, Pairs
<1>14. \A h \in Ingesters : Sound(h)'
  BY <1>9, <1>10
<1> QED BY <1>11, <1>13, <1>14 DEF OwedInv

\* An ingest that turns to a case comes to all of its subjects.
LEMMA ComesToAll ==
    ASSUME PipelineTypeOK, NEW g \in Callers, NEW case \in Cases, Begin(g, case, Direct[case], TRUE)
    PROVE  /\ call'[g].pc = "lock" /\ call'[g].ok /\ \A e \in Callers \ {g} : call'[e] = call[e]
           /\ \A p \in DirectPairs, d \in Cases : p[1] = case => Comes(g, p, d)'
<1>1. /\ call'[g].pc = "lock" /\ call'[g].ok /\ call'[g].case = case
      /\ call'[g].todo = Direct[case] /\ \A e \in Callers \ {g} : call'[e] = call[e]
  BY DEF Begin, PipelineTypeOK
<1>2. ASSUME NEW p \in DirectPairs, NEW d \in Cases, p[1] = case PROVE Comes(g, p, d)'
  <2>1. PICK n \in DOMAIN Direct[case] : Direct[case][n] = p[2]
    BY <1>2 DEF DirectPairs
  <2> QED BY <1>1, <1>2, <2>1 DEF Comes, Ahead
<1> QED BY <1>1, <1>2

\* An ingest that turns to a case has it before it in its call.
LEMMA ReasonOwed ==
    ASSUME IngestTypes, RunsInv, OwedInv, Undisturbed, ~Fault, NEW g \in Ingesters, Reason(g)
    PROVE  OwedInv'
<1> DEFINE case == Head(job[g].loaded)
<1>1. /\ g \in Callers /\ PipelineTypeOK /\ job[g].phase = "reason" /\ job[g].loaded \in Seq(Cases)
      /\ job[g].loaded # <<>> /\ case \in Cases
  BY JobFields DEF Reason, CaseToReason, In, Jobs, IngestTypes, TypeOK
<1>2. job[g].todo = <<>>
  BY <1>1 DEF Undisturbed, RunsInv, RunsFor, In
<1>3. UNCHANGED <<state, loads, together>>
  BY DEF Reason, Graph
<1>4. Upcoming(g) = {case} \cup Members(Tail(job[g].loaded)) /\ \A p, d : ~Running(g, p, d)
  <2>1. Members(job[g].loaded) = {case} \cup Members(Tail(job[g].loaded))
    BY <1>1, TailMembers
  <2>2. Upcoming(g) = Members(<<>>) \cup Members(job[g].loaded)
    BY <1>1, <1>2 DEF Upcoming, In
  <2>3. Members(<<>>) = {}
    BY DEF Members
  <2> QED BY <1>1, <2>1, <2>2, <2>3 DEF Running, In
<1> HIDE DEF case
<1>5. CASE /\ Begin(g, case, Direct[case], TRUE)
           /\ JobIs(g, "runs", job[g].todo, job[g].loaded)
  <2>1. /\ call'[g].pc = "lock" /\ call'[g].ok /\ \A e \in Callers \ {g} : call'[e] = call[e]
        /\ \A p \in DirectPairs, d \in Cases : p[1] = case => Comes(g, p, d)'
    BY <1>1, <1>5, ComesToAll
  <2>2. Members(Tail(job[g].loaded)) \subseteq Upcoming(g)'
    BY <1>5, UpcomingIs
  <2>3. In(g, "runs")'
    BY <1>5 DEF JobIs, In
  <2>4. Sound(g)'
    BY <1>5, <2>1 DEF Sound, JobIs, In, Good
  <2>5. call'[g].pc \notin Reading
    BY <2>1 DEF Reading
  <2>6. \A p \in DirectPairs, d \in Cases :
           p[1] \in Upcoming(g) \/ Running(g, p, d) => p[1] \in Upcoming(g)' \/ Running(g, p, d)'
    BY <1>4, <2>1, <2>2, <2>3 DEF Running
  <2> QED BY <1>3, <1>5, <2>1, <2>4, <2>5, <2>6, SettlesOwed DEF JobIs
<1>6. CASE /\ Direct[case] = <<>> /\ UNCHANGED call
           /\ JobIs(g, "reason", job[g].todo, Tail(job[g].loaded))
  <2>1. \A p \in DirectPairs : p[1] # case
    BY <1>6 DEF DirectPairs
  <2>2. Members(Tail(job[g].loaded)) \subseteq Upcoming(g)'
    BY <1>6, UpcomingIs
  <2>3. Sound(g)'
    BY <1>6 DEF Sound, JobIs, In
  <2> QED BY <1>3, <1>4, <1>6, <2>1, <2>2, <2>3, SettlesOwed DEF JobIs
<1> QED BY <1>5, <1>6, JobSteps DEF case

\* A call that is over has come to all its subjects.
LEMMA OverIsThrough ==
    ASSUME RunsInv, Calm, NEW g \in Callers, At(g, "done"), NEW p, NEW d
    PROVE  ~Comes(g, p, d)
<1>1. call[g].todo = <<>>
  BY DEF RunsInv, Ends, At
<1> QED BY <1>1 DEF Comes

\* An ingest whose run is over, or that is over itself, owes nothing for it.
LEMMA DoneOwed ==
    ASSUME IngestTypes, RunsInv, OwedInv, Undisturbed, NEW g \in Ingesters,
           MarkReasoned(g) \/ Report(g)
    PROVE  OwedInv'
<1>1. g \in Callers /\ Calm /\ RunsFor(g) /\ UNCHANGED <<state, loads, together>>
  BY IngestBounds DEF Undisturbed, RunsInv, MarkReasoned, Report, Graph
<1>2. CASE MarkReasoned(g)
  <2>1. In(g, "runs") /\ At(g, "done") /\ job[g].todo = <<>>
    BY <1>1, <1>2 DEF MarkReasoned, RunsFor
  <2>2. call'[g] = Idle /\ \A e \in Callers \ {g} : call'[e] = call[e]
    BY <1>1, <1>2 DEF MarkReasoned, IngestTypes, TypeOK, PipelineTypeOK
  <2>3. JobIs(g, "reason", job[g].todo, Tail(job[g].loaded))
    BY <1>2, <2>1, JobSteps DEF Phase
  <2>4. Upcoming(g)' = Members(job[g].todo) \cup Members(Tail(job[g].loaded))
    BY <2>3, UpcomingIs
  <2>5. Upcoming(g) = Upcoming(g)' /\ \A p, d : ~Running(g, p, d)
    BY <1>1, <2>1, <2>4, OverIsThrough DEF Upcoming, Running, In
  <2>6. Sound(g)'
    BY <2>3 DEF Sound, JobIs, In
  <2>7. call'[g].pc \notin Reading
    BY <2>2 DEF Idle, Reading
  <2> QED BY <1>1, <2>2, <2>3, <2>5, <2>6, <2>7, SettlesOwed DEF JobIs
<1>3. CASE Report(g)
  <2>1. In(g, "reason") /\ job[g].loaded = <<>> /\ job[g].todo = <<>> /\ UNCHANGED call
    BY <1>1, <1>3 DEF Report, RunsFor
  <2>2. job'[g] = NoJob /\ \A h \in Ingesters \ {g} : job'[h] = job[h]
    BY <1>3 DEF Report, IngestTypes, TypeOK
  <2>3. \A p, d : p[1] \notin Upcoming(g) /\ ~Running(g, p, d)
    <3>1. Members(<<>>) = {}
      BY DEF Members
    <3>2. Upcoming(g) = Members(<<>>) \cup Members(<<>>)
      BY <2>1 DEF Upcoming, In
    <3> QED BY <2>1, <3>1, <3>2 DEF Running, In
  <2>4. Sound(g)'
    BY <2>2 DEF Sound, NoJob, In
  <2> QED BY <1>1, <2>1, <2>2, <2>3, <2>4, SettlesOwed
<1> QED BY <1>2, <1>3

\* Every step keeps what is owed.
LEMMA NextOwed ==
    IngestTypes /\ LockInv /\ WholeInv /\ RunsInv /\ OwedInv /\ [Next]_vars => OwedInv'
<1> SUFFICES ASSUME IngestTypes, LockInv, WholeInv, RunsInv, OwedInv, [Next]_vars, Undisturbed'
             PROVE  OwedInv'
  BY DEF OwedInv
<1>0. PipelineTypeOK /\ Ingesters \subseteq Callers
  BY IngestBounds DEF IngestTypes, TypeOK
<1>c. Undisturbed /\ UNCHANGED faults /\ ~Fault /\ Calm /\ ~Outage
  BY <1>0, UndisturbedBefore, CalmBefore DEF Undisturbed
<1>s. ASSUME UNCHANGED <<state, call, loads, job, together>> PROVE OwedInv'
  <2>1. \A g \in Ingesters : Sound(g) => Sound(g)'
    BY <1>s DEF Sound, Good, Upcoming, In
  <2>2. \A c \in Cases : Grouped(c) => Grouped(c)'
    BY <1>s DEF Grouped
  <2>3. \A p \in DirectPairs, d \in Cases : FreshOf(p, d) => FreshOf(p, d)'
    BY <1>s, FreshStays
  <2>4. \A g \in Ingesters : \A p, d : /\ Upcoming(g)' = Upcoming(g)
                                   /\ Running(g, p, d)' = Running(g, p, d)
    BY <1>s DEF Upcoming, Running, Comes, In
  <2>5. \A p \in DirectPairs, d \in Cases : Related(p[1], d)' => Due(p, d)'
    BY <1>s, <1>c, <2>3, <2>4 DEF OwedInv, Related, Due
  <2> HIDE DEF Due
  <2>6. \A p \in DirectPairs', d \in Cases' : Related(p[1], d)' => Due(p, d)'
    BY <2>5 DEF DirectPairs, Pairs
  <2> QED BY <1>c, <2>1, <2>2, <2>6 DEF OwedInv
<1>t. ASSUME NEW c \in Requests, UNCHANGED <<state, loads>>, Ours, call'[c].pc \notin Reading,
             \A e \in Callers \ {c} : call'[e] = call[e]
      PROVE  OwedInv'
  <2>1. c \in Callers \ Ingesters
    BY DEF Requests
  <2>2. \A p \in DirectPairs, d \in Cases : FreshOf(p, d) => FreshOf(p, d)'
    BY <1>t, FreshStays
  <2> QED BY <1>c, <1>t, <2>1, <2>2, OwedElsewhere DEF Ours
<1>1. ASSUME NEW c \in Requests, NEW case \in Cases, NEW force \in BOOLEAN, Ask(c, case, force), Ours
      PROVE  OwedInv'
  <2>1. Population[case] \in Seq(Subjects) /\ c \in Callers
    BY SubjectLists DEF Requests
  <2>2. call'[c].pc = "lock" /\ \A e \in Callers \ {c} : call'[e] = call[e]
    BY <1>0, <1>1, <2>1, BeginTyped DEF Ask
  <2> QED BY <1>1, <1>t, <2>2 DEF Ask, Reading
<1>2. ASSUME NEW g \in Ingesters, NEW batch \in Batches, Ingest(g, batch) PROVE OwedInv'
  BY <1>2, <1>c, IngestOwed
<1>3. ASSUME NEW c \in Callers, CallStep(c) PROVE OwedInv'
  <2>1. CASE Advance(c) /\ Ours
    BY <1>0, <1>c, <2>1, AdvanceGoes, AdvanceOwed
  <2>2. CASE c \in Requests /\ Return(c) /\ Ours
    <3>1. call'[c] = Idle /\ \A e \in Callers \ {c} : call'[e] = call[e]
      BY <1>0, <2>2 DEF Return, PipelineTypeOK
    <3> QED BY <1>t, <2>2, <3>1 DEF Return, Env, Idle, Reading
  <2>3. CASE c \in Ingesters /\ IngestStep(c)
    <3>1. ~GiveUp(c)
      BY <1>c, <2>3 DEF GiveUp, OwedInv, Sound
    <3> QED BY <1>c, <2>3, <3>1, ReceiptOwed, SyncOwed, ReasonOwed, DoneOwed DEF IngestStep
  <2> QED BY <1>3, <2>1, <2>2, <2>3 DEF CallStep
<1>4. CASE Recover /\ Ours
  BY <1>4, <1>s DEF Recover, Ours
<1>5. \A w \in Workers : ~WorkerDies(w)
  BY <1>c DEF WorkerDies, Crash
<1>6. CASE UNCHANGED vars
  BY <1>6, <1>s DEF vars, pipeline
<1> QED BY <1>c, <1>1, <1>2, <1>3, <1>4, <1>5, <1>6 DEF Next

\* Nothing is owed at first.
LEMMA InitOwed == Init => LockInv /\ WholeInv /\ RunsInv /\ OwedInv
<1> SUFFICES ASSUME Init PROVE LockInv /\ WholeInv /\ RunsInv /\ OwedInv
  OBVIOUS
<1>1. LockInv
  BY DEF Init, PipelineInit, LockInv, Idle
<1>2. WholeInv
  BY DEF Init, PipelineInit, WholeInv, Progress, Whole, Idle, Never
<1>3. RunsInv
  BY IngestBounds DEF Init, PipelineInit, RunsInv, Ends, RunsFor, In, NoJob, Idle
<1>4. \A g \in Ingesters : Sound(g)
  BY DEF Init, Sound, In, NoJob
<1>5. \A c \in Cases : Grouped(c)
  BY DEF Init, Grouped
<1>6. \A p \in DirectPairs, d \in Cases : FreshOf(p, d)
  BY DEF Init, PipelineInit, FreshOf, Never, Idle, Reading, DirectPairs
<1> QED BY <1>1, <1>2, <1>3, <1>4, <1>5, <1>6 DEF OwedInv, Due

\* With no ingest under way nothing is owed: every subject of a case has been run over it.
LEMMA NothingOwed ==
    ASSUME OwedInv, Undisturbed, NoIngest, NEW p \in DirectPairs, NEW d \in Cases, Related(p[1], d)
    PROVE  state[p].saw[d] = loads[d]
BY DEF OwedInv, NoIngest, Due, Upcoming, Running, In, FreshOf

\* An ingest leaves no stale conclusion behind, for any number of ingests and requests at a time
\* over any cases and subjects, as long as nothing fails (reason_case's force=True).
THEOREM IngestsLeaveNothingStale == Spec => []CompletedIsCurrent
<1>1. OwedInv => CompletedIsCurrent
  <2> SUFFICES ASSUME OwedInv, Undisturbed, NoIngest, NEW p \in DirectPairs
               PROVE  state[p].saw[p[1]] = loads[p[1]]
    BY DEF CompletedIsCurrent
  <2>1. p[1] \in Cases /\ Related(p[1], p[1])
    BY DEF DirectPairs, Pairs, Related
  <2> QED BY <2>1, NothingOwed
<1> QED BY InitTypes, NextTyped, NextLocked, NextWhole, NextRuns, InitOwed, NextOwed, <1>1, PTL DEF Spec

\* Nor does it reason over one case of its batch as it was before the batch (ingest).
THEOREM BatchesAreSeenWhole == Spec => []BatchSeenWhole
<1>1. OwedInv => BatchSeenWhole
  <2> SUFFICES ASSUME OwedInv, Undisturbed, NoIngest, NEW p \in DirectPairs, NEW d \in Cases,
                      d \in Members(together[p[1]]), together[d] = together[p[1]]
               PROVE  state[p].saw[d] = loads[d]
    BY DEF BatchSeenWhole, Members
  <2> QED BY NothingOwed DEF Related
<1> QED BY InitTypes, NextTyped, NextLocked, NextWhole, NextRuns, InitOwed, NextOwed, <1>1, PTL DEF Spec

---------------------------------------------------------------------------
(* What a receipt says, with one ingest at a time.                         *)

OneIngester == \A g, h \in Ingesters : g = h

\* a case that is being loaded does not count as reasoned over
Marked(g) ==
    job[g].phase \in {"sync", "mark_loaded", "mark_failed"} => ingested[Loading(g)] = "loading"
\* a run that has not failed has been to each subject of its case, or has yet to come to it
RunDue(g) ==
    In(g, "runs") /\ Good(g) =>
        \A p \in DirectPairs : p[1] = call[g].case => FreshOf(p, p[1]) \/ Comes(g, p, p[1])
Reasoned(p) == ingested[p[1]] = "reasoned" => FreshOf(p, p[1])
ReasonInv == Calm => /\ \A g \in Ingesters : Marked(g) /\ RunDue(g)
                     /\ \A p \in DirectPairs : Reasoned(p)

\* A receipt that is due is written, and no other one is.
LEMMA ReceiptWritten ==
    ASSUME IngestTypes, WholeInv, Calm, NEW g \in Callers, NEW case \in Cases, NEW status,
           Receipt(g, case, status)
    PROVE  /\ \A d \in Cases \ {case} : ingested'[d] = ingested[d]
           /\ ingested'[case] \in {ingested[case], status}
           /\ status = "loading" \/ ingested[case] # "none" => ingested'[case] = status
<1>1. Statement(g) /\ ~NoStatement(g)
  BY Answers DEF IngestTypes, TypeOK, WholeInv
<1>2. \/ ingested' = [ingested EXCEPT ![case] = status]
      \/ status # "loading" /\ ingested[case] = "none" /\ UNCHANGED ingested
  BY <1>1 DEF Receipt
<1> QED BY <1>2 DEF IngestTypes, TypeOK

\* A step of a call is none of a receipt's business.
LEMMA OursReason ==
    ASSUME ReasonInv, Calm, NEW c \in Callers, Ours, \A e \in Callers \ {c} : call'[e] = call[e],
           \A p \in DirectPairs : FreshOf(p, p[1]) => FreshOf(p, p[1])', UNCHANGED loads,
           c \in Ingesters => RunDue(c)'
    PROVE  ReasonInv'
<1>1. ASSUME NEW g \in Ingesters PROVE Marked(g)' /\ RunDue(g)'
  <2>1. Marked(g)'
    BY DEF ReasonInv, Marked, Loading, Ours
  <2>2. ASSUME g # c PROVE RunDue(g)'
    <3>1. RunDue(g) /\ call'[g] = call[g] /\ job'[g] = job[g]
      BY <2>2, IngestBounds DEF ReasonInv, Ours
    <3>2. \A p \in DirectPairs : Comes(g, p, p[1]) => Comes(g, p, p[1])'
      BY <3>1 DEF Comes
    <3>3. \A p \in DirectPairs' : p \in DirectPairs
      BY DEF DirectPairs, Pairs
    <3> QED BY <3>1, <3>2, <3>3 DEF RunDue, In, Good
  <2> QED BY <2>1, <2>2
<1>2. \A p \in DirectPairs : Reasoned(p)'
  BY DEF ReasonInv, Reasoned, Ours
<1>3. DirectPairs' = DirectPairs
  BY DEF DirectPairs, Pairs
<1> QED BY <1>1, <1>2, <1>3 DEF ReasonInv

\* A run comes to the subjects of its case.
LEMMA AdvanceReason ==
    ASSUME PipelineTypeOK, LockInv, WholeInv, RunsInv, ReasonInv, Calm, NEW c \in Callers, Goes(c),
           Ours
    PROVE  ReasonInv'
<1>1. \A p \in DirectPairs : FreshOf(p, p[1]) => FreshOf(p, p[1])'
  BY FreshGoes DEF DirectPairs, Pairs
<1>2. ASSUME c \in Ingesters, In(c, "runs")', Good(c)', NEW p \in DirectPairs, p[1] = call'[c].case
      PROVE  FreshOf(p, p[1])' \/ Comes(c, p, p[1])'
  <2>1. /\ In(c, "runs") /\ Good(c) /\ p[1] = call[c].case /\ call[c].force
        /\ p \in Pairs /\ p[1] \in Cases
    BY <1>2, StaysGood DEF Ours, In, Goes, RunsInv, RunsFor, DirectPairs, Pairs
  <2>2. FreshOf(p, p[1]) \/ Comes(c, p, p[1])
    BY <1>2, <2>1 DEF ReasonInv, RunDue
  <2> QED BY <1>1, <1>2, <2>1, <2>2, ComesGoes
<1>3. c \in Ingesters => RunDue(c)'
  <2>1. DirectPairs' = DirectPairs
    BY DEF DirectPairs, Pairs
  <2> QED BY <1>2, <2>1 DEF RunDue
<1> QED BY <1>1, <1>3, OursReason DEF Goes

\* A step of the one ingester.
LEMMA JobReason ==
    ASSUME OneIngester, NEW g \in Ingesters, Marked(g)', RunDue(g)',
           \A p \in DirectPairs : Reasoned(p)'
    PROVE  ReasonInv'
<1>1. DirectPairs' = DirectPairs
  BY DEF DirectPairs, Pairs
<1> QED BY <1>1 DEF OneIngester, ReasonInv

\* An ingest that loads a case has said so before.
LEMMA LoadReason ==
    ASSUME IngestTypes, WholeInv, ReasonInv, Calm, OneIngester, NEW g \in Ingesters,
           MarkStarted(g) \/ Sync(g) \/ MarkLoaded(g) \/ GiveUp(g)
    PROVE  ReasonInv'
<1> DEFINE case == Loading(g)
<1>1. /\ g \in Callers /\ case \in Cases /\ Marked(g) /\ UNCHANGED <<call, state>>
  BY IngestBounds, JobFields DEF MarkStarted, Sync, MarkLoaded, GiveUp, In, Graph, ReasonInv
<1>2. \A p \in DirectPairs : Reasoned(p) /\ p[1] \in Cases
  BY DEF ReasonInv, DirectPairs, Pairs
<1>3. CASE MarkStarted(g)
  <2>1. JobIs(g, "sync", job[g].todo, job[g].loaded) /\ UNCHANGED loads
    BY <1>3, JobSteps DEF MarkStarted
  <2>2. ingested'[case] = "loading" /\ \A d \in Cases \ {case} : ingested'[d] = ingested[d]
    BY <1>1, <1>3, ReceiptWritten DEF MarkStarted
  <2>3. Marked(g)' /\ RunDue(g)'
    BY <2>1, <2>2 DEF Marked, RunDue, JobIs, In, Loading
  <2>4. \A p \in DirectPairs : Reasoned(p)'
    BY <1>1, <1>2, <2>1, <2>2, FreshStays DEF Reasoned
  <2> QED BY <2>3, <2>4, JobReason
<1>4. CASE Sync(g)
  <2>1. ingested[case] = "loading" /\ UNCHANGED ingested
    BY <1>1, <1>4 DEF Sync, In, Marked
  <2>2. PICK phase \in {"mark_loaded", "mark_started", "mark_failed"} :
           JobIs(g, phase, job[g].todo, job[g].loaded)
    BY <1>4, JobSteps
  <2>3. \A d \in Cases \ {case} : loads'[d] = loads[d]
    BY <1>1, <1>4, JobSteps DEF IngestTypes, TypeOK, PipelineTypeOK, Loads
  <2>4. Marked(g)' /\ RunDue(g)'
    BY <2>1, <2>2 DEF Marked, RunDue, JobIs, In, Loading
  <2>5. \A p \in DirectPairs : Reasoned(p)'
    BY <1>1, <1>2, <2>1, <2>3, FreshStays DEF Reasoned
  <2> QED BY <2>4, <2>5, JobReason
<1>5. CASE MarkLoaded(g) \/ GiveUp(g)
  <2>1. PICK phase, todo, loaded :
            phase \in {"reason", "mark_started"} /\ JobIs(g, phase, todo, loaded)
    <3>. DEFINE later == Tail(job[g].todo)
    <3>1. Phase(later) \in {"reason", "mark_started"}
      BY DEF Phase
    <3>2. CASE MarkLoaded(g)
      <4>1. JobIs(g, Phase(later), later, Append(job[g].loaded, Loading(g)))
        BY <3>2, JobSteps
      <4> QED BY <3>1, <4>1
    <3>3. CASE GiveUp(g)
      <4>1. JobIs(g, Phase(later), later, job[g].loaded)
        BY <3>3, JobSteps
      <4> QED BY <3>1, <4>1
    <3> QED BY <1>5, <3>2, <3>3
  <2>2. ingested[case] = "loading"
    BY <1>1, <1>5 DEF MarkLoaded, GiveUp, In, Marked
  <2>3. ingested'[case] # "reasoned" /\ \A d \in Cases \ {case} : ingested'[d] = ingested[d]
    BY <1>1, <1>5, <2>2, ReceiptWritten DEF MarkLoaded, GiveUp
  <2>4. Marked(g)' /\ RunDue(g)'
    BY <2>1 DEF Marked, RunDue, JobIs, In
  <2>5. UNCHANGED loads
    BY <1>5 DEF MarkLoaded, GiveUp
  <2>6. \A p \in DirectPairs : Reasoned(p)'
    BY <1>1, <1>2, <2>3, <2>5, FreshStays DEF Reasoned
  <2> QED BY <2>4, <2>6, JobReason
<1> QED BY <1>3, <1>4, <1>5

\* An ingest that turns to a case will come to all its subjects.
LEMMA ReasonReason ==
    ASSUME IngestTypes, WholeInv, ReasonInv, Calm, OneIngester, NEW g \in Ingesters, Reason(g)
    PROVE  ReasonInv'
<1> DEFINE case == Head(job[g].loaded)
<1>1. /\ g \in Callers /\ PipelineTypeOK /\ job[g].loaded \in Seq(Cases)
      /\ job[g].loaded # <<>> /\ case \in Cases /\ UNCHANGED <<state, loads, ingested>>
  BY JobFields DEF Reason, CaseToReason, In, Jobs, IngestTypes, TypeOK, Graph
<1> HIDE DEF case
<1>2. CASE /\ Begin(g, case, Direct[case], TRUE)
           /\ JobIs(g, "runs", job[g].todo, job[g].loaded)
  <2>1. /\ call'[g].pc = "lock" /\ call'[g].ok /\ \A e \in Callers \ {g} : call'[e] = call[e]
        /\ \A p \in DirectPairs, d \in Cases : p[1] = case => Comes(g, p, d)'
    BY <1>1, <1>2, ComesToAll
  <2>2. call'[g].case = case
    BY <1>1, <1>2 DEF Begin, PipelineTypeOK
  <2>3. RunDue(g)'
    <3>1. \A p \in DirectPairs' : p \in DirectPairs /\ p[1] \in Cases
      BY DEF DirectPairs, Pairs
    <3> QED BY <2>1, <2>2, <3>1 DEF RunDue
  <2>4. Marked(g)'
    BY <1>2 DEF Marked, JobIs
  <2>5. \A e \in Callers : call'[e] = call[e] \/ call'[e].pc \notin Reading
    BY <2>1 DEF Reading
  <2>6. \A p \in DirectPairs : Reasoned(p)'
    BY <1>1, <2>5, FreshStays DEF ReasonInv, Reasoned
  <2> QED BY <2>3, <2>4, <2>6, JobReason
<1>3. ASSUME UNCHANGED call, job'[g].phase \in {"reason", "idle"} PROVE ReasonInv'
  <2>1. Marked(g)' /\ RunDue(g)'
    BY <1>3 DEF Marked, RunDue, In
  <2>2. \A p \in DirectPairs : Reasoned(p)'
    BY <1>1, <1>3, FreshStays DEF ReasonInv, Reasoned
  <2> QED BY <2>1, <2>2, JobReason
<1>4. CASE UNCHANGED call /\ JobIs(g, "reason", job[g].todo, Tail(job[g].loaded))
  BY <1>3, <1>4 DEF JobIs
<1>5. CASE UNCHANGED call /\ job' = [job EXCEPT ![g] = NoJob]
  BY <1>3, <1>5 DEF IngestTypes, TypeOK, NoJob
<1> QED BY <1>2, <1>4, <1>5, JobSteps DEF case

\* A case is marked reasoned once its run has been to all of its subjects.
LEMMA MarkReason ==
    ASSUME IngestTypes, WholeInv, RunsInv, ReasonInv, Calm, OneIngester, NEW g \in Ingesters,
           MarkReasoned(g)
    PROVE  ReasonInv'
<1> DEFINE case == Head(job[g].loaded)
<1>1. /\ g \in Callers /\ In(g, "runs") /\ At(g, "done") /\ job[g].loaded # <<>>
      /\ call[g].case = case /\ UNCHANGED <<state, loads>>
  BY IngestBounds DEF MarkReasoned, Graph, IngestTypes, JobInv, In, RunsInv, RunsFor
<1>2. case \in Cases
  BY <1>1, JobFields DEF In, Jobs
<1>3. call'[g] = Idle /\ \A e \in Callers \ {g} : call'[e] = call[e]
  BY <1>1 DEF MarkReasoned, IngestTypes, TypeOK, PipelineTypeOK
<1>4. \A p \in DirectPairs : FreshOf(p, p[1]) => FreshOf(p, p[1])'
  <2>1. \A e \in Callers : call'[e] = call[e] \/ call'[e].pc \notin Reading
    BY <1>3 DEF Idle, Reading
  <2> QED BY <1>1, <2>1, FreshStays
<1>5. ASSUME call[g].ok, NEW p \in DirectPairs, p[1] = case PROVE FreshOf(p, p[1])
  <2>1. Good(g) /\ ~Comes(g, p, p[1])
    BY <1>1, <1>5, OverIsThrough DEF Good, At
  <2> QED BY <1>1, <1>5, <2>1 DEF ReasonInv, RunDue
<1>6. /\ \A d \in Cases \ {case} : ingested'[d] = ingested[d]
      /\ ~call[g].ok => ingested'[case] = ingested[case]
  BY <1>1, <1>2, ReceiptWritten DEF MarkReasoned
<1>7. PICK phase \in {"reason", "mark_started"} :
         JobIs(g, phase, job[g].todo, Tail(job[g].loaded))
  BY JobSteps DEF Phase
<1> HIDE DEF case
<1>8. Marked(g)' /\ RunDue(g)'
  BY <1>7 DEF Marked, RunDue, JobIs, In
<1>9. ASSUME NEW p \in DirectPairs PROVE Reasoned(p)'
  <2>1. p[1] \in Cases /\ Reasoned(p)
    BY DEF DirectPairs, Pairs, ReasonInv
  <2>2. CASE p[1] = case /\ call[g].ok
    BY <1>4, <1>5, <2>2 DEF Reasoned
  <2>3. CASE p[1] # case \/ ~call[g].ok
    BY <1>4, <1>6, <2>1, <2>3 DEF Reasoned
  <2> QED BY <2>2, <2>3
<1> QED BY <1>8, <1>9, JobReason

\* Every step keeps the receipts true.
LEMMA NextReason ==
    OneIngester /\ IngestTypes /\ LockInv /\ WholeInv /\ RunsInv /\ ReasonInv /\ [Next]_vars
    => ReasonInv'
<1> SUFFICES ASSUME OneIngester, IngestTypes, LockInv, WholeInv, RunsInv, ReasonInv, [Next]_vars,
                    Calm'
             PROVE  ReasonInv'
  BY DEF ReasonInv
<1>0. PipelineTypeOK /\ Ingesters \subseteq Callers
  BY IngestBounds DEF IngestTypes, TypeOK
<1>c. Calm /\ ~Outage
  BY <1>0, CalmBefore
<1>d. DirectPairs' = DirectPairs /\ \A p \in DirectPairs : p[1] \in Cases
  BY DEF DirectPairs, Pairs
\* no call is in a new stage, and no ingest at a new receipt
<1>s. ASSUME UNCHANGED <<state, loads, ingested>>,
             \A c \in Callers : call'[c] = call[c] \/ call'[c].pc \notin Reading,
             \A g \in Ingesters : \/ job'[g] = job[g] /\ call'[g] = call[g]
                                  \/ job'[g].phase \in {"idle", "mark_started"}
      PROVE  ReasonInv'
  <2>1. \A p \in DirectPairs : FreshOf(p, p[1]) => FreshOf(p, p[1])'
    BY <1>s, FreshStays
  <2>2. \A p \in DirectPairs : Reasoned(p)'
    BY <1>s, <1>c, <2>1 DEF ReasonInv, Reasoned
  <2>3. ASSUME NEW g \in Ingesters PROVE Marked(g)' /\ RunDue(g)'
    <3>1. CASE job'[g] = job[g] /\ call'[g] = call[g]
      <4>1. Marked(g) /\ RunDue(g)
        BY <1>c DEF ReasonInv
      <4>2. \A p \in DirectPairs : Comes(g, p, p[1]) => Comes(g, p, p[1])'
        BY <1>s, <3>1 DEF Comes
      <4> QED BY <1>s, <1>d, <2>1, <3>1, <4>1, <4>2 DEF Marked, RunDue, Good, In, Loading
    <3>2. CASE job'[g].phase \in {"idle", "mark_started"}
      BY <3>2 DEF Marked, RunDue, In
    <3> QED BY <1>s, <3>1, <3>2
  <2> QED BY <1>d, <2>2, <2>3 DEF ReasonInv
<1>1. ASSUME NEW c \in Requests, NEW case \in Cases, NEW force \in BOOLEAN, Ask(c, case, force), Ours
      PROVE  ReasonInv'
  <2>1. Population[case] \in Seq(Subjects) /\ c \in Callers \ Ingesters
    BY SubjectLists DEF Requests
  <2>2. call'[c].pc = "lock" /\ \A e \in Callers \ {c} : call'[e] = call[e]
    BY <1>0, <1>1, <2>1, BeginTyped DEF Ask
  <2> QED BY <1>0, <1>1, <1>s, <2>1, <2>2 DEF Ask, Ours, Reading
<1>2. ASSUME NEW g \in Ingesters, NEW batch \in Batches, Ingest(g, batch) PROVE ReasonInv'
  <2>1. /\ job'[g].phase = "mark_started" /\ \A h \in Ingesters \ {g} : job'[h] = job[h]
        /\ UNCHANGED <<call, state, loads, ingested>>
    BY <1>2 DEF Ingest, Graph, IngestTypes, TypeOK
  <2> QED BY <1>s, <2>1
<1>3. ASSUME NEW c \in Callers, CallStep(c) PROVE ReasonInv'
  <2>1. CASE Advance(c) /\ Ours
    BY <1>0, <1>c, <2>1, AdvanceGoes, AdvanceReason
  <2>2. CASE c \in Requests /\ Return(c) /\ Ours
    <3>1. call'[c] = Idle /\ \A e \in Callers \ {c} : call'[e] = call[e]
      BY <1>0, <2>2 DEF Return, PipelineTypeOK
    <3>2. call'[c].pc \notin Reading /\ c \notin Ingesters
      BY <2>2, <3>1 DEF Idle, Reading, Requests
    <3> QED BY <1>0, <1>s, <2>2, <3>1, <3>2 DEF Return, Env, Ours
  <2>3. CASE c \in Ingesters /\ Report(c)
    <3>1. job'[c] = NoJob /\ \A h \in Ingesters \ {c} : job'[h] = job[h]
      BY <2>3 DEF Report, IngestTypes, TypeOK
    <3>2. UNCHANGED <<call, state, loads, ingested>>
      BY <2>3 DEF Report, Graph
    <3> QED BY <1>s, <3>1, <3>2 DEF NoJob
  <2>4. CASE c \in Ingesters /\ IngestStep(c) /\ ~Report(c)
    BY <1>c, <2>4, LoadReason, ReasonReason, MarkReason DEF IngestStep
  <2> QED BY <1>3, <2>1, <2>2, <2>3, <2>4 DEF CallStep, IngestStep
<1>4. CASE Recover /\ Ours
  BY <1>4, <1>s DEF Recover, Ours
<1>5. ASSUME NEW w \in Workers, WorkerDies(w) PROVE ReasonInv'
  <2>1. /\ UNCHANGED <<state, loads, ingested>>
        /\ \A c \in Callers : call'[c] = IF WorkerOf[c] = w THEN Idle ELSE call[c]
        /\ \A g \in Ingesters : job'[g] = IF WorkerOf[g] = w THEN NoJob ELSE job[g]
    BY <1>5 DEF WorkerDies, Crash
  <2>2. \A c \in Callers : call'[c] = call[c] \/ call'[c].pc \notin Reading
    BY <2>1 DEF Idle, Reading
  <2>3. \A g \in Ingesters : \/ job'[g] = job[g] /\ call'[g] = call[g]
                             \/ job'[g].phase \in {"idle", "mark_started"}
    BY <1>0, <2>1 DEF NoJob
  <2> QED BY <1>s, <2>1, <2>2, <2>3
<1>6. CASE UNCHANGED vars
  BY <1>6, <1>s DEF vars, pipeline
<1> QED BY <1>c, <1>1, <1>2, <1>3, <1>4, <1>5, <1>6 DEF Next

\* With one ingest at a time, beside any number of requests, a case marked reasoned has been
\* reasoned over for every one of its subjects since it was last loaded, whatever stage, load,
\* process or call failed (mark_reasoned). With two the receipt of one follows the other's load.
THEOREM ReasonedCasesAreRun ==
    ASSUME OneIngester
    PROVE  Spec => []ReasonedMeansRun
<1>1. Init => ReasonInv
  BY DEF Init, PipelineInit, ReasonInv, Marked, RunDue, Reasoned, In, NoJob, DirectPairs, Pairs
<1>2. ReasonInv => ReasonedMeansRun
  BY DEF ReasonInv, Reasoned, ReasonedMeansRun, FreshOf
<1>3. IngestTypes /\ LockInv /\ WholeInv /\ RunsInv /\ ReasonInv /\ [Next]_vars => ReasonInv'
  BY NextReason
<1> QED BY InitTypes, NextTyped, NextLocked, NextWhole, NextRuns, InitOwed, <1>1, <1>2, <1>3, PTL
   DEF Spec
=============================================================================
