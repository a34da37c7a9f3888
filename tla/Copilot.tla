------------------------------ MODULE Copilot ------------------------------
(***************************************************************************)
(* The transcript of one case's Copilot (api/services/copilot_service.py,  *)
(* core/case_store.py, core/conversation_repository.py) and the agent loop *)
(* that answers a question (agent_service/agent_runner.py). The transcript *)
(* is kept twice: in PostgreSQL, one row a message and the last Window of  *)
(* them, and in the memory of each worker process, which a worker reads    *)
(* first and fills from PostgreSQL once. Requests run in threads of the    *)
(* workers; PostgreSQL may be away and a worker may be restarted between   *)
(* any two of their steps.                                                 *)
(***************************************************************************)
EXTENDS Integers, Sequences, FiniteSets, SequencesExt

CONSTANTS
    Workers,        \* the server's processes
    NRequests,      \* the requests of a behaviour, in the order they come
    Window,         \* CONVERSATION_HISTORY_MAX_TURNS
    MaxTurns,       \* BSI_MAX_TURNS: the answers of the model a run may take
    MaxFaults       \* outages, failures, restarts and blank texts of a behaviour

Requests == 1..NRequests

\* an exchange fits the window
ASSUME Sizes == {NRequests, MaxFaults} \subseteq Nat /\ Window \in Nat \ {0, 1} /\ MaxTurns \in Nat \ {0}

VARIABLES
    rows,           \* conversation_history
    memory,         \* COPILOT_HISTORY_STORE of each worker
    request,        \* [Requests -> the request's thread]
    faults          \* how many faults may still happen

vars == <<rows, memory, request, faults>>

\* a message: who says it, in which exchange, and what. A request of the model is
\* answered in words of its own, with those of an earlier exchange, or with nothing.
\* Exchange 0 is older than the behaviour
Exchanges == 0..NRequests
Messages == [role : {"user", "assistant"}, of : Exchanges, text : {"own", "earlier", "blank"}]
Question(q, text) == [role |-> "user", of |-> q, text |-> text]
Answer(q, text) == [role |-> "assistant", of |-> q, text |-> text]
Exchange0 == <<Question(0, "own"), Answer(0, "own")>>

Rows == [index : Nat, message : Messages]

Cold == [warm |-> FALSE, messages |-> <<>>]
Holding(messages) == [warm |-> TRUE, messages |-> messages]
Memories == [warm : BOOLEAN, messages : Seq(Messages)]

Phases == {"idle", "history", "rows", "seed", "agent", "read", "insert", "commit",
           "memory", "remember", "done", "failed", "lost"}
Threads == [phase : Phases, kind : {"post", "get"}, worker : Workers,
            asks : {"own", "blank"},         \* req.question
            seed : {<<>>, Exchange0},        \* req.conversation_history
            history : Seq(Messages),         \* what was resolved, then memory's as last read
            turn : 0..(MaxTurns - 1),        \* turns of the loop so far
            said : {"own", "earlier", "blank"},   \* what extract_agent_summary would return
            saves : {"user", "assistant"},   \* the message being appended
            index : Nat,                     \* the turn_index it will have
            passed : SUBSET Rows]            \* the rows its DELETE has found behind the window

\* a thread that has ended
Idle(phase, w) == [phase |-> phase, kind |-> "get", worker |-> w, asks |-> "own", seed |-> <<>>,
                   history |-> <<>>, turn |-> 0, said |-> "blank", saves |-> "user", index |-> 0,
                   passed |-> {}]

Init ==
    /\ rows \in {{}, {[index |-> i - 1, message |-> Exchange0[i]] : i \in 1..2}}
    /\ memory = [w \in Workers |-> Cold]
    /\ request \in {[q \in Requests |-> Idle("idle", w)] : w \in Workers}
    /\ faults = MaxFaults
---------------------------------------------------------------------------
At(q, phase) == request[q].phase = phase
Memory(q) == memory[request[q].worker]
Becomes(q, r) == request' = [request EXCEPT ![q] = r]
Moves(q, phase) == Becomes(q, [request[q] EXCEPT !.phase = phase])
Ends(q, phase) == Becomes(q, Idle(phase, request[q].worker))
Takes(fault) == /\ fault => faults > 0
                /\ faults' = IF fault THEN faults - 1 ELSE faults
Remembers(q, messages) == memory' = [memory EXCEPT ![request[q].worker] = Holding(messages)]

\* validate_conversation_history refuses a transcript that holds a blank message (400)
Valid(messages) == \A i \in DOMAIN messages : messages[i].text # "blank"

\* POST /copilot at a worker: the case's stored sections are resolved first, and a case
\* without any is refused
Ask(q, w, asks, seed, known) ==
    /\ At(q, "idle") /\ \A p \in 1..(q - 1) : ~At(p, "idle")
    /\ Takes(asks = "blank" \/ ~known)
    /\ Becomes(q, IF known THEN [Idle("history", w) EXCEPT !.kind = "post", !.asks = asks, !.seed = seed]
                  ELSE Idle("failed", w))
    /\ UNCHANGED <<rows, memory>>

\* GET /copilot/{case_id}
Fetch(q, w) ==
    /\ At(q, "idle") /\ \A p \in 1..(q - 1) : ~At(p, "idle")
    /\ Becomes(q, Idle("history", w))
    /\ UNCHANGED <<rows, memory, faults>>

\* extract_agent_summary: the last assistant message with text, which is one of the
\* history as long as the run has none
Latest(messages) ==
    IF \E i \in DOMAIN messages : messages[i].role = "assistant" THEN "earlier" ELSE "blank"

\* what a request does with the transcript it has resolved
Resolved(q, messages) ==
    IF ~Valid(messages) THEN Ends(q, "failed")
    ELSE IF request[q].kind = "get" THEN Ends(q, "done")
    ELSE Becomes(q, [request[q] EXCEPT !.phase = "agent", !.history = <<>>, !.said = Latest(messages)])

\* resolve_copilot_history and fetch_copilot_history: the worker's memory first
ReadMemory(q) ==
    /\ At(q, "history")
    /\ IF Memory(q).warm THEN Resolved(q, Memory(q).messages) ELSE Moves(q, "rows")
    /\ UNCHANGED <<rows, memory, faults>>

\* get_recent_turns, ORDER BY turn_index: rows of one index come in any order
Transcripts ==
    {[i \in DOMAIN s |-> s[i].message] :
        s \in {t \in SetToSeqs(rows) : \A i, j \in DOMAIN t : i < j => t[i].index <= t[j].index}}

\* PostgreSQL away: a fetch answers 503, a question is answered without history, which is
\* also how it is when there are no rows yet
ReadRows(q, away) ==
    /\ At(q, "rows") /\ Takes(away)
    /\ IF away /\ request[q].kind = "get" THEN Ends(q, "failed")
       ELSE \E transcript \in IF away THEN {<<>>} ELSE Transcripts :
            LET messages == IF transcript = <<>> THEN request[q].seed ELSE transcript
            IN IF Valid(messages)
               THEN Becomes(q, [request[q] EXCEPT !.phase = "seed", !.history = messages])
               ELSE Ends(q, "failed")
    /\ UNCHANGED <<rows, memory>>

\* and the worker's memory becomes what was read
Seed(q) ==
    /\ At(q, "seed")
    /\ Remembers(q, request[q].history)
    /\ Resolved(q, request[q].history)
    /\ UNCHANGED <<rows, faults>>

\* the loop goes on while the model calls tools, up to its turn limit
GoesOnOnceMore(calls, turn) == calls /\ turn <= MaxTurns      \* not in the code
GoesOn(calls, turn) == calls /\ turn < MaxTurns

\* _run_loop: a turn of the model, with or without text, with or without tool calls; the
\* calls' results, errors included, only lengthen the conversation
Turn(q, speaks, calls) ==
    /\ At(q, "agent")
    /\ LET turn == request[q].turn + 1
           said == IF speaks THEN "own" ELSE request[q].said
       IN /\ Takes(~GoesOn(calls, turn) /\ said # "own")
          /\ Becomes(q, IF GoesOn(calls, turn) THEN [request[q] EXCEPT !.turn = turn, !.said = said]
                        ELSE [request[q] EXCEPT !.phase = "read", !.turn = 0, !.said = said])
    /\ UNCHANGED <<rows, memory>>

\* a tool call answered 401 by AppWorks (401), or the model's service failing (500)
AgentFails(q) ==
    /\ At(q, "agent") /\ Takes(TRUE)
    /\ Ends(q, "failed")
    /\ UNCHANGED <<rows, memory>>

\* the message a thread is appending, and where it goes from there
Appended(q) ==
    LET r == request[q] IN IF r.saves = "user" THEN Question(q, r.asks) ELSE Answer(q, r.said)
AfterAtOnce(r) == IF r.saves = "user" THEN [r EXCEPT !.phase = "insert", !.saves = "assistant"]
                  ELSE [r EXCEPT !.phase = "memory"]     \* not in the code: one index read for both
After(r) == [r EXCEPT !.phase = IF r.saves = "user" THEN "read" ELSE "memory",
                      !.saves = "assistant", !.index = 0, !.passed = {}]

MaxIndex(table) == IF table = {} THEN -1 ELSE Max({r.index : r \in table})

\* append_turn, one transaction whose statements each see what is committed by then: the
\* next index is read; while PostgreSQL is away the message is not kept
ReadIndex(q, away) ==
    /\ At(q, "read") /\ Takes(away)
    /\ Becomes(q, IF away THEN After(request[q])
                  ELSE [request[q] EXCEPT !.phase = "insert", !.index = MaxIndex(rows) + 1])
    /\ UNCHANGED <<rows, memory>>

\* the rows the window has passed
BehindTight(table) == {r \in table : r.index <= MaxIndex(table) - Window + 1}    \* not in the code: one too many
Behind(table) == {r \in table : r.index <= MaxIndex(table) - Window}

\* the message is inserted, and the DELETE finds what is behind the window by now
NewRow(q) == [index |-> request[q].index, message |-> Appended(q)]
Insert(q) ==
    /\ At(q, "insert")
    /\ Becomes(q, [request[q] EXCEPT !.phase = "commit", !.passed = Behind(rows \cup {NewRow(q)})])
    /\ UNCHANGED <<rows, memory, faults>>

\* both are committed; rows committed meanwhile were not seen. A statement that fails rolls
\* everything back
Commit(q, away) ==
    /\ At(q, "commit") /\ Takes(away)
    /\ rows' = IF away THEN rows ELSE (rows \cup {NewRow(q)}) \ request[q].passed
    /\ Becomes(q, After(request[q]))
    /\ UNCHANGED memory

\* store_copilot_turn, once both are in: the worker's memory is read, and refused like any
\* transcript, which ends the request after its exchange was kept
Recall(q) ==
    /\ At(q, "memory")
    /\ IF Valid(Memory(q).messages)
       THEN Becomes(q, [request[q] EXCEPT !.phase = "remember", !.history = Memory(q).messages])
       ELSE Ends(q, "failed")
    /\ UNCHANGED <<rows, memory, faults>>

\* then the exchange goes behind what was read, and the last Window messages stay
LastOf(messages) == SubSeq(messages, IF Len(messages) > Window THEN Len(messages) - Window + 1 ELSE 1,
                           Len(messages))
Remember(q) ==
    /\ At(q, "remember")
    /\ LET r == request[q]
       IN Remembers(q, LastOf(r.history \o <<Question(q, r.asks), Answer(q, r.said)>>))
    /\ Ends(q, "done")
    /\ UNCHANGED <<rows, faults>>

\* a worker is restarted: its memory and its threads are gone
Restart(w) ==
    /\ Takes(TRUE)
    /\ memory' = [memory EXCEPT ![w] = Cold]
    /\ request' = [q \in Requests |->
                     IF request[q].worker = w /\ request[q].phase \notin {"idle", "done", "failed", "lost"}
                     THEN Idle("lost", w) ELSE request[q]]
    /\ UNCHANGED rows

Thread(q) ==
    \/ ReadMemory(q) \/ Seed(q) \/ Insert(q) \/ Recall(q) \/ Remember(q)
    \/ \E away \in BOOLEAN : ReadRows(q, away) \/ ReadIndex(q, away) \/ Commit(q, away)
    \/ \E speaks, calls \in BOOLEAN : Turn(q, speaks, calls)

Next ==
    \/ \E q \in Requests :
          \/ \E w \in Workers :
                \/ Fetch(q, w)
                \/ \E asks \in {"own", "blank"}, seed \in {<<>>, Exchange0}, known \in BOOLEAN :
                      Ask(q, w, asks, seed, known)
          \/ Thread(q) \/ AgentFails(q)
    \/ \E w \in Workers : Restart(w)

Spec == Init /\ [][Next]_vars

---------------------------------------------------------------------------
\* Types; the agent's loop stays within its turns (_run_loop), and every index a thread
\* holds is one a row may have (append_turn).
TypeOK ==
    /\ rows \subseteq Rows
    /\ memory \in [Workers -> Memories]
    /\ request \in [Requests -> Threads]
    /\ faults \in 0..MaxFaults

\* Whatever requests append to it at once, however long one takes between reading its index
\* and committing, and whichever appends are lost, the last Window turn indices of the
\* transcript are all there: none is skipped and none trimmed away (append_turn).
UnbrokenWindow ==
    {i \in 0..MaxIndex(rows) : i > MaxIndex(rows) - Window} \subseteq {r.index : r \in rows}

\* every question whose answer is in a transcript is followed by it there
Ordered(messages) ==
    \A i, j \in DOMAIN messages :
        messages[i].role = "assistant" /\ messages[j].role = "user" /\ messages[i].of = messages[j].of
        => \E k \in DOMAIN messages :
              k > j /\ messages[k].role = "assistant" /\ messages[k].of = messages[j].of

\* No transcript has an answer before the question it answers, whatever ran between the two
\* appends: not that of the rows, nor that of a worker's memory, whichever of the two copies
\* it was filled from and however often an exchange came into it (append_turn twice,
\* store_copilot_turn, resolve_copilot_history).
AnswersFollow ==
    /\ \A question, answer \in rows :
          /\ question.message.role = "user" /\ answer.message.role = "assistant"
          /\ question.message.of = answer.message.of
          => question.index < answer.index
    /\ \A w \in Workers : Ordered(memory[w].messages)

\* "Copilot always answers the question below" (copilot_service.py): no question is refused
\* because of what the transcript holds.
AlwaysAnswers ==
    [][\A q \in Requests :
          request[q].phase \in {"history", "rows", "seed", "memory"} /\ request[q].kind = "post"
          => ~At(q, "failed")']_vars

\* "... so a fetch caller can tell 'no history yet' apart from 'the transcript store is
\* unreachable' instead of receiving an empty list for both" (case_store.py): a fetch that
\* returns no messages found no rows there.
EmptyMeansNone ==
    [][\A q \in Requests :
          At(q, "history") /\ request[q].kind = "get" /\ At(q, "done")' /\ Memory(q).messages = <<>>
          => rows = {}]_vars
=============================================================================
