---------------------------- MODULE CopilotProofs ----------------------------
(***************************************************************************)
(* What is proved of the Copilot's transcript: types, that no turn of the  *)
(* window is skipped or trimmed away, and that answers follow their        *)
(* questions in the rows and in every worker's memory.                     *)
(***************************************************************************)
EXTENDS Copilot, TLAPS, SequenceTheorems, FiniteSetTheorems

\* a table with a row that no other exceeds
Topped(table) == table # {} => \E m \in table : \A r \in table : r.index <= m.index

\* The maximum of the indices is that of any row no other exceeds.
LEMMA MaxIndexIs ==
    ASSUME NEW table, table \subseteq Rows, NEW m \in table, \A r \in table : r.index <= m.index
    PROVE  MaxIndex(table) = m.index
<1> DEFINE indices == {r.index : r \in table}
<1>1. indices \subseteq Nat /\ m.index \in indices /\ \A i \in indices : m.index >= i
  BY DEF Rows
<1>2. \A i \in indices : (\A j \in indices : i >= j) => i = m.index
  BY <1>1
<1>3. Max(indices) = m.index
  <2> HIDE DEF indices
  <2> QED BY <1>1, <1>2 DEF Max
<1> QED BY <1>3 DEF MaxIndex

\* What the last index of a table bounds.
LEMMA LastIndex ==
    ASSUME NEW table, table \subseteq Rows, Topped(table)
    PROVE  /\ MaxIndex(table) \in Int /\ MaxIndex(table) >= -1
           /\ \A r \in table : r.index \in Nat /\ r.index <= MaxIndex(table)
           /\ table # {} => \E m \in table : m.index = MaxIndex(table)
<1>1. CASE table = {}
  BY <1>1 DEF MaxIndex
<1>2. CASE table # {}
  <2>1. PICK m \in table : \A r \in table : r.index <= m.index
    BY <1>2 DEF Topped
  <2>2. MaxIndex(table) = m.index
    BY <2>1, MaxIndexIs
  <2> QED BY <2>1, <2>2 DEF Rows
<1> QED BY <1>1, <1>2

\* One row more, some rows less, none of them the last.
LEMMA LastKept ==
    ASSUME NEW table, table \subseteq Rows, Topped(table), NEW n \in Rows, NEW gone,
           \A r \in gone \cap Rows : r.index < MaxIndex(table) \/ r.index < n.index
    PROVE  LET later == (table \cup {n}) \ gone
           IN  /\ Topped(later)
               /\ MaxIndex(later) = IF n.index > MaxIndex(table) THEN n.index ELSE MaxIndex(table)
<1> DEFINE later == (table \cup {n}) \ gone
<1>1. n.index \in Nat /\ later \subseteq Rows
  BY DEF Rows
<1>2. \E m \in later : /\ m.index = IF n.index > MaxIndex(table) THEN n.index ELSE MaxIndex(table)
                       /\ \A r \in later : r.index <= m.index
  <2>1. CASE n.index > MaxIndex(table)
    <3>1. n \in later
      BY <1>1, <2>1, LastIndex
    <3> QED BY <1>1, <2>1, <3>1, LastIndex
  <2>2. CASE ~(n.index > MaxIndex(table))
    <3>1. table # {}
      BY <1>1, <2>2 DEF MaxIndex
    <3>2. PICK m \in table : m.index = MaxIndex(table)
      BY <3>1, LastIndex
    <3>3. m \in later
      BY <1>1, <2>2, <3>2, LastIndex
    <3> QED BY <1>1, <2>2, <3>2, <3>3, LastIndex
  <2> QED BY <2>1, <2>2
<1>3. PICK m \in later : /\ m.index = IF n.index > MaxIndex(table) THEN n.index ELSE MaxIndex(table)
                         /\ \A r \in later : r.index <= m.index
  BY <1>2
<1> HIDE DEF later
<1>4. MaxIndex(later) = m.index /\ Topped(later)
  BY <1>1, <1>3, MaxIndexIs DEF Topped
<1> QED BY <1>3, <1>4 DEF later
---------------------------------------------------------------------------
(* Types.                                                                  *)

\* PostgreSQL holds finitely many rows, with a last index, and no thread is past it by more
\* than one; what a DELETE has found is Window behind the last row or the thread's own.
RowsInv ==
    /\ IsFiniteSet(rows) /\ Topped(rows)
    /\ \A q \in Requests :
          /\ request[q].phase \in {"insert", "commit"} => request[q].index <= MaxIndex(rows) + 1
          /\ request[q].phase = "commit" => \A r \in request[q].passed :
                 r.index + Window <= MaxIndex(rows) \/ r.index + Window <= request[q].index

\* Every thread that ends is a thread.
LEMMA IdleTyped ==
    ASSUME NEW phase \in Phases, NEW w \in Workers PROVE Idle(phase, w) \in Threads
<1>1. <<>> \in Seq(Messages) /\ 0 \in 0..(MaxTurns - 1)
  BY Sizes
<1> QED BY <1>1 DEF Idle, Threads

\* What is said before the behaviour are messages.
LEMMA Exchange0Typed ==
    /\ Exchange0 \in Seq(Messages) /\ Len(Exchange0) = 2 /\ DOMAIN Exchange0 = 1..2
    /\ Exchange0[1] = Question(0, "own") /\ Exchange0[2] = Answer(0, "own")
    /\ Question(0, "own") \in Messages /\ Answer(0, "own") \in Messages
<1>1. 0 \in Exchanges
  BY Sizes DEF Exchanges
<1>2. Question(0, "own") \in Messages /\ Answer(0, "own") \in Messages
  BY <1>1 DEF Question, Answer, Messages
<1> QED BY <1>2 DEF Exchange0

\* The rows in any order of their indices are a transcript.
LEMMA TranscriptsTyped ==
    ASSUME rows \subseteq Rows, IsFiniteSet(rows), NEW t \in Transcripts
    PROVE  /\ t \in Seq(Messages)
           /\ \A i \in DOMAIN t : \E r \in rows : t[i] = r.message
           /\ \A i, j \in DOMAIN t : \E r, s \in rows :
                 t[i] = r.message /\ t[j] = s.message /\ (i < j => r.index <= s.index)
<1>1. PICK s \in SetToSeqs(rows) : /\ \A i, j \in DOMAIN s : i < j => s[i].index <= s[j].index
                                   /\ t = [i \in DOMAIN s |-> s[i].message]
  BY DEF Transcripts
<1>2. Cardinality(rows) \in Nat
  BY FS_CardinalityType
<1>3. s \in [1..Cardinality(rows) -> rows]
  BY DEF SetToSeqs
<1>4. t \in [1..Cardinality(rows) -> Messages]
  BY <1>1, <1>3 DEF Rows
<1>5. t \in Seq(Messages)
  BY <1>2, <1>4
<1> QED BY <1>1, <1>3, <1>4, <1>5

\* The rows of a commit: the last index only grows, and there are still finitely many.
LEMMA CommitKeeps ==
    ASSUME TypeOK, RowsInv, NEW q \in Requests, request[q].phase = "commit"
    PROVE  LET later == (rows \cup {NewRow(q)}) \ request[q].passed
           IN  /\ NewRow(q) \in Rows /\ NewRow(q).index = request[q].index
               /\ later \subseteq Rows /\ IsFiniteSet(later) /\ Topped(later)
               /\ MaxIndex(rows) \in Int /\ MaxIndex(later) >= MaxIndex(rows)
               /\ MaxIndex(later) = IF request[q].index > MaxIndex(rows) THEN request[q].index ELSE MaxIndex(rows)
<1> DEFINE n == NewRow(q)
           gone == request[q].passed
           later == (rows \cup {n}) \ gone
<1>1. request[q] \in Threads /\ q \in Exchanges
  BY DEF TypeOK, Requests, Exchanges
<1>2. n \in Rows /\ n.index = request[q].index
  BY <1>1 DEF NewRow, Appended, Question, Answer, Messages, Rows, Threads
<1>3. gone \subseteq Rows /\ Window \in Nat \ {0, 1}
  BY <1>1, Sizes DEF Threads
<1>4. rows \subseteq Rows /\ Topped(rows) /\ IsFiniteSet(rows)
  BY DEF TypeOK, RowsInv
<1>5. IsFiniteSet(later)
  <2>1. IsFiniteSet(rows \cup {n})
    BY <1>4, FS_AddElement
  <2> HIDE DEF n, gone
  <2> QED BY <2>1, FS_Difference
<1>6. \A r \in gone \cap Rows : r.index < MaxIndex(rows) \/ r.index < n.index
  BY <1>2, <1>3, <1>4, LastIndex DEF RowsInv, Rows
<1>7. later \subseteq Rows
  BY <1>2, <1>4
<1> HIDE DEF n, gone
<1>8. Topped(later) /\ MaxIndex(later) = IF n.index > MaxIndex(rows) THEN n.index ELSE MaxIndex(rows)
  BY <1>2, <1>4, <1>6, LastKept
<1>9. MaxIndex(rows) \in Int /\ n.index \in Nat
  BY <1>2, <1>4, LastIndex DEF Rows
<1> QED BY <1>2, <1>5, <1>7, <1>8, <1>9 DEF n, gone

\* What an INSERT's DELETE finds.
LEMMA BehindIs ==
    ASSUME TypeOK, RowsInv, NEW q \in Requests, request[q].phase = "insert"
    PROVE  /\ NewRow(q) \in Rows /\ Behind(rows \cup {NewRow(q)}) \in SUBSET Rows
           /\ \A r \in Behind(rows \cup {NewRow(q)}) :
                 r.index + Window <= MaxIndex(rows) \/ r.index + Window <= request[q].index
<1> DEFINE n == NewRow(q)
<1>1. request[q] \in Threads /\ q \in Exchanges
  BY DEF TypeOK, Requests, Exchanges
<1>2. n \in Rows /\ n.index = request[q].index
  BY <1>1 DEF NewRow, Appended, Question, Answer, Messages, Rows, Threads
<1>3. rows \subseteq Rows /\ Topped(rows) /\ Window \in Nat
  BY Sizes DEF TypeOK, RowsInv
<1> HIDE DEF n
<1>4. MaxIndex(rows \cup {n}) = IF n.index > MaxIndex(rows) THEN n.index ELSE MaxIndex(rows)
  <2>1. (rows \cup {n}) \ {} = rows \cup {n} /\ \A r \in {} \cap Rows : r.index < MaxIndex(rows) \/ r.index < n.index
    OBVIOUS
  <2>2. MaxIndex((rows \cup {n}) \ {}) = IF n.index > MaxIndex(rows) THEN n.index ELSE MaxIndex(rows)
    <3>1. \A r \in {} \cap Rows : r.index < MaxIndex(rows) \/ r.index < n.index
      OBVIOUS
    <3> QED BY <1>2, <1>3, <3>1, LastKept
  <2> QED BY <2>1, <2>2
<1>5. Behind(rows \cup {n}) \subseteq Rows
  BY <1>2, <1>3 DEF Behind
<1>6. MaxIndex(rows) \in Int /\ n.index \in Nat
  BY <1>2, <1>3, LastIndex DEF Rows
<1>7. ASSUME NEW r \in Behind(rows \cup {n})
      PROVE  r.index + Window <= MaxIndex(rows) \/ r.index + Window <= n.index
  <2>1. r.index \in Nat /\ r.index <= MaxIndex(rows \cup {n}) - Window
    BY <1>5, <1>7 DEF Behind, Rows
  <2> QED BY <1>3, <1>4, <1>6, <2>1
<1> QED BY <1>2, <1>5, <1>7 DEF n

\* A thread that takes a step is a thread, and the others are as they were.
LEMMA StepTyped ==
    ASSUME TypeOK, RowsInv, NEW q \in Requests, Thread(q) \/ AgentFails(q)
    PROVE  request' \in [Requests -> Threads] /\ \A p \in Requests : p # q => request'[p] = request[p]
<1> DEFINE r == request[q]
<1>1. /\ r \in Threads /\ request \in [Requests -> Threads] /\ rows \subseteq Rows
      /\ memory[r.worker] \in Memories /\ 0 \in 0..(MaxTurns - 1) /\ <<>> \in Seq(Messages)
  BY Sizes DEF TypeOK, Threads
<1> SUFFICES ASSUME NEW t \in Threads, request' = [request EXCEPT ![q] = t]
             PROVE  request' \in [Requests -> Threads] /\ \A p \in Requests : p # q => request'[p] = request[p]
  <2>1. \A phase \in Phases : Idle(phase, r.worker) \in Threads
    BY <1>1, IdleTyped DEF Threads
  <2>2. \A m \in Seq(Messages) : \E t \in Threads : Resolved(q, m) => request' = [request EXCEPT ![q] = t]
    <3> TAKE m \in Seq(Messages)
    <3>1. Idle("failed", r.worker) \in Threads /\ Idle("done", r.worker) \in Threads
      BY <2>1 DEF Phases
    <3>2. [r EXCEPT !.phase = "agent", !.history = <<>>, !.said = Latest(m)] \in Threads
      BY <1>1 DEF Threads, Phases, Latest
    <3> QED BY <3>1, <3>2 DEF Resolved, Ends, Becomes
  <2>3. CASE ReadMemory(q)
    <3>1. [r EXCEPT !.phase = "rows"] \in Threads
      BY <1>1 DEF Threads, Phases
    <3>2. Memory(q).messages \in Seq(Messages)
      BY <1>1 DEF Memory, Memories
    <3> QED BY <2>2, <2>3, <3>1, <3>2 DEF ReadMemory, Moves, Becomes
  <2>4. ASSUME NEW away \in BOOLEAN, ReadRows(q, away)
        PROVE  \E t \in Threads : request' = [request EXCEPT ![q] = t]
    <3>1. Idle("failed", r.worker) \in Threads
      BY <2>1 DEF Phases
    <3>2. CASE away /\ r.kind = "get"
      BY <2>4, <3>1, <3>2 DEF ReadRows, Ends, Becomes
    <3>3. CASE ~(away /\ r.kind = "get")
      <4>1. PICK transcript \in IF away THEN {<<>>} ELSE Transcripts :
               LET messages == IF transcript = <<>> THEN r.seed ELSE transcript
               IN IF Valid(messages)
                  THEN Becomes(q, [r EXCEPT !.phase = "seed", !.history = messages])
                  ELSE Ends(q, "failed")
        BY <2>4, <3>3 DEF ReadRows
      <4>2. transcript \in Seq(Messages)
        BY <1>1, <4>1, TranscriptsTyped DEF RowsInv
      <4>3. r.seed \in Seq(Messages)
        BY <1>1, Exchange0Typed DEF Threads
      <4> DEFINE messages == IF transcript = <<>> THEN r.seed ELSE transcript
      <4>4. messages \in Seq(Messages)
        BY <4>2, <4>3
      <4> HIDE DEF messages
      <4>5. [r EXCEPT !.phase = "seed", !.history = messages] \in Threads
        BY <1>1, <4>4 DEF Threads, Phases
      <4> QED BY <3>1, <4>1, <4>5 DEF messages, Ends, Becomes
    <3> QED BY <3>2, <3>3
  <2>5. CASE Seed(q)
    <3>1. r.history \in Seq(Messages)
      BY <1>1 DEF Threads
    <3> QED BY <2>2, <2>5, <3>1 DEF Seed
  <2>6. CASE Insert(q)
    <3>1. Behind(rows \cup {NewRow(q)}) \in SUBSET Rows
      BY <2>6, BehindIs DEF Insert, At
    <3>2. [r EXCEPT !.phase = "commit", !.passed = Behind(rows \cup {NewRow(q)})] \in Threads
      BY <1>1, <3>1 DEF Threads, Phases
    <3> QED BY <2>6, <3>2 DEF Insert, Becomes
  <2>7. CASE Recall(q)
    <3>1. Memory(q).messages \in Seq(Messages)
      BY <1>1 DEF Memory, Memories
    <3>2. [r EXCEPT !.phase = "remember", !.history = Memory(q).messages] \in Threads
      BY <1>1, <3>1 DEF Threads, Phases
    <3>3. Idle("failed", r.worker) \in Threads
      BY <2>1 DEF Phases
    <3> QED BY <2>7, <3>2, <3>3 DEF Recall, Becomes, Ends
  <2>8. CASE Remember(q) \/ AgentFails(q)
    <3>1. Idle("failed", r.worker) \in Threads /\ Idle("done", r.worker) \in Threads
      BY <2>1 DEF Phases
    <3> QED BY <2>8, <3>1 DEF Remember, AgentFails, Ends, Becomes
  <2>9. After(r) \in Threads
    BY <1>1 DEF After, Threads, Phases
  <2>10. ASSUME NEW away \in BOOLEAN, ReadIndex(q, away)
         PROVE  \E t \in Threads : request' = [request EXCEPT ![q] = t]
    <3>1. MaxIndex(rows) + 1 \in Nat
      BY <1>1, LastIndex DEF RowsInv
    <3>2. [r EXCEPT !.phase = "insert", !.index = MaxIndex(rows) + 1] \in Threads
      BY <1>1, <3>1 DEF Threads, Phases
    <3> QED BY <2>9, <2>10, <3>2 DEF ReadIndex, Becomes
  <2>11. ASSUME NEW away \in BOOLEAN, Commit(q, away)
         PROVE  \E t \in Threads : request' = [request EXCEPT ![q] = t]
    BY <2>9, <2>11 DEF Commit, Becomes
  <2>12. ASSUME NEW speaks \in BOOLEAN, NEW calls \in BOOLEAN, Turn(q, speaks, calls)
         PROVE  \E t \in Threads : request' = [request EXCEPT ![q] = t]
    <3> DEFINE turn == r.turn + 1
               said == IF speaks THEN "own" ELSE r.said
    <3>1. said \in {"own", "earlier", "blank"} /\ r.turn \in 0..(MaxTurns - 1)
      BY <1>1 DEF Threads
    <3>2. GoesOn(calls, turn) => turn \in 0..(MaxTurns - 1)
      BY <3>1, Sizes DEF GoesOn
    <3>3. request' = [request EXCEPT ![q] = IF GoesOn(calls, turn) THEN [r EXCEPT !.turn = turn, !.said = said]
                                           ELSE [r EXCEPT !.phase = "read", !.turn = 0, !.said = said]]
      BY <2>12 DEF Turn, Becomes
    <3> HIDE DEF turn, said
    <3>4. GoesOn(calls, turn) => [r EXCEPT !.turn = turn, !.said = said] \in Threads
      BY <1>1, <3>1, <3>2 DEF Threads
    <3>5. [r EXCEPT !.phase = "read", !.turn = 0, !.said = said] \in Threads
      BY <1>1, <3>1 DEF Threads, Phases
    <3> QED BY <3>3, <3>4, <3>5
  <2> QED BY <2>3, <2>4, <2>5, <2>6, <2>7, <2>8, <2>10, <2>11, <2>12 DEF Thread
<1> QED BY <1>1

\* No step lowers the last index.
LEMMA LastGrows ==
    TypeOK /\ RowsInv /\ [Next]_vars =>
        /\ MaxIndex(rows) \in Int /\ MaxIndex(rows') \in Int /\ MaxIndex(rows') >= MaxIndex(rows)
        /\ rows' \subseteq Rows /\ IsFiniteSet(rows') /\ Topped(rows')
<1> SUFFICES ASSUME TypeOK, RowsInv, [Next]_vars
             PROVE  /\ MaxIndex(rows) \in Int /\ MaxIndex(rows') \in Int /\ MaxIndex(rows') >= MaxIndex(rows)
                    /\ rows' \subseteq Rows /\ IsFiniteSet(rows') /\ Topped(rows')
  OBVIOUS
<1>1. rows \subseteq Rows /\ Topped(rows) /\ IsFiniteSet(rows) /\ MaxIndex(rows) \in Int
  BY LastIndex DEF TypeOK, RowsInv
<1>2. CASE rows' = rows
  BY <1>1, <1>2
<1>3. ASSUME NEW q \in Requests, request[q].phase = "commit", rows' = (rows \cup {NewRow(q)}) \ request[q].passed
      PROVE  /\ MaxIndex(rows') \in Int /\ MaxIndex(rows') >= MaxIndex(rows)
             /\ rows' \subseteq Rows /\ IsFiniteSet(rows') /\ Topped(rows')
  <2>1. rows' \subseteq Rows /\ IsFiniteSet(rows') /\ Topped(rows') /\ MaxIndex(rows') >= MaxIndex(rows)
    BY <1>3, CommitKeeps
  <2>2. MaxIndex(rows') \in Int
    BY <2>1, LastIndex
  <2> QED BY <2>1, <2>2
<1>4. rows' = rows \/ \E q \in Requests : request[q].phase = "commit" /\ rows' = (rows \cup {NewRow(q)}) \ request[q].passed
  BY ZenonT(30) DEF Next, vars, Fetch, Ask, Thread, ReadMemory, Seed, Insert, Recall, Remember, ReadRows, ReadIndex,
         Commit, At, Turn, AgentFails, Restart
<1> QED BY <1>1, <1>2, <1>3, <1>4

\* The steps that are not a thread's own: a request comes, or a worker is restarted. The thread
\* is new or has ended, or is as it was.
LEMMA OthersTyped ==
    ASSUME TypeOK
    PROVE  /\ \A q \in Requests, w \in Workers : Fetch(q, w) =>
                 /\ request' = [request EXCEPT ![q] = Idle("history", w)]
                 /\ request' \in [Requests -> Threads] /\ UNCHANGED <<rows, memory, faults>>
           /\ \A q \in Requests, w \in Workers, asks \in {"own", "blank"}, seed \in {<<>>, Exchange0}, known \in BOOLEAN :
                 Ask(q, w, asks, seed, known) =>
                     /\ request' \in [Requests -> Threads] /\ UNCHANGED <<rows, memory>>
                     /\ request'[q].phase \in {"history", "failed"} /\ request'[q].history = <<>>
                     /\ request[q].phase = "idle" /\ \A p \in Requests : p # q => request'[p] = request[p]
           /\ \A w \in Workers : Restart(w) =>
                 /\ request' \in [Requests -> Threads] /\ UNCHANGED rows
                 /\ \A q \in Requests : \/ request'[q] = request[q]
                                        \/ request'[q].phase = "lost" /\ request'[q].history = <<>>
<1>1. \A w \in Workers : /\ Idle("history", w) \in Threads /\ Idle("failed", w) \in Threads
                         /\ Idle("lost", w) \in Threads
  BY IdleTyped DEF Phases
<1>2. ASSUME NEW q \in Requests, NEW w \in Workers, Fetch(q, w)
      PROVE  /\ request' = [request EXCEPT ![q] = Idle("history", w)]
             /\ request' \in [Requests -> Threads] /\ UNCHANGED <<rows, memory, faults>>
  BY <1>1, <1>2 DEF Fetch, Becomes, TypeOK
<1>3. ASSUME NEW q \in Requests, NEW w \in Workers, NEW asks \in {"own", "blank"},
             NEW seed \in {<<>>, Exchange0}, NEW known \in BOOLEAN, Ask(q, w, asks, seed, known)
      PROVE  /\ request' \in [Requests -> Threads] /\ UNCHANGED <<rows, memory>>
             /\ request'[q].phase \in {"history", "failed"} /\ request'[q].history = <<>>
             /\ request[q].phase = "idle" /\ \A p \in Requests : p # q => request'[p] = request[p]
  <2> DEFINE asking == [Idle("history", w) EXCEPT !.kind = "post", !.asks = asks, !.seed = seed]
  <2>1. asking \in Threads /\ asking.phase = "history" /\ asking.history = <<>>
    <3>1. Idle("history", w) \in Threads /\ Idle("history", w).phase = "history" /\ Idle("history", w).history = <<>>
      BY <1>1 DEF Idle
    <3> QED BY <3>1 DEF Threads
  <2>2. Idle("failed", w).phase = "failed" /\ Idle("failed", w).history = <<>>
    BY DEF Idle
  <2>3. request' = [request EXCEPT ![q] = IF known THEN asking ELSE Idle("failed", w)]
    BY <1>3 DEF Ask, Becomes
  <2> HIDE DEF asking
  <2> QED BY <1>1, <1>3, <2>1, <2>2, <2>3 DEF Ask, At, TypeOK
<1>4. ASSUME NEW w \in Workers, Restart(w)
      PROVE  /\ request' \in [Requests -> Threads] /\ UNCHANGED rows
             /\ \A q \in Requests : \/ request'[q] = request[q]
                                    \/ request'[q].phase = "lost" /\ request'[q].history = <<>>
  <2>1. Idle("lost", w).phase = "lost" /\ Idle("lost", w).history = <<>>
    BY DEF Idle
  <2> QED BY <1>1, <1>4, <2>1 DEF Restart, TypeOK
<1> QED BY <1>2, <1>3, <1>4

\* The last messages of a transcript are a transcript, a shift of its end.
LEMMA LastOfIs ==
    ASSUME NEW messages \in Seq(Messages)
    PROVE  /\ LastOf(messages) \in Seq(Messages)
           /\ \E n \in Nat : /\ Len(messages) = Len(LastOf(messages)) + n
                             /\ \A i \in 1..Len(LastOf(messages)) : LastOf(messages)[i] = messages[i + n]
<1> DEFINE len == Len(messages)
           m == IF len > Window THEN len - Window + 1 ELSE 1
<1>1. len \in Nat /\ Window \in Nat \ {0, 1} /\ m \in Int /\ m >= 1 /\ \A i \in m..len : messages[i] \in Messages
  BY Sizes
<1>2. /\ SubSeq(messages, m, len) \in Seq(Messages)
      /\ Len(SubSeq(messages, m, len)) = IF m <= len THEN len - m + 1 ELSE 0
      /\ \A i \in 1..(len - m + 1) : SubSeq(messages, m, len)[i] = messages[m + i - 1]
  <2> HIDE DEF len, m
  <2> QED BY <1>1, SubSeqProperties
<1>3. LastOf(messages) = SubSeq(messages, m, len)
  BY DEF LastOf
<1>4. m - 1 \in Nat /\ m <= len + 1
  BY <1>1
<1>5. /\ len = Len(LastOf(messages)) + (m - 1)
      /\ \A i \in 1..Len(LastOf(messages)) : LastOf(messages)[i] = messages[i + (m - 1)]
  <2> HIDE DEF len, m
  <2>1. Len(LastOf(messages)) = len - m + 1
    BY <1>1, <1>2, <1>3, <1>4
  <2>2. ASSUME NEW i \in 1..Len(LastOf(messages)) PROVE LastOf(messages)[i] = messages[i + (m - 1)]
    <3>1. i \in 1..(len - m + 1) /\ m + i - 1 = i + (m - 1)
      BY <1>1, <2>1, <2>2
    <3> QED BY <1>2, <1>3, <3>1
  <2> QED BY <1>1, <1>4, <2>1, <2>2
<1> QED BY <1>2, <1>3, <1>4, <1>5

\* What a worker's memory becomes.
LEMMA MemoryTyped ==
    ASSUME TypeOK, NEW q \in Requests
    PROVE  /\ request[q].worker \in Workers
           /\ Question(q, request[q].asks) \in Messages /\ Answer(q, request[q].said) \in Messages
           /\ Seed(q) => /\ memory' = [memory EXCEPT ![request[q].worker] = Holding(request[q].history)]
                         /\ Holding(request[q].history) \in Memories
           /\ Remember(q) =>
                LET kept == LastOf(request[q].history \o
                                   <<Question(q, request[q].asks), Answer(q, request[q].said)>>)
                IN  /\ memory' = [memory EXCEPT ![request[q].worker] = Holding(kept)]
                    /\ Holding(kept) \in Memories
<1> DEFINE r == request[q]
           added == <<Question(q, r.asks), Answer(q, r.said)>>
<1>1. r \in Threads /\ q \in Exchanges
  BY DEF TypeOK, Requests, Exchanges
<1>2. r.worker \in Workers /\ Question(q, r.asks) \in Messages /\ Answer(q, r.said) \in Messages
  BY <1>1 DEF Question, Answer, Messages, Threads
<1>3. r.history \in Seq(Messages)
  BY <1>1 DEF Threads
<1>4. \A m \in Seq(Messages) : Holding(m) \in Memories
  BY DEF Holding, Memories
<1>5. r.history \o added \in Seq(Messages)
  BY <1>2, <1>3
<1>6. LastOf(r.history \o added) \in Seq(Messages)
  <2> HIDE DEF added, r
  <2> QED BY <1>5, LastOfIs
<1> QED BY <1>2, <1>3, <1>4, <1>6 DEF Seed, Remember, Remembers

\* Type correctness, for any workers, requests and window.
THEOREM CopilotTyped == Spec => [](TypeOK /\ RowsInv)
<1>1. Init => TypeOK /\ RowsInv
  <2> SUFFICES ASSUME Init PROVE TypeOK /\ RowsInv
    OBVIOUS
  <2>1. rows \subseteq Rows /\ IsFiniteSet(rows) /\ Topped(rows)
    <3> DEFINE first == [index |-> 0, message |-> Exchange0[1]]
               second == [index |-> 1, message |-> Exchange0[2]]
    <3>1. {[index |-> i - 1, message |-> Exchange0[i]] : i \in 1..2} = {first, second}
      <4>1. 1..2 = {1, 2}
        OBVIOUS
      <4> QED BY <4>1
    <3>2. first \in Rows /\ second \in Rows
      BY Exchange0Typed DEF Rows
    <3>3. Topped({first, second}) /\ Topped({})
      BY DEF Topped
    <3>4. IsFiniteSet({}) /\ IsFiniteSet({first}) /\ IsFiniteSet({first} \cup {second})
      BY FS_EmptySet, FS_Singleton, FS_AddElement
    <3>5. {first} \cup {second} = {first, second} /\ rows \in {{}, {first, second}}
      BY <3>1 DEF Init
    <3> QED BY <3>2, <3>3, <3>4, <3>5
  <2>2. memory \in [Workers -> Memories] /\ faults \in 0..MaxFaults
    BY Sizes DEF Init, Cold, Memories
  <2>3. PICK w \in Workers : request = [q \in Requests |-> Idle("idle", w)]
    BY DEF Init
  <2>4. Idle("idle", w) \in Threads /\ Idle("idle", w).phase = "idle"
    BY IdleTyped DEF Phases, Idle
  <2> QED BY <2>1, <2>2, <2>3, <2>4 DEF TypeOK, RowsInv
<1>2. TypeOK /\ RowsInv /\ [Next]_vars => TypeOK'
  <2> SUFFICES ASSUME TypeOK, RowsInv, [Next]_vars PROVE TypeOK'
    OBVIOUS
  <2>1. rows' \subseteq Rows
    BY LastGrows
  <2>2. CASE UNCHANGED vars
    BY <2>2 DEF vars, TypeOK
  <2>3. \A fault \in BOOLEAN : Takes(fault) => faults' \in 0..MaxFaults
    BY Sizes DEF Takes, TypeOK
  <2>4. ASSUME NEW q \in Requests, NEW w \in Workers, Fetch(q, w) PROVE TypeOK'
    BY <2>4, OthersTyped DEF TypeOK
  <2>5. ASSUME NEW q \in Requests, NEW w \in Workers, NEW asks \in {"own", "blank"},
               NEW seed \in {<<>>, Exchange0}, NEW known \in BOOLEAN, Ask(q, w, asks, seed, known)
        PROVE  TypeOK'
    <3>1. faults' \in 0..MaxFaults
      BY <2>3, <2>5 DEF Ask
    <3> QED BY <2>5, <3>1, OthersTyped DEF TypeOK
  <2>6. ASSUME NEW q \in Requests, Thread(q) \/ AgentFails(q) PROVE TypeOK'
    <3>1. request' \in [Requests -> Threads]
      BY <2>6, StepTyped
    <3>2. faults' \in 0..MaxFaults
      BY <2>3, <2>6 DEF Thread, ReadMemory, Seed, Insert, Recall, Remember, ReadRows, ReadIndex,
                        Commit, Turn, AgentFails, TypeOK
    <3>3. memory' \in [Workers -> Memories]
      <4>1. CASE Seed(q) \/ Remember(q)
        BY <4>1, MemoryTyped DEF TypeOK
      <4>2. CASE ~(Seed(q) \/ Remember(q))
        BY <2>6, <4>2 DEF Thread, ReadMemory, Insert, Recall, ReadRows, ReadIndex,
                          Commit, Turn, AgentFails, TypeOK
      <4> QED BY <4>1, <4>2
    <3> QED BY <2>1, <3>1, <3>2, <3>3 DEF TypeOK
  <2>7. ASSUME NEW w \in Workers, Restart(w) PROVE TypeOK'
    <3>1. Cold \in Memories
      BY DEF Cold, Memories
    <3>2. memory' \in [Workers -> Memories] /\ faults' \in 0..MaxFaults
      BY <2>3, <2>7, <3>1 DEF Restart, TypeOK
    <3> QED BY <2>1, <2>7, <3>2, OthersTyped DEF TypeOK
  <2> QED BY <2>2, <2>4, <2>5, <2>6, <2>7 DEF Next
<1>3. TypeOK /\ RowsInv /\ [Next]_vars => RowsInv'
  <2> SUFFICES ASSUME TypeOK, RowsInv, [Next]_vars PROVE RowsInv'
    OBVIOUS
  <2> DEFINE Bounded(q) ==
        /\ request[q].phase \in {"insert", "commit"} => request[q].index <= MaxIndex(rows) + 1
        /\ request[q].phase = "commit" => \A r \in request[q].passed :
               r.index + Window <= MaxIndex(rows) \/ r.index + Window <= request[q].index
  <2>1. /\ IsFiniteSet(rows') /\ Topped(rows') /\ MaxIndex(rows) \in Int /\ MaxIndex(rows') \in Int
        /\ MaxIndex(rows') >= MaxIndex(rows)
    BY LastGrows
  <2>2. \A q \in Requests : Bounded(q) /\ request[q] \in Threads
    BY DEF RowsInv, TypeOK
  <2>3. Window \in Nat /\ \A q \in Requests : /\ request[q].index \in Nat
                                              /\ \A r \in request[q].passed : r.index \in Nat
    BY <2>2, Sizes DEF Threads, Rows
  <2>4. ASSUME NEW q \in Requests, request'[q] = request[q] PROVE Bounded(q)'
    BY <2>1, <2>2, <2>3, <2>4
  <2>5. ASSUME NEW q \in Requests, request'[q].phase \notin {"insert", "commit"} PROVE Bounded(q)'
    BY <2>5
  <2>6. SUFFICES \A q \in Requests : Bounded(q)'
    BY <2>1 DEF RowsInv
  <2>7. CASE UNCHANGED vars
    BY <2>4, <2>7 DEF vars
  <2>8. ASSUME NEW q \in Requests, NEW w \in Workers, Fetch(q, w), NEW p \in Requests PROVE Bounded(p)'
    <3>1. Idle("history", w).phase = "history"
      BY DEF Idle
    <3>2. request'[p] = request[p] \/ request'[p].phase = "history"
      BY <2>8, <3>1, OthersTyped DEF TypeOK
    <3> QED BY <2>4, <2>5, <3>2
  <2>9. ASSUME NEW q \in Requests, NEW w \in Workers, NEW asks \in {"own", "blank"},
               NEW seed \in {<<>>, Exchange0}, NEW known \in BOOLEAN, Ask(q, w, asks, seed, known), NEW p \in Requests
        PROVE  Bounded(p)'
    <3>1. request'[p] = request[p] \/ request'[p].phase \in {"history", "failed"}
      BY <2>9, OthersTyped
    <3> QED BY <2>4, <2>5, <3>1
  <2>10. ASSUME NEW w \in Workers, Restart(w), NEW p \in Requests PROVE Bounded(p)'
    <3>1. request'[p] = request[p] \/ request'[p].phase = "lost"
      BY <2>10, OthersTyped
    <3> QED BY <2>4, <2>5, <3>1
  <2>11. ASSUME NEW q \in Requests, Thread(q) \/ AgentFails(q), NEW p \in Requests PROVE Bounded(p)'
    <3>1. CASE p # q
      BY <2>4, <2>11, <3>1, StepTyped
    <3>2. CASE p = q /\ Insert(q)
      <4>1. /\ request'[q] = [request[q] EXCEPT !.phase = "commit", !.passed = Behind(rows \cup {NewRow(q)})]
            /\ request[q].phase = "insert" /\ rows' = rows
        BY <3>2 DEF Insert, Becomes, At, TypeOK
      <4>2. request'[q].index = request[q].index /\ request'[q].passed = Behind(rows \cup {NewRow(q)})
        BY <2>2, <4>1 DEF Threads
      <4>3. \A r \in request'[q].passed :
               r.index + Window <= MaxIndex(rows) \/ r.index + Window <= request[q].index
        BY <4>1, <4>2, BehindIs
      <4>4. request[q].index <= MaxIndex(rows) + 1 /\ MaxIndex(rows)' = MaxIndex(rows)
        BY <2>2, <4>1
      <4>5. /\ request'[q].index <= MaxIndex(rows') + 1
            /\ \A r \in request'[q].passed :
                  r.index + Window <= MaxIndex(rows') \/ r.index + Window <= request'[q].index
        <5> HIDE DEF Bounded
        <5> QED BY <4>1, <4>2, <4>3, <4>4
      <4>6. p = q
        BY <3>2
      <4> QED BY <4>5, <4>6
    <3>3. CASE p = q /\ \E away \in BOOLEAN : ReadIndex(q, away)
      <4>1. \/ request'[q] = After(request[q])
            \/ request'[q] = [request[q] EXCEPT !.phase = "insert", !.index = MaxIndex(rows) + 1] /\ rows' = rows
        BY <3>3 DEF ReadIndex, Becomes, TypeOK
      <4>2. After(request[q]).phase \in {"read", "memory"}
        BY <2>2 DEF After, Threads
      <4>3. [request[q] EXCEPT !.phase = "insert", !.index = MaxIndex(rows) + 1].phase = "insert"
            /\ [request[q] EXCEPT !.phase = "insert", !.index = MaxIndex(rows) + 1].index = MaxIndex(rows) + 1
        BY <2>2 DEF Threads
      <4>4. CASE request'[q] = After(request[q])
        <5>1. request'[q].phase \notin {"insert", "commit"}
          BY <4>2, <4>4
        <5> QED BY <3>3, <5>1
      <4>5. CASE request'[q] = [request[q] EXCEPT !.phase = "insert", !.index = MaxIndex(rows) + 1] /\ rows' = rows
        <5>1. request'[q].phase = "insert" /\ request'[q].index = MaxIndex(rows) + 1 /\ MaxIndex(rows)' = MaxIndex(rows)
          BY <4>3, <4>5
        <5> QED BY <2>1, <3>3, <5>1
      <4> QED BY <4>1, <4>4, <4>5
    <3>4. CASE p = q /\ ~Insert(q) /\ ~\E away \in BOOLEAN : ReadIndex(q, away)
      <4>1. request'[q].phase \notin {"insert", "commit"}
        <5>1. \A phase \in Phases : Idle(phase, request[q].worker).phase = phase
          BY DEF Idle
        <5>2. After(request[q]).phase \in {"read", "memory"}
          BY <2>2 DEF After, Threads
        <5>9. ASSUME NEW phase \in {"done", "failed"}, Ends(q, phase)
              PROVE  request'[q].phase \notin {"insert", "commit"}
          <6>1. request' = [request EXCEPT ![q] = Idle(phase, request[q].worker)]
            BY <5>9 DEF Ends, Becomes
          <6>2. request'[q] = Idle(phase, request[q].worker)
            BY <6>1 DEF TypeOK
          <6>3. Idle(phase, request[q].worker).phase = phase
            BY DEF Idle
          <6> QED BY <6>2, <6>3
        <5>10. ASSUME NEW t, t.phase \notin {"insert", "commit"}, Becomes(q, t)
               PROVE  request'[q].phase \notin {"insert", "commit"}
          BY <5>10 DEF Becomes, TypeOK
        <5>11. \A phase, h, said :
                  /\ [request[q] EXCEPT !.phase = phase].phase = phase
                  /\ [request[q] EXCEPT !.phase = phase, !.history = h].phase = phase
                  /\ [request[q] EXCEPT !.phase = phase, !.history = h, !.said = said].phase = phase
          BY <2>2 DEF Threads
        <5>3. ASSUME NEW m, Resolved(q, m) PROVE request'[q].phase \notin {"insert", "commit"}
          <6> DEFINE t == [request[q] EXCEPT !.phase = "agent", !.history = <<>>, !.said = Latest(m)]
          <6>1. Ends(q, "failed") \/ Ends(q, "done") \/ Becomes(q, t)
            BY <5>3 DEF Resolved
          <6>2. t.phase = "agent"
            BY <5>11
          <6> HIDE DEF t
          <6> QED BY <5>9, <5>10, <6>1, <6>2
        <5>4. CASE ReadMemory(q) \/ Seed(q)
          <6> DEFINE t == [request[q] EXCEPT !.phase = "rows"]
          <6>1. (\E m : Resolved(q, m)) \/ Becomes(q, t)
            BY <5>4 DEF ReadMemory, Seed, Moves
          <6>2. t.phase = "rows"
            BY <5>11
          <6> HIDE DEF t
          <6> QED BY <5>3, <5>10, <6>1, <6>2
        <5>5. CASE \E away \in BOOLEAN : ReadRows(q, away)
          <6> DEFINE t(m) == [request[q] EXCEPT !.phase = "seed", !.history = m]
          <6>1. Ends(q, "failed") \/ \E m : Becomes(q, t(m))
            BY <5>5 DEF ReadRows
          <6>2. \A m : t(m).phase = "seed"
            BY <5>11
          <6> HIDE DEF t
          <6> QED BY <5>9, <5>10, <6>1, <6>2
        <5>6. CASE Recall(q) \/ Remember(q) \/ AgentFails(q)
          <6> DEFINE t == [request[q] EXCEPT !.phase = "remember", !.history = Memory(q).messages]
          <6>1. Ends(q, "failed") \/ Ends(q, "done") \/ Becomes(q, t)
            BY <5>6 DEF Recall, Remember, AgentFails
          <6>2. t.phase = "remember"
            BY <5>11
          <6> HIDE DEF t
          <6> QED BY <5>9, <5>10, <6>1, <6>2
        <5>7. CASE \E away \in BOOLEAN : Commit(q, away)
          BY <5>2, <5>7 DEF Commit, Becomes, TypeOK
        <5>8. CASE \E speaks, calls \in BOOLEAN : Turn(q, speaks, calls)
          BY <2>2, <5>8 DEF Turn, At, Becomes, TypeOK, Threads
        <5> QED BY <2>11, <3>4, <5>4, <5>5, <5>6, <5>7, <5>8 DEF Thread
      <4> QED BY <2>5, <3>4, <4>1
    <3> QED BY <3>1, <3>2, <3>3, <3>4
  <2> QED BY <2>7, <2>8, <2>9, <2>10, <2>11 DEF Next
<1> QED BY <1>1, <1>2, <1>3, PTL DEF Spec
---------------------------------------------------------------------------
(* The window is unbroken.                                                 *)

\* Whatever requests append at once and whichever appends are lost, the last Window turn indices
\* of the transcript are all there: a commit takes away only what is Window behind the last index,
\* which no index is more than one past.
THEOREM WindowUnbroken == Spec => []UnbrokenWindow
<1>1. Init => UnbrokenWindow
  <2> SUFFICES ASSUME Init PROVE UnbrokenWindow
    OBVIOUS
  <2>1. CASE rows = {}
    BY <2>1 DEF UnbrokenWindow, MaxIndex
  <2>2. CASE rows # {}
    <3> DEFINE row(i) == [index |-> i - 1, message |-> Exchange0[i]]
    <3>1. rows = {row(i) : i \in 1..2}
      BY <2>2 DEF Init
    <3>2. row(1).index = 0 /\ row(2).index = 1 /\ row(1) \in rows /\ row(2) \in rows
      BY <3>1
    <3>3. \A r \in rows : r = row(1) \/ r = row(2)
      <4>1. 1..2 = {1, 2}
        OBVIOUS
      <4> QED BY <3>1, <4>1
    <3>4. row(1) \in Rows /\ row(2) \in Rows
      BY Exchange0Typed DEF Rows
    <3> HIDE DEF row
    <3>5. MaxIndex(rows) = 1
      <4>1. rows \subseteq Rows /\ \A r \in rows : r.index <= row(2).index
        BY <3>2, <3>3, <3>4
      <4> QED BY <3>2, <4>1, MaxIndexIs
    <3>6. \A i \in 0..1 : i = row(1).index \/ i = row(2).index
      BY <3>2
    <3> QED BY <3>2, <3>5, <3>6 DEF UnbrokenWindow
  <2> QED BY <2>1, <2>2
<1>2. TypeOK /\ RowsInv /\ UnbrokenWindow /\ [Next]_vars => UnbrokenWindow'
  <2> SUFFICES ASSUME TypeOK, RowsInv, UnbrokenWindow, [Next]_vars PROVE UnbrokenWindow'
    OBVIOUS
  <2>1. CASE rows' = rows
    BY <2>1 DEF UnbrokenWindow
  <2>2. ASSUME NEW q \in Requests, Commit(q, FALSE) PROVE UnbrokenWindow'
    <3> DEFINE n == NewRow(q)
               gone == request[q].passed
    <3>1. request[q].phase = "commit" /\ rows' = (rows \cup {n}) \ gone
      BY <2>2 DEF Commit, At
    <3>2. /\ n \in Rows /\ n.index = request[q].index /\ MaxIndex(rows) \in Int
          /\ MaxIndex(rows') = IF request[q].index > MaxIndex(rows) THEN request[q].index ELSE MaxIndex(rows)
      BY <3>1, CommitKeeps
    <3>3. n.index \in Nat /\ n.index <= MaxIndex(rows) + 1 /\ Window \in Nat
      BY <3>1, <3>2, Sizes DEF RowsInv, Rows
    <3>4. \A r \in gone : /\ r.index \in Nat
                          /\ r.index + Window <= MaxIndex(rows) \/ r.index + Window <= n.index
      BY <3>1, <3>2 DEF RowsInv, TypeOK, Threads, Rows
    <3>5. \A i \in 0..MaxIndex(rows) : i > MaxIndex(rows) - Window => \E r \in rows : r.index = i
      BY DEF UnbrokenWindow
    <3> HIDE DEF n, gone
    <3>6. ASSUME NEW i \in 0..MaxIndex(rows'), i > MaxIndex(rows') - Window PROVE \E r \in rows' : r.index = i
      <4>1. \E r \in rows \cup {n} : r.index = i
        BY <3>2, <3>3, <3>5, <3>6
      <4>2. PICK r \in rows \cup {n} : r.index = i
        BY <4>1
      <4>3. r \notin gone
        BY <3>2, <3>3, <3>4, <3>6, <4>2
      <4> QED BY <3>1, <4>2, <4>3
    <3> QED BY <3>6 DEF UnbrokenWindow
  <2>3. rows' = rows \/ \E q \in Requests : Commit(q, FALSE)
    BY DEF Next, vars, Fetch, Ask, Thread, ReadMemory, Seed, Insert, Recall, Remember, ReadRows, ReadIndex,
           Commit, Turn, AgentFails, Restart
  <2> QED BY <2>1, <2>2, <2>3
<1> QED BY <1>1, <1>2, CopilotTyped, PTL DEF Spec
---------------------------------------------------------------------------
(* Answers follow their questions.                                         *)

\* No answer is in the rows before its thread has committed it, and a thread that has an index
\* for its answer has one behind its question; what a thread remembers is ordered too.
OrderInv ==
    /\ AnswersFollow
    /\ \A q \in Requests :
          /\ Ordered(request[q].history)
          /\ \A r \in rows : r.message.of = q =>
                /\ r.message.role = "assistant" =>
                      request[q].phase \in {"memory", "remember", "done", "failed", "lost"}
                /\ r.message.role = "user" /\ request[q].saves = "assistant"
                      /\ request[q].phase \in {"insert", "commit"} => r.index < request[q].index

\* A transcript of rows whose answers follow their questions is ordered, as is the seed.
LEMMA TranscriptsOrdered ==
    ASSUME TypeOK, RowsInv, AnswersFollow
    PROVE  /\ \A t \in Transcripts : Ordered(t)
           /\ Ordered(<<>>) /\ Ordered(Exchange0)
<1>1. ASSUME NEW t \in Transcripts, NEW i \in DOMAIN t, NEW j \in DOMAIN t,
             t[i].role = "assistant", t[j].role = "user", t[i].of = t[j].of
      PROVE  i > j
  <2>0. rows \subseteq Rows /\ IsFiniteSet(rows)
    BY DEF TypeOK, RowsInv
  <2>1. PICK r, s \in rows : t[i] = r.message /\ t[j] = s.message /\ (i < j => r.index <= s.index)
    BY <2>0, TranscriptsTyped
  <2>2. s.index < r.index
    BY <1>1, <2>1 DEF AnswersFollow
  <2>3. r.index \in Nat /\ s.index \in Nat /\ i \in Nat /\ j \in Nat
    BY SMTT(30), <2>0, TranscriptsTyped DEF Rows
  <2> QED BY <1>1, <2>1, <2>2, <2>3
<1>2. \A t \in Transcripts : Ordered(t)
  BY <1>1 DEF Ordered
<1>3. Ordered(<<>>)
  BY DEF Ordered
<1>4. Ordered(Exchange0)
  <2>1. \A i \in 1..2 : i = 1 \/ i = 2
    OBVIOUS
  <2> QED BY <2>1, Exchange0Typed DEF Ordered, Question, Answer
<1> QED BY <1>2, <1>3, <1>4

\* The end of an ordered transcript is ordered.
LEMMA SuffixOrdered ==
    ASSUME NEW m \in Seq(Messages), NEW l \in Seq(Messages), NEW n \in Nat, Len(m) = Len(l) + n,
           \A i \in 1..Len(l) : l[i] = m[i + n], Ordered(m)
    PROVE  Ordered(l)
<1> SUFFICES ASSUME NEW i \in DOMAIN l, NEW j \in DOMAIN l,
                    l[i].role = "assistant", l[j].role = "user", l[i].of = l[j].of
             PROVE  \E k \in DOMAIN l : k > j /\ l[k].role = "assistant" /\ l[k].of = l[j].of
  BY DEF Ordered
<1>1. DOMAIN l = 1..Len(l) /\ DOMAIN m = 1..Len(m) /\ Len(l) \in Nat
  OBVIOUS
<1>2. i + n \in DOMAIN m /\ j + n \in DOMAIN m /\ l[i] = m[i + n] /\ l[j] = m[j + n]
  BY <1>1
<1>3. PICK k \in DOMAIN m : k > j + n /\ m[k].role = "assistant" /\ m[k].of = m[j + n].of
  BY <1>2 DEF Ordered
<1>4. k - n \in DOMAIN l /\ k - n > j /\ (k - n) + n = k
  BY <1>1, <1>3
<1>5. l[k - n] = m[k]
  BY <1>1, <1>4
<1> QED BY <1>2, <1>3, <1>4, <1>5

\* An exchange behind an ordered transcript leaves it ordered.
LEMMA ExchangeOrdered ==
    ASSUME NEW h \in Seq(Messages), Ordered(h), NEW question \in Messages, NEW answer \in Messages,
           question.role = "user", answer.role = "assistant", question.of = answer.of
    PROVE  Ordered(h \o <<question, answer>>)
<1> DEFINE m == h \o <<question, answer>>
           n == Len(h)
<1>1. /\ n \in Nat /\ DOMAIN h = 1..n /\ DOMAIN m = 1..(n + 2)
      /\ \A i \in 1..n : m[i] = h[i]
      /\ m[n + 1] = question /\ m[n + 2] = answer
  OBVIOUS
<1> HIDE DEF m, n
<1> SUFFICES ASSUME NEW i \in DOMAIN m, NEW j \in DOMAIN m,
                    m[i].role = "assistant", m[j].role = "user", m[i].of = m[j].of
             PROVE  \E k \in DOMAIN m : k > j /\ m[k].role = "assistant" /\ m[k].of = m[j].of
  BY DEF Ordered, m
<1>2. j \in 1..n \/ j = n + 1
  BY <1>1
<1>3. i \in 1..n \/ i = n + 2
  BY <1>1
<1>4. CASE j = n + 1
  BY <1>1, <1>4
<1>5. CASE j \in 1..n /\ i = n + 2
  BY <1>1, <1>5
<1>6. CASE j \in 1..n /\ i \in 1..n
  <2>1. PICK k \in DOMAIN h : k > j /\ h[k].role = "assistant" /\ h[k].of = h[j].of
    BY <1>1, <1>6 DEF Ordered
  <2> QED BY <1>1, <1>6, <2>1
<1> QED BY <1>2, <1>3, <1>4, <1>5, <1>6

\* No transcript, of the rows or of a worker's memory, has an answer without the question before
\* it that it answers, whatever ran between the two appends.
THEOREM AnswersFollowQuestions == Spec => []AnswersFollow
<1>1. Init => OrderInv
  <2> SUFFICES ASSUME Init PROVE OrderInv
    OBVIOUS
  <2>1. \A w \in Workers : memory[w].messages = <<>>
    BY DEF Init, Cold
  <2>2. \A q \in Requests : request[q].history = <<>>
    BY DEF Init, Idle
  <2>3. Ordered(<<>>)
    BY DEF Ordered
  <2>4. ASSUME NEW r \in rows
        PROVE  /\ r.message.of = 0 /\ r.index \in {0, 1}
               /\ r.message.role = "user" => r.index = 0
               /\ r.message.role = "assistant" => r.index = 1
    <3>1. PICK i \in 1..2 : r = [index |-> i - 1, message |-> Exchange0[i]]
      BY <2>4 DEF Init
    <3>2. i = 1 \/ i = 2
      OBVIOUS
    <3> QED BY <3>1, <3>2, Exchange0Typed DEF Question, Answer
  <2>5. \A q \in Requests : q # 0
    BY Sizes DEF Requests
  <2> QED BY <2>1, <2>2, <2>3, <2>4, <2>5 DEF OrderInv, AnswersFollow
<1>2. TypeOK /\ RowsInv /\ OrderInv /\ [Next]_vars => OrderInv'
  <2> SUFFICES ASSUME TypeOK, RowsInv, OrderInv, [Next]_vars PROVE OrderInv'
    OBVIOUS
  <2> DEFINE Late == {"memory", "remember", "done", "failed", "lost"}
  <2>0. /\ rows \subseteq Rows /\ \A r \in rows : r.index \in Nat
        /\ \A q \in Requests : request[q] \in Threads /\ request[q].index \in Nat
    BY DEF TypeOK, Rows, Threads
  <2>1. ASSUME rows' = rows, \A w \in Workers : Ordered(memory'[w].messages),
               \A q \in Requests : Ordered(request'[q].history),
               \A q \in Requests : request[q].phase \in Late => request'[q].phase \in Late,
               \A q \in Requests : request'[q].phase \in {"insert", "commit"} /\ request'[q].saves = "assistant" =>
                   \/ /\ request[q].phase \in {"insert", "commit"} /\ request[q].saves = "assistant"
                      /\ request'[q].index = request[q].index
                   \/ request'[q].index = MaxIndex(rows) + 1
        PROVE  OrderInv'
    <3>1. \A r \in rows : r.index < MaxIndex(rows) + 1
      BY <2>0, LastIndex DEF RowsInv
    <3> QED BY <2>1, <3>1 DEF OrderInv, AnswersFollow
  <2>2. ASSUME NEW q \in Requests, Commit(q, FALSE) PROVE OrderInv'
    <3> DEFINE n == NewRow(q)
               gone == request[q].passed
    <3>1. /\ request[q].phase = "commit" /\ rows' = (rows \cup {n}) \ gone /\ memory' = memory
          /\ request' = [request EXCEPT ![q] = After(request[q])]
      BY <2>2 DEF Commit, At, Becomes
    <3>2. /\ n.index = request[q].index /\ n.message.of = q
          /\ n.message.role = request[q].saves
      BY <2>0 DEF NewRow, Appended, Question, Answer, Threads
    <3>3. /\ request'[q].history = request[q].history
          /\ request'[q].phase = IF request[q].saves = "user" THEN "read" ELSE "memory"
          /\ \A p \in Requests : p # q => request'[p] = request[p]
      <4>1. /\ After(request[q]).history = request[q].history
            /\ After(request[q]).phase = IF request[q].saves = "user" THEN "read" ELSE "memory"
        BY <2>0 DEF After, Threads
      <4> QED BY <3>1, <4>1 DEF TypeOK
    <3> HIDE DEF n, gone
    <3>4. request[q].saves \in {"user", "assistant"}
      BY <2>0 DEF Threads
    <3>5. \A r \in rows : r.message.of = q =>
             /\ r.message.role # "assistant"
             /\ r.message.role = "user" /\ request[q].saves = "assistant" => r.index < request[q].index
      BY <3>1 DEF OrderInv
    <3>6. ASSUME NEW question \in rows', NEW answer \in rows', question.message.role = "user",
                 answer.message.role = "assistant", question.message.of = answer.message.of
          PROVE  question.index < answer.index
      <4>1. CASE answer \in rows /\ question \in rows
        BY <3>6, <4>1 DEF OrderInv, AnswersFollow
      <4>2. CASE answer = n
        BY <3>1, <3>2, <3>4, <3>5, <3>6, <4>2
      <4>3. CASE question = n /\ answer \in rows
        BY <3>2, <3>5, <3>6, <4>3
      <4> QED BY <3>1, <4>1, <4>2, <4>3
    <3>7. ASSUME NEW p \in Requests, NEW r \in rows', r.message.of = p
          PROVE  /\ r.message.role = "assistant" => request'[p].phase \in Late
                 /\ r.message.role = "user" /\ request'[p].saves = "assistant"
                      /\ request'[p].phase \in {"insert", "commit"} => r.index < request'[p].index
      <4>1. CASE p = q
        BY <3>1, <3>2, <3>3, <3>4, <3>5, <3>7, <4>1
      <4>2. CASE p # q
        <5>1. r \in rows /\ request'[p] = request[p]
          BY <3>1, <3>2, <3>3, <3>7, <4>2
        <5> QED BY <3>7, <5>1 DEF OrderInv
      <4> QED BY <4>1, <4>2
    <3>8. (\A p \in Requests : Ordered(request'[p].history)) /\ (\A w \in Workers : Ordered(memory'[w].messages))
      BY <3>1, <3>3 DEF OrderInv, AnswersFollow
    <3> QED BY <3>6, <3>7, <3>8 DEF OrderInv, AnswersFollow
  <2>3. /\ \A w \in Workers : Ordered(memory[w].messages)
        /\ \A q \in Requests : Ordered(request[q].history)
        /\ Ordered(<<>>) /\ Ordered(Exchange0) /\ \A t \in Transcripts : Ordered(t)
    BY TranscriptsOrdered DEF OrderInv, AnswersFollow
  <2>4. CASE UNCHANGED vars
    BY <2>1, <2>3, <2>4 DEF vars
  <2>5. ASSUME NEW q \in Requests, NEW w \in Workers, Fetch(q, w) PROVE OrderInv'
    <3>1. Idle("history", w).phase = "history" /\ Idle("history", w).history = <<>>
      BY DEF Idle
    <3>2. /\ request'[q].phase = "history" /\ request'[q].history = <<>> /\ request[q].phase = "idle"
          /\ rows' = rows /\ memory' = memory /\ \A p \in Requests : p # q => request'[p] = request[p]
      BY <2>5, <3>1 DEF Fetch, At, Becomes, TypeOK
    <3> QED BY <2>1, <2>3, <3>2
  <2>6. ASSUME NEW q \in Requests, NEW w \in Workers, NEW asks \in {"own", "blank"},
               NEW seed \in {<<>>, Exchange0}, NEW known \in BOOLEAN, Ask(q, w, asks, seed, known)
        PROVE  OrderInv'
    <3>1. /\ rows' = rows /\ memory' = memory
          /\ request'[q].phase \in {"history", "failed"} /\ request'[q].history = <<>>
          /\ request[q].phase = "idle" /\ \A p \in Requests : p # q => request'[p] = request[p]
      BY <2>6, OthersTyped
    <3> QED BY <2>1, <2>3, <3>1
  <2>7. ASSUME NEW w \in Workers, Restart(w) PROVE OrderInv'
    <3>1. /\ rows' = rows
          /\ \A q \in Requests : request'[q] = request[q] \/ (request'[q].phase = "lost" /\ request'[q].history = <<>>)
      BY <2>7, OthersTyped
    <3>2. \A v \in Workers : memory'[v] = memory[v] \/ memory'[v].messages = <<>>
      BY <2>7 DEF Restart, Cold, TypeOK
    <3> QED BY <2>1, <2>3, <3>1, <3>2
  <2>8. ASSUME NEW q \in Requests, Thread(q) \/ AgentFails(q), ~Commit(q, FALSE) PROVE OrderInv'
    <3> DEFINE r == request[q]
    <3>1. /\ r \in Threads /\ request' \in [Requests -> Threads] /\ r.history \in Seq(Messages)
          /\ \A p \in Requests : p # q => request'[p] = request[p]
      BY <2>0, <2>8, StepTyped DEF Threads
    <3>2. rows' = rows
      BY <2>8 DEF Thread, ReadMemory, Seed, Insert, Recall, Remember, ReadRows, ReadIndex, Commit, Turn, AgentFails
    <3>3. \A w \in Workers : Ordered(memory'[w].messages)
      <4>1. CASE Seed(q)
        <5>1. memory' = [memory EXCEPT ![r.worker] = Holding(r.history)] /\ Holding(r.history).messages = r.history
          BY <4>1, MemoryTyped DEF Holding
        <5> QED BY <2>3, <5>1 DEF TypeOK
      <4>2. CASE Remember(q)
        <5> DEFINE question == Question(q, r.asks)
                   answer == Answer(q, r.said)
                   whole == r.history \o <<question, answer>>
        <5>1. /\ question \in Messages /\ answer \in Messages
              /\ memory' = [memory EXCEPT ![r.worker] = Holding(LastOf(whole))]
              /\ Holding(LastOf(whole)).messages = LastOf(whole)
          BY <4>2, MemoryTyped DEF Holding
        <5>2. question.role = "user" /\ answer.role = "assistant" /\ question.of = answer.of
          BY DEF Question, Answer
        <5>3. Ordered(whole) /\ whole \in Seq(Messages)
          <6> HIDE DEF question, answer, r
          <6> QED BY <2>3, <3>1, <5>1, <5>2, ExchangeOrdered DEF r
        <5>4. Ordered(LastOf(whole))
          <6> HIDE DEF whole
          <6> QED BY <5>3, LastOfIs, SuffixOrdered
        <5> HIDE DEF whole
        <5> QED BY <2>3, <5>1, <5>4 DEF TypeOK
      <4>3. CASE ~Seed(q) /\ ~Remember(q)
        <5>1. memory' = memory
          BY <2>8, <4>3 DEF Thread, ReadMemory, Insert, Recall, ReadRows, ReadIndex, Commit, Turn, AgentFails
        <5> QED BY <2>3, <5>1
      <4> QED BY <4>1, <4>2, <4>3
    <3>4. /\ Ordered(request'[q].history)
          /\ r.phase \in Late => request'[q].phase \in Late
          /\ request'[q].phase \in {"insert", "commit"} /\ request'[q].saves = "assistant" =>
                \/ r.phase \in {"insert", "commit"} /\ r.saves = "assistant" /\ request'[q].index = r.index
                \/ request'[q].index = MaxIndex(rows) + 1
      <4> DEFINE Fine(t) ==
                    /\ Ordered(t.history)
                    /\ r.phase \in Late => t.phase \in Late
                    /\ t.phase \in {"insert", "commit"} /\ t.saves = "assistant" =>
                          \/ r.phase \in {"insert", "commit"} /\ r.saves = "assistant" /\ t.index = r.index
                          \/ t.index = MaxIndex(rows) + 1
      <4> SUFFICES Fine(request'[q])
        OBVIOUS
      <4>1. ASSUME NEW t, Becomes(q, t), Fine(t) PROVE Fine(request'[q])
        <5>1. request'[q] = t
          BY <4>1 DEF Becomes, TypeOK
        <5> HIDE DEF Fine
        <5> QED BY <4>1, <5>1
      <4>2. ASSUME NEW phase \in {"done", "failed"}, Ends(q, phase) PROVE Fine(request'[q])
        <5> DEFINE t == Idle(phase, r.worker)
        <5>1. t.phase = phase /\ t.history = <<>>
          BY DEF Idle
        <5>2. Becomes(q, t)
          BY <4>2 DEF Ends
        <5> HIDE DEF t
        <5>3. Fine(t)
          BY <2>3, <4>2, <5>1
        <5> HIDE DEF Fine
        <5> QED BY <4>1, <5>2, <5>3
      <4>3. \A phase, h, said, i, g :
               /\ [r EXCEPT !.phase = phase].phase = phase /\ [r EXCEPT !.phase = phase].history = r.history
               /\ [r EXCEPT !.phase = phase, !.history = h].phase = phase
               /\ [r EXCEPT !.phase = phase, !.history = h].history = h
               /\ [r EXCEPT !.phase = phase, !.history = h, !.said = said].phase = phase
               /\ [r EXCEPT !.phase = phase, !.history = h, !.said = said].history = h
               /\ [r EXCEPT !.phase = phase, !.index = i].phase = phase
               /\ [r EXCEPT !.phase = phase, !.index = i].history = r.history
               /\ [r EXCEPT !.phase = phase, !.index = i].index = i
               /\ [r EXCEPT !.phase = phase, !.passed = g].phase = phase
               /\ [r EXCEPT !.phase = phase, !.passed = g].history = r.history
               /\ [r EXCEPT !.phase = phase, !.passed = g].index = r.index
               /\ [r EXCEPT !.phase = phase, !.passed = g].saves = r.saves
               /\ [r EXCEPT !.turn = i, !.said = said].phase = r.phase
               /\ [r EXCEPT !.turn = i, !.said = said].history = r.history
               /\ [r EXCEPT !.phase = phase, !.turn = i, !.said = said].phase = phase
               /\ [r EXCEPT !.phase = phase, !.turn = i, !.said = said].history = r.history
        BY <3>1 DEF Threads
      <4>4. ASSUME NEW m, Resolved(q, m), r.phase \notin Late PROVE Fine(request'[q])
        <5> DEFINE t == [r EXCEPT !.phase = "agent", !.history = <<>>, !.said = Latest(m)]
        <5>1. Ends(q, "failed") \/ Ends(q, "done") \/ Becomes(q, t)
          BY <4>4 DEF Resolved
        <5>2. t.phase = "agent" /\ t.history = <<>>
          BY <4>3
        <5> HIDE DEF t
        <5>3. Fine(t)
          BY <2>3, <4>4, <5>2
        <5> HIDE DEF Fine
        <5> QED BY <4>1, <4>2, <5>1, <5>3
      <4>5. CASE ReadMemory(q) \/ Seed(q)
        <5> DEFINE t == [r EXCEPT !.phase = "rows"]
        <5>1. ((\E m : Resolved(q, m)) \/ Becomes(q, t)) /\ r.phase \in {"history", "seed"}
          BY <4>5 DEF ReadMemory, Seed, Moves, At
        <5>2. t.phase = "rows" /\ t.history = r.history
          BY <4>3
        <5> HIDE DEF t
        <5>3. Fine(t)
          BY <2>3, <5>1, <5>2
        <5> HIDE DEF Fine
        <5> QED BY <4>1, <4>4, <5>1, <5>3
      <4>6. CASE \E away \in BOOLEAN : ReadRows(q, away)
        <5> DEFINE t(m) == [r EXCEPT !.phase = "seed", !.history = m]
        <5>1. /\ r.phase = "rows"
              /\ \/ Ends(q, "failed")
                 \/ \E m \in {<<>>, r.seed} \cup Transcripts : Becomes(q, t(m))
          BY <4>6 DEF ReadRows, At
        <5>2. \A m : t(m).phase = "seed" /\ t(m).history = m
          BY <4>3
        <5> HIDE DEF t
        <5>3. \A m \in {<<>>, r.seed} \cup Transcripts : Fine(t(m))
          <6>1. r.seed = <<>> \/ r.seed = Exchange0
            BY <3>1 DEF Threads
          <6> QED BY <2>3, <5>1, <5>2, <6>1
        <5> HIDE DEF Fine
        <5> QED BY <4>1, <4>2, <5>1, <5>3
      <4>7. CASE Insert(q)
        <5> DEFINE t == [r EXCEPT !.phase = "commit", !.passed = Behind(rows \cup {NewRow(q)})]
        <5>1. Becomes(q, t) /\ r.phase = "insert"
          BY <4>7 DEF Insert, At
        <5>2. t.phase = "commit" /\ t.history = r.history /\ t.index = r.index /\ t.saves = r.saves
          BY <4>3
        <5> HIDE DEF t
        <5>3. Fine(t)
          BY <2>3, <5>1, <5>2
        <5> HIDE DEF Fine
        <5> QED BY <4>1, <5>1, <5>3
      <4>8. CASE Recall(q)
        <5> DEFINE t == [r EXCEPT !.phase = "remember", !.history = Memory(q).messages]
        <5>1. Becomes(q, t) \/ Ends(q, "failed")
          BY <4>8 DEF Recall
        <5>2. t.phase = "remember" /\ t.history = memory[r.worker].messages /\ r.worker \in Workers
          BY <3>1, <4>3 DEF Memory, Threads
        <5> HIDE DEF t
        <5>3. Fine(t)
          BY <2>3, <5>2
        <5> HIDE DEF Fine
        <5> QED BY <4>1, <4>2, <5>1, <5>3
      <4>9. CASE Remember(q) \/ AgentFails(q)
        BY <4>2, <4>9 DEF Remember, AgentFails
      <4>10. CASE \E away \in BOOLEAN : ReadIndex(q, away) \/ Commit(q, away)
        <5> DEFINE t == [r EXCEPT !.phase = "insert", !.index = MaxIndex(rows) + 1]
                   u == After(r)
        <5>1. (Becomes(q, t) \/ Becomes(q, u)) /\ r.phase \in {"read", "commit"}
          BY <4>10 DEF ReadIndex, Commit, At
        <5>2. t.phase = "insert" /\ t.history = r.history /\ t.index = MaxIndex(rows) + 1
          BY <4>3
        <5>3. u.phase \in {"read", "memory"} /\ u.history = r.history
          BY <3>1 DEF After, Threads
        <5> HIDE DEF t, u
        <5>4. Fine(t) /\ Fine(u)
          BY <2>3, <5>1, <5>2, <5>3
        <5> HIDE DEF Fine
        <5> QED BY <4>1, <5>1, <5>4
      <4>11. CASE \E speaks, calls \in BOOLEAN : Turn(q, speaks, calls)
        <5> DEFINE t(i, said) == [r EXCEPT !.turn = i, !.said = said]
                   u(said) == [r EXCEPT !.phase = "read", !.turn = 0, !.said = said]
        <5>1. r.phase = "agent" /\ \E i, said : Becomes(q, t(i, said)) \/ Becomes(q, u(said))
          <6>1. PICK speaks, calls \in BOOLEAN : Turn(q, speaks, calls)
            BY <4>11
          <6> DEFINE said == IF speaks THEN "own" ELSE r.said
          <6>2. r.phase = "agent" /\ (Becomes(q, t(r.turn + 1, said)) \/ Becomes(q, u(said)))
            <7>1. r.phase = "agent" /\ Becomes(q, IF GoesOn(calls, r.turn + 1) THEN t(r.turn + 1, said) ELSE u(said))
              BY <6>1 DEF Turn, At
            <7> HIDE DEF t, u, said
            <7> QED BY <7>1
          <6> QED BY <6>2
        <5>2. /\ \A i, said : t(i, said).phase = r.phase /\ t(i, said).history = r.history
              /\ \A said : u(said).phase = "read" /\ u(said).history = r.history
          BY <4>3
        <5> HIDE DEF t, u
        <5>3. \A i, said : Fine(t(i, said)) /\ Fine(u(said))
          BY <2>3, <5>1, <5>2
        <5> HIDE DEF Fine
        <5> QED BY <4>1, <5>1, <5>3
      <4> HIDE DEF Fine
      <4> QED BY <2>8, <4>5, <4>6, <4>7, <4>8, <4>9, <4>10, <4>11 DEF Thread
    <3> QED BY <2>1, <2>3, <3>1, <3>2, <3>3, <3>4
  <2> QED BY <2>2, <2>4, <2>5, <2>6, <2>7, <2>8 DEF Next
<1>3. OrderInv => AnswersFollow
  BY DEF OrderInv
<1> QED BY <1>1, <1>2, <1>3, CopilotTyped, PTL DEF Spec
=============================================================================
