--------------------------- MODULE LedgerDbProofs ---------------------------
(***************************************************************************)
(* For any set of writers, any bodies and any bound: the SQLite ledger     *)
(* always verifies, and it implements the append-only log.                 *)
(***************************************************************************)
EXTENDS LedgerDb, SequenceTheorems, TLAPS

\* The inductive invariant: the chain verifies, and every pending call is
\* either about a seq that is taken or about the successor of the last row.
IInv == TypeOK /\ ChainVerifies /\ CallsOK

\* ORDER BY seq DESC LIMIT 1 over a table without gaps is its length.
LEMMA LatestSeqIsLength ==
    ASSUME NEW rows, NEW n \in Nat, DOMAIN rows = 1..n
    PROVE  LatestSeq(rows) = n
<1>1. CASE n = 0
  BY <1>1 DEF LatestSeq
<1>2. CASE n # 0
  <2>1. n \in DOMAIN rows /\ \A t \in DOMAIN rows : t <= n
    BY <1>2
  <2>2. \A s \in DOMAIN rows : (\A t \in DOMAIN rows : t <= s) => s = n
    BY <2>1
  <2>3. DOMAIN rows # {}
    BY <2>1
  <2>4. QED
    BY <2>1, <2>2, <2>3 DEF LatestSeq
<1>3. QED
  BY <1>1, <1>2

\* The initial state satisfies the invariant.
LEMMA InitIInv == Init => IInv
<1> SUFFICES ASSUME Init PROVE IInv
  OBVIOUS
<1>1. DOMAIN events = 1..0 /\ DOMAIN events = {}
  BY DEF Init
<1>2. TypeOK
  BY <1>1, BoundAssumption DEF Init, TypeOK
<1>3. ChainVerifies
  BY <1>1 DEF ChainVerifies, VerifyChain
<1>4. CallsOK
  BY WriterAssumption DEF Init, CallsOK, CallOK
<1>5. QED
  BY <1>2, <1>3, <1>4 DEF IInv
\* A step that leaves the table alone keeps the facts about the table.
LEMMA SameTable ==
    ASSUME IInv, UNCHANGED events
    PROVE  /\ \E n \in 0..MaxEvents : DOMAIN events' = 1..n
           /\ \A s \in DOMAIN events' : events'[s].body \in Bodies
           /\ ChainVerifies'
           /\ LatestSeq(events') = LatestSeq(events)
           /\ LatestHash(events') = LatestHash(events)
BY DEF IInv, TypeOK, ChainVerifies

\* The SELECT computes the successor of the last row.
LEMMA SelectStep ==
    ASSUME IInv, NEW w \in Writers, NEW b \in Bodies, SelectLatest(w, b)
    PROVE  IInv'
<1> USE DEF SelectLatest, Transition
<1>1. PICK n \in 0..MaxEvents : DOMAIN events = 1..n
  BY DEF IInv, TypeOK
<1>2. LatestSeq(events) = n
  BY <1>1, BoundAssumption, LatestSeqIsLength
<1>3. TypeOK'
  BY SameTable DEF IInv, TypeOK
<1>4. ASSUME NEW v \in Writers PROVE CallOK(v)'
  <2>1. CASE v = w
    <3>1. call'[w] = [seq |-> n + 1, row |-> Row(b, LatestHash(events), n + 1)]
      BY <1>2 DEF IInv, TypeOK
    <3>2. call'[w].seq \in 1..MaxEvents /\ call'[w].row.body = b
      BY <1>2, <3>1, BoundAssumption DEF Row
    <3>3. Fresh(w)'
      BY <1>2, <3>1, SameTable DEF Fresh, NextSeq
    <3>4. pc[w] = "idle" /\ pc'[w] = "selected" /\ lock' # w
      BY DEF IInv, TypeOK, CallsOK, CallOK
    <3>5. QED
      BY <2>1, <3>2, <3>3, <3>4 DEF CallOK
  <2>2. CASE v # w
    <3>1. pc'[v] = pc[v] /\ call'[v] = call[v] /\ lock' = lock
      BY <2>2 DEF IInv, TypeOK
    <3>2. \A u \in Writers : pc'[u] = "committed" => pc[u] = "committed" /\ call'[u] = call[u]
      BY DEF IInv, TypeOK
    <3>3. Fresh(v) => Fresh(v)'
      BY <3>1, SameTable DEF Fresh, NextSeq
    <3>4. QED
      BY <3>1, <3>2, <3>3 DEF IInv, CallsOK, CallOK
  <2>3. QED
    BY <2>1, <2>2
<1>5. QED
  BY <1>3, <1>4, SameTable DEF IInv, CallsOK

\* An INSERT that gets the write lock: no other call is inside a transaction.
LEMMA InsertStep ==
    ASSUME IInv, NEW w \in Writers, Insert(w)
    PROVE  IInv'
<1> USE DEF Insert, Transition
<1>1. TypeOK'
  BY SameTable DEF IInv, TypeOK
<1>2. ASSUME NEW v \in Writers PROVE CallOK(v)'
  <2>1. Fresh(v) => Fresh(v)'
    BY SameTable DEF Fresh, NextSeq
  <2>2. CASE v = w
    <3>1. pc[w] = "selected" /\ pc'[w] = "inserted" /\ lock' = w
      BY DEF IInv, TypeOK
    <3>2. Fresh(w)
      BY <3>1 DEF IInv, CallsOK, CallOK
    <3>3. QED
      BY <2>1, <2>2, <3>1, <3>2 DEF IInv, CallsOK, CallOK
  <2>3. CASE v # w
    <3>1. pc'[v] = pc[v] /\ lock # v /\ lock' # v
      BY <2>3, WriterAssumption DEF IInv, TypeOK
    <3>2. \A u \in Writers : pc'[u] = "committed" => pc[u] = "committed"
      BY DEF IInv, TypeOK
    <3>3. QED
      BY <2>1, <3>1, <3>2 DEF IInv, CallsOK, CallOK
  <2>4. QED
    BY <2>2, <2>3
<1>3. QED
  BY <1>1, <1>2, SameTable DEF IInv, CallsOK

\* An append that raises, or whose process dies, from any point.
LEMMA RaiseStep ==
    ASSUME IInv, NEW w \in Writers,
           NEW from \in {"selected", "inserted", "committed"}, Raise(w, from),
           lock' = IF lock = w THEN NoWriter ELSE lock
    PROVE  IInv'
<1> USE DEF Raise, Transition
<1>1. TypeOK'
  BY SameTable DEF IInv, TypeOK
<1>2. ASSUME NEW v \in Writers PROVE CallOK(v)'
  <2>1. CASE v = w
    <3>1. pc'[w] = "idle" /\ lock' # w
      BY WriterAssumption DEF IInv, TypeOK
    <3>2. QED
      BY <2>1, <3>1 DEF CallOK
  <2>2. CASE v # w
    <3>1. pc'[v] = pc[v] /\ call'[v] = call[v] /\ (lock' = v <=> lock = v)
      BY <2>2, WriterAssumption DEF IInv, TypeOK
    <3>2. \A u \in Writers : pc'[u] = "committed" => pc[u] = "committed" /\ call'[u] = call[u]
      BY DEF IInv, TypeOK
    <3>3. Fresh(v) => Fresh(v)'
      BY <3>1, SameTable DEF Fresh, NextSeq
    <3>4. QED
      BY <3>1, <3>2, <3>3 DEF IInv, CallsOK, CallOK
  <2>3. QED
    BY <2>1, <2>2
<1>3. QED
  BY <1>1, <1>2, SameTable DEF IInv, CallsOK

\* The committed row is the successor of the last row, so the table grows by
\* one row at its end and verifies as before.
LEMMA CommitTable ==
    ASSUME IInv, NEW w \in Writers, Commit(w),
           NEW n \in 0..MaxEvents, DOMAIN events = 1..n
    PROVE  /\ call[w].seq = n + 1 /\ n + 1 <= MaxEvents
           /\ DOMAIN events' = 1..(n + 1)
           /\ \A s \in 1..n : events'[s] = events[s]
           /\ events'[n + 1] = call[w].row
           /\ events'[n + 1].body \in Bodies
           /\ ChainVerifies'
<1>1. LatestSeq(events) = n
  BY BoundAssumption, LatestSeqIsLength
<1>2. /\ Fresh(w)
      /\ call[w].seq \in 1..MaxEvents
      /\ call[w].row.body \in Bodies
  BY DEF IInv, CallsOK, CallOK, Commit, Transition
<1>3. call[w].seq = n + 1 /\ n + 1 <= MaxEvents
  BY <1>1, <1>2 DEF Fresh, NextSeq
<1>4. /\ DOMAIN events' = 1..(n + 1)
      /\ \A s \in 1..n : events'[s] = events[s]
      /\ events'[n + 1] = call[w].row
  BY <1>3, BoundAssumption DEF Commit
<1>5. PICK b \in Bodies : call[w].row = Row(b, PrevHash(events, n + 1), n + 1)
  <2>1. LatestHash(events) = PrevHash(events, n + 1)
    BY <1>1, BoundAssumption DEF LatestHash, PrevHash
  <2>2. QED
    BY <1>1, <1>2, <2>1 DEF Fresh, NextSeq
<1>6. \A s \in 1..(n + 1) : PrevHash(events', s) = PrevHash(events, s)
  BY <1>4, BoundAssumption DEF PrevHash
<1>7. ASSUME NEW s \in 1..(n + 1)
      PROVE  /\ s = 1 \/ s - 1 \in 1..(n + 1)
             /\ events'[s].prev = PrevHash(events', s)
             /\ events'[s].hash = Digest(PrevHash(events', s), events'[s].body, s)
  <2>1. CASE s = n + 1
    BY <1>4, <1>5, <1>6, <2>1 DEF Row
  <2>2. CASE s \in 1..n
    BY <1>4, <1>6, <2>2 DEF IInv, ChainVerifies, VerifyChain
  <2>3. QED
    BY <2>1, <2>2, BoundAssumption
<1>8. QED
  BY <1>2, <1>3, <1>4, <1>7 DEF ChainVerifies, VerifyChain

\* The COMMIT: calls that had read the old last row now hold a seq that is
\* taken, the committed row is in the table and nobody was told of it.
LEMMA CommitStep ==
    ASSUME IInv, NEW w \in Writers, Commit(w)
    PROVE  IInv'
<1>1. PICK n \in 0..MaxEvents : DOMAIN events = 1..n
  BY DEF IInv, TypeOK
<1>2. /\ call[w].seq = n + 1 /\ n + 1 <= MaxEvents
      /\ DOMAIN events' = 1..(n + 1)
      /\ \A s \in 1..n : events'[s] = events[s]
      /\ events'[n + 1] = call[w].row
      /\ events'[n + 1].body \in Bodies
      /\ ChainVerifies'
  BY <1>1, CommitTable
<1>3. /\ pc[w] = "inserted" /\ pc'[w] = "committed"
      /\ pc' = [pc EXCEPT ![w] = "committed"]
      /\ lock' = NoWriter /\ call' = call /\ acked' = acked
  BY DEF IInv, TypeOK, Commit, Transition
<1>4. TypeOK'
  <2>1. \A s \in DOMAIN events' : events'[s].body \in Bodies
    BY <1>1, <1>2 DEF IInv, TypeOK
  <2>2. acked' \subseteq [by : Writers, seq : DOMAIN events', body : Bodies]
    BY <1>1, <1>2, <1>3, BoundAssumption DEF IInv, TypeOK
  <2>3. n + 1 \in 0..MaxEvents
    BY <1>2, BoundAssumption
  <2>4. QED
    BY <1>2, <1>3, <2>1, <2>2, <2>3 DEF IInv, TypeOK
<1>5. LatestSeq(events) = n
  BY <1>1, BoundAssumption, LatestSeqIsLength
<1>6. \A a \in acked : a.seq \in 1..n
  BY <1>1 DEF IInv, TypeOK
<1>7. \A u \in Writers : pc[u] = "committed" => call[u].seq \in 1..n
  BY <1>1 DEF IInv, CallsOK, CallOK
<1>8. ASSUME NEW v \in Writers PROVE CallOK(v)'
  <2>1. lock' # v /\ pc'[v] # "inserted"
    <3>1. lock = w
      BY <1>3 DEF IInv, CallsOK, CallOK
    <3>2. QED
      BY <1>3, <3>1, WriterAssumption DEF IInv, TypeOK, CallsOK, CallOK
  <2>2. CASE v = w
    BY <1>2, <1>3, <1>6, <1>7, <2>1, <2>2, BoundAssumption DEF IInv, TypeOK, CallsOK, CallOK
  <2>3. CASE v # w
    <3>1. pc'[v] = pc[v]
      BY <1>3, <2>3 DEF IInv, TypeOK
    <3>2. pc[v] = "selected" => call[v].seq \in DOMAIN events'
      BY <1>1, <1>2, <1>5, BoundAssumption DEF IInv, CallsOK, CallOK, Fresh, NextSeq
    <3>3. pc[v] = "committed" =>
            /\ call[v].seq \in DOMAIN events'
            /\ call[v].row = events'[call[v].seq]
            /\ \A u \in Writers \ {v} : pc'[u] = "committed" => call[u].seq # call[v].seq
      BY <1>1, <1>2, <1>3, <1>7, BoundAssumption DEF IInv, TypeOK, CallsOK, CallOK
    <3>4. QED
      BY <1>3, <2>1, <3>1, <3>2, <3>3 DEF IInv, CallsOK, CallOK
  <2>4. QED
    BY <2>2, <2>3
<1>9. QED
  BY <1>2, <1>4, <1>8 DEF IInv, CallsOK

\* append_event returns: its seq was reported to nobody else.
LEMMA ReturnStep ==
    ASSUME IInv, NEW w \in Writers, Return(w)
    PROVE  IInv'
<1> USE DEF Return, Transition
<1>1. /\ pc[w] = "committed" /\ pc'[w] = "idle"
      /\ call[w].seq \in DOMAIN events /\ call[w].row.body \in Bodies
  BY DEF IInv, TypeOK, CallsOK, CallOK
<1>2. TypeOK'
  BY <1>1, SameTable DEF IInv, TypeOK
<1>3. ASSUME NEW v \in Writers PROVE CallOK(v)'
  <2>1. CASE v = w
    BY <1>1, <2>1 DEF IInv, CallsOK, CallOK
  <2>2. CASE v # w
    <3>1. pc'[v] = pc[v] /\ call'[v] = call[v]
      BY <2>2 DEF IInv, TypeOK
    <3>2. \A u \in Writers : pc'[u] = "committed" => pc[u] = "committed" /\ call'[u] = call[u]
      BY DEF IInv, TypeOK
    <3>3. Fresh(v) => Fresh(v)'
      BY <3>1, SameTable DEF Fresh, NextSeq
    <3>4. pc[v] = "committed" => \A a \in acked' : a.seq # call[v].seq
      BY <1>1, <2>2 DEF IInv, CallsOK, CallOK
    <3>5. QED
      BY <3>1, <3>2, <3>3, <3>4 DEF IInv, CallsOK, CallOK
  <2>3. QED
    BY <2>1, <2>2
<1>4. QED
  BY <1>2, <1>3, SameTable DEF IInv, CallsOK

\* Every step of every writer preserves the invariant.
LEMMA NextIInv == IInv /\ [Next]_vars => IInv'
<1> SUFFICES ASSUME IInv, [Next]_vars PROVE IInv'
  OBVIOUS
<1>1. ASSUME NEW w \in Writers, Step(w) PROVE IInv'
  <2>1. ASSUME NEW b \in Bodies, SelectLatest(w, b) PROVE IInv'
    BY <2>1, SelectStep
  <2>2. CASE Insert(w)
    BY <2>2, InsertStep
  <2>3. CASE InsertConflict(w)
    <3>1. Raise(w, "selected") /\ lock' = IF lock = w THEN NoWriter ELSE lock
      BY <2>3, WriterAssumption DEF InsertConflict
    <3>2. QED
      BY <3>1, RaiseStep
  <2>4. CASE InsertBusy(w)
    <3>1. Raise(w, "selected") /\ lock # w
      BY <2>4 DEF InsertBusy, Raise, Transition, IInv, CallsOK, CallOK
    <3>2. lock' = IF lock = w THEN NoWriter ELSE lock
      BY <2>4, <3>1 DEF InsertBusy
    <3>3. QED
      BY <3>1, <3>2, RaiseStep
  <2>5. CASE Commit(w)
    BY <2>5, CommitStep
  <2>6. CASE Return(w)
    BY <2>6, ReturnStep
  <2>7. CASE Crash(w)
    BY <2>7, RaiseStep DEF Crash
  <2>8. QED
    BY <1>1, <2>1, <2>2, <2>3, <2>4, <2>5, <2>6, <2>7 DEF Step
<1>2. CASE UNCHANGED vars
  BY <1>2 DEF vars, IInv, TypeOK, ChainVerifies, CallsOK, CallOK, Fresh, NextSeq
<1>3. QED
  BY <1>1, <1>2 DEF Next

\* The invariant holds throughout.
THEOREM Inductive == Spec => []IInv
BY InitIInv, NextIInv, PTL DEF Spec

\* The variables keep their types and the table never has a gap.
THEOREM TypeCorrect == Spec => []TypeOK
BY Inductive, PTL DEF IInv

\* Ledger.verify_chain succeeds in every state, however many processes append
\* to the ledger and whichever of them fail.
THEOREM AlwaysVerifies == Spec => []ChainVerifies
BY Inductive, PTL DEF IInv

\* At every point of append_event a writer holds a row that extends the table,
\* a row whose seq is taken, or a committed row of its own.
THEOREM CallsCorrect == Spec => []CallsOK
BY Inductive, PTL DEF IInv

-----------------------------------------------------------------------------
\* The log that the table stands for.
LogOfEvents == [s \in DOMAIN events |-> events[s].body]

\* The log is a sequence of bodies as long as the table.
LEMMA LogIsSeq ==
    ASSUME IInv, NEW n \in 0..MaxEvents, DOMAIN events = 1..n
    PROVE  LogOfEvents \in Seq(Bodies) /\ Len(LogOfEvents) = n
<1>1. LogOfEvents \in [1..n -> Bodies]
  BY DEF IInv, TypeOK, LogOfEvents
<1>2. QED
  BY <1>1, BoundAssumption

\* A COMMIT appends its row's body to the log; Return acknowledges it; every
\* other step leaves log and acknowledgements alone.
LEMMA StepRefines ==
    ASSUME IInv, [Next]_vars
    PROVE  [AbstractLog!Next]_(AbstractLog!logVars)
<1> DEFINE log == LogOfEvents
<1>1. CASE UNCHANGED vars
  BY <1>1 DEF vars, AbstractLog!logVars
<1>2. ASSUME NEW w \in Writers, Step(w)
      PROVE  [AbstractLog!Next]_(AbstractLog!logVars)
  <2>1. PICK n \in 0..MaxEvents : DOMAIN events = 1..n
    BY DEF IInv, TypeOK
  <2>2. log \in Seq(Bodies) /\ Len(log) = n
    BY <2>1, LogIsSeq
  <2>3. CASE UNCHANGED <<events, acked>>
    BY <2>3 DEF AbstractLog!logVars
  <2>4. CASE Commit(w)
    <3>1. /\ call[w].seq = n + 1
          /\ DOMAIN events' = 1..(n + 1)
          /\ \A s \in 1..n : events'[s] = events[s]
          /\ events'[n + 1].body \in Bodies
      BY <2>1, <2>4, CommitTable
    <3> PICK b \in Bodies : b = events'[n + 1].body
      BY <3>1
    <3>2. Append(log, b) = [s \in 1..(n + 1) |-> IF s = n + 1 THEN b ELSE log[s]]
      BY <2>2, BoundAssumption
    <3>3. log' = [s \in 1..(n + 1) |-> events'[s].body]
      BY <3>1 DEF LogOfEvents
    <3>4. \A s \in 1..n : log[s] = events[s].body
      BY <2>1 DEF LogOfEvents
    <3>5. log' = Append(log, b)
      BY <3>1, <3>2, <3>3, <3>4, BoundAssumption
    <3>6. acked' = acked
      BY <2>4 DEF Commit
    <3>7. AbstractLog!Extend(b)
      BY <3>5, <3>6 DEF AbstractLog!Extend, LogOfEvents
    <3>8. QED
      BY <3>7 DEF AbstractLog!Next
  <2>5. CASE Return(w)
    <3> DEFINE s == call[w].seq
    <3>1. /\ pc[w] = "committed" /\ s \in 1..n /\ events[s] = call[w].row
          /\ \A a \in acked : a.seq # s
      BY <2>1, <2>5 DEF Return, Transition, IInv, CallsOK, CallOK
    <3>2. log[s] = call[w].row.body
      BY <2>1, <3>1 DEF LogOfEvents
    <3>3. AbstractLog!Acknowledge(w, s)
      BY <2>5, <3>1, <3>2 DEF Return, AbstractLog!Acknowledge, LogOfEvents
    <3>4. s \in 1..Len(log)
      BY <2>2, <3>1
    <3>5. QED
      BY <3>3, <3>4 DEF AbstractLog!Next, LogOfEvents
  <2>6. QED
    BY <1>2, <2>3, <2>4, <2>5
       DEF Step, SelectLatest, Insert, InsertConflict, InsertBusy, Crash, Raise
<1>3. QED
  BY <1>1, <1>2 DEF Next

\* The SQLite ledger implements the append-only log: rows are only added at the
\* end, and a caller that gets a LedgerEvent is the only one told of that seq,
\* with the body that the table holds there.
THEOREM Refines == Spec => ImplementsAppendLog
<1>1. Init => AbstractLog!Init
  <2> SUFFICES ASSUME Init PROVE AbstractLog!Init
    OBVIOUS
  <2>1. [s \in DOMAIN events |-> events[s].body] = <<>>
    BY DEF Init
  <2>2. QED
    BY <2>1 DEF Init, AbstractLog!Init
<1>2. QED
  BY <1>1, StepRefines, Inductive, PTL DEF Spec, ImplementsAppendLog, AbstractLog!Spec
=============================================================================
