------------------------------ MODULE LedgerDb ------------------------------
(***************************************************************************)
(* The SQLite ledger: table "events", appended to by any number of         *)
(* processes with Ledger.append_event and read by Ledger.verify_chain.     *)
(*                                                                         *)
(* append_event runs on one connection but not in one transaction: the     *)
(* SELECT of the latest row runs in autocommit mode, sqlite3 opens the     *)
(* transaction at the INSERT, and the with-block commits it.  Between the  *)
(* two another process may commit.  What keeps the chain whole is that seq *)
(* is the PRIMARY KEY.                                                     *)
(***************************************************************************)
EXTENDS Naturals

CONSTANTS Writers,      \* processes that append
          Bodies,       \* event type with canonical payload bytes
          NoWriter,     \* nobody holds the write lock
          MaxEvents     \* bound: no append starts at this length or beyond

ASSUME WriterAssumption == NoWriter \notin Writers
ASSUME BoundAssumption  == MaxEvents \in Nat

VARIABLES events,   \* committed rows, by seq
          lock,     \* the writer inside a write transaction (RESERVED lock)
          pc,       \* where each writer is in append_event
          call,     \* the row each writer is working on, with its seq
          acked     \* history: the LedgerEvents returned, with their caller

vars == <<events, lock, pc, call, acked>>

-----------------------------------------------------------------------------
\* "0" * 64
Genesis == <<>>

\* sha256 over prev_hash, payload, event type and seq: injective.
Digest(prev, body, seq) == <<prev, body, seq>>

Row(body, prev, seq) ==
    [body |-> body, prev |-> prev, hash |-> Digest(prev, body, seq)]

\* Fault: an empty table counted as one row.
LatestSeqFromOne(rows) ==
    IF DOMAIN rows = {} THEN 1
    ELSE CHOOSE s \in DOMAIN rows : \A t \in DOMAIN rows : t <= s

\* SELECT seq ... ORDER BY seq DESC LIMIT 1, with 0 for an empty table
LatestSeq(rows) ==
    IF DOMAIN rows = {} THEN 0
    ELSE CHOOSE s \in DOMAIN rows : \A t \in DOMAIN rows : t <= s

LatestHash(rows) ==
    IF DOMAIN rows = {} THEN Genesis ELSE rows[LatestSeq(rows)].hash

\* The row before s carries the hash that row s must name as its predecessor.
PrevHash(rows, s) == IF s = 1 THEN Genesis ELSE rows[s - 1].hash

\* What verify_chain accepts: reading in the order of seq it meets 1, 2, 3...,
\* each row naming its predecessor and carrying the recomputed hash.
VerifyChain(rows) ==
    /\ \A s \in DOMAIN rows : s = 1 \/ s - 1 \in DOMAIN rows
    /\ \A s \in DOMAIN rows :
        /\ rows[s].prev = PrevHash(rows, s)
        /\ rows[s].hash = Digest(PrevHash(rows, s), rows[s].body, s)

-----------------------------------------------------------------------------
NoCall == [seq |-> 0, row |-> Genesis]

Transition(w, from, to) ==
    /\ pc[w] = from
    /\ pc' = [pc EXCEPT ![w] = to]

Init ==
    /\ events = <<>>
    /\ lock = NoWriter
    /\ pc = [w \in Writers |-> "idle"]
    /\ call = [w \in Writers |-> NoCall]
    /\ acked = {}

\* append_event(b): read the latest row and compute the new one.
SelectLatest(w, b) ==
    /\ LatestSeq(events) < MaxEvents
    /\ Transition(w, "idle", "selected")
    /\ LET seq == LatestSeq(events) + 1
       IN call' = [call EXCEPT ![w] =
                       [seq |-> seq, row |-> Row(b, LatestHash(events), seq)]]
    /\ UNCHANGED <<events, lock, acked>>

\* Fault: INSERT OR REPLACE.
InsertOrReplace(w) ==
    /\ lock = NoWriter
    /\ Transition(w, "selected", "inserted")
    /\ lock' = w
    /\ UNCHANGED <<events, call, acked>>

\* INSERT opens the transaction: it takes the write lock and the key is free.
Insert(w) ==
    /\ lock = NoWriter
    /\ call[w].seq \notin DOMAIN events
    /\ Transition(w, "selected", "inserted")
    /\ lock' = w
    /\ UNCHANGED <<events, call, acked>>

\* The append raises and nothing of it remains; no caller tries again.
Raise(w, from) ==
    /\ Transition(w, from, "idle")
    /\ call' = [call EXCEPT ![w] = NoCall]
    /\ UNCHANGED <<events, acked>>

\* Fault: INSERT OR IGNORE, so that the caller is told its event was recorded.
InsertOrIgnore(w) ==
    /\ lock = NoWriter
    /\ call[w].seq \in DOMAIN events
    /\ Transition(w, "selected", "committed")
    /\ UNCHANGED <<events, lock, call, acked>>

\* INSERT of a seq that was committed since the SELECT: IntegrityError.
InsertConflict(w) ==
    /\ lock = NoWriter
    /\ call[w].seq \in DOMAIN events
    /\ Raise(w, "selected")
    /\ UNCHANGED lock

\* Fault: no busy timeout, the INSERT waits for as long as the lock is held.
InsertWaits(w) == FALSE

\* INSERT that waits out the busy timeout: OperationalError.
InsertBusy(w) ==
    /\ lock \in Writers
    /\ Raise(w, "selected")
    /\ UNCHANGED lock

\* Leaving the with-block commits the row.
Commit(w) ==
    /\ Transition(w, "inserted", "committed")
    /\ events' = [s \in DOMAIN events \cup {call[w].seq} |->
                     IF s = call[w].seq THEN call[w].row ELSE events[s]]
    /\ lock' = NoWriter
    /\ UNCHANGED <<call, acked>>

\* append_event returns its LedgerEvent.
Return(w) ==
    /\ Transition(w, "committed", "idle")
    /\ acked' = acked \cup {[by |-> w, seq |-> call[w].seq, body |-> call[w].row.body]}
    /\ call' = [call EXCEPT ![w] = NoCall]
    /\ UNCHANGED <<events, lock>>

\* The process dies, or its COMMIT fails: an open transaction is rolled back.
Crash(w) ==
    /\ \/ Raise(w, "selected") \/ Raise(w, "inserted") \/ Raise(w, "committed")
    /\ lock' = IF lock = w THEN NoWriter ELSE lock

Step(w) ==
    \/ \E b \in Bodies : SelectLatest(w, b)
    \/ Insert(w)
    \/ InsertConflict(w)
    \/ InsertBusy(w)
    \/ Commit(w)
    \/ Return(w)
    \/ Crash(w)

Next == \E w \in Writers : Step(w)

Spec == Init /\ [][Next]_vars

\* A call that was started ends: Python runs it, SQLite answers or times out.
Progress(w) ==
    \/ Insert(w) \/ InsertConflict(w) \/ InsertBusy(w) \/ Commit(w) \/ Return(w)

FairSpec == Spec /\ \A w \in Writers : WF_vars(Progress(w))

-----------------------------------------------------------------------------
NextSeq == LatestSeq(events) + 1

\* The row of call w is the successor of the last committed row.
Fresh(w) ==
    /\ call[w].seq = NextSeq
    /\ \E b \in Bodies : call[w].row = Row(b, LatestHash(events), NextSeq)

\* Types of the variables; the table has no gap because rows are never deleted.
TypeOK ==
    /\ \E n \in 0..MaxEvents : DOMAIN events = 1..n
    /\ \A s \in DOMAIN events : events[s].body \in Bodies
    /\ lock \in Writers \cup {NoWriter}
    /\ pc \in [Writers -> {"idle", "selected", "inserted", "committed"}]
    /\ DOMAIN call = Writers
    /\ acked \subseteq [by : Writers, seq : DOMAIN events, body : Bodies]

\* What each writer knows at each point of append_event.  The row computed
\* outside the transaction either extends the table still or carries a seq that
\* is taken; the lock is held exactly inside the transaction; a committed row
\* is in the table, for one writer, and nobody was told of it yet.
CallOK(w) ==
    /\ pc[w] # "idle" => call[w].seq \in 1..MaxEvents /\ call[w].row.body \in Bodies
    /\ pc[w] = "selected" => Fresh(w) \/ call[w].seq \in DOMAIN events
    /\ lock = w <=> pc[w] = "inserted"
    /\ pc[w] = "inserted" => Fresh(w)
    /\ pc[w] = "committed" =>
        /\ call[w].seq \in DOMAIN events
        /\ call[w].row = events[call[w].seq]
        /\ \A a \in acked : a.seq # call[w].seq
        /\ \A v \in Writers \ {w} :
               pc[v] = "committed" => call[v].seq # call[w].seq

CallsOK == \A w \in Writers : CallOK(w)

\* verify_chain succeeds whenever it is run, whatever the writers are doing:
\* the key conflict stops the append that would fork or overwrite the chain.
ChainVerifies == VerifyChain(events)

\* The table implements an append-only log whose callers never share a
\* position (see AppendLog).
AbstractLog ==
    INSTANCE AppendLog WITH Callers <- Writers,
                            log <- [s \in DOMAIN events |-> events[s].body]

ImplementsAppendLog == AbstractLog!Spec

\* No append waits for ever, though it may raise: the write lock is always
\* given up and a writer that cannot get it times out.
EveryCallEnds == \A w \in Writers : pc[w] # "idle" ~> pc[w] = "idle"
=============================================================================
