----------------------------- MODULE LedgerChain -----------------------------
(***************************************************************************)
(* The JSON-lines ledger ledger.chain.jsonl: append_event reads the hash   *)
(* of the last line, then opens the file for appending and writes one      *)
(* line.  There is no lock and no transaction: what two processes that     *)
(* overlap do to the file, and what a crash in the middle of the write     *)
(* leaves behind, is what this module is about.                            *)
(***************************************************************************)
EXTENDS Naturals, Sequences

CONSTANTS Writers,      \* processes that append
          Bodies,       \* time stamp, kind and payload of an event
          WideBodies,   \* those whose line is longer than the 4096 bytes read back
          MaxLines,     \* bound: no append starts at this length or beyond
          MaxCrashes    \* bound on crashes in the middle of a write

ASSUME BodyAssumption  == WideBodies \subseteq Bodies
ASSUME BoundAssumption == MaxLines \in Nat /\ MaxCrashes \in Nat

VARIABLES file,     \* the lines of the file, in order
          pc,       \* where each writer is in append_event
          call,     \* what each writer is about to write
          acked,    \* history: the events whose append_event returned
          crashes,  \* history: writes cut short so far
          overlap   \* history: some append began before another had written

vars == <<file, pc, call, acked, crashes, overlap>>

-----------------------------------------------------------------------------
\* "0" * 64
Genesis == <<>>

\* sha256 over the canonical event with its own hash blanked: injective.
Digest(prev, body) == <<prev, body>>

Event(body, prev) == [body |-> body, prev |-> prev, hash |-> Digest(prev, body)]

NoEvent == [body |-> Genesis, prev |-> Genesis, hash |-> Genesis]

\* A line is an event or text that json.loads rejects; only the last line of
\* the file can lack its newline.
Whole(event)   == [ok |-> TRUE, event |-> event, ended |-> TRUE]
Unended(event) == [ok |-> TRUE, event |-> event, ended |-> FALSE]
Damaged(ended) == [ok |-> FALSE, event |-> NoEvent, ended |-> ended]

LastLine == file[Len(file)]

HasDamage(lines) == \E i \in DOMAIN lines : ~lines[i].ok

\* Hash that line i must name as its predecessor.
PrevHash(lines, i) == IF i = 1 THEN Genesis ELSE lines[i - 1].event.hash

\* Fault: lines that are not JSON are skipped like blank ones.
VerifyChainSkipping(lines) ==
    LET good == SelectSeq(lines, LAMBDA line : line.ok)
    IN \A i \in DOMAIN good :
        /\ good[i].event.prev = PrevHash(good, i)
        /\ good[i].event.hash = Digest(PrevHash(good, i), good[i].event.body)

\* What verify_chain accepts.
VerifyChain(lines) ==
    /\ ~HasDamage(lines)
    /\ \A i \in DOMAIN lines :
        /\ lines[i].event.prev = PrevHash(lines, i)
        /\ lines[i].event.hash = Digest(PrevHash(lines, i), lines[i].event.body)

\* Fault: a last line that does not parse counts as an empty file.
LastLineTolerated ==
    file # <<>> => LastLine.event.body \notin WideBodies

\* _read_last_hash parses the last line out of the last 4096 bytes: it raises
\* on damage and on a line that does not fit.
LastLineParses ==
    file # <<>> => LastLine.ok /\ LastLine.event.body \notin WideBodies

\* Fault: the first line is read instead of the last.
ReadFirstHash == IF file = <<>> THEN Genesis ELSE file[1].event.hash

ReadLastHash == IF file = <<>> THEN Genesis ELSE LastLine.event.hash

\* Fault: the text always starts a new line.
AppendLine(line) == Append(file, line)

\* handle.write in append mode: text goes after whatever the file ends with,
\* so it continues a last line that has no newline.
AppendText(line) ==
    IF file # <<>> /\ ~LastLine.ended
    THEN [file EXCEPT ![Len(file)] = Damaged(line.ended)]
    ELSE Append(file, line)

-----------------------------------------------------------------------------
Transition(w, from, to) ==
    /\ pc[w] = from
    /\ pc' = [pc EXCEPT ![w] = to]

Init ==
    /\ file = <<>>
    /\ pc = [w \in Writers |-> "idle"]
    /\ call = [w \in Writers |-> NoEvent]
    /\ acked = {}
    /\ crashes = 0
    /\ overlap = FALSE

\* append_event reads the last hash and builds its event.
ReadLast(w, b) ==
    /\ Len(file) < MaxLines
    /\ LastLineParses
    /\ Transition(w, "idle", "read")
    /\ call' = [call EXCEPT ![w] = Event(b, ReadLastHash)]
    /\ overlap' = (overlap \/ \E v \in Writers \ {w} : pc[v] = "read")
    /\ UNCHANGED <<file, acked, crashes>>

\* It writes its line and returns the hash.
Write(w) ==
    /\ Transition(w, "read", "idle")
    /\ file' = AppendText(Whole(call[w]))
    /\ acked' = acked \cup {call[w]}
    /\ call' = [call EXCEPT ![w] = NoEvent]
    /\ UNCHANGED <<crashes, overlap>>

\* The process dies around its write: nothing reached the disk, a piece of
\* the line did, all but the newline did, or all of it did.
Crash(w) ==
    /\ crashes < MaxCrashes
    /\ Transition(w, "read", "idle")
    /\ \/ UNCHANGED file
       \/ file' = AppendText(Damaged(FALSE))
       \/ file' = AppendText(Unended(call[w]))
       \/ file' = AppendText(Whole(call[w]))
    /\ call' = [call EXCEPT ![w] = NoEvent]
    /\ crashes' = crashes + 1
    /\ UNCHANGED <<acked, overlap>>

Step(w) ==
    \/ \E b \in Bodies : ReadLast(w, b)
    \/ Write(w)
    \/ Crash(w)

Next == \E w \in Writers : Step(w)

Spec == Init /\ [][Next]_vars

-----------------------------------------------------------------------------
\* Types of the variables; a line without newline can only be the last one.
TypeOK ==
    /\ file \in Seq({file[i] : i \in DOMAIN file})
    /\ \A i \in DOMAIN file : ~file[i].ended => i = Len(file)
    /\ pc \in [Writers -> {"idle", "read"}]
    /\ DOMAIN call = Writers
    /\ crashes \in 0..MaxCrashes
    /\ overlap \in BOOLEAN

\* While appends do not overlap, only a writer that found the chain whole is
\* about to write, and what it writes names the last line.
WriterFollowsLast ==
    ~overlap =>
        \A w \in Writers : pc[w] = "read" =>
            /\ \A v \in Writers \ {w} : pc[v] = "idle"
            /\ VerifyChain(file)
            /\ call[w] = Event(call[w].body, ReadLastHash)

\* verify_chain succeeds whenever it is run.
ChainVerifies == VerifyChain(file)

\* Appends that run one after the other, without a crash, keep the chain whole.
SequentialVerifies == ~overlap /\ crashes = 0 => VerifyChain(file)

\* No event is lost silently, whatever overlaps or crashes: as long as
\* verify_chain succeeds the file holds every event an append returned for.
AckedOrDetected ==
    VerifyChain(file) =>
        \A e \in acked : \E i \in DOMAIN file : file[i].event = e

\* Crashes alone damage the end of the file only: what precedes the last line
\* still verifies.
DamageIsLast ==
    ~overlap =>
        /\ VerifyChain(SubSeq(file, 1, Len(file) - 1))
        /\ HasDamage(file) \/ VerifyChain(file)

\* After damage no append succeeds any more, so that no later event can bury
\* the damaged line.
FailStop == [][~overlap /\ HasDamage(file) => acked' = acked /\ Len(file') = Len(file)]_vars
=============================================================================
