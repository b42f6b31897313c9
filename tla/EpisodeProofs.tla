---------------------------- MODULE EpisodeProofs ----------------------------
(***************************************************************************)
(* What the records of episodes say, for any processes, tasks, verdicts    *)
(* and faults.  The invariant follows one episode through its pipeline     *)
(* (EpisodeOK), and adds who may write into a run directory while no two   *)
(* episodes overlap (DirOK).  Counting directories (NameInv) shows that an *)
(* episode comes to the end of the names it tries.  RaisedOK follows the   *)
(* directories of episodes that raised, TornOK torn solutions to whoever   *)
(* tore them.                                                              *)
(***************************************************************************)
EXTENDS Episode, FiniteSetTheorems, TLAPS

Active(p) == pc[p] \notin Resting

\* Where an episode has a directory of its own and has not recorded it.
Unrecorded == {"mkdir", "solve", "storing", "verify", "repair", "decide", "putucr", "ucrfile",
               "witnessfile", "db"}
Unwritten  == Unrecorded \ {"witnessfile", "db"}
Solved     == {"storing", "verify", "repair", "decide", "putucr", "ucrfile", "witnessfile", "db",
               "chain"}
Packed     == {"putucr", "ucrfile", "witnessfile", "db", "chain"}
Stored     == Packed \ {"putucr"}

\* What an episode has done so far.
EpisodeOK(p) ==
    /\ Active(p) => /\ ucr[p].task \in Tasks /\ dir[p].task = ucr[p].task
                    /\ ucr[p].serial \in Serials
    /\ pc[p] \in {"name", "mkdir", "solve", "storing", "verify"} => ucr[p].action = "refuse"
    /\ ucr[p].action = "answer" => ucr[p].failed = {}
    /\ sink = "disk" /\ pc[p] \in Solved => Solution(ucr[p].task) \in stored
    /\ pc[p] \in Packed => \A y \in {"witness_packet", "capsule"} : Artifact(y, ucr[p]) \in stored
    /\ pc[p] \in Stored => Artifact("ucr", ucr[p]) \in stored
    /\ pc[p] \in {"chain", "done"} => Recorded(p, db)
    /\ pc[p] = "done" => Recorded(p, chain)

\* What is in the directory of an episode that overlaps with no other.
DirOK(p) ==
    /\ pc[p] \in Unwritten /\ dir[p] \in dirs =>
          ucrFile[dir[p]] = Absent /\ witnessFile[dir[p]] = Absent
    /\ pc[p] \in Unrecorded => \A i \in DOMAIN db : db[i].dir # dir[p]
    /\ pc[p] \in {"witnessfile", "db"} => ucrFile[dir[p]] = Whole(ucr[p].serial)
    /\ pc[p] = "db" => witnessFile[dir[p]] = Whole(ucr[p].serial)

\* No two episodes are active before an overlap.
Alone == ~overlap => \A p, q \in Processes : Active(p) /\ Active(q) => p = q

DbDirs == \A i \in DOMAIN db : db[i].dir \in dirs

SolutionStored == sink = "disk" => \A d \in dirs : Readable(d) => Solution(d.task) \in stored

IInv == /\ TypeOK
        /\ \A p \in Processes : EpisodeOK(p)
        /\ ~overlap => \A p \in Processes : DirOK(p)
        /\ Alone /\ DbDirs
        /\ EventIsBacked /\ FailClosed /\ SolutionStored

-----------------------------------------------------------------------------
\* A ledger with one more event.
LEMMA Appended ==
    ASSUME NEW S, NEW s \in Seq(S), NEW e \in S
    PROVE  /\ Append(s, e) \in Seq(S)
           /\ Len(Append(s, e)) = Len(s) + 1
           /\ DOMAIN Append(s, e) = DOMAIN s \cup {Len(s) + 1}
           /\ \A i \in DOMAIN s : Append(s, e)[i] = s[i]
           /\ Append(s, e)[Len(s) + 1] = e
  OBVIOUS

\* A step of p as the other episodes see it.
Frame(p) ==
    /\ \A q \in Processes \ {p} : pc'[q] = pc[q] /\ ucr'[q] = ucr[q] /\ dir'[q] = dir[q]
    /\ sink' = sink /\ repair' = repair
    /\ stored \subseteq stored'
    /\ db' = db \/ (Event(p) \in Events /\ db' = Append(db, Event(p)))
    /\ chain' = chain \/ (Event(p) \in Events /\ chain' = Append(chain, Event(p)))

\* A ledger that is extended or stays keeps its events.
LEMMA StaysRecorded ==
    ASSUME NEW led \in Seq(Events), NEW new, NEW e,
           new = led \/ (e \in Events /\ new = Append(led, e)), NEW i \in DOMAIN led
    PROVE  i \in DOMAIN new /\ new[i] = led[i]
  <1>1. CASE new = led
    BY <1>1
  <1>2. CASE e \in Events /\ new = Append(led, e)
    BY <1>2, Appended
  <1> QED
    BY <1>1, <1>2

\* A step of p leaves what the other episodes have done.
LEMMA OthersGoOn ==
    ASSUME TypeOK, NEW p \in Processes, NEW q \in Processes \ {p}, Frame(p), EpisodeOK(q)
    PROVE  EpisodeOK(q)'
  <1>1. /\ pc'[q] = pc[q] /\ ucr'[q] = ucr[q] /\ dir'[q] = dir[q]
        /\ sink' = sink /\ repair' = repair /\ stored \subseteq stored'
    BY DEF Frame
  <1>2. /\ \A i \in DOMAIN db : i \in DOMAIN db' /\ db'[i] = db[i]
        /\ \A i \in DOMAIN chain : i \in DOMAIN chain' /\ chain'[i] = chain[i]
    <2>1. db \in Seq(Events) /\ chain \in Seq(Events)
      BY DEF TypeOK
    <2>2. /\ db' = db \/ (Event(p) \in Events /\ db' = Append(db, Event(p)))
          /\ chain' = chain \/ (Event(p) \in Events /\ chain' = Append(chain, Event(p)))
      BY DEF Frame
    <2> QED
      BY <2>1, <2>2, StaysRecorded
  <1>3. Event(q)' = Event(q)
    BY <1>1 DEF Event
  <1>4. /\ (pc[q] \in {"chain", "done"} => Recorded(q, db))'
        /\ (pc[q] = "done" => Recorded(q, chain))'
    BY <1>1, <1>2, <1>3 DEF EpisodeOK, Recorded
  <1> QED
    BY <1>1, <1>4 DEF EpisodeOK, Active, Artifact, Solution

\* The state at the start satisfies the invariant.
LEMMA InitOK == Init => IInv
  <1> SUFFICES ASSUME Init PROVE IInv
    OBVIOUS
  <1> USE DEF Init, Resting, Absent
  <1>1. TypeOK
    <2>1. NoUcr \in Ucrs
      BY BoundAssumption DEF NoUcr, Ucrs
    <2>2. ucrFile \in [dirs -> FileType] /\ witnessFile \in [dirs -> FileType]
      OBVIOUS
    <2>3. db \in Seq(Events) /\ chain \in Seq(Events)
      OBVIOUS
    <2>4. ucr \in [Processes -> Ucrs] /\ sink \in {"disk", "off", "tmpfs"} /\ repair \in BOOLEAN
      BY <2>1, FlagAssumption
    <2>5. episodes \in 0..MaxEpisodes /\ faults \in 0..MaxFaults
      BY BoundAssumption
    <2> QED
      BY <2>2, <2>3, <2>4, <2>5 DEF TypeOK, Places
  <1>2. \A p \in Processes : EpisodeOK(p)
    BY DEF EpisodeOK, Active, NoUcr, Solved, Packed, Stored
  <1>3. \A p \in Processes : DirOK(p)
    BY DEF DirOK, Unwritten, Unrecorded
  <1> QED
    BY <1>1, <1>2, <1>3 DEF IInv, Alone, Active, DbDirs, EventIsBacked, FailClosed, SolutionStored

\* It takes a step of one episode's own to keep the invariant.
LEMMA StepOK ==
    ASSUME IInv, NEW p \in Processes, Frame(p), TypeOK', EpisodeOK(p)',
           ~overlap' => /\ ~overlap
                        /\ \A q \in Processes \ {p} : ~Active(q)
                        /\ DirOK(p)',
           DbDirs', EventIsBacked', FailClosed', SolutionStored'
    PROVE  IInv'
  <1>2. \A q \in Processes : EpisodeOK(q)'
    BY OthersGoOn DEF IInv
  <1>3. \A q \in Processes \ {p} : Active(q)' = Active(q)
    BY DEF Frame, Active
  <1>4. ~overlap' => \A q \in Processes \ {p} : DirOK(q)'
    BY <1>3 DEF DirOK, Active, Resting, Unwritten, Unrecorded
  <1>5. Alone'
    BY <1>3 DEF Alone
  <1> QED
    BY <1>2, <1>4, <1>5 DEF IInv

\* An active episode is alone before an overlap.
LEMMA OnlyOne ==
    ASSUME IInv, NEW p \in Processes, Active(p), overlap' = overlap
    PROVE  ~overlap' => ~overlap /\ \A q \in Processes \ {p} : ~Active(q)
  BY DEF IInv, Alone

\* A step that touches no record.
LEMMA RecordsKept ==
    ASSUME IInv, UNCHANGED <<sink, files, stored, db>>, ~overlap' => ~overlap
    PROVE  DbDirs' /\ EventIsBacked' /\ FailClosed' /\ SolutionStored'
  <1> USE DEF files, IInv
  <1>1. DbDirs'
    BY DEF DbDirs
  <1>2. EventIsBacked'
    BY DEF EventIsBacked
  <1>3. FailClosed'
    BY DEF FailClosed
  <1>4. SolutionStored'
    BY DEF SolutionStored, Readable
  <1> QED
    BY <1>1, <1>2, <1>3, <1>4

\* The records that steps change.
LEMMA Verified ==
    ASSUME NEW u \in Ucrs, NEW f \in SUBSET Lanes
    PROVE  LET v == [u EXCEPT !.failed = f]
           IN  /\ v \in Ucrs /\ v.failed = f
               /\ v.serial = u.serial /\ v.task = u.task /\ v.action = u.action
  BY DEF Ucrs

LEMMA Decided ==
    ASSUME NEW u \in Ucrs, NEW a \in {"answer", "refuse"}
    PROVE  LET v == [u EXCEPT !.action = a]
           IN  /\ v \in Ucrs /\ v.action = a
               /\ v.serial = u.serial /\ v.task = u.task /\ v.failed = u.failed
  BY DEF Ucrs

LEMMA Renamed ==
    ASSUME NEW d \in RunDirs
    PROVE  [d EXCEPT !.n = @ + 1] \in RunDirs /\ [d EXCEPT !.n = @ + 1].task = d.task
  BY DEF RunDirs

\* An episode has a directory's name.
LEMMA InRunDirs ==
    ASSUME IInv, NEW p \in Processes, Active(p)
    PROVE  dir[p] \in RunDirs
  <1>1. dir[p] \in RunDirs \cup {[task |-> NoTask, n |-> 0]}
    BY DEF IInv, TypeOK
  <1>2. dir[p].task \in Tasks
    BY DEF IInv, EpisodeOK
  <1> QED
    BY <1>1, <1>2, TaskAssumption

LEMMA BeginOK ==
    ASSUME IInv, NEW p \in Processes, NEW t \in Tasks, Begin(p, t)
    PROVE  IInv'
  <1> DEFINE u == [NoUcr EXCEPT !.serial = episodes + 1, !.task = t]
  <1>0. u.serial = episodes + 1 /\ u.task = t /\ u.failed = {} /\ u.action = "refuse"
    BY DEF NoUcr
  <1> USE DEF Begin, environment, files, store, ledgers, Resting
  <1>1. TypeOK'
    <2> USE DEF TypeOK, IInv
    <2>1. ucr' \in [Processes -> Ucrs]
      <3>1. episodes + 1 \in 0..MaxEpisodes
        BY BoundAssumption
      <3>2. [NoUcr EXCEPT !.serial = episodes + 1, !.task = t] \in Ucrs
        BY <3>1 DEF Ucrs, NoUcr
      <3> QED
        BY <3>2
    <2>2. [task |-> t, n |-> 0] \in RunDirs
      BY DEF RunDirs
    <2>3. dir' \in [Processes -> RunDirs \cup {[task |-> NoTask, n |-> 0]}]
      BY <2>2
    <2>4. episodes' \in 0..MaxEpisodes
      BY BoundAssumption
    <2>5. \A q \in Processes : pc'[q] \in Resting \cup {"name", "mkdir"} \/ dir'[q] \in dirs'
      OBVIOUS
    <2>6. overlap' \in BOOLEAN
      OBVIOUS
    <2> QED
      BY <2>1, <2>3, <2>4, <2>5, <2>6 DEF Places
  <1>2. /\ pc'[p] = "name" /\ ucr'[p] = u
        /\ dir'[p] = [task |-> t, n |-> 0]
    BY DEF TypeOK, IInv
  <1> HIDE DEF u
  <1>3. EpisodeOK(p)'
    <2>1. ucr'[p].action = "refuse" /\ ucr'[p].task = t /\ ucr'[p].serial = episodes + 1
      BY <1>0, <1>2
    <2>2. dir'[p].task = t
      BY <1>2
    <2>4. episodes + 1 \in Serials
      BY BoundAssumption DEF IInv, TypeOK, Serials
    <2> QED
      BY <1>2, <2>1, <2>2, <2>4 DEF EpisodeOK, Active, Solved, Packed, Stored
  <1>4. DirOK(p)'
    BY <1>2 DEF DirOK, Unwritten, Unrecorded
  <1>5. ~overlap' => ~overlap /\ \A q \in Processes \ {p} : ~Active(q)
    BY DEF Active
  <1>6. Frame(p)
    BY DEF Frame, TypeOK, IInv
  <1> QED
    BY <1>1, <1>3, <1>4, <1>5, <1>6, RecordsKept, StepOK

\* The steps that choose a directory and make it.
LEMMA NameOK ==
    ASSUME IInv, NEW p \in Processes, TryNextName(p) \/ TakeName(p)
    PROVE  IInv'
  <1> USE DEF TryNextName, TakeName, Transition, environment, files, store, ledgers, history, Resting
  <1>1. pc[p] = "name"
    OBVIOUS
  <1>2. dir[p] \in RunDirs
    BY <1>1, InRunDirs DEF Active
  <1>3. pc'[p] \in {"name", "mkdir"} /\ ucr'[p] = ucr[p]
    BY DEF IInv, TypeOK
  <1>4. dir'[p] \in RunDirs /\ dir'[p].task = dir[p].task
    BY <1>2, Renamed DEF IInv, TypeOK
  <1>5. pc'[p] = "mkdir" => dir'[p] \notin dirs'
    BY <1>1 DEF IInv, TypeOK
  <1>6. TypeOK'
    <2>3. dir' \in [Processes -> RunDirs \cup {[task |-> NoTask, n |-> 0]}]
      BY <1>4 DEF IInv, TypeOK
    <2>4. \A q \in Processes : pc'[q] \in Resting \cup {"name", "mkdir"} \/ dir'[q] \in dirs'
      BY DEF IInv, TypeOK
    <2> QED
      BY <2>3, <2>4 DEF IInv, TypeOK, Places
  <1>7. EpisodeOK(p)'
    BY <1>1, <1>3, <1>4 DEF IInv, EpisodeOK, Active, Solved, Packed, Stored
  <1>8. DirOK(p)'
    BY <1>3, <1>5 DEF IInv, DirOK, DbDirs, Unwritten, Unrecorded
  <1>9. Frame(p)
    BY DEF Frame, TypeOK, IInv
  <1>10. Active(p) /\ overlap' = overlap
    BY <1>1 DEF Active
  <1> QED
    BY <1>6, <1>7, <1>8, <1>9, <1>10, OnlyOne, RecordsKept, StepOK

LEMMA MakeDirOK ==
    ASSUME IInv, NEW p \in Processes, MakeDir(p)
    PROVE  IInv'
  <1> USE DEF MakeDir, Transition, environment, files, store, ledgers, history, Resting
  <1>1. /\ pc[p] = "mkdir" /\ pc'[p] = "solve" /\ ucr'[p] = ucr[p] /\ dir'[p] = dir[p]
        /\ dirs' = dirs \cup {dir[p]}
    BY DEF IInv, TypeOK
  <1>2. dir[p] \in RunDirs
    BY <1>1, InRunDirs DEF Active
  <1>3. /\ \A d \in dirs : ucrFile'[d] = ucrFile[d] /\ witnessFile'[d] = witnessFile[d]
        /\ dir[p] \notin dirs => ucrFile'[dir[p]] = Absent /\ witnessFile'[dir[p]] = Absent
    BY DEF With
  <1>4. TypeOK'
    <2>1. ucrFile' \in [dirs' -> FileType] /\ witnessFile' \in [dirs' -> FileType]
      BY DEF IInv, TypeOK, With, FileType
    <2>2. pc' = [pc EXCEPT ![p] = "solve"] /\ dirs' \subseteq RunDirs
      BY <1>2 DEF IInv, TypeOK
    <2>3. \A q \in Processes : pc'[q] \in Resting \cup {"name", "mkdir"} \/ dir'[q] \in dirs'
      BY DEF IInv, TypeOK
    <2> QED
      BY <2>1, <2>2, <2>3 DEF IInv, TypeOK, Places
  <1>5. EpisodeOK(p)'
    BY <1>1 DEF IInv, EpisodeOK, Active, Solved, Packed, Stored
  <1>6. ~overlap => DirOK(p)'
    BY <1>1, <1>3 DEF IInv, DirOK, DbDirs, Unwritten, Unrecorded
  <1>7. Frame(p)
    BY DEF Frame, TypeOK, IInv
  <1>8. Active(p) /\ overlap' = overlap
    BY <1>1 DEF Active
  <1>9. DbDirs' /\ EventIsBacked'
    BY <1>1, <1>3 DEF IInv, DbDirs, EventIsBacked
  <1>10. FailClosed'
    BY DEF IInv, FailClosed
  <1>11. SolutionStored'
    BY <1>1, <1>3 DEF IInv, SolutionStored, Readable, Absent
  <1> QED
    BY <1>4, <1>5, <1>6, <1>7, <1>8, <1>9, <1>10, <1>11, OnlyOne, StepOK

\* The lanes give their verdicts, the repair does nothing, or one of them raises.
LEMMA VerifyOK ==
    ASSUME IInv, NEW p \in Processes,
           \/ (\E failed \in Verdicts : Verify(p, failed)) \/ SkipRepair(p)
           \/ SolveRaises(p) \/ VerifyRaises(p) \/ RepairRaises(p)
    PROVE  IInv'
  <1> USE DEF Verify, SkipRepair, SolveRaises, VerifyRaises, RepairRaises, Transition, environment,
              files, store, ledgers, history, Resting
  <1>1. ucr[p] \in Ucrs
    BY DEF IInv, TypeOK
  <1>2. /\ \/ pc[p] = "verify" /\ pc' = [pc EXCEPT ![p] = "repair"]
           \/ pc[p] = "repair" /\ pc' = [pc EXCEPT ![p] = "decide"]
           \/ pc[p] \in {"solve", "verify", "repair"} /\ pc' = [pc EXCEPT ![p] = "raised"]
        /\ UNCHANGED <<environment, dir, files, store, ledgers, history>>
    OBVIOUS
  <1>3. PICK u \in Ucrs : /\ ucr' = [ucr EXCEPT ![p] = u]
                          /\ u.task = ucr[p].task /\ u.action = ucr[p].action
                          /\ u.serial = ucr[p].serial
                          /\ pc[p] # "verify" \/ pc'[p] # "repair" => u = ucr[p]
    <2>1. CASE \E failed \in Verdicts : Verify(p, failed)
      <3>1. PICK failed \in Verdicts : Verify(p, failed)
        BY <2>1
      <3>2. failed \in SUBSET Lanes
        BY VerdictAssumption
      <3> DEFINE u == [ucr[p] EXCEPT !.failed = failed]
      <3>3. /\ u \in Ucrs /\ u.task = ucr[p].task /\ u.action = ucr[p].action
            /\ u.serial = ucr[p].serial
        BY <1>1, <3>2, Verified
      <3>4. ucr' = [ucr EXCEPT ![p] = u] /\ pc[p] = "verify" /\ pc'[p] = "repair"
        BY <3>1 DEF IInv, TypeOK
      <3> QED
        BY <3>3, <3>4
    <2>2. CASE SkipRepair(p) \/ SolveRaises(p) \/ VerifyRaises(p) \/ RepairRaises(p)
      BY <1>1, <2>2 DEF IInv, TypeOK
    <2> QED
      BY <2>1, <2>2
  <1>4. /\ ucr'[p].task = ucr[p].task /\ ucr'[p].action = ucr[p].action
        /\ ucr'[p].serial = ucr[p].serial
    BY <1>3 DEF IInv, TypeOK
  <1>5. pc[p] # "verify" \/ pc'[p] # "repair" => ucr'[p] = ucr[p]
    BY <1>3 DEF IInv, TypeOK
  <1>6. TypeOK'
    <2>1. ucr' \in [Processes -> Ucrs]
      BY <1>3 DEF IInv, TypeOK
    <2>2. pc' \in [Processes -> Places]
      BY <1>2 DEF IInv, TypeOK, Places
    <2>3. \A q \in Processes : pc'[q] \in Resting \cup {"name", "mkdir"} \/ dir'[q] \in dirs'
      BY <1>2 DEF IInv, TypeOK
    <2> QED
      BY <1>2, <2>1, <2>2, <2>3 DEF IInv, TypeOK
  <1>7. EpisodeOK(p)'
    BY <1>2, <1>4, <1>5 DEF IInv, TypeOK, EpisodeOK, Active, Solved, Packed, Stored
  <1>8. ~overlap => DirOK(p)'
    BY <1>2 DEF IInv, TypeOK, DirOK, Unwritten, Unrecorded
  <1>9. Frame(p)
    BY <1>2, <1>3 DEF Frame, TypeOK, IInv
  <1>10. Active(p) /\ overlap' = overlap
    BY <1>2 DEF Active
  <1> QED
    BY <1>2, <1>6, <1>7, <1>8, <1>9, <1>10, OnlyOne, RecordsKept, StepOK

\* The solution, the capsule, the witness packet and the UCR are put into the
\* store.
LEMMA StoreOK ==
    ASSUME IInv, NEW p \in Processes,
           \/ OpenSolution(p) \/ FillSolution(p) \/ KeepSolution(p)
           \/ DecideAndPack(p) \/ PutUcr(p)
    PROVE  IInv'
  <1> USE DEF OpenSolution, FillSolution, KeepSolution, DecideAndPack, PutUcr, Transition, environment,
              files, store, ledgers, history, Resting
  <1>1. ucr[p] \in Ucrs /\ NoUcr \in Ucrs /\ NoUcr.action = "refuse"
    BY BoundAssumption DEF IInv, TypeOK, Ucrs, NoUcr
  <1>2. PICK u \in Ucrs :
           /\ ucr' = [ucr EXCEPT ![p] = u] /\ ucr'[p] = u
           /\ u.task = ucr[p].task /\ u.serial = ucr[p].serial
           /\ u.action = "answer" => u.failed = {}
           /\ pc[p] # "decide" => u = ucr[p]
    <2>1. CASE DecideAndPack(p)
      <3> DEFINE u == [ucr[p] EXCEPT !.action = Decide(ucr[p].failed)]
      <3>1. Decide(ucr[p].failed) \in {"answer", "refuse"}
        BY DEF Decide
      <3>2. /\ u \in Ucrs /\ u.task = ucr[p].task /\ u.serial = ucr[p].serial
            /\ u.action = Decide(ucr[p].failed) /\ u.failed = ucr[p].failed
        BY <1>1, <3>1, Decided, Zenon
      <3>3. u.action = "answer" => u.failed = {}
        BY <3>2 DEF Decide
      <3>4. ucr' = [ucr EXCEPT ![p] = u] /\ ucr'[p] = u /\ pc[p] = "decide"
        BY <2>1 DEF IInv, TypeOK
      <3> QED
        BY <3>2, <3>3, <3>4
    <2>2. CASE OpenSolution(p) \/ FillSolution(p) \/ KeepSolution(p) \/ PutUcr(p)
      BY <1>1, <2>2 DEF IInv, TypeOK, EpisodeOK
    <2> QED
      BY <2>1, <2>2
  <1>3. /\ \/ /\ pc[p] = "solve" /\ pc' \in {[pc EXCEPT ![p] = "storing"], [pc EXCEPT ![p] = "verify"]}
              /\ sink = "disk" => Solution(ucr[p].task) \in stored'
           \/ pc[p] = "storing" /\ pc' = [pc EXCEPT ![p] = "verify"]
           \/ pc[p] = "decide" /\ pc' = [pc EXCEPT ![p] = "putucr"]
           \/ pc[p] = "putucr" /\ pc' = [pc EXCEPT ![p] = "ucrfile"]
        /\ UNCHANGED <<environment, dir, files, ledgers, history>>
        /\ stored \subseteq stored'
    OBVIOUS
  <1>4. \A a \in stored' \ stored : a.ucr \in {NoUcr, ucr'[p]}
    BY DEF Artifact, Solution
  <1>5. TypeOK'
    <2>1. ucr' \in [Processes -> Ucrs]
      BY <1>2 DEF IInv, TypeOK
    <2>2. pc' \in [Processes -> Places]
      BY <1>3 DEF IInv, TypeOK, Places
    <2>3. \A q \in Processes : pc'[q] \in Resting \cup {"name", "mkdir"} \/ dir'[q] \in dirs'
      BY <1>3 DEF IInv, TypeOK
    <2>4. \A a \in stored' : a.ucr \in Ucrs
      BY <1>1, <1>2, <1>4 DEF IInv, TypeOK
    <2>5. torn' \subseteq stored'
      BY DEF IInv, TypeOK
    <2> QED
      BY <1>3, <2>1, <2>2, <2>3, <2>4, <2>5 DEF IInv, TypeOK
  <1>6. EpisodeOK(p)'
    <2>1. sink = "disk" /\ pc'[p] \in Solved => Solution(ucr'[p].task) \in stored'
      BY <1>2, <1>3 DEF IInv, TypeOK, EpisodeOK, Solved
    <2>2. pc'[p] \in Packed =>
            \A y \in {"witness_packet", "capsule"} : Artifact(y, ucr'[p]) \in stored'
      BY <1>2, <1>3 DEF IInv, TypeOK, EpisodeOK, Packed
    <2>3. pc'[p] \in Stored => Artifact("ucr", ucr'[p]) \in stored'
      BY <1>2, <1>3 DEF IInv, TypeOK, Stored, Packed
    <2>4. /\ pc'[p] \notin {"name", "mkdir", "solve", "chain", "done", "failed"}
          /\ pc'[p] \in {"storing", "verify"} => ucr'[p] = ucr[p] /\ pc[p] \in {"solve", "storing"}
      BY <1>2, <1>3 DEF IInv, TypeOK
    <2>5. ucr'[p].task \in Tasks /\ dir'[p].task = ucr'[p].task /\ ucr'[p].serial \in Serials
      BY <1>2, <1>3 DEF IInv, EpisodeOK, Active
    <2> QED
      BY <1>2, <1>3, <2>1, <2>2, <2>3, <2>4, <2>5 DEF IInv, EpisodeOK, Solution, Artifact
  <1>7. ~overlap => DirOK(p)'
    BY <1>2, <1>3 DEF IInv, TypeOK, DirOK, Unwritten, Unrecorded
  <1>8. Frame(p)
    BY <1>2, <1>3 DEF Frame, TypeOK, IInv
  <1>9. Active(p) /\ overlap' = overlap
    BY <1>3 DEF Active
  <1>10. DbDirs' /\ EventIsBacked'
    BY <1>3 DEF IInv, DbDirs, EventIsBacked, Artifact
  <1>11. FailClosed'
    BY <1>1, <1>2, <1>3, <1>4 DEF IInv, FailClosed
  <1>12. SolutionStored'
    BY <1>3 DEF IInv, SolutionStored, Readable, Solution
  <1> QED
    BY <1>5, <1>6, <1>7, <1>8, <1>9, <1>10, <1>11, <1>12, OnlyOne, StepOK

\* The files of the run directory are written, or torn by a fault.
LEMMA FilesOK ==
    ASSUME IInv, NEW p \in Processes, WriteUcr(p) \/ WriteWitness(p) \/ Fault(p)
    PROVE  IInv'
  <1> USE DEF WriteUcr, WriteWitness, Fault, Transition, environment, files, store, ledgers, history,
              Resting
  <1>1. PICK to \in {"witnessfile", "db", "failed"} : pc' = [pc EXCEPT ![p] = to] /\ pc'[p] = to
    BY DEF IInv, TypeOK
  <1>2. /\ Active(p)
        /\ UNCHANGED <<environment, ucr, dir, dirs, store, ledgers, episodes, overlap>>
    BY DEF Active
  <1>3. /\ to = "witnessfile" => pc[p] = "ucrfile"
        /\ to = "db" => pc[p] = "witnessfile"
        /\ to = "failed" => faults' = faults + 1
        /\ to # "failed" => faults' = faults
    <2>1. CASE WriteUcr(p)
      BY <1>1, <2>1 DEF IInv, TypeOK
    <2>2. CASE WriteWitness(p)
      BY <1>1, <2>2 DEF IInv, TypeOK
    <2>3. CASE Fault(p)
      BY <1>1, <2>3 DEF IInv, TypeOK
    <2> QED
      BY <2>1, <2>2, <2>3
  <1>4. /\ \A d \in dirs : d # dir[p] => ucrFile'[d] = ucrFile[d] /\ witnessFile'[d] = witnessFile[d]
        /\ pc[p] # "ucrfile" => ucrFile' = ucrFile
        /\ pc[p] # "witnessfile" => witnessFile' = witnessFile
    BY DEF IInv, TypeOK, Tear
  <1>5. /\ to = "witnessfile" => ucrFile'[dir[p]] = Whole(ucr[p].serial)
        /\ to = "db" => witnessFile'[dir[p]] = Whole(ucr[p].serial)
    BY <1>1, <1>3 DEF IInv, TypeOK
  <1>6. TypeOK'
    <2>1. Whole(ucr[p].serial) \in FileType /\ Torn \in FileType
      BY <1>2 DEF IInv, EpisodeOK, FileType
    <2>5. ucrFile' \in [dirs' -> FileType] /\ witnessFile' \in [dirs' -> FileType]
      BY <2>1 DEF IInv, TypeOK, Tear
    <2>2. \A q \in Processes : pc'[q] \in Resting \cup {"name", "mkdir"} \/ dir'[q] \in dirs'
      BY <1>1, <1>2, <1>3 DEF IInv, TypeOK
    <2>3. pc' \in [Processes -> Places]
      BY <1>1 DEF IInv, TypeOK, Places
    <2>4. faults' \in 0..MaxFaults
      BY BoundAssumption DEF IInv, TypeOK
    <2> QED
      BY <1>2, <2>5, <2>2, <2>3, <2>4 DEF IInv, TypeOK
  <1>7. EpisodeOK(p)'
    <2>1. faults' > 0 \/ to # "failed"
      BY <1>3 DEF IInv, TypeOK
    <2> QED
      BY <1>1, <1>2, <1>3, <2>1 DEF IInv, EpisodeOK, Active, Solved, Packed, Stored
  <1>8. ~overlap => DirOK(p)'
    <2>1. to # "failed" => dir[p] \in dirs
      BY <1>3 DEF IInv, TypeOK
    <2> QED
      BY <1>1, <1>2, <1>3, <1>4, <1>5, <2>1 DEF IInv, DirOK, Unwritten, Unrecorded
  <1>9. Frame(p)
    BY <1>1, <1>2 DEF Frame, TypeOK, IInv
  <1>10. DbDirs' /\ FailClosed'
    BY <1>2 DEF IInv, DbDirs, FailClosed
  <1>11. EventIsBacked'
    <2>1. ~overlap => \A i \in DOMAIN db : db[i].dir # dir[p] \/ (ucrFile' = ucrFile /\ witnessFile' = witnessFile)
      BY <1>4 DEF IInv, DirOK, Unrecorded
    <2> QED
      BY <1>2, <1>4, <2>1 DEF IInv, EventIsBacked, DbDirs, Artifact
  <1>12. SolutionStored'
    <2>1. sink = "disk" /\ pc[p] = "ucrfile" => Solution(dir[p].task) \in stored
      BY <1>2 DEF IInv, EpisodeOK, Solved
    <2>2. \A d \in dirs : ucrFile'[d].state = "whole" => ucrFile[d].state = "whole" \/ (d = dir[p] /\ pc[p] = "ucrfile")
      BY <1>4
    <2> QED
      BY <1>2, <2>1, <2>2 DEF IInv, SolutionStored, Readable, Solution
  <1> QED
    BY <1>2, <1>6, <1>7, <1>8, <1>9, <1>10, <1>11, <1>12, OnlyOne, StepOK

\* The two ledgers get their event.
LEMMA LedgersOK ==
    ASSUME IInv, NEW p \in Processes, AppendDb(p) \/ AppendChain(p)
    PROVE  IInv'
  <1> USE DEF AppendDb, AppendChain, Transition, environment, files, store, history, Resting
  <1>1. /\ \/ pc[p] = "db" /\ pc' = [pc EXCEPT ![p] = "chain"] /\ pc'[p] = "chain"
           \/ pc[p] = "chain" /\ pc' = [pc EXCEPT ![p] = "done"] /\ pc'[p] = "done"
        /\ UNCHANGED <<environment, ucr, dir, files, store, history>>
    BY DEF IInv, TypeOK
  <1>2. Active(p) /\ overlap' = overlap
    BY <1>1 DEF Active
  <1>3. Event(p) \in Events
    BY <1>2, InRunDirs DEF IInv, TypeOK, Event, Events
  <1>4. /\ db \in Seq(Events) /\ chain \in Seq(Events)
        /\ \/ pc[p] = "db" /\ db' = Append(db, Event(p)) /\ chain' = chain
           \/ pc[p] = "chain" /\ db' = db /\ chain' = Append(chain, Event(p))
    BY DEF IInv, TypeOK
  <1>5. Append(chain, Event(p)) \in Seq(Events) /\ Append(db, Event(p)) \in Seq(Events)
    BY <1>3, <1>4, Appended
  <1>6. TypeOK'
    <2>1. \A q \in Processes : pc'[q] \in Resting \cup {"name", "mkdir"} \/ dir'[q] \in dirs'
      BY <1>1 DEF IInv, TypeOK
    <2>2. pc' \in [Processes -> Places]
      BY <1>1 DEF IInv, TypeOK, Places
    <2>3. db' \in Seq(Events) /\ chain' \in Seq(Events)
      BY <1>4, <1>5
    <2> QED
      BY <1>1, <2>1, <2>2, <2>3 DEF IInv, TypeOK
  <1>7. /\ \A i \in DOMAIN db' : \/ i \in DOMAIN db /\ db'[i] = db[i]
                                 \/ pc[p] = "db" /\ db'[i] = Event(p)
        /\ \A i \in DOMAIN db : i \in DOMAIN db' /\ db'[i] = db[i]
        /\ pc[p] = "db" => \E i \in DOMAIN db' : db'[i] = Event(p)
    <2>1. CASE pc[p] = "db" /\ db' = Append(db, Event(p))
      <3>1. /\ DOMAIN Append(db, Event(p)) = DOMAIN db \cup {Len(db) + 1}
            /\ \A i \in DOMAIN db : Append(db, Event(p))[i] = db[i]
            /\ Append(db, Event(p))[Len(db) + 1] = Event(p)
        BY <1>3, <1>4, Appended
      <3> QED
        BY <2>1, <3>1
    <2>2. CASE pc[p] = "chain" /\ db' = db
      BY <2>2
    <2> QED
      BY <1>4, <2>1, <2>2
  <1>8. EpisodeOK(p)'
    <2>1. \E i \in DOMAIN db' : db'[i] = Event(p)
      BY <1>1, <1>7 DEF IInv, EpisodeOK, Recorded
    <2>3. pc'[p] = "done" => \E i \in DOMAIN chain' : chain'[i] = Event(p)
      <3>1. pc'[p] = "done" => chain' = Append(chain, Event(p))
        BY <1>1, <1>4
      <3> QED
        BY <1>3, <1>4, <3>1, Appended
    <2>2. Event(p)' = Event(p)
      BY <1>1 DEF Event
    <2> QED
      BY <1>1, <2>1, <2>2, <2>3
         DEF IInv, EpisodeOK, Active, Solved, Packed, Stored, Artifact, Solution, Recorded
  <1>9. DirOK(p)'
    BY <1>1 DEF DirOK, Unwritten, Unrecorded
  <1>10. Frame(p)
    BY <1>1, <1>3, <1>4 DEF Frame, TypeOK, IInv
  <1>11. Event(p).ucr = ucr[p] /\ Event(p).dir = dir[p]
    BY DEF Event
  <1>12. DbDirs'
    BY <1>1, <1>7, <1>11 DEF IInv, TypeOK, DbDirs
  <1>13. EventIsBacked'
    <2>1. pc[p] = "db" =>
            \A y \in {"ucr", "witness_packet", "capsule"} : Artifact(y, ucr[p]) \in stored
      BY DEF IInv, EpisodeOK, Packed, Stored
    <2>2. pc[p] = "db" /\ ~overlap => /\ ucrFile[dir[p]] = Whole(ucr[p].serial)
                                      /\ witnessFile[dir[p]] = Whole(ucr[p].serial)
      BY DEF IInv, DirOK
    <2> QED
      BY <1>1, <1>7, <1>11, <2>1, <2>2 DEF IInv, EventIsBacked, Artifact
  <1>14. FailClosed'
    <2>1. ucr[p].action = "answer" => ucr[p].failed = {}
      BY DEF IInv, EpisodeOK
    <2> QED
      BY <1>1, <1>7, <1>11, <2>1 DEF IInv, FailClosed
  <1>15. SolutionStored'
    BY <1>1 DEF IInv, SolutionStored, Readable, Solution
  <1> QED
    BY <1>2, <1>6, <1>8, <1>9, <1>10, <1>12, <1>13, <1>14, <1>15, OnlyOne, StepOK

-----------------------------------------------------------------------------
\* The invariant is inductive.
THEOREM Inductive == Spec => []IInv
  <1>1. IInv /\ [Next]_vars => IInv'
    <2> SUFFICES ASSUME IInv, [Next]_vars PROVE IInv'
      OBVIOUS
    <2>1. CASE UNCHANGED vars
      <3> USE <2>1 DEF vars, environment, files, store, ledgers, history
      <3>1. TypeOK' /\ Alone'
        BY DEF IInv, TypeOK, Alone, Active
      <3>2. \A p \in Processes : EpisodeOK(p)'
        BY DEF IInv, EpisodeOK, Active, Event, Artifact, Solution, Recorded
      <3>3. ~overlap' => \A p \in Processes : DirOK(p)'
        BY DEF IInv, DirOK
      <3>4. DbDirs' /\ EventIsBacked' /\ FailClosed' /\ SolutionStored'
        BY RecordsKept
      <3> QED
        BY <3>1, <3>2, <3>3, <3>4 DEF IInv
    <2>2. CASE Next
      <3>1. PICK p \in Processes : (\E t \in Tasks : Begin(p, t)) \/ Progress(p) \/ Fault(p)
        BY <2>2 DEF Next
      <3>2. CASE \E t \in Tasks : Begin(p, t)
        BY <3>2, BeginOK
      <3>3. CASE Progress(p)
        BY <3>3, NameOK, MakeDirOK, StoreOK, VerifyOK, FilesOK, LedgersOK DEF Progress
      <3>4. CASE Fault(p)
        BY <3>4, FilesOK
      <3> QED
        BY <3>1, <3>2, <3>3, <3>4
    <2> QED
      BY <2>1, <2>2
  <1> QED
    BY InitOK, <1>1, PTL DEF Spec

\* The variables keep their types.
THEOREM TypeCorrect == Spec => []TypeOK
  <1>1. IInv => TypeOK
    BY DEF IInv
  <1> QED
    BY Inductive, <1>1, PTL

\* A ledger event never precedes what it names (run: artifacts, files, ledger).
THEOREM EventsAreBacked == Spec => []EventIsBacked
  <1>1. IInv => EventIsBacked
    BY DEF IInv
  <1> QED
    BY Inductive, <1>1, PTL

\* No record answers for an episode with a failed lane (_decide).
THEOREM AnswersFailClosed == Spec => []FailClosed
  <1>1. IInv => FailClosed
    BY DEF IInv
  <1> QED
    BY Inductive, <1>1, PTL

\* What is in a run directory is never overwritten while no episodes overlap:
\* who writes ucr.json has made the directory (_run_dir).
THEOREM FinalRecords == Spec => RecordsAreFinal
  <1> DEFINE Kept == ~overlap' => \A d \in dirs :
                        ucrFile[d].state # "absent" => ucrFile'[d] = ucrFile[d]
  <1>1. IInv /\ [Next]_vars => [Kept]_vars
    <2> SUFFICES ASSUME IInv, Next, ~overlap', NEW d \in dirs, ucrFile[d].state # "absent"
                 PROVE  ucrFile'[d] = ucrFile[d]
      OBVIOUS
    <2>1. PICK p \in Processes : (\E t \in Tasks : Begin(p, t)) \/ Progress(p) \/ Fault(p)
      BY DEF Next
    <2> USE DEF environment, files, store, ledgers, history, Transition
    <2>2. CASE WriteUcr(p) \/ (Fault(p) /\ ucrFile' # ucrFile)
      <3>1. pc[p] = "ucrfile" /\ overlap' = overlap
        BY <2>2 DEF WriteUcr, Fault
      <3>2. dir[p] # d
        BY <3>1 DEF IInv, DirOK, Unwritten, Unrecorded, Absent
      <3> QED
        BY <2>2, <3>2 DEF WriteUcr, Fault, Tear, IInv, TypeOK
    <2>3. CASE MakeDir(p)
      BY <2>3 DEF MakeDir, With
    <2>4. CASE ucrFile' = ucrFile
      BY <2>4
    <2> QED
      BY <2>1, <2>2, <2>3, <2>4
         DEF Begin, Progress, TryNextName, TakeName, OpenSolution, FillSolution, KeepSolution, SolveRaises,
             Verify, VerifyRaises, SkipRepair, RepairRaises,
             DecideAndPack, PutUcr, WriteWitness, AppendDb, AppendChain
  <1> QED
    BY Inductive, <1>1, PTL DEF Spec, RecordsAreFinal

-----------------------------------------------------------------------------
\* An episode's number tells its events from all others.
SerialsDiffer ==
    /\ \A p \in Processes : ucr[p].serial <= episodes
    /\ \A p, q \in Processes : Active(p) /\ Active(q) /\ ucr[p].serial = ucr[q].serial => p = q
    /\ \A i \in DOMAIN chain : chain[i].ucr.serial <= episodes
    /\ \A p \in Processes : Active(p) =>
          \A i \in DOMAIN chain : chain[i].ucr.serial # ucr[p].serial

Between == {q \in Processes : pc[q] = "chain"}

ChainInv == ChainFollowsDb /\ SerialsDiffer

\* How many episodes are between the ledgers after a step of p.
LEMMA BetweenStep ==
    ASSUME NEW p \in Processes, \A q \in Processes \ {p} : pc'[q] = pc[q]
    PROVE  /\ Cardinality(Between) \in Nat /\ Cardinality(Between)' \in Nat
           /\ (pc[p] = "chain") = (pc'[p] = "chain") =>
                Cardinality(Between)' = Cardinality(Between)
           /\ pc[p] # "chain" /\ pc'[p] = "chain" =>
                Cardinality(Between)' = Cardinality(Between) + 1
           /\ pc[p] = "chain" /\ pc'[p] # "chain" =>
                Cardinality(Between)' = Cardinality(Between) - 1
  <1>1. IsFiniteSet(Between) /\ IsFiniteSet(Between')
    BY ProcessAssumption, FS_Subset DEF Between
  <1>2. Cardinality(Between) \in Nat /\ Cardinality(Between') \in Nat
    BY <1>1, FS_CardinalityType
  <1>3. CASE (pc[p] = "chain") = (pc'[p] = "chain")
    <2>1. Between' = Between
      BY <1>3 DEF Between
    <2> QED
      BY <1>2, <1>3, <2>1
  <1>4. CASE pc[p] # "chain" /\ pc'[p] = "chain"
    <2>1. Between' = Between \cup {p} /\ p \notin Between
      BY <1>4 DEF Between
    <2>2. Cardinality(Between') = Cardinality(Between) + 1
      BY <1>1, <2>1, FS_AddElement
    <2> QED
      BY <1>2, <1>4, <2>2
  <1>5. CASE pc[p] = "chain" /\ pc'[p] # "chain"
    <2>1. Between' = Between \ {p} /\ p \in Between
      BY <1>5 DEF Between
    <2>2. Cardinality(Between') = Cardinality(Between) - 1
      BY <1>1, <2>1, FS_RemoveElement
    <2> QED
      BY <1>2, <1>5, <2>2
  <1> QED
    BY <1>3, <1>4, <1>5, <1>2

\* A step that appends to no ledger.
LEMMA LedgersKept ==
    ASSUME IInv, ChainInv, NEW p \in Processes, TypeOK',
           \A q \in Processes \ {p} : pc'[q] = pc[q] /\ ucr'[q] = ucr[q],
           UNCHANGED ledgers, pc'[p] # "chain", episodes' >= episodes,
           Active(p)' => \/ Active(p) /\ ucr'[p].serial = ucr[p].serial
                         \/ ucr'[p].serial = episodes + 1 /\ episodes' = episodes + 1,
           ucr'[p].serial <= episodes',
           pc[p] = "chain" => faults' = faults + 1, faults' >= faults
    PROVE  ChainInv'
  <1> USE DEF ledgers
  <1>1. episodes \in Nat /\ episodes' \in Nat /\ faults \in Nat /\ faults' \in Nat
    BY BoundAssumption DEF IInv, TypeOK
  <1>2. \A q \in Processes : ucr[q].serial \in Nat /\ ucr'[q].serial \in Nat
    BY BoundAssumption DEF IInv, TypeOK, Ucrs
  <1>3. \A i \in DOMAIN chain : chain[i].ucr.serial \in Nat
    <2>1. chain \in Seq(Events)
      BY DEF IInv, TypeOK
    <2>2. \A i \in DOMAIN chain : chain[i] \in Events
      BY <2>1
    <2>3. \A i \in DOMAIN chain : chain[i].ucr \in Ucrs
      BY <2>2 DEF Events
    <2> QED
      BY <2>3, BoundAssumption DEF Ucrs
  <1>4. SerialsDiffer'
    <2>1. \A q \in Processes : ucr'[q].serial <= episodes'
      BY <1>1, <1>2 DEF ChainInv, SerialsDiffer
    <2>2. \A q \in Processes \ {p} : Active(q)' => Active(q) /\ ucr'[q].serial = ucr[q].serial
      BY DEF Active
    <2>3. \A q, r \in Processes : Active(q)' /\ Active(r)' /\ ucr'[q].serial = ucr'[r].serial => q = r
      BY <1>1, <1>2, <2>2 DEF ChainInv, SerialsDiffer
    <2>4. \A i \in DOMAIN chain : chain[i].ucr.serial <= episodes'
      BY <1>1, <1>3 DEF ChainInv, SerialsDiffer
    <2>5. \A q \in Processes : Active(q)' =>
             \A i \in DOMAIN chain : chain[i].ucr.serial # ucr'[q].serial
      BY <1>1, <1>2, <1>3, <2>2 DEF ChainInv, SerialsDiffer
    <2> QED
      BY <2>1, <2>3, <2>4, <2>5 DEF SerialsDiffer
  <1>5. Len(db) \in Nat /\ Len(chain) \in Nat
    BY DEF IInv, TypeOK
  <1>6. Len(db) <= Len(chain) + Cardinality(Between) + faults
    BY DEF ChainInv, ChainFollowsDb, Between
  <1>7. Len(db) <= Len(chain) + Cardinality(Between)' + faults'
    BY <1>1, <1>5, <1>6, BetweenStep
  <1>8. ChainFollowsDb'
    BY <1>7 DEF ChainInv, ChainFollowsDb, Between
  <1> QED
    BY <1>4, <1>8 DEF ChainInv

\* The SQLite ledger gets an event.
LEMMA DbGrows ==
    ASSUME IInv, ChainInv, NEW p \in Processes, AppendDb(p), TypeOK'
    PROVE  ChainInv'
  <1> USE DEF AppendDb, Transition, environment, files, store, history
  <1>1. pc[p] = "db" /\ pc'[p] = "chain" /\ \A q \in Processes \ {p} : pc'[q] = pc[q]
    BY DEF IInv, TypeOK
  <1>2. Event(p) \in Events /\ db \in Seq(Events)
    BY <1>1, InRunDirs DEF IInv, TypeOK, Event, Events, Active, Resting
  <1>3. Len(db') = Len(db) + 1 /\ \A i \in DOMAIN db : i \in DOMAIN db' /\ db'[i] = db[i]
    BY <1>2, Appended
  <1>4. SerialsDiffer'
    BY <1>1 DEF ChainInv, SerialsDiffer, Active, Resting
  <1>5. Len(db) \in Nat /\ Len(chain) \in Nat /\ faults \in Nat
    BY BoundAssumption DEF IInv, TypeOK
  <1>6. Len(db) <= Len(chain) + Cardinality(Between) + faults
    BY DEF ChainInv, ChainFollowsDb, Between
  <1>7. Len(db') <= Len(chain) + Cardinality(Between)' + faults
    BY <1>1, <1>3, <1>5, <1>6, BetweenStep
  <1>8. \A i \in DOMAIN chain : \E j \in DOMAIN db' : db'[j] = chain[i]
    BY <1>3 DEF ChainInv, ChainFollowsDb
  <1>9. ChainFollowsDb'
    BY <1>7, <1>8 DEF ChainInv, ChainFollowsDb, Between
  <1> QED
    BY <1>4, <1>9 DEF ChainInv

\* The JSON-lines ledger gets the same event.
LEMMA ChainGrows ==
    ASSUME IInv, ChainInv, NEW p \in Processes, AppendChain(p), TypeOK'
    PROVE  ChainInv'
  <1> USE DEF AppendChain, Transition, environment, files, store, history
  <1>1. pc[p] = "chain" /\ pc'[p] = "done" /\ \A q \in Processes \ {p} : pc'[q] = pc[q]
    BY DEF IInv, TypeOK
  <1>2. Event(p) \in Events /\ chain \in Seq(Events) /\ Event(p).ucr = ucr[p]
    BY <1>1, InRunDirs DEF IInv, TypeOK, Event, Events, Active, Resting
  <1>3. /\ Len(chain') = Len(chain) + 1
        /\ DOMAIN chain' = DOMAIN chain \cup {Len(chain) + 1}
        /\ \A i \in DOMAIN chain : chain'[i] = chain[i]
        /\ chain'[Len(chain) + 1] = Event(p)
    BY <1>2, Appended
  <1>4. \A i \in DOMAIN chain : chain[i].ucr.serial # ucr[p].serial /\ chain[i] # Event(p)
    BY <1>1, <1>2 DEF ChainInv, SerialsDiffer, Active, Resting
  <1>5. SerialsDiffer'
    BY <1>1, <1>2, <1>3 DEF ChainInv, SerialsDiffer, Active, Resting
  <1>6. Len(db) \in Nat /\ Len(chain) \in Nat /\ faults \in Nat
    BY BoundAssumption DEF IInv, TypeOK
  <1>7. Len(db) <= Len(chain) + Cardinality(Between) + faults
    BY DEF ChainInv, ChainFollowsDb, Between
  <1>8. Len(db) <= Len(chain') + Cardinality(Between)' + faults
    BY <1>1, <1>3, <1>6, <1>7, BetweenStep
  <1>9. \E j \in DOMAIN db : db[j] = Event(p)
    BY <1>1 DEF IInv, EpisodeOK, Recorded
  <1>10. \A i \in DOMAIN chain' : \E j \in DOMAIN db : db[j] = chain'[i]
    BY <1>3, <1>9 DEF ChainInv, ChainFollowsDb
  <1>11. \A i, j \in DOMAIN chain' : chain'[i] = chain'[j] => i = j
    BY <1>3, <1>4 DEF ChainInv, ChainFollowsDb
  <1>12. ChainFollowsDb'
    BY <1>8, <1>10, <1>11 DEF ChainFollowsDb, Between
  <1> QED
    BY <1>5, <1>12 DEF ChainInv

\* The JSON-lines ledger follows the SQLite ledger and misses only what a fault
\* cut off (run: one append after the other).
THEOREM ChainFollows == Spec => []ChainFollowsDb
  <1>1. Init => ChainInv
    <2> SUFFICES ASSUME Init PROVE ChainInv
      OBVIOUS
    <2> USE DEF Init, Resting, NoUcr
    <2>1. SerialsDiffer
      BY DEF SerialsDiffer, Active
    <2>2. Between = {} /\ Cardinality({}) = 0
      BY FS_EmptySet DEF Between
    <2>3. db = <<>> /\ chain = <<>> /\ faults = 0
      OBVIOUS
    <2>4. Len(db) <= Len(chain) + Cardinality(Between) + faults
      BY <2>2, <2>3
    <2>5. ChainFollowsDb
      BY <2>3, <2>4 DEF ChainFollowsDb, Between
    <2> QED
      BY <2>1, <2>5 DEF ChainInv
  <1>2. IInv /\ TypeOK' /\ ChainInv /\ [Next]_vars => ChainInv'
    <2> SUFFICES ASSUME IInv, TypeOK', ChainInv, [Next]_vars PROVE ChainInv'
      OBVIOUS
    <2> USE DEF environment, files, store, history, Transition, Resting
    <2>1. CASE UNCHANGED vars
      BY <2>1 DEF vars, ledgers, ChainInv, ChainFollowsDb, SerialsDiffer, Active
    <2>2. ASSUME NEW p \in Processes, NEW t \in Tasks, Begin(p, t) PROVE ChainInv'
      <3>1. /\ ucr' = [ucr EXCEPT ![p] = [NoUcr EXCEPT !.serial = episodes + 1, !.task = t]]
            /\ pc'[p] = "name" /\ episodes' = episodes + 1 /\ faults' = faults
            /\ pc[p] # "chain"
        BY <2>2 DEF Begin, IInv, TypeOK
      <3>2. ucr'[p].serial = episodes + 1
        BY <3>1 DEF IInv, TypeOK, NoUcr
      <3>3. \A q \in Processes \ {p} : pc'[q] = pc[q] /\ ucr'[q] = ucr[q]
        BY <2>2 DEF Begin, IInv, TypeOK
      <3>4. faults \in Nat /\ episodes \in Nat
        BY BoundAssumption DEF IInv, TypeOK
      <3> QED
        BY <2>2, <3>1, <3>2, <3>3, <3>4, LedgersKept DEF Begin
    <2>3. ASSUME NEW p \in Processes, Progress(p) \/ Fault(p),
                 ~AppendDb(p), ~AppendChain(p)
          PROVE  ChainInv'
      <3>1. /\ UNCHANGED <<ledgers, episodes>>
            /\ Active(p)
            /\ pc' = [pc EXCEPT ![p] = pc'[p]] /\ pc'[p] # "chain"
            /\ \/ pc[p] # "chain" /\ faults' >= faults
               \/ pc[p] = "chain" /\ faults' = faults + 1
        BY <2>3
           DEF Progress, TryNextName, TakeName, MakeDir, OpenSolution, FillSolution, KeepSolution, SolveRaises,
               Verify, VerifyRaises, SkipRepair, RepairRaises,
               DecideAndPack, PutUcr, WriteUcr, WriteWitness, Fault, IInv, TypeOK, Active
      <3>2. \A q \in Processes \ {p} : ucr'[q] = ucr[q]
        BY <2>3
           DEF Progress, TryNextName, TakeName, MakeDir, OpenSolution, FillSolution, KeepSolution, SolveRaises,
               Verify, VerifyRaises, SkipRepair, RepairRaises,
               DecideAndPack, PutUcr, WriteUcr, WriteWitness, Fault, IInv, TypeOK
      <3>3. ucr'[p].serial = ucr[p].serial
        BY <2>3
           DEF Progress, TryNextName, TakeName, MakeDir, OpenSolution, FillSolution, KeepSolution, SolveRaises,
               Verify, VerifyRaises, SkipRepair, RepairRaises,
               DecideAndPack, PutUcr, WriteUcr, WriteWitness, Fault, IInv, TypeOK, Ucrs
      <3>4. ucr[p].serial <= episodes /\ faults \in Nat /\ episodes \in Nat
        BY BoundAssumption DEF ChainInv, SerialsDiffer, IInv, TypeOK
      <3>5. \A q \in Processes \ {p} : pc'[q] = pc[q]
        BY <3>1 DEF IInv, TypeOK
      <3> QED
        BY <3>1, <3>2, <3>3, <3>4, <3>5, LedgersKept
    <2>4. CASE Next
      BY <2>2, <2>3, <2>4, DbGrows, ChainGrows DEF Next
    <2> QED
      BY <2>1, <2>4
  <1>3. ChainInv => ChainFollowsDb
    BY DEF ChainInv
  <1> QED
    BY <1>1, <1>2, <1>3, Inductive, TypeCorrect, PTL DEF Spec

-----------------------------------------------------------------------------
(* What episodes leave that do not end well.                                *)

\* An episode that raised has a directory of its own, with nothing in it.
RaisedOK ==
    ~overlap => \A p \in Processes : pc[p] = "raised" =>
        /\ dir[p] \in dirs /\ ucrFile[dir[p]] = Absent /\ witnessFile[dir[p]] = Absent
        /\ \A i \in DOMAIN db : db[i].dir # dir[p]
        /\ \A q \in Processes : Active(q) /\ pc[q] # "name" => dir[q] # dir[p]

\* What a step of an active episode does to the records of the others.
LEMMA OwnRecords ==
    ASSUME IInv, NEW a \in Processes, Progress(a) \/ Fault(a)
    PROVE  /\ Active(a) /\ UNCHANGED <<sink, overlap>> /\ dirs \subseteq dirs'
           /\ \A q \in Processes \ {a} : pc'[q] = pc[q] /\ dir'[q] = dir[q]
           /\ \A d \in dirs : d # dir[a] \/ pc[a] \in {"name", "mkdir"} =>
                 ucrFile'[d] = ucrFile[d] /\ witnessFile'[d] = witnessFile[d]
           /\ pc[a] # "ucrfile" => \A d \in dirs : ucrFile'[d] = ucrFile[d]
           /\ pc[a] # "name" => dir'[a] = dir[a]
           /\ db' = db \/ pc[a] = "db"
           /\ pc'[a] = "raised" => /\ pc[a] \in {"solve", "verify", "repair"}
                                   /\ UNCHANGED <<files, db, dir>>
  <1> USE DEF Transition, environment, files, store, ledgers, history, Active, Resting
  <1>1. CASE TryNextName(a) \/ TakeName(a)
    BY <1>1 DEF TryNextName, TakeName, IInv, TypeOK
  <1>2. CASE MakeDir(a)
    BY <1>2 DEF MakeDir, With, IInv, TypeOK
  <1>3. CASE OpenSolution(a) \/ FillSolution(a) \/ KeepSolution(a) \/ SolveRaises(a)
    BY <1>3 DEF OpenSolution, FillSolution, KeepSolution, SolveRaises, IInv, TypeOK
  <1>4. CASE (\E failed \in Verdicts : Verify(a, failed)) \/ VerifyRaises(a) \/ SkipRepair(a)
             \/ RepairRaises(a)
    BY <1>4 DEF Verify, VerifyRaises, SkipRepair, RepairRaises, IInv, TypeOK
  <1>5. CASE DecideAndPack(a) \/ PutUcr(a)
    BY <1>5 DEF DecideAndPack, PutUcr, IInv, TypeOK
  <1>6. CASE WriteUcr(a) \/ WriteWitness(a)
    BY <1>6 DEF WriteUcr, WriteWitness, IInv, TypeOK
  <1>7. CASE AppendDb(a) \/ AppendChain(a)
    BY <1>7 DEF AppendDb, AppendChain, IInv, TypeOK
  <1>8. CASE Fault(a)
    BY <1>8 DEF Fault, Tear, IInv, TypeOK
  <1> QED
    BY <1>1, <1>2, <1>3, <1>4, <1>5, <1>6, <1>7, <1>8 DEF Progress

LEMMA RaisedStep == IInv /\ RaisedOK /\ [Next]_vars => RaisedOK'
  <1> SUFFICES ASSUME IInv, RaisedOK, [Next]_vars PROVE RaisedOK'
    OBVIOUS
  <1>1. CASE UNCHANGED vars
    BY <1>1 DEF vars, files, ledgers, history, RaisedOK, Active
  <1>2. ASSUME NEW a \in Processes, NEW t \in Tasks, Begin(a, t) PROVE RaisedOK'
    <2>1. /\ pc'[a] = "name" /\ UNCHANGED <<dirs, ucrFile, witnessFile, db>>
          /\ \A q \in Processes \ {a} : pc'[q] = pc[q] /\ dir'[q] = dir[q]
          /\ ~overlap' => ~overlap
      BY <1>2 DEF Begin, files, ledgers, IInv, TypeOK
    <2> QED
      BY <2>1 DEF RaisedOK, Active, Resting
  <1>3. ASSUME NEW a \in Processes, Progress(a) \/ Fault(a) PROVE RaisedOK'
    <2> SUFFICES ASSUME ~overlap', NEW p \in Processes, pc'[p] = "raised"
                 PROVE  /\ dir'[p] \in dirs'
                        /\ ucrFile'[dir'[p]] = Absent /\ witnessFile'[dir'[p]] = Absent
                        /\ \A i \in DOMAIN db' : db'[i].dir # dir'[p]
                        /\ \A q \in Processes :
                              Active(q)' /\ pc'[q] # "name" => dir'[q] # dir'[p]
      BY DEF RaisedOK
    <2>1. ~overlap /\ \A q \in Processes \ {a} : ~Active(q) /\ ~Active(q)'
      BY <1>3, OwnRecords, OnlyOne DEF Active
    <2>2. CASE p = a
      <3>1. pc[a] \in {"solve", "verify", "repair"} /\ UNCHANGED <<files, db, dir>>
        BY <1>3, <2>2, OwnRecords
      <3>2. dir[a] \in dirs
        BY <3>1 DEF IInv, TypeOK, Resting
      <3>3. /\ ucrFile[dir[a]] = Absent /\ witnessFile[dir[a]] = Absent
            /\ \A i \in DOMAIN db : db[i].dir # dir[a]
        BY <2>1, <3>1, <3>2 DEF IInv, DirOK, Unwritten, Unrecorded
      <3>4. ~Active(a)'
        BY <2>2 DEF Active, Resting
      <3> QED
        BY <2>1, <2>2, <3>1, <3>2, <3>3, <3>4 DEF files
    <2>3. CASE p # a
      <3>1. /\ pc[p] = "raised" /\ dir'[p] = dir[p]
            /\ dir[p] \in dirs /\ ucrFile[dir[p]] = Absent /\ witnessFile[dir[p]] = Absent
            /\ \A i \in DOMAIN db : db[i].dir # dir[p]
            /\ pc[a] # "name" => dir[a] # dir[p]
        BY <1>3, <2>1, <2>3, OwnRecords DEF RaisedOK
      <3>2. ucrFile'[dir[p]] = Absent /\ witnessFile'[dir[p]] = Absent /\ dir[p] \in dirs'
        BY <1>3, <3>1, OwnRecords
      <3>3. \A i \in DOMAIN db' : db'[i].dir # dir[p]
        <4>1. CASE db' = db
          BY <3>1, <4>1
        <4>2. CASE pc[a] = "db" /\ db' # db
          <5>1. db' = Append(db, Event(a)) /\ db \in Seq(Events)
            BY <1>3, <4>2
               DEF Progress, TryNextName, TakeName, MakeDir, OpenSolution, FillSolution,
                   KeepSolution, SolveRaises, Verify, VerifyRaises, SkipRepair, RepairRaises,
                   DecideAndPack, PutUcr, WriteUcr, WriteWitness, AppendDb, AppendChain, Fault,
                   Transition, ledgers, IInv, TypeOK
          <5>2. Event(a) \in Events /\ Event(a).dir = dir[a]
            BY <4>2, InRunDirs DEF IInv, TypeOK, Event, Events, Active, Resting
          <5> QED
            BY <3>1, <4>2, <5>1, <5>2, Appended
        <4> QED
          BY <1>3, <4>1, <4>2, OwnRecords
      <3>4. Active(a)' /\ pc'[a] # "name" => dir'[a] # dir[p]
        <4>1. CASE pc[a] # "name"
          BY <1>3, <3>1, <4>1, OwnRecords
        <4>2. CASE pc[a] = "name"
          <5>1. TryNextName(a) \/ TakeName(a) \/ Fault(a)
            BY <1>3, <4>2
               DEF Progress, MakeDir, OpenSolution, FillSolution,
                   KeepSolution, SolveRaises, Verify, VerifyRaises, SkipRepair, RepairRaises,
                   DecideAndPack, PutUcr, WriteUcr, WriteWitness, AppendDb, AppendChain, Transition
          <5> QED
            BY <3>1, <4>2, <5>1 DEF TryNextName, TakeName, Fault, Active, Resting, IInv, TypeOK
        <4> QED
          BY <4>1, <4>2
      <3> QED
        BY <2>1, <3>1, <3>2, <3>3, <3>4
    <2> QED
      BY <2>2, <2>3
  <1> QED
    BY <1>1, <1>2, <1>3 DEF Next

\* An episode that returns has left all of its records, one that raises none of
\* them (run: the UCR and the witness packet are written last, and together).
THEOREM AllOrNone == Spec => []AllRecordsOrNone
  <1>1. Init => RaisedOK
    BY DEF Init, RaisedOK
  <1>2. IInv /\ RaisedOK /\ ChainFollowsDb => AllRecordsOrNone
    <2> SUFFICES ASSUME IInv, RaisedOK, ChainFollowsDb, ~overlap, NEW p \in Processes
                 PROVE  /\ pc[p] = "done" => Emitted(p) /\ Recorded(p, db) /\ Recorded(p, chain)
                        /\ pc[p] = "raised" => Unmentioned(p)
      BY DEF AllRecordsOrNone
    <2>1. CASE pc[p] = "done"
      <3>1. Recorded(p, db) /\ Recorded(p, chain)
        BY <2>1 DEF IInv, EpisodeOK
      <3> QED
        BY <2>1, <3>1 DEF IInv, EventIsBacked, Event, Emitted, Recorded
    <2>2. CASE pc[p] = "raised"
      BY <2>2 DEF RaisedOK, Unmentioned, ChainFollowsDb
    <2> QED
      BY <2>1, <2>2
  <1> QED
    BY <1>1, <1>2, RaisedStep, ChainFollows, Inductive, PTL DEF Spec

-----------------------------------------------------------------------------
(* The names of run directories, and the end of an episode.                 *)

\* Who looks for a directory, or has found one and not made it.
Naming == {q \in Processes : pc[q] \in {"name", "mkdir"}}

\* The names an episode has passed over are taken.
PassedNames(p) == \A k \in Nat : k < dir[p].n => [task |-> dir[p].task, n |-> k] \in dirs

\* Every directory was made by an episode that looks for one no longer.
NameInv ==
    /\ IsFiniteSet(dirs)
    /\ Cardinality(dirs) + Cardinality(Naming) <= episodes
    /\ \A p \in Processes : Active(p) => PassedNames(p)

\* How many episodes look for a directory after a step of p.
LEMMA NamingStep ==
    ASSUME NEW p \in Processes, \A q \in Processes \ {p} : pc'[q] = pc[q]
    PROVE  /\ Cardinality(Naming) \in Nat /\ Cardinality(Naming)' \in Nat
           /\ Cardinality(Naming)' <= Cardinality(Naming) + 1
           /\ pc'[p] \notin {"name", "mkdir"} \/ pc[p] \in {"name", "mkdir"} =>
                Cardinality(Naming)' <= Cardinality(Naming)
           /\ pc[p] \in {"name", "mkdir"} /\ pc'[p] \notin {"name", "mkdir"} =>
                Cardinality(Naming)' = Cardinality(Naming) - 1
  <1>1. IsFiniteSet(Naming) /\ IsFiniteSet(Naming')
    BY ProcessAssumption, FS_Subset DEF Naming
  <1>2. Cardinality(Naming) \in Nat /\ Cardinality(Naming') \in Nat
    BY <1>1, FS_CardinalityType
  <1>3. CASE pc'[p] \in {"name", "mkdir"}
    <2>1. Naming' = Naming \cup {p} /\ (pc[p] \in {"name", "mkdir"} => p \in Naming)
      BY <1>3 DEF Naming
    <2>2. Cardinality(Naming') = IF p \in Naming THEN Cardinality(Naming) ELSE Cardinality(Naming) + 1
      BY <1>1, <2>1, FS_AddElement
    <2> QED
      BY <1>2, <1>3, <2>1, <2>2
  <1>4. CASE pc'[p] \notin {"name", "mkdir"}
    <2>1. Naming' = Naming \ {p} /\ (pc[p] \in {"name", "mkdir"} => p \in Naming)
      BY <1>4 DEF Naming
    <2>2. Cardinality(Naming') = IF p \in Naming THEN Cardinality(Naming) - 1 ELSE Cardinality(Naming)
      BY <1>1, <2>1, FS_RemoveElement
    <2> QED
      BY <1>2, <1>4, <2>1, <2>2
  <1> QED
    BY <1>3, <1>4

\* A step that neither names nor makes a directory.
LEMMA NamesStay ==
    ASSUME TypeOK, NameInv, NEW p \in Processes, Active(p), UNCHANGED <<dir, dirs, episodes>>,
           \A q \in Processes \ {p} : pc'[q] = pc[q],
           pc'[p] \in {"name", "mkdir"} => pc[p] \in {"name", "mkdir"}
    PROVE  NameInv'
  <1>1. Cardinality(dirs) \in Nat /\ episodes \in Nat
    BY BoundAssumption, FS_CardinalityType DEF NameInv, TypeOK
  <1>2. Cardinality(dirs)' + Cardinality(Naming)' <= episodes'
    BY <1>1, NamingStep DEF NameInv
  <1>3. \A q \in Processes : Active(q)' => Active(q) /\ PassedNames(q)' = PassedNames(q)
    BY DEF Active, PassedNames
  <1> QED
    BY <1>2, <1>3 DEF NameInv

\* A name is passed over because it is taken.
LEMMA NextNamePasses ==
    ASSUME IInv, NameInv, NEW p \in Processes, TryNextName(p)
    PROVE  NameInv'
  <1>1. pc[p] = "name" /\ dir[p] \in dirs /\ UNCHANGED <<pc, dirs, episodes>>
    BY DEF TryNextName, files, history
  <1>2. dir[p] \in RunDirs /\ Active(p)
    BY <1>1, InRunDirs DEF Active, Resting
  <1>3. \A q \in Processes \ {p} : dir'[q] = dir[q]
    BY DEF TryNextName, IInv, TypeOK
  <1>4. dir'[p].n = dir[p].n + 1 /\ dir'[p].task = dir[p].task
    BY <1>2 DEF TryNextName, IInv, TypeOK, RunDirs
  <1>5. PassedNames(p)'
    <2> SUFFICES ASSUME NEW k \in Nat, k < dir'[p].n
                 PROVE  [task |-> dir[p].task, n |-> k] \in dirs
      BY <1>1, <1>4 DEF PassedNames
    <2>1. dir[p].n \in Nat /\ dir[p] = [task |-> dir[p].task, n |-> dir[p].n]
      BY <1>2 DEF RunDirs
    <2>2. k < dir[p].n \/ k = dir[p].n
      BY <1>4, <2>1
    <2> QED
      BY <1>1, <1>2, <2>1, <2>2 DEF NameInv, PassedNames
  <1>6. \A q \in Processes : Active(q)' => PassedNames(q)'
    BY <1>1, <1>3, <1>5 DEF NameInv, Active, PassedNames
  <1>7. Naming' = Naming
    BY <1>1 DEF Naming
  <1> QED
    BY <1>1, <1>6, <1>7 DEF NameInv

\* Who makes a directory looks for one no longer.
LEMMA MadeIsCounted ==
    ASSUME IInv, NameInv, NEW p \in Processes, MakeDir(p)
    PROVE  NameInv'
  <1>1. /\ pc[p] = "mkdir" /\ pc'[p] = "solve" /\ dirs' = dirs \cup {dir[p]}
        /\ UNCHANGED <<dir, episodes>> /\ \A q \in Processes \ {p} : pc'[q] = pc[q]
    BY DEF MakeDir, Transition, history, IInv, TypeOK
  <1>2. /\ IsFiniteSet(dirs')
        /\ Cardinality(dirs') = IF dir[p] \in dirs THEN Cardinality(dirs) ELSE Cardinality(dirs) + 1
    BY <1>1, FS_AddElement DEF NameInv
  <1>3. Cardinality(dirs) \in Nat /\ episodes \in Nat
    BY BoundAssumption, FS_CardinalityType DEF NameInv, IInv, TypeOK
  <1>4. Cardinality(dirs') + Cardinality(Naming)' <= episodes'
    BY <1>1, <1>2, <1>3, NamingStep DEF NameInv
  <1>5. \A q \in Processes : Active(q)' => Active(q)
    BY <1>1 DEF Active, Resting
  <1>6. \A q \in Processes : PassedNames(q) => PassedNames(q)'
    BY <1>1 DEF PassedNames
  <1> QED
    BY <1>2, <1>4, <1>5, <1>6 DEF NameInv

\* An episode begins to look for one.
LEMMA BeginIsCounted ==
    ASSUME IInv, NameInv, NEW p \in Processes, NEW t \in Tasks, Begin(p, t)
    PROVE  NameInv'
  <1>1. /\ pc'[p] = "name" /\ dir'[p].n = 0 /\ episodes' = episodes + 1 /\ dirs' = dirs
        /\ \A q \in Processes \ {p} : pc'[q] = pc[q] /\ dir'[q] = dir[q]
    BY DEF Begin, files, IInv, TypeOK
  <1>2. Cardinality(dirs) \in Nat /\ episodes \in Nat
    BY BoundAssumption, FS_CardinalityType DEF NameInv, IInv, TypeOK
  <1>3. Cardinality(dirs)' + Cardinality(Naming)' <= episodes'
    BY <1>1, <1>2, NamingStep DEF NameInv
  <1>4. PassedNames(p)'
    BY <1>1 DEF PassedNames
  <1>5. \A q \in Processes \ {p} : Active(q)' => PassedNames(q)'
    BY <1>1 DEF NameInv, Active, PassedNames
  <1> QED
    BY <1>1, <1>3, <1>4, <1>5 DEF NameInv

\* The other steps of an episode.
LEMMA OtherSteps ==
    ASSUME IInv, NEW p \in Processes, Progress(p) \/ Fault(p), ~TryNextName(p), ~MakeDir(p)
    PROVE  /\ Active(p) /\ UNCHANGED <<dir, dirs, episodes>>
           /\ \A q \in Processes \ {p} : pc'[q] = pc[q]
           /\ pc'[p] \in {"name", "mkdir"} => pc[p] \in {"name", "mkdir"}
BY DEF Progress, TakeName, OpenSolution, FillSolution, KeepSolution, SolveRaises, Verify, VerifyRaises,
       SkipRepair, RepairRaises, DecideAndPack, PutUcr, WriteUcr,
       WriteWitness, AppendDb, AppendChain, Fault, Transition, files, history, Active, Resting, IInv, TypeOK

\* Every step keeps count of the names.
LEMMA NamesStep == IInv /\ NameInv /\ [Next]_vars => NameInv'
  <1> SUFFICES ASSUME IInv, NameInv, [Next]_vars PROVE NameInv'
    OBVIOUS
  <1>1. CASE UNCHANGED vars
    BY <1>1 DEF vars, files, history, NameInv, Naming, Active, PassedNames
  <1>2. ASSUME NEW p \in Processes, Progress(p) \/ Fault(p) PROVE NameInv'
    <2>1. CASE TryNextName(p)
      BY <2>1, NextNamePasses
    <2>2. CASE MakeDir(p)
      BY <2>2, MadeIsCounted
    <2>3. CASE ~TryNextName(p) /\ ~MakeDir(p)
      BY <1>2, <2>3, OtherSteps, NamesStay DEF IInv
    <2> QED
      BY <2>1, <2>2, <2>3
  <1> QED
    BY <1>1, <1>2, BeginIsCounted DEF Next

\* An episode passes over fewer names than there are episodes.
LEMMA FewNames ==
    ASSUME IInv, NameInv, NEW p \in Processes, Active(p)
    PROVE  dir[p].n \in Nat /\ dir[p].n < episodes
  <1>1. PICK t, n : t = dir[p].task /\ n = dir[p].n
    OBVIOUS
  <1>2. dir[p] = [task |-> t, n |-> n] /\ n \in Nat
    BY <1>1, InRunDirs DEF RunDirs
  <1> DEFINE Passed == {[task |-> t, n |-> k] : k \in 0..(n - 1)}
             f == [k \in 0..(n - 1) |-> [task |-> t, n |-> k]]
  <1>3. Passed \subseteq dirs /\ dir[p] \notin Passed
    <2>1. \A k \in 0..(n - 1) : k \in Nat /\ k < n
      BY <1>2
    <2>2. \A k \in 0..(n - 1) : [task |-> t, n |-> k] \in dirs
      BY <1>1, <2>1 DEF NameInv, PassedNames
    <2>3. \A k \in 0..(n - 1) : [task |-> t, n |-> k].n # n
      BY <2>1
    <2>4. dir[p].n = n
      BY <1>1
    <2> QED
      BY <2>2, <2>3, <2>4
  <1>4. IsFiniteSet(Passed) /\ Cardinality(Passed) = n
    <2>1. IsFiniteSet(0..(n - 1)) /\ Cardinality(0..(n - 1)) = n
      <3>1. n - 1 \in Int
        BY <1>2
      <3>2. /\ IsFiniteSet(0..(n - 1))
            /\ Cardinality(0..(n - 1)) = IF 0 > n - 1 THEN 0 ELSE (n - 1) - 0 + 1
        BY <3>1, FS_Interval
      <3> QED
        BY <1>2, <3>2
    <2>2. f \in Bijection(0..(n - 1), Passed)
      <3>1. f \in [0..(n - 1) -> Passed]
        OBVIOUS
      <3>2. ASSUME NEW i \in 0..(n - 1), NEW j \in 0..(n - 1), f[i] = f[j] PROVE i = j
        <4>1. f[i].n = i /\ f[j].n = j
          OBVIOUS
        <4> QED
          BY <3>2, <4>1
      <3>3. \A d \in Passed : \E i \in 0..(n - 1) : f[i] = d
        OBVIOUS
      <3> HIDE DEF f, Passed
      <3>4. f \in Injection(0..(n - 1), Passed)
        BY <3>1, <3>2, Zenon DEF Injection, IsInjective
      <3>5. f \in Surjection(0..(n - 1), Passed)
        BY <3>1, <3>3, Zenon DEF Surjection
      <3> QED
        BY <3>4, <3>5 DEF Bijection
    <2>3. ExistsBijection(0..(n - 1), Passed)
      BY <2>2 DEF ExistsBijection
    <2> HIDE DEF Passed
    <2> QED
      BY <2>1, <2>3, FS_Bijection
  <1> HIDE DEF Passed, f
  <1>5. Cardinality(dirs) \in Nat /\ episodes \in Nat /\ IsFiniteSet(dirs)
    BY BoundAssumption, FS_CardinalityType DEF NameInv, IInv, TypeOK
  <1>6. IsFiniteSet(Naming) /\ Cardinality(Naming) \in Nat
    BY ProcessAssumption, FS_Subset, FS_CardinalityType DEF Naming
  <1>7. CASE pc[p] \in {"name", "mkdir"}
    <2>1. n <= Cardinality(dirs)
      BY <1>3, <1>4, <1>5, FS_Subset
    <2>2. Cardinality(Naming) # 0
      BY <1>6, <1>7, FS_EmptySet DEF Naming
    <2> QED
      BY <1>1, <1>2, <1>5, <1>6, <2>1, <2>2 DEF NameInv
  <1>8. CASE pc[p] \notin {"name", "mkdir"}
    <2>1. dir[p] \in dirs
      BY <1>8 DEF IInv, TypeOK, Active
    <2>2. Passed \cup {dir[p]} \subseteq dirs /\ Cardinality(Passed \cup {dir[p]}) = n + 1
      BY <1>3, <1>4, <2>1, FS_AddElement
    <2>3. n + 1 <= Cardinality(dirs)
      BY <1>5, <2>2, FS_Subset
    <2> QED
      BY <1>1, <1>2, <1>5, <1>6, <2>3 DEF NameInv
  <1> QED
    BY <1>7, <1>8

\* At the start no directory and no episode is there.
LEMMA NamesAtFirst == Init => NameInv
  <1> SUFFICES ASSUME Init PROVE NameInv
    OBVIOUS
  <1>1. dirs = {} /\ episodes = 0 /\ \A p \in Processes : pc[p] = "idle"
    BY DEF Init
  <1>2. Naming = {} /\ \A p \in Processes : ~Active(p)
    BY <1>1 DEF Naming, Active, Resting
  <1>3. IsFiniteSet(dirs) /\ Cardinality(dirs) = 0 /\ Cardinality(Naming) = 0
    BY <1>1, <1>2, FS_EmptySet
  <1> QED
    BY <1>1, <1>2, <1>3 DEF NameInv

\* _run_dir asks for a name once for each directory that other episodes made,
\* and each name it passes over is one of theirs.
THEOREM NamesAreFew ==
    Spec => [](\A p \in Processes : Active(p) => dir[p].n < episodes /\ PassedNames(p))
  <1>1. IInv /\ NameInv => \A p \in Processes : Active(p) => dir[p].n < episodes /\ PassedNames(p)
    BY FewNames DEF NameInv
  <1> QED
    BY NamesAtFirst, NamesStep, <1>1, Inductive, PTL DEF Spec

\* A bound on the steps that are left of an episode: its names, then one for each.
EpisodeLeft(p) ==
    CASE pc[p] = "name"        -> 12 + MaxEpisodes - dir[p].n
      [] pc[p] = "mkdir"       -> 11
      [] pc[p] = "solve"       -> 10
      [] pc[p] = "storing"     -> 9
      [] pc[p] = "verify"      -> 8
      [] pc[p] = "repair"      -> 7
      [] pc[p] = "decide"      -> 6
      [] pc[p] = "putucr"      -> 5
      [] pc[p] = "ucrfile"     -> 4
      [] pc[p] = "witnessfile" -> 3
      [] pc[p] = "db"          -> 2
      [] pc[p] = "chain"       -> 1
      [] OTHER                 -> 0

\* A step of an episode lowers its bound.
LEMMA ProgressLowers ==
    ASSUME IInv, NameInv, NEW p \in Processes, Progress(p)
    PROVE  EpisodeLeft(p)' \in Nat /\ EpisodeLeft(p)' < EpisodeLeft(p)
  <1> DEFINE Bound == /\ pc[p] = "name" => EpisodeLeft(p) = 12 + MaxEpisodes - dir[p].n
                      /\ pc[p] = "mkdir" => EpisodeLeft(p) = 11
                      /\ pc[p] = "solve" => EpisodeLeft(p) = 10
                      /\ pc[p] = "storing" => EpisodeLeft(p) = 9
                      /\ pc[p] = "verify" => EpisodeLeft(p) = 8
                      /\ pc[p] = "repair" => EpisodeLeft(p) = 7
                      /\ pc[p] = "decide" => EpisodeLeft(p) = 6
                      /\ pc[p] = "putucr" => EpisodeLeft(p) = 5
                      /\ pc[p] = "ucrfile" => EpisodeLeft(p) = 4
                      /\ pc[p] = "witnessfile" => EpisodeLeft(p) = 3
                      /\ pc[p] = "db" => EpisodeLeft(p) = 2
                      /\ pc[p] = "chain" => EpisodeLeft(p) = 1
                      /\ pc[p] \in Resting => EpisodeLeft(p) = 0
  <1>1. Bound
    BY Zenon DEF EpisodeLeft, Resting
  <1>2. Bound'
    BY Zenon DEF EpisodeLeft, Resting
  <1>3. pc \in [Processes -> Places]
    BY DEF IInv, TypeOK
  <1>4. Active(p) => dir[p].n \in Nat /\ dir[p].n < MaxEpisodes
    BY FewNames, BoundAssumption DEF IInv, TypeOK
  <1>5. CASE TryNextName(p)
    <2>1. pc[p] = "name" /\ pc' = pc /\ Active(p)
      BY <1>5 DEF TryNextName, Active, Resting
    <2>2. dir'[p].n = dir[p].n + 1
      BY <1>5, <2>1, InRunDirs DEF TryNextName, RunDirs, IInv, TypeOK
    <2> QED
      BY <1>1, <1>2, <1>4, <2>1, <2>2, BoundAssumption
  <1>6. CASE TakeName(p)
    <2>1. pc[p] = "name" /\ pc'[p] = "mkdir" /\ Active(p)
      BY <1>3, <1>6 DEF TakeName, Transition, Active, Resting
    <2> QED
      BY <1>1, <1>2, <1>4, <2>1, BoundAssumption
  <1>7. CASE ~TryNextName(p) /\ ~TakeName(p)
    <2>1. \/ pc[p] = "mkdir" /\ pc'[p] = "solve"
          \/ pc[p] = "solve" /\ pc'[p] \in {"storing", "verify", "raised"}
          \/ pc[p] = "storing" /\ pc'[p] = "verify"
          \/ pc[p] = "verify" /\ pc'[p] \in {"repair", "raised"}
          \/ pc[p] = "repair" /\ pc'[p] \in {"decide", "raised"}
          \/ pc[p] = "decide" /\ pc'[p] = "putucr"
          \/ pc[p] = "putucr" /\ pc'[p] = "ucrfile"
          \/ pc[p] = "ucrfile" /\ pc'[p] = "witnessfile"
          \/ pc[p] = "witnessfile" /\ pc'[p] = "db"
          \/ pc[p] = "db" /\ pc'[p] = "chain"
          \/ pc[p] = "chain" /\ pc'[p] = "done"
      BY <1>3, <1>7 DEF Progress, MakeDir, OpenSolution, FillSolution, KeepSolution, SolveRaises,
         Verify, VerifyRaises, SkipRepair, RepairRaises, DecideAndPack,
         PutUcr, WriteUcr, WriteWitness, AppendDb, AppendChain, Transition
    <2> QED
      BY <1>1, <1>2, <2>1 DEF Resting
  <1> QED
    BY <1>5, <1>6, <1>7

\* What others do, and a fault, do not raise it.
LEMMA NobodyRaises ==
    ASSUME IInv, NameInv, NEW p \in Processes, Active(p), Next
    PROVE  EpisodeLeft(p)' <= EpisodeLeft(p)
  <1>1. PICK q \in Processes : (\E t \in Tasks : Begin(q, t)) \/ Progress(q) \/ Fault(q)
    BY DEF Next
  <1>2. EpisodeLeft(p) \in Nat
    <2>1. pc[p] = "name" => dir[p].n \in Nat /\ dir[p].n < MaxEpisodes
      BY FewNames, BoundAssumption DEF IInv, TypeOK
    <2>2. \/ pc[p] = "name" /\ EpisodeLeft(p) = 12 + MaxEpisodes - dir[p].n
          \/ EpisodeLeft(p) \in {0, 1, 2, 3, 4, 5, 6, 7, 8, 9, 10, 11}
      BY Zenon DEF EpisodeLeft
    <2> QED
      BY <2>1, <2>2, BoundAssumption
  <1>3. CASE q # p
    <2>1. pc'[p] = pc[p] /\ dir'[p] = dir[p]
      BY <1>1, <1>3 DEF Begin, Progress, Fault, TryNextName, TakeName, MakeDir, OpenSolution, FillSolution,
         KeepSolution, SolveRaises, Verify, VerifyRaises, SkipRepair, RepairRaises, DecideAndPack, PutUcr, WriteUcr, WriteWitness, AppendDb,
         AppendChain, Transition, IInv, TypeOK
    <2>2. EpisodeLeft(p)' = EpisodeLeft(p)
      BY <2>1, Zenon DEF EpisodeLeft
    <2> QED
      BY <1>2, <2>2
  <1>4. CASE q = p /\ Progress(p)
    BY <1>2, <1>4, ProgressLowers
  <1>5. CASE q = p /\ Fault(p)
    <2>1. pc'[p] = "failed"
      BY <1>5 DEF Fault, IInv, TypeOK
    <2>2. EpisodeLeft(p)' = 0
      BY <2>1, Zenon DEF EpisodeLeft
    <2> QED
      BY <1>2, <2>2
  <1>6. CASE q = p /\ \E t \in Tasks : Begin(p, t)
    BY <1>6 DEF Begin, Active
  <1> QED
    BY <1>1, <1>3, <1>4, <1>5, <1>6

\* However many directories it finds taken and whatever other episodes do, an
\* episode has a bounded number of steps left, and each of its own is one less.
THEOREM EpisodeAdvances ==
    Spec => [][\A p \in Processes :
                 /\ Progress(p) => EpisodeLeft(p)' \in Nat /\ EpisodeLeft(p)' < EpisodeLeft(p)
                 /\ Active(p) => EpisodeLeft(p)' <= EpisodeLeft(p)]_vars
  <1>1. IInv /\ NameInv /\ [Next]_vars =>
          [\A p \in Processes :
              /\ Progress(p) => EpisodeLeft(p)' \in Nat /\ EpisodeLeft(p)' < EpisodeLeft(p)
              /\ Active(p) => EpisodeLeft(p)' <= EpisodeLeft(p)]_vars
    BY ProgressLowers, NobodyRaises
  <1> QED
    BY NamesAtFirst, NamesStep, <1>1, Inductive, PTL DEF Spec

-----------------------------------------------------------------------------
(* What a torn solution goes back to.                                       *)

\* The directories of a task are numbered without gaps.
Gapless == \A d \in dirs : \A k \in Nat : k < d.n => [task |-> d.task, n |-> k] \in dirs

\* e is the directory of the episode that tears, or tore, the solution s: no UCR
\* is in it, and whoever came by one after it has another.
TornBy(s, e) ==
    /\ e.task = s.of /\ ucrFile[e] = Absent
    /\ \A p \in Processes : Active(p) /\ pc[p] # "name" /\ dir[p].task = s.of =>
          e.n < dir[p].n \/ (dir[p] = e /\ pc[p] = "storing")
    /\ \A d \in dirs : Readable(d) /\ d.task = s.of => e.n < d.n

TornOK ==
    sink = "disk" /\ ~overlap =>
        \A s \in torn : s = Solution(s.of) /\ \E e \in dirs : TornBy(s, e)

LEMMA GaplessStep == IInv /\ NameInv /\ Gapless /\ [Next]_vars => Gapless'
  <1> SUFFICES ASSUME IInv, NameInv, Gapless, [Next]_vars PROVE Gapless'
    OBVIOUS
  <1>1. CASE dirs' = dirs
    BY <1>1 DEF Gapless
  <1>2. ASSUME NEW a \in Processes, MakeDir(a) PROVE Gapless'
    <2>1. dirs' = dirs \cup {dir[a]} /\ Active(a)
      BY <1>2 DEF MakeDir, Transition, Active, Resting
    <2> QED
      BY <2>1 DEF Gapless, NameInv, PassedNames
  <1>3. CASE UNCHANGED vars
    BY <1>1, <1>3 DEF vars, files
  <1>4. CASE \E a \in Processes, t \in Tasks : Begin(a, t)
    BY <1>1, <1>4 DEF Begin, files
  <1>5. ASSUME NEW a \in Processes, Progress(a) \/ Fault(a) PROVE Gapless'
    <2>1. MakeDir(a) \/ dirs' = dirs
      BY <1>5 DEF Progress, TryNextName, TakeName, OpenSolution, FillSolution,
         KeepSolution, SolveRaises, Verify, VerifyRaises, SkipRepair, RepairRaises,
         DecideAndPack, PutUcr, WriteUcr, WriteWitness, AppendDb, AppendChain, Fault, files
    <2> QED
      BY <1>1, <1>2, <2>1
  <1> QED
    BY <1>3, <1>4, <1>5 DEF Next

\* A directory that is taken comes after all that are there.
LEMMA TakenIsLast ==
    ASSUME Gapless, NEW d \in RunDirs, d \notin dirs, dirs \subseteq RunDirs,
           NEW e \in dirs, e.task = d.task
    PROVE  e.n < d.n
  <1>1. PICK t, k : t = d.task /\ k = d.n
    OBVIOUS
  <1>2. d = [task |-> t, n |-> k] /\ k \in Nat
    BY <1>1 DEF RunDirs
  <1>3. PICK m : m = e.n
    OBVIOUS
  <1>4. e = [task |-> t, n |-> m] /\ m \in Nat
    BY <1>1, <1>3 DEF RunDirs
  <1>5. ~(k < m)
    BY <1>1, <1>2, <1>3 DEF Gapless
  <1>6. m # k
    BY <1>2, <1>4
  <1> QED
    BY <1>1, <1>2, <1>3, <1>4, <1>5, <1>6

\* The steps that neither choose a name nor touch the solution.
LEMMA TornStays ==
    ASSUME IInv, TornOK, NEW a \in Processes, Progress(a) \/ Fault(a),
           ~TryNextName(a), ~TakeName(a), ~MakeDir(a), ~OpenSolution(a), ~FillSolution(a)
    PROVE  TornOK'
  <1>1. /\ UNCHANGED <<dir, dirs, torn>>
        /\ Active(a)' => pc[a] \notin {"name", "storing"} /\ pc'[a] # "storing"
    BY DEF Progress, KeepSolution, SolveRaises, Verify, VerifyRaises, SkipRepair, RepairRaises,
       DecideAndPack, PutUcr, WriteUcr, WriteWitness, AppendDb, AppendChain, Fault, Transition,
       files, store, Active, Resting, IInv, TypeOK
  <1>2. SUFFICES ASSUME sink = "disk", ~overlap', NEW s \in torn
                 PROVE  s = Solution(s.of) /\ \E e \in dirs : TornBy(s, e)'
    BY <1>1, OwnRecords DEF TornOK, Solution
  <1>3. ~overlap /\ \A q \in Processes \ {a} : ~Active(q) /\ ~Active(q)'
    BY <1>2, OwnRecords, OnlyOne DEF Active
  <1>4. s = Solution(s.of) /\ \E e \in dirs : TornBy(s, e)
    BY <1>2, <1>3 DEF TornOK
  <1>5. PICK e \in dirs : TornBy(s, e)
    BY <1>4
  <1>6. TornBy(s, e)'
    <2>1. /\ e.task = s.of /\ ucrFile[e] = Absent
          /\ Active(a) /\ pc[a] # "name" /\ dir[a].task = s.of =>
                e.n < dir[a].n \/ (dir[a] = e /\ pc[a] = "storing")
      BY <1>5 DEF TornBy
    <2>2. dir[a] \in RunDirs /\ e \in RunDirs /\ e.n \in Nat /\ Active(a)
      BY OwnRecords, InRunDirs DEF IInv, TypeOK, RunDirs
    <2>3. pc[a] = "ucrfile" => dir[a] # e
      BY <2>1, <2>2
    <2>4. ucrFile'[e] = Absent
      BY <2>1, <2>3, OwnRecords
    <2>5. \A p \in Processes : Active(p)' /\ dir[p].task = s.of => p = a /\ e.n < dir[p].n
      BY <1>1, <1>3, <2>1, <2>2
    <2>6. ASSUME NEW d \in dirs, ucrFile'[d].state = "whole", d.task = s.of PROVE e.n < d.n
      <3>1. CASE ucrFile'[d] = ucrFile[d]
        BY <1>5, <2>6, <3>1 DEF TornBy, Readable
      <3>2. CASE ucrFile'[d] # ucrFile[d]
        <4>1. d = dir[a] /\ pc[a] = "ucrfile"
          BY <3>2, OwnRecords
        <4> QED
          BY <2>1, <2>2, <2>6, <4>1
      <3> QED
        BY <3>1, <3>2
    <2> QED
      BY <1>1, <2>1, <2>4, <2>5, <2>6 DEF TornBy, Readable
  <1> QED
    BY <1>4, <1>6

\* The steps that choose a directory and make it.
LEMMA TornNamed ==
    ASSUME IInv, Gapless, TornOK, NEW a \in Processes, TryNextName(a) \/ TakeName(a) \/ MakeDir(a)
    PROVE  TornOK'
  <1>1. /\ torn' = torn /\ Active(a) /\ \A d \in dirs : ucrFile'[d] = ucrFile[d]
        /\ pc'[a] # "name" => dir'[a] = dir[a] /\ pc'[a] \in {"mkdir", "solve"}
        /\ pc[a] \in {"name", "mkdir"}
        /\ pc[a] = "name" /\ pc'[a] # "name" => dir[a] \notin dirs
    BY DEF TryNextName, TakeName, MakeDir, With, Transition, store, files, Active, Resting,
       IInv, TypeOK
  <1>2. SUFFICES ASSUME sink = "disk", ~overlap', NEW s \in torn
                 PROVE  s = Solution(s.of) /\ \E e \in dirs' : TornBy(s, e)'
    BY <1>1, OwnRecords DEF TornOK, Solution, Progress
  <1>3. ~overlap /\ \A q \in Processes \ {a} : ~Active(q) /\ ~Active(q)'
    BY <1>1, <1>2, OwnRecords, OnlyOne DEF Active, Progress
  <1>4. s = Solution(s.of) /\ \E e \in dirs : TornBy(s, e)
    BY <1>2, <1>3 DEF TornOK
  <1>5. PICK e \in dirs : TornBy(s, e)
    BY <1>4
  <1>6. TornBy(s, e)'
    <2>1. e.task = s.of /\ ucrFile'[e] = Absent
      BY <1>1, <1>5 DEF TornBy
    <2>2. pc'[a] # "name" /\ dir[a].task = s.of => e.n < dir[a].n
      <3>1. CASE pc[a] = "name"
        <4>1. dir[a] \in RunDirs /\ dirs \subseteq RunDirs
          BY <1>1, InRunDirs DEF IInv, TypeOK
        <4> QED
          BY <1>1, <2>1, <3>1, <4>1, TakenIsLast
      <3>2. CASE pc[a] # "name"
        BY <1>1, <1>5, <3>2 DEF TornBy
      <3> QED
        BY <3>1, <3>2
    <2>3. \A p \in Processes : Active(p)' /\ pc'[p] # "name" /\ dir'[p].task = s.of => e.n < dir'[p].n
      BY <1>1, <1>3, <2>2
    <2>4. \A d \in dirs' : ucrFile'[d].state = "whole" => d \in dirs /\ ucrFile[d].state = "whole"
      <3>1. \A d \in dirs' \ dirs : ucrFile'[d] = Absent
        BY DEF TryNextName, TakeName, MakeDir, With, files
      <3> QED
        BY <1>1, <3>1 DEF Absent
    <2>5. \A d \in dirs' : ucrFile'[d].state = "whole" /\ d.task = s.of => e.n < d.n
      BY <1>5, <2>4 DEF TornBy, Readable
    <2> QED
      BY <2>1, <2>3, <2>5 DEF TornBy, Readable
  <1>7. e \in dirs'
    BY OwnRecords DEF Progress
  <1> QED
    BY <1>4, <1>6, <1>7

\* A solution is torn from the moment its blob is there until it is written.
LEMMA TornOpened ==
    ASSUME IInv, TornOK, NEW a \in Processes, OpenSolution(a) \/ FillSolution(a)
    PROVE  TornOK'
  <1> DEFINE own == Solution(ucr[a].task)
  <1>0. own.of = ucr[a].task /\ own = Solution(own.of)
    BY DEF Solution
  <1>1. /\ UNCHANGED <<sink, overlap, dir, dirs, ucrFile>> /\ Active(a)
        /\ \/ pc[a] = "solve" /\ pc'[a] = "storing" /\ torn' = torn \cup {own} /\ own \notin stored
           \/ pc[a] = "storing" /\ pc'[a] = "verify" /\ torn' = torn \ {own}
    BY DEF OpenSolution, FillSolution, Transition, environment, history, files, Active, Resting,
       IInv, TypeOK
  <1>2. dir[a].task = own.of /\ dir[a] \in dirs
    BY <1>0, <1>1 DEF IInv, EpisodeOK, TypeOK, Resting
  <1> HIDE DEF own
  <1>3. SUFFICES ASSUME sink = "disk", ~overlap', NEW s \in torn'
                 PROVE  s = Solution(s.of) /\ \E e \in dirs : TornBy(s, e)'
    BY <1>1 DEF TornOK, Solution
  <1>4. ~overlap /\ \A q \in Processes \ {a} : ~Active(q) /\ ~Active(q)'
    BY <1>1, <1>3, OnlyOne, OwnRecords DEF Active, Progress
  <1>5. CASE s \in torn
    <2>1. s = Solution(s.of) /\ \E e \in dirs : TornBy(s, e)
      BY <1>3, <1>4, <1>5 DEF TornOK
    <2>2. PICK e \in dirs : TornBy(s, e)
      BY <2>1
    <2>3. s.of # own.of
      <3>1. s # own
        BY <1>1, <1>3, <1>5 DEF IInv, TypeOK
      <3> QED
        BY <1>0, <2>1, <3>1
    <2>4. \A p \in Processes : ~(Active(p)' /\ dir[p].task = s.of)
      BY <1>2, <1>4, <2>3
    <2>5. TornBy(s, e)'
      BY <1>1, <2>2, <2>4 DEF TornBy, Readable
    <2> QED
      BY <2>1, <2>5
  <1>6. CASE s \notin torn
    <2>1. s = own /\ pc[a] = "solve" /\ pc'[a] = "storing" /\ own \notin stored
      BY <1>1, <1>3, <1>6
    <2>2. ucrFile[dir[a]] = Absent
      BY <1>2, <1>4, <2>1 DEF IInv, DirOK, Unwritten, Unrecorded
    <2>3. \A d \in dirs : Readable(d) => d.task # own.of
      BY <1>0, <1>3, <2>1 DEF IInv, SolutionStored
    <2>4. PICK e \in dirs : e = dir[a]
      BY <1>2
    <2>5. TornBy(s, e)'
      BY <1>1, <1>2, <1>4, <2>1, <2>2, <2>3, <2>4 DEF TornBy, Readable
    <2> QED
      BY <1>0, <2>1, <2>5
  <1> QED
    BY <1>5, <1>6

LEMMA TornStep == IInv /\ Gapless /\ TornOK /\ [Next]_vars => TornOK'
  <1> SUFFICES ASSUME IInv, Gapless, TornOK, [Next]_vars PROVE TornOK'
    OBVIOUS
  <1>1. CASE UNCHANGED vars
    BY <1>1 DEF vars, environment, files, store, history, TornOK, TornBy, Readable, Active, Solution
  <1>2. ASSUME NEW a \in Processes, NEW t \in Tasks, Begin(a, t) PROVE TornOK'
    <2>1. /\ pc'[a] = "name" /\ UNCHANGED <<sink, dirs, ucrFile, torn>>
          /\ \A q \in Processes \ {a} : pc'[q] = pc[q] /\ dir'[q] = dir[q]
          /\ ~overlap' => ~overlap
      BY <1>2 DEF Begin, environment, files, store, IInv, TypeOK
    <2>2. ASSUME NEW s, NEW e, TornBy(s, e) PROVE TornBy(s, e)'
      BY <2>1, <2>2 DEF TornBy, Readable, Active
    <2> QED
      BY <2>1, <2>2 DEF TornOK, Solution
  <1>3. ASSUME NEW a \in Processes, Progress(a) \/ Fault(a) PROVE TornOK'
    BY <1>3, TornStays, TornNamed, TornOpened
  <1> QED
    BY <1>1, <1>2, <1>3 DEF Next

\* The UCR of a run directory can be replayed, unless an earlier episode of its
\* task was stopped in the middle of the solution (SOLUTION_SINK=disk).
THEOREM UcrsCanBeReplayed == Spec => []ReplayableUnlessTorn
  <1>1. Init => Gapless /\ TornOK
    BY DEF Init, Gapless, TornOK
  <1>2. IInv /\ TornOK => ReplayableUnlessTorn
    <2> SUFFICES ASSUME IInv, TornOK, sink = "disk", NEW d \in dirs, Readable(d)
                 PROVE  /\ Solution(d.task) \in stored
                        /\ ~overlap /\ Solution(d.task) \in torn =>
                              \E e \in dirs : e.task = d.task /\ e.n < d.n /\ ucrFile[e] = Absent
      BY DEF ReplayableUnlessTorn
    <2>1. Solution(d.task) \in stored
      BY DEF IInv, SolutionStored
    <2>2. ASSUME ~overlap, Solution(d.task) \in torn
          PROVE  \E e \in dirs : e.task = d.task /\ e.n < d.n /\ ucrFile[e] = Absent
      <3>1. PICK e \in dirs : TornBy(Solution(d.task), e)
        BY <2>2 DEF TornOK
      <3>2. Solution(d.task).of = d.task
        BY DEF Solution
      <3> QED
        BY <3>1, <3>2 DEF TornBy
    <2> QED
      BY <2>1, <2>2
  <1> QED
    BY <1>1, <1>2, NamesAtFirst, NamesStep, GaplessStep, TornStep, Inductive, PTL DEF Spec
=============================================================================
